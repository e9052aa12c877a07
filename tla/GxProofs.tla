------------------------------ MODULE GxProofs ------------------------------
(* The graphics commands, for every program and every display list: that   *)
(* decoding ends, that it does what the commands written in full do        *)
(* (SyncInv), and what the draws among them are made of (GoodState).       *)
EXTENDS GxMeaning, FiniteSetTheorems, SequenceTheorems, WellFoundedInduction, TLAPS

-----------------------------------------------------------------------------
(* Sequences of sequences.                                                 *)

LEMMA LeastNatural ==
  ASSUME NEW S, S \subseteq Nat, S # {}
  PROVE  \E i \in S : \A j \in S : i <= j
<1> DEFINE less == {pair \in Nat \X Nat : pair[1] < pair[2]}
<1>1. IsWellFoundedOn(less, Nat)
  BY NatLessThanWellFounded DEF OpToRel
<1> HIDE DEF less
<1>2. PICK i \in S : \A j \in S : <<j, i>> \notin less
  BY <1>1, WFMin
<1>3. \A j \in S : ~(j < i)
  BY <1>2 DEF less
<1>4. QED
  BY <1>3

(* The function whose last value is FlattenSeq.                            *)
Flattens(g, ss, n) == g = [i \in 1..n |-> IF i = 1 THEN ss[i] ELSE g[i - 1] \o ss[i]]

LEMMA FlattenIsChosen ==
  ASSUME NEW ss, Len(ss) # 0
  PROVE  FlattenSeq(ss) = (CHOOSE g : Flattens(g, ss, Len(ss)))[Len(ss)]
BY DEF FlattenSeq, Flattens

LEMMA FlattensAt ==
  ASSUME NEW ss, NEW n \in Nat, NEW g, Flattens(g, ss, n), NEW i \in 1..n
  PROVE  g[i] = IF i = 1 THEN ss[i] ELSE g[i - 1] \o ss[i]
<1> DEFINE value(j) == IF j = 1 THEN ss[j] ELSE g[j - 1] \o ss[j]
<1>1. g = [j \in 1..n |-> value(j)]
  BY DEF Flattens
<1> HIDE DEF value
<1>2. g[i] = value(i)
  BY <1>1
<1>3. QED
  BY <1>2 DEF value

LEMMA FlattensExist ==
  ASSUME NEW ss, NEW n \in Nat
  PROVE  \E g : Flattens(g, ss, n)
<1> DEFINE none == {m \in Nat : ~ \E g : Flattens(g, ss, m)}
<1> SUFFICES ASSUME none # {} PROVE FALSE
  OBVIOUS
<1>1. PICK m \in none : \A k \in none : m <= k
  <2>1. none \subseteq Nat
    OBVIOUS
  <2> HIDE DEF none
  <2>2. QED
    BY <2>1, LeastNatural
<1>2. m # 0
  <2>1. Flattens(<<>>, ss, 0)
    BY DEF Flattens
  <2>2. QED
    BY <2>1
<1>3. m - 1 \in Nat /\ m - 1 \notin none
  BY <1>1, <1>2
<1>4. PICK g : Flattens(g, ss, m - 1)
  BY <1>3
<1> DEFINE h == [i \in 1..m |-> IF i = 1 THEN ss[i] ELSE g[i - 1] \o ss[i]]
<1>5. \A i \in 1..m : i # 1 => h[i - 1] = g[i - 1]
  BY <1>3, <1>4, FlattensAt
<1>6. Flattens(h, ss, m)
  <2>1. h = [i \in 1..m |-> IF i = 1 THEN ss[i] ELSE h[i - 1] \o ss[i]]
    BY <1>5
  <2>2. QED
    BY <2>1 DEF Flattens
<1>7. QED
  BY <1>6

SameUpto(s, t, n) == \A i \in 1..n : s[i] = t[i]

LEMMA FlattensAgree ==
  ASSUME NEW ss, NEW tt, NEW n \in Nat, NEW m \in Nat, NEW g, NEW h,
         Flattens(g, ss, n), Flattens(h, tt, m),
         NEW k \in Nat, k <= n, k <= m, SameUpto(ss, tt, k)
  PROVE  SameUpto(g, h, k)
<1> DEFINE differ == {i \in 1..k : g[i] # h[i]}
<1> SUFFICES ASSUME differ # {} PROVE FALSE
  BY DEF SameUpto
<1>1. PICK i \in differ : \A j \in differ : i <= j
  <2>1. differ \subseteq Nat
    OBVIOUS
  <2> HIDE DEF differ
  <2>2. QED
    BY <2>1, LeastNatural
<1>2. g[i] = IF i = 1 THEN ss[i] ELSE g[i - 1] \o ss[i]
  BY FlattensAt
<1>3. h[i] = IF i = 1 THEN tt[i] ELSE h[i - 1] \o tt[i]
  BY FlattensAt
<1>4. i # 1 => g[i - 1] = h[i - 1]
  BY <1>1
<1>5. QED
  BY <1>2, <1>3, <1>4 DEF SameUpto

LEMMA FlattenOfNone == FlattenSeq(<<>>) = <<>>
BY DEF FlattenSeq

LEMMA FlattenAppend ==
  ASSUME NEW T, NEW ss \in Seq(Seq(T)), NEW s \in Seq(T)
  PROVE  FlattenSeq(Append(ss, s)) = FlattenSeq(ss) \o s
<1> DEFINE tt == Append(ss, s)
           n == Len(ss)
           g == CHOOSE g : Flattens(g, ss, n)
           h == CHOOSE h : Flattens(h, tt, n + 1)
<1>1. n \in Nat /\ Len(tt) = n + 1 /\ tt[n + 1] = s /\ \A i \in 1..n : tt[i] = ss[i]
  OBVIOUS
<1> HIDE DEF tt
<1>2. Flattens(h, tt, n + 1) /\ Flattens(g, ss, n)
  <2>1. n + 1 \in Nat
    BY <1>1
  <2> HIDE DEF n
  <2>2. \E f : Flattens(f, tt, n + 1)
    BY <2>1, FlattensExist
  <2>3. \E f : Flattens(f, ss, n)
    BY <1>1, FlattensExist
  <2>4. QED
    BY <2>2, <2>3
<1>3. FlattenSeq(tt) = h[n + 1]
  BY <1>1, FlattenIsChosen
<1>4. n # 0 => FlattenSeq(ss) = g[n]
  BY FlattenIsChosen
<1>5. n = 0 => FlattenSeq(ss) = <<>>
  <2>1. n = 0 => ss = <<>>
    OBVIOUS
  <2>2. QED
    BY <2>1, FlattenOfNone
<1> HIDE DEF g, h, n
<1>6. h[n + 1] = IF n + 1 = 1 THEN s ELSE h[n] \o s
  <2>1. n + 1 \in Nat /\ n + 1 \in 1..(n + 1) /\ (n + 1) - 1 = n
    BY <1>1
  <2>2. h[n + 1] = IF n + 1 = 1 THEN tt[n + 1] ELSE h[(n + 1) - 1] \o tt[n + 1]
    BY <1>2, <2>1, FlattensAt
  <2>3. QED
    BY <1>1, <2>1, <2>2
<1>7. n # 0 => h[n] = g[n]
  <2>1. n + 1 \in Nat /\ n <= n + 1 /\ n <= n
    BY <1>1
  <2>2. SameUpto(tt, ss, n)
    BY <1>1 DEF SameUpto
  <2>3. SameUpto(h, g, n)
    BY <1>1, <1>2, <2>1, <2>2, FlattensAgree
  <2>4. QED
    BY <1>1, <2>3 DEF SameUpto
<1>8. CASE n = 0
  BY <1>3, <1>5, <1>6, <1>8 DEF tt
<1>9. CASE n # 0
  <2>1. n + 1 # 1
    BY <1>1, <1>9
  <2>2. h[n + 1] = g[n] \o s
    BY <1>6, <1>7, <1>9, <2>1
  <2>3. QED
    BY <1>3, <1>4, <1>9, <2>2 DEF tt
<1>10. QED
  BY <1>8, <1>9

(* The prefixes of a sequence, the way an induction over it goes.          *)
LEMMA PrefixFacts ==
  ASSUME NEW T, NEW s \in Seq(T)
  PROVE  /\ SubSeq(s, 1, 0) = <<>>
         /\ SubSeq(s, 1, Len(s)) = s
         /\ \A n \in 0..Len(s) : SubSeq(s, 1, n) \in Seq(T)
         /\ \A n \in 1..Len(s) : s[n] \in T /\ SubSeq(s, 1, n) = Append(SubSeq(s, 1, n - 1), s[n])
OBVIOUS

LEMMA FirstBad ==
  ASSUME NEW n \in Nat, NEW bad, bad \subseteq 0..n, bad # {}, 0 \notin bad
  PROVE  \E i \in bad : i \in 1..n /\ i - 1 \in 0..n /\ i - 1 \notin bad
<1>1. bad \subseteq Nat
  OBVIOUS
<1>2. PICK i \in bad : \A j \in bad : i <= j
  BY <1>1, LeastNatural
<1>3. QED
  BY <1>2

LEMMA FlattenTyped ==
  ASSUME NEW T, NEW ss \in Seq(Seq(T))
  PROVE  FlattenSeq(ss) \in Seq(T)
<1> DEFINE n == Len(ss)
           bad == {i \in 0..n : FlattenSeq(SubSeq(ss, 1, i)) \notin Seq(T)}
<1>1. n \in Nat
  OBVIOUS
<1>2. 0 \notin bad
  <2>1. SubSeq(ss, 1, 0) = <<>>
    BY PrefixFacts
  <2>2. FlattenSeq(SubSeq(ss, 1, 0)) = <<>>
    BY <2>1, FlattenOfNone
  <2>3. <<>> \in Seq(T)
    OBVIOUS
  <2>4. 0 \in bad => FlattenSeq(SubSeq(ss, 1, 0)) \notin Seq(T)
    OBVIOUS
  <2> HIDE DEF bad
  <2>5. QED
    BY <2>2, <2>3, <2>4
<1> SUFFICES ASSUME bad # {} PROVE FALSE
  <2>1. SubSeq(ss, 1, n) = ss
    BY PrefixFacts
  <2>2. bad = {} => FlattenSeq(SubSeq(ss, 1, n)) \in Seq(T)
    BY <1>1
  <2>3. QED
    BY <2>1, <2>2
<1>3. PICK i \in bad : i \in 1..n /\ i - 1 \in 0..n /\ i - 1 \notin bad
  <2> HIDE DEF bad, n
  <2>1. bad \subseteq 0..n
    BY DEF bad
  <2>2. QED
    BY <1>1, <1>2, <2>1, FirstBad
<1>4. FlattenSeq(SubSeq(ss, 1, i - 1)) \in Seq(T)
  BY <1>3
<1>5. /\ SubSeq(ss, 1, i - 1) \in Seq(Seq(T)) /\ ss[i] \in Seq(T)
      /\ SubSeq(ss, 1, i) = Append(SubSeq(ss, 1, i - 1), ss[i])
  BY <1>3, PrefixFacts
<1>6. FlattenSeq(SubSeq(ss, 1, i)) = FlattenSeq(SubSeq(ss, 1, i - 1)) \o ss[i]
  BY <1>5, FlattenAppend
<1>7. FlattenSeq(SubSeq(ss, 1, i)) \in Seq(T)
  BY <1>4, <1>5, <1>6, ConcatProperties
<1>8. QED
  BY <1>7

LEMMA AppendConcat ==
  ASSUME NEW T, NEW s \in Seq(T), NEW t \in Seq(T), NEW x \in T
  PROVE  s \o Append(t, x) = Append(s \o t, x) /\ s \o t \in Seq(T)
OBVIOUS

LEMMA FlattenConcat ==
  ASSUME NEW T, NEW ss \in Seq(Seq(T)), NEW tt \in Seq(Seq(T))
  PROVE  FlattenSeq(ss \o tt) = FlattenSeq(ss) \o FlattenSeq(tt)
<1> DEFINE n == Len(tt)
           Split(i) == FlattenSeq(ss \o SubSeq(tt, 1, i)) = FlattenSeq(ss) \o FlattenSeq(SubSeq(tt, 1, i))
           bad == {i \in 0..n : ~Split(i)}
<1>1. n \in Nat
  OBVIOUS
<1>2. FlattenSeq(ss) \in Seq(T)
  BY FlattenTyped
<1>3. 0 \notin bad
  <2>1. SubSeq(tt, 1, 0) = <<>> /\ ss \o <<>> = ss
    BY PrefixFacts, ConcatEmptySeq
  <2>2. FlattenSeq(ss) \o <<>> = FlattenSeq(ss)
    BY <1>2, ConcatEmptySeq
  <2>3. Split(0)
    BY <2>1, <2>2, FlattenOfNone
  <2>4. QED
    BY <2>3
<1> SUFFICES ASSUME bad # {} PROVE FALSE
  <2>1. SubSeq(tt, 1, n) = tt
    BY PrefixFacts
  <2>2. bad = {} => Split(n)
    BY <1>1
  <2>3. QED
    BY <2>1, <2>2
<1>4. PICK i \in bad : i \in 1..n /\ i - 1 \in 0..n /\ i - 1 \notin bad
  <2> HIDE DEF bad, n
  <2>1. bad \subseteq 0..n
    BY DEF bad
  <2>2. QED
    BY <1>1, <1>3, <2>1, FirstBad
<1> DEFINE front == SubSeq(tt, 1, i - 1)
<1>5. FlattenSeq(ss \o front) = FlattenSeq(ss) \o FlattenSeq(front)
  BY <1>4
<1>6. SubSeq(tt, 1, i) = Append(front, tt[i]) /\ front \in Seq(Seq(T)) /\ tt[i] \in Seq(T)
  BY <1>4, PrefixFacts
<1>7. ~Split(i)
  BY <1>4
<1> HIDE DEF front, bad
<1>8. ss \o SubSeq(tt, 1, i) = Append(ss \o front, tt[i]) /\ ss \o front \in Seq(Seq(T))
  <2> DEFINE x == tt[i]
             L == Seq(T)
  <2>1. front \in Seq(L) /\ x \in L /\ ss \in Seq(L)
    BY <1>6
  <2> HIDE DEF x, L
  <2>2. ss \o Append(front, x) = Append(ss \o front, x) /\ ss \o front \in Seq(L)
    BY <2>1, AppendConcat
  <2>3. QED
    BY <1>6, <2>2 DEF x, L
<1>9. FlattenSeq(ss \o SubSeq(tt, 1, i)) = FlattenSeq(ss \o front) \o tt[i]
  BY <1>6, <1>8, FlattenAppend
<1>10. FlattenSeq(SubSeq(tt, 1, i)) = FlattenSeq(front) \o tt[i]
  BY <1>6, FlattenAppend
<1>11. FlattenSeq(front) \in Seq(T)
  BY <1>6, FlattenTyped
<1>12. (FlattenSeq(ss) \o FlattenSeq(front)) \o tt[i] = FlattenSeq(ss) \o (FlattenSeq(front) \o tt[i])
  <2> DEFINE a == FlattenSeq(ss)
             b == FlattenSeq(front)
             c == tt[i]
  <2>1. a \in Seq(T) /\ b \in Seq(T) /\ c \in Seq(T)
    BY <1>2, <1>6, <1>11
  <2> HIDE DEF a, b, c
  <2>2. (a \o b) \o c = a \o (b \o c)
    BY <2>1, ConcatAssociative
  <2>3. QED
    BY <2>2 DEF a, b, c
<1>13. QED
  BY <1>5, <1>7, <1>9, <1>10, <1>12

-----------------------------------------------------------------------------
(* Folds over a sequence, of the three steps this specification folds.     *)

LEMMA MaxIsGreatest ==
  ASSUME NEW n \in Nat, NEW S, S \subseteq 1..n, S # {}
  PROVE  Max(S) \in S /\ \A x \in S : x <= Max(S)
<1> DEFINE T == {n - x : x \in S}
<1>1. T \subseteq Nat /\ T # {}
  <2>1. \A x \in S : n - x \in Nat
    OBVIOUS
  <2>2. QED
    BY <2>1
<1>2. PICK m \in T : \A y \in T : m <= y
  <2> HIDE DEF T
  <2>1. QED
    BY <1>1, LeastNatural
<1>3. PICK x \in S : m = n - x
  OBVIOUS
<1>4. ASSUME NEW y \in S PROVE x >= y
  <2>1. m <= n - y
    BY <1>2
  <2>2. x \in 1..n /\ y \in 1..n
    OBVIOUS
  <2>3. QED
    BY <1>3, <2>1, <2>2
<1>5. Max(S) \in S /\ \A y \in S : Max(S) >= y
  BY <1>4 DEF Max
<1>6. QED
  BY <1>5

FoldStep(kind, data, x, y) ==
  CASE kind = "read" -> Read(data, x, y)
    [] kind = "apply" -> Apply(x, y)
    [] OTHER -> x + y

FoldAt(g, kind, data, base, seq, s) ==
  IF s = {} THEN base ELSE FoldStep(kind, data, g[s \ {Max(s)}], seq[Max(s)])

(* The function whose value for all of a sequence is its FoldLeft.         *)
Folds(g, kind, data, base, seq, n) ==
  g = [s \in SUBSET (1..n) |-> FoldAt(g, kind, data, base, seq, s)]

LEMMA FoldsAt ==
  ASSUME NEW kind, NEW data, NEW base, NEW seq, NEW n \in Nat, NEW g,
         Folds(g, kind, data, base, seq, n), NEW s \in SUBSET (1..n)
  PROVE  g[s] = FoldAt(g, kind, data, base, seq, s)
<1> DEFINE value(t) == FoldAt(g, kind, data, base, seq, t)
<1>1. g = [t \in SUBSET (1..n) |-> value(t)]
  BY DEF Folds
<1> HIDE DEF value
<1>2. g[s] = value(s)
  BY <1>1
<1>3. QED
  BY <1>2 DEF value

LEMMA FoldsExist ==
  ASSUME NEW kind, NEW data, NEW base, NEW seq, NEW n \in Nat
  PROVE  \E g : Folds(g, kind, data, base, seq, n)
<1> DEFINE none == {m \in Nat : ~ \E g : Folds(g, kind, data, base, seq, m)}
<1> SUFFICES ASSUME none # {} PROVE FALSE
  OBVIOUS
<1>1. PICK m \in none : \A k \in none : m <= k
  <2>1. none \subseteq Nat
    OBVIOUS
  <2> HIDE DEF none
  <2>2. QED
    BY <2>1, LeastNatural
<1>2. m # 0
  <2> DEFINE one == [s \in SUBSET (1..0) |-> base]
  <2>1. \A s \in SUBSET (1..0) : s = {}
    OBVIOUS
  <2>2. one = [s \in SUBSET (1..0) |-> FoldAt(one, kind, data, base, seq, s)]
    BY <2>1 DEF FoldAt
  <2>3. Folds(one, kind, data, base, seq, 0)
    BY <2>2 DEF Folds
  <2>4. QED
    BY <2>3
<1>3. m - 1 \in Nat /\ m - 1 \notin none /\ m \in Nat
  BY <1>1, <1>2
<1>4. PICK g : Folds(g, kind, data, base, seq, m - 1)
  BY <1>3
<1> DEFINE h == [s \in SUBSET (1..m) |-> FoldAt(g, kind, data, base, seq, s)]
<1>5. ASSUME NEW s \in SUBSET (1..m), s # {}
      PROVE  h[s \ {Max(s)}] = g[s \ {Max(s)}]
  <2>1. Max(s) \in s /\ \A x \in s : x <= Max(s)
    BY <1>3, <1>5, MaxIsGreatest
  <2>2. s \ {Max(s)} \in SUBSET (1..(m - 1)) /\ s \ {Max(s)} \in SUBSET (1..m)
    <3> DEFINE top == Max(s)
    <3>1. top \in 1..m /\ \A x \in s : x \in 1..m /\ x <= top
      BY <2>1
    <3> HIDE DEF top
    <3>2. \A x \in s : x # top => x \in 1..(m - 1)
      BY <1>3, <3>1
    <3>3. QED
      BY <3>2 DEF top
  <2>3. g[s \ {Max(s)}] = FoldAt(g, kind, data, base, seq, s \ {Max(s)})
    BY <1>3, <1>4, <2>2, FoldsAt
  <2>4. QED
    BY <2>2, <2>3
<1>6. Folds(h, kind, data, base, seq, m)
  <2>1. \A s \in SUBSET (1..m) : FoldAt(g, kind, data, base, seq, s) = FoldAt(h, kind, data, base, seq, s)
    <3> HIDE DEF h
    <3>1. QED
      BY <1>5 DEF FoldAt
  <2>2. h = [s \in SUBSET (1..m) |-> FoldAt(h, kind, data, base, seq, s)]
    BY <2>1
  <2>3. QED
    BY <2>2 DEF Folds
<1>7. QED
  BY <1>3, <1>6

LEMMA FoldsFirst ==
  ASSUME NEW kind, NEW data, NEW base, NEW seq, NEW n \in Nat, NEW g,
         Folds(g, kind, data, base, seq, n)
  PROVE  g[1..0] = base
<1>1. {} \in SUBSET (1..n) /\ 1..0 = {}
  OBVIOUS
<1>2. g[{}] = FoldAt(g, kind, data, base, seq, {})
  BY <1>1, FoldsAt
<1>3. g[{}] = base
  BY <1>2 DEF FoldAt
<1>4. QED
  BY <1>1, <1>3

LEMMA FoldsNext ==
  ASSUME NEW kind, NEW data, NEW base, NEW seq, NEW n \in Nat, NEW g,
         Folds(g, kind, data, base, seq, n), NEW i \in 1..n
  PROVE  g[1..i] = FoldStep(kind, data, g[1..(i - 1)], seq[i])
<1>1. 1..i \in SUBSET (1..n) /\ 1..i # {} /\ i \in Nat
  OBVIOUS
<1>2. Max(1..i) = i
  <2>1. Max(1..i) \in 1..i /\ \A x \in 1..i : x <= Max(1..i)
    BY <1>1, MaxIsGreatest
  <2>2. QED
    BY <1>1, <2>1
<1>3. (1..i) \ {i} = 1..(i - 1)
  BY <1>1
<1>4. g[1..i] = FoldAt(g, kind, data, base, seq, 1..i)
  BY <1>1, FoldsAt
<1>5. QED
  BY <1>1, <1>2, <1>3, <1>4 DEF FoldAt

LEMMA FoldsAgree ==
  ASSUME NEW kind, NEW data, NEW base, NEW n \in Nat, NEW m \in Nat, NEW s, NEW t,
         NEW g, NEW h, Folds(g, kind, data, base, s, n), Folds(h, kind, data, base, t, m),
         NEW k \in Nat, k <= n, k <= m, SameUpto(s, t, k)
  PROVE  g[1..k] = h[1..k]
<1> DEFINE bad == {i \in 0..k : g[1..i] # h[1..i]}
<1>1. 0 \notin bad
  <2>1. g[1..0] = base /\ h[1..0] = base
    BY FoldsFirst
  <2>2. QED
    BY <2>1
<1> SUFFICES ASSUME bad # {} PROVE FALSE
  OBVIOUS
<1>2. PICK i \in bad : i \in 1..k /\ i - 1 \in 0..k /\ i - 1 \notin bad
  <2>1. bad \subseteq 0..k
    OBVIOUS
  <2> HIDE DEF bad
  <2>2. QED
    BY <1>1, <2>1, FirstBad
<1>3. i \in 1..n /\ i \in 1..m
  BY <1>2
<1>4. g[1..i] = FoldStep(kind, data, g[1..(i - 1)], s[i])
  BY <1>3, FoldsNext
<1>5. h[1..i] = FoldStep(kind, data, h[1..(i - 1)], t[i])
  BY <1>3, FoldsNext
<1>6. g[1..(i - 1)] = h[1..(i - 1)]
  BY <1>2
<1>7. s[i] = t[i]
  BY <1>2 DEF SameUpto
<1>8. g[1..i] # h[1..i]
  OBVIOUS
<1> HIDE DEF bad
<1>9. QED
  BY <1>4, <1>5, <1>6, <1>7, <1>8

(* Folded(kind, ...) is what a FoldLeft with this step is.                 *)
Folded(kind, data, base, seq) ==
  (CHOOSE g : Folds(g, kind, data, base, seq, Len(seq)))[1..Len(seq)]

LEMMA FoldedAppend ==
  ASSUME NEW kind, NEW data, NEW base, NEW T, NEW seq \in Seq(T), NEW x \in T
  PROVE  /\ Folded(kind, data, base, <<>>) = base
         /\ Folded(kind, data, base, Append(seq, x))
              = FoldStep(kind, data, Folded(kind, data, base, seq), x)
<1> DEFINE n == Len(seq)
           more == Append(seq, x)
           g == CHOOSE g : Folds(g, kind, data, base, seq, n)
           h == CHOOSE h : Folds(h, kind, data, base, more, n + 1)
           z == CHOOSE z : Folds(z, kind, data, base, <<>>, 0)
<1>1. n \in Nat /\ Len(more) = n + 1 /\ more[n + 1] = x /\ SameUpto(more, seq, n) /\ Len(<<>>) = 0
  BY DEF SameUpto
<1>2. /\ Folded(kind, data, base, seq) = g[1..n]
      /\ Folded(kind, data, base, more) = h[1..(n + 1)]
      /\ Folded(kind, data, base, <<>>) = z[1..0]
  BY <1>1 DEF Folded
<1> HIDE DEF n, more
<1>3. /\ Folds(g, kind, data, base, seq, n)
      /\ Folds(h, kind, data, base, more, n + 1)
      /\ Folds(z, kind, data, base, <<>>, 0)
  <2>1. n + 1 \in Nat
    BY <1>1
  <2>2. \E f : Folds(f, kind, data, base, seq, n)
    BY <1>1, FoldsExist
  <2>3. \E f : Folds(f, kind, data, base, more, n + 1)
    BY <2>1, FoldsExist
  <2>4. \E f : Folds(f, kind, data, base, <<>>, 0)
    BY FoldsExist
  <2>5. QED
    BY <2>2, <2>3, <2>4
<1> HIDE DEF g, h, z
<1>4. z[1..0] = base
  BY <1>3, FoldsFirst
<1>5. n + 1 \in Nat /\ n + 1 \in 1..(n + 1) /\ (n + 1) - 1 = n /\ n <= n + 1 /\ n <= n
  BY <1>1
<1>6. h[1..(n + 1)] = FoldStep(kind, data, h[1..n], x)
  <2> DEFINE m == n + 1
  <2>1. m \in Nat /\ m \in 1..m /\ Folds(h, kind, data, base, more, m)
    BY <1>1, <1>3, <1>5
  <2>2. m - 1 = n /\ more[m] = x
    BY <1>1, <1>5
  <2> HIDE DEF m
  <2>3. h[1..m] = FoldStep(kind, data, h[1..(m - 1)], more[m])
    BY <2>1, FoldsNext
  <2>4. h[1..m] = FoldStep(kind, data, h[1..n], x)
    BY <2>2, <2>3
  <2>5. QED
    BY <2>4 DEF m
<1>7. h[1..n] = g[1..n]
  BY <1>1, <1>3, <1>5, FoldsAgree
<1>8. QED
  BY <1>2, <1>4, <1>6, <1>7 DEF more

BlankReader == [offset |-> 0, skipped |-> 0, result |-> "decoded"]

ReadFolds(g, data, seq) ==
  g = [s \in SUBSET DOMAIN seq |-> IF s = {} THEN BlankReader ELSE Read(data, g[s \ {Max(s)}], seq[Max(s)])]

LEMMA ReadsFold ==
  ASSUME NEW T, NEW seq \in Seq(T), NEW data
  PROVE  ReadAll(data, seq) = Folded("read", data, BlankReader, seq)
<1> DEFINE n == Len(seq)
           g == CHOOSE g : ReadFolds(g, data, seq)
           h == CHOOSE h : Folds(h, "read", data, BlankReader, seq, n)
<1>1. n \in Nat /\ DOMAIN seq = 1..n
  OBVIOUS
<1>2. ReadAll(data, seq) = g[DOMAIN seq]
  BY DEF ReadAll, FoldLeft, MapThenFoldSet, ReadFolds, BlankReader
<1>3. Folded("read", data, BlankReader, seq) = h[1..n]
  BY DEF Folded
<1> HIDE DEF n
<1>4. \E f : Folds(f, "read", data, BlankReader, seq, n)
  BY <1>1, FoldsExist
<1>5. Folds(h, "read", data, BlankReader, seq, n)
  BY <1>4
<1>6. \A f : Folds(f, "read", data, BlankReader, seq, n) <=> ReadFolds(f, data, seq)
  BY <1>1 DEF Folds, FoldAt, FoldStep, ReadFolds
<1>7. Folds(g, "read", data, BlankReader, seq, n)
  BY <1>4, <1>6
<1> HIDE DEF g, h
<1>8. n <= n /\ SameUpto(seq, seq, n)
  BY <1>1 DEF SameUpto
<1>9. g[1..n] = h[1..n]
  BY <1>1, <1>5, <1>7, <1>8, FoldsAgree
<1>10. QED
  BY <1>1, <1>2, <1>3, <1>9

ApplyFolds(g, base, seq) ==
  g = [s \in SUBSET DOMAIN seq |-> IF s = {} THEN base ELSE Apply(g[s \ {Max(s)}], seq[Max(s)])]

LEMMA AppliesFold ==
  ASSUME NEW T, NEW seq \in Seq(T), NEW base
  PROVE  FoldLeft(Apply, base, seq) = Folded("apply", 0, base, seq)
<1> DEFINE n == Len(seq)
           g == CHOOSE g : ApplyFolds(g, base, seq)
           h == CHOOSE h : Folds(h, "apply", 0, base, seq, n)
<1>1. n \in Nat /\ DOMAIN seq = 1..n
  OBVIOUS
<1>2. FoldLeft(Apply, base, seq) = g[DOMAIN seq]
  BY DEF FoldLeft, MapThenFoldSet, ApplyFolds
<1>3. Folded("apply", 0, base, seq) = h[1..n]
  BY DEF Folded
<1> HIDE DEF n
<1>4. \E f : Folds(f, "apply", 0, base, seq, n)
  BY <1>1, FoldsExist
<1>5. Folds(h, "apply", 0, base, seq, n)
  BY <1>4
<1>6. \A f : Folds(f, "apply", 0, base, seq, n) <=> ApplyFolds(f, base, seq)
  BY <1>1 DEF Folds, FoldAt, FoldStep, ApplyFolds
<1>7. Folds(g, "apply", 0, base, seq, n)
  BY <1>4, <1>6
<1> HIDE DEF g, h
<1>8. n <= n /\ SameUpto(seq, seq, n)
  BY <1>1 DEF SameUpto
<1>9. g[1..n] = h[1..n]
  BY <1>1, <1>5, <1>7, <1>8, FoldsAgree
<1>10. QED
  BY <1>1, <1>2, <1>3, <1>9

SumFolds(g, seq) ==
  g = [s \in SUBSET DOMAIN seq |-> IF s = {} THEN 0 ELSE g[s \ {Max(s)}] + seq[Max(s)]]

LEMMA SumsFold ==
  ASSUME NEW T, NEW seq \in Seq(T)
  PROVE  FoldLeft(+, 0, seq) = Folded("sum", 0, 0, seq)
<1> DEFINE n == Len(seq)
           g == CHOOSE g : SumFolds(g, seq)
           h == CHOOSE h : Folds(h, "sum", 0, 0, seq, n)
<1>1. n \in Nat /\ DOMAIN seq = 1..n
  OBVIOUS
<1>2. FoldLeft(+, 0, seq) = g[DOMAIN seq]
  BY DEF FoldLeft, MapThenFoldSet, SumFolds
<1>3. Folded("sum", 0, 0, seq) = h[1..n]
  BY DEF Folded
<1> HIDE DEF n
<1>4. \E f : Folds(f, "sum", 0, 0, seq, n)
  BY <1>1, FoldsExist
<1>5. Folds(h, "sum", 0, 0, seq, n)
  BY <1>4
<1>6. \A f : Folds(f, "sum", 0, 0, seq, n) <=> SumFolds(f, seq)
  BY <1>1 DEF Folds, FoldAt, FoldStep, SumFolds
<1>7. Folds(g, "sum", 0, 0, seq, n)
  BY <1>4, <1>6
<1> HIDE DEF g, h
<1>8. n <= n /\ SameUpto(seq, seq, n)
  BY <1>1 DEF SameUpto
<1>9. g[1..n] = h[1..n]
  BY <1>1, <1>5, <1>7, <1>8, FoldsAgree
<1>10. QED
  BY <1>1, <1>2, <1>3, <1>9

Sums(c, seq, n) == c[0] = 0 /\ c[n] = FoldLeft(+, 0, seq) /\ \A i \in 1..n : c[i] = c[i - 1] + seq[i]

LEMMA SumsUp ==
  ASSUME NEW seq \in Seq(Nat), NEW n, n = Len(seq)
  PROVE  \E c : Sums(c, seq, n)
<1> DEFINE Sum(i) == Folded("sum", 0, 0, SubSeq(seq, 1, i))
           c == [i \in 0..n |-> Sum(i)]
<1>1. n \in Nat /\ SubSeq(seq, 1, 0) = <<>> /\ SubSeq(seq, 1, n) = seq
  BY PrefixFacts
<1>2. Sum(0) = 0
  <2>1. Folded("sum", 0, 0, <<>>) = 0
    <3>1. <<>> \in Seq(Nat) /\ 0 \in Nat
      OBVIOUS
    <3>2. QED
      BY <3>1, FoldedAppend
  <2>2. QED
    BY <1>1, <2>1
<1>3. ASSUME NEW i \in 1..n PROVE Sum(i) = Sum(i - 1) + seq[i]
  <2>1. /\ SubSeq(seq, 1, i) = Append(SubSeq(seq, 1, i - 1), seq[i])
        /\ SubSeq(seq, 1, i - 1) \in Seq(Nat) /\ seq[i] \in Nat
    BY PrefixFacts
  <2> DEFINE front == SubSeq(seq, 1, i - 1)
             x == seq[i]
  <2>2. front \in Seq(Nat) /\ x \in Nat /\ Sum(i) = Folded("sum", 0, 0, Append(front, x))
    BY <2>1
  <2>3. Sum(i - 1) = Folded("sum", 0, 0, front)
    OBVIOUS
  <2> HIDE DEF front, x, Sum
  <2>4. Folded("sum", 0, 0, Append(front, x)) = FoldStep("sum", 0, Folded("sum", 0, 0, front), x)
    BY <2>2, FoldedAppend
  <2>5. Sum(i) = Sum(i - 1) + x
    BY <2>2, <2>3, <2>4 DEF FoldStep
  <2>6. QED
    BY <2>5 DEF x
<1>4. Sum(n) = FoldLeft(+, 0, seq)
  BY <1>1, SumsFold
<1> HIDE DEF Sum
<1>5. c[0] = Sum(0) /\ c[n] = Sum(n) /\ \A i \in 1..n : c[i] = Sum(i) /\ c[i - 1] = Sum(i - 1)
  BY <1>1
<1> HIDE DEF c
<1>6. Sums(c, seq, n)
  BY <1>2, <1>3, <1>4, <1>5 DEF Sums
<1>7. QED
  BY <1>6

LEMMA SumIsNat ==
  ASSUME NEW seq \in Seq(Nat)
  PROVE  FoldLeft(+, 0, seq) \in Nat
<1> DEFINE n == Len(seq)
<1>1. n \in Nat /\ \A i \in 1..n : seq[i] \in Nat
  OBVIOUS
<1>2. PICK c : Sums(c, seq, n)
  BY SumsUp
<1> DEFINE bad == {i \in 0..n : c[i] \notin Nat}
<1>3. 0 \notin bad /\ bad \subseteq 0..n
  <2>1. c[0] = 0
    BY <1>2 DEF Sums
  <2>2. QED
    BY <2>1
<1>4. \A i \in 0..n : i \in bad <=> c[i] \notin Nat
  OBVIOUS
<1> HIDE DEF bad, n
<1>5. bad = {}
  <2> SUFFICES ASSUME bad # {} PROVE FALSE
    OBVIOUS
  <2>1. PICK i \in bad : i \in 1..n /\ i - 1 \in 0..n /\ i - 1 \notin bad
    BY <1>1, <1>3, FirstBad
  <2>2. c[i] = c[i - 1] + seq[i] /\ seq[i] \in Nat /\ c[i - 1] \in Nat /\ c[i] \notin Nat
    BY <1>1, <1>2, <1>3, <1>4, <2>1 DEF Sums
  <2>3. QED
    BY <2>2
<1>6. c[n] \in Nat
  BY <1>1, <1>4, <1>5
<1>7. QED
  BY <1>2, <1>6 DEF Sums

-----------------------------------------------------------------------------
(* Commands and their units.                                               *)

LEMMA CommandCases ==
  ASSUME NEW c \in Command
  PROVE  \/ c.op \in {"nop", "metrics", "invalidate"}
         \/ c.op \in {"cp", "bp"} /\ c.register \in Byte /\ c.value \in Units
         \/ c.op = "xf" /\ c.address \in Half /\ c.values \in Seq(Units) /\ Len(c.values) \in 1..16
         \/ c.op = "indexed" /\ c.array \in 12..15 /\ c.index \in Half
               /\ c.address \in XfAddress /\ c.size \in 1..16
         \/ c.op = "call" /\ c.address \in Units /\ c.size \in Units
         \/ c.op = "draw" /\ c.primitive \in 1..8 /\ c.vat \in 0..7 /\ c.count \in Half
               /\ c.data \in Seq(Byte)
         \/ c.op = "unknown" /\ c.opcode \in Byte \ KnownOps
<1>1. \/ c \in [op : {"nop", "metrics", "invalidate"}]
      \/ c \in [op : {"cp", "bp"}, register : Byte, value : Units]
      \/ c \in [op : {"xf"}, address : Half, values : {v \in Seq(Units) : Len(v) \in 1..16}]
      \/ c \in [op : {"indexed"}, array : 12..15, index : Half, address : XfAddress, size : 1..16]
      \/ c \in [op : {"call"}, address : Units, size : Units]
      \/ c \in [op : {"draw"}, primitive : 1..8, vat : 0..7, count : Half, data : Seq(Byte)]
      \/ c \in [op : {"unknown"}, opcode : Byte \ KnownOps]
  BY Zenon DEF Command
<1>2. c \in [op : {"nop", "metrics", "invalidate"}] => c.op \in {"nop", "metrics", "invalidate"}
  OBVIOUS
<1>3. c \in [op : {"cp", "bp"}, register : Byte, value : Units]
        => c.op \in {"cp", "bp"} /\ c.register \in Byte /\ c.value \in Units
  OBVIOUS
<1>4. c \in [op : {"xf"}, address : Half, values : {v \in Seq(Units) : Len(v) \in 1..16}]
        => c.op = "xf" /\ c.address \in Half /\ c.values \in Seq(Units) /\ Len(c.values) \in 1..16
  OBVIOUS
<1>5. c \in [op : {"indexed"}, array : 12..15, index : Half, address : XfAddress, size : 1..16]
        => c.op = "indexed" /\ c.array \in 12..15 /\ c.index \in Half
             /\ c.address \in XfAddress /\ c.size \in 1..16
  OBVIOUS
<1>6. c \in [op : {"call"}, address : Units, size : Units]
        => c.op = "call" /\ c.address \in Units /\ c.size \in Units
  OBVIOUS
<1>7. c \in [op : {"draw"}, primitive : 1..8, vat : 0..7, count : Half, data : Seq(Byte)]
        => c.op = "draw" /\ c.primitive \in 1..8 /\ c.vat \in 0..7 /\ c.count \in Half
             /\ c.data \in Seq(Byte)
  OBVIOUS
<1>8. c \in [op : {"unknown"}, opcode : Byte \ KnownOps]
        => c.op = "unknown" /\ c.opcode \in Byte \ KnownOps
  OBVIOUS
<1>9. QED
  BY <1>1, <1>2, <1>3, <1>4, <1>5, <1>6, <1>7, <1>8

LEMMA SmallUnits ==
  /\ Half \subseteq Units /\ Byte \subseteq Units
  /\ Byte \subseteq Half /\ Units \subseteq Nat
BY SMT, UnitsAssumption DEF Units, Byte, Half

LEMMA OneUnit ==
  ASSUME NEW T, NEW x \in T, NEW s, s = <<x>>
  PROVE  s \in Seq(T) /\ Len(s) \in Nat \ {0}
OBVIOUS

LEMMA TwoUnits ==
  ASSUME NEW T, NEW x \in T, NEW y \in T, NEW s, s = <<x, y>>
  PROVE  s \in Seq(T) /\ Len(s) \in Nat \ {0}
OBVIOUS

LEMMA ThreeUnits ==
  ASSUME NEW T, NEW x \in T, NEW y \in T, NEW z \in T, NEW s, s = <<x, y, z>>
  PROVE  s \in Seq(T) /\ Len(s) \in Nat \ {0}
OBVIOUS

LEMMA HeadAndRest ==
  ASSUME NEW T, NEW head \in Seq(T), NEW rest \in Seq(T), Len(head) \in Nat \ {0}
  PROVE  head \o rest \in Seq(T) /\ Len(head \o rest) \in Nat \ {0}
OBVIOUS

(* The encodings of the commands, one record of Command after the other.   *)
LEMMA EncodeCases ==
  ASSUME NEW c
  PROVE  /\ c.op = "nop" => Encode(c) = <<Nop>>
         /\ c.op = "metrics" => Encode(c) = <<MetricsOp>>
         /\ c.op = "invalidate" => Encode(c) = <<InvalidateOp>>
         /\ c.op = "cp" => Encode(c) = <<LoadCpOp, c.register, c.value>>
         /\ c.op = "bp" => Encode(c) = <<LoadBpOp, c.register, c.value>>
         /\ c.op = "xf" => Encode(c) = <<LoadXfOp, Len(c.values) - 1, c.address>> \o c.values
         /\ c.op = "call" => Encode(c) = <<CallOp, c.address, c.size>>
         /\ c.op = "draw" => Encode(c) = <<128 + 8 * (c.primitive - 1) + c.vat, c.count>> \o c.data
         /\ c.op = "unknown" => Encode(c) = <<c.opcode>>
<1>1. c.op = "nop" => Encode(c) = <<Nop>>
  BY DEF Encode
<1>2. c.op = "metrics" => Encode(c) = <<MetricsOp>>
  BY DEF Encode
<1>3. c.op = "invalidate" => Encode(c) = <<InvalidateOp>>
  BY DEF Encode
<1>4. c.op = "cp" => Encode(c) = <<LoadCpOp, c.register, c.value>>
  BY DEF Encode
<1>5. c.op = "bp" => Encode(c) = <<LoadBpOp, c.register, c.value>>
  BY DEF Encode
<1>6. c.op = "xf" => Encode(c) = <<LoadXfOp, Len(c.values) - 1, c.address>> \o c.values
  BY DEF Encode
<1>7. c.op = "call" => Encode(c) = <<CallOp, c.address, c.size>>
  BY DEF Encode
<1>8. c.op = "draw" => Encode(c) = <<128 + 8 * (c.primitive - 1) + c.vat, c.count>> \o c.data
  BY DEF Encode
<1>9. c.op = "unknown" => Encode(c) = <<c.opcode>>
  BY DEF Encode
<1>10. QED
  BY <1>1, <1>2, <1>3, <1>4, <1>5, <1>6, <1>7, <1>8, <1>9, Zenon

LEMMA EncodeTyped ==
  ASSUME NEW c \in Command
  PROVE  Encode(c) \in Seq(Units) /\ Len(Encode(c)) \in Nat \ {0}
<1> DEFINE s == Encode(c)
<1>0. Byte \subseteq Units /\ Half \subseteq Units
  BY SmallUnits
<1>1. CASE c.op \in {"nop", "metrics", "invalidate"}
  <2>1. Nop \in Units /\ MetricsOp \in Units /\ InvalidateOp \in Units
    BY <1>0 DEF Byte, Nop, MetricsOp, InvalidateOp
  <2>2. s = <<Nop>> \/ s = <<MetricsOp>> \/ s = <<InvalidateOp>>
    BY <1>1, EncodeCases
  <2> HIDE DEF s
  <2>3. CASE s = <<Nop>>
    BY <2>1, <2>3, OneUnit DEF s
  <2>4. CASE s = <<MetricsOp>>
    BY <2>1, <2>4, OneUnit DEF s
  <2>5. CASE s = <<InvalidateOp>>
    BY <2>1, <2>5, OneUnit DEF s
  <2>6. QED
    BY <2>2, <2>3, <2>4, <2>5 DEF s
<1>2. CASE c.op \in {"cp", "bp"} /\ c.register \in Byte /\ c.value \in Units
  <2> DEFINE register == c.register
             value == c.value
  <2>1. LoadCpOp \in Units /\ LoadBpOp \in Units /\ register \in Units /\ value \in Units
    BY <1>0, <1>2 DEF Byte, LoadCpOp, LoadBpOp
  <2>2. s = <<LoadCpOp, register, value>> \/ s = <<LoadBpOp, register, value>>
    BY <1>2, EncodeCases
  <2> HIDE DEF s, register, value
  <2>3. CASE s = <<LoadCpOp, register, value>>
    BY <2>1, <2>3, ThreeUnits DEF s
  <2>4. CASE s = <<LoadBpOp, register, value>>
    BY <2>1, <2>4, ThreeUnits DEF s
  <2>5. QED
    BY <2>2, <2>3, <2>4 DEF s
<1>3. CASE c.op = "xf" /\ c.address \in Half /\ c.values \in Seq(Units) /\ Len(c.values) \in 1..16
  <2> DEFINE values == c.values
             address == c.address
             last == Len(values) - 1
             head == <<LoadXfOp, last, address>>
  <2>1. s = head \o values
    BY <1>3, EncodeCases
  <2>2. values \in Seq(Units) /\ address \in Units /\ Len(values) \in 1..16
    BY <1>0, <1>3
  <2>3. last \in Units /\ LoadXfOp \in Units
    <3> DEFINE n == Len(values)
    <3>1. n \in 1..16
      BY <2>2
    <3> HIDE DEF n
    <3>2. n - 1 \in Byte /\ LoadXfOp \in Byte
      BY <3>1 DEF Byte, LoadXfOp
    <3>3. QED
      BY <1>0, <3>2 DEF n
  <2> HIDE DEF s, values, address, last
  <2>4. head \in Seq(Units) /\ Len(head) \in Nat \ {0}
    BY <2>2, <2>3, ThreeUnits
  <2> HIDE DEF head
  <2>5. QED
    BY <2>1, <2>2, <2>4, HeadAndRest DEF s
<1>4. CASE c.op = "indexed" /\ c.array \in 12..15 /\ c.index \in Half
             /\ c.address \in XfAddress /\ c.size \in 1..16
  <2> DEFINE opcode == (c.array - 8) * 8
             index == c.index
             header == (c.size - 1) * 4096 + c.address
  <2>1. s = <<opcode, index, header>>
    BY <1>4 DEF Encode
  <2>2. opcode \in Byte
    BY <1>4 DEF Byte
  <2>3. header \in Half
    BY SMT, <1>4 DEF Half, XfAddress
  <2>4. index \in Half
    BY <1>4
  <2> HIDE DEF s, opcode, index, header
  <2>5. QED
    BY <1>0, <2>1, <2>2, <2>3, <2>4, ThreeUnits DEF s
<1>5. CASE c.op = "call" /\ c.address \in Units /\ c.size \in Units
  <2> DEFINE address == c.address
             size == c.size
  <2>1. CallOp \in Units /\ address \in Units /\ size \in Units
    BY <1>0, <1>5 DEF CallOp, Byte
  <2>2. s = <<CallOp, address, size>>
    BY <1>5, EncodeCases
  <2> HIDE DEF s, address, size
  <2>3. QED
    BY <2>1, <2>2, ThreeUnits DEF s
<1>6. CASE c.op = "draw" /\ c.primitive \in 1..8 /\ c.vat \in 0..7 /\ c.count \in Half
             /\ c.data \in Seq(Byte)
  <2> DEFINE opcode == 128 + 8 * (c.primitive - 1) + c.vat
             count == c.count
             data == c.data
             head == <<opcode, count>>
  <2>1. s = head \o data
    BY <1>6, EncodeCases
  <2>2. opcode \in Byte
    <3> DEFINE p == c.primitive
               v == c.vat
    <3>1. p \in 1..8 /\ v \in 0..7 /\ opcode = 128 + 8 * (p - 1) + v
      BY <1>6
    <3> HIDE DEF p, v, opcode
    <3>2. opcode \in Nat /\ opcode < 256
      BY <3>1
    <3>3. QED
      BY <3>2 DEF Byte
  <2>3. count \in Half /\ data \in Seq(Byte)
    BY <1>6
  <2> HIDE DEF s, opcode, count, data
  <2>4. head \in Seq(Units) /\ Len(head) \in Nat \ {0}
    BY <1>0, <2>2, <2>3, TwoUnits
  <2>5. data \in Seq(Units)
    BY <1>0, <2>3
  <2> HIDE DEF head
  <2>6. QED
    BY <2>1, <2>4, <2>5, HeadAndRest DEF s
<1>7. CASE c.op = "unknown" /\ c.opcode \in Byte \ KnownOps
  <2> DEFINE opcode == c.opcode
  <2>1. s = <<opcode>>
    BY <1>7, EncodeCases
  <2>2. opcode \in Units
    BY <1>0, <1>7
  <2> HIDE DEF s, opcode
  <2>3. QED
    BY <2>1, <2>2, OneUnit DEF s
<1>8. QED
  BY <1>1, <1>2, <1>3, <1>4, <1>5, <1>6, <1>7, CommandCases

Encodings(commands) == [i \in DOMAIN commands |-> Encode(commands[i])]

LEMMA EncodingsTyped ==
  ASSUME NEW commands \in Seq(Command)
  PROVE  Encodings(commands) \in Seq(Seq(Units)) /\ EncodeAll(commands) = FlattenSeq(Encodings(commands))
<1>1. \A i \in DOMAIN commands : Encode(commands[i]) \in Seq(Units)
  BY EncodeTyped
<1>2. DOMAIN commands = 1..Len(commands) /\ Len(commands) \in Nat
  OBVIOUS
<1>3. QED
  BY <1>1, <1>2 DEF Encodings, EncodeAll

LEMMA EncodeAllTyped ==
  ASSUME NEW commands \in Seq(Command)
  PROVE  EncodeAll(commands) \in Seq(Units)
BY EncodingsTyped, FlattenTyped

LEMMA GivenCommands ==
  /\ \A p \in Programs : p \in Seq(Command) /\ EncodeAll(p) \in Seq(Units)
  /\ \A a \in DOMAIN DisplayLists :
       DisplayLists[a] \in Seq(Command) /\ EncodeAll(DisplayLists[a]) \in Seq(Units)
BY CommandsAssumption, EncodeAllTyped DEF Range

LEMMA ResolvedTyped ==
  ASSUME NEW address, NEW size \in Nat
  PROVE  Resolved(address, size) \in Seq(Units)
<1>1. CASE address \notin DOMAIN DisplayLists
  BY <1>1 DEF Resolved
<1>2. CASE address \in DOMAIN DisplayLists
  <2> DEFINE units == EncodeAll(DisplayLists[address])
  <2>1. units \in Seq(Units)
    BY <1>2, GivenCommands
  <2>2. Resolved(address, size) = IF size > Len(units) THEN <<>> ELSE SubSeq(units, 1, size)
    BY <1>2 DEF Resolved
  <2> HIDE DEF units
  <2>3. QED
    BY <2>1, <2>2
<1>3. QED
  BY <1>1, <1>2

-----------------------------------------------------------------------------
(* The size of a vertex, and of a command.                                 *)

RegsType == [low : Units, high : Units, vat : [0..7 -> [0..2 -> Units]]]

LEMMA FieldsTyped ==
  ASSUME NEW u \in Units
  PROVE  /\ Fields[u] \in FieldRecord
         /\ Cardinality(Fields[u].matrices) \in Nat
<1>1. Fields[u] \in FieldRecord
  BY FieldsAssumption
<1>2. Fields[u].matrices \subseteq 0..8
  BY <1>1 DEF FieldRecord
<1>3. IsFiniteSet(Fields[u].matrices)
  <2>1. \A n \in Nat : IsFiniteSet(0..n)
    BY FS_Interval
  <2>2. QED
    BY <1>2, <2>1, FS_Subset
<1>4. QED
  BY <1>1, <1>3, FS_CardinalityType

LEMMA SizesAreNat ==
  /\ \A d \in 0..3, n \in Nat : AttributeSize(d, n) \in Nat
  /\ \A f \in 0..7 : FormatSize(f) \in {1, 2, 4} /\ ColorSize(f) \in Nat
BY DEF AttributeSize, FormatSize, ColorSize

LEMMA VertexSizeIsNat ==
  ASSUME NEW r \in RegsType, NEW vat \in 0..7
  PROVE  GetVertexSize(r, vat) \in Nat
<1> DEFINE Group(g) == Fields[r.vat[vat][g]]
           low == Fields[r.low]
           high == Fields[r.high]
           TextureSize(t) ==
             AttributeSize(high.texture[t], FormatSize(Group(TextureGroup(t)).textureFormat[t])
                                              * (Group(TextureGroup(t)).textureElements[t] + 1))
<1>1. /\ low \in FieldRecord /\ high \in FieldRecord /\ \A g \in 0..2 : Group(g) \in FieldRecord
      /\ Cardinality(low.matrices) \in Nat
  BY FieldsTyped DEF RegsType
<1>2. GetVertexSize(r, vat) =
        Cardinality(low.matrices)
         + AttributeSize(low.position, FormatSize(Group(0).positionFormat) * Group(0).positionElements)
         + NormalSize(low, Group(0))
         + AttributeSize(low.color[1], ColorSize(Group(0).colorFormat[1]))
         + AttributeSize(low.color[2], ColorSize(Group(0).colorFormat[2]))
         + FoldLeft(+, 0, [i \in 1..8 |-> TextureSize(i - 1)])
  BY DEF GetVertexSize
<1> HIDE DEF Group, low, high
<1>3. AttributeSize(low.position, FormatSize(Group(0).positionFormat) * Group(0).positionElements) \in Nat
  <2>1. FormatSize(Group(0).positionFormat) \in {1, 2, 4} /\ Group(0).positionElements \in 2..3
    BY <1>1, SizesAreNat DEF FieldRecord
  <2>2. FormatSize(Group(0).positionFormat) * Group(0).positionElements \in Nat
    BY <2>1
  <2>3. low.position \in 0..3
    BY <1>1 DEF FieldRecord
  <2>4. QED
    BY <2>2, <2>3, SizesAreNat
<1>4. NormalSize(low, Group(0)) \in Nat
  <2>1. FormatSize(Group(0).normalFormat) \in {1, 2, 4} /\ low.normal \in 0..3
    BY <1>1, SizesAreNat DEF FieldRecord
  <2>2. QED
    BY <2>1 DEF NormalSize, AttributeSize
<1>5. ASSUME NEW k \in 1..2 PROVE AttributeSize(low.color[k], ColorSize(Group(0).colorFormat[k])) \in Nat
  <2>1. low.color[k] \in 0..3 /\ Group(0).colorFormat[k] \in 0..7
    BY <1>1 DEF FieldRecord
  <2>2. ColorSize(Group(0).colorFormat[k]) \in Nat
    BY <2>1, SizesAreNat
  <2>3. QED
    BY <2>1, <2>2, SizesAreNat
<1>6. ASSUME NEW t \in 0..7 PROVE TextureSize(t) \in Nat
  <2> DEFINE group == Group(TextureGroup(t))
  <2>1. group \in FieldRecord
    BY <1>1 DEF TextureGroup
  <2>2. group.textureFormat[t] \in 0..7 /\ group.textureElements[t] \in 0..1 /\ high.texture[t] \in 0..3
    BY <1>1, <2>1 DEF FieldRecord
  <2> HIDE DEF group
  <2>3. FormatSize(group.textureFormat[t]) * (group.textureElements[t] + 1) \in Nat
    BY <2>2 DEF FormatSize
  <2>4. AttributeSize(high.texture[t], FormatSize(group.textureFormat[t]) * (group.textureElements[t] + 1)) \in Nat
    BY <2>2, <2>3, SizesAreNat
  <2>5. QED
    BY <2>4 DEF group
<1> HIDE DEF TextureSize
<1>7. [i \in 1..8 |-> TextureSize(i - 1)] \in Seq(Nat)
  <2>1. \A i \in 1..8 : TextureSize(i - 1) \in Nat
    BY <1>6
  <2>2. QED
    BY <2>1
<1>8. FoldLeft(+, 0, [i \in 1..8 |-> TextureSize(i - 1)]) \in Nat
  BY <1>7, SumIsNat
<1>9. \A a, b, d, e, f, g \in Nat : a + b + d + e + f + g \in Nat
  OBVIOUS
<1>10. 1 \in 1..2 /\ 2 \in 1..2
  OBVIOUS
<1>11. QED
  <2> DEFINE a == Cardinality(low.matrices)
             b == AttributeSize(low.position, FormatSize(Group(0).positionFormat) * Group(0).positionElements)
             d == NormalSize(low, Group(0))
             e == AttributeSize(low.color[1], ColorSize(Group(0).colorFormat[1]))
             f == AttributeSize(low.color[2], ColorSize(Group(0).colorFormat[2]))
             g == FoldLeft(+, 0, [i \in 1..8 |-> TextureSize(i - 1)])
  <2>1. a \in Nat /\ b \in Nat /\ d \in Nat /\ e \in Nat /\ f \in Nat /\ g \in Nat
    BY <1>1, <1>3, <1>4, <1>5, <1>8, <1>10
  <2>2. GetVertexSize(r, vat) = a + b + d + e + f + g
    BY <1>2
  <2> HIDE DEF a, b, d, e, f, g
  <2>3. QED
    BY <1>9, <2>1, <2>2

LEMMA NopRunIsSound ==
  ASSUME NEW data \in Seq(Units), data # <<>>, data[1] = Nop
  PROVE  /\ NopRun(data) \in 1..Len(data)
         /\ \A i \in 1..NopRun(data) : data[i] = Nop
         /\ NopRun(data) < Len(data) => data[NopRun(data) + 1] # Nop
<1> DEFINE runs == {n \in 1..Len(data) : \A i \in 1..n : data[i] = Nop}
<1>1. 1 \in runs /\ runs \subseteq 1..Len(data) /\ Len(data) \in Nat
  OBVIOUS
<1>2. Max(runs) \in runs /\ \A n \in runs : n <= Max(runs)
  <2> HIDE DEF runs
  <2>1. runs # {}
    BY <1>1
  <2>2. QED
    BY <1>1, <2>1, MaxIsGreatest
<1>3. NopRun(data) = Max(runs)
  BY DEF NopRun
<1> DEFINE n == NopRun(data)
<1>4. n \in 1..Len(data) /\ \A i \in 1..n : data[i] = Nop
  BY <1>2, <1>3
<1>5. n + 1 \notin runs
  <2>1. n \in Nat /\ \A k \in runs : k <= n
    BY <1>2, <1>3, <1>4
  <2> HIDE DEF runs, n
  <2>2. QED
    BY <2>1
<1> HIDE DEF n
<1>6. n < Len(data) => data[n + 1] # Nop
  <2> SUFFICES ASSUME n < Len(data), data[n + 1] = Nop PROVE FALSE
    OBVIOUS
  <2>1. n + 1 \in 1..Len(data)
    BY <1>1, <1>4
  <2>2. \A i \in 1..(n + 1) : data[i] = Nop
    BY <1>4
  <2>3. QED
    BY <1>5, <2>1, <2>2
<1>7. QED
  BY <1>4, <1>6 DEF n

LEMMA SizeFits ==
  ASSUME NEW data \in Seq(Units), data # <<>>, regs \in RegsType
  PROVE  CommandSize(data) \in 0..Len(data)
<1>1. Len(data) \in Nat \ {0} /\ \A i \in 1..Len(data) : data[i] \in Nat
  <2>1. \A i \in 1..Len(data) : data[i] \in Units
    OBVIOUS
  <2>2. Len(data) # 0
    OBVIOUS
  <2>3. Units \subseteq Nat /\ Len(data) \in Nat
    BY SmallUnits
  <2>4. QED
    BY <2>1, <2>2, <2>3
<1>2. CASE data[1] = Nop
  <2>1. CommandSize(data) = NopRun(data)
    BY <1>2 DEF CommandSize, Nop, LoadCpOp, CallOp, LoadBpOp, IndexedOps, LoadXfOp, DrawOps
  <2>2. QED
    BY <1>1, <1>2, <2>1, NopRunIsSound
<1>3. CASE data[1] = LoadXfOp
  <2>1. CommandSize(data) = IF Len(data) < 3 THEN 0 ELSE IF Len(data) >= data[2] + 4 THEN data[2] + 4 ELSE 0
    BY <1>3 DEF CommandSize, Nop, LoadCpOp, CallOp, LoadBpOp, IndexedOps, LoadXfOp, DrawOps
  <2>2. Len(data) >= 3 => data[2] \in Nat
    BY <1>1
  <2> HIDE DEF CommandSize
  <2>3. QED
    BY <1>1, <2>1, <2>2
<1>4. CASE data[1] \in DrawOps
  <2> DEFINE size == 2 + data[2] * GetVertexSize(regs, data[1] % 8)
  <2>1. CommandSize(data) = IF Len(data) < 2 THEN 0 ELSE IF Len(data) >= size THEN size ELSE 0
    BY <1>1, <1>4 DEF CommandSize, Nop, LoadCpOp, CallOp, LoadBpOp, IndexedOps, LoadXfOp, DrawOps
  <2>2. data[1] % 8 \in 0..7
    BY <1>1
  <2>3. GetVertexSize(regs, data[1] % 8) \in Nat
    BY <2>2, VertexSizeIsNat
  <2>4. Len(data) >= 2 => size \in Nat
    <3> DEFINE v == GetVertexSize(regs, data[1] % 8)
    <3> HIDE DEF v
    <3>1. Len(data) >= 2 => data[2] \in Nat
      BY <1>1
    <3>2. v \in Nat
      BY <2>3 DEF v
    <3>3. Len(data) >= 2 => 2 + data[2] * v \in Nat
      BY <3>1, <3>2
    <3>4. QED
      BY <3>3 DEF v
  <2> HIDE DEF size
  <2>5. QED
    BY <1>1, <2>1, <2>4
<1>5. CASE data[1] \notin DrawOps \cup {Nop, LoadXfOp}
  BY <1>1, <1>5 DEF CommandSize
<1>6. QED
  BY <1>2, <1>3, <1>4, <1>5

-----------------------------------------------------------------------------
(* The decoders and what is before them.                                   *)

GxTypeOK ==
  /\ program \in Programs
  /\ sent \in Nat
  /\ m_buffer \in Seq(Units)
  /\ consumed \in 0..Len(m_buffer)
  /\ writing \in BOOLEAN
  /\ lists \in Seq(Seq(Units))
  /\ m_display_list_depth = Len(lists)
  /\ m_display_list_depth <= MaxDisplayListDepth
  /\ regs \in RegsType

LEMMA LastAndFront ==
  ASSUME NEW T, NEW seq \in Seq(T), seq # <<>>
  PROVE  /\ Last(seq) = seq[Len(seq)] /\ Last(seq) \in T
         /\ Front(seq) \in Seq(T) /\ Len(Front(seq)) = Len(seq) - 1
         /\ \A i \in 1..(Len(seq) - 1) : Front(seq)[i] = seq[i]
         /\ Len(seq) \in Nat \ {0}
<1> DEFINE n == Len(seq)
           front == SubSeq(seq, 1, n - 1)
<1>1. n \in Nat /\ n # 0
  OBVIOUS
<1>2. Last(seq) = seq[n] /\ Front(seq) = front
  BY DEF Last, Front
<1>3. seq[n] \in T
  BY <1>1
<1>4. front \in Seq(T) /\ Len(front) = n - 1 /\ \A i \in 1..(n - 1) : front[i] = seq[i]
  <2> HIDE DEF n
  <2>1. n - 1 \in 0..Len(seq)
    BY <1>1 DEF n
  <2>2. QED
    BY <1>1, <2>1
<1>5. QED
  BY <1>1, <1>2, <1>3, <1>4

LEMMA DataTyped ==
  ASSUME GxTypeOK
  PROVE  /\ Data \in Seq(Units)
         /\ lists = <<>> => Len(Data) = Len(m_buffer) - consumed
         /\ lists # <<>> => Data = lists[Len(lists)]
<1>1. m_buffer \in Seq(Units) /\ consumed \in 0..Len(m_buffer) /\ lists \in Seq(Seq(Units))
  BY DEF GxTypeOK
<1>2. CASE lists = <<>>
  <2>1. Data = SubSeq(m_buffer, consumed + 1, Len(m_buffer))
    BY <1>2 DEF Data
  <2> DEFINE n == Len(m_buffer)
  <2>2. n \in Nat /\ consumed \in 0..n /\ consumed + 1 \in 1..(n + 1) /\ n \in consumed..n
    BY <1>1
  <2>3. /\ SubSeq(m_buffer, consumed + 1, n) \in Seq(Units)
        /\ Len(SubSeq(m_buffer, consumed + 1, n)) = n - consumed
    BY <1>1, <2>2
  <2>4. QED
    BY <1>2, <2>1, <2>3
<1>3. CASE lists # <<>>
  <2>1. Data = Last(lists)
    BY <1>3 DEF Data
  <2>2. Last(lists) = lists[Len(lists)] /\ Last(lists) \in Seq(Units)
    BY <1>1, <1>3, LastAndFront
  <2>3. QED
    BY <1>3, <2>1, <2>2
<1>4. QED
  BY <1>2, <1>3

LEMMA DecodableFits ==
  ASSUME GxTypeOK, Decodable
  PROVE  /\ Data # <<>> /\ CommandSize(Data) \in 1..Len(Data)
         /\ Rest \in Seq(Units) /\ Len(Rest) = Len(Data) - CommandSize(Data)
         /\ \A i \in 1..Len(Data) : Data[i] \in Units
<1>1. Data \in Seq(Units) /\ Data # <<>> /\ CommandSize(Data) > 0 /\ regs \in RegsType
  BY DataTyped DEF Decodable, GxTypeOK
<1> DEFINE data == Data
           n == CommandSize(Data)
<1>2. n \in 0..Len(data) /\ n > 0
  BY <1>1, SizeFits
<1>3. Rest = SubSeq(data, n + 1, Len(data))
  BY DEF Rest
<1>4. data \in Seq(Units)
  BY <1>1
<1> HIDE DEF data, n
<1>5. n \in 1..Len(data) /\ Len(data) \in Nat
  BY <1>2, <1>4
<1>6. SubSeq(data, n + 1, Len(data)) \in Seq(Units) /\ Len(SubSeq(data, n + 1, Len(data))) = Len(data) - n
  BY <1>4, <1>5
<1>7. \A i \in 1..Len(data) : data[i] \in Units
  BY <1>4
<1>8. QED
  BY <1>1, <1>3, <1>5, <1>6, <1>7 DEF data, n

LEMMA ListsAfterTyped ==
  ASSUME GxTypeOK, Decodable
  PROVE  /\ ListsAfter \in Seq(Seq(Units)) /\ Len(ListsAfter) = Len(lists)
         /\ \A i \in 1..(Len(lists) - 1) : ListsAfter[i] = lists[i]
         /\ lists # <<>> => ListsAfter[Len(lists)] = Rest
         /\ lists = <<>> => ListsAfter = <<>>
<1>1. lists \in Seq(Seq(Units)) /\ Rest \in Seq(Units)
  BY DecodableFits DEF GxTypeOK
<1>2. CASE lists = <<>>
  BY <1>1, <1>2 DEF ListsAfter
<1>3. CASE lists # <<>>
  <2> DEFINE L == Seq(Units)
             front == Front(lists)
             n == Len(lists)
             rest == Rest
  <2>1. ListsAfter = Append(front, rest)
    BY <1>3 DEF ListsAfter
  <2>2. lists \in Seq(L) /\ rest \in L
    BY <1>1
  <2> HIDE DEF L, rest
  <2>3. front \in Seq(L) /\ Len(front) = n - 1 /\ n \in Nat \ {0} /\ \A i \in 1..(n - 1) : front[i] = lists[i]
    BY <1>3, <2>2, LastAndFront
  <2> HIDE DEF front, n
  <2>4. /\ Append(front, rest) \in Seq(L) /\ Len(Append(front, rest)) = n
        /\ \A i \in 1..(n - 1) : Append(front, rest)[i] = lists[i]
        /\ Append(front, rest)[n] = rest
    BY <2>2, <2>3
  <2>5. QED
    BY <1>3, <2>1, <2>4 DEF L, n, rest
<1>4. QED
  BY <1>2, <1>3

LEMMA LoadCpTyped ==
  ASSUME NEW r \in RegsType, NEW register \in Nat, NEW value \in Units
  PROVE  LoadCp(r, register, value) \in RegsType
<1>1. r.low \in Units /\ r.high \in Units /\ r.vat \in [0..7 -> [0..2 -> Units]]
  BY DEF RegsType
<1>2. CASE register \div 16 = 5
  BY <1>2 DEF LoadCp, RegsType
<1>3. CASE register \div 16 = 6
  BY <1>3 DEF LoadCp, RegsType
<1>4. CASE register \div 16 \in 7..9
  <2> DEFINE v == register % 8
             g == register \div 16 - 7
             row == [r.vat[v] EXCEPT ![g] = value]
             vat == [r.vat EXCEPT ![v] = row]
  <2>1. v \in 0..7 /\ g \in 0..2
    BY <1>4
  <2>2. LoadCp(r, register, value) = [r EXCEPT !.vat = vat]
    BY <1>4 DEF LoadCp
  <2> HIDE DEF v, g
  <2>3. r.vat[v] \in [0..2 -> Units]
    BY <1>1, <2>1
  <2>4. row \in [0..2 -> Units]
    BY <2>1, <2>3
  <2> HIDE DEF row
  <2>5. vat \in [0..7 -> [0..2 -> Units]]
    BY <1>1, <2>1, <2>4
  <2> HIDE DEF vat
  <2>6. QED
    BY <2>2, <2>5 DEF RegsType
<1>5. CASE register \div 16 \notin 5..9
  BY <1>5 DEF LoadCp
<1>6. QED
  <2>1. register \div 16 \in Nat
    OBVIOUS
  <2>2. QED
    BY <1>2, <1>3, <1>4, <1>5, <2>1

LEMMA AlignedIsNat ==
  ASSUME NEW n \in Nat
  PROVE  Aligned(n) \in Nat
<1>1. Alignment \in Nat \ {0}
  BY AlignmentAssumption
<1>2. n % Alignment \in 0..n
  <2>1. n % Alignment \in 0..(Alignment - 1)
    BY <1>1
  <2>2. n = Alignment * (n \div Alignment) + (n % Alignment) /\ n \div Alignment \in Nat
    BY <1>1
  <2>3. Alignment * (n \div Alignment) \in Nat
    BY <1>1, <2>2
  <2>4. QED
    BY <2>1, <2>2, <2>3
<1>3. QED
  BY <1>2 DEF Aligned

-----------------------------------------------------------------------------
(* Decoding ends.                                                          *)

LEMMA GxInit == ASSUME Init PROVE GxTypeOK
<1>1. 0 \in Units
  BY SmallUnits DEF Byte
<1>2. InitRegs \in RegsType
  BY <1>1 DEF InitRegs, RegsType
<1>3. <<>> \in Seq(Units) /\ Len(<<>>) = 0 /\ <<>> \in Seq(Seq(Units))
  OBVIOUS
<1>4. program \in Programs /\ sent = 0 /\ m_buffer = <<>> /\ consumed = 0 /\ writing = FALSE
      /\ lists = <<>> /\ m_display_list_depth = 0 /\ regs = InitRegs
  BY DEF Init
<1>5. 0 \in Nat /\ 0 \in 0..0 /\ 0 <= MaxDisplayListDepth
  BY DepthAssumption
<1>6. m_display_list_depth = Len(lists) /\ consumed \in 0..Len(m_buffer) /\ sent \in Nat
      /\ m_display_list_depth <= MaxDisplayListDepth
  BY <1>3, <1>4, <1>5
<1>7. m_buffer \in Seq(Units) /\ lists \in Seq(Seq(Units)) /\ regs \in RegsType /\ writing \in BOOLEAN
  BY <1>2, <1>3, <1>4
<1>8. QED
  BY <1>4, <1>6, <1>7 DEF GxTypeOK

LEMMA BelowAt ==
  ASSUME NEW s, NEW t, NEW n \in Nat, n + 1 \in DOMAIN t,
         \A j \in 1..n : j \in DOMAIN s /\ s[j] = t[j],
         n + 1 \in DOMAIN s => s[n + 1] < t[n + 1]
  PROVE  Below(s, t)
<1> DEFINE i == n + 1
<1>1. i - 1 = n
  OBVIOUS
<1>2. i \in DOMAIN t /\ (i \in DOMAIN s => s[i] < t[i]) /\ \A j \in 1..(i - 1) : j \in DOMAIN s /\ s[j] = t[j]
  BY <1>1
<1> HIDE DEF i
<1>3. QED
  BY <1>2 DEF Below

\* What a command leaves behind, whatever it does to the registers and the backend.
LEMMA ConsumeSteps ==
  ASSUME GxTypeOK, writing, Decodable, Consume, StayInList, regs' \in RegsType
  PROVE  GxTypeOK' /\ Below(Remaining', Remaining)
<1> DEFINE size == CommandSize(Data)
           n == Len(lists)
<1>1. /\ Data # <<>> /\ size \in 1..Len(Data) /\ Rest \in Seq(Units) /\ Len(Rest) = Len(Data) - size
      /\ Data \in Seq(Units)
  BY DecodableFits, DataTyped
<1>2. /\ lists \in Seq(Seq(Units)) /\ m_buffer \in Seq(Units) /\ consumed \in 0..Len(m_buffer)
      /\ n \in Nat /\ Len(m_buffer) \in Nat /\ Len(Data) \in Nat
  BY <1>1 DEF GxTypeOK
<1>3. lists' = ListsAfter /\ m_display_list_depth' = m_display_list_depth
  BY DEF StayInList
<1>4. /\ lists' \in Seq(Seq(Units)) /\ Len(lists') = n
      /\ \A i \in 1..(n - 1) : lists'[i] = lists[i]
      /\ lists # <<>> => lists'[n] = Rest
      /\ lists = <<>> => lists' = <<>>
  BY <1>3, ListsAfterTyped
<1>5. /\ consumed' = IF lists = <<>> THEN consumed + size ELSE consumed
      /\ program' = program /\ sent' = sent /\ m_buffer' = m_buffer /\ writing' = writing
  BY DEF Consume
<1>6. lists = <<>> => Len(Data) = Len(m_buffer) - consumed
  BY DataTyped
<1>7. lists # <<>> => Data = lists[n] /\ n \in 1..n
  BY <1>2, DataTyped
<1> HIDE DEF size
<1>8. consumed' \in 0..Len(m_buffer)
  BY <1>1, <1>2, <1>5, <1>6
<1>9. GxTypeOK'
  BY <1>3, <1>4, <1>5, <1>8 DEF GxTypeOK
<1>10. CASE lists = <<>>
  <2>1. Len(m_buffer) - (consumed + size) < Len(m_buffer) - consumed
    BY <1>1, <1>2
  <2>2. Remaining = <<Len(m_buffer) - consumed>> /\ Remaining' = <<Len(m_buffer) - (consumed + size)>>
    BY <1>4, <1>5, <1>10 DEF Remaining
  <2>3. 0 + 1 \in DOMAIN Remaining /\ Remaining'[0 + 1] < Remaining[0 + 1] /\ 0 \in Nat /\ 1..0 = {}
    BY <2>1, <2>2
  <2>4. QED
    <3> DEFINE s == Remaining'
               t == Remaining
    <3>1. 0 + 1 \in DOMAIN t /\ s[0 + 1] < t[0 + 1] /\ 0 \in Nat /\ \A j \in 1..0 : j \in DOMAIN s /\ s[j] = t[j]
      BY <2>3
    <3> HIDE DEF s, t
    <3>2. Below(s, t)
      BY <3>1, BelowAt
    <3>3. QED
      BY <1>9, <3>2 DEF s, t
<1>11. CASE lists # <<>>
  <2>1. /\ DOMAIN Remaining = 1..(n + 1) /\ DOMAIN Remaining' = 1..(n + 1)
        /\ Remaining[1] = Remaining'[1]
        /\ \A i \in 1..n : Remaining[i + 1] = Len(lists[i]) /\ Remaining'[i + 1] = Len(lists'[i])
    BY <1>2, <1>4, <1>5, <1>11 DEF Remaining
  <2> HIDE DEF n
  <2>2. \A j \in 1..n : Remaining'[j] = Remaining[j]
    <3> SUFFICES ASSUME NEW j \in 1..n, j # 1 PROVE Remaining'[j] = Remaining[j]
      BY <2>1
    <3>1. j - 1 \in 1..(n - 1) /\ j - 1 \in 1..n /\ j - 1 + 1 = j
      BY <1>2
    <3> DEFINE i == j - 1
    <3>2. Remaining[i + 1] = Len(lists[i]) /\ Remaining'[i + 1] = Len(lists'[i]) /\ lists'[i] = lists[i]
      BY <1>4, <2>1, <3>1 DEF n
    <3>3. QED
      BY <3>1, <3>2
  <2>3. Remaining'[n + 1] < Remaining[n + 1]
    <3>1. Remaining'[n + 1] = Len(Rest) /\ Remaining[n + 1] = Len(Data)
      BY <1>4, <1>7, <1>11, <2>1
    <3>2. QED
      BY <1>1, <1>2, <3>1
  <2>4. n + 1 \in DOMAIN Remaining /\ (n + 1) - 1 = n
    BY <1>2, <2>1
  <2>5. \A j \in 1..n : j \in DOMAIN Remaining'
    BY <1>2, <2>1
  <2>6. QED
    <3> DEFINE s == Remaining'
               t == Remaining
    <3>1. /\ n \in Nat /\ n + 1 \in DOMAIN t /\ s[n + 1] < t[n + 1]
          /\ \A j \in 1..n : j \in DOMAIN s /\ s[j] = t[j]
      BY <1>2, <2>2, <2>3, <2>4, <2>5
    <3> HIDE DEF s, t, n
    <3>2. Below(s, t)
      BY <3>1, BelowAt
    <3>3. QED
      BY <1>9, <3>2 DEF s, t
<1>12. QED
  BY <1>9, <1>10, <1>11

LEMMA ListEndsSteps ==
  ASSUME GxTypeOK, ListEnds
  PROVE  GxTypeOK' /\ Below(Remaining', Remaining)
<1> DEFINE n == Len(lists)
           L == Seq(Units)
<1>1. /\ lists # <<>> /\ lists' = Front(lists) /\ m_display_list_depth' = m_display_list_depth - 1
      /\ m_buffer' = m_buffer /\ consumed' = consumed /\ writing' = writing /\ sent' = sent
      /\ program' = program /\ regs' = regs
  BY DEF ListEnds
<1>2. lists \in Seq(L) /\ m_display_list_depth = n /\ n <= MaxDisplayListDepth
  BY DEF GxTypeOK
<1> HIDE DEF L
<1>3. lists' \in Seq(L) /\ Len(lists') = n - 1 /\ n \in Nat \ {0} /\ \A i \in 1..(n - 1) : lists'[i] = lists[i]
  BY <1>1, <1>2, LastAndFront
<1> HIDE DEF n
<1>4. m_display_list_depth' = Len(lists') /\ m_display_list_depth' <= MaxDisplayListDepth
  BY <1>1, <1>2, <1>3, DepthAssumption
<1>5. GxTypeOK'
  BY <1>1, <1>3, <1>4 DEF GxTypeOK, L
<1>6. /\ DOMAIN Remaining = 1..(n + 1) /\ DOMAIN Remaining' = 1..n
      /\ Remaining[1] = Remaining'[1]
      /\ \A i \in 1..(n - 1) : Remaining[i + 1] = Len(lists[i]) /\ Remaining'[i + 1] = Len(lists[i])
  BY <1>1, <1>2, <1>3 DEF Remaining, n
<1>7. \A j \in 1..n : Remaining'[j] = Remaining[j]
  <2> SUFFICES ASSUME NEW j \in 1..n, j # 1 PROVE Remaining'[j] = Remaining[j]
    BY <1>6
  <2>1. j - 1 \in 1..(n - 1) /\ j - 1 + 1 = j
    BY <1>3
  <2>2. QED
    BY <1>6, <2>1
<1>8. n + 1 \in DOMAIN Remaining /\ (n + 1) - 1 = n /\ n + 1 \notin DOMAIN Remaining'
  BY <1>3, <1>6
<1>9. \A j \in 1..n : j \in DOMAIN Remaining'
  BY <1>6
<1>10. QED
  BY <1>5, <1>7, <1>8, <1>9 DEF Below

LEMMA EnterSteps ==
  ASSUME GxTypeOK, writing, Decodable, Consume, NEW units \in Seq(Units), Enter(units),
         m_display_list_depth < MaxDisplayListDepth, regs' = regs
  PROVE  GxTypeOK' /\ Below(Remaining', Remaining)
<1> DEFINE size == CommandSize(Data)
           n == Len(lists)
           L == Seq(Units)
<1>1. /\ Data # <<>> /\ size \in 1..Len(Data) /\ Rest \in Seq(Units) /\ Len(Rest) = Len(Data) - size
      /\ Data \in Seq(Units)
  BY DecodableFits, DataTyped
<1>2. /\ lists \in Seq(L) /\ m_buffer \in Seq(Units) /\ consumed \in 0..Len(m_buffer)
      /\ n \in Nat /\ Len(m_buffer) \in Nat /\ Len(Data) \in Nat /\ m_display_list_depth = n
  BY <1>1 DEF GxTypeOK
<1>3. lists' = Append(ListsAfter, units) /\ m_display_list_depth' = m_display_list_depth + 1
  BY DEF Enter
<1>4. /\ ListsAfter \in Seq(L) /\ Len(ListsAfter) = n
      /\ \A i \in 1..(n - 1) : ListsAfter[i] = lists[i]
      /\ lists # <<>> => ListsAfter[n] = Rest
      /\ lists = <<>> => ListsAfter = <<>>
  BY ListsAfterTyped
<1>5. /\ consumed' = IF lists = <<>> THEN consumed + size ELSE consumed
      /\ program' = program /\ sent' = sent /\ m_buffer' = m_buffer /\ writing' = writing
  BY DEF Consume
<1>6. lists = <<>> => Len(Data) = Len(m_buffer) - consumed
  BY DataTyped
<1>7. lists # <<>> => Data = lists[n] /\ n \in 1..n
  BY <1>2, DataTyped
<1>8. units \in L
  OBVIOUS
<1> DEFINE after == ListsAfter
<1> HIDE DEF size, L, after
<1>9. consumed' \in 0..Len(m_buffer)
  BY <1>1, <1>2, <1>5, <1>6
<1>10. /\ lists' \in Seq(L) /\ Len(lists') = n + 1 /\ \A i \in 1..n : lists'[i] = after[i]
  <2>1. after \in Seq(L) /\ Len(after) = n /\ lists' = Append(after, units)
    BY <1>3, <1>4 DEF after
  <2> HIDE DEF n
  <2>2. QED
    BY <1>2, <1>8, <2>1
<1>11. GxTypeOK'
  <2>1. m_display_list_depth' = Len(lists') /\ m_display_list_depth' <= MaxDisplayListDepth
    BY <1>2, <1>3, <1>10, DepthAssumption
  <2>2. QED
    BY <1>5, <1>9, <1>10, <2>1 DEF GxTypeOK, L
<1>12. CASE lists = <<>>
  <2>1. Len(m_buffer) - (consumed + size) < Len(m_buffer) - consumed
    BY <1>1, <1>2
  <2>2. Remaining = <<Len(m_buffer) - consumed>>
    BY <1>12 DEF Remaining
  <2>3. Remaining'[1] = Len(m_buffer) - (consumed + size)
    BY <1>5, <1>10, <1>12 DEF Remaining
  <2>4. 0 + 1 \in DOMAIN Remaining /\ Remaining'[0 + 1] < Remaining[0 + 1] /\ 0 \in Nat /\ 1..0 = {}
    BY <2>1, <2>2, <2>3
  <2>5. QED
    <3> DEFINE s == Remaining'
               t == Remaining
    <3>1. 0 + 1 \in DOMAIN t /\ s[0 + 1] < t[0 + 1] /\ 0 \in Nat /\ \A j \in 1..0 : j \in DOMAIN s /\ s[j] = t[j]
      BY <2>4
    <3> HIDE DEF s, t
    <3>2. Below(s, t)
      BY <3>1, BelowAt
    <3>3. QED
      BY <1>11, <3>2 DEF s, t
<1>13. CASE lists # <<>>
  <2>1. /\ DOMAIN Remaining = 1..(n + 1) /\ Remaining[1] = Len(m_buffer) - consumed
        /\ \A i \in 1..n : Remaining[i + 1] = Len(lists[i])
    BY <1>2 DEF Remaining
  <2>2. /\ DOMAIN Remaining' = 1..(n + 2) /\ Remaining'[1] = Len(m_buffer) - consumed
        /\ \A i \in 1..n : Remaining'[i + 1] = Len(after[i])
    <3> DEFINE m == n + 1
               new == lists'
    <3>1. /\ new \in Seq(L) /\ Len(new) = m /\ m \in Nat /\ \A i \in 1..n : new[i] = after[i]
          /\ m + 1 = n + 2 /\ \A i \in 1..n : i + 1 \in 2..m + 1 /\ i \in 1..m
      BY <1>2, <1>10
    <3>2. Remaining' = <<Len(m_buffer) - consumed>> \o [i \in DOMAIN new |-> Len(new[i])]
      BY <1>5, <1>13 DEF Remaining
    <3> HIDE DEF m, n, new
    <3>3. /\ DOMAIN Remaining' = 1..(m + 1) /\ Remaining'[1] = Len(m_buffer) - consumed
          /\ \A i \in 1..m : Remaining'[i + 1] = Len(new[i])
      BY <3>1, <3>2
    <3>4. QED
      BY <3>1, <3>3
  <2> HIDE DEF n
  <2>3. \A j \in 1..n : Remaining'[j] = Remaining[j]
    <3> SUFFICES ASSUME NEW j \in 1..n, j # 1 PROVE Remaining'[j] = Remaining[j]
      BY <2>1, <2>2
    <3>1. j - 1 \in 1..(n - 1) /\ j - 1 \in 1..n /\ j - 1 + 1 = j
      BY <1>2
    <3>2. QED
      BY <1>4, <2>1, <2>2, <3>1 DEF after
  <2>4. Remaining'[n + 1] < Remaining[n + 1]
    <3>1. Remaining'[n + 1] = Len(Rest) /\ Remaining[n + 1] = Len(Data)
      BY <1>4, <1>7, <1>13, <2>1, <2>2 DEF after
    <3>2. QED
      BY <1>1, <1>2, <3>1
  <2>5. n + 1 \in DOMAIN Remaining /\ (n + 1) - 1 = n
    BY <1>2, <2>1
  <2>6. \A j \in 1..n : j \in DOMAIN Remaining'
    BY <1>2, <2>2
  <2>7. QED
    <3> DEFINE s == Remaining'
               t == Remaining
    <3>1. /\ n \in Nat /\ n + 1 \in DOMAIN t /\ s[n + 1] < t[n + 1]
          /\ \A j \in 1..n : j \in DOMAIN s /\ s[j] = t[j]
      BY <1>2, <2>3, <2>4, <2>5, <2>6
    <3> HIDE DEF s, t, n
    <3>2. Below(s, t)
      BY <3>1, BelowAt
    <3>3. QED
      BY <1>11, <3>2 DEF s, t
<1>14. QED
  BY <1>11, <1>12, <1>13

LEMMA CallSteps ==
  ASSUME GxTypeOK, DecodeCall
  PROVE  GxTypeOK' /\ Below(Remaining', Remaining)
<1> DEFINE address == Aligned(Data[2])
           size == Aligned(Data[3])
<1>1. /\ AtCommand({CallOp}) /\ Consume /\ regs' = regs
      /\ IF Enterable(address, size) THEN Enter(Resolved(address, size)) ELSE StayInList
  BY DEF DecodeCall
<1>2. writing /\ Decodable /\ Data # <<>> /\ Data[1] = CallOp /\ regs \in RegsType
  BY <1>1 DEF AtCommand, Decodable, GxTypeOK
<1> HIDE DEF address, size
<1>3. CASE ~Enterable(address, size)
  <2>1. StayInList /\ regs' \in RegsType
    BY <1>1, <1>2, <1>3
  <2>2. QED
    BY <1>1, <1>2, <2>1, ConsumeSteps
<1>4. CASE Enterable(address, size)
  <2>1. m_display_list_depth < MaxDisplayListDepth /\ Enter(Resolved(address, size))
    BY <1>1, <1>4 DEF Enterable
  <2>2. Resolved(address, size) \in Seq(Units)
    <3>1. CommandSize(Data) = (IF Len(Data) >= 3 THEN 3 ELSE 0) /\ CommandSize(Data) > 0
      BY <1>2 DEF CommandSize, Nop, LoadCpOp, CallOp, LoadBpOp, IndexedOps, LoadXfOp, DrawOps, Decodable
    <3>2. Data \in Seq(Units)
      BY DataTyped
    <3> DEFINE data == Data
    <3>3. data \in Seq(Units) /\ Len(data) >= 3
      BY <3>1, <3>2
    <3> HIDE DEF data
    <3>4. data[3] \in Units
      BY <3>3
    <3>5. size \in Nat
      BY <3>4, SmallUnits, AlignedIsNat DEF size, data
    <3>6. QED
      BY <3>5, ResolvedTyped
  <2>3. QED
    BY <1>1, <1>2, <2>1, <2>2, EnterSteps
<1>5. QED
  BY <1>3, <1>4

LEMMA LoadCpSteps ==
  ASSUME GxTypeOK, DecodeLoadCp
  PROVE  GxTypeOK' /\ Below(Remaining', Remaining)
<1>1. /\ writing /\ Decodable /\ Data # <<>> /\ Data[1] = LoadCpOp /\ Consume /\ StayInList
      /\ regs' = LoadCp(regs, Data[2], Data[3])
  BY DEF DecodeLoadCp, AtCommand, Decodable
<1>2. CommandSize(Data) = (IF Len(Data) >= 3 THEN 3 ELSE 0) /\ CommandSize(Data) > 0
  BY <1>1 DEF CommandSize, Nop, LoadCpOp, CallOp, LoadBpOp, IndexedOps, LoadXfOp, DrawOps, Decodable
<1>3. Data \in Seq(Units) /\ regs \in RegsType
  BY DataTyped DEF GxTypeOK
<1> DEFINE data == Data
<1>4. data \in Seq(Units) /\ Len(data) >= 3 /\ regs' = LoadCp(regs, data[2], data[3])
  BY <1>1, <1>2, <1>3
<1> HIDE DEF data
<1>5. data[2] \in Nat /\ data[3] \in Units
  <2>1. data[2] \in Units /\ data[3] \in Units
    BY <1>4
  <2>2. QED
    BY <2>1, SmallUnits
<1>6. regs' \in RegsType
  BY <1>3, <1>4, <1>5, LoadCpTyped
<1>7. QED
  BY <1>1, <1>6, ConsumeSteps

LEMMA DecodeSteps ==
  ASSUME GxTypeOK, DecodeStep
  PROVE  GxTypeOK' /\ (writing' => Below(Remaining', Remaining))
<1>1. regs \in RegsType
  BY DEF GxTypeOK
<1>2. CASE DecodeNop
  BY <1>1, <1>2, ConsumeSteps DEF DecodeNop, AtCommand
<1>3. CASE DecodeInvalidate
  BY <1>1, <1>3, ConsumeSteps DEF DecodeInvalidate, AtCommand
<1>4. CASE DecodeLoadCp
  BY <1>4, LoadCpSteps
<1>5. CASE DecodeLoadXf
  BY <1>1, <1>5, ConsumeSteps DEF DecodeLoadXf, AtCommand
<1>6. CASE DecodeIndexedXf
  BY <1>1, <1>6, ConsumeSteps DEF DecodeIndexedXf, AtCommand
<1>7. CASE DecodeLoadBp
  BY <1>1, <1>7, ConsumeSteps DEF DecodeLoadBp, AtCommand
<1>8. CASE DecodeDraw
  BY <1>1, <1>8, ConsumeSteps DEF DecodeDraw, AtCommand
<1>9. CASE DecodeUnknown
  BY <1>1, <1>9, ConsumeSteps DEF DecodeUnknown
<1>10. CASE DecodeCall
  BY <1>10, CallSteps
<1>11. CASE ListEnds
  BY <1>11, ListEndsSteps
<1>12. CASE WriteReturns
  <2>1. Data \in Seq(Units)
    BY DataTyped
  <2>2. /\ m_buffer' = Data /\ consumed' = 0 /\ writing' = FALSE /\ program' = program /\ sent' = sent
        /\ lists' = lists /\ m_display_list_depth' = m_display_list_depth /\ regs' = regs
    BY <1>12 DEF WriteReturns
  <2>3. consumed' \in 0..Len(m_buffer')
    BY <2>1, <2>2
  <2>4. GxTypeOK'
    BY <2>1, <2>2, <2>3 DEF GxTypeOK
  <2>5. QED
    BY <2>2, <2>4
<1>13. QED
  BY <1>2, <1>3, <1>4, <1>5, <1>6, <1>7, <1>8, <1>9, <1>10, <1>11, <1>12 DEF DecodeStep

LEMMA WriteSteps ==
  ASSUME GxTypeOK, NEW n \in ChunkSizes, WriteBytes(n)
  PROVE  GxTypeOK' /\ ~writing
<1> DEFINE units == EncodeAll(program)
<1>1. /\ ~writing /\ sent + n <= Len(units) /\ m_buffer' = m_buffer \o SubSeq(units, sent + 1, sent + n)
      /\ sent' = sent + n /\ writing' = TRUE /\ program' = program /\ consumed' = consumed
      /\ lists' = lists /\ m_display_list_depth' = m_display_list_depth /\ regs' = regs
  BY DEF WriteBytes
<1>2. /\ n \in Nat /\ sent \in Nat /\ units \in Seq(Units) /\ m_buffer \in Seq(Units)
      /\ consumed \in 0..Len(m_buffer)
  BY ChunkAssumption, GivenCommands DEF GxTypeOK
<1> HIDE DEF units
<1> DEFINE piece == SubSeq(units, sent + 1, sent + n)
<1>3. piece \in Seq(Units)
  <2>1. \A i \in (sent + 1)..(sent + n) : i \in 1..Len(units)
    BY <1>1, <1>2
  <2>2. QED
    BY <1>2, <2>1
<1>4. m_buffer' = m_buffer \o piece
  BY <1>1
<1> HIDE DEF piece
<1>5. m_buffer' \in Seq(Units) /\ Len(m_buffer') = Len(m_buffer) + Len(piece) /\ Len(piece) \in Nat
  BY <1>2, <1>3, <1>4
<1>6. consumed \in 0..Len(m_buffer') /\ sent + n \in Nat
  BY <1>2, <1>5
<1>7. QED
  BY <1>1, <1>5, <1>6 DEF GxTypeOK

LEMMA ResetSteps ==
  ASSUME GxTypeOK, Reset
  PROVE  GxTypeOK' /\ ~writing
<1>1. /\ ~writing /\ sent' = 0 /\ m_buffer' = <<>> /\ consumed' = 0 /\ lists' = <<>>
      /\ m_display_list_depth' = 0 /\ regs' = InitRegs /\ program' = program /\ writing' = writing
  BY DEF Reset
<1>2. 0 \in Units
  BY SmallUnits DEF Byte
<1>3. InitRegs \in RegsType
  BY <1>2 DEF InitRegs, RegsType
<1>4. <<>> \in Seq(Units) /\ Len(<<>>) = 0 /\ <<>> \in Seq(Seq(Units))
  OBVIOUS
<1>5. 0 \in Nat /\ 0 \in 0..0 /\ 0 <= MaxDisplayListDepth
  BY DepthAssumption
<1>6. /\ m_display_list_depth' = Len(lists') /\ consumed' \in 0..Len(m_buffer') /\ sent' \in Nat
      /\ m_display_list_depth' <= MaxDisplayListDepth
  BY <1>1, <1>4, <1>5
<1>7. m_buffer' \in Seq(Units) /\ lists' \in Seq(Seq(Units)) /\ regs' \in RegsType
  BY <1>1, <1>3, <1>4
<1>8. QED
  BY <1>1, <1>6, <1>7 DEF GxTypeOK

LEMMA GxNext ==
  ASSUME GxTypeOK, [Next]_vars
  PROVE  GxTypeOK'
<1>1. CASE DecodeStep
  BY <1>1, DecodeSteps
<1>2. CASE \E n \in ChunkSizes : WriteBytes(n)
  BY <1>2, WriteSteps
<1>3. CASE Reset
  BY <1>3, ResetSteps
<1>4. CASE UNCHANGED vars
  BY <1>4 DEF GxTypeOK, vars
<1>5. QED
  BY <1>1, <1>2, <1>3, <1>4 DEF Next

(* The decoders always hold whole units of the stream or of a list, at     *)
(* most MaxDisplayListDepth lists deep, and m_display_list_depth counts    *)
(* them (DecodeCall, gx_command_processor.cpp).                            *)
THEOREM CommandsTypeCorrect == Spec => []GxTypeOK
<1>1. Init => GxTypeOK
  BY GxInit
<1>2. GxTypeOK /\ [Next]_vars => GxTypeOK'
  BY GxNext
<1>3. QED
  BY <1>1, <1>2, PTL DEF Spec

(* An entry of a sequence, or the end of it, as a number.                  *)
Entry(s, i) == IF i \in DOMAIN s THEN s[i] + 1 ELSE 0

LEMMA EntryIsNat ==
  ASSUME NEW s \in Seq(Nat), NEW i \in Int
  PROVE  Entry(s, i) \in Nat
<1>1. DOMAIN s = 1..Len(s) /\ \A k \in 1..Len(s) : s[k] \in Nat
  OBVIOUS
<1>2. QED
  BY <1>1 DEF Entry

LEMMA BelowEntries ==
  ASSUME NEW s \in Seq(Nat), NEW t \in Seq(Nat), Below(s, t)
  PROVE  \E i \in 1..Len(t) : /\ \A j \in 1..(i - 1) : Entry(s, j) = Entry(t, j)
                              /\ Entry(s, i) < Entry(t, i)
<1>0. \E i \in DOMAIN t : /\ \A j \in 1..(i - 1) : j \in DOMAIN s /\ s[j] = t[j]
                          /\ i \in DOMAIN s => s[i] < t[i]
  BY Zenon DEF Below
<1>1. PICK i \in DOMAIN t : /\ \A j \in 1..(i - 1) : j \in DOMAIN s /\ s[j] = t[j]
                            /\ i \in DOMAIN s => s[i] < t[i]
  BY <1>0, Zenon
<1>2. i \in 1..Len(t) /\ Len(t) \in Nat /\ t[i] \in Nat /\ (i \in DOMAIN s => s[i] \in Nat)
  OBVIOUS
<1>3. Entry(s, i) < Entry(t, i)
  BY <1>1, <1>2 DEF Entry
<1>4. ASSUME NEW j \in 1..(i - 1) PROVE Entry(s, j) = Entry(t, j)
  <2>1. j \in DOMAIN t
    BY <1>2
  <2>2. QED
    BY <1>1, <2>1 DEF Entry
<1>5. QED
  BY <1>2, <1>3, <1>4

(* The entries up to k no longer change from step m on.                    *)
SettledFrom(f, k, m) ==
  \A n \in Nat : n >= m => \A j \in 1..k : Entry(f[n + 1], j) = Entry(f[n], j)

(* Below is well-founded on what the decoders can have before them: the    *)
(* nesting is bounded, so a sequence of decoding steps has an end.         *)
THEOREM BelowIsWellFounded ==
  ASSUME NEW bound \in Nat, NEW f \in [Nat -> {s \in Seq(Nat) : Len(s) <= bound}]
  PROVE  \E n \in Nat : ~Below(f[n + 1], f[n])
<1> SUFFICES ASSUME \A n \in Nat : Below(f[n + 1], f[n]) PROVE FALSE
  OBVIOUS
<1>1. ASSUME NEW n \in Nat
      PROVE  /\ f[n] \in Seq(Nat) /\ Len(f[n]) \in 0..bound
             /\ \E i \in 1..bound : /\ \A j \in 1..(i - 1) : Entry(f[n + 1], j) = Entry(f[n], j)
                                    /\ Entry(f[n + 1], i) < Entry(f[n], i)
  <2>1. f[n] \in Seq(Nat) /\ f[n + 1] \in Seq(Nat) /\ Len(f[n]) <= bound
    OBVIOUS
  <2>2. Below(f[n + 1], f[n])
    OBVIOUS
  <2> DEFINE s == f[n + 1]
             t == f[n]
  <2> HIDE DEF s, t
  <2>3. Len(t) \in 0..bound
    BY <2>1 DEF t
  <2>4. \E i \in 1..Len(t) : /\ \A j \in 1..(i - 1) : Entry(s, j) = Entry(t, j)
                             /\ Entry(s, i) < Entry(t, i)
    BY <2>1, <2>2, BelowEntries DEF s, t
  <2>5. 1..Len(t) \subseteq 1..bound
    BY <2>3
  <2>6. QED
    BY <2>1, <2>3, <2>4, <2>5 DEF s, t
<1>2. ASSUME NEW n \in Nat, NEW j \in 1..bound PROVE Entry(f[n], j) \in Nat
  <2>1. f[n] \in Seq(Nat) /\ j \in Int
    BY <1>1
  <2>2. QED
    BY <2>1, EntryIsNat
<1> DEFINE unsettled == {k \in 0..bound : ~ \E m \in Nat : SettledFrom(f, k, m)}
<1>3. 0 \notin unsettled
  BY DEF SettledFrom
<1>4. bound \in unsettled
  <2> SUFFICES ASSUME NEW m \in Nat, SettledFrom(f, bound, m) PROVE FALSE
    OBVIOUS
  <2>1. PICK i \in 1..bound : Entry(f[m + 1], i) < Entry(f[m], i)
    BY <1>1
  <2>2. Entry(f[m + 1], i) = Entry(f[m], i)
    BY DEF SettledFrom
  <2>3. Entry(f[m], i) \in Nat
    BY <1>2
  <2>4. QED
    BY <2>1, <2>2, <2>3
<1>5. PICK k \in unsettled : k \in 1..bound /\ k - 1 \in 0..bound /\ k - 1 \notin unsettled
  <2>1. unsettled \subseteq 0..bound /\ unsettled # {}
    BY <1>4
  <2> HIDE DEF unsettled
  <2>2. QED
    BY <1>3, <2>1, FirstBad
<1>6. PICK m \in Nat : SettledFrom(f, k - 1, m)
  BY <1>5
<1>7. ASSUME NEW n \in Nat, n >= m PROVE Entry(f[n + 1], k) <= Entry(f[n], k)
  <2>1. PICK i \in 1..bound : /\ \A j \in 1..(i - 1) : Entry(f[n + 1], j) = Entry(f[n], j)
                              /\ Entry(f[n + 1], i) < Entry(f[n], i)
    BY <1>1
  <2>2. ~(i < k)
    <3> SUFFICES ASSUME i < k PROVE FALSE
      OBVIOUS
    <3>1. i \in 1..(k - 1)
      BY <1>5
    <3>2. Entry(f[n + 1], i) = Entry(f[n], i)
      BY <1>6, <1>7, <3>1 DEF SettledFrom
    <3>3. Entry(f[n], i) \in Nat
      BY <1>2
    <3>4. QED
      BY <2>1, <3>2, <3>3
  <2>3. Entry(f[n], k) \in Nat /\ Entry(f[n + 1], k) \in Nat
    <3>1. n \in Nat /\ n + 1 \in Nat /\ k \in 1..bound
      BY <1>5
    <3>2. QED
      BY <1>2, <3>1
  <2>4. CASE i = k
    BY <2>1, <2>3, <2>4
  <2>5. CASE i > k
    <3>1. k \in 1..(i - 1)
      BY <1>5, <2>5
    <3>2. Entry(f[n + 1], k) = Entry(f[n], k)
      BY <2>1, <3>1
    <3>3. QED
      BY <2>3, <3>2
  <2>6. QED
    BY <1>5, <2>2, <2>4, <2>5
<1> DEFINE values == {Entry(f[n], k) : n \in {i \in Nat : i >= m}}
<1>8. PICK least \in values : \A v \in values : least <= v
  <2>1. Entry(f[m], k) \in values
    <3>1. m \in {i \in Nat : i >= m}
      OBVIOUS
    <3>2. QED
      BY <3>1
  <2>2. values \subseteq Nat
    BY <1>2, <1>5
  <2> HIDE DEF values
  <2>3. QED
    BY <2>1, <2>2, LeastNatural
<1>9. PICK start \in Nat : start >= m /\ Entry(f[start], k) = least
  BY <1>8
<1>10. ASSUME NEW n \in Nat, n >= m PROVE Entry(f[n], k) \in values
  BY <1>10
<1> HIDE DEF values
<1> DEFINE moved == {n \in Nat : n >= start /\ Entry(f[n], k) # least}
<1>11. moved = {}
  <2> SUFFICES ASSUME moved # {} PROVE FALSE
    OBVIOUS
  <2>1. PICK n \in moved : \A i \in moved : n <= i
    <3>1. moved \subseteq Nat
      OBVIOUS
    <3> HIDE DEF moved
    <3>2. QED
      BY <3>1, LeastNatural
  <2>2. n \in Nat /\ n > start
    BY <1>9
  <2>3. n - 1 \in Nat /\ n - 1 >= start /\ n - 1 >= m /\ (n - 1) + 1 = n
    BY <1>9, <2>2
  <2>4. n - 1 \notin moved
    BY <2>1, <2>2, <2>3
  <2> DEFINE p == n - 1
  <2>5. p \in Nat /\ p >= start /\ p >= m /\ p + 1 = n /\ p \notin moved
    BY <2>3, <2>4
  <2>6. n >= m
    BY <1>9, <2>2
  <2> HIDE DEF p
  <2>7. Entry(f[p], k) = least
    BY <2>5
  <2>8. Entry(f[p + 1], k) <= Entry(f[p], k)
    BY <1>7, <2>5
  <2>9. least <= Entry(f[n], k)
    BY <1>8, <1>10, <2>2, <2>6
  <2>10. Entry(f[n], k) \in Nat /\ Entry(f[p], k) \in Nat
    BY <1>2, <1>5, <2>2, <2>5
  <2>11. Entry(f[n], k) # least
    BY <2>1
  <2>12. Entry(f[n], k) <= least
    BY <2>5, <2>7, <2>8
  <2>13. least \in Nat
    BY <2>7, <2>10
  <2> HIDE DEF moved
  <2>14. QED
    BY <2>9, <2>10, <2>11, <2>12, <2>13
<1>12. SettledFrom(f, k, start)
  <2> SUFFICES ASSUME NEW n \in Nat, n >= start, NEW j \in 1..k PROVE Entry(f[n + 1], j) = Entry(f[n], j)
    BY DEF SettledFrom
  <2>1. CASE j = k
    <3>1. n \notin moved /\ n + 1 \notin moved
      BY <1>11
    <3>2. QED
      BY <1>9, <2>1, <3>1
  <2>2. CASE j # k
    <3>1. j \in 1..(k - 1) /\ n >= m
      BY <1>5, <1>9, <2>2
    <3>2. QED
      BY <1>6, <3>1 DEF SettledFrom
  <2>3. QED
    BY <2>1, <2>2
<1>13. QED
  BY <1>5, <1>9, <1>12

(* Every write returns, whatever the display lists call and wherever they  *)
(* are cut: what is left before the decoders goes down with each step of   *)
(* ProcessBuffer, and it cannot go down for ever (BelowIsWellFounded).     *)
THEOREM DecodingEnds == Spec => DecodingProgresses
<1> DEFINE Step == writing /\ writing' => Below(Remaining', Remaining) /\ Len(lists') <= MaxDisplayListDepth
<1>1. GxTypeOK /\ [Next]_vars => [Step]_vars
  <2> SUFFICES ASSUME GxTypeOK, [Next]_vars, ~UNCHANGED vars, writing, writing'
               PROVE  Below(Remaining', Remaining) /\ Len(lists') <= MaxDisplayListDepth
    OBVIOUS
  <2>1. DecodeStep
    BY WriteSteps, ResetSteps DEF Next
  <2>2. Len(lists') <= MaxDisplayListDepth
    BY GxNext DEF GxTypeOK
  <2>3. QED
    BY <2>1, <2>2, DecodeSteps
<1>2. QED
  BY <1>1, CommandsTypeCorrect, PTL DEF DecodingProgresses, Spec

-----------------------------------------------------------------------------
(* Sequences cut in two.                                                   *)

LEMMA HeadAndTail ==
  ASSUME NEW T, NEW s \in Seq(T), s # <<>>
  PROVE  /\ s[1] \in T /\ SubSeq(s, 2, Len(s)) \in Seq(T)
         /\ s = <<s[1]>> \o SubSeq(s, 2, Len(s))
<1> DEFINE n == Len(s)
           rest == SubSeq(s, 2, n)
           back == <<s[1]>> \o rest
<1>1. n \in Nat /\ n >= 1 /\ DOMAIN s = 1..n
  OBVIOUS
<1>2. s[1] \in T
  BY <1>1
<1>3. rest \in Seq(T) /\ Len(rest) = n - 1 /\ \A i \in 1..(n - 1) : rest[i] = s[i + 1]
  <2> HIDE DEF n
  <2>1. 2 \in 1..(n + 1) /\ n = Len(s)
    BY <1>1 DEF n
  <2>2. QED
    BY <1>1, <2>1
<1> HIDE DEF rest, n
<1>4. back \in Seq(T) /\ Len(back) = n /\ \A i \in 1..n : back[i] = IF i = 1 THEN s[1] ELSE rest[i - 1]
  BY <1>1, <1>2, <1>3
<1>5. \A i \in 1..n : back[i] = s[i]
  BY <1>1, <1>3, <1>4
<1> HIDE DEF back
<1>6. Len(s) = n
  BY DEF n
<1>7. back = s
  BY <1>4, <1>5, <1>6
<1>8. QED
  BY <1>2, <1>3, <1>7 DEF back, rest, n

LEMMA CutInTwo ==
  ASSUME NEW T, NEW s \in Seq(T), NEW n \in 0..Len(s)
  PROVE  /\ SubSeq(s, 1, n) \in Seq(T) /\ Len(SubSeq(s, 1, n)) = n
         /\ SubSeq(s, n + 1, Len(s)) \in Seq(T) /\ Len(SubSeq(s, n + 1, Len(s))) = Len(s) - n
         /\ s = SubSeq(s, 1, n) \o SubSeq(s, n + 1, Len(s))
<1> DEFINE m == Len(s)
<1>1. m \in Nat /\ n \in 0..m
  OBVIOUS
<1>2. SubSeq(s, 1, n) \in Seq(T) /\ Len(SubSeq(s, 1, n)) = n
  BY <1>1
<1>3. SubSeq(s, n + 1, m) \in Seq(T) /\ Len(SubSeq(s, n + 1, m)) = m - n
  <2> HIDE DEF m
  <2>1. n + 1 \in 1..(m + 1) /\ m = Len(s)
    BY <1>1 DEF m
  <2>2. QED
    BY <1>1, <2>1
<1>4. SubSeq(s, 1, n) \o SubSeq(s, n + 1, m) = SubSeq(s, 1, m)
  <2>1. 1 \in 1..(Len(s) + 1) /\ n \in (1 - 1)..Len(s) /\ m \in n..Len(s)
    BY <1>1
  <2>2. QED
    BY <2>1, ConcatAdjacentSubSeq
<1>5. SubSeq(s, 1, m) = s
  BY PrefixFacts
<1>6. QED
  BY <1>2, <1>3, <1>4, <1>5

LEMMA SameParts ==
  ASSUME NEW T, NEW a \in Seq(T), NEW b \in Seq(T), NEW x \in Seq(T), NEW y \in Seq(T),
         a \o x = b \o y, Len(a) = Len(b)
  PROVE  a = b /\ x = y
<1> DEFINE n == Len(a)
<1>1. n \in Nat /\ Len(b) = n /\ Len(x) \in Nat /\ Len(y) \in Nat
  OBVIOUS
<1>2. \A i \in 1..(n + Len(x)) : (a \o x)[i] = IF i <= n THEN a[i] ELSE x[i - n]
  BY ConcatProperties
<1>3. \A i \in 1..(n + Len(y)) : (b \o y)[i] = IF i <= n THEN b[i] ELSE y[i - n]
  BY <1>1, ConcatProperties
<1> HIDE DEF n
<1>4. ASSUME NEW i \in 1..n PROVE a[i] = b[i]
  <2>1. i \in 1..(n + Len(x)) /\ i \in 1..(n + Len(y)) /\ i <= n
    BY <1>1
  <2>2. (a \o x)[i] = a[i] /\ (b \o y)[i] = b[i]
    BY <1>2, <1>3, <2>1
  <2>3. QED
    BY <2>2
<1>5. a = b
  BY <1>1, <1>4 DEF n
<1>6. x = y
  BY <1>5, ConcatSimplifications
<1>7. QED
  BY <1>5, <1>6

LEMMA SameEnds ==
  ASSUME NEW T, NEW a \in Seq(T), NEW b \in Seq(T), NEW x \in Seq(T), a \o x = b \o x
  PROVE  a = b
BY ConcatSimplifications

(* A concatenation, folded: the steps below reason about it by these       *)
(* lemmas alone.                                                           *)
Cat(s, t) == s \o t

LEMMA CatTyped ==
  ASSUME NEW T, NEW s \in Seq(T), NEW t \in Seq(T)
  PROVE  Cat(s, t) \in Seq(T) /\ Len(Cat(s, t)) = Len(s) + Len(t)
BY ConcatProperties DEF Cat

LEMMA CatNone ==
  ASSUME NEW T, NEW s \in Seq(T)
  PROVE  Cat(s, <<>>) = s /\ Cat(<<>>, s) = s
BY ConcatEmptySeq DEF Cat

LEMMA CatAssociative ==
  ASSUME NEW T, NEW s \in Seq(T), NEW t \in Seq(T), NEW u \in Seq(T)
  PROVE  Cat(Cat(s, t), u) = Cat(s, Cat(t, u))
BY ConcatAssociative DEF Cat

LEMMA CatSame ==
  ASSUME NEW T, NEW a \in Seq(T), NEW b \in Seq(T), NEW x \in Seq(T), NEW y \in Seq(T),
         Cat(a, x) = Cat(b, y), Len(a) = Len(b)
  PROVE  a = b /\ x = y
BY SameParts DEF Cat

LEMMA CatSameEnd ==
  ASSUME NEW T, NEW a \in Seq(T), NEW b \in Seq(T), NEW x \in Seq(T), Cat(a, x) = Cat(b, x)
  PROVE  a = b
BY SameEnds DEF Cat

LEMMA CatCut ==
  ASSUME NEW T, NEW s \in Seq(T), NEW n \in 0..Len(s)
  PROVE  s = Cat(SubSeq(s, 1, n), SubSeq(s, n + 1, Len(s)))
BY CutInTwo DEF Cat

\* The longer of two beginnings of a sequence has the shorter one at its start.
LEMMA CatLonger ==
  ASSUME NEW T, NEW a \in Seq(T), NEW b \in Seq(T), NEW x \in Seq(T), NEW y \in Seq(T),
         Len(a) >= Len(b), Cat(a, x) = Cat(b, y)
  PROVE  LET r == SubSeq(a, Len(b) + 1, Len(a))
         IN r \in Seq(T) /\ a = Cat(b, r) /\ y = Cat(r, x)
<1> DEFINE n == Len(b)
           f == SubSeq(a, 1, n)
           r == SubSeq(a, n + 1, Len(a))
           z == Cat(r, x)
<1>1. n \in 0..Len(a)
  OBVIOUS
<1> HIDE DEF n
<1>2. f \in Seq(T) /\ r \in Seq(T) /\ Len(f) = n
  BY <1>1, CutInTwo
<1>3. a = Cat(f, r)
  BY <1>1, CatCut
<1>4. n = Len(b)
  BY DEF n
<1> HIDE DEF f, r
<1>5. Cat(a, x) = Cat(f, z)
  BY <1>2, <1>3, CatAssociative
<1>6. z \in Seq(T)
  BY <1>2, CatTyped
<1> HIDE DEF z
<1>7. f = b /\ z = y
  BY <1>2, <1>4, <1>5, <1>6, CatSame
<1>8. QED
  BY <1>2, <1>3, <1>4, <1>7 DEF r, z

LEMMA FlattenOne ==
  ASSUME NEW T, NEW s \in Seq(T)
  PROVE  FlattenSeq(<<s>>) = s
<1> DEFINE L == Seq(T)
           none == <<>>
<1>1. none \in Seq(L) /\ s \in L /\ Append(none, s) = <<s>>
  OBVIOUS
<1>2. FlattenSeq(Append(none, s)) = FlattenSeq(none) \o s
  <2> HIDE DEF none
  <2>1. none \in Seq(Seq(T))
    BY <1>1
  <2>2. QED
    BY <2>1, FlattenAppend
<1>3. FlattenSeq(none) = <<>>
  BY FlattenOfNone
<1>4. <<>> \o s = s
  BY ConcatEmptySeq
<1>5. QED
  BY <1>1, <1>2, <1>3, <1>4

Mapped(e, s) == [i \in 1..Len(s) |-> e[s[i]]]

LEMMA MapOfConcat ==
  ASSUME NEW T, NEW s \in Seq(T), NEW t \in Seq(T), NEW e
  PROVE  Mapped(e, s \o t) = Mapped(e, s) \o Mapped(e, t)
BY DEF Mapped

-----------------------------------------------------------------------------
(* The commands there are, and what the calls among them stand for.        *)

Given == UNION {Range(commands) : commands \in Programs \cup Range(DisplayLists)}

LEMMA GivenAreCommands ==
  /\ Given \subseteq Command /\ Called = {c \in Given : c.op = "call"}
  /\ Programs \subseteq Seq(Given) /\ Range(DisplayLists) \subseteq Seq(Given)
<1>1. \A cs \in Programs \cup Range(DisplayLists) : cs \in Seq(Command)
  BY CommandsAssumption
<1>2. ASSUME NEW cs \in Programs \cup Range(DisplayLists)
      PROVE  Range(cs) \subseteq Command /\ cs \in Seq(Range(cs))
  <2>1. cs \in Seq(Command)
    BY <1>1
  <2>2. \A i \in 1..Len(cs) : cs[i] \in Command /\ cs[i] \in Range(cs)
    BY <2>1 DEF Range
  <2>3. DOMAIN cs = 1..Len(cs) /\ Len(cs) \in Nat
    BY <2>1
  <2>4. cs \in [1..Len(cs) -> Range(cs)]
    BY <2>1, <2>2, <2>3
  <2>5. QED
    BY <2>2, <2>3, <2>4 DEF Range
<1>3. Given \subseteq Command
  BY <1>2 DEF Given
<1>4. \A cs \in Programs \cup Range(DisplayLists) : Range(cs) \subseteq Given
  BY DEF Given
<1>5. \A cs \in Programs \cup Range(DisplayLists) : cs \in Seq(Given)
  BY <1>2, <1>4
<1>6. QED
  BY <1>3, <1>5 DEF Called, Given

\* Commands that call nothing.
Plainly == {c \in Given : c.op # "call"}

LEMMA EncodeAllParts ==
  /\ EncodeAll(<<>>) = <<>>
  /\ \A c \in Command : EncodeAll(<<c>>) = Encode(c)
  /\ \A s \in Seq(Command), t \in Seq(Command) : EncodeAll(s \o t) = EncodeAll(s) \o EncodeAll(t)
<1>1. EncodeAll(<<>>) = <<>>
  <2>1. Encodings(<<>>) = <<>> /\ <<>> \in Seq(Command)
    BY DEF Encodings
  <2>2. QED
    BY <2>1, EncodingsTyped, FlattenOfNone
<1>2. ASSUME NEW c \in Command PROVE EncodeAll(<<c>>) = Encode(c)
  <2>1. Encodings(<<c>>) = <<Encode(c)>> /\ <<c>> \in Seq(Command)
    BY DEF Encodings
  <2>2. EncodeAll(<<c>>) = FlattenSeq(<<Encode(c)>>)
    BY <2>1, EncodingsTyped
  <2>3. Encode(c) \in Seq(Units)
    BY EncodeTyped
  <2>4. QED
    BY <2>2, <2>3, FlattenOne
<1>3. ASSUME NEW s \in Seq(Command), NEW t \in Seq(Command)
      PROVE  EncodeAll(s \o t) = EncodeAll(s) \o EncodeAll(t)
  <2>1. s \o t \in Seq(Command)
    BY ConcatProperties
  <2>2. /\ Encodings(s) \in Seq(Seq(Units)) /\ EncodeAll(s) = FlattenSeq(Encodings(s))
        /\ Encodings(t) \in Seq(Seq(Units)) /\ EncodeAll(t) = FlattenSeq(Encodings(t))
        /\ EncodeAll(s \o t) = FlattenSeq(Encodings(s \o t))
    BY <2>1, EncodingsTyped
  <2>3. Encodings(s \o t) = Encodings(s) \o Encodings(t)
    BY DEF Encodings
  <2>4. FlattenSeq(Encodings(s) \o Encodings(t)) = FlattenSeq(Encodings(s)) \o FlattenSeq(Encodings(t))
    BY <2>2, FlattenConcat
  <2>5. QED
    BY <2>2, <2>3, <2>4
<1>4. QED
  BY <1>1, <1>2, <1>3

Expansions(commands, inlined) ==
  [i \in DOMAIN commands |-> IF commands[i].op = "call" THEN inlined[commands[i]] ELSE <<commands[i]>>]

LEMMA ExpansionsTyped ==
  ASSUME NEW inlined \in [Called -> Seq(Plainly)], NEW s \in Seq(Given)
  PROVE  Expansions(s, inlined) \in Seq(Seq(Plainly)) /\ Inline(s, inlined) = FlattenSeq(Expansions(s, inlined))
<1>1. DOMAIN s = 1..Len(s) /\ Len(s) \in Nat
  OBVIOUS
<1>2. ASSUME NEW i \in 1..Len(s)
      PROVE  (IF s[i].op = "call" THEN inlined[s[i]] ELSE <<s[i]>>) \in Seq(Plainly)
  <2>1. s[i] \in Given
    BY <1>1
  <2>2. CASE s[i].op = "call"
    BY <2>1, <2>2, GivenAreCommands
  <2>3. CASE s[i].op # "call"
    <3>1. s[i] \in Plainly
      BY <2>1, <2>3 DEF Plainly
    <3>2. QED
      BY <2>3, <3>1
  <2>4. QED
    BY <2>2, <2>3
<1>3. Expansions(s, inlined) \in [1..Len(s) -> Seq(Plainly)]
  BY <1>1, <1>2 DEF Expansions
<1>4. QED
  BY <1>1, <1>3 DEF Inline, Expansions

LEMMA InlineTyped ==
  ASSUME NEW inlined \in [Called -> Seq(Plainly)], NEW s \in Seq(Given)
  PROVE  Inline(s, inlined) \in Seq(Plainly)
BY ExpansionsTyped, FlattenTyped

LEMMA InlineParts ==
  ASSUME NEW inlined \in [Called -> Seq(Plainly)]
  PROVE  /\ Inline(<<>>, inlined) = <<>>
         /\ \A c \in Called : Inline(<<c>>, inlined) = inlined[c]
         /\ \A c \in Plainly : Inline(<<c>>, inlined) = <<c>>
         /\ \A s \in Seq(Given), t \in Seq(Given) :
              Inline(s \o t, inlined) = Inline(s, inlined) \o Inline(t, inlined)
<1>1. Inline(<<>>, inlined) = <<>>
  <2>1. Expansions(<<>>, inlined) = <<>> /\ <<>> \in Seq(Given)
    BY DEF Expansions
  <2>2. QED
    BY <2>1, ExpansionsTyped, FlattenOfNone
<1>2. ASSUME NEW c \in Called PROVE Inline(<<c>>, inlined) = inlined[c]
  <2>1. c \in Given /\ c.op = "call" /\ inlined[c] \in Seq(Plainly)
    BY GivenAreCommands
  <2>2. Expansions(<<c>>, inlined) = <<inlined[c]>> /\ <<c>> \in Seq(Given)
    BY <2>1 DEF Expansions
  <2>3. QED
    BY <2>1, <2>2, ExpansionsTyped, FlattenOne
<1>3. ASSUME NEW c \in Plainly PROVE Inline(<<c>>, inlined) = <<c>>
  <2>1. c \in Given /\ c.op # "call" /\ <<c>> \in Seq(Plainly)
    BY DEF Plainly
  <2>2. Expansions(<<c>>, inlined) = <<<<c>>>> /\ <<c>> \in Seq(Given)
    BY <2>1 DEF Expansions
  <2>3. QED
    BY <2>1, <2>2, ExpansionsTyped, FlattenOne
<1>4. ASSUME NEW s \in Seq(Given), NEW t \in Seq(Given)
      PROVE  Inline(s \o t, inlined) = Inline(s, inlined) \o Inline(t, inlined)
  <2>1. s \o t \in Seq(Given)
    BY ConcatProperties
  <2> DEFINE es == Expansions(s, inlined)
             et == Expansions(t, inlined)
  <2>2. /\ es \in Seq(Seq(Plainly)) /\ Inline(s, inlined) = FlattenSeq(es)
        /\ et \in Seq(Seq(Plainly)) /\ Inline(t, inlined) = FlattenSeq(et)
        /\ Inline(s \o t, inlined) = FlattenSeq(Expansions(s \o t, inlined))
    BY <2>1, ExpansionsTyped
  <2>3. Expansions(s \o t, inlined) = es \o et
    <3> DEFINE e == [c \in Given |-> IF c.op = "call" THEN inlined[c] ELSE <<c>>]
    <3>1. \A cs \in Seq(Given) : Expansions(cs, inlined) = Mapped(e, cs)
      BY DEF Expansions, Mapped
    <3> HIDE DEF e
    <3>2. Mapped(e, s \o t) = Mapped(e, s) \o Mapped(e, t)
      BY MapOfConcat
    <3>3. QED
      BY <2>1, <3>1, <3>2
  <2> HIDE DEF es, et
  <2>4. FlattenSeq(es \o et) = FlattenSeq(es) \o FlattenSeq(et)
    BY <2>2, FlattenConcat
  <2>5. QED
    BY <2>2, <2>3, <2>4
<1>5. QED
  BY <1>1, <1>2, <1>3, <1>4

LEMMA MaxOfSome ==
  ASSUME NEW n \in Nat, NEW S, S \subseteq 0..n, S # {}
  PROVE  Max(S) \in S /\ \A x \in S : x <= Max(S)
<1> DEFINE T == {n - x : x \in S}
<1>1. T \subseteq Nat /\ T # {}
  <2>1. \A x \in S : n - x \in Nat
    OBVIOUS
  <2>2. QED
    BY <2>1
<1>2. PICK m \in T : \A y \in T : m <= y
  <2> HIDE DEF T
  <2>1. QED
    BY <1>1, LeastNatural
<1>3. PICK x \in S : m = n - x
  OBVIOUS
<1>4. ASSUME NEW y \in S PROVE x >= y
  <2>1. m <= n - y
    BY <1>2
  <2>2. x \in 0..n /\ y \in 0..n
    OBVIOUS
  <2>3. QED
    BY <1>3, <2>1, <2>2
<1>5. Max(S) \in S /\ \A y \in S : Max(S) >= y
  BY <1>4 DEF Max
<1>6. QED
  BY <1>5

(* WholeCommands: the most commands whose units fit.                       *)
LEMMA WholeCommandsFit ==
  ASSUME NEW cs \in Seq(Given), NEW units \in Nat, NEW w, w = WholeCommands(cs, units)
  PROVE  /\ w \in Seq(Given) /\ Len(w) \in 0..Len(cs) /\ w = SubSeq(cs, 1, Len(w))
         /\ Len(EncodeAll(w)) <= units
         /\ \A n \in 0..Len(cs) : Len(EncodeAll(SubSeq(cs, 1, n))) <= units => n <= Len(w)
<1> DEFINE fits == {n \in 0..Len(cs) : Len(EncodeAll(SubSeq(cs, 1, n))) <= units}
           top == Max(fits)
<1>1. Len(cs) \in Nat
  OBVIOUS
<1>2. 0 \in fits
  <2>1. SubSeq(cs, 1, 0) = <<>>
    BY PrefixFacts
  <2>2. EncodeAll(<<>>) = <<>>
    BY EncodeAllParts
  <2>3. Len(<<>>) = 0 /\ 0 \in 0..Len(cs) /\ 0 <= units
    BY <1>1
  <2>4. QED
    BY <2>1, <2>2, <2>3
<1>3. top \in fits /\ \A n \in fits : n <= top
  <2>1. fits \subseteq 0..Len(cs)
    OBVIOUS
  <2> HIDE DEF fits
  <2>2. QED
    BY <1>1, <1>2, <2>1, MaxOfSome
<1>4. w = SubSeq(cs, 1, top)
  BY DEF WholeCommands
<1>5. top \in 0..Len(cs) /\ Len(EncodeAll(SubSeq(cs, 1, top))) <= units
  BY <1>3
<1>6. \A n \in 0..Len(cs) : Len(EncodeAll(SubSeq(cs, 1, n))) <= units => n <= top
  BY <1>3
<1> HIDE DEF fits, top
<1>7. SubSeq(cs, 1, top) \in Seq(Given) /\ Len(SubSeq(cs, 1, top)) = top
  BY <1>5, CutInTwo
<1>8. QED
  BY <1>4, <1>5, <1>6, <1>7

\* What Inlined[left] is, from Inlined[left - 1].
Unrolled(f, left) ==
  [c \in Called |->
    IF left = 0 \/ Resolved(Aligned(c.address), Aligned(c.size)) = <<>> THEN <<>>
    ELSE Inline(WholeCommands(DisplayLists[Aligned(c.address)], Aligned(c.size)), f[left - 1])]

Unrolls(f, n) == f = [left \in 0..n |-> Unrolled(f, left)]

LEMMA UnrollsAt ==
  ASSUME NEW n \in Nat, NEW f, Unrolls(f, n), NEW left \in 0..n
  PROVE  f[left] = Unrolled(f, left)
<1> DEFINE value(i) == Unrolled(f, i)
<1>1. f = [i \in 0..n |-> value(i)]
  BY DEF Unrolls
<1> HIDE DEF value
<1>2. f[left] = value(left)
  BY <1>1
<1>3. QED
  BY <1>2 DEF value

LEMMA UnrolledOnce ==
  ASSUME NEW f, NEW g, NEW left, left # 0 => f[left - 1] = g[left - 1]
  PROVE  Unrolled(f, left) = Unrolled(g, left)
BY DEF Unrolled

LEMMA UnrollingExists ==
  ASSUME NEW n \in Nat
  PROVE  \E f : Unrolls(f, n)
<1> DEFINE none == {m \in Nat : ~ \E f : Unrolls(f, m)}
<1> SUFFICES ASSUME none # {} PROVE FALSE
  OBVIOUS
<1>1. PICK m \in none : \A k \in none : m <= k
  <2>1. none \subseteq Nat
    OBVIOUS
  <2> HIDE DEF none
  <2>2. QED
    BY <2>1, LeastNatural
<1>2. CASE m = 0
  <2> DEFINE f == [left \in 0..0 |-> Unrolled(<<>>, left)]
  <2>1. \A left \in 0..0 : Unrolled(<<>>, left) = Unrolled(f, left)
    <3> HIDE DEF f
    <3>1. QED
      BY UnrolledOnce
  <2>2. f = [left \in 0..0 |-> Unrolled(f, left)]
    BY <2>1
  <2>3. QED
    BY <1>2, <2>2 DEF Unrolls
<1>3. CASE m # 0
  <2>1. m - 1 \in Nat /\ m - 1 \notin none /\ m \in Nat
    BY <1>1, <1>3
  <2>2. PICK g : Unrolls(g, m - 1)
    BY <2>1
  <2> DEFINE f == [left \in 0..m |-> Unrolled(g, left)]
  <2>3. \A left \in 0..(m - 1) : f[left] = g[left]
    <3>1. \A left \in 0..(m - 1) : g[left] = Unrolled(g, left)
      BY <2>1, <2>2, UnrollsAt
    <3>2. \A left \in 0..(m - 1) : left \in 0..m
      BY <2>1
    <3>3. QED
      BY <3>1, <3>2
  <2>4. \A left \in 0..m : Unrolled(g, left) = Unrolled(f, left)
    <3> HIDE DEF f
    <3>1. \A left \in 0..m : left # 0 => left - 1 \in 0..(m - 1)
      BY <2>1
    <3>2. QED
      BY <2>3, <3>1, UnrolledOnce
  <2>5. f = [left \in 0..m |-> Unrolled(f, left)]
    BY <2>4
  <2>6. QED
    BY <2>1, <2>5 DEF Unrolls
<1>4. QED
  BY <1>2, <1>3

LEMMA InlinedUnrolls ==
  ASSUME NEW left \in 0..MaxDisplayListDepth
  PROVE  Inlined[left] = Unrolled(Inlined, left)
<1>1. Inlined = CHOOSE f : Unrolls(f, MaxDisplayListDepth)
  BY DEF Inlined, Unrolls, Unrolled
<1>2. \E f : Unrolls(f, MaxDisplayListDepth)
  BY DepthAssumption, UnrollingExists
<1>3. Unrolls(Inlined, MaxDisplayListDepth)
  BY <1>1, <1>2
<1>4. QED
  BY <1>3, DepthAssumption, UnrollsAt

LEMMA CallsAreTyped ==
  ASSUME NEW c \in Called
  PROVE  /\ c \in Command /\ c.op = "call"
         /\ Aligned(c.address) \in Nat /\ Aligned(c.size) \in Nat
<1>1. c \in Command /\ c.op = "call"
  BY GivenAreCommands
<1>2. c.address \in Units /\ c.size \in Units
  BY <1>1, CommandCases
<1>3. QED
  BY <1>1, <1>2, SmallUnits, AlignedIsNat

LEMMA ListsAreGiven ==
  ASSUME NEW address, NEW size \in Nat, Resolved(address, size) # <<>>
  PROVE  /\ DisplayLists[address] \in Seq(Given)
         /\ size <= Len(EncodeAll(DisplayLists[address]))
         /\ Resolved(address, size) = SubSeq(EncodeAll(DisplayLists[address]), 1, size)
<1>1. address \in DOMAIN DisplayLists
  BY DEF Resolved
<1>2. DisplayLists[address] \in Seq(Given) /\ EncodeAll(DisplayLists[address]) \in Seq(Units)
  BY <1>1, GivenAreCommands, GivenCommands DEF Range
<1> DEFINE units == EncodeAll(DisplayLists[address])
<1>3. Resolved(address, size) = IF size > Len(units) THEN <<>> ELSE SubSeq(units, 1, size)
  BY <1>1 DEF Resolved
<1>4. Len(units) \in Nat
  BY <1>2
<1> HIDE DEF units
<1>5. ~(size > Len(units))
  BY <1>3
<1>6. QED
  BY <1>2, <1>3, <1>4, <1>5 DEF units

LEMMA InlinedTyped ==
  ASSUME NEW left \in 0..MaxDisplayListDepth
  PROVE  Inlined[left] \in [Called -> Seq(Plainly)]
<1> DEFINE bad == {i \in 0..MaxDisplayListDepth : Inlined[i] \notin [Called -> Seq(Plainly)]}
<1> SUFFICES ASSUME bad # {} PROVE FALSE
  OBVIOUS
<1>1. PICK i \in bad : \A j \in bad : i <= j
  <2>1. bad \subseteq Nat
    BY DepthAssumption
  <2> HIDE DEF bad
  <2>2. QED
    BY <2>1, LeastNatural
<1>2. i \in 0..MaxDisplayListDepth /\ Inlined[i] \notin [Called -> Seq(Plainly)]
  OBVIOUS
<1>3. i # 0 => i - 1 \in 0..MaxDisplayListDepth /\ Inlined[i - 1] \in [Called -> Seq(Plainly)]
  <2>1. i # 0 => i - 1 \in 0..MaxDisplayListDepth /\ ~(i <= i - 1)
    BY <1>2, DepthAssumption
  <2>2. i # 0 => i - 1 \notin bad
    BY <1>1, <2>1
  <2>3. QED
    BY <2>1, <2>2
<1> HIDE DEF bad
<1>4. ASSUME NEW c \in Called
      PROVE  (IF i = 0 \/ Resolved(Aligned(c.address), Aligned(c.size)) = <<>> THEN <<>>
              ELSE Inline(WholeCommands(DisplayLists[Aligned(c.address)], Aligned(c.size)), Inlined[i - 1]))
                \in Seq(Plainly)
  <2> DEFINE a == Aligned(c.address)
             n == Aligned(c.size)
  <2>1. n \in Nat
    BY CallsAreTyped
  <2> HIDE DEF a, n
  <2>2. CASE i = 0 \/ Resolved(a, n) = <<>>
    BY <2>2 DEF a, n
  <2>3. CASE i # 0 /\ Resolved(a, n) # <<>>
    <3>1. DisplayLists[a] \in Seq(Given)
      BY <2>1, <2>3, ListsAreGiven
    <3>2. WholeCommands(DisplayLists[a], n) \in Seq(Given)
      BY <2>1, <3>1, WholeCommandsFit
    <3>3. Inline(WholeCommands(DisplayLists[a], n), Inlined[i - 1]) \in Seq(Plainly)
      BY <1>3, <2>3, <3>2, InlineTyped
    <3>4. QED
      BY <2>3, <3>3 DEF a, n
  <2>4. QED
    BY <2>2, <2>3
<1>5. Unrolled(Inlined, i) \in [Called -> Seq(Plainly)]
  BY <1>4 DEF Unrolled
<1>6. QED
  BY <1>2, <1>5, InlinedUnrolls

-----------------------------------------------------------------------------
(* The units of a command, and what the decoder makes of them.             *)

LEMMA SeqGrows ==
  ASSUME NEW A, NEW B, A \subseteq B, NEW s \in Seq(A)
  PROVE  s \in Seq(B)
<1>1. \A i \in 1..Len(s) : s[i] \in B
  OBVIOUS
<1>2. DOMAIN s = 1..Len(s) /\ Len(s) \in Nat /\ s = [i \in 1..Len(s) |-> s[i]]
  OBVIOUS
<1>3. s \in [1..Len(s) -> B]
  BY <1>1, <1>2
<1>4. QED
  BY <1>2, <1>3

LEMMA ThreeAndMore ==
  ASSUME NEW T, NEW x \in T, NEW y \in T, NEW z \in T, NEW rest \in Seq(T), NEW s, s = <<x, y, z>> \o rest
  PROVE  /\ Len(s) = 3 + Len(rest) /\ s[1] = x /\ s[2] = y /\ s[3] = z
         /\ \A i \in 1..Len(rest) : s[i + 3] = rest[i]
OBVIOUS

LEMMA TwoAndMore ==
  ASSUME NEW T, NEW x \in T, NEW y \in T, NEW rest \in Seq(T), NEW s, s = <<x, y>> \o rest
  PROVE  /\ Len(s) = 2 + Len(rest) /\ s[1] = x /\ s[2] = y
         /\ \A i \in 1..Len(rest) : s[i + 2] = rest[i]
OBVIOUS

LEMMA UnitsOfNone ==
  ASSUME NEW c \in Command, NEW s, s = Encode(c), c.op \in {"nop", "metrics", "invalidate", "unknown"}
  PROVE  Len(s) = 1 /\ s[1] = CASE c.op = "nop" -> Nop [] c.op = "metrics" -> MetricsOp
                                [] c.op = "invalidate" -> InvalidateOp [] OTHER -> c.opcode
<1>1. CASE c.op = "nop"
  <2>1. s = <<Nop>>
    BY <1>1, EncodeCases
  <2>2. QED
    BY <1>1, <2>1
<1>2. CASE c.op = "metrics"
  <2>1. s = <<MetricsOp>>
    BY <1>2, EncodeCases
  <2>2. QED
    BY <1>2, <2>1
<1>3. CASE c.op = "invalidate"
  <2>1. s = <<InvalidateOp>>
    BY <1>3, EncodeCases
  <2>2. QED
    BY <1>3, <2>1
<1>4. CASE c.op = "unknown"
  <2>1. s = <<c.opcode>>
    BY <1>4, EncodeCases
  <2>2. QED
    BY <1>4, <2>1
<1>5. QED
  BY <1>1, <1>2, <1>3, <1>4

LEMMA UnitsOfThree ==
  ASSUME NEW c \in Command, NEW s, s = Encode(c)
  PROVE  /\ c.op = "cp" => Len(s) = 3 /\ s[1] = LoadCpOp /\ s[2] = c.register /\ s[3] = c.value
         /\ c.op = "bp" => Len(s) = 3 /\ s[1] = LoadBpOp /\ s[2] = c.register /\ s[3] = c.value
         /\ c.op = "call" => Len(s) = 3 /\ s[1] = CallOp /\ s[2] = c.address /\ s[3] = c.size
         /\ c.op = "indexed" => /\ Len(s) = 3 /\ s[1] = (c.array - 8) * 8 /\ s[2] = c.index
                                /\ s[3] = (c.size - 1) * 4096 + c.address
<1>1. ASSUME c.op = "cp" PROVE Len(s) = 3 /\ s[1] = LoadCpOp /\ s[2] = c.register /\ s[3] = c.value
  <2>1. s = <<LoadCpOp, c.register, c.value>>
    BY <1>1, EncodeCases
  <2>2. QED
    BY <2>1
<1>2. ASSUME c.op = "bp" PROVE Len(s) = 3 /\ s[1] = LoadBpOp /\ s[2] = c.register /\ s[3] = c.value
  <2>1. s = <<LoadBpOp, c.register, c.value>>
    BY <1>2, EncodeCases
  <2>2. QED
    BY <2>1
<1>3. ASSUME c.op = "call" PROVE Len(s) = 3 /\ s[1] = CallOp /\ s[2] = c.address /\ s[3] = c.size
  <2>1. s = <<CallOp, c.address, c.size>>
    BY <1>3, EncodeCases
  <2>2. QED
    BY <2>1
<1>4. ASSUME c.op = "indexed"
      PROVE  Len(s) = 3 /\ s[1] = (c.array - 8) * 8 /\ s[2] = c.index /\ s[3] = (c.size - 1) * 4096 + c.address
  <2> DEFINE header == (c.size - 1) * 4096 + c.address
             opcode == (c.array - 8) * 8
  <2>1. s = <<opcode, c.index, header>>
    BY <1>4 DEF Encode
  <2> HIDE DEF header, opcode
  <2>2. Len(s) = 3 /\ s[1] = opcode /\ s[2] = c.index /\ s[3] = header
    BY <2>1
  <2>3. QED
    BY <2>2 DEF header, opcode
<1>5. QED
  BY <1>1, <1>2, <1>3, <1>4

LEMMA UnitsOfXf ==
  ASSUME NEW c \in Command, NEW s, s = Encode(c), c.op = "xf"
  PROVE  /\ Len(s) = 3 + Len(c.values) /\ s[1] = LoadXfOp /\ s[2] = Len(c.values) - 1 /\ s[3] = c.address
         /\ \A i \in 1..Len(c.values) : s[i + 3] = c.values[i]
         /\ c.values \in Seq(Units) /\ Len(c.values) \in 1..16
<1> DEFINE values == c.values
           last == Len(values) - 1
           address == c.address
<1>1. s = <<LoadXfOp, last, address>> \o values
  BY EncodeCases
<1>2. values \in Seq(Units) /\ address \in Half /\ Len(values) \in 1..16
  BY CommandCases
<1>3. last \in Int /\ address \in Int /\ LoadXfOp \in Int /\ values \in Seq(Int)
  <2>1. Half \subseteq Int /\ Units \subseteq Int
    BY SmallUnits
  <2>2. last \in Int
    BY <1>2
  <2> HIDE DEF values, last, address
  <2>3. values \in Seq(Int)
    BY <1>2, <2>1, SeqGrows
  <2>4. QED
    BY <1>2, <2>1, <2>2, <2>3 DEF LoadXfOp
<1> HIDE DEF values, last, address
<1>4. /\ Len(s) = 3 + Len(values) /\ s[1] = LoadXfOp /\ s[2] = last /\ s[3] = address
      /\ \A i \in 1..Len(values) : s[i + 3] = values[i]
  BY <1>1, <1>3, ThreeAndMore
<1>5. QED
  BY <1>2, <1>4 DEF values, last, address

LEMMA UnitsOfDraw ==
  ASSUME NEW c \in Command, NEW s, s = Encode(c), c.op = "draw"
  PROVE  /\ Len(s) = 2 + Len(c.data) /\ s[1] = 128 + 8 * (c.primitive - 1) + c.vat /\ s[2] = c.count
         /\ \A i \in 1..Len(c.data) : s[i + 2] = c.data[i]
         /\ c.data \in Seq(Units) /\ c.count \in Nat /\ c.primitive \in 1..8 /\ c.vat \in 0..7
<1> DEFINE data == c.data
           opcode == 128 + 8 * (c.primitive - 1) + c.vat
           count == c.count
<1>1. s = <<opcode, count>> \o data
  BY EncodeCases
<1>2. data \in Seq(Byte) /\ count \in Half /\ c.primitive \in 1..8 /\ c.vat \in 0..7
  BY CommandCases
<1>3. Byte \subseteq Units /\ Half \subseteq Nat /\ Units \subseteq Int
  BY SmallUnits
<1>4. opcode \in Int
  <2> DEFINE p == c.primitive
             v == c.vat
  <2>1. p \in 1..8 /\ v \in 0..7 /\ opcode = 128 + 8 * (p - 1) + v
    BY <1>2
  <2> HIDE DEF p, v, opcode
  <2>2. QED
    BY <2>1
<1> HIDE DEF data, opcode, count
<1>5. data \in Seq(Units) /\ data \in Seq(Int) /\ count \in Int /\ count \in Nat
  <2>1. data \in Seq(Units)
    BY <1>2, <1>3, SeqGrows
  <2>2. data \in Seq(Int)
    BY <1>3, <2>1, SeqGrows
  <2>3. QED
    BY <1>2, <1>3, <2>1, <2>2
<1>6. /\ Len(s) = 2 + Len(data) /\ s[1] = opcode /\ s[2] = count
      /\ \A i \in 1..Len(data) : s[i + 2] = data[i]
  BY <1>1, <1>4, <1>5, TwoAndMore
<1>7. QED
  BY <1>2, <1>5, <1>6 DEF data, opcode, count

\* What the first unit of a command says.
LEMMA FirstUnit ==
  ASSUME NEW c \in Command, NEW first, first = Encode(c)[1]
  PROVE  /\ c.op = "nop" <=> first = Nop
         /\ c.op = "metrics" <=> first = MetricsOp
         /\ c.op = "invalidate" <=> first = InvalidateOp
         /\ c.op = "cp" <=> first = LoadCpOp
         /\ c.op = "bp" <=> first = LoadBpOp
         /\ c.op = "xf" <=> first = LoadXfOp
         /\ c.op = "call" <=> first = CallOp
         /\ c.op = "indexed" <=> first \in IndexedOps
         /\ c.op = "draw" <=> first \in DrawOps
         /\ c.op = "unknown" <=> first \notin KnownOps
         /\ first \in Nat
<1> USE DEF Nop, MetricsOp, InvalidateOp, LoadCpOp, LoadBpOp, LoadXfOp, CallOp, IndexedOps, DrawOps, KnownOps
<1>1. CASE c.op \in {"nop", "metrics", "invalidate"}
  <2>1. first = CASE c.op = "nop" -> Nop [] c.op = "metrics" -> MetricsOp
                  [] c.op = "invalidate" -> InvalidateOp [] OTHER -> c.opcode
    BY <1>1, UnitsOfNone
  <2>2. QED
    BY <1>1, <2>1
<1>2. CASE c.op = "unknown"
  <2>1. first = c.opcode
    BY <1>2, UnitsOfNone
  <2>2. c.opcode \in Byte /\ c.opcode \notin KnownOps
    BY <1>2, CommandCases
  <2>3. c.opcode \in Nat
    BY <2>2, SmallUnits
  <2>4. QED
    BY <1>2, <2>1, <2>2, <2>3
<1>3. CASE c.op \in {"cp", "bp", "call"}
  <2>1. /\ c.op = "cp" => first = LoadCpOp
        /\ c.op = "bp" => first = LoadBpOp
        /\ c.op = "call" => first = CallOp
    BY UnitsOfThree
  <2>2. QED
    BY <1>3, <2>1
<1>4. CASE c.op = "indexed"
  <2>1. first = (c.array - 8) * 8
    BY <1>4, UnitsOfThree
  <2>2. c.array \in 12..15
    BY <1>4, CommandCases
  <2>3. first \in {32, 40, 48, 56}
    BY <2>1, <2>2
  <2>4. QED
    BY <1>4, <2>3
<1>5. CASE c.op = "xf"
  <2>1. first = LoadXfOp
    BY <1>5, UnitsOfXf
  <2>2. QED
    BY <1>5, <2>1
<1>6. CASE c.op = "draw"
  <2>1. first = 128 + 8 * (c.primitive - 1) + c.vat /\ c.primitive \in 1..8 /\ c.vat \in 0..7
    BY <1>6, UnitsOfDraw
  <2>2. first \in 128..191
    BY <2>1
  <2>3. QED
    BY <1>6, <2>2
<1>7. QED
  BY <1>1, <1>2, <1>3, <1>4, <1>5, <1>6, CommandCases

\* The command has the vertices it announces, of the size these registers give.
VerticesOf(c, r) == c.op = "draw" => Len(c.data) = c.count * GetVertexSize(r, c.vat)

Begins(data, s) == \A i \in 1..Len(data) : i <= Len(s) => data[i] = s[i]

LEMMA SizeOfCommand ==
  ASSUME NEW c \in Command, c.op # "nop", VerticesOf(c, regs), regs \in RegsType,
         NEW data \in Seq(Units), data # <<>>, Begins(data, Encode(c))
  PROVE  CommandSize(data) = IF Len(data) >= Len(Encode(c)) THEN Len(Encode(c)) ELSE 0
<1> DEFINE s == Encode(c)
           n == Len(data)
<1>1. n \in Nat /\ n >= 1 /\ \A i \in 1..n : data[i] \in Nat
  <2>1. n \in Nat /\ n # 0 /\ \A i \in 1..n : data[i] \in Units
    OBVIOUS
  <2>2. Units \subseteq Nat
    BY SmallUnits
  <2> HIDE DEF n
  <2>3. n >= 1
    BY <2>1
  <2>4. \A i \in 1..n : data[i] \in Nat
    BY <2>1, <2>2
  <2>5. QED
    BY <2>1, <2>3, <2>4
<1>2. \A i \in 1..n : i <= Len(s) => data[i] = s[i]
  BY DEF Begins
<1>3. s \in Seq(Units) /\ Len(s) \in Nat \ {0}
  BY EncodeTyped
<1>4. s = Encode(c)
  OBVIOUS
<1> HIDE DEF s
<1> DEFINE first == s[1]
<1>5. data[1] = first
  BY <1>1, <1>2, <1>3
<1>6. /\ c.op = "nop" <=> first = Nop
      /\ c.op = "metrics" <=> first = MetricsOp
      /\ c.op = "invalidate" <=> first = InvalidateOp
      /\ c.op = "cp" <=> first = LoadCpOp
      /\ c.op = "bp" <=> first = LoadBpOp
      /\ c.op = "xf" <=> first = LoadXfOp
      /\ c.op = "call" <=> first = CallOp
      /\ c.op = "indexed" <=> first \in IndexedOps
      /\ c.op = "draw" <=> first \in DrawOps
      /\ c.op = "unknown" <=> first \notin KnownOps
  BY <1>4, FirstUnit
<1> HIDE DEF first
<1>7. CASE c.op \in {"metrics", "invalidate", "unknown"}
  <2>1. Len(s) = 1
    BY <1>4, <1>7, UnitsOfNone
  <2>2. /\ first # Nop /\ first \notin {LoadCpOp, CallOp, LoadBpOp} \cup IndexedOps
        /\ first # LoadXfOp /\ first \notin DrawOps
    BY <1>6, <1>7
  <2>3. CommandSize(data) = 1
    BY <1>5, <2>2 DEF CommandSize
  <2>4. QED
    BY <1>1, <2>1, <2>3 DEF s
<1>8. CASE c.op \in {"cp", "bp", "call", "indexed"}
  <2>1. Len(s) = 3
    BY <1>4, <1>8, UnitsOfThree
  <2>2. /\ first # Nop /\ first \in {LoadCpOp, CallOp, LoadBpOp} \cup IndexedOps
        /\ first # LoadXfOp /\ first \notin DrawOps
    BY <1>6, <1>8
  <2>3. CommandSize(data) = IF n >= 3 THEN 3 ELSE 0
    BY <1>5, <2>2 DEF CommandSize
  <2>4. QED
    BY <1>1, <2>1, <2>3 DEF s
<1>9. CASE c.op = "xf"
  <2> DEFINE k == Len(c.values)
  <2>1. Len(s) = 3 + k /\ s[2] = k - 1 /\ k \in 1..16
    BY <1>4, <1>9, UnitsOfXf
  <2>2. first = LoadXfOp
    BY <1>6, <1>9
  <2>3. CommandSize(data) = IF n < 3 THEN 0 ELSE IF n >= data[2] + 4 THEN data[2] + 4 ELSE 0
    BY <1>5, <2>2 DEF CommandSize, Nop, LoadCpOp, CallOp, LoadBpOp, IndexedOps, LoadXfOp, DrawOps
  <2> HIDE DEF k
  <2>4. n >= 3 => data[2] = k - 1
    BY <1>1, <1>2, <2>1
  <2>5. CommandSize(data) = IF n >= 3 + k THEN 3 + k ELSE 0
    BY <1>1, <2>1, <2>3, <2>4
  <2>6. QED
    BY <1>1, <2>1, <2>5 DEF s
<1>10. CASE c.op = "draw"
  <2> DEFINE k == Len(c.data)
             vat == c.vat
             size == GetVertexSize(regs, vat)
             p == c.primitive
             count == c.count
  <2>1. /\ Len(s) = 2 + k /\ s[2] = count /\ count \in Nat /\ k \in Nat
        /\ first = 128 + 8 * (p - 1) + vat /\ p \in 1..8 /\ vat \in 0..7
    BY <1>4, <1>10, UnitsOfDraw DEF first
  <2>2. first \in DrawOps
    BY <1>6, <1>10
  <2>3. k = count * size
    BY <1>10 DEF VerticesOf
  <2> HIDE DEF k, vat, count, p, size
  <2>4. first % 8 = vat
    BY <2>1
  <2>5. CommandSize(data) = IF n < 2 THEN 0
                            ELSE IF n >= 2 + data[2] * size THEN 2 + data[2] * size ELSE 0
    BY <1>5, <2>2, <2>4 DEF CommandSize, Nop, LoadCpOp, CallOp, LoadBpOp, IndexedOps, LoadXfOp, DrawOps, size
  <2>6. n >= 2 => data[2] = count
    BY <1>1, <1>2, <2>1
  <2>7. size \in Nat
    BY <2>1, VertexSizeIsNat DEF size
  <2>8. CommandSize(data) = IF n >= 2 + k THEN 2 + k ELSE 0
    <3>1. CASE n < 2
      BY <1>1, <2>1, <2>5, <3>1
    <3>2. CASE n >= 2
      <4>1. data[2] * size = k
        BY <2>3, <2>6, <3>2
      <4>2. QED
        BY <1>1, <2>1, <2>5, <3>2, <4>1
    <3>3. QED
      BY <1>1, <3>1, <3>2
  <2>9. QED
    BY <1>1, <2>1, <2>8 DEF s
<1>11. QED
  BY <1>7, <1>8, <1>9, <1>10, CommandCases

LEMMA CatBegins ==
  ASSUME NEW T, NEW a \in Seq(T), NEW b \in Seq(T)
  PROVE  Begins(a, Cat(a, b)) /\ Begins(Cat(a, b), a)
<1>1. \A i \in 1..(Len(a) + Len(b)) : (a \o b)[i] = IF i <= Len(a) THEN a[i] ELSE b[i - Len(a)]
  BY ConcatProperties
<1>2. Len(a \o b) = Len(a) + Len(b) /\ Len(a) \in Nat /\ Len(b) \in Nat
  BY ConcatProperties
<1> DEFINE ab == a \o b
<1> HIDE DEF ab
<1>3. Begins(a, ab)
  BY <1>1, <1>2 DEF Begins, ab
<1>4. Begins(ab, a)
  BY <1>1, <1>2 DEF Begins, ab
<1>5. QED
  BY <1>3, <1>4 DEF Cat, ab

LEMMA NopIsDecodable ==
  ASSUME NEW data \in Seq(Units), data # <<>>, data[1] = Nop
  PROVE  CommandSize(data) = NopRun(data) /\ NopRun(data) \in 1..Len(data)
<1>1. CommandSize(data) = NopRun(data)
  BY DEF CommandSize, Nop, LoadCpOp, CallOp, LoadBpOp, IndexedOps, LoadXfOp, DrawOps
<1>2. QED
  BY <1>1, NopRunIsSound

\* A command that is all there can be decoded, and only what follows the first is left.
LEMMA WholeDecodes ==
  ASSUME NEW c \in Command, VerticesOf(c, regs), regs \in RegsType,
         NEW rest \in Seq(Units), NEW data, data = Cat(Encode(c), rest)
  PROVE  /\ data \in Seq(Units) /\ data # <<>> /\ CommandSize(data) > 0
         /\ data[1] = Encode(c)[1]
         /\ c.op # "nop" => CommandSize(data) = Len(Encode(c))
<1> DEFINE s == Encode(c)
<1>1. s \in Seq(Units) /\ Len(s) \in Nat \ {0} /\ Len(rest) \in Nat
  BY EncodeTyped
<1>2. data \in Seq(Units) /\ Len(data) = Len(s) + Len(rest)
  BY <1>1, CatTyped
<1>3. Begins(data, s)
  BY <1>1, CatBegins
<1>4. data # <<>> /\ data[1] = s[1]
  <2>1. Len(data) >= 1 /\ Len(s) >= 1
    BY <1>1, <1>2
  <2> HIDE DEF s
  <2>2. 1 \in 1..Len(data)
    BY <1>2, <2>1
  <2>3. QED
    BY <1>2, <1>3, <2>1, <2>2 DEF Begins
<1>5. CASE c.op # "nop"
  <2>1. CommandSize(data) = IF Len(data) >= Len(s) THEN Len(s) ELSE 0
    BY <1>2, <1>3, <1>4, <1>5, SizeOfCommand
  <2> HIDE DEF s
  <2>2. CommandSize(data) = Len(s)
    BY <1>1, <1>2, <2>1
  <2>3. QED
    BY <1>1, <1>2, <1>4, <2>2 DEF s
<1>6. CASE c.op = "nop"
  <2>1. data[1] = Nop
    BY <1>4, <1>6, FirstUnit
  <2>2. CommandSize(data) \in 1..Len(data) /\ Len(data) \in Nat
    BY <1>2, <1>4, <2>1, NopIsDecodable
  <2>3. QED
    BY <1>2, <1>4, <1>6, <2>2
<1>7. QED
  BY <1>5, <1>6

\* A command that is only begun cannot.
LEMMA PartWaits ==
  ASSUME NEW c \in Command, VerticesOf(c, regs), regs \in RegsType,
         NEW data \in Seq(Units), NEW more \in Seq(Units), data # <<>>, more # <<>>,
         Encode(c) = Cat(data, more)
  PROVE  CommandSize(data) = 0
<1> DEFINE s == Encode(c)
<1>1. Len(s) = Len(data) + Len(more) /\ Begins(data, s)
  BY CatTyped, CatBegins
<1>2. Len(data) \in Nat \ {0} /\ Len(more) \in Nat \ {0}
  <2>1. Len(data) # 0 /\ Len(more) # 0
    OBVIOUS
  <2>2. QED
    BY <2>1
<1>3. c.op # "nop"
  <2> DEFINE n == Len(data)
             m == Len(more)
  <2>1. n \in Nat \ {0} /\ m \in Nat \ {0}
    BY <1>2
  <2>2. Len(s) = n + m
    BY <1>1
  <2>3. c.op = "nop" => Len(s) = 1
    BY UnitsOfNone
  <2> HIDE DEF n, m, s
  <2>4. QED
    BY <2>1, <2>2, <2>3
<1>4. CommandSize(data) = IF Len(data) >= Len(s) THEN Len(s) ELSE 0
  BY <1>1, <1>3, SizeOfCommand
<1> HIDE DEF s
<1>5. QED
  BY <1>1, <1>2, <1>4

-----------------------------------------------------------------------------
(* What one decoder has before it: data, and ahead the units of the stream *)
(* that have not been written. Together they are the commands to do and,   *)
(* in a display list, the beginning of the command it is cut in. What it   *)
(* will do is doing: its commands, then what those outside it will do.     *)

CutCommand(tail) ==
  \/ tail = <<>>
  \/ \E c \in Command, more \in Seq(Units) :
       c.op # "draw" /\ more # <<>> /\ Encode(c) = Cat(tail, more)

Frame(data, ahead, todo, tail, doing, after, left) ==
  /\ data \in Seq(Units) /\ ahead \in Seq(Units) /\ tail \in Seq(Units)
  /\ todo \in Seq(Given) /\ after \in Seq(Plainly) /\ doing \in Seq(Plainly)
  /\ left \in 0..MaxDisplayListDepth
  /\ Cat(data, ahead) = Cat(EncodeAll(todo), tail)
  /\ tail = <<>> \/ (ahead = <<>> /\ CutCommand(tail))
  /\ doing = Cat(Inline(todo, Inlined[left]), after)

\* The commands of a frame after its first.
Others(todo) == SubSeq(todo, 2, Len(todo))

LEMMA TodoParts ==
  ASSUME NEW todo \in Seq(Given), todo # <<>>
  PROVE  /\ todo[1] \in Given /\ todo[1] \in Command /\ Others(todo) \in Seq(Given)
         /\ todo = Cat(<<todo[1]>>, Others(todo)) /\ <<todo[1]>> \in Seq(Given)
         /\ EncodeAll(todo) = Cat(Encode(todo[1]), EncodeAll(Others(todo)))
         /\ Encode(todo[1]) \in Seq(Units) /\ EncodeAll(Others(todo)) \in Seq(Units)
         /\ EncodeAll(todo) \in Seq(Units)
<1> DEFINE c == todo[1]
           one == <<c>>
           others == Others(todo)
<1>1. c \in Given /\ others \in Seq(Given) /\ todo = one \o others
  BY HeadAndTail DEF Others
<1>2. c \in Command /\ Given \subseteq Command
  BY <1>1, GivenAreCommands
<1> HIDE DEF others, c
<1>3. one \in Seq(Given) /\ one \in Seq(Command)
  BY <1>1, <1>2
<1>4. EncodeAll(one) = Encode(c)
  BY <1>2, EncodeAllParts
<1> HIDE DEF one
<1>5. others \in Seq(Command) /\ todo \in Seq(Command)
  BY <1>1, <1>2, SeqGrows
<1>6. EncodeAll(one \o others) = EncodeAll(one) \o EncodeAll(others)
  BY <1>3, <1>5, EncodeAllParts
<1>7. EncodeAll(todo) = Encode(c) \o EncodeAll(others)
  BY <1>1, <1>4, <1>6
<1>8. Encode(c) \in Seq(Units) /\ EncodeAll(others) \in Seq(Units) /\ EncodeAll(todo) \in Seq(Units)
  BY <1>2, <1>5, EncodeTyped, EncodeAllTyped
<1>9. QED
  BY <1>1, <1>2, <1>3, <1>7, <1>8 DEF c, one, others, Cat

LEMMA TopCommand ==
  ASSUME NEW data, NEW ahead, NEW todo, NEW tail, NEW doing, NEW after, NEW left,
         Frame(data, ahead, todo, tail, doing, after, left),
         data # <<>>, CommandSize(data) > 0, regs \in RegsType,
         todo # <<>> => VerticesOf(todo[1], regs)
  PROVE  /\ todo # <<>>
         /\ data = Cat(Encode(todo[1]), SubSeq(data, Len(Encode(todo[1])) + 1, Len(data)))
         /\ SubSeq(data, Len(Encode(todo[1])) + 1, Len(data)) \in Seq(Units)
<1>1. /\ data \in Seq(Units) /\ ahead \in Seq(Units) /\ tail \in Seq(Units) /\ todo \in Seq(Given)
      /\ Cat(data, ahead) = Cat(EncodeAll(todo), tail)
      /\ tail = <<>> \/ (ahead = <<>> /\ CutCommand(tail))
  BY DEF Frame
<1>2. ASSUME todo = <<>> PROVE FALSE
  <2>1. EncodeAll(todo) = <<>>
    BY <1>2, EncodeAllParts
  <2>2. Cat(<<>>, tail) = tail
    BY <1>1, CatNone
  <2>3. Cat(data, ahead) = tail
    BY <1>1, <2>1, <2>2
  <2>4. CASE tail = <<>>
    <3>0. Len(data) \in Nat /\ Len(ahead) \in Nat
      BY <1>1
    <3>1. Len(Cat(data, ahead)) = Len(data) + Len(ahead)
      <4>1. data \in Seq(Units) /\ ahead \in Seq(Units)
        BY <1>1
      <4>2. QED
        BY <4>1, CatTyped
    <3>2. Len(data) # 0 /\ Len(Cat(data, ahead)) = 0
      BY <1>1, <2>3, <2>4
    <3> DEFINE n == Len(data)
               m == Len(ahead)
    <3>3. n + m = 0 /\ n \in Nat /\ m \in Nat /\ n # 0
      BY <3>0, <3>1, <3>2
    <3> HIDE DEF n, m
    <3>4. QED
      BY <3>3
  <2>5. CASE tail # <<>>
    <3>1. ahead = <<>> /\ CutCommand(tail)
      BY <1>1, <2>5
    <3>2. data = tail
      BY <1>1, <2>3, <3>1, CatNone
    <3>3. PICK c \in Command, more \in Seq(Units) : c.op # "draw" /\ more # <<>> /\ Encode(c) = Cat(tail, more)
      BY <2>5, <3>1 DEF CutCommand
    <3>4. VerticesOf(c, regs)
      BY <3>3 DEF VerticesOf
    <3>5. CommandSize(data) = 0
      BY <1>1, <3>2, <3>3, <3>4, PartWaits
    <3>6. QED
      BY <3>5
  <2>6. QED
    BY <2>4, <2>5
<1>3. todo # <<>>
  BY <1>2
<1> DEFINE c == todo[1]
           s == Encode(c)
           r == SubSeq(data, Len(s) + 1, Len(data))
           others == EncodeAll(Others(todo))
           end == Cat(others, tail)
<1>4. /\ c \in Command /\ s \in Seq(Units) /\ others \in Seq(Units) /\ EncodeAll(todo) = Cat(s, others)
      /\ VerticesOf(c, regs)
  BY <1>1, <1>3, TodoParts
<1>5. Cat(Cat(s, others), tail) = Cat(s, end)
  BY <1>1, <1>4, CatAssociative
<1>6. Cat(data, ahead) = Cat(s, end)
  BY <1>1, <1>4, <1>5
<1>7. end \in Seq(Units)
  BY <1>1, <1>4, CatTyped
<1>8. s = Encode(c)
  OBVIOUS
<1> HIDE DEF others, end, s, c
<1>9. Len(data) >= Len(s)
  <2> SUFFICES ASSUME ~(Len(data) >= Len(s)) PROVE FALSE
    OBVIOUS
  <2>1. Len(data) \in Nat /\ Len(s) \in Nat
    BY <1>1, <1>4
  <2>2. Len(s) >= Len(data)
    BY <2>1
  <2> DEFINE more == SubSeq(s, Len(data) + 1, Len(s))
  <2>3. more \in Seq(Units) /\ s = Cat(data, more)
    BY <1>1, <1>4, <1>6, <1>7, <2>2, CatLonger
  <2> HIDE DEF more
  <2>4. more # <<>>
    <3> SUFFICES ASSUME more = <<>> PROVE FALSE
      OBVIOUS
    <3>1. s = data
      BY <1>1, <2>3, CatNone
    <3>2. QED
      BY <2>1, <3>1
  <2>5. Encode(c) = Cat(data, more)
    BY <1>8, <2>3
  <2>6. CommandSize(data) = 0
    BY <1>1, <1>4, <2>3, <2>4, <2>5, PartWaits
  <2>7. QED
    BY <2>6
<1>10. r \in Seq(Units) /\ data = Cat(s, r)
  BY <1>1, <1>4, <1>6, <1>7, <1>9, CatLonger
<1>11. QED
  BY <1>3, <1>10 DEF s, c

LEMMA WaitsForMore ==
  ASSUME NEW data, NEW ahead, NEW todo, NEW tail, NEW doing, NEW after, NEW left,
         Frame(data, ahead, todo, tail, doing, after, left),
         ~(data # <<>> /\ CommandSize(data) > 0), regs \in RegsType,
         todo # <<>>, VerticesOf(todo[1], regs)
  PROVE  Len(data) < Len(Encode(todo[1])) /\ ahead # <<>>
<1>1. /\ data \in Seq(Units) /\ ahead \in Seq(Units) /\ tail \in Seq(Units) /\ todo \in Seq(Given)
      /\ Cat(data, ahead) = Cat(EncodeAll(todo), tail)
  BY DEF Frame
<1> DEFINE c == todo[1]
           s == Encode(c)
           r == SubSeq(data, Len(s) + 1, Len(data))
           others == EncodeAll(Others(todo))
           end == Cat(others, tail)
<1>2. /\ c \in Command /\ s \in Seq(Units) /\ others \in Seq(Units) /\ EncodeAll(todo) = Cat(s, others)
  BY <1>1, TodoParts
<1>3. Cat(Cat(s, others), tail) = Cat(s, end)
  BY <1>1, <1>2, CatAssociative
<1>4. Cat(data, ahead) = Cat(s, end)
  BY <1>1, <1>2, <1>3
<1>5. end \in Seq(Units)
  BY <1>1, <1>2, CatTyped
<1>6. s = Encode(c) /\ VerticesOf(c, regs) /\ c = todo[1]
  OBVIOUS
<1> HIDE DEF others, end, s, c
<1>7. Len(data) \in Nat /\ Len(s) \in Nat /\ Len(end) \in Nat
  BY <1>1, <1>2, <1>5
<1>8. Len(data) < Len(s)
  <2> SUFFICES ASSUME Len(data) >= Len(s) PROVE FALSE
    BY <1>7
  <2>1. r \in Seq(Units) /\ data = Cat(s, r)
    BY <1>1, <1>2, <1>4, <1>5, CatLonger
  <2>2. data = Cat(Encode(c), r)
    BY <1>6, <2>1
  <2> HIDE DEF r
  <2>3. data # <<>> /\ CommandSize(data) > 0
    BY <1>2, <1>6, <2>1, <2>2, WholeDecodes
  <2>4. QED
    BY <2>3
<1>9. ahead # <<>>
  <2> SUFFICES ASSUME ahead = <<>> PROVE FALSE
    OBVIOUS
  <2>1. Cat(data, ahead) = data
    BY <1>1, CatNone
  <2>2. Len(data) = Len(s) + Len(end)
    <3>1. Len(Cat(s, end)) = Len(s) + Len(end)
      BY <1>2, <1>5, CatTyped
    <3>2. QED
      BY <1>4, <2>1, <3>1
  <2>3. QED
    BY <1>7, <1>8, <2>2
<1>10. QED
  BY <1>6, <1>8, <1>9

\* What a frame will do begins with its first command.
LEMMA DoingParts ==
  ASSUME NEW data, NEW ahead, NEW todo, NEW tail, NEW doing, NEW after, NEW left,
         Frame(data, ahead, todo, tail, doing, after, left), todo # <<>>,
         NEW next, next = Cat(Inline(Others(todo), Inlined[left]), after)
  PROVE  /\ next \in Seq(Plainly) /\ Inline(<<todo[1]>>, Inlined[left]) \in Seq(Plainly)
         /\ doing = Cat(Inline(<<todo[1]>>, Inlined[left]), next)
<1> DEFINE one == <<todo[1]>>
           others == Others(todo)
           f == Inlined[left]
<1>1. /\ todo \in Seq(Given) /\ after \in Seq(Plainly) /\ left \in 0..MaxDisplayListDepth
      /\ doing = Cat(Inline(todo, f), after)
  BY DEF Frame
<1>2. others \in Seq(Given) /\ one \in Seq(Given) /\ todo = Cat(one, others)
  BY <1>1, TodoParts
<1>3. f \in [Called -> Seq(Plainly)]
  BY <1>1, InlinedTyped
<1>4. next = Cat(Inline(others, f), after)
  OBVIOUS
<1> HIDE DEF one, others, f
<1>5. Inline(others, f) \in Seq(Plainly) /\ Inline(one, f) \in Seq(Plainly)
  BY <1>2, <1>3, InlineTyped
<1>6. next \in Seq(Plainly)
  BY <1>1, <1>4, <1>5, CatTyped
<1>7. doing = Cat(Inline(one, f), next)
  <2>1. Inline(one \o others, f) = Inline(one, f) \o Inline(others, f)
    BY <1>2, <1>3, InlineParts
  <2>2. Inline(todo, f) = Cat(Inline(one, f), Inline(others, f))
    BY <1>2, <2>1 DEF Cat
  <2>3. Cat(Cat(Inline(one, f), Inline(others, f)), after) = Cat(Inline(one, f), Cat(Inline(others, f), after))
    BY <1>1, <1>5, CatAssociative
  <2>4. QED
    BY <1>1, <1>4, <2>2, <2>3
<1>8. QED
  BY <1>5, <1>6, <1>7 DEF one, f

\* A frame that has done its first command.
LEMMA FrameAdvances ==
  ASSUME NEW data, NEW ahead, NEW todo, NEW tail, NEW doing, NEW after, NEW left,
         Frame(data, ahead, todo, tail, doing, after, left), todo # <<>>,
         NEW rest \in Seq(Units), data = Cat(Encode(todo[1]), rest),
         NEW next, next = Cat(Inline(Others(todo), Inlined[left]), after)
  PROVE  /\ Frame(rest, ahead, Others(todo), tail, next, after, left)
         /\ doing = Cat(Inline(<<todo[1]>>, Inlined[left]), next)
<1> DEFINE c == todo[1]
           others == Others(todo)
           s == Encode(c)
           es == EncodeAll(others)
           f == Inlined[left]
<1>1. /\ data \in Seq(Units) /\ ahead \in Seq(Units) /\ tail \in Seq(Units)
      /\ todo \in Seq(Given) /\ after \in Seq(Plainly) /\ left \in 0..MaxDisplayListDepth
      /\ Cat(data, ahead) = Cat(EncodeAll(todo), tail)
      /\ tail = <<>> \/ (ahead = <<>> /\ CutCommand(tail))
      /\ doing = Cat(Inline(todo, f), after)
  BY DEF Frame
<1>2. /\ others \in Seq(Given) /\ <<c>> \in Seq(Given) /\ todo = Cat(<<c>>, others)
      /\ s \in Seq(Units) /\ es \in Seq(Units) /\ EncodeAll(todo) = Cat(s, es)
  BY <1>1, TodoParts
<1>5. data = Cat(s, rest) /\ next = Cat(Inline(others, f), after)
  OBVIOUS
<1> HIDE DEF others, s, es, f
<1>6. Cat(rest, ahead) = Cat(es, tail)
  <2>1. Cat(Cat(s, rest), ahead) = Cat(s, Cat(rest, ahead))
    BY <1>1, <1>2, CatAssociative
  <2>2. Cat(Cat(s, es), tail) = Cat(s, Cat(es, tail))
    BY <1>1, <1>2, CatAssociative
  <2> DEFINE x == Cat(rest, ahead)
             y == Cat(es, tail)
  <2>3. x \in Seq(Units) /\ y \in Seq(Units)
    BY <1>1, <1>2, CatTyped
  <2>4. Cat(s, x) = Cat(s, y)
    BY <1>1, <1>2, <1>5, <2>1, <2>2
  <2> HIDE DEF x, y
  <2>5. x = y
    BY <1>2, <2>3, <2>4, CatSame
  <2>6. QED
    BY <2>5 DEF x, y
<1>7. next \in Seq(Plainly) /\ doing = Cat(Inline(<<todo[1]>>, Inlined[left]), next)
  BY DoingParts DEF others, f
<1>8. Frame(rest, ahead, others, tail, next, after, left)
  BY <1>1, <1>2, <1>5, <1>6, <1>7 DEF Frame, es, f
<1>9. QED
  BY <1>7, <1>8 DEF others

-----------------------------------------------------------------------------
(* One decoder, and what all of them have done: past, which left state s.  *)

Tells(data, ahead, todo, tail, doing, after, left, past, s, p) ==
  /\ Frame(data, ahead, todo, tail, doing, after, left)
  /\ past \in Seq(Plainly)
  /\ Cat(past, doing) = Inline(p, Inlined[MaxDisplayListDepth])
  /\ Effect(past) = s
  /\ p \in Programs

LEMMA CatAt ==
  ASSUME NEW T, NEW a \in Seq(T), NEW b \in Seq(T), NEW c \in T
  PROVE  LET s == Cat(a, Cat(<<c>>, b))
         IN /\ Len(a) + 1 \in DOMAIN s /\ s[Len(a) + 1] = c /\ SubSeq(s, 1, Len(a)) = a
            /\ Append(a, c) \in Seq(T) /\ Cat(Append(a, c), b) = s
<1> DEFINE one == <<c>>
           tail == Cat(one, b)
           n == Len(a)
           s == Cat(a, tail)
<1>1. one \in Seq(T) /\ Len(one) = 1 /\ one[1] = c
  OBVIOUS
<1>2. n \in Nat /\ Len(b) \in Nat
  OBVIOUS
<1>3. Append(a, c) = Cat(a, one) /\ Append(a, c) \in Seq(T)
  BY AppendProperties DEF Cat
<1> HIDE DEF one
<1>4. Cat(Cat(a, one), b) = Cat(a, Cat(one, b))
  BY <1>1, CatAssociative
<1>5. tail \in Seq(T) /\ Len(tail) = 1 + Len(b) /\ tail[1] = c
  <2>1. Len(one \o b) = 1 + Len(b) /\ one \o b \in Seq(T)
    BY <1>1, ConcatProperties
  <2>2. (one \o b)[1] = one[1]
    BY <1>1, <1>2, ConcatProperties
  <2>3. QED
    BY <1>1, <2>1, <2>2 DEF Cat
<1>6. s = a \o tail
  BY DEF Cat
<1> HIDE DEF tail, s
<1>7. Len(s) = n + Len(tail) /\ s \in Seq(T) /\ \A i \in 1..(n + Len(tail)) : s[i] = IF i <= n THEN a[i] ELSE tail[i - n]
  <2>1. /\ Len(a \o tail) = Len(a) + Len(tail) /\ a \o tail \in Seq(T)
        /\ \A i \in 1..(Len(a) + Len(tail)) : (a \o tail)[i] = IF i <= Len(a) THEN a[i] ELSE tail[i - Len(a)]
    <3>1. tail \in Seq(T)
      BY <1>5
    <3>2. QED
      BY <3>1, ConcatProperties
  <2>2. QED
    BY <1>6, <2>1
<1> HIDE DEF n
<1>8. n + 1 \in 1..Len(s) /\ s[n + 1] = c
  <2> DEFINE m == Len(tail)
  <2>1. m \in Nat /\ m >= 1 /\ n \in Nat /\ Len(s) = n + m
    BY <1>2, <1>5, <1>7
  <2> HIDE DEF m
  <2>3. \A i \in 1..(n + m) : s[i] = IF i <= n THEN a[i] ELSE tail[i - n]
    BY <1>7 DEF m
  <2> DEFINE k == n + 1
  <2>4. k \in 1..(n + m) /\ ~(k <= n) /\ k - n = 1
    BY <2>1
  <2> HIDE DEF k
  <2>5. s[k] = tail[k - n]
    BY <2>3, <2>4
  <2>6. s[k] = c /\ k \in 1..Len(s)
    BY <1>5, <2>1, <2>4, <2>5
  <2>7. QED
    BY <2>6 DEF k
<1>9. SubSeq(s, 1, n) = a
  <2>1. n \in 0..Len(s)
    BY <1>2, <1>5, <1>7
  <2>2. SubSeq(s, 1, n) \in Seq(T) /\ Len(SubSeq(s, 1, n)) = n
    BY <1>7, <2>1, CutInTwo
  <2>3. s = Cat(SubSeq(s, 1, n), SubSeq(s, n + 1, Len(s))) /\ SubSeq(s, n + 1, Len(s)) \in Seq(T)
    BY <1>7, <2>1, CatCut, CutInTwo
  <2>4. Cat(SubSeq(s, 1, n), SubSeq(s, n + 1, Len(s))) = Cat(a, tail)
    BY <1>6, <2>3 DEF Cat
  <2>5. n = Len(a)
    BY DEF n
  <2> DEFINE f == SubSeq(s, 1, n)
             r == SubSeq(s, n + 1, Len(s))
  <2> HIDE DEF f, r
  <2>6. f \in Seq(T) /\ Len(f) = Len(a) /\ r \in Seq(T) /\ Cat(f, r) = Cat(a, tail)
    BY <2>2, <2>3, <2>4, <2>5 DEF f, r
  <2>7. f = a
    BY <1>5, <2>6, CatSame
  <2>8. QED
    BY <2>7 DEF f
<1>10. Cat(Append(a, c), b) = s
  BY <1>3, <1>4 DEF tail, s
<1>11. QED
  BY <1>3, <1>7, <1>8, <1>9, <1>10 DEF n, s, tail, one

LEMMA EffectParts ==
  ASSUME NEW T, NEW past \in Seq(T), NEW c \in T
  PROVE  Effect(Append(past, c)) = Apply(Effect(past), c)
<1> DEFINE base == [regs |-> InitRegs, backend |-> InitBackend, unknown |-> 0]
<1>1. Append(past, c) \in Seq(T)
  OBVIOUS
<1>2. \A cs : Effect(cs) = FoldLeft(Apply, base, cs)
  BY DEF Effect
<1> HIDE DEF base
<1>3. FoldLeft(Apply, base, past) = Folded("apply", 0, base, past)
  BY AppliesFold
<1>4. FoldLeft(Apply, base, Append(past, c)) = Folded("apply", 0, base, Append(past, c))
  BY <1>1, AppliesFold
<1>5. Folded("apply", 0, base, Append(past, c)) = FoldStep("apply", 0, Folded("apply", 0, base, past), c)
  BY FoldedAppend
<1>6. \A x : FoldStep("apply", 0, x, c) = Apply(x, c)
  BY DEF FoldStep
<1>7. QED
  BY <1>2, <1>3, <1>4, <1>5, <1>6

LEMMA EffectOfNone == Effect(<<>>) = [regs |-> InitRegs, backend |-> InitBackend, unknown |-> 0]
<1> DEFINE start == [regs |-> InitRegs, backend |-> InitBackend, unknown |-> 0]
<1>1. Effect(<<>>) = FoldLeft(Apply, start, <<>>)
  BY DEF Effect
<1> HIDE DEF start
<1>2. <<>> \in Seq({0}) /\ 0 \in {0}
  OBVIOUS
<1>3. FoldLeft(Apply, start, <<>>) = Folded("apply", 0, start, <<>>)
  BY <1>2, AppliesFold
<1>4. Folded("apply", 0, start, <<>>) = start
  BY <1>2, FoldedAppend
<1>5. QED
  BY <1>1, <1>3, <1>4 DEF start

LEMMA PlainIsItself ==
  ASSUME NEW c \in Given, c.op # "call", NEW left \in 0..MaxDisplayListDepth
  PROVE  Inline(<<c>>, Inlined[left]) = <<c>> /\ c \in Plainly
<1>1. c \in Plainly
  BY DEF Plainly
<1>2. Inlined[left] \in [Called -> Seq(Plainly)]
  BY InlinedTyped
<1>3. QED
  BY <1>1, <1>2, InlineParts

\* What comes next has the vertices the registers ask for.
LEMMA VerticesFit ==
  ASSUME NEW data, NEW ahead, NEW todo, NEW tail, NEW doing, NEW after, NEW left, NEW past, NEW s, NEW p,
         Tells(data, ahead, todo, tail, doing, after, left, past, s, p), todo # <<>>
  PROVE  VerticesOf(todo[1], s.regs)
<1> DEFINE c == todo[1]
           next == Cat(Inline(Others(todo), Inlined[left]), after)
           whole == Inline(p, Inlined[MaxDisplayListDepth])
<1>1. /\ Frame(data, ahead, todo, tail, doing, after, left) /\ past \in Seq(Plainly)
      /\ Cat(past, doing) = whole /\ Effect(past) = s /\ p \in Programs
  BY DEF Tells
<1>2. todo \in Seq(Given) /\ left \in 0..MaxDisplayListDepth
  BY <1>1 DEF Frame
<1>3. c \in Given
  BY <1>2, TodoParts
<1>4. next \in Seq(Plainly) /\ doing = Cat(Inline(<<c>>, Inlined[left]), next)
  BY <1>1, DoingParts
<1>5. Sized(whole)
  BY <1>1, DrawsAssumption
<1>6. SUFFICES ASSUME c.op = "draw"
               PROVE  Len(c.data) = c.count * GetVertexSize(s.regs, c.vat)
  BY DEF VerticesOf
<1> HIDE DEF next, whole, c
<1>7. c \in Plainly /\ doing = Cat(<<c>>, next)
  BY <1>2, <1>3, <1>4, <1>6, PlainIsItself
<1>8. Cat(past, Cat(<<c>>, next)) = whole
  BY <1>1, <1>7
<1> DEFINE i == Len(past) + 1
<1>9. i \in DOMAIN whole /\ whole[i] = c /\ SubSeq(whole, 1, Len(past)) = past
  <2>1. LET t == Cat(past, Cat(<<c>>, next))
        IN i \in DOMAIN t /\ t[i] = c /\ SubSeq(t, 1, Len(past)) = past
    BY <1>1, <1>4, <1>7, CatAt
  <2>2. QED
    BY <1>8, <2>1
<1>10. i - 1 = Len(past)
  BY <1>1
<1> HIDE DEF i
<1>11. Effect(SubSeq(whole, 1, i - 1)).regs = s.regs
  BY <1>1, <1>9, <1>10
<1>12. QED
  BY <1>5, <1>6, <1>9, <1>11 DEF Sized

\* A command that calls nothing is done.
LEMMA PlainIsDone ==
  ASSUME NEW data, NEW ahead, NEW todo, NEW tail, NEW doing, NEW after, NEW left, NEW past, NEW s, NEW p,
         Tells(data, ahead, todo, tail, doing, after, left, past, s, p), todo # <<>>, todo[1].op # "call",
         NEW rest \in Seq(Units), data = Cat(Encode(todo[1]), rest)
  PROVE  LET next == Cat(Inline(Others(todo), Inlined[left]), after)
         IN Tells(rest, ahead, Others(todo), tail, next, after, left, Append(past, todo[1]), Apply(s, todo[1]), p)
<1> DEFINE c == todo[1]
           next == Cat(Inline(Others(todo), Inlined[left]), after)
           whole == Inline(p, Inlined[MaxDisplayListDepth])
<1>1. /\ Frame(data, ahead, todo, tail, doing, after, left) /\ past \in Seq(Plainly)
      /\ Cat(past, doing) = whole /\ Effect(past) = s /\ p \in Programs
  BY DEF Tells
<1>2. todo \in Seq(Given) /\ left \in 0..MaxDisplayListDepth
  BY <1>1 DEF Frame
<1>3. c \in Given
  BY <1>2, TodoParts
<1>4. next \in Seq(Plainly) /\ doing = Cat(Inline(<<c>>, Inlined[left]), next)
  BY <1>1, DoingParts
<1>5. Frame(rest, ahead, Others(todo), tail, next, after, left)
  BY <1>1, FrameAdvances
<1>6. c.op # "call" /\ c = todo[1]
  OBVIOUS
<1> HIDE DEF next, whole, c
<1>7. c \in Plainly /\ doing = Cat(<<c>>, next)
  BY <1>2, <1>3, <1>4, <1>6, PlainIsItself
<1>8. Append(past, c) \in Seq(Plainly) /\ Cat(Append(past, c), next) = whole
  <2>1. Cat(past, Cat(<<c>>, next)) = whole
    BY <1>1, <1>7
  <2>2. Append(past, c) \in Seq(Plainly) /\ Cat(Append(past, c), next) = Cat(past, Cat(<<c>>, next))
    BY <1>1, <1>4, <1>7, CatAt
  <2>3. QED
    BY <2>1, <2>2
<1>9. Effect(Append(past, c)) = Apply(s, c)
  BY <1>1, <1>7, EffectParts
<1>10. QED
  BY <1>1, <1>5, <1>8, <1>9 DEF Tells, next, whole, c

\* A call that does nothing is passed over.
LEMMA EmptyCallIsDone ==
  ASSUME NEW data, NEW ahead, NEW todo, NEW tail, NEW doing, NEW after, NEW left, NEW past, NEW s, NEW p,
         Tells(data, ahead, todo, tail, doing, after, left, past, s, p), todo # <<>>, todo[1].op = "call",
         NEW rest \in Seq(Units), data = Cat(Encode(todo[1]), rest),
         left = 0 \/ Resolved(Aligned(todo[1].address), Aligned(todo[1].size)) = <<>>
  PROVE  LET next == Cat(Inline(Others(todo), Inlined[left]), after)
         IN Tells(rest, ahead, Others(todo), tail, next, after, left, past, s, p)
<1> DEFINE c == todo[1]
           next == Cat(Inline(Others(todo), Inlined[left]), after)
           whole == Inline(p, Inlined[MaxDisplayListDepth])
           f == Inlined[left]
<1>1. /\ Frame(data, ahead, todo, tail, doing, after, left) /\ past \in Seq(Plainly)
      /\ Cat(past, doing) = whole /\ Effect(past) = s /\ p \in Programs
  BY DEF Tells
<1>2. todo \in Seq(Given) /\ left \in 0..MaxDisplayListDepth
  BY <1>1 DEF Frame
<1>3. c \in Called
  <2>1. c \in Given
    BY <1>2, TodoParts
  <2>2. QED
    BY <2>1, GivenAreCommands
<1>4. next \in Seq(Plainly) /\ doing = Cat(Inline(<<c>>, f), next)
  BY <1>1, DoingParts
<1>5. Frame(rest, ahead, Others(todo), tail, next, after, left)
  BY <1>1, FrameAdvances
<1>6. f[c] = <<>>
  <2>1. f = Unrolled(Inlined, left)
    BY <1>2, InlinedUnrolls
  <2>2. QED
    BY <1>3, <2>1 DEF Unrolled
<1>7. f \in [Called -> Seq(Plainly)]
  BY <1>2, InlinedTyped
<1> HIDE DEF next, whole, c, f
<1>8. Inline(<<c>>, f) = <<>>
  BY <1>3, <1>6, <1>7, InlineParts
<1>9. doing = next
  BY <1>4, <1>8, CatNone
<1>10. QED
  BY <1>1, <1>5, <1>9 DEF Tells, next, whole

\* One NOP of a run.
LEMMA NopIsDone ==
  ASSUME NEW data, NEW ahead, NEW todo, NEW tail, NEW doing, NEW after, NEW left, NEW past, NEW p,
         NEW u, u.regs = regs,
         Tells(data, ahead, todo, tail, doing, after, left, past, u, p), regs \in RegsType,
         data # <<>>, data[1] = Nop
  PROVE  LET next == Cat(Inline(Others(todo), Inlined[left]), after)
         IN /\ Tells(SubSeq(data, 2, Len(data)), ahead, Others(todo), tail, next, after, left,
                     Append(past, todo[1]), u, p)
            /\ todo \in Seq(Given) /\ todo # <<>>
<1>1. Frame(data, ahead, todo, tail, doing, after, left)
  BY DEF Tells
<1>2. data \in Seq(Units) /\ todo \in Seq(Given)
  BY <1>1 DEF Frame
<1>3. u.regs = regs
  OBVIOUS
<1>4. todo # <<>> => VerticesOf(todo[1], regs)
  BY <1>3, VerticesFit
<1>5. CommandSize(data) > 0
  <2>1. CommandSize(data) \in 1..Len(data) /\ Len(data) \in Nat
    BY <1>2, NopIsDecodable
  <2>2. QED
    BY <2>1
<1> DEFINE c == todo[1]
           rest == SubSeq(data, Len(Encode(c)) + 1, Len(data))
<1>6. todo # <<>> /\ data = Cat(Encode(c), rest) /\ rest \in Seq(Units)
  BY <1>1, <1>4, <1>5, TopCommand
<1>7. c \in Command /\ VerticesOf(c, regs)
  BY <1>2, <1>4, <1>6, TodoParts
<1> HIDE DEF c, rest
<1>8. c.op = "nop"
  <2>1. data[1] = Encode(c)[1]
    BY <1>6, <1>7, WholeDecodes
  <2>2. QED
    BY <1>7, <2>1, FirstUnit
<1>9. Len(Encode(c)) + 1 = 2
  <2>1. Len(Encode(c)) = 1
    BY <1>7, <1>8, UnitsOfNone
  <2>2. QED
    BY <2>1
<1>10. Apply(u, c) = u
  BY <1>8 DEF Apply
<1>11. LET next == Cat(Inline(Others(todo), Inlined[left]), after)
       IN Tells(rest, ahead, Others(todo), tail, next, after, left, Append(past, c), Apply(u, c), p)
  BY <1>6, <1>8, PlainIsDone DEF c
<1>12. rest = SubSeq(data, 2, Len(data))
  BY <1>9 DEF rest
<1>13. QED
  BY <1>2, <1>6, <1>10, <1>11, <1>12 DEF c

LEMMA OneLess ==
  ASSUME NEW T, NEW s \in Seq(T), NEW i \in 1..Len(s), NEW d, d = SubSeq(s, i, Len(s))
  PROVE  d # <<>> /\ d[1] = s[i] /\ SubSeq(d, 2, Len(d)) = SubSeq(s, i + 1, Len(s))
<1> DEFINE n == Len(s)
           r == SubSeq(d, 2, Len(d))
           t == SubSeq(s, i + 1, n)
<1>1. n \in Nat /\ i \in 1..n
  OBVIOUS
<1>2. d \in Seq(T) /\ Len(d) = n - i + 1 /\ \A j \in 1..(n - i + 1) : d[j] = s[j + i - 1]
  <2> HIDE DEF n
  <2>1. i \in 1..(Len(s) + 1) /\ d = SubSeq(s, i, n) /\ n = Len(s)
    BY <1>1 DEF n
  <2>2. QED
    BY <1>1, <2>1
<1>3. t \in Seq(T) /\ Len(t) = n - i /\ \A j \in 1..(n - i) : t[j] = s[j + i]
  <2> HIDE DEF n
  <2>1. i + 1 \in 1..(Len(s) + 1) /\ n = Len(s)
    BY <1>1 DEF n
  <2>2. QED
    BY <1>1, <2>1
<1> HIDE DEF n
<1>4. r \in Seq(T) /\ Len(r) = n - i /\ \A j \in 1..(n - i) : r[j] = d[j + 1]
  <2> DEFINE m == Len(d)
  <2>1. m \in Nat /\ m >= 1 /\ m = n - i + 1
    BY <1>1, <1>2
  <2> HIDE DEF m
  <2>2. 2 \in 1..(Len(d) + 1) /\ m = Len(d)
    BY <2>1 DEF m
  <2>3. SubSeq(d, 2, m) \in Seq(T) /\ Len(SubSeq(d, 2, m)) = m - 1
        /\ \A j \in 1..(m - 1) : SubSeq(d, 2, m)[j] = d[j + 1]
    BY <1>2, <2>1, <2>2
  <2>4. m - 1 = n - i
    BY <1>1, <2>1
  <2>5. QED
    BY <2>3, <2>4 DEF m
<1> HIDE DEF r, t
<1>5. \A j \in 1..(n - i) : r[j] = t[j]
  <2>1. \A j \in 1..(n - i) : j + 1 \in 1..(n - i + 1) /\ j + 1 + i - 1 = j + i
    BY <1>1
  <2>2. \A j \in 1..(n - i) : r[j] = s[j + i]
    BY <1>2, <1>4, <2>1
  <2>3. QED
    BY <1>3, <2>2
<1>6. r = t
  BY <1>3, <1>4, <1>5
<1>7. d # <<>> /\ d[1] = s[i]
  <2>1. 1 \in 1..(n - i + 1) /\ 1 + i - 1 = i /\ n - i + 1 # 0
    BY <1>1
  <2>2. d[1] = s[i]
    BY <1>2, <2>1
  <2>3. Len(d) # 0
    BY <1>2, <2>1
  <2>4. QED
    BY <2>2, <2>3
<1>8. QED
  BY <1>6, <1>7 DEF r, t, n

\* As many commands of the decoder are done as data has lost units to NOPs.
NopsDone(data, ahead, todo, tail, after, left, s, p, k) ==
  \E td \in Seq(Given), next \in Seq(Plainly), more \in Seq(Plainly) :
    /\ Tells(SubSeq(data, k + 1, Len(data)), ahead, td, tail, next, after, left, more, s, p)
    /\ \E dropped \in Seq(Given) : todo = Cat(dropped, td)

LEMMA NopsAreDone ==
  ASSUME NEW data, NEW ahead, NEW todo, NEW tail, NEW doing, NEW after, NEW left, NEW past, NEW p,
         NEW u, u.regs = regs, regs \in RegsType,
         Tells(data, ahead, todo, tail, doing, after, left, past, u, p),
         NEW k \in 0..Len(data), \A i \in 1..k : data[i] = Nop
  PROVE  NopsDone(data, ahead, todo, tail, after, left, u, p, k)
<1> DEFINE Done(i) == NopsDone(data, ahead, todo, tail, after, left, u, p, i)
           bad == {i \in 0..k : ~Done(i)}
<1>1. /\ data \in Seq(Units) /\ todo \in Seq(Given) /\ doing \in Seq(Plainly)
      /\ past \in Seq(Plainly) /\ Len(data) \in Nat /\ k \in Nat
  BY DEF Tells, Frame
<1>2. Done(0)
  <2>1. SubSeq(data, 0 + 1, Len(data)) = data
    BY <1>1, PrefixFacts
  <2>2. todo = Cat(<<>>, todo) /\ <<>> \in Seq(Given)
    BY <1>1, CatNone
  <2>3. QED
    BY <1>1, <2>1, <2>2 DEF NopsDone
<1>3. SUFFICES ASSUME bad # {} PROVE FALSE
  <2> SUFFICES ASSUME ~Done(k) PROVE bad # {}
    OBVIOUS
  <2>1. k \in 0..k
    BY <1>1
  <2> HIDE DEF Done
  <2>2. k \in bad
    BY <2>1
  <2>3. QED
    BY <2>2
<1>4. PICK i \in bad : i \in 1..k /\ i - 1 \in 0..k /\ i - 1 \notin bad
  <2>1. bad \subseteq 0..k /\ 0 \notin bad
    BY <1>2
  <2> HIDE DEF bad
  <2>2. QED
    BY <1>1, <1>3, <2>1, FirstBad
<1>5. ~Done(i) /\ Done(i - 1)
  BY <1>4
<1> HIDE DEF bad
<1>6. i \in 1..Len(data) /\ i - 1 + 1 = i /\ data[i] = Nop
  BY <1>1, <1>4
<1> DEFINE d == SubSeq(data, i, Len(data))
<1>7. d # <<>> /\ d[1] = Nop /\ SubSeq(d, 2, Len(d)) = SubSeq(data, i + 1, Len(data))
  BY <1>1, <1>6, OneLess
<1>8. PICK td \in Seq(Given), next \in Seq(Plainly), more \in Seq(Plainly) :
        /\ Tells(d, ahead, td, tail, next, after, left, more, u, p)
        /\ \E dropped \in Seq(Given) : todo = Cat(dropped, td)
  BY <1>5, <1>6 DEF NopsDone
<1>9. PICK dropped \in Seq(Given) : todo = Cat(dropped, td)
  BY <1>8
<1> HIDE DEF d, Done
<1> DEFINE next2 == Cat(Inline(Others(td), Inlined[left]), after)
           more2 == Append(more, td[1])
           td2 == Others(td)
<1>10. Tells(SubSeq(d, 2, Len(d)), ahead, td2, tail, next2, after, left, more2, u, p) /\ td # <<>>
  BY <1>7, <1>8, NopIsDone
<1>11. td2 \in Seq(Given) /\ next2 \in Seq(Plainly) /\ more2 \in Seq(Plainly)
  BY <1>10 DEF Tells, Frame
<1>12. \E more3 \in Seq(Given) : todo = Cat(more3, td2)
  <2> DEFINE one == <<td[1]>>
             more3 == Cat(dropped, one)
  <2>1. one \in Seq(Given) /\ td = Cat(one, td2) /\ td2 \in Seq(Given)
    BY <1>10, TodoParts
  <2> HIDE DEF one, td2
  <2>2. Cat(Cat(dropped, one), td2) = Cat(dropped, Cat(one, td2))
    BY <2>1, CatAssociative
  <2>3. todo = Cat(more3, td2)
    BY <1>9, <2>1, <2>2
  <2>4. more3 \in Seq(Given)
    BY <2>1, CatTyped
  <2>5. QED
    BY <2>3, <2>4
<1> HIDE DEF next2, more2, td2
<1>13. Done(i)
  BY <1>7, <1>10, <1>11, <1>12 DEF Done, NopsDone
<1>14. QED
  BY <1>5, <1>13

LEMMA EncodeAllCat ==
  ASSUME NEW a \in Seq(Given), NEW b \in Seq(Given)
  PROVE  /\ EncodeAll(Cat(a, b)) = Cat(EncodeAll(a), EncodeAll(b))
         /\ EncodeAll(a) \in Seq(Units) /\ EncodeAll(b) \in Seq(Units)
<1>1. a \in Seq(Command) /\ b \in Seq(Command)
  BY GivenAreCommands, SeqGrows
<1>2. EncodeAll(a \o b) = EncodeAll(a) \o EncodeAll(b)
  BY <1>1, EncodeAllParts
<1>3. EncodeAll(a) \in Seq(Units) /\ EncodeAll(b) \in Seq(Units)
  BY <1>1, EncodeAllTyped
<1>4. QED
  BY <1>2, <1>3 DEF Cat

LEMMA LongerThanNone ==
  ASSUME NEW T, NEW s \in Seq(T), NEW a \in Seq(T), NEW b \in Seq(T), s = Cat(a, b), Len(s) > Len(a)
  PROVE  b # <<>>
<1> SUFFICES ASSUME b = <<>> PROVE FALSE
  OBVIOUS
<1>1. s = a
  BY CatNone
<1>2. Len(s) \in Nat
  OBVIOUS
<1>3. QED
  BY <1>1, <1>2

LEMMA CatShorter ==
  ASSUME NEW T, NEW a \in Seq(T), NEW b \in Seq(T), NEW x \in Seq(T), NEW y \in Seq(T),
         Len(b) > Len(a), Cat(a, x) = Cat(b, y)
  PROVE  \E more \in Seq(T) : more # <<>> /\ b = Cat(a, more)
<1> DEFINE more == SubSeq(b, Len(a) + 1, Len(b))
<1>1. Len(b) >= Len(a)
  OBVIOUS
<1>2. more \in Seq(T) /\ b = Cat(a, more)
  BY <1>1, CatLonger
<1> HIDE DEF more
<1>3. more # <<>>
  BY <1>2, LongerThanNone
<1>4. QED
  BY <1>2, <1>3

\* The first n of a and b make r, which has all of a.
CutLater(T, r, a, b, n) ==
  \E tl \in Seq(T), end \in Seq(T) : r = Cat(a, tl) /\ b = Cat(tl, end) /\ Len(tl) = n - Len(a)

LEMMA CutBehind ==
  ASSUME NEW T, NEW a \in Seq(T), NEW b \in Seq(T), NEW s, s = Cat(a, b),
         NEW n \in 0..Len(s), n >= Len(a), NEW r, r = SubSeq(s, 1, n)
  PROVE  r \in Seq(T) /\ Len(r) = n /\ CutLater(T, r, a, b, n)
<1> DEFINE end == SubSeq(s, n + 1, Len(s))
           f == SubSeq(s, 1, n)
           tl == SubSeq(f, Len(a) + 1, Len(f))
<1>1. s \in Seq(T)
  BY CatTyped
<1>2. f \in Seq(T) /\ end \in Seq(T) /\ Len(f) = n
  BY <1>1, CutInTwo
<1>3. s = Cat(f, end)
  BY <1>1, CatCut
<1> HIDE DEF f, end
<1>4. Cat(f, end) = Cat(a, b) /\ Len(f) >= Len(a)
  BY <1>2, <1>3
<1>5. tl \in Seq(T) /\ f = Cat(a, tl) /\ b = Cat(tl, end)
  BY <1>2, <1>4, CatLonger
<1> HIDE DEF tl
<1>6. Len(Cat(a, tl)) = Len(a) + Len(tl)
  BY <1>5, CatTyped
<1>7. Len(tl) = n - Len(a)
  <2> DEFINE x == Len(a)
             y == Len(tl)
  <2>1. x \in Nat /\ y \in Nat /\ n = x + y /\ n \in Int
    BY <1>2, <1>5, <1>6
  <2> HIDE DEF x, y
  <2>2. y = n - x
    BY <2>1
  <2>3. QED
    BY <2>2 DEF x, y
<1>8. r = f
  BY DEF f
<1>9. QED
  BY <1>2, <1>5, <1>7, <1>8 DEF CutLater

LEMMA NextPrefix ==
  ASSUME NEW T, NEW s \in Seq(T), NEW n \in 0..Len(s), NEW q, q = SubSeq(s, n + 1, Len(s)), q # <<>>
  PROVE  n + 1 \in 0..Len(s) /\ s[n + 1] = q[1] /\ SubSeq(s, 1, n + 1) = Append(SubSeq(s, 1, n), q[1])
<1> DEFINE m == Len(s)
<1>1. m \in Nat /\ n \in 0..m
  OBVIOUS
<1>2. Len(q) = m - n /\ \A i \in 1..(m - n) : q[i] = s[i + n]
  <2> HIDE DEF m
  <2>1. n + 1 \in 1..(Len(s) + 1) /\ m = Len(s) /\ q = SubSeq(s, n + 1, m)
    BY <1>1 DEF m
  <2>2. QED
    BY <1>1, <2>1
<1>3. Len(q) # 0
  <2>1. q \in Seq(T)
    BY CutInTwo
  <2>2. QED
    BY <2>1
<1> HIDE DEF m
<1>4. n + 1 \in 1..m /\ 1 \in 1..(m - n) /\ 1 + n = n + 1 /\ n + 1 - 1 = n
  BY <1>1, <1>2, <1>3
<1>5. s[n + 1] = q[1]
  BY <1>2, <1>4
<1> DEFINE k == n + 1
<1>6. k \in 1..Len(s) /\ k - 1 = n /\ s[k] = q[1]
  BY <1>4, <1>5 DEF m
<1> HIDE DEF k
<1>7. SubSeq(s, 1, k) = Append(SubSeq(s, 1, k - 1), s[k])
  BY <1>6, PrefixFacts
<1>8. SubSeq(s, 1, k) = Append(SubSeq(s, 1, n), q[1])
  BY <1>6, <1>7
<1>9. QED
  BY <1>4, <1>5, <1>8 DEF k, m

\* r is cut behind the commands w, in the next of cs.
CutsBehind(cs, w, r, tl) ==
  /\ r = Cat(EncodeAll(w), tl)
  /\ tl # <<>> =>
       /\ cs[Len(w) + 1] \in Command
       /\ \E more \in Seq(Units) : more # <<>> /\ Encode(cs[Len(w) + 1]) = Cat(tl, more)

\* Where WholeCommands cuts: after whole commands, before the last unit of the next.
LEMMA WholeCut ==
  ASSUME NEW cs \in Seq(Given), NEW units \in Nat, units <= Len(EncodeAll(cs)),
         NEW w, w = WholeCommands(cs, units),
         NEW r, r = SubSeq(EncodeAll(cs), 1, units)
  PROVE  /\ w \in Seq(Given) /\ r \in Seq(Units) /\ Len(r) = units /\ EncodeAll(w) \in Seq(Units)
         /\ \E tl \in Seq(Units) : CutsBehind(cs, w, r, tl)
<1> DEFINE n == Len(w)
           q == SubSeq(cs, n + 1, Len(cs))
           ew == EncodeAll(w)
           eq == EncodeAll(q)
           all == EncodeAll(cs)
<1>1. /\ w \in Seq(Given) /\ n \in 0..Len(cs) /\ w = SubSeq(cs, 1, n) /\ Len(ew) <= units
      /\ \A i \in 0..Len(cs) : Len(EncodeAll(SubSeq(cs, 1, i))) <= units => i <= n
  BY WholeCommandsFit
<1>2. n = Len(w) /\ q = SubSeq(cs, n + 1, Len(cs)) /\ all = EncodeAll(cs)
  OBVIOUS
<1> HIDE DEF n
<1>3. q \in Seq(Given) /\ cs = Cat(SubSeq(cs, 1, n), q)
  BY <1>1, CutInTwo, CatCut
<1> HIDE DEF q
<1>4. cs = Cat(w, q)
  BY <1>1, <1>3
<1>5. ew \in Seq(Units) /\ eq \in Seq(Units) /\ all = Cat(ew, eq)
  BY <1>1, <1>3, <1>4, EncodeAllCat
<1>6. units \in 0..Len(all) /\ units >= Len(ew) /\ r = SubSeq(all, 1, units)
  <2>1. Len(ew) \in Nat /\ Len(ew) <= units
    BY <1>1, <1>5
  <2> HIDE DEF ew
  <2>2. units >= Len(ew)
    BY <2>1
  <2>3. all \in Seq(Units)
    BY <1>5, CatTyped
  <2>4. units <= Len(all) /\ Len(all) \in Nat
    BY <2>3
  <2> HIDE DEF all
  <2>5. units \in 0..Len(all)
    BY <2>4
  <2>6. QED
    BY <2>2, <2>5 DEF all
<1> HIDE DEF ew, eq, all
<1>7. r \in Seq(Units) /\ Len(r) = units /\ CutLater(Units, r, ew, eq, units)
  BY <1>5, <1>6, CutBehind
<1>8. PICK tl \in Seq(Units), end \in Seq(Units) : r = Cat(ew, tl) /\ eq = Cat(tl, end) /\ Len(tl) = units - Len(ew)
  BY <1>7 DEF CutLater
<1>9. ASSUME tl # <<>>
      PROVE  /\ cs[n + 1] \in Command
             /\ \E more \in Seq(Units) : more # <<>> /\ Encode(cs[n + 1]) = Cat(tl, more)
  <2>1. q # <<>>
    <3> SUFFICES ASSUME q = <<>> PROVE FALSE
      OBVIOUS
    <3>1. eq = <<>>
      BY EncodeAllParts DEF eq
    <3>2. Len(Cat(tl, end)) = Len(tl) + Len(end)
      BY CatTyped
    <3> DEFINE a == Len(tl)
               b == Len(end)
    <3>3. a \in Nat /\ b \in Nat /\ a # 0 /\ a + b = 0
      BY <1>8, <1>9, <3>1, <3>2
    <3> HIDE DEF a, b
    <3>4. QED
      BY <3>3
  <2> DEFINE c == q[1]
             s == Encode(c)
             es == EncodeAll(Others(q))
  <2>2. /\ c \in Command /\ c \in Given /\ s \in Seq(Units) /\ es \in Seq(Units) /\ eq = Cat(s, es)
    BY <1>3, <2>1, TodoParts DEF eq
  <2>3. n + 1 \in 0..Len(cs) /\ cs[n + 1] = c /\ SubSeq(cs, 1, n + 1) = Append(SubSeq(cs, 1, n), c)
    BY <1>1, <1>2, <2>1, NextPrefix
  <2> HIDE DEF es
  <2>4. Len(EncodeAll(SubSeq(cs, 1, n + 1))) = Len(ew) + Len(s)
    <3> DEFINE one == <<c>>
    <3>1. one \in Seq(Given) /\ Append(w, c) = Cat(w, one)
      BY <1>1, <2>2, AppendProperties DEF Cat
    <3>2. EncodeAll(one) = s
      BY <2>2, EncodeAllParts
    <3> HIDE DEF one
    <3>3. EncodeAll(Cat(w, one)) = Cat(EncodeAll(w), EncodeAll(one))
      BY <1>1, <3>1, EncodeAllCat
    <3> HIDE DEF s, c
    <3>4. Len(Cat(ew, s)) = Len(ew) + Len(s)
      BY <1>5, <2>2, CatTyped
    <3>5. SubSeq(cs, 1, n + 1) = Cat(w, one)
      BY <1>1, <2>3, <3>1
    <3>6. QED
      BY <3>2, <3>3, <3>4, <3>5 DEF ew
  <2> HIDE DEF s, c
  <2>5. ~(Len(ew) + Len(s) <= units)
    <3> SUFFICES ASSUME Len(ew) + Len(s) <= units PROVE FALSE
      OBVIOUS
    <3>1. n + 1 <= n
      BY <1>1, <2>3, <2>4
    <3>2. n \in Nat
      BY <1>1
    <3>3. QED
      BY <3>1, <3>2
  <2>6. Len(s) > Len(tl)
    <3> DEFINE a == Len(ew)
               b == Len(tl)
               d == Len(s)
    <3>1. a \in Nat /\ b \in Nat /\ d \in Nat /\ b = units - a /\ ~(a + d <= units)
      BY <1>5, <1>8, <2>2, <2>5
    <3> HIDE DEF a, b, d
    <3>2. d > b
      BY <3>1
    <3>3. QED
      BY <3>2 DEF b, d
  <2>7. Cat(tl, end) = Cat(s, es)
    BY <1>8, <2>2
  <2>8. \E more \in Seq(Units) : more # <<>> /\ s = Cat(tl, more)
    BY <2>2, <2>6, <2>7, CatShorter
  <2>9. QED
    BY <2>2, <2>3, <2>8 DEF s
<1>10. CutsBehind(cs, w, r, tl)
  BY <1>2, <1>8, <1>9 DEF CutsBehind, ew
<1>11. QED
  BY <1>1, <1>5, <1>7, <1>10 DEF ew

\* A call enters a frame of its own; what there was to do stays the same.
LEMMA CallIsEntered ==
  ASSUME NEW data, NEW ahead, NEW todo, NEW tail, NEW doing, NEW after, NEW left,
         Frame(data, ahead, todo, tail, doing, after, left), todo # <<>>, todo[1].op = "call",
         left # 0, NEW units, units = Resolved(Aligned(todo[1].address), Aligned(todo[1].size)),
         units # <<>>,
         NEW next, next = Cat(Inline(Others(todo), Inlined[left]), after)
  PROVE  \E w \in Seq(Given), tl \in Seq(Units) : Frame(units, <<>>, w, tl, doing, next, left - 1)
<1> DEFINE c == todo[1]
           address == Aligned(c.address)
           size == Aligned(c.size)
           list == DisplayLists[address]
           w == WholeCommands(list, size)
           f == Inlined[left]
<1>1. /\ todo \in Seq(Given) /\ left \in 0..MaxDisplayListDepth /\ doing \in Seq(Plainly)
  BY DEF Frame
<1>2. c \in Called
  <2>1. c \in Given
    BY <1>1, TodoParts
  <2>2. QED
    BY <2>1, GivenAreCommands
<1>3. size \in Nat
  BY <1>2, CallsAreTyped
<1>4. list \in Seq(Given) /\ size <= Len(EncodeAll(list)) /\ units = SubSeq(EncodeAll(list), 1, size)
  BY <1>3, ListsAreGiven
<1>5. /\ next \in Seq(Plainly) /\ doing = Cat(Inline(<<c>>, f), next)
  BY DoingParts
<1>6. f[c] = Inline(w, Inlined[left - 1])
  <2>1. f = Unrolled(Inlined, left)
    BY <1>1, InlinedUnrolls
  <2>2. QED
    BY <1>2, <2>1 DEF Unrolled
<1>7. f \in [Called -> Seq(Plainly)]
  BY <1>1, InlinedTyped
<1>8. Len(EncodeAll(w)) < size => list[Len(w) + 1].op # "draw"
  BY <1>2, DrawsAssumption
<1>9. w = WholeCommands(list, size)
  OBVIOUS
<1> HIDE DEF c, f, w, list, size, address
<1>10. Inline(<<c>>, f) = Inline(w, Inlined[left - 1])
  BY <1>2, <1>6, <1>7, InlineParts
<1>11. /\ w \in Seq(Given) /\ units \in Seq(Units) /\ Len(units) = size /\ EncodeAll(w) \in Seq(Units)
       /\ \E tl \in Seq(Units) : CutsBehind(list, w, units, tl)
  BY <1>3, <1>4, <1>9, WholeCut
<1>12. PICK tl \in Seq(Units) : CutsBehind(list, w, units, tl)
  BY <1>11
<1> DEFINE ew == EncodeAll(w)
<1>0. units = Cat(ew, tl) /\ ew \in Seq(Units)
  BY <1>11, <1>12 DEF CutsBehind
<1> HIDE DEF ew
<1>13. CutCommand(tl)
  <2> SUFFICES ASSUME tl # <<>> PROVE CutCommand(tl)
    BY DEF CutCommand
  <2>1. Len(units) = Len(ew) + Len(tl)
    BY <1>0, CatTyped
  <2>2. Len(ew) < size
    <3> DEFINE a == Len(ew)
               b == Len(tl)
    <3>1. a \in Nat /\ b \in Nat /\ b # 0 /\ size = a + b
      BY <1>0, <1>11, <2>1
    <3> HIDE DEF a, b
    <3>2. a < size
      BY <3>1
    <3>3. QED
      BY <3>2 DEF a
  <2>3. list[Len(w) + 1].op # "draw"
    BY <1>8, <2>2 DEF ew
  <2>4. QED
    BY <1>12, <2>3 DEF CutsBehind, CutCommand
<1>14. left - 1 \in 0..MaxDisplayListDepth
  BY <1>1, DepthAssumption
<1>15. Cat(units, <<>>) = Cat(EncodeAll(w), tl)
  BY <1>0, <1>11, CatNone DEF ew
<1>16. Frame(units, <<>>, w, tl, doing, next, left - 1)
  BY <1>1, <1>5, <1>10, <1>11, <1>13, <1>14, <1>15 DEF Frame
<1>17. QED
  BY <1>11, <1>16

-----------------------------------------------------------------------------
(* All the decoders: the outermost, whose data is main and which has the   *)
(* rest of the stream ahead, and inner, those of the display lists.        *)

Levels == 0..MaxDisplayListDepth

FrameAt(i, main, ahead, inner, todo, tail, cont) ==
  Frame(IF i = 0 THEN main ELSE inner[i], IF i = 0 THEN ahead ELSE <<>>, todo[i], tail[i], cont[i],
        IF i = 0 THEN <<>> ELSE cont[i - 1], MaxDisplayListDepth - i)

Frames(main, ahead, inner, todo, tail, cont) ==
  /\ inner \in Seq(Seq(Units)) /\ Len(inner) \in Levels
  /\ todo \in [Levels -> Seq(Given)] /\ tail \in [Levels -> Seq(Units)] /\ cont \in [Levels -> Seq(Plainly)]
  /\ tail[0] = <<>>
  /\ \A i \in 0..Len(inner) : FrameAt(i, main, ahead, inner, todo, tail, cont)

\* The innermost does something.
LEMMA FramesAdvance ==
  ASSUME NEW main, NEW ahead, NEW inner, NEW todo, NEW tail, NEW cont,
         Frames(main, ahead, inner, todo, tail, cont),
         NEW n, n = Len(inner),
         NEW inner2 \in Seq(Seq(Units)), Len(inner2) = n, \A i \in 1..(n - 1) : inner2[i] = inner[i],
         NEW main2, n # 0 => main2 = main,
         NEW td, NEW next,
         Frame(IF n = 0 THEN main2 ELSE inner2[n], IF n = 0 THEN ahead ELSE <<>>, td, tail[n], next,
               IF n = 0 THEN <<>> ELSE cont[n - 1], MaxDisplayListDepth - n)
  PROVE  Frames(main2, ahead, inner2, [todo EXCEPT ![n] = td], tail, [cont EXCEPT ![n] = next])
<1> DEFINE todo2 == [todo EXCEPT ![n] = td]
           cont2 == [cont EXCEPT ![n] = next]
<1>1. /\ n \in Levels /\ n \in Nat /\ tail[0] = <<>> /\ tail \in [Levels -> Seq(Units)]
      /\ todo \in [Levels -> Seq(Given)] /\ cont \in [Levels -> Seq(Plainly)]
      /\ \A i \in 0..n : FrameAt(i, main, ahead, inner, todo, tail, cont)
  BY DepthAssumption DEF Frames, Levels
<1>2. td \in Seq(Given) /\ next \in Seq(Plainly)
  BY DEF Frame
<1>3. todo2 \in [Levels -> Seq(Given)] /\ cont2 \in [Levels -> Seq(Plainly)]
  BY <1>1, <1>2
<1>4. /\ \A i \in Levels : i # n => todo2[i] = todo[i] /\ cont2[i] = cont[i]
      /\ todo2[n] = td /\ cont2[n] = next
  BY <1>1
<1> HIDE DEF todo2, cont2
<1>5. ASSUME NEW i \in 0..n, i # n
      PROVE  FrameAt(i, main2, ahead, inner2, todo2, tail, cont2)
  <2>1. i \in Levels /\ n # 0 /\ (i # 0 => i \in 1..(n - 1) /\ i - 1 \in Levels /\ i - 1 # n)
    BY <1>1, <1>5, DepthAssumption DEF Levels
  <2>2. todo2[i] = todo[i] /\ cont2[i] = cont[i] /\ main2 = main
    BY <1>4, <1>5, <2>1
  <2>3. i # 0 => cont2[i - 1] = cont[i - 1] /\ inner2[i] = inner[i]
    BY <1>4, <2>1
  <2>4. FrameAt(i, main, ahead, inner, todo, tail, cont)
    BY <1>1
  <2>5. QED
    BY <2>2, <2>3, <2>4 DEF FrameAt
<1>6. FrameAt(n, main2, ahead, inner2, todo2, tail, cont2)
  <2>1. n # 0 => cont2[n - 1] = cont[n - 1]
    <3>1. n # 0 => n - 1 \in Levels /\ n - 1 # n
      <4>1. n \in 0..MaxDisplayListDepth
        BY <1>1 DEF Levels
      <4>2. QED
        BY <4>1, DepthAssumption DEF Levels
    <3>2. QED
      BY <1>4, <3>1
  <2>2. QED
    BY <1>4, <2>1 DEF FrameAt
<1>7. \A i \in 0..n : FrameAt(i, main2, ahead, inner2, todo2, tail, cont2)
  BY <1>5, <1>6
<1>8. QED
  BY <1>1, <1>3, <1>7 DEF Frames, todo2, cont2

\* A display list is entered.
LEMMA FramesEnter ==
  ASSUME NEW main, NEW ahead, NEW inner, NEW todo, NEW tail, NEW cont,
         Frames(main, ahead, inner, todo, tail, cont),
         NEW n, n = Len(inner), n < MaxDisplayListDepth,
         NEW units, NEW w, NEW tl, NEW doing,
         Frame(units, <<>>, w, tl, doing, cont[n], MaxDisplayListDepth - n - 1)
  PROVE  Frames(main, ahead, Append(inner, units), [todo EXCEPT ![n + 1] = w],
                [tail EXCEPT ![n + 1] = tl], [cont EXCEPT ![n + 1] = doing])
<1> DEFINE m == n + 1
           inner2 == Append(inner, units)
           todo2 == [todo EXCEPT ![m] = w]
           tail2 == [tail EXCEPT ![m] = tl]
           cont2 == [cont EXCEPT ![m] = doing]
<1>0. n \in 0..MaxDisplayListDepth /\ MaxDisplayListDepth \in Nat
  BY DepthAssumption DEF Frames, Levels
<1>1. /\ n \in Levels /\ tail[0] = <<>> /\ tail \in [Levels -> Seq(Units)]
      /\ inner \in Seq(Seq(Units))
      /\ todo \in [Levels -> Seq(Given)] /\ cont \in [Levels -> Seq(Plainly)]
      /\ \A i \in 0..n : FrameAt(i, main, ahead, inner, todo, tail, cont)
  BY DEF Frames
<1>2. /\ w \in Seq(Given) /\ doing \in Seq(Plainly) /\ tl \in Seq(Units) /\ units \in Seq(Units)
  BY DEF Frame
<1>3. m \in Levels /\ m = n + 1 /\ m # 0 /\ m - 1 = n /\ MaxDisplayListDepth - n - 1 = MaxDisplayListDepth - m
  BY <1>0 DEF Levels
<1> HIDE DEF m
<1>4. todo2 \in [Levels -> Seq(Given)] /\ cont2 \in [Levels -> Seq(Plainly)] /\ tail2 \in [Levels -> Seq(Units)]
  BY <1>1, <1>2, <1>3
<1>5. /\ \A i \in Levels : i # m => todo2[i] = todo[i] /\ cont2[i] = cont[i] /\ tail2[i] = tail[i]
      /\ todo2[m] = w /\ cont2[m] = doing /\ tail2[m] = tl
  BY <1>1, <1>3
<1>6. inner2 \in Seq(Seq(Units)) /\ Len(inner2) = m /\ inner2[m] = units /\ \A i \in 1..n : inner2[i] = inner[i]
  BY <1>0, <1>1, <1>2, <1>3
<1> HIDE DEF todo2, tail2, cont2, inner2
<1>7. ASSUME NEW i \in 0..n
      PROVE  FrameAt(i, main, ahead, inner2, todo2, tail2, cont2)
  <2>1. i \in Levels /\ i # m /\ (i # 0 => i \in 1..n /\ i - 1 \in Levels /\ i - 1 # m)
    <3>1. i \in 0..MaxDisplayListDepth /\ i <= n /\ i \in Nat
      BY <1>0
    <3>2. QED
      BY <1>0, <1>3, <3>1 DEF Levels
  <2>2. todo2[i] = todo[i] /\ cont2[i] = cont[i] /\ tail2[i] = tail[i]
    BY <1>5, <2>1
  <2>3. i # 0 => cont2[i - 1] = cont[i - 1] /\ inner2[i] = inner[i]
    BY <1>5, <1>6, <2>1
  <2>4. FrameAt(i, main, ahead, inner, todo, tail, cont)
    BY <1>1
  <2>5. QED
    BY <2>2, <2>3, <2>4 DEF FrameAt
<1>8. FrameAt(m, main, ahead, inner2, todo2, tail2, cont2)
  <2>1. cont2[n] = cont[n]
    <3>1. n \in Levels /\ n # m
      BY <1>0, <1>1, <1>3
    <3>2. QED
      BY <1>5, <3>1
  <2>2. QED
    BY <1>3, <1>5, <1>6, <2>1 DEF FrameAt
<1>9. \A i \in 0..m : FrameAt(i, main, ahead, inner2, todo2, tail2, cont2)
  <2>1. \A i \in 0..m : i \in 0..n \/ i = m
    BY <1>0, <1>3
  <2>2. QED
    BY <1>7, <1>8, <2>1
<1>10. tail2[0] = <<>>
  <2>1. 0 \in Levels /\ 0 # m
    BY <1>3, DepthAssumption DEF Levels
  <2>2. QED
    BY <1>1, <1>5, <2>1
<1>11. QED
  BY <1>3, <1>4, <1>6, <1>9, <1>10 DEF Frames, todo2, tail2, cont2, inner2, m

\* A display list is left.
LEMMA FramesLeave ==
  ASSUME NEW main, NEW ahead, NEW inner, NEW todo, NEW tail, NEW cont,
         Frames(main, ahead, inner, todo, tail, cont), inner # <<>>
  PROVE  Frames(main, ahead, Front(inner), todo, tail, cont) /\ Len(Front(inner)) = Len(inner) - 1
<1> DEFINE n == Len(inner)
           m == n - 1
           L == Seq(Units)
<1>1. /\ inner \in Seq(L) /\ n \in Levels /\ tail[0] = <<>> /\ tail \in [Levels -> Seq(Units)]
      /\ todo \in [Levels -> Seq(Given)] /\ cont \in [Levels -> Seq(Plainly)]
      /\ \A i \in 0..n : FrameAt(i, main, ahead, inner, todo, tail, cont)
  BY DEF Frames
<1> HIDE DEF L
<1>2. Front(inner) \in Seq(L) /\ Len(Front(inner)) = m /\ n \in Nat \ {0} /\ \A i \in 1..m : Front(inner)[i] = inner[i]
  BY <1>1, LastAndFront
<1>3. m \in Levels /\ m \in Nat /\ \A i \in 0..m : i \in 0..n /\ (i # 0 => i \in 1..m)
  <2>1. n \in 0..MaxDisplayListDepth
    BY <1>1 DEF Levels
  <2> HIDE DEF n
  <2>2. n \in Nat \ {0} /\ MaxDisplayListDepth \in Nat
    BY <1>2, DepthAssumption
  <2>3. QED
    BY <2>1, <2>2 DEF Levels
<1> HIDE DEF n, m
<1>4. \A i \in 0..m : FrameAt(i, main, ahead, Front(inner), todo, tail, cont)
  <2> TAKE i \in 0..m
  <2>1. FrameAt(i, main, ahead, inner, todo, tail, cont)
    BY <1>1, <1>3
  <2>2. i # 0 => Front(inner)[i] = inner[i]
    BY <1>2, <1>3
  <2>3. QED
    BY <2>1, <2>2 DEF FrameAt
<1>5. QED
  BY <1>1, <1>2, <1>3, <1>4 DEF Frames, L, m, n

-----------------------------------------------------------------------------
(* The account of a moment: the commands done, past, with their effect s,  *)
(* and those each decoder has still to do make up the program's commands,  *)
(* display lists in their place.                                           *)

Account(main, ahead, inner, s, p, todo, tail, cont, past) ==
  /\ Frames(main, ahead, inner, todo, tail, cont)
  /\ past \in Seq(Plainly)
  /\ Cat(past, cont[Len(inner)]) = Inline(p, Inlined[MaxDisplayListDepth])
  /\ Effect(past) = s
  /\ p \in Programs
  /\ \E done \in Seq(Given) : p = Cat(done, todo[0])

Told(main, ahead, inner, s, p) ==
  \E todo \in [Levels -> Seq(Given)], tail \in [Levels -> Seq(Units)],
     cont \in [Levels -> Seq(Plainly)], past \in Seq(Plainly) :
    Account(main, ahead, inner, s, p, todo, tail, cont, past)

After(cont, n) == IF n = 0 THEN <<>> ELSE cont[n - 1]

LEMMA AccountTells ==
  ASSUME NEW main, NEW ahead, NEW inner, NEW s, NEW p, NEW todo, NEW tail, NEW cont, NEW past,
         Account(main, ahead, inner, s, p, todo, tail, cont, past), NEW n, n = Len(inner)
  PROVE  /\ n \in 0..MaxDisplayListDepth
         /\ Tells(IF n = 0 THEN main ELSE inner[n], IF n = 0 THEN ahead ELSE <<>>, todo[n], tail[n], cont[n],
                  After(cont, n), MaxDisplayListDepth - n, past, s, p)
<1>1. n \in Levels /\ \A i \in 0..n : FrameAt(i, main, ahead, inner, todo, tail, cont)
  BY DEF Account, Frames
<1>2. n \in 0..MaxDisplayListDepth /\ n \in 0..n
  BY <1>1, DepthAssumption DEF Levels
<1>3. FrameAt(n, main, ahead, inner, todo, tail, cont)
  BY <1>1, <1>2
<1>4. QED
  BY <1>2, <1>3 DEF Account, Tells, FrameAt, After

LEMMA DoneWithMore ==
  ASSUME NEW done \in Seq(Given), NEW dropped \in Seq(Given), NEW td \in Seq(Given)
  PROVE  \E all \in Seq(Given) : Cat(done, Cat(dropped, td)) = Cat(all, td)
<1>1. Cat(Cat(done, dropped), td) = Cat(done, Cat(dropped, td))
  BY CatAssociative
<1>2. Cat(done, dropped) \in Seq(Given)
  BY CatTyped
<1>3. QED
  BY <1>1, <1>2

\* td is the end of all.
Ends(td, all) == \E dropped \in Seq(Given) : all = Cat(dropped, td)

\* inner2 is inner with another innermost.
SameBelow(inner2, inner) ==
  /\ inner2 \in Seq(Seq(Units)) /\ Len(inner2) = Len(inner)
  /\ \A i \in 1..(Len(inner) - 1) : inner2[i] = inner[i]

LEMMA AccountAdvances ==
  ASSUME NEW main, NEW ahead, NEW inner, NEW s, NEW p, NEW todo, NEW tail, NEW cont, NEW past,
         Account(main, ahead, inner, s, p, todo, tail, cont, past), NEW n, n = Len(inner),
         NEW inner2, SameBelow(inner2, inner),
         NEW main2, n # 0 => main2 = main,
         NEW td, NEW next, NEW more, NEW s2,
         Tells(IF n = 0 THEN main2 ELSE inner2[n], IF n = 0 THEN ahead ELSE <<>>, td, tail[n], next,
               After(cont, n), MaxDisplayListDepth - n, more, s2, p),
         Ends(td, todo[n])
  PROVE  Told(main2, ahead, inner2, s2, p)
<1> DEFINE todo2 == [todo EXCEPT ![n] = td]
           cont2 == [cont EXCEPT ![n] = next]
<1>1. /\ Frames(main, ahead, inner, todo, tail, cont)
      /\ Frame(IF n = 0 THEN main2 ELSE inner2[n], IF n = 0 THEN ahead ELSE <<>>, td, tail[n], next,
               IF n = 0 THEN <<>> ELSE cont[n - 1], MaxDisplayListDepth - n)
  BY DEF Account, Tells, After
<1>2. Frames(main2, ahead, inner2, todo2, tail, cont2)
  <2>1. inner2 \in Seq(Seq(Units)) /\ Len(inner2) = n /\ \A i \in 1..(n - 1) : inner2[i] = inner[i]
    BY DEF SameBelow
  <2>2. QED
    BY <1>1, <2>1, FramesAdvance
<1>3. /\ n \in Levels /\ todo \in [Levels -> Seq(Given)] /\ cont \in [Levels -> Seq(Plainly)]
      /\ tail \in [Levels -> Seq(Units)]
  BY <1>1 DEF Frames
<1>4. cont2[n] = next /\ todo2[n] = td /\ (n # 0 => todo2[0] = todo[0])
  <2>1. 0 \in Levels
    BY DepthAssumption DEF Levels
  <2>2. QED
    BY <1>3, <2>1
<1>5. td \in Seq(Given)
  BY <1>1 DEF Frame
<1>6. \E done \in Seq(Given) : p = Cat(done, todo2[0])
  <2>1. PICK done \in Seq(Given) : p = Cat(done, todo[0])
    BY DEF Account
  <2>2. CASE n # 0
    BY <1>4, <2>1, <2>2
  <2>3. CASE n = 0
    <3>1. PICK dropped \in Seq(Given) : todo[n] = Cat(dropped, td)
      BY DEF Ends
    <3>2. p = Cat(done, Cat(dropped, td))
      BY <2>1, <2>3, <3>1
    <3>3. \E all \in Seq(Given) : Cat(done, Cat(dropped, td)) = Cat(all, td)
      BY <1>5, DoneWithMore
    <3>4. QED
      BY <1>4, <2>3, <3>2, <3>3
  <2>4. QED
    BY <2>2, <2>3
<1>7. todo2 \in [Levels -> Seq(Given)] /\ cont2 \in [Levels -> Seq(Plainly)]
  BY <1>2 DEF Frames
<1>8. /\ more \in Seq(Plainly) /\ Cat(more, next) = Inline(p, Inlined[MaxDisplayListDepth])
      /\ Effect(more) = s2 /\ p \in Programs
  BY DEF Tells
<1> HIDE DEF todo2, cont2
<1>9. Account(main2, ahead, inner2, s2, p, todo2, tail, cont2, more)
  BY <1>2, <1>4, <1>6, <1>8 DEF Account, SameBelow
<1>10. QED
  BY <1>3, <1>7, <1>8, <1>9 DEF Told

LEMMA AccountEnters ==
  ASSUME NEW main, NEW ahead, NEW inner, NEW s, NEW p, NEW todo, NEW tail, NEW cont, NEW past,
         Account(main, ahead, inner, s, p, todo, tail, cont, past), NEW n, n = Len(inner),
         n < MaxDisplayListDepth,
         NEW inner2, SameBelow(inner2, inner),
         NEW main2, n # 0 => main2 = main,
         NEW td, NEW next,
         Frame(IF n = 0 THEN main2 ELSE inner2[n], IF n = 0 THEN ahead ELSE <<>>, td, tail[n], next,
               IF n = 0 THEN <<>> ELSE cont[n - 1], MaxDisplayListDepth - n),
         Ends(td, todo[n]),
         NEW units, NEW w, NEW tl,
         Frame(units, <<>>, w, tl, cont[n], next, MaxDisplayListDepth - n - 1)
  PROVE  Told(main2, ahead, Append(inner2, units), s, p)
<1> DEFINE m == n + 1
           todo2 == [todo EXCEPT ![n] = td]
           cont2 == [cont EXCEPT ![n] = next]
           todo3 == [todo2 EXCEPT ![m] = w]
           tail3 == [tail EXCEPT ![m] = tl]
           cont3 == [cont2 EXCEPT ![m] = cont[n]]
           inner3 == Append(inner2, units)
<1>1. Frames(main, ahead, inner, todo, tail, cont)
  BY DEF Account
<1>2. Frames(main2, ahead, inner2, todo2, tail, cont2)
  <2>1. inner2 \in Seq(Seq(Units)) /\ Len(inner2) = n /\ \A i \in 1..(n - 1) : inner2[i] = inner[i]
    BY DEF SameBelow
  <2>2. QED
    BY <1>1, <2>1, FramesAdvance
<1>3. /\ n \in Levels /\ todo \in [Levels -> Seq(Given)] /\ cont \in [Levels -> Seq(Plainly)]
      /\ tail \in [Levels -> Seq(Units)]
  BY <1>1 DEF Frames
<1>4. cont2[n] = next /\ todo2[n] = td /\ (n # 0 => todo2[0] = todo[0])
  <2>1. 0 \in Levels
    BY DepthAssumption DEF Levels
  <2>2. QED
    BY <1>3, <2>1
<1>5. td \in Seq(Given)
  BY DEF Frame
<1>6. todo2 \in [Levels -> Seq(Given)] /\ cont2 \in [Levels -> Seq(Plainly)]
  BY <1>2 DEF Frames
<1>7. \E done \in Seq(Given) : p = Cat(done, todo2[0])
  <2>1. PICK done \in Seq(Given) : p = Cat(done, todo[0])
    BY DEF Account
  <2>2. CASE n # 0
    BY <1>4, <2>1, <2>2
  <2>3. CASE n = 0
    <3>1. PICK dropped \in Seq(Given) : todo[n] = Cat(dropped, td)
      BY DEF Ends
    <3>2. p = Cat(done, Cat(dropped, td))
      BY <2>1, <2>3, <3>1
    <3>3. \E all \in Seq(Given) : Cat(done, Cat(dropped, td)) = Cat(all, td)
      BY <1>5, DoneWithMore
    <3>4. QED
      BY <1>4, <2>3, <3>2, <3>3
  <2>4. QED
    BY <2>2, <2>3
<1> HIDE DEF todo2, cont2
<1>8. Frame(units, <<>>, w, tl, cont[n], cont2[n], MaxDisplayListDepth - n - 1)
  BY <1>4
<1>9. Frames(main2, ahead, inner3, todo3, tail3, cont3)
  <2>1. n = Len(inner2)
    BY DEF SameBelow
  <2>2. QED
    BY <1>2, <1>8, <2>1, FramesEnter
<1>10. n \in 0..MaxDisplayListDepth /\ MaxDisplayListDepth \in Nat
  BY <1>3, DepthAssumption DEF Levels
<1>11. m \in Levels /\ m # 0 /\ 0 \in Levels
  BY <1>10 DEF Levels
<1>12. Len(inner3) = m
  BY <1>10 DEF SameBelow
<1>13. cont3[m] = cont[n] /\ todo3[0] = todo2[0]
  BY <1>6, <1>11
<1>14. todo3 \in [Levels -> Seq(Given)] /\ cont3 \in [Levels -> Seq(Plainly)] /\ tail3 \in [Levels -> Seq(Units)]
  BY <1>9 DEF Frames
<1>15. /\ past \in Seq(Plainly) /\ Cat(past, cont[n]) = Inline(p, Inlined[MaxDisplayListDepth])
       /\ Effect(past) = s /\ p \in Programs
  BY DEF Account
<1> HIDE DEF todo3, tail3, cont3, inner3, m
<1>16. Account(main2, ahead, inner3, s, p, todo3, tail3, cont3, past)
  BY <1>7, <1>9, <1>12, <1>13, <1>15 DEF Account
<1>17. Told(main2, ahead, inner3, s, p)
  BY <1>14, <1>15, <1>16 DEF Told
<1>18. QED
  BY <1>17 DEF inner3

LEMMA AccountLeaves ==
  ASSUME NEW main, NEW ahead, NEW inner, NEW s, NEW p, NEW todo, NEW tail, NEW cont, NEW past,
         Account(main, ahead, inner, s, p, todo, tail, cont, past), inner # <<>>,
         todo[Len(inner)] = <<>>
  PROVE  Told(main, ahead, Front(inner), s, p)
<1> DEFINE n == Len(inner)
           f == Inlined[MaxDisplayListDepth - n]
<1>1. Frames(main, ahead, inner, todo, tail, cont)
  BY DEF Account
<1>2. Frames(main, ahead, Front(inner), todo, tail, cont) /\ Len(Front(inner)) = n - 1
  BY <1>1, FramesLeave
<1>3. /\ n \in Levels /\ n # 0 /\ todo \in [Levels -> Seq(Given)] /\ cont \in [Levels -> Seq(Plainly)]
      /\ tail \in [Levels -> Seq(Units)]
  BY <1>1 DEF Frames
<1>4. n \in 0..MaxDisplayListDepth /\ MaxDisplayListDepth \in Nat /\ MaxDisplayListDepth - n \in 0..MaxDisplayListDepth
  BY <1>3, DepthAssumption DEF Levels
<1>5. Tells(inner[n], <<>>, todo[n], tail[n], cont[n], cont[n - 1], MaxDisplayListDepth - n, past, s, p)
  BY <1>3, AccountTells DEF After
<1> HIDE DEF n
<1>6. cont[n] = cont[n - 1]
  <2>1. cont[n] = Cat(Inline(todo[n], f), cont[n - 1]) /\ cont[n - 1] \in Seq(Plainly)
    BY <1>5 DEF Tells, Frame
  <2>2. f \in [Called -> Seq(Plainly)]
    BY <1>4, InlinedTyped
  <2> HIDE DEF f
  <2>3. Inline(<<>>, f) = <<>>
    BY <2>2, InlineParts
  <2>4. Cat(<<>>, cont[n - 1]) = cont[n - 1]
    BY <2>1, CatNone
  <2>5. todo[n] = <<>>
    BY DEF n
  <2>6. QED
    BY <2>1, <2>3, <2>4, <2>5
<1>7. Account(main, ahead, Front(inner), s, p, todo, tail, cont, past)
  BY <1>2, <1>6 DEF Account, n
<1>8. past \in Seq(Plainly)
  BY DEF Account
<1>9. QED
  BY <1>3, <1>7, <1>8 DEF Told

\* A piece of the stream arrives.
LEMMA AccountReceives ==
  ASSUME NEW main, NEW ahead, NEW s, NEW p, Told(main, ahead, <<>>, s, p),
         NEW piece \in Seq(Units), NEW ahead2 \in Seq(Units), ahead = Cat(piece, ahead2)
  PROVE  Told(Cat(main, piece), ahead2, <<>>, s, p)
<1>1. PICK todo \in [Levels -> Seq(Given)], tail \in [Levels -> Seq(Units)],
           cont \in [Levels -> Seq(Plainly)], past \in Seq(Plainly) :
        Account(main, ahead, <<>>, s, p, todo, tail, cont, past)
  BY DEF Told
<1>2. Frames(main, ahead, <<>>, todo, tail, cont)
  BY <1>1 DEF Account
<1>3. Len(<<>>) = 0 /\ 0..0 = {0} /\ 0 \in 0..0
  OBVIOUS
<1>4. FrameAt(0, main, ahead, <<>>, todo, tail, cont) /\ tail[0] = <<>>
  BY <1>2, <1>3 DEF Frames
<1> DEFINE main2 == Cat(main, piece)
<1>5. Frame(main, ahead, todo[0], tail[0], cont[0], <<>>, MaxDisplayListDepth - 0)
  BY <1>4 DEF FrameAt
<1>6. main \in Seq(Units) /\ ahead \in Seq(Units)
  BY <1>5 DEF Frame
<1>7. main2 \in Seq(Units)
  BY <1>6, CatTyped
<1>8. Cat(main2, ahead2) = Cat(main, ahead)
  <2>1. Cat(Cat(main, piece), ahead2) = Cat(main, Cat(piece, ahead2))
    BY <1>6, CatAssociative
  <2>2. QED
    BY <2>1
<1> HIDE DEF main2
<1>9. Frame(main2, ahead2, todo[0], tail[0], cont[0], <<>>, MaxDisplayListDepth - 0)
  BY <1>4, <1>5, <1>7, <1>8 DEF Frame
<1>10. FrameAt(0, main2, ahead2, <<>>, todo, tail, cont)
  BY <1>9 DEF FrameAt
<1>11. Frames(main2, ahead2, <<>>, todo, tail, cont)
  BY <1>2, <1>3, <1>10 DEF Frames
<1>12. Account(main2, ahead2, <<>>, s, p, todo, tail, cont, past)
  BY <1>1, <1>11 DEF Account
<1>13. QED
  BY <1>12 DEF Told, main2

\* The guest starts.
LEMMA AccountStarts ==
  ASSUME NEW p \in Programs
  PROVE  Told(<<>>, EncodeAll(p), <<>>, [regs |-> InitRegs, backend |-> InitBackend, unknown |-> 0], p)
<1> DEFINE f == Inlined[MaxDisplayListDepth]
           whole == Inline(p, f)
           units == EncodeAll(p)
           start == [regs |-> InitRegs, backend |-> InitBackend, unknown |-> 0]
           todo == [i \in Levels |-> IF i = 0 THEN p ELSE <<>>]
           tail == [i \in Levels |-> <<>>]
           cont == [i \in Levels |-> IF i = 0 THEN whole ELSE <<>>]
<1>1. p \in Seq(Given) /\ units \in Seq(Units) /\ MaxDisplayListDepth \in 0..MaxDisplayListDepth
  BY GivenAreCommands, GivenCommands, DepthAssumption
<1>2. whole \in Seq(Plainly)
  BY <1>1, InlinedTyped, InlineTyped
<1>3. 0 \in Levels /\ MaxDisplayListDepth - 0 = MaxDisplayListDepth /\ MaxDisplayListDepth \in Levels
  BY DepthAssumption DEF Levels
<1>4. /\ todo \in [Levels -> Seq(Given)] /\ tail \in [Levels -> Seq(Units)] /\ cont \in [Levels -> Seq(Plainly)]
  <2> HIDE DEF whole
  <2>1. QED
    BY <1>1, <1>2
<1>5. todo[0] = p /\ tail[0] = <<>> /\ cont[0] = whole
  BY <1>3
<1> HIDE DEF whole, units, f, todo, tail, cont
<1>6. Cat(<<>>, units) = units /\ Cat(units, <<>>) = units /\ Cat(whole, <<>>) = whole /\ Cat(<<>>, whole) = whole
  BY <1>1, <1>2, CatNone
<1>7. Cat(<<>>, p) = p
  BY <1>1, CatNone
<1>8. Effect(<<>>) = start
  BY EffectOfNone
<1> HIDE DEF start
<1>9. Frame(<<>>, units, todo[0], tail[0], cont[0], <<>>, MaxDisplayListDepth)
  BY <1>1, <1>2, <1>5, <1>6 DEF Frame, f, whole, units
<1>10. FrameAt(0, <<>>, units, <<>>, todo, tail, cont)
  BY <1>3, <1>9 DEF FrameAt
<1>11. Len(<<>>) = 0 /\ 0..0 = {0} /\ <<>> \in Seq(Seq(Units))
  OBVIOUS
<1>12. Frames(<<>>, units, <<>>, todo, tail, cont)
  BY <1>3, <1>4, <1>5, <1>10, <1>11 DEF Frames
<1>13. Account(<<>>, units, <<>>, start, p, todo, tail, cont, <<>>)
  <2>1. <<>> \in Seq(Plainly) /\ <<>> \in Seq(Given)
    OBVIOUS
  <2>2. QED
    BY <1>5, <1>6, <1>7, <1>8, <1>11, <1>12, <2>1 DEF Account, whole, f
<1>14. <<>> \in Seq(Plainly)
  OBVIOUS
<1>15. QED
  BY <1>4, <1>13, <1>14 DEF Told, units, start

-----------------------------------------------------------------------------
(* The invariant.                                                          *)

Main == SubSeq(m_buffer, consumed + 1, Len(m_buffer))

Unwritten == SubSeq(EncodeAll(program), sent + 1, Len(EncodeAll(program)))

Now == [regs |-> regs, backend |-> backend, unknown |-> m_unknown_opcode_count]

(* Every decoder is at the beginning of a command it has to do, and what   *)
(* is done is what the registers and the render device show. Between two   *)
(* writes there is no display list, and the next command is not whole.     *)
SyncInv ==
  /\ GxTypeOK
  /\ sent <= Len(EncodeAll(program))
  /\ Told(Main, Unwritten, lists, Now, program)
  /\ ~writing => lists = <<>> /\ consumed = 0 /\ ~Decodable

\* The outermost decoder's data once Rest is left of the innermost's.
MainAfter == IF lists = <<>> THEN Rest ELSE Main

\* What the decoders have before them when the call c is consumed.
CallTold(c) ==
  LET address == Aligned(c.address)
      size == Aligned(c.size)
  IN Told(MainAfter, Unwritten,
          IF Enterable(address, size) THEN Append(ListsAfter, Resolved(address, size)) ELSE ListsAfter,
          Now, program)

LEMMA DataIsOnTop ==
  ASSUME GxTypeOK, NEW n, n = Len(lists)
  PROVE  /\ Data = IF n = 0 THEN Main ELSE lists[n]
         /\ n = 0 <=> lists = <<>>
         /\ n = m_display_list_depth /\ n \in 0..MaxDisplayListDepth
<1>1. lists \in Seq(Seq(Units)) /\ m_display_list_depth = Len(lists) /\ m_display_list_depth <= MaxDisplayListDepth
  BY DEF GxTypeOK
<1>2. n \in Nat /\ (n = 0 <=> lists = <<>>)
  BY <1>1
<1>3. n \in 0..MaxDisplayListDepth
  BY <1>1, <1>2, DepthAssumption
<1>4. lists = <<>> => Data = Main
  BY DEF Data, Main
<1>5. lists # <<>> => Data = lists[n]
  BY DataTyped
<1>6. QED
  BY <1>1, <1>2, <1>3, <1>4, <1>5

\* The frame on top, with ListsAfter and MainAfter.
LEMMA AfterIsOnTop ==
  ASSUME GxTypeOK, Decodable, NEW n, n = Len(lists)
  PROVE  /\ SameBelow(ListsAfter, lists)
         /\ n # 0 => MainAfter = Main
         /\ Rest = IF n = 0 THEN MainAfter ELSE ListsAfter[n]
<1>1. n = 0 <=> lists = <<>>
  BY DataIsOnTop
<1>2. QED
  BY <1>1, ListsAfterTyped DEF MainAfter, SameBelow

LEMMA CommandIsDone ==
  ASSUME SyncInv, Decodable
  PROVE  \E c \in Command, rest \in Seq(Units) :
           /\ Data = Cat(Encode(c), rest)
           /\ c.op # "nop" => CommandSize(Data) = Len(Encode(c))
           /\ c.op # "call" => Told(MainAfter, Unwritten, ListsAfter, Apply(Now, c), program)
           /\ c.op = "call" => CallTold(c)
<1> DEFINE n == Len(lists)
           ahead == IF n = 0 THEN Unwritten ELSE <<>>
           left == MaxDisplayListDepth - n
           data == Data
<1>1. GxTypeOK /\ Told(Main, Unwritten, lists, Now, program) /\ regs \in RegsType
  BY DEF SyncInv, GxTypeOK
<1>2. PICK todo \in [Levels -> Seq(Given)], tail \in [Levels -> Seq(Units)],
           cont \in [Levels -> Seq(Plainly)], past \in Seq(Plainly) :
        Account(Main, Unwritten, lists, Now, program, todo, tail, cont, past)
  BY <1>1 DEF Told
<1> DEFINE td == todo[n]
           after == After(cont, n)
           c == td[1]
           rest == SubSeq(data, Len(Encode(c)) + 1, Len(data))
           next == Cat(Inline(Others(td), Inlined[left]), after)
<1>3. /\ data = IF n = 0 THEN Main ELSE lists[n]
      /\ n = m_display_list_depth /\ n \in 0..MaxDisplayListDepth
  BY <1>1, DataIsOnTop
<1>4. Tells(data, ahead, td, tail[n], cont[n], after, left, past, Now, program)
  <2>1. Tells(IF n = 0 THEN Main ELSE lists[n], ahead, td, tail[n], cont[n], after, left, past, Now, program)
    BY <1>2, AccountTells
  <2>2. QED
    BY <1>3, <2>1
<1>5. /\ SameBelow(ListsAfter, lists)
      /\ n # 0 => MainAfter = Main
      /\ Rest = IF n = 0 THEN MainAfter ELSE ListsAfter[n]
  BY <1>1, AfterIsOnTop
<1>6. n = Len(lists) /\ data = Data /\ td = todo[n] /\ after = After(cont, n) /\ left = MaxDisplayListDepth - n
      /\ ahead = IF n = 0 THEN Unwritten ELSE <<>>
  OBVIOUS
<1>7. data # <<>> /\ CommandSize(data) > 0 /\ Now.regs = regs /\ Rest = SubSeq(data, CommandSize(data) + 1, Len(data))
  BY DEF Decodable, Now, Rest
<1> HIDE DEF n, data, td, after, left, ahead
<1>8. Frame(data, ahead, td, tail[n], cont[n], after, left) /\ td \in Seq(Given) /\ data \in Seq(Units)
  BY <1>4 DEF Tells, Frame
<1>9. td # <<>> => VerticesOf(td[1], regs)
  <2>1. td # <<>> => VerticesOf(td[1], Now.regs)
    BY <1>4, VerticesFit
  <2>2. QED
    BY <1>7, <2>1
<1>10. td # <<>> /\ data = Cat(Encode(c), rest) /\ rest \in Seq(Units)
  BY <1>1, <1>7, <1>8, <1>9, TopCommand
<1>11. c \in Command /\ c \in Given /\ VerticesOf(c, regs)
  BY <1>8, <1>9, <1>10, TodoParts
<1>12. Ends(Others(td), td)
  BY <1>8, <1>10, TodoParts DEF Ends
<1>13. c = td[1]
  OBVIOUS
<1> HIDE DEF c, rest
<1>14. c.op # "nop" => CommandSize(data) = Len(Encode(c))
  BY <1>1, <1>10, <1>11, WholeDecodes
<1>15. c.op # "nop" => Rest = rest
  <2>1. SubSeq(data, Len(Encode(c)) + 1, Len(data)) = rest
    BY DEF rest
  <2>2. QED
    BY <1>7, <1>14, <2>1
<1>16. ASSUME NEW td2, NEW next2, NEW more, NEW s2,
              Tells(Rest, ahead, td2, tail[n], next2, after, left, more, s2, program),
              Ends(td2, td)
       PROVE  Told(MainAfter, Unwritten, ListsAfter, s2, program)
  <2>1. Tells(IF n = 0 THEN MainAfter ELSE ListsAfter[n], IF n = 0 THEN Unwritten ELSE <<>>, td2, tail[n],
              next2, After(cont, n), MaxDisplayListDepth - n, more, s2, program)
    BY <1>5, <1>6, <1>16
  <2>2. Ends(td2, todo[n])
    BY <1>6, <1>16
  <2>3. QED
    BY <1>2, <1>5, <1>6, <2>1, <2>2, AccountAdvances
<1>17. CASE c.op \notin {"nop", "call"}
  <2>1. Tells(rest, ahead, Others(td), tail[n], next, after, left, Append(past, td[1]), Apply(Now, td[1]), program)
    BY <1>4, <1>10, <1>13, <1>17, PlainIsDone
  <2>2. Told(MainAfter, Unwritten, ListsAfter, Apply(Now, c), program)
    BY <1>12, <1>13, <1>15, <1>16, <1>17, <2>1
  <2>3. QED
    BY <1>6, <1>10, <1>11, <1>14, <1>17, <2>2
<1>18. CASE c.op = "nop"
  <2> DEFINE k == CommandSize(data)
  <2>1. data[1] = Nop
    <3>1. data[1] = Encode(c)[1]
      BY <1>1, <1>10, <1>11, WholeDecodes
    <3>2. QED
      BY <1>11, <1>18, <3>1, FirstUnit
  <2>2. k = NopRun(data) /\ k \in 0..Len(data)
    <3>1. CommandSize(data) = NopRun(data) /\ NopRun(data) \in 1..Len(data)
      BY <1>7, <1>8, <2>1, NopIsDecodable
    <3>2. QED
      BY <3>1
  <2>3. \A i \in 1..k : data[i] = Nop
    BY <1>7, <1>8, <2>1, <2>2, NopRunIsSound
  <2>4. Rest = SubSeq(data, k + 1, Len(data))
    BY <1>7
  <2> HIDE DEF k
  <2>5. NopsDone(data, ahead, td, tail[n], after, left, Now, program, k)
    BY <1>1, <1>4, <1>7, <2>2, <2>3, NopsAreDone
  <2>6. PICK td2 \in Seq(Given), next2 \in Seq(Plainly), more \in Seq(Plainly) :
          /\ Tells(Rest, ahead, td2, tail[n], next2, after, left, more, Now, program)
          /\ Ends(td2, td)
    BY <2>4, <2>5 DEF NopsDone, Ends
  <2>7. Told(MainAfter, Unwritten, ListsAfter, Now, program)
    BY <1>16, <2>6
  <2>8. Apply(Now, c) = Now
    BY <1>18 DEF Apply
  <2>9. QED
    BY <1>6, <1>10, <1>11, <1>18, <2>7, <2>8
<1>19. CASE c.op = "call"
  <2> DEFINE address == Aligned(c.address)
             size == Aligned(c.size)
             units == Resolved(address, size)
  <2>1. Enterable(address, size) <=> units # <<>> /\ left # 0
    <3>1. m_display_list_depth < MaxDisplayListDepth <=> left # 0
      BY <1>3, <1>6, DepthAssumption
    <3>2. QED
      BY <3>1 DEF Enterable
  <2>2. CASE units # <<>> /\ left # 0
    <3>1. Frame(rest, ahead, Others(td), tail[n], next, after, left)
      BY <1>8, <1>10, <1>13, FrameAdvances
    <3>2. \E w \in Seq(Given), tl \in Seq(Units) : Frame(units, <<>>, w, tl, cont[n], next, left - 1)
      BY <1>8, <1>10, <1>13, <1>19, <2>2, CallIsEntered
    <3>3. PICK w \in Seq(Given), tl \in Seq(Units) : Frame(units, <<>>, w, tl, cont[n], next, left - 1)
      BY <3>2
    <3> HIDE DEF next, units, address, size
    <3>4. Frame(IF n = 0 THEN MainAfter ELSE ListsAfter[n], IF n = 0 THEN Unwritten ELSE <<>>, Others(td),
                tail[n], next, IF n = 0 THEN <<>> ELSE cont[n - 1], MaxDisplayListDepth - n)
      BY <1>5, <1>6, <1>15, <1>19, <3>1 DEF After
    <3>5. Frame(units, <<>>, w, tl, cont[n], next, MaxDisplayListDepth - n - 1)
      BY <1>6, <3>3
    <3>6. Ends(Others(td), todo[n])
      BY <1>6, <1>12
    <3>7. n < MaxDisplayListDepth
      BY <1>3, <1>6, <2>2, DepthAssumption
    <3>8. Told(MainAfter, Unwritten, Append(ListsAfter, units), Now, program)
      BY <1>2, <1>5, <1>6, <3>4, <3>5, <3>6, <3>7, AccountEnters
    <3>9. CallTold(c)
      BY <2>1, <2>2, <3>8 DEF CallTold, units, address, size
    <3>10. QED
      BY <1>6, <1>10, <1>11, <1>14, <1>19, <3>9
  <2>3. CASE ~(units # <<>> /\ left # 0)
    <3>1. Tells(rest, ahead, Others(td), tail[n], next, after, left, past, Now, program)
      BY <1>4, <1>10, <1>13, <1>19, <2>3, EmptyCallIsDone
    <3>2. Told(MainAfter, Unwritten, ListsAfter, Now, program)
      BY <1>12, <1>15, <1>16, <1>19, <3>1
    <3>3. CallTold(c)
      BY <2>1, <2>3, <3>2 DEF CallTold
    <3>4. QED
      BY <1>6, <1>10, <1>11, <1>14, <1>19, <3>3
  <2>4. QED
    BY <2>2, <2>3
<1>20. QED
  BY <1>17, <1>18, <1>19

-----------------------------------------------------------------------------
(* Parts of sequences the steps cut out.                                   *)

LEMMA TailOf ==
  ASSUME NEW T, NEW s \in Seq(T), NEW i \in 0..Len(s), NEW r, r = SubSeq(s, i + 1, Len(s))
  PROVE  r \in Seq(T) /\ Len(r) = Len(s) - i /\ \A j \in 1..(Len(s) - i) : r[j] = s[j + i]
<1> DEFINE n == Len(s)
<1>1. n \in Nat /\ i \in 0..n /\ r = SubSeq(s, i + 1, n) /\ n = Len(s)
  OBVIOUS
<1> HIDE DEF n
<1>2. i + 1 \in 1..(Len(s) + 1)
  BY <1>1
<1>3. r \in Seq(T) /\ Len(r) = n - i /\ \A j \in 1..(n - i) : r[j] = s[j + i]
  BY <1>1, <1>2
<1>4. QED
  BY <1>3 DEF n

LEMMA SubOfSub ==
  ASSUME NEW T, NEW s \in Seq(T), NEW i \in 0..Len(s), NEW d, d = SubSeq(s, i + 1, Len(s)),
         NEW k \in 0..Len(d)
  PROVE  SubSeq(d, k + 1, Len(d)) = SubSeq(s, i + k + 1, Len(s))
<1> DEFINE n == Len(s)
           l == i + k
           r == SubSeq(d, k + 1, Len(d))
           t == SubSeq(s, l + 1, n)
<1>1. n \in Nat /\ i \in 0..n /\ d \in Seq(T) /\ Len(d) = n - i /\ \A j \in 1..(n - i) : d[j] = s[j + i]
  BY TailOf
<1>2. r \in Seq(T) /\ Len(r) = Len(d) - k /\ \A j \in 1..(Len(d) - k) : r[j] = d[j + k]
  BY <1>1, TailOf
<1>3. k \in 0..(n - i)
  BY <1>1
<1>4. l \in 0..n /\ l + 1 = i + k + 1 /\ l = i + k
  <2> HIDE DEF n
  <2>1. QED
    BY <1>1, <1>3
<1> HIDE DEF l, r
<1>5. t \in Seq(T) /\ Len(t) = n - l /\ \A j \in 1..(n - l) : t[j] = s[j + l]
  BY <1>4, TailOf
<1> HIDE DEF n, t
<1> DEFINE z == n - l
<1>6. z = n - i - k /\ z \in Nat /\ Len(r) = z /\ Len(t) = z
  BY <1>1, <1>2, <1>3, <1>4, <1>5
<1>7. ASSUME NEW j \in 1..z PROVE r[j] = t[j]
  <2>1. j \in 1..(n - i - k) /\ j + k \in 1..(n - i) /\ j + k + i = j + l /\ j \in 1..(Len(d) - k)
    BY <1>1, <1>3, <1>4, <1>6
  <2>2. r[j] = d[j + k]
    BY <1>2, <2>1
  <2>3. d[j + k] = s[j + k + i]
    BY <1>1, <2>1
  <2>4. t[j] = s[j + l]
    BY <1>5
  <2>5. QED
    BY <2>1, <2>2, <2>3, <2>4
<1> HIDE DEF z
<1>8. r = t
  BY <1>2, <1>5, <1>6, <1>7
<1>9. QED
  BY <1>4, <1>8 DEF r, t, n

\* What lies behind a beginning.
LEMMA BehindHead ==
  ASSUME NEW T, NEW s \in Seq(T), NEW b \in Seq(T), NEW n \in Nat, n + Len(b) <= Len(s),
         \A i \in 1..Len(b) : s[i + n] = b[i]
  PROVE  SubSeq(s, n + 1, n + Len(b)) = b
<1> DEFINE m == Len(b)
           r == SubSeq(s, n + 1, n + m)
<1>1. m \in Nat /\ Len(s) \in Nat /\ n + m <= Len(s)
  OBVIOUS
<1>2. r \in Seq(T) /\ Len(r) = m /\ \A i \in 1..m : r[i] = s[i + n]
  <2> HIDE DEF m
  <2>1. n + 1 \in 1..(Len(s) + 1) /\ n + m \in n..Len(s)
    BY <1>1
  <2>2. QED
    BY <1>1, <2>1
<1>3. \A i \in 1..m : r[i] = b[i]
  BY <1>2
<1> HIDE DEF r
<1>4. r = b
  BY <1>2, <1>3
<1>5. QED
  BY <1>4 DEF r

LEMMA CatMiddle ==
  ASSUME NEW T, NEW a \in Seq(T), NEW b \in Seq(T), NEW c \in Seq(T)
  PROVE  SubSeq(Cat(a, Cat(b, c)), Len(a) + 1, Len(a) + Len(b)) = b
<1> DEFINE bc == Cat(b, c)
           s == a \o bc
           n == Len(a)
           m == Len(b)
           k == Len(c)
<1>1. bc \in Seq(T) /\ Len(bc) = m + k
  BY CatTyped
<1>2. \A i \in 1..m : bc[i] = b[i]
  <2>1. Begins(b, bc)
    BY CatBegins
  <2>2. m \in Nat /\ k \in Nat
    OBVIOUS
  <2> HIDE DEF bc, m, k
  <2>3. \A i \in 1..m : i <= Len(bc)
    BY <1>1, <2>2
  <2>4. QED
    BY <2>1, <2>3 DEF Begins, m
<1> HIDE DEF bc
<1>3. s \in Seq(T) /\ Len(s) = n + Len(bc) /\ \A i \in 1..(n + Len(bc)) : s[i] = IF i <= n THEN a[i] ELSE bc[i - n]
  <2>1. bc \in Seq(T)
    BY <1>1
  <2>2. QED
    BY <2>1, ConcatProperties
<1>4. n \in Nat /\ m \in Nat /\ k \in Nat
  OBVIOUS
<1> HIDE DEF s, n, m, k
<1>5. n + m <= Len(s)
  BY <1>1, <1>3, <1>4
<1>6. \A i \in 1..m : s[i + n] = b[i]
  <2>2. ASSUME NEW i \in 1..m PROVE s[i + n] = bc[i]
    <3> DEFINE j == i + n
    <3>1. j \in 1..(n + Len(bc)) /\ ~(j <= n) /\ j - n = i
      BY <1>1, <1>4
    <3> HIDE DEF j
    <3>2. s[j] = bc[j - n]
      BY <1>3, <3>1
    <3>3. QED
      BY <3>1, <3>2 DEF j
  <2>3. QED
    BY <1>2, <2>2
<1>7. SubSeq(s, n + 1, n + m) = b
  BY <1>3, <1>4, <1>5, <1>6, BehindHead DEF m
<1>8. QED
  BY <1>7 DEF s, n, m, bc, Cat

\* More commands have more units.
LEMMA PrefixesGrow ==
  ASSUME NEW cs \in Seq(Given), NEW j \in 0..Len(cs), NEW i \in 0..j
  PROVE  Len(EncodeAll(SubSeq(cs, 1, i))) <= Len(EncodeAll(SubSeq(cs, 1, j)))
<1> DEFINE s == SubSeq(cs, 1, j)
           f == SubSeq(s, 1, i)
           r == SubSeq(s, i + 1, Len(s))
<1>1. s \in Seq(Given) /\ Len(s) = j
  BY CutInTwo
<1>2. f = SubSeq(cs, 1, i)
  <2>1. Len(cs) \in Nat /\ j \in Nat /\ i \in Nat /\ i <= j /\ j <= Len(cs)
    OBVIOUS
  <2>2. f \in Seq(Given) /\ Len(f) = i /\ \A k \in 1..i : f[k] = cs[k]
    <3>1. \A k \in 1..j : s[k] = cs[k]
      BY <2>1
    <3> HIDE DEF s
    <3>2. f \in Seq(Given) /\ Len(f) = i /\ \A k \in 1..i : f[k] = s[k]
      BY <1>1, <2>1
    <3>3. \A k \in 1..i : k \in 1..j
      BY <2>1
    <3>4. QED
      BY <3>1, <3>2, <3>3
  <2>3. /\ SubSeq(cs, 1, i) \in Seq(Given) /\ Len(SubSeq(cs, 1, i)) = i
        /\ \A k \in 1..i : SubSeq(cs, 1, i)[k] = cs[k]
    BY <2>1
  <2> HIDE DEF f
  <2> DEFINE g == SubSeq(cs, 1, i)
  <2> HIDE DEF g
  <2>4. g \in Seq(Given) /\ Len(g) = i /\ \A k \in 1..i : g[k] = cs[k]
    BY <2>3 DEF g
  <2>5. f = g
    BY <2>2, <2>4
  <2>6. QED
    BY <2>5 DEF g
<1> HIDE DEF s
<1>3. f \in Seq(Given) /\ r \in Seq(Given) /\ s = Cat(f, r)
  BY <1>1, CutInTwo, CatCut
<1> HIDE DEF f, r
<1>4. EncodeAll(Cat(f, r)) = Cat(EncodeAll(f), EncodeAll(r)) /\ EncodeAll(f) \in Seq(Units) /\ EncodeAll(r) \in Seq(Units)
  BY <1>3, EncodeAllCat
<1> DEFINE ef == EncodeAll(f)
           er == EncodeAll(r)
<1>5. ef \in Seq(Units) /\ er \in Seq(Units) /\ EncodeAll(s) = Cat(ef, er)
  BY <1>3, <1>4
<1> HIDE DEF ef, er
<1>6. Len(Cat(ef, er)) = Len(ef) + Len(er)
  BY <1>5, CatTyped
<1>7. Len(ef) <= Len(EncodeAll(s))
  <2> DEFINE a == Len(ef)
             b == Len(er)
  <2>1. a \in Nat /\ b \in Nat /\ Len(EncodeAll(s)) = a + b
    BY <1>5, <1>6
  <2> HIDE DEF a, b
  <2>2. a <= Len(EncodeAll(s))
    BY <2>1
  <2>3. QED
    BY <2>2 DEF a
<1>8. QED
  BY <1>2, <1>7 DEF ef, s

\* The whole commands are those whose next has not all its units.
LEMMA WholeIs ==
  ASSUME NEW p \in Seq(Given), NEW done \in Seq(Given), NEW td \in Seq(Given), p = Cat(done, td),
         NEW units \in Nat, Len(EncodeAll(done)) <= units,
         td # <<>> => ~(Len(EncodeAll(done)) + Len(Encode(td[1])) <= units)
  PROVE  WholeCommands(p, units) = done
<1> DEFINE w == WholeCommands(p, units)
           n == Len(done)
<1>1. /\ w \in Seq(Given) /\ Len(w) \in 0..Len(p) /\ w = SubSeq(p, 1, Len(w))
      /\ Len(EncodeAll(w)) <= units
      /\ \A i \in 0..Len(p) : Len(EncodeAll(SubSeq(p, 1, i))) <= units => i <= Len(w)
  BY WholeCommandsFit
<1> HIDE DEF w
<1>2. Len(p) = n + Len(td) /\ n \in Nat /\ Len(td) \in Nat /\ n \in 0..Len(p)
  <2>1. Len(p) = n + Len(td)
    BY CatTyped
  <2>2. n \in Nat /\ Len(td) \in Nat
    OBVIOUS
  <2> HIDE DEF n
  <2>3. n \in 0..Len(p)
    BY <2>1, <2>2
  <2>4. QED
    BY <2>1, <2>2, <2>3
<1>3. SubSeq(p, 1, n) = done
  <2> DEFINE f == SubSeq(p, 1, n)
             r == SubSeq(p, n + 1, Len(p))
  <2>0. n = Len(done)
    OBVIOUS
  <2> HIDE DEF n
  <2>1. f \in Seq(Given) /\ Len(f) = n /\ r \in Seq(Given)
    BY <1>2, CutInTwo
  <2>2. p = Cat(f, r)
    BY <1>2, CatCut
  <2> HIDE DEF f, r
  <2>3. Cat(f, r) = Cat(done, td) /\ Len(f) = Len(done)
    BY <2>0, <2>1, <2>2
  <2>4. f = done
    BY <2>1, <2>3, CatSame
  <2>5. QED
    BY <2>4 DEF f
<1>4. n <= Len(w)
  BY <1>1, <1>2, <1>3
<1>5. ~(n < Len(w))
  <2> SUFFICES ASSUME n < Len(w) PROVE FALSE
    OBVIOUS
  <2>1. td # <<>>
    <3> SUFFICES ASSUME td = <<>> PROVE FALSE
      OBVIOUS
    <3>1. Len(td) = 0
      OBVIOUS
    <3> HIDE DEF n
    <3>2. QED
      BY <1>1, <1>2, <3>1
  <2> DEFINE c == td[1]
             one == <<c>>
             m == n + 1
             ed == EncodeAll(done)
             s == Encode(c)
  <2>2. c \in Given /\ c \in Command /\ s \in Seq(Units)
    BY <2>1, TodoParts
  <2>3. SubSeq(p, 1, m) = Append(done, c)
    <3>1. td = SubSeq(p, n + 1, Len(p))
      <4> DEFINE f == SubSeq(p, 1, n)
                 r == SubSeq(p, n + 1, Len(p))
      <4>0. n = Len(done)
        OBVIOUS
      <4> HIDE DEF n
      <4>1. f \in Seq(Given) /\ Len(f) = n /\ r \in Seq(Given)
        BY <1>2, CutInTwo
      <4>2. p = Cat(f, r)
        BY <1>2, CatCut
      <4> HIDE DEF f, r
      <4>3. Cat(f, r) = Cat(done, td) /\ Len(f) = Len(done)
        BY <4>0, <4>1, <4>2
      <4>4. r = td
        BY <4>1, <4>3, CatSame
      <4>5. QED
        BY <4>4 DEF r
    <3> HIDE DEF n
    <3>2. SubSeq(p, 1, n + 1) = Append(SubSeq(p, 1, n), td[1])
      BY <1>2, <2>1, <3>1, NextPrefix
    <3>3. QED
      BY <1>3, <3>2
  <2>4. Len(EncodeAll(SubSeq(p, 1, m))) = Len(ed) + Len(s)
    <3>1. one \in Seq(Given) /\ Append(done, c) = Cat(done, one)
      BY <2>2, AppendProperties DEF Cat
    <3>2. EncodeAll(one) = s
      BY <2>2, EncodeAllParts
    <3> HIDE DEF one
    <3>3. EncodeAll(Cat(done, one)) = Cat(EncodeAll(done), EncodeAll(one)) /\ EncodeAll(done) \in Seq(Units)
      BY <3>1, EncodeAllCat
    <3> HIDE DEF s, c, ed
    <3>4. Len(Cat(ed, s)) = Len(ed) + Len(s)
      BY <2>2, <3>3, CatTyped DEF ed
    <3>5. QED
      BY <2>3, <3>1, <3>2, <3>3, <3>4 DEF ed
  <2>5. Len(EncodeAll(SubSeq(p, 1, m))) <= Len(EncodeAll(SubSeq(p, 1, Len(w))))
    <3>1. Len(w) \in 0..Len(p) /\ m \in 0..Len(w)
      <4> HIDE DEF n
      <4>1. QED
        BY <1>1, <1>2
    <3>2. QED
      BY <3>1, PrefixesGrow
  <2>6. ~(Len(ed) + Len(s) <= units)
    BY <2>1
  <2>7. Len(ed) \in Nat /\ Len(s) \in Nat /\ Len(EncodeAll(w)) \in Nat
    <3>1. ed \in Seq(Units) /\ EncodeAll(w) \in Seq(Units)
      BY <1>1, EncodeAllCat
    <3>2. QED
      BY <2>2, <3>1
  <2> HIDE DEF ed, s
  <2>8. Len(ed) + Len(s) <= Len(EncodeAll(w))
    BY <1>1, <2>4, <2>5
  <2>9. QED
    BY <1>1, <2>6, <2>7, <2>8
<1>6. Len(w) = n
  <2> HIDE DEF n
  <2>1. Len(w) \in Nat
    BY <1>1
  <2>2. QED
    BY <1>2, <1>4, <1>5, <2>1
<1>7. QED
  BY <1>1, <1>3, <1>6 DEF w

-----------------------------------------------------------------------------
(* What each handler makes of a command.                                   *)

\* c is the command before the innermost decoder.
Reading(c) ==
  /\ c \in Command
  /\ Data \in Seq(Units)
  /\ Len(Encode(c)) <= Len(Data)
  /\ \A i \in 1..Len(Encode(c)) : Data[i] = Encode(c)[i]
  /\ c.op # "nop" => CommandSize(Data) = Len(Encode(c))

LEMMA ReadingOf ==
  ASSUME NEW c \in Command, NEW rest \in Seq(Units), Data = Cat(Encode(c), rest),
         c.op # "nop" => CommandSize(Data) = Len(Encode(c))
  PROVE  Reading(c)
<1> DEFINE s == Encode(c)
           data == Data
<1>1. s \in Seq(Units) /\ data = Cat(s, rest)
  BY EncodeTyped
<1> HIDE DEF s, data
<1>2. Cat(s, rest) \in Seq(Units) /\ Len(Cat(s, rest)) = Len(s) + Len(rest) /\ Begins(s, Cat(s, rest))
  BY <1>1, CatTyped, CatBegins
<1>3. data \in Seq(Units) /\ Len(data) = Len(s) + Len(rest) /\ Begins(s, data)
  BY <1>1, <1>2
<1>4. Len(s) \in Nat /\ Len(rest) \in Nat
  BY <1>1
<1>5. Len(s) <= Len(data) /\ \A i \in 1..Len(s) : i <= Len(data)
  BY <1>3, <1>4
<1>6. \A i \in 1..Len(s) : data[i] = s[i]
  BY <1>3, <1>5 DEF Begins
<1>7. QED
  BY <1>3, <1>5, <1>6 DEF Reading, s, data

LEMMA ReadingFirst ==
  ASSUME NEW c, Reading(c)
  PROVE  Head(Data) = Encode(c)[1] /\ Data[1] = Encode(c)[1]
<1>1. Len(Encode(c)) \in Nat \ {0} /\ c \in Command
  BY EncodeTyped DEF Reading
<1>2. 1 \in 1..Len(Encode(c))
  BY <1>1
<1>3. Data[1] = Encode(c)[1]
  BY <1>2 DEF Reading
<1>4. Head(Data) = Data[1]
  BY DEF Reading
<1>5. QED
  BY <1>3, <1>4

\* Reading says what the handler's first guard says.
LEMMA ReadingOp ==
  ASSUME NEW c, Reading(c), NEW first, first = Head(Data)
  PROVE  /\ c \in Command
         /\ c.op = "nop" <=> first = Nop
         /\ c.op = "metrics" <=> first = MetricsOp
         /\ c.op = "invalidate" <=> first = InvalidateOp
         /\ c.op = "cp" <=> first = LoadCpOp
         /\ c.op = "bp" <=> first = LoadBpOp
         /\ c.op = "xf" <=> first = LoadXfOp
         /\ c.op = "call" <=> first = CallOp
         /\ c.op = "indexed" <=> first \in IndexedOps
         /\ c.op = "draw" <=> first \in DrawOps
         /\ c.op = "unknown" <=> first \notin KnownOps
<1>1. c \in Command
  BY DEF Reading
<1>2. first = Encode(c)[1]
  BY ReadingFirst
<1>3. QED
  BY <1>1, <1>2, FirstUnit

NowNext == [regs |-> regs', backend |-> backend', unknown |-> m_unknown_opcode_count']

LEMMA NopApplies ==
  ASSUME NEW c, Reading(c), DecodeNop
  PROVE  c.op # "call" /\ NowNext = Apply(Now, c)
<1>1. Head(Data) \in {Nop, MetricsOp}
  BY DEF DecodeNop, AtCommand
<1>2. c.op \in {"nop", "metrics"}
  BY <1>1, ReadingOp
<1>3. NowNext = Now
  BY DEF DecodeNop, NowNext, Now
<1>4. QED
  BY <1>2, <1>3 DEF Apply

LEMMA InvalidateApplies ==
  ASSUME NEW c, Reading(c), DecodeInvalidate
  PROVE  c.op # "call" /\ NowNext = Apply(Now, c)
<1>1. c.op = "invalidate"
  BY ReadingOp DEF DecodeInvalidate, AtCommand
<1>2. Apply(Now, c) = [Now EXCEPT !.backend = InvalidateVertexCache(@)]
  BY <1>1 DEF Apply
<1>3. QED
  BY <1>1, <1>2 DEF DecodeInvalidate, NowNext, Now

LEMMA LoadCpApplies ==
  ASSUME NEW c, Reading(c), DecodeLoadCp
  PROVE  c.op # "call" /\ NowNext = Apply(Now, c)
<1>1. c.op = "cp" /\ c \in Command
  BY ReadingOp DEF DecodeLoadCp, AtCommand
<1>2. Data[2] = c.register /\ Data[3] = c.value
  <2>1. Len(Encode(c)) = 3 /\ Encode(c)[2] = c.register /\ Encode(c)[3] = c.value
    BY <1>1, UnitsOfThree
  <2>2. QED
    BY <2>1 DEF Reading
<1>3. Apply(Now, c) = [Now EXCEPT !.regs = LoadCp(@, c.register, c.value),
                                  !.backend = LoadCpRegister(@, c.register, c.value)]
  BY <1>1 DEF Apply
<1>4. regs' = LoadCp(regs, c.register, c.value) /\ backend' = LoadCpRegister(backend, c.register, c.value)
      /\ m_unknown_opcode_count' = m_unknown_opcode_count
  BY <1>2 DEF DecodeLoadCp
<1>5. QED
  BY <1>1, <1>3, <1>4 DEF NowNext, Now

LEMMA LoadBpApplies ==
  ASSUME NEW c, Reading(c), DecodeLoadBp
  PROVE  c.op # "call" /\ NowNext = Apply(Now, c)
<1>1. c.op = "bp" /\ c \in Command
  BY ReadingOp DEF DecodeLoadBp, AtCommand
<1>2. Data[2] = c.register /\ Data[3] = c.value
  <2>1. Len(Encode(c)) = 3 /\ Encode(c)[2] = c.register /\ Encode(c)[3] = c.value
    BY <1>1, UnitsOfThree
  <2>2. QED
    BY <2>1 DEF Reading
<1>3. Apply(Now, c) = [Now EXCEPT !.backend = LoadBpRegister(@, c.register, c.value)]
  BY <1>1 DEF Apply
<1>4. backend' = LoadBpRegister(backend, c.register, c.value)
      /\ regs' = regs /\ m_unknown_opcode_count' = m_unknown_opcode_count
  BY <1>2 DEF DecodeLoadBp
<1>5. QED
  BY <1>1, <1>3, <1>4 DEF NowNext, Now

LEMMA LoadXfApplies ==
  ASSUME NEW c, Reading(c), DecodeLoadXf
  PROVE  c.op # "call" /\ NowNext = Apply(Now, c)
<1> DEFINE values == c.values
           k == Len(values)
           s == Encode(c)
<1>1. c.op = "xf" /\ c \in Command
  BY ReadingOp DEF DecodeLoadXf, AtCommand
<1>2. /\ Len(s) = 3 + k /\ s[2] = k - 1 /\ s[3] = c.address
      /\ \A i \in 1..k : s[i + 3] = values[i]
      /\ values \in Seq(Units) /\ k \in 1..16
  BY <1>1, UnitsOfXf
<1>3. /\ Data \in Seq(Units) /\ Len(s) <= Len(Data) /\ \A i \in 1..Len(s) : Data[i] = s[i]
  BY DEF Reading
<1>4. k = Len(values)
  OBVIOUS
<1> HIDE DEF s, values, k
<1> DEFINE data == Data
<1>5. data \in Seq(Units) /\ Len(s) <= Len(data) /\ \A i \in 1..Len(s) : data[i] = s[i]
  BY <1>3
<1> HIDE DEF data
<1>6. data[2] = k - 1 /\ data[3] = c.address
  BY <1>2, <1>5
<1>7. SubSeq(data, 3 + 1, 3 + k) = values
  <2>1. 3 + k <= Len(data) /\ 3 \in Nat
    BY <1>2, <1>5
  <2>2. \A i \in 1..k : i + 3 \in 1..(3 + k)
    BY <1>2
  <2>3. \A i \in 1..k : data[i + 3] = values[i]
    BY <1>2, <1>5, <2>2
  <2>4. QED
    BY <1>2, <1>4, <1>5, <2>1, <2>3, BehindHead
<1>8. 3 + 1 = 4 /\ k - 1 + 4 = 3 + k
  BY <1>2
<1>9. SubSeq(data, 4, data[2] + 4) = values
  BY <1>6, <1>7, <1>8
<1>10. Apply(Now, c) = [Now EXCEPT !.backend = LoadXfRegisters(@, c.address, c.values)]
  BY <1>1 DEF Apply
<1>11. backend' = LoadXfRegisters(backend, c.address, c.values)
       /\ regs' = regs /\ m_unknown_opcode_count' = m_unknown_opcode_count
  BY <1>6, <1>9 DEF DecodeLoadXf, data, values
<1>12. QED
  BY <1>1, <1>10, <1>11 DEF NowNext, Now

LEMMA HeaderSplits ==
  ASSUME NEW size \in 1..16, NEW address \in XfAddress
  PROVE  /\ ((size - 1) * 4096 + address) % 4096 = address
         /\ ((size - 1) * 4096 + address) \div 4096 + 1 = size
BY SMT DEF XfAddress

LEMMA IndexedApplies ==
  ASSUME NEW c, Reading(c), DecodeIndexedXf
  PROVE  c.op # "call" /\ NowNext = Apply(Now, c)
<1> DEFINE array == c.array
           size == c.size
           address == c.address
           header == (size - 1) * 4096 + address
           s == Encode(c)
<1>1. c.op = "indexed" /\ c \in Command
  BY ReadingOp DEF DecodeIndexedXf, AtCommand
<1>2. Len(s) = 3 /\ s[1] = (array - 8) * 8 /\ s[2] = c.index /\ s[3] = header
  BY <1>1, UnitsOfThree
<1>3. array \in 12..15 /\ address \in XfAddress /\ size \in 1..16
  BY <1>1, CommandCases
<1>4. header % 4096 = address /\ header \div 4096 + 1 = size
  BY <1>3, HeaderSplits
<1> HIDE DEF header, s
<1>5. \A i \in 1..Len(s) : Data[i] = s[i]
  BY DEF Reading, s
<1>6. Data[1] = (array - 8) * 8 /\ Data[2] = c.index /\ Data[3] = header
  BY <1>2, <1>5
<1> HIDE DEF array, size, address
<1>7. ((array - 8) * 8) \div 8 + 8 = array
  BY <1>3
<1>8. DecodeIndexedXf => /\ backend' = LoadIndexedXf(backend, Data[1] \div 8 + 8, Data[2],
                                                     Data[3] % 4096, Data[3] \div 4096 + 1)
                         /\ regs' = regs /\ m_unknown_opcode_count' = m_unknown_opcode_count
  BY DEF DecodeIndexedXf
<1>9. backend' = LoadIndexedXf(backend, array, c.index, address, size)
       /\ regs' = regs /\ m_unknown_opcode_count' = m_unknown_opcode_count
  BY <1>4, <1>6, <1>7, <1>8
<1>10. Apply(Now, c) = [Now EXCEPT !.backend = LoadIndexedXf(@, array, c.index, address, size)]
  BY <1>1 DEF Apply, array, address, size
<1>11. QED
  BY <1>1, <1>9, <1>10 DEF NowNext, Now

LEMMA DrawApplies ==
  ASSUME NEW c, Reading(c), DecodeDraw
  PROVE  c.op # "call" /\ NowNext = Apply(Now, c)
<1> DEFINE data == c.data
           k == Len(data)
           s == Encode(c)
           p == c.primitive
           vat == c.vat
           count == c.count
           d == Data
<1>1. c.op = "draw" /\ c \in Command
  BY ReadingOp DEF DecodeDraw, AtCommand
<1>2. /\ Len(s) = 2 + k /\ s[1] = 128 + 8 * (p - 1) + vat /\ s[2] = count
      /\ \A i \in 1..k : s[i + 2] = data[i]
      /\ data \in Seq(Units) /\ p \in 1..8 /\ vat \in 0..7
  BY <1>1, UnitsOfDraw
<1>3. /\ d \in Seq(Units) /\ Len(s) <= Len(d) /\ \A i \in 1..Len(s) : d[i] = s[i]
      /\ CommandSize(d) = Len(s)
  BY <1>1 DEF Reading
<1>4. k = Len(data) /\ k \in Nat
  BY <1>2
<1> HIDE DEF s, data, k, p, vat, count, d
<1>5. d[1] = 128 + 8 * (p - 1) + vat /\ d[2] = count
  BY <1>2, <1>3, <1>4
<1>6. d[1] % 8 = vat /\ (d[1] % 128) \div 8 + 1 = p
  BY <1>2, <1>5
<1>7. SubSeq(d, 2 + 1, 2 + k) = data
  <2>1. 2 + k <= Len(d) /\ 2 \in Nat
    BY <1>2, <1>3
  <2>2. \A i \in 1..k : i + 2 \in 1..(2 + k)
    BY <1>4
  <2>3. \A i \in 1..k : d[i + 2] = data[i]
    BY <1>2, <1>3, <2>2
  <2>4. QED
    BY <1>2, <1>3, <1>4, <2>1, <2>3, BehindHead
<1>8. SubSeq(d, 3, CommandSize(d)) = data
  BY <1>2, <1>3, <1>7
<1> DEFINE packet == [primitive |-> Primitives[p], vat |-> vat, count |-> count, data |-> data]
<1>9. backend' = Draw(backend, packet) /\ regs' = regs /\ m_unknown_opcode_count' = m_unknown_opcode_count
  <2>1. backend' = Draw(backend, [primitive |-> Primitives[(d[1] % 128) \div 8 + 1],
                                  vat |-> d[1] % 8, count |-> d[2], data |-> SubSeq(d, 3, CommandSize(d))])
    BY DEF DecodeDraw, d
  <2>2. QED
    BY <1>5, <1>6, <1>8, <2>1 DEF DecodeDraw
<1>10. Apply(Now, c) = [Now EXCEPT !.backend = Draw(@, packet)]
  BY <1>1 DEF Apply, p, vat, count, data
<1> HIDE DEF packet
<1>11. QED
  BY <1>1, <1>9, <1>10 DEF NowNext, Now

LEMMA UnknownApplies ==
  ASSUME NEW c, Reading(c), DecodeUnknown
  PROVE  c.op # "call" /\ NowNext = Apply(Now, c)
<1>1. c.op = "unknown"
  BY ReadingOp DEF DecodeUnknown
<1>2. Apply(Now, c) = [Now EXCEPT !.unknown = @ + 1]
  BY <1>1 DEF Apply
<1>3. QED
  BY <1>1, <1>2 DEF DecodeUnknown, NowNext, Now

-----------------------------------------------------------------------------
(* The steps.                                                              *)

LEMMA UnitsAreTyped ==
  ASSUME GxTypeOK
  PROVE  EncodeAll(program) \in Seq(Units) /\ program \in Seq(Given) /\ program \in Programs
<1>1. program \in Programs
  BY DEF GxTypeOK
<1>2. QED
  BY <1>1, GivenCommands, GivenAreCommands

\* With nothing written and nothing decoded, the account is the guest's program.
LEMMA StartsInSync ==
  ASSUME GxTypeOK, sent = 0, m_buffer = <<>>, consumed = 0, lists = <<>>, writing = FALSE,
         regs = InitRegs, backend = InitBackend, m_unknown_opcode_count = 0
  PROVE  SyncInv
<1> DEFINE units == EncodeAll(program)
<1>1. units \in Seq(Units) /\ program \in Programs
  BY UnitsAreTyped
<1>2. Main = <<>> /\ Data = <<>>
  BY DEF Main, Data
<1>3. Unwritten = units
  <2> HIDE DEF units
  <2>1. SubSeq(units, 0 + 1, Len(units)) = units
    BY <1>1, PrefixFacts
  <2>2. QED
    BY <2>1 DEF Unwritten, units
<1>4. Now = [regs |-> InitRegs, backend |-> InitBackend, unknown |-> 0]
  BY DEF Now
<1>5. Told(<<>>, units, <<>>, [regs |-> InitRegs, backend |-> InitBackend, unknown |-> 0], program)
  BY <1>1, AccountStarts
<1>6. Told(Main, Unwritten, lists, Now, program)
  BY <1>2, <1>3, <1>4, <1>5
<1>7. sent <= Len(units)
  BY <1>1
<1>8. QED
  BY <1>2, <1>6, <1>7 DEF SyncInv, Decodable

LEMMA SyncInit == ASSUME Init PROVE SyncInv
<1>1. GxTypeOK
  BY GxInit
<1>2. QED
  BY <1>1, StartsInSync DEF Init

LEMMA SyncReset ==
  ASSUME SyncInv, GxTypeOK', Reset
  PROVE  SyncInv'
<1>1. /\ sent' = 0 /\ m_buffer' = <<>> /\ consumed' = 0 /\ lists' = <<>> /\ writing' = FALSE
      /\ regs' = InitRegs /\ backend' = InitBackend /\ m_unknown_opcode_count' = 0
      /\ program' = program
  BY DEF Reset, SyncInv, GxTypeOK
<1> DEFINE units == EncodeAll(program')
<1>2. units \in Seq(Units) /\ program' \in Programs
  BY <1>1, UnitsAreTyped DEF SyncInv
<1>3. Main' = <<>> /\ Data' = <<>>
  BY <1>1 DEF Main, Data
<1>4. Unwritten' = units
  <2>1. Unwritten' = SubSeq(units, 0 + 1, Len(units))
    BY <1>1 DEF Unwritten
  <2> HIDE DEF units
  <2>2. SubSeq(units, 0 + 1, Len(units)) = units
    BY <1>2, PrefixFacts
  <2>3. QED
    BY <2>1, <2>2
<1>5. Now' = [regs |-> InitRegs, backend |-> InitBackend, unknown |-> 0]
  BY <1>1 DEF Now
<1>6. Told(<<>>, units, <<>>, [regs |-> InitRegs, backend |-> InitBackend, unknown |-> 0], program')
  BY <1>2, AccountStarts
<1>7. Told(Main', Unwritten', lists', Now', program')
  BY <1>1, <1>3, <1>4, <1>5, <1>6
<1>8. sent' <= Len(units)
  BY <1>1, <1>2
<1>9. QED
  BY <1>1, <1>3, <1>7, <1>8 DEF SyncInv, Decodable

\* What is consumed leaves the outermost decoder's data, or nothing of it.
LEMMA ConsumeLeaves ==
  ASSUME GxTypeOK, Decodable, Consume
  PROVE  Main' = MainAfter /\ Unwritten' = Unwritten
<1>1. program' = program /\ sent' = sent /\ m_buffer' = m_buffer
  BY DEF Consume
<1>2. Unwritten' = Unwritten
  BY <1>1 DEF Unwritten
<1>3. CASE lists # <<>>
  <2>1. consumed' = consumed
    BY <1>3 DEF Consume
  <2>2. QED
    BY <1>1, <1>2, <1>3, <2>1 DEF Main, MainAfter
<1>4. CASE lists = <<>>
  <2> DEFINE k == CommandSize(Data)
             d == Data
             s == m_buffer
  <2>1. consumed' = consumed + k /\ d = SubSeq(s, consumed + 1, Len(s)) /\ Rest = SubSeq(d, k + 1, Len(d))
    BY <1>4 DEF Consume, Data, Rest
  <2>2. s \in Seq(Units) /\ consumed \in 0..Len(s)
    BY DEF GxTypeOK
  <2>3. k \in 0..Len(d)
    BY DecodableFits
  <2> HIDE DEF k, d, s
  <2>4. SubSeq(d, k + 1, Len(d)) = SubSeq(s, consumed + k + 1, Len(s))
    BY <2>1, <2>2, <2>3, SubOfSub
  <2>5. Main' = SubSeq(s, consumed + k + 1, Len(s))
    BY <1>1, <2>1 DEF Main, s
  <2>6. QED
    BY <1>2, <1>4, <2>1, <2>4, <2>5 DEF MainAfter
<1>5. QED
  BY <1>3, <1>4

LEMMA Reads ==
  ASSUME SyncInv, Decodable
  PROVE  \E c \in Command :
           /\ Reading(c)
           /\ c.op # "call" => Told(MainAfter, Unwritten, ListsAfter, Apply(Now, c), program)
           /\ c.op = "call" => CallTold(c)
<1>1. PICK c \in Command, rest \in Seq(Units) :
           /\ Data = Cat(Encode(c), rest)
           /\ c.op # "nop" => CommandSize(Data) = Len(Encode(c))
           /\ c.op # "call" => Told(MainAfter, Unwritten, ListsAfter, Apply(Now, c), program)
           /\ c.op = "call" => CallTold(c)
  BY CommandIsDone
<1>2. Reading(c)
  BY <1>1, ReadingOf
<1>3. QED
  BY <1>1, <1>2

\* A step of the decoder that is told keeps the account.
LEMMA SyncKept ==
  ASSUME SyncInv, GxTypeOK', Decodable, writing, Consume, Told(MainAfter, Unwritten, lists', NowNext, program)
  PROVE  SyncInv'
<1>1. program' = program /\ sent' = sent /\ writing' = writing
  BY DEF Consume
<1>2. Main' = MainAfter /\ Unwritten' = Unwritten
  BY ConsumeLeaves DEF SyncInv
<1>3. Now' = NowNext
  BY DEF Now, NowNext
<1>4. Told(Main', Unwritten', lists', Now', program')
  BY <1>1, <1>2, <1>3
<1>5. sent' <= Len(EncodeAll(program'))
  BY <1>1 DEF SyncInv
<1>6. QED
  BY <1>1, <1>4, <1>5 DEF SyncInv

LEMMA SyncApplies ==
  ASSUME SyncInv, GxTypeOK', Decodable, writing, Consume, StayInList,
         \A c : Reading(c) => c.op # "call" /\ NowNext = Apply(Now, c)
  PROVE  SyncInv'
<1>1. PICK c \in Command :
           /\ Reading(c)
           /\ c.op # "call" => Told(MainAfter, Unwritten, ListsAfter, Apply(Now, c), program)
  BY Reads
<1>2. lists' = ListsAfter
  BY DEF StayInList
<1>3. Told(MainAfter, Unwritten, lists', NowNext, program)
  BY <1>1, <1>2
<1>4. QED
  BY <1>3, SyncKept

LEMMA SyncCall ==
  ASSUME SyncInv, GxTypeOK', DecodeCall
  PROVE  SyncInv'
<1>1. Decodable /\ writing /\ Consume /\ Head(Data) = CallOp
  BY DEF DecodeCall, AtCommand
<1>2. PICK c \in Command : Reading(c) /\ (c.op = "call" => CallTold(c))
  BY <1>1, Reads
<1>3. c.op = "call"
  BY <1>1, <1>2, ReadingOp
<1>4. Data[2] = c.address /\ Data[3] = c.size
  <2>1. Len(Encode(c)) = 3 /\ Encode(c)[2] = c.address /\ Encode(c)[3] = c.size
    BY <1>3, UnitsOfThree
  <2>2. QED
    BY <1>2, <2>1 DEF Reading
<1> DEFINE address == Aligned(c.address)
           size == Aligned(c.size)
<1>5. lists' = IF Enterable(address, size) THEN Append(ListsAfter, Resolved(address, size)) ELSE ListsAfter
  BY <1>4 DEF DecodeCall, Enter, StayInList
<1>6. NowNext = Now
  BY DEF DecodeCall, NowNext, Now
<1>7. Told(MainAfter, Unwritten, lists', NowNext, program)
  BY <1>2, <1>3, <1>5, <1>6 DEF CallTold
<1>8. QED
  BY <1>1, <1>7, SyncKept

LEMMA SyncDecodes ==
  ASSUME SyncInv, GxTypeOK',
         \/ DecodeNop \/ DecodeInvalidate \/ DecodeLoadCp \/ DecodeLoadXf \/ DecodeIndexedXf
         \/ DecodeLoadBp \/ DecodeDraw \/ DecodeUnknown
  PROVE  SyncInv'
<1>1. Decodable /\ writing /\ Consume /\ StayInList
  BY DEF DecodeNop, DecodeInvalidate, DecodeLoadCp, DecodeLoadXf, DecodeIndexedXf, DecodeLoadBp,
         DecodeDraw, DecodeUnknown, AtCommand
<1>2. \A c : Reading(c) => c.op # "call" /\ NowNext = Apply(Now, c)
  BY NopApplies, InvalidateApplies, LoadCpApplies, LoadXfApplies, IndexedApplies, LoadBpApplies,
     DrawApplies, UnknownApplies
<1>3. QED
  BY <1>1, <1>2, SyncApplies

LEMMA SyncListEnds ==
  ASSUME SyncInv, GxTypeOK', ListEnds
  PROVE  SyncInv'
<1>1. /\ writing /\ lists # <<>> /\ ~Decodable /\ lists' = Front(lists)
      /\ program' = program /\ sent' = sent /\ m_buffer' = m_buffer /\ consumed' = consumed
      /\ writing' = writing /\ regs' = regs /\ backend' = backend
      /\ m_unknown_opcode_count' = m_unknown_opcode_count
  BY DEF ListEnds
<1> DEFINE n == Len(lists)
<1>2. GxTypeOK /\ Told(Main, Unwritten, lists, Now, program) /\ regs \in RegsType
  BY DEF SyncInv, GxTypeOK
<1>3. PICK todo \in [Levels -> Seq(Given)], tail \in [Levels -> Seq(Units)],
           cont \in [Levels -> Seq(Plainly)], past \in Seq(Plainly) :
        Account(Main, Unwritten, lists, Now, program, todo, tail, cont, past)
  BY <1>2 DEF Told
<1>4. Data = lists[n] /\ n # 0
  BY <1>1, <1>2, DataIsOnTop
<1>5. Tells(lists[n], <<>>, todo[n], tail[n], cont[n], After(cont, n), MaxDisplayListDepth - n, past, Now, program)
  BY <1>3, <1>4, AccountTells
<1> HIDE DEF n
<1>6. todo[n] = <<>>
  <2> SUFFICES ASSUME todo[n] # <<>> PROVE FALSE
    OBVIOUS
  <2>1. VerticesOf(todo[n][1], Now.regs)
    BY <1>5, VerticesFit
  <2>2. VerticesOf(todo[n][1], regs)
    BY <2>1 DEF Now
  <2>3. Frame(lists[n], <<>>, todo[n], tail[n], cont[n], After(cont, n), MaxDisplayListDepth - n)
    BY <1>5 DEF Tells
  <2>4. ~(lists[n] # <<>> /\ CommandSize(lists[n]) > 0)
    BY <1>1, <1>4 DEF Decodable
  <2>5. <<>> # <<>>
    BY <1>2, <2>2, <2>3, <2>4, WaitsForMore
  <2>6. QED
    BY <2>5
<1>7. Told(Main, Unwritten, Front(lists), Now, program)
  BY <1>1, <1>3, <1>6, AccountLeaves DEF n
<1>8. Main' = Main /\ Unwritten' = Unwritten /\ Now' = Now
  BY <1>1 DEF Main, Unwritten, Now
<1>9. Told(Main', Unwritten', lists', Now', program')
  BY <1>1, <1>7, <1>8
<1>10. QED
  BY <1>1, <1>9 DEF SyncInv

LEMMA SyncReturns ==
  ASSUME SyncInv, GxTypeOK', WriteReturns
  PROVE  SyncInv'
<1>1. /\ lists = <<>> /\ lists' = <<>> /\ ~Decodable /\ m_buffer' = Data /\ consumed' = 0
      /\ program' = program /\ sent' = sent /\ regs' = regs /\ backend' = backend
      /\ m_unknown_opcode_count' = m_unknown_opcode_count
  BY DEF WriteReturns
<1>2. Data = Main /\ Data \in Seq(Units)
  BY <1>1, DataTyped DEF Data, Main, SyncInv
<1>3. SubSeq(Main, 0 + 1, Len(Main)) = Main
  BY <1>2, PrefixFacts
<1>4. Main' = Main
  <2>1. Main' = SubSeq(Data, 0 + 1, Len(Data))
    BY <1>1 DEF Main
  <2>2. QED
    BY <1>2, <1>3, <2>1
<1>5. Data' = Data
  BY <1>1, <1>2, <1>4 DEF Data, Main
<1>6. ~Decodable'
  <2>1. CommandSize(Data)' = CommandSize(Data)
    BY <1>1, <1>5 DEF CommandSize
  <2>2. QED
    BY <1>1, <1>5, <2>1 DEF Decodable
<1>7. Unwritten' = Unwritten /\ Now' = Now
  BY <1>1 DEF Unwritten, Now
<1>8. Told(Main', Unwritten', lists', Now', program')
  BY <1>1, <1>4, <1>7 DEF SyncInv
<1>9. QED
  BY <1>1, <1>6, <1>8 DEF SyncInv

\* A piece and what follows it make up the remainder it was cut from.
LEMMA PieceAndRest ==
  ASSUME NEW T, NEW s \in Seq(T), NEW from \in Nat, NEW n \in Nat, from + n <= Len(s)
  PROVE  SubSeq(s, from + 1, from + n) \o SubSeq(s, from + n + 1, Len(s)) = SubSeq(s, from + 1, Len(s))
<1> DEFINE m == from + 1
           k == from + n
           z == Len(s)
<1>1. z \in Nat
  OBVIOUS
<1>2. m \in 1..(Len(s) + 1) /\ k \in (m - 1)..Len(s) /\ z \in k..Len(s)
  BY <1>1
<1> HIDE DEF m, k, z
<1>3. SubSeq(s, m, k) \o SubSeq(s, k + 1, z) = SubSeq(s, m, z)
  BY <1>2, ConcatAdjacentSubSeq
<1>4. QED
  BY <1>3 DEF m, k, z

LEMMA SyncWrites ==
  ASSUME SyncInv, GxTypeOK', NEW n \in ChunkSizes, WriteBytes(n)
  PROVE  SyncInv'
<1> DEFINE units == EncodeAll(program)
           piece == SubSeq(units, sent + 1, sent + n)
           rest == SubSeq(units, sent + n + 1, Len(units))
<1>1. /\ ~writing /\ sent + n <= Len(units) /\ m_buffer' = m_buffer \o piece /\ sent' = sent + n
      /\ writing' /\ program' = program /\ consumed' = consumed /\ lists' = lists
      /\ regs' = regs /\ backend' = backend /\ m_unknown_opcode_count' = m_unknown_opcode_count
  BY DEF WriteBytes
<1>2. GxTypeOK /\ lists = <<>> /\ consumed = 0 /\ Told(Main, Unwritten, lists, Now, program)
  BY <1>1 DEF SyncInv
<1>3. units \in Seq(Units) /\ sent \in Nat /\ n \in Nat /\ m_buffer \in Seq(Units)
  BY <1>2, UnitsAreTyped, ChunkAssumption DEF GxTypeOK
<1>4. Unwritten = SubSeq(units, sent + 1, Len(units))
  BY DEF Unwritten
<1>5. Unwritten' = rest
  BY <1>1 DEF Unwritten
<1>6. sent + n <= Len(units) /\ Len(units) \in Nat
  BY <1>1, <1>3
<1> HIDE DEF units
<1>7. piece \in Seq(Units) /\ rest \in Seq(Units)
  <2>1. sent + 1 \in 1..(Len(units) + 1) /\ sent + n \in sent..Len(units)
    BY <1>3, <1>6
  <2>2. piece \in Seq(Units)
    BY <1>3, <2>1
  <2>3. sent + n \in 0..Len(units)
    BY <1>3, <1>6
  <2>4. rest \in Seq(Units)
    BY <1>3, <2>3, CutInTwo
  <2>5. QED
    BY <2>2, <2>4
<1>8. piece \o rest = SubSeq(units, sent + 1, Len(units))
  BY <1>3, <1>6, PieceAndRest
<1> HIDE DEF piece, rest
<1>9. Unwritten = Cat(piece, rest)
  BY <1>4, <1>8 DEF Cat
<1>10. Told(Main, Unwritten, <<>>, Now, program)
  BY <1>2
<1>11. Told(Cat(Main, piece), rest, <<>>, Now, program)
  BY <1>7, <1>9, <1>10, AccountReceives
<1>12. Main = m_buffer
  <2>1. SubSeq(m_buffer, 0 + 1, Len(m_buffer)) = m_buffer
    BY <1>3, PrefixFacts
  <2>2. QED
    BY <1>2, <2>1 DEF Main
<1>13. Main' = Cat(Main, piece)
  <2> DEFINE b == m_buffer \o piece
  <2>1. b \in Seq(Units)
    BY <1>3, <1>7, ConcatProperties
  <2>2. m_buffer' = b
    BY <1>1
  <2> HIDE DEF b
  <2>3. SubSeq(b, 0 + 1, Len(b)) = b
    BY <2>1, PrefixFacts
  <2>4. Main' = SubSeq(b, 0 + 1, Len(b))
    BY <1>1, <1>2, <2>2 DEF Main
  <2>5. QED
    BY <1>12, <2>3, <2>4 DEF b, Cat
<1>14. Now' = Now
  BY <1>1 DEF Now
<1>15. Told(Main', Unwritten', lists', Now', program')
  BY <1>1, <1>2, <1>5, <1>11, <1>13, <1>14 DEF rest
<1>16. sent' <= Len(EncodeAll(program'))
  BY <1>1 DEF units
<1>17. QED
  BY <1>1, <1>15, <1>16 DEF SyncInv

LEMMA SyncNext ==
  ASSUME SyncInv, GxTypeOK', [Next]_vars
  PROVE  SyncInv'
<1>1. CASE \/ DecodeNop \/ DecodeInvalidate \/ DecodeLoadCp \/ DecodeLoadXf \/ DecodeIndexedXf
           \/ DecodeLoadBp \/ DecodeDraw \/ DecodeUnknown
  BY <1>1, SyncDecodes
<1>2. CASE DecodeCall
  BY <1>2, SyncCall
<1>3. CASE ListEnds
  BY <1>3, SyncListEnds
<1>4. CASE WriteReturns
  BY <1>4, SyncReturns
<1>5. CASE \E n \in ChunkSizes : WriteBytes(n)
  BY <1>5, SyncWrites
<1>6. CASE Reset
  BY <1>6, SyncReset
<1>7. CASE UNCHANGED vars
  <2>1. /\ program' = program /\ sent' = sent /\ m_buffer' = m_buffer /\ consumed' = consumed
        /\ writing' = writing /\ lists' = lists /\ regs' = regs /\ backend' = backend
        /\ m_unknown_opcode_count' = m_unknown_opcode_count
    BY <1>7 DEF vars
  <2>2. Main' = Main /\ Unwritten' = Unwritten /\ Now' = Now /\ Data' = Data
    BY <2>1 DEF Main, Unwritten, Now, Data
  <2>3. Decodable' = Decodable
    BY <2>1, <2>2 DEF Decodable, CommandSize
  <2>4. QED
    BY <2>1, <2>2, <2>3 DEF SyncInv
<1>8. QED
  BY <1>1, <1>2, <1>3, <1>4, <1>5, <1>6, <1>7 DEF Next, DecodeStep

\* Between two writes, with what is done and what is to do in the guest's program.
Between(main, ahead, s, p, done, td) ==
  /\ done \in Seq(Given) /\ td \in Seq(Given) /\ p = Cat(done, td)
  /\ main \in Seq(Units) /\ ahead \in Seq(Units) /\ Cat(main, ahead) = EncodeAll(td)
  /\ s = Meaning(done)
  /\ td # <<>> => VerticesOf(td[1], s.regs)
  /\ \E doing : Frame(main, ahead, td, <<>>, doing, <<>>, MaxDisplayListDepth)

LEMMA PastIsDone ==
  ASSUME NEW done \in Seq(Given), NEW td \in Seq(Given), NEW p, p = Cat(done, td),
         NEW past \in Seq(Plainly),
         Cat(past, Inline(td, Inlined[MaxDisplayListDepth])) = Inline(p, Inlined[MaxDisplayListDepth])
  PROVE  Effect(past) = Meaning(done)
<1> DEFINE f == Inlined[MaxDisplayListDepth]
           a == Inline(done, f)
           b == Inline(td, f)
<1>1. MaxDisplayListDepth \in 0..MaxDisplayListDepth
  BY DepthAssumption
<1>2. f \in [Called -> Seq(Plainly)]
  BY <1>1, InlinedTyped
<1>3. Cat(past, b) = Inline(p, f)
  OBVIOUS
<1> HIDE DEF f
<1>4. a \in Seq(Plainly) /\ b \in Seq(Plainly)
  BY <1>2, InlineTyped
<1>5. Inline(done \o td, f) = Inline(done, f) \o Inline(td, f)
  BY <1>2, InlineParts
<1>6. Inline(p, f) = Cat(a, b)
  BY <1>5 DEF Cat
<1> HIDE DEF a, b
<1>7. Cat(past, b) = Cat(a, b)
  BY <1>3, <1>6
<1>8. past = a
  BY <1>4, <1>7, CatSameEnd
<1>9. QED
  BY <1>8 DEF a, f, Meaning

LEMMA ToldIsBetween ==
  ASSUME NEW main, NEW ahead, NEW s, NEW p, Told(main, ahead, <<>>, s, p)
  PROVE  \E done, td : Between(main, ahead, s, p, done, td)
<1> DEFINE none == <<>>
<1>1. PICK todo \in [Levels -> Seq(Given)], tail \in [Levels -> Seq(Units)],
          cont \in [Levels -> Seq(Plainly)], past \in Seq(Plainly) :
        Account(main, ahead, none, s, p, todo, tail, cont, past)
  BY DEF Told
<1>2. Len(none) = 0
  OBVIOUS
<1>3. none = <<>>
  OBVIOUS
<1> HIDE DEF none
<1>4. Tells(main, ahead, todo[0], tail[0], cont[0], <<>>, MaxDisplayListDepth - 0, past, s, p)
  BY <1>1, <1>2, AccountTells DEF After
<1>5. MaxDisplayListDepth - 0 = MaxDisplayListDepth
  BY DepthAssumption
<1>6. Tells(main, ahead, todo[0], <<>>, cont[0], <<>>, MaxDisplayListDepth, past, s, p)
  BY <1>1, <1>4, <1>5 DEF Account, Frames
<1>7. PICK done \in Seq(Given) : p = Cat(done, todo[0])
  BY <1>1 DEF Account
<1> DEFINE td == todo[0]
           doing == cont[0]
           f == Inlined[MaxDisplayListDepth]
           wanted == Inline(td, f)
<1>8. /\ Frame(main, ahead, td, <<>>, doing, <<>>, MaxDisplayListDepth) /\ Effect(past) = s
      /\ Cat(past, doing) = Inline(p, f) /\ past \in Seq(Plainly) /\ p = Cat(done, td)
  BY <1>6, <1>7 DEF Tells
<1>9. td # <<>> => VerticesOf(td[1], s.regs)
  BY <1>6, VerticesFit
<1> HIDE DEF td, doing
<1>10. /\ main \in Seq(Units) /\ ahead \in Seq(Units) /\ td \in Seq(Given)
       /\ Cat(main, ahead) = Cat(EncodeAll(td), <<>>) /\ doing = Cat(wanted, <<>>)
  BY <1>8 DEF Frame
<1>11. f \in [Called -> Seq(Plainly)]
  <2>1. MaxDisplayListDepth \in 0..MaxDisplayListDepth
    BY DepthAssumption
  <2>2. QED
    BY <2>1, InlinedTyped
<1> HIDE DEF f
<1>12. wanted \in Seq(Plainly)
  BY <1>10, <1>11, InlineTyped
<1> HIDE DEF wanted
<1>13. doing = wanted
  BY <1>10, <1>12, CatNone
<1>14. EncodeAll(td) \in Seq(Units)
  BY <1>10, GivenAreCommands, SeqGrows, EncodeAllTyped
<1>15. Cat(main, ahead) = EncodeAll(td)
  BY <1>10, <1>14, CatNone
<1>16. Cat(past, wanted) = Inline(p, f)
  BY <1>8, <1>13
<1>17. Effect(past) = Meaning(done)
  BY <1>7, <1>8, <1>10, <1>16, PastIsDone DEF wanted, f
<1>18. Between(main, ahead, s, p, done, td)
  BY <1>7, <1>8, <1>9, <1>10, <1>15, <1>17 DEF Between
<1>19. QED
  BY <1>18

\* What is held is what has been sent of the command that comes next.
LEMMA HeldIsSent ==
  ASSUME NEW done \in Seq(Given), NEW td \in Seq(Given), NEW p, p = Cat(done, td),
         NEW main \in Seq(Units), NEW ahead \in Seq(Units), Cat(main, ahead) = EncodeAll(td),
         NEW n \in Nat, n <= Len(EncodeAll(p)), Len(ahead) = Len(EncodeAll(p)) - n
  PROVE  n = Len(EncodeAll(done)) + Len(main) /\ main = SubSeq(EncodeAll(p), Len(EncodeAll(done)) + 1, n)
<1> DEFINE ed == EncodeAll(done)
           et == EncodeAll(td)
           ep == EncodeAll(p)
           a == Len(ed)
           b == Len(main)
           c == Len(ahead)
           d == Len(et)
           e == Len(ep)
<1>1. ep = Cat(ed, et) /\ ed \in Seq(Units) /\ et \in Seq(Units)
  BY EncodeAllCat
<1>2. et = Cat(main, ahead)
  OBVIOUS
<1>3. n <= e /\ c = e - n
  OBVIOUS
<1> HIDE DEF ed, et, ep
<1>4. e = a + d
  BY <1>1, CatTyped
<1>5. d = b + c
  BY <1>2, CatTyped
<1>6. a \in Nat /\ b \in Nat /\ c \in Nat
  BY <1>1
<1> HIDE DEF a, b, c, d, e
<1>7. n = a + b
  BY <1>3, <1>4, <1>5, <1>6
<1>8. SubSeq(Cat(ed, Cat(main, ahead)), Len(ed) + 1, Len(ed) + Len(main)) = main
  BY <1>1, CatMiddle
<1>9. SubSeq(ep, a + 1, a + b) = main
  BY <1>1, <1>2, <1>8 DEF a, b
<1>10. QED
  BY <1>7, <1>9 DEF a, b, ed, ep

\* The inductive invariant implies the property.
LEMMA SyncSuffices == SyncInv => AsIfWrittenAtOnce
<1> SUFFICES ASSUME SyncInv, ~writing
             PROVE  LET whole == WholeCommands(program, sent)
                        s == Meaning(whole)
                    IN /\ regs = s.regs
                       /\ backend = s.backend
                       /\ m_unknown_opcode_count = s.unknown
                       /\ m_buffer = SubSeq(EncodeAll(program), Len(EncodeAll(whole)) + 1, sent)
  BY DEF AsIfWrittenAtOnce
<1>1. /\ GxTypeOK /\ lists = <<>> /\ consumed = 0 /\ ~Decodable /\ sent <= Len(EncodeAll(program))
      /\ Told(Main, Unwritten, <<>>, Now, program)
  BY DEF SyncInv
<1>2. m_buffer \in Seq(Units) /\ sent \in Nat /\ regs \in RegsType
  BY <1>1 DEF GxTypeOK
<1>3. Main = m_buffer
  <2>1. SubSeq(m_buffer, 0 + 1, Len(m_buffer)) = m_buffer
    BY <1>2, PrefixFacts
  <2>2. QED
    BY <1>1, <2>1 DEF Main
<1>4. Data = m_buffer
  BY <1>1, <1>3 DEF Data, Main
<1> DEFINE units == EncodeAll(program)
<1>5. units \in Seq(Units) /\ program \in Seq(Given)
  BY <1>1, UnitsAreTyped
<1>6. Len(Unwritten) = Len(units) - sent
  <2>1. Unwritten = SubSeq(units, sent + 1, Len(units)) /\ sent <= Len(units)
    BY <1>1 DEF Unwritten
  <2> HIDE DEF units
  <2>2. sent \in 0..Len(units)
    BY <1>2, <1>5, <2>1
  <2>3. QED
    BY <1>5, <2>1, <2>2, CutInTwo
<1>7. PICK done, td : Between(m_buffer, Unwritten, Now, program, done, td)
  BY <1>1, <1>3, ToldIsBetween
<1>8. /\ done \in Seq(Given) /\ td \in Seq(Given) /\ program = Cat(done, td)
      /\ Unwritten \in Seq(Units) /\ Cat(m_buffer, Unwritten) = EncodeAll(td)
      /\ Now = Meaning(done) /\ (td # <<>> => VerticesOf(td[1], Now.regs))
  BY <1>7 DEF Between
<1> DEFINE ended == Len(EncodeAll(done))
<1>9. sent = ended + Len(m_buffer) /\ m_buffer = SubSeq(EncodeAll(program), ended + 1, sent)
  BY <1>1, <1>2, <1>6, <1>8, HeldIsSent
<1>10. ended \in Nat
  BY <1>8, EncodeAllCat
<1>11. td # <<>> => Len(m_buffer) < Len(Encode(td[1])) /\ Encode(td[1]) \in Seq(Units)
  <2> SUFFICES ASSUME td # <<>> PROVE Len(m_buffer) < Len(Encode(td[1])) /\ Encode(td[1]) \in Seq(Units)
    OBVIOUS
  <2>1. VerticesOf(td[1], regs)
    BY <1>8 DEF Now
  <2>2. ~(m_buffer # <<>> /\ CommandSize(m_buffer) > 0)
    BY <1>1, <1>4 DEF Decodable
  <2>3. PICK doing : Frame(m_buffer, Unwritten, td, <<>>, doing, <<>>, MaxDisplayListDepth)
    BY <1>7 DEF Between
  <2>4. Len(m_buffer) < Len(Encode(td[1]))
    BY <1>2, <2>1, <2>2, <2>3, WaitsForMore
  <2>5. td[1] \in Command
    BY <1>8, TodoParts
  <2>6. Encode(td[1]) \in Seq(Units)
    BY <2>5, EncodeTyped
  <2>7. QED
    BY <2>4, <2>6
<1> HIDE DEF ended
<1>12. td # <<>> => ~(ended + Len(Encode(td[1])) <= sent)
  <2>1. Len(m_buffer) \in Nat
    BY <1>2
  <2>2. QED
    BY <1>9, <1>10, <1>11, <2>1
<1>13. ended <= sent
  <2>1. Len(m_buffer) \in Nat
    BY <1>2
  <2>2. QED
    BY <1>9, <1>10, <2>1
<1>14. WholeCommands(program, sent) = done
  BY <1>2, <1>5, <1>8, <1>12, <1>13, WholeIs DEF ended
<1>15. Now = Meaning(done)
  BY <1>8
<1>16. /\ regs = Meaning(done).regs /\ backend = Meaning(done).backend
       /\ m_unknown_opcode_count = Meaning(done).unknown
  BY <1>15 DEF Now
<1>17. QED
  BY <1>9, <1>14, <1>16 DEF ended

LEMMA SyncHolds == Spec => []SyncInv
<1>1. SyncInv /\ [Next]_vars => SyncInv'
  <2> SUFFICES ASSUME SyncInv, [Next]_vars PROVE SyncInv'
    OBVIOUS
  <2>1. GxTypeOK
    BY DEF SyncInv
  <2>2. GxTypeOK'
    BY <2>1, GxNext
  <2>3. QED
    BY <2>2, SyncNext
<1>2. QED
  BY <1>1, SyncInit, PTL DEF Spec

(* However the guest cuts its stream into writes, and wherever a display   *)
(* list is cut, between two writes the registers, the render device and    *)
(* the count of unknown opcodes are those of the commands written in full, *)
(* and the buffer holds the beginning of the next command and nothing else.*)
THEOREM WritesAreAsOne == Spec => []AsIfWrittenAtOnce
<1>1. SyncInv => AsIfWrittenAtOnce
  BY SyncSuffices
<1>2. QED
  BY <1>1, SyncHolds, PTL

-----------------------------------------------------------------------------
(* Reading the vertices of a draw.                                         *)

ReadRecord == [kind : {"direct", "position", "index"}, bytes : Nat]

ReaderOf(data, reader, reads) == Folded("read", data, reader, reads)

\* A fold goes on where it stopped.
LEMMA FoldedConcat ==
  ASSUME NEW T, NEW s \in Seq(T), NEW t \in Seq(T), NEW kind, NEW data, NEW base
  PROVE  Folded(kind, data, base, s \o t) = Folded(kind, data, Folded(kind, data, base, s), t)
<1> DEFINE m == Len(t)
           front(i) == SubSeq(t, 1, i)
           mid == Folded(kind, data, base, s)
           Same(i) == Folded(kind, data, base, s \o front(i)) = Folded(kind, data, mid, front(i))
           bad == {i \in 0..m : ~Same(i)}
<1>1. m \in Nat /\ front(0) = <<>> /\ front(m) = t
  BY PrefixFacts
<1>2. s \o <<>> = s
  BY ConcatEmptySeq
<1>3. Same(0)
  <2>1. Folded(kind, data, mid, <<>>) = mid
    <3> HIDE DEF mid
    <3>1. <<>> \in Seq({0}) /\ 0 \in {0}
      OBVIOUS
    <3>2. QED
      BY <3>1, FoldedAppend
  <2>2. QED
    BY <1>1, <1>2, <2>1
<1>4. 0 \notin bad
  BY <1>3
<1>5. bad = {}
  <2> SUFFICES ASSUME bad # {} PROVE FALSE
    OBVIOUS
  <2>1. bad \subseteq 0..m
    OBVIOUS
  <2>2. PICK i \in bad : i \in 1..m /\ i - 1 \in 0..m /\ i - 1 \notin bad
    <3> HIDE DEF bad, m
    <3>1. QED
      BY <1>1, <1>4, <2>1, FirstBad
  <2>3. ~Same(i) /\ Same(i - 1)
    BY <2>2
  <2> DEFINE f == front(i - 1)
             x == t[i]
  <2>4. front(i) = Append(f, x) /\ f \in Seq(T) /\ x \in T
    BY <2>2, PrefixFacts
  <2>5. Folded(kind, data, base, s \o f) = Folded(kind, data, mid, f)
    BY <2>3
  <2>6. Folded(kind, data, base, s \o Append(f, x)) # Folded(kind, data, mid, Append(f, x))
    BY <2>3, <2>4
  <2> HIDE DEF f, x, mid, front, bad
  <2>7. s \o Append(f, x) = Append(s \o f, x)
    BY <2>4
  <2>8. s \o f \in Seq(T)
    BY <2>4, ConcatProperties
  <2> DEFINE sf == s \o f
  <2>9. sf \in Seq(T)
    BY <2>8
  <2> HIDE DEF sf
  <2>10. Folded(kind, data, base, Append(sf, x)) = FoldStep(kind, data, Folded(kind, data, base, sf), x)
    BY <2>4, <2>9, FoldedAppend
  <2>11. Folded(kind, data, mid, Append(f, x)) = FoldStep(kind, data, Folded(kind, data, mid, f), x)
    BY <2>4, FoldedAppend
  <2>12. QED
    BY <2>5, <2>6, <2>7, <2>10, <2>11 DEF sf
<1>6. Same(m)
  <2>1. m \in 0..m
    BY <1>1
  <2>2. QED
    BY <1>5, <2>1
<1>7. QED
  BY <1>1, <1>6

ReaderType == [offset : Nat, skipped : Nat, result : {"decoded", "short", "unresolved"}]

(* The reads take so many bytes and skip at most so many vertices, if the  *)
(* data has the bytes and no element is out of memory.                     *)
MovesOne(data, r, after, b, k) ==
  /\ after \in ReaderType
  /\ after.skipped >= r.skipped /\ after.skipped <= r.skipped + k
  /\ r.result # "decoded" => after = r
  /\ r.result = "decoded" /\ r.offset + b <= Len(data) =>
       after.result # "short" /\ (after.result = "decoded" => after.offset = r.offset + b)

Moves(reads, b, k) ==
  /\ reads \in Seq(ReadRecord) /\ b \in Nat /\ k \in Nat
  /\ \A data \in Seq(Byte), r \in ReaderType : MovesOne(data, r, ReaderOf(data, r, reads), b, k)

LEMMA MovesNothing == Moves(<<>>, 0, 0)
<1>1. <<>> \in Seq(ReadRecord)
  OBVIOUS
<1>2. ASSUME NEW data, NEW r PROVE ReaderOf(data, r, <<>>) = r
  <2>1. <<>> \in Seq({0}) /\ 0 \in {0}
    OBVIOUS
  <2>2. QED
    BY <2>1, FoldedAppend DEF ReaderOf
<1>3. ASSUME NEW data \in Seq(Byte), NEW r \in ReaderType PROVE MovesOne(data, r, r, 0, 0)
  BY DEF MovesOne, ReaderType
<1>4. QED
  BY <1>1, <1>2, <1>3 DEF Moves

LEMMA MovesRead ==
  ASSUME NEW read \in ReadRecord, NEW k, k = IF read.kind = "position" THEN 1 ELSE 0
  PROVE  Moves(<<read>>, read.bytes, k)
<1>1. <<read>> \in Seq(ReadRecord) /\ read.bytes \in Nat /\ k \in Nat
  BY DEF ReadRecord
<1>2. ASSUME NEW data, NEW r PROVE ReaderOf(data, r, <<read>>) = Read(data, r, read)
  <2> DEFINE none == <<>>
  <2>1. none \in Seq(ReadRecord)
    OBVIOUS
  <2>6. Append(none, read) = <<read>>
    OBVIOUS
  <2> HIDE DEF none
  <2>2. none = <<>>
    BY DEF none
  <2>3. Folded("read", data, r, Append(none, read)) = FoldStep("read", data, Folded("read", data, r, none), read)
    BY <2>1, FoldedAppend
  <2>4. Folded("read", data, r, <<>>) = r
    <3>1. <<>> \in Seq({0}) /\ 0 \in {0}
      OBVIOUS
    <3>2. QED
      BY <3>1, FoldedAppend
  <2>5. QED
    BY <2>2, <2>3, <2>4, <2>6 DEF FoldStep, ReaderOf
<1>3. ASSUME NEW data \in Seq(Byte), NEW r \in ReaderType
      PROVE  MovesOne(data, r, Read(data, r, read), read.bytes, k)
  <2> DEFINE offset == r.offset + read.bytes
             index == IndexAt(data, r.offset, read.bytes)
             skipped == read.kind # "direct" /\ Skips(read, index)
             unresolved == read.kind # "direct" /\ ~skipped /\ index >= ArrayLength
             after == Read(data, r, read)
  <2>1. after = IF r.result # "decoded" THEN r
                ELSE IF offset > Len(data) THEN [r EXCEPT !.result = "short"]
                ELSE IF unresolved THEN [r EXCEPT !.result = "unresolved"]
                ELSE [r EXCEPT !.offset = offset, !.skipped = IF skipped THEN @ + 1 ELSE @]
    BY DEF Read
  <2>2. skipped => k = 1
    BY DEF Skips
  <2>3. offset \in Nat /\ Len(data) \in Nat /\ r.skipped \in Nat /\ r.offset \in Nat
    BY <1>1 DEF ReaderType
  <2> HIDE DEF skipped, unresolved, after
  <2>4. after \in ReaderType
    <3>1. CASE r.result # "decoded"
      BY <2>1, <3>1
    <3>2. CASE r.result = "decoded" /\ (offset > Len(data) \/ unresolved)
      BY <2>1, <2>3, <3>2 DEF ReaderType
    <3>3. CASE r.result = "decoded" /\ ~(offset > Len(data) \/ unresolved)
      <4> DEFINE n == IF skipped THEN r.skipped + 1 ELSE r.skipped
      <4>1. after = [r EXCEPT !.offset = offset, !.skipped = n]
        BY <2>1, <3>3
      <4>2. n \in Nat
        BY <2>3
      <4> HIDE DEF n, offset
      <4>3. QED
        BY <2>3, <4>1, <4>2 DEF ReaderType
    <3>4. QED
      BY <3>1, <3>2, <3>3
  <2>5. after.skipped >= r.skipped /\ after.skipped <= r.skipped + k
    BY <1>1, <2>1, <2>2, <2>3 DEF ReaderType
  <2>6. r.result # "decoded" => after = r
    BY <2>1
  <2>7. r.result = "decoded" /\ r.offset + read.bytes <= Len(data) =>
          after.result # "short" /\ (after.result = "decoded" => after.offset = r.offset + read.bytes)
    BY <2>1, <2>3 DEF ReaderType
  <2>8. QED
    BY <2>4, <2>5, <2>6, <2>7 DEF MovesOne, after
<1>4. QED
  BY <1>1, <1>2, <1>3 DEF Moves

LEMMA MovesOn ==
  ASSUME NEW s, NEW t, NEW b, NEW c, NEW k, NEW m, Moves(s, b, k), Moves(t, c, m)
  PROVE  Moves(s \o t, b + c, k + m)
<1>1. s \in Seq(ReadRecord) /\ t \in Seq(ReadRecord) /\ b \in Nat /\ c \in Nat /\ k \in Nat /\ m \in Nat
  BY DEF Moves
<1>2. s \o t \in Seq(ReadRecord)
  BY <1>1, ConcatProperties
<1>3. ASSUME NEW data \in Seq(Byte), NEW r \in ReaderType
      PROVE  MovesOne(data, r, ReaderOf(data, r, s \o t), b + c, k + m)
  <2> DEFINE mid == ReaderOf(data, r, s)
             after == ReaderOf(data, mid, t)
  <2>1. ReaderOf(data, r, s \o t) = after
    BY <1>1, FoldedConcat DEF ReaderOf
  <2>2. MovesOne(data, r, mid, b, k)
    BY DEF Moves
  <2>3. mid \in ReaderType
    BY <2>2 DEF MovesOne
  <2> HIDE DEF mid
  <2>4. MovesOne(data, mid, after, c, m)
    BY <2>3 DEF Moves
  <2> HIDE DEF after
  <2>5. after \in ReaderType /\ after.skipped >= r.skipped /\ after.skipped <= r.skipped + (k + m)
    <3>1. /\ after \in ReaderType
          /\ after.skipped >= mid.skipped /\ after.skipped <= mid.skipped + m
          /\ mid.skipped >= r.skipped /\ mid.skipped <= r.skipped + k
      BY <2>2, <2>4 DEF MovesOne
    <3>2. after.skipped \in Nat /\ mid.skipped \in Nat /\ r.skipped \in Nat
      BY <2>3, <3>1 DEF ReaderType
    <3>3. QED
      BY <1>1, <3>1, <3>2
  <2>6. r.result # "decoded" => after = r
    BY <2>2, <2>3, <2>4 DEF MovesOne
  <2>7. r.result = "decoded" /\ r.offset + (b + c) <= Len(data) =>
          after.result # "short" /\ (after.result = "decoded" => after.offset = r.offset + (b + c))
    <3> SUFFICES ASSUME r.result = "decoded", r.offset + (b + c) <= Len(data)
                 PROVE  after.result # "short" /\ (after.result = "decoded" => after.offset = r.offset + (b + c))
      OBVIOUS
    <3>1. r.offset \in Nat /\ Len(data) \in Nat /\ mid.offset \in Nat
      BY <2>3 DEF ReaderType
    <3>2. r.offset + b <= Len(data)
      BY <1>1, <3>1
    <3>3. mid.result # "short" /\ (mid.result = "decoded" => mid.offset = r.offset + b)
      BY <2>2, <3>2 DEF MovesOne
    <3>4. CASE mid.result = "decoded"
      <4>1. mid.offset + c <= Len(data)
        BY <1>1, <3>1, <3>3, <3>4
      <4>2. after.result # "short" /\ (after.result = "decoded" => after.offset = mid.offset + c)
        BY <2>4, <3>4, <4>1 DEF MovesOne
      <4>3. QED
        BY <1>1, <3>1, <3>3, <3>4, <4>2
    <3>5. CASE mid.result # "decoded"
      BY <2>4, <3>3, <3>5 DEF MovesOne
    <3>6. QED
      BY <3>4, <3>5
  <2>8. QED
    BY <2>1, <2>5, <2>6, <2>7 DEF MovesOne
<1>4. b + c \in Nat /\ k + m \in Nat
  BY <1>1
<1>5. QED
  BY <1>2, <1>3, <1>4 DEF Moves

LEMMA MovesLess ==
  ASSUME NEW s, NEW b, NEW k, NEW m \in Nat, k <= m, Moves(s, b, k)
  PROVE  Moves(s, b, m)
<1>1. s \in Seq(ReadRecord) /\ b \in Nat /\ k \in Nat
  BY DEF Moves
<1>2. ASSUME NEW data \in Seq(Byte), NEW r \in ReaderType
      PROVE  MovesOne(data, r, ReaderOf(data, r, s), b, m)
  <2> DEFINE after == ReaderOf(data, r, s)
  <2>1. MovesOne(data, r, after, b, k)
    BY DEF Moves
  <2> HIDE DEF after
  <2>2. after \in ReaderType /\ after.skipped <= r.skipped + k
    BY <2>1 DEF MovesOne
  <2>3. after.skipped \in Nat /\ r.skipped \in Nat
    BY <2>2 DEF ReaderType
  <2>4. after.skipped <= r.skipped + m
    BY <1>1, <2>2, <2>3
  <2>5. MovesOne(data, r, after, b, m)
    BY <2>1, <2>4 DEF MovesOne
  <2>6. QED
    BY <2>5 DEF after
<1>3. QED
  BY <1>1, <1>2 DEF Moves

MovesAt(ss, c, e, i) == \E b, k : c[i] = c[i - 1] + b /\ e[i] = e[i - 1] + k /\ Moves(ss[i], b, k)

\* Reads one after the other, with the bytes and the vertices so far in c and e.
LEMMA FlattenMoves ==
  ASSUME NEW n \in Nat, NEW ss \in Seq(Seq(ReadRecord)), Len(ss) = n, NEW c, NEW e,
         c[0] = 0, e[0] = 0, \A i \in 1..n : MovesAt(ss, c, e, i)
  PROVE  Moves(FlattenSeq(ss), c[n], e[n])
<1> DEFINE front(i) == SubSeq(ss, 1, i)
           bad == {i \in 0..n : ~Moves(FlattenSeq(front(i)), c[i], e[i])}
<1>1. front(0) = <<>> /\ front(n) = ss
  BY PrefixFacts
<1>2. 0 \notin bad
  <2>1. FlattenSeq(front(0)) = <<>>
    BY <1>1, FlattenOfNone
  <2>2. Moves(FlattenSeq(front(0)), c[0], e[0])
    BY <2>1, MovesNothing
  <2>3. QED
    BY <2>2
<1>3. bad = {}
  <2> SUFFICES ASSUME bad # {} PROVE FALSE
    OBVIOUS
  <2>1. bad \subseteq 0..n
    OBVIOUS
  <2>2. PICK i \in bad : i \in 1..n /\ i - 1 \in 0..n /\ i - 1 \notin bad
    <3> HIDE DEF bad
    <3>1. QED
      BY <1>2, <2>1, FirstBad
  <2> DEFINE f == front(i - 1)
             x == ss[i]
  <2>3. Moves(FlattenSeq(f), c[i - 1], e[i - 1]) /\ ~Moves(FlattenSeq(front(i)), c[i], e[i])
    BY <2>2
  <2>4. front(i) = Append(f, x) /\ f \in Seq(Seq(ReadRecord)) /\ x \in Seq(ReadRecord)
    BY <2>2, PrefixFacts
  <2> HIDE DEF f, front, bad
  <2>5. FlattenSeq(Append(f, x)) = FlattenSeq(f) \o x
    <3> HIDE DEF x
    <3>1. QED
      BY <2>4, FlattenAppend
  <2>6. PICK b, k : c[i] = c[i - 1] + b /\ e[i] = e[i - 1] + k /\ Moves(x, b, k)
    BY <2>2 DEF MovesAt
  <2> HIDE DEF x
  <2>7. Moves(FlattenSeq(f) \o x, c[i - 1] + b, e[i - 1] + k)
    BY <2>3, <2>6, MovesOn
  <2>8. QED
    BY <2>3, <2>4, <2>5, <2>6, <2>7
<1>4. n \in 0..n
  OBVIOUS
<1>5. Moves(FlattenSeq(front(n)), c[n], e[n])
  BY <1>3, <1>4
<1>6. QED
  BY <1>1, <1>5

LEMMA AttributeMoves ==
  ASSUME NEW kind \in {"position", "index"}, NEW d \in 0..3, NEW size \in Nat,
         NEW k, k = IF kind = "position" THEN 1 ELSE 0
  PROVE  Moves(AttributeReads(kind, d, size), AttributeSize(d, size), k)
<1>1. CASE d = 0
  <2>1. AttributeReads(kind, d, size) = <<>> /\ AttributeSize(d, size) = 0
    BY <1>1 DEF AttributeReads, AttributeSize
  <2>2. k \in Nat /\ 0 <= k
    OBVIOUS
  <2>3. Moves(<<>>, 0, k)
    BY <2>2, MovesNothing, MovesLess
  <2>4. QED
    BY <2>1, <2>3
<1>2. CASE d = 1
  <2> DEFINE read == [kind |-> "direct", bytes |-> size]
  <2>1. AttributeReads(kind, d, size) = <<read>> /\ AttributeSize(d, size) = size
    BY <1>2 DEF AttributeReads, AttributeSize, Direct
  <2>2. read \in ReadRecord /\ read.kind = "direct" /\ read.bytes = size
    BY DEF ReadRecord
  <2> HIDE DEF read
  <2>3. Moves(<<read>>, size, 0)
    BY <2>2, MovesRead
  <2>4. k \in Nat /\ 0 <= k
    OBVIOUS
  <2>5. Moves(<<read>>, size, k)
    BY <2>3, <2>4, MovesLess
  <2>6. QED
    BY <2>1, <2>5
<1>3. CASE d \in {2, 3}
  <2> DEFINE read == [kind |-> kind, bytes |-> d - 1]
  <2>1. AttributeReads(kind, d, size) = <<read>> /\ AttributeSize(d, size) = d - 1
    BY <1>3 DEF AttributeReads, AttributeSize
  <2>2. read \in ReadRecord /\ read.kind = kind /\ read.bytes = d - 1
    BY <1>3 DEF ReadRecord
  <2> HIDE DEF read
  <2>3. Moves(<<read>>, d - 1, k)
    BY <2>2, MovesRead
  <2>4. QED
    BY <2>1, <2>3
<1>4. QED
  BY <1>1, <1>2, <1>3

\* A byte for each matrix.
LEMMA MatricesMove ==
  ASSUME NEW low, Cardinality(low.matrices) \in Nat
  PROVE  Moves(MatrixReads(low), Cardinality(low.matrices), 0)
<1> DEFINE n == Cardinality(low.matrices)
           reads == [i \in 1..n |-> Direct(1)[1]]
           one == [kind |-> "direct", bytes |-> 1]
           front(i) == SubSeq(reads, 1, i)
           bad == {i \in 0..n : ~Moves(front(i), i, 0)}
<1>1. MatrixReads(low) = reads /\ n \in Nat
  BY DEF MatrixReads
<1>2. Direct(1)[1] = one /\ one \in ReadRecord /\ one.kind = "direct" /\ one.bytes = 1
  BY DEF Direct, ReadRecord
<1> HIDE DEF n, one
<1>3. reads \in Seq(ReadRecord) /\ Len(reads) = n /\ \A i \in 1..n : reads[i] = one
  BY <1>1, <1>2
<1> HIDE DEF reads
<1>4. front(0) = <<>> /\ front(n) = reads
  BY <1>3, PrefixFacts
<1>5. 0 \notin bad
  BY <1>4, MovesNothing
<1>6. bad = {}
  <2> SUFFICES ASSUME bad # {} PROVE FALSE
    OBVIOUS
  <2>1. bad \subseteq 0..n
    OBVIOUS
  <2>2. PICK i \in bad : i \in 1..n /\ i - 1 \in 0..n /\ i - 1 \notin bad
    <3> HIDE DEF bad
    <3>1. QED
      BY <1>1, <1>5, <2>1, FirstBad
  <2> DEFINE f == front(i - 1)
  <2>3. Moves(f, i - 1, 0) /\ ~Moves(front(i), i, 0)
    BY <2>2
  <2>4. front(i) = Append(f, one) /\ f \in Seq(ReadRecord)
    BY <1>3, <2>2, PrefixFacts
  <2> HIDE DEF f, front, bad
  <2>5. Append(f, one) = f \o <<one>>
    BY <1>2, <2>4, AppendProperties
  <2>6. Moves(<<one>>, 1, 0)
    BY <1>2, MovesRead
  <2>7. Moves(f \o <<one>>, (i - 1) + 1, 0 + 0)
    BY <2>3, <2>6, MovesOn
  <2>8. (i - 1) + 1 = i /\ 0 + 0 = 0
    BY <2>2
  <2>9. QED
    BY <2>3, <2>4, <2>5, <2>7, <2>8
<1>7. n \in 0..n
  BY <1>1
<1>8. Moves(front(n), n, 0)
  BY <1>6, <1>7
<1>9. QED
  BY <1>1, <1>4, <1>8 DEF n

\* Pieces that skip no vertex, with their sizes.
LEMMA PiecesMove ==
  ASSUME NEW n \in Nat, NEW ss, DOMAIN ss = 1..n, ss = [i \in 1..n |-> ss[i]],
         NEW sizes \in Seq(Nat), Len(sizes) = n, \A i \in 1..n : Moves(ss[i], sizes[i], 0)
  PROVE  Moves(FlattenSeq(ss), FoldLeft(+, 0, sizes), 0)
<1>1. PICK c : Sums(c, sizes, n)
  BY SumsUp
<1> DEFINE e == [i \in 0..n |-> 0]
<1>2. e[0] = 0 /\ e[n] = 0 /\ \A i \in 1..n : e[i] = e[i - 1] + 0
  OBVIOUS
<1> HIDE DEF e
<1>3. c[0] = 0 /\ c[n] = FoldLeft(+, 0, sizes)
  BY <1>1 DEF Sums
<1>4. \A i \in 1..n : c[i] = c[i - 1] + sizes[i]
  BY <1>1 DEF Sums
<1>5. \A i \in 1..n : MovesAt(ss, c, e, i)
  BY <1>2, <1>4 DEF MovesAt
<1>6. ss \in Seq(Seq(ReadRecord)) /\ Len(ss) = n
  <2>1. \A i \in 1..n : ss[i] \in Seq(ReadRecord)
    BY DEF Moves
  <2>2. QED
    BY <2>1
<1>7. Moves(FlattenSeq(ss), c[n], e[n])
  BY <1>2, <1>3, <1>5, <1>6, FlattenMoves
<1>8. QED
  BY <1>2, <1>3, <1>7

LEMMA NormalMoves ==
  ASSUME NEW low \in FieldRecord, NEW g0 \in FieldRecord
  PROVE  Moves(NormalReads(low, g0), NormalSize(low, g0), 0)
<1> DEFINE size == FormatSize(g0.normalFormat) * (IF g0.ntb THEN 9 ELSE 3)
<1>1. low.normal \in 0..3 /\ size \in Nat
  <2>1. low.normal \in 0..3 /\ g0.normalFormat \in 0..7
    BY DEF FieldRecord
  <2>2. FormatSize(g0.normalFormat) \in {1, 2, 4}
    BY <2>1, SizesAreNat
  <2>3. QED
    BY <2>1, <2>2
<1>2. CASE low.normal \in {2, 3} /\ g0.ntb /\ g0.index3
  <2> DEFINE reads == AttributeReads("index", low.normal, 0)
             d == low.normal - 1
             ss == [i \in 1..3 |-> reads]
  <2>1. NormalReads(low, g0) = FlattenSeq(ss)
    BY <1>2 DEF NormalReads
  <2>2. NormalSize(low, g0) = d + d + d
    BY <1>1, <1>2 DEF NormalSize
  <2>3. Moves(reads, AttributeSize(low.normal, 0), 0)
    BY <1>1, AttributeMoves
  <2>4. AttributeSize(low.normal, 0) = d /\ d \in Nat
    BY <1>1, <1>2 DEF AttributeSize
  <2> HIDE DEF reads, d
  <2>5. reads \in Seq(ReadRecord)
    BY <2>3 DEF Moves
  <2> DEFINE c == [i \in 0..3 |-> IF i = 0 THEN 0 ELSE IF i = 1 THEN d ELSE IF i = 2 THEN d + d ELSE d + d + d]
             e == [i \in 0..3 |-> 0]
  <2>6. ASSUME NEW i \in 1..3 PROVE MovesAt(ss, c, e, i)
    <3>1. ss[i] = reads /\ e[i] = e[i - 1] + 0
      OBVIOUS
    <3>2. c[i] = c[i - 1] + d
      BY <2>4
    <3>3. Moves(ss[i], d, 0)
      BY <2>3, <2>4, <3>1
    <3> HIDE DEF ss, c, e
    <3>4. QED
      BY <3>1, <3>2, <3>3 DEF MovesAt
  <2>7. ss \in Seq(Seq(ReadRecord)) /\ Len(ss) = 3
    BY <2>5
  <2>8. c[0] = 0 /\ e[0] = 0 /\ c[3] = d + d + d /\ e[3] = 0
    OBVIOUS
  <2> HIDE DEF ss, c, e
  <2>9. Moves(FlattenSeq(ss), c[3], e[3])
    BY <2>6, <2>7, <2>8, FlattenMoves
  <2>10. QED
    BY <2>1, <2>2, <2>8, <2>9
<1>3. CASE ~(low.normal \in {2, 3} /\ g0.ntb /\ g0.index3)
  <2>1. NormalReads(low, g0) = AttributeReads("index", low.normal, size)
    BY <1>3 DEF NormalReads
  <2>2. NormalSize(low, g0) = AttributeSize(low.normal, size)
    <3>1. CASE low.normal <= 1
      BY <3>1 DEF NormalSize
    <3>2. CASE ~(low.normal <= 1)
      <4>1. low.normal \in {2, 3} /\ ~(g0.ntb /\ g0.index3)
        BY <1>1, <1>3, <3>2
      <4>2. NormalSize(low, g0) = low.normal - 1
        BY <1>1, <3>2, <4>1 DEF NormalSize
      <4>3. AttributeSize(low.normal, size) = low.normal - 1
        BY <4>1 DEF AttributeSize
      <4>4. QED
        BY <4>2, <4>3
    <3>3. QED
      BY <3>1, <3>2
  <2> HIDE DEF size
  <2>3. Moves(AttributeReads("index", low.normal, size), AttributeSize(low.normal, size), 0)
    BY <1>1, AttributeMoves
  <2>4. QED
    BY <2>1, <2>2, <2>3
<1>4. QED
  BY <1>2, <1>3

LEMMA ColorsMove ==
  ASSUME NEW low \in FieldRecord, NEW g0 \in FieldRecord
  PROVE  Moves(ColorReads(low, g0),
               AttributeSize(low.color[1], ColorSize(g0.colorFormat[1]))
                 + AttributeSize(low.color[2], ColorSize(g0.colorFormat[2])), 0)
<1> DEFINE ColorRead(k) == AttributeReads("index", low.color[k], ColorSize(g0.colorFormat[k]))
           Size(k) == AttributeSize(low.color[k], ColorSize(g0.colorFormat[k]))
           ss == [k \in 1..2 |-> ColorRead(k)]
           a == Size(1)
           b == Size(2)
           c == [i \in 0..2 |-> IF i = 0 THEN 0 ELSE IF i = 1 THEN a ELSE a + b]
           e == [i \in 0..2 |-> 0]
<1>1. ColorReads(low, g0) = FlattenSeq(ss)
  BY DEF ColorReads
<1>2. ASSUME NEW k \in 1..2 PROVE Moves(ColorRead(k), Size(k), 0)
  <2>1. low.color[k] \in 0..3 /\ g0.colorFormat[k] \in 0..7
    BY DEF FieldRecord
  <2>2. ColorSize(g0.colorFormat[k]) \in Nat
    BY <2>1, SizesAreNat
  <2>3. QED
    BY <2>1, <2>2, AttributeMoves
<1> HIDE DEF ColorRead, Size
<1>3. ASSUME NEW k \in 1..2 PROVE ColorRead(k) \in Seq(ReadRecord) /\ Size(k) \in Nat
  BY <1>2 DEF Moves
<1>4. a \in Nat /\ b \in Nat
  BY <1>3
<1>5. ASSUME NEW i \in 1..2 PROVE MovesAt(ss, c, e, i)
  <2>1. ss[i] = ColorRead(i) /\ e[i] = e[i - 1] + 0
    OBVIOUS
  <2>2. c[i] = c[i - 1] + Size(i)
    <3>1. a = Size(1) /\ b = Size(2)
      OBVIOUS
    <3> HIDE DEF a, b
    <3>2. i = 1 \/ i = 2
      OBVIOUS
    <3>3. c[0] = 0 /\ c[1] = a /\ c[2] = a + b
      OBVIOUS
    <3>4. QED
      BY <1>4, <3>1, <3>2, <3>3
  <2>3. Moves(ss[i], Size(i), 0)
    BY <1>2, <2>1
  <2> HIDE DEF ss, c, e, a, b
  <2>4. QED
    BY <2>1, <2>2, <2>3 DEF MovesAt
<1>6. ss \in Seq(Seq(ReadRecord)) /\ Len(ss) = 2
  BY <1>3
<1>7. c[0] = 0 /\ e[0] = 0 /\ c[2] = a + b /\ e[2] = 0
  OBVIOUS
<1> HIDE DEF ss, c, e, a, b
<1>8. Moves(FlattenSeq(ss), c[2], e[2])
  BY <1>5, <1>6, <1>7, FlattenMoves
<1>9. QED
  BY <1>1, <1>7, <1>8 DEF a, b, Size

TextureSize(high, vat, t) ==
  AttributeSize(high.texture[t], FormatSize(vat[TextureGroup(t)].textureFormat[t])
                                   * (vat[TextureGroup(t)].textureElements[t] + 1))

LEMMA TexturesMove ==
  ASSUME NEW high \in FieldRecord, NEW vat \in [0..2 -> FieldRecord]
  PROVE  Moves(TextureReads(high, vat), FoldLeft(+, 0, [i \in 1..8 |-> TextureSize(high, vat, i - 1)]), 0)
<1> DEFINE Piece(t) == AttributeReads("index", high.texture[t],
                         FormatSize(vat[TextureGroup(t)].textureFormat[t])
                           * (vat[TextureGroup(t)].textureElements[t] + 1))
           ss == [i \in 1..8 |-> Piece(i - 1)]
           sizes == [i \in 1..8 |-> TextureSize(high, vat, i - 1)]
<1>1. TextureReads(high, vat) = FlattenSeq(ss)
  BY DEF TextureReads
<1>2. ASSUME NEW t \in 0..7 PROVE Moves(Piece(t), TextureSize(high, vat, t), 0)
  <2> DEFINE g == vat[TextureGroup(t)]
             size == FormatSize(g.textureFormat[t]) * (g.textureElements[t] + 1)
  <2>1. g \in FieldRecord
    BY DEF TextureGroup
  <2>2. g.textureFormat[t] \in 0..7 /\ g.textureElements[t] \in 0..1 /\ high.texture[t] \in 0..3
    BY <2>1 DEF FieldRecord
  <2>3. size \in Nat
    <3> HIDE DEF g
    <3>1. FormatSize(g.textureFormat[t]) \in {1, 2, 4}
      BY <2>2, SizesAreNat
    <3>2. QED
      BY <2>2, <3>1
  <2>4. Piece(t) = AttributeReads("index", high.texture[t], size)
    OBVIOUS
  <2>5. TextureSize(high, vat, t) = AttributeSize(high.texture[t], size)
    BY DEF TextureSize
  <2> HIDE DEF size, Piece
  <2>6. Moves(AttributeReads("index", high.texture[t], size), AttributeSize(high.texture[t], size), 0)
    BY <2>2, <2>3, AttributeMoves
  <2>7. QED
    BY <2>4, <2>5, <2>6
<1> HIDE DEF Piece
<1>3. ASSUME NEW i \in 1..8 PROVE Moves(ss[i], sizes[i], 0)
  <2>1. i - 1 \in 0..7
    OBVIOUS
  <2>2. QED
    BY <1>2, <2>1
<1>4. sizes \in Seq(Nat) /\ Len(sizes) = 8
  <2>1. \A i \in 1..8 : sizes[i] \in Nat
    BY <1>3 DEF Moves
  <2>2. QED
    BY <2>1
<1>5. DOMAIN ss = 1..8 /\ ss = [i \in 1..8 |-> ss[i]] /\ 8 \in Nat
  OBVIOUS
<1> HIDE DEF ss, sizes
<1>6. Moves(FlattenSeq(ss), FoldLeft(+, 0, sizes), 0)
  BY <1>3, <1>4, <1>5, PiecesMove
<1>7. QED
  BY <1>1, <1>6 DEF sizes

\* The processor's registers as the backend's would have them.
RegsOf(cp) ==
  [low |-> cp[VcdLow], high |-> cp[VcdHigh],
   vat |-> [v \in 0..7 |-> [g \in 0..2 |-> cp[VatRegister(g, v)]]]]

\* The registers are as many as the layout of a vertex needs.
LEMMA LayoutRegisters ==
  /\ VcdLow \in CpRegisters /\ VcdHigh \in CpRegisters
  /\ \A v \in 0..7, g \in 0..2 : VatRegister(g, v) \in CpRegisters
BY RegisterAssumption

LEMMA RegsOfTyped ==
  ASSUME NEW cp \in [CpRegisters -> Units]
  PROVE  RegsOf(cp) \in RegsType
<1>1. cp[VcdLow] \in Units /\ cp[VcdHigh] \in Units
  BY LayoutRegisters
<1>2. \A v \in 0..7, g \in 0..2 : cp[VatRegister(g, v)] \in Units
  BY LayoutRegisters
<1>3. QED
  BY <1>1, <1>2 DEF RegsOf, RegsType

\* The processor counts the bytes of a vertex that the loader reads.
LEMMA VertexMoves ==
  ASSUME NEW cp \in [CpRegisters -> Units], NEW vat \in 0..7
  PROVE  Moves(VertexReads(cp, vat), GetVertexSize(RegsOf(cp), vat), 1)
<1> DEFINE r == RegsOf(cp)
           groups == [g \in 0..2 |-> Fields[cp[VatRegister(g, vat)]]]
           low == Fields[cp[VcdLow]]
           high == Fields[cp[VcdHigh]]
           g0 == groups[0]
           sizes == [i \in 1..8 |-> TextureSize(high, groups, i - 1)]
           matrices == Cardinality(low.matrices)
           position == AttributeSize(low.position, FormatSize(g0.positionFormat) * g0.positionElements)
           normal == NormalSize(low, g0)
           color1 == AttributeSize(low.color[1], ColorSize(g0.colorFormat[1]))
           color2 == AttributeSize(low.color[2], ColorSize(g0.colorFormat[2]))
           textures == FoldLeft(+, 0, sizes)
<1>1. low \in FieldRecord /\ high \in FieldRecord /\ matrices \in Nat
  BY FieldsTyped, LayoutRegisters
<1>2. groups \in [0..2 -> FieldRecord]
  <2>1. \A g \in 0..2 : Fields[cp[VatRegister(g, vat)]] \in FieldRecord
    BY FieldsTyped, LayoutRegisters
  <2>2. QED
    BY <2>1
<1>3. g0 \in FieldRecord
  BY <1>2
<1>4. VertexReads(cp, vat) = MatrixReads(low) \o PositionReads(low, g0) \o NormalReads(low, g0)
                               \o ColorReads(low, g0) \o TextureReads(high, groups)
  BY DEF VertexReads
<1>5. GetVertexSize(r, vat) = matrices + position + normal + color1 + color2 + textures
  <2>1. r.low = cp[VcdLow] /\ r.high = cp[VcdHigh]
    BY DEF RegsOf
  <2>2. \A g \in 0..2 : r.vat[vat][g] = cp[VatRegister(g, vat)]
    BY DEF RegsOf
  <2>3. \A g \in 0..2 : Fields[r.vat[vat][g]] = groups[g]
    BY <2>2
  <2>4. \A t \in 0..7 : TextureGroup(t) \in 0..2
    BY DEF TextureGroup
  <2> DEFINE Group(g) == Fields[r.vat[vat][g]]
             Size(t) == AttributeSize(high.texture[t], FormatSize(Group(TextureGroup(t)).textureFormat[t])
                                                         * (Group(TextureGroup(t)).textureElements[t] + 1))
             others == [i \in 1..8 |-> Size(i - 1)]
  <2> HIDE DEF r, groups, low, high
  <2>5. \A t \in 0..7 : Size(t) = TextureSize(high, groups, t)
    BY <2>3, <2>4 DEF TextureSize
  <2>6. others = sizes
    <3> HIDE DEF Size, Group
    <3>1. \A i \in 1..8 : i - 1 \in 0..7
      OBVIOUS
    <3>2. QED
      BY <2>5, <3>1
  <2>7. GetVertexSize(r, vat) =
          Cardinality(Fields[r.low].matrices)
           + AttributeSize(Fields[r.low].position, FormatSize(Group(0).positionFormat) * Group(0).positionElements)
           + NormalSize(Fields[r.low], Group(0))
           + AttributeSize(Fields[r.low].color[1], ColorSize(Group(0).colorFormat[1]))
           + AttributeSize(Fields[r.low].color[2], ColorSize(Group(0).colorFormat[2]))
           + FoldLeft(+, 0, [i \in 1..8 |->
               AttributeSize(Fields[r.high].texture[i - 1],
                 FormatSize(Group(TextureGroup(i - 1)).textureFormat[i - 1])
                   * (Group(TextureGroup(i - 1)).textureElements[i - 1] + 1))])
    BY DEF GetVertexSize
  <2>8. Fields[r.low] = low /\ Fields[r.high] = high /\ Group(0) = g0
    BY <2>1, <2>3 DEF low, high
  <2>9. QED
    BY <2>6, <2>7, <2>8
<1> HIDE DEF r, groups, low, high, g0, sizes
<1>6. Moves(MatrixReads(low), matrices, 0)
  BY <1>1, MatricesMove
<1>7. Moves(PositionReads(low, g0), position, 1)
  <2> DEFINE size == FormatSize(g0.positionFormat) * g0.positionElements
  <2>1. low.position \in 0..3 /\ g0.positionFormat \in 0..7 /\ g0.positionElements \in 2..3
    BY <1>1, <1>3 DEF FieldRecord
  <2>2. size \in Nat
    <3>1. FormatSize(g0.positionFormat) \in {1, 2, 4}
      BY <2>1, SizesAreNat
    <3>2. QED
      BY <2>1, <3>1
  <2>3. PositionReads(low, g0) = AttributeReads("position", low.position, size)
    BY DEF PositionReads
  <2>4. position = AttributeSize(low.position, size)
    OBVIOUS
  <2> HIDE DEF size, position
  <2>5. Moves(AttributeReads("position", low.position, size), AttributeSize(low.position, size), 1)
    BY <2>1, <2>2, AttributeMoves
  <2>6. QED
    BY <2>3, <2>4, <2>5
<1>8. Moves(NormalReads(low, g0), normal, 0)
  BY <1>1, <1>3, NormalMoves
<1>9. Moves(ColorReads(low, g0), color1 + color2, 0)
  BY <1>1, <1>3, ColorsMove
<1>10. Moves(TextureReads(high, groups), textures, 0)
  BY <1>1, <1>2, TexturesMove DEF sizes
<1> HIDE DEF matrices, position, normal, color1, color2, textures
<1>11. color1 \in Nat /\ color2 \in Nat
  <2>1. /\ low.color[1] \in 0..3 /\ g0.colorFormat[1] \in 0..7
        /\ low.color[2] \in 0..3 /\ g0.colorFormat[2] \in 0..7
    BY <1>1, <1>3 DEF FieldRecord
  <2>2. ColorSize(g0.colorFormat[1]) \in Nat /\ ColorSize(g0.colorFormat[2]) \in Nat
    BY <2>1, SizesAreNat
  <2>3. QED
    BY <2>1, <2>2, SizesAreNat DEF color1, color2
<1> DEFINE a == MatrixReads(low)
           b == PositionReads(low, g0)
           c == NormalReads(low, g0)
           d == ColorReads(low, g0)
           e == TextureReads(high, groups)
<1>12. VertexReads(cp, vat) = (((a \o b) \o c) \o d) \o e
  BY <1>4
<1> HIDE DEF a, b, c, d, e
<1>13. Moves(a \o b, matrices + position, 0 + 1)
  BY <1>6, <1>7, MovesOn DEF a, b
<1>14. Moves((a \o b) \o c, (matrices + position) + normal, (0 + 1) + 0)
  BY <1>8, <1>13, MovesOn DEF c
<1>15. Moves(((a \o b) \o c) \o d, ((matrices + position) + normal) + (color1 + color2), ((0 + 1) + 0) + 0)
  BY <1>9, <1>14, MovesOn DEF d
<1>16. Moves((((a \o b) \o c) \o d) \o e,
             (((matrices + position) + normal) + (color1 + color2)) + textures, (((0 + 1) + 0) + 0) + 0)
  BY <1>10, <1>15, MovesOn DEF e
<1>17. (((0 + 1) + 0) + 0) + 0 = 1
  OBVIOUS
<1>18. (((matrices + position) + normal) + (color1 + color2)) + textures
         = matrices + position + normal + color1 + color2 + textures
  <2>1. matrices \in Nat /\ position \in Nat /\ normal \in Nat /\ textures \in Nat
    BY <1>6, <1>7, <1>8, <1>10 DEF Moves
  <2>2. QED
    BY <1>11, <2>1
<1>19. QED
  BY <1>5, <1>12, <1>16, <1>17, <1>18 DEF r

\* The reads of so many vertices.
AllReads(cp, vat, count) == FlattenSeq([v \in 1..count |-> VertexReads(cp, vat)])

LEMMA AllReadsMove ==
  ASSUME NEW cp \in [CpRegisters -> Units], NEW vat \in 0..7, NEW count \in Nat
  PROVE  Moves(AllReads(cp, vat, count), count * GetVertexSize(RegsOf(cp), vat), count)
<1> DEFINE b == GetVertexSize(RegsOf(cp), vat)
           one == VertexReads(cp, vat)
           ss == [v \in 1..count |-> one]
           c == [i \in 0..count |-> i * b]
           e == [i \in 0..count |-> i]
<1>1. Moves(one, b, 1)
  BY VertexMoves
<1>2. AllReads(cp, vat, count) = FlattenSeq(ss)
  BY DEF AllReads
<1> HIDE DEF one, b
<1>3. one \in Seq(ReadRecord) /\ b \in Nat
  BY <1>1 DEF Moves
<1>4. ss \in Seq(Seq(ReadRecord)) /\ Len(ss) = count
  BY <1>3
<1>5. ASSUME NEW i \in 1..count PROVE MovesAt(ss, c, e, i)
  <2>1. ss[i] = one
    OBVIOUS
  <2>2. e[i] = e[i - 1] + 1
    OBVIOUS
  <2>3. c[i] = c[i - 1] + b
    <3>1. c[i] = i * b /\ c[i - 1] = (i - 1) * b
      OBVIOUS
    <3>2. i * b = (i - 1) * b + b
      BY <1>3
    <3>3. QED
      BY <3>1, <3>2
  <2> HIDE DEF ss, c, e
  <2>4. QED
    BY <1>1, <2>1, <2>2, <2>3 DEF MovesAt
<1>6. c[0] = 0 /\ e[0] = 0 /\ c[count] = count * b /\ e[count] = count
  BY <1>3
<1> HIDE DEF ss, c, e
<1>7. Moves(FlattenSeq(ss), c[count], e[count])
  BY <1>4, <1>5, <1>6, FlattenMoves
<1>8. QED
  BY <1>2, <1>6, <1>7 DEF b

\* A draw has the primitives of the vertices that were kept, or none of either.
Kept(decoded, primitive, kept) ==
  /\ kept \in Nat /\ decoded.vertices = kept
  /\ \/ decoded.primitives = <<>> /\ kept = 0
     \/ decoded.primitives = AddIndices(primitive, kept)

\* What is read of a draw: the vertices that are kept, and whether they were read at all.
LEMMA DrawIsRead ==
  ASSUME NEW cp \in [CpRegisters -> Units], NEW packet,
         packet.vat \in 0..7, packet.count \in Nat, packet.data \in Seq(Byte)
  PROVE  LET decoded == Decode(packet, cp)
         IN /\ \E kept : Kept(decoded, packet.primitive, kept)
            /\ Len(packet.data) = packet.count * GetVertexSize(RegsOf(cp), packet.vat) =>
                 decoded.result \in {"decoded", "unresolved"}
<1> DEFINE data == packet.data
           vat == packet.vat
           count == packet.count
           reads == AllReads(cp, vat, count)
           b == count * GetVertexSize(RegsOf(cp), vat)
           reader == ReaderOf(data, BlankReader, reads)
           kept == count - reader.skipped
           decoded == Decode(packet, cp)
           old == ReadAll(packet.data, FlattenSeq([v \in 1..packet.count |-> VertexReads(cp, packet.vat)]))
<1>1. Moves(reads, b, count)
  BY AllReadsMove
<1>2. BlankReader \in ReaderType /\ BlankReader.skipped = 0 /\ BlankReader.offset = 0 /\ BlankReader.result = "decoded"
  BY DEF BlankReader, ReaderType
<1>3. old = reader
  <2>1. FlattenSeq([v \in 1..packet.count |-> VertexReads(cp, packet.vat)]) = reads
    BY DEF AllReads
  <2>2. reads \in Seq(ReadRecord)
    BY <1>1 DEF Moves
  <2> HIDE DEF reads
  <2>3. ReadAll(data, reads) = reader
    BY <2>2, ReadsFold DEF ReaderOf
  <2>4. QED
    BY <2>1, <2>3
<1>4. MovesOne(data, BlankReader, reader, b, count)
  <2> HIDE DEF reads, b, reader
  <2>1. MovesOne(data, BlankReader, ReaderOf(data, BlankReader, reads), b, count)
    BY <1>1, <1>2 DEF Moves
  <2>2. QED
    BY <2>1 DEF reader
<1>5. decoded = CASE old.result # "decoded" -> [result |-> old.result, vertices |-> 0, primitives |-> <<>>]
                  [] old.result = "decoded" /\ old.offset # Len(packet.data) ->
                       [result |-> "left over", vertices |-> 0, primitives |-> <<>>]
                  [] OTHER -> [result |-> "decoded", vertices |-> packet.count - old.skipped,
                               primitives |-> AddIndices(packet.primitive, packet.count - old.skipped)]
  BY DEF Decode
<1>6. b \in Nat /\ count \in Nat /\ Len(data) \in Nat
  BY <1>1 DEF Moves
<1> HIDE DEF reads, b, reader, old
<1>7. /\ reader \in ReaderType /\ reader.skipped >= 0 /\ reader.skipped <= 0 + count
      /\ 0 + b <= Len(data) => reader.result # "short" /\ (reader.result = "decoded" => reader.offset = 0 + b)
  BY <1>2, <1>4 DEF MovesOne
<1>8. kept \in Nat
  <2>1. reader.skipped \in Nat
    BY <1>7 DEF ReaderType
  <2>2. QED
    BY <1>6, <1>7, <2>1
<1>9. CASE reader.result # "decoded"
  <2>1. decoded = [result |-> reader.result, vertices |-> 0, primitives |-> <<>>]
    BY <1>3, <1>5, <1>9
  <2> HIDE DEF decoded
  <2>2. Len(data) = b => decoded.result \in {"decoded", "unresolved"}
    BY <1>6, <1>7, <1>9, <2>1 DEF ReaderType
  <2>3. Kept(decoded, packet.primitive, 0)
    BY <2>1 DEF Kept
  <2>4. QED
    BY <2>2, <2>3 DEF b, decoded
<1>10. CASE reader.result = "decoded" /\ reader.offset # Len(data)
  <2>1. decoded = [result |-> "left over", vertices |-> 0, primitives |-> <<>>]
    BY <1>3, <1>5, <1>10
  <2> HIDE DEF decoded
  <2>2. Len(data) # b
    BY <1>6, <1>7, <1>10
  <2>3. Kept(decoded, packet.primitive, 0)
    BY <2>1 DEF Kept
  <2>4. QED
    BY <2>2, <2>3 DEF b, decoded
<1>11. CASE reader.result = "decoded" /\ reader.offset = Len(data)
  <2>1. decoded = [result |-> "decoded", vertices |-> packet.count - reader.skipped,
                   primitives |-> AddIndices(packet.primitive, packet.count - reader.skipped)]
    BY <1>3, <1>5, <1>11
  <2>2. packet.count - reader.skipped = kept
    OBVIOUS
  <2> HIDE DEF decoded, kept
  <2>3. decoded = [result |-> "decoded", vertices |-> kept, primitives |-> AddIndices(packet.primitive, kept)]
    BY <2>1, <2>2
  <2>4. Kept(decoded, packet.primitive, kept) /\ decoded.result = "decoded"
    BY <1>8, <2>3 DEF Kept
  <2>5. QED
    BY <2>4 DEF b, decoded
<1>12. QED
  BY <1>9, <1>10, <1>11

-----------------------------------------------------------------------------
(* The index buffer.                                                       *)

Corners(primitives) == UNION {Range(primitives[i]) : i \in DOMAIN primitives}

LEMMA CornersOf ==
  /\ \A a : Range(<<a>>) = {a}
  /\ \A a, b : Range(<<a, b>>) = {a, b}
  /\ \A a, b, c : Range(<<a, b, c>>) = {a, b, c}
<1>1. ASSUME NEW a PROVE Range(<<a>>) = {a}
  BY DEF Range
<1>2. ASSUME NEW a, NEW b PROVE Range(<<a, b>>) = {a, b}
  <2>1. DOMAIN <<a, b>> = {1, 2} /\ <<a, b>>[1] = a /\ <<a, b>>[2] = b
    OBVIOUS
  <2>2. QED
    BY <2>1 DEF Range
<1>3. ASSUME NEW a, NEW b, NEW c PROVE Range(<<a, b, c>>) = {a, b, c}
  <2>1. DOMAIN <<a, b, c>> = {1, 2, 3} /\ <<a, b, c>>[1] = a /\ <<a, b, c>>[2] = b /\ <<a, b, c>>[3] = c
    OBVIOUS
  <2>2. QED
    BY <2>1 DEF Range
<1>4. QED
  BY <1>1, <1>2, <1>3

\* The primitives have the vertices up to m, and all of them.
CoversTo(primitives, m) ==
  /\ \A k \in DOMAIN primitives : Range(primitives[k]) \subseteq 0..(m - 1)
  /\ \A x \in 0..(m - 1) : \E k \in DOMAIN primitives : x \in Range(primitives[k])

LEMMA CornersAre ==
  ASSUME NEW primitives, NEW m \in Nat, CoversTo(primitives, m)
  PROVE  Corners(primitives) = 0..(m - 1)
BY DEF Corners, CoversTo

LEMMA CornersConcat ==
  ASSUME NEW T, NEW s \in Seq(T), NEW t \in Seq(T)
  PROVE  Corners(s \o t) = Corners(s) \cup Corners(t)
<1> DEFINE n == Len(s)
           m == Len(t)
           st == s \o t
<1>1. /\ n \in Nat /\ m \in Nat /\ DOMAIN s = 1..n /\ DOMAIN t = 1..m
      /\ Len(st) = n + m /\ st \in Seq(T)
      /\ \A i \in 1..(n + m) : st[i] = IF i <= n THEN s[i] ELSE t[i - n]
  BY ConcatProperties
<1>2. DOMAIN st = 1..(n + m)
  BY <1>1
<1> HIDE DEF n, m, st
<1>3. ASSUME NEW x \in Corners(st) PROVE x \in Corners(s) \cup Corners(t)
  <2>1. PICK i \in 1..(n + m) : x \in Range(st[i])
    BY <1>2 DEF Corners
  <2>2. CASE i <= n
    <3>1. i \in 1..n /\ st[i] = s[i]
      BY <1>1, <2>2
    <3>2. QED
      BY <1>1, <2>1, <3>1 DEF Corners
  <2>3. CASE ~(i <= n)
    <3>1. i - n \in 1..m /\ st[i] = t[i - n]
      BY <1>1, <2>3
    <3>2. QED
      BY <1>1, <2>1, <3>1 DEF Corners
  <2>4. QED
    BY <2>2, <2>3
<1>4. ASSUME NEW x \in Corners(s) PROVE x \in Corners(st)
  <2>1. PICK i \in 1..n : x \in Range(s[i])
    BY <1>1 DEF Corners
  <2>2. i \in 1..(n + m) /\ st[i] = s[i]
    BY <1>1
  <2>3. QED
    BY <1>2, <2>1, <2>2 DEF Corners
<1>5. ASSUME NEW x \in Corners(t) PROVE x \in Corners(st)
  <2>1. PICK i \in 1..m : x \in Range(t[i])
    BY <1>1 DEF Corners
  <2> DEFINE j == i + n
  <2>2. j \in 1..(n + m) /\ ~(j <= n) /\ j - n = i
    BY <1>1
  <2> HIDE DEF j
  <2>3. st[j] = t[i]
    BY <1>1, <2>2
  <2>4. QED
    BY <1>2, <2>1, <2>2, <2>3 DEF Corners
<1>6. QED
  BY <1>3, <1>4, <1>5 DEF st

LEMMA QuadHasFour ==
  ASSUME NEW i \in Nat
  PROVE  /\ QuadCorners(i) \in Seq(Seq(Nat))
         /\ Corners(QuadCorners(i)) = {i, i + 1, i + 2, i + 3}
<1> DEFINE a == <<i, i + 1, i + 2>>
           b == <<i, i + 2, i + 3>>
<1>1. QuadCorners(i) = <<a, b>>
  BY DEF QuadCorners, Triangle
<1>2. a \in Seq(Nat) /\ b \in Seq(Nat)
  OBVIOUS
<1>3. Range(a) = {i, i + 1, i + 2} /\ Range(b) = {i, i + 2, i + 3}
  BY CornersOf
<1> HIDE DEF a, b
<1>4. DOMAIN <<a, b>> = {1, 2} /\ <<a, b>>[1] = a /\ <<a, b>>[2] = b /\ <<a, b>> \in Seq(Seq(Nat))
  BY <1>2
<1>5. Corners(<<a, b>>) = Range(a) \cup Range(b)
  BY <1>4 DEF Corners
<1>6. QED
  BY <1>1, <1>3, <1>4, <1>5

LEMMA WholeQuads ==
  ASSUME NEW m \in Nat
  PROVE  LET quads == FlattenSeq([q \in 1..m |-> QuadCorners(4 * (q - 1))])
         IN quads \in Seq(Seq(Nat)) /\ Corners(quads) = 0..(4 * m - 1)
<1> DEFINE ss == [q \in 1..m |-> QuadCorners(4 * (q - 1))]
           front(i) == SubSeq(ss, 1, i)
           Right(i) == /\ FlattenSeq(front(i)) \in Seq(Seq(Nat))
                       /\ Corners(FlattenSeq(front(i))) = 0..(4 * i - 1)
           bad == {i \in 0..m : ~Right(i)}
<1>1. \A q \in 1..m : /\ ss[q] \in Seq(Seq(Nat))
                      /\ Corners(ss[q]) = {4 * (q - 1), 4 * (q - 1) + 1, 4 * (q - 1) + 2, 4 * (q - 1) + 3}
  <2>1. \A q \in 1..m : 4 * (q - 1) \in Nat
    OBVIOUS
  <2>2. QED
    BY <2>1, QuadHasFour
<1>2. ss \in Seq(Seq(Seq(Nat))) /\ Len(ss) = m
  BY <1>1
<1> HIDE DEF ss
<1>3. front(0) = <<>> /\ front(m) = ss
  BY <1>2, PrefixFacts
<1>4. 0 \notin bad
  <2>1. FlattenSeq(front(0)) = <<>>
    BY <1>3, FlattenOfNone
  <2>2. Corners(<<>>) = {} /\ <<>> \in Seq(Seq(Nat)) /\ 0..(4 * 0 - 1) = {}
    BY DEF Corners
  <2>3. QED
    BY <2>1, <2>2
<1>5. bad = {}
  <2> SUFFICES ASSUME bad # {} PROVE FALSE
    OBVIOUS
  <2>1. bad \subseteq 0..m
    OBVIOUS
  <2>2. PICK i \in bad : i \in 1..m /\ i - 1 \in 0..m /\ i - 1 \notin bad
    <3> HIDE DEF bad
    <3>1. QED
      BY <1>4, <2>1, FirstBad
  <2> DEFINE f == front(i - 1)
             x == ss[i]
             j == 4 * (i - 1)
             before == FlattenSeq(f)
  <2>3. before \in Seq(Seq(Nat)) /\ Corners(before) = 0..(j - 1) /\ ~Right(i)
    BY <2>2
  <2>4. front(i) = Append(f, x) /\ f \in Seq(Seq(Seq(Nat))) /\ x \in Seq(Seq(Nat))
    BY <1>2, <2>2, PrefixFacts
  <2>5. Corners(x) = {j, j + 1, j + 2, j + 3}
    BY <1>1, <2>2
  <2>6. j \in Nat /\ 4 * i - 1 = j + 3
    BY <2>2
  <2> HIDE DEF f, x, j
  <2>7. FlattenSeq(Append(f, x)) = before \o x
    BY <2>4, FlattenAppend
  <2> HIDE DEF before
  <2>8. before \o x \in Seq(Seq(Nat))
    BY <2>3, <2>4, ConcatProperties
  <2>9. Corners(before \o x) = (0..(j - 1)) \cup {j, j + 1, j + 2, j + 3}
    <3>1. before \in Seq(Seq(Nat)) /\ x \in Seq(Seq(Nat))
      BY <2>3, <2>4
    <3>2. Corners(before \o x) = Corners(before) \cup Corners(x)
      BY <3>1, CornersConcat
    <3>3. QED
      BY <2>3, <2>5, <3>2
  <2>10. (0..(j - 1)) \cup {j, j + 1, j + 2, j + 3} = 0..(j + 3)
    BY <2>6
  <2>11. QED
    BY <2>3, <2>4, <2>6, <2>7, <2>8, <2>9, <2>10
<1>6. m \in 0..m
  OBVIOUS
<1>7. Right(m)
  BY <1>5, <1>6
<1>8. QED
  BY <1>3, <1>7 DEF ss

\* The corners of the primitives of n vertices are the vertices in whole primitives.
LEMMA QuadsCover ==
  ASSUME NEW n \in Nat
  PROVE  Corners(Quads(n)) = 0..((IF n % 4 = 3 THEN n ELSE n - (n % 4)) - 1)
<1> DEFINE m == n \div 4
           quads == FlattenSeq([q \in 1..m |-> QuadCorners(4 * (q - 1))])
           one == <<n - 3, n - 2, n - 1>>
           last == IF n % 4 = 3 THEN <<one>> ELSE <<>>
<1>1. m \in Nat /\ n % 4 \in 0..3 /\ n = 4 * m + (n % 4)
  OBVIOUS
<1>2. Quads(n) = quads \o last
  BY DEF Quads, Triangle
<1> HIDE DEF m
<1>3. quads \in Seq(Seq(Nat)) /\ Corners(quads) = 0..(4 * m - 1)
  BY <1>1, WholeQuads
<1> HIDE DEF quads
<1>4. CASE n % 4 = 3
  <2>1. n - 3 \in Nat /\ n - 2 \in Nat /\ n - 1 \in Nat /\ n - 3 = 4 * m
    BY <1>1, <1>4
  <2>2. one \in Seq(Nat) /\ Range(one) = {n - 3, n - 2, n - 1}
    BY <2>1, CornersOf
  <2> HIDE DEF one
  <2>3. last = <<one>> /\ last \in Seq(Seq(Nat)) /\ DOMAIN last = {1} /\ last[1] = one
    BY <1>4, <2>2
  <2> HIDE DEF last
  <2>4. Corners(last) = {n - 3, n - 2, n - 1}
    BY <2>2, <2>3 DEF Corners
  <2>5. Corners(quads \o last) = Corners(quads) \cup Corners(last)
    BY <1>3, <2>3, CornersConcat
  <2>6. (0..(4 * m - 1)) \cup {n - 3, n - 2, n - 1} = 0..(n - 1)
    BY <1>1, <2>1
  <2>7. QED
    BY <1>2, <1>3, <1>4, <2>4, <2>5, <2>6
<1>5. CASE n % 4 # 3
  <2>1. last = <<>>
    BY <1>5
  <2>2. quads \o <<>> = quads
    BY <1>3, ConcatEmptySeq
  <2>3. 4 * m - 1 = (n - (n % 4)) - 1
    BY <1>1
  <2>4. QED
    BY <1>2, <1>3, <1>5, <2>1, <2>2, <2>3
<1>6. QED
  BY <1>4, <1>5

LEMMA LinesCover ==
  ASSUME NEW n \in Nat
  PROVE  Corners(AddIndices("Lines", n)) = 0..(n - (n % 2) - 1)
<1> DEFINE m == n \div 2
           lines == [k \in 1..m |-> <<2 * k - 2, 2 * k - 1>>]
           z == n - (n % 2)
<1>1. AddIndices("Lines", n) = lines
  BY DEF AddIndices
<1>2. m \in Nat /\ z = 2 * m
  OBVIOUS
<1> HIDE DEF m, z
<1>3. DOMAIN lines = 1..m /\ \A k \in 1..m : Range(lines[k]) = {2 * k - 2, 2 * k - 1}
  BY CornersOf
<1> HIDE DEF lines
<1>4. \A k \in 1..m : {2 * k - 2, 2 * k - 1} \subseteq 0..(z - 1)
  BY <1>2
<1>5. ASSUME NEW x \in 0..(z - 1) PROVE \E k \in 1..m : x \in {2 * k - 2, 2 * k - 1}
  <2>1. x \div 2 + 1 \in 1..m /\ (x = 2 * (x \div 2 + 1) - 2 \/ x = 2 * (x \div 2 + 1) - 1)
    BY <1>2
  <2>2. QED
    BY <2>1
<1>6. z \in Nat
  BY <1>2
<1>7. CoversTo(lines, z)
  <2>1. \A k \in DOMAIN lines : Range(lines[k]) \subseteq 0..(z - 1)
    BY <1>3, <1>4
  <2>2. ASSUME NEW x \in 0..(z - 1) PROVE \E k \in DOMAIN lines : x \in Range(lines[k])
    BY <1>3, <1>5
  <2>3. QED
    BY <2>1, <2>2 DEF CoversTo
<1>8. Corners(lines) = 0..(z - 1)
  BY <1>6, <1>7, CornersAre
<1>9. QED
  BY <1>1, <1>8 DEF z

LEMMA TrianglesCover ==
  ASSUME NEW n \in Nat
  PROVE  Corners(AddIndices("Triangles", n)) = 0..(n - (n % 3) - 1)
<1> DEFINE m == n \div 3
           triangles == [k \in 1..m |-> <<3 * k - 3, 3 * k - 2, 3 * k - 1>>]
           z == n - (n % 3)
<1>1. AddIndices("Triangles", n) = triangles
  BY DEF AddIndices, Triangle
<1>2. m \in Nat /\ z = 3 * m
  OBVIOUS
<1> HIDE DEF m, z
<1>3. DOMAIN triangles = 1..m /\ \A k \in 1..m : Range(triangles[k]) = {3 * k - 3, 3 * k - 2, 3 * k - 1}
  BY CornersOf
<1> HIDE DEF triangles
<1>4. \A k \in 1..m : {3 * k - 3, 3 * k - 2, 3 * k - 1} \subseteq 0..(z - 1)
  BY <1>2
<1>5. ASSUME NEW x \in 0..(z - 1) PROVE \E k \in 1..m : x \in {3 * k - 3, 3 * k - 2, 3 * k - 1}
  <2> DEFINE k == x \div 3 + 1
  <2>1. k \in 1..m
    BY <1>2
  <2>2. x = 3 * k - 3 \/ x = 3 * k - 2 \/ x = 3 * k - 1
    BY <1>2
  <2> HIDE DEF k
  <2>3. QED
    BY <2>1, <2>2
<1>6. z \in Nat
  BY <1>2
<1>7. CoversTo(triangles, z)
  <2>1. \A k \in DOMAIN triangles : Range(triangles[k]) \subseteq 0..(z - 1)
    BY <1>3, <1>4
  <2>2. ASSUME NEW x \in 0..(z - 1) PROVE \E k \in DOMAIN triangles : x \in Range(triangles[k])
    BY <1>3, <1>5
  <2>3. QED
    BY <2>1, <2>2 DEF CoversTo
<1>8. Corners(triangles) = 0..(z - 1)
  BY <1>6, <1>7, CornersAre
<1>9. QED
  BY <1>1, <1>8 DEF z

LEMMA PointsCover ==
  ASSUME NEW n \in Nat
  PROVE  Corners(AddIndices("Points", n)) = 0..(n - 1)
<1> DEFINE points == [k \in 1..n |-> <<k - 1>>]
<1>1. AddIndices("Points", n) = points
  BY DEF AddIndices
<1>2. DOMAIN points = 1..n /\ \A k \in 1..n : Range(points[k]) = {k - 1}
  BY CornersOf
<1> HIDE DEF points
<1>3. \A k \in 1..n : {k - 1} \subseteq 0..(n - 1)
  OBVIOUS
<1>4. \A x \in 0..(n - 1) : x + 1 \in 1..n /\ x \in {(x + 1) - 1}
  OBVIOUS
<1>5. CoversTo(points, n)
  <2>1. \A k \in DOMAIN points : Range(points[k]) \subseteq 0..(n - 1)
    BY <1>2, <1>3
  <2>2. ASSUME NEW x \in 0..(n - 1) PROVE \E k \in DOMAIN points : x \in Range(points[k])
    BY <1>2, <1>4
  <2>3. QED
    BY <2>1, <2>2 DEF CoversTo
<1>6. Corners(points) = 0..(n - 1)
  BY <1>5, CornersAre
<1>7. QED
  BY <1>1, <1>6

\* Strips and fans: every vertex from the second or third on makes one more primitive.
LEMMA StripsCover ==
  ASSUME NEW n \in Nat, NEW primitive \in {"LineStrip", "TriangleFan", "TriangleStrip"}
  PROVE  Corners(AddIndices(primitive, n))
           = 0..((IF n >= (IF primitive = "LineStrip" THEN 2 ELSE 3) THEN n ELSE 0) - 1)
<1>1. CASE primitive = "LineStrip"
  <2> DEFINE strip == [k \in 1..(n - 1) |-> <<k - 1, k>>]
             z == IF n >= 2 THEN n ELSE 0
  <2>1. AddIndices(primitive, n) = strip
    BY <1>1 DEF AddIndices
  <2>2. DOMAIN strip = 1..(n - 1) /\ \A k \in 1..(n - 1) : Range(strip[k]) = {k - 1, k}
    BY CornersOf
  <2> HIDE DEF strip
  <2>3. \A k \in 1..(n - 1) : {k - 1, k} \subseteq 0..(z - 1)
    OBVIOUS
  <2>4. ASSUME NEW x \in 0..(z - 1) PROVE \E k \in 1..(n - 1) : x \in {k - 1, k}
    <3>1. x = 0 => 1 \in 1..(n - 1) /\ x = 1 - 1
      OBVIOUS
    <3>2. x # 0 => x \in 1..(n - 1)
      OBVIOUS
    <3>3. QED
      BY <3>1, <3>2
  <2>5. z \in Nat
    OBVIOUS
  <2> HIDE DEF z
  <2>6. CoversTo(strip, z)
    <3>1. \A k \in DOMAIN strip : Range(strip[k]) \subseteq 0..(z - 1)
      BY <2>2, <2>3
    <3>2. ASSUME NEW x \in 0..(z - 1) PROVE \E k \in DOMAIN strip : x \in Range(strip[k])
      BY <2>2, <2>4
    <3>3. QED
      BY <3>1, <3>2 DEF CoversTo
  <2>7. Corners(strip) = 0..(z - 1)
    BY <2>5, <2>6, CornersAre
  <2>8. QED
    BY <1>1, <2>1, <2>7 DEF z
<1>2. CASE primitive = "TriangleFan"
  <2> DEFINE fan == [k \in 1..(n - 2) |-> <<0, k, k + 1>>]
             z == IF n >= 3 THEN n ELSE 0
  <2>1. AddIndices(primitive, n) = fan
    BY <1>2 DEF AddIndices, Triangle
  <2>2. DOMAIN fan = 1..(n - 2) /\ \A k \in 1..(n - 2) : Range(fan[k]) = {0, k, k + 1}
    BY CornersOf
  <2> HIDE DEF fan
  <2>3. \A k \in 1..(n - 2) : {0, k, k + 1} \subseteq 0..(z - 1)
    OBVIOUS
  <2>4. ASSUME NEW x \in 0..(z - 1) PROVE \E k \in 1..(n - 2) : x \in {0, k, k + 1}
    <3>1. x <= 1 => 1 \in 1..(n - 2) /\ (x = 0 \/ x = 1)
      OBVIOUS
    <3>2. x > 1 => x - 1 \in 1..(n - 2) /\ x = (x - 1) + 1
      OBVIOUS
    <3>3. QED
      BY <3>1, <3>2
  <2>5. z \in Nat
    OBVIOUS
  <2> HIDE DEF z
  <2>6. CoversTo(fan, z)
    <3>1. \A k \in DOMAIN fan : Range(fan[k]) \subseteq 0..(z - 1)
      BY <2>2, <2>3
    <3>2. ASSUME NEW x \in 0..(z - 1) PROVE \E k \in DOMAIN fan : x \in Range(fan[k])
      BY <2>2, <2>4
    <3>3. QED
      BY <3>1, <3>2 DEF CoversTo
  <2>7. Corners(fan) = 0..(z - 1)
    BY <2>5, <2>6, CornersAre
  <2>8. QED
    BY <1>2, <2>1, <2>7 DEF z
<1>3. CASE primitive = "TriangleStrip"
  <2> DEFINE even(k) == <<k - 1, k, k + 1>>
             odd(k) == <<k, k - 1, k + 1>>
             strip == [k \in 1..(n - 2) |-> IF k % 2 = 1 THEN even(k) ELSE odd(k)]
             z == IF n >= 3 THEN n ELSE 0
  <2>1. AddIndices(primitive, n) = strip
    BY <1>3 DEF AddIndices, Triangle
  <2>2. \A k \in 1..(n - 2) : Range(even(k)) = {k - 1, k, k + 1} /\ Range(odd(k)) = {k - 1, k, k + 1}
    BY CornersOf
  <2> HIDE DEF even, odd
  <2>3. DOMAIN strip = 1..(n - 2) /\ \A k \in 1..(n - 2) : Range(strip[k]) = {k - 1, k, k + 1}
    BY <2>2
  <2> HIDE DEF strip
  <2>4. \A k \in 1..(n - 2) : {k - 1, k, k + 1} \subseteq 0..(z - 1)
    OBVIOUS
  <2>5. ASSUME NEW x \in 0..(z - 1) PROVE \E k \in 1..(n - 2) : x \in {k - 1, k, k + 1}
    <3>1. x <= 1 => 1 \in 1..(n - 2) /\ (x = 1 - 1 \/ x = 1)
      OBVIOUS
    <3>2. x > 1 => x - 1 \in 1..(n - 2) /\ x = (x - 1) + 1
      OBVIOUS
    <3>3. QED
      BY <3>1, <3>2
  <2>6. z \in Nat
    OBVIOUS
  <2> HIDE DEF z
  <2>7. CoversTo(strip, z)
    <3>1. \A k \in DOMAIN strip : Range(strip[k]) \subseteq 0..(z - 1)
      BY <2>3, <2>4
    <3>2. ASSUME NEW x \in 0..(z - 1) PROVE \E k \in DOMAIN strip : x \in Range(strip[k])
      BY <2>3, <2>5
    <3>3. QED
      BY <3>1, <3>2 DEF CoversTo
  <2>8. Corners(strip) = 0..(z - 1)
    BY <2>6, <2>7, CornersAre
  <2>9. QED
    BY <1>3, <2>1, <2>8 DEF z
<1>4. QED
  BY <1>1, <1>2, <1>3

LEMMA IndicesCover ==
  ASSUME NEW n \in Nat, NEW i \in 1..8
  PROVE  Corners(AddIndices(Primitives[i], n)) = 0..(InWholePrimitives(Primitives[i], n) - 1)
<1>1. Primitives[i] \in {"Quads", "Quads2", "Triangles", "TriangleStrip",
                         "TriangleFan", "Lines", "LineStrip", "Points"}
  BY DEF Primitives
<1> DEFINE primitive == Primitives[i]
<1>2. primitive \in {"Quads", "Quads2", "Triangles", "TriangleStrip",
                     "TriangleFan", "Lines", "LineStrip", "Points"}
  BY <1>1
<1> HIDE DEF primitive
<1>3. CASE primitive \in {"Quads", "Quads2"}
  <2>1. AddIndices(primitive, n) = Quads(n)
    BY <1>3 DEF AddIndices
  <2>2. InWholePrimitives(primitive, n) = IF n % 4 = 3 THEN n ELSE n - (n % 4)
    BY <1>3 DEF InWholePrimitives
  <2>3. QED
    BY <2>1, <2>2, QuadsCover DEF primitive
<1>4. CASE primitive = "Lines"
  BY <1>4, LinesCover DEF InWholePrimitives, primitive
<1>5. CASE primitive = "Triangles"
  BY <1>5, TrianglesCover DEF InWholePrimitives, primitive
<1>6. CASE primitive = "Points"
  BY <1>6, PointsCover DEF InWholePrimitives, primitive
<1>7. CASE primitive \in {"LineStrip", "TriangleFan", "TriangleStrip"}
  <2>1. InWholePrimitives(primitive, n) = IF n >= (IF primitive = "LineStrip" THEN 2 ELSE 3) THEN n ELSE 0
    BY <1>7 DEF InWholePrimitives
  <2>2. QED
    BY <1>7, <2>1, StripsCover DEF primitive
<1>8. QED
  BY <1>2, <1>3, <1>4, <1>5, <1>6, <1>7

-----------------------------------------------------------------------------
(* What the commands do to the draws.                                      *)

IsBackend(b) ==
  b = [cp |-> b.cp, xf |-> b.xf, bp |-> b.bp, mask |-> b.mask, device |-> b.device]

\* The registers a vertex is made of stay, and so do the calls.
SameCalls(a, b) == IsBackend(a) /\ a.cp = b.cp /\ a.device = b.device

OneMore(a, b, call) == IsBackend(a) /\ a.cp = b.cp /\ a.device = Append(b.device, call)

LEMMA TellsOneMore ==
  ASSUME NEW b, IsBackend(b), NEW call
  PROVE  OneMore(Tell(b, call), b, call)
<1> DEFINE calls == Append(b.device, call)
           full == [cp |-> b.cp, xf |-> b.xf, bp |-> b.bp, mask |-> b.mask, device |-> b.device]
           after == [cp |-> b.cp, xf |-> b.xf, bp |-> b.bp, mask |-> b.mask, device |-> calls]
<1>1. b = full
  BY DEF IsBackend
<1>2. Tell(b, call) = [b EXCEPT !.device = calls]
  BY DEF Tell
<1> HIDE DEF calls
<1>3. [full EXCEPT !.device = calls] = after
  OBVIOUS
<1>4. Tell(b, call) = after
  BY <1>1, <1>2, <1>3
<1>5. IsBackend(after) /\ after.cp = b.cp /\ after.device = calls
  BY DEF IsBackend
<1> HIDE DEF after
<1>6. QED
  BY <1>4, <1>5 DEF OneMore, calls

LEMMA LoadsKeepCalls ==
  ASSUME NEW b, IsBackend(b)
  PROVE  /\ \A address, values : SameCalls(LoadXfRegisters(b, address, values), b)
         /\ \A array, index, address, size : SameCalls(LoadIndexedXf(b, array, index, address, size), b)
         /\ \A register, value :
              LET after == LoadCpRegister(b, register, value)
              IN IsBackend(after) /\ after.cp = [b.cp EXCEPT ![register] = value] /\ after.device = b.device
<1> DEFINE full == [cp |-> b.cp, xf |-> b.xf, bp |-> b.bp, mask |-> b.mask, device |-> b.device]
<1>1. b = full
  BY DEF IsBackend
<1>2. ASSUME NEW address, NEW values PROVE SameCalls(LoadXfRegisters(b, address, values), b)
  <2> DEFINE xf == [a \in DOMAIN b.xf |-> IF a \in address..(address + Len(values) - 1)
                                           THEN values[a - address + 1] ELSE b.xf[a]]
             after == [cp |-> b.cp, xf |-> xf, bp |-> b.bp, mask |-> b.mask, device |-> b.device]
  <2>1. LoadXfRegisters(b, address, values) = [b EXCEPT !.xf = xf]
    BY DEF LoadXfRegisters
  <2> HIDE DEF xf
  <2>2. [full EXCEPT !.xf = xf] = after
    OBVIOUS
  <2>3. LoadXfRegisters(b, address, values) = after
    BY <1>1, <2>1, <2>2
  <2>4. IsBackend(after) /\ after.cp = b.cp /\ after.device = b.device
    BY DEF IsBackend
  <2> HIDE DEF after
  <2>5. QED
    BY <2>3, <2>4 DEF SameCalls
<1>3. ASSUME NEW array, NEW index, NEW address, NEW size
      PROVE  SameCalls(LoadIndexedXf(b, array, index, address, size), b)
  <2>1. \/ LoadIndexedXf(b, array, index, address, size) = b
        \/ \E words : LoadIndexedXf(b, array, index, address, size) = LoadXfRegisters(b, address, words)
    BY DEF LoadIndexedXf
  <2>2. SameCalls(b, b)
    BY DEF SameCalls
  <2>3. QED
    BY <1>2, <2>1, <2>2
<1>4. ASSUME NEW register, NEW value
      PROVE  LET after == LoadCpRegister(b, register, value)
             IN IsBackend(after) /\ after.cp = [b.cp EXCEPT ![register] = value] /\ after.device = b.device
  <2> DEFINE cp == [b.cp EXCEPT ![register] = value]
             after == [cp |-> cp, xf |-> b.xf, bp |-> b.bp, mask |-> b.mask, device |-> b.device]
  <2>1. LoadCpRegister(b, register, value) = [b EXCEPT !.cp = cp]
    BY DEF LoadCpRegister
  <2> HIDE DEF cp
  <2>2. [full EXCEPT !.cp = cp] = after
    OBVIOUS
  <2>3. LoadCpRegister(b, register, value) = after
    BY <1>1, <2>1, <2>2
  <2>4. IsBackend(after) /\ after.cp = cp /\ after.device = b.device
    BY DEF IsBackend
  <2> HIDE DEF after
  <2>5. QED
    BY <2>3, <2>4 DEF cp
<1>5. QED
  BY <1>2, <1>3, <1>4

LEMMA BackendWith ==
  ASSUME NEW b, IsBackend(b), NEW q, NEW n
  PROVE  /\ [b EXCEPT !.bp = q, !.mask = n] = [cp |-> b.cp, xf |-> b.xf, bp |-> q, mask |-> n, device |-> b.device]
         /\ [b EXCEPT !.mask = n, !.bp = q] = [cp |-> b.cp, xf |-> b.xf, bp |-> q, mask |-> n, device |-> b.device]
<1> DEFINE c == b.cp
           x == b.xf
           p == b.bp
           m == b.mask
           d == b.device
<1>1. b = [cp |-> c, xf |-> x, bp |-> p, mask |-> m, device |-> d]
  BY DEF IsBackend
<1> HIDE DEF c, x, p, m, d
<1>2. [b EXCEPT !.bp = q, !.mask = n] = [cp |-> c, xf |-> x, bp |-> q, mask |-> n, device |-> d]
  <2>1. [[cp |-> c, xf |-> x, bp |-> p, mask |-> m, device |-> d] EXCEPT !.bp = q]
        = [cp |-> c, xf |-> x, bp |-> q, mask |-> m, device |-> d]
    OBVIOUS
  <2>2. [[cp |-> c, xf |-> x, bp |-> q, mask |-> m, device |-> d] EXCEPT !.mask = n]
        = [cp |-> c, xf |-> x, bp |-> q, mask |-> n, device |-> d]
    OBVIOUS
  <2>3. QED
    BY <1>1, <2>1, <2>2, Zenon
<1>3. [b EXCEPT !.mask = n, !.bp = q] = [cp |-> c, xf |-> x, bp |-> q, mask |-> n, device |-> d]
  <2>1. [[cp |-> c, xf |-> x, bp |-> p, mask |-> m, device |-> d] EXCEPT !.mask = n]
        = [cp |-> c, xf |-> x, bp |-> p, mask |-> n, device |-> d]
    OBVIOUS
  <2>2. [[cp |-> c, xf |-> x, bp |-> p, mask |-> n, device |-> d] EXCEPT !.bp = q]
        = [cp |-> c, xf |-> x, bp |-> q, mask |-> n, device |-> d]
    OBVIOUS
  <2>3. QED
    BY <1>1, <2>1, <2>2, Zenon
<1>4. QED
  BY <1>2, <1>3 DEF c, x, d

LEMMA BpAddsNoDraw ==
  ASSUME NEW b, IsBackend(b), NEW register, NEW value
  PROVE  \/ SameCalls(LoadBpRegister(b, register, value), b)
         \/ \E call : call.call # "Draw" /\ OneMore(LoadBpRegister(b, register, value), b, call)
<1> DEFINE full == [cp |-> b.cp, xf |-> b.xf, bp |-> b.bp, mask |-> b.mask, device |-> b.device]
           bp == [b.bp EXCEPT ![register] = (@ \ b.mask) \cup (BitsOf(value) \cap b.mask)]
           all == [b.bp EXCEPT ![register] = BitsOf(value)]
           some == BitsOf(value)
           written == [cp |-> b.cp, xf |-> b.xf, bp |-> bp, mask |-> Bits, device |-> b.device]
           masked == [cp |-> b.cp, xf |-> b.xf, bp |-> all, mask |-> some, device |-> b.device]
           call == [call |-> "CopyEfb", source |-> written.bp[EfbSource], control |-> written.bp[EfbControl]]
<1>1. b = full
  BY DEF IsBackend
<1>2. [b EXCEPT !.bp[register] = (@ \ b.mask) \cup (BitsOf(value) \cap b.mask), !.mask = Bits] = written
  <2>1. [b EXCEPT !.bp[register] = (@ \ b.mask) \cup (BitsOf(value) \cap b.mask), !.mask = Bits]
          = [b EXCEPT !.bp = bp, !.mask = Bits]
    OBVIOUS
  <2> HIDE DEF bp
  <2>2. [b EXCEPT !.bp = bp, !.mask = Bits] = written
    BY BackendWith, Zenon
  <2>3. QED
    BY <2>1, <2>2
<1>3. [b EXCEPT !.mask = BitsOf(value), !.bp[register] = BitsOf(value)] = masked
  <2>1. [b EXCEPT !.mask = BitsOf(value), !.bp[register] = BitsOf(value)] = [b EXCEPT !.mask = some, !.bp = all]
    OBVIOUS
  <2> HIDE DEF all, some
  <2>2. [b EXCEPT !.mask = some, !.bp = all] = masked
    BY BackendWith, Zenon
  <2>3. QED
    BY <2>1, <2>2
<1>4. SameCalls(written, b) /\ SameCalls(masked, b)
  <2> HIDE DEF bp, all, some
  <2>1. QED
    BY DEF SameCalls, IsBackend
<1>5. call.call # "Draw"
  OBVIOUS
<1> HIDE DEF written, masked, bp, all, some, call
<1>6. \/ LoadBpRegister(b, register, value) = masked
      \/ LoadBpRegister(b, register, value) = Tell(written, call)
      \/ LoadBpRegister(b, register, value) = written
  <2>1. CASE register = BpMask
    <3>1. LoadBpRegister(b, register, value) = [b EXCEPT !.mask = BitsOf(value), !.bp[register] = BitsOf(value)]
      <4>1. BpMask # EfbControl
        BY DEF BpMask, EfbControl
      <4>2. QED
        BY <2>1, <4>1, Zenon DEF LoadBpRegister
    <3>2. QED
      BY <1>3, <3>1
  <2>2. CASE register = EfbControl
    <3>1. BpMask # EfbControl
      BY DEF BpMask, EfbControl
    <3>2. QED
      BY <1>2, <2>2, <3>1 DEF LoadBpRegister, call
  <2>3. CASE register # BpMask /\ register # EfbControl
    BY <1>2, <2>3 DEF LoadBpRegister
  <2>4. QED
    BY <2>1, <2>2, <2>3
<1>7. OneMore(Tell(written, call), b, call)
  <2>1. IsBackend(written)
    BY <1>4 DEF SameCalls
  <2>2. OneMore(Tell(written, call), written, call)
    BY <2>1, TellsOneMore
  <2>3. QED
    BY <1>4, <2>2 DEF OneMore, SameCalls
<1>8. QED
  BY <1>4, <1>5, <1>6, <1>7

-----------------------------------------------------------------------------
(* The registers of the processor and those of the backend.                *)

\* A number that names one register only, for both.
Usual(register) ==
  /\ register \div 16 \in {5, 6} => register % 16 = 0
  /\ register \div 16 \in 7..9 => register % 16 < 8

LEMMA UsualNumbers ==
  ASSUME NEW register \in Nat, register < 256, Usual(register), NEW row, row = register \div 16
  PROVE  /\ row = 5 <=> register = VcdLow
         /\ row = 6 <=> register = VcdHigh
         /\ row \in 7..9 => /\ register % 8 \in 0..7 /\ row - 7 \in 0..2
                            /\ register = VatRegister(row - 7, register % 8)
         /\ row \notin 7..9 => \A v \in 0..7, g \in 0..2 : register # VatRegister(g, v)
<1>1. register = 16 * row + (register % 16) /\ row \in Nat /\ register % 16 \in 0..15
  <2>1. \A n \in Nat : n = 16 * (n \div 16) + (n % 16) /\ n \div 16 \in Nat /\ n % 16 \in 0..15
    OBVIOUS
  <2>2. QED
    BY <2>1
<1>2. row = 5 <=> register = VcdLow
  BY <1>1 DEF Usual, VcdLow
<1>3. row = 6 <=> register = VcdHigh
  BY <1>1 DEF Usual, VcdHigh
<1>4. row \in 7..9 => /\ register % 8 \in 0..7 /\ row - 7 \in 0..2
                      /\ register = VatRegister(row - 7, register % 8)
  <2> SUFFICES ASSUME row \in 7..9
               PROVE  /\ register % 8 \in 0..7 /\ row - 7 \in 0..2
                      /\ register = VatRegister(row - 7, register % 8)
    OBVIOUS
  <2>1. register % 16 < 8
    BY DEF Usual
  <2>2. register % 8 = register % 16
    BY <1>1, <2>1
  <2>3. QED
    BY <1>1, <2>1, <2>2 DEF VatRegister
<1>5. row \notin 7..9 => \A v \in 0..7, g \in 0..2 : register # VatRegister(g, v)
  BY <1>1 DEF VatRegister
<1>6. QED
  BY <1>2, <1>3, <1>4, <1>5

LEMMA LayoutIsApart ==
  /\ VcdLow # VcdHigh
  /\ \A v \in 0..7, g \in 0..2 : VatRegister(g, v) # VcdLow /\ VatRegister(g, v) # VcdHigh
  /\ \A v \in 0..7, g \in 0..2, w \in 0..7, h \in 0..2 :
       VatRegister(g, v) = VatRegister(h, w) => g = h /\ v = w
BY DEF VcdLow, VcdHigh, VatRegister

VatsOf(cp) == [v \in 0..7 |-> [g \in 0..2 |-> cp[VatRegister(g, v)]]]

LEMMA MirrorKept ==
  ASSUME NEW cp \in [CpRegisters -> Units], NEW register \in Nat, register < 256, Usual(register),
         NEW value \in Units
  PROVE  LoadCp(RegsOf(cp), register, value) = RegsOf([cp EXCEPT ![register] = value])
<1> DEFINE row == register \div 16
           after == [cp EXCEPT ![register] = value]
           low == cp[VcdLow]
           high == cp[VcdHigh]
           vats == VatsOf(cp)
<1>1. RegsOf(cp) = [low |-> low, high |-> high, vat |-> vats]
  BY DEF RegsOf, VatsOf
<1>2. RegsOf(after) = [low |-> after[VcdLow], high |-> after[VcdHigh], vat |-> VatsOf(after)]
  BY DEF RegsOf, VatsOf
<1>3. \A r \in CpRegisters : after[r] = IF r = register THEN value ELSE cp[r]
  OBVIOUS
<1>4. /\ row = 5 <=> register = VcdLow
      /\ row = 6 <=> register = VcdHigh
      /\ row \in 7..9 => /\ register % 8 \in 0..7 /\ row - 7 \in 0..2
                         /\ register = VatRegister(row - 7, register % 8)
      /\ row \notin 7..9 => \A v \in 0..7, g \in 0..2 : register # VatRegister(g, v)
  BY UsualNumbers
<1>5. row \in Nat
  OBVIOUS
<1>6. LoadCp(RegsOf(cp), register, value)
        = CASE row = 5 -> [RegsOf(cp) EXCEPT !.low = value]
            [] row = 6 -> [RegsOf(cp) EXCEPT !.high = value]
            [] row \in 7..9 -> [RegsOf(cp) EXCEPT !.vat[register % 8][row - 7] = value]
            [] OTHER -> RegsOf(cp)
  BY DEF LoadCp
<1> HIDE DEF row, after
<1>7. row \notin 7..9 => VatsOf(after) = vats
  <2> SUFFICES ASSUME row \notin 7..9 PROVE VatsOf(after) = vats
    OBVIOUS
  <2>1. \A v \in 0..7, g \in 0..2 : after[VatRegister(g, v)] = cp[VatRegister(g, v)]
    BY <1>3, <1>4, LayoutRegisters
  <2>2. QED
    BY <2>1 DEF VatsOf
<1>8. /\ after[VcdLow] = IF row = 5 THEN value ELSE low
      /\ after[VcdHigh] = IF row = 6 THEN value ELSE high
  BY <1>3, <1>4, LayoutRegisters
<1>9. row \in 7..9 => VatsOf(after) = [vats EXCEPT ![register % 8] = [@ EXCEPT ![row - 7] = value]]
  <2> SUFFICES ASSUME row \in 7..9
               PROVE  VatsOf(after) = [vats EXCEPT ![register % 8] = [@ EXCEPT ![row - 7] = value]]
    OBVIOUS
  <2> DEFINE w == register % 8
             h == row - 7
             line == [vats[w] EXCEPT ![h] = value]
             new == [vats EXCEPT ![w] = line]
  <2>1. w \in 0..7 /\ h \in 0..2 /\ register = VatRegister(h, w)
    BY <1>4
  <2> HIDE DEF w, h
  <2>2. \A v \in 0..7, g \in 0..2 :
          after[VatRegister(g, v)] = IF g = h /\ v = w THEN value ELSE cp[VatRegister(g, v)]
    BY <1>3, <2>1, LayoutRegisters, LayoutIsApart
  <2>3. \A v \in 0..7 : VatsOf(after)[v] = [g \in 0..2 |-> after[VatRegister(g, v)]]
                        /\ vats[v] = [g \in 0..2 |-> cp[VatRegister(g, v)]]
    BY DEF VatsOf
  <2>4. \A v \in 0..7 : v # w => VatsOf(after)[v] = vats[v]
    BY <2>2, <2>3
  <2>5. VatsOf(after)[w] = line
    BY <2>1, <2>2, <2>3
  <2>6. VatsOf(after) = [v \in 0..7 |-> VatsOf(after)[v]] /\ vats = [v \in 0..7 |-> vats[v]]
    BY DEF VatsOf
  <2> HIDE DEF line, vats
  <2>7. VatsOf(after) = new
    BY <2>1, <2>4, <2>5, <2>6
  <2>8. QED
    BY <2>7 DEF line, w, h
<1> HIDE DEF low, high, vats
<1>10. CASE row = 5
  <2>1. LoadCp(RegsOf(cp), register, value) = [RegsOf(cp) EXCEPT !.low = value]
    BY <1>6, <1>10
  <2>2. RegsOf(after) = [low |-> value, high |-> high, vat |-> vats]
    BY <1>2, <1>7, <1>8, <1>10
  <2>3. QED
    BY <1>1, <2>1, <2>2 DEF after
<1>11. CASE row = 6
  <2>1. LoadCp(RegsOf(cp), register, value) = [RegsOf(cp) EXCEPT !.high = value]
    BY <1>6, <1>11
  <2>2. RegsOf(after) = [low |-> low, high |-> value, vat |-> vats]
    BY <1>2, <1>7, <1>8, <1>11
  <2>3. QED
    BY <1>1, <2>1, <2>2 DEF after
<1>12. CASE row \in 7..9
  <2> DEFINE new == [vats EXCEPT ![register % 8] = [@ EXCEPT ![row - 7] = value]]
  <2>1. LoadCp(RegsOf(cp), register, value) = [RegsOf(cp) EXCEPT !.vat[register % 8][row - 7] = value]
    BY <1>6, <1>12
  <2>2. RegsOf(after) = [low |-> low, high |-> high, vat |-> new]
    BY <1>2, <1>8, <1>9, <1>12
  <2>3. [RegsOf(cp) EXCEPT !.vat[register % 8][row - 7] = value]
          = [RegsOf(cp) EXCEPT !.vat = [RegsOf(cp).vat EXCEPT ![register % 8] = [@ EXCEPT ![row - 7] = value]]]
    OBVIOUS
  <2>4. RegsOf(cp).vat = vats
    BY <1>1
  <2>5. LoadCp(RegsOf(cp), register, value) = [RegsOf(cp) EXCEPT !.vat = new]
    BY <2>1, <2>3, <2>4
  <2> HIDE DEF new
  <2>6. QED
    BY <1>1, <2>2, <2>5 DEF after
<1>13. CASE row \notin 5..9
  <2>1. LoadCp(RegsOf(cp), register, value) = RegsOf(cp)
    BY <1>5, <1>6, <1>13
  <2>2. after[VcdLow] = low /\ after[VcdHigh] = high /\ VatsOf(after) = vats
    BY <1>5, <1>7, <1>8, <1>13
  <2>3. QED
    BY <1>1, <1>2, <2>1, <2>2 DEF after
<1>14. QED
  BY <1>5, <1>10, <1>11, <1>12, <1>13

-----------------------------------------------------------------------------
(* What a command does to the registers and to the draws.                  *)

Honest(c) == c.op = "cp" => Usual(c.register)

\* The condition of DrawsDecode.
Clean == ~(Aliases(program) \/ \E a \in DOMAIN DisplayLists : Aliases(DisplayLists[a]))

GoodDraw(d) ==
  /\ Clean => d.decoded.result \in {"decoded", "unresolved"}
  /\ Corners(d.decoded.primitives) = 0..(InWholePrimitives(d.packet.primitive, d.decoded.vertices) - 1)

GoodCalls(device) ==
  /\ \E T : device \in Seq(T)
  /\ \A i \in 1..Len(device) : device[i].call = "Draw" => GoodDraw(device[i])

Mirrors(r, b) ==
  /\ r \in RegsType /\ b.cp \in [CpRegisters -> Units]
  /\ Clean => r = RegsOf(b.cp)

GoodState(s) ==
  /\ s = [regs |-> s.regs, backend |-> s.backend, unknown |-> s.unknown]
  /\ IsBackend(s.backend) /\ Mirrors(s.regs, s.backend) /\ GoodCalls(s.backend.device)

LEMMA MoreCalls ==
  ASSUME NEW device, GoodCalls(device), NEW call, call.call = "Draw" => GoodDraw(call)
  PROVE  GoodCalls(Append(device, call))
<1>1. PICK T : device \in Seq(T)
  BY DEF GoodCalls
<1> DEFINE U == T \cup {call}
           more == Append(device, call)
<1>2. T \subseteq U
  OBVIOUS
<1>3. call \in U
  OBVIOUS
<1> HIDE DEF U
<1>4. device \in Seq(U)
  BY <1>1, <1>2, SeqGrows
<1>5. more \in Seq(U) /\ Len(more) = Len(device) + 1 /\ Len(device) \in Nat
      /\ \A i \in 1..Len(more) : more[i] = IF i \in 1..Len(device) THEN device[i] ELSE call
  BY <1>3, <1>4
<1> HIDE DEF more
<1>6. \A i \in 1..Len(more) : more[i].call = "Draw" => GoodDraw(more[i])
  BY <1>5 DEF GoodCalls
<1>7. QED
  BY <1>5, <1>6 DEF GoodCalls, more

\* The state with another backend.
LEMMA OtherBackend ==
  ASSUME NEW s, GoodState(s), NEW b, IsBackend(b), b.cp = s.backend.cp, GoodCalls(b.device)
  PROVE  GoodState([s EXCEPT !.backend = b])
<1> DEFINE r == s.regs
           old == s.backend
           u == s.unknown
           after == [regs |-> r, backend |-> b, unknown |-> u]
<1>1. s = [regs |-> r, backend |-> old, unknown |-> u]
  BY DEF GoodState
<1>2. Mirrors(r, old)
  BY DEF GoodState
<1>3. Mirrors(r, b)
  BY <1>2 DEF Mirrors
<1> HIDE DEF r, old, u
<1>4. [[regs |-> r, backend |-> old, unknown |-> u] EXCEPT !.backend = b] = after
  OBVIOUS
<1>5. [s EXCEPT !.backend = b] = after
  BY <1>1, <1>4, Zenon
<1>6. after = [regs |-> after.regs, backend |-> after.backend, unknown |-> after.unknown]
      /\ after.regs = r /\ after.backend = b
  OBVIOUS
<1> HIDE DEF after
<1>7. QED
  BY <1>3, <1>5, <1>6 DEF GoodState

LEMMA SameIsGood ==
  ASSUME NEW s, GoodState(s), NEW b, SameCalls(b, s.backend)
  PROVE  GoodState([s EXCEPT !.backend = b])
<1>1. IsBackend(b) /\ b.cp = s.backend.cp /\ GoodCalls(b.device)
  BY DEF SameCalls, GoodState
<1>2. QED
  BY <1>1, OtherBackend

LEMMA OneMoreIsGood ==
  ASSUME NEW s, GoodState(s), NEW b, NEW call, OneMore(b, s.backend, call),
         call.call = "Draw" => GoodDraw(call)
  PROVE  GoodState([s EXCEPT !.backend = b])
<1>1. IsBackend(b) /\ b.cp = s.backend.cp /\ b.device = Append(s.backend.device, call)
  BY DEF OneMore
<1>2. GoodCalls(s.backend.device)
  BY DEF GoodState
<1>3. GoodCalls(b.device)
  BY <1>1, <1>2, MoreCalls
<1>4. QED
  BY <1>1, <1>3, OtherBackend

LEMMA NoVertices ==
  ASSUME NEW i \in 1..8
  PROVE  Corners(<<>>) = 0..(InWholePrimitives(Primitives[i], 0) - 1)
<1>1. InWholePrimitives(Primitives[i], 0) = 0
  BY DEF InWholePrimitives, Primitives
<1>2. Corners(<<>>) = {}
  BY DEF Corners
<1>3. 0..(0 - 1) = {}
  OBVIOUS
<1>4. QED
  BY <1>1, <1>2, <1>3

LEMMA DrawIsGood ==
  ASSUME NEW s, GoodState(s), NEW c \in Command, c.op = "draw", VerticesOf(c, s.regs)
  PROVE  GoodState(Apply(s, c))
<1> DEFINE packet == [primitive |-> Primitives[c.primitive], vat |-> c.vat, count |-> c.count, data |-> c.data]
           b == s.backend
           decoded == Decode(packet, b.cp)
           call == [call |-> "Draw", packet |-> packet, decoded |-> decoded, xf |-> b.xf, bp |-> b.bp]
<1>1. c.primitive \in 1..8 /\ c.vat \in 0..7 /\ c.count \in Nat /\ c.data \in Seq(Byte)
  BY CommandCases DEF Half
<1>2. packet.primitive = Primitives[c.primitive] /\ packet.vat = c.vat /\ packet.count = c.count
      /\ packet.data = c.data
  OBVIOUS
<1>3. Apply(s, c) = [s EXCEPT !.backend = Draw(b, packet)]
  BY DEF Apply
<1>4. IsBackend(b) /\ Mirrors(s.regs, b)
  BY DEF GoodState
<1>5. Draw(b, packet) = Tell(b, call)
  BY DEF Draw
<1> HIDE DEF packet
<1>6. b.cp \in [CpRegisters -> Units]
  BY <1>4 DEF Mirrors
<1>7. /\ \E kept : Kept(decoded, packet.primitive, kept)
      /\ Len(packet.data) = packet.count * GetVertexSize(RegsOf(b.cp), packet.vat) =>
           decoded.result \in {"decoded", "unresolved"}
  BY <1>1, <1>2, <1>6, DrawIsRead
<1>8. call.packet = packet /\ call.decoded = decoded
  OBVIOUS
<1> HIDE DEF decoded, b
<1>9. Clean => decoded.result \in {"decoded", "unresolved"}
  <2> SUFFICES ASSUME Clean PROVE decoded.result \in {"decoded", "unresolved"}
    OBVIOUS
  <2>1. s.regs = RegsOf(b.cp)
    BY <1>4 DEF Mirrors
  <2>2. Len(c.data) = c.count * GetVertexSize(s.regs, c.vat)
    BY DEF VerticesOf
  <2>3. QED
    BY <1>2, <1>7, <2>1, <2>2
<1>10. Corners(decoded.primitives) = 0..(InWholePrimitives(packet.primitive, decoded.vertices) - 1)
  <2>1. PICK kept : Kept(decoded, packet.primitive, kept)
    BY <1>7
  <2>2. CASE decoded.primitives = <<>> /\ kept = 0
    BY <1>1, <1>2, <2>1, <2>2, NoVertices DEF Kept
  <2>3. CASE decoded.primitives = AddIndices(packet.primitive, kept)
    BY <1>1, <1>2, <2>1, <2>3, IndicesCover DEF Kept
  <2>4. QED
    BY <2>1, <2>2, <2>3 DEF Kept
<1> HIDE DEF call
<1>11. GoodDraw(call)
  BY <1>8, <1>9, <1>10 DEF GoodDraw
<1>12. OneMore(Tell(b, call), b, call)
  BY <1>4, TellsOneMore
<1>13. GoodState([s EXCEPT !.backend = Tell(b, call)])
  BY <1>11, <1>12, OneMoreIsGood DEF b
<1>14. QED
  BY <1>3, <1>5, <1>13

LEMMA LoadCpIsGood ==
  ASSUME NEW s, GoodState(s), NEW c \in Command, c.op = "cp", Clean => Honest(c)
  PROVE  GoodState(Apply(s, c))
<1> DEFINE n == c.register
           v == c.value
           r == s.regs
           b == s.backend
           u == s.unknown
           r2 == LoadCp(r, n, v)
           b2 == LoadCpRegister(b, n, v)
           after == [regs |-> r2, backend |-> b2, unknown |-> u]
<1>1. n \in Nat /\ n < 256 /\ v \in Units
  BY CommandCases DEF Byte
<1>2. Apply(s, c) = [s EXCEPT !.regs = r2, !.backend = b2]
  BY DEF Apply
<1>3. s = [regs |-> r, backend |-> b, unknown |-> u] /\ IsBackend(b) /\ Mirrors(r, b) /\ GoodCalls(b.device)
  BY DEF GoodState
<1>4. Clean => Usual(n)
  BY DEF Honest
<1> HIDE DEF n, v, r, b, u
<1>5. IsBackend(b2) /\ b2.cp = [b.cp EXCEPT ![n] = v] /\ b2.device = b.device
  BY <1>3, LoadsKeepCalls
<1>6. r \in RegsType /\ b.cp \in [CpRegisters -> Units] /\ (Clean => r = RegsOf(b.cp))
  BY <1>3 DEF Mirrors
<1>7. r2 \in RegsType
  BY <1>1, <1>6, LoadCpTyped
<1>8. Clean => r2 = RegsOf([b.cp EXCEPT ![n] = v])
  BY <1>1, <1>4, <1>6, MirrorKept
<1> HIDE DEF r2, b2
<1>9. b2.cp \in [CpRegisters -> Units]
  BY <1>1, <1>5, <1>6
<1>10. Mirrors(r2, b2)
  BY <1>5, <1>7, <1>8, <1>9 DEF Mirrors
<1>11. [[regs |-> r, backend |-> b, unknown |-> u] EXCEPT !.regs = r2] = [regs |-> r2, backend |-> b, unknown |-> u]
  OBVIOUS
<1>12. [[regs |-> r2, backend |-> b, unknown |-> u] EXCEPT !.backend = b2] = after
  OBVIOUS
<1>13. [s EXCEPT !.regs = r2, !.backend = b2] = after
  BY <1>3, <1>11, <1>12, Zenon
<1>14. after = [regs |-> after.regs, backend |-> after.backend, unknown |-> after.unknown]
       /\ after.regs = r2 /\ after.backend = b2
  OBVIOUS
<1> HIDE DEF after
<1>15. QED
  BY <1>2, <1>3, <1>5, <1>10, <1>13, <1>14 DEF GoodState

LEMMA ApplyIsGood ==
  ASSUME NEW s, GoodState(s), NEW c \in Command, c.op # "call", VerticesOf(c, s.regs), Clean => Honest(c)
  PROVE  GoodState(Apply(s, c))
<1> DEFINE b == s.backend
<1>1. IsBackend(b)
  BY DEF GoodState
<1>2. CASE c.op \in {"nop", "metrics"}
  BY <1>2 DEF Apply
<1>3. CASE c.op = "invalidate"
  <2> DEFINE call == [call |-> "InvalidateVertexCache"]
  <2>1. Apply(s, c) = [s EXCEPT !.backend = Tell(b, call)]
    BY <1>3 DEF Apply, InvalidateVertexCache
  <2>2. call.call # "Draw"
    OBVIOUS
  <2> HIDE DEF call
  <2>3. OneMore(Tell(b, call), b, call)
    BY <1>1, TellsOneMore
  <2>4. GoodState([s EXCEPT !.backend = Tell(b, call)])
    BY <2>2, <2>3, OneMoreIsGood
  <2>5. QED
    BY <2>1, <2>4
<1>4. CASE c.op = "xf"
  <2>1. Apply(s, c) = [s EXCEPT !.backend = LoadXfRegisters(b, c.address, c.values)]
    BY <1>4 DEF Apply
  <2>2. SameCalls(LoadXfRegisters(b, c.address, c.values), b)
    BY <1>1, LoadsKeepCalls
  <2>3. QED
    BY <2>1, <2>2, SameIsGood
<1>5. CASE c.op = "indexed"
  <2>1. Apply(s, c) = [s EXCEPT !.backend = LoadIndexedXf(b, c.array, c.index, c.address, c.size)]
    BY <1>5 DEF Apply
  <2>2. SameCalls(LoadIndexedXf(b, c.array, c.index, c.address, c.size), b)
    BY <1>1, LoadsKeepCalls
  <2>3. QED
    BY <2>1, <2>2, SameIsGood
<1>6. CASE c.op = "bp"
  <2> DEFINE b2 == LoadBpRegister(b, c.register, c.value)
  <2>1. Apply(s, c) = [s EXCEPT !.backend = b2]
    BY <1>6 DEF Apply
  <2>2. SameCalls(b2, b) \/ \E call : call.call # "Draw" /\ OneMore(b2, b, call)
    BY <1>1, BpAddsNoDraw
  <2> HIDE DEF b2
  <2>3. CASE SameCalls(b2, b)
    BY <2>1, <2>3, SameIsGood
  <2>4. CASE \E call : call.call # "Draw" /\ OneMore(b2, b, call)
    <3>1. PICK call : call.call # "Draw" /\ OneMore(b2, b, call)
      BY <2>4
    <3>2. QED
      BY <2>1, <3>1, OneMoreIsGood
  <2>5. QED
    BY <2>2, <2>3, <2>4
<1>7. CASE c.op = "unknown"
  <2> DEFINE r == s.regs
             u == s.unknown
             after == [regs |-> r, backend |-> b, unknown |-> u + 1]
  <2>1. Apply(s, c) = [s EXCEPT !.unknown = u + 1]
    BY <1>7 DEF Apply
  <2>2. s = [regs |-> r, backend |-> b, unknown |-> u] /\ IsBackend(b) /\ Mirrors(r, b) /\ GoodCalls(b.device)
    BY DEF GoodState
  <2> HIDE DEF r, b, u
  <2>3. [[regs |-> r, backend |-> b, unknown |-> u] EXCEPT !.unknown = u + 1] = after
    OBVIOUS
  <2>4. [s EXCEPT !.unknown = u + 1] = after
    BY <2>2, <2>3, Zenon
  <2>5. after = [regs |-> after.regs, backend |-> after.backend, unknown |-> after.unknown]
        /\ after.regs = r /\ after.backend = b
    OBVIOUS
  <2> HIDE DEF after
  <2>6. QED
    BY <2>1, <2>2, <2>4, <2>5 DEF GoodState
<1>8. QED
  <2>1. c.op \in {"nop", "metrics", "invalidate", "cp", "xf", "indexed", "bp", "draw", "unknown"}
    BY CommandCases
  <2>2. QED
    BY <1>2, <1>3, <1>4, <1>5, <1>6, <1>7, <2>1, DrawIsGood, LoadCpIsGood

-----------------------------------------------------------------------------
(* What the guest's commands are when no CP register has two names.        *)

GivenHonestly == {c \in Given : Honest(c)}

Honestly == {c \in Plainly : Honest(c)}

LEMMA HonestLists ==
  ASSUME Clean, program \in Programs
  PROVE  /\ program \in Seq(GivenHonestly)
         /\ \A cs \in Range(DisplayLists) : cs \in Seq(GivenHonestly)
<1>1. ASSUME NEW cs \in Seq(Given), ~Aliases(cs)
      PROVE  cs \in Seq(GivenHonestly)
  <2>1. ASSUME NEW i \in 1..Len(cs) PROVE cs[i] \in GivenHonestly
    <3>1. cs[i] \in Given /\ cs[i] \in Range(cs) /\ cs[i] \in Command
      BY GivenAreCommands DEF Range
    <3>2. CASE cs[i].op = "cp"
      <4> DEFINE n == cs[i].register
      <4>1. n \in Nat
        BY <3>1, <3>2, CommandCases DEF Byte
      <4>2. ~(n \div 16 \in {5, 6} /\ n % 16 # 0) /\ ~(n \div 16 \in 7..9 /\ n % 16 >= 8)
        BY <1>1, <3>1, <3>2 DEF Aliases
      <4> HIDE DEF n
      <4>3. n % 16 \in Nat
        BY <4>1
      <4>4. Usual(n)
        BY <4>2, <4>3 DEF Usual
      <4>5. QED
        BY <3>1, <4>4 DEF GivenHonestly, Honest, n
    <3>3. CASE cs[i].op # "cp"
      BY <3>1, <3>3 DEF GivenHonestly, Honest
    <3>4. QED
      BY <3>2, <3>3
  <2>2. cs \in [1..Len(cs) -> GivenHonestly] /\ Len(cs) \in Nat
    BY <2>1
  <2>3. QED
    BY <2>2
<1>2. program \in Seq(Given) /\ \A cs \in Range(DisplayLists) : cs \in Seq(Given)
  BY GivenAreCommands
<1>3. ~Aliases(program) /\ \A cs \in Range(DisplayLists) : ~Aliases(cs)
  BY DEF Clean, Range
<1>4. QED
  BY <1>1, <1>2, <1>3

LEMMA HonestInline ==
  ASSUME NEW inlined \in [Called -> Seq(Honestly)], NEW s \in Seq(GivenHonestly)
  PROVE  Inline(s, inlined) \in Seq(Honestly)
<1>1. DOMAIN s = 1..Len(s) /\ Len(s) \in Nat
  OBVIOUS
<1>2. ASSUME NEW i \in 1..Len(s)
      PROVE  (IF s[i].op = "call" THEN inlined[s[i]] ELSE <<s[i]>>) \in Seq(Honestly)
  <2>1. s[i] \in Given /\ Honest(s[i])
    BY <1>1 DEF GivenHonestly
  <2>2. CASE s[i].op = "call"
    BY <2>1, <2>2, GivenAreCommands
  <2>3. CASE s[i].op # "call"
    <3>1. s[i] \in Honestly
      BY <2>1, <2>3 DEF Honestly, Plainly
    <3>2. QED
      BY <2>3, <3>1
  <2>4. QED
    BY <2>2, <2>3
<1>3. Expansions(s, inlined) \in [1..Len(s) -> Seq(Honestly)]
  BY <1>1, <1>2 DEF Expansions
<1>4. Expansions(s, inlined) \in Seq(Seq(Honestly)) /\ Inline(s, inlined) = FlattenSeq(Expansions(s, inlined))
  BY <1>1, <1>3 DEF Inline, Expansions
<1>5. QED
  BY <1>4, FlattenTyped

LEMMA HonestPrefix ==
  ASSUME NEW cs \in Seq(GivenHonestly), NEW units \in Nat
  PROVE  WholeCommands(cs, units) \in Seq(GivenHonestly)
<1> DEFINE w == WholeCommands(cs, units)
<1>1. GivenHonestly \subseteq Given
  BY DEF GivenHonestly
<1>2. cs \in Seq(Given)
  BY <1>1, SeqGrows
<1>3. Len(w) \in 0..Len(cs) /\ w = SubSeq(cs, 1, Len(w))
  BY <1>2, WholeCommandsFit
<1> HIDE DEF w
<1>4. w \in Seq(GivenHonestly)
  BY <1>3, PrefixFacts
<1>5. QED
  BY <1>4 DEF w

LEMMA HonestInlined ==
  ASSUME Clean, program \in Programs, NEW left \in 0..MaxDisplayListDepth
  PROVE  Inlined[left] \in [Called -> Seq(Honestly)]
<1> DEFINE bad == {i \in 0..MaxDisplayListDepth : Inlined[i] \notin [Called -> Seq(Honestly)]}
<1> SUFFICES ASSUME bad # {} PROVE FALSE
  OBVIOUS
<1>1. PICK i \in bad : \A j \in bad : i <= j
  <2>1. bad \subseteq Nat
    BY DepthAssumption
  <2> HIDE DEF bad
  <2>2. QED
    BY <2>1, LeastNatural
<1>2. i \in 0..MaxDisplayListDepth /\ Inlined[i] \notin [Called -> Seq(Honestly)]
  OBVIOUS
<1>3. i # 0 => i - 1 \in 0..MaxDisplayListDepth /\ Inlined[i - 1] \in [Called -> Seq(Honestly)]
  <2>1. i # 0 => i - 1 \in 0..MaxDisplayListDepth /\ ~(i <= i - 1)
    BY <1>2, DepthAssumption
  <2>2. i # 0 => i - 1 \notin bad
    BY <1>1, <2>1
  <2>3. QED
    BY <2>1, <2>2
<1> HIDE DEF bad
<1>4. ASSUME NEW c \in Called
      PROVE  (IF i = 0 \/ Resolved(Aligned(c.address), Aligned(c.size)) = <<>> THEN <<>>
              ELSE Inline(WholeCommands(DisplayLists[Aligned(c.address)], Aligned(c.size)), Inlined[i - 1]))
                \in Seq(Honestly)
  <2> DEFINE a == Aligned(c.address)
             n == Aligned(c.size)
  <2>1. n \in Nat
    BY CallsAreTyped
  <2> HIDE DEF a, n
  <2>2. CASE i = 0 \/ Resolved(a, n) = <<>>
    BY <2>2 DEF a, n
  <2>3. CASE i # 0 /\ Resolved(a, n) # <<>>
    <3>1. DisplayLists[a] \in Seq(GivenHonestly)
      <4>1. a \in DOMAIN DisplayLists
        BY <2>3 DEF Resolved
      <4>2. QED
        BY <4>1, HonestLists DEF Range
    <3>2. WholeCommands(DisplayLists[a], n) \in Seq(GivenHonestly)
      BY <2>1, <3>1, HonestPrefix
    <3>3. Inline(WholeCommands(DisplayLists[a], n), Inlined[i - 1]) \in Seq(Honestly)
      BY <1>3, <2>3, <3>2, HonestInline
    <3>4. QED
      BY <2>3, <3>3 DEF a, n
  <2>4. QED
    BY <2>2, <2>3
<1>5. Unrolled(Inlined, i) \in [Called -> Seq(Honestly)]
  BY <1>4 DEF Unrolled
<1>6. QED
  BY <1>2, <1>5, InlinedUnrolls

-----------------------------------------------------------------------------
(* The draws the program makes.                                            *)

Inlining == Inline(program, Inlined[MaxDisplayListDepth])

LEMMA InliningIs ==
  ASSUME program \in Programs
  PROVE  Inlining \in Seq(Plainly) /\ (Clean => Inlining \in Seq(Honestly)) /\ Sized(Inlining)
<1>1. MaxDisplayListDepth \in 0..MaxDisplayListDepth
  BY DepthAssumption
<1>2. Inlined[MaxDisplayListDepth] \in [Called -> Seq(Plainly)] /\ program \in Seq(Given)
  BY <1>1, InlinedTyped, GivenAreCommands
<1>3. Inlining \in Seq(Plainly)
  BY <1>2, InlineTyped DEF Inlining
<1>4. ASSUME Clean PROVE Inlining \in Seq(Honestly)
  <2>1. Inlined[MaxDisplayListDepth] \in [Called -> Seq(Honestly)] /\ program \in Seq(GivenHonestly)
    BY <1>1, <1>4, HonestInlined, HonestLists
  <2>2. QED
    BY <2>1, HonestInline DEF Inlining
<1>5. Sized(Inlining)
  BY DrawsAssumption DEF Inlining
<1>6. QED
  BY <1>3, <1>4, <1>5

LEMMA StartIsGood == GoodState(Effect(<<>>))
<1> DEFINE s == [regs |-> InitRegs, backend |-> InitBackend, unknown |-> 0]
<1>1. Effect(<<>>) = s
  BY EffectOfNone
<1>2. s = [regs |-> s.regs, backend |-> s.backend, unknown |-> s.unknown]
      /\ s.regs = InitRegs /\ s.backend = InitBackend
  OBVIOUS
<1> HIDE DEF s
<1>3. IsBackend(InitBackend) /\ InitBackend.device = <<>> /\ InitBackend.cp = [r \in CpRegisters |-> 0]
  BY DEF InitBackend, IsBackend
<1>4. GoodCalls(<<>>)
  <2>1. <<>> \in Seq({}) /\ Len(<<>>) = 0
    OBVIOUS
  <2>2. QED
    BY <2>1 DEF GoodCalls
<1>5. Mirrors(InitRegs, InitBackend)
  <2>1. 0 \in Units
    BY UnitsAssumption DEF Units
  <2>2. InitRegs \in RegsType
    BY <2>1 DEF InitRegs, RegsType
  <2>3. InitBackend.cp \in [CpRegisters -> Units]
    BY <1>3, <2>1
  <2>4. \A r \in CpRegisters : InitBackend.cp[r] = 0
    BY <1>3
  <2>5. RegsOf(InitBackend.cp) = InitRegs
    BY <2>4, LayoutRegisters DEF RegsOf, InitRegs
  <2>6. QED
    BY <2>2, <2>3, <2>5 DEF Mirrors
<1>6. QED
  BY <1>1, <1>2, <1>3, <1>4, <1>5 DEF GoodState

LEMMA PrefixesAreGood ==
  ASSUME program \in Programs, NEW n \in 0..Len(Inlining)
  PROVE  GoodState(Effect(SubSeq(Inlining, 1, n)))
<1> DEFINE whole == Inlining
           bad == {i \in 0..Len(whole) : ~GoodState(Effect(SubSeq(whole, 1, i)))}
<1>1. whole \in Seq(Plainly) /\ (Clean => whole \in Seq(Honestly)) /\ Sized(whole) /\ DOMAIN whole = 1..Len(whole)
  BY InliningIs
<1>2. Len(whole) \in Nat
  BY <1>1
<1> HIDE DEF whole
<1> SUFFICES ASSUME bad # {} PROVE FALSE
  BY DEF whole
<1>3. 0 \notin bad
  <2>1. SubSeq(whole, 1, 0) = <<>>
    BY <1>1, PrefixFacts
  <2>2. QED
    BY <2>1, StartIsGood
<1>4. bad \subseteq 0..Len(whole)
  OBVIOUS
<1>5. \A i \in bad : i \in 0..Len(whole) /\ ~GoodState(Effect(SubSeq(whole, 1, i)))
      /\ \A j \in 0..Len(whole) : j \notin bad => GoodState(Effect(SubSeq(whole, 1, j)))
  OBVIOUS
<1> HIDE DEF bad
<1>6. PICK i \in bad : i \in 1..Len(whole) /\ i - 1 \in 0..Len(whole) /\ i - 1 \notin bad
  BY <1>2, <1>3, <1>4, FirstBad
<1> DEFINE before == SubSeq(whole, 1, i - 1)
           c == whole[i]
<1>7. /\ before \in Seq(Plainly) /\ c \in Plainly
      /\ SubSeq(whole, 1, i) = Append(before, c)
  BY <1>1, <1>6, PrefixFacts
<1>8. GoodState(Effect(before)) /\ ~GoodState(Effect(SubSeq(whole, 1, i)))
  BY <1>5, <1>6
<1>9. Effect(SubSeq(whole, 1, i)) = Apply(Effect(before), c)
  BY <1>7, EffectParts
<1>10. VerticesOf(c, Effect(before).regs)
  BY <1>1, <1>6 DEF Sized, VerticesOf
<1>11. Clean => Honest(c)
  BY <1>1, <1>6 DEF Honestly
<1>12. c \in Command /\ c.op # "call"
  BY <1>7, GivenAreCommands DEF Plainly
<1> HIDE DEF before, c
<1>13. GoodState(Apply(Effect(before), c))
  BY <1>8, <1>10, <1>11, <1>12, ApplyIsGood
<1>14. QED
  BY <1>8, <1>9, <1>13

LEMMA CatPrefix ==
  ASSUME NEW T, NEW s \in Seq(T), NEW t \in Seq(T)
  PROVE  SubSeq(Cat(s, t), 1, Len(s)) = s
<1>1. Cat(s, t) \in Seq(T) /\ Len(Cat(s, t)) = Len(s) + Len(t) /\ \A i \in 1..Len(s) : Cat(s, t)[i] = s[i]
  BY DEF Cat
<1>2. QED
  BY <1>1

LEMMA NowIsGood ==
  ASSUME SyncInv
  PROVE  GoodState(Now)
<1>1. Told(Main, Unwritten, lists, Now, program)
  BY DEF SyncInv
<1>2. PICK todo \in [Levels -> Seq(Given)], tail \in [Levels -> Seq(Units)],
          cont \in [Levels -> Seq(Plainly)], past \in Seq(Plainly) :
        Account(Main, Unwritten, lists, Now, program, todo, tail, cont, past)
  BY <1>1 DEF Told
<1> DEFINE doing == cont[Len(lists)]
<1>3. /\ Cat(past, doing) = Inlining /\ Effect(past) = Now /\ program \in Programs
      /\ Len(lists) \in Levels
  BY <1>2 DEF Account, Frames, Inlining
<1>4. doing \in Seq(Plainly)
  BY <1>3
<1> HIDE DEF doing
<1>5. past = SubSeq(Inlining, 1, Len(past)) /\ Len(past) \in 0..Len(Inlining)
  <2>1. Len(Inlining) = Len(past) + Len(doing) /\ Len(past) \in Nat /\ Len(doing) \in Nat
    <3>1. Len(Cat(past, doing)) = Len(past) + Len(doing)
      BY <1>4, CatTyped
    <3>2. Len(past) \in Nat /\ Len(doing) \in Nat
      BY <1>4
    <3>3. QED
      BY <1>3, <3>1, <3>2
  <2>2. SubSeq(Cat(past, doing), 1, Len(past)) = past
    BY <1>4, CatPrefix
  <2>3. QED
    BY <1>3, <2>1, <2>2
<1>6. QED
  BY <1>3, <1>5, PrefixesAreGood

LEMMA SyncMakesDrawsSound == SyncInv => DrawsAreSound
<1> SUFFICES ASSUME SyncInv PROVE DrawsAreSound
  OBVIOUS
<1>1. GoodState(Now)
  BY NowIsGood
<1>2. GoodCalls(backend.device)
  BY <1>1 DEF GoodState, Now
<1>3. ASSUME NEW d \in Draws PROVE GoodDraw(d)
  <2>1. PICK T : backend.device \in Seq(T)
    BY <1>2 DEF GoodCalls
  <2>2. d \in Range(backend.device) /\ d.call = "Draw"
    BY DEF Draws
  <2>3. PICK i \in 1..Len(backend.device) : d = backend.device[i]
    BY <2>1, <2>2 DEF Range
  <2>4. QED
    BY <1>2, <2>2, <2>3 DEF GoodCalls
<1>4. DrawsDecode
  BY <1>3 DEF DrawsDecode, GoodDraw, Clean
<1>5. IndicesNameKeptVertices
  BY <1>3 DEF IndicesNameKeptVertices, GoodDraw, Corners
<1>6. QED
  BY <1>4, <1>5 DEF DrawsAreSound

(* As long as the guest names the CP registers by their usual numbers, no  *)
(* draw is short of vertices or has some left over, and the primitives of  *)
(* every draw are made of the vertices that were kept.                     *)
THEOREM DrawsAreRead == Spec => []DrawsAreSound
<1>1. SyncInv => DrawsAreSound
  BY SyncMakesDrawsSound
<1>2. QED
  BY <1>1, SyncHolds, PTL
=============================================================================
