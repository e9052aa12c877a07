-------------------------- MODULE DiagnosticsProofs --------------------------
(* The diagnostics: the counters and the frames they are summed up in, for  *)
(* any number of threads; the capture with its threads, for any ring, time  *)
(* limit and number of captures and Runtimes; the verdict, for whatever was *)
(* measured; the file of a report, for any texts in it; and the four as one *)
(* specification.                                                           *)
EXTENDS Diagnostics, FiniteSetTheorems, FunctionTheorems, SequenceTheorems,
        WellFoundedInduction, TLAPS

-----------------------------------------------------------------------------
(* Sums of the values of a function over a finite set: they exist, do not   *)
(* depend on the order in which they are taken, and grow with their parts.  *)

Chosen(S) == CHOOSE x \in S : TRUE

(* The function whose value SumFunctionOnSet takes.                         *)
Sums(g, f, S) ==
  g = [s \in SUBSET S |-> IF s = {} THEN 0 ELSE f[Chosen(s)] + g[s \ {Chosen(s)}]]

LEMMA SumIsChosen ==
  ASSUME NEW f, NEW S
  PROVE  SumFunctionOnSet(f, S) = (CHOOSE g : Sums(g, f, S))[S]
BY DEF SumFunctionOnSet, FoldFunctionOnSet, MapThenFoldSet, Sums, Chosen

LEMMA LeastSubset ==
  ASSUME NEW S, IsFiniteSet(S), NEW T, T \subseteq SUBSET S, T # {}
  PROVE  \E t \in T : \A u \in T : u \subseteq t => u = t
<1>1. FiniteSubsetsOf(S) = SUBSET S
  BY FS_FiniteSubsetsOfFinite
<1>2. IsWellFoundedOn(StrictSubsetOrdering(S), SUBSET S)
  BY <1>1, FS_StrictSubsetOrderingWellFounded
<1>3. PICK t \in T : \A u \in T : <<u, t>> \notin StrictSubsetOrdering(S)
  BY <1>2, WFMin
<1>4. QED
  BY <1>3 DEF StrictSubsetOrdering

LEMMA SumsAt ==
  ASSUME NEW f, NEW S, NEW g, Sums(g, f, S), NEW s \in SUBSET S
  PROVE  g[s] = IF s = {} THEN 0 ELSE f[Chosen(s)] + g[s \ {Chosen(s)}]
<1> DEFINE value(t) == IF t = {} THEN 0 ELSE f[Chosen(t)] + g[t \ {Chosen(t)}]
<1>1. g = [t \in SUBSET S |-> value(t)]
  BY DEF Sums
<1> HIDE DEF value
<1>2. g[s] = value(s)
  BY <1>1
<1>3. QED
  BY <1>2 DEF value

LEMMA ChosenIsIn == ASSUME NEW S, S # {} PROVE Chosen(S) \in S
BY DEF Chosen

LEMMA SumsAreUnique ==
  ASSUME NEW f, NEW S, IsFiniteSet(S), NEW R, NEW g, NEW h, Sums(g, f, S), Sums(h, f, R)
  PROVE  \A s \in SUBSET (S \cap R) : g[s] = h[s]
<1> DEFINE differ == {s \in SUBSET (S \cap R) : g[s] # h[s]}
<1> SUFFICES ASSUME differ # {} PROVE FALSE
  OBVIOUS
<1>1. differ \subseteq SUBSET S
  OBVIOUS
<1>2. PICK t \in differ : \A u \in differ : u \subseteq t => u = t
  <2> HIDE DEF differ
  <2>1. QED
    BY <1>1, LeastSubset
<1>3. t \in SUBSET S /\ t \in SUBSET R /\ g[t] # h[t]
  OBVIOUS
<1>4. g[t] = IF t = {} THEN 0 ELSE f[Chosen(t)] + g[t \ {Chosen(t)}]
  BY <1>3, SumsAt
<1>5. h[t] = IF t = {} THEN 0 ELSE f[Chosen(t)] + h[t \ {Chosen(t)}]
  BY <1>3, SumsAt
<1>6. t # {} => g[t \ {Chosen(t)}] = h[t \ {Chosen(t)}]
  BY <1>2, <1>3, ChosenIsIn
<1>7. QED
  BY <1>3, <1>4, <1>5, <1>6

LEMMA SumsExist ==
  ASSUME NEW f, NEW S, IsFiniteSet(S)
  PROVE  \E g : Sums(g, f, S)
<1> DEFINE none == {s \in SUBSET S : ~ \E g : Sums(g, f, s)}
<1> SUFFICES ASSUME none # {} PROVE FALSE
  OBVIOUS
<1>1. none \subseteq SUBSET S
  OBVIOUS
<1>2. PICK t \in none : \A u \in none : u \subseteq t => u = t
  <2> HIDE DEF none
  <2>1. QED
    BY <1>1, LeastSubset
<1> DEFINE V(s) == (CHOOSE g : Sums(g, f, s))[s]
           g == [s \in SUBSET t |-> IF s = {} THEN 0 ELSE f[Chosen(s)] + V(s \ {Chosen(s)})]
<1>3. \A s \in SUBSET t : s # t => Sums(CHOOSE h : Sums(h, f, s), f, s)
  <2>1. \A s \in SUBSET t : s # t => \E h : Sums(h, f, s)
    BY <1>2
  <2>2. QED
    BY <2>1
<1>4. ASSUME NEW s \in SUBSET t, s # {}
      PROVE  g[s \ {Chosen(s)}] = V(s \ {Chosen(s)})
  <2> DEFINE u == s \ {Chosen(s)}
             h == CHOOSE h : Sums(h, f, u)
  <2>1. u \in SUBSET t /\ u # t
    BY <1>4, ChosenIsIn
  <2>2. Sums(h, f, u) /\ V(u) = h[u]
    BY <1>3, <2>1
  <2> HIDE DEF u, h
  <2>3. h[u] = IF u = {} THEN 0 ELSE f[Chosen(u)] + h[u \ {Chosen(u)}]
    BY <2>2, SumsAt
  <2>4. g[u] = IF u = {} THEN 0 ELSE f[Chosen(u)] + V(u \ {Chosen(u)})
    BY <2>1
  <2>5. ASSUME u # {} PROVE V(u \ {Chosen(u)}) = h[u \ {Chosen(u)}]
    <3> DEFINE w == u \ {Chosen(u)}
               k == CHOOSE k : Sums(k, f, w)
    <3>1. w \in SUBSET t /\ w # t /\ w \subseteq u
      BY <2>1, <2>5, ChosenIsIn
    <3>2. Sums(k, f, w) /\ V(w) = k[w]
      BY <1>3, <3>1
    <3> HIDE DEF w, k
    <3>3. IsFiniteSet(w)
      BY <1>1, <3>1, FS_Subset
    <3>4. k[w] = h[w]
      BY <2>2, <3>1, <3>2, <3>3, SumsAreUnique
    <3>5. QED
      BY <3>2, <3>4 DEF w
  <2> HIDE DEF g, V
  <2>6. g[u] = V(u)
    BY <2>2, <2>3, <2>4, <2>5
  <2>7. QED
    BY <2>6 DEF u
<1>5. Sums(g, f, t)
  <2> HIDE DEF V
  <2>1. g = [s \in SUBSET t |-> IF s = {} THEN 0 ELSE f[Chosen(s)] + g[s \ {Chosen(s)}]]
    BY <1>4
  <2>2. QED
    BY <2>1 DEF Sums
<1>6. QED
  BY <1>5

(* A sum is that of what is left without the chosen element, and it.        *)
LEMMA SumStep ==
  ASSUME NEW f, NEW S, IsFiniteSet(S)
  PROVE  SumFunctionOnSet(f, S) =
           IF S = {} THEN 0 ELSE f[Chosen(S)] + SumFunctionOnSet(f, S \ {Chosen(S)})
<1> DEFINE g == CHOOSE g : Sums(g, f, S)
           R == S \ {Chosen(S)}
           h == CHOOSE h : Sums(h, f, R)
<1>1. Sums(g, f, S)
  BY SumsExist
<1>2. IsFiniteSet(R)
  BY FS_Subset
<1>3. Sums(h, f, R)
  BY <1>2, SumsExist
<1>4. SumFunctionOnSet(f, S) = g[S] /\ SumFunctionOnSet(f, R) = h[R]
  BY SumIsChosen
<1> HIDE DEF g, h
<1>5. g[S] = IF S = {} THEN 0 ELSE f[Chosen(S)] + g[R]
  BY <1>1, SumsAt
<1>6. g[R] = h[R]
  <2>1. \A s \in SUBSET (S \cap R) : g[s] = h[s]
    BY <1>1, <1>3, SumsAreUnique
  <2>2. QED
    BY <2>1
<1>7. QED
  BY <1>4, <1>5, <1>6

LEMMA SumOfNone ==
  ASSUME NEW f
  PROVE  SumFunctionOnSet(f, {}) = 0
BY SumStep, FS_EmptySet

LEMMA SumsAgree ==
  ASSUME NEW S, IsFiniteSet(S), NEW f, NEW g, \A x \in S : f[x] = g[x]
  PROVE  SumFunctionOnSet(f, S) = SumFunctionOnSet(g, S)
<1> DEFINE differ == {s \in SUBSET S : SumFunctionOnSet(f, s) # SumFunctionOnSet(g, s)}
<1> SUFFICES ASSUME differ # {} PROVE FALSE
  OBVIOUS
<1>1. differ \subseteq SUBSET S
  OBVIOUS
<1>2. PICK t \in differ : \A u \in differ : u \subseteq t => u = t
  <2> HIDE DEF differ
  <2>1. QED
    BY <1>1, LeastSubset
<1>3. IsFiniteSet(t) /\ t \in SUBSET S
  BY <1>1, FS_Subset
<1>4. t # {}
  BY <1>2, SumOfNone
<1>5. SumFunctionOnSet(f, t) = f[Chosen(t)] + SumFunctionOnSet(f, t \ {Chosen(t)})
  BY <1>3, <1>4, SumStep
<1>6. SumFunctionOnSet(g, t) = g[Chosen(t)] + SumFunctionOnSet(g, t \ {Chosen(t)})
  BY <1>3, <1>4, SumStep
<1>7. SumFunctionOnSet(f, t \ {Chosen(t)}) = SumFunctionOnSet(g, t \ {Chosen(t)})
  BY <1>2, <1>3, <1>4, ChosenIsIn
<1>8. QED
  BY <1>2, <1>3, <1>4, <1>5, <1>6, <1>7, ChosenIsIn

LEMMA SumIsNat ==
  ASSUME NEW S, IsFiniteSet(S), NEW f, \A x \in S : f[x] \in Nat
  PROVE  SumFunctionOnSet(f, S) \in Nat
<1> DEFINE not == {s \in SUBSET S : SumFunctionOnSet(f, s) \notin Nat}
<1> SUFFICES ASSUME not # {} PROVE FALSE
  OBVIOUS
<1>1. not \subseteq SUBSET S
  OBVIOUS
<1>2. PICK t \in not : \A u \in not : u \subseteq t => u = t
  <2> HIDE DEF not
  <2>1. QED
    BY <1>1, LeastSubset
<1>3. IsFiniteSet(t) /\ t \in SUBSET S
  BY <1>1, FS_Subset
<1>4. t # {}
  <2>1. SumFunctionOnSet(f, t) \notin Nat
    OBVIOUS
  <2>2. SumFunctionOnSet(f, {}) = 0
    BY SumOfNone
  <2> HIDE DEF not
  <2>3. QED
    BY <2>1, <2>2
<1>5. SumFunctionOnSet(f, t) = f[Chosen(t)] + SumFunctionOnSet(f, t \ {Chosen(t)})
  BY <1>3, <1>4, SumStep
<1>6. SumFunctionOnSet(f, t \ {Chosen(t)}) \in Nat
  BY <1>2, <1>3, <1>4, ChosenIsIn
<1>7. f[Chosen(t)] \in Nat
  BY <1>3, <1>4, ChosenIsIn
<1>8. QED
  BY <1>2, <1>5, <1>6, <1>7

(* Any element can be added last.                                           *)
LEMMA SumWithout ==
  ASSUME NEW S, IsFiniteSet(S), NEW f, \A x \in S : f[x] \in Nat, NEW x \in S
  PROVE  SumFunctionOnSet(f, S) = f[x] + SumFunctionOnSet(f, S \ {x})
<1> DEFINE bad == {s \in SUBSET S : \E y \in s : SumFunctionOnSet(f, s)
                                                # f[y] + SumFunctionOnSet(f, s \ {y})}
<1> SUFFICES ASSUME bad # {} PROVE FALSE
  OBVIOUS
<1>1. bad \subseteq SUBSET S
  OBVIOUS
<1>2. PICK t \in bad : \A u \in bad : u \subseteq t => u = t
  <2> HIDE DEF bad
  <2>1. QED
    BY <1>1, LeastSubset
<1>3. PICK y \in t : SumFunctionOnSet(f, t) # f[y] + SumFunctionOnSet(f, t \ {y})
  OBVIOUS
<1> DEFINE c == Chosen(t)
<1>0. \A u \in SUBSET S : u \subseteq t /\ u # t =>
        \A z \in u : SumFunctionOnSet(f, u) = f[z] + SumFunctionOnSet(f, u \ {z})
  BY <1>2
<1>4. c \in t /\ t \in SUBSET S /\ IsFiniteSet(t)
  BY <1>1, <1>3, ChosenIsIn, FS_Subset
<1>5. SumFunctionOnSet(f, t) = f[c] + SumFunctionOnSet(f, t \ {c})
  BY <1>3, <1>4, SumStep
<1> HIDE DEF c, bad
<1>6. c # y
  BY <1>3, <1>5
<1>7. SumFunctionOnSet(f, t \ {c}) = f[y] + SumFunctionOnSet(f, (t \ {c}) \ {y})
  <2>1. t \ {c} \in SUBSET S /\ t \ {c} \subseteq t /\ t \ {c} # t /\ y \in t \ {c}
    BY <1>3, <1>4, <1>6
  <2>2. QED
    BY <1>0, <2>1
<1>8. SumFunctionOnSet(f, t \ {y}) = f[c] + SumFunctionOnSet(f, (t \ {y}) \ {c})
  <2>1. t \ {y} \in SUBSET S /\ t \ {y} \subseteq t /\ t \ {y} # t /\ c \in t \ {y}
    BY <1>3, <1>4, <1>6
  <2>2. QED
    BY <1>0, <2>1
<1>9. (t \ {c}) \ {y} = (t \ {y}) \ {c}
  OBVIOUS
<1>10. SumFunctionOnSet(f, (t \ {y}) \ {c}) \in Nat
  <2>1. IsFiniteSet((t \ {y}) \ {c})
    BY <1>4, FS_Subset
  <2>2. QED
    BY <1>4, <2>1, SumIsNat
<1>11. f[c] \in Nat /\ f[y] \in Nat
  BY <1>3, <1>4
<1>12. QED
  BY <1>3, <1>5, <1>7, <1>8, <1>9, <1>10, <1>11

(* One value changes.                                                       *)
LEMMA SumChanges ==
  ASSUME NEW S, IsFiniteSet(S), NEW f, NEW g, NEW x \in S,
         \A y \in S : f[y] \in Nat /\ g[y] \in Nat,
         \A y \in S \ {x} : f[y] = g[y]
  PROVE  SumFunctionOnSet(g, S) = SumFunctionOnSet(f, S) - f[x] + g[x]
<1>1. IsFiniteSet(S \ {x})
  BY FS_Subset
<1>2. SumFunctionOnSet(f, S \ {x}) = SumFunctionOnSet(g, S \ {x})
  BY <1>1, SumsAgree
<1>3. SumFunctionOnSet(f, S \ {x}) \in Nat
  BY <1>1, SumIsNat
<1>4. /\ SumFunctionOnSet(f, S) = f[x] + SumFunctionOnSet(f, S \ {x})
      /\ SumFunctionOnSet(g, S) = g[x] + SumFunctionOnSet(g, S \ {x})
  BY SumWithout
<1>5. QED
  BY <1>2, <1>3, <1>4

(* More elements have no smaller sum.                                       *)
LEMMA SumGrows ==
  ASSUME NEW S, IsFiniteSet(S), NEW R, R \subseteq S, NEW f, \A x \in S : f[x] \in Nat
  PROVE  SumFunctionOnSet(f, R) <= SumFunctionOnSet(f, S)
<1> DEFINE bad == {s \in SUBSET S : R \subseteq s /\ ~(SumFunctionOnSet(f, R) <= SumFunctionOnSet(f, s))}
<1> SUFFICES ASSUME bad # {} PROVE FALSE
  OBVIOUS
<1>1. bad \subseteq SUBSET S
  OBVIOUS
<1>2. PICK t \in bad : \A u \in bad : u \subseteq t => u = t
  <2> HIDE DEF bad
  <2>1. QED
    BY <1>1, LeastSubset
<1>3. IsFiniteSet(t) /\ IsFiniteSet(R) /\ t \in SUBSET S
  BY <1>1, FS_Subset
<1>4. SumFunctionOnSet(f, R) \in Nat
  BY <1>3, SumIsNat
<1>5. t # R
  BY <1>2, <1>4
<1>6. PICK x \in t : x \notin R
  BY <1>2, <1>5
<1>7. SumFunctionOnSet(f, t) = f[x] + SumFunctionOnSet(f, t \ {x})
  BY <1>3, SumWithout
<1>8. SumFunctionOnSet(f, t \ {x}) \in Nat
  <2>1. IsFiniteSet(t \ {x})
    BY <1>3, FS_Subset
  <2>2. QED
    BY <1>3, <2>1, SumIsNat
<1>9. SumFunctionOnSet(f, R) <= SumFunctionOnSet(f, t \ {x})
  BY <1>2, <1>3, <1>6
<1>10. f[x] \in Nat
  BY <1>3
<1>11. QED
  BY <1>2, <1>4, <1>7, <1>8, <1>9, <1>10

LEMMA SumOfZeros ==
  ASSUME NEW S, IsFiniteSet(S), NEW f, \A x \in S : f[x] = 0
  PROVE  SumFunctionOnSet(f, S) = 0
<1> DEFINE bad == {s \in SUBSET S : SumFunctionOnSet(f, s) # 0}
<1> SUFFICES ASSUME bad # {} PROVE FALSE
  OBVIOUS
<1>1. bad \subseteq SUBSET S
  OBVIOUS
<1>2. PICK t \in bad : \A u \in bad : u \subseteq t => u = t
  <2> HIDE DEF bad
  <2>1. QED
    BY <1>1, LeastSubset
<1>3. t # {} /\ IsFiniteSet(t) /\ t \in SUBSET S
  BY <1>1, <1>2, SumOfNone, FS_Subset
<1>4. SumFunctionOnSet(f, t) = f[Chosen(t)] + SumFunctionOnSet(f, t \ {Chosen(t)})
  BY <1>3, SumStep
<1>5. SumFunctionOnSet(f, t \ {Chosen(t)}) = 0 /\ f[Chosen(t)] = 0
  BY <1>2, <1>3, ChosenIsIn
<1>6. QED
  BY <1>4, <1>5

LEMMA LeastNatural ==
  ASSUME NEW S, S \subseteq Nat, S # {}
  PROVE  \E i \in S : \A j \in S : i <= j
<1> DEFINE less == {pair \in Nat \X Nat : pair[1] < pair[2]}
<1>1. IsWellFoundedOn(less, Nat)
  BY NatLessThanWellFounded DEF OpToRel
<1> HIDE DEF less
<1>2. PICK i \in S : \A j \in S : <<j, i>> \notin less
  BY <1>1, WFMin
<1>3. \A j \in S : ~(j < i)
  BY <1>2 DEF less
<1>4. QED
  BY <1>3

-----------------------------------------------------------------------------
(* The counters of the threads.                                             *)

RoomForAll == Cardinality(Threads) <= MaxThreadStates

Acquired == {t \in Threads : tls[t] # 0}

(* No two threads share a state, and none is handed out twice, because     *)
(* there are as many states registered as threads that acquired one.       *)
OneOwner ==
  /\ registered = Cardinality(Acquired)
  /\ \A t \in Threads : tls[t] <= registered
  /\ \A t, u \in Acquired : tls[t] = tls[u] => t = u

(* What a thread loaded is still there when it stores.                     *)
LoadsAreCurrent ==
  \A t \in Threads : loaded[t] # -1 => tls[t] # 0 /\ loaded[t] = counted[t]

FreshStatesAreZero ==
  /\ \A s \in States : s > registered => counter[s] = 0
  /\ \A t \in Threads : tls[t] = 0 => counted[t] = 0

IInv == TypeOK /\ OneOwner /\ LoadsAreCurrent /\ FreshStatesAreZero /\ CountsOfOwner

(* A thread that has no state yet finds room for one.                      *)
LEMMA RoomForNext ==
  ASSUME RoomForAll, TypeOK, OneOwner, NEW t \in Threads, tls[t] = 0
  PROVE  /\ registered < MaxThreadStates
         /\ Cardinality(Acquired \cup {t}) = registered + 1
<1>1. IsFiniteSet(Acquired) /\ t \notin Acquired
  BY ThreadsAssumption, FS_Subset DEF Acquired
<1>2. Cardinality(Acquired \cup {t}) = Cardinality(Acquired) + 1
  BY <1>1, FS_AddElement
<1>3. Cardinality(Acquired \cup {t}) <= Cardinality(Threads)
  <2>1. Acquired \cup {t} \subseteq Threads
    BY DEF Acquired
  <2> QED
    BY <2>1, ThreadsAssumption, FS_Subset
<1>4. Cardinality(Acquired) \in Nat /\ Cardinality(Threads) \in Nat
  BY <1>1, ThreadsAssumption, FS_CardinalityType
<1> QED
  BY <1>2, <1>3, <1>4, StatesAssumption DEF RoomForAll, OneOwner

LEMMA InitInvariant == Init => IInv
<1> SUFFICES ASSUME Init PROVE IInv
  OBVIOUS
<1>1. TypeOK
  BY StatesAssumption DEF Init, TypeOK, States
<1>2. OneOwner
  <2>1. Acquired = {}
    BY DEF Init, Acquired
  <2> QED
    BY <2>1, FS_EmptySet DEF Init, OneOwner
<1>3. LoadsAreCurrent /\ FreshStatesAreZero /\ CountsOfOwner
  BY DEF Init, LoadsAreCurrent, FreshStatesAreZero, CountsOfOwner
<1> QED
  BY <1>1, <1>2, <1>3 DEF IInv

LEMMA AcquirePreserves ==
  ASSUME RoomForAll, IInv, NEW t \in Threads, AcquireThreadState(t)
  PROVE  IInv'
<1> USE StatesAssumption DEF IInv
<1>1. registered < MaxThreadStates /\ Cardinality(Acquired \cup {t}) = registered + 1
  BY RoomForNext DEF AcquireThreadState
<1>2. /\ tls' = [tls EXCEPT ![t] = registered + 1] /\ registered' = registered + 1
      /\ UNCHANGED <<counter, loaded, counted>>
  BY <1>1 DEF AcquireThreadState, TypeOK
<1>3. Acquired' = Acquired \cup {t}
  BY <1>2 DEF Acquired, TypeOK
<1>4. TypeOK'
  BY <1>1, <1>2 DEF TypeOK
<1>5. OneOwner'
  <2>1. registered' = Cardinality(Acquired')
    BY <1>1, <1>2, <1>3
  <2>2. \A u \in Threads : tls'[u] <= registered'
    BY <1>2 DEF OneOwner, TypeOK
  <2>3. \A u, v \in Acquired' : tls'[u] = tls'[v] => u = v
    BY <1>2 DEF OneOwner, TypeOK, Acquired
  <2> QED
    BY <2>1, <2>2, <2>3 DEF OneOwner
<1>6. LoadsAreCurrent'
  BY <1>2 DEF LoadsAreCurrent, TypeOK
<1>7. FreshStatesAreZero'
  BY <1>2 DEF FreshStatesAreZero, TypeOK, States
<1>8. CountsOfOwner'
  <2>1. counter[registered + 1] = 0 /\ counted[t] = 0
    BY <1>1 DEF FreshStatesAreZero, TypeOK, States, AcquireThreadState
  <2> QED
    BY <1>2, <2>1 DEF CountsOfOwner, TypeOK
<1> QED
  BY <1>4, <1>5, <1>6, <1>7, <1>8

LEMMA LoadPreserves ==
  ASSUME IInv, NEW t \in Threads, LoadCounter(t)
  PROVE  IInv'
<1> USE DEF IInv, LoadCounter
<1>1. TypeOK'
  BY DEF TypeOK, States
<1>2. OneOwner' /\ FreshStatesAreZero' /\ CountsOfOwner'
  BY DEF OneOwner, Acquired, FreshStatesAreZero, CountsOfOwner
<1>3. LoadsAreCurrent'
  BY DEF LoadsAreCurrent, CountsOfOwner, TypeOK
<1> QED
  BY <1>1, <1>2, <1>3

LEMMA StorePreserves ==
  ASSUME IInv, NEW t \in Threads, StoreCounter(t)
  PROVE  IInv'
<1> USE DEF IInv, StoreCounter
<1>1. tls[t] \in States /\ t \in Acquired /\ loaded[t] = counted[t]
  BY DEF LoadsAreCurrent, TypeOK, States, Acquired
<1>2. TypeOK'
  BY <1>1 DEF TypeOK
<1>3. OneOwner'
  BY DEF OneOwner, Acquired
<1>4. LoadsAreCurrent'
  BY DEF LoadsAreCurrent, TypeOK
<1>5. FreshStatesAreZero'
  BY <1>1 DEF FreshStatesAreZero, OneOwner, TypeOK, States
<1>6. CountsOfOwner'
  BY <1>1 DEF CountsOfOwner, OneOwner, Acquired, TypeOK, States
<1> QED
  BY <1>2, <1>3, <1>4, <1>5, <1>6

LEMMA StepPreserves ==
  ASSUME RoomForAll, IInv, [Next]_vars
  PROVE  IInv'
<1>1. ASSUME NEW t \in Threads, AcquireThreadState(t) PROVE IInv'
  BY <1>1, AcquirePreserves
<1>2. ASSUME NEW t \in Threads, LoadCounter(t) PROVE IInv'
  BY <1>2, LoadPreserves
<1>3. ASSUME NEW t \in Threads, StoreCounter(t) PROVE IInv'
  BY <1>3, StorePreserves
<1>4. CASE UNCHANGED recorderVars
  BY <1>4 DEF recorderVars, IInv, TypeOK, OneOwner, Acquired, LoadsAreCurrent,
              FreshStatesAreZero, CountsOfOwner
<1>5. ASSUME \/ \E reader \in {"frame", "start"} : BeginTotals(reader)
             \/ ReadState \/ EndFrame \/ StartFrames
      PROVE  IInv'
  BY <1>4, <1>5 DEF BeginTotals, ReadState, EndFrame, StartFrames
<1>6. CASE UNCHANGED vars
  BY <1>4, <1>6 DEF vars, recorderVars
<1> QED
  BY <1>1, <1>2, <1>3, <1>5, <1>6 DEF Next

(* With no more threads than accumulators, what a thread counted is in its *)
(* accumulator, whatever the other threads and EndFrame do meanwhile.      *)
THEOREM OwnersCountsAreKept ==
  ASSUME RoomForAll
  PROVE  Spec => []CountsOfOwner
<1>1. Init => IInv
  BY InitInvariant
<1>2. IInv /\ [Next]_vars => IInv'
  BY StepPreserves
<1>3. IInv => CountsOfOwner
  BY DEF IInv
<1> QED
  BY <1>1, <1>2, <1>3, PTL DEF Spec

-----------------------------------------------------------------------------
(* The frames.                                                              *)

(* What is registered is counted once: in the frames that are closed, and   *)
(* by whoever adds up in what was read and what is still to be read.        *)
FrameInv ==
  /\ toRead \subseteq 1 .. registered /\ (reading = "no" => toRead = {})
  /\ {sum, lastCounter, baseline, reported, clipped} \subseteq Nat
  /\ reported + clipped = lastCounter - baseline
  /\ lastCounter <= SumFunctionOnSet(counter, 1 .. registered)
  /\ reading # "no" =>
       /\ lastCounter <= sum + SumFunctionOnSet(counter, toRead)
       /\ sum + SumFunctionOnSet(counter, toRead) <= SumFunctionOnSet(counter, 1 .. registered)
  /\ NothingLost

LEMMA StatesAreFinite ==
  ASSUME TypeOK, toRead \subseteq 1 .. registered
  PROVE  /\ IsFiniteSet(States) /\ IsFiniteSet(1 .. registered) /\ IsFiniteSet(toRead)
         /\ 1 .. registered \subseteq States
         /\ \A s \in States : counter[s] \in Nat
<1>1. IsFiniteSet(States) /\ 1 .. registered \subseteq States
  BY StatesAssumption, FS_Interval DEF States, TypeOK
<1>2. IsFiniteSet(1 .. registered)
  BY <1>1, FS_Subset
<1>3. QED
  BY <1>1, <1>2, FS_Subset DEF TypeOK

LEMMA InitFrames == Init => FrameInv
<1> SUFFICES ASSUME Init PROVE FrameInv
  OBVIOUS
<1>1. 1 .. registered = {}
  BY DEF Init
<1>2. SumFunctionOnSet(counter, {}) = 0
  BY SumOfNone
<1>3. SumFunction(counter) = SumFunctionOnSet(counter, States)
      /\ SumFunction(counted) = SumFunctionOnSet(counted, Threads)
  BY DEF SumFunction, Init
<1>4. IsFiniteSet(States)
  BY StatesAssumption, FS_Interval DEF States
<1>5. SumFunctionOnSet(counter, States) = 0
  BY <1>4, SumOfZeros DEF Init
<1>6. SumFunctionOnSet(counted, Threads) = 0
  BY ThreadsAssumption, SumOfZeros DEF Init
<1>7. QED
  BY <1>1, <1>2, <1>3, <1>5, <1>6 DEF Init, FrameInv, NothingLost

LEMMA AcquireKeepsFrames ==
  ASSUME RoomForAll, IInv, FrameInv, NEW t \in Threads, AcquireThreadState(t)
  PROVE  FrameInv'
<1>1. registered < MaxThreadStates
  BY RoomForNext DEF AcquireThreadState, IInv
<1>2. registered' = registered + 1 /\ UNCHANGED <<counter, counted, frameVars>>
  BY <1>1, StatesAssumption DEF AcquireThreadState, IInv, TypeOK
<1>3. registered \in Nat /\ 1 .. registered + 1 \subseteq States
  BY <1>1, StatesAssumption DEF IInv, TypeOK, States
<1>4. IsFiniteSet(1 .. registered + 1) /\ 1 .. registered \subseteq 1 .. registered + 1
  BY <1>3, FS_Interval
<1>5. \A s \in 1 .. registered + 1 : counter[s] \in Nat
  BY <1>3 DEF IInv, TypeOK
<1>6. SumFunctionOnSet(counter, 1 .. registered) <= SumFunctionOnSet(counter, 1 .. registered + 1)
  BY <1>4, <1>5, SumGrows
<1>7. /\ SumFunctionOnSet(counter, 1 .. registered + 1) \in Nat
      /\ SumFunctionOnSet(counter, 1 .. registered) \in Nat
      /\ SumFunctionOnSet(counter, toRead) \in Nat
  <2>1. IsFiniteSet(1 .. registered) /\ IsFiniteSet(toRead)
    BY <1>4, FS_Subset DEF FrameInv
  <2>2. QED
    BY <1>4, <1>5, <2>1, SumIsNat DEF FrameInv
<1>8. QED
  BY <1>2, <1>3, <1>4, <1>6, <1>7 DEF FrameInv, frameVars, shownVars, NothingLost

LEMMA StoreKeepsFrames ==
  ASSUME IInv, FrameInv, NEW t \in Threads, StoreCounter(t)
  PROVE  FrameInv'
<1> DEFINE s == tls[t]
<1>1. /\ s \in 1 .. registered /\ s \in States /\ counter[s] \in Nat
      /\ counter' = [counter EXCEPT ![s] = counter[s] + 1]
      /\ counted' = [counted EXCEPT ![t] = counted[t] + 1]
      /\ UNCHANGED <<registered, frameVars>>
  <2>1. s # 0 /\ loaded[t] = counted[t] /\ s \in 1 .. registered /\ s \in States
    BY DEF StoreCounter, IInv, TypeOK, LoadsAreCurrent, OneOwner, States
  <2>2. counter[s] = counted[t] /\ counter[s] \in Nat
    BY <2>1 DEF CountsOfOwner, IInv, TypeOK
  <2> HIDE DEF s
  <2>3. QED
    BY <2>1, <2>2 DEF StoreCounter, s, IInv, TypeOK
<1> HIDE DEF s
<1>2. /\ IsFiniteSet(States) /\ IsFiniteSet(1 .. registered) /\ IsFiniteSet(toRead)
      /\ 1 .. registered \subseteq States /\ toRead \subseteq States
      /\ \A r \in States : counter[r] \in Nat /\ counter'[r] \in Nat
  <2>1. /\ IsFiniteSet(States) /\ IsFiniteSet(1 .. registered) /\ IsFiniteSet(toRead)
        /\ 1 .. registered \subseteq States /\ \A r \in States : counter[r] \in Nat
    BY StatesAreFinite DEF FrameInv, IInv
  <2>2. \A r \in States : counter'[r] \in Nat
    BY <1>1, <2>1 DEF IInv, TypeOK
  <2>3. QED
    BY <2>1, <2>2 DEF FrameInv
<1>3. \A r \in States \ {s} : counter[r] = counter'[r]
  BY <1>1 DEF IInv, TypeOK
<1>4. ASSUME NEW R \in SUBSET States, IsFiniteSet(R)
      PROVE  /\ SumFunctionOnSet(counter, R) \in Nat
             /\ SumFunctionOnSet(counter', R) =
                  SumFunctionOnSet(counter, R) + (IF s \in R THEN 1 ELSE 0)
  <2>1. SumFunctionOnSet(counter, R) \in Nat
    BY <1>2, <1>4, SumIsNat
  <2>2. CASE s \in R
    <3>1. SumFunctionOnSet(counter', R) = SumFunctionOnSet(counter, R) - counter[s] + counter'[s]
      BY <1>2, <1>3, <1>4, <2>2, SumChanges
    <3>2. counter'[s] = counter[s] + 1
      BY <1>1 DEF IInv, TypeOK
    <3>3. QED
      BY <1>1, <2>1, <2>2, <3>1, <3>2
  <2>3. CASE s \notin R
    <3>1. SumFunctionOnSet(counter', R) = SumFunctionOnSet(counter, R)
      BY <1>3, <1>4, <2>3, SumsAgree
    <3>2. QED
      BY <2>1, <2>3, <3>1
  <2>4. QED
    BY <2>2, <2>3
<1>5. SumFunctionOnSet(counted', Threads) = SumFunctionOnSet(counted, Threads) + 1
  <2>1. /\ \A u \in Threads : counted[u] \in Nat /\ counted'[u] \in Nat
        /\ \A u \in Threads \ {t} : counted[u] = counted'[u]
        /\ counted'[t] = counted[t] + 1
    BY <1>1 DEF IInv, TypeOK
  <2>2. SumFunctionOnSet(counted', Threads) =
          SumFunctionOnSet(counted, Threads) - counted[t] + counted'[t]
    BY <2>1, ThreadsAssumption, SumChanges
  <2>3. SumFunctionOnSet(counted, Threads) \in Nat
    BY <2>1, ThreadsAssumption, SumIsNat
  <2>4. QED
    BY <2>1, <2>2, <2>3
<1>6. /\ SumFunction(counter) = SumFunctionOnSet(counter, States)
      /\ SumFunction(counter') = SumFunctionOnSet(counter', States)
      /\ SumFunction(counted) = SumFunctionOnSet(counted, Threads)
      /\ SumFunction(counted') = SumFunctionOnSet(counted', Threads)
  BY <1>1 DEF SumFunction, IInv, TypeOK
<1>7. NothingLost'
  BY <1>1, <1>2, <1>4, <1>5, <1>6 DEF NothingLost, FrameInv
<1>8. /\ SumFunctionOnSet(counter', 1 .. registered) = SumFunctionOnSet(counter, 1 .. registered) + 1
      /\ SumFunctionOnSet(counter, 1 .. registered) \in Nat
      /\ SumFunctionOnSet(counter, toRead) \in Nat
      /\ SumFunctionOnSet(counter', toRead) \in
           {SumFunctionOnSet(counter, toRead), SumFunctionOnSet(counter, toRead) + 1}
  <2>1. 1 .. registered \in SUBSET States /\ IsFiniteSet(1 .. registered)
    BY <1>2
  <2>2. toRead \in SUBSET States /\ IsFiniteSet(toRead)
    BY <1>2
  <2>3. /\ SumFunctionOnSet(counter, toRead) \in Nat
        /\ SumFunctionOnSet(counter', toRead) =
             SumFunctionOnSet(counter, toRead) + (IF s \in toRead THEN 1 ELSE 0)
    BY <1>4, <2>2
  <2>4. /\ SumFunctionOnSet(counter, 1 .. registered) \in Nat
        /\ SumFunctionOnSet(counter', 1 .. registered) =
             SumFunctionOnSet(counter, 1 .. registered) + (IF s \in 1 .. registered THEN 1 ELSE 0)
    BY <1>4, <2>1
  <2>5. QED
    BY <1>1, <2>3, <2>4
<1>9. UNCHANGED <<toRead, sum, reading, lastCounter, baseline, reported, clipped, registered>>
  BY <1>1 DEF frameVars, shownVars
<1>10. reading # "no" =>
         sum + SumFunctionOnSet(counter', toRead) <= SumFunctionOnSet(counter', 1 .. registered)
  BY <1>8 DEF FrameInv
<1>11. QED
  BY <1>7, <1>8, <1>9, <1>10 DEF FrameInv

LEMMA FrameStepsKeep ==
  ASSUME IInv, FrameInv,
         \/ \E reader \in {"frame", "start"} : BeginTotals(reader)
         \/ ReadState \/ EndFrame \/ StartFrames
  PROVE  FrameInv'
<1>1. /\ IsFiniteSet(1 .. registered) /\ IsFiniteSet(toRead)
      /\ \A s \in 1 .. registered : counter[s] \in Nat
  BY StatesAreFinite DEF FrameInv, IInv
<1>2. /\ SumFunctionOnSet(counter, 1 .. registered) \in Nat
      /\ SumFunctionOnSet(counter, toRead) \in Nat
  BY <1>1, SumIsNat DEF FrameInv
<1>3. ASSUME NEW reader \in {"frame", "start"}, BeginTotals(reader)
      PROVE  FrameInv'
  BY <1>2, <1>3 DEF BeginTotals, FrameInv, recorderVars, shownVars, NothingLost
<1>4. ASSUME ReadState
      PROVE  FrameInv'
  <2> DEFINE s == CHOOSE s \in toRead : \A u \in toRead : s <= u
  <2>1. /\ toRead # {} /\ toRead' = toRead \ {s} /\ sum' = sum + counter[s]
        /\ UNCHANGED <<recorderVars, reading, lastCounter, baseline, reported, clipped>>
    BY <1>4 DEF ReadState, shownVars
  <2>2. s \in toRead
    <3>1. \E r \in toRead : \A u \in toRead : r <= u
      <4>1. toRead \subseteq Nat
        BY DEF FrameInv, IInv, TypeOK
      <4>2. QED
        BY <2>1, <4>1, LeastNatural
    <3>2. QED
      BY <3>1
  <2> HIDE DEF s
  <2>3. SumFunctionOnSet(counter, toRead) = counter[s] + SumFunctionOnSet(counter, toRead')
    BY <1>1, <2>1, <2>2, SumWithout DEF FrameInv
  <2>4. SumFunctionOnSet(counter, toRead') \in Nat
    <3>1. IsFiniteSet(toRead')
      BY <1>1, <2>1, FS_Subset
    <3>2. QED
      BY <1>1, <2>1, <3>1, SumIsNat DEF FrameInv
  <2>5. counter[s] \in Nat
    BY <1>1, <2>2 DEF FrameInv
  <2>6. UNCHANGED <<registered, counter, counted>> /\ reading # "no"
    BY <2>1 DEF recorderVars, FrameInv
  <2>7. sum' \in Nat /\ toRead' \subseteq 1 .. registered
    <3>1. sum \in Nat /\ toRead \subseteq 1 .. registered
      BY DEF FrameInv
    <3>2. sum' \in Nat
      BY <2>1, <2>5, <3>1
    <3>3. QED
      BY <2>1, <3>1, <3>2
  <2>8. sum' + SumFunctionOnSet(counter, toRead') = sum + SumFunctionOnSet(counter, toRead)
    <3>1. sum \in Nat /\ sum' = sum + counter[s]
      BY <2>1 DEF FrameInv
    <3>2. QED
      BY <2>3, <2>4, <2>5, <3>1
  <2>9. QED
    BY <1>2, <2>1, <2>6, <2>7, <2>8 DEF FrameInv, NothingLost
<1>5. ASSUME EndFrame
      PROVE  FrameInv'
  <2>1. SumFunctionOnSet(counter, toRead) = 0
    BY <1>5, SumOfNone DEF EndFrame
  <2>2. /\ {sum, lastCounter, baseline, reported, clipped} \subseteq Nat /\ MaxDelta \in Nat
        /\ reported + clipped = lastCounter - baseline
        /\ lastCounter <= sum /\ sum <= SumFunctionOnSet(counter, 1 .. registered)
    BY <1>2, <1>5, <2>1, CountAssumption DEF EndFrame, FrameInv
  <2>3. FrameCount \in Nat /\ Excess \in Nat /\ FrameCount + Excess = sum - lastCounter
    <3>1. Delta = sum - lastCounter /\ Delta \in Nat
      BY <2>2 DEF Delta
    <3>2. CASE Delta > MaxDelta
      BY <2>2, <3>1, <3>2 DEF FrameCount, Excess
    <3>3. CASE ~(Delta > MaxDelta)
      BY <2>2, <3>1, <3>3 DEF FrameCount, Excess
    <3>4. QED
      BY <3>2, <3>3
  <2>4. /\ reported' = reported + FrameCount /\ clipped' = clipped + Excess /\ lastCounter' = sum
        /\ sum' = 0 /\ reading' = "no" /\ toRead' = toRead /\ toRead = {} /\ baseline' = baseline
        /\ UNCHANGED <<registered, counter, counted>>
    BY <1>5 DEF EndFrame, recorderVars
  <2>5. {reported', clipped'} \subseteq Nat /\ reported' + clipped' = lastCounter' - baseline'
    <3>1. /\ sum \in Nat /\ lastCounter \in Nat /\ baseline \in Nat
          /\ reported \in Nat /\ clipped \in Nat
      BY <2>2
    <3>2. reported + FrameCount + (clipped + Excess) = sum - baseline
      BY <2>2, <2>3, <3>1
    <3>3. reported + FrameCount \in Nat /\ clipped + Excess \in Nat
      BY <2>3, <3>1
    <3>4. QED
      BY <2>4, <3>2, <3>3
  <2>6. NothingLost' /\ toRead' \subseteq 1 .. registered'
    BY <2>4 DEF FrameInv, NothingLost
  <2>7. QED
    BY <2>2, <2>4, <2>5, <2>6 DEF FrameInv
<1>6. ASSUME StartFrames
      PROVE  FrameInv'
  <2>1. SumFunctionOnSet(counter, toRead) = 0
    BY <1>6, SumOfNone DEF StartFrames
  <2>2. QED
    BY <1>2, <1>6, <2>1 DEF StartFrames, FrameInv, recorderVars, NothingLost
<1>7. QED
  BY <1>3, <1>4, <1>5, <1>6

LEMMA CountedFramesKeep ==
  ASSUME RoomForAll, IInv, FrameInv, [Next]_vars
  PROVE  FrameInv'
<1>1. ASSUME NEW t \in Threads, LoadCounter(t) PROVE FrameInv'
  BY <1>1 DEF LoadCounter, frameVars, shownVars, FrameInv, NothingLost
<1>2. CASE UNCHANGED vars
  BY <1>2 DEF vars, recorderVars, frameVars, shownVars, FrameInv, NothingLost
<1>3. QED
  BY <1>1, <1>2, AcquireKeepsFrames, StoreKeepsFrames, FrameStepsKeep DEF Next

LEMMA CountingInvariance ==
  ASSUME RoomForAll
  PROVE  Spec => [](IInv /\ FrameInv)
<1>1. Init => IInv /\ FrameInv
  BY InitInvariant, InitFrames
<1>2. IInv /\ FrameInv /\ [Next]_vars => (IInv /\ FrameInv)'
  BY StepPreserves, CountedFramesKeep
<1>3. QED
  BY <1>1, <1>2, PTL DEF Spec

LEMMA FramesAddUpThen == ASSUME IInv, FrameInv PROVE FramesAddUp
<1>1. /\ SumFunctionOnSet(counter, 1 .. registered) <= SumFunctionOnSet(counter, States)
      /\ SumFunctionOnSet(counter, 1 .. registered) \in Nat
      /\ SumFunctionOnSet(counter, States) \in Nat
  BY StatesAreFinite, SumGrows, SumIsNat DEF FrameInv, IInv
<1>2. SumFunction(counter) = SumFunctionOnSet(counter, States)
  BY DEF SumFunction, IInv, TypeOK
<1>3. QED
  BY <1>1, <1>2 DEF FramesAddUp, FrameInv, NothingLost

(* With no more threads than accumulators the counts of a Runtime's frames, *)
(* and what the 32 bits of a count left out, add up to what was read since  *)
(* it was initialized, and never to more than was counted, although one     *)
(* accumulator is read after another while all of them change.              *)
THEOREM FramesAreAddedUp ==
  ASSUME RoomForAll
  PROVE  Spec => []FramesAddUp
BY FramesAddUpThen, CountingInvariance, PTL

(* ... and nothing counted is lost: the claim of the comment on AddCounter, *)
(* which one thread more than accumulators refutes.                         *)
THEOREM NothingIsLost ==
  ASSUME RoomForAll
  PROVE  Spec => []NothingLost
BY CountingInvariance, PTL DEF FrameInv

-----------------------------------------------------------------------------
(* The capture.                                                             *)

Writing == {"frames", "events", "write"}

Locals == [frame : [n : 0 .. FrameModulus - 1, of : Nat], expired : BOOLEAN, no : Nat,
           frames : SUBSET Nat, start : Nat]

(* What the threads may read of each other's work has the right shape.      *)
Shapes ==
  /\ capturing \in BOOLEAN /\ captureNo \in Nat
  /\ DOMAIN pc = Actors
  /\ local \in [Actors -> Locals]
  /\ capture.frames \in SUBSET Nat /\ capture.start \in Nat
  /\ frameNo \in 0 .. FrameModulus - 1
  /\ history \in Seq(0 .. FrameModulus - 1)

(* A capture's number is taken by one thread, while it stops the capture.   *)
NumbersAreTaken ==
  /\ capturing => captureNo > 0
  /\ \A t \in Actors : pc[t] \notin Writing => local[t].no = 0
  /\ \A t \in Actors : local[t].no <= captureNo /\ (capturing => local[t].no < captureNo)
  /\ \A t, u \in Actors : local[t].no # 0 /\ local[t].no = local[u].no => t = u

(* A number that was reported is not taken any more.                        *)
NumbersAreSpent ==
  /\ \A r \in reports :
       /\ r.no \in Nat \ {0} /\ r.no <= captureNo
       /\ capturing => r.no < captureNo
       /\ \A t \in Actors : local[t].no # r.no
  /\ \A q, r \in reports : q.no = r.no => q = r

ReportInv == Shapes /\ NumbersAreTaken /\ NumbersAreSpent

-----------------------------------------------------------------------------
LEMMA NoLocalsIsLocals == NoLocals \in Locals
BY BoundAssumption, CapacityAssumption DEF NoLocals, Locals

LEMMA LocalsUpdated ==
  ASSUME NEW l \in Locals
  PROVE  /\ \A no \in Nat : [l EXCEPT !.no = no] \in Locals
         /\ \A frames \in SUBSET Nat : [l EXCEPT !.frames = frames] \in Locals
         /\ \A start \in Nat : [l EXCEPT !.start = start] \in Locals
         /\ \A frame \in [n : 0 .. FrameModulus - 1, of : Nat], expired \in BOOLEAN :
              [l EXCEPT !.frame = frame, !.expired = expired] \in Locals
BY DEF Locals

(* What else is noted in a thread's locals leaves the number alone.         *)
LEMMA NumberKept ==
  ASSUME NEW l \in Locals
  PROVE  /\ \A frames : [l EXCEPT !.frames = frames].no = l.no
         /\ \A start : [l EXCEPT !.start = start].no = l.no
         /\ \A frame, expired : [l EXCEPT !.frame = frame, !.expired = expired].no = l.no
BY DEF Locals

LEMMA InitShapes == CaptureInit => Shapes
<1> SUFFICES ASSUME CaptureInit PROVE Shapes
  OBVIOUS
<1>1. DOMAIN pc = Actors
  BY DEF CaptureInit
<1>2. local \in [Actors -> Locals]
  BY NoLocalsIsLocals DEF CaptureInit
<1>3. frameNo \in 0 .. FrameModulus - 1
  BY BoundAssumption, CapacityAssumption DEF CaptureInit
<1>4. capture.frames = {} /\ capture.start = 0 /\ history \in Seq(0 .. FrameModulus - 1)
  BY DEF CaptureInit, NoCapture
<1>5. capturing \in BOOLEAN /\ captureNo \in Nat
  BY DEF CaptureInit
<1>6. QED
  BY <1>1, <1>2, <1>3, <1>4, <1>5 DEF Shapes

LEMMA InitReports == CaptureInit => ReportInv
<1> SUFFICES ASSUME CaptureInit PROVE NumbersAreTaken /\ NumbersAreSpent
  BY InitShapes DEF ReportInv
<1>1. NumbersAreTaken
  BY DEF CaptureInit, NumbersAreTaken, NoLocals, Actors, Writing
<1>2. NumbersAreSpent
  BY DEF CaptureInit, NumbersAreSpent
<1>3. QED
  BY <1>1, <1>2

(* Pushing into a ring that is full or not: the newest entry is the last.   *)
LEMMA RingKeeps ==
  ASSUME NEW T, NEW ring \in Seq(T), NEW x \in T
  PROVE  /\ PushEntry(ring, x) \in Seq(T)
         /\ PushEntry(ring, x) # <<>>
         /\ PushEntry(ring, x)[Len(PushEntry(ring, x))] = x
<1> DEFINE kept == IF Len(ring) < HistoryFrames THEN ring ELSE Tail(ring)
<1>1. kept \in Seq(T)
  BY CapacityAssumption
<1>2. PushEntry(ring, x) = Append(kept, x)
  BY DEF PushEntry
<1> HIDE DEF kept
<1>3. QED
  BY <1>1, <1>2

-----------------------------------------------------------------------------
(* Steps that leave the numbers alone: no capture starts or stops, and no   *)
(* thread comes to write or is done with it.                                *)
LEMMA ReturnGoes ==
  ASSUME DOMAIN pc = Actors, NEW t \in Actors, Return(t)
  PROVE  /\ DOMAIN pc' = Actors /\ \A u \in Actors \ {t} : pc'[u] = pc[u]
         /\ t # "host" => pc'[t] = "idle"
         /\ t = "host" /\ pc[t] = "start" => pc'[t] = "running"
         /\ t = "host" /\ pc[t] # "start" => pc'[t] = "shutdown"
<1>1. CASE t # "host"
  BY <1>1 DEF Return
<1>2. CASE t = "host" /\ pc[t] = "start"
  <2>1. pc' = [pc EXCEPT ![t] = "running"]
    BY <1>2 DEF Return
  <2>2. QED
    BY <1>2, <2>1
<1>3. CASE t = "host" /\ pc[t] # "start"
  BY <1>3 DEF Return
<1>4. QED
  BY <1>1, <1>2, <1>3

LEMMA ReturnForgets ==
  ASSUME Shapes, NEW t \in Actors, Return(t)
  PROVE  /\ DOMAIN pc' = Actors /\ local' \in [Actors -> Locals]
         /\ local'[t].no = 0 /\ pc'[t] \notin Writing
         /\ \A u \in Actors \ {t} : local'[u] = local[u] /\ pc'[u] = pc[u]
<1>1. local' = [local EXCEPT ![t] = NoLocals] /\ NoLocals \in Locals /\ NoLocals.no = 0
  BY NoLocalsIsLocals DEF Return, NoLocals
<1>2. /\ DOMAIN pc' = Actors /\ \A u \in Actors \ {t} : pc'[u] = pc[u]
      /\ pc'[t] \in {"running", "shutdown", "idle"}
  BY ReturnGoes DEF Shapes
<1>3. QED
  BY <1>1, <1>2 DEF Shapes, Writing

LEMMA ShapesKeep ==
  ASSUME Shapes, [CaptureNext]_captureSideVars
  PROVE  Shapes'
<1> USE DEF captureVars, hostVars, samplerVars, GoTo
<1>1. CASE Measure
  <2>1. [n |-> frameNo, of |-> Running] \in [n : 0 .. FrameModulus - 1, of : Nat]
    BY DEF Shapes, Running
  <2>2. Expired(age') \in BOOLEAN
    BY DEF Expired
  <2>3. local' \in [Actors -> Locals]
    <3> DEFINE frame == [n |-> frameNo, of |-> Running]
    <3>1. local' = [local EXCEPT !["present"] = [@ EXCEPT !.frame = frame, !.expired = Expired(age')]]
      BY <1>1 DEF Measure
    <3> HIDE DEF frame
    <3>2. [local["present"] EXCEPT !.frame = frame, !.expired = Expired(age')] \in Locals
      BY <2>1, <2>2, LocalsUpdated DEF Shapes, Actors, frame
    <3>3. QED
      BY <3>1, <3>2 DEF Shapes
  <2>4. frameNo' \in 0 .. FrameModulus - 1
    BY <1>1, BoundAssumption, CapacityAssumption DEF Measure, Shapes
  <2>5. QED
    BY <1>1, <2>3, <2>4 DEF Measure, Shapes
<1>2. CASE PushHistory
  <2>1. local["present"].frame.n \in 0 .. FrameModulus - 1
    BY DEF Shapes, Locals, Actors
  <2>2. history' \in Seq(0 .. FrameModulus - 1)
    BY <1>2, <2>1, RingKeeps DEF PushHistory, Shapes
  <2>3. QED
    BY <1>2, <2>2 DEF PushHistory, Shapes
<1>3. CASE AskCapturing
  BY <1>3 DEF AskCapturing, Shapes
<1>4. CASE PushFrame
  <2>1. local["present"].frame.of \in Nat
    BY DEF Shapes, Locals, Actors
  <2>2. capture'.frames \in SUBSET Nat /\ capture'.start = capture.start
    BY <1>4, <2>1 DEF PushFrame, Shapes
  <2>3. QED
    BY <1>4, <2>2 DEF PushFrame, Shapes
<1>5. ASSUME NEW t \in Actors, StartCapture(t) PROVE Shapes'
  <2>1. DOMAIN pc' = Actors /\ local' \in [Actors -> Locals]
    BY <1>5, ReturnForgets DEF StartCapture
  <2>2. CASE capturing
    BY <1>5, <2>1, <2>2 DEF StartCapture, Shapes
  <2>3. CASE ~capturing
    BY <1>5, <2>1, <2>3 DEF StartCapture, Shapes
  <2>4. QED
    BY <2>2, <2>3
<1>6. ASSUME NEW t \in Actors, StopCapture(t) PROVE Shapes'
  <2>1. DOMAIN pc' = Actors /\ local' \in [Actors -> Locals]
    <3>1. CASE capturing
      <4>1. local' = [local EXCEPT ![t] = [@ EXCEPT !.no = captureNo]]
        BY <1>6, <3>1 DEF StopCapture
      <4>2. [local[t] EXCEPT !.no = captureNo] \in Locals
        BY LocalsUpdated DEF Shapes
      <4>3. QED
        BY <1>6, <3>1, <4>1, <4>2 DEF StopCapture, Shapes
    <3>2. CASE ~capturing
      BY <1>6, <3>2, ReturnForgets DEF StopCapture
    <3>3. QED
      BY <3>1, <3>2
  <2>2. QED
    BY <1>6, <2>1 DEF StopCapture, Shapes
<1>7. ASSUME NEW t \in Actors, TakeFrames(t) \/ TakeEvents(t) PROVE Shapes'
  <2>1. PICK l \in Locals : local' = [local EXCEPT ![t] = l]
    <3>1. CASE TakeFrames(t)
      BY <3>1, LocalsUpdated DEF TakeFrames, Shapes
    <3>2. CASE TakeEvents(t)
      BY <3>2, LocalsUpdated DEF TakeEvents, Shapes
    <3>3. QED
      BY <1>7, <3>1, <3>2
  <2>2. QED
    BY <1>7, <2>1 DEF TakeFrames, TakeEvents, Shapes
<1>8. ASSUME NEW t \in Actors, WriteCapture(t) PROVE Shapes'
  BY <1>8, ReturnForgets DEF WriteCapture, Shapes
<1>9. CASE ConsoleCommand
  BY <1>9 DEF ConsoleCommand, ToggleDiagnosticsCapture, SaveHistory, Shapes
<1>10. CASE SamplerNext
  BY <1>10 DEF SamplerNext, SamplerWake, SamplerRead, SamplerCount, SamplerExit, Shapes
<1>11. CASE Initialize \/ ClearAfterJoin
  <2>1. /\ capture' = NoCapture /\ history' = <<>> /\ ~capturing' /\ capturing' \in BOOLEAN
        /\ DOMAIN pc' = DOMAIN pc /\ UNCHANGED <<captureNo, frameNo, local>>
    BY <1>11 DEF Initialize, ClearAfterJoin
  <2>2. capture'.frames = {} /\ capture'.start = 0
    BY <2>1 DEF NoCapture
  <2>3. QED
    BY <2>1, <2>2 DEF Shapes
<1>12. CASE RunReturns
  BY <1>12, NoLocalsIsLocals DEF RunReturns, Shapes
<1>13. CASE RunStarts \/ Shutdown \/ RequestStop \/ ClearConsole
  BY <1>13 DEF RunStarts, Shutdown, RequestStop, ClearConsole, Shapes
<1>14. CASE UNCHANGED captureSideVars
  BY <1>14 DEF captureSideVars, Shapes
<1>15. QED
  BY <1>1, <1>2, <1>3, <1>4, <1>5, <1>6, <1>7, <1>8, <1>9, <1>10, <1>11, <1>12, <1>13,
     <1>14 DEF CaptureNext, PresentNext, StopNext, HostNext

(* What neither starts, stops nor reports a capture.                        *)
LEMMA NumbersUntouched ==
  ASSUME ReportInv, Shapes', UNCHANGED <<captureNo, reports>>, capturing' => capturing,
         \A t \in Actors : /\ local'[t].no = local[t].no
                           /\ pc'[t] \notin Writing => pc[t] \notin Writing
  PROVE  ReportInv'
<1>1. NumbersAreTaken'
  BY DEF ReportInv, NumbersAreTaken
<1>2. NumbersAreSpent'
  BY DEF ReportInv, NumbersAreSpent
<1>3. QED
  BY <1>1, <1>2 DEF ReportInv

LEMMA StartTakesNoNumber ==
  ASSUME ReportInv, Shapes', NEW t \in Actors, StartCapture(t)
  PROVE  ReportInv'
<1> USE DEF ReportInv, captureVars
<1>1. /\ local'[t].no = 0 /\ pc'[t] \notin Writing /\ UNCHANGED reports
      /\ local[t].no = 0
      /\ \A u \in Actors \ {t} : local'[u] = local[u] /\ pc'[u] = pc[u]
  BY ReturnForgets DEF StartCapture, NumbersAreTaken, Writing
<1>2. captureNo \in Nat /\ \A u \in Actors : local[u].no \in Nat
  BY DEF Shapes, Locals
<1>3. CASE capturing
  <2>1. UNCHANGED <<captureNo, capturing>>
    BY <1>3 DEF StartCapture
  <2>2. NumbersAreTaken'
    BY <1>1, <2>1 DEF NumbersAreTaken
  <2>3. NumbersAreSpent'
    BY <1>1, <2>1 DEF NumbersAreSpent
  <2>4. QED
    BY <2>2, <2>3
<1>4. CASE ~capturing
  <2>1. captureNo' = captureNo + 1 /\ capturing'
    BY <1>4 DEF StartCapture
  <2>2. NumbersAreTaken'
    BY <1>1, <1>2, <2>1 DEF NumbersAreTaken
  <2>3. NumbersAreSpent'
    BY <1>1, <1>2, <2>1 DEF NumbersAreSpent
  <2>4. QED
    BY <2>2, <2>3
<1>5. QED
  BY <1>3, <1>4

(* The one that finds the capture running takes its number; who comes after *)
(* it finds none running.                                                   *)
LEMMA StopTakesTheNumber ==
  ASSUME ReportInv, Shapes', NEW t \in Actors, StopCapture(t)
  PROVE  ReportInv'
<1> USE DEF ReportInv, captureVars
<1>1. UNCHANGED <<captureNo, reports>> /\ ~capturing' /\ local[t].no = 0
  BY DEF StopCapture, NumbersAreTaken, Writing
<1>2. CASE capturing
  <2>1. /\ local'[t].no = captureNo /\ pc'[t] = "frames"
        /\ \A u \in Actors \ {t} : local'[u] = local[u] /\ pc'[u] = pc[u]
    BY <1>2 DEF StopCapture, GoTo, Shapes, Locals
  <2>2. captureNo \in Nat /\ \A u \in Actors : local[u].no \in Nat
    BY DEF Shapes, Locals
  <2>3. NumbersAreTaken'
    BY <1>1, <1>2, <2>1, <2>2 DEF NumbersAreTaken, Writing
  <2>4. NumbersAreSpent'
    BY <1>1, <1>2, <2>1, <2>2 DEF NumbersAreSpent
  <2>5. QED
    BY <2>3, <2>4
<1>3. CASE ~capturing
  <2>1. /\ local'[t].no = 0 /\ pc'[t] \notin Writing
        /\ \A u \in Actors \ {t} : local'[u] = local[u] /\ pc'[u] = pc[u]
    BY <1>3, ReturnForgets DEF StopCapture
  <2>2. \A u \in Actors : /\ local'[u].no = local[u].no
                          /\ pc'[u] \notin Writing => pc[u] \notin Writing
    BY <1>1, <2>1 DEF StopCapture, Writing
  <2>3. QED
    BY <1>1, <2>2, NumbersUntouched
<1>4. QED
  BY <1>2, <1>3

LEMMA WritingSpendsTheNumber ==
  ASSUME ReportInv, Shapes', NEW t \in Actors, WriteCapture(t)
  PROVE  ReportInv'
<1> USE DEF ReportInv, captureVars
<1>1. /\ local'[t].no = 0 /\ pc'[t] \notin Writing
      /\ \A u \in Actors \ {t} : local'[u] = local[u] /\ pc'[u] = pc[u]
      /\ UNCHANGED <<capturing, captureNo>>
  BY ReturnForgets DEF WriteCapture
<1>2. captureNo \in Nat /\ \A u \in Actors : local[u].no \in Nat
  BY DEF Shapes, Locals
<1>3. NumbersAreTaken'
  BY <1>1, <1>2 DEF NumbersAreTaken
<1>4. CASE local[t].no = 0
  <2>1. reports' = reports
    BY <1>4 DEF WriteCapture
  <2>2. NumbersAreSpent'
    BY <1>1, <2>1 DEF NumbersAreSpent
  <2>3. QED
    BY <1>3, <2>2
<1>5. CASE local[t].no # 0
  <2>1. PICK ok \in BOOLEAN : reports' = reports \cup {CaptureReport(t, ok)}
    BY <1>5 DEF WriteCapture
  <2> DEFINE written == CaptureReport(t, ok)
  <2>2. written.no = local[t].no
    BY DEF CaptureReport
  <2> HIDE DEF written
  <2>3. \A r \in reports' : r \in reports \/ r = written
    BY <2>1 DEF written
  <2>4. ASSUME NEW r \in reports'
        PROVE  /\ r.no \in Nat \ {0} /\ r.no <= captureNo
               /\ capturing => r.no < captureNo
               /\ \A u \in Actors : local'[u].no # r.no
    <3>1. CASE r \in reports
      BY <1>1, <3>1 DEF NumbersAreSpent
    <3>2. CASE r = written
      BY <1>1, <1>2, <1>5, <2>2, <3>2 DEF NumbersAreTaken
    <3>3. QED
      BY <2>3, <3>1, <3>2
  <2>5. \A q, r \in reports' : q.no = r.no => q = r
    BY <2>2, <2>3 DEF NumbersAreSpent
  <2>6. NumbersAreSpent'
    BY <1>1, <2>4, <2>5 DEF NumbersAreSpent
  <2>7. QED
    BY <1>3, <2>6
<1>6. QED
  BY <1>4, <1>5

LEMMA ReportsKeep ==
  ASSUME ReportInv, [CaptureNext]_captureSideVars
  PROVE  ReportInv'
<1> USE DEF captureVars, hostVars, samplerVars
<1>1. Shapes /\ Shapes'
  BY ShapesKeep DEF ReportInv
<1>2. ASSUME NEW t \in Actors, StartCapture(t) \/ StopNext(t) PROVE ReportInv'
  <2>1. CASE TakeFrames(t) \/ TakeEvents(t)
    <3>1. PICK l : local' = [local EXCEPT ![t] = l] /\ l.no = local[t].no
      <4>1. CASE TakeFrames(t)
        <5>1. local' = [local EXCEPT ![t] = [@ EXCEPT !.frames = capture.frames]]
          BY <4>1 DEF TakeFrames
        <5>2. [local[t] EXCEPT !.frames = capture.frames].no = local[t].no
          BY <1>1, NumberKept DEF Shapes
        <5>3. QED
          BY <5>1, <5>2
      <4>2. CASE TakeEvents(t)
        <5>1. local' = [local EXCEPT ![t] = [@ EXCEPT !.start = capture.start]]
          BY <4>2 DEF TakeEvents
        <5>2. [local[t] EXCEPT !.start = capture.start].no = local[t].no
          BY <1>1, NumberKept DEF Shapes
        <5>3. QED
          BY <5>1, <5>2
      <4>3. QED
        BY <2>1, <4>1, <4>2
    <3>2. \A u \in Actors : /\ local'[u].no = local[u].no
                            /\ pc'[u] \notin Writing => pc[u] \notin Writing
      BY <1>1, <2>1, <3>1 DEF TakeFrames, TakeEvents, GoTo, Shapes, Writing
    <3>3. QED
      BY <1>1, <2>1, <3>2, NumbersUntouched DEF TakeFrames, TakeEvents
  <2>2. QED
    BY <1>1, <1>2, <2>1, StartTakesNoNumber, StopTakesTheNumber, WritingSpendsTheNumber
       DEF StopNext
<1>3. CASE PresentNext
  <2>1. \A u \in Actors : /\ local'[u].no = local[u].no
                          /\ pc'[u] \notin Writing => pc[u] \notin Writing
    <3>1. CASE Measure
      <4> DEFINE frame == [n |-> frameNo, of |-> Running]
      <4>1. local' = [local EXCEPT !["present"] = [@ EXCEPT !.frame = frame, !.expired = Expired(age')]]
        BY <3>1 DEF Measure
      <4> HIDE DEF frame
      <4>2. [local["present"] EXCEPT !.frame = frame, !.expired = Expired(age')].no
              = local["present"].no
        BY <1>1, NumberKept DEF Shapes, Actors
      <4>3. QED
        BY <1>1, <3>1, <4>1, <4>2 DEF Measure, GoTo, Shapes, Writing
    <3>2. CASE PushHistory \/ AskCapturing \/ PushFrame
      BY <1>1, <3>2 DEF PushHistory, AskCapturing, PushFrame, GoTo, Shapes, Writing
    <3>3. QED
      BY <1>3, <3>1, <3>2 DEF PresentNext
  <2>2. UNCHANGED <<captureNo, reports, capturing>>
    BY <1>3 DEF PresentNext, Measure, PushHistory, AskCapturing, PushFrame
  <2>3. QED
    BY <1>1, <2>1, <2>2, NumbersUntouched
<1>4. CASE ConsoleCommand \/ RunStarts \/ Shutdown \/ RequestStop \/ ClearConsole
  <2>1. \A u \in Actors : /\ local'[u].no = local[u].no
                          /\ pc'[u] \notin Writing => pc[u] \notin Writing
    BY <1>1, <1>4 DEF ConsoleCommand, ToggleDiagnosticsCapture, SaveHistory, RunStarts,
         Shutdown, RequestStop, ClearConsole, GoTo, Shapes, Writing
  <2>2. UNCHANGED <<captureNo, reports, capturing>>
    BY <1>4 DEF ConsoleCommand, ToggleDiagnosticsCapture, SaveHistory, RunStarts, Shutdown,
         RequestStop, ClearConsole
  <2>3. QED
    BY <1>1, <2>1, <2>2, NumbersUntouched
<1>5. CASE RunReturns
  <2>1. local[ "present" ].no = 0
    BY <1>5 DEF RunReturns, ReportInv, NumbersAreTaken, Actors, Writing
  <2>2. \A u \in Actors : /\ local'[u].no = local[u].no
                          /\ pc'[u] \notin Writing => pc[u] \notin Writing
    BY <1>1, <1>5, <2>1 DEF RunReturns, NoLocals, GoTo, Shapes, Writing
  <2>3. QED
    BY <1>1, <1>5, <2>2, NumbersUntouched DEF RunReturns
<1>6. CASE Initialize \/ ClearAfterJoin
  <2>1. \A u \in Actors : pc'[u] \notin Writing => pc[u] \notin Writing
    BY <1>1, <1>6 DEF Initialize, ClearAfterJoin, GoTo, Shapes, Writing
  <2>2. UNCHANGED <<captureNo, reports, local>> /\ ~capturing'
    BY <1>6 DEF Initialize, ClearAfterJoin
  <2>3. QED
    BY <1>1, <2>1, <2>2, NumbersUntouched
<1>7. CASE SamplerNext \/ UNCHANGED captureSideVars
  <2>1. UNCHANGED <<captureNo, reports, capturing, pc, local>>
    BY <1>7 DEF SamplerNext, SamplerWake, SamplerRead, SamplerCount, SamplerExit, captureSideVars
  <2>2. QED
    BY <1>1, <2>1, NumbersUntouched
<1>8. QED
  BY <1>2, <1>3, <1>4, <1>5, <1>6, <1>7 DEF CaptureNext, HostNext

(* However the timer, the console and the destructor race to stop it, a     *)
(* capture is written, or fails to be, once and by one thread: for any      *)
(* number of captures.                                                      *)
THEOREM CapturesAreWrittenOnce == CaptureSpec => []OneReportPerCapture
<1>1. ReportInv => OneReportPerCapture
  <2> SUFFICES ASSUME ReportInv PROVE OneReportPerCapture
    OBVIOUS
  <2>1. captureNo \in Nat
    BY DEF ReportInv, Shapes
  <2>2. QED
    BY <2>1 DEF ReportInv, NumbersAreTaken, NumbersAreSpent, OneReportPerCapture, Stopping
<1>2. QED
  BY <1>1, InitReports, ReportsKeep, PTL DEF CaptureSpec

-----------------------------------------------------------------------------
(* The frames are presented inside Run, and the console holds a Runtime     *)
(* while it has a command under way.                                        *)
HostFollows ==
  /\ pc["present"] \in {"idle", "pushHistory", "ask", "pushFrame", "stop"} \cup Writing
  /\ pc["present"] # "idle" => pc["host"] \in {"running", "stopping"}
  /\ pc["console"] # "idle" => ConsoleHasRuntime

CleanWhenOff ==
  pc["host"] = "off" =>
    ~capturing /\ capture = NoCapture /\ history = <<>> /\ hotspots = {} /\ sampler = "none"

Follows(n, m) == n = (m + 1) % FrameModulus

RingIsGapless == \A i \in 1 .. Len(history) - 1 : Follows(history[i + 1], history[i])

(* The frame that comes next is the one after the newest entry, or, between *)
(* Measure and PushHistory, after the frame that is about to be pushed.     *)
FrameIsNext ==
  /\ pc["present"] = "pushHistory" =>
       /\ Follows(frameNo, local["present"].frame.n)
       /\ history # <<>> => Follows(local["present"].frame.n, history[Len(history)])
  /\ pc["present"] # "pushHistory" /\ history # <<>> => Follows(frameNo, history[Len(history)])

BufferInv ==
  Shapes /\ HostFollows /\ CleanWhenOff /\ RingIsGapless /\ FrameIsNext /\ SamplesOfThisCapture

LEMMA HostKeeps ==
  ASSUME Shapes, HostFollows, CleanWhenOff, [CaptureNext]_captureSideVars
  PROVE  HostFollows' /\ CleanWhenOff'
<1> USE DEF HostFollows, CleanWhenOff, captureVars, hostVars, samplerVars, GoTo,
            ConsoleHasRuntime, Writing
<1>0. DOMAIN pc = {"present", "console", "host"}
  BY DEF Shapes, Actors
<1>1. CASE PresentNext
  BY <1>0, <1>1 DEF PresentNext, Measure, PushHistory, AskCapturing, PushFrame, AfterFrame
<1>2. ASSUME NEW t \in Actors, StartCapture(t) \/ StopNext(t)
      PROVE  HostFollows' /\ CleanWhenOff'
  <2>1. pc[t] \in {"start", "stop"} \cup Writing
    BY <1>2 DEF StartCapture, StopNext, StopCapture, TakeFrames, TakeEvents, WriteCapture
  <2>2. /\ DOMAIN pc' = Actors /\ \A u \in Actors \ {t} : pc'[u] = pc[u]
        /\ t = "host" => /\ pc'[t] \in Writing \cup {"running", "shutdown"}
                         /\ pc[t] = "start" => pc'[t] = "running"
        /\ t # "host" => pc'[t] \in Writing \cup {"idle"}
    <3>1. CASE Return(t)
      BY <1>0, <3>1, ReturnGoes DEF Actors
    <3>2. CASE \E label \in Writing : pc[t] # "start" /\ pc' = [pc EXCEPT ![t] = label]
      BY <1>0, <3>2 DEF Actors
    <3>3. Return(t) \/ \E label \in Writing : pc[t] # "start" /\ pc' = [pc EXCEPT ![t] = label]
      BY <1>2 DEF StartCapture, StopNext, StopCapture, TakeFrames, TakeEvents, WriteCapture
    <3>4. QED
      BY <3>1, <3>2, <3>3
  <2>3. CASE t = "host"
    BY <1>0, <2>1, <2>2, <2>3 DEF Actors
  <2>4. CASE t # "host"
    <3>1. pc["host"] # "off" /\ pc'["host"] = pc["host"]
      BY <1>0, <2>1, <2>2, <2>4 DEF Actors
    <3>2. QED
      BY <1>0, <2>1, <2>2, <2>4, <3>1 DEF Actors
  <2>5. QED
    BY <2>3, <2>4
<1>3. CASE ConsoleCommand
  BY <1>0, <1>3 DEF ConsoleCommand, ToggleDiagnosticsCapture, SaveHistory
<1>4. CASE SamplerNext
  BY <1>0, <1>4 DEF SamplerNext, SamplerWake, SamplerRead, SamplerCount, SamplerExit
<1>5. CASE Initialize
  BY <1>0, <1>5 DEF Initialize
<1>6. CASE HostNext
  BY <1>0, <1>6 DEF HostNext, RunStarts, RunReturns, Shutdown, ClearAfterJoin
<1>7. CASE RequestStop \/ ClearConsole
  BY <1>0, <1>7 DEF RequestStop, ClearConsole
<1>8. CASE UNCHANGED captureSideVars
  BY <1>8 DEF captureSideVars
<1>9. QED
  BY <1>1, <1>2, <1>3, <1>4, <1>5, <1>6, <1>7, <1>8 DEF CaptureNext

(* A sample gets in from the sampler alone, and what it has read and not    *)
(* counted when a capture starts is one sample.                             *)
LEMMA SamplesKeep ==
  ASSUME SamplesOfThisCapture, [CaptureNext]_captureSideVars
  PROVE  SamplesOfThisCapture'
<1> USE DEF SamplesOfThisCapture, SampleOnItsWay, captureVars, hostVars, samplerVars
<1>1. CASE PresentNext
  BY <1>1 DEF PresentNext, Measure, PushHistory, AskCapturing, PushFrame
<1>2. ASSUME NEW t \in Actors, StartCapture(t) \/ StopNext(t) PROVE SamplesOfThisCapture'
  BY <1>2 DEF StartCapture, StopNext, StopCapture, TakeFrames, TakeEvents, WriteCapture
<1>3. CASE ConsoleCommand
  BY <1>3 DEF ConsoleCommand, ToggleDiagnosticsCapture, SaveHistory
<1>4. CASE SamplerNext
  <2>1. CASE SamplerWake \/ SamplerRead \/ SamplerExit
    BY <2>1 DEF SamplerWake, SamplerRead, SamplerExit, Running
  <2>2. CASE SamplerCount
    <3> DEFINE early == hotspots \ {captureNo}
    <3>1. SUFFICES ASSUME capturing, early' # {}
                   PROVE  \E n \in early' : early' = {n}
      BY <2>2 DEF SamplerCount
    <3>2. /\ captureNo' = captureNo /\ capturing
          /\ early' = early \cup ({sampled} \ {captureNo})
      BY <2>2, <3>1 DEF SamplerCount
    <3>3. CASE early = {}
      BY <3>1, <3>2, <3>3
    <3>4. CASE early # {}
      <4>1. sampled = captureNo
        BY <2>2, <3>2, <3>4 DEF SamplerCount
      <4>2. PICK n \in early : early = {n}
        BY <3>2, <3>4
      <4>3. early' = early
        BY <3>2, <4>1
      <4>4. QED
        BY <4>2, <4>3
    <3>5. QED
      BY <3>3, <3>4
  <2>3. QED
    BY <1>4, <2>1, <2>2 DEF SamplerNext
<1>5. CASE Initialize \/ HostNext \/ RequestStop \/ ClearConsole
  BY <1>5 DEF Initialize, HostNext, RunStarts, RunReturns, Shutdown, ClearAfterJoin,
       RequestStop, ClearConsole
<1>6. CASE UNCHANGED captureSideVars
  BY <1>6 DEF captureSideVars
<1>7. QED
  BY <1>1, <1>2, <1>3, <1>4, <1>5, <1>6 DEF CaptureNext

(* Steps after which the same frame comes next.                             *)
LEMMA FramesUntouched ==
  ASSUME RingIsGapless, FrameIsNext, UNCHANGED <<frameNo, history>>,
         pc'["present"] = "pushHistory" <=> pc["present"] = "pushHistory",
         pc["present"] = "pushHistory" => local'["present"] = local["present"]
  PROVE  RingIsGapless' /\ FrameIsNext'
BY DEF RingIsGapless, FrameIsNext

(* Pushing the frame that follows the newest entry leaves no gap.           *)
LEMMA PushKeepsGapless ==
  ASSUME history \in Seq(0 .. FrameModulus - 1), RingIsGapless, NEW n \in 0 .. FrameModulus - 1,
         history # <<>> => Follows(n, history[Len(history)]),
         history' = PushEntry(history, n)
  PROVE  RingIsGapless'
<1> DEFINE kept == IF Len(history) < HistoryFrames THEN history ELSE Tail(history)
<1>1. /\ kept \in Seq(0 .. FrameModulus - 1)
      /\ \A i \in 1 .. Len(kept) - 1 : Follows(kept[i + 1], kept[i])
      /\ kept # <<>> => Follows(n, kept[Len(kept)])
  <2>1. CASE Len(history) < HistoryFrames
    BY <2>1 DEF RingIsGapless
  <2>2. CASE ~(Len(history) < HistoryFrames)
    <3>1. history # <<>> /\ kept = Tail(history)
      BY <2>2, CapacityAssumption
    <3> HIDE DEF kept
    <3>2. /\ kept \in Seq(0 .. FrameModulus - 1) /\ Len(kept) = Len(history) - 1
          /\ \A i \in 1 .. Len(kept) : kept[i] = history[i + 1]
      BY <3>1
    <3>3. ASSUME NEW i \in 1 .. Len(kept) - 1 PROVE Follows(kept[i + 1], kept[i])
      <4>1. i + 1 \in 1 .. Len(history) - 1 /\ i \in 1 .. Len(kept) /\ i + 1 \in 1 .. Len(kept)
        BY <3>2
      <4>2. Follows(history[(i + 1) + 1], history[i + 1])
        BY <4>1 DEF RingIsGapless
      <4>3. QED
        BY <3>2, <4>1, <4>2
    <3>4. kept # <<>> => Len(kept) \in 1 .. Len(kept) /\ Len(kept) + 1 = Len(history)
      BY <3>2
    <3>5. QED
      BY <3>1, <3>2, <3>3, <3>4
  <2>3. QED
    BY <2>1, <2>2
<1>2. history' = Append(kept, n)
  BY DEF PushEntry
<1> HIDE DEF kept
<1>3. SUFFICES ASSUME NEW i \in 1 .. Len(history') - 1
               PROVE  Follows(history'[i + 1], history'[i])
  BY DEF RingIsGapless, Follows
<1>4. Len(history') = Len(kept) + 1 /\ Len(kept) \in Nat /\ i \in 1 .. Len(kept)
      /\ history'[i] = kept[i]
  BY <1>1, <1>2, <1>3
<1>5. CASE i = Len(kept)
  BY <1>1, <1>2, <1>4, <1>5
<1>6. CASE i < Len(kept)
  BY <1>1, <1>2, <1>4, <1>6
<1>7. QED
  BY <1>4, <1>5, <1>6

LEMMA FramesKeep ==
  ASSUME Shapes, HostFollows, RingIsGapless, FrameIsNext, [CaptureNext]_captureSideVars
  PROVE  RingIsGapless' /\ FrameIsNext'
<1> USE DEF captureVars, hostVars, samplerVars, GoTo
<1>0. DOMAIN pc = {"present", "console", "host"} /\ local["present"] \in Locals
  BY DEF Shapes, Actors
<1>1. CASE Measure
  <2>1. pc'["present"] = "pushHistory" /\ UNCHANGED history /\ Follows(frameNo', frameNo)
    BY <1>0, <1>1 DEF Measure, Follows
  <2>2. local'["present"].frame.n = frameNo
    <3> DEFINE frame == [n |-> frameNo, of |-> Running]
    <3>1. local' = [local EXCEPT !["present"] = [@ EXCEPT !.frame = frame, !.expired = Expired(age')]]
      BY <1>1 DEF Measure
    <3>2. frame.n = frameNo
      OBVIOUS
    <3> HIDE DEF frame
    <3>3. [local["present"] EXCEPT !.frame = frame, !.expired = Expired(age')].frame = frame
      BY <1>0 DEF Locals
    <3>4. QED
      BY <3>1, <3>2, <3>3 DEF Shapes, Actors
  <2>3. history # <<>> => Follows(frameNo, history[Len(history)])
    BY <1>1 DEF Measure, FrameIsNext
  <2>4. QED
    BY <2>1, <2>2, <2>3 DEF RingIsGapless, FrameIsNext, Follows
<1>2. CASE PushHistory
  <2> DEFINE n == local["present"].frame.n
  <2>1. n \in 0 .. FrameModulus - 1 /\ history \in Seq(0 .. FrameModulus - 1)
    BY <1>0 DEF Shapes, Locals
  <2>2. /\ history' = PushEntry(history, n) /\ UNCHANGED frameNo
        /\ pc'["present"] = "ask" /\ Follows(frameNo, n)
        /\ history # <<>> => Follows(n, history[Len(history)])
    BY <1>0, <1>2 DEF PushHistory, FrameIsNext
  <2> HIDE DEF n
  <2>3. history'[Len(history')] = n
    BY <2>1, <2>2, RingKeeps
  <2>4. FrameIsNext'
    BY <2>2, <2>3 DEF FrameIsNext, Follows
  <2>5. QED
    BY <2>1, <2>2, <2>4, PushKeepsGapless
<1>3. CASE AskCapturing \/ PushFrame
  <2>1. /\ UNCHANGED <<frameNo, history, local>>
        /\ pc["present"] # "pushHistory" /\ pc'["present"] # "pushHistory"
    BY <1>0, <1>3 DEF AskCapturing, PushFrame, AfterFrame
  <2>2. QED
    BY <2>1, FramesUntouched
<1>4. ASSUME NEW t \in Actors, StartCapture(t) \/ StopNext(t)
      PROVE  RingIsGapless' /\ FrameIsNext'
  <2>1. /\ UNCHANGED <<frameNo, history>>
        /\ pc[t] # "pushHistory" /\ DOMAIN pc' = Actors /\ pc'[t] # "pushHistory"
        /\ \A u \in Actors \ {t} : pc'[u] = pc[u] /\ local'[u] = local[u]
    <3>1. CASE Return(t) /\ (StartCapture(t) \/ StopCapture(t) \/ WriteCapture(t))
      <4>1. pc'[t] # "pushHistory" /\ DOMAIN pc' = Actors
        BY <3>1, ReturnGoes DEF Shapes
      <4>2. QED
        BY <3>1, <4>1, ReturnForgets DEF StartCapture, StopCapture, WriteCapture
    <3>2. CASE capturing /\ StopCapture(t)
      BY <3>2 DEF StopCapture, Shapes
    <3>3. CASE TakeFrames(t) \/ TakeEvents(t)
      BY <3>3 DEF TakeFrames, TakeEvents, Shapes
    <3>4. QED
      BY <1>4, <3>1, <3>2, <3>3 DEF StopNext, StartCapture, StopCapture, WriteCapture
  <2>2. QED
    BY <2>1, FramesUntouched DEF Actors
<1>5. CASE Initialize \/ ClearAfterJoin
  <2>1. history' = <<>> /\ pc'["present"] # "pushHistory"
    BY <1>0, <1>5 DEF Initialize, ClearAfterJoin, HostFollows
  <2>2. QED
    BY <2>1 DEF RingIsGapless, FrameIsNext
<1>6. CASE RunReturns
  <2>1. /\ UNCHANGED <<frameNo, history>>
        /\ pc["present"] # "pushHistory" /\ pc'["present"] # "pushHistory"
    BY <1>0, <1>6 DEF RunReturns
  <2>2. QED
    BY <2>1, FramesUntouched
<1>7. CASE ConsoleCommand \/ SamplerNext \/ RunStarts \/ Shutdown \/ RequestStop \/ ClearConsole
           \/ UNCHANGED captureSideVars
  <2>1. UNCHANGED <<frameNo, history, local>> /\ pc'["present"] = pc["present"]
    BY <1>0, <1>7 DEF ConsoleCommand, ToggleDiagnosticsCapture, SaveHistory, SamplerNext,
         SamplerWake, SamplerRead, SamplerCount, SamplerExit, RunStarts, Shutdown, RequestStop,
         ClearConsole, captureSideVars
  <2>2. QED
    BY <2>1, FramesUntouched
<1>8. QED
  BY <1>1, <1>2, <1>3, <1>4, <1>5, <1>6, <1>7 DEF CaptureNext, PresentNext, HostNext

(* The rolling history misses no frame, whatever starts, stops or writes    *)
(* meanwhile; of samples read before its capture, a profile has none but    *)
(* the one that was waiting for the lock when it began; and a Runtime that  *)
(* is gone leaves nothing, nor a thread that still could.                   *)
THEOREM BuffersAreTheirOwn == CaptureSpec => []BuffersHoldTheirOwn
<1>1. CaptureInit => BufferInv
  <2> SUFFICES ASSUME CaptureInit PROVE BufferInv
    OBVIOUS
  <2>1. HostFollows /\ CleanWhenOff
    BY DEF CaptureInit, HostFollows, CleanWhenOff, Actors
  <2>2. RingIsGapless /\ FrameIsNext /\ SamplesOfThisCapture
    BY DEF CaptureInit, RingIsGapless, FrameIsNext, SamplesOfThisCapture, Actors
  <2>3. QED
    BY <2>1, <2>2, InitShapes DEF BufferInv
<1>2. BufferInv /\ [CaptureNext]_captureSideVars => BufferInv'
  BY ShapesKeep, HostKeeps, FramesKeep, SamplesKeep DEF BufferInv
<1>3. BufferInv => BuffersHoldTheirOwn
  <2> SUFFICES ASSUME BufferInv PROVE BuffersHoldTheirOwn
    OBVIOUS
  <2>1. HistoryIsGapless
    BY DEF BufferInv, RingIsGapless, FrameIsNext, HistoryIsGapless, Follows
  <2>2. ShutDownIsClean
    BY DEF BufferInv, HostFollows, CleanWhenOff, ShutDownIsClean, ConsoleHasRuntime, Actors
  <2>3. QED
    BY <2>1, <2>2 DEF BuffersHoldTheirOwn, BufferInv
<1>4. QED
  BY <1>1, <1>2, <1>3, PTL DEF CaptureSpec

-----------------------------------------------------------------------------
(* The verdict: every rule speaks of what was measured, and the rules are  *)
(* ranked by their scores.                                                  *)
(* What a rule finds has a score of its own kind and tells which rule it is.*)
Ruled(findings) ==
  /\ \A f \in findings : f.score \in Int /\ f.rule \in Int
  /\ \A f, g \in findings : f.rule = g.rule => f = g

LEMMA RankIsBelow ==
  ASSUME NEW S, IsFiniteSet(S), Ruled(S), NEW f \in S
  PROVE  Rank(f, S) \in 0 .. Cardinality(S) - 1
<1> DEFINE before == {g \in S : Before(g, f)}
<1>1. before \in SUBSET S /\ f \notin before
  BY DEF Before, Ruled
<1>2. IsFiniteSet(before) /\ Cardinality(before) <= Cardinality(S)
      /\ (Cardinality(S) = Cardinality(before) => S = before)
  BY <1>1, FS_Subset
<1>3. Cardinality(before) \in Nat /\ Cardinality(S) \in Nat
  BY <1>2, FS_CardinalityType
<1>4. Cardinality(before) # Cardinality(S)
  BY <1>1, <1>2
<1>5. Rank(f, S) = Cardinality(before)
  BY DEF Rank
<1> HIDE DEF before
<1>6. QED
  BY <1>2, <1>3, <1>4, <1>5

LEMMA RanksDiffer ==
  ASSUME NEW S, IsFiniteSet(S), Ruled(S), NEW f \in S, NEW g \in S, Before(f, g)
  PROVE  Rank(f, S) < Rank(g, S)
<1> DEFINE beforeF == {h \in S : Before(h, f)}
           beforeG == {h \in S : Before(h, g)}
<1>1. beforeF \in SUBSET beforeG
  BY DEF Before, Ruled
<1>2. f \in beforeG /\ f \notin beforeF
  BY DEF Before, Ruled
<1>3. IsFiniteSet(beforeG)
  BY FS_Subset
<1>4. IsFiniteSet(beforeF) /\ Cardinality(beforeF) <= Cardinality(beforeG)
      /\ (Cardinality(beforeG) = Cardinality(beforeF) => beforeG = beforeF)
  BY <1>1, <1>3, FS_Subset
<1>5. Cardinality(beforeF) \in Nat /\ Cardinality(beforeG) \in Nat
  BY <1>3, <1>4, FS_CardinalityType
<1>6. Cardinality(beforeF) # Cardinality(beforeG)
  BY <1>2, <1>4
<1>7. Rank(f, S) = Cardinality(beforeF) /\ Rank(g, S) = Cardinality(beforeG)
  BY DEF Rank
<1> HIDE DEF beforeF, beforeG
<1>8. QED
  BY <1>4, <1>5, <1>6, <1>7

(* Every place of the verdict is taken by a finding.                        *)
LEMMA RanksAreTaken ==
  ASSUME NEW S, IsFiniteSet(S), Ruled(S), NEW i \in 1 .. Cardinality(S)
  PROVE  \E f \in S : Rank(f, S) = i - 1
<1> DEFINE T == 0 .. Cardinality(S) - 1
           rank == [f \in S |-> Rank(f, S)]
<1>1. Cardinality(S) \in Nat
  BY FS_CardinalityType
<1>2. IsFiniteSet(T) /\ Cardinality(T) = Cardinality(S)
  <2> DEFINE n == Cardinality(S)
  <2>1. n \in Nat
    BY <1>1
  <2> HIDE DEF n
  <2>2. IsFiniteSet(0 .. n - 1) /\ Cardinality(0 .. n - 1) = n
    BY <2>1, FS_Interval
  <2>3. QED
    BY <2>2 DEF n
<1>3. rank \in [S -> T]
  BY RankIsBelow
<1>4. \A f, g \in S : f # g => rank[f] # rank[g]
  <2> SUFFICES ASSUME NEW f \in S, NEW g \in S, f # g PROVE Rank(f, S) # Rank(g, S)
    OBVIOUS
  <2>1. Before(f, g) \/ Before(g, f)
    BY DEF Before, Ruled
  <2>2. Rank(f, S) \in Int /\ Rank(g, S) \in Int
    BY <1>1, RankIsBelow
  <2>3. Rank(f, S) < Rank(g, S) \/ Rank(g, S) < Rank(f, S)
    BY <2>1, RanksDiffer
  <2>4. QED
    BY <2>2, <2>3
<1> HIDE DEF rank, T
<1>5. rank \in Injection(S, T)
  BY <1>3, <1>4 DEF Injection, IsInjective
<1>6. rank \in Surjection(S, T)
  BY <1>2, <1>5, FS_Injection
<1>7. i - 1 \in T
  BY <1>1 DEF T
<1>8. PICK f \in S : rank[f] = i - 1
  BY <1>6, <1>7 DEF Surjection
<1>9. QED
  BY <1>8 DEF rank

(* The verdict is made of the findings, and none before another that scores *)
(* more.                                                                    *)
LEMMA SortedByScore ==
  ASSUME NEW S, IsFiniteSet(S), Ruled(S)
  PROVE  /\ DOMAIN ByScore(S) = 1 .. Cardinality(S)
         /\ \A i \in 1 .. Cardinality(S) : ByScore(S)[i] \in S /\ Rank(ByScore(S)[i], S) = i - 1
         /\ \A i, j \in 1 .. Cardinality(S) : i < j => ByScore(S)[i].score >= ByScore(S)[j].score
<1>1. Cardinality(S) \in Nat
  BY FS_CardinalityType
<1>2. \A i \in 1 .. Cardinality(S) :
        ByScore(S)[i] \in S /\ Rank(ByScore(S)[i], S) = i - 1
  <2> TAKE i \in 1 .. Cardinality(S)
  <2>1. ByScore(S)[i] = CHOOSE f \in S : Rank(f, S) = i - 1
    BY DEF ByScore
  <2>2. \E f \in S : Rank(f, S) = i - 1
    BY RanksAreTaken
  <2>3. QED
    BY <2>1, <2>2
<1>3. ASSUME NEW i \in 1 .. Cardinality(S), NEW j \in 1 .. Cardinality(S), i < j
      PROVE  ByScore(S)[i].score >= ByScore(S)[j].score
  <2> DEFINE f == ByScore(S)[i]
             g == ByScore(S)[j]
  <2>1. f \in S /\ g \in S /\ Rank(f, S) = i - 1 /\ Rank(g, S) = j - 1
    BY <1>2
  <2> HIDE DEF f, g
  <2>2. ~Before(g, f)
    BY <1>1, <1>3, <2>1, RanksDiffer
  <2>3. f.score >= g.score
    BY <2>1, <2>2 DEF Before, Ruled
  <2>4. QED
    BY <2>3 DEF f, g
<1>4. QED
  BY <1>2, <1>3 DEF ByScore

-----------------------------------------------------------------------------
(* What the rules find.                                                     *)
LEMMA CoverageIsNat == ASSUME NEW t \in Telemetry PROVE Coverage(t) \in Nat
BY DEF Telemetry, Coverage

LEMMA RuleFindings ==
  ASSUME NEW t \in Telemetry, NEW f \in Scored(t)
  PROVE  \/ f.rule = 1 /\ f.score = 50 /\ f.class = "InsufficientEvidence"
         \/ /\ f.rule \in {2, 11, 12} /\ f.score >= 300 /\ f.score \in Nat
            /\ f.class \in {"ShaderCompilationHitching", "StaticRecompSlowPathBound",
                            "ThreadContention"}
         \/ /\ f.rule \in 3 .. 10 /\ f.score >= 300 /\ f.score \in Nat
            /\ f \in OfZones(t) /\ Coverage(t) >= 30
            /\ f.class \notin {"InsufficientEvidence", "NoBottleneck"}
<1> USE DEF Telemetry, Finding, When
<1>1. CASE f \in TooLittle(t)
  BY <1>1 DEF TooLittle
<1>2. CASE f \in Compilation(t)
  BY <1>2 DEF Compilation
<1>3. CASE f \in SlowPaths(t)
  BY <1>3 DEF SlowPaths
<1>4. CASE f \in Saturated(t)
  BY <1>4 DEF Saturated
<1>5. ASSUME f \in OfZones(t)
      PROVE  f.rule \in 3 .. 10 /\ f.score >= 300 /\ f.score \in Nat
             /\ f.class \notin {"InsufficientEvidence", "NoBottleneck"}
  <2>1. CASE f \in Waiting(t)
    BY <2>1 DEF Waiting
  <2>2. CASE f \in Gpu(t)
    BY <2>2 DEF Gpu
  <2>3. CASE f \in Guest(t)
    BY <2>3 DEF Guest
  <2>4. CASE f \in Renderer(t)
    BY <2>4 DEF Renderer
  <2>5. CASE f \in Transfer(t)
    BY <2>5 DEF Transfer
  <2>6. CASE f \in Audio(t)
    BY <2>6 DEF Audio
  <2>7. CASE f \in Netplay(t)
    BY <2>7 DEF Netplay
  <2>8. CASE f \in ShaderTime(t)
    BY <2>8 DEF ShaderTime
  <2>9. QED
    BY <1>5, <2>1, <2>2, <2>3, <2>4, <2>5, <2>6, <2>7, <2>8 DEF OfZones
<1>6. f \in OfZones(t) /\ Coverage(t) >= 30 => f \in OfZones(t) /\ Coverage(t) >= 30
  OBVIOUS
<1>7. QED
  BY <1>1, <1>2, <1>3, <1>4, <1>5 DEF Scored

LEMMA RuleFindsOnce ==
  ASSUME NEW t \in Telemetry, NEW f \in Scored(t), NEW g \in Scored(t), f.rule = g.rule
  PROVE  f = g
<1> DEFINE ByRule ==
      <<TooLittle(t), Compilation(t), Waiting(t), Gpu(t), Guest(t), Renderer(t), Transfer(t),
        Audio(t), Netplay(t), ShaderTime(t), SlowPaths(t), Saturated(t)>>
<1>1. \A h \in Scored(t) : h.rule \in 1 .. 12 /\ h \in ByRule[h.rule]
  <2> SUFFICES ASSUME NEW h \in Scored(t) PROVE h.rule \in 1 .. 12 /\ h \in ByRule[h.rule]
    OBVIOUS
  <2> USE DEF Finding, When
  <2>1. CASE h \in TooLittle(t)
    BY <2>1 DEF TooLittle
  <2>2. CASE h \in Compilation(t)
    BY <2>2 DEF Compilation
  <2>3. CASE h \in Waiting(t)
    BY <2>3 DEF Waiting
  <2>4. CASE h \in Gpu(t)
    BY <2>4 DEF Gpu
  <2>5. CASE h \in Guest(t)
    BY <2>5 DEF Guest
  <2>6. CASE h \in Renderer(t)
    BY <2>6 DEF Renderer
  <2>7. CASE h \in Transfer(t)
    BY <2>7 DEF Transfer
  <2>8. CASE h \in Audio(t)
    BY <2>8 DEF Audio
  <2>9. CASE h \in Netplay(t)
    BY <2>9 DEF Netplay
  <2>10. CASE h \in ShaderTime(t)
    BY <2>10 DEF ShaderTime
  <2>11. CASE h \in SlowPaths(t)
    BY <2>11 DEF SlowPaths
  <2>12. CASE h \in Saturated(t)
    BY <2>12 DEF Saturated
  <2>13. QED
    BY <2>1, <2>2, <2>3, <2>4, <2>5, <2>6, <2>7, <2>8, <2>9, <2>10, <2>11, <2>12
       DEF Scored, OfZones
<1>2. \A i \in 1 .. 12 : \A x, y \in ByRule[i] : x = y
  BY DEF TooLittle, Compilation, Waiting, Gpu, Guest, Renderer, Transfer, Audio, Netplay,
         ShaderTime, SlowPaths, Saturated, When
<1> HIDE DEF ByRule
<1>3. QED
  BY <1>1, <1>2

LEMMA ScoredIsRuled ==
  ASSUME NEW t \in Telemetry
  PROVE  IsFiniteSet(Scored(t)) /\ Ruled(Scored(t))
<1>1. \A f \in Scored(t) : f.score \in Int /\ f.rule \in 1 .. 12
  BY RuleFindings
<1>2. Ruled(Scored(t))
  BY <1>1, RuleFindsOnce DEF Ruled
<1>3. IsFiniteSet(Scored(t))
  <2> DEFINE rule == [f \in Scored(t) |-> f.rule]
  <2>1. rule \in Injection(Scored(t), 1 .. 12)
    BY <1>1, RuleFindsOnce DEF Injection, IsInjective
  <2>2. IsFiniteSet(1 .. 12)
    <3>1. 1 \in Int /\ 12 \in Int
      OBVIOUS
    <3>2. QED
      BY ONLY <3>1, FS_Interval, Zenon
  <2>3. QED
    BY <2>1, <2>2, FS_Injection
<1>4. QED
  BY <1>2, <1>3

(* Of the guest, the renderer and the waits at most one takes the most.     *)
LEMMA OneIsBlamed ==
  ASSUME NEW t \in Telemetry, NEW f \in OfZones(t), NEW g \in OfZones(t),
         {f.class, g.class} \subseteq
           {"CpuGpuSynchronizationBound", "GuestCpuBound", "RendererCpuBound"}
  PROVE  f.class = g.class
<1>1. \A h \in OfZones(t) :
        /\ h.class = "CpuGpuSynchronizationBound" => t.wait > t.guest /\ t.wait > t.renderer
        /\ h.class = "GuestCpuBound" => t.guest > t.renderer /\ t.guest > t.wait
        /\ h.class = "RendererCpuBound" => t.renderer > t.guest /\ t.renderer > t.wait
  BY DEF OfZones, Waiting, Gpu, Guest, Renderer, Transfer, Audio, Netplay, ShaderTime, When, Finding
<1>2. t.wait \in Nat /\ t.guest \in Nat /\ t.renderer \in Nat
  BY DEF Telemetry
<1>3. QED
  BY <1>1, <1>2

-----------------------------------------------------------------------------
(* A verdict is the only finding it says, or the findings by their scores.  *)
Single(class) == \E confidence : verdict = <<Finding(0, 0, class, confidence)>>

LEMMA VerdictIsOneOf ==
  ASSUME telemetry \in Telemetry, verdict = Verdict(telemetry)
  PROVE  \/ telemetry.frames < 10 /\ Single("InsufficientEvidence")
         \/ /\ Single("NoBottleneck") \/ Single("InsufficientEvidence")
            /\ \A f \in Scored(telemetry) : f.score < 300
         \/ telemetry.frames >= 10 /\ Scored(telemetry) # {} /\ verdict = ByScore(Scored(telemetry))
BY DEF Verdict, Single, Telemetry

LEMMA SingleFollows ==
  ASSUME telemetry \in Telemetry, NEW class \in {"InsufficientEvidence", "NoBottleneck"},
         Single(class),
         \/ telemetry.frames < 10
         \/ \A f \in Scored(telemetry) : f.score < 300
  PROVE  VerdictFollowsTheEvidence
<1>1. PICK confidence : verdict = <<Finding(0, 0, class, confidence)>>
  BY DEF Single
<1>2. DOMAIN verdict = {1} /\ verdict[1].class = class /\ verdict[1].score = 0
  BY <1>1 DEF Finding
<1>3. Classes = {class}
  BY <1>2 DEF Classes
<1>4. telemetry.frames >= 10 =>
        {f \in Scored(telemetry) : f.class # "InsufficientEvidence"} = {}
  BY RuleFindings DEF Telemetry
<1>5. QED
  BY <1>2, <1>3, <1>4 DEF VerdictFollowsTheEvidence, TimedClasses, Headline

LEMMA SortedFollows ==
  ASSUME telemetry \in Telemetry, telemetry.frames >= 10, Scored(telemetry) # {},
         verdict = ByScore(Scored(telemetry))
  PROVE  VerdictFollowsTheEvidence
<1> DEFINE S == Scored(telemetry)
           n == Cardinality(S)
<1>1. IsFiniteSet(S) /\ Ruled(S)
  BY ScoredIsRuled
<1>2. n \in Nat /\ n # 0
  BY <1>1, FS_CardinalityType, FS_EmptySet
<1>3. /\ DOMAIN verdict = 1 .. n
      /\ \A i \in 1 .. n : verdict[i] \in S
      /\ \A i, j \in 1 .. n : i < j => verdict[i].score >= verdict[j].score
  BY <1>1, SortedByScore
<1>4. \A i \in 1 .. n : verdict[i].score \in Int
  BY <1>1, <1>3 DEF Ruled
<1>5. \A i \in 1 .. n : verdict[1].score >= verdict[i].score
  <2> HIDE DEF n
  <2>1. QED
    BY <1>2, <1>3, <1>4
<1>6. Classes \subseteq {f.class : f \in S}
  BY <1>3 DEF Classes
<1>7. Classes \cap TimedClasses # {} => Coverage(telemetry) >= 30
  <2> HIDE DEF S
  <2>1. \A f \in S : f.class \in TimedClasses => Coverage(telemetry) >= 30
    BY RuleFindings DEF S, TimedClasses
  <2>2. QED
    BY <1>6, <2>1
<1>8. \A a, b \in {"CpuGpuSynchronizationBound", "GuestCpuBound", "RendererCpuBound"} :
        {a, b} \subseteq Classes => a = b
  <2> SUFFICES ASSUME NEW a \in {"CpuGpuSynchronizationBound", "GuestCpuBound", "RendererCpuBound"},
                      NEW b \in {"CpuGpuSynchronizationBound", "GuestCpuBound", "RendererCpuBound"},
                      a \in Classes, b \in Classes
               PROVE  a = b
    OBVIOUS
  <2>1. PICK f \in S : f.class = a
    BY <1>6
  <2>2. PICK g \in S : g.class = b
    BY <1>6
  <2>3. f \in OfZones(telemetry) /\ g \in OfZones(telemetry)
    BY <2>1, <2>2, RuleFindings
  <2>4. QED
    BY <2>1, <2>2, <2>3, OneIsBlamed
<1>9. Headline.class \in {"InsufficientEvidence", "NoBottleneck"} =>
        {f \in S : f.class # "InsufficientEvidence"} = {}
  <2> SUFFICES ASSUME verdict[1].class \in {"InsufficientEvidence", "NoBottleneck"},
                      NEW f \in S
               PROVE  f.class = "InsufficientEvidence"
    BY DEF Headline
  <2>1. verdict[1] \in S /\ verdict[1].score = 50
    BY <1>2, <1>3, RuleFindings
  <2>2. f.score <= 50
    <3>1. n \in Nat /\ \A i \in 1 .. n : Rank(verdict[i], S) = i - 1
      BY <1>1, <1>2, SortedByScore
    <3>2. ~Before(f, verdict[1])
      <4>1. Rank(verdict[1], S) = 0
        BY <1>2, <3>1
      <4>2. Rank(f, S) \in Nat
        BY <1>1, <1>2, RankIsBelow
      <4>3. QED
        BY <1>1, <2>1, <4>1, <4>2, RanksDiffer
    <3>3. QED
      BY <1>1, <2>1, <3>2 DEF Before, Ruled
  <2>3. QED
    BY <2>2, RuleFindings
<1>10. QED
  BY <1>3, <1>5, <1>7, <1>8, <1>9 DEF VerdictFollowsTheEvidence, Headline

AnalyzerInv == telemetry \in Telemetry /\ verdict \in {Unmeasured, Verdict(telemetry)}

LEMMA AnalyzerStarts == AnalyzerInit => AnalyzerInv
BY TelemetriesAssumption DEF AnalyzerInit, AnalyzerInv

LEMMA AnalyzerKeeps == ASSUME AnalyzerInv, [Analyze]_analyzerVars PROVE AnalyzerInv'
BY DEF AnalyzerInv, Analyze, analyzerVars

LEMMA VerdictFollows == ASSUME AnalyzerInv PROVE VerdictFollowsTheEvidence
<1>1. CASE verdict = Unmeasured
  BY <1>1 DEF VerdictFollowsTheEvidence, Analyzed
<1>2. CASE verdict = Verdict(telemetry)
  BY <1>2, VerdictIsOneOf, SingleFollows, SortedFollows DEF AnalyzerInv
<1>3. QED
  BY <1>1, <1>2 DEF AnalyzerInv

(* Whatever a capture recorded, the verdict blames no more than it shows.   *)
THEOREM VerdictsFollowTheEvidence == AnalyzerSpec => []VerdictFollowsTheEvidence
<1>1. AnalyzerInv /\ [Analyze]_analyzerVars => AnalyzerInv'
  BY AnalyzerKeeps
<1>2. AnalyzerInv => VerdictFollowsTheEvidence
  BY VerdictFollows
<1>3. QED
  BY <1>1, <1>2, AnalyzerStarts, PTL DEF AnalyzerSpec

-----------------------------------------------------------------------------
SameUpto(s, t, n) == \A i \in 1..n : s[i] = t[i]

(* The prefixes of a sequence, the way an induction over it goes.          *)
LEMMA PrefixFacts ==
  ASSUME NEW T, NEW s \in Seq(T)
  PROVE  /\ SubSeq(s, 1, 0) = <<>>
         /\ SubSeq(s, 1, Len(s)) = s
         /\ \A n \in 0..Len(s) : SubSeq(s, 1, n) \in Seq(T)
         /\ \A n \in 1..Len(s) : s[n] \in T /\ SubSeq(s, 1, n) = Append(SubSeq(s, 1, n - 1), s[n])
OBVIOUS

LEMMA FirstBad ==
  ASSUME NEW n \in Nat, NEW bad, bad \subseteq 0..n, bad # {}, 0 \notin bad
  PROVE  \E i \in bad : i \in 1..n /\ i - 1 \in 0..n /\ i - 1 \notin bad
<1>1. bad \subseteq Nat
  OBVIOUS
<1>2. PICK i \in bad : \A j \in bad : i <= j
  BY <1>1, LeastNatural
<1>3. QED
  BY <1>2
LEMMA AppendConcat ==
  ASSUME NEW T, NEW s \in Seq(T), NEW t \in Seq(T), NEW x \in T
  PROVE  s \o Append(t, x) = Append(s \o t, x) /\ s \o t \in Seq(T)
OBVIOUS
LEMMA MaxIsGreatest ==
  ASSUME NEW n \in Nat, NEW S, S \subseteq 1..n, S # {}
  PROVE  Max(S) \in S /\ \A x \in S : x <= Max(S)
<1> DEFINE T == {n - x : x \in S}
<1>1. T \subseteq Nat /\ T # {}
  <2>1. \A x \in S : n - x \in Nat
    OBVIOUS
  <2>2. QED
    BY <2>1
<1>2. PICK m \in T : \A y \in T : m <= y
  <2> HIDE DEF T
  <2>1. QED
    BY <1>1, LeastNatural
<1>3. PICK x \in S : m = n - x
  OBVIOUS
<1>4. ASSUME NEW y \in S PROVE x >= y
  <2>1. m <= n - y
    BY <1>2
  <2>2. x \in 1..n /\ y \in 1..n
    OBVIOUS
  <2>3. QED
    BY <1>3, <2>1, <2>2
<1>5. Max(S) \in S /\ \A y \in S : Max(S) >= y
  BY <1>4 DEF Max
<1>6. QED
  BY <1>5

-----------------------------------------------------------------------------
(* The loops over characters, lines and rows are folds.                     *)
FoldStep(kind, state, x) ==
  CASE kind = "doubled" -> Doubled(state, x)
    [] kind = "addLine" -> AddLine(state, x)
    [] kind = "readOn" -> ReadOn(state, x)
    [] kind = "takeApart" -> TakeApart(state, x)
    [] OTHER -> AddThread(state, x)

FoldAt(g, kind, base, seq, s) ==
  IF s = {} THEN base ELSE FoldStep(kind, g[s \ {Max(s)}], seq[Max(s)])

(* The function whose value for all of a sequence is its FoldLeft.         *)
Folds(g, kind, base, seq, n) ==
  g = [s \in SUBSET (1..n) |-> FoldAt(g, kind, base, seq, s)]

LEMMA FoldsAt ==
  ASSUME NEW kind, NEW base, NEW seq, NEW n \in Nat, NEW g,
         Folds(g, kind, base, seq, n), NEW s \in SUBSET (1..n)
  PROVE  g[s] = FoldAt(g, kind, base, seq, s)
<1> DEFINE value(t) == FoldAt(g, kind, base, seq, t)
<1>1. g = [t \in SUBSET (1..n) |-> value(t)]
  BY DEF Folds
<1> HIDE DEF value
<1>2. g[s] = value(s)
  BY <1>1
<1>3. QED
  BY <1>2 DEF value

LEMMA FoldsExist ==
  ASSUME NEW kind, NEW base, NEW seq, NEW n \in Nat
  PROVE  \E g : Folds(g, kind, base, seq, n)
<1> DEFINE none == {m \in Nat : ~ \E g : Folds(g, kind, base, seq, m)}
<1> SUFFICES ASSUME none # {} PROVE FALSE
  OBVIOUS
<1>1. PICK m \in none : \A k \in none : m <= k
  <2>1. none \subseteq Nat
    OBVIOUS
  <2> HIDE DEF none
  <2>2. QED
    BY <2>1, LeastNatural
<1>2. m # 0
  <2> DEFINE one == [s \in SUBSET (1..0) |-> base]
  <2>1. \A s \in SUBSET (1..0) : s = {}
    OBVIOUS
  <2>2. one = [s \in SUBSET (1..0) |-> FoldAt(one, kind, base, seq, s)]
    BY <2>1 DEF FoldAt
  <2>3. Folds(one, kind, base, seq, 0)
    BY <2>2 DEF Folds
  <2>4. QED
    BY <2>3
<1>3. m - 1 \in Nat /\ m - 1 \notin none /\ m \in Nat
  BY <1>1, <1>2
<1>4. PICK g : Folds(g, kind, base, seq, m - 1)
  BY <1>3
<1> DEFINE h == [s \in SUBSET (1..m) |-> FoldAt(g, kind, base, seq, s)]
<1>5. ASSUME NEW s \in SUBSET (1..m), s # {}
      PROVE  h[s \ {Max(s)}] = g[s \ {Max(s)}]
  <2>1. Max(s) \in s /\ \A x \in s : x <= Max(s)
    BY <1>3, <1>5, MaxIsGreatest
  <2>2. s \ {Max(s)} \in SUBSET (1..(m - 1)) /\ s \ {Max(s)} \in SUBSET (1..m)
    <3> DEFINE top == Max(s)
    <3>1. top \in 1..m /\ \A x \in s : x \in 1..m /\ x <= top
      BY <2>1
    <3> HIDE DEF top
    <3>2. \A x \in s : x # top => x \in 1..(m - 1)
      BY <1>3, <3>1
    <3>3. QED
      BY <3>2 DEF top
  <2>3. g[s \ {Max(s)}] = FoldAt(g, kind, base, seq, s \ {Max(s)})
    BY <1>3, <1>4, <2>2, FoldsAt
  <2>4. QED
    BY <2>2, <2>3
<1>6. Folds(h, kind, base, seq, m)
  <2>1. \A s \in SUBSET (1..m) : FoldAt(g, kind, base, seq, s) = FoldAt(h, kind, base, seq, s)
    <3> HIDE DEF h
    <3>1. QED
      BY <1>5 DEF FoldAt
  <2>2. h = [s \in SUBSET (1..m) |-> FoldAt(h, kind, base, seq, s)]
    BY <2>1
  <2>3. QED
    BY <2>2 DEF Folds
<1>7. QED
  BY <1>3, <1>6

LEMMA FoldsFirst ==
  ASSUME NEW kind, NEW base, NEW seq, NEW n \in Nat, NEW g,
         Folds(g, kind, base, seq, n)
  PROVE  g[1..0] = base
<1>1. {} \in SUBSET (1..n) /\ 1..0 = {}
  OBVIOUS
<1>2. g[{}] = FoldAt(g, kind, base, seq, {})
  BY <1>1, FoldsAt
<1>3. g[{}] = base
  BY <1>2 DEF FoldAt
<1>4. QED
  BY <1>1, <1>3

LEMMA FoldsNext ==
  ASSUME NEW kind, NEW base, NEW seq, NEW n \in Nat, NEW g,
         Folds(g, kind, base, seq, n), NEW i \in 1..n
  PROVE  g[1..i] = FoldStep(kind, g[1..(i - 1)], seq[i])
<1>1. 1..i \in SUBSET (1..n) /\ 1..i # {} /\ i \in Nat
  OBVIOUS
<1>2. Max(1..i) = i
  <2>1. Max(1..i) \in 1..i /\ \A x \in 1..i : x <= Max(1..i)
    BY <1>1, MaxIsGreatest
  <2>2. QED
    BY <1>1, <2>1
<1>3. (1..i) \ {i} = 1..(i - 1)
  BY <1>1
<1>4. g[1..i] = FoldAt(g, kind, base, seq, 1..i)
  BY <1>1, FoldsAt
<1>5. QED
  BY <1>1, <1>2, <1>3, <1>4 DEF FoldAt

LEMMA FoldsLast ==
  ASSUME NEW kind, NEW base, NEW seq, NEW n \in Nat \ {0}, NEW g,
         Folds(g, kind, base, seq, n)
  PROVE  g[1..n] = FoldStep(kind, g[1..(n - 1)], seq[n])
<1>1. n \in Nat /\ n \in 1..n
  OBVIOUS
<1>2. \A i \in 1..n : g[1..i] = FoldStep(kind, g[1..(i - 1)], seq[i])
  <2> SUFFICES ASSUME NEW i \in 1..n
               PROVE  g[1..i] = FoldStep(kind, g[1..(i - 1)], seq[i])
    OBVIOUS
  <2> QED
    BY <1>1, FoldsNext
<1>3. QED
  BY <1>1, <1>2

LEMMA FoldsAgree ==
  ASSUME NEW kind, NEW base, NEW n \in Nat, NEW m \in Nat, NEW s, NEW t,
         NEW g, NEW h, Folds(g, kind, base, s, n), Folds(h, kind, base, t, m),
         NEW k \in Nat, k <= n, k <= m, SameUpto(s, t, k)
  PROVE  g[1..k] = h[1..k]
<1> DEFINE bad == {i \in 0..k : g[1..i] # h[1..i]}
<1>1. 0 \notin bad
  <2>1. g[1..0] = base /\ h[1..0] = base
    BY FoldsFirst
  <2>2. QED
    BY <2>1
<1> SUFFICES ASSUME bad # {} PROVE FALSE
  OBVIOUS
<1>2. PICK i \in bad : i \in 1..k /\ i - 1 \in 0..k /\ i - 1 \notin bad
  <2>1. bad \subseteq 0..k
    OBVIOUS
  <2> HIDE DEF bad
  <2>2. QED
    BY <1>1, <2>1, FirstBad
<1>3. i \in 1..n /\ i \in 1..m
  BY <1>2
<1>4. g[1..i] = FoldStep(kind, g[1..(i - 1)], s[i])
  BY <1>3, FoldsNext
<1>5. h[1..i] = FoldStep(kind, h[1..(i - 1)], t[i])
  BY <1>3, FoldsNext
<1>6. g[1..(i - 1)] = h[1..(i - 1)]
  BY <1>2
<1>7. s[i] = t[i]
  BY <1>2 DEF SameUpto
<1>8. g[1..i] # h[1..i]
  OBVIOUS
<1> HIDE DEF bad
<1>9. QED
  BY <1>4, <1>5, <1>6, <1>7, <1>8

(* Folded(kind, ...) is what a FoldLeft with this step is.                 *)
Folded(kind, base, seq) ==
  (CHOOSE g : Folds(g, kind, base, seq, Len(seq)))[1..Len(seq)]

LEMMA FoldedAppend ==
  ASSUME NEW kind, NEW base, NEW T, NEW seq \in Seq(T), NEW x \in T
  PROVE  /\ Folded(kind, base, <<>>) = base
         /\ Folded(kind, base, Append(seq, x))
              = FoldStep(kind, Folded(kind, base, seq), x)
<1> DEFINE n == Len(seq)
           more == Append(seq, x)
           g == CHOOSE g : Folds(g, kind, base, seq, n)
           h == CHOOSE h : Folds(h, kind, base, more, n + 1)
           z == CHOOSE z : Folds(z, kind, base, <<>>, 0)
<1>1. n \in Nat /\ Len(more) = n + 1 /\ more[n + 1] = x /\ SameUpto(more, seq, n) /\ Len(<<>>) = 0
  BY DEF SameUpto
<1>2. /\ Folded(kind, base, seq) = g[1..n]
      /\ Folded(kind, base, more) = h[1..(n + 1)]
      /\ Folded(kind, base, <<>>) = z[1..0]
  BY <1>1 DEF Folded
<1> HIDE DEF n, more
<1>3. /\ Folds(g, kind, base, seq, n)
      /\ Folds(h, kind, base, more, n + 1)
      /\ Folds(z, kind, base, <<>>, 0)
  <2>1. n + 1 \in Nat
    BY <1>1
  <2>2. \E f : Folds(f, kind, base, seq, n)
    BY <1>1, FoldsExist
  <2>3. \E f : Folds(f, kind, base, more, n + 1)
    BY <2>1, FoldsExist
  <2>4. \E f : Folds(f, kind, base, <<>>, 0)
    BY FoldsExist
  <2>5. QED
    BY <2>2, <2>3, <2>4
<1> HIDE DEF g, h, z
<1>4. z[1..0] = base
  BY <1>3, FoldsFirst
<1>5. n + 1 \in Nat /\ n + 1 \in 1..(n + 1) /\ (n + 1) - 1 = n /\ n <= n + 1 /\ n <= n
  BY <1>1
<1>6. h[1..(n + 1)] = FoldStep(kind, h[1..n], x)
  <2> DEFINE m == n + 1
  <2>1. m \in Nat \ {0} /\ Folds(h, kind, base, more, m)
    BY <1>1, <1>3, <1>5
  <2>2. m - 1 = n /\ more[m] = x
    BY <1>1, <1>5
  <2> HIDE DEF m
  <2>3. h[1..m] = FoldStep(kind, h[1..(m - 1)], more[m])
    BY <2>1, FoldsLast
  <2>4. h[1..m] = FoldStep(kind, h[1..n], x)
    BY <2>2, <2>3
  <2>5. QED
    BY <2>4 DEF m
<1>7. h[1..n] = g[1..n]
  BY <1>1, <1>3, <1>5, FoldsAgree
<1>8. QED
  BY <1>2, <1>4, <1>6, <1>7 DEF more
LEMMA FoldsAreFolded ==
  ASSUME NEW kind, NEW base, NEW seq, NEW n \in Nat, Len(seq) = n, NEW g,
         Folds(g, kind, base, seq, n)
  PROVE  g[1..n] = Folded(kind, base, seq)
<1> DEFINE h == CHOOSE h : Folds(h, kind, base, seq, n)
<1>1. Folds(h, kind, base, seq, n)
  OBVIOUS
<1>2. Folded(kind, base, seq) = h[1..n]
  BY DEF Folded
<1> HIDE DEF h
<1>3. n <= n /\ SameUpto(seq, seq, n)
  BY DEF SameUpto
<1>4. QED
  BY <1>1, <1>2, <1>3, FoldsAgree

DoubledFolds(g, base, seq) ==
  g = [s \in SUBSET DOMAIN seq |-> IF s = {} THEN base ELSE Doubled(g[s \ {Max(s)}], seq[Max(s)])]

LEMMA DoubledIsFolded ==
  ASSUME NEW base, NEW seq, NEW n \in Nat, DOMAIN seq = 1..n, Len(seq) = n
  PROVE  FoldLeft(Doubled, base, seq) = Folded("doubled", base, seq)
<1> DEFINE g == CHOOSE g : DoubledFolds(g, base, seq)
<1>1. FoldLeft(Doubled, base, seq) = g[DOMAIN seq]
  BY DEF FoldLeft, MapThenFoldSet, DoubledFolds
<1>2. \A f : Folds(f, "doubled", base, seq, n) <=> DoubledFolds(f, base, seq)
  BY DEF Folds, FoldAt, FoldStep, DoubledFolds
<1>3. \E f : Folds(f, "doubled", base, seq, n)
  BY FoldsExist
<1>4. Folds(g, "doubled", base, seq, n)
  BY <1>2, <1>3
<1> HIDE DEF g
<1>5. QED
  BY <1>1, <1>4, FoldsAreFolded

AddLineFolds(g, base, seq) ==
  g = [s \in SUBSET DOMAIN seq |-> IF s = {} THEN base ELSE AddLine(g[s \ {Max(s)}], seq[Max(s)])]

LEMMA AddLineIsFolded ==
  ASSUME NEW base, NEW seq, NEW n \in Nat, DOMAIN seq = 1..n, Len(seq) = n
  PROVE  FoldLeft(AddLine, base, seq) = Folded("addLine", base, seq)
<1> DEFINE g == CHOOSE g : AddLineFolds(g, base, seq)
<1>1. FoldLeft(AddLine, base, seq) = g[DOMAIN seq]
  BY DEF FoldLeft, MapThenFoldSet, AddLineFolds
<1>2. \A f : Folds(f, "addLine", base, seq, n) <=> AddLineFolds(f, base, seq)
  BY DEF Folds, FoldAt, FoldStep, AddLineFolds
<1>3. \E f : Folds(f, "addLine", base, seq, n)
  BY FoldsExist
<1>4. Folds(g, "addLine", base, seq, n)
  BY <1>2, <1>3
<1> HIDE DEF g
<1>5. QED
  BY <1>1, <1>4, FoldsAreFolded

ReadOnFolds(g, base, seq) ==
  g = [s \in SUBSET DOMAIN seq |-> IF s = {} THEN base ELSE ReadOn(g[s \ {Max(s)}], seq[Max(s)])]

LEMMA ReadOnIsFolded ==
  ASSUME NEW base, NEW seq, NEW n \in Nat, DOMAIN seq = 1..n, Len(seq) = n
  PROVE  FoldLeft(ReadOn, base, seq) = Folded("readOn", base, seq)
<1> DEFINE g == CHOOSE g : ReadOnFolds(g, base, seq)
<1>1. FoldLeft(ReadOn, base, seq) = g[DOMAIN seq]
  BY DEF FoldLeft, MapThenFoldSet, ReadOnFolds
<1>2. \A f : Folds(f, "readOn", base, seq, n) <=> ReadOnFolds(f, base, seq)
  BY DEF Folds, FoldAt, FoldStep, ReadOnFolds
<1>3. \E f : Folds(f, "readOn", base, seq, n)
  BY FoldsExist
<1>4. Folds(g, "readOn", base, seq, n)
  BY <1>2, <1>3
<1> HIDE DEF g
<1>5. QED
  BY <1>1, <1>4, FoldsAreFolded

TakeApartFolds(g, base, seq) ==
  g = [s \in SUBSET DOMAIN seq |-> IF s = {} THEN base ELSE TakeApart(g[s \ {Max(s)}], seq[Max(s)])]

LEMMA TakeApartIsFolded ==
  ASSUME NEW base, NEW seq, NEW n \in Nat, DOMAIN seq = 1..n, Len(seq) = n
  PROVE  FoldLeft(TakeApart, base, seq) = Folded("takeApart", base, seq)
<1> DEFINE g == CHOOSE g : TakeApartFolds(g, base, seq)
<1>1. FoldLeft(TakeApart, base, seq) = g[DOMAIN seq]
  BY DEF FoldLeft, MapThenFoldSet, TakeApartFolds
<1>2. \A f : Folds(f, "takeApart", base, seq, n) <=> TakeApartFolds(f, base, seq)
  BY DEF Folds, FoldAt, FoldStep, TakeApartFolds
<1>3. \E f : Folds(f, "takeApart", base, seq, n)
  BY FoldsExist
<1>4. Folds(g, "takeApart", base, seq, n)
  BY <1>2, <1>3
<1> HIDE DEF g
<1>5. QED
  BY <1>1, <1>4, FoldsAreFolded

AddThreadFolds(g, base, seq) ==
  g = [s \in SUBSET DOMAIN seq |-> IF s = {} THEN base ELSE AddThread(g[s \ {Max(s)}], seq[Max(s)])]

LEMMA AddThreadIsFolded ==
  ASSUME NEW base, NEW seq, NEW n \in Nat, DOMAIN seq = 1..n, Len(seq) = n
  PROVE  FoldLeft(AddThread, base, seq) = Folded("addThread", base, seq)
<1> DEFINE g == CHOOSE g : AddThreadFolds(g, base, seq)
<1>1. FoldLeft(AddThread, base, seq) = g[DOMAIN seq]
  BY DEF FoldLeft, MapThenFoldSet, AddThreadFolds
<1>2. \A f : Folds(f, "addThread", base, seq, n) <=> AddThreadFolds(f, base, seq)
  BY DEF Folds, FoldAt, FoldStep, AddThreadFolds
<1>3. \E f : Folds(f, "addThread", base, seq, n)
  BY FoldsExist
<1>4. Folds(g, "addThread", base, seq, n)
  BY <1>2, <1>3
<1> HIDE DEF g
<1>5. QED
  BY <1>1, <1>4, FoldsAreFolded


LEMMA PrefixInduction ==
  ASSUME NEW n \in Nat, NEW good, 0 \in good, \A i \in 1..n : i - 1 \in good => i \in good
  PROVE  n \in good
<1> DEFINE bad == (0..n) \ good
<1> SUFFICES ASSUME n \notin good PROVE FALSE
  OBVIOUS
<1>1. bad \subseteq 0..n /\ bad # {} /\ 0 \notin bad
  OBVIOUS
<1>2. \A i \in 0..n : i \notin bad => i \in good
  OBVIOUS
<1>3. \A i \in bad : i \notin good
  OBVIOUS
<1> HIDE DEF bad
<1>4. PICK i \in bad : i \in 1..n /\ i - 1 \in 0..n /\ i - 1 \notin bad
  BY <1>1, FirstBad
<1>5. QED
  BY <1>2, <1>3, <1>4

LEMMA FoldedNone ==
  ASSUME NEW kind, NEW base
  PROVE  Folded(kind, base, <<>>) = base
<1>1. <<>> \in Seq({0}) /\ 0 \in {0}
  OBVIOUS
<1>2. QED
  BY <1>1, FoldedAppend

LEMMA FoldedNext ==
  ASSUME NEW kind, NEW base, NEW T, NEW seq \in Seq(T), NEW x \in T
  PROVE  Folded(kind, base, Append(seq, x)) = FoldStep(kind, Folded(kind, base, seq), x)
BY FoldedAppend

LEMMA FoldedOne ==
  ASSUME NEW kind, NEW base, NEW x
  PROVE  Folded(kind, base, <<x>>) = FoldStep(kind, base, x)
<1> DEFINE none == <<>>
           T == {x}
<1>0. Append(none, x) = <<x>>
  OBVIOUS
<1>1. none \in Seq(T) /\ x \in T
  OBVIOUS
<1> HIDE DEF none, T
<1>2. Folded(kind, base, Append(none, x)) = FoldStep(kind, Folded(kind, base, none), x)
  BY ONLY <1>1, FoldedNext
<1>3. Folded(kind, base, none) = base
  BY FoldedNone DEF none
<1>4. QED
  BY <1>0, <1>2, <1>3

LEMMA FoldedConcat ==
  ASSUME NEW kind, NEW base, NEW T, NEW s \in Seq(T), NEW t \in Seq(T)
  PROVE  Folded(kind, base, s \o t) = Folded(kind, Folded(kind, base, s), t)
<1> DEFINE n == Len(t)
           after == Folded(kind, base, s)
           good == {i \in 0..n : Folded(kind, base, s \o SubSeq(t, 1, i))
                                   = Folded(kind, after, SubSeq(t, 1, i))}
<1>1. n \in Nat
  OBVIOUS
<1>2. 0 \in good
  <2>1. SubSeq(t, 1, 0) = <<>> /\ s \o <<>> = s
    BY PrefixFacts, ConcatEmptySeq
  <2>2. Folded(kind, after, <<>>) = after
    BY FoldedNone
  <2>3. Folded(kind, base, s \o SubSeq(t, 1, 0)) = Folded(kind, after, SubSeq(t, 1, 0))
    BY <2>1, <2>2
  <2>4. 0 \in 0..n
    BY <1>1
  <2>5. QED
    BY <2>3, <2>4
<1>3. ASSUME NEW i \in 1..n, i - 1 \in good
      PROVE  i \in good
  <2> DEFINE front == SubSeq(t, 1, i - 1)
             x == t[i]
  <2>1. front \in Seq(T) /\ x \in T /\ SubSeq(t, 1, i) = Append(front, x)
    BY PrefixFacts
  <2>2. Folded(kind, base, s \o front) = Folded(kind, after, front)
    BY <1>3
  <2> HIDE DEF front, x, after, good
  <2>3. s \o Append(front, x) = Append(s \o front, x) /\ s \o front \in Seq(T)
    BY <2>1, AppendConcat
  <2>4. Folded(kind, base, Append(s \o front, x)) = FoldStep(kind, Folded(kind, base, s \o front), x)
    <3> DEFINE long == s \o front
    <3>1. long \in Seq(T)
      BY <2>3
    <3> HIDE DEF long
    <3>2. Folded(kind, base, Append(long, x)) = FoldStep(kind, Folded(kind, base, long), x)
      BY <2>1, <3>1, FoldedNext
    <3>3. QED
      BY <3>2 DEF long
  <2>5. Folded(kind, after, Append(front, x)) = FoldStep(kind, Folded(kind, after, front), x)
    BY <2>1, FoldedNext
  <2>6. Folded(kind, base, s \o SubSeq(t, 1, i)) = Folded(kind, after, SubSeq(t, 1, i))
    BY <2>1, <2>2, <2>3, <2>4, <2>5
  <2>7. i \in 0..n
    BY <1>1
  <2>8. QED
    BY <2>6, <2>7 DEF good, after
<1> HIDE DEF good, n
<1>4. n \in good
  BY <1>1, <1>2, <1>3, PrefixInduction
<1>5. SubSeq(t, 1, n) = t
  BY PrefixFacts DEF n
<1>6. QED
  BY <1>4, <1>5 DEF good

-----------------------------------------------------------------------------
(* Texts come back: what is written line by line is read line by line, and  *)
(* a field that is quoted is the field again.                               *)
Plain == {Comma, Quote, CarriageReturn, Letter}
Chars == {Comma, Quote, NewLine, CarriageReturn, Letter}

LineState(lines, line) == [lines |-> lines, line |-> line]

LEMMA ReadsOn ==
  ASSUME NEW lines, NEW line, NEW c
  PROVE  /\ c # NewLine => ReadOn(LineState(lines, line), c) = LineState(lines, Append(line, c))
         /\ ReadOn(LineState(lines, line), NewLine)
              = LineState(Append(lines, WithoutReturn(line)), <<>>)
BY DEF ReadOn, LineState

LEMMA LineIsRead ==
  ASSUME NEW lines, NEW w \in Seq(Plain)
  PROVE  Folded("readOn", LineState(lines, <<>>), w) = LineState(lines, w)
<1> DEFINE n == Len(w)
           start == LineState(lines, <<>>)
           good == {i \in 0..n : Folded("readOn", start, SubSeq(w, 1, i)) = LineState(lines, SubSeq(w, 1, i))}
<1>1. n \in Nat
  OBVIOUS
<1>2. 0 \in good
  <2>1. SubSeq(w, 1, 0) = <<>>
    BY PrefixFacts
  <2>2. Folded("readOn", start, <<>>) = start
    BY FoldedNone
  <2>3. Folded("readOn", start, SubSeq(w, 1, 0)) = LineState(lines, SubSeq(w, 1, 0))
    BY <2>1, <2>2
  <2>4. 0 \in 0..n
    BY <1>1
  <2>5. QED
    BY <2>3, <2>4
<1>3. ASSUME NEW i \in 1..n, i - 1 \in good
      PROVE  i \in good
  <2> DEFINE front == SubSeq(w, 1, i - 1)
             x == w[i]
  <2>1. front \in Seq(Plain) /\ x \in Plain /\ SubSeq(w, 1, i) = Append(front, x)
    BY PrefixFacts
  <2>2. Folded("readOn", start, front) = LineState(lines, front)
    BY <1>3
  <2> HIDE DEF front, x, start, good
  <2>3. Folded("readOn", start, Append(front, x)) = ReadOn(LineState(lines, front), x)
    BY <2>1, <2>2, FoldedNext DEF FoldStep
  <2>4. x # NewLine
    BY <2>1 DEF Plain, NewLine, Comma, Quote, CarriageReturn, Letter
  <2>5. Folded("readOn", start, SubSeq(w, 1, i)) = LineState(lines, SubSeq(w, 1, i))
    <3>1. ReadOn(LineState(lines, front), x) = LineState(lines, Append(front, x))
      BY <2>4, ReadsOn
    <3>2. QED
      BY <2>1, <2>3, <3>1
  <2>6. i \in 0..n
    BY <1>1
  <2>7. QED
    BY <2>5, <2>6 DEF good, start
<1> HIDE DEF good, n
<1>4. n \in good
  BY <1>1, <1>2, <1>3, PrefixInduction
<1>5. SubSeq(w, 1, n) = w
  BY PrefixFacts DEF n
<1>6. QED
  BY <1>4, <1>5 DEF good

LEMMA PlainLine ==
  ASSUME NEW w \in Seq(Plain)
  PROVE  w \in Seq(Chars) /\ Append(w, NewLine) \in Seq(Chars)
BY DEF Plain, Chars

LEMMA LogIsRead ==
  ASSUME NEW log \in Seq(Seq(Plain)), \A i \in 1..Len(log) : ~EndsInReturn(log[i])
  PROVE  /\ Folded("addLine", <<>>, log) \in Seq(Chars)
         /\ Folded("readOn", LineState(<<>>, <<>>), Folded("addLine", <<>>, log)) = LineState(log, <<>>)
<1> DEFINE n == Len(log)
           start == LineState(<<>>, <<>>)
           written(i) == Folded("addLine", <<>>, SubSeq(log, 1, i))
           good == {i \in 0..n : /\ written(i) \in Seq(Chars)
                                 /\ Folded("readOn", start, written(i)) = LineState(SubSeq(log, 1, i), <<>>)}
<1>1. n \in Nat
  OBVIOUS
<1>2. 0 \in good
  <2>1. SubSeq(log, 1, 0) = <<>>
    BY PrefixFacts
  <2>2. Folded("addLine", <<>>, <<>>) = <<>>
    BY FoldedNone
  <2>3. written(0) = <<>> /\ written(0) \in Seq(Chars)
    <3>1. <<>> \in Seq(Chars)
      OBVIOUS
    <3>2. written(0) = <<>>
      BY <2>1, <2>2
    <3>3. QED
      BY <3>1, <3>2
  <2>4. Folded("readOn", start, <<>>) = start
    BY FoldedNone
  <2>5. Folded("readOn", start, written(0)) = LineState(SubSeq(log, 1, 0), <<>>)
    BY <2>1, <2>3, <2>4
  <2>6. 0 \in 0..n
    BY <1>1
  <2> HIDE DEF start, written
  <2>7. QED
    BY <2>3, <2>5, <2>6
<1>3. ASSUME NEW i \in 1..n, i - 1 \in good
      PROVE  i \in good
  <2> DEFINE front == SubSeq(log, 1, i - 1)
             w == log[i]
             before == written(i - 1)
             L == Seq(Plain)
  <2>1. front \in Seq(L) /\ w \in L /\ SubSeq(log, 1, i) = Append(front, w)
    BY PrefixFacts
  <2>2. before \in Seq(Chars) /\ Folded("readOn", start, before) = LineState(front, <<>>)
    BY <1>3
  <2>3. ~EndsInReturn(w)
    OBVIOUS
  <2>4. before = Folded("addLine", <<>>, front) /\ written(i) = Folded("addLine", <<>>, Append(front, w))
    BY <2>1
  <2>5. w \in Seq(Plain)
    BY <2>1
  <2> HIDE DEF front, w, start, before, written, L, good
  <2>6. written(i) = before \o Append(w, NewLine)
    <3>1. Folded("addLine", <<>>, Append(front, w)) = FoldStep("addLine", Folded("addLine", <<>>, front), w)
      BY <2>1, FoldedNext
    <3>2. QED
      BY <2>4, <3>1 DEF FoldStep, AddLine
  <2>7. w \in Seq(Chars) /\ Append(w, NewLine) \in Seq(Chars)
    BY <2>5, PlainLine
  <2>8. written(i) \in Seq(Chars)
    BY <2>2, <2>6, <2>7, ConcatProperties
  <2>9. Folded("readOn", start, written(i)) = Folded("readOn", LineState(front, <<>>), Append(w, NewLine))
    <3> DEFINE rest == Append(w, NewLine)
    <3>1. rest \in Seq(Chars)
      BY <2>7
    <3> HIDE DEF rest
    <3>2. Folded("readOn", start, before \o rest) = Folded("readOn", Folded("readOn", start, before), rest)
      BY <2>2, <3>1, FoldedConcat
    <3>3. QED
      BY <2>2, <2>6, <3>2 DEF rest
  <2>10. Folded("readOn", LineState(front, <<>>), Append(w, NewLine)) = ReadOn(LineState(front, w), NewLine)
    <3>1. Folded("readOn", LineState(front, <<>>), w) = LineState(front, w)
      BY <2>5, LineIsRead
    <3>2. NewLine \in Chars
      BY DEF Chars
    <3>3. QED
      BY <2>7, <3>1, <3>2, FoldedNext DEF FoldStep
  <2>11. ReadOn(LineState(front, w), NewLine) = LineState(Append(front, w), <<>>)
    BY <2>3, ReadsOn DEF WithoutReturn
  <2>12. i \in 0..n
    BY <1>1
  <2>13. Folded("readOn", start, written(i)) = LineState(SubSeq(log, 1, i), <<>>)
    BY <2>1, <2>9, <2>10, <2>11
  <2>14. QED
    BY <2>8, <2>12, <2>13 DEF good, start, written
<1> HIDE DEF good, n
<1>4. n \in good
  BY <1>1, <1>2, <1>3, PrefixInduction
<1>5. SubSeq(log, 1, n) = log
  BY PrefixFacts DEF n
<1>6. QED
  BY <1>4, <1>5 DEF good

LEMMA LogComesBack ==
  ASSUME NEW log \in Seq(Seq(Plain)), \A i \in 1..Len(log) : ~EndsInReturn(log[i])
  PROVE  SplitLines(FoldLeft(AddLine, <<>>, log)) = log
<1> DEFINE text == FoldLeft(AddLine, <<>>, log)
           start == [lines |-> <<>>, line |-> <<>>]
<1>1. text = Folded("addLine", <<>>, log)
  <2>1. Len(log) \in Nat /\ DOMAIN log = 1..Len(log)
    OBVIOUS
  <2>2. QED
    BY <2>1, AddLineIsFolded
<1>2. text \in Seq(Chars) /\ Folded("readOn", start, text) = [lines |-> log, line |-> <<>>]
  BY <1>1, LogIsRead DEF LineState
<1> HIDE DEF text
<1>3. Len(text) \in Nat /\ DOMAIN text = 1..Len(text)
  BY <1>2
<1>4. FoldLeft(ReadOn, start, text) = [lines |-> log, line |-> <<>>]
  BY <1>2, <1>3, ReadOnIsFolded
<1>5. SplitLines(text) = log
  BY <1>4 DEF SplitLines
<1>6. QED
  BY <1>5 DEF text

FieldState(at, field, fields) == [at |-> at, field |-> field, fields |-> fields]

LEMMA TakesApart ==
  ASSUME NEW f, NEW fs, NEW c
  PROVE  /\ TakeApart(FieldState("quoted", f, fs), Quote) = FieldState("closed", f, fs)
         /\ c # Quote => TakeApart(FieldState("quoted", f, fs), c) = FieldState("quoted", Append(f, c), fs)
         /\ TakeApart(FieldState("closed", f, fs), Quote) = FieldState("quoted", Append(f, Quote), fs)
         /\ TakeApart(FieldState("plain", f, fs), Quote) = FieldState("quoted", f, fs)
         /\ \A at \in {"plain", "closed"} :
              TakeApart(FieldState(at, f, fs), Comma) = FieldState("plain", <<>>, Append(fs, f))
         /\ c \notin {Quote, Comma} =>
              TakeApart(FieldState("plain", f, fs), c) = FieldState("plain", Append(f, c), fs)
<1>0. Quote # Comma
  BY DEF Quote, Comma
<1>2. ASSUME NEW a, NEW at
      PROVE  [[at |-> a, field |-> f, fields |-> fs] EXCEPT !.at = at]
               = [at |-> at, field |-> f, fields |-> fs]
  OBVIOUS
<1>3. TakeApart(FieldState("quoted", f, fs), Quote) = FieldState("closed", f, fs)
  BY <1>2 DEF TakeApart, FieldState
<1>4. c # Quote => TakeApart(FieldState("quoted", f, fs), c) = FieldState("quoted", Append(f, c), fs)
  BY DEF TakeApart, FieldState
<1>5. TakeApart(FieldState("closed", f, fs), Quote) = FieldState("quoted", Append(f, Quote), fs)
  BY <1>0 DEF TakeApart, FieldState
<1>6. TakeApart(FieldState("plain", f, fs), Quote) = FieldState("quoted", f, fs)
  BY <1>0, <1>2 DEF TakeApart, FieldState
<1>7. ASSUME NEW at \in {"plain", "closed"}
      PROVE  TakeApart(FieldState(at, f, fs), Comma) = FieldState("plain", <<>>, Append(fs, f))
  BY <1>0 DEF TakeApart, FieldState
<1>8. ASSUME c \notin {Quote, Comma}
      PROVE  TakeApart(FieldState("plain", f, fs), c) = FieldState("plain", Append(f, c), fs)
  BY <1>8 DEF TakeApart, FieldState
<1>9. QED
  BY <1>3, <1>4, <1>5, <1>6, <1>7, <1>8

Blank == FieldState("plain", <<>>, <<>>)

(* A field without quotes or commas is taken as it is.                      *)
LEMMA UnquotedIsTaken ==
  ASSUME NEW w \in Seq(Plain), \A i \in 1..Len(w) : w[i] \notin {Quote, Comma}
  PROVE  Folded("takeApart", Blank, w) = FieldState("plain", w, <<>>)
<1> DEFINE n == Len(w)
           good == {i \in 0..n : Folded("takeApart", Blank, SubSeq(w, 1, i))
                                   = FieldState("plain", SubSeq(w, 1, i), <<>>)}
<1>1. n \in Nat
  OBVIOUS
<1>2. 0 \in good
  <2>1. SubSeq(w, 1, 0) = <<>>
    BY PrefixFacts
  <2>2. Folded("takeApart", Blank, <<>>) = Blank
    BY FoldedNone
  <2>3. Folded("takeApart", Blank, SubSeq(w, 1, 0)) = FieldState("plain", SubSeq(w, 1, 0), <<>>)
    BY <2>1, <2>2 DEF Blank
  <2>4. 0 \in 0..n
    BY <1>1
  <2>5. QED
    BY <2>3, <2>4
<1>3. ASSUME NEW i \in 1..n, i - 1 \in good
      PROVE  i \in good
  <2> DEFINE front == SubSeq(w, 1, i - 1)
             x == w[i]
  <2>1. front \in Seq(Plain) /\ x \in Plain /\ SubSeq(w, 1, i) = Append(front, x)
    BY PrefixFacts
  <2>2. Folded("takeApart", Blank, front) = FieldState("plain", front, <<>>)
    BY <1>3
  <2>3. x \notin {Quote, Comma}
    OBVIOUS
  <2> HIDE DEF front, x, good
  <2>4. Folded("takeApart", Blank, Append(front, x)) = TakeApart(FieldState("plain", front, <<>>), x)
    BY <2>1, <2>2, FoldedNext DEF FoldStep
  <2>5. TakeApart(FieldState("plain", front, <<>>), x) = FieldState("plain", Append(front, x), <<>>)
    BY <2>3, TakesApart
  <2>6. Folded("takeApart", Blank, SubSeq(w, 1, i)) = FieldState("plain", SubSeq(w, 1, i), <<>>)
    BY <2>1, <2>4, <2>5
  <2>7. i \in 0..n
    BY <1>1
  <2>8. QED
    BY <2>6, <2>7 DEF good
<1> HIDE DEF good, n
<1>4. n \in good
  BY <1>1, <1>2, <1>3, PrefixInduction
<1>5. SubSeq(w, 1, n) = w
  BY PrefixFacts DEF n
<1>6. QED
  BY <1>4, <1>5 DEF good

(* What one character was written as is one character again.                *)
LEMMA DoubledIsTaken ==
  ASSUME NEW field \in Seq(Plain), NEW c \in Plain, NEW f,
         Folded("takeApart", Blank, field) = FieldState("quoted", f, <<>>)
  PROVE  /\ Doubled(field, c) \in Seq(Plain)
         /\ Folded("takeApart", Blank, Doubled(field, c)) = FieldState("quoted", Append(f, c), <<>>)
<1> DEFINE s == FieldState("quoted", f, <<>>)
           one == Append(field, c)
           two == Append(one, c)
<1>1. one \in Seq(Plain) /\ two \in Seq(Plain)
  OBVIOUS
<1>2. /\ c # Quote => Doubled(field, c) = one
      /\ c = Quote => Doubled(field, c) = two
  BY DEF Doubled
<1>3. Folded("takeApart", Blank, one) = TakeApart(s, c)
  BY FoldedNext DEF FoldStep
<1>4. c # Quote => TakeApart(s, c) = FieldState("quoted", Append(f, c), <<>>)
  BY TakesApart
<1>5. c = Quote => TakeApart(s, c) = FieldState("closed", f, <<>>)
  BY TakesApart
<1> HIDE DEF one
<1>6. Folded("takeApart", Blank, two) = TakeApart(TakeApart(s, c), c)
  BY <1>1, <1>3, FoldedNext DEF FoldStep
<1>7. c = Quote => TakeApart(FieldState("closed", f, <<>>), c) = FieldState("quoted", Append(f, c), <<>>)
  BY TakesApart
<1> HIDE DEF two, s
<1>8. CASE c = Quote
  BY <1>1, <1>2, <1>5, <1>6, <1>7, <1>8
<1>9. CASE c # Quote
  BY <1>1, <1>2, <1>3, <1>4, <1>9
<1>10. QED
  BY <1>8, <1>9

LEMMA QuotedIsTaken ==
  ASSUME NEW w \in Seq(Plain)
  PROVE  /\ Folded("doubled", <<Quote>>, w) \in Seq(Plain)
         /\ Folded("takeApart", Blank, Folded("doubled", <<Quote>>, w)) = FieldState("quoted", w, <<>>)
<1> DEFINE n == Len(w)
           written(i) == Folded("doubled", <<Quote>>, SubSeq(w, 1, i))
           good == {i \in 0..n : /\ written(i) \in Seq(Plain)
                                 /\ Folded("takeApart", Blank, written(i))
                                      = FieldState("quoted", SubSeq(w, 1, i), <<>>)}
<1>1. n \in Nat
  OBVIOUS
<1>2. 0 \in good
  <2>1. SubSeq(w, 1, 0) = <<>>
    BY PrefixFacts
  <2>2. written(0) = <<Quote>>
    BY <2>1, FoldedNone
  <2>3. <<Quote>> \in Seq(Plain)
    BY DEF Plain
  <2>4. Folded("takeApart", Blank, <<Quote>>) = FieldState("quoted", <<>>, <<>>)
    <3>1. Folded("takeApart", Blank, <<Quote>>) = TakeApart(Blank, Quote)
      BY FoldedOne DEF FoldStep
    <3>2. QED
      BY <3>1, TakesApart DEF Blank
  <2>5. written(0) \in Seq(Plain)
    BY <2>2, <2>3
  <2>6. Folded("takeApart", Blank, written(0)) = FieldState("quoted", SubSeq(w, 1, 0), <<>>)
    BY <2>1, <2>2, <2>4
  <2>7. 0 \in 0..n
    BY <1>1
  <2> HIDE DEF written
  <2>8. QED
    BY <2>5, <2>6, <2>7
<1>3. ASSUME NEW i \in 1..n, i - 1 \in good
      PROVE  i \in good
  <2> DEFINE front == SubSeq(w, 1, i - 1)
             x == w[i]
             before == written(i - 1)
  <2>1. front \in Seq(Plain) /\ x \in Plain /\ SubSeq(w, 1, i) = Append(front, x)
    BY PrefixFacts
  <2>2. before \in Seq(Plain) /\ Folded("takeApart", Blank, before) = FieldState("quoted", front, <<>>)
    BY <1>3
  <2>3. before = Folded("doubled", <<Quote>>, front) /\ written(i) = Folded("doubled", <<Quote>>, Append(front, x))
    BY <2>1
  <2> HIDE DEF front, x, before, written, good
  <2>4. written(i) = Doubled(before, x)
    <3>1. Folded("doubled", <<Quote>>, Append(front, x)) = FoldStep("doubled", Folded("doubled", <<Quote>>, front), x)
      BY <2>1, FoldedNext
    <3>2. QED
      BY <2>3, <3>1 DEF FoldStep
  <2>5. /\ Doubled(before, x) \in Seq(Plain)
        /\ Folded("takeApart", Blank, Doubled(before, x)) = FieldState("quoted", Append(front, x), <<>>)
    BY <2>1, <2>2, DoubledIsTaken
  <2>6. i \in 0..n
    BY <1>1
  <2>7. Folded("takeApart", Blank, written(i)) = FieldState("quoted", SubSeq(w, 1, i), <<>>)
    BY <2>1, <2>4, <2>5
  <2>8. written(i) \in Seq(Plain)
    BY <2>4, <2>5
  <2>9. QED
    BY <2>6, <2>7, <2>8 DEF good, written
<1> HIDE DEF good, n
<1>4. n \in good
  BY <1>1, <1>2, <1>3, PrefixInduction
<1>5. SubSeq(w, 1, n) = w
  BY PrefixFacts DEF n
<1>6. QED
  BY <1>4, <1>5 DEF good

(* The field, and where its end leaves the reader.                          *)
LEMMA FieldIsTaken ==
  ASSUME NEW w \in Seq(Plain)
  PROVE  /\ CsvField(w) \in Seq(Plain)
         /\ \E at \in {"plain", "closed"} : Folded("takeApart", Blank, CsvField(w)) = FieldState(at, w, <<>>)
<1> DEFINE quoted == \E i \in DOMAIN w : w[i] \in {Comma, Quote, NewLine, CarriageReturn}
<1>0. DOMAIN w = 1..Len(w) /\ Len(w) \in Nat
  OBVIOUS
<1>1. CASE ~quoted
  <2>1. CsvField(w) = w
    BY <1>1 DEF CsvField
  <2>2. \A i \in 1..Len(w) : w[i] \notin {Quote, Comma}
    BY <1>0, <1>1
  <2>3. QED
    BY <2>1, <2>2, UnquotedIsTaken
<1>2. CASE quoted
  <2> DEFINE inside == Folded("doubled", <<Quote>>, w)
  <2>1. FoldLeft(Doubled, <<Quote>>, w) = inside
    BY <1>0, DoubledIsFolded
  <2>2. CsvField(w) = inside \o <<Quote>>
    BY <1>2, <2>1 DEF CsvField
  <2>3. inside \in Seq(Plain) /\ Folded("takeApart", Blank, inside) = FieldState("quoted", w, <<>>)
    BY QuotedIsTaken
  <2> HIDE DEF inside
  <2>4. Quote \in Plain
    BY DEF Plain
  <2>5. CsvField(w) = Append(inside, Quote) /\ Append(inside, Quote) \in Seq(Plain)
    BY <2>2, <2>3, <2>4
  <2>6. Folded("takeApart", Blank, Append(inside, Quote)) = TakeApart(FieldState("quoted", w, <<>>), Quote)
    BY <2>3, <2>4, FoldedNext DEF FoldStep
  <2>7. TakeApart(FieldState("quoted", w, <<>>), Quote) = FieldState("closed", w, <<>>)
    BY TakesApart
  <2>8. QED
    BY <2>5, <2>6, <2>7
<1>3. QED
  BY <1>1, <1>2

LEMMA AppendedTo ==
  ASSUME NEW S, NEW s \in Seq(S), NEW n \in Nat, Len(s) = n, NEW b \in S
  PROVE  /\ Append(s, b) \in Seq(S) /\ Len(Append(s, b)) = n + 1
         /\ \A i \in 1..n : Append(s, b)[i] = s[i]
         /\ Append(s, b)[n + 1] = b
OBVIOUS

LEMMA AppendToOne ==
  ASSUME NEW a, NEW b
  PROVE  Append(<<a>>, b) = <<a, b>>
<1> DEFINE S == {a, b}
           s == <<a>>
           t == Append(s, b)
           u == <<a, b>>
<1>1. s \in Seq(S) /\ b \in S /\ Len(s) = 1 /\ s[1] = a
  OBVIOUS
<1>2. u \in Seq(S) /\ Len(u) = 2 /\ u[1] = a /\ u[2] = b
  OBVIOUS
<1> HIDE DEF S, s, u
<1>3. t \in Seq(S) /\ Len(t) = 2 /\ t[1] = a /\ t[2] = b
  <2>1. 1 \in 1..1 /\ 1 + 1 = 2 /\ 1 \in Nat
    OBVIOUS
  <2>2. /\ Append(s, b) \in Seq(S) /\ Len(Append(s, b)) = 1 + 1
        /\ \A i \in 1..1 : Append(s, b)[i] = s[i]
        /\ Append(s, b)[1 + 1] = b
    BY <1>1, <2>1, AppendedTo
  <2>3. QED
    BY <1>1, <2>1, <2>2
<1> HIDE DEF t
<1>4. \A i \in 1..Len(t) : t[i] = u[i]
  BY <1>2, <1>3
<1>5. t = u
  BY <1>2, <1>3, <1>4, SeqEqual
<1>6. QED
  BY <1>5 DEF t, s, u

Row(w) == CsvField(w) \o <<Comma, Letter>>

LEMMA RowComesBack ==
  ASSUME NEW w \in Seq(Plain)
  PROVE  Row(w) \in Seq(Plain) /\ SplitCsvLine(Row(w)) = <<w, <<Letter>>>>
<1> DEFINE field == CsvField(w)
           one == Append(field, Comma)
           two == Append(one, Letter)
<1>1. PICK at \in {"plain", "closed"} : Folded("takeApart", Blank, field) = FieldState(at, w, <<>>)
  BY FieldIsTaken
<1>2. field \in Seq(Plain) /\ Comma \in Plain /\ Letter \in Plain
  BY FieldIsTaken DEF Plain
<1> HIDE DEF field
<1>3. one \in Seq(Plain)
  BY <1>2
<1>4. field \o <<Comma, Letter>> = two
  BY <1>2
<1>5. Folded("takeApart", Blank, one) = TakeApart(FieldState(at, w, <<>>), Comma)
  BY <1>1, <1>2, FoldedNext DEF FoldStep
<1>6. TakeApart(FieldState(at, w, <<>>), Comma) = FieldState("plain", <<>>, <<w>>)
  <2>1. TakeApart(FieldState(at, w, <<>>), Comma) = FieldState("plain", <<>>, Append(<<>>, w))
    BY <1>1, TakesApart
  <2>2. Append(<<>>, w) = <<w>>
    OBVIOUS
  <2>3. QED
    BY <2>1, <2>2
<1> HIDE DEF one
<1>7. two \in Seq(Plain)
  BY <1>2, <1>3
<1>8. Folded("takeApart", Blank, two) = TakeApart(FieldState("plain", <<>>, <<w>>), Letter)
  BY <1>2, <1>3, <1>5, <1>6, FoldedNext DEF FoldStep
<1>9. TakeApart(FieldState("plain", <<>>, <<w>>), Letter) = FieldState("plain", <<Letter>>, <<w>>)
  <2>1. Letter \notin {Quote, Comma}
    BY DEF Letter, Quote, Comma
  <2>2. TakeApart(FieldState("plain", <<>>, <<w>>), Letter) = FieldState("plain", Append(<<>>, Letter), <<w>>)
    <3> DEFINE none == <<>>
               fields == <<w>>
    <3> HIDE DEF none, fields
    <3>1. TakeApart(FieldState("plain", none, fields), Letter) = FieldState("plain", Append(none, Letter), fields)
      BY <2>1, TakesApart
    <3>2. QED
      BY <3>1 DEF none, fields
  <2>3. Append(<<>>, Letter) = <<Letter>>
    OBVIOUS
  <2>4. QED
    BY <2>2, <2>3
<1> HIDE DEF two
<1>10. Row(w) = two
  BY <1>4 DEF Row, field
<1>11. FoldLeft(TakeApart, Blank, two) = Folded("takeApart", Blank, two)
  <2>1. Len(two) \in Nat /\ DOMAIN two = 1..Len(two)
    BY <1>7
  <2>2. QED
    BY <2>1, TakeApartIsFolded
<1>12. FoldLeft(TakeApart, Blank, two) = FieldState("plain", <<Letter>>, <<w>>)
  BY <1>8, <1>9, <1>11
<1>13. SplitCsvLine(two) = Append(<<w>>, <<Letter>>)
  <2> DEFINE fields == <<w>>
             rest == <<Letter>>
             done == FoldLeft(TakeApart, Blank, two)
  <2>1. SplitCsvLine(two) = Append(done.fields, done.field)
    BY DEF SplitCsvLine, Blank, FieldState
  <2>2. done = FieldState("plain", rest, fields)
    BY <1>12
  <2> HIDE DEF fields, rest, done
  <2>3. done.fields = fields /\ done.field = rest
    BY <2>2 DEF FieldState
  <2>4. QED
    BY <2>1, <2>3 DEF fields, rest
<1>14. Append(<<w>>, <<Letter>>) = <<w, <<Letter>>>>
  BY AppendToOne
<1>15. QED
  BY <1>7, <1>10, <1>13, <1>14

LEMMA ThreadComesBack ==
  ASSUME NEW w \in Seq(Plain)
  PROVE  ThreadNames(CsvField(w) \o <<Comma, Letter, NewLine>>) = <<w>>
<1> DEFINE row == Row(w)
           text == Append(row, NewLine)
           start == LineState(<<>>, <<>>)
<1>1. row \in Seq(Plain) /\ SplitCsvLine(row) = <<w, <<Letter>>>>
  BY RowComesBack
<1>2. CsvField(w) \o <<Comma, Letter, NewLine>> = text
  <2> DEFINE field == CsvField(w)
  <2>1. field \in Seq(Plain)
    BY FieldIsTaken
  <2> HIDE DEF field
  <2>2. field \o <<Comma, Letter, NewLine>> = Append(field \o <<Comma, Letter>>, NewLine)
    BY <2>1 DEF Plain
  <2>3. QED
    BY <2>2 DEF field, Row
<1>3. row # <<>> /\ Last(row) = Letter
  <2> DEFINE field == CsvField(w)
  <2>1. field \in Seq(Plain)
    BY FieldIsTaken
  <2>2. row = field \o <<Comma, Letter>>
    BY DEF Row
  <2> HIDE DEF field, row
  <2>3. QED
    BY <2>1, <2>2 DEF Last, Plain
<1> HIDE DEF row
<1>4. WithoutReturn(row) = row
  BY <1>3 DEF WithoutReturn, EndsInReturn, Letter, CarriageReturn
<1>5. row \in Seq(Chars) /\ text \in Seq(Chars) /\ NewLine \in Chars
  BY <1>1, PlainLine DEF Chars
<1>6. Folded("readOn", start, row) = LineState(<<>>, row)
  BY <1>1, LineIsRead
<1>7. Folded("readOn", start, text) = ReadOn(LineState(<<>>, row), NewLine)
  BY <1>5, <1>6, FoldedNext DEF FoldStep
<1>8. ReadOn(LineState(<<>>, row), NewLine) = LineState(<<row>>, <<>>)
  <2>1. ReadOn(LineState(<<>>, row), NewLine) = LineState(Append(<<>>, row), <<>>)
    BY <1>4, ReadsOn
  <2>2. Append(<<>>, row) = <<row>>
    OBVIOUS
  <2>3. QED
    BY <2>1, <2>2
<1> HIDE DEF text
<1>9. FoldLeft(ReadOn, start, text) = LineState(<<row>>, <<>>)
  <2>1. Len(text) \in Nat /\ DOMAIN text = 1..Len(text)
    BY <1>5
  <2>2. FoldLeft(ReadOn, start, text) = Folded("readOn", start, text)
    BY <2>1, ReadOnIsFolded
  <2>3. QED
    BY <1>7, <1>8, <2>2
<1>10. SplitLines(text) = <<row>>
  BY <1>9 DEF SplitLines, LineState
<1>11. FoldLeft(AddThread, <<>>, <<row>>) = AddThread(<<>>, row)
  <2>1. DOMAIN <<row>> = 1..1 /\ Len(<<row>>) = 1
    OBVIOUS
  <2>2. FoldLeft(AddThread, <<>>, <<row>>) = Folded("addThread", <<>>, <<row>>)
    BY <2>1, AddThreadIsFolded
  <2>3. Folded("addThread", <<>>, <<row>>) = FoldStep("addThread", <<>>, row)
    BY FoldedOne
  <2>4. QED
    BY <2>2, <2>3 DEF FoldStep
<1>12. AddThread(<<>>, row) = <<w>>
  <2>1. Len(<<w, <<Letter>>>>) = 2 /\ <<w, <<Letter>>>>[1] = w /\ Append(<<>>, w) = <<w>>
    OBVIOUS
  <2>2. QED
    BY <1>1, <2>1 DEF AddThread
<1>13. QED
  BY <1>2, <1>10, <1>11, <1>12 DEF ThreadNames

LEMMA TextsAreRead ==
  ASSUME report \in Report, TextsAreLines(report)
  PROVE  /\ ThreadNames(CsvField(report.name) \o <<Comma, Letter, NewLine>>) = <<report.name>>
         /\ SplitLines(FoldLeft(AddLine, <<>>, report.log)) = report.log
<1>1. report.name \in Seq(Chars) /\ report.log \in Seq(Seq(Chars))
  BY DEF Report, Text, Chars
<1>2. ASSUME NEW w \in Seq(Chars), ~HasNewLine(w)
      PROVE  w \in Seq(Plain)
  <2>1. \A i \in 1..Len(w) : w[i] \in Plain
    BY <1>2 DEF HasNewLine, Chars, Plain
  <2>2. QED
    BY <2>1
<1>3. report.name \in Seq(Plain)
  BY <1>1, <1>2 DEF TextsAreLines
<1>4. \A i \in 1..Len(report.log) : report.log[i] \in Seq(Plain) /\ ~EndsInReturn(report.log[i])
  <2>1. TAKE i \in 1..Len(report.log)
  <2>2. i \in DOMAIN report.log /\ report.log[i] \in Seq(Chars)
    BY <1>1
  <2>3. QED
    BY <1>2, <2>2 DEF TextsAreLines
<1>5. report.log \in Seq(Seq(Plain))
  <2> DEFINE L == Seq(Plain)
             M == Seq(Chars)
             log == report.log
  <2>1. log \in Seq(M) /\ \A i \in 1..Len(log) : log[i] \in L
    BY <1>1, <1>4
  <2> HIDE DEF L, M, log
  <2>2. log \in Seq(L)
    BY <2>1
  <2>3. QED
    BY <2>2 DEF L, log
<1>6. QED
  BY <1>3, <1>4, <1>5, ThreadComesBack, LogComesBack

-----------------------------------------------------------------------------
(* The file of a report: ten cells, cut after any of them.                  *)
LEMMA FlattenThree ==
  ASSUME NEW s, Len(s) = 3
  PROVE  FlattenSeq(s) = (s[1] \o s[2]) \o s[3]
<1> DEFINE F(g) == g = [i \in 1 .. 3 |-> IF i = 1 THEN s[i] ELSE g[i - 1] \o s[i]]
           h == [i \in 1 .. 3 |-> IF i = 1 THEN s[1]
                                  ELSE IF i = 2 THEN s[1] \o s[2] ELSE (s[1] \o s[2]) \o s[3]]
<1>1. F(h)
  OBVIOUS
<1> DEFINE g == CHOOSE g : F(g)
<1>2. F(g)
  <2> HIDE DEF F, h
  <2>1. QED
    BY <1>1
<1>3. FlattenSeq(s) = g[3]
  BY DEF FlattenSeq
<1> HIDE DEF g
<1>4. g[1] = s[1] /\ g[2] = g[1] \o s[2] /\ g[3] = g[2] \o s[3]
  <2>1. \A i \in 1 .. 3 : g[i] = IF i = 1 THEN s[i] ELSE g[i - 1] \o s[i]
    BY <1>2
  <2>2. 2 - 1 = 1 /\ 3 - 1 = 2
    OBVIOUS
  <2>3. g[1] = s[1] /\ g[2] = g[2 - 1] \o s[2] /\ g[3] = g[3 - 1] \o s[3]
    BY <2>1
  <2>4. QED
    BY <2>2, <2>3
<1>5. QED
  BY <1>3, <1>4

LEMMA Concatenated ==
  ASSUME NEW S, NEW s \in Seq(S), NEW t \in Seq(S)
  PROVE  /\ s \o t \in Seq(S) /\ Len(s \o t) = Len(s) + Len(t)
         /\ \A i \in 1 .. Len(s) : (s \o t)[i] = s[i]
         /\ \A i \in 1 .. Len(t) : (s \o t)[Len(s) + i] = t[i]
<1>1. /\ s \o t \in Seq(S) /\ Len(s \o t) = Len(s) + Len(t)
      /\ \A i \in 1 .. Len(s) + Len(t) :
            (s \o t)[i] = IF i <= Len(s) THEN s[i] ELSE t[i - Len(s)]
  BY ConcatProperties
<1>2. Len(s) \in Nat /\ Len(t) \in Nat
  OBVIOUS
<1>3. \A i \in 1 .. Len(s) : (s \o t)[i] = s[i]
  BY <1>1, <1>2
<1>4. ASSUME NEW i \in 1 .. Len(t)
      PROVE  (s \o t)[Len(s) + i] = t[i]
  <2>1. Len(s) + i \in 1 .. Len(s) + Len(t) /\ ~(Len(s) + i <= Len(s)) /\ (Len(s) + i) - Len(s) = i
    BY <1>2
  <2>2. QED
    BY <1>1, <2>1
<1>5. QED
  BY <1>1, <1>3, <1>4

Local == [kind |-> "local"]
Data(r, i) == [kind |-> "data", data |-> Entries(r)[i].data]
Central(r, i) == [kind |-> "central", name |-> Entries(r)[i].name, crc |-> Entries(r)[i].data,
                  offset |-> 2 * i - 1]
End == [kind |-> "end", count |-> 3, offset |-> 7]
Cells(r) == {Local, Data(r, 1), Data(r, 2), Data(r, 3), Central(r, 1), Central(r, 2),
             Central(r, 3), End}

(* An archive, cell by cell.                                                *)
LEMMA ArchiveCells ==
  ASSUME NEW r
  PROVE  /\ Archive(r) \in Seq(Cells(r)) /\ Len(Archive(r)) = 10
         /\ Archive(r)[1] = Local /\ Archive(r)[2] = Data(r, 1)
         /\ Archive(r)[3] = Local /\ Archive(r)[4] = Data(r, 2)
         /\ Archive(r)[5] = Local /\ Archive(r)[6] = Data(r, 3)
         /\ \A i \in 1 .. 3 : Archive(r)[6 + i] = Central(r, i)
         /\ Archive(r)[10] = End
<1> DEFINE E == Entries(r)
           pair(i) == <<Local, Data(r, i)>>
           pairs == [i \in DOMAIN E |-> <<[kind |-> "local"], [kind |-> "data", data |-> E[i].data]>>]
           entries == FlattenSeq(pairs)
           directory == [i \in DOMAIN E |->
                           [kind |-> "central", name |-> E[i].name, crc |-> E[i].data,
                            offset |-> 2 * i - 1]]
           end == <<[kind |-> "end", count |-> Len(E), offset |-> Len(entries) + 1]>>
<1>1. Archive(r) = (entries \o directory) \o end
  BY DEF Archive
<1>2. DOMAIN E = 1 .. 3 /\ Len(E) = 3
  BY DEF Entries
<1> HIDE DEF E
<1>3. /\ Len(pairs) = 3 /\ pairs[1] = pair(1) /\ pairs[2] = pair(2) /\ pairs[3] = pair(3)
  BY <1>2 DEF Local, Data, E
<1>4. entries = (pair(1) \o pair(2)) \o pair(3)
  <2> HIDE DEF pairs
  <2>1. QED
    BY <1>3, FlattenThree
<1> HIDE DEF entries
<1>5. \A i \in 1 .. 3 : pair(i) \in Seq(Cells(r)) /\ Len(pair(i)) = 2
                        /\ pair(i)[1] = Local /\ pair(i)[2] = Data(r, i)
  BY DEF Cells
<1> HIDE DEF pair
<1>5a. /\ pair(1) \in Seq(Cells(r)) /\ Len(pair(1)) = 2
       /\ pair(2) \in Seq(Cells(r)) /\ Len(pair(2)) = 2
       /\ pair(3) \in Seq(Cells(r)) /\ Len(pair(3)) = 2
  BY <1>5
<1>6. /\ pair(1) \o pair(2) \in Seq(Cells(r)) /\ Len(pair(1) \o pair(2)) = 4
      /\ \A i \in 1 .. 2 : (pair(1) \o pair(2))[i] = pair(1)[i]
      /\ \A i \in 1 .. 2 : (pair(1) \o pair(2))[2 + i] = pair(2)[i]
  <2>1. /\ pair(1) \o pair(2) \in Seq(Cells(r))
        /\ Len(pair(1) \o pair(2)) = Len(pair(1)) + Len(pair(2))
        /\ \A i \in 1 .. Len(pair(1)) : (pair(1) \o pair(2))[i] = pair(1)[i]
        /\ \A i \in 1 .. Len(pair(2)) : (pair(1) \o pair(2))[Len(pair(1)) + i] = pair(2)[i]
    BY <1>5a, Concatenated
  <2>2. QED
    BY <1>5a, <2>1
<1>7. /\ entries \in Seq(Cells(r)) /\ Len(entries) = 6
      /\ \A i \in 1 .. 4 : entries[i] = (pair(1) \o pair(2))[i]
      /\ \A i \in 1 .. 2 : entries[4 + i] = pair(3)[i]
  <2>1. /\ entries \in Seq(Cells(r)) /\ Len(entries) = Len(pair(1) \o pair(2)) + Len(pair(3))
        /\ \A i \in 1 .. Len(pair(1) \o pair(2)) : entries[i] = (pair(1) \o pair(2))[i]
        /\ \A i \in 1 .. Len(pair(3)) : entries[Len(pair(1) \o pair(2)) + i] = pair(3)[i]
    BY <1>4, <1>5a, <1>6, Concatenated
  <2>2. QED
    BY <1>4, <1>5a, <1>6, <2>1
<1>8. /\ directory \in Seq(Cells(r)) /\ Len(directory) = 3
      /\ \A i \in 1 .. 3 : directory[i] = Central(r, i)
  <2>1. directory = [i \in 1 .. 3 |-> Central(r, i)]
    BY <1>2 DEF Central, E
  <2>2. Central(r, 1) \in Cells(r) /\ Central(r, 2) \in Cells(r) /\ Central(r, 3) \in Cells(r)
    BY DEF Cells
  <2> HIDE DEF directory
  <2>3. directory = <<Central(r, 1), Central(r, 2), Central(r, 3)>>
    BY <2>1
  <2>4. directory \in Seq(Cells(r)) /\ Len(directory) = 3
    BY <2>2, <2>3
  <2>5. \A i \in 1 .. 3 : directory[i] = Central(r, i)
    BY <2>1
  <2>6. QED
    BY <2>4, <2>5
<1> HIDE DEF directory
<1>9. end = <<End>> /\ end \in Seq(Cells(r)) /\ Len(end) = 1 /\ end[1] = End
  BY <1>2, <1>7 DEF End, Cells
<1> HIDE DEF end
<1>10. /\ entries \o directory \in Seq(Cells(r)) /\ Len(entries \o directory) = 9
       /\ \A i \in 1 .. 6 : (entries \o directory)[i] = entries[i]
       /\ \A i \in 1 .. 3 : (entries \o directory)[6 + i] = directory[i]
  <2>1. /\ entries \o directory \in Seq(Cells(r)) /\ Len(entries \o directory) = Len(entries) + Len(directory)
        /\ \A i \in 1 .. Len(entries) : (entries \o directory)[i] = entries[i]
        /\ \A i \in 1 .. Len(directory) : (entries \o directory)[Len(entries) + i] = directory[i]
    <3>1. entries \in Seq(Cells(r)) /\ directory \in Seq(Cells(r))
      BY <1>7, <1>8
    <3>2. QED
      BY ONLY <3>1, Concatenated
  <2>2. Len(entries) = 6 /\ Len(directory) = 3
    BY <1>7, <1>8
  <2>3. QED
    BY <2>1, <2>2
<1>11. /\ Archive(r) \in Seq(Cells(r)) /\ Len(Archive(r)) = 10
       /\ \A i \in 1 .. 9 : Archive(r)[i] = (entries \o directory)[i]
       /\ Archive(r)[9 + 1] = end[1]
  <2> DEFINE s == entries \o directory
  <2>1. s \in Seq(Cells(r)) /\ end \in Seq(Cells(r)) /\ Len(s) = 9 /\ Len(end) = 1
    BY <1>9, <1>10
  <2> HIDE DEF s
  <2>2. /\ s \o end \in Seq(Cells(r)) /\ Len(s \o end) = Len(s) + Len(end)
        /\ \A i \in 1 .. Len(s) : (s \o end)[i] = s[i]
        /\ \A i \in 1 .. Len(end) : (s \o end)[Len(s) + i] = end[i]
    <3>1. s \in Seq(Cells(r)) /\ end \in Seq(Cells(r))
      BY <2>1
    <3>2. QED
      BY ONLY <3>1, Concatenated
  <2>3. /\ s \o end \in Seq(Cells(r)) /\ Len(s \o end) = 10
        /\ \A i \in 1 .. 9 : (s \o end)[i] = s[i]
        /\ (s \o end)[9 + 1] = end[1]
    BY <2>1, <2>2
  <2>4. Archive(r) = s \o end
    BY <1>1 DEF s
  <2>5. QED
    BY <2>3, <2>4, Zenon DEF s
<1>12. \A i \in 1 .. 6 : Archive(r)[i] = entries[i]
  <2> TAKE i \in 1 .. 6
  <2>1. i \in 1 .. 9
    OBVIOUS
  <2>2. QED
    BY <1>10, <1>11, <2>1
<1>13. \A i \in 1 .. 3 : Archive(r)[6 + i] = directory[i]
  <2> TAKE i \in 1 .. 3
  <2>1. 6 + i \in 1 .. 9
    OBVIOUS
  <2>2. QED
    BY <1>10, <1>11, <2>1
<1>14. Archive(r)[10] = End
  <2>1. 9 + 1 = 10
    OBVIOUS
  <2>2. QED
    BY <1>9, <1>11, <2>1
<1>15. /\ entries[1] = Local /\ entries[2] = Data(r, 1) /\ entries[3] = Local /\ entries[4] = Data(r, 2)
       /\ entries[5] = Local /\ entries[6] = Data(r, 3)
  <2> DEFINE front == pair(1) \o pair(2)
  <2>1. front[1] = pair(1)[1] /\ front[2] = pair(1)[2] /\ front[2 + 1] = pair(2)[1]
        /\ front[2 + 2] = pair(2)[2]
    BY <1>6
  <2> HIDE DEF front
  <2>2. \A i \in 1 .. 4 : entries[i] = front[i]
    BY <1>7 DEF front
  <2>3. entries[4 + 1] = pair(3)[1] /\ entries[4 + 2] = pair(3)[2]
    BY <1>7
  <2>4. QED
    BY <1>5, <2>1, <2>2, <2>3
<1>16. QED
  BY <1>8, <1>11, <1>12, <1>13, <1>14, <1>15

-----------------------------------------------------------------------------
(* What is in the file is the beginning of the report's archive; what is    *)
(* still to be written, unless it was cut off, is the rest of it; and what  *)
(* was read is what ReadReport makes of the file.                           *)
Begun(n) ==
  /\ file = SubSeq(Archive(report), 1, n)
  /\ pending \in {<<>>, SubSeq(Archive(report), n + 1, 10)}

FileInv ==
  /\ writings \in Nat /\ report \in Report
  /\ IF writings = 0 THEN pending = <<>> ELSE \E n \in 0 .. 10 : Begun(n)
  /\ read = NothingRead \/ (pending = <<>> /\ writings > 0 /\ ReadBackWholeOrRefused)

LEMMA ReadingIsSound ==
  ASSUME NEW n \in 0 .. 10, file = SubSeq(Archive(report), 1, n)
  PROVE  /\ file = Archive(report) <=> n = 10
         /\ ArchiveIsSound <=> n = 10
         /\ n = 10 => \A k \in 1 .. 3 : DataOf(Entries(report)[k].name) = Entries(report)[k].data
<1> DEFINE A == Archive(report)
<1>1. A \in Seq(Cells(report)) /\ Len(A) = 10 /\ \A i \in 1 .. 10 : A[i] \in Cells(report)
  BY ArchiveCells, ElementOfSeq
<1>2. Len(file) = n /\ DOMAIN file = 1 .. n /\ \A i \in 1 .. n : file[i] = A[i]
  <2> HIDE DEF A
  <2>1. \A i \in 1 .. n : A[i] \in Cells(report)
    BY <1>1
  <2>2. /\ SubSeq(A, 1, n) \in Seq(Cells(report))
        /\ Len(SubSeq(A, 1, n)) = IF 1 <= n THEN n - 1 + 1 ELSE 0
        /\ \A i \in 1 .. n - 1 + 1 : SubSeq(A, 1, n)[i] = A[1 + i - 1]
    BY <2>1, SubSeqProperties
  <2>3. file = SubSeq(A, 1, n)
    BY DEF A
  <2>4. QED
    BY <2>2, <2>3, LenProperties
<1>3. /\ \A i \in 1 .. 9 : A[i].kind # "end"
      /\ A[10].kind = "end" /\ A[10].count = 3 /\ A[10].offset = 7
  <2>1. A[10] = End
    BY ArchiveCells
  <2>2. \A i \in 7 .. 9 : A[i] = Central(report, i - 6)
    <3>1. \A i \in 1 .. 3 : A[6 + i] = Central(report, i)
      BY ArchiveCells
    <3>2. TAKE i \in 7 .. 9
    <3>3. i - 6 \in 1 .. 3 /\ 6 + (i - 6) = i
      OBVIOUS
    <3>4. QED
      BY <3>1, <3>3
  <2>3. \A i \in 1 .. 6 : A[i] \in {Local, Data(report, 1), Data(report, 2), Data(report, 3)}
    BY ArchiveCells
  <2> HIDE DEF A
  <2>4. QED
    BY <2>1, <2>2, <2>3 DEF End, Central, Local, Data
<1>4. EndRecords = IF n = 10 THEN {10} ELSE {}
  <2> HIDE DEF A
  <2>1. QED
    BY <1>2, <1>3 DEF EndRecords
<1>5. ASSUME n = 10
      PROVE  /\ ArchiveIsSound /\ file = A
             /\ \A k \in 1 .. 3 : DataOf(Entries(report)[k].name) = Entries(report)[k].data
  <2>1. file = A
    BY <1>1, <1>5, SubSeqFull
  <2>2. /\ A[1] = Local /\ A[2] = Data(report, 1) /\ A[3] = Local /\ A[4] = Data(report, 2)
        /\ A[5] = Local /\ A[6] = Data(report, 3) /\ A[7] = Central(report, 1)
        /\ A[8] = Central(report, 2) /\ A[9] = Central(report, 3) /\ A[10] = End
    <3>1. \A i \in 1 .. 3 : A[6 + i] = Central(report, i)
      BY ArchiveCells
    <3>2. A[6 + 1] = Central(report, 1) /\ A[6 + 2] = Central(report, 2) /\ A[6 + 3] = Central(report, 3)
      BY <3>1
    <3>3. QED
      BY <3>2, ArchiveCells
  <2> HIDE DEF A
  <2>3. DOMAIN A = 1 .. 10
    BY <1>1, LenProperties
  <2>4. Max(EndRecords) = 10
    BY <1>4, <1>5 DEF Max
  <2>5. ArchiveIsSound
    <3>1. \A i \in 0 .. 2 :
          /\ 7 + i \in DOMAIN A /\ A[7 + i].kind = "central"
          /\ A[7 + i].offset \in DOMAIN A /\ A[A[7 + i].offset].kind = "local"
          /\ A[7 + i].offset + 1 \in DOMAIN A /\ A[A[7 + i].offset + 1].kind = "data"
          /\ A[A[7 + i].offset + 1].data = A[7 + i].crc
      BY <2>2, <2>3 DEF Local, Data, Central
    <3>2. EndRecords # {} /\ file[Max(EndRecords)].count - 1 = 2
          /\ file[Max(EndRecords)].offset = 7
      BY <1>3, <1>4, <1>5, <2>1, <2>4
    <3>3. QED
      BY <2>1, <3>1, <3>2 DEF ArchiveIsSound
  <2>6. ASSUME NEW k \in 1 .. 3
        PROVE  DataOf(Entries(report)[k].name) = Entries(report)[k].data
    <3> DEFINE name == Entries(report)[k].name
               directory == {i \in DOMAIN file : file[i].kind = "central" /\ file[i].name = name}
    <3>1. directory = {6 + k}
      <4>1. /\ A[7].kind = "central" /\ A[8].kind = "central" /\ A[9].kind = "central"
            /\ A[7].name = Entries(report)[1].name /\ A[8].name = Entries(report)[2].name
            /\ A[9].name = Entries(report)[3].name
        BY <2>2 DEF Central
      <4>2. \A i \in {1, 2, 3, 4, 5, 6, 10} : A[i].kind # "central"
        BY <2>2 DEF Local, Data, End
      <4>3. /\ Entries(report)[1].name = "report.json" /\ Entries(report)[2].name = "threads.csv"
            /\ Entries(report)[3].name = "runtime.log"
        BY DEF Entries
      <4>4. DOMAIN file = 1 .. 10
        BY <2>1, <2>3
      <4>5. \A i \in 1 .. 10 : file[i] = A[i]
        BY <2>1
      <4>6. \A i \in directory : i = 6 + k
        <5>1. SUFFICES ASSUME NEW i \in 1 .. 10, A[i].kind = "central", A[i].name = name
                       PROVE  i = 6 + k
          BY <4>4, <4>5
        <5>2. i \in {7, 8, 9}
          BY <4>2, <5>1
        <5>3. QED
          BY <4>1, <4>3, <5>1, <5>2
      <4>7. 6 + k \in directory
        <5>1. 6 + k \in 1 .. 10 /\ A[6 + k].kind = "central" /\ A[6 + k].name = name
          BY <4>1, <4>3
        <5>2. QED
          BY <4>4, <4>5, <5>1
      <4>8. QED
        BY <4>6, <4>7
    <3>2. (CHOOSE i \in directory : TRUE) = 6 + k
      BY <3>1
    <3>3. DataOf(name) = file[file[6 + k].offset + 1].data
      BY <3>2 DEF DataOf
    <3>4. A[6 + k].offset = 2 * k - 1 /\ A[2 * k].data = Entries(report)[k].data
      BY <2>2 DEF Central, Data
    <3>5. (2 * k - 1) + 1 = 2 * k
      OBVIOUS
    <3>6. QED
      BY <2>1, <3>3, <3>4, <3>5
  <2>7. QED
    BY <2>1, <2>5, <2>6
<1>6. n # 10 => file # A /\ ~ArchiveIsSound
  BY <1>1, <1>2, <1>4 DEF ArchiveIsSound
<1>7. QED
  BY <1>5, <1>6

LEMMA FileStarts == FileInit => FileInv
<1>1. NoReport \in Report
  BY DEF NoReport, Report, Text
<1>2. QED
  BY <1>1 DEF FileInit, FileInv

LEMMA WritingKeeps ==
  ASSUME FileInv, (\E r \in Reports : StartWriting(r)) \/ WriteCell \/ Interrupt
  PROVE  FileInv'
<1>1. ASSUME NEW r \in Reports, StartWriting(r)
      PROVE  FileInv'
  <2>1. Archive(r) \in Seq(Cells(r)) /\ Len(Archive(r)) = 10
    BY ArchiveCells
  <2>2. SubSeq(Archive(r), 1, 0) = <<>>
    BY SubSeqEmpty
  <2>3. SubSeq(Archive(r), 0 + 1, 10) = Archive(r)
    BY <2>1, SubSeqFull
  <2>4. /\ file' = <<>> /\ pending' = Archive(r) /\ report' = r /\ writings' = writings + 1
        /\ read' = NothingRead
    BY <1>1 DEF StartWriting
  <2>5. Begun(0)'
    BY <2>2, <2>3, <2>4 DEF Begun
  <2>6. report' \in Report
    BY <2>4, ReportsAssumption
  <2>7. QED
    BY <2>4, <2>5, <2>6 DEF FileInv
<1>2. ASSUME WriteCell
      PROVE  FileInv'
  <2> DEFINE A == Archive(report)
  <2>1. /\ pending # <<>> /\ file' = Append(file, Head(pending)) /\ pending' = Tail(pending)
        /\ report' = report /\ writings' = writings /\ read' = read
    BY <1>2 DEF WriteCell
  <2>2. PICK n \in 0 .. 10 : Begun(n)
    BY <2>1 DEF FileInv
  <2>3. A \in Seq(Cells(report)) /\ Len(A) = 10
    BY ArchiveCells
  <2>4. n # 10
    <3>1. SubSeq(A, 10 + 1, 10) = <<>>
      BY SubSeqEmpty
    <3>2. QED
      BY <2>1, <2>2, <3>1 DEF Begun
  <2>5. pending = SubSeq(A, n + 1, 10) /\ file = SubSeq(A, 1, n)
    BY <2>1, <2>2 DEF Begun
  <2> HIDE DEF A
  <2>6. n + 1 \in 1 .. Len(A) /\ 10 \in n + 1 .. Len(A)
    BY <2>3, <2>4
  <2>7. Head(pending) = A[n + 1] /\ Tail(pending) = SubSeq(A, n + 1 + 1, 10)
    BY <2>3, <2>5, <2>6, HeadTailOfSubSeq
  <2>8. Append(file, A[n + 1]) = SubSeq(A, 1, n + 1)
    <3>1. SubSeq(A, 1, n + 1) = SubSeq(A, 1, (n + 1) - 1) \o <<A[n + 1]>>
      <4>1. 1 \in 1 .. Len(A) /\ n + 1 \in 1 .. Len(A)
        BY <2>3, <2>6
      <4>2. QED
        BY <2>3, <4>1, SubSeqRecursiveSecond
    <3>2. (n + 1) - 1 = n
      OBVIOUS
    <3>3. A[n + 1] \in Cells(report)
      BY <2>3, <2>6, ElementOfSeq
    <3>4. SubSeq(A, 1, n) \in Seq(Cells(report))
      <4>1. \A i \in 1 .. n : A[i] \in Cells(report)
        <5>1. TAKE i \in 1 .. n
        <5>2. i \in 1 .. Len(A)
          BY <2>1, <2>3
        <5>3. QED
          BY <2>3, <5>2, ElementOfSeq
      <4>2. QED
        BY <4>1, SubSeqProperties
    <3>5. Append(SubSeq(A, 1, n), A[n + 1]) = SubSeq(A, 1, n) \o <<A[n + 1]>>
      BY <3>3, <3>4, AppendIsConcat
    <3>6. QED
      BY <2>5, <3>1, <3>2, <3>5
  <2>9. Begun(n + 1)'
    BY <2>1, <2>7, <2>8 DEF Begun, A
  <2>10. QED
    <3>1. writings # 0 /\ writings \in Nat /\ read = NothingRead
      BY <2>1 DEF FileInv
    <3>2. n + 1 \in 0 .. 10
      BY <2>4
    <3>3. QED
      BY <2>1, <2>9, <3>1, <3>2 DEF FileInv
<1>3. ASSUME Interrupt
      PROVE  FileInv'
  BY <1>3 DEF Interrupt, FileInv, Begun
<1>4. QED
  BY <1>1, <1>2, <1>3

LEMMA ReadingKeeps ==
  ASSUME FileInv, ReadReport
  PROVE  FileInv'
<1>1. /\ pending = <<>> /\ writings > 0
      /\ UNCHANGED <<file, pending, report, writings>>
  BY DEF ReadReport
<1>2. PICK n \in 0 .. 10 : Begun(n)
  BY <1>1 DEF FileInv
<1>3. /\ file = Archive(report) <=> n = 10
      /\ ArchiveIsSound <=> n = 10
      /\ n = 10 => \A k \in 1 .. 3 : DataOf(Entries(report)[k].name) = Entries(report)[k].data
  BY <1>2, ReadingIsSound DEF Begun
<1>4. ASSUME n = 10
      PROVE  /\ DataOf("report.json").schema = report.schema
             /\ DataOf("threads.csv").text = CsvField(report.name) \o <<Comma, Letter, NewLine>>
             /\ DataOf("runtime.log").text = FoldLeft(AddLine, <<>>, report.log)
  <2>1. \A k \in 1 .. 3 : DataOf(Entries(report)[k].name) = Entries(report)[k].data
    BY <1>3, <1>4
  <2>2. /\ Entries(report)[1].name = "report.json" /\ Entries(report)[2].name = "threads.csv"
        /\ Entries(report)[3].name = "runtime.log"
        /\ Entries(report)[1].data.schema = report.schema
        /\ Entries(report)[2].data.text = CsvField(report.name) \o <<Comma, Letter, NewLine>>
        /\ Entries(report)[3].data.text = FoldLeft(AddLine, <<>>, report.log)
    BY DEF Entries
  <2>3. 1 \in 1 .. 3 /\ 2 \in 1 .. 3 /\ 3 \in 1 .. 3
    OBVIOUS
  <2>4. QED
    BY <2>1, <2>2, <2>3
<1> DEFINE refuses == \/ ~ArchiveIsSound \/ DataOf("report.json").schema <= 0
                      \/ DataOf("report.json").schema > SchemaVersion
<1>5. /\ refuses => read'.status = "refused"
      /\ ~refuses =>
           read' = [status |-> "ok",
                    report |-> [schema |-> DataOf("report.json").schema,
                                names |-> ThreadNames(DataOf("threads.csv").text),
                                log |-> SplitLines(DataOf("runtime.log").text)]]
  BY DEF ReadReport, Refused
<1>6. Known <=> ~refuses
  <2>1. CASE n # 10
    BY <1>3, <2>1 DEF Known
  <2>2. CASE n = 10
    BY <1>3, <1>4, <2>2, SchemaAssumption DEF Known, FileInv, Report
  <2>3. QED
    BY <2>1, <2>2
<1>7. Known' <=> Known
  BY <1>1 DEF Known
<1>8. RefusedUnlessWhole'
  BY <1>5, <1>6, <1>7 DEF RefusedUnlessWhole
<1>9. TextsComeBack'
  <2> SUFFICES ASSUME read'.status = "ok", TextsAreLines(report)
               PROVE  read'.report = [schema |-> report.schema, names |-> <<report.name>>,
                                      log |-> report.log]
    BY <1>1 DEF TextsComeBack
  <2>1. n = 10 /\ ~refuses
    BY <1>3, <1>5
  <2>2. /\ ThreadNames(CsvField(report.name) \o <<Comma, Letter, NewLine>>) = <<report.name>>
        /\ SplitLines(FoldLeft(AddLine, <<>>, report.log)) = report.log
    BY TextsAreRead DEF FileInv
  <2>3. read'.report = [schema |-> DataOf("report.json").schema,
                        names |-> ThreadNames(DataOf("threads.csv").text),
                        log |-> SplitLines(DataOf("runtime.log").text)]
    BY <1>5, <2>1
  <2>4. /\ DataOf("report.json").schema = report.schema
        /\ ThreadNames(DataOf("threads.csv").text) = <<report.name>>
        /\ SplitLines(DataOf("runtime.log").text) = report.log
    BY <1>4, <2>1, <2>2, Zenon
  <2>5. QED
    BY <2>3, <2>4, Zenon
<1>10. QED
  BY <1>1, <1>8, <1>9 DEF FileInv, Begun, ReadBackWholeOrRefused

LEMMA FileKeeps ==
  ASSUME FileInv, [FileNext]_fileVars
  PROVE  FileInv'
<1>1. CASE UNCHANGED fileVars
  <2>1. ReadBackWholeOrRefused' <=> ReadBackWholeOrRefused
    BY <1>1 DEF fileVars, ReadBackWholeOrRefused, RefusedUnlessWhole, TextsComeBack, Known
  <2>2. QED
    BY <1>1, <2>1 DEF fileVars, FileInv, Begun
<1>2. QED
  BY <1>1, WritingKeeps, ReadingKeeps DEF FileNext

(* A report that was cut short anywhere, or has a schema the reader does    *)
(* not know, is refused, and every other one is read as it was written, up  *)
(* to the newlines and ends of lines the format does not keep: for any      *)
(* report, and any number of them written over each other.                  *)
THEOREM ReportsComeBack == FileSpec => []ReadBackWholeOrRefused
<1>1. FileInv /\ [FileNext]_fileVars => FileInv'
  BY FileKeeps
<1>2. FileInv => ReadBackWholeOrRefused
  BY DEF FileInv, ReadBackWholeOrRefused, RefusedUnlessWhole, TextsComeBack, NothingRead
<1>3. QED
  BY <1>1, <1>2, FileStarts, PTL DEF FileSpec

-----------------------------------------------------------------------------
(* A run of the diagnostics is one of each part, which moves or rests.      *)
THEOREM DiagnosticsImplementItsParts ==
  DiagnosticsSpec => Spec /\ CaptureSpec /\ FileSpec
<1>1. DiagnosticsInit => Init /\ CaptureInit /\ FileInit
  BY DEF DiagnosticsInit
<1>2. ASSUME [DiagnosticsNext]_diagnosticsVars
      PROVE  [Next]_vars /\ [CaptureNext]_captureSideVars /\ [FileNext]_fileVars
  <2>1. CASE UNCHANGED diagnosticsVars
    BY <2>1 DEF diagnosticsVars
  <2>2. CASE DiagnosticsNext
    BY <2>2 DEF DiagnosticsNext
  <2>3. QED
    BY <1>2, <2>1, <2>2
<1>3. QED
  BY <1>1, <1>2, PTL DEF DiagnosticsSpec, Spec, CaptureSpec, FileSpec

(* Until something is analyzed, there is no verdict.                        *)
StageInv == (stage = "analyze" /\ AnalyzerInv) \/ (stage # "analyze" /\ verdict = Unmeasured)

(* What the run of the diagnostics checks, for every number of threads that *)
(* accumulators are left for, every ring, time limit, telemetry and report: *)
(* the counts are their owner's, the frames add up, each capture has one    *)
(* report, the history no gap and a profile at most one sample too many, a  *)
(* verdict blames no more than it shows, and a report is read back whole or *)
(* refused.                                                                 *)
THEOREM DiagnosticsAreSound ==
  ASSUME RoomForAll
  PROVE  DiagnosticsSpec => [](/\ CountsOfOwner /\ FramesAddUp
                               /\ OneReportPerCapture /\ BuffersHoldTheirOwn
                               /\ VerdictFollowsTheEvidence /\ ReadBackWholeOrRefused)
<1>1. DiagnosticsInit => StageInv
  BY AnalyzerStarts DEF DiagnosticsInit, StageInv
<1>2. ASSUME StageInv, [DiagnosticsNext]_diagnosticsVars
      PROVE  StageInv'
  <2>1. CASE stage = "analyze" /\ Analyze /\ UNCHANGED stage
    <3>1. AnalyzerInv'
      BY <1>2, <2>1, AnalyzerKeeps DEF StageInv
    <3>2. QED
      BY <2>1, <3>1 DEF StageInv
  <2>2. CASE UNCHANGED <<analyzerVars, stage>>
    BY <1>2, <2>2 DEF StageInv, AnalyzerInv, analyzerVars
  <2>3. QED
    BY <1>2, <2>1, <2>2 DEF DiagnosticsNext, diagnosticsVars
<1>3. StageInv => VerdictFollowsTheEvidence
  BY VerdictFollows DEF StageInv, VerdictFollowsTheEvidence, Analyzed
<1>4. DiagnosticsSpec => []VerdictFollowsTheEvidence
  BY <1>1, <1>2, <1>3, PTL DEF DiagnosticsSpec
<1>5. QED
  BY <1>4, DiagnosticsImplementItsParts, OwnersCountsAreKept, FramesAreAddedUp,
     CapturesAreWrittenOnce, BuffersAreTheirOwn, ReportsComeBack, PTL
=============================================================================
