-------------------------- MODULE ModDispatchProofs -------------------------
(***************************************************************************)
(* For every guest program, whatever its depth and the size of the buffer: *)
(* Dispatch's pending returns follow the guest's stack.                    *)
(***************************************************************************)
EXTENDS ModDispatch, FiniteSetTheorems, SequenceTheorems, TLAPS

LEMMA AllButFacts ==
  ASSUME NEW S, NEW s \in Seq(S), s # <<>>
  PROVE  /\ AllBut(s) \in Seq(S)
         /\ Len(AllBut(s)) = Len(s) - 1
         /\ \A i \in 1 .. Len(s) - 1 : AllBut(s)[i] = s[i]
<1> DEFINE n == Len(s) - 1
<1>1. n \in Nat /\ n + 1 = Len(s) BY EmptySeq
<1>2. \A i \in 1 .. n : s[i] \in S BY <1>1, ElementOfSeq
<1> HIDE DEF n
<1>3. /\ SubSeq(s, 1, n) \in Seq(S)
      /\ Len(SubSeq(s, 1, n)) = IF 1 <= n THEN n - 1 + 1 ELSE 0
      /\ \A i \in 1 .. n - 1 + 1 : SubSeq(s, 1, n)[i] = s[1 + i - 1]
  BY <1>1, <1>2, SubSeqProperties
<1>4. Len(SubSeq(s, 1, n)) = n
  BY <1>1, <1>3
<1>5. ASSUME NEW i \in 1 .. n PROVE SubSeq(s, 1, n)[i] = s[i]
  <2>1. n - 1 + 1 = n /\ 1 + i - 1 = i BY <1>1
  <2> QED BY <1>3, <2>1
<1> QED BY <1>3, <1>4, <1>5 DEF AllBut, n

LEMMA TailFacts ==
  ASSUME NEW S, NEW s \in Seq(S), s # <<>>
  PROVE  /\ Tail(s) \in Seq(S)
         /\ Len(Tail(s)) = Len(s) - 1
         /\ \A i \in 1 .. Len(s) - 1 : Tail(s)[i] = s[i + 1]
OBVIOUS

LEMMA AppendFacts ==
  ASSUME NEW S, NEW s \in Seq(S), NEW e \in S
  PROVE  /\ Append(s, e) \in Seq(S)
         /\ Len(Append(s, e)) = Len(s) + 1
         /\ \A i \in 1 .. Len(s) : Append(s, e)[i] = s[i]
         /\ Append(s, e)[Len(s) + 1] = e
OBVIOUS

(* Dropping the oldest pending return keeps the others in step.            *)
LEMMA TailFollows ==
  ASSUME NEW returns \in Seq(PendingReturn), returns # <<>>,
         NEW frames, Follows(returns, frames)
  PROVE  Follows(Tail(returns), frames)
<1>1. /\ Len(Tail(returns)) = Len(returns) - 1
      /\ \A i \in 1 .. Len(returns) - 1 : Tail(returns)[i] = returns[i + 1]
  BY TailFacts
<1>2. Len(returns) \in Nat \ {0} OBVIOUS
<1>3. \A i \in 1 .. Len(returns) : FrameOf(returns[i]) \in Nat
  <2> TAKE i \in 1 .. Len(returns)
  <2>1. returns[i] \in PendingReturn BY ElementOfSeq
  <2> QED BY <2>1 DEF FrameOf, PendingReturn
<1>4. ASSUME Tail(returns) # <<>>, NEW k \in HookedFrames(frames),
             FrameOf(Tail(returns)[1]) <= k
      PROVE  \E i \in 1 .. Len(Tail(returns)) : FrameOf(Tail(returns)[i]) = k
  <2>1. Len(returns) >= 2
    BY <1>1, <1>2, <1>4
  <2>2. FrameOf(returns[1]) < FrameOf(returns[2]) /\ FrameOf(returns[2]) <= k
    BY <1>1, <1>2, <1>4, <2>1 DEF Follows
  <2>3. k \in Int BY DEF HookedFrames
  <2>4. PICK i \in 1 .. Len(returns) : FrameOf(returns[i]) = k
    BY <1>2, <1>3, <2>1, <2>2, <2>3 DEF Follows
  <2>5. i # 1 BY <1>3, <2>1, <2>2, <2>4
  <2>6. i - 1 \in 1 .. Len(returns) - 1 /\ Tail(returns)[i - 1] = returns[i]
    BY <1>1, <1>2, <2>4, <2>5
  <2> QED BY <1>1, <2>4, <2>6
<1>5. \A i \in 1 .. Len(Tail(returns)) :
        i + 1 \in 1 .. Len(returns) /\ Tail(returns)[i] = returns[i + 1]
  BY <1>1, <1>2
<1>6. \A i, j \in 1 .. Len(Tail(returns)) :
        i < j => FrameOf(Tail(returns)[i]) < FrameOf(Tail(returns)[j])
  BY <1>2, <1>5 DEF Follows
<1> QED BY <1>4, <1>5, <1>6 DEF Follows

(* A new innermost hooked frame, and a pending return of it at the end.    *)
LEMMA PushFollows ==
  ASSUME NEW returns \in Seq(PendingReturn), NEW frames, NEW frames2 \in Seq(Frame),
         NEW n \in 1 .. Len(frames2),
         Follows(returns, frames),
         HookedFrames(frames2) = HookedFrames(frames) \cup {n},
         \A k \in HookedFrames(frames) : k < n /\ frames2[k].site = frames[k].site
  PROVE  Follows(Append(returns, [address |-> frames2[n].site, stack_pointer |-> n - 1]),
                 frames2)
<1> DEFINE last == [address |-> frames2[n].site, stack_pointer |-> n - 1]
           more == Append(returns, last)
<1>1. n \in Nat \ {0} /\ Len(returns) \in Nat
  OBVIOUS
<1>2. last \in PendingReturn /\ FrameOf(last) = n
  <2>1. frames2[n] \in Frame BY ElementOfSeq
  <2>2. frames2[n].site \in Sites BY <2>1 DEF Frame
  <2> QED BY <1>1, <2>2 DEF PendingReturn, FrameOf
<1>3. /\ Len(more) = Len(returns) + 1
      /\ \A i \in 1 .. Len(returns) : more[i] = returns[i]
      /\ more[Len(returns) + 1] = last
  BY <1>2, AppendFacts
<1>4. \A i \in 1 .. Len(returns) :
        /\ FrameOf(more[i]) \in HookedFrames(frames)
        /\ FrameOf(more[i]) < n
        /\ more[i].address = frames[FrameOf(more[i])].site
  BY <1>3 DEF Follows
<1>5. \A i \in 1 .. Len(more) :
        /\ FrameOf(more[i]) \in HookedFrames(frames2)
        /\ more[i].address = frames2[FrameOf(more[i])].site
  <2> TAKE i \in 1 .. Len(more)
  <2>1. CASE i \in 1 .. Len(returns)
    BY <1>4, <2>1
  <2>2. CASE i = Len(returns) + 1
    BY <1>2, <1>3, <2>2
  <2> QED BY <1>1, <1>3, <2>1, <2>2
<1>6. \A i, j \in 1 .. Len(more) : i < j => FrameOf(more[i]) < FrameOf(more[j])
  <2> TAKE i, j \in 1 .. Len(more)
  <2> HAVE i < j
  <2>1. CASE j \in 1 .. Len(returns)
    BY <1>1, <1>3, <2>1 DEF Follows
  <2>2. CASE j = Len(returns) + 1
    <3>1. i \in 1 .. Len(returns) BY <1>1, <2>2
    <3>2. FrameOf(more[i]) < n BY <1>4, <3>1
    <3>3. FrameOf(more[j]) = n BY <1>2, <1>3, <2>2
    <3> QED BY <3>2, <3>3
  <2>3. j \in 1 .. Len(returns) \/ j = Len(returns) + 1
    <3> HIDE DEF more
    <3> QED BY <1>1, <1>3
  <2> QED BY <2>1, <2>2, <2>3
<1>7. ASSUME NEW k \in HookedFrames(frames2), FrameOf(more[1]) <= k
      PROVE  \E i \in 1 .. Len(more) : FrameOf(more[i]) = k
  <2>1. CASE k = n
    BY <1>1, <1>2, <1>3, <2>1
  <2>2. CASE k \in HookedFrames(frames)
    <3>1. k < n BY <2>2
    <3>2. returns # <<>>
      BY <1>1, <1>2, <1>3, <1>7, <3>1 DEF HookedFrames
    <3>3. more[1] = returns[1]
      BY <1>1, <1>3, <3>2
    <3>4. PICK i \in 1 .. Len(returns) : FrameOf(returns[i]) = k
      BY <1>7, <2>2, <3>2, <3>3 DEF Follows
    <3> QED BY <1>1, <1>3, <3>4
  <2> QED BY <2>1, <2>2
<1> QED BY <1>5, <1>6, <1>7 DEF Follows

(* Follows looks only at which frames are hooked and where they return to. *)
LEMMA SameHookedFollows ==
  ASSUME NEW returns, NEW frames, NEW frames2, Follows(returns, frames),
         HookedFrames(frames2) = HookedFrames(frames),
         \A k \in HookedFrames(frames) : frames2[k].site = frames[k].site
  PROVE  Follows(returns, frames2)
BY DEF Follows

-----------------------------------------------------------------------------
IInv == TypeOK /\ PendingFollowsTheStack

LEMMA InitIInv == Init => IInv
<1> SUFFICES ASSUME Init PROVE IInv OBVIOUS
<1>1. stack = <<>> /\ pending = <<>> /\ deepest = 0 BY DEF Init
<1>2. Len(stack) = 0 /\ Len(pending) = 0 BY <1>1
<1>3. TypeOK
  BY <1>1, <1>2, BoundsAssumption DEF TypeOK
<1>4. PendingFollowsTheStack
  BY <1>1, <1>2 DEF PendingFollowsTheStack, Follows
<1> QED BY <1>3, <1>4 DEF IInv

(* The entry of a function is no return address, so nothing is taken off.  *)
LEMMA NothingToPop ==
  ASSUME TypeOK, NEW function \in Functions, NEW sp
  PROVE  PopReturn(function, sp) = pending
<1>1. function \notin Sites BY FunctionsAssumption
<1>2. pending # <<>> => pending[Len(pending)].address \in Sites
  <2> SUFFICES ASSUME pending # <<>> PROVE pending[Len(pending)].address \in Sites OBVIOUS
  <2>1. pending \in Seq(PendingReturn) BY DEF TypeOK
  <2>2. Len(pending) \in Nat \ {0} BY <2>1, EmptySeq
  <2>3. pending[Len(pending)] \in PendingReturn BY <2>1, <2>2, ElementOfSeq
  <2> QED BY <2>3 DEF PendingReturn
<1> QED BY <1>1, <1>2 DEF PopReturn

(* What a hooked entry leaves in pending_returns, when the frames it leaves *)
(* the guest with have one more hooked frame, the innermost.               *)
LEMMA PushedKeepsStep ==
  ASSUME IInv, NEW frames2 \in Seq(Frame), NEW n \in 1 .. Len(frames2),
         HookedFrames(frames2) = HookedFrames(stack) \cup {n},
         \A k \in HookedFrames(stack) : k < n /\ frames2[k].site = stack[k].site,
         NEW pushed, pushed = PushReturn(pending, frames2[n].site, n - 1)
  PROVE  /\ pushed \in Seq(PendingReturn) /\ Len(pushed) <= MaxPending
         /\ Follows(pushed, frames2)
<1> DEFINE kept == IF Len(pending) >= MaxPending THEN Tail(pending) ELSE pending
           last == [address |-> frames2[n].site, stack_pointer |-> n - 1]
<1>1. pending \in Seq(PendingReturn) /\ Len(pending) <= MaxPending /\ Len(pending) \in Nat
  BY DEF IInv, TypeOK
<1>2. /\ kept \in Seq(PendingReturn) /\ Len(kept) \in Nat /\ Len(kept) + 1 <= MaxPending
      /\ Follows(kept, stack)
  <2>1. CASE Len(pending) >= MaxPending
    <3>1. pending # <<>> BY <1>1, <2>1, BoundsAssumption
    <3> QED BY <1>1, <2>1, <3>1, TailFacts, TailFollows, BoundsAssumption
            DEF IInv, PendingFollowsTheStack
  <2>2. CASE ~(Len(pending) >= MaxPending)
    BY <1>1, <2>2, BoundsAssumption DEF IInv, PendingFollowsTheStack
  <2> QED BY <2>1, <2>2
<1>3. last \in PendingReturn
  <2>1. frames2[n] \in Frame BY ElementOfSeq
  <2>2. frames2[n].site \in Sites /\ n - 1 \in Nat BY <2>1 DEF Frame
  <2> QED BY <2>2 DEF PendingReturn
<1>4. pushed = Append(kept, last)
  BY DEF PushReturn
<1>5. pushed \in Seq(PendingReturn) /\ Len(pushed) <= MaxPending
  <2> HIDE DEF kept, last
  <2>1. Append(kept, last) \in Seq(PendingReturn) /\ Len(Append(kept, last)) = Len(kept) + 1
    BY <1>2, <1>3, AppendProperties
  <2> QED BY <1>2, <1>4, <2>1
<1>6. Follows(pushed, frames2)
  <2> HIDE DEF kept
  <2> QED BY <1>2, <1>4, PushFollows
<1> QED BY <1>5, <1>6

LEMMA DeepestIsNat ==
  ASSUME IInv, stack' \in Seq(Frame), RememberDeepest
  PROVE  deepest' \in Nat
<1>1. HookedFrames(stack') \subseteq 1 .. Len(stack')
  BY DEF HookedFrames
<1>2. IsFiniteSet(1 .. Len(stack'))
  BY FS_Interval
<1>3. Cardinality(HookedFrames(stack')) \in Nat
  BY <1>1, <1>2, FS_Subset, FS_CardinalityType
<1> QED BY <1>3 DEF RememberDeepest, IInv, TypeOK

LEMMA OneFrameMore ==
  ASSUME NEW frames, NEW frames2, Len(frames) \in Nat, Len(frames2) = Len(frames) + 1,
         \A k \in 1 .. Len(frames) : frames2[k] = frames[k]
  PROVE  /\ frames2[Len(frames) + 1].hooked =>
              HookedFrames(frames2) = HookedFrames(frames) \cup {Len(frames) + 1}
         /\ ~frames2[Len(frames) + 1].hooked => HookedFrames(frames2) = HookedFrames(frames)
<1>1. 1 .. Len(frames2) = (1 .. Len(frames)) \cup {Len(frames) + 1}
  OBVIOUS
<1>2. HookedFrames(frames2) =
        HookedFrames(frames) \cup {k \in {Len(frames) + 1} : frames2[k].hooked}
  BY <1>1 DEF HookedFrames
<1> QED BY <1>2

LEMMA CallKeepsIInv ==
  ASSUME IInv, NEW function \in Functions, NEW site \in Sites, Call(function, site)
  PROVE  IInv'
<1> DEFINE n == Len(stack) + 1
<1>1. /\ stack \in Seq(Frame) /\ Len(stack) \in Nat
      /\ [site |-> site, hooked |-> function \in Hooked] \in Frame
  BY DEF IInv, TypeOK, Frame
<1>2. /\ stack' \in Seq(Frame) /\ Len(stack') = n
      /\ \A k \in 1 .. Len(stack) : stack'[k] = stack[k]
      /\ stack'[n] = [site |-> site, hooked |-> function \in Hooked]
  BY <1>1, AppendFacts DEF Call
<1>3. Len(stack') <= MaxDepth
  BY <1>1, <1>2, BoundsAssumption DEF Call
<1>4. n \in 1 .. Len(stack') /\ n - 1 = Len(stack)
  BY <1>1, <1>2
<1>5. \A k \in HookedFrames(stack) : k < n /\ stack'[k].site = stack[k].site
  BY <1>1, <1>2 DEF HookedFrames
<1>6. deepest' \in Nat
  BY <1>2, DeepestIsNat DEF Call
<1>7. PopReturn(function, Len(stack)) = pending
  BY NothingToPop DEF IInv
<1>8. /\ pending' \in Seq(PendingReturn) /\ Len(pending') <= MaxPending
      /\ Follows(pending', stack')
  <2>1. CASE function \in Hooked
    <3>1. HookedFrames(stack') = HookedFrames(stack) \cup {n}
      <4>1. stack'[n].hooked
        <5>1. (function \in Hooked) = TRUE BY <2>1
        <5>2. stack'[n] = [site |-> site, hooked |-> TRUE] BY <1>2, <5>1, Zenon
        <5> QED BY <5>2
      <4> QED BY <1>1, <1>2, <4>1, OneFrameMore
    <3>2. pending' = PushReturn(pending, stack'[n].site, n - 1)
      BY <1>2, <1>4, <1>7, <2>1 DEF Call, Dispatch
    <3> QED BY <1>2, <1>4, <1>5, <3>1, <3>2, PushedKeepsStep
  <2>2. CASE function \notin Hooked
    <3>1. HookedFrames(stack') = HookedFrames(stack)
      <4>1. ~stack'[n].hooked
        <5>1. (function \in Hooked) = FALSE BY <2>2
        <5>2. stack'[n] = [site |-> site, hooked |-> FALSE] BY <1>2, <5>1, Zenon
        <5> QED BY <5>2
      <4> QED BY <1>1, <1>2, <4>1, OneFrameMore
    <3>2. pending' = pending
      BY <1>7, <2>2 DEF Call, Dispatch
    <3> QED BY <1>5, <3>1, <3>2, SameHookedFollows DEF IInv, TypeOK, PendingFollowsTheStack
  <2> QED BY <2>1, <2>2
<1> QED BY <1>2, <1>3, <1>6, <1>8 DEF IInv, TypeOK, PendingFollowsTheStack

LEMMA TailCallKeepsIInv ==
  ASSUME IInv, NEW function \in Functions, TailCall(function)
  PROVE  IInv'
<1> DEFINE n == Len(stack)
<1>1. stack \in Seq(Frame) /\ n \in Nat \ {0} /\ n \in 1 .. n
  BY DEF IInv, TypeOK, TailCall
<1>2. /\ stack' \in Seq(Frame) /\ Len(stack') = n
      /\ \A k \in 1 .. n : stack'[k].site = stack[k].site
      /\ \A k \in 1 .. n : k # n => stack'[k].hooked = stack[k].hooked
      /\ stack'[n].hooked = (stack[n].hooked \/ function \in Hooked)
  <2> DEFINE new == [stack[n] EXCEPT !.hooked = stack[n].hooked \/ function \in Hooked]
  <2>1. stack[n] \in Frame BY <1>1, ElementOfSeq
  <2>2. /\ new \in Frame /\ new.site = stack[n].site
        /\ new.hooked = (stack[n].hooked \/ function \in Hooked)
    BY <2>1 DEF Frame
  <2>3. stack' = [stack EXCEPT ![n] = new]
    BY DEF TailCall
  <2> HIDE DEF new
  <2>4. /\ stack' \in Seq(Frame) /\ Len(stack') = n /\ stack'[n] = new
        /\ \A k \in 1 .. n : k # n => stack'[k] = stack[k]
    BY <1>1, <2>2, <2>3, ExceptSeq
  <2> QED BY <1>1, <2>2, <2>4
<1>3. Len(stack') <= MaxDepth
  BY <1>2 DEF IInv, TypeOK
<1>4. deepest' \in Nat
  BY <1>2, DeepestIsNat DEF TailCall
<1>5. PopReturn(function, n - 1) = pending
  BY NothingToPop DEF IInv
<1>6. /\ pending' \in Seq(PendingReturn) /\ Len(pending') <= MaxPending
      /\ Follows(pending', stack')
  <2>1. CASE function \in Hooked
    <3>1. ~stack[n].hooked
      BY <2>1 DEF TailCall, Top
    <3>2. HookedFrames(stack') = HookedFrames(stack) \cup {n}
      BY <1>1, <1>2, <2>1 DEF HookedFrames
    <3>3. \A k \in HookedFrames(stack) : k < n /\ stack'[k].site = stack[k].site
      BY <1>1, <1>2, <3>1 DEF HookedFrames
    <3>4. pending' = PushReturn(pending, stack'[n].site, n - 1)
      BY <1>1, <1>2, <1>5, <2>1 DEF TailCall, Dispatch, Top
    <3> QED BY <1>1, <1>2, <3>2, <3>3, <3>4, PushedKeepsStep
  <2>2. CASE function \notin Hooked
    <3>1. HookedFrames(stack') = HookedFrames(stack)
      BY <1>1, <1>2, <2>2 DEF HookedFrames
    <3>2. pending' = pending
      BY <1>5, <2>2 DEF TailCall, Dispatch
    <3>3. \A k \in HookedFrames(stack) : stack'[k].site = stack[k].site
      BY <1>1, <1>2 DEF HookedFrames
    <3> QED BY <3>1, <3>2, <3>3, SameHookedFollows DEF IInv, TypeOK, PendingFollowsTheStack
  <2> QED BY <2>1, <2>2
<1> QED BY <1>2, <1>3, <1>4, <1>6 DEF IInv, TypeOK, PendingFollowsTheStack

(* The pending return of the frame that returns, if it has one, is the last *)
(* one and points where it returns to; no other does with its stack pointer.*)
LEMMA ReturnKeepsIInv ==
  ASSUME IInv, Return
  PROVE  IInv'
<1> DEFINE n == Len(stack)
           m == Len(pending)
           popped == PopReturn(Top.site, n - 1)
<1>1. /\ stack \in Seq(Frame) /\ n \in Nat \ {0} /\ n \in 1 .. n
      /\ pending \in Seq(PendingReturn) /\ m \in Nat /\ m <= MaxPending
  BY DEF IInv, TypeOK, Return
<1>2. /\ stack' \in Seq(Frame) /\ Len(stack') = n - 1
      /\ \A k \in 1 .. n - 1 : stack'[k] = stack[k]
  BY <1>1, AllButFacts DEF Return
<1>3. Top.site \notin Hooked /\ pending' = popped
  <2>1. Top \in Frame BY <1>1, ElementOfSeq DEF Top
  <2>2. Top.site \in Sites BY <2>1 DEF Frame
  <2> QED BY <2>2, FunctionsAssumption DEF Return, Dispatch
<1>4. HookedFrames(stack') = HookedFrames(stack) \ {n}
  BY <1>1, <1>2 DEF HookedFrames
<1>5. \A i \in 1 .. m : FrameOf(pending[i]) \in 1 .. n
  BY DEF IInv, PendingFollowsTheStack, Follows, HookedFrames
<1>6. pending # <<>> /\ FrameOf(pending[m]) = n => popped = AllBut(pending)
  <2> SUFFICES ASSUME pending # <<>>, FrameOf(pending[m]) = n
               PROVE  popped = AllBut(pending)
    OBVIOUS
  <2>1. m \in 1 .. m BY <1>1
  <2>2. pending[m].address = Top.site
    BY <2>1 DEF IInv, PendingFollowsTheStack, Follows, Top
  <2>3. pending[m] \in PendingReturn BY <1>1, <2>1
  <2>4. pending[m].stack_pointer = n - 1
    <3>1. pending[m].stack_pointer \in Nat BY <2>3 DEF PendingReturn
    <3>2. pending[m].stack_pointer + 1 = n BY DEF FrameOf
    <3> QED BY <1>1, <3>1, <3>2
  <2>5. pending[m] = [address |-> Top.site, stack_pointer |-> n - 1]
    BY <2>2, <2>3, <2>4 DEF PendingReturn
  <2> QED BY <2>5 DEF PopReturn
<1>7. pending # <<>> /\ FrameOf(pending[m]) # n => popped = pending
  BY <1>1 DEF PopReturn, FrameOf
<1>8. /\ popped \in Seq(PendingReturn) /\ Len(popped) <= MaxPending
      /\ Follows(popped, stack')
  <2>1. CASE pending = <<>>
    <3>1. popped = <<>> BY <2>1 DEF PopReturn
    <3> HIDE DEF popped
    <3>2. popped \in Seq(PendingReturn) /\ Len(popped) = 0 BY <3>1, EmptySeq
    <3>3. Follows(popped, stack') BY <3>1, <3>2 DEF Follows
    <3> QED BY <3>2, <3>3, BoundsAssumption
  <2>2. CASE pending # <<>> /\ FrameOf(pending[m]) = n
    <3>1. /\ popped \in Seq(PendingReturn) /\ Len(popped) = m - 1 /\ m \in Nat \ {0}
          /\ \A i \in 1 .. m - 1 : popped[i] = pending[i]
      BY <1>1, <1>6, <2>2, AllButFacts
    <3> HIDE DEF popped
    <3>2. \A i \in 1 .. m - 1 : i \in 1 .. m /\ FrameOf(pending[i]) < n
      BY <3>1, <2>2, <1>1 DEF IInv, PendingFollowsTheStack, Follows
    <3>3. \A i \in 1 .. m - 1 :
            /\ FrameOf(popped[i]) \in HookedFrames(stack')
            /\ popped[i].address = stack'[FrameOf(popped[i])].site
      <4> TAKE i \in 1 .. m - 1
      <4>1. /\ FrameOf(pending[i]) \in HookedFrames(stack)
            /\ pending[i].address = stack[FrameOf(pending[i])].site
        BY <3>2 DEF IInv, PendingFollowsTheStack, Follows
      <4>2. FrameOf(pending[i]) \in 1 .. n - 1 BY <1>1, <1>5, <3>2
      <4>3. FrameOf(pending[i]) \in HookedFrames(stack') BY <1>1, <1>4, <4>1, <4>2
      <4>4. pending[i].address = stack'[FrameOf(pending[i])].site BY <1>2, <4>1, <4>2
      <4> QED BY <3>1, <4>3, <4>4
    <3>4. \A i, j \in 1 .. m - 1 : i < j => FrameOf(popped[i]) < FrameOf(popped[j])
      BY <3>1, <3>2 DEF IInv, PendingFollowsTheStack, Follows
    <3>5. ASSUME popped # <<>>, NEW k \in HookedFrames(stack'), FrameOf(popped[1]) <= k
          PROVE  \E i \in 1 .. m - 1 : FrameOf(popped[i]) = k
      <4>1. m - 1 >= 1 BY <3>1, <3>5
      <4>2. popped[1] = pending[1] BY <3>1, <4>1
      <4>3. PICK i \in 1 .. m : FrameOf(pending[i]) = k
        BY <1>4, <2>2, <3>5, <4>2 DEF IInv, PendingFollowsTheStack, Follows
      <4>4. i # m BY <1>4, <2>2, <4>3
      <4> QED BY <3>1, <4>3, <4>4
    <3>6. Follows(popped, stack')
      BY <3>1, <3>3, <3>4, <3>5 DEF Follows
    <3> QED BY <1>1, <3>1, <3>6, BoundsAssumption
  <2>3. CASE pending # <<>> /\ FrameOf(pending[m]) # n
    <3>1. popped = pending /\ m \in Nat \ {0} /\ m \in 1 .. m /\ 1 \in 1 .. m
      BY <1>1, <1>7, <2>3, EmptySeq
    <3> HIDE DEF popped
    <3>2. \A i \in 1 .. m : FrameOf(pending[i]) <= FrameOf(pending[m])
      <4> TAKE i \in 1 .. m
      <4>1. CASE i = m BY <1>5, <4>1
      <4>2. CASE i < m
        <5>1. FrameOf(pending[i]) < FrameOf(pending[m])
          BY <3>1, <4>2 DEF IInv, PendingFollowsTheStack, Follows
        <5> QED BY <1>5, <3>1, <5>1
      <4> QED BY <3>1, <4>1, <4>2
    <3>3. \A i \in 1 .. m : FrameOf(pending[i]) \in 1 .. n - 1
      BY <1>1, <1>5, <2>3, <3>1, <3>2
    <3>4. n \notin HookedFrames(stack)
      <4> SUFFICES ASSUME n \in HookedFrames(stack) PROVE FALSE OBVIOUS
      <4>1. FrameOf(pending[1]) <= n BY <1>1, <3>1, <3>3
      <4>2. PICK i \in 1 .. m : FrameOf(pending[i]) = n
        BY <2>3, <4>1 DEF IInv, PendingFollowsTheStack, Follows
      <4> QED BY <1>1, <3>3, <4>2
    <3>5. HookedFrames(stack') = HookedFrames(stack) BY <1>4, <3>4
    <3>6. \A k \in HookedFrames(stack) : stack'[k].site = stack[k].site
      BY <1>1, <1>2, <3>4 DEF HookedFrames
    <3>7. Follows(pending, stack') 
      BY <1>1, <3>5, <3>6, SameHookedFollows DEF IInv, PendingFollowsTheStack
    <3> QED BY <1>1, <3>1, <3>7
  <2> QED BY <2>1, <2>2, <2>3
<1>9. Len(stack') <= MaxDepth
  BY <1>1, <1>2, BoundsAssumption DEF IInv, TypeOK
<1>10. deepest' \in Nat
  BY DEF Return, IInv, TypeOK
<1> QED BY <1>2, <1>3, <1>8, <1>9, <1>10 DEF IInv, TypeOK, PendingFollowsTheStack

LEMMA StutterKeepsIInv == IInv /\ UNCHANGED vars => IInv'
BY DEF IInv, TypeOK, PendingFollowsTheStack, Follows, HookedFrames, vars

-----------------------------------------------------------------------------
(* Whatever the guest's calls, tail calls and returns, the pending returns *)
(* Dispatch keeps are those of its innermost hooked frames, in order: the  *)
(* hooks that run at an arrival are of the frame that has just returned.   *)
THEOREM ReturnHooksFollowTheStack == Spec => []PendingFollowsTheStack
<1>1. IInv /\ [Next]_vars => IInv'
  <2> SUFFICES ASSUME IInv, [Next]_vars PROVE IInv' OBVIOUS
  <2>1. ASSUME NEW function \in Functions, NEW site \in Sites, Call(function, site)
        PROVE  IInv'
    BY <2>1, CallKeepsIInv
  <2>2. ASSUME NEW function \in Functions, TailCall(function)
        PROVE  IInv'
    BY <2>2, TailCallKeepsIInv
  <2>3. CASE Return
    BY <2>3, ReturnKeepsIInv
  <2>4. CASE UNCHANGED vars
    BY <2>4, StutterKeepsIInv
  <2> QED BY <2>1, <2>2, <2>3, <2>4 DEF Next
<1>2. IInv => PendingFollowsTheStack BY DEF IInv
<1> QED BY InitIInv, <1>1, <1>2, PTL DEF Spec

(* pending_returns never grows past its limit, and holds only return       *)
(* addresses of the guest.                                                 *)
THEOREM TypeCorrect == Spec => []TypeOK
<1>1. IInv /\ [Next]_vars => IInv'
  <2> SUFFICES ASSUME IInv, [Next]_vars PROVE IInv' OBVIOUS
  <2> QED BY CallKeepsIInv, TailCallKeepsIInv, ReturnKeepsIInv, StutterKeepsIInv DEF Next
<1>2. IInv => TypeOK BY DEF IInv
<1> QED BY InitIInv, <1>1, <1>2, PTL DEF Spec
-----------------------------------------------------------------------------
LEMMA HookedFramesAreFinite ==
  ASSUME NEW frames \in Seq(Frame)
  PROVE  IsFiniteSet(HookedFrames(frames)) /\ Cardinality(HookedFrames(frames)) \in Nat
<1> DEFINE H == HookedFrames(frames)
<1>1. H \subseteq 1 .. Len(frames) BY DEF HookedFrames
<1>2. Len(frames) \in Int OBVIOUS
<1> HIDE DEF H
<1>3. IsFiniteSet(1 .. Len(frames)) BY <1>2, FS_Interval
<1>4. IsFiniteSet(H) BY <1>1, <1>3, FS_Subset
<1> QED BY <1>4, FS_CardinalityType DEF H

(* Pending returns are of different hooked frames, so there are no more of *)
(* them than of these.                                                     *)
LEMMA NoMoreReturnsThanFrames ==
  ASSUME NEW returns \in Seq(PendingReturn), NEW frames \in Seq(Frame),
         Follows(returns, frames)
  PROVE  /\ Cardinality(HookedFrames(frames)) \in Nat
         /\ Len(returns) <= Cardinality(HookedFrames(frames))
<1> DEFINE H == HookedFrames(frames)
           m == Len(returns)
           f == [i \in 1 .. m |-> FrameOf(returns[i])]
<1>1. IsFiniteSet(H) /\ Cardinality(H) \in Nat
  BY HookedFramesAreFinite
<1>2. m \in Nat /\ IsFiniteSet(1 .. m) /\ Cardinality(1 .. m) = m
  <2>1. m \in Nat OBVIOUS
  <2> HIDE DEF m
  <2>2. IsFiniteSet(1 .. m) /\ Cardinality(1 .. m) = IF 1 > m THEN 0 ELSE m - 1 + 1
    BY <2>1, FS_Interval
  <2> QED BY <2>1, <2>2
<1>3. f \in [1 .. m -> H]
  BY DEF Follows
<1>4. H \subseteq Int
  BY DEF HookedFrames
<1>5. ASSUME NEW i \in 1 .. m, NEW j \in 1 .. m, f[i] = f[j] PROVE i = j
  <2>1. f[i] \in Int /\ f[i] = FrameOf(returns[i]) /\ f[j] = FrameOf(returns[j])
    BY <1>3, <1>4
  <2>2. ~(i < j) /\ ~(j < i)
    BY <1>5, <2>1 DEF Follows
  <2> QED BY <2>2
<1> HIDE DEF f, m, H
<1>6. ~(Cardinality(H) < Cardinality(1 .. m))
  <2> SUFFICES ASSUME Cardinality(H) < Cardinality(1 .. m) PROVE FALSE OBVIOUS
  <2>1. \E i, j \in 1 .. m : i # j /\ f[i] = f[j]
    BY <1>1, <1>2, <1>3, FS_PigeonHole
  <2> QED BY <1>5, <2>1
<1>7. m <= Cardinality(H)
  BY <1>1, <1>2, <1>6
<1> QED BY <1>1, <1>7 DEF H, m

CompleteInv == IInv /\ EveryHookedFrameIsPending

(* A hooked entry drops a pending return only when as many hooked frames   *)
(* as there is room for are there already.                                 *)
LEMMA PushedKeepsAll ==
  ASSUME CompleteInv, NEW n \in Nat \ HookedFrames(stack), NEW site,
         HookedFrames(stack') = HookedFrames(stack) \cup {n},
         pending' = PushReturn(pending, site, n - 1),
         [address |-> site, stack_pointer |-> n - 1] \in PendingReturn,
         RememberDeepest
  PROVE  EveryHookedFrameIsPending'
<1> DEFINE H == HookedFrames(stack)
           m == Len(pending)
           last == [address |-> site, stack_pointer |-> n - 1]
<1>1. /\ stack \in Seq(Frame) /\ pending \in Seq(PendingReturn) /\ m \in Nat
      /\ m <= MaxPending /\ deepest \in Nat
  BY DEF CompleteInv, IInv, TypeOK
<1>2. Cardinality(H) \in Nat /\ m <= Cardinality(H)
  BY <1>1, NoMoreReturnsThanFrames DEF CompleteInv, IInv, PendingFollowsTheStack
<1>3. Cardinality(H \cup {n}) = Cardinality(H) + 1
  <2>1. IsFiniteSet(H) BY <1>1, HookedFramesAreFinite
  <2>2. n \notin H OBVIOUS
  <2> HIDE DEF H
  <2> QED BY <2>1, <2>2, FS_AddElement
<1>4. deepest <= deepest' /\ Cardinality(H) + 1 <= deepest' /\ deepest' \in Nat
  <2> DEFINE c == Cardinality(HookedFrames(stack'))
  <2>1. c = Cardinality(H) + 1 BY <1>3
  <2>2. deepest' = IF c > deepest THEN c ELSE deepest BY DEF RememberDeepest
  <2> HIDE DEF c
  <2> QED BY <1>1, <1>2, <2>1, <2>2
<1> SUFFICES ASSUME deepest' <= MaxPending, NEW k \in HookedFrames(stack')
             PROVE  \E i \in 1 .. Len(pending') : FrameOf(pending'[i]) = k
  BY DEF EveryHookedFrameIsPending
<1>5. m < MaxPending
  BY <1>1, <1>2, <1>4, BoundsAssumption
<1>6. pending' = Append(pending, last)
  <2>1. ~(Len(pending) >= MaxPending) BY <1>1, <1>5, BoundsAssumption
  <2> QED BY <2>1 DEF PushReturn
<1>7. /\ Len(pending') = m + 1
      /\ \A i \in 1 .. m : pending'[i] = pending[i]
      /\ pending'[m + 1] = last
  <2> HIDE DEF last
  <2> QED BY <1>1, <1>6, AppendFacts DEF last
<1>8. CASE k = n
  <2>1. FrameOf(last) = n BY DEF FrameOf
  <2>2. m + 1 \in 1 .. Len(pending') BY <1>1, <1>7
  <2> QED BY <1>7, <1>8, <2>1, <2>2
<1>9. CASE k \in H
  <2>1. deepest <= MaxPending BY <1>1, <1>4, BoundsAssumption
  <2>2. PICK i \in 1 .. m : FrameOf(pending[i]) = k
    BY <1>9, <2>1 DEF CompleteInv, EveryHookedFrameIsPending
  <2>3. i \in 1 .. Len(pending') /\ pending'[i] = pending[i] BY <1>1, <1>7
  <2> QED BY <2>2, <2>3
<1> QED BY <1>8, <1>9

(* The same hooked frames, the same pending returns.                       *)
LEMMA UnhookedKeepsAll ==
  ASSUME CompleteInv, HookedFrames(stack') = HookedFrames(stack), pending' = pending,
         stack' \in Seq(Frame), RememberDeepest
  PROVE  EveryHookedFrameIsPending'
<1>1. deepest \in Nat /\ deepest' \in Nat
  BY DeepestIsNat DEF CompleteInv, IInv, TypeOK
<1>2. deepest <= deepest'
  <2> DEFINE c == Cardinality(HookedFrames(stack'))
  <2>1. c \in Nat
    BY HookedFramesAreFinite
  <2>2. deepest' = IF c > deepest THEN c ELSE deepest BY DEF RememberDeepest
  <2> HIDE DEF c
  <2> QED BY <1>1, <2>1, <2>2
<1>3. deepest' <= MaxPending => deepest <= MaxPending
  BY <1>1, <1>2, BoundsAssumption
<1> QED BY <1>3 DEF CompleteInv, EveryHookedFrameIsPending

LEMMA CallKeepsAll ==
  ASSUME CompleteInv, NEW function \in Functions, NEW site \in Sites, Call(function, site)
  PROVE  EveryHookedFrameIsPending'
<1> DEFINE n == Len(stack) + 1
           frame == [site |-> site, hooked |-> function \in Hooked]
<1>1. stack \in Seq(Frame) /\ Len(stack) \in Nat /\ frame \in Frame
  BY DEF CompleteInv, IInv, TypeOK, Frame
<1>2. /\ stack' \in Seq(Frame) /\ Len(stack') = n
      /\ \A k \in 1 .. Len(stack) : stack'[k] = stack[k]
      /\ stack'[n] = frame
  BY <1>1, AppendFacts DEF Call
<1>3. PopReturn(function, Len(stack)) = pending
  BY NothingToPop DEF CompleteInv, IInv
<1>4. RememberDeepest BY DEF Call
<1>5. CASE function \in Hooked
  <2>1. HookedFrames(stack') = HookedFrames(stack) \cup {n}
    <3>1. stack'[n].hooked
      <4>1. (function \in Hooked) = TRUE BY <1>5
      <4>2. stack'[n] = [site |-> site, hooked |-> TRUE] BY <1>2, <4>1, Zenon
      <4> QED BY <4>2
    <3> QED BY <1>1, <1>2, <3>1, OneFrameMore
  <2>2. n \in Nat \ HookedFrames(stack) /\ n - 1 = Len(stack)
    BY <1>1 DEF HookedFrames
  <2>3. pending' = PushReturn(pending, site, n - 1)
    BY <1>3, <1>5, <2>2 DEF Call, Dispatch
  <2>4. [address |-> site, stack_pointer |-> n - 1] \in PendingReturn
    BY <1>1, <2>2 DEF PendingReturn
  <2> HIDE DEF n
  <2> QED BY <1>4, <2>1, <2>2, <2>3, <2>4, PushedKeepsAll
<1>6. CASE function \notin Hooked
  <2>1. HookedFrames(stack') = HookedFrames(stack)
    <3>1. ~stack'[n].hooked
      <4>1. (function \in Hooked) = FALSE BY <1>6
      <4>2. stack'[n] = [site |-> site, hooked |-> FALSE] BY <1>2, <4>1, Zenon
      <4> QED BY <4>2
    <3> QED BY <1>1, <1>2, <3>1, OneFrameMore
  <2>2. pending' = pending
    BY <1>3, <1>6 DEF Call, Dispatch
  <2> QED BY <1>2, <1>4, <2>1, <2>2, UnhookedKeepsAll
<1> QED BY <1>5, <1>6

LEMMA TailCallKeepsAll ==
  ASSUME CompleteInv, NEW function \in Functions, TailCall(function)
  PROVE  EveryHookedFrameIsPending'
<1> DEFINE n == Len(stack)
<1>1. stack \in Seq(Frame) /\ n \in Nat \ {0} /\ n \in 1 .. n /\ stack[n] \in Frame
  BY ElementOfSeq DEF CompleteInv, IInv, TypeOK, TailCall
<1>2. /\ stack' \in Seq(Frame) /\ Len(stack') = n
      /\ \A k \in 1 .. n : k # n => stack'[k].hooked = stack[k].hooked
      /\ stack'[n].hooked = (stack[n].hooked \/ function \in Hooked)
  <2> DEFINE new == [stack[n] EXCEPT !.hooked = stack[n].hooked \/ function \in Hooked]
  <2>1. new \in Frame /\ new.hooked = (stack[n].hooked \/ function \in Hooked)
    BY <1>1 DEF Frame
  <2>2. stack' = [stack EXCEPT ![n] = new]
    BY DEF TailCall
  <2> HIDE DEF new
  <2>3. /\ stack' \in Seq(Frame) /\ Len(stack') = n /\ stack'[n] = new
        /\ \A k \in 1 .. n : k # n => stack'[k] = stack[k]
    BY <1>1, <2>1, <2>2, ExceptSeq
  <2> QED BY <1>1, <2>1, <2>3
<1>3. PopReturn(function, n - 1) = pending
  BY NothingToPop DEF CompleteInv, IInv
<1>4. RememberDeepest BY DEF TailCall
<1>5. CASE function \in Hooked
  <2>1. ~stack[n].hooked
    BY <1>5 DEF TailCall, Top
  <2>2. HookedFrames(stack') = HookedFrames(stack) \cup {n}
    BY <1>1, <1>2, <1>5 DEF HookedFrames
  <2>3. n \in Nat \ HookedFrames(stack)
    BY <1>1, <2>1 DEF HookedFrames
  <2>4. pending' = PushReturn(pending, stack[n].site, n - 1)
    BY <1>3, <1>5 DEF TailCall, Dispatch, Top
  <2>5. [address |-> stack[n].site, stack_pointer |-> n - 1] \in PendingReturn
    BY <1>1 DEF PendingReturn, Frame
  <2> HIDE DEF n
  <2> QED BY <1>4, <2>2, <2>3, <2>4, <2>5, PushedKeepsAll
<1>6. CASE function \notin Hooked
  <2>1. HookedFrames(stack') = HookedFrames(stack)
    BY <1>1, <1>2, <1>6 DEF HookedFrames
  <2>2. pending' = pending
    BY <1>3, <1>6 DEF TailCall, Dispatch
  <2> QED BY <1>2, <1>4, <2>1, <2>2, UnhookedKeepsAll
<1> QED BY <1>5, <1>6

(* Only the pending return of the frame that returns is taken off.         *)
LEMMA ReturnKeepsAll ==
  ASSUME CompleteInv, Return
  PROVE  EveryHookedFrameIsPending'
<1> DEFINE n == Len(stack)
           m == Len(pending)
<1>1. /\ stack \in Seq(Frame) /\ n \in Nat \ {0} /\ n \in 1 .. n
      /\ pending \in Seq(PendingReturn) /\ m \in Nat /\ Top \in Frame
  BY ElementOfSeq DEF CompleteInv, IInv, TypeOK, Return, Top
<1>2. /\ Len(stack') = n - 1
      /\ \A k \in 1 .. n - 1 : stack'[k] = stack[k]
  BY <1>1, AllButFacts DEF Return
<1>3. HookedFrames(stack') = HookedFrames(stack) \ {n}
  BY <1>1, <1>2 DEF HookedFrames
<1>4. pending' = PopReturn(Top.site, n - 1)
  <2>1. Top.site \in Sites BY <1>1 DEF Frame
  <2> QED BY <2>1, FunctionsAssumption DEF Return, Dispatch
<1>5. SUFFICES ASSUME deepest <= MaxPending, NEW k \in HookedFrames(stack')
               PROVE  \E i \in 1 .. Len(pending') : FrameOf(pending'[i]) = k
  BY DEF EveryHookedFrameIsPending, Return
<1>6. PICK i \in 1 .. m : FrameOf(pending[i]) = k
  BY <1>3, <1>5 DEF CompleteInv, EveryHookedFrameIsPending
<1>7. CASE pending' = pending
  BY <1>6, <1>7
<1>8. CASE pending # <<>> /\ pending' = AllBut(pending)
           /\ pending[m] = [address |-> Top.site, stack_pointer |-> n - 1]
  <2>1. FrameOf(pending[m]) = n BY <1>1, <1>8 DEF FrameOf
  <2>2. i # m BY <1>3, <1>6, <2>1
  <2>3. i \in 1 .. m - 1 BY <1>1, <2>2
  <2>4. Len(pending') = m - 1 /\ pending'[i] = pending[i]
    BY <1>1, <1>8, <2>3, AllButFacts
  <2> QED BY <1>6, <2>3, <2>4
<1> QED BY <1>4, <1>7, <1>8 DEF PopReturn

(* While the guest has never had more hooked frames at once than pending   *)
(* returns are kept, none of them is forgotten by Dispatch.                *)
THEOREM NoHookedFrameIsForgotten == Spec => []EveryHookedFrameIsPending
<1>1. Init => CompleteInv
  <2> SUFFICES ASSUME Init PROVE CompleteInv OBVIOUS
  <2>1. Len(stack) = 0 BY DEF Init
  <2>2. EveryHookedFrameIsPending BY <2>1 DEF EveryHookedFrameIsPending, HookedFrames
  <2> QED BY <2>2, InitIInv DEF CompleteInv
<1>2. CompleteInv /\ [Next]_vars => CompleteInv'
  <2> SUFFICES ASSUME CompleteInv, [Next]_vars PROVE CompleteInv' OBVIOUS
  <2>1. IInv BY DEF CompleteInv
  <2>2. IInv'
    BY <2>1, CallKeepsIInv, TailCallKeepsIInv, ReturnKeepsIInv, StutterKeepsIInv DEF Next
  <2>3. EveryHookedFrameIsPending'
    <3>1. ASSUME NEW function \in Functions, NEW site \in Sites, Call(function, site)
          PROVE  EveryHookedFrameIsPending'
      BY <3>1, CallKeepsAll
    <3>2. ASSUME NEW function \in Functions, TailCall(function)
          PROVE  EveryHookedFrameIsPending'
      BY <3>2, TailCallKeepsAll
    <3>3. CASE Return
      BY <3>3, ReturnKeepsAll
    <3>4. CASE UNCHANGED vars
      BY <3>4 DEF CompleteInv, EveryHookedFrameIsPending, HookedFrames, vars
    <3> QED BY <3>1, <3>2, <3>3, <3>4 DEF Next
  <2> QED BY <2>2, <2>3 DEF CompleteInv
<1>3. CompleteInv => EveryHookedFrameIsPending BY DEF CompleteInv
<1> QED BY <1>1, <1>2, <1>3, PTL DEF Spec
=============================================================================
