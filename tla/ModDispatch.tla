---------------------------- MODULE ModDispatch -----------------------------
(***************************************************************************)
(* ModManager's Dispatch against the calls of the guest program.  The host *)
(* calls Dispatch wherever the guest arrives, with its link register and   *)
(* stack pointer.  The entry of a function with a return hook leaves a     *)
(* pending return behind; arriving where the last one points, with the     *)
(* stack pointer it was left with, takes it off and runs its hooks.        *)
(*                                                                         *)
(* The guest is external: functions that make a frame before they call, so *)
(* that the stack pointer at an entry is the number of frames below it.    *)
(* Every call site may call every function (an indirect call).  Hooked     *)
(* functions do not tail-call one another and nothing unwinds more than    *)
(* one frame: pending_returns is not made for either.                      *)
(***************************************************************************)
EXTENDS Integers, FiniteSets, Sequences

CONSTANTS
  Functions,  \* the functions of the guest, at their addresses
  Hooked,     \* those with a return hook
  Sites,      \* the addresses calls return to
  MaxPending, \* the size pending_returns is kept at; 4096 in the code
  MaxDepth    \* bound on the frames of the guest

ASSUME FunctionsAssumption == Hooked \subseteq Functions /\ Functions \cap Sites = {}
ASSUME BoundsAssumption == MaxPending \in Nat \ {0} /\ MaxDepth \in Nat

VARIABLES
  stack,   \* the guest's frames: where each returns to, and whether it has
           \* entered a hooked function
  pending, \* m_impl->pending_returns
  deepest  \* history: the most hooked frames there have been at once

vars == <<stack, pending, deepest>>

Frame == [site : Sites, hooked : BOOLEAN]
PendingReturn == [address : Sites, stack_pointer : Nat]

Init == stack = <<>> /\ pending = <<>> /\ deepest = 0

Top == stack[Len(stack)]
AllBut(s) == SubSeq(s, 1, Len(s) - 1)

-----------------------------------------------------------------------------
(* A plausible bug: the address alone tells whose return it is.            *)
PopReturnByAddress(address, sp) ==
  IF pending # <<>> /\ pending[Len(pending)].address = address
    THEN AllBut(pending) ELSE pending

PopReturn(address, sp) ==
  IF /\ pending # <<>>
     /\ pending[Len(pending)] = [address |-> address, stack_pointer |-> sp]
    THEN AllBut(pending) ELSE pending

(* A plausible bug: the buffer is trimmed one entry early.                 *)
PushReturnTrimmedEarly(returns, lr, sp) ==
  Append(IF Len(returns) + 1 >= MaxPending /\ returns # <<>> THEN Tail(returns) ELSE returns,
         [address |-> lr, stack_pointer |-> sp])

PushReturn(returns, lr, sp) ==
  Append(IF Len(returns) >= MaxPending THEN Tail(returns) ELSE returns,
         [address |-> lr, stack_pointer |-> sp])

Dispatch(address, lr, sp) ==
  pending' = IF address \in Hooked THEN PushReturn(PopReturn(address, sp), lr, sp)
             ELSE PopReturn(address, sp)

-----------------------------------------------------------------------------
HookedFrames(frames) == {k \in 1 .. Len(frames) : frames[k].hooked}

RememberDeepest ==
  LET n == Cardinality(HookedFrames(stack'))
  IN deepest' = IF n > deepest THEN n ELSE deepest

Call(function, site) ==
  /\ Len(stack) < MaxDepth
  /\ stack' = Append(stack, [site |-> site, hooked |-> function \in Hooked])
  /\ Dispatch(function, site, Len(stack))
  /\ RememberDeepest

(* The frame's epilogue, then a branch: the callee returns for both.       *)
TailCall(function) ==
  /\ stack # <<>>
  /\ function \in Hooked => ~Top.hooked
  /\ stack' = [stack EXCEPT ![Len(stack)].hooked = @ \/ function \in Hooked]
  /\ Dispatch(function, Top.site, Len(stack) - 1)
  /\ RememberDeepest

Return ==
  /\ stack # <<>>
  /\ stack' = AllBut(stack)
  /\ Dispatch(Top.site, Top.site, Len(stack) - 1)
  /\ UNCHANGED deepest

Next ==
  \/ \E function \in Functions, site \in Sites : Call(function, site)
  \/ \E function \in Functions : TailCall(function)
  \/ Return

Spec == Init /\ [][Next]_vars

-----------------------------------------------------------------------------
TypeOK ==
  /\ stack \in Seq(Frame) /\ Len(stack) <= MaxDepth
  /\ pending \in Seq(PendingReturn) /\ Len(pending) <= MaxPending
  /\ deepest \in Nat

FrameOf(return) == return.stack_pointer + 1

Follows(returns, frames) ==
  /\ \A i \in 1 .. Len(returns) :
       /\ FrameOf(returns[i]) \in HookedFrames(frames)
       /\ returns[i].address = frames[FrameOf(returns[i])].site
  /\ \A i, j \in 1 .. Len(returns) :
       i < j => FrameOf(returns[i]) < FrameOf(returns[j])
  /\ returns # <<>> =>
       \A k \in HookedFrames(frames) :
         FrameOf(returns[1]) <= k => \E i \in 1 .. Len(returns) : FrameOf(returns[i]) = k

(* The pending returns are those of the innermost hooked frames, in their  *)
(* order: so the hooks that run at a return are of the frame that returns, *)
(* and a frame inside one whose hooks will run has its own run first.      *)
PendingFollowsTheStack == Follows(pending, stack)

(* While there have never been more hooked frames at once than there is    *)
(* room for, every one of them will have its hooks run when it returns.    *)
EveryHookedFrameIsPending ==
  deepest <= MaxPending => \A k \in HookedFrames(stack) :
    \E i \in 1 .. Len(pending) : FrameOf(pending[i]) = k
=============================================================================
