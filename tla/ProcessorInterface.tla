------------------------- MODULE ProcessorInterface -------------------------
(***************************************************************************)
(* ProcessorInterface (src/hardware/processor_interface.cpp): the guest's  *)
(* interrupt controller.  Devices set and clear their bit of the cause     *)
(* register, the guest acknowledges bits and writes the mask, and the      *)
(* external-interrupt bit of the CPU's exception word follows.  A register *)
(* is the set of its bits.                                                 *)
(***************************************************************************)
VARIABLES
  cause,      \* m_cause
  mask,       \* m_mask
  exception   \* whether m_cpu.exception has ExternalInterrupt

piVars == <<cause, mask, exception>>

(* The bits of the devices that are modelled, and the two Reset sets.      *)
Causes     == {"DI", "AI", "DSP", "VI", "ResetButton"}
ResetCause == {"VI", "ResetButton"}

TypeOK ==
  /\ cause \subseteq Causes
  /\ mask \subseteq Causes
  /\ exception \in BOOLEAN

UpdateException == exception' = (cause' \cap mask' # {})

Reset ==
  /\ cause' = ResetCause
  /\ mask' = {}
  /\ UpdateException

(* The guest writes the cause register: each bit it writes is cleared.     *)
WriteCause(value) ==
  /\ cause' = cause \ value
  /\ UNCHANGED mask
  /\ UpdateException

WriteMask(value) ==
  /\ mask' = value
  /\ UNCHANGED cause
  /\ UpdateException

SetInterrupt(bit, set) ==
  /\ cause' = IF set THEN cause \cup {bit} ELSE cause \ {bit}
  /\ UNCHANGED mask
  /\ UpdateException
=============================================================================
