------------------------------ MODULE MmioBus -------------------------------
(***************************************************************************)
(* MmioBus (src/hardware/mmio_bus.cpp): device ranges, registered one by   *)
(* one, and the search for the range an access falls into.  Addresses,     *)
(* sizes and the ends computed from them have the width of the code's      *)
(* 32-bit integers, which is the constant Modulus here.                    *)
(***************************************************************************)
EXTENDS Integers, Sequences

CONSTANTS
  Modulus,     \* 2^32 in the code
  MaxRanges    \* bound: ranges registered between two Clears

ASSUME ModulusAssumption == Modulus \in Nat \ {0}

VARIABLES
  ranges,   \* m_ranges
  access    \* the last Read or Write, and the place of the range it was given to

busVars == <<ranges, access>>

Address == 0 .. Modulus - 1
NoAccess == [address |-> 0, size |-> 0, range |-> 0]

End(base, size) == (base + size) % Modulus
EndOf(range) == End(range.base, range.size)

IsValidWidth(size) == size \in {1, 2, 4, 8}

BusInit == ranges = <<>> /\ access = NoAccess

Conflicts(base, size) ==
  \E i \in DOMAIN ranges : base < EndOf(ranges[i]) /\ ranges[i].base < End(base, size)

(* A plausible bug: only a range's base is looked for in the others.       *)
ConflictsAtBase(base, size) ==
  \E i \in DOMAIN ranges : ranges[i].base <= base /\ base < EndOf(ranges[i])

(* A refused range leaves everything as it was.                            *)
RegisterUnchecked(base, size) ==
  /\ Len(ranges) < MaxRanges
  /\ size # 0 /\ size - 1 <= Modulus - 1 - base
  /\ ~ConflictsAtBase(base, size)
  /\ ranges' = Append(ranges, [base |-> base, size |-> size])
  /\ access' = NoAccess

Register(base, size) ==
  /\ Len(ranges) < MaxRanges
  /\ size # 0 /\ size - 1 <= Modulus - 1 - base
  /\ ~Conflicts(base, size)
  /\ ranges' = Append(ranges, [base |-> base, size |-> size])
  /\ access' = NoAccess

Contains(range, address, size) ==
  address >= range.base /\ End(address, size) <= EndOf(range)

(* The first range that contains the access, or 0.                         *)
Find(address, size) ==
  IF ~IsValidWidth(size) \/ size - 1 > Modulus - 1 - address THEN 0
  ELSE LET found == {i \in DOMAIN ranges : Contains(ranges[i], address, size)}
       IN IF found = {} THEN 0 ELSE CHOOSE i \in found : \A j \in found : i <= j

(* Read and Write: an access without a range takes the caller's slow path. *)
Access(address, size) ==
  /\ access' = [address |-> address, size |-> size, range |-> Find(address, size)]
  /\ UNCHANGED ranges

(* Clear, as a machine reset does before the devices register again.       *)
Clear == ranges' = <<>> /\ access' = NoAccess

BusNext ==
  \/ \E base, size \in Address : Register(base, size)
  \/ \E address \in Address, size \in {1, 2, 3, 4, 8} : Access(address, size)
  \/ Clear

BusSpec == BusInit /\ [][BusNext]_busVars

-----------------------------------------------------------------------------
(* The bytes themselves, which no width limits.                            *)
Bytes(base, size) == base .. base + size - 1
BytesOf(range) == Bytes(range.base, range.size)

TopByte == Modulus - 1
BelowTheTop(S) == TopByte \notin S

(* Away from the last byte of the address space, no byte belongs to two    *)
(* devices, and an access reaches a device just when all of its bytes are  *)
(* that device's (mmio_bus.cpp:36).                                        *)
AccessesReachTheirDevice ==
  LET below == {i \in DOMAIN ranges : BelowTheTop(BytesOf(ranges[i]))}
      bytes == Bytes(access.address, access.size)
  IN /\ \A i, j \in below : i # j => BytesOf(ranges[i]) \cap BytesOf(ranges[j]) = {}
     /\ access # NoAccess /\ BelowTheTop(bytes) /\ IsValidWidth(access.size) =>
          /\ access.range # 0 => bytes \subseteq BytesOf(ranges[access.range])
          /\ access.range = 0 => \A i \in below : ~(bytes \subseteq BytesOf(ranges[i]))

(* What the comment at mmio_bus.cpp:54 says of Read: an access that is not *)
(* mapped falls through to the slow path.                                  *)
UnmappedFallsThrough ==
  access.range # 0 =>
    Bytes(access.address, access.size) \subseteq BytesOf(ranges[access.range])
=============================================================================
