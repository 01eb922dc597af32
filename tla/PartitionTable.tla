--------------------------- MODULE PartitionTable ---------------------------
(***************************************************************************)
(* The partition table as parted_server and partman's menu show it: the    *)
(* partitions and the runs of free space between them, each a slot of the  *)
(* menu.  A slot is known by where it begins and ends, as parted's ids     *)
(* are, so that it changes its name when its neighbours do.                *)
(***************************************************************************)
EXTENDS Naturals, FiniteSets, Sequences, SequencesExt, Functions

CONSTANTS
  Size,      \* places for partitions on all devices together
  DeviceOf   \* the device a place is on

(* The places of a device are next to each other.                          *)
ASSUME TableAssumption ==
  /\ Size \in Nat \ {0} /\ DOMAIN DeviceOf = 1..Size
  /\ \A i, j, k \in 1..Size :
       i <= j /\ j <= k /\ DeviceOf[i] = DeviceOf[k] => DeviceOf[j] = DeviceOf[i]

(* A finite set of numbers in order, and what of a list is in a set:       *)
(* SetToSortSeq and SelectSeq, put without operators that take operators,  *)
(* which cannot be reasoned about.                                         *)
InOrder(K) == [n \in 1..Cardinality(K) |-> CHOOSE k \in K : Cardinality({j \in K : j <= k}) = n]
Only(list, S) ==
  LET o == InOrder({i \in DOMAIN list : list[i] \in S}) IN [n \in DOMAIN o |-> list[o[n]]]

Places(s) == s[1]..s[2]
Device(s) == DeviceOf[s[1]]
Slots == {s \in (1..Size) \X (1..Size) : s[1] <= s[2] /\ DeviceOf[s[1]] = DeviceOf[s[2]]}

(* A table is a set of partitions that do not overlap.                     *)
Partitions == [slot : Slots, num : Nat \ {0}, method : STRING, mount : STRING]
IsTable(parts) ==
  /\ parts \subseteq Partitions
  /\ \A p, q \in parts : p # q => Places(p.slot) \cap Places(q.slot) = {}

Taken(parts) == UNION {Places(p.slot) : p \in parts}

FreeSlots(parts) ==
  LET free(s) == s \in Slots /\ Places(s) \cap Taken(parts) = {}
  IN  {s \in Slots : /\ free(s)
                     /\ ~free(<<s[1] - 1, s[2]>>) /\ ~free(<<s[1], s[2] + 1>>)}

(* partition_tree_choices, without the rows of the devices themselves.     *)
Rows(parts) == {p.slot : p \in parts} \cup FreeSlots(parts)
Entries(parts) ==
  LET o == InOrder({s[1] : s \in Rows(parts)})
  IN  [n \in DOMAIN o |-> CHOOSE s \in Rows(parts) : s[1] = o[n]]
EntriesOn(parts, device) ==
  Only(Entries(parts), {s \in Rows(parts) : Device(s) = device})

(* What PARTITION_INFO and the partition's directory say; 0 for free space *)
NumberOf(parts, s) ==
  IF s \in FreeSlots(parts) THEN 0 ELSE (CHOOSE p \in parts : p.slot = s).num
At(parts, s) == CHOOSE p \in parts : p.slot = s

NextNumber(parts, device) ==
  CHOOSE n \in 1..Size + 1 :
    /\ \A p \in parts : Device(p.slot) = device => p.num # n
    /\ \A m \in 1..n - 1 : \E p \in parts : Device(p.slot) = device /\ p.num = m

(* NEW_PARTITION: at the beginning or the end of a free slot               *)
NewSlot(s, size, place) ==
  IF place = "Beginning" THEN <<s[1], s[1] + size - 1>> ELSE <<s[2] - size + 1, s[2]>>
WithNew(parts, s, method, mount) ==
  parts \cup {[slot |-> s, num |-> NextNumber(parts, Device(s)), method |-> method, mount |-> mount]}

(* RESIZE_PARTITION: the partition gets another id.                        *)
WithResized(parts, p, size) ==
  (parts \ {p}) \cup {[p EXCEPT !.slot = <<p.slot[1], p.slot[1] + size - 1>>]}
Fits(parts, p, size) ==
  LET s == <<p.slot[1], p.slot[1] + size - 1>>
  IN  s \in Slots /\ Places(s) \cap Taken(parts \ {p}) = {}
=============================================================================
