------------------------- MODULE PartitioningProofs -------------------------
(***************************************************************************)
(* Proofs about the partitioning page: that it stays on course.  Whatever  *)
(* partman asks, refuses or dies of, and whatever the user wants, the page *)
(* is choosing automatically, reading the partition table, or waiting for  *)
(* what was requested, and what it does not know of the table it has been  *)
(* told of.  The lemmas on tables come first: the rows of a table, and     *)
(* that what partman tells covers every row a change has touched.          *)
(***************************************************************************)
EXTENDS PartitioningPage, FiniteSetTheorems, WellFoundedInduction, TLAPS

-----------------------------------------------------------------------------
(* Lists in order *)

(* A set of numbers has a least element. *)
LEMMA LeastNumber ==
  ASSUME NEW S \in SUBSET Nat, S # {}
  PROVE  \E x \in S : \A y \in S : x <= y
<1>1. IsWellFoundedOn(OpToRel(<, Nat), Nat)
  BY NatLessThanWellFounded
<1>2. PICK x \in S : \A y \in S : ~(<<y, x>> \in OpToRel(<, Nat))
  BY <1>1, WFMin, Zenon
<1>3. \A y \in S : ~(y < x)
  BY <1>2 DEF OpToRel
<1> QED BY <1>3

(* The greater of two elements of a finite set of numbers ranks higher. *)
LEMMA RanksGrow ==
  ASSUME NEW K \in SUBSET Nat, IsFiniteSet(K), NEW j \in K, NEW k \in K,
         Cardinality({i \in K : i <= j}) = Cardinality({i \in K : i <= k})
  PROVE  j = k
<1> DEFINE upto(n) == {i \in K : i <= n}
<1>1. ASSUME NEW m \in K, NEW n \in K, m < n
      PROVE  Cardinality(upto(m)) # Cardinality(upto(n))
  <2>1. n \in upto(n) /\ n \notin upto(m)
    BY <1>1
  <2>2. \A i \in K : i <= m => i <= n
    BY <1>1
  <2>3. upto(m) \in SUBSET upto(n) /\ upto(m) # upto(n)
    BY <2>1, <2>2
  <2>4. IsFiniteSet(upto(n))
    BY FS_Subset
  <2> HIDE DEF upto
  <2> QED BY <2>3, <2>4, FS_Subset
<1>2. Cardinality(upto(j)) = Cardinality(upto(k))
  OBVIOUS
<1> HIDE DEF upto
<1>3. ~(j < k) /\ ~(k < j)
  BY <1>1, <1>2
<1> QED BY <1>3

(* The elements of a finite set of numbers have the ranks from 1 on. *)
LEMMA Ranks ==
  ASSUME NEW K \in SUBSET Nat, IsFiniteSet(K)
  PROVE  /\ Cardinality(K) \in Nat
         /\ \A n \in 1 .. Cardinality(K) : \E k \in K : Cardinality({j \in K : j <= k}) = n
         /\ \A k \in K : Cardinality({j \in K : j <= k}) \in 1 .. Cardinality(K)
<1> DEFINE upto(k) == {j \in K : j <= k}
           rank == [k \in K |-> Cardinality(upto(k))]
<1>1. Cardinality(K) \in Nat
  BY FS_CardinalityType
<1>2. ASSUME NEW k \in K
      PROVE  Cardinality(upto(k)) \in 1 .. Cardinality(K)
  <2>1. upto(k) \in SUBSET K /\ k \in upto(k)
    OBVIOUS
  <2>2. IsFiniteSet(upto(k)) /\ Cardinality(upto(k)) <= Cardinality(K)
    BY <2>1, FS_Subset
  <2>3. Cardinality(upto(k)) \in Nat /\ Cardinality(upto(k)) # 0
    BY <2>1, <2>2, FS_CardinalityType, FS_EmptySet
  <2> HIDE DEF upto
  <2> QED BY <1>1, <2>2, <2>3
<1>3. rank \in [K -> 1 .. Cardinality(K)]
  BY <1>2
<1>4. \A j, k \in K : rank[j] = rank[k] => j = k
  <2>1. \A j, k \in K : Cardinality(upto(j)) = Cardinality(upto(k)) => j = k
    BY RanksGrow, Zenon
  <2>2. \A k \in K : rank[k] = Cardinality(upto(k))
    BY Zenon
  <2> HIDE DEF rank, upto
  <2> QED BY <2>1, <2>2
<1>5. rank \in Injection(K, 1 .. Cardinality(K))
  BY <1>3, <1>4 DEF Injection, IsInjective
<1>6. IsFiniteSet(1 .. Cardinality(K)) /\ Cardinality(1 .. Cardinality(K)) = Cardinality(K)
  BY <1>1, FS_Interval
<1>7. rank \in Surjection(K, 1 .. Cardinality(K))
  BY <1>5, <1>6, FS_Injection
<1>8. \A n \in 1 .. Cardinality(K) : \E k \in K : rank[k] = n
  BY <1>7 DEF Surjection
<1> QED BY <1>1, <1>2, <1>8

(* InOrder lists a finite set of numbers. *)
LEMMA OrderLists ==
  ASSUME NEW K \in SUBSET Nat, IsFiniteSet(K)
  PROVE  /\ Cardinality(K) \in Nat /\ DOMAIN InOrder(K) = 1 .. Cardinality(K)
         /\ \A n \in 1 .. Cardinality(K) : InOrder(K)[n] \in K
         /\ \A k \in K : \E n \in 1 .. Cardinality(K) : InOrder(K)[n] = k
<1> DEFINE rank(k) == Cardinality({j \in K : j <= k})
<1>1. /\ Cardinality(K) \in Nat
      /\ \A n \in 1 .. Cardinality(K) : \E k \in K : rank(k) = n
      /\ \A k \in K : rank(k) \in 1 .. Cardinality(K)
  BY Ranks, Zenon
<1>2. \A j, k \in K : rank(j) = rank(k) => j = k
  BY RanksGrow, Zenon
<1>3. InOrder(K) = [n \in 1 .. Cardinality(K) |-> CHOOSE k \in K : rank(k) = n]
  BY DEF InOrder
<1> HIDE DEF rank
<1>4. DOMAIN InOrder(K) = 1 .. Cardinality(K)
  BY <1>3
<1>5. \A n \in 1 .. Cardinality(K) : InOrder(K)[n] \in K /\ rank(InOrder(K)[n]) = n
  BY <1>1, <1>3
<1> QED BY <1>1, <1>2, <1>4, <1>5

(* Only lists what of a list is in a set. *)
LEMMA OnlyLists ==
  ASSUME NEW T, NEW list \in Seq(T), NEW S
  PROVE  /\ Only(list, S) \in Seq(T)
         /\ Range(Only(list, S)) = Range(list) \cap S
<1> DEFINE K == {i \in DOMAIN list : list[i] \in S}
           o == InOrder(K)
<1>1. DOMAIN list = 1 .. Len(list) /\ Len(list) \in Nat /\ K \subseteq 1 .. Len(list)
  OBVIOUS
<1>2. K \in SUBSET Nat /\ IsFiniteSet(K)
  <2>1. IsFiniteSet(1 .. Len(list)) /\ 1 .. Len(list) \in SUBSET Nat
    BY <1>1, FS_Interval
  <2> HIDE DEF K
  <2> QED BY <1>1, <2>1, FS_Subset
<1>3. Only(list, S) = [n \in DOMAIN o |-> list[o[n]]]
  BY DEF Only
<1>4. \A i \in K : list[i] \in T /\ list[i] \in S /\ i \in DOMAIN list
  BY <1>1
<1>5. \A i \in DOMAIN list : list[i] \in S => i \in K
  OBVIOUS
<1> HIDE DEF K
<1>6. /\ Cardinality(K) \in Nat /\ DOMAIN o = 1 .. Cardinality(K)
      /\ \A n \in 1 .. Cardinality(K) : o[n] \in K
      /\ \A k \in K : \E n \in 1 .. Cardinality(K) : o[n] = k
  BY <1>2, OrderLists
<1> HIDE DEF o
<1>7. Only(list, S) \in Seq(T)
  BY <1>3, <1>4, <1>6
<1>8. Range(Only(list, S)) = Range(list) \cap S
  <2>1. DOMAIN Only(list, S) = 1 .. Cardinality(K)
    BY <1>3, <1>6
  <2>2. \A n \in 1 .. Cardinality(K) : Only(list, S)[n] = list[o[n]] /\ o[n] \in K
    BY <1>3, <1>6
  <2>3. \A x \in Range(Only(list, S)) : x \in Range(list) /\ x \in S
    BY <1>4, <2>1, <2>2 DEF Range
  <2>4. ASSUME NEW x \in Range(list), x \in S PROVE x \in Range(Only(list, S))
    <3>1. PICK i \in DOMAIN list : x = list[i]
      BY DEF Range
    <3>2. PICK n \in 1 .. Cardinality(K) : o[n] = i
      BY <1>5, <1>6, <2>4, <3>1
    <3> QED BY <2>1, <2>2, <3>1, <3>2 DEF Range
  <2> QED BY <2>3, <2>4
<1> QED BY <1>7, <1>8

-----------------------------------------------------------------------------
(* Slots *)

(* A slot is a run of places of one device. *)
LEMMA SlotPlaces ==
  ASSUME NEW s \in Slots
  PROVE  /\ s[1] \in 1 .. Size /\ s[2] \in 1 .. Size /\ s[1] <= s[2] /\ s = <<s[1], s[2]>>
         /\ Size \in Nat
         /\ Places(s) \subseteq 1 .. Size /\ s[1] \in Places(s) /\ s[2] \in Places(s)
         /\ \A i \in Places(s) : DeviceOf[i] = Device(s)
<1>1. s[1] \in 1 .. Size /\ s[2] \in 1 .. Size /\ s[1] <= s[2] /\ s = <<s[1], s[2]>>
  BY DEF Slots
<1>2. DeviceOf[s[1]] = DeviceOf[s[2]] /\ Size \in Nat
  BY TableAssumption DEF Slots
<1> QED BY <1>1, <1>2, TableAssumption DEF Places, Device

(* Free slots: what is not taken, as far as it goes. *)
LEMMA FreeSlot ==
  ASSUME NEW parts, NEW s
  PROVE  /\ s \in FreeSlots(parts) => s \in Slots /\ Places(s) \cap Taken(parts) = {}
         /\ s \in FreeSlots(parts) <=>
              /\ s \in Slots /\ Places(s) \cap Taken(parts) = {}
              /\ ~(<<s[1] - 1, s[2]>> \in Slots /\ Places(<<s[1] - 1, s[2]>>) \cap Taken(parts) = {})
              /\ ~(<<s[1], s[2] + 1>> \in Slots /\ Places(<<s[1], s[2] + 1>>) \cap Taken(parts) = {})
BY DEF FreeSlots

(* No two rows begin at the same place. *)
LEMMA RowsDiffer ==
  ASSUME NEW parts, IsTable(parts), NEW s \in Rows(parts), NEW t \in Rows(parts), s[1] = t[1]
  PROVE  s = t
<1>1. s \in Slots /\ t \in Slots
  BY FreeSlot DEF Rows, IsTable, Partitions
<1>2. \A p \in parts : p.slot \in Slots /\ Places(p.slot) \subseteq Taken(parts)
  BY DEF Taken, IsTable, Partitions
<1>3. s[1] \in Places(s) /\ s[1] \in Places(t)
  BY <1>1, SlotPlaces
<1>4. CASE \E p \in parts : p.slot = s
  <2>1. PICK p \in parts : p.slot = s
    BY <1>4
  <2>2. s[1] \in Taken(parts)
    BY <1>2, <1>3, <2>1
  <2>3. t \notin FreeSlots(parts)
    BY <1>3, <2>2, FreeSlot
  <2>4. PICK q \in parts : q.slot = t
    BY <2>3 DEF Rows
  <2> QED BY <1>3, <2>1, <2>4 DEF IsTable
<1>5. CASE \E p \in parts : p.slot = t
  <2>1. PICK p \in parts : p.slot = t
    BY <1>5
  <2>2. s[1] \in Taken(parts)
    BY <1>2, <1>3, <2>1
  <2>3. s \notin FreeSlots(parts)
    BY <1>3, <2>2, FreeSlot
  <2>4. PICK q \in parts : q.slot = s
    BY <2>3 DEF Rows
  <2> QED BY <1>3, <2>1, <2>4 DEF IsTable
<1>6. CASE s \in FreeSlots(parts) /\ t \in FreeSlots(parts)
  <2>1. ASSUME NEW a \in FreeSlots(parts), NEW b \in FreeSlots(parts), a[1] = b[1], a[2] < b[2]
        PROVE  FALSE
    <3>1. /\ a \in Slots /\ b \in Slots /\ Places(b) \cap Taken(parts) = {}
          /\ ~(<<a[1], a[2] + 1>> \in Slots /\ Places(<<a[1], a[2] + 1>>) \cap Taken(parts) = {})
      BY FreeSlot
    <3>2. /\ a[1] \in 1 .. Size /\ a[2] \in 1 .. Size /\ a[1] <= a[2]
          /\ b[2] \in 1 .. Size /\ Size \in Nat
      BY <3>1, SlotPlaces
    <3>3. a[2] + 1 \in Places(b) /\ a[1] \in Places(b) /\ Places(<<a[1], a[2] + 1>>) \subseteq Places(b)
      BY <2>1, <3>2 DEF Places
    <3>4. DeviceOf[a[1]] = DeviceOf[a[2] + 1] /\ a[2] + 1 \in 1 .. Size
      BY <3>1, <3>3, SlotPlaces
    <3>5. <<a[1], a[2] + 1>> \in Slots
      BY <3>2, <3>4 DEF Slots
    <3> QED BY <3>1, <3>3, <3>5
  <2>2. s[2] \in Nat /\ t[2] \in Nat /\ s = <<s[1], s[2]>> /\ t = <<t[1], t[2]>>
    BY <1>1, SlotPlaces
  <2>3. ~(s[2] < t[2]) /\ ~(t[2] < s[2])
    BY <1>6, <2>1
  <2> QED BY <2>2, <2>3
<1> QED BY <1>4, <1>5, <1>6 DEF Rows

(* partman lists the rows of the table. *)
LEMMA EntriesListed ==
  ASSUME NEW parts, IsTable(parts)
  PROVE  /\ Rows(parts) \subseteq Slots
         /\ Entries(parts) \in Seq(Slots) /\ Range(Entries(parts)) = Rows(parts)
<1> DEFINE K == {s[1] : s \in Rows(parts)}
           o == InOrder(K)
<1>1. Rows(parts) \subseteq Slots
  BY FreeSlot DEF Rows, IsTable, Partitions
<1>2. K \in SUBSET Nat /\ IsFiniteSet(K)
  <2>1. \A s \in Rows(parts) : s[1] \in 1 .. Size
    BY <1>1, SlotPlaces
  <2>2. K \in SUBSET (1 .. Size)
    BY <2>1
  <2>3. IsFiniteSet(1 .. Size) /\ 1 .. Size \in SUBSET Nat
    BY FS_Interval, TableAssumption
  <2> HIDE DEF K
  <2> QED BY <2>2, <2>3, FS_Subset
<1>3. Entries(parts) = [n \in DOMAIN o |-> CHOOSE s \in Rows(parts) : s[1] = o[n]]
  BY DEF Entries
<1>4. (\A k \in K : \E s \in Rows(parts) : s[1] = k) /\ \A s \in Rows(parts) : s[1] \in K
  OBVIOUS
<1> HIDE DEF K
<1>5. /\ Cardinality(K) \in Nat /\ DOMAIN o = 1 .. Cardinality(K)
      /\ \A n \in 1 .. Cardinality(K) : o[n] \in K
      /\ \A k \in K : \E n \in 1 .. Cardinality(K) : o[n] = k
  BY <1>2, OrderLists
<1> HIDE DEF o
<1>6. DOMAIN Entries(parts) = 1 .. Cardinality(K)
  BY <1>3, <1>5
<1>7. \A n \in 1 .. Cardinality(K) : Entries(parts)[n] \in Rows(parts) /\ Entries(parts)[n][1] = o[n]
  BY <1>3, <1>4, <1>5
<1>8. Entries(parts) \in Seq(Slots)
  <2>1. \A n \in 1 .. Cardinality(K) : Entries(parts)[n] \in Slots
    BY <1>1, <1>7
  <2>2. Entries(parts) = [n \in 1 .. Cardinality(K) |-> Entries(parts)[n]]
    BY <1>3, <1>5
  <2> QED BY <1>5, <2>1, <2>2
<1>9. Range(Entries(parts)) = Rows(parts)
  <2>1. \A s \in Range(Entries(parts)) : s \in Rows(parts)
    BY <1>6, <1>7 DEF Range
  <2>2. ASSUME NEW s \in Rows(parts) PROVE s \in Range(Entries(parts))
    <3>1. PICK n \in 1 .. Cardinality(K) : o[n] = s[1]
      BY <1>4, <1>5
    <3>2. Entries(parts)[n] = s
      BY <1>7, <3>1, RowsDiffer
    <3> QED BY <1>6, <3>2 DEF Range
  <2> QED BY <2>1, <2>2
<1> QED BY <1>1, <1>8, <1>9

(* What is listed of one device *)
LEMMA EntriesOnListed ==
  ASSUME NEW parts, IsTable(parts), NEW d
  PROVE  /\ EntriesOn(parts, d) \in Seq(Slots)
         /\ Range(EntriesOn(parts, d)) = {s \in Rows(parts) : Device(s) = d}
<1>1. /\ Entries(parts) \in Seq(Slots) /\ Range(Entries(parts)) = Rows(parts)
  BY EntriesListed
<1>2. /\ EntriesOn(parts, d) \in Seq(Slots)
      /\ Range(EntriesOn(parts, d)) = Range(Entries(parts)) \cap {s \in Rows(parts) : Device(s) = d}
  BY <1>1, OnlyLists DEF EntriesOn
<1> QED BY <1>1, <1>2

(* A row is a partition, known by its slot, or free. *)
LEMMA Numbered ==
  ASSUME NEW parts, IsTable(parts)
  PROVE  /\ \A p \in parts : /\ p \in Partitions /\ p.slot \in Slots /\ p.slot \in Rows(parts)
                             /\ p.slot \notin FreeSlots(parts)
                             /\ At(parts, p.slot) = p /\ NumberOf(parts, p.slot) = p.num
                             /\ p.num \in Nat /\ p.num # 0
         /\ \A s \in FreeSlots(parts) : s \in Rows(parts) /\ NumberOf(parts, s) = 0
         /\ \A p, q \in parts : p.slot = q.slot => p = q
         /\ \A s \in Rows(parts) :
              /\ s \in Slots /\ NumberOf(parts, s) \in Nat
              /\ NumberOf(parts, s) = 0 => s \in FreeSlots(parts)
              /\ NumberOf(parts, s) # 0 => \E p \in parts : p.slot = s
<1>1. \A p \in parts : p \in Partitions /\ p.slot \in Slots /\ p.num \in Nat /\ p.num # 0
  BY DEF IsTable, Partitions
<1>2. \A p, q \in parts : p.slot = q.slot => p = q
  <2> SUFFICES ASSUME NEW p \in parts, NEW q \in parts, p.slot = q.slot, p # q PROVE FALSE
    OBVIOUS
  <2>1. p.slot[1] \in Places(p.slot) /\ Places(p.slot) \cap Places(q.slot) = {}
    BY <1>1, SlotPlaces DEF IsTable
  <2> QED BY <2>1
<1>3. \A p \in parts : p.slot \notin FreeSlots(parts)
  <2> SUFFICES ASSUME NEW p \in parts, p.slot \in FreeSlots(parts) PROVE FALSE
    OBVIOUS
  <2>1. p.slot[1] \in Places(p.slot)
    BY <1>1, SlotPlaces
  <2>2. p.slot[1] \in Taken(parts)
    BY <2>1 DEF Taken
  <2> QED BY <2>1, <2>2, FreeSlot
<1>4. \A p \in parts : At(parts, p.slot) = p /\ NumberOf(parts, p.slot) = p.num
  BY <1>2, <1>3 DEF At, NumberOf
<1>5. \A s \in FreeSlots(parts) : s \in Rows(parts) /\ NumberOf(parts, s) = 0
  BY DEF Rows, NumberOf
<1>6. \A s \in Rows(parts) : s \in FreeSlots(parts) \/ \E p \in parts : p.slot = s
  BY DEF Rows
<1>7. \A p \in parts : p.slot \in Rows(parts)
  BY DEF Rows
<1>8. Rows(parts) \subseteq Slots
  BY EntriesListed
<1> QED BY <1>1, <1>2, <1>3, <1>4, <1>5, <1>6, <1>7, <1>8

(* What is free on a device depends on what is taken on it. *)
LEMMA FreeOnDevice ==
  ASSUME NEW parts, NEW others, NEW s,
         \A i \in 1 .. Size : DeviceOf[i] = Device(s) => (i \in Taken(parts) <=> i \in Taken(others)),
         s \in FreeSlots(parts)
  PROVE  s \in FreeSlots(others)
<1>1. /\ s \in Slots /\ Places(s) \cap Taken(parts) = {}
      /\ ~(<<s[1] - 1, s[2]>> \in Slots /\ Places(<<s[1] - 1, s[2]>>) \cap Taken(parts) = {})
      /\ ~(<<s[1], s[2] + 1>> \in Slots /\ Places(<<s[1], s[2] + 1>>) \cap Taken(parts) = {})
  BY FreeSlot
<1>2. ASSUME NEW t \in Slots, t[1] = s[1] \/ t[2] = s[2]
      PROVE  Places(t) \cap Taken(parts) = {} <=> Places(t) \cap Taken(others) = {}
  <2>1. /\ Places(t) \subseteq 1 .. Size /\ \A i \in Places(t) : DeviceOf[i] = Device(t)
        /\ t[2] \in Places(t) /\ s[2] \in Places(s) /\ DeviceOf[s[2]] = Device(s)
    BY <1>1, SlotPlaces
  <2>2. Device(t) = Device(s)
    BY <1>2, <2>1 DEF Device
  <2> QED BY <2>1, <2>2
<1>3. Places(s) \cap Taken(others) = {}
  BY <1>1, <1>2
<1>4. /\ <<s[1] - 1, s[2]>>[2] = s[2] /\ <<s[1], s[2] + 1>>[1] = s[1]
  OBVIOUS
<1> QED BY <1>1, <1>2, <1>3, <1>4, FreeSlot

(* A change of the partitions of other devices leaves the rows of a device *)
(* as they are.                                                            *)
LEMMA RowsElsewhere ==
  ASSUME NEW parts, NEW others, IsTable(parts), IsTable(others), NEW s \in Rows(others),
         \A p : p \in parts \cup others /\ Device(p.slot) = Device(s) => (p \in parts <=> p \in others)
  PROVE  /\ s \in Rows(parts) /\ NumberOf(parts, s) = NumberOf(others, s)
         /\ \A p \in others : p.slot = s => p \in parts
<1>1. ASSUME NEW i \in 1 .. Size, DeviceOf[i] = Device(s)
      PROVE  i \in Taken(others) <=> i \in Taken(parts)
  <2>1. ASSUME NEW p, p \in parts \/ p \in others, i \in Places(p.slot)
        PROVE  p \in parts <=> p \in others
    <3>1. p.slot \in Slots
      BY <2>1, Numbered
    <3>2. Device(p.slot) = Device(s)
      BY <1>1, <2>1, <3>1, SlotPlaces
    <3> QED BY <2>1, <3>2
  <2> QED BY <2>1 DEF Taken
<1>2. \A p \in others : p.slot = s => p \in parts
  OBVIOUS
<1>3. CASE s \in FreeSlots(others)
  <2>1. s \in FreeSlots(parts)
    BY <1>1, <1>3, FreeOnDevice
  <2> QED BY <1>2, <1>3, <2>1, Numbered
<1>4. CASE s \notin FreeSlots(others)
  <2>1. PICK p \in others : p.slot = s
    BY <1>4 DEF Rows
  <2>2. p \in parts
    BY <1>2, <2>1
  <2> QED BY <1>2, <2>1, <2>2, Numbered
<1> QED BY <1>3, <1>4

(* Where something is free there is a free slot. *)
LEMMA FreeCovers ==
  ASSUME NEW parts, NEW s \in Slots, Places(s) \cap Taken(parts) = {}
  PROVE  \E t \in FreeSlots(parts) : Device(t) = Device(s)
<1> DEFINE T == {t \in Slots : Places(t) \cap Taken(parts) = {} /\ Device(t) = Device(s)}
           N == {Size - (t[2] - t[1]) : t \in T}
<1>1. \A t \in T : /\ t \in Slots /\ Places(t) \cap Taken(parts) = {} /\ Device(t) = Device(s)
                   /\ Size - (t[2] - t[1]) \in Nat
  BY SlotPlaces
<1>2. N \in SUBSET Nat /\ N # {}
  <2>1. s \in T
    OBVIOUS
  <2> HIDE DEF T
  <2> QED BY <1>1, <2>1
<1>3. \A t \in Slots : Places(t) \cap Taken(parts) = {} /\ Device(t) = Device(s) => t \in T
  OBVIOUS
<1>4. \A t \in T : Size - (t[2] - t[1]) \in N
  BY Zenon
<1>5. \A n \in N : \E t \in T : n = Size - (t[2] - t[1])
  BY Zenon
<1> HIDE DEF T, N
<1>6. PICK n \in N : \A m \in N : n <= m
  BY <1>2, LeastNumber
<1>7. PICK t \in T : n = Size - (t[2] - t[1])
  BY <1>5
<1>8. t \in Slots /\ t[1] \in Nat /\ t[2] \in Nat /\ Size \in Nat
  BY <1>1, SlotPlaces
<1>9. ASSUME NEW u \in Slots, u[2] - u[1] = t[2] - t[1] + 1, Places(u) \cap Taken(parts) = {},
             Device(u) = Device(s)
      PROVE  FALSE
  <2>1. Size - (u[2] - u[1]) \in N
    BY <1>3, <1>4, <1>9
  <2>2. u[1] \in Nat /\ u[2] \in Nat
    BY SlotPlaces
  <2> QED BY <1>6, <1>7, <1>8, <1>9, <2>1, <2>2
<1>10. ~(<<t[1] - 1, t[2]>> \in Slots /\ Places(<<t[1] - 1, t[2]>>) \cap Taken(parts) = {})
  <2> DEFINE u == <<t[1] - 1, t[2]>>
  <2> SUFFICES ASSUME u \in Slots, Places(u) \cap Taken(parts) = {} PROVE FALSE
    BY Zenon
  <2>1. u[2] = t[2] /\ u[1] = t[1] - 1
    OBVIOUS
  <2> HIDE DEF u
  <2>2. DeviceOf[u[2]] = Device(u) /\ DeviceOf[t[2]] = Device(t) /\ Device(t) = Device(s)
    BY <1>1, <1>8, SlotPlaces
  <2>3. u[2] - u[1] = t[2] - t[1] + 1
    BY <1>8, <2>1
  <2> QED BY <1>9, <2>1, <2>2, <2>3
<1>11. ~(<<t[1], t[2] + 1>> \in Slots /\ Places(<<t[1], t[2] + 1>>) \cap Taken(parts) = {})
  <2> DEFINE u == <<t[1], t[2] + 1>>
  <2> SUFFICES ASSUME u \in Slots, Places(u) \cap Taken(parts) = {} PROVE FALSE
    BY Zenon
  <2>1. u[2] = t[2] + 1 /\ u[1] = t[1]
    OBVIOUS
  <2> HIDE DEF u
  <2>2. Device(u) = Device(s)
    BY <1>1, <2>1 DEF Device
  <2>3. u[2] - u[1] = t[2] - t[1] + 1
    BY <1>8, <2>1
  <2> QED BY <1>9, <2>2, <2>3
<1>12. t \in FreeSlots(parts) /\ Device(t) = Device(s)
  BY <1>1, <1>8, <1>10, <1>11, FreeSlot
<1> QED BY <1>12

-----------------------------------------------------------------------------
(* The inductive invariant *)

Ons == {Nothing, <<"crypto">>, <<"auto">>, <<"manual">>} \cup Slots \cup Range(DeviceOf)
Questions ==
  {"init", "auto", "select_disk", "passphrase", "choose", "confirm_new_label", "free_space",
   "new_partition_size", "active", "choose_method", "mountpoint", "mountpoint_manual",
   "confirm_resize", "new_size", "crypto", "confirm", "done", "left", "died"}
Words == {"resize", "reuse", "some_device", "some_device_crypto", "manual"}
Menus == [q : {"none", "choose", "active"}, on : Ons, todo : Seq({"method", "mountpoint", "resize"})]
Info == [num : Nat, method : STRING, mount : STRING]
IsCache(cache) == DOMAIN cache \subseteq Slots /\ cache \in [DOMAIN cache -> Info]
IsBuild(b) ==
  /\ b \in [on : BOOLEAN, menus : Seq(Menus), updates : {NoList} \cup Seq(Slots \cup {ALL}),
            cache : {b.cache}, order : Seq(Slots), progress : BOOLEAN]
  /\ IsCache(b.cache)
Bads == SUBSET {"size", "mountpoint"}
Creations == [is : {"create"}, on : Slots, size : Nat, place : {"Beginning", "End"},
              method : STRING, mount : STRING, bad : Bads]
Edits == [is : {"edit"}, on : Slots, size : Nat, method : STRING, mount : STRING, bad : Bads]
Requests ==
  {NoRequest} \cup Creations \cup Edits
    \cup [is : {"delete"}, on : Slots, bad : Bads]
    \cup [is : {"label"}, on : Range(DeviceOf), bad : Bads] \cup [is : {"undo"}, bad : Bads]

TypeInv ==
  /\ turn \in {"partman", "page", "user", "over"}
  /\ partman \in [q : Questions, on : Ons, parts : SUBSET Partitions, autoDone : BOOLEAN]
  /\ IsTable(partman.parts)
  /\ complete \in BOOLEAN /\ frozen \subseteq {"choose", "active"}
  /\ IsBuild(build)
  /\ auto \in [walk : Nat, extra : SUBSET Words, asking : BOOLEAN, badSize : BOOLEAN,
               choice : Words \cup {"none"}, crypto : BOOLEAN]
  /\ request \in Requests
  /\ view \in {"ask", "auto", "crypto", "advanced"}

(* Automatic partitioning, before anything is read. *)
InAuto ==
  \/ partman.q \in {"init", "auto", "select_disk"}
  \/ partman.q \in {"confirm_resize", "new_size"} /\ partman.on = Nothing
  \/ partman.q = "passphrase" /\ partman.on = <<"auto">>

Choosing ==
  /\ \/ InAuto
     \/ partman.q = "confirm" /\ auto.asking
     \/ partman.q = "choose" /\ turn = "page"
  /\ build.on /\ build.menus = <<Bottom>> /\ build.updates = NoList /\ ~build.progress
  /\ frozen = {} /\ complete /\ request = NoRequest /\ ~auto.crypto
  /\ InAuto => partman.parts = Initial
  /\ InAuto /\ partman.q \notin {"init", "auto"} => auto.asking
  /\ partman.q = "init" \/ partman.autoDone \/ (partman.q = "confirm" /\ turn = "partman")
  /\ turn = "user" =>
       /\ partman.q = "auto" /\ "manual" \in auto.extra /\ auto.asking
       /\ view # "advanced"
       /\ view # "ask" => auto.choice \in Words
  /\ turn = "partman" /\ partman.q = "auto" => auto.asking /\ answer.is \in Words \cup {"back"}
  /\ turn = "partman" /\ partman.q = "confirm" =>
       answer.is = "true" \/ (partman.parts = Initial /\ ~partman.autoDone)

(* What the cache says of a row is what partman has. *)
FreshIn(parts, cache, s) ==
  /\ s \in DOMAIN cache /\ cache[s].num = NumberOf(parts, s)
  /\ InUse(s) \/ \A p \in parts : p.slot = s => cache[s].method = p.method
                                              /\ cache[s].mount = p.mount

IsPart(parts, s) == \E p \in parts : p.slot = s

(* The table is read: one partition is open, the others on the list wait.  *)
Opened == build.menus[2].on
Unread ==
  /\ Len(build.menus) = 2
  /\ (partman.q = "choose" /\ turn = "partman") \/ (partman.q = "active" /\ turn = "page")
Reading ==
  /\ build.on /\ ~auto.asking /\ turn \in {"partman", "page"} /\ partman.autoDone
  /\ Len(build.menus) \in {2, 3} /\ build.menus[1] = Bottom
  /\ build.menus[2].q = "choose" /\ Opened \in Slots
  /\ Len(build.menus) = 3 => build.menus[3].q = "active" /\ build.menus[3].on = Opened
  /\ IsPart(partman.parts, Opened) /\ Opened \notin LockedParts
  /\ build.order = Entries(partman.parts) /\ build.updates # NoList
  /\ \A s \in Range(build.updates) \cup {Opened} :
       /\ s \in Rows(partman.parts) /\ s \in Cached
       /\ build.cache[s].num = NumberOf(partman.parts, s)
  /\ \A s \in Rows(partman.parts) :
       \/ FreshIn(partman.parts, build.cache, s)
       \/ s \in Range(build.updates)
       \/ s = Opened /\ Unread
  /\ \/ /\ partman.q = "choose" /\ turn = "page" /\ Len(build.menus) = 2
        /\ frozen \subseteq {"choose"}
        /\ complete \/ Tidied(build.cache, build.updates) # <<>>
     \/ /\ partman.q = "choose" /\ turn = "partman" /\ Len(build.menus) = 2
        /\ frozen \subseteq {"choose"} /\ answer.is = "partition" /\ answer.on = Opened
     \/ /\ partman.q = "active" /\ turn = "page" /\ partman.on = Opened
        /\ Len(build.menus) = 2 => frozen \subseteq {"choose"}
     \/ /\ partman.q = "active" /\ turn = "partman" /\ partman.on = Opened
        /\ Len(build.menus) = 3 => answer.is = "resize"
        /\ Len(build.menus) = 2 =>
             /\ answer.is = "back" /\ frozen \subseteq {"choose"}
             /\ "choose" \in frozen => Tidied(build.cache, build.updates) # <<>>
     \/ partman.q = "confirm_resize" /\ partman.on = Opened /\ Len(build.menus) = 3
     \/ /\ partman.q = "new_size" /\ partman.on = Opened /\ Len(build.menus) = 3
        /\ turn = "partman" => answer.is = "back"

(* The table is read and partman has told of every change since. *)
ToldIn(b) == IF b.updates = NoList THEN {} ELSE Range(b.updates)
Known(parts, b) ==
  /\ b.updates # <<>>
  /\ b.updates = NoList => b.order = Entries(parts)
  /\ ALL \in ToldIn(b) \/ \A s \in Rows(parts) \ ToldIn(b) : FreshIn(parts, b.cache, s)

FitsIn(r, s) == r.size \in 1 .. Cardinality(Places(s))
WantsRow(parts, r) ==
  \/ r.is = "create" /\ r.on \in FreeSlots(parts) /\ FitsIn(r, r.on)
  \/ r.is \in {"edit", "delete"} /\ IsPart(parts, r.on) /\ r.on \notin LockedParts

(* A question the page expects, given what is requested. *)
Asks(p, r) ==
  \/ p.q = "choose" /\ r.is # "delete"
  \/ p.q = "confirm_new_label" /\ r.is = "label" /\ p.on \in Range(DeviceOf)
  \/ /\ p.q \in {"free_space", "new_partition_size"} /\ r.is = "create"
     /\ p.on = r.on /\ WantsRow(p.parts, r)
  \/ /\ p.q = "active" /\ r.is \in {"create", "edit", "delete"}
     /\ IsPart(p.parts, p.on)
  \/ /\ p.q \in {"choose_method", "mountpoint", "mountpoint_manual"}
     /\ r.is \in {"create", "edit"} /\ IsPart(p.parts, p.on)
  \/ /\ p.q \in {"confirm_resize", "new_size"} /\ r.is = "edit"
     /\ IsPart(p.parts, p.on)
  \/ p.q = "crypto" /\ r = NoRequest
  \/ p.q = "passphrase" /\ r = NoRequest /\ p.on = <<"manual">>
  \/ p.q = "confirm" /\ r = NoRequest

(* An answer partman knows what to do with. *)
Answers(p, r, a) ==
  \/ /\ p.q = "choose"
     /\ \/ a.is = "undo" /\ r.is = "undo"
        \/ a.is = "crypto" /\ r = NoRequest /\ auto.crypto
        \/ a.is \in {"back", "finish"} /\ r = NoRequest
        \/ a.is = "device" /\ r.is = "label" /\ a.on \in Range(DeviceOf)
        \/ a.is = "partition" /\ a.on = r.on /\ WantsRow(p.parts, r)
  \/ /\ p.q \in {"confirm_new_label", "free_space", "confirm_resize", "crypto", "passphrase", "confirm"}
     /\ Asks(p, r)
  \/ /\ p.q = "new_partition_size" /\ Asks(p, r)
     /\ a.is = "back" \/ (a.is = "size" /\ a.size = r.size /\ a.place = r.place)
  \/ /\ p.q = "active" /\ IsPart(p.parts, p.on)
     /\ \/ a.is = "delete" /\ r = NoRequest
        \/ a.is \in {"finish", "method", "mountpoint"} /\ r.is \in {"create", "edit"}
        \/ a.is = "resize" /\ r.is = "edit"
  \/ /\ p.q = "choose_method" /\ Asks(p, r) /\ a.is = "method" /\ a.method \in STRING
  \/ /\ p.q \in {"mountpoint", "mountpoint_manual"} /\ Asks(p, r)
     /\ a.is = "back" \/ (a.is = "mount" /\ a.mount \in STRING)
  \/ /\ p.q = "new_size" /\ Asks(p, r)
     /\ a.is = "back" \/ (a.is = "size" /\ a.size = r.size)

Doing ==
  /\ turn = "user" => /\ partman.q = "choose" /\ request = NoRequest /\ view = "advanced"
                      /\ build.updates = NoList /\ build.menus = <<Bottom>>
  /\ turn = "page" => Asks(partman, request) /\ (partman.q = "crypto" => auto.crypto)
  /\ turn = "partman" => Answers(partman, request, answer)

Waiting ==
  /\ ~build.on /\ ~auto.asking /\ partman.autoDone /\ ~build.progress
  /\ frozen = {} /\ complete
  /\ Known(partman.parts, build)
  /\ Len(build.menus) > 0 /\ build.menus[1] = Bottom
  /\ request.is = "create" =>
       \A i \in DOMAIN build.menus : "resize" \notin Range(build.menus[i].todo)
  /\ Doing

OnCourse ==
  /\ TypeInv
  /\ failure = "none"
  /\ IF turn = "over" THEN partman.q \in {"done", "left", "died"}
     ELSE Choosing \/ Reading \/ Waiting

-----------------------------------------------------------------------------
(* Changes of the table *)

LEMMA RangeConcat ==
  ASSUME NEW T, NEW s \in Seq(T), NEW t \in Seq(T)
  PROVE  Range(s \o t) = Range(s) \cup Range(t) /\ s \o t \in Seq(T)
<1>1. /\ s \o t \in Seq(T) /\ Len(s \o t) = Len(s) + Len(t) /\ Len(s) \in Nat /\ Len(t) \in Nat
      /\ \A i \in 1 .. Len(s) + Len(t) : (s \o t)[i] = IF i <= Len(s) THEN s[i] ELSE t[i - Len(s)]
  OBVIOUS
<1>2. Range(s \o t) \subseteq Range(s) \cup Range(t)
  BY <1>1 DEF Range
<1>3. \A i \in 1 .. Len(s) : s[i] \in Range(s \o t)
  BY <1>1 DEF Range
<1>4. ASSUME NEW i \in 1 .. Len(t) PROVE t[i] \in Range(s \o t)
  <2>1. (s \o t)[Len(s) + i] = t[i] /\ Len(s) + i \in DOMAIN (s \o t)
    BY <1>1
  <2> QED BY <2>1 DEF Range
<1>5. Range(s) \subseteq Range(s \o t)
  BY <1>3 DEF Range
<1>6. Range(t) \subseteq Range(s \o t)
  BY <1>4 DEF Range
<1> QED BY <1>1, <1>2, <1>5, <1>6

(* What is appended comes last. *)
LEMMA AppendedTo ==
  ASSUME NEW T, NEW s \in Seq(T), NEW x \in T
  PROVE  Len(s) = 2 =>
           LET t == Append(s, x)
           IN  t \in Seq(T) /\ Len(t) = 3 /\ t[1] = s[1] /\ t[2] = s[2] /\ t[3] = x
<1>1. PICK t : t = Append(s, x)
  OBVIOUS
<1>2. t \in Seq(T) /\ Len(t) = Len(s) + 1
  BY <1>1
<1>3. ASSUME NEW i \in 1 .. Len(s) PROVE t[i] = s[i]
  BY <1>1
<1>4. t[Len(s) + 1] = x
  BY <1>1
<1>5. ASSUME Len(s) = 2
      PROVE  t \in Seq(T) /\ Len(t) = 3 /\ t[1] = s[1] /\ t[2] = s[2] /\ t[3] = x
  <2>1. 1 \in 1 .. Len(s) /\ 2 \in 1 .. Len(s) /\ Len(s) + 1 = 3
    BY <1>5
  <2> QED BY <1>2, <1>3, <1>4, <2>1, Zenon
<1> QED BY <1>1, <1>5, Zenon

LEMMA Pair ==
  ASSUME NEW T, NEW x \in T, NEW y \in T, NEW t, t = Append(<<x>>, y)
  PROVE  t \in Seq(T) /\ Len(t) = 2 /\ t[1] = x /\ t[2] = y
<1>1. PICK s : s = <<x>>
  OBVIOUS
<1>2. s \in Seq(T) /\ Len(s) = 1 /\ s[1] = x /\ t = Append(s, y)
  BY <1>1
<1>3. ASSUME NEW i \in 1 .. Len(s) PROVE t[i] = s[i]
  BY <1>2
<1>4. t \in Seq(T) /\ Len(t) = Len(s) + 1 /\ t[Len(s) + 1] = y
  BY <1>2
<1>5. 1 \in 1 .. Len(s) /\ Len(s) + 1 = 2
  BY <1>2
<1> QED BY <1>2, <1>3, <1>4, <1>5, Zenon

LEMMA RangeEmpty ==
  ASSUME NEW T, NEW s \in Seq(T)
  PROVE  /\ s = <<>> <=> Range(s) = {}
         /\ Range(s) \subseteq T
         /\ s # <<>> => Head(s) \in Range(s) /\ Tail(s) \in Seq(T) /\ Range(s) = {Head(s)} \cup Range(Tail(s))
<1>1. s = <<>> <=> Len(s) = 0
  OBVIOUS
<1>2. s # <<>> => s[1] \in Range(s) /\ Head(s) = s[1]
  BY <1>1 DEF Range
<1>3. ASSUME s # <<>> PROVE Tail(s) \in Seq(T) /\ Range(s) = {Head(s)} \cup Range(Tail(s))
  <2>1. /\ Tail(s) \in Seq(T) /\ Len(Tail(s)) = Len(s) - 1 /\ Len(s) \in Nat /\ Len(s) # 0
        /\ \A i \in 1 .. Len(s) - 1 : Tail(s)[i] = s[i + 1]
    BY <1>3
  <2>2. \A x \in Range(Tail(s)) : x \in Range(s)
    BY <2>1 DEF Range
  <2>3. ASSUME NEW i \in DOMAIN s PROVE s[i] \in {Head(s)} \cup Range(Tail(s))
    <3>1. CASE i = 1
      BY <1>2, <1>3, <3>1
    <3>2. CASE i # 1
      <4>1. i - 1 \in 1 .. Len(s) - 1 /\ i \in Nat
        BY <3>2
      <4>2. Tail(s)[i - 1] = s[i] /\ i - 1 \in DOMAIN Tail(s)
        BY <2>1, <4>1
      <4> QED BY <4>2 DEF Range
    <3> QED BY <3>1, <3>2
  <2> QED BY <1>2, <1>3, <2>1, <2>2, <2>3 DEF Range
<1>4. Range(s) \subseteq T
  BY DEF Range
<1>5. s = <<>> => Range(s) = {}
  BY DEF Range
<1> QED BY <1>2, <1>3, <1>4, <1>5

(* There is a number for a new partition. *)
LEMMA NumberLeft ==
  ASSUME NEW parts, IsTable(parts), NEW d
  PROVE  NextNumber(parts, d) \in Nat \ {0}
<1> DEFINE Has(n) == \E p \in parts : Device(p.slot) = d /\ p.num = n
           begin == [p \in parts |-> p.slot[1]]
           N == 1 .. Size + 1
<1>1. Size \in Nat /\ IsFiniteSet(1 .. Size) /\ Cardinality(1 .. Size) = Size
      /\ IsFiniteSet(N) /\ Cardinality(N) = Size + 1
  BY TableAssumption, FS_Interval
<1>2. IsFiniteSet(parts) /\ Cardinality(parts) <= Size
  <2>1. begin \in [parts -> 1 .. Size]
    BY Numbered, SlotPlaces
  <2>2. \A p, q \in parts : begin[p] = begin[q] => p = q
    <3> SUFFICES ASSUME NEW p \in parts, NEW q \in parts, p.slot[1] = q.slot[1] PROVE p = q
      OBVIOUS
    <3> QED BY Numbered, RowsDiffer
  <2>3. begin \in Injection(parts, 1 .. Size)
    BY <2>1, <2>2 DEF Injection, IsInjective
  <2> QED BY <1>1, <2>3, FS_Injection
<1>3. \E n \in N : ~Has(n)
  <2> SUFFICES ASSUME \A n \in N : Has(n) PROVE FALSE
    OBVIOUS
  <2> DEFINE owner == [n \in N |-> CHOOSE p \in parts : Device(p.slot) = d /\ p.num = n]
  <2>1. \A n \in N : owner[n] \in parts /\ owner[n].num = n
    OBVIOUS
  <2>2. owner \in [N -> parts]
    <3>1. owner = [n \in N |-> owner[n]]
      OBVIOUS
    <3> HIDE DEF owner
    <3> QED BY <2>1, <3>1
  <2>3. \A m, n \in N : owner[m] = owner[n] => m = n
    <3> HIDE DEF owner
    <3> QED BY <2>1
  <2> HIDE DEF owner
  <2>4. owner \in Injection(N, parts)
    BY <2>2, <2>3 DEF Injection, IsInjective
  <2>5. Cardinality(N) <= Cardinality(parts)
    BY <1>2, <2>4, FS_Injection
  <2>6. Cardinality(parts) \in Nat
    BY <1>2, FS_CardinalityType
  <2> QED BY <1>1, <1>2, <2>5, <2>6
<1>4. {n \in N : ~Has(n)} \in SUBSET Nat /\ {n \in N : ~Has(n)} # {}
  <2>1. N \in SUBSET Nat
    BY <1>1
  <2> HIDE DEF N, Has
  <2> QED BY <1>3, <2>1
<1>5. PICK n \in N : ~Has(n) /\ \A m \in N : ~Has(m) => n <= m
  <2> DEFINE S == {n \in N : ~Has(n)}
  <2>1. \E x \in S : \A y \in S : x <= y
    BY <1>4, LeastNumber
  <2> QED BY <2>1
<1>6. \A m \in 1 .. n - 1 : Has(m)
  BY <1>1, <1>5
<1>7. \E x \in N : /\ \A p \in parts : Device(p.slot) = d => p.num # x
                   /\ \A m \in 1 .. x - 1 : \E p \in parts : Device(p.slot) = d /\ p.num = m
  BY <1>5, <1>6
<1>8. NextNumber(parts, d) \in N
  BY <1>7 DEF NextNumber
<1> QED BY <1>1, <1>8

(* partman tells of all that becomes another row. *)
TellsAll(parts, others, news) ==
  /\ news \in Seq(Slots \cup {ALL})
  /\ \/ ALL \in Range(news)
     \/ /\ news = <<>> => others = parts
        /\ \A s \in Rows(others) \ Range(news) :
             /\ s \in Rows(parts) /\ NumberOf(parts, s) = NumberOf(others, s)
             /\ \A p \in others : p.slot = s => p \in parts

(* To tell of a device is enough when others are left alone. *)
LEMMA DeviceTold ==
  ASSUME NEW parts, NEW others, IsTable(parts), IsTable(others), NEW d,
         \A p : p \in parts \cup others /\ Device(p.slot) # d => (p \in parts <=> p \in others),
         NEW t \in Rows(others), Device(t) = d
  PROVE  TellsAll(parts, others, EntriesOn(others, d))
<1>1. /\ EntriesOn(others, d) \in Seq(Slots)
      /\ Range(EntriesOn(others, d)) = {s \in Rows(others) : Device(s) = d}
  BY EntriesOnListed
<1>2. EntriesOn(others, d) # <<>>
  <2>1. t \in Range(EntriesOn(others, d))
    BY <1>1
  <2> QED BY <2>1, <1>1, RangeEmpty
<1>3. ASSUME NEW s \in Rows(others) \ Range(EntriesOn(others, d))
      PROVE  /\ s \in Rows(parts) /\ NumberOf(parts, s) = NumberOf(others, s)
             /\ \A p \in others : p.slot = s => p \in parts
  <2>1. Device(s) # d
    BY <1>1, <1>3
  <2>2. \A p : p \in parts \cup others /\ Device(p.slot) = Device(s) => (p \in parts <=> p \in others)
    BY <2>1
  <2> QED BY <1>3, <2>2, RowsElsewhere
<1>4. EntriesOn(others, d) \in Seq(Slots \cup {ALL})
  BY <1>1
<1> QED BY <1>2, <1>3, <1>4 DEF TellsAll

(* What was known stays known with what partman tells. *)
LEMMA HeardIsKnown ==
  ASSUME NEW parts, NEW others, NEW news, TellsAll(parts, others, news),
         NEW b, IsBuild(b), ~b.on, Known(parts, b)
  PROVE  /\ IsBuild(Heard(b, news)) /\ Known(others, Heard(b, news))
         /\ Heard(b, news) = [b EXCEPT !.updates = Heard(b, news).updates]
<1> DEFINE known == IF b.updates = NoList THEN <<>> ELSE b.updates
           fresh == Only(news, Range(news) \ Range(known))
<1>1. news \in Seq(Slots \cup {ALL}) /\ known \in Seq(Slots \cup {ALL})
  BY DEF TellsAll, IsBuild
<1>2. CASE news = <<>>
  <2>1. Heard(b, news) = b
    BY <1>2 DEF Heard
  <2>2. others = parts
    BY <1>2 DEF TellsAll, Range
  <2>3. b = [b EXCEPT !.updates = b.updates]
    BY DEF IsBuild
  <2> QED BY <2>1, <2>2, <2>3
<1>3. CASE news # <<>>
  <2>1. /\ fresh \in Seq(Slots \cup {ALL})
        /\ Range(fresh) = Range(news) \cap (Range(news) \ Range(known))
    BY <1>1, OnlyLists, Zenon
  <2>2. Heard(b, news) = [b EXCEPT !.updates = known \o fresh]
    BY <1>3 DEF Heard
  <2>3. ToldIn(b) = Range(known)
    <3>1. Range(<<>>) = {}
      BY DEF Range
    <3> QED BY <3>1 DEF ToldIn
  <2> HIDE DEF known, fresh
  <2>4. /\ known \o fresh \in Seq(Slots \cup {ALL})
        /\ Range(known \o fresh) = Range(known) \cup Range(news)
    BY <1>1, <2>1, RangeConcat
  <2>5. known \o fresh # <<>> /\ known \o fresh # NoList
    <3>1. Range(known \o fresh) # {} /\ Range(known \o fresh) \subseteq Slots \cup {ALL}
      BY <1>1, <1>3, <2>4, RangeEmpty
    <3>2. <<>> \notin Slots \cup {ALL} /\ <<>> \in Range(NoList)
      BY DEF Slots, ALL, NoList, Range
    <3>3. <<>> \notin Range(known \o fresh)
      BY <3>1, <3>2
    <3>4. known \o fresh # <<>>
      BY <2>4, <3>1, RangeEmpty
    <3> QED BY <3>2, <3>3, <3>4
  <2>6. /\ Heard(b, news).updates = known \o fresh /\ Heard(b, news).cache = b.cache
        /\ IsBuild(Heard(b, news))
    BY <2>2, <2>4 DEF IsBuild
  <2>7. ToldIn(Heard(b, news)) = ToldIn(b) \cup Range(news)
    BY <2>3, <2>4, <2>5, <2>6 DEF ToldIn
  <2>8. ALL \in ToldIn(Heard(b, news))
        \/ \A s \in Rows(others) \ ToldIn(Heard(b, news)) : FreshIn(others, b.cache, s)
    <3> SUFFICES ASSUME ALL \notin ToldIn(Heard(b, news)),
                        NEW s \in Rows(others), s \notin ToldIn(b), s \notin Range(news)
                 PROVE  FreshIn(others, b.cache, s)
      BY <2>7
    <3>1. /\ s \in Rows(parts) /\ NumberOf(parts, s) = NumberOf(others, s)
          /\ \A p \in others : p.slot = s => p \in parts
      BY <2>7 DEF TellsAll
    <3>2. FreshIn(parts, b.cache, s)
      BY <2>7, <3>1 DEF Known
    <3> QED BY <3>1, <3>2 DEF FreshIn
  <2> QED BY <2>2, <2>5, <2>6, <2>8 DEF Known
<1> QED BY <1>2, <1>3

(* Fewer partitions make a table. *)
LEMMA Smaller ==
  ASSUME NEW parts, IsTable(parts), NEW others, others \subseteq parts
  PROVE  IsTable(others)
BY DEF IsTable

(* To use a partition otherwise makes a table, and a change of that row.   *)
LEMMA UsedOtherwise ==
  ASSUME NEW parts, IsTable(parts), NEW p \in parts,
         NEW q \in Partitions, q.slot = p.slot, q.num = p.num,
         NEW others, others = {r \in parts : r.slot # q.slot} \cup {q}
  PROVE  /\ IsTable(others) /\ q \in others
         /\ TellsAll(parts, others, <<p.slot>>)
<1>1. p.slot \in Slots /\ \A r \in parts : r.slot = p.slot => r = p
  BY Numbered
<1>2. others \subseteq Partitions /\ q \in others
  BY DEF IsTable
<1>3. \A r \in others : r = q \/ (r \in parts /\ r # p)
  BY <1>1
<1>4. \A r, t \in others : r # t => Places(r.slot) \cap Places(t.slot) = {}
  <2> SUFFICES ASSUME NEW r \in others, NEW t \in others, r # t
               PROVE  Places(r.slot) \cap Places(t.slot) = {}
    OBVIOUS
  <2>1. CASE r = q
    BY <1>3, <2>1 DEF IsTable
  <2>2. CASE t = q
    BY <1>3, <2>2 DEF IsTable
  <2>3. CASE r # q /\ t # q
    BY <1>3, <2>3 DEF IsTable
  <2> QED BY <2>1, <2>2, <2>3
<1>5. IsTable(others)
  BY <1>2, <1>4 DEF IsTable
<1>7. \A i : i \in Taken(others) <=> i \in Taken(parts)
  <2>1. \A i : i \in Taken(others) => i \in Taken(parts)
    BY <1>3 DEF Taken
  <2>2. ASSUME NEW r \in parts, NEW i \in Places(r.slot) PROVE i \in Taken(others)
    <3>1. CASE r = p
      BY <1>2, <2>2, <3>1 DEF Taken
    <3>2. CASE r # p
      <4>1. r \in others
        BY <1>1, <3>2
      <4> QED BY <2>2, <4>1 DEF Taken
    <3> QED BY <3>1, <3>2
  <2>3. \A i \in Taken(parts) : \E r \in parts : i \in Places(r.slot)
    BY DEF Taken
  <2> QED BY <2>1, <2>2, <2>3
<1>8. ASSUME NEW s \in Rows(others), s # p.slot
      PROVE  /\ s \in Rows(parts) /\ NumberOf(parts, s) = NumberOf(others, s)
             /\ \A r \in others : r.slot = s => r \in parts
  <2>1. \A r \in others : r.slot = s => r \in parts
    BY <1>3, <1>8
  <2>2. CASE s \in FreeSlots(others)
    <3>1. s \in FreeSlots(parts)
      BY <1>7, <2>2, FreeOnDevice
    <3> QED BY <1>5, <2>1, <2>2, <3>1, Numbered
  <2>3. CASE s \notin FreeSlots(others)
    <3>1. PICK r \in others : r.slot = s
      BY <2>3 DEF Rows
    <3>2. r \in parts
      BY <2>1, <3>1
    <3> QED BY <1>5, <2>1, <3>1, <3>2, Numbered
  <2> QED BY <2>2, <2>3
<1>9. <<p.slot>> \in Seq(Slots \cup {ALL}) /\ p.slot \in Range(<<p.slot>>) /\ <<p.slot>> # <<>>
  BY <1>1 DEF Range
<1> QED BY <1>2, <1>5, <1>8, <1>9 DEF TellsAll

(* A new partition in free space, and a partition that keeps clear of the  *)
(* others, make a table.                                                   *)
LEMMA OneMore ==
  ASSUME NEW parts, IsTable(parts), NEW q \in Partitions,
         Places(q.slot) \cap Taken(parts) = {},
         NEW others, others = parts \cup {q}
  PROVE  IsTable(others)
<1>1. \A r \in parts : Places(r.slot) \cap Places(q.slot) = {}
  BY DEF Taken
<1>2. others \subseteq Partitions
  BY DEF IsTable
<1>3. \A r, t \in others : r # t => Places(r.slot) \cap Places(t.slot) = {}
  BY <1>1 DEF IsTable
<1> QED BY <1>2, <1>3 DEF IsTable

(* Where a new partition goes *)
LEMMA NewSlotFits ==
  ASSUME NEW s \in Slots, NEW size \in 1 .. Cardinality(Places(s)), NEW place
  PROVE  /\ NewSlot(s, size, place) \in Slots /\ Device(NewSlot(s, size, place)) = Device(s)
         /\ Places(NewSlot(s, size, place)) \subseteq Places(s)
<1>1. /\ s[1] \in 1 .. Size /\ s[2] \in 1 .. Size /\ s[1] <= s[2] /\ Size \in Nat
      /\ \A i \in Places(s) : DeviceOf[i] = Device(s)
  BY SlotPlaces
<1>2. Cardinality(Places(s)) = s[2] - s[1] + 1
  <2>1. s[1] \in Int /\ s[2] \in Int /\ ~(s[1] > s[2])
    BY <1>1
  <2>2. Cardinality(s[1] .. s[2]) = IF s[1] > s[2] THEN 0 ELSE s[2] - s[1] + 1
    BY <2>1, FS_Interval
  <2> QED BY <2>1, <2>2 DEF Places
<1>3. PICK t : t = NewSlot(s, size, place)
  OBVIOUS
<1>4. /\ t = <<t[1], t[2]>> /\ t[1] \in Nat /\ t[2] \in Nat
      /\ s[1] <= t[1] /\ t[1] <= t[2] /\ t[2] <= s[2]
  BY <1>1, <1>2, <1>3 DEF NewSlot
<1>5. Places(t) \subseteq Places(s) /\ t[1] \in Places(s) /\ t[2] \in Places(s)
  BY <1>1, <1>4 DEF Places
<1>6. t \in Slots /\ Device(t) = Device(s)
  <2>1. t[1] \in 1 .. Size /\ t[2] \in 1 .. Size
    BY <1>1, <1>4
  <2>2. DeviceOf[t[1]] = Device(s) /\ DeviceOf[t[2]] = Device(s)
    BY <1>1, <1>5
  <2>3. <<t[1], t[2]>> \in (1 .. Size) \X (1 .. Size)
    BY <2>1
  <2> QED BY <1>4, <2>2, <2>3 DEF Slots, Device
<1> QED BY <1>3, <1>5, <1>6

(* A resized partition *)
LEMMA Resized ==
  ASSUME NEW parts, IsTable(parts), NEW p \in parts,
         NEW size \in Nat, Fits(parts, p, size)
  PROVE  /\ IsTable(WithResized(parts, p, size))
         /\ TellsAll(parts, WithResized(parts, p, size), Entries(WithResized(parts, p, size)))
<1> DEFINE slot == <<p.slot[1], p.slot[1] + size - 1>>
           q == [p EXCEPT !.slot = slot]
           others == parts \ {p}
           resized == WithResized(parts, p, size)
<1>1. slot \in Slots /\ Places(slot) \cap Taken(others) = {} /\ p.slot \in Slots
  BY Numbered DEF Fits
<1>2. q \in Partitions /\ q.slot = slot
  BY <1>1 DEF IsTable, Partitions
<1>3. Device(q.slot) = Device(p.slot)
  BY <1>2 DEF Device
<1>4. IsTable(others)
  BY Smaller
<1>5. IsTable(resized)
  <2>1. resized = others \cup {q}
    BY DEF WithResized
  <2> HIDE DEF q, others, resized, slot
  <2> QED BY <1>1, <1>2, <1>4, <2>1, OneMore
<1>6. q \in resized /\ q.slot \in Rows(resized)
  BY DEF WithResized, Rows
<1> HIDE DEF resized
<1>7. Entries(resized) \in Seq(Slots) /\ Range(Entries(resized)) = Rows(resized)
  BY <1>5, EntriesListed
<1>8. Entries(resized) # <<>> /\ Entries(resized) \in Seq(Slots \cup {ALL})
  BY <1>6, <1>7, RangeEmpty
<1>9. TellsAll(parts, resized, Entries(resized))
  BY <1>7, <1>8 DEF TellsAll
<1> QED BY <1>5, <1>9 DEF resized

-----------------------------------------------------------------------------
(* partman's moves while the page waits *)

Asking(q, on, parts) == [q |-> q, on |-> on, parts |-> parts, autoDone |-> TRUE]

(* The pieces an outcome is made of *)
LEMMA Outcome ==
  ASSUME TypeInv, partman.autoDone, NEW q, NEW on
  PROVE  /\ To(partman, q, on).partman = Asking(q, on, partman.parts)
         /\ To(partman, q, on).news = <<>>
         /\ \A error : /\ After(error, To(partman, q, on)).partman = Asking(q, on, partman.parts)
                       /\ After(error, To(partman, q, on)).news = <<>>
         /\ \A news : LET o == Telling(To(partman, q, on), news) IN
              /\ o.partman = Asking(q, on, partman.parts) /\ o.news = news
              /\ \A error : /\ After(error, o).partman = Asking(q, on, partman.parts)
                            /\ After(error, o).news = news
         /\ \A parts, news : LET o == Telling(To(Updated(partman, parts), q, on), news) IN
              o.partman = Asking(q, on, parts) /\ o.news = news
         /\ \A parts : LET o == To(Updated(partman, parts), q, on) IN
              o.partman = Asking(q, on, parts) /\ o.news = <<>>
<1>1. partman.autoDone = TRUE /\ To(partman, q, on).partman = Asking(q, on, partman.parts)
  BY DEF TypeInv, To, Asking
<1>2. ASSUME NEW parts
      PROVE  To(Updated(partman, parts), q, on).partman = Asking(q, on, parts)
  <2>1. Updated(partman, parts).parts = parts /\ Updated(partman, parts).autoDone = TRUE
    BY <1>1 DEF TypeInv, Updated
  <2> QED BY <2>1 DEF To, Asking
<1> QED BY <1>1, <1>2 DEF To, Telling, After

LEMMA Displayed ==
  ASSUME TypeInv, partman.autoDone
  PROVE  Display(partman) = To(partman, "choose", Nothing)
BY DEF TypeInv, Display

(* An outcome the page is ready for *)
Follows(o) ==
  /\ o.partman \in [q : Questions, on : Ons, parts : SUBSET Partitions, autoDone : {TRUE}]
  /\ IsTable(o.partman.parts)
  /\ TellsAll(partman.parts, o.partman.parts, o.news)
  /\ \/ o.partman.q \in {"done", "left"}
     \/ Asks(o.partman, request) /\ (o.partman.q = "crypto" => auto.crypto)

LEMMA Ready ==
  ASSUME NEW q \in Questions, NEW on \in Ons, NEW parts, IsTable(parts),
         NEW o, o.partman = Asking(q, on, parts), TellsAll(partman.parts, parts, o.news),
         \/ q \in {"done", "left"}
         \/ Asks(Asking(q, on, parts), request) /\ (q = "crypto" => auto.crypto)
  PROVE  Follows(o)
<1>1. parts \subseteq Partitions
  BY DEF IsTable
<1>2. /\ o.partman.q = q /\ o.partman.parts = parts
      /\ o.partman \in [q : Questions, on : Ons, parts : SUBSET Partitions, autoDone : {TRUE}]
  BY <1>1 DEF Asking
<1> QED BY <1>2 DEF Follows

(* What does not change needs no telling. *)
LEMMA NothingToTell ==
  ASSUME NEW parts, NEW news \in Seq(Slots \cup {ALL})
  PROVE  TellsAll(parts, parts, news) /\ TellsAll(parts, parts, <<>>)
BY DEF TellsAll

LEMMA SlotIsSomething ==
  ASSUME NEW s \in Slots
  PROVE  s # Nothing
BY DEF Slots, Nothing

(* partman goes on to another question, *)
LEMMA GoesOn ==
  ASSUME TypeInv, partman.autoDone, NEW q \in Questions, NEW on \in Ons, NEW o,
         o = To(partman, q, on) \/ \E error : o = After(error, To(partman, q, on)),
         \/ q \in {"done", "left"}
         \/ Asks(Asking(q, on, partman.parts), request) /\ (q = "crypto" => auto.crypto)
  PROVE  Follows(o)
<1>1. o.partman = Asking(q, on, partman.parts) /\ o.news = <<>>
  BY Outcome
<1>2. IsTable(partman.parts)
  BY DEF TypeInv
<1>3. TellsAll(partman.parts, partman.parts, o.news)
  BY <1>1, <<>> \in Seq(Slots \cup {ALL}), NothingToTell
<1> QED BY <1>1, <1>2, <1>3, Ready

(* or goes back to the list of partitions, telling of some, *)
LEMMA GoesBack ==
  ASSUME TypeInv, partman.autoDone, NEW o, NEW news \in Seq(Slots \cup {ALL}),
         LET plain == Telling(To(partman, "choose", Nothing), news) IN
         o = plain \/ \E error : o = After(error, plain),
         request.is # "delete"
  PROVE  Follows(o)
<1>1. o.partman = Asking("choose", Nothing, partman.parts) /\ o.news = news
  BY Outcome
<1>2. IsTable(partman.parts)
  BY DEF TypeInv
<1>3. TellsAll(partman.parts, partman.parts, o.news)
  BY <1>1, NothingToTell
<1>4. Asks(Asking("choose", Nothing, partman.parts), request)
  BY DEF Asks, Asking
<1>5. "choose" \in Questions /\ Nothing \in Ons
  BY DEF Questions, Ons
<1> QED BY <1>1, <1>2, <1>3, <1>4, <1>5, Ready

(* or has changed the table and tells of that. *)
LEMMA GoesOnTelling ==
  ASSUME TypeInv, partman.autoDone, NEW q \in Questions, NEW on \in Ons, NEW o,
         NEW parts, NEW news, o = Telling(To(Updated(partman, parts), q, on), news),
         IsTable(parts), TellsAll(partman.parts, parts, news),
         Asks(Asking(q, on, parts), request), q # "crypto"
  PROVE  Follows(o)
<1>1. o.partman = Asking(q, on, parts) /\ o.news = news
  BY Outcome
<1> QED BY <1>1, Ready

(* choose_partition *)
LEMMA Chosen ==
  ASSUME TypeInv, partman.autoDone, partman.q = "choose", ~build.on,
         Answers(partman, request, answer), NEW o \in Outcomes(partman, answer), ~TurnedAway(o)
  PROVE  Follows(o)
<1> DEFINE P == partman.parts
<1>1. o \in Choose(partman, answer)
  BY DEF Outcomes
<1>2. Nothing \in Ons /\ <<>> \in Seq(Slots \cup {ALL})
      /\ {"choose", "confirm", "confirm_new_label", "free_space", "active", "crypto", "left"}
           \subseteq Questions
  BY DEF Ons, Questions
<1>3. request.is # "delete" => Asks(Asking("choose", Nothing, P), request)
  BY DEF Asks, Asking
<1>4. NoRequest.is = "none"
  BY DEF NoRequest
<1>5. CASE answer.is = "back" /\ request = NoRequest
  <2>1. o = To(partman, "left", Nothing)
    BY <1>1, <1>5 DEF Choose
  <2> QED BY <1>2, <2>1, GoesOn
<1>6. CASE answer.is = "finish" /\ request = NoRequest
  <2>1. o = To(partman, "confirm", Nothing) \/ o = After("check", To(partman, "choose", Nothing))
    BY <1>1, <1>6, Displayed DEF Choose, Check
  <2>2. Asks(Asking("confirm", Nothing, P), request)
    BY <1>6 DEF Asks, Asking
  <2>3. CASE o = To(partman, "confirm", Nothing)
    BY <1>2, <2>2, <2>3, GoesOn
  <2>4. CASE o = After("check", To(partman, "choose", Nothing))
    BY <1>2, <1>3, <1>4, <1>6, <2>4, GoesOn
  <2> QED BY <2>1, <2>3, <2>4
<1>7. CASE answer.is = "undo" /\ request.is = "undo"
  <2>1. o = Telling(To(Updated(partman, Initial), "choose", Nothing), <<ALL>>)
    BY <1>1, <1>7 DEF Choose
  <2>2. IsTable(Initial)
    BY PartmanAssumption
  <2>3. TellsAll(P, Initial, <<ALL>>)
    BY DEF TellsAll, Range
  <2>4. Asks(Asking("choose", Nothing, Initial), request)
    BY <1>7 DEF Asks, Asking
  <2> QED BY <1>2, <2>1, <2>2, <2>3, <2>4, GoesOnTelling
<1>8. CASE answer.is = "crypto" /\ request = NoRequest /\ auto.crypto
  <2>1. \/ o = To(partman, "crypto", Nothing)
        \/ o = After("commit_failed", Telling(To(partman, "choose", Nothing), Entries(P)))
    BY <1>1, <1>8 DEF Choose, OpenVolumes
  <2>2. Asks(Asking("crypto", Nothing, P), request)
    BY <1>8 DEF Asks, Asking
  <2>3. Entries(P) \in Seq(Slots \cup {ALL})
    BY EntriesListed DEF TypeInv
  <2>4. CASE o = To(partman, "crypto", Nothing)
    BY <1>2, <1>8, <2>2, <2>4, GoesOn
  <2>5. CASE o = After("commit_failed", Telling(To(partman, "choose", Nothing), Entries(P)))
    BY <1>4, <1>8, <2>3, <2>5, GoesBack
  <2> QED BY <2>1, <2>4, <2>5
<1>9. CASE answer.is = "device" /\ request.is = "label" /\ answer.on \in Range(DeviceOf)
  <2>1. o \in OpenDevice(partman, answer.on)
    BY <1>1, <1>9 DEF Choose
  <2>2. \/ o = After("locked", To(partman, "choose", Nothing))
        \/ o = To(partman, "confirm_new_label", answer.on)
    BY <2>1 DEF OpenDevice
  <2>3. Asks(Asking("confirm_new_label", answer.on, P), request) /\ answer.on \in Ons
    BY <1>9 DEF Asks, Asking, Ons
  <2>4. CASE o = After("locked", To(partman, "choose", Nothing))
    BY <1>2, <1>3, <1>9, <2>4, GoesOn
  <2>5. CASE o = To(partman, "confirm_new_label", answer.on)
    BY <1>2, <2>3, <2>5, GoesOn
  <2> QED BY <2>2, <2>4, <2>5
<1>10. CASE answer.is = "partition" /\ answer.on = request.on /\ WantsRow(P, request)
  <2>1. o \in OpenPartition(partman, answer.on)
    BY <1>1, <1>10 DEF Choose
  <2>2. CASE InUse(answer.on)
    <3>1. o = After("locked", To(partman, "choose", Nothing))
      BY <2>1, <2>2 DEF OpenPartition
    <3>2. request.is # "delete"
      <4>1. o.error = "locked"
        BY <3>1 DEF After, To
      <4> QED BY <1>10, <4>1 DEF TurnedAway
    <3> QED BY <1>2, <1>3, <3>1, <3>2, GoesOn
  <2>3. CASE ~InUse(answer.on) /\ request.is = "create"
    <3>1. answer.on \in FreeSlots(P)
      BY <1>10, <2>3 DEF WantsRow
    <3>2. o = To(partman, "free_space", answer.on)
      BY <2>1, <2>3, <3>1 DEF OpenPartition
    <3>3. Asks(Asking("free_space", answer.on, P), request)
      BY <1>10, <2>3 DEF Asks, Asking
    <3>4. answer.on \in Ons
      BY <3>1, FreeSlot DEF Ons
    <3> QED BY <1>2, <3>2, <3>3, <3>4, GoesOn
  <2>4. CASE ~InUse(answer.on) /\ request.is # "create"
    <3>1. request.is \in {"edit", "delete"} /\ IsPart(P, answer.on)
      BY <1>10, <2>4 DEF WantsRow
    <3>2. answer.on \notin FreeSlots(P) /\ answer.on \in Ons
      BY <3>1, Numbered DEF IsPart, TypeInv, Ons
    <3>3. o = To(partman, "active", answer.on)
      BY <2>1, <2>4, <3>2 DEF OpenPartition
    <3>4. Asks(Asking("active", answer.on, P), request)
      BY <2>4, <3>1 DEF Asks, Asking
    <3> QED BY <1>2, <3>2, <3>3, <3>4, GoesOn
  <2> QED BY <2>2, <2>3, <2>4
<1> QED BY <1>5, <1>6, <1>7, <1>8, <1>9, <1>10 DEF Answers

LEMMA QuestionNames ==
  /\ {"choose", "confirm_new_label", "free_space", "new_partition_size", "active", "choose_method",
      "mountpoint", "mountpoint_manual", "confirm_resize", "new_size", "crypto", "passphrase",
      "confirm", "done", "left", "auto", "select_disk", "init"} \subseteq Questions
  /\ Nothing \in Ons /\ <<"manual">> \in Ons /\ <<"auto">> \in Ons /\ <<"crypto">> \in Ons
  /\ Slots \subseteq Ons /\ Range(DeviceOf) \subseteq Ons
BY DEF Questions, Ons

(* storage_device/label *)
LEMMA NewLabelled ==
  ASSUME TypeInv, partman.autoDone, partman.q = "confirm_new_label", Asks(partman, request),
         NEW o \in Outcomes(partman, answer)
  PROVE  Follows(o)
<1> DEFINE P == partman.parts
           d == partman.on
           cleared == {p \in P : Device(p.slot) # d}
<1>1. request.is = "label" /\ d \in Range(DeviceOf)
  BY DEF Asks
<1>2. \/ o = To(partman, "choose", Nothing)
      \/ o = Telling(To(Updated(partman, cleared), "choose", Nothing), EntriesOn(cleared, d))
  BY DEF Outcomes, NewLabel
<1>3. CASE o = To(partman, "choose", Nothing)
  <2>1. Asks(Asking("choose", Nothing, P), request)
    BY <1>1 DEF Asks, Asking
  <2> QED BY <1>3, <2>1, QuestionNames, GoesOn
<1>4. CASE o = Telling(To(Updated(partman, cleared), "choose", Nothing), EntriesOn(cleared, d))
  <2>1. IsTable(P) /\ IsTable(cleared)
    BY Smaller DEF TypeInv
  <2>2. PICK i \in 1 .. Size : DeviceOf[i] = d
    BY <1>1, TableAssumption DEF Range
  <2>3. <<i, i>> \in Slots /\ Places(<<i, i>>) = {i} /\ Device(<<i, i>>) = d
    <3>1. i \in Nat /\ i <= i
      BY <2>2, TableAssumption
    <3> QED BY <2>2, <3>1 DEF Slots, Places, Device
  <2>4. i \notin Taken(cleared)
    <3> SUFFICES ASSUME NEW p \in cleared, i \in Places(p.slot) PROVE FALSE
      BY DEF Taken
    <3>1. p.slot \in Slots
      BY <2>1, Numbered
    <3> QED BY <2>2, <3>1, SlotPlaces
  <2>5. PICK t \in FreeSlots(cleared) : Device(t) = d
    <3>1. Places(<<i, i>>) \cap Taken(cleared) = {}
      BY <2>3, <2>4
    <3>2. \E t \in FreeSlots(cleared) : Device(t) = Device(<<i, i>>)
      BY <2>3, <3>1, FreeCovers
    <3> QED BY <2>3, <3>2
  <2>6. t \in Rows(cleared)
    BY DEF Rows
  <2>7. \A p : p \in P \cup cleared /\ Device(p.slot) # d => (p \in P <=> p \in cleared)
    OBVIOUS
  <2> HIDE DEF cleared
  <2>8. TellsAll(P, cleared, EntriesOn(cleared, d))
    BY <2>1, <2>5, <2>6, <2>7, DeviceTold
  <2>9. Asks(Asking("choose", Nothing, cleared), request)
    BY <1>1 DEF Asks, Asking
  <2> QED BY <1>4, <2>1, <2>8, <2>9, QuestionNames, GoesOnTelling
<1> QED BY <1>2, <1>3, <1>4

(* free_space and free_space/new *)
LEMMA SpaceUsed ==
  ASSUME TypeInv, partman.autoDone, partman.q = "free_space", Asks(partman, request),
         NEW o \in Outcomes(partman, answer)
  PROVE  Follows(o)
<1> DEFINE P == partman.parts
<1>1. request.is = "create" /\ partman.on = request.on /\ WantsRow(P, request)
  BY DEF Asks
<1>2. o = To(partman, "choose", Nothing) \/ o = To(partman, "new_partition_size", partman.on)
  BY DEF Outcomes, FreeSpace
<1>3. partman.on \in Slots
  BY <1>1, FreeSlot DEF WantsRow
<1>4. Asks(Asking("choose", Nothing, P), request)
      /\ Asks(Asking("new_partition_size", partman.on, P), request)
  BY <1>1 DEF Asks, Asking
<1>5. CASE o = To(partman, "choose", Nothing)
  BY <1>4, <1>5, QuestionNames, GoesOn
<1>6. CASE o = To(partman, "new_partition_size", partman.on)
  <2>1. partman.on \in Ons
    BY <1>3, QuestionNames
  <2> QED BY <1>4, <1>6, <2>1, QuestionNames, GoesOn
<1> QED BY <1>2, <1>5, <1>6

LEMMA Made ==
  ASSUME TypeInv, partman.autoDone, partman.q = "new_partition_size", Asks(partman, request),
         answer.is = "back" \/ (answer.is = "size" /\ answer.size = request.size),
         NEW o \in Outcomes(partman, answer)
  PROVE  Follows(o)
<1> DEFINE P == partman.parts
           s == partman.on
           slot == NewSlot(s, answer.size, answer.place)
           new == [slot |-> slot, num |-> NextNumber(P, Device(slot)), method |-> Fallback,
                   mount |-> FreeMount(P)]
           made == WithNew(P, slot, Fallback, FreeMount(P))
<1>1. request.is = "create" /\ s = request.on /\ s \in FreeSlots(P) /\ FitsIn(request, s)
  BY DEF Asks, WantsRow
<1>2. s \in Slots /\ Places(s) \cap Taken(P) = {} /\ s \in Ons
  BY <1>1, FreeSlot, QuestionNames
<1>3. IsTable(P)
  BY DEF TypeInv
<1>4. Asks(Asking("choose", Nothing, P), request) /\ Asks(Asking("new_partition_size", s, P), request)
  BY <1>1 DEF Asks, Asking, WantsRow
<1>5. o \in NewPartition(partman, answer)
  BY DEF Outcomes
<1>6. CASE answer.is = "back"
  <2>1. o = To(partman, "choose", Nothing)
    BY <1>5, <1>6 DEF NewPartition
  <2> QED BY <1>4, <2>1, QuestionNames, GoesOn
<1>7. CASE answer.is = "size" /\ answer.size = request.size
  <2>1. \/ o = After("bad_new_partition_size", To(partman, "new_partition_size", s))
        \/ o = After("not made", Telling(To(partman, "choose", Nothing), EntriesOn(P, Device(s))))
        \/ o = Telling(To(Updated(partman, made), "active", slot), EntriesOn(made, Device(s)))
    BY <1>5, <1>7 DEF NewPartition
  <2>2. CASE o = After("bad_new_partition_size", To(partman, "new_partition_size", s))
    BY <1>2, <1>4, <2>2, QuestionNames, GoesOn
  <2>3. CASE o = After("not made", Telling(To(partman, "choose", Nothing), EntriesOn(P, Device(s))))
    <3>1. EntriesOn(P, Device(s)) \in Seq(Slots \cup {ALL})
      <4>1. EntriesOn(P, Device(s)) \in Seq(Slots)
        BY <1>3, EntriesOnListed
      <4> QED BY <4>1
    <3> QED BY <1>1, <2>3, <3>1, GoesBack
  <2>4. CASE o = Telling(To(Updated(partman, made), "active", slot), EntriesOn(made, Device(s)))
    <3>1. slot \in Slots /\ Device(slot) = Device(s) /\ Places(slot) \subseteq Places(s)
      BY <1>1, <1>2, <1>7, NewSlotFits DEF FitsIn
    <3>2. FreeMount(P) \in STRING
      <4> DEFINE free == {i \in DOMAIN FirstMounts : \A p \in P : p.mount # FirstMounts[i]}
      <4>1. free \in SUBSET Nat /\ \A i \in free : FirstMounts[i] \in STRING
        BY PartmanAssumption
      <4>2. FreeMount(P) = IF free = {} THEN ""
                           ELSE FirstMounts[CHOOSE i \in free : \A j \in free : i <= j]
        BY DEF FreeMount
      <4> HIDE DEF free
      <4>3. free # {} => \E i \in free : \A j \in free : i <= j
        BY <4>1, LeastNumber
      <4> DEFINE first == CHOOSE i \in free : \A j \in free : i <= j
      <4>4. free # {} => first \in free
        BY <4>3
      <4>5. FreeMount(P) = "" \/ (free # {} /\ FreeMount(P) = FirstMounts[first])
        BY <4>2
      <4> HIDE DEF first
      <4>6. "" \in STRING
        BY PageAssumption
      <4> QED BY <4>1, <4>4, <4>5, <4>6
    <3>3. new \in Partitions /\ new.slot = slot
      <4>1. NextNumber(P, Device(slot)) \in Nat \ {0}
        BY <1>3, NumberLeft
      <4>2. Fallback \in STRING
        BY PartmanAssumption
      <4> HIDE DEF slot
      <4> QED BY <3>1, <3>2, <4>1, <4>2 DEF Partitions
    <3>4. made = P \cup {new}
      BY DEF WithNew
    <3> HIDE DEF new, made, slot
    <3>5. IsTable(made)
      <4>1. Places(new.slot) \cap Taken(P) = {}
        BY <1>1, <1>2, <3>1, <3>3
      <4> QED BY <1>3, <3>3, <3>4, <4>1, OneMore
    <3>6. slot \in Rows(made) /\ IsPart(made, slot)
      BY <3>3, <3>4 DEF Rows, IsPart
    <3>7. \A p : p \in P \cup made /\ Device(p.slot) # Device(s) => (p \in P <=> p \in made)
      BY <3>1, <3>3, <3>4
    <3>8. TellsAll(P, made, EntriesOn(made, Device(s)))
      BY <1>3, <3>1, <3>5, <3>6, <3>7, DeviceTold
    <3>9. Asks(Asking("active", slot, made), request)
      BY <1>1, <3>6 DEF Asks, Asking
    <3>10. slot \in Ons
      BY <3>1, QuestionNames
    <3> QED BY <2>4, <3>5, <3>8, <3>9, <3>10, QuestionNames, GoesOnTelling
  <2> QED BY <2>1, <2>2, <2>3, <2>4
<1> QED BY <1>6, <1>7

(* The partition asked about *)
LEMMA AskedAbout ==
  ASSUME TypeInv, IsPart(partman.parts, partman.on)
  PROVE  /\ At(partman.parts, partman.on) \in partman.parts
         /\ At(partman.parts, partman.on).slot = partman.on
         /\ partman.on \in Slots /\ partman.on \in Ons /\ partman.on # Nothing
         /\ IsTable(partman.parts)
<1>1. IsTable(partman.parts)
  BY DEF TypeInv
<1>2. PICK p \in partman.parts : p.slot = partman.on
  BY DEF IsPart
<1>3. At(partman.parts, partman.on) = p /\ p.slot \in Slots
  BY <1>1, <1>2, Numbered
<1>4. partman.on # Nothing
  BY <1>2, <1>3 DEF Slots, Nothing
<1> QED BY <1>1, <1>2, <1>3, <1>4, QuestionNames

(* active_partition *)
LEMMA MenuUsed ==
  ASSUME TypeInv, partman.autoDone, partman.q = "active",
         Answers(partman, request, answer), NEW o \in Outcomes(partman, answer)
  PROVE  Follows(o)
<1> DEFINE P == partman.parts
           s == partman.on
           rest == {p \in P : p.slot # s}
<1>1. /\ IsPart(P, s)
      /\ \/ answer.is = "delete" /\ request = NoRequest
         \/ answer.is \in {"finish", "method", "mountpoint"} /\ request.is \in {"create", "edit"}
         \/ answer.is = "resize" /\ request.is = "edit"
  BY DEF Answers
<1>2. s \in Slots /\ s \in Ons /\ IsTable(P)
  BY <1>1, AskedAbout
<1>3. o \in Active(partman, answer)
  BY DEF Outcomes
<1>4. CASE answer.is = "delete" /\ request = NoRequest
  <2>1. o = Telling(To(Updated(partman, rest), "choose", Nothing), EntriesOn(rest, Device(s)))
    BY <1>3, <1>4 DEF Active
  <2>2. IsTable(rest)
    BY <1>2, Smaller
  <2>3. Places(s) \cap Taken(rest) = {}
    <3>1. PICK p \in P : p.slot = s
      BY <1>1 DEF IsPart
    <3>2. \A q \in rest : Places(s) \cap Places(q.slot) = {}
      BY <1>2, <3>1 DEF IsTable
    <3> QED BY <3>2 DEF Taken
  <2>4. PICK t \in FreeSlots(rest) : Device(t) = Device(s)
    BY <1>2, <2>3, FreeCovers
  <2>5. t \in Rows(rest)
    BY DEF Rows
  <2>6. \A p : p \in P \cup rest /\ Device(p.slot) # Device(s) => (p \in P <=> p \in rest)
    OBVIOUS
  <2> HIDE DEF rest
  <2>7. TellsAll(P, rest, EntriesOn(rest, Device(s)))
    BY <1>2, <2>2, <2>4, <2>5, <2>6, DeviceTold
  <2>8. Asks(Asking("choose", Nothing, rest), request)
    BY <1>4 DEF Asks, Asking, NoRequest
  <2> QED BY <2>1, <2>2, <2>7, <2>8, QuestionNames, GoesOnTelling
<1>5. CASE answer.is \in {"finish", "method", "mountpoint"} /\ request.is \in {"create", "edit"}
  <2>1. \/ o = To(partman, "choose", Nothing)
        \/ o = To(partman, "choose_method", s)
        \/ o = To(partman, "mountpoint", s)
    BY <1>3, <1>5 DEF Active
  <2>2. /\ Asks(Asking("choose", Nothing, P), request)
        /\ Asks(Asking("choose_method", s, P), request)
        /\ Asks(Asking("mountpoint", s, P), request)
    BY <1>1, <1>5 DEF Asks, Asking
  <2>3. CASE o = To(partman, "choose", Nothing)
    BY <2>2, <2>3, QuestionNames, GoesOn
  <2>4. CASE o = To(partman, "choose_method", s)
    BY <1>2, <2>2, <2>4, QuestionNames, GoesOn
  <2>5. CASE o = To(partman, "mountpoint", s)
    BY <1>2, <2>2, <2>5, QuestionNames, GoesOn
  <2> QED BY <2>1, <2>3, <2>4, <2>5
<1>6. CASE answer.is = "resize" /\ request.is = "edit"
  <2>1. \/ o = After("impossible_resize", To(partman, "active", s))
        \/ o = To(partman, "confirm_resize", s)
        \/ o = To(partman, "new_size", s)
    BY <1>3, <1>6 DEF Active
  <2>2. /\ Asks(Asking("active", s, P), request)
        /\ Asks(Asking("confirm_resize", s, P), request)
        /\ Asks(Asking("new_size", s, P), request)
    BY <1>1, <1>6 DEF Asks, Asking
  <2>3. CASE o = After("impossible_resize", To(partman, "active", s))
    BY <1>2, <2>2, <2>3, QuestionNames, GoesOn
  <2>4. CASE o = To(partman, "confirm_resize", s)
    BY <1>2, <2>2, <2>4, QuestionNames, GoesOn
  <2>5. CASE o = To(partman, "new_size", s)
    BY <1>2, <2>2, <2>5, QuestionNames, GoesOn
  <2> QED BY <2>1, <2>3, <2>4, <2>5
<1> QED BY <1>1, <1>4, <1>5, <1>6

(* What is set of a partition *)
LEMMA IsSet ==
  ASSUME TypeInv, partman.autoDone, IsPart(partman.parts, partman.on),
         request.is \in {"create", "edit"},
         NEW q \in Partitions, q.slot = partman.on, q.num = At(partman.parts, partman.on).num,
         NEW o, o = Set(partman, q)
  PROVE  Follows(o)
<1> DEFINE P == partman.parts
           p == At(P, partman.on)
           others == {r \in P : r.slot # q.slot} \cup {q}
<1>1. p \in P /\ p.slot = partman.on /\ partman.on \in Ons /\ IsTable(P)
  BY AskedAbout
<1> HIDE DEF p
<1>2. q.slot = p.slot /\ q.num = p.num
  BY <1>1 DEF p
<1>3. o = Telling(To(Updated(partman, others), "active", partman.on), <<partman.on>>)
  BY DEF Set
<1>4. others = {r \in P : r.slot # q.slot} \cup {q}
  OBVIOUS
<1> HIDE DEF others
<1>6. /\ IsTable(others) /\ q \in others
      /\ TellsAll(P, others, <<p.slot>>)
  BY <1>1, <1>2, <1>4, UsedOtherwise
<1>7. Asks(Asking("active", partman.on, others), request)
  BY <1>1, <1>2, <1>6 DEF Asks, Asking, IsPart
<1> QED BY <1>1, <1>3, <1>6, <1>7, QuestionNames, GoesOnTelling

(* choose_method *)
LEMMA MethodSet ==
  ASSUME TypeInv, partman.autoDone, partman.q = "choose_method",
         Answers(partman, request, answer), NEW o \in Outcomes(partman, answer)
  PROVE  Follows(o)
<1> DEFINE p == At(partman.parts, partman.on)
           mount == IF Mountable(answer.method) THEN p.mount ELSE ""
           q == [p EXCEPT !.method = answer.method, !.mount = mount]
<1>1. /\ request.is \in {"create", "edit"} /\ IsPart(partman.parts, partman.on)
      /\ answer.is = "method" /\ answer.method \in STRING
  BY DEF Answers, Asks
<1>2. p \in Partitions /\ p.slot = partman.on
  BY <1>1, AskedAbout, Numbered
<1>3. o = Set(partman, q)
  BY <1>1 DEF Outcomes, ChooseMethod
<1> HIDE DEF p
<1>4. mount \in STRING
  <2>1. p.mount \in STRING /\ "" \in STRING
    BY <1>2, PageAssumption DEF Partitions
  <2> QED BY <2>1
<1> HIDE DEF mount
<1>5. q \in Partitions /\ q.slot = partman.on /\ q.num = p.num
  BY <1>1, <1>2, <1>4 DEF Partitions
<1> HIDE DEF q
<1> QED BY <1>1, <1>3, <1>5, IsSet DEF p

(* mountpoint *)
LEMMA MountSet ==
  ASSUME TypeInv, partman.autoDone, partman.q \in {"mountpoint", "mountpoint_manual"},
         Answers(partman, request, answer), NEW o \in Outcomes(partman, answer)
  PROVE  Follows(o)
<1> DEFINE P == partman.parts
           s == partman.on
           p == At(P, s)
           q(mount) == [p EXCEPT !.mount = mount]
<1>1. /\ request.is \in {"create", "edit"} /\ IsPart(P, s)
      /\ answer.is = "back" \/ (answer.is = "mount" /\ answer.mount \in STRING)
  BY DEF Answers, Asks
<1>2. p \in Partitions /\ p.slot = s /\ s \in Ons
  BY <1>1, AskedAbout, Numbered
<1>3. /\ Asks(Asking("active", s, P), request)
      /\ Asks(Asking("mountpoint", s, P), request)
      /\ Asks(Asking("mountpoint_manual", s, P), request)
  BY <1>1 DEF Asks, Asking
<1>4. \/ o = To(partman, "active", s)
      \/ o = To(partman, "mountpoint", s)
      \/ o = To(partman, "mountpoint_manual", s)
      \/ o = After("bad_mountpoint", To(partman, "mountpoint_manual", s))
      \/ answer.is = "mount" /\ \E mount \in {answer.mount, ""} : o = Set(partman, q(mount))
  <2>1. CASE partman.q = "mountpoint"
    BY <1>1, <2>1 DEF Outcomes, Mountpoint
  <2>2. CASE partman.q = "mountpoint_manual"
    BY <1>1, <2>2 DEF Outcomes, MountpointManual
  <2> QED BY <2>1, <2>2
<1>5. CASE o = To(partman, "active", s)
  BY <1>2, <1>3, <1>5, QuestionNames, GoesOn
<1>6. CASE o = To(partman, "mountpoint", s)
  BY <1>2, <1>3, <1>6, QuestionNames, GoesOn
<1>7. CASE o = To(partman, "mountpoint_manual", s)
  BY <1>2, <1>3, <1>7, QuestionNames, GoesOn
<1>8. CASE o = After("bad_mountpoint", To(partman, "mountpoint_manual", s))
  BY <1>2, <1>3, <1>8, QuestionNames, GoesOn
<1>9. ASSUME NEW mount \in STRING, o = Set(partman, q(mount))
      PROVE  Follows(o)
  <2> HIDE DEF p
  <2>1. q(mount) \in Partitions /\ q(mount).slot = s /\ q(mount).num = p.num
    BY <1>2 DEF Partitions
  <2> HIDE DEF q
  <2> QED BY <1>1, <1>9, <2>1, IsSet DEF p
<1>10. "" \in STRING
  BY PageAssumption
<1> QED BY <1>1, <1>4, <1>5, <1>6, <1>7, <1>8, <1>9, <1>10

(* confirm_resize and new_size *)
LEMMA SizeSet ==
  ASSUME TypeInv, partman.autoDone, partman.q \in {"confirm_resize", "new_size"},
         Answers(partman, request, answer), NEW o \in Outcomes(partman, answer)
  PROVE  Follows(o)
<1> DEFINE P == partman.parts
           s == partman.on
           p == At(P, s)
           resized == WithResized(P, p, answer.size)
<1>1. /\ request.is = "edit" /\ IsPart(P, s)
      /\ partman.q = "new_size" =>
           answer.is = "back" \/ (answer.is = "size" /\ answer.size = request.size)
  BY DEF Answers, Asks
<1>2. p \in P /\ p.slot = s /\ s \in Ons /\ s # Nothing /\ IsTable(P)
  BY <1>1, AskedAbout
<1>3. /\ Asks(Asking("active", s, P), request) /\ Asks(Asking("new_size", s, P), request)
      /\ Asks(Asking("choose", Nothing, P), request)
  BY <1>1 DEF Asks, Asking
<1>4. \/ o = To(partman, "active", s)
      \/ o = To(partman, "new_size", s)
      \/ o = After("bad_new_size", To(partman, "new_size", s))
      \/ o = After("new_size_commit_failed", To(partman, "choose", Nothing))
      \/ /\ answer.size = request.size /\ Fits(P, p, answer.size)
         /\ o = Telling(To(Updated(partman, resized), "choose", Nothing), Entries(resized))
  <2>1. CASE partman.q = "confirm_resize"
    BY <1>2, <2>1 DEF Outcomes, ConfirmResize
  <2>2. CASE partman.q = "new_size"
    <3>1. o \in NewSize(partman, answer)
      BY <2>2 DEF Outcomes
    <3>2. CASE answer.is = "back"
      BY <1>2, <3>1, <3>2 DEF NewSize
    <3>3. CASE answer.is = "size" /\ answer.size = request.size
      BY <1>2, <3>1, <3>3 DEF NewSize
    <3> QED BY <1>1, <2>2, <3>2, <3>3
  <2> QED BY <2>1, <2>2
<1>5. CASE o = To(partman, "active", s)
  BY <1>2, <1>3, <1>5, QuestionNames, GoesOn
<1>6. CASE o = To(partman, "new_size", s)
  BY <1>2, <1>3, <1>6, QuestionNames, GoesOn
<1>7. CASE o = After("bad_new_size", To(partman, "new_size", s))
  BY <1>2, <1>3, <1>7, QuestionNames, GoesOn
<1>8. CASE o = After("new_size_commit_failed", To(partman, "choose", Nothing))
  BY <1>3, <1>8, QuestionNames, GoesOn
<1>9. CASE /\ answer.size = request.size /\ Fits(P, p, answer.size)
           /\ o = Telling(To(Updated(partman, resized), "choose", Nothing), Entries(resized))
  <2>1. answer.size \in Nat
    <3>1. request \in Edits
      BY <1>1 DEF TypeInv, Requests, Creations, Edits, NoRequest
    <3> QED BY <1>9, <3>1 DEF Edits
  <2> HIDE DEF p
  <2>3. IsTable(resized) /\ TellsAll(P, resized, Entries(resized))
    BY <1>2, <1>9, <2>1, Resized
  <2> HIDE DEF resized
  <2>4. Asks(Asking("choose", Nothing, resized), request)
    BY <1>1 DEF Asks, Asking
  <2> QED BY <1>9, <2>3, <2>4, QuestionNames, GoesOnTelling
<1> QED BY <1>4, <1>5, <1>6, <1>7, <1>8, <1>9

(* crypto, passphrase and confirm *)
LEMMA LastAsked ==
  ASSUME TypeInv, partman.autoDone, partman.q \in {"crypto", "passphrase", "confirm"},
         Asks(partman, request), NEW o \in Outcomes(partman, answer)
  PROVE  Follows(o)
<1> DEFINE P == partman.parts
<1>1. request = NoRequest /\ (partman.q = "passphrase" => partman.on = <<"manual">>)
  BY DEF Asks
<1>2. /\ Asks(Asking("choose", Nothing, P), request)
      /\ Asks(Asking("passphrase", <<"manual">>, P), request)
  BY <1>1 DEF Asks, Asking, NoRequest
<1>3. <<"manual">> # <<"auto">>
  <2>1. <<"manual">>[1] # <<"auto">>[1]
    OBVIOUS
  <2> QED BY <2>1
<1>4. CASE partman.q = "crypto"
  <2>1. o = To(partman, "passphrase", <<"manual">>)
    BY <1>4 DEF Outcomes
  <2> QED BY <1>2, <2>1, QuestionNames, GoesOn
<1>5. CASE partman.q = "passphrase"
  <2>1. \/ o = Telling(To(partman, "choose", Nothing), Entries(P))
        \/ o = After("commit_failed", To(partman, "choose", Nothing))
    BY <1>1, <1>3, <1>5 DEF Outcomes, Passphrase
  <2>2. CASE o = Telling(To(partman, "choose", Nothing), Entries(P))
    <3>1. Entries(P) \in Seq(Slots \cup {ALL})
      BY EntriesListed DEF TypeInv
    <3>2. request.is # "delete"
      BY <1>1 DEF NoRequest
    <3> QED BY <2>2, <3>1, <3>2, GoesBack
  <2>3. CASE o = After("commit_failed", To(partman, "choose", Nothing))
    BY <1>2, <2>3, QuestionNames, GoesOn
  <2> QED BY <2>1, <2>2, <2>3
<1>6. CASE partman.q = "confirm"
  <2>1. o = To(partman, "done", Nothing) \/ o = To(partman, "choose", Nothing)
    BY <1>6, Displayed DEF Outcomes, Confirm
  <2>2. CASE o = To(partman, "done", Nothing)
    BY <2>2, QuestionNames, GoesOn
  <2>3. CASE o = To(partman, "choose", Nothing)
    BY <1>2, <2>3, QuestionNames, GoesOn
  <2> QED BY <2>1, <2>2, <2>3
<1> QED BY <1>4, <1>5, <1>6

(* Whatever the page waits for, partman goes on in a way the page is ready *)
(* for.                                                                    *)
LEMMA WaitedFor ==
  ASSUME TypeInv, partman.autoDone, ~build.on, Answers(partman, request, answer),
         NEW o \in Outcomes(partman, answer), ~TurnedAway(o)
  PROVE  Follows(o)
<1>1. CASE partman.q = "choose"
  BY <1>1, Chosen
<1>2. CASE partman.q = "confirm_new_label"
  <2>1. Asks(partman, request)
    BY <1>2 DEF Answers
  <2> QED BY <1>2, <2>1, NewLabelled
<1>3. CASE partman.q = "free_space"
  <2>1. Asks(partman, request)
    BY <1>3 DEF Answers
  <2> QED BY <1>3, <2>1, SpaceUsed
<1>4. CASE partman.q = "new_partition_size"
  <2>1. Asks(partman, request)
        /\ (answer.is = "back" \/ (answer.is = "size" /\ answer.size = request.size))
    BY <1>4 DEF Answers
  <2> QED BY <1>4, <2>1, Made
<1>5. CASE partman.q = "active"
  BY <1>5, MenuUsed
<1>6. CASE partman.q = "choose_method"
  BY <1>6, MethodSet
<1>7. CASE partman.q \in {"mountpoint", "mountpoint_manual"}
  BY <1>7, MountSet
<1>8. CASE partman.q \in {"confirm_resize", "new_size"}
  BY <1>8, SizeSet
<1>9. CASE partman.q \in {"crypto", "passphrase", "confirm"}
  <2>1. Asks(partman, request)
    BY <1>9 DEF Answers
  <2> QED BY <1>9, <2>1, LastAsked
<1> QED BY <1>1, <1>2, <1>3, <1>4, <1>5, <1>6, <1>7, <1>8, <1>9 DEF Answers

(* What was wrong with a request does not change what is requested. *)
SameRequest(r, w) ==
  /\ r \in Requests /\ r.is = w.is
  /\ r = w \/ (w \in Creations \cup Edits /\ r.on = w.on /\ r.size = w.size /\ r # NoRequest)

LEMMA NotedOnly ==
  ASSUME request \in Requests, NEW error
  PROVE  SameRequest(Noted(error), request) /\ (request = NoRequest => Noted(error) = NoRequest)
<1> DEFINE noted(what) == [request EXCEPT !.bad = @ \cup {what}]
<1>1. \/ Noted(error) = request
      \/ /\ request.is \in {"create", "edit"}
         /\ \E what \in {"size", "mountpoint"} : Noted(error) = noted(what)
  BY DEF Noted, BadSizes
<1>2. request.is \in {"create", "edit"} => request \in Creations \cup Edits
  BY DEF Requests, NoRequest
<1>3. ASSUME NEW what \in {"size", "mountpoint"}, request \in Creations, Noted(error) = noted(what)
      PROVE  SameRequest(Noted(error), request) /\ request.is = "create"
  <2>1. noted(what) \in Creations /\ request.is = "create"
    BY <1>3 DEF Creations, Bads
  <2>2. noted(what).is = "create" /\ noted(what).on = request.on /\ noted(what).size = request.size
    BY <1>3 DEF Creations
  <2>3. noted(what) # NoRequest
    BY <2>2 DEF NoRequest
  <2> QED BY <1>3, <2>1, <2>2, <2>3 DEF SameRequest, Requests
<1>4. ASSUME NEW what \in {"size", "mountpoint"}, request \in Edits, Noted(error) = noted(what)
      PROVE  SameRequest(Noted(error), request) /\ request.is = "edit"
  <2>1. noted(what) \in Edits /\ request.is = "edit"
    BY <1>4 DEF Edits, Bads
  <2>2. noted(what).is = "edit" /\ noted(what).on = request.on /\ noted(what).size = request.size
    BY <1>4 DEF Edits
  <2>3. noted(what) # NoRequest
    BY <2>2 DEF NoRequest
  <2> QED BY <1>4, <2>1, <2>2, <2>3 DEF SameRequest, Requests
<1>5. Noted(error) = request => SameRequest(Noted(error), request)
  BY DEF SameRequest
<1>6. request = NoRequest => request.is = "none"
  BY DEF NoRequest
<1> HIDE DEF noted
<1> QED BY <1>1, <1>2, <1>3, <1>4, <1>5, <1>6

LEMMA AskedTheSame ==
  ASSUME NEW r, NEW w, SameRequest(r, w), NEW p, Asks(p, w)
  PROVE  Asks(p, r)
<1>1. CASE r = w
  BY <1>1
<1>2. CASE /\ w \in Creations \cup Edits /\ r.is = w.is /\ r.on = w.on /\ r.size = w.size
           /\ w.is \in {"create", "edit"}
  <2>1. w # NoRequest
    BY <1>2 DEF NoRequest
  <2>2. WantsRow(p.parts, w) => WantsRow(p.parts, r)
    BY <1>2 DEF WantsRow, FitsIn
  <2> QED BY <1>2, <2>1, <2>2 DEF Asks
<1>3. w \in Creations \cup Edits => w.is \in {"create", "edit"}
  BY DEF Creations, Edits
<1> QED BY <1>1, <1>2, <1>3 DEF SameRequest

(* What partman's move to outcome o does, if that turns the page away from *)
(* no partition                                                            *)
MovesTo(o) ==
  /\ turn = "partman" /\ o \in Outcomes(partman, answer) /\ ~TurnedAway(o)
  /\ partman' = o.partman
  /\ build' = Heard(build, o.news)
  /\ turn' = IF o.partman.q \in {"done", "left"} THEN "over" ELSE "page"
  /\ complete' = (o.partman.q \notin frozen)
  /\ request' = Noted(o.error)
  /\ auto' = [auto EXCEPT !.badSize = auto'.badSize] /\ auto'.badSize \in BOOLEAN
  /\ UNCHANGED <<frozen, view, failure>>

LEMMA PartmanMovesTo ==
  ASSUME TypeInv, PartmanMoves, ~turnedAway'
  PROVE  \E o \in Outcomes(partman, answer) : MovesTo(o)
<1>1. PICK o \in Outcomes(partman, answer) :
        /\ ~TurnedAway(o)
        /\ partman' = o.partman
        /\ build' = Heard(build, o.news)
        /\ turn' = IF o.partman.q \in {"done", "left"} THEN "over" ELSE "page"
        /\ complete' = (o.partman.q \notin frozen)
        /\ request' = Noted(o.error)
        /\ auto' = [auto EXCEPT !.badSize = @ \/ (o.error \in BadSizes /\ request.is # "edit")]
  BY DEF PartmanMoves
<1>2. turn = "partman" /\ UNCHANGED <<frozen, view, failure>>
  BY DEF PartmanMoves
<1>3. auto' = [auto EXCEPT !.badSize = auto'.badSize] /\ auto'.badSize \in BOOLEAN
  <2>1. auto.badSize \in BOOLEAN
    BY DEF TypeInv
  <2>2. auto \in [walk : Nat, extra : SUBSET Words, asking : BOOLEAN, badSize : BOOLEAN,
                  choice : Words \cup {"none"}, crypto : BOOLEAN]
    BY DEF TypeInv
  <2> QED BY <1>1, <2>1, <2>2
<1> QED BY <1>1, <1>2, <1>3 DEF MovesTo

(* partman goes on with what was asked of it. *)
LEMMA WaitingGoesOn ==
  ASSUME TypeInv, failure = "none", Waiting, NEW o, MovesTo(o)
  PROVE  OnCourse'
<1>1. Follows(o)
  BY WaitedFor DEF MovesTo, Waiting, Doing
<1>2. Noted(o.error) = request' /\ SameRequest(request', request)
  BY NotedOnly DEF MovesTo, TypeInv
<1>3. TellsAll(partman.parts, o.partman.parts, o.news) /\ IsBuild(build) /\ ~build.on
      /\ Known(partman.parts, build)
  BY <1>1 DEF Follows, TypeInv, Waiting
<1>4. /\ IsBuild(build') /\ Known(o.partman.parts, build')
      /\ build' = [build EXCEPT !.updates = build'.updates]
  <2>1. /\ IsBuild(Heard(build, o.news)) /\ Known(o.partman.parts, Heard(build, o.news))
        /\ Heard(build, o.news) = [build EXCEPT !.updates = Heard(build, o.news).updates]
    BY <1>3, HeardIsKnown
  <2> QED BY <2>1 DEF MovesTo
<1>5. ~build'.on /\ ~build'.progress /\ build'.menus = build.menus
  BY <1>3, <1>4 DEF IsBuild, Waiting
<1>6. /\ auto' \in [walk : Nat, extra : SUBSET Words, asking : BOOLEAN, badSize : BOOLEAN,
                    choice : Words \cup {"none"}, crypto : BOOLEAN]
      /\ ~auto'.asking /\ auto'.crypto = auto.crypto
  BY DEF TypeInv, MovesTo, Waiting
<1>7. frozen' = {} /\ complete' /\ complete' \in BOOLEAN /\ view' = view /\ failure' = "none"
  BY DEF MovesTo, Waiting
<1>8. TypeInv'
  <2>1. /\ partman' \in [q : Questions, on : Ons, parts : SUBSET Partitions, autoDone : BOOLEAN]
        /\ IsTable(partman'.parts)
    BY <1>1 DEF Follows, MovesTo
  <2>2. request' \in Requests
    BY <1>2 DEF SameRequest
  <2>3. turn' \in {"partman", "page", "user", "over"} /\ view' \in {"ask", "auto", "crypto", "advanced"}
    BY DEF MovesTo, TypeInv
  <2> QED BY <1>4, <1>6, <1>7, <2>1, <2>2, <2>3 DEF TypeInv
<1>9. CASE o.partman.q \in {"done", "left"}
  <2>1. turn' = "over" /\ partman'.q \in {"done", "left"}
    BY <1>9 DEF MovesTo
  <2> QED BY <1>7, <1>8, <2>1 DEF OnCourse
<1>10. CASE o.partman.q \notin {"done", "left"}
  <2>1. turn' = "page" /\ partman' = o.partman
    BY <1>10 DEF MovesTo
  <2>2. Asks(partman', request') /\ (partman'.q = "crypto" => auto'.crypto)
    <3>1. Asks(o.partman, request) /\ (o.partman.q = "crypto" => auto.crypto)
      BY <1>1, <1>10 DEF Follows
    <3> QED BY <1>2, <1>6, <2>1, <3>1, AskedTheSame
  <2>3. partman'.autoDone
    BY <1>1, <2>1 DEF Follows
  <2>4. request'.is = request.is
    BY <1>2 DEF SameRequest
  <2>5. /\ Len(build'.menus) > 0 /\ build'.menus[1] = Bottom
        /\ request'.is = "create" =>
             \A i \in DOMAIN build'.menus : "resize" \notin Range(build'.menus[i].todo)
    BY <1>5, <2>4 DEF Waiting
  <2>6. Known(partman'.parts, build')
    BY <1>4, <2>1
  <2>7. Doing'
    BY <2>1, <2>2 DEF Doing
  <2>8. Waiting'
    BY <1>5, <1>6, <1>7, <2>3, <2>5, <2>6, <2>7 DEF Waiting
  <2> QED BY <1>7, <1>8, <2>1, <2>8 DEF OnCourse
<1> QED BY <1>9, <1>10

(* While the table is read partman only opens and closes the partition the *)
(* page is at.                                                             *)
LEMMA ReadOpens ==
  ASSUME TypeInv, Reading, turn = "partman", NEW o \in Outcomes(partman, answer),
         ~TurnedAway(o)
  PROVE  /\ o.news = <<>>
         /\ \/ partman.q = "choose" /\ o.partman = Asking("active", Opened, partman.parts)
            \/ /\ partman.q = "choose" /\ Len(build.menus) = 2 /\ frozen \subseteq {"choose"}
               /\ InUse(Opened) /\ Tidied(build.cache, build.updates) # <<>>
               /\ o.partman = Asking("choose", Nothing, partman.parts)
            \/ /\ partman.q \in {"active", "confirm_resize", "new_size"}
               /\ Len(build.menus) = 3
               /\ \E q \in {"active", "confirm_resize", "new_size"} :
                    o.partman = Asking(q, Opened, partman.parts)
            \/ /\ partman.q = "active" /\ Len(build.menus) = 2 /\ frozen \subseteq {"choose"}
               /\ "choose" \in frozen => Tidied(build.cache, build.updates) # <<>>
               /\ o.partman = Asking("choose", Nothing, partman.parts)
<1> DEFINE P == partman.parts
<1>1. partman.autoDone /\ IsPart(P, Opened) /\ Opened \notin LockedParts /\ Opened \in Slots
      /\ Len(build.menus) \in {2, 3}
  BY DEF Reading
<1>2. Opened # Nothing
  BY <1>1, SlotIsSomething
<1>3. CASE /\ partman.q = "choose" /\ answer.is = "partition" /\ answer.on = Opened
           /\ Len(build.menus) = 2 /\ frozen \subseteq {"choose"}
  <2>1. Opened \notin FreeSlots(P)
    BY <1>1, Numbered DEF IsPart, TypeInv
  <2>2. o \in OpenPartition(partman, Opened)
    BY <1>3 DEF Outcomes, Choose
  <2>3. CASE InUse(Opened)
    <3>1. o = After("locked", To(partman, "choose", Nothing))
      BY <2>2, <2>3 DEF OpenPartition
    <3>2. o.error = "locked"
      BY <3>1 DEF After, To
    <3>3. build.on
      BY DEF Reading
    <3>4. Tidied(build.cache, build.updates) # <<>>
      BY <1>3, <3>2, <3>3 DEF TurnedAway
    <3> QED BY <1>1, <1>3, <2>3, <3>1, <3>4, Outcome
  <2>4. CASE ~InUse(Opened)
    <3>1. o = To(partman, "active", Opened)
      BY <2>1, <2>2, <2>4 DEF OpenPartition
    <3> QED BY <1>1, <1>3, <3>1, Outcome
  <2> QED BY <2>3, <2>4
<1>4. CASE /\ partman.q = "active" /\ partman.on = Opened /\ Len(build.menus) = 3
           /\ answer.is = "resize"
  <2>1. \/ o = After("impossible_resize", To(partman, "active", Opened))
        \/ o = To(partman, "confirm_resize", Opened)
        \/ o = To(partman, "new_size", Opened)
    BY <1>4 DEF Outcomes, Active
  <2> QED BY <1>1, <1>4, <2>1, Outcome
<1>5. CASE /\ partman.q = "active" /\ Len(build.menus) = 2 /\ answer.is = "back"
           /\ frozen \subseteq {"choose"}
           /\ "choose" \in frozen => Tidied(build.cache, build.updates) # <<>>
  <2>1. o = To(partman, "choose", Nothing)
    BY <1>5 DEF Outcomes, Active
  <2> QED BY <1>1, <1>5, <2>1, Outcome
<1>6. CASE partman.q = "confirm_resize" /\ partman.on = Opened /\ Len(build.menus) = 3
  <2>1. o = To(partman, "new_size", Opened) \/ o = To(partman, "active", Opened)
    BY <1>2, <1>6 DEF Outcomes, ConfirmResize
  <2> QED BY <1>1, <1>6, <2>1, Outcome
<1>7. CASE /\ partman.q = "new_size" /\ partman.on = Opened /\ Len(build.menus) = 3
           /\ answer.is = "back"
  <2>1. o = To(partman, "active", Opened)
    BY <1>2, <1>7 DEF Outcomes, NewSize
  <2> QED BY <1>1, <1>7, <2>1, Outcome
<1> QED BY <1>1, <1>3, <1>4, <1>5, <1>6, <1>7 DEF Reading

LEMMA ReadingGoesOn ==
  ASSUME TypeInv, failure = "none", Reading, NEW o, MovesTo(o)
  PROVE  OnCourse'
<1> DEFINE P == partman.parts
<1>1. turn = "partman" /\ o \in Outcomes(partman, answer)
  BY DEF MovesTo
<1>2. build' = build
  <2>1. build.on
    BY DEF Reading
  <2> QED BY <2>1 DEF MovesTo, Heard
<1>3. request' \in Requests
  BY NotedOnly DEF MovesTo, TypeInv, SameRequest
<1>4. /\ auto' \in [walk : Nat, extra : SUBSET Words, asking : BOOLEAN, badSize : BOOLEAN,
                    choice : Words \cup {"none"}, crypto : BOOLEAN]
      /\ ~auto'.asking
  BY DEF TypeInv, MovesTo, Reading
<1>5. Opened' = Opened /\ Opened \in Ons
  BY <1>2, QuestionNames DEF Opened, Reading
<1>6. PICK q \in {"choose", "active", "confirm_resize", "new_size"}, on \in {Nothing, Opened} :
        /\ o.partman = Asking(q, on, P)
        /\ q # "choose" => on = Opened
        /\ q = "active" => Len(build.menus) = 3 \/ (partman.q = "choose" /\ Len(build.menus) = 2)
        /\ q \in {"confirm_resize", "new_size"} => Len(build.menus) = 3
        /\ q = "choose" =>
             /\ partman.q = "active" \/ InUse(Opened)
             /\ Len(build.menus) = 2 /\ frozen \subseteq {"choose"}
             /\ "choose" \in frozen => Tidied(build.cache, build.updates) # <<>>
  <2>1. CASE partman.q = "choose" /\ o.partman = Asking("active", Opened, P)
    <3>1. Len(build.menus) = 2
      BY <1>1, <2>1 DEF Reading
    <3> QED BY <2>1, <3>1
  <2>2. CASE /\ Len(build.menus) = 3
             /\ \E q \in {"active", "confirm_resize", "new_size"} : o.partman = Asking(q, Opened, P)
    BY <2>2
  <2>3. CASE /\ partman.q = "active" \/ InUse(Opened)
             /\ Len(build.menus) = 2 /\ frozen \subseteq {"choose"}
             /\ "choose" \in frozen => Tidied(build.cache, build.updates) # <<>>
             /\ o.partman = Asking("choose", Nothing, P)
    BY <2>3
  <2>4. ~TurnedAway(o)
    BY DEF MovesTo
  <2> QED BY <1>1, <2>1, <2>2, <2>3, <2>4, ReadOpens
<1>7. /\ partman' = [q |-> q, on |-> on, parts |-> P, autoDone |-> TRUE]
      /\ partman'.q = q /\ partman'.on = on /\ partman'.parts = P /\ partman'.autoDone
      /\ turn' = "page" /\ complete' = (q \notin frozen) /\ frozen' = frozen
      /\ view' = view /\ failure' = "none"
  <2>1. o.partman.q = q
    BY <1>6 DEF Asking
  <2> QED BY <1>6, <2>1 DEF Asking, MovesTo
<1>8. TypeInv'
  <2>1. partman' \in [q : Questions, on : Ons, parts : SUBSET Partitions, autoDone : BOOLEAN]
    BY <1>5, <1>7, QuestionNames DEF TypeInv
  <2> QED BY <1>2, <1>3, <1>4, <1>7, <2>1 DEF TypeInv
<1>9. CASE q = "choose"
  <2>1. \A s \in Rows(P) : FreshIn(P, build.cache, s) \/ s \in Range(build.updates)
    <3>1. InUse(Opened) => FreshIn(P, build.cache, Opened)
      BY DEF Reading, FreshIn, Cached
    <3> QED BY <1>1, <1>6, <1>9, <3>1 DEF Reading, Unread
  <2>2. complete' \/ Tidied(build.cache, build.updates) # <<>>
    BY <1>6, <1>7, <1>9
  <2>3. Reading'
    BY <1>2, <1>4, <1>5, <1>6, <1>7, <1>9, <2>1, <2>2 DEF Reading, Cached
  <2> QED BY <1>7, <1>8, <2>3 DEF OnCourse
<1>10. CASE q = "active" /\ Len(build.menus) = 2
  <2>1. /\ frozen \subseteq {"choose"} /\ partman.q = "choose"
    BY <1>1, <1>6, <1>10 DEF Reading
  <2>2. Unread'
    BY <1>2, <1>7, <1>10 DEF Unread
  <2>3. \A s \in Rows(P) :
          \/ FreshIn(P, build.cache, s) \/ s \in Range(build.updates)
          \/ s = Opened /\ Unread'
    BY <2>2 DEF Reading
  <2>4. Reading'
    BY <1>2, <1>4, <1>5, <1>6, <1>7, <1>10, <2>1, <2>3 DEF Reading, Cached
  <2> QED BY <1>7, <1>8, <2>4 DEF OnCourse
<1>11. CASE q \in {"active", "confirm_resize", "new_size"} /\ Len(build.menus) = 3
  <2>1. \A s \in Rows(P) : FreshIn(P, build.cache, s) \/ s \in Range(build.updates)
    BY <1>11 DEF Reading, Unread
  <2>2. Reading'
    BY <1>2, <1>4, <1>5, <1>6, <1>7, <1>11, <2>1 DEF Reading, Cached
  <2> QED BY <1>7, <1>8, <2>2 DEF OnCourse
<1> QED BY <1>6, <1>9, <1>10, <1>11

-----------------------------------------------------------------------------
(* partman's moves in automatic partitioning *)

(* An outcome that is still, or for the last time, automatic *)
Automatic(o) ==
  /\ o.partman \in [q : Questions, on : Ons, parts : SUBSET Partitions, autoDone : BOOLEAN]
  /\ IsTable(o.partman.parts)
  /\ \/ o.partman.q \in {"done", "left"}
     \/ /\ o.partman.autoDone
        /\ \/ o.partman.q = "choose"
           \/ o.partman.q = "confirm" /\ auto.asking
           \/ /\ o.partman.parts = Initial
              /\ \/ o.partman.q = "auto"
                 \/ o.partman.q = "select_disk" /\ auto.asking
                 \/ /\ o.partman.q \in {"confirm_resize", "new_size"} /\ auto.asking
                    /\ o.partman.on = Nothing
                 \/ o.partman.q = "passphrase" /\ o.partman.on = <<"auto">> /\ auto.asking

LEMMA AutomaticTo ==
  ASSUME NEW o, NEW q \in Questions, NEW on \in Ons, NEW parts \in {partman.parts, Initial, Recipe},
         TypeInv, o.partman = Asking(q, on, parts),
         \/ q \in {"choose", "done", "left"}
         \/ q = "confirm" /\ auto.asking
         \/ parts = Initial /\ q = "auto"
         \/ parts = Initial /\ q = "select_disk" /\ auto.asking
         \/ /\ parts = Initial /\ q \in {"confirm_resize", "new_size"} /\ auto.asking
            /\ on = Nothing
         \/ parts = Initial /\ q = "passphrase" /\ on = <<"auto">> /\ auto.asking
  PROVE  Automatic(o)
<1>1. IsTable(parts)
  BY PartmanAssumption DEF TypeInv
<1>2. parts \subseteq Partitions
  BY <1>1 DEF IsTable
<1> QED BY <1>1, <1>2 DEF Automatic, Asking

LEMMA GuidedOn ==
  ASSUME TypeInv, partman.autoDone, partman.parts = Initial, auto.asking,
         NEW o \in Guided(partman)
  PROVE  Automatic(o)
<1> DEFINE s == Updated(partman, Recipe)
<1>1. s.autoDone = TRUE /\ partman.autoDone = TRUE /\ s.parts = Recipe
  BY DEF TypeInv, Updated
<1>2. Display(s) = To(s, "choose", Nothing)
  BY <1>1 DEF Display
<1>3. \/ o = To(s, "confirm", Nothing)
      \/ o = After("check", To(s, "choose", Nothing))
      \/ o = After("recipe", To(partman, "auto", Nothing))
  BY <1>2 DEF Guided, Check
<1> HIDE DEF s
<1>4. \/ o.partman = Asking("confirm", Nothing, Recipe)
      \/ o.partman = Asking("choose", Nothing, Recipe)
      \/ o.partman = Asking("auto", Nothing, Initial)
  <2>1. To(s, "confirm", Nothing).partman = Asking("confirm", Nothing, Recipe)
    BY <1>1 DEF To, Asking
  <2>2. After("check", To(s, "choose", Nothing)).partman = Asking("choose", Nothing, Recipe)
    BY <1>1 DEF To, After, Asking
  <2>3. After("recipe", To(partman, "auto", Nothing)).partman = Asking("auto", Nothing, Initial)
    BY <1>1 DEF To, After, Asking
  <2> QED BY <1>3, <2>1, <2>2, <2>3
<1> QED BY <1>4, QuestionNames, AutomaticTo

(* initial_auto, the first time *)
LEMMA OffersAuto ==
  ASSUME TypeInv, partman.parts = Initial, NEW o,
         o = To([partman EXCEPT !.autoDone = TRUE], "auto", Nothing)
  PROVE  o.partman = Asking("auto", Nothing, Initial)
<1>1. /\ [partman EXCEPT !.autoDone = TRUE].autoDone = TRUE
      /\ [partman EXCEPT !.autoDone = TRUE].parts = Initial
  BY DEF TypeInv
<1> QED BY <1>1 DEF To, Asking

LEMMA ChoosingOutcome ==
  ASSUME TypeInv, Choosing, turn = "partman", NEW o \in Outcomes(partman, answer)
  PROVE  Automatic(o)
<1> DEFINE s == partman
<1>1. InAuto \/ (partman.q = "confirm" /\ auto.asking)
  BY DEF Choosing
<1>2. InAuto => partman.parts = Initial
  BY DEF Choosing
<1>3. InAuto /\ partman.q # "init" => partman.autoDone /\ auto.asking
  BY DEF Choosing, InAuto
<1>4. ASSUME InAuto, partman.q # "init",
             NEW q \in {"auto", "select_disk", "confirm_resize", "new_size", "choose", "left"},
             o = To(s, q, Nothing) \/ \E error : o = After(error, To(s, q, Nothing))
      PROVE  Automatic(o)
  <2>1. o.partman = Asking(q, Nothing, Initial)
    BY <1>2, <1>3, <1>4, Outcome
  <2> QED BY <1>3, <1>4, <2>1, QuestionNames, AutomaticTo
<1>5. ASSUME InAuto, partman.q # "init", o \in Guided(s)
      PROVE  Automatic(o)
  BY <1>2, <1>3, <1>5, GuidedOn
<1>6. CASE partman.q = "init"
  <2>1. o = Display(s) /\ s.parts = Initial
    BY <1>1, <1>2, <1>6 DEF Outcomes
  <2>2. \/ o = To(s, "choose", Nothing) /\ s.autoDone = TRUE
        \/ o = To([s EXCEPT !.autoDone = TRUE], "auto", Nothing)
    BY <2>1 DEF Display, TypeInv
  <2>3. \/ o.partman = Asking("choose", Nothing, Initial)
        \/ o.partman = Asking("auto", Nothing, Initial)
    <3>1. CASE o = To(s, "choose", Nothing) /\ s.autoDone = TRUE
      BY <2>1, <3>1, Outcome
    <3>2. CASE o = To([s EXCEPT !.autoDone = TRUE], "auto", Nothing)
      BY <2>1, <3>2, OffersAuto
    <3> QED BY <2>2, <3>1, <3>2
  <2> QED BY <2>3, QuestionNames, AutomaticTo
<1>7. CASE partman.q = "auto"
  <2>1. o \in InitialAuto(s, answer) /\ answer.is \in Words \cup {"back"} /\ InAuto
    BY <1>7 DEF Outcomes, Choosing, InAuto
  <2>2. CASE answer.is = "back"
    <3>1. o = To(s, "left", Nothing)
      BY <2>1, <2>2 DEF InitialAuto
    <3> QED BY <1>4, <1>7, <2>1, <3>1
  <2>3. CASE answer.is = "some_device"
    <3>1. o = To(s, "select_disk", Nothing)
      BY <2>1, <2>3 DEF InitialAuto
    <3> QED BY <1>4, <1>7, <2>1, <3>1
  <2>4. CASE answer.is = "some_device_crypto"
    <3>1. o = To(s, "select_disk", <<"crypto">>)
      BY <2>1, <2>4 DEF InitialAuto
    <3>2. o.partman = Asking("select_disk", <<"crypto">>, Initial)
      BY <1>2, <1>3, <1>7, <2>1, <3>1, Outcome
    <3> QED BY <1>3, <1>7, <2>1, <3>2, QuestionNames, AutomaticTo
  <2>5. CASE answer.is = "resize"
    <3>1. \/ o = To(s, "confirm_resize", Nothing)
          \/ o = After("impossible_resize", To(s, "auto", Nothing))
      BY <2>1, <2>5 DEF InitialAuto
    <3> QED BY <1>4, <1>7, <2>1, <3>1
  <2>6. CASE answer.is = "reuse"
    <3>1. o \in Guided(s)
      BY <2>1, <2>6 DEF InitialAuto
    <3> QED BY <1>5, <1>7, <2>1, <3>1
  <2>7. CASE answer.is = "manual"
    <3>1. o = To(s, "choose", Nothing)
      BY <2>1, <2>7 DEF InitialAuto
    <3> QED BY <1>4, <1>7, <2>1, <3>1
  <2> QED BY <2>1, <2>2, <2>3, <2>4, <2>5, <2>6, <2>7 DEF Words
<1>8. CASE partman.q = "select_disk"
  <2>1. InAuto /\ o \in SelectDisk(s, answer)
    BY <1>8 DEF Outcomes, InAuto
  <2>2. \/ o = To(s, "auto", Nothing)
        \/ o = To(s, "passphrase", <<"auto">>)
        \/ o \in Guided(s)
    BY <2>1 DEF SelectDisk
  <2>3. CASE o = To(s, "passphrase", <<"auto">>)
    <3>1. o.partman = Asking("passphrase", <<"auto">>, Initial)
      BY <1>2, <1>3, <1>8, <2>1, <2>3, Outcome
    <3> QED BY <1>3, <1>8, <2>1, <3>1, QuestionNames, AutomaticTo
  <2> QED BY <1>4, <1>5, <1>8, <2>1, <2>2, <2>3
<1>9. CASE partman.q = "passphrase"
  <2>1. InAuto /\ partman.on = <<"auto">>
    BY <1>1, <1>9 DEF InAuto
  <2>2. o \in Guided(s)
    BY <1>9, <2>1 DEF Outcomes, Passphrase
  <2> QED BY <1>5, <1>9, <2>1, <2>2
<1>10. CASE partman.q = "confirm_resize"
  <2>1. InAuto /\ partman.on = Nothing
    BY <1>1, <1>10 DEF InAuto
  <2>2. o = To(s, "new_size", Nothing) \/ o = To(s, "auto", Nothing)
    BY <1>10, <2>1 DEF Outcomes, ConfirmResize
  <2> QED BY <1>4, <1>10, <2>1, <2>2
<1>11. CASE partman.q = "new_size"
  <2>1. InAuto /\ partman.on = Nothing
    BY <1>1, <1>11 DEF InAuto
  <2>2. \/ o = To(s, "auto", Nothing)
        \/ o = After("bad_new_size", To(s, "new_size", Nothing))
        \/ o \in Guided(s)
    BY <1>11, <2>1 DEF Outcomes, NewSize
  <2> QED BY <1>4, <1>5, <1>11, <2>1, <2>2
<1>12. CASE partman.q = "confirm"
  <2>1. s.autoDone \in BOOLEAN /\ (answer.is = "true" \/ (s.parts = Initial /\ ~s.autoDone))
    BY <1>12 DEF TypeInv, Choosing
  <2>2. CASE o = To(s, "done", Nothing)
    <3>1. /\ o.partman = [q |-> "done", on |-> Nothing, parts |-> s.parts, autoDone |-> s.autoDone]
          /\ s.parts \subseteq Partitions /\ IsTable(s.parts)
      BY <2>2 DEF To, TypeInv
    <3> QED BY <2>1, <3>1, QuestionNames DEF Automatic
  <2>3. CASE o = Display(s) /\ s.parts = Initial /\ ~s.autoDone
    <3>1. o = To([s EXCEPT !.autoDone = TRUE], "auto", Nothing)
      BY <2>3 DEF Display
    <3>2. o.partman = Asking("auto", Nothing, Initial)
      BY <2>3, <3>1, OffersAuto
    <3> QED BY <3>2, QuestionNames, AutomaticTo
  <2> QED BY <1>12, <2>1, <2>2, <2>3 DEF Outcomes, Confirm
<1> QED BY <1>1, <1>6, <1>7, <1>8, <1>9, <1>10, <1>11, <1>12 DEF InAuto

LEMMA ChoosingGoesOn ==
  ASSUME TypeInv, failure = "none", Choosing, NEW o, MovesTo(o)
  PROVE  OnCourse'
<1>1. turn = "partman" /\ o \in Outcomes(partman, answer)
  BY DEF MovesTo
<1>2. Automatic(o)
  BY <1>1, ChoosingOutcome
<1>3. build' = build /\ build.on
  BY DEF MovesTo, Choosing, Heard
<1>4. request' = NoRequest
  <2>1. request = NoRequest /\ request \in Requests
    BY DEF Choosing, TypeInv
  <2> QED BY <2>1, NotedOnly DEF MovesTo
<1>5. /\ auto' \in [walk : Nat, extra : SUBSET Words, asking : BOOLEAN, badSize : BOOLEAN,
                    choice : Words \cup {"none"}, crypto : BOOLEAN]
      /\ auto'.asking = auto.asking /\ ~auto'.crypto
  BY DEF TypeInv, MovesTo, Choosing
<1>6. /\ partman' = o.partman /\ frozen' = {} /\ complete' = TRUE /\ view' = view
      /\ failure' = "none"
  BY DEF MovesTo, Choosing
<1>7. turn' = IF o.partman.q \in {"done", "left"} THEN "over" ELSE "page"
  BY DEF MovesTo
<1>8. TypeInv'
  <2>1. request' \in Requests
    BY <1>4 DEF Requests
  <2>2. turn' \in {"partman", "page", "user", "over"}
    BY <1>7
  <2>3. /\ partman' \in [q : Questions, on : Ons, parts : SUBSET Partitions, autoDone : BOOLEAN]
        /\ IsTable(partman'.parts)
    BY <1>2, <1>6 DEF Automatic
  <2> QED BY <1>3, <1>5, <1>6, <2>1, <2>2, <2>3 DEF TypeInv
<1>9. CASE o.partman.q \in {"done", "left"}
  BY <1>6, <1>7, <1>8, <1>9 DEF OnCourse
<1>10. CASE o.partman.q \notin {"done", "left"}
  <2>1. turn' = "page"
    BY <1>7, <1>10
  <2>2. /\ InAuto' \/ (partman'.q = "confirm" /\ auto'.asking) \/ partman'.q = "choose"
        /\ InAuto' => partman'.parts = Initial
        /\ InAuto' /\ partman'.q \notin {"init", "auto"} => auto'.asking
        /\ partman'.autoDone
    BY <1>2, <1>5, <1>6, <1>10 DEF Automatic, InAuto
  <2>3. Choosing'
    BY <1>3, <1>4, <1>5, <1>6, <2>1, <2>2 DEF Choosing
  <2> QED BY <1>6, <1>8, <2>1, <2>3 DEF OnCourse
<1> QED BY <1>9, <1>10

LEMMA PartmanStep ==
  ASSUME OnCourse, PartmanMoves, ~turnedAway'
  PROVE  OnCourse'
<1>1. PICK o \in Outcomes(partman, answer) : MovesTo(o)
  BY PartmanMovesTo DEF OnCourse
<1>2. TypeInv /\ failure = "none" /\ (Choosing \/ Reading \/ Waiting)
  BY <1>1 DEF OnCourse, MovesTo
<1> QED BY <1>1, <1>2, ChoosingGoesOn, ReadingGoesOn, WaitingGoesOn

-----------------------------------------------------------------------------
(* Reading the table *)

(* What is dropped from the start of the list has no menu to be read; what *)
(* is then first has one.                                                  *)
LEMMA TidiedList ==
  ASSUME NEW cache, NEW T, NEW list \in Seq(T)
  PROVE  /\ Tidied(cache, list) \in Seq(T)
         /\ Range(Tidied(cache, list)) \subseteq Range(list)
         /\ \A s \in Range(list) : s \in Range(Tidied(cache, list)) \/ Boring(cache, s)
         /\ Tidied(cache, list) # <<>> =>
              /\ ~Boring(cache, Head(Tidied(cache, list)))
              /\ Head(Tidied(cache, list)) \in Range(Tidied(cache, list))
         /\ \A s \in Range(list) : ~Boring(cache, s) => Tidied(cache, list) # <<>>
<1> DEFINE keep == {i \in DOMAIN list : ~Boring(cache, list[i])}
           first == CHOOSE i \in keep : \A j \in keep : i <= j
<1>1. Tidied(cache, list) = IF keep = {} THEN <<>> ELSE SubSeq(list, first, Len(list))
  BY DEF Tidied
<1>2. keep \in SUBSET Nat /\ keep \subseteq 1 .. Len(list) /\ Len(list) \in Nat
  OBVIOUS
<1>3. \A s \in Range(list) : s \notin T \/ s \in T
  OBVIOUS
<1>4. \A i \in DOMAIN list : i \in keep \/ Boring(cache, list[i])
  OBVIOUS
<1>5. \A i \in keep : ~Boring(cache, list[i])
  OBVIOUS
<1> HIDE DEF keep
<1>6. CASE keep = {}
  <2>1. Tidied(cache, list) = <<>> /\ <<>> \in Seq(T) /\ Range(<<>>) = {}
    BY <1>1, <1>6 DEF Range
  <2>2. \A s \in Range(list) : Boring(cache, s)
    BY <1>4, <1>6 DEF Range
  <2> QED BY <2>1, <2>2
<1>7. CASE keep # {}
  <2>1. first \in keep /\ \A j \in keep : first <= j
    <3>1. \E i \in keep : \A j \in keep : i <= j
      BY <1>2, <1>7, LeastNumber
    <3> QED BY <3>1
  <2> HIDE DEF first
  <2> DEFINE tidied == SubSeq(list, first, Len(list))
  <2>2. first \in Nat /\ 1 <= first /\ first <= Len(list)
    BY <1>2, <2>1
  <2>3. /\ tidied \in Seq(T) /\ Len(tidied) = Len(list) - first + 1
        /\ \A i \in 1 .. Len(list) - first + 1 : tidied[i] = list[first + i - 1]
    BY <2>2
  <2>4. Tidied(cache, list) = tidied
    BY <1>1, <1>7
  <2> HIDE DEF tidied
  <2>5. tidied # <<>> /\ Head(tidied) = list[first]
    BY <2>2, <2>3
  <2>6. ~Boring(cache, list[first])
    BY <1>5, <2>1
  <2>7. ASSUME NEW i \in DOMAIN list, i >= first
        PROVE  list[i] \in Range(tidied)
    <3>1. i - first + 1 \in 1 .. Len(list) - first + 1 /\ first + (i - first + 1) - 1 = i
      BY <2>2, <2>7
    <3>2. tidied[i - first + 1] = list[i] /\ i - first + 1 \in DOMAIN tidied
      BY <2>3, <3>1
    <3> QED BY <3>2 DEF Range
  <2>8. ASSUME NEW i \in DOMAIN list
        PROVE  list[i] \in Range(tidied) \/ Boring(cache, list[i])
    <3>1. i \in Nat
      OBVIOUS
    <3>2. i >= first \/ i \notin keep
      BY <2>1, <2>2, <3>1
    <3> QED BY <1>4, <2>7, <3>2
  <2>9. \A i \in DOMAIN tidied : tidied[i] \in Range(list)
    <3> SUFFICES ASSUME NEW i \in 1 .. Len(list) - first + 1 PROVE tidied[i] \in Range(list)
      BY <2>2, <2>3
    <3>1. first + i - 1 \in DOMAIN list
      BY <2>2
    <3> QED BY <2>3, <3>1 DEF Range
  <2>10. \A s \in Range(list) : s \in Range(tidied) \/ Boring(cache, s)
    BY <2>8 DEF Range
  <2>11. Range(tidied) \subseteq Range(list)
    BY <2>9 DEF Range
  <2>12. Head(tidied) \in Range(tidied)
    BY <2>1, <2>2, <2>5, <2>7, <1>2
  <2> QED BY <2>3, <2>4, <2>5, <2>6, <2>10, <2>11, <2>12
<1> QED BY <1>6, <1>7

(* What the cache knows of a row that has no menu is enough. *)
LEMMA BoringIsFresh ==
  ASSUME NEW parts, IsTable(parts), NEW cache, NEW s \in Rows(parts), s \in DOMAIN cache,
         cache[s].num = NumberOf(parts, s), Boring(cache, s)
  PROVE  FreshIn(parts, cache, s)
<1>1. CASE s \in LockedParts
  BY <1>1 DEF FreshIn, InUse
<1>2. CASE NumberOf(parts, s) = 0
  <2>1. s \in FreeSlots(parts)
    BY <1>2, Numbered
  <2>2. \A p \in parts : p.slot # s
    BY <2>1, Numbered
  <2> QED BY <2>2 DEF FreshIn
<1> QED BY <1>1, <1>2 DEF Boring

(* A row that has a menu is of a partition that is not in use itself. *)
LEMMA OpensWhatIsNotBoring ==
  ASSUME NEW parts, IsTable(parts), NEW cache, NEW s \in Rows(parts),
         cache[s].num = NumberOf(parts, s), ~Boring(cache, s)
  PROVE  IsPart(parts, s) /\ s \notin LockedParts /\ s \in Slots
<1>1. NumberOf(parts, s) # 0 /\ s \notin LockedParts
  BY DEF Boring
<1>2. PICK p \in parts : p.slot = s
  BY <1>1, Numbered
<1> QED BY <1>1, <1>2, Numbered DEF IsPart

(* What a reading knows of the table: all but what is on its list. *)
KnownBut(parts, b) ==
  /\ b.updates # NoList /\ b.order = Entries(parts)
  /\ \A s \in Range(b.updates) :
       s \in Rows(parts) /\ s \in DOMAIN b.cache /\ b.cache[s].num = NumberOf(parts, s)
  /\ \A s \in Rows(parts) : FreshIn(parts, b.cache, s) \/ s \in Range(b.updates)

LEMMA NotNoList ==
  ASSUME NEW list \in Seq(Slots \cup {ALL})
  PROVE  list # NoList
<1>1. Range(list) \subseteq Slots \cup {ALL}
  BY DEF Range
<1>2. <<>> \notin Slots \cup {ALL} /\ <<>> \in Range(NoList)
  BY DEF Slots, ALL, NoList, Range
<1> QED BY <1>1, <1>2

(* A new reading takes up all that partman told of. *)
LEMMA RereadKnows ==
  ASSUME TypeInv, NEW b, IsBuild(b),
         \/ b.updates = NoList
         \/ /\ b.updates # NoList
            /\ \A s \in Rows(partman.parts) \ Range(b.updates) :
                 FreshIn(partman.parts, b.cache, s),
         NEW c, c = Reread(b, Entries(partman.parts))
  PROVE  /\ IsBuild(c) /\ c.on = b.on /\ c.menus = b.menus
         /\ KnownBut(partman.parts, c)
         /\ c.updates # <<>> => ~Boring(c.cache, Head(c.updates)) /\ Head(c.updates) \in Range(c.updates)
<1> DEFINE P == partman.parts
           listed == Entries(P)
           kept == IF b.updates = NoList THEN {} ELSE DOMAIN b.cache \ Range(b.updates)
           cache == [s \in kept \cup Range(listed) |->
                      IF s \in kept THEN b.cache[s]
                      ELSE [num |-> NumberOf(P, s), method |-> "unread", mount |-> ""]]
           list == IF b.updates = NoList THEN listed ELSE Only(b.updates, DOMAIN cache)
<1>1. c = [b EXCEPT !.cache = cache, !.order = listed, !.updates = Tidied(cache, list),
                    !.progress = TRUE]
  BY DEF Reread
<1>2. IsTable(P) /\ listed \in Seq(Slots) /\ Range(listed) = Rows(P) /\ Rows(P) \subseteq Slots
  BY EntriesListed DEF TypeInv
<1>3. kept \subseteq DOMAIN b.cache /\ DOMAIN b.cache \subseteq Slots /\ b.cache \in [DOMAIN b.cache -> Info]
  BY DEF IsBuild, IsCache
<1>4. DOMAIN cache = kept \cup Rows(P)
  BY <1>2
<1>5. /\ \A s \in kept : cache[s] = b.cache[s]
      /\ \A s \in Rows(P) : s \notin kept =>
           /\ cache[s] = [num |-> NumberOf(P, s), method |-> "unread", mount |-> ""]
           /\ cache[s].num = NumberOf(P, s)
  BY <1>2
<1>6. IsCache(cache)
  <2>1. \A s \in Rows(P) : NumberOf(P, s) \in Nat
    BY <1>2, Numbered
  <2>2. "" \in STRING /\ "unread" \in STRING
    BY PageAssumption
  <2>3. \A s \in kept \cup Range(listed) : cache[s] \in Info
    <3> HIDE DEF cache, kept
    <3>1. \A s \in kept : cache[s] \in Info
      BY <1>3, <1>5
    <3>2. ASSUME NEW s \in Rows(P), s \notin kept PROVE cache[s] \in Info
      <4>1. cache[s] = [num |-> NumberOf(P, s), method |-> "unread", mount |-> ""]
        BY <1>5, <3>2
      <4>2. NumberOf(P, s) \in Nat
        BY <2>1
      <4>3. PICK n : n = NumberOf(P, s)
        OBVIOUS
      <4>4. [num |-> n, method |-> "unread", mount |-> ""] \in Info
        BY <2>2, <4>2, <4>3 DEF Info
      <4> QED BY <4>1, <4>3, <4>4
    <3> QED BY <1>2, <3>1, <3>2
  <2>4. cache = [s \in DOMAIN cache |-> cache[s]]
    OBVIOUS
  <2>5. DOMAIN cache = kept \cup Range(listed) /\ DOMAIN cache \subseteq Slots
    BY <1>2, <1>3
  <2> HIDE DEF cache
  <2> QED BY <2>3, <2>4, <2>5 DEF IsCache
<1>7. list \in Seq(Slots \cup {ALL})
      /\ Range(list) = IF b.updates = NoList THEN Rows(P) ELSE Range(b.updates) \cap DOMAIN cache
  <2>1. CASE b.updates = NoList
    BY <1>2, <2>1
  <2>2. CASE b.updates # NoList
    <3>1. b.updates \in Seq(Slots \cup {ALL})
      BY <2>2 DEF IsBuild
    <3> HIDE DEF cache
    <3>2. /\ Only(b.updates, DOMAIN cache) \in Seq(Slots \cup {ALL})
          /\ Range(Only(b.updates, DOMAIN cache)) = Range(b.updates) \cap DOMAIN cache
      BY <3>1, OnlyLists, Zenon
    <3> QED BY <2>2, <3>2
  <2> QED BY <2>1, <2>2
<1>8. \A s \in Range(list) : s \in Rows(P) /\ s \notin kept
  BY <1>4, <1>7
<1>9. \A s \in Rows(P) : s \in kept => FreshIn(P, b.cache, s)
  OBVIOUS
<1>10. \A s \in Rows(P) : s \notin kept => s \in Range(list)
  <2> SUFFICES ASSUME NEW s \in Rows(P), s \notin kept PROVE s \in Range(list)
    OBVIOUS
  <2>1. CASE b.updates = NoList
    BY <1>7, <2>1
  <2>2. CASE b.updates # NoList
    <3>1. s \in Range(b.updates) \/ s \in DOMAIN b.cache
      BY <2>2 DEF FreshIn
    <3> QED BY <1>4, <1>7, <2>2, <3>1
  <2> QED BY <2>1, <2>2
<1> HIDE DEF kept, cache, list, listed
<1> DEFINE tidied == Tidied(cache, list)
<1>11. /\ tidied \in Seq(Slots \cup {ALL}) /\ Range(tidied) \subseteq Range(list)
       /\ \A s \in Range(list) : s \in Range(tidied) \/ Boring(cache, s)
       /\ tidied # <<>> => ~Boring(cache, Head(tidied)) /\ Head(tidied) \in Range(tidied)
  BY <1>7, TidiedList
<1> HIDE DEF tidied
<1>12. /\ c.cache = cache /\ c.order = listed /\ c.updates = tidied /\ c.on = b.on /\ c.menus = b.menus
       /\ IsBuild(c)
  BY <1>1, <1>2, <1>6, <1>11 DEF IsBuild, tidied
<1>13. c.updates # NoList
  BY <1>11, <1>12, NotNoList
<1>14. \A s \in Range(list) : s \in DOMAIN cache /\ cache[s].num = NumberOf(P, s)
  BY <1>4, <1>5, <1>8
<1>15. ASSUME NEW s \in Rows(P)
       PROVE  FreshIn(P, cache, s) \/ s \in Range(tidied)
  <2>1. CASE s \in kept
    <3>1. cache[s] = b.cache[s] /\ s \in DOMAIN cache
      BY <1>4, <1>5, <2>1
    <3>2. FreshIn(P, b.cache, s)
      BY <1>9, <2>1
    <3> QED BY <3>1, <3>2 DEF FreshIn
  <2>2. CASE s \notin kept
    <3>1. s \in Range(list)
      BY <1>10, <2>2
    <3>2. CASE Boring(cache, s)
      BY <1>2, <1>14, <3>1, <3>2, BoringIsFresh
    <3> QED BY <1>11, <3>1, <3>2
  <2> QED BY <2>1, <2>2
<1>16. KnownBut(P, c)
  BY <1>8, <1>11, <1>12, <1>13, <1>14, <1>15 DEF KnownBut, listed
<1> QED BY <1>11, <1>12, <1>16

AutoType ==
  [walk : Nat, extra : SUBSET Words, asking : BOOLEAN, badSize : BOOLEAN,
   choice : Words \cup {"none"}, crypto : BOOLEAN]

(* The next partition on the list is opened. *)
LEMMA Opens ==
  ASSUME TypeInv, partman.q = "choose", partman.autoDone, turn = "page",
         NEW b, IsBuild(b), b.on, KnownBut(partman.parts, b),
         b.menus = <<Bottom>>
           \/ (Len(b.menus) = 2 /\ b.menus[1] = Bottom /\ b.menus[2].q = "choose"),
         b.updates # <<>>, ~Boring(b.cache, Head(b.updates)), Visit(b),
         UNCHANGED <<partman, complete, request>>, frozen' \subseteq {"choose"},
         auto' \in AutoType, ~auto'.asking, view' \in {"ask", "auto", "crypto", "advanced"},
         failure' = "none"
  PROVE  OnCourse'
<1> DEFINE P == partman.parts
           s == Head(b.updates)
           menus == IF Len(b.menus) = 1
                    THEN Append(b.menus, [q |-> "choose", on |-> s, todo |-> <<>>])
                    ELSE [b.menus EXCEPT ![Len(b.menus)].on = s]
<1>1. b.updates # NoList /\ b.updates \in Seq(Slots \cup {ALL}) /\ IsTable(P)
  BY DEF KnownBut, IsBuild, TypeInv
<1>2. /\ s \in Range(b.updates) /\ Tail(b.updates) \in Seq(Slots \cup {ALL})
      /\ Range(b.updates) = {s} \cup Range(Tail(b.updates))
  BY <1>1, RangeEmpty
<1>3. s \in Rows(P) /\ s \in DOMAIN b.cache /\ b.cache[s].num = NumberOf(P, s)
  BY <1>2 DEF KnownBut
<1>4. IsPart(P, s) /\ s \notin LockedParts /\ s \in Slots /\ s \in Ons
  BY <1>1, <1>3, OpensWhatIsNotBoring, QuestionNames
<1>5. build' = [b EXCEPT !.updates = Tail(b.updates), !.menus = menus]
      /\ answer' = [is |-> "partition", on |-> s] /\ turn' = "partman"
  BY DEF Visit, Reply
<1> HIDE DEF s
<1>6. menus \in Seq(Menus) /\ Len(menus) = 2 /\ menus[1] = Bottom
      /\ menus[2].q = "choose" /\ menus[2].on = s
  <2>1. b.menus \in Seq(Menus)
    BY DEF IsBuild
  <2>2. CASE b.menus = <<Bottom>>
    <3>1. [q |-> "choose", on |-> s, todo |-> <<>>] \in Menus
      <4>1. <<>> \in Seq({"method", "mountpoint", "resize"})
        OBVIOUS
      <4> QED BY <1>4, <4>1 DEF Menus
    <3>2. Len(b.menus) = 1
      BY <2>2
    <3> QED BY <2>1, <2>2, <3>1, <3>2
  <2>3. CASE Len(b.menus) = 2 /\ b.menus[1] = Bottom /\ b.menus[2].q = "choose"
    <3>1. menus = [b.menus EXCEPT ![2].on = s]
      BY <2>3
    <3>2. /\ b.menus[2] \in Menus /\ [b.menus[2] EXCEPT !.on = s] \in Menus
          /\ [b.menus[2] EXCEPT !.on = s].q = b.menus[2].q /\ [b.menus[2] EXCEPT !.on = s].on = s
      <4>1. b.menus[2] \in Menus
        BY <2>1, <2>3
      <4> QED BY <1>4, <4>1 DEF Menus
    <3>3. menus = [b.menus EXCEPT ![2] = [b.menus[2] EXCEPT !.on = s]]
      BY <3>1
    <3> HIDE DEF menus
    <3>4. /\ menus \in Seq(Menus) /\ Len(menus) = 2 /\ menus[1] = b.menus[1]
          /\ menus[2] = [b.menus[2] EXCEPT !.on = s]
      BY <2>1, <2>3, <3>2, <3>3
    <3> QED BY <2>3, <3>2, <3>4
  <2> QED BY <2>2, <2>3
<1> HIDE DEF menus
<1>7. /\ IsBuild(build') /\ build'.on /\ build'.menus = menus /\ build'.updates = Tail(b.updates)
      /\ build'.order = b.order /\ build'.cache = b.cache
  BY <1>2, <1>5, <1>6 DEF IsBuild
<1>8. partman' = partman /\ complete' = complete /\ request' = request
  OBVIOUS
<1>9. TypeInv'
  BY <1>5, <1>7, <1>8 DEF TypeInv, AutoType
<1>10. Opened' = s /\ Cached' = DOMAIN b.cache
  BY <1>6, <1>7 DEF Opened, Cached
<1>11. Unread'
  BY <1>5, <1>6, <1>7 DEF Unread
<1>12. \A t \in Range(build'.updates) \cup {s} :
         t \in Rows(P) /\ t \in DOMAIN b.cache /\ b.cache[t].num = NumberOf(P, t)
  BY <1>2, <1>7 DEF KnownBut
<1>13. \A t \in Rows(P) :
         \/ FreshIn(P, build'.cache, t)
         \/ t \in Range(build'.updates)
         \/ t = Opened' /\ Unread'
  BY <1>2, <1>7, <1>10, <1>11 DEF KnownBut
<1>14. build'.updates # NoList /\ build'.order = Entries(P)
  BY <1>2, <1>7, NotNoList DEF KnownBut
<1>15. Reading'
  <2>1. build'.on /\ ~auto'.asking /\ turn' = "partman" /\ partman'.autoDone
    BY <1>5, <1>7, <1>8
  <2>2. /\ Len(build'.menus) = 2 /\ build'.menus[1] = Bottom /\ build'.menus[2].q = "choose"
        /\ Opened' \in Slots /\ IsPart(P, Opened') /\ Opened' \notin LockedParts
    BY <1>4, <1>6, <1>7, <1>10
  <2>3. \A t \in Range(build'.updates) \cup {Opened'} :
          t \in Rows(P) /\ t \in Cached' /\ build'.cache[t].num = NumberOf(P, t)
    BY <1>7, <1>10, <1>12
  <2>4. (\A t \in Rows(partman.parts) :
           \/ FreshIn(partman.parts, build.cache, t)
           \/ t \in Range(build.updates)
           \/ t = Opened /\ Unread)'
    BY <1>8, <1>13
  <2>5. /\ partman'.q = "choose" /\ turn' = "partman" /\ Len(build'.menus) = 2
        /\ frozen' \subseteq {"choose"} /\ answer'.is = "partition" /\ answer'.on = Opened'
    BY <1>5, <1>8, <1>10, <2>2
  <2>6. build'.order = Entries(partman'.parts) /\ build'.updates # NoList
    BY <1>8, <1>14
  <2>7. (\A t \in Range(build.updates) \cup {Opened} :
           /\ t \in Rows(partman.parts) /\ t \in Cached
           /\ build.cache[t].num = NumberOf(partman.parts, t))'
    BY <1>8, <2>3
  <2>8. IsPart(partman'.parts, Opened') /\ Opened' \notin LockedParts
    BY <1>8, <2>2
  <2>9. Len(build'.menus) \in {2, 3} /\ Len(build'.menus) # 3 /\ turn' \in {"partman", "page"}
    BY <2>1, <2>2
  <2> QED BY <2>1, <2>2, <2>4, <2>5, <2>6, <2>7, <2>8, <2>9, Zenon DEF Reading
<1> QED BY <1>5, <1>9, <1>15 DEF OnCourse

(* The page is shown, or the menu of encrypted volumes is opened first. *)
LEMMA Shows ==
  ASSUME TypeInv, partman.q = "choose", partman.autoDone, turn = "page", complete, failure = "none",
         NEW b, IsBuild(b), ~b.on, ~b.progress, b.updates = NoList, Known(partman.parts, b),
         Show(b), UNCHANGED <<partman, complete>>, frozen' = {}
  PROVE  OnCourse'
<1> DEFINE P == partman.parts
<1>1. /\ build' = [b EXCEPT !.menus = <<Bottom>>] /\ request' = NoRequest /\ view' = "advanced"
      /\ auto' = Manual
  BY DEF Show
<1>2. auto' \in AutoType /\ ~auto'.asking /\ auto'.crypto = auto.crypto
  <2>1. auto \in AutoType
    BY DEF TypeInv, AutoType
  <2>2. {"manual"} \in SUBSET Words
    BY DEF Words
  <2> QED BY <1>1, <2>1, <2>2 DEF Manual, AutoType
<1>3. Bottom \in Menus /\ <<Bottom>> \in Seq(Menus)
  <2>1. <<>> \in Seq({"method", "mountpoint", "resize"})
    OBVIOUS
  <2> QED BY <2>1 DEF Bottom, Menus, Ons, Nothing
<1>4. /\ IsBuild(build') /\ ~build'.on /\ ~build'.progress /\ build'.updates = NoList
      /\ build'.order = b.order /\ build'.cache = b.cache /\ build'.menus = <<Bottom>>
  BY <1>1, <1>3 DEF IsBuild
<1>5. /\ failure' = "none"
      /\ \/ turn' = "partman" /\ answer' = Is("crypto") /\ auto.crypto
         \/ turn' = "user"
  BY DEF Show, ReplyFromMenu, Reply, UsersTurn
<1>6. partman' = partman /\ complete' = complete
  OBVIOUS
<1>7. TypeInv'
  BY <1>1, <1>2, <1>4, <1>5, <1>6 DEF TypeInv, AutoType, Requests
<1>8. Known(P, build')
  BY <1>4 DEF Known, ToldIn
<1>9. Doing'
  <2>1. CASE turn' = "partman" /\ answer' = Is("crypto") /\ auto.crypto
    BY <1>1, <1>2, <1>6, <2>1 DEF Doing, Answers, Is
  <2>2. CASE turn' = "user"
    BY <1>1, <1>4, <1>6, <2>2 DEF Doing
  <2> QED BY <1>5, <2>1, <2>2
<1>10. /\ Len(build'.menus) > 0 /\ build'.menus[1] = Bottom
       /\ request'.is # "create"
  BY <1>1, <1>4 DEF NoRequest
<1>11. Waiting'
  BY <1>2, <1>4, <1>6, <1>8, <1>9, <1>10 DEF Waiting
<1> QED BY <1>5, <1>7, <1>11 DEF OnCourse

(* A reading that knows all is over. *)
LEMMA ReadAll ==
  ASSUME NEW parts, NEW b, IsBuild(b), KnownBut(parts, b), Range(b.updates) = {}
  PROVE  LET d == ReadDone(b) IN
         IsBuild(d) /\ ~d.on /\ ~d.progress /\ d.updates = NoList /\ Known(parts, d)
<1> DEFINE d == ReadDone(b)
<1>1. /\ IsBuild(d) /\ ~d.on /\ ~d.progress /\ d.updates = NoList /\ d.order = b.order
      /\ d.cache = b.cache
  BY DEF ReadDone, IsBuild
<1>2. <<>> # NoList
  BY DEF NoList
<1> HIDE DEF d
<1>3. Known(parts, d)
  BY <1>1, <1>2 DEF Known, KnownBut
<1> QED BY <1>1, <1>3 DEF d

(* choose_partition, when a reading starts *)
LEMMA StartsReading ==
  ASSUME TypeInv, failure = "none", Choosing \/ Waiting, StartReading
  PROVE  OnCourse'
<1> DEFINE P == partman.parts
<1>1. PICK b : b = Restarted(build)
  OBVIOUS
<1>2. PICK c : c = Reread(b, IF complete THEN Entries(P) ELSE <<>>)
  OBVIOUS
<1>3. /\ turn = "page" /\ partman.q = "choose" /\ UNCHANGED <<partman, complete>> /\ b.on
      /\ IF c.updates # <<>>
         THEN /\ Visit(c) /\ frozen' = frozen \cup {"choose"} /\ view' = "advanced"
              /\ auto' = Manual
              /\ UNCHANGED <<request, status, failure, refused>>
         ELSE Show(ReadDone(c)) /\ frozen' = frozen \ {"choose"}
  BY <1>1, <1>2 DEF StartReading, AtChoose, Asked
<1>4. frozen = {} /\ complete /\ partman.autoDone
  BY <1>3 DEF Choosing, Waiting
<1>5. /\ IsBuild(b) /\ b.menus = <<Bottom>>
      /\ \/ b.updates = NoList
         \/ /\ b.updates # NoList
            /\ \A s \in Rows(P) \ Range(b.updates) : FreshIn(P, b.cache, s)
  <2>0. Bottom \in Menus /\ <<Bottom>> \in Seq(Menus)
    <3>1. <<>> \in Seq({"method", "mountpoint", "resize"})
      OBVIOUS
    <3> QED BY <3>1 DEF Bottom, Menus, Ons, Nothing
  <2>1. CASE Choosing
    <3>1. b = build
      BY <1>1, <2>1 DEF Choosing, Restarted
    <3> QED BY <2>1, <3>1 DEF Choosing, TypeInv
  <2>2. CASE Waiting
    <3>1. ~build.on /\ Known(P, build) /\ IsBuild(build)
      BY <2>2 DEF Waiting, TypeInv
    <3>2. build.updates # NoList
      BY <1>1, <1>3, <3>1 DEF Restarted
    <3>3. b = [build EXCEPT !.on = TRUE, !.menus = <<Bottom>>,
                            !.updates = IF ALL \in Range(build.updates) THEN NoList ELSE build.updates]
      BY <1>1, <1>3, <3>1 DEF Restarted
    <3>4. /\ IsBuild(b) /\ b.menus = <<Bottom>> /\ b.cache = build.cache
          /\ b.updates = IF ALL \in Range(build.updates) THEN NoList ELSE build.updates
      BY <2>0, <3>1, <3>3 DEF IsBuild
    <3>5. ALL \in Range(build.updates)
            \/ \A s \in Rows(P) \ Range(build.updates) : FreshIn(P, build.cache, s)
      BY <3>1, <3>2 DEF Known, ToldIn
    <3> QED BY <3>2, <3>4, <3>5
  <2> QED BY <2>1, <2>2
<1>6. c = Reread(b, Entries(P))
  BY <1>2, <1>4
<1>7. /\ IsBuild(c) /\ c.on = b.on /\ c.menus = b.menus /\ KnownBut(P, c)
      /\ c.updates # <<>> => ~Boring(c.cache, Head(c.updates)) /\ Head(c.updates) \in Range(c.updates)
  BY <1>5, <1>6, RereadKnows
<1>8. CASE c.updates # <<>>
  <2>1. auto' \in AutoType /\ ~auto'.asking
    <3>1. auto \in AutoType /\ auto' = Manual
      BY <1>3, <1>8 DEF TypeInv, AutoType
    <3>2. {"manual"} \in SUBSET Words
      BY DEF Words
    <3> QED BY <3>1, <3>2 DEF Manual, AutoType
  <2>2. /\ Visit(c) /\ UNCHANGED <<partman, complete, request>> /\ frozen' \subseteq {"choose"}
        /\ failure' = "none" /\ view' \in {"ask", "auto", "crypto", "advanced"}
    BY <1>3, <1>4, <1>8
  <2>3. c.on /\ c.menus = <<Bottom>>
    BY <1>3, <1>5, <1>7
  <2>4. turn = "page" /\ partman.q = "choose" /\ partman.autoDone
    BY <1>3, <1>4
  <2> QED BY <1>7, <1>8, <2>1, <2>2, <2>3, <2>4, Opens
<1>9. CASE c.updates = <<>>
  <2>1. PICK d : d = ReadDone(c)
    OBVIOUS
  <2>2. Range(c.updates) = {}
    BY <1>9 DEF Range
  <2>3. IsBuild(d) /\ ~d.on /\ ~d.progress /\ d.updates = NoList /\ Known(P, d)
    BY <1>7, <2>1, <2>2, ReadAll
  <2>4. Show(d) /\ UNCHANGED <<partman, complete>> /\ frozen' = {}
    BY <1>3, <1>4, <1>9, <2>1
  <2>5. turn = "page" /\ partman.q = "choose" /\ partman.autoDone /\ complete
    BY <1>3, <1>4
  <2> QED BY <2>3, <2>4, <2>5, Shows
<1> QED BY <1>8, <1>9

(* choose_partition, when a reading goes on *)
LEMMA ReadsOn ==
  ASSUME TypeInv, failure = "none", Reading, ReadOn
  PROVE  OnCourse'
<1> DEFINE P == partman.parts
<1>1. PICK b : b = [build EXCEPT !.updates = Tidied(build.cache, build.updates)]
  OBVIOUS
<1>2. /\ turn = "page" /\ partman.q = "choose" /\ partman.autoDone /\ ~auto.asking
      /\ Len(build.menus) = 2 /\ build.menus[1] = Bottom /\ build.menus[2].q = "choose"
      /\ frozen \subseteq {"choose"} /\ build.on
      /\ complete \/ Tidied(build.cache, build.updates) # <<>>
  BY DEF ReadOn, AtChoose, Asked, Reading
<1>3. /\ IsBuild(build) /\ build.updates # NoList /\ build.order = Entries(P) /\ IsTable(P)
      /\ \A s \in Range(build.updates) :
           s \in Rows(P) /\ s \in DOMAIN build.cache /\ build.cache[s].num = NumberOf(P, s)
      /\ \A s \in Rows(P) : FreshIn(P, build.cache, s) \/ s \in Range(build.updates)
  BY <1>2 DEF Reading, Unread, TypeInv, Cached
<1>4. build.updates \in Seq(Slots \cup {ALL})
  BY <1>3 DEF IsBuild
<1> DEFINE tidied == Tidied(build.cache, build.updates)
<1>5. /\ tidied \in Seq(Slots \cup {ALL}) /\ Range(tidied) \subseteq Range(build.updates)
      /\ \A s \in Range(build.updates) : s \in Range(tidied) \/ Boring(build.cache, s)
      /\ tidied # <<>> => ~Boring(build.cache, Head(tidied))
  BY <1>4, TidiedList
<1>6. /\ IsBuild(b) /\ b.on /\ b.updates = tidied /\ b.menus = build.menus /\ b.order = build.order
      /\ b.cache = build.cache
  BY <1>1, <1>2, <1>3, <1>5 DEF IsBuild
<1> HIDE DEF tidied
<1>7. KnownBut(P, b)
  <2>1. b.updates # NoList
    BY <1>5, <1>6, NotNoList
  <2>2. \A s \in Rows(P) : FreshIn(P, b.cache, s) \/ s \in Range(b.updates)
    BY <1>3, <1>5, <1>6, BoringIsFresh
  <2> QED BY <1>3, <1>5, <1>6, <2>1, <2>2 DEF KnownBut
<1>8. /\ UNCHANGED <<partman, complete>>
      /\ IF tidied # <<>>
         THEN Visit(b) /\ UNCHANGED <<frozen, auto, request, view, status, failure, refused>>
         ELSE Show(ReadDone(build)) /\ frozen' = frozen \ {"choose"}
  BY <1>1 DEF ReadOn, AtChoose, tidied
<1>9. CASE tidied # <<>>
  <2>1. /\ Visit(b) /\ UNCHANGED <<partman, complete, request>> /\ frozen' \subseteq {"choose"}
        /\ auto' \in AutoType /\ ~auto'.asking /\ view' \in {"ask", "auto", "crypto", "advanced"}
        /\ failure' = "none"
    BY <1>2, <1>8, <1>9 DEF TypeInv, AutoType
  <2> QED BY <1>2, <1>5, <1>6, <1>7, <1>9, <2>1, Opens
<1>10. CASE tidied = <<>>
  <2>1. PICK d : d = ReadDone(build)
    OBVIOUS
  <2>2. Range(tidied) = {}
    BY <1>10 DEF Range
  <2>3. /\ IsBuild(d) /\ ~d.on /\ ~d.progress /\ d.updates = NoList /\ d.order = b.order
        /\ d.cache = b.cache
    BY <1>3, <1>6, <2>1 DEF ReadDone, IsBuild
  <2>4. <<>> # NoList
    BY DEF NoList
  <2>5. Known(P, d)
    BY <1>6, <1>7, <2>2, <2>3, <2>4 DEF Known, KnownBut
  <2>6. Show(d) /\ UNCHANGED <<partman, complete>> /\ frozen' = {} /\ complete
    BY <1>2, <1>8, <1>10, <2>1 DEF tidied
  <2> QED BY <1>2, <2>3, <2>5, <2>6, Shows
<1> QED BY <1>9, <1>10

(* choose_partition, when nothing was heard *)
LEMMA ShowsAgain ==
  ASSUME TypeInv, failure = "none", Waiting, NothingRead
  PROVE  OnCourse'
<1>1. /\ turn = "page" /\ partman.q = "choose" /\ UNCHANGED <<partman, complete>>
      /\ ~Restarted(build).on /\ frozen' = frozen
  BY DEF NothingRead, AtChoose, Asked
<1>2. /\ ~build.on /\ ~build.progress /\ frozen = {} /\ complete /\ partman.autoDone
      /\ Known(partman.parts, build) /\ IsBuild(build)
  BY DEF Waiting, TypeInv
<1>3. build.updates = NoList
  <2>1. build.updates # <<>>
    BY <1>2 DEF Known
  <2>2. CASE build.updates \notin {NoList, <<>>}
    <3>1. Restarted(build) = [build EXCEPT !.on = TRUE, !.menus = <<Bottom>>,
                                !.updates = IF ALL \in Range(build.updates) THEN NoList ELSE build.updates]
      BY <1>2, <2>2 DEF Restarted
    <3>2. Restarted(build).on = TRUE
      BY <1>2, <3>1 DEF IsBuild
    <3> QED BY <1>1, <3>2
  <2> QED BY <2>1, <2>2
<1>4. request.is # "delete"
  BY <1>1 DEF Waiting, Doing, Asks
<1>5. Show(build)
  BY <1>4 DEF NothingRead
<1>6. PICK b : b = build
  OBVIOUS
<1>7. Show(b) /\ IsBuild(b) /\ ~b.on /\ ~b.progress /\ b.updates = NoList /\ Known(partman.parts, b)
  BY <1>2, <1>3, <1>5, <1>6
<1>8. frozen' = {}
  BY <1>1, <1>2
<1> QED BY <1>1, <1>2, <1>7, <1>8, Shows

(* The menu of the partition that is read: resizing is entered first, where the *)
(* menu has it, *)
LEMMA ReadsPartition ==
  ASSUME TypeInv, failure = "none", Reading, ReadPartition, Top.q = "choose",
         answer'.is = "resize"
  PROVE  OnCourse'
<1> DEFINE P == partman.parts
           p == At(P, partman.on)
           row == [build.cache[Opened] EXCEPT !.method = p.method, !.mount = p.mount]
           opened == [q |-> "active", on |-> Opened, todo |-> <<>>]
<1>1. /\ turn = "page" /\ partman.q = "active" /\ partman.on = Opened
      /\ Len(build.menus) \in {2, 3} /\ build.menus[1] = Bottom /\ build.menus[2].q = "choose"
      /\ Len(build.menus) = 3 => build.menus[3].q = "active"
      /\ partman.autoDone /\ ~auto.asking /\ build.on
  BY DEF Reading, ReadPartition, Handles, Asked
<1>2. Len(build.menus) = 2
  BY <1>1 DEF Top, Last
<1>3. /\ IsBuild(build) /\ build.menus \in Seq(Menus) /\ build.cache \in [DOMAIN build.cache -> Info]
      /\ Last(build.menus).on = Opened
  BY <1>2 DEF TypeInv, IsBuild, IsCache, Last, Opened
<1>4. /\ p \in P /\ p.slot = Opened /\ Opened \in Slots /\ Opened \in Ons /\ IsTable(P)
  <2>1. IsPart(P, partman.on)
    BY <1>1 DEF Reading
  <2> QED BY <1>1, <2>1, AskedAbout
<1>5. p \in Partitions
  BY <1>4, Numbered
<1>6. Opened \in DOMAIN build.cache /\ build.cache[Opened].num = NumberOf(P, Opened)
  BY DEF Reading, Cached
<1>7. /\ UNCHANGED <<partman, complete, auto, view, status, request, failure, refused>>
      /\ answer' = [is |-> "resize"] /\ turn' = "partman" /\ frozen' = frozen \cup {"active"}
      /\ build' = [Read(build, partman.on) EXCEPT !.menus =
                     Append(@, [q |-> "active", on |-> Last(@).on, todo |-> <<>>])]
  BY <1>1 DEF ReadPartition, Handles, Reply, Is
<1>8. build' = [build EXCEPT !.cache = [build.cache EXCEPT ![Opened] = row],
                             !.menus = Append(build.menus, opened)]
  <2>1. Read(build, partman.on) = [build EXCEPT !.cache = [build.cache EXCEPT ![Opened] = row]]
    <3>1. Read(build, partman.on) =
            [build EXCEPT !.cache[Opened].method = p.method, !.cache[Opened].mount = p.mount]
      BY <1>3 DEF Read
    <3>2. [build EXCEPT !.cache[Opened].method = p.method] =
          [build EXCEPT !.cache = [build.cache EXCEPT ![Opened] =
                                     [build.cache[Opened] EXCEPT !.method = p.method]]]
      BY <1>3, <1>6 DEF IsBuild
    <3> QED BY <1>3, <1>6, <3>1, <3>2, ZenonT(30) DEF IsBuild
  <2>2. Read(build, partman.on).menus = build.menus
    BY <1>3, <2>1 DEF IsBuild
  <2> QED BY <1>3, <1>7, <2>1, <2>2
<1> HIDE DEF p
<1>9. row \in Info /\ row.num = NumberOf(P, Opened) /\ row.method = p.method /\ row.mount = p.mount
  BY <1>3, <1>5, <1>6 DEF Info, Partitions
<1>10. opened \in Menus
  <2>1. <<>> \in Seq({"method", "mountpoint", "resize"})
    OBVIOUS
  <2> QED BY <1>4, <2>1 DEF Menus
<1> HIDE DEF row
<1> DEFINE cache == [build.cache EXCEPT ![Opened] = row]
           menus == Append(build.menus, opened)
<1>11. /\ DOMAIN cache = DOMAIN build.cache /\ cache \in [DOMAIN cache -> Info]
       /\ cache[Opened] = row /\ \A s \in DOMAIN cache : s # Opened => cache[s] = build.cache[s]
  BY <1>3, <1>6, <1>9
<1>12. /\ menus \in Seq(Menus) /\ Len(menus) = 3 /\ menus[1] = build.menus[1]
       /\ menus[2] = build.menus[2] /\ menus[3].q = "active" /\ menus[3].on = Opened
  <2>1. opened.q = "active" /\ opened.on = Opened
    OBVIOUS
  <2> HIDE DEF opened
  <2>2. /\ menus \in Seq(Menus) /\ Len(menus) = 3 /\ menus[1] = build.menus[1]
        /\ menus[2] = build.menus[2] /\ menus[3] = opened
    BY <1>2, <1>3, <1>10, AppendedTo
  <2> QED BY <2>1, <2>2
<1> HIDE DEF cache, menus
<1>13. /\ IsBuild(build') /\ build'.on /\ build'.menus = menus /\ build'.cache = cache
       /\ build'.updates = build.updates /\ build'.order = build.order
  <2>1. IsCache(cache)
    BY <1>3, <1>11 DEF IsBuild, IsCache
  <2>2. build' = [build EXCEPT !.cache = cache, !.menus = menus]
    BY <1>8 DEF cache, menus
  <2> QED BY <1>1, <1>3, <1>12, <2>1, <2>2 DEF IsBuild
<1>14. Opened' = Opened
  BY <1>12, <1>13 DEF Opened
<1>15. TypeInv'
  BY <1>7, <1>13 DEF TypeInv
<1>16. \A s \in Range(build.updates) \cup {Opened} :
         s \in Rows(P) /\ s \in DOMAIN cache /\ cache[s].num = NumberOf(P, s)
  BY <1>9, <1>11 DEF Reading, Cached
<1>17. \A s \in Rows(P) : FreshIn(P, cache, s) \/ s \in Range(build.updates)
  <2>1. FreshIn(P, cache, Opened)
    <3>1. \A r \in P : r.slot = Opened => r = p
      BY <1>4, Numbered
    <3> QED BY <1>6, <1>9, <1>11, <3>1 DEF FreshIn
  <2>2. ASSUME NEW s \in Rows(P), s # Opened
        PROVE  FreshIn(P, cache, s) \/ s \in Range(build.updates)
    <3>1. FreshIn(P, build.cache, s) \/ s \in Range(build.updates)
      BY <2>2 DEF Reading
    <3> QED BY <1>11, <2>2, <3>1 DEF FreshIn
  <2> QED BY <2>1, <2>2
<1>18. IsPart(P, Opened) /\ Opened \notin LockedParts /\ build.order = Entries(P) /\ build.updates # NoList
  BY DEF Reading
<1>19. Reading'
  <2>1. build'.on /\ ~auto'.asking /\ turn' = "partman" /\ partman'.autoDone
    BY <1>1, <1>7, <1>13
  <2>2. /\ Len(build'.menus) \in {2, 3} /\ build'.menus[1] = Bottom
        /\ build'.menus[2].q = "choose" /\ Opened' \in Slots
        /\ Len(build'.menus) = 3 =>
             build'.menus[3].q = "active" /\ build'.menus[3].on = Opened'
    BY <1>1, <1>4, <1>12, <1>13, <1>14
  <2>3. /\ IsPart(partman'.parts, Opened') /\ Opened' \notin LockedParts
        /\ build'.order = Entries(partman'.parts) /\ build'.updates # NoList
    BY <1>7, <1>13, <1>14, <1>18
  <2>4. (\A t \in Range(build.updates) \cup {Opened} :
           /\ t \in Rows(partman.parts) /\ t \in Cached
           /\ build.cache[t].num = NumberOf(partman.parts, t))'
    BY <1>7, <1>13, <1>14, <1>16 DEF Cached
  <2>5. (\A t \in Rows(partman.parts) :
           \/ FreshIn(partman.parts, build.cache, t)
           \/ t \in Range(build.updates)
           \/ t = Opened /\ Unread)'
    BY <1>7, <1>13, <1>17
  <2>6. /\ partman'.q = "active" /\ turn' = "partman" /\ partman'.on = Opened'
        /\ Len(build'.menus) = 3 => answer'.is = "resize"
        /\ Len(build'.menus) = 2 =>
             /\ answer'.is = "back" /\ frozen' \subseteq {"choose"}
             /\ "choose" \in frozen' => Tidied(build'.cache, build'.updates) # <<>>
    BY <1>1, <1>7, <1>12, <1>13, <1>14
  <2> QED BY <2>1, <2>2, <2>3, <2>4, <2>5, <2>6, Zenon DEF Reading
<1> QED BY <1>7, <1>15, <1>19 DEF OnCourse

(* and then it is left, as it is at once where resizing is not in the menu. *)
LEMMA LeavesAtOnce ==
  ASSUME TypeInv, failure = "none", Reading, ReadPartition, Top.q = "choose",
         answer'.is # "resize"
  PROVE  OnCourse'
<1> DEFINE P == partman.parts
           p == At(P, partman.on)
           row == [build.cache[Opened] EXCEPT !.method = p.method, !.mount = p.mount]
<1>1. /\ turn = "page" /\ partman.q = "active" /\ partman.on = Opened
      /\ Len(build.menus) \in {2, 3} /\ build.menus[1] = Bottom /\ build.menus[2].q = "choose"
      /\ Len(build.menus) = 3 => build.menus[3].q = "active"
      /\ partman.autoDone /\ ~auto.asking /\ build.on
  BY DEF Reading, ReadPartition, Handles, Asked
<1>2. Len(build.menus) = 2
  BY <1>1 DEF Top, Last
<1>3. /\ IsBuild(build) /\ build.menus \in Seq(Menus) /\ build.cache \in [DOMAIN build.cache -> Info]
      /\ Last(build.menus).on = Opened /\ Last(build.menus).q = "choose"
  BY <1>1, <1>2 DEF TypeInv, IsBuild, IsCache, Last, Opened
<1>4. /\ p \in P /\ p.slot = Opened /\ Opened \in Slots /\ Opened \in Ons /\ IsTable(P)
  <2>1. IsPart(P, partman.on)
    BY <1>1 DEF Reading
  <2> QED BY <1>1, <2>1, AskedAbout
<1>5. p \in Partitions
  BY <1>4, Numbered
<1>6. Opened \in DOMAIN build.cache /\ build.cache[Opened].num = NumberOf(P, Opened)
  BY DEF Reading, Cached
<1> DEFINE b == Read(build, partman.on)
<1>7. /\ UNCHANGED <<partman, complete, auto, view, status, request, failure, refused>>
      /\ answer' = [is |-> "back"] /\ turn' = "partman" /\ MaybeThaw(b)
  <2>1. ~(answer' = [is |-> "resize"])
    OBVIOUS
  <2> QED BY <1>1, <2>1 DEF ReadPartition, Handles, Reply, Is
<1>8. b = [build EXCEPT !.cache = [build.cache EXCEPT ![Opened] = row]]
  <2>1. b = [build EXCEPT !.cache[Opened].method = p.method, !.cache[Opened].mount = p.mount]
    BY <1>3 DEF Read
  <2>2. [build EXCEPT !.cache[Opened].method = p.method] =
        [build EXCEPT !.cache = [build.cache EXCEPT ![Opened] =
                                   [build.cache[Opened] EXCEPT !.method = p.method]]]
    BY <1>3, <1>6 DEF IsBuild
  <2> QED BY <1>3, <1>6, <2>1, <2>2, ZenonT(30) DEF IsBuild
<1> HIDE DEF p, b
<1>9. row \in Info /\ row.num = NumberOf(P, Opened) /\ row.method = p.method /\ row.mount = p.mount
  BY <1>3, <1>5, <1>6 DEF Info, Partitions
<1> HIDE DEF row
<1> DEFINE cache == [build.cache EXCEPT ![Opened] = row]
           tidied == Tidied(cache, build.updates)
<1>10. /\ DOMAIN cache = DOMAIN build.cache /\ cache \in [DOMAIN cache -> Info]
       /\ cache[Opened] = row /\ \A s \in DOMAIN cache : s # Opened => cache[s] = build.cache[s]
  BY <1>3, <1>6, <1>9
<1> HIDE DEF cache
<1>11. /\ IsBuild(b) /\ b.on /\ b.menus = build.menus /\ b.cache = cache /\ b.updates = build.updates
       /\ b.order = build.order
  <2>1. IsCache(cache)
    BY <1>3, <1>10 DEF IsBuild, IsCache
  <2>2. b = [build EXCEPT !.cache = cache]
    BY <1>8 DEF cache
  <2> QED BY <1>1, <1>3, <2>1, <2>2 DEF IsBuild
<1>12. build.updates \in Seq(Slots \cup {ALL}) /\ build.updates # NoList
  BY <1>3 DEF IsBuild, Reading
<1>13. /\ tidied \in Seq(Slots \cup {ALL}) /\ Range(tidied) \subseteq Range(build.updates)
       /\ \A s \in Range(build.updates) : s \in Range(tidied) \/ Boring(cache, s)
       /\ tidied # <<>> => ~Boring(cache, Head(tidied)) /\ Head(tidied) \in Range(tidied)
  BY <1>12, TidiedList
<1>14. tidied # <<>> => Tidied(cache, tidied) # <<>>
  BY <1>13, TidiedList
<1>15. tidied # NoList
  BY <1>13, NotNoList
<1>16. /\ frozen' = frozen \ ({"active"} \cup IF tidied = <<>> THEN {"choose"} ELSE {})
       /\ build' = [b EXCEPT !.updates = tidied]
  BY <1>3, <1>7, <1>11 DEF MaybeThaw
<1> HIDE DEF tidied
<1>17. /\ IsBuild(build') /\ build'.on /\ build'.menus = build.menus /\ build'.cache = cache
       /\ build'.updates = tidied /\ build'.order = build.order
  BY <1>11, <1>13, <1>16 DEF IsBuild
<1>18. frozen' \subseteq {"choose"} /\ ("choose" \in frozen' => tidied # <<>>)
  BY <1>16 DEF TypeInv
<1>19. Opened' = Opened
  BY <1>17 DEF Opened
<1>20. TypeInv'
  BY <1>7, <1>17, <1>18 DEF TypeInv
<1>21. \A s \in Range(build.updates) \cup {Opened} :
         s \in Rows(P) /\ s \in DOMAIN cache /\ cache[s].num = NumberOf(P, s)
  BY <1>9, <1>10 DEF Reading, Cached
<1>22. \A s \in Rows(P) : FreshIn(P, cache, s) \/ s \in Range(build.updates)
  <2>1. FreshIn(P, cache, Opened)
    <3>1. \A r \in P : r.slot = Opened => r = p
      BY <1>4, Numbered
    <3> QED BY <1>6, <1>9, <1>10, <3>1 DEF FreshIn
  <2>2. ASSUME NEW s \in Rows(P), s # Opened
        PROVE  FreshIn(P, cache, s) \/ s \in Range(build.updates)
    <3>1. FreshIn(P, build.cache, s) \/ s \in Range(build.updates)
      BY <1>2, <1>1, <2>2 DEF Reading
    <3> QED BY <1>10, <2>2, <3>1 DEF FreshIn
  <2> QED BY <2>1, <2>2
<1>23. \A s \in Rows(P) : FreshIn(P, cache, s) \/ s \in Range(tidied)
  <2> SUFFICES ASSUME NEW s \in Rows(P)
               PROVE  FreshIn(P, cache, s) \/ s \in Range(tidied)
    OBVIOUS
  <2>1. CASE s \in Range(build.updates) /\ Boring(cache, s)
    BY <1>4, <1>21, <2>1, BoringIsFresh
  <2> QED BY <1>13, <1>22, <2>1
<1>24. IsPart(P, Opened) /\ Opened \notin LockedParts /\ build.order = Entries(P)
  BY DEF Reading
<1>25. Reading'
  BY <1>1, <1>2, <1>4, <1>7, <1>13, <1>14, <1>15, <1>17, <1>18, <1>19, <1>21, <1>23, <1>24, ZenonT(30)
     DEF Reading, Cached
<1> QED BY <1>7, <1>20, <1>25 DEF OnCourse

(* The menu of resizing left, the partition's is left too. *)
LEMMA LeavesPartition ==
  ASSUME TypeInv, failure = "none", Reading, ReadPartition, Top.q = "active"
  PROVE  OnCourse'
<1> DEFINE P == partman.parts
           tidied == Tidied(build.cache, build.updates)
           menus == Front(build.menus)
<1>1. /\ turn = "page" /\ partman.q = "active" /\ partman.on = Opened
      /\ Len(build.menus) \in {2, 3} /\ build.menus[1] = Bottom /\ build.menus[2].q = "choose"
      /\ partman.autoDone /\ ~auto.asking /\ build.on /\ Opened \in Slots
  BY DEF Reading, ReadPartition, Handles, Asked
<1>2. Len(build.menus) = 3
  BY <1>1 DEF Top, Last
<1>3. IsBuild(build) /\ build.menus \in Seq(Menus) /\ IsTable(P)
  BY DEF TypeInv, IsBuild
<1>4. /\ menus \in Seq(Menus) /\ Len(menus) = 2 /\ menus[1] = build.menus[1]
      /\ menus[2] = build.menus[2]
  BY <1>2, <1>3 DEF Front
<1>5. build.updates \in Seq(Slots \cup {ALL}) /\ build.updates # NoList
  BY <1>3 DEF IsBuild, Reading
<1>6. /\ tidied \in Seq(Slots \cup {ALL}) /\ Range(tidied) \subseteq Range(build.updates)
      /\ \A s \in Range(build.updates) : s \in Range(tidied) \/ Boring(build.cache, s)
      /\ tidied # <<>> => ~Boring(build.cache, Head(tidied)) /\ Head(tidied) \in Range(tidied)
  BY <1>5, TidiedList
<1>7. tidied # <<>> => Tidied(build.cache, tidied) # <<>>
  BY <1>6, TidiedList
<1>8. tidied # NoList
  BY <1>6, NotNoList
<1> DEFINE b == [build EXCEPT !.menus = menus]
<1>9. /\ IsBuild(b) /\ b.on /\ b.menus = menus /\ b.cache = build.cache /\ b.updates = build.updates
      /\ b.order = build.order
  BY <1>1, <1>3, <1>4 DEF IsBuild
<1>10. /\ UNCHANGED <<partman, complete, auto, view, status, request, failure, refused>>
       /\ answer' = [is |-> "back"] /\ turn' = "partman" /\ MaybeThaw(b)
  BY <1>1 DEF ReadPartition, Handles, Reply, Is
<1> HIDE DEF b, menus
<1>11. /\ frozen' = frozen \ ({"active"} \cup IF tidied = <<>> THEN {"choose"} ELSE {})
       /\ build' = [b EXCEPT !.updates = tidied]
  <2>1. Last(b.menus).q = "choose"
    BY <1>1, <1>4, <1>9 DEF Last
  <2> QED BY <1>9, <1>10, <2>1 DEF MaybeThaw
<1> HIDE DEF tidied
<1>12. /\ IsBuild(build') /\ build'.on /\ build'.menus = menus /\ build'.cache = build.cache
       /\ build'.updates = tidied /\ build'.order = build.order
  BY <1>6, <1>9, <1>11 DEF IsBuild
<1>13. frozen' \subseteq {"choose"} /\ ("choose" \in frozen' => tidied # <<>>)
  BY <1>11 DEF TypeInv
<1>14. Opened' = Opened
  BY <1>4, <1>12 DEF Opened
<1>15. TypeInv'
  BY <1>10, <1>12, <1>13 DEF TypeInv
<1>16. \A s \in Range(tidied) \cup {Opened} :
         s \in Rows(P) /\ s \in DOMAIN build.cache /\ build.cache[s].num = NumberOf(P, s)
  BY <1>6 DEF Reading, Cached
<1>17. \A s \in Rows(P) : FreshIn(P, build.cache, s) \/ s \in Range(tidied)
  <2> SUFFICES ASSUME NEW s \in Rows(P)
               PROVE  FreshIn(P, build.cache, s) \/ s \in Range(tidied)
    OBVIOUS
  <2>1. FreshIn(P, build.cache, s) \/ s \in Range(build.updates)
    BY <1>2 DEF Reading, Unread
  <2>2. CASE s \in Range(build.updates) /\ Boring(build.cache, s)
    <3>1. s \in DOMAIN build.cache /\ build.cache[s].num = NumberOf(P, s)
      BY <2>2 DEF Reading, Cached
    <3> QED BY <1>3, <2>2, <3>1, BoringIsFresh
  <2> QED BY <1>6, <2>1, <2>2
<1>18. IsPart(P, Opened) /\ Opened \notin LockedParts /\ build.order = Entries(P)
  BY DEF Reading
<1>19. Reading'
  BY <1>1, <1>4, <1>7, <1>8, <1>10, <1>12, <1>13, <1>14, <1>16, <1>17, <1>18, ZenonT(30) DEF Reading, Cached
<1> QED BY <1>10, <1>15, <1>19 DEF OnCourse

(* The page answers what is asked while it reads. *)
LEMMA ReadingAnswers ==
  ASSUME TypeInv, failure = "none", Reading, turn = "page", PageAnswers
  PROVE  OnCourse'
<1>1. build.on /\ ~auto.asking /\ Len(build.menus) \in {2, 3} /\ build.menus[2].q = "choose"
  BY DEF Reading
<1>2. CASE partman.q = "choose"
  <2>1. Len(build.menus) = 2 /\ Last(build.menus).q = "choose"
    BY <1>1, <1>2 DEF Reading, Last
  <2>2. Restarted(build) = build
    BY <1>1 DEF Restarted
  <2>3. ReadOn
    BY <1>1, <1>2, <2>1, <2>2
       DEF PageAnswers, WalkOn, ShowAsk, WalkSelectDisk, WalkNewSize, AnswerSelectDisk,
           AnswerAutoSize, AnswerPassphrase, StartReading, NothingRead, OnNewLabel, OnFreeSpace,
           OnNewPartitionSize, ReadPartition, DoRequest, DoDelete, OnChooseMethod, OnMountpoint,
           OnConfirmResize, OnNewSize, OnCryptoMenu, OnConfirm, AtChoose, Handles, Asked
  <2> QED BY <2>3, ReadsOn
<1>3. CASE partman.q = "active"
  <2>1. ReadPartition
    BY <1>1, <1>3
       DEF PageAnswers, WalkOn, ShowAsk, WalkSelectDisk, WalkNewSize, AnswerSelectDisk,
           AnswerAutoSize, AnswerPassphrase, StartReading, ReadOn, NothingRead, OnNewLabel,
           OnFreeSpace, OnNewPartitionSize, DoRequest, DoDelete, OnChooseMethod, OnMountpoint,
           OnConfirmResize, OnNewSize, OnCryptoMenu, OnConfirm, AtChoose, Handles, Asked
  <2>2. Top.q = "active" \/ Top.q = "choose"
    BY <2>1 DEF ReadPartition
  <2> QED BY <2>1, <2>2, ReadsPartition, LeavesAtOnce, LeavesPartition
<1>4. CASE partman.q \in {"confirm_resize", "new_size"}
  <2>1. OnConfirmResize \/ OnNewSize
    BY <1>1, <1>4
       DEF PageAnswers, WalkOn, ShowAsk, WalkSelectDisk, WalkNewSize, AnswerSelectDisk,
           AnswerAutoSize, AnswerPassphrase, StartReading, ReadOn, NothingRead, OnNewLabel,
           OnFreeSpace, OnNewPartitionSize, ReadPartition, DoRequest, DoDelete, OnChooseMethod,
           OnMountpoint, OnCryptoMenu, OnConfirm, AtChoose, Handles, Asked
  <2>2. /\ UNCHANGED <<partman, complete, auto, view, status, build, frozen, request, failure>>
        /\ turn' = "partman"
        /\ partman.q = "new_size" => answer'.is = "back"
    <3>1. CASE OnConfirmResize
      BY <1>1, <3>1 DEF OnConfirmResize, Handles, Asked, FindingOut, Reply, AsBefore, Unexpected
    <3>2. CASE OnNewSize
      BY <1>1, <3>2 DEF OnNewSize, Handles, Reply, Is, AsBefore, Unexpected
    <3> QED BY <2>1, <3>1, <3>2
  <2>3. TypeInv'
    BY <2>2 DEF TypeInv
  <2>4. Opened' = Opened /\ Cached' = Cached
    BY <2>2 DEF Opened, Cached
  <2>5. partman.on = Opened /\ Len(build.menus) = 3
    BY <1>4 DEF Reading
  <2>6. \A s \in Rows(partman.parts) :
          FreshIn(partman.parts, build.cache, s) \/ s \in Range(build.updates)
    BY <2>5 DEF Reading, Unread
  <2>7. Reading'
    BY <1>4, <2>2, <2>4, <2>5, <2>6 DEF Reading
  <2> QED BY <2>2, <2>3, <2>7 DEF OnCourse
<1> QED BY <1>2, <1>3, <1>4 DEF Reading

-----------------------------------------------------------------------------
(* The page and the user in automatic partitioning *)

(* partman asks on, and only the answer is new. *)
LEMMA ChoosingGivesAnswer ==
  ASSUME TypeInv, failure = "none", Choosing, turn = "page", InAuto, partman.q # "init",
         UNCHANGED <<partman, complete, frozen, build, request, view, failure>>,
         turn' = "partman", auto' \in AutoType, auto'.asking, ~auto'.crypto,
         partman.q = "auto" => answer'.is \in Words \cup {"back"}
  PROVE  OnCourse'
<1>1. TypeInv'
  BY DEF TypeInv, AutoType
<1>2. InAuto' /\ partman.q # "confirm"
  BY DEF InAuto
<1>3. Choosing'
  BY <1>2 DEF Choosing
<1> QED BY <1>1, <1>3 DEF OnCourse

LEMMA ExtraWords ==
  Range(AutoChoices) \subseteq Words /\ \A i \in DOMAIN AutoChoices : AutoChoices[i] \in Words /\ i \in Nat
<1>1. AutoChoices \in Seq({"resize", "reuse", "some_device", "some_device_crypto", "manual"})
  BY PartmanAssumption
<1>2. AutoChoices \in Seq(Words)
  BY <1>1 DEF Words
<1>3. \A i \in DOMAIN AutoChoices : AutoChoices[i] \in Words /\ i \in Nat
  BY <1>2
<1> QED BY <1>3 DEF Range

LEMMA ChoosingAnswers ==
  ASSUME TypeInv, failure = "none", Choosing, turn = "page", PageAnswers
  PROVE  OnCourse'
<1>1. /\ auto \in AutoType /\ ~auto.crypto /\ build.on /\ build.menus = <<Bottom>>
      /\ InAuto /\ partman.q \notin {"init", "auto"} => auto.asking
  BY DEF TypeInv, AutoType, Choosing
<1>2. CASE InAuto /\ partman.q = "auto"
  <2>1. WalkOn \/ ShowAsk
    BY <1>2
       DEF PageAnswers, WalkSelectDisk, WalkNewSize, AnswerSelectDisk,
           AnswerAutoSize, AnswerPassphrase, StartReading, ReadOn, NothingRead, OnNewLabel,
           OnFreeSpace, OnNewPartitionSize, ReadPartition, DoRequest, DoDelete, OnChooseMethod,
           OnMountpoint, OnConfirmResize, OnNewSize, OnCryptoMenu, OnConfirm, AtChoose, Handles, Asked
  <2>2. CASE WalkOn
    <3>1. PICK i \in NextToWalk :
            /\ auto' = [auto EXCEPT !.walk = i, !.asking = TRUE,
                                    !.extra = IF auto.walk = 0 THEN {} ELSE @]
            /\ Reply(Is(AutoChoices[i]))
      <4> DEFINE i == CHOOSE i \in NextToWalk : \A j \in NextToWalk : i <= j
      <4>1. NextToWalk # {} /\ NextToWalk \in SUBSET Nat
        BY <2>2, ExtraWords DEF WalkOn, NextToWalk
      <4>2. \E n \in NextToWalk : \A j \in NextToWalk : n <= j
        BY <4>1, LeastNumber
      <4>3. i \in NextToWalk
        BY <4>2
      <4>4. /\ auto' = [auto EXCEPT !.walk = i, !.asking = TRUE,
                                    !.extra = IF auto.walk = 0 THEN {} ELSE @]
            /\ Reply(Is(AutoChoices[i]))
        BY <2>2 DEF WalkOn
      <4> HIDE DEF i
      <4> QED BY <4>3, <4>4
    <3>2. i \in Nat /\ AutoChoices[i] \in Words
      BY ExtraWords DEF NextToWalk
    <3>3. auto' \in AutoType /\ auto'.asking /\ ~auto'.crypto
      BY <1>1, <3>1, <3>2 DEF AutoType
    <3>4. /\ UNCHANGED <<partman, complete, frozen, build, request, view, failure>>
          /\ turn' = "partman" /\ answer'.is \in Words
      BY <2>2, <3>1, <3>2 DEF WalkOn, Reply, Is
    <3> QED BY <1>2, <3>3, <3>4, ChoosingGivesAnswer
  <2>3. CASE ShowAsk
    <3>1. /\ auto' = [auto EXCEPT !.walk = 0, !.asking = TRUE,
                        !.extra = @ \cup {"manual"} \cup (Range(AutoChoices) \ Walked)]
          /\ view' = "ask" /\ turn' = "user"
          /\ UNCHANGED <<partman, complete, frozen, build, request, failure>>
      BY <2>3 DEF ShowAsk, UsersTurn
    <3>2. /\ auto' \in AutoType /\ auto'.asking /\ ~auto'.crypto /\ "manual" \in auto'.extra
      <4>1. auto.extra \cup {"manual"} \cup (Range(AutoChoices) \ Walked) \in SUBSET Words
        BY <1>1, ExtraWords DEF AutoType, Words
      <4> QED BY <1>1, <3>1, <4>1 DEF AutoType
    <3>3. TypeInv'
      BY <3>1, <3>2 DEF TypeInv, AutoType
    <3>4. InAuto'
      BY <1>2, <3>1 DEF InAuto
    <3>5. Choosing'
      BY <1>2, <3>1, <3>2, <3>4 DEF Choosing
    <3> QED BY <3>1, <3>3, <3>5 DEF OnCourse
  <2> QED BY <2>1, <2>2, <2>3
<1>3. CASE InAuto /\ partman.q \in {"select_disk", "new_size", "confirm_resize", "passphrase"}
  <2>1. auto.asking
    BY <1>1, <1>3
  <2>2. \/ WalkSelectDisk \/ WalkNewSize \/ AnswerSelectDisk \/ AnswerAutoSize
        \/ AnswerPassphrase \/ OnConfirmResize
    BY <1>3, <2>1
       DEF PageAnswers, WalkOn, ShowAsk, StartReading, ReadOn, NothingRead, OnNewLabel,
           OnFreeSpace, OnNewPartitionSize, ReadPartition, DoRequest, DoDelete, OnChooseMethod,
           OnMountpoint, OnNewSize, OnCryptoMenu, OnConfirm, AtChoose, Handles, Asked
  <2>3. ASSUME NEW found \in SUBSET Words, Collect(found)
        PROVE  /\ UNCHANGED <<partman, complete, frozen, build, request, view, failure>>
               /\ turn' = "partman" /\ auto' \in AutoType /\ auto'.asking /\ ~auto'.crypto
    <3>1. auto' = [auto EXCEPT !.extra = auto.extra \cup found]
      BY <2>3 DEF Collect
    <3>2. auto.extra \cup found \in SUBSET Words
      BY <1>1 DEF AutoType
    <3>3. auto' \in AutoType /\ auto'.asking /\ ~auto'.crypto
      BY <1>1, <2>1, <3>1, <3>2 DEF AutoType
    <3> QED BY <2>3, <3>3 DEF Collect, Reply
  <2>4. {"some_device"} \in SUBSET Words /\ SUBSET {"resize"} \subseteq SUBSET Words
    BY DEF Words
  <2>5. CASE WalkSelectDisk \/ WalkNewSize
    <3>1. \E found \in SUBSET Words : Collect(found)
      BY <2>4, <2>5 DEF WalkSelectDisk, WalkNewSize
    <3> QED BY <1>3, <2>3, <3>1, ChoosingGivesAnswer
  <2>6. CASE AnswerSelectDisk \/ AnswerPassphrase
    <3>1. /\ UNCHANGED <<partman, complete, frozen, build, request, view, failure, auto>>
          /\ turn' = "partman"
      BY <2>6 DEF AnswerSelectDisk, AnswerPassphrase, Reply
    <3> QED BY <1>1, <1>3, <2>1, <3>1, ChoosingGivesAnswer
  <2>7. CASE AnswerAutoSize
    <3>1. /\ UNCHANGED <<partman, complete, frozen, build, request, view, failure>>
          /\ turn' = "partman" /\ auto' = [auto EXCEPT !.badSize = FALSE]
      BY <2>7 DEF AnswerAutoSize, Reply
    <3>2. auto' \in AutoType /\ auto'.asking /\ ~auto'.crypto
      BY <1>1, <2>1, <3>1 DEF AutoType
    <3> QED BY <1>3, <3>1, <3>2, ChoosingGivesAnswer
  <2>8. CASE OnConfirmResize
    <3>1. /\ UNCHANGED <<partman, complete, frozen, build, request, view, failure, auto>>
          /\ turn' = "partman"
      BY <2>1, <2>8 DEF OnConfirmResize, Handles, Reply, AsBefore, Unexpected
    <3> QED BY <1>1, <1>3, <2>1, <3>1, ChoosingGivesAnswer
  <2> QED BY <2>2, <2>5, <2>6, <2>7, <2>8
<1>4. CASE partman.q = "choose"
  <2>1. Last(build.menus).q = "none" /\ Restarted(build) = build
    BY <1>1 DEF Last, Bottom, Restarted
  <2>2. StartReading
    BY <1>1, <1>4, <2>1
       DEF PageAnswers, WalkOn, ShowAsk, WalkSelectDisk, WalkNewSize, AnswerSelectDisk,
           AnswerAutoSize, AnswerPassphrase, ReadOn, NothingRead, OnNewLabel, OnFreeSpace, Top,
           OnNewPartitionSize, ReadPartition, DoRequest, DoDelete, OnChooseMethod, OnMountpoint,
           OnConfirmResize, OnNewSize, OnCryptoMenu, OnConfirm, AtChoose, Handles, Asked
  <2> QED BY <2>2, StartsReading
<1>5. CASE partman.q = "confirm"
  <2>1. OnConfirm
    BY <1>5
       DEF PageAnswers, WalkOn, ShowAsk, WalkSelectDisk, WalkNewSize, AnswerSelectDisk,
           AnswerAutoSize, AnswerPassphrase, StartReading, ReadOn, NothingRead, OnNewLabel,
           OnFreeSpace, OnNewPartitionSize, ReadPartition, DoRequest, DoDelete, OnChooseMethod,
           OnMountpoint, OnConfirmResize, OnNewSize, OnCryptoMenu, AtChoose, Handles, Asked
  <2>2. auto.asking /\ ~InAuto
    BY <1>5 DEF Choosing, InAuto
  <2>3. /\ UNCHANGED <<complete, frozen, build, auto, request, view, failure>> /\ turn' = "partman"
        /\ \/ answer'.is = "true" /\ partman' = partman
           \/ partman' = [partman EXCEPT !.parts = Initial, !.autoDone = FALSE]
    BY <2>1, <2>2 DEF OnConfirm, Reply, Is
  <2>4. /\ partman' \in [q : Questions, on : Ons, parts : SUBSET Partitions, autoDone : BOOLEAN]
        /\ IsTable(partman'.parts)
        /\ partman'.q = "confirm"
        /\ answer'.is = "true" \/ (partman'.parts = Initial /\ ~partman'.autoDone)
    <3>1. CASE answer'.is = "true" /\ partman' = partman
      BY <1>5, <3>1 DEF TypeInv
    <3>2. CASE partman' = [partman EXCEPT !.parts = Initial, !.autoDone = FALSE]
      <4>1. IsTable(Initial) /\ Initial \subseteq Partitions
        BY PartmanAssumption DEF IsTable
      <4> QED BY <1>5, <3>2, <4>1 DEF TypeInv
    <3> QED BY <2>3, <3>1, <3>2
  <2>5. TypeInv'
    BY <2>3, <2>4 DEF TypeInv
  <2>6. ~InAuto'
    BY <2>4 DEF InAuto
  <2>7. Choosing'
    BY <1>5, <2>2, <2>3, <2>4, <2>6 DEF Choosing
  <2> QED BY <2>3, <2>5, <2>7 DEF OnCourse
<1>6. CASE partman.q = "init"
  BY <1>6
     DEF PageAnswers, WalkOn, ShowAsk, WalkSelectDisk, WalkNewSize, AnswerSelectDisk,
         AnswerAutoSize, AnswerPassphrase, StartReading, ReadOn, NothingRead, OnNewLabel,
         OnFreeSpace, OnNewPartitionSize, ReadPartition, DoRequest, DoDelete, OnChooseMethod,
         OnMountpoint, OnConfirmResize, OnNewSize, OnCryptoMenu, OnConfirm, AtChoose, Handles, Asked
<1> QED BY <1>2, <1>3, <1>4, <1>5, <1>6 DEF Choosing, InAuto

(* The user chooses on the automatic pages. *)
LEMMA UserChooses ==
  ASSUME TypeInv, failure = "none", Choosing, turn = "user", UserMoves
  PROVE  OnCourse'
<1>1. /\ partman.q = "auto" /\ "manual" \in auto.extra /\ auto.asking /\ view # "advanced"
      /\ view # "ask" => auto.choice \in Words
      /\ auto \in AutoType /\ ~auto.crypto /\ InAuto
      /\ view \in {"ask", "auto", "crypto"}
  BY DEF Choosing, TypeInv, AutoType, InAuto
<1>2. NextAuto \/ BackAuto
  BY <1>1 DEF UserMoves, UserWants, NextAdvanced, BackAdvanced, AtAdvanced
<1>3. UNCHANGED <<partman, complete, frozen, build, request, failure>>
  BY <1>2 DEF NextAuto, BackAuto, SameElse
<1>4. PICK choice \in Words \cup {"none"} :
        /\ auto' = [auto EXCEPT !.choice = choice]
        /\ \/ /\ turn' = "partman" /\ answer'.is \in Words \cup {"back"}
              /\ view' \in {"ask", "auto", "crypto", "advanced"}
           \/ /\ turn' = "user" /\ view' \in {"ask", "auto", "crypto"}
              /\ view' # "ask" => choice \in Words
  <2>1. CASE NextAuto
    <3>1. PICK c \in IF view = "ask" THEN auto.extra ELSE {auto.choice} :
            /\ auto' = [auto EXCEPT !.choice = IF Ends(c) THEN "none" ELSE c]
            /\ IF Ends(c) \/ c = "manual"
               THEN /\ view' = IF c = "manual" THEN "advanced" ELSE view
                    /\ Reply(Is(c))
               ELSE /\ view' = IF c = "some_device_crypto" /\ view = "ask" THEN "crypto" ELSE "auto"
                    /\ UNCHANGED <<turn, answer>>
      BY <2>1 DEF NextAuto
    <3>2. c \in Words
      BY <1>1 DEF AutoType
    <3>3. CASE Ends(c) \/ c = "manual"
      BY <1>1, <3>1, <3>2, <3>3 DEF Reply, Is
    <3>4. CASE ~(Ends(c) \/ c = "manual")
      BY <1>1, <3>1, <3>2, <3>4
    <3> QED BY <3>3, <3>4
  <2>2. CASE BackAuto
    BY <1>1, <2>2 DEF BackAuto, Reply, Is
  <2> QED BY <1>2, <2>1, <2>2
<1>5. auto' \in AutoType /\ auto'.asking /\ ~auto'.crypto /\ auto'.extra = auto.extra /\ auto'.choice = choice
  BY <1>1, <1>4 DEF AutoType
<1>6. TypeInv'
  BY <1>3, <1>4, <1>5 DEF TypeInv, AutoType
<1>7. InAuto'
  BY <1>1, <1>3 DEF InAuto
<1>8. Choosing'
  BY <1>1, <1>3, <1>4, <1>5, <1>7 DEF Choosing
<1> QED BY <1>3, <1>4, <1>6, <1>8 DEF OnCourse

-----------------------------------------------------------------------------
(* The page and the user when the table is read *)

NoResize(menus) == \A i \in DOMAIN menus : "resize" \notin Range(menus[i].todo)

(* The page gives an answer partman knows what to do with. *)
LEMMA WaitingGivesAnswer ==
  ASSUME TypeInv, failure = "none", Waiting, NEW menus \in Seq(Menus), menus # <<>>, menus[1] = Bottom,
         UNCHANGED <<partman, complete, frozen, view, failure>>, turn' = "partman",
         auto' \in AutoType, ~auto'.asking, build' = [build EXCEPT !.menus = menus],
         request' \in Requests, request'.is = "create" => NoResize(menus),
         Answers(partman, request, answer)'
  PROVE  OnCourse'
<1>1. IsBuild(build) /\ ~build.on /\ ~build.progress
  BY DEF TypeInv, Waiting
<1>2. /\ IsBuild(build') /\ build'.on = build.on /\ build'.progress = build.progress
      /\ build'.updates = build.updates /\ build'.order = build.order /\ build'.cache = build.cache
      /\ build'.menus = menus
  BY <1>1 DEF IsBuild
<1>3. TypeInv'
  BY <1>2 DEF TypeInv, AutoType
<1>4. Known(partman.parts, build)
  BY DEF Waiting
<1>5. Known(partman'.parts, build')
  BY <1>2, <1>4 DEF Known, ToldIn
<1>6. Doing'
  BY DEF Doing
<1>7. /\ partman'.autoDone /\ frozen' = {} /\ complete' /\ Len(build'.menus) > 0
      /\ build'.menus[1] = Bottom
      /\ request'.is = "create" =>
           \A i \in DOMAIN build'.menus : "resize" \notin Range(build'.menus[i].todo)
  BY <1>2 DEF Waiting, NoResize
<1>8. Waiting'
  BY <1>1, <1>2, <1>5, <1>6, <1>7 DEF Waiting
<1> QED BY <1>3, <1>8 DEF OnCourse

(* The same, with its menus left as they are *)
LEMMA WaitingJustAnswers ==
  ASSUME TypeInv, failure = "none", Waiting,
         UNCHANGED <<partman, complete, frozen, view, failure, build>>, turn' = "partman",
         auto' \in AutoType, ~auto'.asking,
         request' \in Requests, request' = request \/ request' = NoRequest,
         Answers(partman, request, answer)'
  PROVE  OnCourse'
<1>1. PICK menus : menus = build.menus
  OBVIOUS
<1>2. build' = [build EXCEPT !.menus = menus] /\ menus \in Seq(Menus)
  BY <1>1 DEF TypeInv, IsBuild
<1>3. menus # <<>> /\ menus[1] = Bottom
  BY <1>1 DEF Waiting
<1>4. request'.is = "create" => NoResize(menus)
  BY <1>1 DEF Waiting, NoResize, NoRequest
<1> QED BY <1>2, <1>3, <1>4, WaitingGivesAnswer

(* What is asked for of a new or an old partition *)
LEMMA RequestFields ==
  ASSUME request \in Requests
  PROVE  /\ request.is \in {"create", "edit"} =>
              request.method \in STRING /\ request.mount \in STRING /\ request.size \in Nat
         /\ NoRequest \in Requests
<1>1. request.is \in {"create", "edit"} => request \in Creations \cup Edits
  BY DEF Requests, NoRequest
<1> QED BY <1>1 DEF Creations, Edits, Requests

(* The items of a request, and the menu of the partition it is about *)
LEMMA Items3 ==
  ASSUME NEW w
  PROVE  /\ ItemsOf(w) \in Seq({"method", "mountpoint", "resize"})
         /\ w.is = "create" => "resize" \notin Range(ItemsOf(w))
<1> DEFINE T == {"method", "mountpoint", "resize"}
           a == IF w.method # "same" THEN <<"method">> ELSE <<>>
           b == IF w.mount # "same" THEN <<"mountpoint">> ELSE <<>>
           c == IF w.is = "edit" /\ w.size # 0 THEN <<"resize">> ELSE <<>>
<1>1. a \in Seq(T) /\ b \in Seq(T) /\ c \in Seq(T)
  <2>1. <<>> \in Seq(T) /\ <<"method">> \in Seq(T) /\ <<"mountpoint">> \in Seq(T)
        /\ <<"resize">> \in Seq(T)
    OBVIOUS
  <2> HIDE DEF T
  <2> QED BY <2>1
<1>2. "resize" \notin Range(a) /\ "resize" \notin Range(b)
  BY DEF Range
<1>3. w.is = "create" => "resize" \notin Range(c)
  BY DEF Range
<1>4. ItemsOf(w) = (a \o b) \o c
  BY <1>1 DEF ItemsOf
<1> HIDE DEF a, b, c
<1>5. a \o b \in Seq(T) /\ Range(a \o b) = Range(a) \cup Range(b)
  BY <1>1, RangeConcat
<1>6. (a \o b) \o c \in Seq(T) /\ Range((a \o b) \o c) = Range(a \o b) \cup Range(c)
  <2>1. PICK d, U : d = a \o b /\ U = T
    OBVIOUS
  <2>2. d \in Seq(U) /\ c \in Seq(U)
    BY <1>1, <1>5, <2>1
  <2>3. d \o c \in Seq(U) /\ Range(d \o c) = Range(d) \cup Range(c)
    BY <2>2, RangeConcat
  <2> QED BY <2>1, <2>3, Zenon
<1> QED BY <1>2, <1>3, <1>4, <1>5, <1>6 DEF T

LEMMA DoesRequest ==
  ASSUME TypeInv, failure = "none", Waiting, turn = "page", DoRequest
  PROVE  OnCourse'
<1> DEFINE T == {"method", "mountpoint", "resize"}
<1>1. PICK todo : todo = IF Top.q = "active" THEN Top.todo ELSE ItemsOf(request)
  OBVIOUS
<1>2. PICK below : below = IF Top.q = "active" THEN Front(build.menus) ELSE build.menus
  OBVIOUS
<1>3. PICK offered : offered = Offered(todo)
  OBVIOUS
<1>4. PICK i : i = CHOOSE least \in offered : \A j \in offered : least <= j
  OBVIOUS
<1>5. /\ partman.q = "active" /\ request.is \in {"create", "edit"}
      /\ UNCHANGED <<partman, complete, auto, view, status, frozen, request, refused>>
      /\ IF offered = {}
         THEN ReplyFromMenu("finish") /\ build' = [build EXCEPT !.menus = below]
         ELSE /\ Reply(Is(todo[i])) /\ UNCHANGED failure
              /\ build' = [build EXCEPT !.menus = Append(below,
                   [q |-> "active", on |-> Last(below).on, todo |-> SubSeq(todo, i + 1, Len(todo))])]
  BY <1>1, <1>2, <1>3, <1>4 DEF DoRequest, Handles, Asked, Editing, Requested
<1>6. /\ build.menus \in Seq(Menus) /\ Len(build.menus) > 0 /\ build.menus[1] = Bottom
      /\ request.is = "create" => NoResize(build.menus)
  BY DEF TypeInv, IsBuild, Waiting, NoResize
<1>7. /\ below \in Seq(Menus) /\ Len(below) > 0 /\ below[1] = Bottom
      /\ request.is = "create" => NoResize(below)
      /\ todo \in Seq(T) /\ (request.is = "create" => "resize" \notin Range(todo))
  <2>1. CASE Top.q = "active"
    <3>1. Len(build.menus) # 1 /\ Top \in Menus
      BY <1>6, <2>1 DEF Top, Last, Bottom
    <3>2. /\ below \in Seq(Menus) /\ Len(below) = Len(build.menus) - 1
          /\ \A n \in 1 .. Len(build.menus) - 1 : below[n] = build.menus[n]
      BY <1>2, <1>6, <2>1, <3>1 DEF Front
    <3>3. todo = build.menus[Len(build.menus)].todo /\ todo \in Seq(T)
      BY <1>1, <2>1, <3>1 DEF Top, Last, Menus
    <3>4. Len(below) > 0 /\ below[1] = Bottom
      <4>1. PICK n : n = Len(build.menus)
        OBVIOUS
      <4>2. n \in Nat /\ n > 0 /\ n # 1
        BY <1>6, <3>1, <4>1
      <4>3. n - 1 > 0 /\ 1 \in 1 .. n - 1
        BY <4>2
      <4> QED BY <1>6, <3>2, <4>1, <4>3, Zenon
    <3>5. ASSUME request.is = "create"
          PROVE  NoResize(below) /\ "resize" \notin Range(todo)
      BY <1>6, <3>1, <3>2, <3>3, <3>5, SMTT(20) DEF NoResize
    <3> QED BY <3>2, <3>3, <3>4, <3>5
  <2>2. CASE Top.q # "active"
    <3>1. below = build.menus /\ todo = ItemsOf(request)
      BY <1>1, <1>2, <2>2
    <3> QED BY <1>6, <3>1, Items3
  <2> QED BY <2>1, <2>2
<1>8. IsPart(partman.parts, partman.on) /\ ~auto.asking
      /\ auto \in AutoType /\ request \in Requests /\ complete
  BY <1>5 DEF Waiting, Doing, Asks, TypeInv, AutoType
<1>9. CASE offered = {}
  <2>1. /\ answer' = Is("finish") /\ turn' = "partman" /\ failure' = failure
        /\ build' = [build EXCEPT !.menus = below]
    BY <1>5, <1>8, <1>9 DEF ReplyFromMenu, Reply
  <2>2. Answers(partman, request, answer)'
    BY <1>5, <1>8, <2>1 DEF Answers, Is
  <2>3. below # <<>>
    BY <1>7
  <2> QED BY <1>5, <1>7, <1>8, <2>1, <2>2, <2>3, WaitingGivesAnswer
<1>10. CASE offered # {}
  <2>1. offered \in SUBSET Nat /\ offered \subseteq DOMAIN todo
    BY <1>3, <1>7 DEF Offered
  <2>2. i \in offered
    <3>1. \E n \in offered : \A j \in offered : n <= j
      BY <1>10, <2>1, LeastNumber
    <3> QED BY <1>4, <3>1
  <2>3. i \in Nat /\ i \in DOMAIN todo /\ todo[i] \in T
    BY <1>7, <2>1, <2>2
  <2>4. PICK rest : rest = SubSeq(todo, i + 1, Len(todo))
    OBVIOUS
  <2>5. rest \in Seq(T) /\ (request.is = "create" => "resize" \notin Range(rest))
    <3>1. i + 1 \in Nat /\ 1 <= i + 1 /\ i + 1 <= Len(todo) + 1 /\ Len(todo) \in Nat
      BY <1>7, <2>3
    <3>2. /\ rest \in Seq(T) /\ Len(rest) = Len(todo) - i
          /\ \A n \in 1 .. Len(todo) - i : rest[n] = todo[i + n]
      BY <1>7, <2>3, <2>4, <3>1
    <3>3. \A n \in 1 .. Len(todo) - i : i + n \in DOMAIN todo
      BY <1>7, <2>3
    <3>4. \A n \in DOMAIN rest : rest[n] \in Range(todo)
      BY <3>2, <3>3 DEF Range
    <3>5. Range(rest) \subseteq Range(todo)
      BY <3>4 DEF Range
    <3> QED BY <1>7, <3>2, <3>5
  <2>6. PICK menu : menu = [q |-> "active", on |-> Last(below).on, todo |-> rest]
    OBVIOUS
  <2>7. menu \in Menus
    <3>1. Last(below) \in Menus
      BY <1>7 DEF Last
    <3> QED BY <2>5, <2>6, <3>1 DEF Menus
  <2>8. /\ Append(below, menu) \in Seq(Menus) /\ Append(below, menu) # <<>>
        /\ Append(below, menu)[1] = Bottom
        /\ request.is = "create" => NoResize(Append(below, menu))
    <3>1. /\ Append(below, menu) \in Seq(Menus) /\ Len(Append(below, menu)) = Len(below) + 1
          /\ Append(below, menu)[Len(below) + 1] = menu
          /\ \A n \in 1 .. Len(below) : Append(below, menu)[n] = below[n]
      BY <1>7, <2>7
    <3>2. menu.todo = rest
      BY <2>6
    <3> QED BY <1>7, <2>5, <3>1, <3>2 DEF NoResize
  <2>9. /\ answer' = Is(todo[i]) /\ turn' = "partman" /\ failure' = failure
        /\ build' = [build EXCEPT !.menus = Append(below, menu)]
    BY <1>5, <1>10, <2>4, <2>6 DEF Reply
  <2>10. todo[i] = "resize" => request.is = "edit"
    BY <1>5, <1>7, <2>3 DEF Range
  <2>11. Answers(partman, request, answer)'
    BY <1>5, <1>8, <2>3, <2>9, <2>10 DEF Answers, Is
  <2> QED BY <1>5, <1>8, <2>8, <2>9, <2>11, WaitingGivesAnswer
<1> QED BY <1>9, <1>10

(* Every other question *)
LEMMA WaitingAnswers ==
  ASSUME TypeInv, failure = "none", Waiting, turn = "page", PageAnswers
  PROVE  OnCourse'
<1>1. /\ Asks(partman, request) /\ (partman.q = "crypto" => auto.crypto)
      /\ ~build.on /\ ~auto.asking /\ complete
      /\ auto \in AutoType /\ request \in Requests
  BY DEF Waiting, Doing, TypeInv, AutoType
<1>2. CASE partman.q = "choose"
  <2>1. StartReading \/ NothingRead
    BY <1>1, <1>2
       DEF PageAnswers, WalkOn, ShowAsk, WalkSelectDisk, WalkNewSize, AnswerSelectDisk,
           AnswerAutoSize, AnswerPassphrase, ReadOn, OnNewLabel,
           OnFreeSpace, OnNewPartitionSize, ReadPartition, DoRequest, DoDelete, OnChooseMethod,
           OnMountpoint, OnConfirmResize, OnNewSize, OnCryptoMenu, OnConfirm, AtChoose, Handles, Asked
  <2> QED BY <2>1, StartsReading, ShowsAgain
<1>3. CASE partman.q = "active"
  <2>1. DoRequest \/ DoDelete
    BY <1>1, <1>3
       DEF PageAnswers, WalkOn, ShowAsk, WalkSelectDisk, WalkNewSize, AnswerSelectDisk,
           AnswerAutoSize, AnswerPassphrase, StartReading, ReadOn, NothingRead, OnNewLabel,
           OnFreeSpace, OnNewPartitionSize, ReadPartition, OnChooseMethod, OnMountpoint,
           OnConfirmResize, OnNewSize, OnCryptoMenu, OnConfirm, AtChoose, Handles, Asked
  <2>2. CASE DoDelete
    <3>1. request.is = "delete"
      BY <1>1, <1>3, <2>2 DEF DoDelete, Editing, Requested, Asks
    <3>2. /\ UNCHANGED <<partman, complete, frozen, view, failure, build, auto>> /\ turn' = "partman"
          /\ answer' = Is("delete") /\ request' = NoRequest
      BY <1>1, <2>2, <3>1
         DEF DoDelete, Handles, ReplyFromMenu, Reply, Unexpected, Requested
    <3>3. IsPart(partman.parts, partman.on)
      BY <1>1, <1>3 DEF Asks
    <3>4. Answers(partman, request, answer)'
      BY <1>3, <3>2, <3>3 DEF Answers, Is
    <3> QED BY <1>1, <3>2, <3>4, RequestFields, WaitingJustAnswers
  <2> QED BY <2>1, <2>2, DoesRequest
<1>4. ASSUME UNCHANGED <<partman, complete, frozen, view, failure, build, auto, request>>,
             turn' = "partman", Answers(partman, request, answer)'
      PROVE  OnCourse'
  BY <1>1, <1>4, WaitingJustAnswers
<1>5. CASE partman.q = "confirm_new_label"
  <2>1. OnNewLabel
    BY <1>5
       DEF PageAnswers, WalkOn, ShowAsk, WalkSelectDisk, WalkNewSize, AnswerSelectDisk,
           AnswerAutoSize, AnswerPassphrase, StartReading, ReadOn, NothingRead,
           OnFreeSpace, OnNewPartitionSize, ReadPartition, DoRequest, DoDelete, OnChooseMethod,
           OnMountpoint, OnConfirmResize, OnNewSize, OnCryptoMenu, OnConfirm, AtChoose, Handles, Asked
  <2>2. request.is = "label"
    BY <1>1, <1>5 DEF Asks
  <2>3. /\ UNCHANGED <<partman, complete, frozen, view, failure, build, auto, request>>
        /\ turn' = "partman"
    BY <2>1, <2>2 DEF OnNewLabel, Handles, Reply, Unexpected, Requested, AsBefore
  <2>4. Answers(partman, request, answer)'
    BY <1>1, <1>5, <2>3 DEF Answers, Asks
  <2> QED BY <1>4, <2>3, <2>4
<1>6. CASE partman.q \in {"free_space", "new_partition_size"}
  <2>1. OnFreeSpace \/ OnNewPartitionSize
    BY <1>6
       DEF PageAnswers, WalkOn, ShowAsk, WalkSelectDisk, WalkNewSize, AnswerSelectDisk,
           AnswerAutoSize, AnswerPassphrase, StartReading, ReadOn, NothingRead, OnNewLabel,
           ReadPartition, DoRequest, DoDelete, OnChooseMethod,
           OnMountpoint, OnConfirmResize, OnNewSize, OnCryptoMenu, OnConfirm, AtChoose, Handles, Asked
  <2>2. request.is = "create"
    BY <1>1, <1>6 DEF Asks
  <2>3. /\ UNCHANGED <<partman, complete, frozen, view, failure, build, auto, request>>
        /\ turn' = "partman"
        /\ partman.q = "new_partition_size" =>
             \/ answer' = Is("back")
             \/ answer' = [is |-> "size", size |-> request.size, place |-> request.place]
    <3>1. CASE OnFreeSpace
      BY <1>1, <2>2, <3>1
         DEF OnFreeSpace, Handles, Asked, ReplyFromMenu, Reply, Unexpected, Requested
    <3>2. CASE OnNewPartitionSize
      BY <2>2, <3>2 DEF OnNewPartitionSize, Handles, Reply, Unexpected, Requested, AsBefore
    <3> QED BY <2>1, <3>1, <3>2
  <2>4. Asks(partman', request')
    BY <1>1, <2>3
  <2>5. Answers(partman, request, answer)'
    BY <1>6, <2>3, <2>4 DEF Answers, Is
  <2> QED BY <1>4, <2>3, <2>5
<1>7. CASE partman.q \in {"choose_method", "mountpoint", "mountpoint_manual"}
  <2>1. OnChooseMethod \/ OnMountpoint
    BY <1>7
       DEF PageAnswers, WalkOn, ShowAsk, WalkSelectDisk, WalkNewSize, AnswerSelectDisk,
           AnswerAutoSize, AnswerPassphrase, StartReading, ReadOn, NothingRead, OnNewLabel,
           OnFreeSpace, OnNewPartitionSize, ReadPartition, DoRequest, DoDelete,
           OnConfirmResize, OnNewSize, OnCryptoMenu, OnConfirm, AtChoose, Handles, Asked
  <2>2. request.is \in {"create", "edit"}
    BY <1>1, <1>7 DEF Asks
  <2>3. /\ UNCHANGED <<partman, complete, frozen, view, failure, build, auto, request>>
        /\ turn' = "partman"
        /\ \/ partman.q = "choose_method" /\ answer' = [is |-> "method", method |-> request.method]
           \/ /\ partman.q \in {"mountpoint", "mountpoint_manual"}
              /\ answer' = Is("back") \/ answer' = [is |-> "mount", mount |-> request.mount]
    <3>1. CASE OnChooseMethod
      BY <1>7, <2>2, <3>1
         DEF OnChooseMethod, Handles, Asked, Reply, Unexpected, Editing, Requested, AsBefore
    <3>2. CASE OnMountpoint
      BY <1>7, <2>2, <3>2
         DEF OnMountpoint, Handles, Asked, Reply, Unexpected, Editing, Requested, AsBefore
    <3> QED BY <2>1, <3>1, <3>2
  <2>4. Asks(partman', request') /\ request.method \in STRING /\ request.mount \in STRING
    BY <1>1, <2>2, <2>3, RequestFields
  <2>5. Answers(partman, request, answer)'
    BY <1>7, <2>3, <2>4 DEF Answers, Is
  <2> QED BY <1>4, <2>3, <2>5
<1>8. CASE partman.q \in {"confirm_resize", "new_size"}
  <2>1. OnConfirmResize \/ OnNewSize
    BY <1>1, <1>8
       DEF PageAnswers, WalkOn, ShowAsk, WalkSelectDisk, WalkNewSize, AnswerSelectDisk,
           AnswerAutoSize, AnswerPassphrase, StartReading, ReadOn, NothingRead, OnNewLabel,
           OnFreeSpace, OnNewPartitionSize, ReadPartition, DoRequest, DoDelete, OnChooseMethod,
           OnMountpoint, OnCryptoMenu, OnConfirm, AtChoose, Handles, Asked
  <2>2. request.is = "edit"
    BY <1>1, <1>8 DEF Asks
  <2>3. /\ UNCHANGED <<partman, complete, frozen, view, failure, build, auto, request>>
        /\ turn' = "partman"
        /\ partman.q = "new_size" =>
             answer' = Is("back") \/ answer' = [is |-> "size", size |-> request.size]
    <3>1. CASE OnConfirmResize
      BY <1>1, <2>2, <3>1
         DEF OnConfirmResize, Handles, Asked, FindingOut, Reply, AsBefore, Unexpected, Requested
    <3>2. CASE OnNewSize
      BY <1>1, <2>2, <3>2 DEF OnNewSize, Handles, Reply, AsBefore, Unexpected, Requested
    <3> QED BY <2>1, <3>1, <3>2
  <2>4. Asks(partman', request')
    BY <1>1, <2>3
  <2>5. Answers(partman, request, answer)'
    BY <1>8, <2>3, <2>4 DEF Answers, Is
  <2> QED BY <1>4, <2>3, <2>5
<1>9. CASE partman.q = "crypto"
  <2>1. OnCryptoMenu
    BY <1>9
       DEF PageAnswers, WalkOn, ShowAsk, WalkSelectDisk, WalkNewSize, AnswerSelectDisk,
           AnswerAutoSize, AnswerPassphrase, StartReading, ReadOn, NothingRead, OnNewLabel,
           OnFreeSpace, OnNewPartitionSize, ReadPartition, DoRequest, DoDelete, OnChooseMethod,
           OnMountpoint, OnConfirmResize, OnNewSize, OnConfirm, AtChoose, Handles, Asked
  <2>2. /\ UNCHANGED <<partman, complete, frozen, view, failure, build, request>>
        /\ turn' = "partman" /\ auto' = [auto EXCEPT !.crypto = FALSE]
    BY <1>1, <1>9, <2>1 DEF OnCryptoMenu, ReplyFromMenu, Reply
  <2>3. auto' \in AutoType /\ ~auto'.asking
    BY <1>1, <2>2 DEF AutoType
  <2>4. request = NoRequest
    BY <1>1, <1>9 DEF Asks
  <2>5. Answers(partman, request, answer)'
    BY <1>9, <2>2, <2>4 DEF Answers, Asks
  <2> QED BY <1>1, <2>2, <2>3, <2>5, WaitingJustAnswers
<1>10. CASE partman.q = "passphrase"
  <2>1. AnswerPassphrase
    BY <1>10
       DEF PageAnswers, WalkOn, ShowAsk, WalkSelectDisk, WalkNewSize, AnswerSelectDisk,
           AnswerAutoSize, StartReading, ReadOn, NothingRead, OnNewLabel,
           OnFreeSpace, OnNewPartitionSize, ReadPartition, DoRequest, DoDelete, OnChooseMethod,
           OnMountpoint, OnConfirmResize, OnNewSize, OnCryptoMenu, OnConfirm, AtChoose, Handles, Asked
  <2>2. /\ UNCHANGED <<partman, complete, frozen, view, failure, build, auto, request>>
        /\ turn' = "partman"
    BY <2>1 DEF AnswerPassphrase, Reply
  <2>3. Answers(partman, request, answer)'
    BY <1>1, <1>10, <2>2 DEF Answers, Asks
  <2> QED BY <1>4, <2>2, <2>3
<1>11. CASE partman.q = "confirm"
  <2>1. OnConfirm
    BY <1>11
       DEF PageAnswers, WalkOn, ShowAsk, WalkSelectDisk, WalkNewSize, AnswerSelectDisk,
           AnswerAutoSize, AnswerPassphrase, StartReading, ReadOn, NothingRead, OnNewLabel,
           OnFreeSpace, OnNewPartitionSize, ReadPartition, DoRequest, DoDelete, OnChooseMethod,
           OnMountpoint, OnConfirmResize, OnNewSize, OnCryptoMenu, AtChoose, Handles, Asked
  <2>2. /\ UNCHANGED <<partman, complete, frozen, view, failure, build, auto, request>>
        /\ turn' = "partman"
    BY <1>1, <2>1 DEF OnConfirm, Reply
  <2>3. Answers(partman, request, answer)'
    BY <1>1, <1>11, <2>2 DEF Answers, Asks
  <2> QED BY <1>4, <2>2, <2>3
<1> QED BY <1>1, <1>2, <1>3, <1>5, <1>6, <1>7, <1>8, <1>9, <1>10, <1>11 DEF Asks

(* What the user may ask for is of a row partman has. *)
LEMMA WantedRows ==
  ASSUME TypeInv, Waiting, turn = "user", NEW w \in Wanted
  PROVE  /\ w \in Requests
         /\ w.is \in {"create", "edit", "delete", "label", "undo"}
         /\ w.is \in {"create", "edit", "delete"} => WantsRow(partman.parts, w) /\ w.on \in Slots
         /\ w.is = "label" => w.on \in Range(DeviceOf)
<1> DEFINE P == partman.parts
<1>1. \A s \in Shown : s \in Rows(P) /\ build.cache[s].num = NumberOf(P, s) /\ s \in Slots
  <2>1. build.updates = NoList /\ Known(P, build) /\ ToldIn(build) = {}
    BY DEF Waiting, Doing, ToldIn
  <2>2. build.order = Entries(P) /\ \A s \in Rows(P) : FreshIn(P, build.cache, s)
    BY <2>1 DEF Known
  <2>3. Range(Entries(P)) = Rows(P) /\ Rows(P) \subseteq Slots
    BY EntriesListed DEF TypeInv
  <2> QED BY <2>2, <2>3 DEF Shown, FreshIn
<1>2. IsTable(P)
  BY DEF TypeInv
<1>3. {} \in Bads /\ Methods \subseteq STRING /\ Mounts \subseteq STRING
      /\ Methods \cup {"same"} \subseteq STRING /\ Mounts \cup {"same"} \subseteq STRING
  <2>1. {} \in Bads
    BY DEF Bads
  <2>2. "same" \in STRING
    BY PageAssumption
  <2> QED BY <2>1, <2>2, PageAssumption
<1>4. ASSUME NEW s \in Shown, Free(s),
             w \in [is : {"create"}, on : {s}, size : 1..Cardinality(Places(s)),
                    place : {"Beginning", "End"}, method : Methods, mount : Mounts, bad : {{}}]
      PROVE  w \in Creations /\ w.is = "create" /\ WantsRow(P, w) /\ w.on \in Slots
  <2>1. s \in FreeSlots(P) /\ s \in Slots
    BY <1>1, <1>2, <1>4, Numbered DEF Free
  <2>2. w \in Creations
    <3>1. /\ w.size \in Nat /\ w.on \in Slots /\ w.method \in STRING /\ w.mount \in STRING
          /\ w.bad \in Bads
      <4>1. /\ w.size \in 1..Cardinality(Places(s)) /\ w.on = s /\ w.method \in Methods
            /\ w.mount \in Mounts /\ w.bad = {}
        BY <1>4
      <4>2. \A n : n \in 1..Cardinality(Places(s)) => n \in Nat
        OBVIOUS
      <4> QED BY <1>3, <2>1, <4>1, <4>2, Zenon
    <3>2. w \in [is : {w.is}, on : {w.on}, size : {w.size}, place : {w.place}, method : {w.method},
                 mount : {w.mount}, bad : {w.bad}] /\ w.is = "create" /\ w.place \in {"Beginning", "End"}
      BY <1>4
    <3> QED BY <3>1, <3>2 DEF Creations
  <2>3. w.is = "create" /\ w.on = s /\ w.size \in 1 .. Cardinality(Places(s))
    BY <1>4
  <2> QED BY <2>1, <2>2, <2>3 DEF WantsRow, FitsIn
<1>5. ASSUME NEW s \in Shown, ~Free(s), s \notin LockedParts
      PROVE  IsPart(P, s) /\ s \in Slots
  BY <1>1, <1>2, <1>5, Numbered DEF Free, IsPart
<1>6. ASSUME NEW s \in Shown, ~Free(s), s \notin LockedParts,
             w \in [is : {"edit"}, on : {s}, size : 0..Room(s), method : Methods \cup {"same"},
                    mount : Mounts \cup {"same"}, bad : {{}}]
      PROVE  w \in Edits /\ w.is = "edit" /\ WantsRow(P, w) /\ w.on \in Slots
  <2>1. w \in Edits
    <3>1. /\ w.size \in Nat /\ w.on \in Slots /\ w.method \in STRING /\ w.mount \in STRING
          /\ w.bad \in Bads
      <4>1. /\ w.size \in 0..Room(s) /\ w.on = s /\ w.method \in Methods \cup {"same"}
            /\ w.mount \in Mounts \cup {"same"} /\ w.bad = {}
        BY <1>6
      <4>2. \A n : n \in 0..Room(s) => n \in Nat
        OBVIOUS
      <4>3. s \in Slots
        BY <1>5, <1>6
      <4> QED BY <1>3, <4>1, <4>2, <4>3, Zenon
    <3>2. w \in [is : {w.is}, on : {w.on}, size : {w.size}, method : {w.method},
                 mount : {w.mount}, bad : {w.bad}] /\ w.is = "edit"
      BY <1>6
    <3> QED BY <3>1, <3>2 DEF Edits
  <2>2. w.is = "edit" /\ w.on = s
    BY <1>6
  <2> QED BY <1>5, <1>6, <2>1, <2>2 DEF WantsRow
<1>7. ASSUME w \in [is : {"delete"}, on : {s \in Shown : ~Free(s) /\ s \notin LockedParts}, bad : {{}}]
      PROVE  w \in [is : {"delete"}, on : Slots, bad : Bads] /\ w.is = "delete"
             /\ WantsRow(P, w) /\ w.on \in Slots
  BY <1>3, <1>5, <1>7 DEF WantsRow
<1>8. ASSUME w \in [is : {"label"}, on : Range(DeviceOf), bad : {{}}]
      PROVE  w \in [is : {"label"}, on : Range(DeviceOf), bad : Bads] /\ w.is = "label"
             /\ w.on \in Range(DeviceOf)
  BY <1>3, <1>8
<1>9. ASSUME w = [is |-> "undo", bad |-> {}]
      PROVE  w \in [is : {"undo"}, bad : Bads] /\ w.is = "undo"
  BY <1>3, <1>9
<1>10. ASSUME w \in Creations \/ w \in Edits
             \/ w \in [is : {"delete"}, on : Slots, bad : Bads]
             \/ w \in [is : {"label"}, on : Range(DeviceOf), bad : Bads]
             \/ w \in [is : {"undo"}, bad : Bads]
       PROVE  w \in Requests
  BY <1>10 DEF Requests
<1>11. \/ \E s \in Shown : Free(s) /\
            w \in [is : {"create"}, on : {s}, size : 1..Cardinality(Places(s)),
                   place : {"Beginning", "End"}, method : Methods, mount : Mounts, bad : {{}}]
       \/ \E s \in Shown : ~Free(s) /\ s \notin LockedParts /\
            w \in [is : {"edit"}, on : {s}, size : 0..Room(s), method : Methods \cup {"same"},
                   mount : Mounts \cup {"same"}, bad : {{}}]
       \/ w \in [is : {"delete"}, on : {s \in Shown : ~Free(s) /\ s \notin LockedParts}, bad : {{}}]
       \/ w \in [is : {"label"}, on : Range(DeviceOf), bad : {{}}]
       \/ w = [is |-> "undo", bad |-> {}]
  <2> DEFINE Creating(s) ==
               [is : {"create"}, on : {s}, size : 1..Cardinality(Places(s)),
                place : {"Beginning", "End"}, method : Methods, mount : Mounts, bad : {{}}]
             Changing(s) ==
               [is : {"edit"}, on : {s}, size : 0..Room(s), method : Methods \cup {"same"},
                mount : Mounts \cup {"same"}, bad : {{}}]
             NoEdit(s) ==
               {[is |-> "edit", on |-> s, size |-> 0, method |-> "same", mount |-> "same", bad |-> {}]}
             Deleting == [is : {"delete"}, on : {s \in Shown : ~Free(s) /\ s \notin LockedParts}, bad : {{}}]
             Labelling == [is : {"label"}, on : Range(DeviceOf), bad : {{}}]
             Undoing == {[is |-> "undo", bad |-> {}]}
  <2>1. Wanted = (UNION {Creating(s) : s \in {s \in Shown : Free(s)}})
                 \cup (UNION {Changing(s) \ NoEdit(s) : s \in {s \in Shown : ~Free(s) /\ s \notin LockedParts}})
                 \cup Deleting \cup Labelling \cup Undoing
    BY Zenon DEF Wanted
  <2>2. w \in Undoing => w = [is |-> "undo", bad |-> {}]
    OBVIOUS
  <2>3. /\ \A s \in Shown : w \in Creating(s) =>
              w \in [is : {"create"}, on : {s}, size : 1..Cardinality(Places(s)),
                     place : {"Beginning", "End"}, method : Methods, mount : Mounts, bad : {{}}]
        /\ \A s \in Shown : w \in Changing(s) =>
              w \in [is : {"edit"}, on : {s}, size : 0..Room(s), method : Methods \cup {"same"},
                     mount : Mounts \cup {"same"}, bad : {{}}]
    BY Zenon
  <2> HIDE DEF Creating, Changing, NoEdit, Undoing
  <2>4. w \in UNION {Creating(s) : s \in {s \in Shown : Free(s)}}
          => \E s \in Shown : Free(s) /\ w \in Creating(s)
    BY Zenon
  <2>5. w \in UNION {Changing(s) \ NoEdit(s) : s \in {s \in Shown : ~Free(s) /\ s \notin LockedParts}}
          => \E s \in Shown : ~Free(s) /\ s \notin LockedParts /\ w \in Changing(s)
    BY Zenon
  <2>6. CASE w \in UNION {Creating(s) : s \in {s \in Shown : Free(s)}}
    <3>1. PICK s \in Shown : Free(s) /\ w \in Creating(s)
      BY <2>4, <2>6
    <3> QED BY <2>3, <3>1
  <2>7. CASE w \in UNION {Changing(s) \ NoEdit(s) : s \in {s \in Shown : ~Free(s) /\ s \notin LockedParts}}
    <3>1. PICK s \in Shown : ~Free(s) /\ s \notin LockedParts /\ w \in Changing(s)
      BY <2>5, <2>7
    <3> QED BY <2>3, <3>1
  <2>8. CASE w \in Deleting
    BY <2>8
  <2>9. CASE w \in Labelling
    BY <2>9
  <2>10. CASE w \in Undoing
    BY <2>2, <2>10
  <2> HIDE DEF Deleting, Labelling
  <2>11. \/ w \in UNION {Creating(s) : s \in {s \in Shown : Free(s)}}
         \/ w \in UNION {Changing(s) \ NoEdit(s) : s \in {s \in Shown : ~Free(s) /\ s \notin LockedParts}}
         \/ w \in Deleting \/ w \in Labelling \/ w \in Undoing
    <3>1. PICK A, B :
            /\ A = UNION {Creating(s) : s \in {s \in Shown : Free(s)}}
            /\ B = UNION {Changing(s) \ NoEdit(s) : s \in {s \in Shown : ~Free(s) /\ s \notin LockedParts}}
      OBVIOUS
    <3>2. w \in A \cup B \cup Deleting \cup Labelling \cup Undoing
      <4>1. w \in Wanted
        OBVIOUS
      <4>2. Wanted = A \cup B \cup Deleting \cup Labelling \cup Undoing
        BY <2>1, <3>1
      <4> QED BY <4>1, <4>2
    <3>3. w \in A \/ w \in B \/ w \in Deleting \/ w \in Labelling \/ w \in Undoing
      BY <3>2
    <3> QED BY <3>1, <3>3, Zenon
  <2> QED BY <2>6, <2>7, <2>8, <2>9, <2>10, <2>11, Zenon
<1>12. CASE w \in Creations /\ w.is = "create" /\ WantsRow(P, w) /\ w.on \in Slots
  BY <1>10, <1>12
<1>13. CASE w \in Edits /\ w.is = "edit" /\ WantsRow(P, w) /\ w.on \in Slots
  BY <1>10, <1>13
<1> QED BY <1>4, <1>6, <1>7, <1>8, <1>9, <1>10, <1>11, <1>12, <1>13

(* The user on the advanced page *)
LEMMA UserActs ==
  ASSUME TypeInv, failure = "none", Waiting, turn = "user", UserMoves
  PROVE  OnCourse'
<1>1. /\ partman.q = "choose" /\ request = NoRequest /\ build.menus = <<Bottom>>
      /\ complete /\ ~auto.asking /\ auto \in AutoType /\ build.menus \in Seq(Menus)
      /\ IsBuild(build)
  BY DEF Waiting, Doing, TypeInv, AutoType, IsBuild
<1>2. UserWants \/ NextAdvanced \/ BackAdvanced
  BY <1>1 DEF UserMoves, NextAuto, BackAuto, AtAsk
<1>3. CASE UserWants
  <2>1. PICK w \in Wanted :
          /\ request' = w /\ Carry(w)
          /\ auto' = [auto EXCEPT !.crypto = IF w.is \in {"create", "edit"} THEN w.method = "crypto" ELSE @]
    BY <1>3 DEF UserWants
  <2>2. UNCHANGED <<partman, complete, frozen, view>>
    BY <1>3 DEF UserWants
  <2>3. auto' \in AutoType /\ ~auto'.asking
    <3>1. (IF w.is \in {"create", "edit"} THEN w.method = "crypto" ELSE auto.crypto) \in BOOLEAN
      BY <1>1 DEF AutoType
    <3> QED BY <1>1, <2>1, <3>1 DEF AutoType
  <2>4. /\ w \in Requests
        /\ w.is \in {"create", "edit", "delete", "label", "undo"}
        /\ w.is \in {"create", "edit", "delete"} => WantsRow(partman.parts, w) /\ w.on \in Slots
        /\ w.is = "label" => w.on \in Range(DeviceOf)
    BY WantedRows
  <2>5. PICK menus :
          menus = IF w.is \in {"create", "edit"}
                  THEN Append(build.menus, [q |-> "choose", on |-> w.on, todo |-> <<>>])
                  ELSE build.menus
    OBVIOUS
  <2>6. /\ turn' = "partman" /\ failure' = failure
        /\ build' = [build EXCEPT !.menus = menus]
        /\ answer' = CASE w.is = "undo" -> Is("undo")
                       [] w.is = "label" -> [is |-> "device", on |-> w.on]
                       [] OTHER -> [is |-> "partition", on |-> w.on]
    <3>0. build = [build EXCEPT !.menus = build.menus]
      BY <1>1 DEF IsBuild
    <3>1. CASE w.is = "undo"
      BY <1>1, <2>1, <2>5, <3>0, <3>1 DEF Carry, ReplyFromMenu, Reply
    <3>2. CASE w.is = "label"
      BY <1>1, <2>1, <2>5, <3>0, <3>2 DEF Carry, Reply
    <3>3. CASE w.is = "delete"
      BY <1>1, <2>1, <2>5, <3>0, <3>3 DEF Carry, Reply
    <3>4. CASE w.is \in {"create", "edit"}
      BY <1>1, <2>1, <2>5, <3>4 DEF Carry, Reply
    <3> QED BY <2>4, <3>1, <3>2, <3>3, <3>4
  <2>7. menus \in Seq(Menus) /\ menus # <<>> /\ menus[1] = Bottom /\ NoResize(menus)
    <3>1. Range(<<>>) = {} /\ Bottom.todo = <<>>
      BY DEF Range, Bottom
    <3>2. CASE w.is \in {"create", "edit"}
      <4>1. PICK menu : menu = [q |-> "choose", on |-> w.on, todo |-> <<>>]
        OBVIOUS
      <4>2. menu \in Menus /\ menu.todo = <<>>
        <5>1. <<>> \in Seq({"method", "mountpoint", "resize"}) /\ w.on \in Ons
          BY <2>4, <3>2, QuestionNames
        <5> QED BY <4>1, <5>1 DEF Menus
      <4>3. menus \in Seq(Menus) /\ Len(menus) = 2 /\ menus[1] = Bottom /\ menus[2] = menu
        <5>1. menus = Append(<<Bottom>>, menu) /\ Bottom \in Menus
          BY <1>1, <2>5, <3>2, <4>1
        <5> QED BY <4>2, <5>1, Pair
      <4> QED BY <3>1, <4>2, <4>3 DEF NoResize
    <3>3. CASE w.is \notin {"create", "edit"}
      BY <1>1, <2>5, <3>1, <3>3 DEF NoResize
    <3> QED BY <3>2, <3>3
  <2>8. Answers(partman, request, answer)'
    <3>1. CASE w.is = "undo"
      BY <1>1, <2>1, <2>2, <2>6, <3>1 DEF Answers, Is
    <3>2. CASE w.is = "label"
      BY <1>1, <2>1, <2>2, <2>4, <2>6, <3>2 DEF Answers
    <3>3. CASE w.is \in {"create", "edit", "delete"}
      BY <1>1, <2>1, <2>2, <2>4, <2>6, <3>3 DEF Answers
    <3> QED BY <2>4, <3>1, <3>2, <3>3
  <2>9. request' \in Requests
    BY <2>1, <2>4
  <2> QED BY <2>2, <2>3, <2>6, <2>7, <2>8, <2>9, WaitingGivesAnswer
<1>4. CASE NextAdvanced \/ BackAdvanced
  <2>1. /\ UNCHANGED <<partman, complete, frozen, view, failure, build, auto, request>>
        /\ turn' = "partman" /\ (answer' = Is("finish") \/ answer' = Is("back"))
    <3>1. CASE NextAdvanced
      BY <1>1, <3>1 DEF NextAdvanced, ReplyFromMenu, Reply
    <3>2. CASE BackAdvanced
      BY <3>2 DEF BackAdvanced, Reply
    <3> QED BY <1>4, <3>1, <3>2
  <2>2. Answers(partman, request, answer)'
    BY <1>1, <2>1 DEF Answers, Is
  <2>3. request \in Requests
    BY DEF TypeInv
  <2> QED BY <1>1, <2>1, <2>2, <2>3, WaitingJustAnswers
<1> QED BY <1>2, <1>3, <1>4

-----------------------------------------------------------------------------
(* The theorems *)

(* The page as it is opened *)
Fresh ==
  /\ partman \in Starts /\ turn = "partman" /\ complete = TRUE /\ frozen = {}
  /\ build = BuildInit /\ auto = AutoInit /\ request = NoRequest
  /\ view \in {"ask", "auto", "crypto", "advanced"} /\ failure = "none"

LEMMA AtFirst ==
  Fresh => OnCourse
<1> SUFFICES ASSUME Fresh PROVE OnCourse
  OBVIOUS
<1>1. /\ partman \in [q : Questions, on : Ons, parts : SUBSET Partitions, autoDone : BOOLEAN]
      /\ partman.q = "init" /\ partman.parts = Initial
      /\ IsTable(partman.parts)
  <2>1. IsTable(Initial) /\ Initial \subseteq Partitions
    BY PartmanAssumption DEF IsTable
  <2>2. CASE partman = Start
    <3>1. partman = [q |-> "init", on |-> Nothing, parts |-> Initial, autoDone |-> FALSE]
      BY <2>2 DEF Start, Nothing
    <3> QED BY <2>1, <3>1, QuestionNames
  <2>3. CASE partman = [Start EXCEPT !.autoDone = TRUE]
    <3>1. partman = [q |-> "init", on |-> Nothing, parts |-> Initial, autoDone |-> TRUE]
      BY <2>3 DEF Start, Nothing
    <3> QED BY <2>1, <3>1, QuestionNames
  <2> QED BY <2>2, <2>3 DEF Fresh, Starts
<1>2. IsBuild(build) /\ build.on /\ build.menus = <<Bottom>> /\ build.updates = NoList /\ ~build.progress
  <2>1. <<>> \in Seq({"method", "mountpoint", "resize"}) /\ <<>> \in Seq(Slots)
    OBVIOUS
  <2>2. Bottom \in Menus /\ <<Bottom>> \in Seq(Menus)
    BY <2>1 DEF Bottom, Menus, Ons, Nothing
  <2>3. IsCache([s \in {} |-> 0])
    BY DEF IsCache
  <2> QED BY <2>1, <2>2, <2>3 DEF Fresh, BuildInit, IsBuild
<1>3. auto \in AutoType /\ ~auto.crypto
  BY DEF Fresh, AutoInit, AutoType, Words
<1>4. TypeInv
  BY <1>1, <1>2, <1>3 DEF Fresh, TypeInv, AutoType, Requests
<1>5. InAuto
  BY <1>1 DEF InAuto
<1>6. Choosing
  BY <1>1, <1>2, <1>3, <1>5 DEF Fresh, Choosing
<1> QED BY <1>4, <1>6 DEF Fresh, OnCourse

LEMMA AtFirstAgain ==
  Fresh' => OnCourse'
<1>1. Fresh => OnCourse
  BY AtFirst
<1> QED BY <1>1, PTL

(* What holds of the page even after it was turned away. *)
Basics ==
  /\ frozen \subseteq {"choose", "active"} /\ view \in {"ask", "auto", "crypto", "advanced"}
  /\ failure # "none" => turn = "over"

LEMMA BasicsStayFrozen ==
  ASSUME frozen \subseteq {"choose", "active"}, [Next]_pageVars
  PROVE  frozen' \subseteq {"choose", "active"}
<1>1. CASE PageAnswers
  <2>1. CASE \/ WalkOn \/ ShowAsk \/ WalkSelectDisk \/ WalkNewSize \/ AnswerSelectDisk
             \/ AnswerAutoSize \/ AnswerPassphrase \/ OnCryptoMenu \/ OnConfirm
    BY <2>1 DEF WalkOn, ShowAsk, WalkSelectDisk, WalkNewSize, Collect, AnswerSelectDisk,
                AnswerAutoSize, AnswerPassphrase, OnCryptoMenu, OnConfirm
  <2>2. CASE StartReading
    BY <2>2 DEF StartReading
  <2>3. CASE ReadOn \/ NothingRead
    BY <2>3 DEF ReadOn, NothingRead
  <2>4. CASE \/ OnNewLabel \/ OnFreeSpace \/ OnNewPartitionSize \/ OnChooseMethod
             \/ OnMountpoint \/ OnConfirmResize \/ OnNewSize
    BY <2>4 DEF OnNewLabel, OnFreeSpace, OnNewPartitionSize, OnChooseMethod, OnMountpoint,
                OnConfirmResize, OnNewSize, Unexpected, AsBefore
  <2>5. CASE ReadPartition
    BY <2>5 DEF ReadPartition, MaybeThaw
  <2>6. CASE DoRequest \/ DoDelete
    BY <2>6 DEF DoRequest, DoDelete, Unexpected
  <2> QED BY <1>1, <2>1, <2>2, <2>3, <2>4, <2>5, <2>6 DEF PageAnswers
<1>2. CASE UserMoves
  BY <1>2 DEF UserMoves, NextAuto, BackAuto, SameElse, UserWants, NextAdvanced, BackAdvanced
<1>3. CASE PartmanMoves \/ PartmanDies \/ Prepare \/ UNCHANGED pageVars
  BY <1>3 DEF PartmanMoves, PartmanDies, Prepare, pageVars
<1> QED BY <1>1, <1>2, <1>3 DEF Next, Ended

LEMMA BasicsStayInView ==
  ASSUME view \in {"ask", "auto", "crypto", "advanced"}, [Next]_pageVars
  PROVE  view' \in {"ask", "auto", "crypto", "advanced"}
<1>1. CASE PageAnswers
  <2>1. CASE \/ WalkOn \/ ShowAsk \/ WalkSelectDisk \/ WalkNewSize \/ AnswerSelectDisk
             \/ AnswerAutoSize \/ AnswerPassphrase \/ OnCryptoMenu \/ OnConfirm
    BY <2>1 DEF WalkOn, ShowAsk, WalkSelectDisk, WalkNewSize, Collect, AnswerSelectDisk,
                AnswerAutoSize, AnswerPassphrase, OnCryptoMenu, OnConfirm
  <2>2. CASE StartReading \/ ReadOn \/ NothingRead
    BY <2>2 DEF StartReading, ReadOn, NothingRead, Show
  <2>3. CASE \/ OnNewLabel \/ OnFreeSpace \/ OnNewPartitionSize \/ OnChooseMethod
             \/ OnMountpoint \/ OnConfirmResize \/ OnNewSize \/ ReadPartition
             \/ DoRequest \/ DoDelete
    BY <2>3 DEF OnNewLabel, OnFreeSpace, OnNewPartitionSize, OnChooseMethod, OnMountpoint,
                OnConfirmResize, OnNewSize, ReadPartition, DoRequest, DoDelete, Handles
  <2> QED BY <1>1, <2>1, <2>2, <2>3 DEF PageAnswers
<1>2. CASE UserMoves
  BY <1>2 DEF UserMoves, NextAuto, BackAuto, UserWants, NextAdvanced, BackAdvanced
<1>3. CASE PartmanMoves \/ PartmanDies \/ Prepare \/ UNCHANGED pageVars
  BY <1>3 DEF PartmanMoves, PartmanDies, Prepare, Afresh, pageVars
<1> QED BY <1>1, <1>2, <1>3 DEF Next, Ended

LEMMA CarryKeeps ==
  ASSUME NEW w \in Wanted, Carry(w)
  PROVE  UNCHANGED failure \/ turn' = "over"
<1>1. w.is \in {"undo", "label", "delete", "create", "edit"}
  BY DEF Wanted
<1>2. CASE w.is = "undo"
  BY <1>2 DEF Carry, ReplyFromMenu, Raise
<1>3. CASE w.is # "undo"
  BY <1>1, <1>3 DEF Carry
<1> QED BY <1>2, <1>3

(* Who raises an exception ends the page. *)
LEMMA BasicsStayOver ==
  ASSUME failure # "none" => turn = "over", [Next]_pageVars
  PROVE  failure' # "none" => turn' = "over"
<1>1. CASE PageAnswers
  <2>1. turn = "page"
    BY <1>1
       DEF PageAnswers, WalkOn, ShowAsk, WalkSelectDisk, WalkNewSize, AnswerSelectDisk,
           AnswerAutoSize, AnswerPassphrase, StartReading, ReadOn, NothingRead, OnNewLabel,
           OnFreeSpace, OnNewPartitionSize, ReadPartition, DoRequest, DoDelete, OnChooseMethod,
           OnMountpoint, OnConfirmResize, OnNewSize, OnCryptoMenu, OnConfirm, AtChoose, Handles, Asked
  <2>2. failure = "none"
    BY <2>1
  <2>3. UNCHANGED failure \/ turn' = "over"
    <3>1. CASE \/ WalkOn \/ ShowAsk \/ WalkSelectDisk \/ WalkNewSize \/ AnswerSelectDisk
               \/ AnswerAutoSize \/ AnswerPassphrase \/ OnConfirm
      BY <3>1 DEF WalkOn, ShowAsk, WalkSelectDisk, WalkNewSize, Collect, AnswerSelectDisk,
                  AnswerAutoSize, AnswerPassphrase, OnConfirm
    <3>2. CASE StartReading \/ ReadOn \/ NothingRead
      BY <3>2 DEF StartReading, ReadOn, NothingRead, Show, ReplyFromMenu, Raise
    <3>3. CASE \/ OnNewLabel \/ OnFreeSpace \/ OnNewPartitionSize \/ OnChooseMethod
               \/ OnMountpoint \/ OnConfirmResize \/ OnNewSize
      BY <3>3 DEF OnNewLabel, OnFreeSpace, OnNewPartitionSize, OnChooseMethod, OnMountpoint,
                  OnConfirmResize, OnNewSize, Unexpected, AsBefore, ReplyFromMenu, Raise
    <3>4. CASE ReadPartition \/ DoRequest \/ DoDelete \/ OnCryptoMenu
      BY <3>4 DEF ReadPartition, DoRequest, DoDelete, OnCryptoMenu, Unexpected, ReplyFromMenu, Raise
    <3> QED BY <1>1, <3>1, <3>2, <3>3, <3>4 DEF PageAnswers
  <2> QED BY <2>2, <2>3
<1>2. CASE UserMoves
  <2>1. turn = "user"
    BY <1>2 DEF UserMoves, NextAuto, BackAuto, UserWants, NextAdvanced, BackAdvanced, AtAsk, AtAdvanced
  <2>2. UNCHANGED failure \/ turn' = "over"
    <3>1. CASE NextAuto \/ BackAuto
      BY <3>1 DEF NextAuto, BackAuto, SameElse
    <3>2. CASE UserWants
      <4>1. PICK w \in Wanted : Carry(w)
        BY <3>2 DEF UserWants
      <4> QED BY <3>2, <4>1, CarryKeeps
    <3>3. CASE NextAdvanced \/ BackAdvanced
      BY <3>3 DEF NextAdvanced, BackAdvanced, ReplyFromMenu, Raise
    <3> QED BY <1>2, <3>1, <3>2, <3>3 DEF UserMoves
  <2> QED BY <2>1, <2>2
<1>3. CASE PartmanMoves \/ PartmanDies
  BY <1>3 DEF PartmanMoves, PartmanDies
<1>4. CASE Prepare
  BY <1>4 DEF Prepare, Afresh
<1>5. CASE UNCHANGED pageVars
  BY <1>5 DEF pageVars
<1> QED BY <1>1, <1>2, <1>3, <1>4, <1>5 DEF Next, Ended

(* partman dies, *)
LEMMA Dies ==
  ASSUME Basics, PartmanDies
  PROVE  OnCourse'
<1>1. /\ turn' = "over" /\ partman' = [Start EXCEPT !.q = "died"] /\ complete' = TRUE
      /\ build' = BuildInit /\ auto' = AutoInit /\ request' = NoRequest
      /\ UNCHANGED <<frozen, view, failure>>
  BY DEF PartmanDies
<1>2. /\ partman' \in [q : Questions, on : Ons, parts : SUBSET Partitions, autoDone : BOOLEAN]
      /\ partman'.q = "died" /\ partman'.parts = Initial
      /\ IsTable(partman'.parts)
  <2>1. IsTable(Initial) /\ Initial \subseteq Partitions
    BY PartmanAssumption DEF IsTable
  <2> QED BY <1>1, <2>1 DEF Start, Nothing, Questions, Ons
<1>3. IsBuild(build')
  <2>1. <<>> \in Seq({"method", "mountpoint", "resize"}) /\ <<>> \in Seq(Slots)
    OBVIOUS
  <2>2. Bottom \in Menus /\ <<Bottom>> \in Seq(Menus)
    BY <2>1 DEF Bottom, Menus, Ons, Nothing
  <2>3. IsCache([s \in {} |-> 0])
    BY DEF IsCache
  <2> QED BY <1>1, <2>1, <2>2, <2>3 DEF BuildInit, IsBuild
<1>4. auto' \in AutoType
  BY <1>1 DEF AutoInit, AutoType, Words
<1>5. TypeInv'
  BY <1>1, <1>2, <1>3, <1>4 DEF Basics, TypeInv, AutoType, Requests
<1>6. turn = "partman"
  BY DEF PartmanDies
<1> QED BY <1>1, <1>2, <1>5, <1>6 DEF Basics, OnCourse

(* and the page is entered again. *)
LEMMA EnteredAgain ==
  ASSUME Basics, Prepare
  PROVE  OnCourse'
<1>1. view \in {"ask", "auto", "crypto", "advanced"}
  BY DEF Basics
<1>2. Fresh'
  BY <1>1 DEF Prepare, Afresh, Fresh
<1> QED BY <1>2, AtFirstAgain

(* The page stays on course until it is turned away. *)
Steady == Basics /\ (~turnedAway => OnCourse)

LEMMA StaysOnCourse ==
  ASSUME OnCourse, [Next]_pageVars, ~turnedAway'
  PROVE  OnCourse'
<1>1. TypeInv /\ failure = "none" /\ (turn # "over" => Choosing \/ Reading \/ Waiting)
  BY DEF OnCourse
<1>2. CASE PartmanMoves
  BY <1>2, PartmanStep
<1>3. CASE PartmanDies
  BY <1>1, <1>3, Dies DEF Basics, TypeInv
<1>4. CASE PageAnswers
  <2>1. turn = "page"
    BY <1>4
       DEF PageAnswers, WalkOn, ShowAsk, WalkSelectDisk, WalkNewSize, AnswerSelectDisk,
           AnswerAutoSize, AnswerPassphrase, StartReading, ReadOn, NothingRead, OnNewLabel,
           OnFreeSpace, OnNewPartitionSize, ReadPartition, DoRequest, DoDelete, OnChooseMethod,
           OnMountpoint, OnConfirmResize, OnNewSize, OnCryptoMenu, OnConfirm, AtChoose, Handles, Asked
  <2> QED BY <1>1, <1>4, <2>1, ChoosingAnswers, ReadingAnswers, WaitingAnswers
<1>5. CASE UserMoves
  <2>1. turn = "user"
    BY <1>5 DEF UserMoves, NextAuto, BackAuto, UserWants, NextAdvanced, BackAdvanced, AtAsk, AtAdvanced
  <2>2. ~Reading
    BY <2>1 DEF Reading
  <2> QED BY <1>1, <1>5, <2>1, <2>2, UserChooses, UserActs
<1>6. CASE Prepare
  BY <1>1, <1>6, EnteredAgain DEF Basics, TypeInv
<1>7. CASE UNCHANGED pageVars
  <2>1. UNCHANGED <<turn, partman, answer, complete, frozen, build, auto, request, view, failure>>
    BY <1>7 DEF pageVars
  <2>2. TypeInv'
    BY <1>1, <2>1 DEF TypeInv
  <2>3. Choosing => Choosing'
    BY <2>1 DEF Choosing, InAuto
  <2>4. Reading => Reading'
    BY <2>1 DEF Reading, Opened, Unread, Cached
  <2>5. Waiting => Waiting'
    BY <2>1 DEF Waiting, Doing, Asks, Answers
  <2> QED BY <2>1, <2>2, <2>3, <2>4, <2>5 DEF OnCourse
<1> QED BY <1>2, <1>3, <1>4, <1>5, <1>6, <1>7 DEF Next, Ended

LEMMA StaysSteady ==
  Steady /\ [Next]_pageVars => Steady'
<1> SUFFICES ASSUME Steady, [Next]_pageVars PROVE Steady'
  OBVIOUS
<1>1. Basics'
  BY BasicsStayFrozen, BasicsStayInView, BasicsStayOver DEF Steady, Basics
<1>2. ASSUME ~turnedAway' PROVE OnCourse'
  <2>1. CASE ~turnedAway
    BY <1>2, <2>1, StaysOnCourse DEF Steady
  <2>2. CASE PartmanDies
    BY <2>2, Dies DEF Steady
  <2>3. CASE Prepare
    BY <2>3, EnteredAgain DEF Steady
  <2>4. CASE turnedAway /\ ~PartmanDies /\ ~Prepare
    <3>1. turnedAway'
      <4>1. PartmanMoves \/ UNCHANGED turnedAway
        BY <2>4 DEF Next, Ended, pageVars
      <4> QED BY <2>4, <4>1 DEF PartmanMoves
    <3> QED BY <1>2, <3>1
  <2> QED BY <2>1, <2>2, <2>3, <2>4
<1> QED BY <1>1, <1>2 DEF Steady

(* The page stays on course until partman turns it away from a partition   *)
(* of a device in use: it is choosing automatically, reading the table or  *)
(* waiting for what was requested, and in each partman asks what the page  *)
(* expects.                                                                *)
THEOREM PageOnCourse ==
  Spec => [](~turnedAway => OnCourse)
<1>1. Init => Steady
  <2>1. Init => Fresh /\ Basics
    BY DEF Init, Fresh, Basics
  <2> QED BY <2>1, AtFirst DEF Steady
<1>2. Steady => (~turnedAway => OnCourse)
  BY DEF Steady
<1> QED BY <1>1, <1>2, StaysSteady, PTL DEF Spec

(* ubi-partman.py raises no AssertionError and no PartmanOptionError: no   *)
(* handler is asked for what it does not expect, whatever the order of     *)
(* partman's questions, refusals and deaths, until partman turns the page  *)
(* away from a partition of a device in use.                               *)
THEOREM HandlersAreExpected ==
  Spec => []NoSurprise
<1>1. (~turnedAway => OnCourse) => NoSurprise
  BY DEF OnCourse, NoSurprise
<1> QED BY <1>1, PageOnCourse, PTL

(* Whenever the user chooses on the advanced page, the page's cache is     *)
(* partman's table, until partman turns the page away.                     *)
THEOREM CacheIsTable ==
  Spec => []PageShowsTable
<1>1. (~turnedAway => OnCourse) => PageShowsTable
  <2> SUFFICES ASSUME OnCourse, turn = "user", partman.q = "choose"
               PROVE  /\ build.order = Entries(partman.parts) /\ Range(build.order) \subseteq Cached
                      /\ \A s \in Range(build.order) : build.cache[s].num = NumberOf(partman.parts, s)
                      /\ \A p \in partman.parts :
                           InUse(p.slot) \/
                             build.cache[p.slot] = [num |-> p.num, method |-> p.method, mount |-> p.mount]
    BY DEF PageShowsTable
  <2>1. ~Choosing /\ ~Reading
    BY DEF Choosing, Reading
  <2>2. /\ build.updates = NoList /\ Known(partman.parts, build) /\ ToldIn(build) = {}
        /\ IsTable(partman.parts) /\ IsBuild(build)
    BY <2>1 DEF OnCourse, Waiting, Doing, ToldIn, TypeInv
  <2>3. build.order = Entries(partman.parts) /\ \A s \in Rows(partman.parts) : FreshIn(partman.parts, build.cache, s)
    BY <2>2 DEF Known
  <2>4. Range(Entries(partman.parts)) = Rows(partman.parts)
    BY <2>2, EntriesListed
  <2>5. ASSUME NEW p \in partman.parts, ~InUse(p.slot)
        PROVE  build.cache[p.slot] = [num |-> p.num, method |-> p.method, mount |-> p.mount]
    <3>1. p.slot \in Rows(partman.parts) /\ NumberOf(partman.parts, p.slot) = p.num
      BY <2>2, Numbered
    <3>2. /\ p.slot \in DOMAIN build.cache /\ build.cache[p.slot].num = p.num
          /\ build.cache[p.slot].method = p.method /\ build.cache[p.slot].mount = p.mount
      BY <2>3, <2>5, <3>1 DEF FreshIn
    <3>3. build.cache[p.slot] \in Info
      BY <2>2, <3>2 DEF IsBuild, IsCache
    <3> QED BY <3>2, <3>3 DEF Info
  <2> QED BY <2>3, <2>4, <2>5 DEF FreshIn, Cached
<1> QED BY <1>1, PageOnCourse, PTL

(* Until partman turns the page away: when it is the user's turn nothing   *)
(* is frozen, read or left over.                                           *)
THEOREM PageAtRest ==
  Spec => [](~turnedAway => AtRest)
<1>1. (~turnedAway => OnCourse) => (~turnedAway => AtRest)
  <2> SUFFICES ASSUME OnCourse, turn = "user"
               PROVE  /\ frozen = {} /\ complete /\ ~build.progress /\ build.menus = <<Bottom>>
                      /\ build.updates \in {NoList, <<>>} /\ request = NoRequest
                      /\ (partman.q = "choose") = (view = "advanced")
    BY DEF AtRest
  <2>1. Choosing \/ Waiting
    BY DEF OnCourse, Reading
  <2>2. CASE Choosing
    BY <2>2 DEF Choosing
  <2>3. CASE Waiting
    BY <2>3 DEF Waiting, Doing
  <2> QED BY <2>1, <2>2, <2>3
<1> QED BY <1>1, PageOnCourse, PTL

(* Until partman turns the page away: what partman says while the cache is *)
(* read is of the row the page has open.                                   *)
THEOREM RightRowRead ==
  Spec => [](~turnedAway => InStep)
<1>1. (~turnedAway => OnCourse) => (~turnedAway => InStep)
  <2> SUFFICES ASSUME OnCourse, turn = "page", build.on, partman.on # Nothing,
                      partman.q \in {"active", "confirm_resize", "new_size"}
               PROVE  Len(build.menus) > 1 /\ partman.on = Top.on
    BY DEF InStep
  <2>1. ~Choosing /\ ~Waiting
    BY DEF Choosing, InAuto, Waiting
  <2>2. Reading
    BY <2>1 DEF OnCourse
  <2>3. /\ partman.on = Opened /\ Len(build.menus) \in {2, 3}
        /\ Len(build.menus) = 3 => build.menus[3].on = Opened
    BY <2>2 DEF Reading
  <2>4. Opened = build.menus[2].on
    BY DEF Opened
  <2> QED BY <2>3, <2>4 DEF Top, Last
<1> QED BY <1>1, PageOnCourse, PTL

(* Until partman turns the page away: whenever automatic partitioning is   *)
(* offered nothing of an earlier choice is left in the table.              *)
THEOREM OfferedFromScratch ==
  Spec => [](~turnedAway => AskedFromScratch)
<1>1. (~turnedAway => OnCourse) => (~turnedAway => AskedFromScratch)
  <2> SUFFICES ASSUME OnCourse, turn = "user", partman.q = "auto"
               PROVE  partman.parts = Initial /\ "manual" \in auto.extra
    BY DEF AskedFromScratch
  <2>1. ~Reading /\ ~Waiting
    BY DEF Reading, Waiting, Doing
  <2> QED BY <2>1 DEF OnCourse, Choosing, InAuto
<1> QED BY <1>1, PageOnCourse, PTL

-----------------------------------------------------------------------------
(* What is requested is carried out (RequestCarriedOut).  Of the items     *)
(* active_partition was to go through those still to do are kept in order  *)
(* in the open menu, the one in hand is partman's question, and what is    *)
(* not among them has been done.  Once the table is read again, all is.    *)
Kept == {"create", "edit", "undo"}

ToResize(w) == w.is = "edit" /\ w.size # 0
MethodDone(w, d) ==
  w.method # "same" => d.method = w.method /\ (~Mountable(w.method) => d.mount = "")
MountDone(w, d) ==
  w.mount # "same" =>
    /\ Mountable(d.method) => d.mount = w.mount
    /\ ~Mountable(d.method) /\ w.is = "create" => d.mount = ""
AllSet(w, d) == MethodDone(w, d) /\ MountDone(w, d)

(* S is what is left of the items: in order; all of it; or so that what is *)
(* not in it is done in the partition's record d.                          *)
Ordered(w, S) ==
  /\ ToResize(w) => "resize" \in S
  /\ "method" \in S /\ w.mount # "same" => "mountpoint" \in S
AllLeft(w, S) ==
  /\ Ordered(w, S)
  /\ w.method # "same" => "method" \in S
  /\ w.mount # "same" => "mountpoint" \in S
SetSoFar(w, S, d) ==
  /\ Ordered(w, S)
  /\ "method" \in S \/ MethodDone(w, d)
  /\ "mountpoint" \in S \/ MountDone(w, d)

(* The item in hand is the method, or the mount point. *)
MethodNext(w, S) ==
  /\ Ordered(w, S) /\ "method" \notin S
  /\ w.mount # "same" => "mountpoint" \in S
MountNext(w, S, d) ==
  Ordered(w, S) /\ "method" \notin S /\ MethodDone(w, d) /\ Mountable(d.method)

OfPartition == {"active", "choose_method", "mountpoint", "mountpoint_manual", "confirm_resize", "new_size"}
ItsSlot(w, s) ==
  /\ w.is = "create" => s = NewSlot(w.on, w.size, w.place)
  /\ w.is = "edit" => s[1] = w.on[1]

(* What the page is asked, and what it has answered. *)
AskedInOrder(p, w, S) ==
  LET d == At(p.parts, p.on)
  IN  /\ p.q = "choose" => CarriedOut(p.parts, w)
      /\ p.q \in {"free_space", "new_partition_size"} => AllLeft(w, S)
      /\ p.q \in OfPartition => ItsSlot(w, p.on)
      /\ p.q = "active" => SetSoFar(w, S, d)
      /\ p.q = "choose_method" => MethodNext(w, S)
      /\ p.q \in {"mountpoint", "mountpoint_manual"} => MountNext(w, S, d)
      /\ p.q \in {"confirm_resize", "new_size"} => AllSet(w, d)
AnsweredInOrder(p, w, a, S) ==
  LET d == At(p.parts, p.on)
  IN  /\ p.q = "choose" => w.is = "undo" \/ AllLeft(w, S)
      /\ p.q = "free_space" => AllLeft(w, S) /\ a.is = "new"
      /\ p.q = "new_partition_size" => AllLeft(w, S) /\ a.is # "back"
      /\ p.q \in OfPartition => ItsSlot(w, p.on)
      /\ p.q = "active" =>
           /\ a.is = "method" => MethodNext(w, S)
           /\ a.is = "mountpoint" => MountNext(w, S, d)
           /\ a.is = "resize" => AllSet(w, d)
           /\ a.is = "finish" => AllSet(w, d) /\ ~ToResize(w)
      /\ p.q = "choose_method" => MethodNext(w, S) /\ a.method = w.method
      /\ p.q \in {"mountpoint", "mountpoint_manual"} =>
           MountNext(w, S, d) /\ a.is # "back" /\ a.mount = w.mount
      /\ p.q = "confirm_resize" => AllSet(w, d) /\ a.is = "true"
      /\ p.q = "new_size" => AllSet(w, d) /\ a.is # "back"

(* The list of a menu that is open: the method first, the size last. *)
InTurn(todo) ==
  \A m, n \in DOMAIN todo : m < n => todo[n] # "method" /\ todo[m] # "resize"
LeftIn(menus, w) ==
  Range(IF Last(menus).q = "active" THEN Last(menus).todo ELSE ItemsOf(w))
UnderWay ==
  IF build.on THEN CarriedOut(partman.parts, request)
  ELSE /\ request.bad = {} /\ \A i \in DOMAIN build.menus : InTurn(build.menus[i].todo)
       /\ request.is = "create" => request.method # "same" /\ request.mount # "same"
       /\ turn = "page" => AskedInOrder(partman, request, LeftIn(build.menus, request))
       /\ turn = "partman" => AnsweredInOrder(partman, request, answer, LeftIn(build.menus, request))
InHand ==
  turn \in {"partman", "page"} /\ request.is \in Kept /\ ~refused => UnderWay

(* Where the pieces of an outcome leave the request *)
LEMMA ErrorShown ==
  ASSUME NEW s, NEW q, NEW on, NEW e
  PROVE  /\ After(e, To(s, q, on)).error = e
         /\ \A news : After(e, Telling(To(s, q, on), news)).error = e
BY DEF To, After, Telling

(* The request as it is noted *)
LEMMA NotedKeeps ==
  ASSUME request \in Requests, NEW error, NEW parts
  PROVE  /\ CarriedOut(parts, request) => CarriedOut(parts, Noted(error))
         /\ error = "none" => Noted(error) = request
<1> DEFINE noted(what) == [request EXCEPT !.bad = @ \cup {what}]
<1>1. \/ Noted(error) = request
      \/ /\ request.is \in {"create", "edit"}
         /\ \E what \in {"size", "mountpoint"} : Noted(error) = noted(what)
  BY DEF Noted, BadSizes
<1>2. error = "none" => Noted(error) = request
  BY DEF Noted, BadSizes
<1>3. request.is \in {"create", "edit"} => request \in Creations \cup Edits
  BY DEF Requests, NoRequest
<1>4. ASSUME NEW what \in {"size", "mountpoint"}, request \in Creations
      PROVE  /\ noted(what).is = "create" /\ request.is = "create" /\ noted(what).on = request.on
             /\ noted(what).size = request.size /\ noted(what).place = request.place
             /\ noted(what).method = request.method /\ noted(what).mount = request.mount
  BY <1>4 DEF Creations
<1>5. ASSUME NEW what \in {"size", "mountpoint"}, request \in Edits
      PROVE  /\ noted(what).is = "edit" /\ request.is = "edit" /\ noted(what).on = request.on
             /\ noted(what).size = request.size
             /\ noted(what).method = request.method /\ noted(what).mount = request.mount
  BY <1>5 DEF Edits
<1>6. ASSUME NEW what \in {"size", "mountpoint"}, request.is \in {"create", "edit"},
             CarriedOut(parts, request)
      PROVE  CarriedOut(parts, noted(what))
  <2> HIDE DEF noted
  <2>1. CASE request \in Creations
    BY <1>4, <1>6, <2>1 DEF CarriedOut
  <2>2. CASE request \in Edits
    BY <1>5, <1>6, <2>2 DEF CarriedOut
  <2> QED BY <1>3, <1>6, <2>1, <2>2
<1> HIDE DEF noted
<1> QED BY <1>1, <1>2, <1>6

(* When the items are set the request is carried out. *)
LEMMA SetIsDone ==
  ASSUME NEW parts, NEW w, NEW d \in parts, AllSet(w, d), ItsSlot(w, d.slot), ~ToResize(w),
         w.is \in {"create", "edit"}, w.is = "create" => w.method # "same" /\ w.mount # "same"
  PROVE  CarriedOut(parts, w)
<1>1. CASE w.is = "create"
  <2>1. d.slot = NewSlot(w.on, w.size, w.place) /\ d.method = w.method
    BY <1>1 DEF AllSet, MethodDone, ItsSlot
  <2>2. d.mount = (IF Mountable(w.method) THEN w.mount ELSE "")
    BY <1>1, <2>1 DEF AllSet, MountDone
  <2> QED BY <1>1, <2>1, <2>2 DEF CarriedOut
<1>2. CASE w.is = "edit"
  <2>1. d.slot[1] = w.on[1] /\ w.size = 0
    BY <1>2 DEF ItsSlot, ToResize
  <2>2. (w.method # "same" => d.method = w.method) /\ (w.mount # "same" /\ Mountable(d.method) => d.mount = w.mount)
    BY <1>2 DEF AllSet, MethodDone, MountDone
  <2> QED BY <1>2, <2>1, <2>2 DEF CarriedOut
<1> QED BY <1>1, <1>2

(* A partition that is resized has the size asked for. *)
LEMMA ResizedIsDone ==
  ASSUME NEW parts, IsTable(parts), NEW p \in parts, NEW w, w.is = "edit", w.size \in Nat,
         AllSet(w, p), ItsSlot(w, p.slot), Fits(parts, p, w.size)
  PROVE  CarriedOut(WithResized(parts, p, w.size), w)
<1> DEFINE slot == <<p.slot[1], p.slot[1] + w.size - 1>>
           q == [p EXCEPT !.slot = slot]
<1>1. p \in Partitions /\ p.slot \in Slots /\ slot \in Slots
  BY Numbered DEF IsTable, Fits
<1>2. q.slot = slot /\ q.method = p.method /\ q.mount = p.mount
  BY <1>1 DEF Partitions
<1>3. q \in WithResized(parts, p, w.size)
  BY DEF WithResized
<1>4. Cardinality(Places(slot)) = w.size
  <2>1. PICK i, j : i = p.slot[1] /\ j = p.slot[1] + w.size - 1
    OBVIOUS
  <2>2. i \in Int /\ j \in Int /\ j = i + w.size - 1 /\ Places(slot) = i .. j
    BY <1>1, <2>1, SlotPlaces DEF Places
  <2>3. Cardinality(i .. j) = IF i > j THEN 0 ELSE j - i + 1
    BY <2>2, FS_Interval
  <2> QED BY <2>2, <2>3
<1>5. slot[1] = p.slot[1]
  OBVIOUS
<1> HIDE DEF slot, q
<1>6. q.slot[1] = w.on[1]
  BY <1>2, <1>5 DEF ItsSlot
<1>7. (w.method # "same" => q.method = w.method) /\ (w.mount # "same" /\ Mountable(q.method) => q.mount = w.mount)
  BY <1>2 DEF AllSet, MethodDone, MountDone
<1> QED BY <1>2, <1>3, <1>4, <1>6, <1>7 DEF CarriedOut

(* Setting the method, and the mount point, of a partition *)
LEMMA MethodIsSet ==
  ASSUME NEW w, NEW S, MethodNext(w, S), NEW d, d.method = w.method,
         ~Mountable(w.method) => d.mount = ""
  PROVE  SetSoFar(w, S, d)
BY DEF MethodNext, SetSoFar, MethodDone, MountDone

LEMMA MountIsSet ==
  ASSUME NEW w, NEW S, NEW p, MountNext(w, S, p), NEW d, d.method = p.method, d.mount = w.mount
  PROVE  SetSoFar(w, S, d)
BY DEF MountNext, SetSoFar, MethodDone, MountDone

LEMMA NothingSetYet ==
  ASSUME NEW w, NEW S, AllLeft(w, S), NEW d
  PROVE  SetSoFar(w, S, d)
BY DEF AllLeft, SetSoFar, MethodDone, MountDone

(* partman's question, put by its parts *)
LEMMA AskedIs ==
  ASSUME NEW q, NEW on, NEW parts
  PROVE  /\ Asking(q, on, parts).q = q /\ Asking(q, on, parts).on = on
         /\ Asking(q, on, parts).parts = parts
BY DEF Asking

(* choose_partition *)
LEMMA ChosenInOrder ==
  ASSUME TypeInv, partman.autoDone, request.is \in Kept, partman.q = "choose",
         Answers(partman, request, answer), NEW S, AnsweredInOrder(partman, request, answer, S),
         NEW o \in Outcomes(partman, answer), o.error = "none"
  PROVE  AskedInOrder(o.partman, request, S)
<1> DEFINE P == partman.parts
<1>1. o \in Choose(partman, answer)
  BY DEF Outcomes
<1>2. /\ \/ answer.is = "undo" /\ request.is = "undo"
         \/ answer.is = "partition" /\ answer.on = request.on /\ WantsRow(P, request)
      /\ request.is = "undo" \/ AllLeft(request, S)
  BY DEF Answers, AnsweredInOrder, Kept, NoRequest
<1>3. CASE answer.is = "undo" /\ request.is = "undo"
  <2>1. o = Telling(To(Updated(partman, Initial), "choose", Nothing), <<ALL>>)
    BY <1>1, <1>3 DEF Choose
  <2>2. o.partman = Asking("choose", Nothing, Initial)
    BY <2>1, Outcome
  <2>3. CarriedOut(Initial, request)
    BY <1>3 DEF CarriedOut
  <2> QED BY <2>2, <2>3, AskedIs DEF AskedInOrder, OfPartition
<1>4. CASE answer.is = "partition" /\ answer.on = request.on /\ WantsRow(P, request)
  <2>1. o \in OpenPartition(partman, answer.on)
    BY <1>1, <1>4 DEF Choose
  <2>2. ~InUse(answer.on)
    <3> SUFFICES ASSUME InUse(answer.on)
                 PROVE  FALSE
      OBVIOUS
    <3>1. o = After("locked", To(partman, "choose", Nothing))
      BY <2>1 DEF OpenPartition
    <3>2. o.error = "locked"
      BY <3>1, ErrorShown
    <3> QED BY <3>2
  <2>3. AllLeft(request, S)
    BY <1>2, <1>4 DEF WantsRow
  <2>4. CASE request.is = "create"
    <3>1. answer.on \in FreeSlots(P)
      BY <1>4, <2>4 DEF WantsRow
    <3>2. o = To(partman, "free_space", answer.on)
      BY <2>1, <2>2, <3>1 DEF OpenPartition
    <3>3. o.partman = Asking("free_space", answer.on, P)
      BY <3>2, Outcome
    <3> QED BY <2>3, <3>3, AskedIs DEF AskedInOrder, OfPartition
  <2>5. CASE request.is # "create"
    <3>1. request.is = "edit" /\ IsPart(P, answer.on)
      BY <1>4, <2>5 DEF WantsRow, Kept
    <3>2. answer.on \notin FreeSlots(P)
      BY <3>1, Numbered DEF IsPart, TypeInv
    <3>3. o = To(partman, "active", answer.on)
      BY <2>1, <2>2, <3>2 DEF OpenPartition
    <3>4. o.partman = Asking("active", answer.on, P)
      BY <3>3, Outcome
    <3>5. ItsSlot(request, answer.on)
      BY <1>4, <3>1 DEF ItsSlot
    <3> QED BY <2>3, <3>4, <3>5, AskedIs, NothingSetYet DEF AskedInOrder, OfPartition
  <2> QED BY <2>4, <2>5
<1> QED BY <1>2, <1>3, <1>4

(* free_space and free_space/new *)
LEMMA MadeInOrder ==
  ASSUME TypeInv, partman.autoDone, request.is \in Kept,
         partman.q \in {"free_space", "new_partition_size"},
         Answers(partman, request, answer), NEW S, AnsweredInOrder(partman, request, answer, S),
         NEW o \in Outcomes(partman, answer), o.error = "none"
  PROVE  AskedInOrder(o.partman, request, S)
<1> DEFINE P == partman.parts
           s == partman.on
<1>1. AllLeft(request, S)
  BY DEF AnsweredInOrder
<1>2. CASE partman.q = "free_space"
  <2>1. answer.is = "new"
    BY <1>2 DEF AnsweredInOrder
  <2>2. o = To(partman, "new_partition_size", s)
    BY <1>2, <2>1 DEF Outcomes, FreeSpace
  <2>3. o.partman = Asking("new_partition_size", s, P)
    BY <2>2, Outcome
  <2> QED BY <1>1, <2>3, AskedIs DEF AskedInOrder, OfPartition
<1>3. CASE partman.q = "new_partition_size"
  <2> DEFINE slot == NewSlot(s, answer.size, answer.place)
             made == WithNew(P, slot, Fallback, FreeMount(P))
  <2>1. /\ answer.is = "size" /\ answer.size = request.size /\ answer.place = request.place
        /\ request.is = "create" /\ s = request.on
    BY <1>3 DEF AnsweredInOrder, Answers, Asks
  <2>2. PICK all, some, new : all = EntriesOn(P, Device(s)) /\ new = made /\ some = EntriesOn(made, Device(s))
    OBVIOUS
  <2>3. \/ o = After("bad_new_partition_size", To(partman, "new_partition_size", s))
        \/ o = After("not made", Telling(To(partman, "choose", Nothing), all))
        \/ o = Telling(To(Updated(partman, new), "active", slot), some)
    BY <1>3, <2>1, <2>2 DEF Outcomes, NewPartition
  <2> HIDE DEF slot, made
  <2>4. After("bad_new_partition_size", To(partman, "new_partition_size", s)).error # "none"
    BY ErrorShown
  <2>7. After("not made", Telling(To(partman, "choose", Nothing), all)).error # "none"
    BY DEF To, After, Telling
  <2>8. o = Telling(To(Updated(partman, new), "active", slot), some)
    BY <2>3, <2>4, <2>7
  <2>5. o.partman = Asking("active", slot, new)
    BY <2>8, Outcome
  <2>6. ItsSlot(request, slot)
    BY <2>1 DEF ItsSlot, slot
  <2> QED BY <1>1, <2>5, <2>6, AskedIs, NothingSetYet DEF AskedInOrder, OfPartition
<1> QED BY <1>2, <1>3

(* active_partition *)
LEMMA MenuInOrder ==
  ASSUME TypeInv, partman.autoDone, request.is \in Kept,
         request.is = "create" => request.method # "same" /\ request.mount # "same",
         partman.q = "active",
         Answers(partman, request, answer), NEW S, AnsweredInOrder(partman, request, answer, S),
         NEW o \in Outcomes(partman, answer), o.error = "none"
  PROVE  AskedInOrder(o.partman, request, S)
<1> DEFINE P == partman.parts
           s == partman.on
           d == At(P, s)
<1>1. /\ IsPart(P, s)
      /\ \/ answer.is \in {"finish", "method", "mountpoint"} /\ request.is \in {"create", "edit"}
         \/ answer.is = "resize" /\ request.is = "edit"
  BY DEF Answers, Kept, NoRequest
<1>2. o \in Active(partman, answer)
  BY DEF Outcomes
<1>3. ItsSlot(request, s) /\ d \in P /\ d.slot = s
  BY <1>1, AskedAbout DEF AnsweredInOrder, OfPartition
<1>4. CASE answer.is = "finish"
  <2>1. AllSet(request, d) /\ ~ToResize(request)
    BY <1>4 DEF AnsweredInOrder
  <2>2. o = To(partman, "choose", Nothing)
    BY <1>2, <1>4 DEF Active
  <2>3. o.partman = Asking("choose", Nothing, P)
    BY <2>2, Outcome
  <2> HIDE DEF d
  <2>4. CarriedOut(P, request)
    BY <1>1, <1>3, <1>4, <2>1, SetIsDone
  <2> QED BY <2>3, <2>4, AskedIs DEF AskedInOrder, OfPartition
<1>5. CASE answer.is = "method"
  <2>1. MethodNext(request, S)
    BY <1>5 DEF AnsweredInOrder
  <2>2. o = To(partman, "choose_method", s)
    BY <1>2, <1>5 DEF Active
  <2>3. o.partman = Asking("choose_method", s, P)
    BY <2>2, Outcome
  <2> QED BY <1>3, <2>1, <2>3, AskedIs DEF AskedInOrder, OfPartition
<1>6. CASE answer.is = "mountpoint"
  <2>1. MountNext(request, S, d)
    BY <1>6 DEF AnsweredInOrder
  <2>2. o = To(partman, "mountpoint", s)
    BY <1>2, <1>6 DEF Active
  <2>3. o.partman = Asking("mountpoint", s, P)
    BY <2>2, Outcome
  <2> QED BY <1>3, <2>1, <2>3, AskedIs DEF AskedInOrder, OfPartition
<1>7. CASE answer.is = "resize"
  <2>1. AllSet(request, d)
    BY <1>7 DEF AnsweredInOrder
  <2>2. \/ o = After("impossible_resize", To(partman, "active", s))
        \/ o = To(partman, "confirm_resize", s)
        \/ o = To(partman, "new_size", s)
    BY <1>2, <1>7 DEF Active
  <2>3. o # After("impossible_resize", To(partman, "active", s))
    BY ErrorShown
  <2>4. o.partman = Asking("confirm_resize", s, P) \/ o.partman = Asking("new_size", s, P)
    BY <2>2, <2>3, Outcome
  <2> QED BY <1>3, <2>1, <2>4, AskedIs DEF AskedInOrder, OfPartition
<1> QED BY <1>1, <1>4, <1>5, <1>6, <1>7

(* What is set of the partition asked about *)
LEMMA SetInOrder ==
  ASSUME TypeInv, partman.autoDone, IsPart(partman.parts, partman.on),
         ItsSlot(request, partman.on),
         NEW q \in Partitions, q.slot = partman.on, q.num = At(partman.parts, partman.on).num,
         NEW S, SetSoFar(request, S, q), NEW o, o = Set(partman, q)
  PROVE  AskedInOrder(o.partman, request, S)
<1> DEFINE P == partman.parts
           p == At(P, partman.on)
           others == {r \in P : r.slot # q.slot} \cup {q}
<1>1. p \in P /\ p.slot = partman.on /\ IsTable(P)
  BY AskedAbout
<1> HIDE DEF p
<1>2. q.slot = p.slot /\ q.num = p.num
  BY <1>1 DEF p
<1>3. o = Telling(To(Updated(partman, others), "active", partman.on), <<partman.on>>)
  BY DEF Set
<1>4. others = {r \in P : r.slot # q.slot} \cup {q}
  OBVIOUS
<1> HIDE DEF others
<1>6. IsTable(others) /\ q \in others
  BY <1>1, <1>2, <1>4, UsedOtherwise, ZenonT(30)
<1>7. At(others, partman.on) = q
  BY <1>6, Numbered
<1>8. o.partman = Asking("active", partman.on, others)
  BY <1>3, Outcome
<1> QED BY <1>7, <1>8, AskedIs DEF AskedInOrder, OfPartition

(* choose_method *)
LEMMA MethodInOrder ==
  ASSUME TypeInv, partman.autoDone, partman.q = "choose_method",
         Answers(partman, request, answer), NEW S, AnsweredInOrder(partman, request, answer, S),
         NEW o \in Outcomes(partman, answer)
  PROVE  AskedInOrder(o.partman, request, S)
<1> DEFINE p == At(partman.parts, partman.on)
           mount == IF Mountable(answer.method) THEN p.mount ELSE ""
           q == [p EXCEPT !.method = answer.method, !.mount = mount]
<1>1. /\ IsPart(partman.parts, partman.on)
      /\ answer.is = "method" /\ answer.method \in STRING
  BY DEF Answers, Asks
<1>2. MethodNext(request, S) /\ answer.method = request.method /\ ItsSlot(request, partman.on)
  BY DEF AnsweredInOrder, OfPartition
<1>3. p \in Partitions /\ p.slot = partman.on
  BY <1>1, AskedAbout, Numbered
<1>4. o = Set(partman, q)
  BY <1>1 DEF Outcomes, ChooseMethod
<1> HIDE DEF p
<1>5. mount \in STRING /\ (~Mountable(answer.method) => mount = "")
  <2>1. p.mount \in STRING /\ "" \in STRING
    BY <1>3, PageAssumption DEF Partitions
  <2> QED BY <2>1
<1> HIDE DEF mount
<1>6. /\ q \in Partitions /\ q.slot = partman.on /\ q.num = p.num
      /\ q.method = answer.method /\ q.mount = mount
  BY <1>1, <1>3, <1>5 DEF Partitions
<1> HIDE DEF q
<1>7. SetSoFar(request, S, q)
  BY <1>2, <1>5, <1>6, MethodIsSet
<1> QED BY <1>1, <1>2, <1>4, <1>6, <1>7, SetInOrder DEF p

(* mountpoint *)
LEMMA MountInOrder ==
  ASSUME TypeInv, partman.autoDone, partman.q \in {"mountpoint", "mountpoint_manual"},
         Answers(partman, request, answer), NEW S, AnsweredInOrder(partman, request, answer, S),
         NEW o \in Outcomes(partman, answer), o.error = "none"
  PROVE  AskedInOrder(o.partman, request, S)
<1> DEFINE P == partman.parts
           s == partman.on
           p == At(P, s)
           q == [p EXCEPT !.mount = answer.mount]
<1>1. /\ IsPart(P, s) /\ answer.is = "mount" /\ answer.mount \in STRING
  BY DEF Answers, Asks, AnsweredInOrder
<1>2. MountNext(request, S, p) /\ answer.mount = request.mount /\ ItsSlot(request, s)
  BY DEF AnsweredInOrder, OfPartition
<1>3. p \in Partitions /\ p.slot = s
  BY <1>1, AskedAbout, Numbered
<1>4. \/ o = To(partman, "mountpoint_manual", s)
      \/ o = After("bad_mountpoint", To(partman, "mountpoint_manual", s))
      \/ o = Set(partman, q)
  <2>1. CASE partman.q = "mountpoint"
    BY <1>1, <2>1 DEF Outcomes, Mountpoint
  <2>2. CASE partman.q = "mountpoint_manual"
    BY <1>1, <2>2 DEF Outcomes, MountpointManual
  <2> QED BY <2>1, <2>2
<1>5. CASE o = To(partman, "mountpoint_manual", s)
  <2>1. o.partman = Asking("mountpoint_manual", s, P)
    BY <1>5, Outcome
  <2> QED BY <1>2, <2>1, AskedIs DEF AskedInOrder, OfPartition
<1>6. CASE o = After("bad_mountpoint", To(partman, "mountpoint_manual", s))
  BY <1>6, ErrorShown
<1>7. CASE o = Set(partman, q)
  <2> HIDE DEF p
  <2>1. /\ q \in Partitions /\ q.slot = s /\ q.num = p.num
        /\ q.method = p.method /\ q.mount = answer.mount
    BY <1>1, <1>3 DEF Partitions
  <2> HIDE DEF q
  <2>2. SetSoFar(request, S, q)
    BY <1>2, <2>1, MountIsSet
  <2> QED BY <1>1, <1>2, <1>7, <2>1, <2>2, SetInOrder DEF p
<1> QED BY <1>4, <1>5, <1>6, <1>7

(* confirm_resize and new_size *)
LEMMA SizeInOrder ==
  ASSUME TypeInv, partman.autoDone, partman.q \in {"confirm_resize", "new_size"},
         Answers(partman, request, answer), NEW S, AnsweredInOrder(partman, request, answer, S),
         NEW o \in Outcomes(partman, answer), o.error = "none"
  PROVE  AskedInOrder(o.partman, request, S)
<1> DEFINE P == partman.parts
           s == partman.on
           p == At(P, s)
           resized == WithResized(P, p, request.size)
<1>1. IsPart(P, s) /\ request.is = "edit"
  BY DEF Answers, Asks
<1>2. AllSet(request, p) /\ ItsSlot(request, s)
  BY DEF AnsweredInOrder, OfPartition
<1>3. p \in P /\ p.slot = s /\ s # Nothing /\ IsTable(P)
  BY <1>1, AskedAbout
<1>4. CASE partman.q = "confirm_resize"
  <2>1. answer.is = "true"
    BY <1>4 DEF AnsweredInOrder
  <2>2. o = To(partman, "new_size", s)
    BY <1>4, <2>1 DEF Outcomes, ConfirmResize
  <2>3. o.partman = Asking("new_size", s, P)
    BY <2>2, Outcome
  <2> QED BY <1>2, <2>3, AskedIs DEF AskedInOrder, OfPartition
<1>5. CASE partman.q = "new_size"
  <2>1. answer.is = "size" /\ answer.size = request.size
    BY <1>5 DEF AnsweredInOrder, Answers
  <2>2. o \in NewSize(partman, answer)
    BY <1>5 DEF Outcomes
  <2>3. \/ o = After("bad_new_size", To(partman, "new_size", s))
        \/ o = After("new_size_commit_failed", To(partman, "choose", Nothing))
        \/ /\ Fits(P, p, request.size)
           /\ o = Telling(To(Updated(partman, resized), "choose", Nothing), Entries(resized))
    BY <1>3, <2>1, <2>2 DEF NewSize
  <2>4. /\ o # After("bad_new_size", To(partman, "new_size", s))
        /\ o # After("new_size_commit_failed", To(partman, "choose", Nothing))
    BY ErrorShown
  <2>5. Fits(P, p, request.size) /\ o.partman = Asking("choose", Nothing, resized)
    BY <2>3, <2>4, Outcome
  <2>6. request.size \in Nat
    BY <1>1, RequestFields DEF TypeInv
  <2> HIDE DEF p
  <2>7. CarriedOut(WithResized(P, p, request.size), request)
    BY <1>1, <1>2, <1>3, <2>5, <2>6, ResizedIsDone
  <2> QED BY <2>5, <2>7, AskedIs DEF AskedInOrder, OfPartition
<1> QED BY <1>4, <1>5

(* partman goes on with the request. *)
LEMMA PartmanInOrder ==
  ASSUME TypeInv, partman.autoDone, request.is \in Kept,
         request.is = "create" => request.method # "same" /\ request.mount # "same",
         Answers(partman, request, answer), NEW S, AnsweredInOrder(partman, request, answer, S),
         NEW o \in Outcomes(partman, answer), o.error = "none"
  PROVE  AskedInOrder(o.partman, request, S)
<1>1. partman.q \in {"choose", "free_space", "new_partition_size"} \cup OfPartition
  BY DEF Answers, Asks, Kept, NoRequest, OfPartition
<1> QED BY <1>1, ChosenInOrder, MadeInOrder, MenuInOrder, MethodInOrder, MountInOrder, SizeInOrder
        DEF OfPartition

-----------------------------------------------------------------------------
(* The page with what is requested in hand *)

LEMMA AtMostOne ==
  ASSUME NEW T, NEW x \in T, NEW s, s = <<x>> \/ s = <<>>
  PROVE  /\ s \in Seq(T) /\ Len(s) \in {0, 1} /\ \A n \in DOMAIN s : s[n] = x
         /\ s = <<x>> => x \in Range(s)
<1>1. CASE s = <<x>>
  <2>1. s \in Seq(T) /\ Len(s) = 1 /\ DOMAIN s = {1} /\ s[1] = x
    BY <1>1
  <2> QED BY <2>1 DEF Range
<1>2. CASE s = <<>>
  <2>1. s \in Seq(T) /\ Len(s) = 0 /\ DOMAIN s = {} /\ s # <<x>>
    BY <1>2
  <2> QED BY <2>1
<1> QED BY <1>1, <1>2

(* The items of a request are in turn, and all of them are left. *)
LEMMA ItemsInTurn ==
  ASSUME NEW w
  PROVE  InTurn(ItemsOf(w)) /\ AllLeft(w, Range(ItemsOf(w)))
<1> DEFINE T == {"method", "mountpoint", "resize"}
<1>1. PICK a : a = IF w.method # "same" THEN <<"method">> ELSE <<>>
  OBVIOUS
<1>2. PICK b : b = IF w.mount # "same" THEN <<"mountpoint">> ELSE <<>>
  OBVIOUS
<1>3. PICK c : c = IF w.is = "edit" /\ w.size # 0 THEN <<"resize">> ELSE <<>>
  OBVIOUS
<1>4. /\ a \in Seq(T) /\ Len(a) \in {0, 1} /\ \A n \in DOMAIN a : a[n] = "method"
      /\ w.method # "same" => "method" \in Range(a)
  <2>1. a = <<"method">> \/ a = <<>>
    BY <1>1
  <2>2. w.method # "same" => a = <<"method">>
    BY <1>1 DEF ToResize
  <2> QED BY <2>1, <2>2, AtMostOne
<1>5. /\ b \in Seq(T) /\ Len(b) \in {0, 1} /\ \A n \in DOMAIN b : b[n] = "mountpoint"
      /\ w.mount # "same" => "mountpoint" \in Range(b)
  <2>1. b = <<"mountpoint">> \/ b = <<>>
    BY <1>2
  <2>2. w.mount # "same" => b = <<"mountpoint">>
    BY <1>2 DEF ToResize
  <2> QED BY <2>1, <2>2, AtMostOne
<1>6. /\ c \in Seq(T) /\ Len(c) \in {0, 1} /\ \A n \in DOMAIN c : c[n] = "resize"
      /\ ToResize(w) => "resize" \in Range(c)
  <2>1. c = <<"resize">> \/ c = <<>>
    BY <1>3
  <2>2. ToResize(w) => c = <<"resize">>
    BY <1>3 DEF ToResize
  <2> QED BY <2>1, <2>2, AtMostOne
<1>7. ItemsOf(w) = (a \o b) \o c
  BY <1>1, <1>2, <1>3, <1>4, <1>5, <1>6 DEF ItemsOf
<1>8. PICK U : U = T
  OBVIOUS
<1>9. a \in Seq(U) /\ b \in Seq(U) /\ c \in Seq(U)
  BY <1>4, <1>5, <1>6, <1>8
<1>10. PICK d : d = a \o b
  OBVIOUS
<1>11. d \in Seq(U) /\ Range(d) = Range(a) \cup Range(b)
  BY <1>9, <1>10, RangeConcat
<1>12. PICK e : e = d \o c
  OBVIOUS
<1>13. e \in Seq(U) /\ Range(e) = Range(d) \cup Range(c)
  BY <1>9, <1>11, <1>12, RangeConcat
<1>14. PICK j \in {0, 1}, k \in {0, 1}, l \in {0, 1} : j = Len(a) /\ k = Len(b) /\ l = Len(c)
  BY <1>4, <1>5, <1>6
<1>15. /\ Len(d) = j + k /\ \A n \in 1 .. j : d[n] = a[n]
       /\ \A n \in j + 1 .. j + k : d[n] = b[n - j]
  BY <1>9, <1>10, <1>14
<1>16. /\ Len(e) = j + k + l /\ \A n \in 1 .. j + k : e[n] = d[n]
       /\ \A n \in j + k + 1 .. j + k + l : e[n] = c[n - (j + k)]
  <2>1. PICK N \in Nat : N = j + k /\ N = Len(d)
    BY <1>14, <1>15
  <2>2. /\ Len(e) = Len(d) + Len(c) /\ \A n \in 1 .. Len(d) : e[n] = d[n]
        /\ \A n \in Len(d) + 1 .. Len(d) + Len(c) : e[n] = c[n - Len(d)]
    BY <1>9, <1>11, <1>12
  <2>3. /\ Len(e) = N + l /\ \A n \in 1 .. N : e[n] = d[n]
        /\ \A n \in N + 1 .. N + l : e[n] = c[n - N]
    BY <1>14, <2>1, <2>2, Zenon
  <2> QED BY <2>1, <2>3
<1>17. \A n \in 1 .. j : e[n] = "method"
  BY <1>4, <1>14, <1>15, <1>16
<1>18. \A n \in j + 1 .. j + k : e[n] = "mountpoint"
  <2> SUFFICES ASSUME NEW n \in j + 1 .. j + k PROVE e[n] = "mountpoint"
    OBVIOUS
  <2>1. n \in 1 .. j + k /\ n - j \in 1 .. k
    BY <1>14
  <2> QED BY <1>5, <1>14, <1>15, <1>16, <2>1, SMTT(20)
<1>19. \A n \in j + k + 1 .. j + k + l : e[n] = "resize"
  <2> SUFFICES ASSUME NEW n \in j + k + 1 .. j + k + l PROVE e[n] = "resize"
    OBVIOUS
  <2>1. n - (j + k) \in 1 .. l
    BY <1>14
  <2> QED BY <1>6, <1>14, <1>16, <2>1
<1>20. InTurn(e)
  <2> SUFFICES ASSUME NEW m \in DOMAIN e, NEW n \in DOMAIN e, m < n
               PROVE  e[n] # "method" /\ e[m] # "resize"
    BY DEF InTurn
  <2>1. DOMAIN e = 1 .. j + k + l
    BY <1>13, <1>16
  <2>2. n \in j + 1 .. j + k \/ n \in j + k + 1 .. j + k + l
    BY <1>14, <2>1
  <2>3. m \in 1 .. j \/ m \in j + 1 .. j + k
    BY <1>14, <2>1, SMTT(20)
  <2> QED BY <1>17, <1>18, <1>19, <2>2, <2>3
<1>21. AllLeft(w, Range(e))
  BY <1>4, <1>5, <1>6, <1>11, <1>13 DEF AllLeft, Ordered
<1> QED BY <1>7, <1>10, <1>12, <1>20, <1>21

(* The next item of a partition's menu is the first it offers, and what    *)
(* comes after it is left.                                                 *)
LEMMA NextItem ==
  ASSUME NEW w, NEW d, NEW todo \in Seq({"method", "mountpoint", "resize"}), InTurn(todo),
         SetSoFar(w, Range(todo), d), w.is = "create" => w.method # "same",
         NEW i \in DOMAIN todo, todo[i] \in Items(d),
         \A j \in DOMAIN todo : todo[j] \in Items(d) => i <= j,
         NEW R, \A x : x \in R <=> \E n \in DOMAIN todo : i < n /\ todo[n] = x
  PROVE  /\ todo[i] = "method" => MethodNext(w, R)
         /\ todo[i] = "mountpoint" => MountNext(w, R, d)
         /\ todo[i] = "resize" => AllSet(w, d)
<1>1. /\ DOMAIN todo \subseteq Nat /\ i \in Nat
      /\ \A n \in DOMAIN todo : todo[n] \in Range(todo)
      /\ \A x \in Range(todo) : \E n \in DOMAIN todo : todo[n] = x
  BY DEF Range
<1>2. "method" \in Items(d) /\ "resize" \in Items(d)
      /\ ("mountpoint" \in Items(d) <=> Mountable(d.method))
  BY DEF Items
<1>3. ASSUME NEW x \in Range(todo), x \in Items(d), x # todo[i]
      PROVE  x \in R
  <2>1. PICK n \in DOMAIN todo : todo[n] = x
    BY <1>1
  <2>2. i <= n /\ n # i
    BY <1>3, <2>1
  <2>3. i < n
    BY <1>1, <2>2
  <2> QED BY <2>1, <2>3
<1>4. "method" \notin R
  BY DEF InTurn
<1>5. "method" \in Range(todo) => todo[i] = "method"
  BY <1>2, <1>3, <1>4
<1>6. todo[i] = "resize" => R = {}
  BY DEF InTurn
<1>7. CASE todo[i] = "method"
  <2>1. "method" \in Range(todo)
    BY <1>1, <1>7
  <2>2. Ordered(w, Range(todo))
    BY DEF SetSoFar
  <2>3. ToResize(w) => "resize" \in R
    BY <1>2, <1>3, <1>7, <2>2 DEF Ordered
  <2>4. ASSUME w.mount # "same" PROVE "mountpoint" \in R
    <3>1. PICK n \in DOMAIN todo : todo[n] = "mountpoint"
      BY <1>1, <2>1, <2>2, <2>4 DEF Ordered
    <3>2. n # i /\ ~(n < i)
      BY <1>7, <3>1 DEF InTurn
    <3>3. i < n
      BY <1>1, <3>2
    <3> QED BY <3>1, <3>3
  <2> QED BY <1>4, <1>7, <2>3, <2>4 DEF MethodNext, Ordered
<1>8. CASE todo[i] = "mountpoint"
  <2>1. Mountable(d.method) /\ MethodDone(w, d)
    BY <1>2, <1>5, <1>8 DEF SetSoFar
  <2>2. ToResize(w) => "resize" \in R
    BY <1>2, <1>3, <1>8 DEF SetSoFar, Ordered
  <2> QED BY <1>4, <1>8, <2>1, <2>2 DEF MountNext, Ordered
<1>9. CASE todo[i] = "resize"
  <2>1. MethodDone(w, d)
    BY <1>5, <1>9 DEF SetSoFar
  <2>2. "mountpoint" \in Range(todo) => ~Mountable(d.method)
    BY <1>2, <1>3, <1>6, <1>9
  <2>3. MountDone(w, d)
    <3>1. CASE "mountpoint" \notin Range(todo)
      BY <3>1 DEF SetSoFar
    <3>2. CASE ~Mountable(d.method)
      BY <2>1, <3>2 DEF MountDone, MethodDone
    <3> QED BY <2>2, <3>1, <3>2
  <2> QED BY <1>9, <2>1, <2>3 DEF AllSet
<1> QED BY <1>7, <1>8, <1>9

(* Nothing the menu offers is left. *)
LEMMA NoItem ==
  ASSUME NEW w, NEW d, NEW S, SetSoFar(w, S, d), w.is = "create" => w.method # "same",
         \A x \in S : x \notin Items(d)
  PROVE  AllSet(w, d) /\ ~ToResize(w)
<1>1. "method" \in Items(d) /\ "resize" \in Items(d)
      /\ ("mountpoint" \in Items(d) <=> Mountable(d.method))
  BY DEF Items
<1>2. MethodDone(w, d) /\ ~ToResize(w)
  BY <1>1 DEF SetSoFar, Ordered
<1>3. "mountpoint" \in S => ~Mountable(d.method)
  BY <1>1
<1>4. MountDone(w, d)
  <2>1. CASE "mountpoint" \notin S
    BY <2>1 DEF SetSoFar
  <2>2. CASE ~Mountable(d.method)
    BY <1>2, <2>2 DEF MountDone, MethodDone
  <2> QED BY <1>3, <2>1, <2>2
<1> QED BY <1>2, <1>4 DEF AllSet

(* choose_partition with something heard: it is read, or there is nothing  *)
(* of it to be read.                                                       *)
LEMMA StartsToRead ==
  ASSUME IsBuild(build), StartReading
  PROVE  /\ partman' = partman
         /\ \/ request' = NoRequest /\ refused' = FALSE
            \/ request' = request /\ build'.on /\ turn' = "partman" /\ refused' = refused
<1>1. PICK b : b = Restarted(build)
  OBVIOUS
<1>2. PICK c : c = Reread(b, IF complete THEN Entries(partman.parts) ELSE <<>>)
  OBVIOUS
<1>3. /\ partman' = partman /\ b.on
      /\ IF c.updates # <<>>
         THEN /\ Visit(c) /\ frozen' = frozen \cup {"choose"} /\ view' = "advanced"
              /\ auto' = Manual
              /\ UNCHANGED <<request, status, failure, refused>>
         ELSE Show(ReadDone(c)) /\ frozen' = frozen \ {"choose"}
  BY <1>1, <1>2 DEF StartReading, AtChoose
<1>4. CASE c.updates # <<>>
  <2>1. "on" \in DOMAIN c /\ c.on = b.on
    <3>1. "on" \in DOMAIN b
      BY <1>1 DEF Restarted, IsBuild
    <3> QED BY <1>2, <3>1 DEF Reread
  <2>2. build'.on /\ turn' = "partman"
    BY <1>3, <1>4, <2>1 DEF Visit, Reply
  <2> QED BY <1>3, <1>4, <2>2
<1>5. CASE c.updates = <<>>
  BY <1>3, <1>5 DEF Show
<1> QED BY <1>3, <1>4, <1>5

(* active_partition for a request *)
LEMMA DoesInOrder ==
  ASSUME TypeInv, failure = "none", Waiting, turn = "page", DoRequest, ~refused,
         request.is \in Kept, UnderWay
  PROVE  UnderWay'
<1> DEFINE T == {"method", "mountpoint", "resize"}
<1>1. PICK todo : todo = IF Top.q = "active" THEN Top.todo ELSE ItemsOf(request)
  OBVIOUS
<1>2. PICK below : below = IF Top.q = "active" THEN Front(build.menus) ELSE build.menus
  OBVIOUS
<1>3. PICK offered : offered = Offered(todo)
  OBVIOUS
<1>4. PICK i : i = CHOOSE least \in offered : \A j \in offered : least <= j
  OBVIOUS
<1>5. /\ partman.q = "active" /\ request.is \in {"create", "edit"}
      /\ UNCHANGED <<partman, complete, auto, view, status, frozen, request, refused>>
      /\ turn' = "partman"
      /\ IF offered = {}
         THEN answer' = Is("finish") /\ build' = [build EXCEPT !.menus = below]
         ELSE /\ answer' = Is(todo[i])
              /\ build' = [build EXCEPT !.menus = Append(below,
                   [q |-> "active", on |-> Last(below).on, todo |-> SubSeq(todo, i + 1, Len(todo))])]
  BY <1>1, <1>2, <1>3, <1>4
     DEF DoRequest, Handles, Asked, Editing, Requested, ReplyFromMenu, Reply, Waiting
<1>6. build.menus \in Seq(Menus) /\ Len(build.menus) > 0 /\ IsBuild(build) /\ ~build.on
      /\ build.menus[1] = Bottom
  BY DEF TypeInv, IsBuild, Waiting
<1>7. /\ request.bad = {} /\ \A n \in DOMAIN build.menus : InTurn(build.menus[n].todo)
      /\ request.is = "create" => request.method # "same" /\ request.mount # "same"
      /\ AskedInOrder(partman, request, LeftIn(build.menus, request))
  BY <1>6 DEF UnderWay
<1>8. LeftIn(build.menus, request) = Range(todo)
  BY <1>1 DEF LeftIn, Top
<1>9. PICK d : d = At(partman.parts, partman.on)
  OBVIOUS
<1>10. SetSoFar(request, Range(todo), d) /\ ItsSlot(request, partman.on)
  BY <1>5, <1>7, <1>8, <1>9 DEF AskedInOrder, OfPartition
<1>11. offered = {n \in DOMAIN todo : todo[n] \in Items(d)}
  BY <1>3, <1>9 DEF Offered
<1>12. /\ todo \in Seq(T) /\ InTurn(todo)
       /\ below \in Seq(Menus) /\ below # <<>> /\ \A n \in DOMAIN below : InTurn(below[n].todo)
  <2>1. CASE Top.q = "active"
    <3>1. Len(build.menus) # 1 /\ Top \in Menus
      BY <1>6, <2>1 DEF Top, Last, Bottom
    <3>2. /\ below \in Seq(Menus) /\ Len(below) = Len(build.menus) - 1
          /\ \A n \in 1 .. Len(build.menus) - 1 : below[n] = build.menus[n]
      BY <1>2, <1>6, <2>1, <3>1 DEF Front
    <3>3. todo = build.menus[Len(build.menus)].todo /\ todo \in Seq(T) /\ Len(build.menus) \in DOMAIN build.menus
      BY <1>1, <1>6, <2>1, <3>1 DEF Top, Last, Menus
    <3>4. InTurn(todo)
      BY <1>7, <3>3
    <3>5. \A n \in DOMAIN below : InTurn(below[n].todo)
      <4>1. \A n \in DOMAIN below : n \in 1 .. Len(build.menus) - 1 /\ n \in DOMAIN build.menus
        BY <1>6, <3>2
      <4> QED BY <1>7, <3>2, <4>1
    <3>6. below # <<>>
      <4>1. Len(below) # 0
        <5>1. PICK n : n = Len(build.menus)
          OBVIOUS
        <5>2. n \in Nat /\ n > 0 /\ n # 1
          BY <1>6, <3>1, <5>1
        <5> QED BY <3>2, <5>1, <5>2
      <4> QED BY <4>1
    <3> QED BY <3>2, <3>3, <3>4, <3>5, <3>6
  <2>2. CASE Top.q # "active"
    <3>1. below = build.menus /\ todo = ItemsOf(request)
      BY <1>1, <1>2, <2>2
    <3>2. below # <<>>
      BY <1>6, <3>1
    <3> QED BY <1>6, <1>7, <3>1, <3>2, Items3, ItemsInTurn
  <2> QED BY <2>1, <2>2
<1>13. CASE offered = {}
  <2>1. answer' = Is("finish") /\ build' = [build EXCEPT !.menus = below]
    BY <1>5, <1>13
  <2>2. ~build'.on /\ build'.menus = below
    BY <1>6, <2>1 DEF IsBuild
  <2>3. \A x \in Range(todo) : x \notin Items(d)
    BY <1>11, <1>13 DEF Range
  <2>4. AllSet(request, d) /\ ~ToResize(request)
    BY <1>7, <1>10, <2>3, NoItem
  <2>5. PICK S : S = LeftIn(build.menus, request)'
    OBVIOUS
  <2>6. AnsweredInOrder(partman, request, answer', S)
    BY <1>5, <1>9, <1>10, <2>1, <2>4 DEF AnsweredInOrder, OfPartition, Is
  <2>7. AnsweredInOrder(partman, request, answer, LeftIn(build.menus, request))'
    BY <1>5, <2>5, <2>6
  <2> QED BY <1>5, <1>7, <1>12, <2>2, <2>7 DEF UnderWay
<1>14. CASE offered # {}
  <2>1. offered \in SUBSET Nat
    BY <1>11, <1>12
  <2>2. i \in offered /\ \A j \in offered : i <= j
    <3>1. \E n \in offered : \A j \in offered : n <= j
      BY <1>14, <2>1, LeastNumber
    <3> QED BY <1>4, <3>1
  <2>3. i \in DOMAIN todo /\ todo[i] \in Items(d) /\ i \in Nat
        /\ \A j \in DOMAIN todo : todo[j] \in Items(d) => i <= j
    BY <1>11, <2>1, <2>2
  <2>4. PICK rest : rest = SubSeq(todo, i + 1, Len(todo))
    OBVIOUS
  <2>5. PICK N \in Nat : N = Len(todo)
    BY <1>12
  <2>6. DOMAIN todo = 1 .. N /\ i \in 1 .. N
    BY <1>12, <2>3, <2>5
  <2>7. rest \in Seq(T) /\ DOMAIN rest = 1 .. N - i /\ \A n \in 1 .. N - i : rest[n] = todo[i + n]
    <3>1. i + 1 \in Nat /\ 1 <= i + 1 /\ i + 1 <= Len(todo) + 1
      BY <2>5, <2>6
    <3>2. /\ rest \in Seq(T) /\ Len(rest) = Len(todo) - i
          /\ \A n \in 1 .. Len(todo) - i : rest[n] = todo[i + n]
      BY <1>12, <2>3, <2>4, <3>1
    <3> QED BY <2>5, <3>2
  <2>8. PICK R : R = Range(rest)
    OBVIOUS
  <2>9. \A x : x \in R <=> \E n \in DOMAIN todo : i < n /\ todo[n] = x
    <3>1. ASSUME NEW x \in R PROVE \E n \in DOMAIN todo : i < n /\ todo[n] = x
      <4>1. PICK m \in 1 .. N - i : rest[m] = x
        BY <2>7, <2>8 DEF Range
      <4>2. i + m \in 1 .. N /\ i < i + m /\ todo[i + m] = x
        BY <2>6, <2>7, <4>1
      <4> QED BY <2>6, <4>2
    <3>2. ASSUME NEW n \in DOMAIN todo, i < n PROVE todo[n] \in R
      <4>1. n - i \in 1 .. N - i /\ i + (n - i) = n
        BY <2>6, <3>2
      <4>2. rest[n - i] = todo[n] /\ n - i \in DOMAIN rest
        BY <2>7, <4>1
      <4> QED BY <2>8, <4>2 DEF Range
    <3> QED BY <3>1, <3>2
  <2>10. /\ todo[i] = "method" => MethodNext(request, R)
         /\ todo[i] = "mountpoint" => MountNext(request, R, d)
         /\ todo[i] = "resize" => AllSet(request, d)
    BY <1>7, <1>10, <1>12, <2>3, <2>9, NextItem
  <2>11. InTurn(rest)
    <3> SUFFICES ASSUME NEW m \in DOMAIN rest, NEW n \in DOMAIN rest, m < n
                 PROVE  rest[n] # "method" /\ rest[m] # "resize"
      BY DEF InTurn
    <3>1. /\ i + m \in DOMAIN todo /\ i + n \in DOMAIN todo /\ i + m < i + n
          /\ rest[m] = todo[i + m] /\ rest[n] = todo[i + n]
      BY <2>6, <2>7
    <3> QED BY <1>12, <3>1 DEF InTurn
  <2>12. PICK menu : menu = [q |-> "active", on |-> Last(below).on, todo |-> rest]
    OBVIOUS
  <2>13. menu \in Menus /\ menu.q = "active" /\ menu.todo = rest
    <3>1. Last(below) \in Menus
      BY <1>12 DEF Last
    <3> QED BY <2>7, <2>12, <3>1 DEF Menus
  <2>14. PICK menus : menus = Append(below, menu)
    OBVIOUS
  <2>15. /\ menus \in Seq(Menus) /\ Last(menus) = menu
         /\ \A n \in DOMAIN menus : InTurn(menus[n].todo)
    <3>1. /\ menus \in Seq(Menus) /\ Len(menus) = Len(below) + 1
          /\ menus[Len(below) + 1] = menu
          /\ \A n \in 1 .. Len(below) : menus[n] = below[n]
      BY <1>12, <2>13, <2>14
    <3>2. Last(menus) = menu
      BY <3>1 DEF Last
    <3>3. \A n \in DOMAIN menus : n \in 1 .. Len(below) \/ n = Len(below) + 1
      BY <1>12, <3>1
    <3>4. \A n \in 1 .. Len(below) : InTurn(menus[n].todo)
      BY <1>12, <3>1
    <3> QED BY <2>11, <2>13, <3>1, <3>2, <3>3, <3>4
  <2>16. answer' = Is(todo[i]) /\ build' = [build EXCEPT !.menus = menus]
    BY <1>5, <1>14, <2>4, <2>12, <2>14
  <2>17. ~build'.on /\ build'.menus = menus
    BY <1>6, <2>16 DEF IsBuild
  <2>18. LeftIn(build.menus, request)' = R
    BY <2>8, <2>13, <2>15, <2>17 DEF LeftIn
  <2>19. todo[i] \in {"method", "mountpoint", "resize"} /\ answer'.is = todo[i]
    BY <1>12, <2>3, <2>16 DEF Is
  <2>20. AnsweredInOrder(partman, request, answer', R)
    BY <1>5, <1>9, <1>10, <2>10, <2>19 DEF AnsweredInOrder, OfPartition
  <2>21. AnsweredInOrder(partman, request, answer, LeftIn(build.menus, request))'
    BY <1>5, <2>18, <2>20
  <2> QED BY <1>5, <1>7, <2>15, <2>17, <2>21 DEF UnderWay
<1> QED BY <1>13, <1>14

(* With nothing but an answer given, the answer is what matters. *)
LEMMA JustAnswered ==
  ASSUME Waiting, turn = "page", UnderWay,
         UNCHANGED <<partman, build, request>>, turn' = "partman",
         \A S : AskedInOrder(partman, request, S) => AnsweredInOrder(partman, request, answer', S)
  PROVE  UnderWay'
<1>1. ~build.on /\ ~build'.on
  BY DEF Waiting
<1>2. PICK S : S = LeftIn(build.menus, request)
  OBVIOUS
<1>3. LeftIn(build.menus, request)' = S
  BY <1>2 DEF LeftIn
<1>4. AskedInOrder(partman, request, S)
  BY <1>1, <1>2 DEF UnderWay
<1>5. AnsweredInOrder(partman, request, answer', S)
  BY <1>4
<1>6. AnsweredInOrder(partman, request, answer, LeftIn(build.menus, request))'
  BY <1>3, <1>5
<1> QED BY <1>1, <1>6 DEF UnderWay

(* The page waits and answers. *)
LEMMA WaitingInOrder ==
  ASSUME TypeInv, failure = "none", Waiting, turn = "page", PageAnswers, ~refused,
         request.is \in Kept, UnderWay, ~refused'
  PROVE  \/ request' = NoRequest /\ CarriedOut(partman.parts, request)
         \/ request' = request /\ UnderWay'
<1>1. /\ Asks(partman, request) /\ ~build.on /\ ~auto.asking /\ complete
      /\ request # NoRequest /\ request.is \notin {"delete", "label"}
      /\ request.bad = {}
      /\ AskedInOrder(partman, request, LeftIn(build.menus, request))
  BY DEF Waiting, Doing, Kept, NoRequest, UnderWay
<1>2. partman.q \in {"choose", "free_space", "new_partition_size"} \cup OfPartition
  BY <1>1 DEF Asks, Kept, OfPartition
<1>3. CASE partman.q = "choose"
  <2>1. StartReading \/ NothingRead
    BY <1>1, <1>3
       DEF PageAnswers, WalkOn, ShowAsk, WalkSelectDisk, WalkNewSize, AnswerSelectDisk,
           AnswerAutoSize, AnswerPassphrase, ReadOn, OnNewLabel,
           OnFreeSpace, OnNewPartitionSize, ReadPartition, DoRequest, DoDelete, OnChooseMethod,
           OnMountpoint, OnConfirmResize, OnNewSize, OnCryptoMenu, OnConfirm, AtChoose, Handles, Asked
  <2>2. CarriedOut(partman.parts, request)
    BY <1>1, <1>3 DEF AskedInOrder
  <2>3. CASE NothingRead
    <3>1. request' = NoRequest
      BY <1>1, <2>3 DEF NothingRead, Show
    <3> QED BY <2>2, <3>1
  <2>4. CASE StartReading
    <3>1. IsBuild(build)
      BY DEF TypeInv
    <3>2. partman' = partman /\ (request' = NoRequest \/ (request' = request /\ build'.on))
      BY <2>4, <3>1, StartsToRead
    <3>3. request' = request => CarriedOut(partman'.parts, request')
      BY <2>2, <3>2
    <3> QED BY <2>2, <3>2, <3>3 DEF UnderWay
  <2> QED BY <2>1, <2>3, <2>4
<1>4. CASE partman.q \in {"free_space", "new_partition_size"}
  <2>1. OnFreeSpace \/ OnNewPartitionSize
    BY <1>4
       DEF PageAnswers, WalkOn, ShowAsk, WalkSelectDisk, WalkNewSize, AnswerSelectDisk,
           AnswerAutoSize, AnswerPassphrase, StartReading, ReadOn, NothingRead, OnNewLabel,
           ReadPartition, DoRequest, DoDelete, OnChooseMethod,
           OnMountpoint, OnConfirmResize, OnNewSize, OnCryptoMenu, OnConfirm, AtChoose, Handles, Asked
  <2>2. request.is = "create"
    BY <1>1, <1>4 DEF Asks
  <2>3. CASE OnFreeSpace
    <3>1. UNCHANGED <<partman, build, request>> /\ turn' = "partman" /\ answer' = Is("new")
          /\ partman.q = "free_space"
      BY <1>1, <2>2, <2>3
         DEF OnFreeSpace, Handles, Asked, ReplyFromMenu, Reply, Unexpected, Requested
    <3>2. \A S : AskedInOrder(partman, request, S) => AnsweredInOrder(partman, request, answer', S)
      BY <3>1 DEF AskedInOrder, AnsweredInOrder, Is, OfPartition
    <3> QED BY <3>1, <3>2, JustAnswered
  <2>4. CASE OnNewPartitionSize
    <3>1. /\ UNCHANGED <<partman, build, request>> /\ turn' = "partman"
          /\ answer' = [is |-> "size", size |-> request.size, place |-> request.place]
          /\ partman.q = "new_partition_size"
      BY <1>1, <2>2, <2>4
         DEF OnNewPartitionSize, Handles, Asked, Reply, Unexpected, Requested, AsBefore, Bad
    <3>2. \A S : AskedInOrder(partman, request, S) => AnsweredInOrder(partman, request, answer', S)
      BY <3>1 DEF AskedInOrder, AnsweredInOrder, OfPartition
    <3> QED BY <3>1, <3>2, JustAnswered
  <2> QED BY <2>1, <2>3, <2>4
<1>5. CASE partman.q = "active"
  <2>1. request.is \in {"create", "edit"}
    BY <1>1, <1>5 DEF Asks
  <2>2. DoRequest
    BY <1>1, <1>5, <2>1
       DEF PageAnswers, WalkOn, ShowAsk, WalkSelectDisk, WalkNewSize, AnswerSelectDisk,
           AnswerAutoSize, AnswerPassphrase, StartReading, ReadOn, NothingRead, OnNewLabel,
           OnFreeSpace, OnNewPartitionSize, ReadPartition, DoDelete, Editing, Requested, OnChooseMethod,
           OnMountpoint, OnConfirmResize, OnNewSize, OnCryptoMenu, OnConfirm, AtChoose, Handles, Asked
  <2>3. request' = request
    BY <2>2 DEF DoRequest
  <2> QED BY <2>2, <2>3, DoesInOrder
<1>6. CASE partman.q \in {"choose_method", "mountpoint", "mountpoint_manual"}
  <2>1. OnChooseMethod \/ OnMountpoint
    BY <1>6
       DEF PageAnswers, WalkOn, ShowAsk, WalkSelectDisk, WalkNewSize, AnswerSelectDisk,
           AnswerAutoSize, AnswerPassphrase, StartReading, ReadOn, NothingRead, OnNewLabel,
           OnFreeSpace, OnNewPartitionSize, ReadPartition, DoRequest, DoDelete,
           OnConfirmResize, OnNewSize, OnCryptoMenu, OnConfirm, AtChoose, Handles, Asked
  <2>2. request.is \in {"create", "edit"}
    BY <1>1, <1>6 DEF Asks
  <2>3. CASE OnChooseMethod
    <3>1. /\ UNCHANGED <<partman, build, request>> /\ turn' = "partman"
          /\ answer' = [is |-> "method", method |-> request.method]
          /\ partman.q = "choose_method"
      BY <2>2, <2>3
         DEF OnChooseMethod, Handles, Asked, Reply, Unexpected, Editing, Requested, AsBefore
    <3>2. \A S : AskedInOrder(partman, request, S) => AnsweredInOrder(partman, request, answer', S)
      BY <3>1 DEF AskedInOrder, AnsweredInOrder, OfPartition
    <3> QED BY <3>1, <3>2, JustAnswered
  <2>4. CASE OnMountpoint
    <3>1. /\ UNCHANGED <<partman, build, request>> /\ turn' = "partman"
          /\ answer' = [is |-> "mount", mount |-> request.mount]
          /\ partman.q \in {"mountpoint", "mountpoint_manual"}
      BY <1>1, <2>2, <2>4
         DEF OnMountpoint, Handles, Asked, Reply, Unexpected, Editing, Requested, AsBefore, Bad
    <3>2. \A S : AskedInOrder(partman, request, S) => AnsweredInOrder(partman, request, answer', S)
      BY <3>1 DEF AskedInOrder, AnsweredInOrder, OfPartition
    <3> QED BY <3>1, <3>2, JustAnswered
  <2> QED BY <2>1, <2>3, <2>4
<1>7. CASE partman.q \in {"confirm_resize", "new_size"}
  <2>1. OnConfirmResize \/ OnNewSize
    BY <1>1, <1>7
       DEF PageAnswers, WalkOn, ShowAsk, WalkSelectDisk, WalkNewSize, AnswerSelectDisk,
           AnswerAutoSize, AnswerPassphrase, StartReading, ReadOn, NothingRead, OnNewLabel,
           OnFreeSpace, OnNewPartitionSize, ReadPartition, DoRequest, DoDelete, OnChooseMethod,
           OnMountpoint, OnCryptoMenu, OnConfirm, AtChoose, Handles, Asked
  <2>2. request.is = "edit"
    BY <1>1, <1>7 DEF Asks
  <2>3. CASE OnConfirmResize
    <3>1. /\ UNCHANGED <<partman, build, request>> /\ turn' = "partman"
          /\ answer' = Is("true") /\ partman.q = "confirm_resize"
      <4>1. PICK word \in {"true", "false"} :
              /\ UNCHANGED <<partman, build, request>> /\ turn' = "partman"
              /\ answer' = Is(word) /\ partman.q = "confirm_resize"
              /\ refused' = (refused \/ (word = "false" /\ ~auto.asking))
        BY <1>1, <2>2, <2>3
           DEF OnConfirmResize, Handles, Asked, FindingOut, Reply, AsBefore, Unexpected, Requested
      <4>2. word = "true"
        BY <1>1, <4>1
      <4> QED BY <4>1, <4>2
    <3>2. \A S : AskedInOrder(partman, request, S) => AnsweredInOrder(partman, request, answer', S)
      BY <3>1 DEF AskedInOrder, AnsweredInOrder, OfPartition, Is
    <3> QED BY <3>1, <3>2, JustAnswered
  <2>4. CASE OnNewSize
    <3>1. /\ UNCHANGED <<partman, build, request>> /\ turn' = "partman"
          /\ answer' = [is |-> "size", size |-> request.size] /\ partman.q = "new_size"
      BY <1>1, <2>2, <2>4 DEF OnNewSize, Handles, Asked, Reply, AsBefore, Unexpected, Requested, Bad
    <3>2. \A S : AskedInOrder(partman, request, S) => AnsweredInOrder(partman, request, answer', S)
      BY <3>1 DEF AskedInOrder, AnsweredInOrder, OfPartition
    <3> QED BY <3>1, <3>2, JustAnswered
  <2> QED BY <2>1, <2>3, <2>4
<1> QED BY <1>2, <1>3, <1>4, <1>5, <1>6, <1>7 DEF OfPartition

(* The table is read with what was requested done. *)
LEMMA ReadingInOrder ==
  ASSUME TypeInv, failure = "none", Reading, turn = "page", PageAnswers
  PROVE  /\ partman' = partman
         /\ request' = NoRequest \/ (request' = request /\ build'.on /\ refused' = refused)
<1>1. build.on /\ ~auto.asking /\ Len(build.menus) \in {2, 3} /\ build.menus[2].q = "choose" /\ IsBuild(build)
  BY DEF Reading, TypeInv
<1>2. CASE partman.q = "choose"
  <2>1. Len(build.menus) = 2 /\ Last(build.menus).q = "choose"
    BY <1>1, <1>2 DEF Reading, Last
  <2>2. Restarted(build) = build
    BY <1>1 DEF Restarted
  <2>3. ReadOn
    BY <1>1, <1>2, <2>1, <2>2
       DEF PageAnswers, WalkOn, ShowAsk, WalkSelectDisk, WalkNewSize, AnswerSelectDisk,
           AnswerAutoSize, AnswerPassphrase, StartReading, NothingRead, OnNewLabel, OnFreeSpace,
           OnNewPartitionSize, ReadPartition, DoRequest, DoDelete, OnChooseMethod, OnMountpoint,
           OnConfirmResize, OnNewSize, OnCryptoMenu, OnConfirm, AtChoose, Handles, Asked
  <2>4. PICK list : list = Tidied(build.cache, build.updates)
    OBVIOUS
  <2>5. PICK b : b = [build EXCEPT !.updates = list]
    OBVIOUS
  <2>6. /\ partman' = partman
        /\ IF list # <<>> THEN Visit(b) /\ UNCHANGED <<frozen, auto, request, view, status, failure, refused>>
           ELSE Show(ReadDone(build)) /\ frozen' = frozen \ {"choose"}
    BY <2>3, <2>4, <2>5 DEF ReadOn, AtChoose
  <2>7. "on" \in DOMAIN b /\ b.on = build.on
    BY <1>1, <2>5 DEF IsBuild
  <2>8. CASE list # <<>>
    <3>1. build'.on
      BY <1>1, <2>6, <2>7, <2>8 DEF Visit
    <3> QED BY <2>6, <2>8, <3>1
  <2>9. CASE list = <<>>
    BY <2>6, <2>9 DEF Show
  <2> QED BY <2>8, <2>9
<1>3. CASE partman.q = "active"
  <2>1. ReadPartition
    BY <1>1, <1>3
       DEF PageAnswers, WalkOn, ShowAsk, WalkSelectDisk, WalkNewSize, AnswerSelectDisk,
           AnswerAutoSize, AnswerPassphrase, StartReading, ReadOn, NothingRead, OnNewLabel,
           OnFreeSpace, OnNewPartitionSize, DoRequest, DoDelete, OnChooseMethod, OnMountpoint,
           OnConfirmResize, OnNewSize, OnCryptoMenu, OnConfirm, AtChoose, Handles, Asked
  <2>2. UNCHANGED <<partman, request, refused>>
    BY <2>1 DEF ReadPartition, Handles
  <2>3. CASE Top.q = "active"
    <3>1. PICK b : b = [build EXCEPT !.menus = Front(@)]
      OBVIOUS
    <3>2. MaybeThaw(b)
      BY <2>1, <2>3, <3>1 DEF ReadPartition
    <3>3. "on" \in DOMAIN b /\ b.on
      BY <1>1, <3>1 DEF IsBuild
    <3>4. build'.on
      BY <3>2, <3>3 DEF MaybeThaw
    <3> QED BY <2>2, <3>4
  <2>4. CASE Top.q = "choose"
    <3>1. PICK b : b = Read(build, partman.on)
      OBVIOUS
    <3>2. "on" \in DOMAIN b /\ b.on
      BY <1>1, <3>1 DEF Read, IsBuild
    <3>3. \/ MaybeThaw(b)
          \/ build' = [b EXCEPT !.menus =
                         Append(@, [q |-> "active", on |-> Last(@).on, todo |-> <<>>])]
      BY <2>1, <2>4, <3>1 DEF ReadPartition
    <3>4. build'.on
      BY <3>2, <3>3 DEF MaybeThaw
    <3> QED BY <2>2, <3>4
  <2> QED BY <2>1, <2>3, <2>4 DEF ReadPartition
<1>4. CASE partman.q \in {"confirm_resize", "new_size"}
  <2>1. OnConfirmResize \/ OnNewSize
    BY <1>1, <1>4
       DEF PageAnswers, WalkOn, ShowAsk, WalkSelectDisk, WalkNewSize, AnswerSelectDisk,
           AnswerAutoSize, AnswerPassphrase, StartReading, ReadOn, NothingRead, OnNewLabel,
           OnFreeSpace, OnNewPartitionSize, ReadPartition, DoRequest, DoDelete, OnChooseMethod,
           OnMountpoint, OnCryptoMenu, OnConfirm, AtChoose, Handles, Asked
  <2>2. UNCHANGED <<partman, build, request, refused>>
    <3>1. CASE OnConfirmResize
      BY <1>1, <3>1 DEF OnConfirmResize, Handles, Asked, FindingOut, Reply, AsBefore, Unexpected
    <3>2. CASE OnNewSize
      BY <1>1, <3>2 DEF OnNewSize, Handles, Reply, Is, AsBefore, Unexpected
    <3> QED BY <2>1, <3>1, <3>2
  <2> QED BY <1>1, <2>2
<1> QED BY <1>2, <1>3, <1>4 DEF Reading

(* Automatic partitioning is of no request. *)
LEMMA ChoosingAsksNothing ==
  ASSUME TypeInv, failure = "none", Choosing, turn = "page", PageAnswers
  PROVE  request' = NoRequest
<1>1. /\ build.on /\ request = NoRequest
      /\ partman.q \in {"init", "auto", "select_disk", "confirm_resize", "new_size", "passphrase", "confirm", "choose"}
  BY DEF Choosing, InAuto
<1>2. request.is = "none"
  BY <1>1 DEF NoRequest
<1>3. CASE OnNewLabel \/ OnFreeSpace \/ OnNewPartitionSize \/ ReadPartition \/ DoRequest \/ DoDelete
           \/ OnChooseMethod \/ OnMountpoint \/ OnCryptoMenu
  BY <1>1, <1>3
     DEF OnNewLabel, OnFreeSpace, OnNewPartitionSize, ReadPartition, DoRequest, DoDelete,
         OnChooseMethod, OnMountpoint, OnCryptoMenu, Handles, Asked
<1>4. CASE OnConfirmResize \/ OnNewSize
  BY <1>1, <1>4 DEF OnConfirmResize, OnNewSize, AsBefore, Unexpected
<1>5. CASE StartReading \/ ReadOn \/ NothingRead
  <2>1. CASE StartReading
    BY <1>1, <2>1, StartsToRead DEF TypeInv
  <2>2. CASE ReadOn
    BY <1>1, <2>2 DEF ReadOn, Show
  <2>3. CASE NothingRead
    BY <1>1, <2>3 DEF NothingRead, Show
  <2> QED BY <1>5, <2>1, <2>2, <2>3
<1>6. CASE WalkOn \/ ShowAsk \/ WalkSelectDisk \/ WalkNewSize \/ AnswerSelectDisk
           \/ AnswerAutoSize \/ AnswerPassphrase \/ OnConfirm
  BY <1>1, <1>6
     DEF WalkOn, ShowAsk, WalkSelectDisk, WalkNewSize, AnswerSelectDisk, AnswerAutoSize,
         AnswerPassphrase, OnConfirm, Collect
<1> QED BY <1>3, <1>4, <1>5, <1>6 DEF PageAnswers

(* The user's wish is of things to do, and none of them has gone wrong. *)
LEMMA WishedFor ==
  ASSUME NEW w \in Wanted
  PROVE  w.bad = {} /\ (w.is = "create" => w.method # "same" /\ w.mount # "same")
<1>1. "same" \notin Methods /\ "same" \notin Mounts
  BY PageAssumption
<1>2. ASSUME NEW s, w \in [is : {"create"}, on : {s}, size : 1..Cardinality(Places(s)),
                          place : {"Beginning", "End"}, method : Methods, mount : Mounts, bad : {{}}]
      PROVE  w.bad = {} /\ w.method # "same" /\ w.mount # "same"
  BY <1>1, <1>2
<1>3. ASSUME NEW s, w \in [is : {"edit"}, on : {s}, size : 0..Room(s), method : Methods \cup {"same"},
                          mount : Mounts \cup {"same"}, bad : {{}}]
      PROVE  w.bad = {} /\ w.is = "edit"
  BY <1>3
<1>4. ASSUME w \in [is : {"delete"}, on : {s \in Shown : ~Free(s) /\ s \notin LockedParts}, bad : {{}}]
      PROVE  w.bad = {} /\ w.is = "delete"
  BY <1>4
<1>5. ASSUME w \in [is : {"label"}, on : Range(DeviceOf), bad : {{}}]
      PROVE  w.bad = {} /\ w.is = "label"
  BY <1>5
<1>6. ASSUME w = [is |-> "undo", bad |-> {}]
      PROVE  w.bad = {} /\ w.is = "undo"
  BY <1>6
<1>7. \/ \E s : w \in [is : {"create"}, on : {s}, size : 1..Cardinality(Places(s)),
                      place : {"Beginning", "End"}, method : Methods, mount : Mounts, bad : {{}}]
      \/ \E s : w \in [is : {"edit"}, on : {s}, size : 0..Room(s), method : Methods \cup {"same"},
                      mount : Mounts \cup {"same"}, bad : {{}}]
      \/ w \in [is : {"delete"}, on : {s \in Shown : ~Free(s) /\ s \notin LockedParts}, bad : {{}}]
      \/ w \in [is : {"label"}, on : Range(DeviceOf), bad : {{}}]
      \/ w = [is |-> "undo", bad |-> {}]
  BY Zenon DEF Wanted
<1> QED BY <1>2, <1>3, <1>4, <1>5, <1>6, <1>7

(* The user asks for something: all of it is left to do. *)
LEMMA WantedInOrder ==
  ASSUME TypeInv, failure = "none", Waiting, turn = "user", UserWants, request'.is \in Kept
  PROVE  UnderWay'
<1>1. /\ partman.q = "choose" /\ build.menus = <<Bottom>> /\ complete /\ ~build.on
      /\ IsBuild(build) /\ Bottom \in Menus
  <2>1. <<>> \in Seq({"method", "mountpoint", "resize"})
    OBVIOUS
  <2>2. Bottom \in Menus
    BY <2>1 DEF Bottom, Menus, Ons, Nothing
  <2> QED BY <2>2 DEF Waiting, Doing, TypeInv
<1>2. PICK w \in Wanted : request' = w /\ Carry(w) /\ partman' = partman
  BY DEF UserWants
<1>3. w.bad = {} /\ (w.is = "create" => w.method # "same" /\ w.mount # "same")
  BY WishedFor
<1>4. w.is \in Kept /\ (w.is \in {"create", "edit"} => w.on \in Slots)
  BY <1>2, WantedRows
<1>5. InTurn(<<>>) /\ Bottom.todo = <<>> /\ Bottom.q = "none"
  BY DEF InTurn, Bottom
<1>6. CASE w.is = "undo"
  <2>1. turn' = "partman" /\ build' = build
    BY <1>1, <1>2, <1>6 DEF Carry, ReplyFromMenu, Reply
  <2>2. \A i \in DOMAIN build'.menus : InTurn(build'.menus[i].todo)
    BY <1>1, <1>5, <2>1
  <2>3. AnsweredInOrder(partman, request, answer, LeftIn(build.menus, request))'
    BY <1>1, <1>2, <1>6 DEF AnsweredInOrder, OfPartition
  <2> QED BY <1>1, <1>2, <1>3, <2>1, <2>2, <2>3 DEF UnderWay
<1>7. CASE w.is \in {"create", "edit"}
  <2>1. PICK menu : menu = [q |-> "choose", on |-> w.on, todo |-> <<>>]
    OBVIOUS
  <2>2. menu \in Menus /\ menu.todo = <<>> /\ menu.q = "choose"
    <3>1. <<>> \in Seq({"method", "mountpoint", "resize"}) /\ w.on \in Ons
      BY <1>4, <1>7, QuestionNames
    <3> QED BY <2>1, <3>1 DEF Menus
  <2>3. PICK menus : menus = Append(<<Bottom>>, menu)
    OBVIOUS
  <2>4. menus \in Seq(Menus) /\ Len(menus) = 2 /\ menus[1] = Bottom /\ menus[2] = menu
    BY <1>1, <2>2, <2>3, Pair
  <2>5. turn' = "partman" /\ build' = [build EXCEPT !.menus = menus]
    BY <1>1, <1>2, <1>7, <2>1, <2>3 DEF Carry, Reply
  <2>6. ~build'.on /\ build'.menus = menus
    BY <1>1, <2>5 DEF IsBuild
  <2>7. \A i \in DOMAIN menus : InTurn(menus[i].todo)
    BY <1>5, <2>2, <2>4
  <2>8. LeftIn(menus, w) = Range(ItemsOf(w))
    BY <2>2, <2>4 DEF LeftIn, Last
  <2>9. AllLeft(w, LeftIn(menus, w))
    BY <2>8, ItemsInTurn
  <2>10. PICK S : S = LeftIn(menus, w)
    OBVIOUS
  <2>11. LeftIn(build.menus, request)' = S
    BY <1>2, <2>6, <2>10
  <2>12. AnsweredInOrder(partman, w, answer', S)
    BY <1>1, <2>9, <2>10 DEF AnsweredInOrder, OfPartition
  <2>13. AnsweredInOrder(partman, request, answer, LeftIn(build.menus, request))'
    BY <1>2, <2>11, <2>12
  <2> QED BY <1>2, <1>3, <2>5, <2>6, <2>7, <2>13 DEF UnderWay
<1> QED BY <1>4, <1>6, <1>7 DEF Kept

LEMMA HeardOnly ==
  ASSUME IsBuild(build), NEW news
  PROVE  /\ Heard(build, news).on = build.on /\ Heard(build, news).menus = build.menus
         /\ news = <<>> => Heard(build, news) = build
<1>1. PICK known, fresh :
        \/ Heard(build, news) = build
        \/ news # <<>> /\ Heard(build, news) = [build EXCEPT !.updates = known \o fresh]
  <2>1. PICK known : known = IF build.updates = NoList THEN <<>> ELSE build.updates
    OBVIOUS
  <2>2. PICK fresh : fresh = Only(news, Range(news) \ Range(known))
    OBVIOUS
  <2>3. Heard(build, news) = IF build.on \/ news = <<>> THEN build
                             ELSE [build EXCEPT !.updates = known \o fresh]
    BY <2>1, <2>2 DEF Heard
  <2> QED BY <2>3
<1>2. PICK list : \/ Heard(build, news) = build
                  \/ news # <<>> /\ Heard(build, news) = [build EXCEPT !.updates = list]
  BY <1>1
<1> QED BY <1>2 DEF IsBuild

(* partman's part of it *)
LEMMA PartmanKeepsOrder ==
  ASSUME TypeInv, failure = "none", Choosing \/ Reading \/ Waiting, PartmanMoves, ~turnedAway',
         InHand
  PROVE  InHand'
<1> SUFFICES ASSUME turn' \in {"partman", "page"}, request'.is \in Kept, ~refused'
             PROVE  UnderWay'
  BY DEF InHand
<1>1. PICK o \in Outcomes(partman, answer) :
        /\ partman' = o.partman
        /\ build' = Heard(build, o.news)
        /\ turn' = IF o.partman.q \in {"done", "left"} THEN "over" ELSE "page"
        /\ request' = Noted(o.error)
        /\ refused' = (refused \/ (o.error # "none" /\ request.is # "none" /\ ~build.on))
        /\ ~TurnedAway(o)
  BY DEF PartmanMoves
<1>2. turn = "partman" /\ turn' = "page" /\ request \in Requests /\ IsBuild(build)
  BY <1>1 DEF PartmanMoves, TypeInv
<1>3. request'.is = request.is /\ (request = NoRequest => request' = NoRequest)
  BY <1>1, <1>2, NotedOnly DEF SameRequest
<1>4. request.is \in Kept /\ request # NoRequest /\ request.is # "none"
  BY <1>3 DEF Kept, NoRequest
<1>5. ~refused /\ UnderWay
  BY <1>1, <1>2, <1>4 DEF InHand
<1>6. CASE Reading
  <2>1. o.news = <<>> /\ o.partman.parts = partman.parts
    <3>1. /\ o.news = <<>>
          /\ \E q, on : o.partman = Asking(q, on, partman.parts)
      BY <1>1, <1>2, <1>6, ReadOpens
    <3> QED BY <3>1, AskedIs
  <2>2. build' = build /\ build.on
    BY <1>1, <1>2, <1>6, <2>1, HeardOnly DEF Reading
  <2>3. CarriedOut(partman.parts, request)
    BY <1>5, <2>2 DEF UnderWay
  <2>4. CarriedOut(partman.parts, request')
    BY <1>1, <1>2, <2>3, NotedKeeps
  <2>5. CarriedOut(partman'.parts, request')
    BY <1>1, <2>1, <2>4
  <2> QED BY <2>2, <2>5 DEF UnderWay
<1>7. CASE Waiting
  <2>1. ~build.on /\ partman.autoDone /\ Answers(partman, request, answer)
    BY <1>2, <1>7 DEF Waiting, Doing
  <2>2. o.error = "none"
    BY <1>1, <1>4, <2>1
  <2>3. request' = request
    BY <1>1, <1>2, <2>2, NotedKeeps
  <2>4. build'.menus = build.menus /\ ~build'.on
    BY <1>1, <1>2, <2>1, HeardOnly
  <2>5. PICK S : S = LeftIn(build.menus, request)
    OBVIOUS
  <2>6. /\ AnsweredInOrder(partman, request, answer, S)
        /\ request.is = "create" => request.method # "same" /\ request.mount # "same"
    BY <1>2, <1>5, <2>1, <2>5 DEF UnderWay
  <2>7. AskedInOrder(o.partman, request, S)
    BY <1>4, <2>1, <2>2, <2>6, PartmanInOrder
  <2>8. LeftIn(build.menus, request)' = S
    BY <2>3, <2>4, <2>5
  <2>9. AskedInOrder(partman, request, LeftIn(build.menus, request))'
    BY <1>1, <2>3, <2>7, <2>8
  <2> QED BY <1>2, <1>5, <2>1, <2>3, <2>4, <2>9 DEF UnderWay
<1>8. CASE Choosing
  BY <1>4, <1>8 DEF Choosing
<1> QED BY <1>6, <1>7, <1>8

(* Waiting, the page keeps to the request or forgets it; and what is       *)
(* refused stays so until then.                                            *)
LEMMA WaitingAsks ==
  ASSUME TypeInv, failure = "none", Waiting, turn = "page", PageAnswers
  PROVE  \/ request' = request /\ (refused => refused')
         \/ request' = NoRequest /\ (request.is \in Kept => refused' = FALSE)
<1>1. ~build.on /\ ~auto.asking /\ IsBuild(build)
  BY DEF Waiting, TypeInv
<1>2. CASE WalkOn \/ WalkSelectDisk \/ WalkNewSize \/ AnswerSelectDisk \/ AnswerAutoSize
           \/ AnswerPassphrase \/ ShowAsk
  BY <1>2 DEF WalkOn, WalkSelectDisk, WalkNewSize, AnswerSelectDisk, AnswerAutoSize,
              AnswerPassphrase, ShowAsk, Collect
<1>3. CASE StartReading
  BY <1>1, <1>3, StartsToRead
<1>4. CASE ReadOn
  BY <1>1, <1>4 DEF ReadOn
<1>5. CASE NothingRead
  <2>1. CASE request.is = "delete"
    BY <1>5, <2>1 DEF NothingRead
  <2>2. CASE request.is # "delete"
    BY <1>5, <2>2 DEF NothingRead, Show
  <2> QED BY <2>1, <2>2
<1>6. CASE OnNewLabel \/ OnFreeSpace \/ OnNewPartitionSize \/ ReadPartition \/ DoRequest
           \/ OnChooseMethod \/ OnMountpoint
  BY <1>6 DEF OnNewLabel, OnFreeSpace, OnNewPartitionSize, ReadPartition, DoRequest,
              OnChooseMethod, OnMountpoint, AsBefore, Unexpected
<1>7. CASE DoDelete
  BY <1>7 DEF DoDelete, Requested, Unexpected, Kept
<1>8. CASE OnConfirmResize
  BY <1>8 DEF OnConfirmResize, AsBefore, Unexpected
<1>9. CASE OnNewSize \/ OnCryptoMenu \/ OnConfirm
  BY <1>9 DEF OnNewSize, OnCryptoMenu, OnConfirm, AsBefore, Unexpected
<1> QED BY <1>2, <1>3, <1>4, <1>5, <1>6, <1>7, <1>8, <1>9 DEF PageAnswers

(* InHand is preserved by every step. *)
LEMMA StaysInHand ==
  ASSUME OnCourse, InHand, [Next]_pageVars, ~turnedAway'
  PROVE  InHand'
<1>1. TypeInv /\ failure = "none" /\ (turn # "over" => Choosing \/ Reading \/ Waiting)
  BY DEF OnCourse
<1>2. NoRequest.is \notin Kept
  BY DEF NoRequest, Kept
<1>3. CASE PartmanMoves
  <2>1. turn # "over"
    BY <1>3 DEF PartmanMoves
  <2> QED BY <1>1, <1>3, <2>1, PartmanKeepsOrder
<1>4. CASE PartmanDies
  BY <1>4 DEF PartmanDies, InHand
<1>5. CASE PageAnswers
  <2>1. turn = "page"
    BY <1>5
       DEF PageAnswers, WalkOn, ShowAsk, WalkSelectDisk, WalkNewSize, AnswerSelectDisk,
           AnswerAutoSize, AnswerPassphrase, StartReading, ReadOn, NothingRead, OnNewLabel,
           OnFreeSpace, OnNewPartitionSize, ReadPartition, DoRequest, DoDelete, OnChooseMethod,
           OnMountpoint, OnConfirmResize, OnNewSize, OnCryptoMenu, OnConfirm, AtChoose, Handles, Asked
  <2> SUFFICES ASSUME request'.is \in Kept, ~refused' PROVE UnderWay'
    BY DEF InHand
  <2>2. request' # NoRequest
    BY <1>2
  <2>3. CASE Choosing
    BY <1>1, <1>5, <2>1, <2>2, <2>3, ChoosingAsksNothing
  <2>4. CASE Reading
    <3>1. partman' = partman /\ request' = request /\ build'.on /\ refused' = refused /\ build.on
      BY <1>1, <1>5, <2>1, <2>2, <2>4, ReadingInOrder DEF Reading
    <3>2. CarriedOut(partman.parts, request)
      BY <2>1, <3>1 DEF InHand, UnderWay
    <3>3. CarriedOut(partman'.parts, request')
      BY <3>1, <3>2
    <3> QED BY <3>1, <3>3 DEF UnderWay
  <2>5. CASE Waiting
    <3>1. request' = request /\ ~refused
      BY <1>1, <1>5, <2>1, <2>2, <2>5, WaitingAsks
    <3>2. UnderWay
      BY <2>1, <3>1 DEF InHand
    <3> QED BY <1>1, <1>5, <2>1, <2>2, <2>5, <3>1, <3>2, WaitingInOrder
  <2> QED BY <1>1, <2>1, <2>3, <2>4, <2>5
<1>6. CASE UserMoves
  <2>1. CASE UserWants
    <3> SUFFICES ASSUME request'.is \in Kept PROVE UnderWay'
      BY DEF InHand
    <3>1. turn = "user" /\ partman.q = "choose"
      BY <2>1 DEF UserWants, AtAdvanced
    <3>2. Waiting
      BY <1>1, <3>1 DEF Choosing, Reading
    <3> QED BY <1>1, <2>1, <3>1, <3>2, WantedInOrder
  <2>2. CASE NextAuto \/ BackAuto \/ NextAdvanced \/ BackAdvanced
    <3>1. turn = "user" /\ request' = request
      BY <2>2 DEF NextAuto, BackAuto, NextAdvanced, BackAdvanced, AtAsk, AtAdvanced, SameElse
    <3>2. request = NoRequest
      BY <1>1, <3>1 DEF Choosing, Reading, Waiting, Doing
    <3> QED BY <1>2, <3>1, <3>2 DEF InHand
  <2> QED BY <1>6, <2>1, <2>2 DEF UserMoves
<1>7. CASE Prepare
  BY <1>2, <1>7 DEF Prepare, Afresh, InHand
<1>8. CASE UNCHANGED pageVars
  <2>1. UNCHANGED <<turn, partman, answer, build, request, refused>>
    BY <1>8 DEF pageVars
  <2>2. UnderWay => UnderWay'
    BY <2>1 DEF UnderWay, LeftIn
  <2> QED BY <2>1, <2>2 DEF InHand
<1> QED BY <1>3, <1>4, <1>5, <1>6, <1>7, <1>8 DEF Next, Ended

(* Until partman turns the page away: what the user asked for on the       *)
(* advanced page is so when the page comes back to him, unless partman or  *)
(* he himself objected.                                                    *)
THEOREM RequestsAreCarriedOut ==
  Spec => [][~turnedAway => AsRequested]_pageVars
<1> DEFINE Inv == Steady /\ (~turnedAway => InHand)
<1>1. Init => Inv
  <2>1. Init => Fresh /\ Basics
    BY DEF Init, Fresh, Basics
  <2>2. Init => InHand
    BY DEF Init, InHand, NoRequest, Kept
  <2> QED BY <2>1, <2>2, AtFirst DEF Steady
<1>2. Inv /\ [Next]_pageVars => Inv'
  <2> SUFFICES ASSUME Steady, ~turnedAway => InHand, [Next]_pageVars, ~turnedAway'
               PROVE  InHand'
    BY StaysSteady
  <2>1. CASE ~turnedAway
    BY <2>1, StaysInHand DEF Steady
  <2>2. CASE turnedAway
    <3>1. PartmanDies \/ Prepare
      <4>1. turnedAway' # turnedAway /\ (PartmanMoves => turnedAway')
        BY <2>2 DEF PartmanMoves
      <4> QED BY <4>1 DEF Next, Ended, pageVars
    <3>2. NoRequest.is \notin Kept
      BY DEF NoRequest, Kept
    <3> QED BY <3>1, <3>2 DEF PartmanDies, Prepare, Afresh, InHand
  <2> QED BY <2>1, <2>2
<1>3. Inv /\ [Next]_pageVars => [~turnedAway => AsRequested]_pageVars
  <2> SUFFICES ASSUME OnCourse, InHand, Next, turn = "page", request # NoRequest,
                      request' = NoRequest, ~refused
               PROVE  CarriedOut(partman.parts, request)
    BY DEF Steady, AsRequested
  <2>1. request.is \notin Kept => CarriedOut(partman.parts, request)
    BY DEF CarriedOut, Kept
  <2>2. ASSUME request.is \in Kept PROVE CarriedOut(partman.parts, request)
    <3>1. UnderWay /\ TypeInv /\ failure = "none" /\ (Choosing \/ Reading \/ Waiting)
      BY <2>2 DEF InHand, OnCourse
    <3>2. PageAnswers
      BY <3>1 DEF Next, PartmanMoves, PartmanDies, UserMoves, NextAuto, BackAuto, UserWants,
                  NextAdvanced, BackAdvanced, AtAsk, AtAdvanced, Prepare, Afresh, Ended
    <3>3. CASE Waiting
      <4>1. ~refused'
        BY <2>2, <3>1, <3>2, <3>3, WaitingAsks
      <4> QED BY <2>2, <3>1, <3>2, <3>3, <4>1, WaitingInOrder
    <3>4. CASE Reading
      BY <3>1, <3>4 DEF Reading, UnderWay
    <3>5. CASE Choosing
      BY <3>5 DEF Choosing
    <3> QED BY <3>1, <3>3, <3>4, <3>5
  <2> QED BY <2>1, <2>2
<1> HIDE DEF Inv
<1> QED BY <1>1, <1>2, <1>3, PTL DEF Spec
=============================================================================
