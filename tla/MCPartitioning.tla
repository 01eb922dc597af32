--------------------------- MODULE MCPartitioning ---------------------------
(***************************************************************************)
(* A disk in use as a whole, with a partition on it that is not marked, a  *)
(* disk of two places with one partition, and a third disk that is one     *)
(* partition, in use.                                                      *)
(***************************************************************************)
EXTENDS PartitioningPage

MCDeviceOf == <<"sda", "sdb", "sdb", "sdc">>
Partition(slot, num, mount) == [slot |-> slot, num |-> num, method |-> "ext4", mount |-> mount]
MCInitial ==
  {Partition(<<1, 1>>, 1, ""), Partition(<<2, 2>>, 1, ""), Partition(<<4, 4>>, 1, "")}
MCAutoChoices == <<"resize", "some_device", "some_device_crypto", "manual">>
MCRecipe ==
  {Partition(<<1, 1>>, 1, ""), Partition(<<2, 3>>, 1, "/"), Partition(<<4, 4>>, 1, "")}
MCFirstMounts == <<"/">>
MCLocked == {<<4, 4>>}
=============================================================================
