------------------------------- MODULE Partman -------------------------------
(***************************************************************************)
(* partman as the partitioning page meets it, the d-i packages partman: a  *)
(* program that asks one question after another, where each answer, and    *)
(* what becomes of the work between, leads to the next question.  Outcomes *)
(* gives every question that may follow an answer.  Saving the partitions  *)
(* is not done here: partman runs with PARTMAN_NO_COMMIT.                  *)
(***************************************************************************)
EXTENDS PartitionTable

CONSTANTS
  Initial,       \* the partition table found
  LockedParts,   \* slots of partitions in use
  LockedDevices, \* devices in use as a whole
  AutoChoices,   \* the menu of automatic partitioning, in order
  Recipe,        \* the table the recipes make
  Fallback,      \* the method a new partition gets: partman/default_filesystem
  FirstMounts    \* the mount points new partitions get, the first that is free

ASSUME PartmanAssumption ==
  /\ IsTable(Initial) /\ IsTable(Recipe)
  /\ Fallback \in STRING /\ FirstMounts \in Seq(STRING)
  /\ LockedParts \subseteq {p.slot : p \in Initial}
  /\ AutoChoices \in Seq({"resize", "reuse", "some_device", "some_device_crypto", "manual"})

(* A partman: the question it asks, the slot it asks about, its table, and *)
(* whether automatic partitioning is over, or no disk is fit for it.       *)
Start == [q |-> "init", on |-> <<>>, parts |-> Initial, autoDone |-> FALSE]

Nothing == <<>>
ALL == <<0, 0>>

(* An outcome: partman after it, the slots update.d or undo.d tells of     *)
(* through ubiquity/partman-rebuild-cache, and the error shown on the way. *)
To(s, q, on) ==
  [partman |-> [q |-> q, on |-> on, parts |-> s.parts, autoDone |-> s.autoDone],
   news |-> <<>>, error |-> "none"]
Telling(outcome, news) == [outcome EXCEPT !.news = news]
After(error, outcome) == [outcome EXCEPT !.error = error]
Updated(s, parts) == [s EXCEPT !.parts = parts]

(* display.d in partman's main loop: initial_auto the first time, then     *)
(* manual_partitioning.                                                    *)
Display(s) ==
  IF s.autoDone THEN To(s, "choose", Nothing)
  ELSE To([s EXCEPT !.autoDone = TRUE], "auto", Nothing)

(* check.d, then confirm_changes.                                          *)
Check(s) == {To(s, "confirm", Nothing), After("check", Display(s))}

-----------------------------------------------------------------------------
(* autopartition: a recipe that cannot be applied asks for another choice. *)
Guided(s) == Check(Updated(s, Recipe)) \cup {After("recipe", To(s, "auto", Nothing))}

(* display.d/initial_auto with the options of automatically_partition      *)
InitialAuto(s, a) ==
  CASE a.is = "back" -> {To(s, "left", Nothing)}
    [] a.is = "some_device" -> {To(s, "select_disk", Nothing)}
    [] a.is = "some_device_crypto" -> {To(s, "select_disk", <<"crypto">>)}
    [] a.is = "resize" ->
         {To(s, "confirm_resize", Nothing), After("impossible_resize", To(s, "auto", Nothing))}
    [] a.is = "reuse" -> Guided(s)
    [] a.is = "manual" -> {To(s, "choose", Nothing)}

SelectDisk(s, a) ==
  IF a.is = "back" THEN {To(s, "auto", Nothing)}
  ELSE IF s.on = <<"crypto">> THEN {To(s, "passphrase", <<"auto">>)}
  ELSE Guided(s)

-----------------------------------------------------------------------------
(* choose_partition/partition_tree/do_option: what is locked is refused.   *)
InUse(slot) == slot \in LockedParts \/ Device(slot) \in LockedDevices
OpenPartition(s, slot) ==
  IF InUse(slot)
  THEN {After("locked", To(s, "choose", Nothing))}
  ELSE IF slot \in FreeSlots(s.parts) THEN {To(s, "free_space", slot)}
  ELSE {To(s, "active", slot)}

OpenDevice(s, device) ==
  IF device \in LockedDevices \/ \E slot \in LockedParts : Device(slot) = device
  THEN {After("locked", To(s, "choose", Nothing))}
  ELSE {To(s, "confirm_new_label", device)}

(* crypto/do_option commits what was done so far before its menu.  When    *)
(* that fails init.d is run again, and with it update_partitions.          *)
OpenVolumes(s) ==
  {To(s, "crypto", Nothing),
   After("commit_failed", Telling(To(s, "choose", Nothing), Entries(s.parts)))}

(* choose_partition                                                        *)
Choose(s, a) ==
  CASE a.is = "back" -> {To(s, "left", Nothing)}
    [] a.is = "partition" -> OpenPartition(s, a.on)
    [] a.is = "device" -> OpenDevice(s, a.on)
    [] a.is = "undo" -> {Telling(To(Updated(s, Initial), "choose", Nothing), <<ALL>>)}
    [] a.is = "crypto" -> OpenVolumes(s)
    [] a.is = "finish" -> Check(s)

(* storage_device/label/do_option                                          *)
NewLabel(s, a) ==
  LET cleared == {p \in s.parts : Device(p.slot) # s.on}
  IN  {IF a.is # "true" THEN To(s, "choose", Nothing)
       ELSE Telling(To(Updated(s, cleared), "choose", Nothing), EntriesOn(cleared, s.on))}

FreeSpace(s, a) ==
  {IF a.is = "new" THEN To(s, "new_partition_size", s.on) ELSE To(s, "choose", Nothing)}

(* free_space/new/do_option: a size that is refused is asked for again; if *)
(* the partition is made its menu follows, and all is told either way.     *)
FreeMount(parts) ==
  LET free == {i \in DOMAIN FirstMounts : \A p \in parts : p.mount # FirstMounts[i]}
  IN  IF free = {} THEN "" ELSE FirstMounts[CHOOSE i \in free : \A j \in free : i <= j]
NewPartition(s, a) ==
  LET slot == NewSlot(s.on, a.size, a.place)
      made == WithNew(s.parts, slot, Fallback, FreeMount(s.parts))
  IN  IF a.is = "back" THEN {To(s, "choose", Nothing)}
      ELSE {After("bad_new_partition_size", To(s, "new_partition_size", s.on)),
            After("not made",
                  Telling(To(s, "choose", Nothing), EntriesOn(s.parts, Device(s.on)))),
            Telling(To(Updated(s, made), "active", slot), EntriesOn(made, Device(s.on)))}

-----------------------------------------------------------------------------
(* active_partition: the menu of a partition.                              *)
Mountable(method) == method \notin {"swap", "crypto"}
Items(p) == {"method", "resize"} \cup IF Mountable(p.method) THEN {"mountpoint"} ELSE {}

Active(s, a) ==
  LET rest == {p \in s.parts : p.slot # s.on}
  IN CASE a.is \in {"back", "finish"} -> {To(s, "choose", Nothing)}
       [] a.is = "delete" ->
            {Telling(To(Updated(s, rest), "choose", Nothing), EntriesOn(rest, Device(s.on)))}
       [] a.is = "resize" ->
            {After("impossible_resize", To(s, "active", s.on)),
             To(s, "confirm_resize", s.on),   \* the file system is real
             To(s, "new_size", s.on)}         \* not yet on disk
       [] a.is = "method" -> {To(s, "choose_method", s.on)}
       [] a.is = "mountpoint" -> {To(s, "mountpoint", s.on)}

(* What is set of a partition is told, and its menu comes again.           *)
Set(s, p) ==
  Telling(To(Updated(s, {o \in s.parts : o.slot # p.slot} \cup {p}), "active", s.on), <<s.on>>)

ChooseMethod(s, a) ==
  {IF a.is = "back" THEN To(s, "active", s.on)
   ELSE Set(s, [At(s.parts, s.on) EXCEPT !.method = a.method,
                                         !.mount = IF Mountable(a.method) THEN @ ELSE ""])}

(* select_mountpoint: a bad one is refused and asked for again.            *)
Mountpoint(s, a) ==
  IF a.is = "back" THEN {To(s, "active", s.on)}
  ELSE IF a.mount # "" THEN {To(s, "mountpoint_manual", s.on)}
  ELSE {Set(s, [At(s.parts, s.on) EXCEPT !.mount = ""])}

MountpointManual(s, a) ==
  IF a.is = "back" THEN {To(s, "mountpoint", s.on)}
  ELSE {Set(s, [At(s.parts, s.on) EXCEPT !.mount = a.mount]),
        After("bad_mountpoint", To(s, "mountpoint_manual", s.on))}

-----------------------------------------------------------------------------
(* Resizing, from a partition's menu or, with Nothing, in the automatic    *)
(* way.  Once done the partition has another id.                           *)
ConfirmResize(s, a) ==
  {IF a.is = "true" THEN To(s, "new_size", s.on)
   ELSE IF s.on = Nothing THEN To(s, "auto", Nothing) ELSE To(s, "active", s.on)}

NewSize(s, a) ==
  LET p == At(s.parts, s.on)
      resized == WithResized(s.parts, p, a.size)
      bad == After("bad_new_size", To(s, "new_size", s.on))
  IN CASE a.is = "back" -> {IF s.on = Nothing THEN To(s, "auto", Nothing) ELSE To(s, "active", s.on)}
       [] a.is # "back" /\ s.on = Nothing -> {bad} \cup Guided(s)
       [] a.is # "back" /\ s.on # Nothing ->
            {bad, After("new_size_commit_failed", To(s, "choose", Nothing))}
              \cup IF Fits(s.parts, p, a.size)
                   THEN {Telling(To(Updated(s, resized), "choose", Nothing), Entries(resized))}
                   ELSE {}

(* crypto_setup: for the passphrase, then partman starts over with the     *)
(* volumes opened; or it cannot.                                           *)
Passphrase(s, a) ==
  IF s.on = <<"auto">> THEN Guided(s)
  ELSE {Telling(To(s, "choose", Nothing), Entries(s.parts)),
        After("commit_failed", To(s, "choose", Nothing))}

(* confirm_changes; nothing is committed.                                  *)
Confirm(s, a) ==
  {IF a.is = "true" THEN To(s, "done", Nothing) ELSE Display(s)}

Outcomes(s, a) ==
  CASE s.q = "init" -> {Display(s)}
    [] s.q = "auto" -> InitialAuto(s, a)
    [] s.q = "select_disk" -> SelectDisk(s, a)
    [] s.q = "passphrase" -> Passphrase(s, a)
    [] s.q = "choose" -> Choose(s, a)
    [] s.q = "confirm_new_label" -> NewLabel(s, a)
    [] s.q = "free_space" -> FreeSpace(s, a)
    [] s.q = "new_partition_size" -> NewPartition(s, a)
    [] s.q = "active" -> Active(s, a)
    [] s.q = "choose_method" -> ChooseMethod(s, a)
    [] s.q = "mountpoint" -> Mountpoint(s, a)
    [] s.q = "mountpoint_manual" -> MountpointManual(s, a)
    [] s.q = "confirm_resize" -> ConfirmResize(s, a)
    [] s.q = "new_size" -> NewSize(s, a)
    [] s.q = "crypto" -> {To(s, "passphrase", <<"manual">>)}
    [] s.q = "confirm" -> Confirm(s, a)
=============================================================================
