----------------------------- MODULE TargetRoot -----------------------------
(***************************************************************************)
(* The target's root while programs run in it: what is mounted under       *)
(* /target, and which of its programs are diverted so that package         *)
(* operations start no daemon.  Every mount and unmount is a command whose *)
(* failure nobody looks at (misc.execute).                                 *)
(***************************************************************************)
EXTENDS Naturals

CONSTANTS
  Efi,          \* /sys/firmware/efi/efivars exists
  Display       \* DISPLAY is set: an X server to share

ASSUME RootAssumption == Efi \in BOOLEAN /\ Display \in BOOLEAN

Points == {"proc", "sys", "dev", "run", "efivars", "securityfs", "x11", "cdrom"}
Diversions == {"policy-rc.d", "start-stop-daemon", "initctl", "update-initramfs"}

(* mounts counts the mounts stacked on each point.                         *)
CleanRoot == [mounts |-> [p \in Points |-> 0], diverted |-> {}]

(* One more mount on each of the points; what does not exist cannot be     *)
(* bound.                                                                  *)
MountAll(root, points) ==
  [root EXCEPT !.mounts = [p \in Points |->
     IF p \in points /\ (p = "efivars" => Efi) THEN @[p] + 1 ELSE @[p]]]
Mount(root, p) == MountAll(root, {p})

(* What is mounted below a point keeps it busy.                            *)
Busy(root, p) ==
  p = "sys" /\ (root.mounts["efivars"] > 0 \/ root.mounts["securityfs"] > 0)

(* One mount less on each of the points, as long as none of them is tried  *)
(* after one below it.                                                     *)
UmountAll(root, points) ==
  [root EXCEPT !.mounts = [p \in Points |->
     IF p \in points /\ @[p] > 0 /\ ~Busy(root, p) THEN @[p] - 1 ELSE @[p]]]
Umount(root, p) == UmountAll(root, {p})

Divert(root, what) == [root EXCEPT !.diverted = @ \cup what]
Restore(root, what) == [root EXCEPT !.diverted = @ \ what]

Daemons == {"policy-rc.d", "start-stop-daemon", "initctl"}

Binds == {"proc", "sys", "dev", "run"}

X11(x11) == IF x11 /\ Display THEN {"x11"} ELSE {}

(* proc and sys are mounted only if they are not.                          *)
ChrootSetup(root, x11) ==
  LET there == {p \in {"proc", "sys"} : root.mounts[p] > 0}
  IN  MountAll(Divert(root, Daemons), (Binds \ there) \cup X11(x11))

\* Mutated: the display's socket directory stays mounted.
CleanupForgetsX(root, x11) == Restore(UmountAll(root, Binds), Daemons)

(* Display must not have changed since chroot_setup.                       *)
ChrootCleanup(root, x11) == Restore(UmountAll(root, Binds \cup X11(x11)), Daemons)

(* configure_bootloader unmounts /sys before what it bound below it.       *)
BootloaderBinds == Binds \cup {"efivars"}
=============================================================================
