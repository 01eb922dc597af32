------------------------------ MODULE CopyStage ------------------------------
(***************************************************************************)
(* The install stage, scripts/install.py: it decides which packages' files *)
(* not to copy, makes the live filesystem available, copies it file by     *)
(* file over whatever partman left in the target, adds the kernel, and     *)
(* puts everything back, while update-apt-cache downloads into the target  *)
(* next to it.                                                             *)
(***************************************************************************)
EXTENDS Requests

CONSTANTS
  Source,      \* the live filesystem: a function from paths to nodes
  Walk,        \* its paths in the order os.walk lists them
  Reserved,    \* etc/fstab and etc/crypttab
  Owner,       \* the package each file belongs to, as a set
  Targets,     \* what partman may have left in /target
  ImageModes,  \* how the source may be provided, see MountSource
  Images,      \* image files, in order
  UpdaterDir   \* the directory update-apt-cache creates in the target

(* A path is the sequence of its names; bak counts the suffixes .bak.      *)
Path == Seq([n : STRING, bak : Nat]) \ {<<>>}

VARIABLES
  stage,      \* what install.py does next; "done" when it has exited
  exit,       \* its exit code, once done
  mountpoints, devs,    \* self.mountpoints, self.devs
  mounted, attached,    \* what really is mounted and attached, as sets
  todo,       \* the walk that is left
  target,     \* the target's files
  skipped,    \* files the user let go with a wrong MD5 sum
  tuned,      \* kernel flush times raised, umask 0
  updater,    \* "none", "running", "ended"
  image       \* how the source was provided

mountVars == <<mountpoints, devs, mounted, attached, image>>
copyVars  == <<todo, target, skipped>>
copyStageVars == <<stage, exit, mountVars, copyVars, tuned, updater>>

(* A node: directories have no data, only links point anywhere.            *)
Node(kind, data, to) == [kind |-> kind, data |-> data, to |-> to]
Dir == Node("dir", "none", <<>>)
Parent(p) == SubSeq(p, 1, Len(p) - 1)
Below(p, q) == IsPrefix(p, q)
Bak(p, n) == [p EXCEPT ![Len(p)].bak = @ + n]
Children(t, p) == {q \in DOMAIN t : p # q /\ Below(p, q)}
Without(t, P) == [q \in DOMAIN t \ P |-> t[q]]
With(t, p, node) == [q \in DOMAIN t \cup {p} |-> IF q = p THEN node ELSE t[q]]

(* rename and shutil.move: p and what is below it, to where.               *)
Moved(t, p, where) ==
  LET tree == {q \in DOMAIN t : Below(p, q)}
      To(q) == where \o SubSeq(q, Len(p) + 1, Len(q))
  IN  [q \in (DOMAIN t \ tree) \cup {To(r) : r \in tree} |->
         IF \E r \in tree : To(r) = q THEN t[CHOOSE r \in tree : To(r) = q] ELSE t[q]]

(* os.makedirs *)
WithDirs(t, p) ==
  [q \in DOMAIN t \cup {SubSeq(p, 1, n) : n \in 1 .. Len(p)} |->
     IF q \in DOMAIN t THEN t[q] ELSE Dir]

MoveAside(t, p) ==
  LET free == CHOOSE n \in 1 .. Cardinality(DOMAIN t) + 1 :
                /\ Bak(p, n) \notin DOMAIN t
                /\ \A k \in 1 .. n - 1 : Bak(p, k) \in DOMAIN t
  IN  Moved(t, p, Bak(p, free))

(* rmdir: a directory goes if it is empty.                                 *)
Vacated(t, p) ==
  IF p \in DOMAIN t /\ t[p].kind = "dir" /\ Children(t, p) = {} THEN Without(t, {p}) ELSE t

(* Nothing but directories is on the way to p, and at it.                  *)
Clear(t, p) ==
  \A n \in 1 .. Len(p) : SubSeq(p, 1, n) \in DOMAIN t => t[SubSeq(p, 1, n)].kind = "dir"

\* Mutated: a directory in the way is removed with all that is in it.
RemoveTargetTree(t, p, node) ==
  IF p \notin DOMAIN t \/ (node.kind = "dir" /\ t[p].kind = "dir") THEN t
  ELSE Without(t, {p} \cup Children(t, p))

(* remove_target: out of the way with what is at p, without losing what a  *)
(* directory holds.                                                        *)
RemoveTarget(t, p, node) ==
  IF p \notin DOMAIN t \/ (node.kind = "dir" /\ t[p].kind = "dir") THEN t
  ELSE IF t[p].kind # "dir" \/ Children(t, p) = {} THEN Without(t, {p})
  ELSE IF node.kind = "link" /\ node.to \notin DOMAIN Vacated(t, node.to) \cup {<<>>}
    THEN Moved(WithDirs(Vacated(t, node.to), Parent(node.to)), p, node.to)
  ELSE MoveAside(t, p)

(* What a directory would be moved to has a file on its way, or is in it.  *)
Blocked(t, p, node) ==
  /\ p \in DOMAIN t /\ t[p].kind = "dir" /\ Children(t, p) # {} /\ node.kind = "link"
  /\ \/ ~Clear(t, Parent(node.to))
     \/ Below(p, node.to) /\ node.to \notin DOMAIN Vacated(t, node.to)

(* What is below a path is below a directory.                              *)
IsTree(t) ==
  /\ DOMAIN t \subseteq Path /\ IsFiniteSet(DOMAIN t)
  /\ \A p \in DOMAIN t :
       /\ t[p].kind = "dir" => t[p] = Dir
       /\ \A n \in 1 .. Len(p) - 1 : SubSeq(p, 1, n) \in DOMAIN t /\ t[SubSeq(p, 1, n)] = Dir

(* os.walk lists a directory before what is in it.                         *)
ASSUME SourceAssumption ==
  /\ IsTree(Source) /\ \A p \in DOMAIN Source : Source[p].kind = "link" => Source[p].to \in Path \cup {<<>>}
  /\ Walk \in Seq(DOMAIN Source) /\ ToSet(Walk) = DOMAIN Source
  /\ \A i, j \in DOMAIN Walk : Below(Walk[i], Walk[j]) => i <= j
  /\ Reserved \subseteq {p \in DOMAIN Source : Source[p] # Dir}
  /\ UpdaterDir \in DOMAIN Source /\ Source[UpdaterDir] = Dir
ASSUME TargetsAssumption == \A t \in Targets : IsTree(t)
ASSUME ImageAssumption ==
  ImageModes \subseteq {"rofs", "union", "detected", "one", "several"} /\ Images \in Seq(STRING)

-----------------------------------------------------------------------------
CopyInit ==
  /\ stage = "init" /\ exit = 0
  /\ mountpoints = <<>> /\ devs = <<>> /\ mounted = {} /\ attached = {} /\ image = "none"
  /\ todo = <<>> /\ target \in Targets /\ skipped = {}
  /\ tuned = FALSE /\ updater = "none"

Fails(code) == stage' = "done" /\ exit' = code

(* __init__ and the way into run(): language packs, AD tools and the like  *)
(* are recorded as wanted; then the blacklist is computed, if the preseed  *)
(* generate-blacklist says so.  With oem-config there is nothing to copy.  *)
Prepare ==
  /\ stage = "init"
  /\ IF oem THEN stage' = "done" /\ UNCHANGED requestVars
     ELSE /\ stage' = "mount"
          /\ \E extra \in SUBSET Optional, generate \in BOOLEAN :
               LET kept == Langpacks \cup AdTools \cup extra
               IN  /\ installs' = kept
                   /\ unwanted' \in {Unwanted, {}} /\ restricted' \in {Restricted, {}}
                   /\ blacklist' = IF generate
                        THEN Blacklist(Live, unwanted' \cup (restricted' \cap Live),
                                       kept \cup Grub)
                        ELSE {}
          /\ UNCHANGED <<removals, oem>>
  /\ UNCHANGED <<exit, mountVars, copyVars, tuned, updater>>

(* mount_one_image: a loop device for it; if that cannot be mounted, mount *)
(* -o loop, whose failure goes unnoticed.                                  *)
MountOneImage(dev, point) ==
  /\ mountpoints' = Append(mountpoints, point)
  /\ \/ /\ devs' = Append(devs, dev) /\ attached' = attached \cup {dev}
        /\ mounted' = mounted \cup {point}
     \/ /\ devs' = Append(devs, "unused") /\ UNCHANGED attached
        /\ mounted' \in {mounted, mounted \cup {point}}

AllMounted == image = "several" => Len(mountpoints) = Len(Images)

(* mount_source, until the images (if there are several) are all mounted:  *)
(* a bind mount of a mounted squashfs, an image found in a usual place,    *)
(* none, one preseeded image, whose mount follows a raise and is never     *)
(* reached, or several.                                                    *)
MountSource ==
  /\ stage = "mount"
  /\ \/ /\ image = "none" /\ image' \in ImageModes
        /\ CASE image' = "union" ->
                  /\ mountpoints' = <<"source">> /\ mounted' \in {{}, {"source"}}
                  /\ UNCHANGED <<devs, attached>>
             [] image' = "detected" -> MountOneImage("loop0", "source")
             [] OTHER -> UNCHANGED <<mountpoints, devs, mounted, attached>>
     \/ /\ image = "several" /\ ~AllMounted
        /\ LET i == Images[Len(mountpoints) + 1] IN MountOneImage(i, i)
        /\ UNCHANGED image
  /\ UNCHANGED <<stage, exit, requestVars, copyVars, tuned, updater>>

(* No loop device left, or a preseeded image that does not exist.          *)
MountFails ==
  /\ stage = "mount" /\ image \in {"one", "detected", "several"}
  /\ image # "one" => mountpoints = <<>> \/ ~AllMounted
  /\ Fails(1)
  /\ UNCHANGED <<requestVars, mountVars, copyVars, tuned, updater>>

(* Several images are joined by a union mount; then the copy begins, of    *)
(* whatever the source directory shows.                                    *)
StartCopy ==
  /\ stage = "mount" /\ image # "none" /\ AllMounted
  /\ IF image = "several"
       THEN /\ mountpoints' = Append(mountpoints, "source")
            /\ mounted' \in {mounted, mounted \cup {"source"}}
       ELSE UNCHANGED <<mountpoints, mounted>>
  /\ todo' = IF image = "rofs" \/ "source" \in mounted' THEN Walk ELSE <<>>
  /\ stage' = "copy" /\ tuned' = TRUE
  /\ updater' \in {"none", "running"}
  /\ UNCHANGED <<exit, requestVars, devs, attached, image, target, skipped>>

-----------------------------------------------------------------------------
(* copy_all *)

(* Reserved files are partman's; a blacklisted file is left out, unless it *)
(* is at the top.                                                          *)
NotCopied(p) ==
  \/ p \in Reserved
  \/ Source[p].kind # "dir" /\ Len(p) > 1 /\ Owner[p] \cap blacklist # {}

Skip ==
  /\ stage = "copy" /\ todo # <<>> /\ NotCopied(Head(todo))
  /\ todo' = Tail(todo)
  /\ UNCHANGED <<stage, exit, requestVars, mountVars, target, skipped, tuned,
                 updater>>

\* Mutated: only a directory that is in the way makes room.
MakeRoomForDirs ==
  /\ stage = "copy" /\ todo # <<>> /\ ~NotCopied(Head(todo))
  /\ ~Blocked(target, Head(todo), Source[Head(todo)])
  /\ target' = IF Head(todo) \in DOMAIN target /\ target[Head(todo)].kind = "dir"
                 THEN RemoveTarget(target, Head(todo), Source[Head(todo)]) ELSE target
  /\ stage' = IF Head(todo) \in DOMAIN target' THEN "metadata" ELSE "create"
  /\ UNCHANGED <<exit, requestVars, mountVars, todo, skipped, tuned, updater>>

(* remove_target, and the look whether a directory is there already.       *)
MakeRoom ==
  /\ stage = "copy" /\ todo # <<>> /\ ~NotCopied(Head(todo))
  /\ ~Blocked(target, Head(todo), Source[Head(todo)])
  /\ target' = RemoveTarget(target, Head(todo), Source[Head(todo)])
  /\ stage' = IF Head(todo) \in DOMAIN target' THEN "metadata" ELSE "create"
  /\ UNCHANGED <<exit, requestVars, mountVars, todo, skipped, tuned, updater>>

(* A directory that update-apt-cache made since is as good.                *)
Create ==
  /\ stage = "create"
  /\ IF Head(todo) \in DOMAIN target /\ Source[Head(todo)].kind # "dir"
       THEN Fails(1) /\ UNCHANGED target
     ELSE /\ target' = IF Head(todo) \in DOMAIN target THEN target
                       ELSE With(target, Head(todo), Source[Head(todo)])
          /\ stage' = "metadata" /\ UNCHANGED exit
  /\ UNCHANGED <<requestVars, mountVars, todo, skipped, tuned, updater>>

(* copy_file with md5_check: the sums differ, and the user says so what,   *)
(* again, or stop.  Without the check a bad copy is not noticed; that is   *)
(* left out.                                                               *)
Mismatch ==
  /\ stage = "create" /\ Source[Head(todo)].kind = "file"
  /\ \/ /\ skipped' = skipped \cup {Head(todo)}
        /\ target' = With(target, Head(todo), Node("file", "bad", <<>>))
        /\ stage' = "metadata" /\ UNCHANGED exit
     \/ target' = With(target, Head(todo), Node("file", "bad", <<>>))
        /\ UNCHANGED <<skipped, stage, exit>>
     \/ Fails(3) /\ UNCHANGED <<skipped, target>>
  /\ UNCHANGED <<requestVars, mountVars, todo, tuned, updater>>

Retry ==
  /\ stage = "create" /\ Source[Head(todo)].kind = "file"
  /\ Head(todo) \in DOMAIN target /\ target[Head(todo)].data = "bad"
  /\ target' = With(target, Head(todo), Source[Head(todo)])
  /\ stage' = "metadata"
  /\ UNCHANGED <<exit, requestVars, mountVars, todo, skipped, tuned, updater>>

(* Owner, mode and times; failing to set them is an error like any other.  *)
SetMetadata ==
  /\ stage = "metadata"
  /\ stage' = "copy" /\ todo' = Tail(todo)
  /\ UNCHANGED <<exit, requestVars, mountVars, target, skipped, tuned, updater>>

(* An EnvironmentError, from remove_target as well: 3 when run() has told  *)
(* the user why, 1 otherwise.                                              *)
CopyFails ==
  /\ stage \in {"create", "metadata"} \/ (stage = "copy" /\ todo # <<>> /\ ~NotCopied(Head(todo)))
  /\ \E code \in {1, 3} : Fails(code)
  /\ UNCHANGED <<requestVars, mountVars, copyVars, tuned, updater>>

(* The walk is over: flush times are restored, the kernel of the CD copied *)
(* if there is one (its unsigned form may have to be made), the umask put  *)
(* back.                                                                   *)
FinishCopy ==
  /\ stage = "copy" /\ todo = <<>>
  /\ \/ stage' = "unmount" /\ tuned' = FALSE /\ UNCHANGED exit
     \/ \E code \in {1, 3} : Fails(code) /\ UNCHANGED tuned
  /\ UNCHANGED <<requestVars, mountVars, copyVars, updater>>

-----------------------------------------------------------------------------
(* umount_source: the mount points, last first, then the loop devices;     *)
(* what is not mounted cannot be unmounted, and ends the stage.            *)
UnmountSource ==
  /\ stage = "unmount" /\ image # "rofs"
  /\ IF mountpoints # <<>>
       THEN /\ mountpoints' = Front(mountpoints) /\ UNCHANGED <<devs, attached>>
            /\ IF Last(mountpoints) \in mounted
                 THEN mounted' = mounted \ {Last(mountpoints)} /\ UNCHANGED <<stage, exit>>
                 ELSE UNCHANGED mounted /\ Fails(1)
     ELSE IF devs # <<>>
       THEN /\ devs' = Front(devs) /\ attached' = attached \ {Last(devs)}
            /\ UNCHANGED <<mountpoints, mounted, stage, exit>>
     ELSE stage' = "reap" /\ UNCHANGED <<mountpoints, mounted, devs, attached, exit>>
  /\ UNCHANGED <<requestVars, image, copyVars, tuned, updater>>

NothingToUnmount ==
  /\ stage = "unmount" /\ image = "rofs"
  /\ stage' = "reap"
  /\ UNCHANGED <<exit, requestVars, mountVars, copyVars, tuned, updater>>

(* The updater gets SIGTERM up to ten times, then SIGKILL.                 *)
KillUpdater ==
  /\ stage = "reap"
  /\ updater' = IF updater = "none" THEN "none" ELSE "ended"
  /\ stage' = "done" /\ exit' = 0
  /\ UNCHANGED <<requestVars, mountVars, copyVars, tuned>>

(* update-apt-cache, next to all this: mkdir -p where apt downloads to,    *)
(* which fails if a file is in the way; it ends by itself, or is killed.   *)
UpdaterMakesDir ==
  /\ updater = "running" /\ UpdaterDir \notin DOMAIN target
  /\ Clear(target, UpdaterDir)
  /\ target' = WithDirs(target, UpdaterDir)
  /\ UNCHANGED <<stage, exit, requestVars, mountVars, todo, skipped, tuned, updater>>

UpdaterEnds ==
  /\ updater = "running" /\ updater' = "ended"
  /\ UNCHANGED <<stage, exit, requestVars, mountVars, copyVars, tuned>>

CopyNext ==
  \/ Prepare \/ MountSource \/ MountFails \/ StartCopy
  \/ Skip \/ MakeRoom \/ Create \/ Mismatch \/ Retry \/ SetMetadata \/ CopyFails
  \/ FinishCopy \/ UnmountSource \/ NothingToUnmount \/ KillUpdater
  \/ UpdaterMakesDir \/ UpdaterEnds

-----------------------------------------------------------------------------
Copied == stage = "done" /\ exit = 0 /\ ~oem

(* Unless the user let a bad copy pass, every file of the live system that *)
(* is not blacklisted is in the target as it is in the source, when        *)
(* install.py exits with 0: whatever was in the target before, and         *)
(* whatever failed on the way; and nothing of what the stage set up is     *)
(* left behind: flush times, mounts, loop devices, the updater (copy_all,  *)
(* copy_file, mount_source, umount_source, run).  Not so with a single     *)
(* preseeded image: it is never mounted (install.py:688-696), nothing is   *)
(* copied, and the exit is 0.                                              *)
CopiesTheSource ==
  Copied =>
    /\ image # "one" =>
         \A p \in DOMAIN Source \ skipped :
           NotCopied(p) \/ (p \in DOMAIN target /\ target[p] = Source[p])
    /\ ~tuned /\ mounted = {} /\ attached = {} /\ updater # "running"

(* What a directory of the target held before the copy is never lost, at   *)
(* most moved aside or to where the new link points; partman's fstab stays *)
(* what it was (remove_target, copy_all).                                  *)
NothingLost ==
  [][stage # "done" => \A p \in DOMAIN target :
       target[p].data = "old" =>
         \/ p \in DOMAIN Source /\ p \notin Reserved /\ stage = "copy"
         \/ \E q \in DOMAIN target' : target'[q].data = "old"
              /\ Last(q).n = Last(p).n]_target

(* What the user asked to keep is copied with all it needs of the live     *)
(* system, and no copied program lacks a library that was blacklisted      *)
(* (generate_blacklist; debian/changelog 9767).                            *)
NoFilesMissing ==
  stage = "mount" => /\ installs \cap blacklist = {}
                    /\ Broken(Live \ blacklist) = {}
=============================================================================
