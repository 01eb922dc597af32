------------------------------ MODULE LastPhase ------------------------------
(***************************************************************************)
(* The last phase of the installation, scripts/plugininstall.py: one       *)
(* process configures the copied system phase by phase, with programs run  *)
(* in its root, packages installed and removed in it, and one progress bar *)
(* for it all.  A phase either goes on to the next, or raises an exception *)
(* that ends the script through cleanup().                                 *)
(***************************************************************************)
EXTENDS Requests, TargetRoot

CONSTANTS
  Plugins,      \* how many plugins besides language have something to install
  AutoInst,     \* packages of the live system that apt counts as automatic
  Multiarch,    \* packages that depend on a foreign architecture's
  LateRequests, \* what plugins, hw-detect and the boot loader may ask for
  AdCli,        \* the one of AdTools that only joining needs
  OemConfig,    \* oem-config-gtk, with what depends on it
  Missing,      \* packages no archive of the target has
  Nonfree       \* ubiquity/nonfree_package

ASSUME LastPhaseAssumption ==
  /\ Plugins \in Nat /\ AutoInst \subseteq Live /\ AdCli \subseteq AdTools
  /\ Multiarch \cup LateRequests \cup OemConfig \cup Missing \cup Nonfree \subseteq Package

VARIABLES
  phase,     \* the phase to come; "waiting" before, "done" after
  failed,    \* the phase that raised an exception, or "none"
  pluginsLeft,
  count,     \* self.count, how far the progress bar's regions have got
  position,  \* what the bar was last set to
  bars,      \* progress bars started and not stopped
  direct,    \* apt-install-direct exists
  dpkg,      \* the target's packages: installed, auto, hollow, and whether broken
  root,      \* the target's root, see TargetRoot
  aptConf,   \* configuration in the target for the installation only
  keys,      \* crypto keys are in debconf's database
  trouble    \* what went wrong and was passed over: a history variable

barVars == <<count, position, bars>>
lastVars == <<phase, failed, pluginsLeft, barVars, direct, dpkg, root, aptConf, keys, trouble>>

(* __init__ and run(): the bar starts where install.py's ended.            *)
StartCount == IF oem THEN 0 ELSE 74
End == StartCount + 22 + (Plugins + 1)

LastInit ==
  /\ phase = "waiting" /\ failed = "none" /\ pluginsLeft = Plugins
  /\ count = 0 /\ position = 0 /\ bars = 0 /\ direct = FALSE
  /\ dpkg = [installed |-> {}, auto |-> {}, hollow |-> {}, broken |-> FALSE]
  /\ root = CleanRoot /\ aptConf = {} /\ keys = FALSE /\ trouble = {}

(* The copied system: all live packages count as installed, those whose    *)
(* files were left out as well; the user may have asked for encryption.    *)
StartLastPhase ==
  /\ phase = "waiting" /\ phase' = "python"
  /\ count' = StartCount /\ position' = StartCount /\ bars' = 1
  /\ dpkg' = [installed |-> Live, auto |-> AutoInst, hollow |-> blacklist, broken |-> FALSE]
  /\ keys' \in BOOLEAN
  /\ UNCHANGED <<failed, pluginsLeft, direct, root, aptConf, trouble, requestVars>>

-----------------------------------------------------------------------------
(* next_region *)
NextRegion(size) == position' = count /\ count' = count + size

SameRegion == UNCHANGED <<count, position>>
Goes(next) == phase' = next /\ UNCHANGED failed
Raises == phase' = "cleanup" /\ failed' = phase

(* chroot_setup, something, chroot_cleanup; nothing of it when the target  *)
(* is /.                                                                   *)
InChroot(r, x11) == IF oem THEN r ELSE ChrootCleanup(ChrootSetup(r, x11), x11)

(* d with all of now installed; of what is new, what is not of the packages *)
(* was installed for them and is marked as automatic.                      *)
Completed(d, packages, now) ==
  [d EXCEPT !.installed = now, !.auto = @ \cup (now \ (d.installed \cup packages))]

(* mark_install passes over what is not in apt's cache.  If what is left   *)
(* cannot all be installed, resolve_by_keep keeps some of it back, without *)
(* a word to the user.                                                     *)
InCache(d) == d.installed \cup (Package \ Missing)
Marked(d, packages) == WithDependencies(d.installed, packages \cap InCache(d))
KeptBack(d, packages) ==
  {d.installed \cup more : more \in SUBSET ((Marked(d, packages) \ d.installed) \ Missing)}

(* What do_install may leave of d, by what went wrong; apt never marks     *)
(* what breaks a package.                                                  *)
Changed(d, packages, marked) ==
  {Completed(d, packages, now) :
     now \in {m \in marked : m \subseteq InCache(d) /\ Broken(m) \subseteq Broken(d.installed)}}
InstallEnds(d, packages, wrong) ==
  LET after == Changed(d, packages, IF wrong = {} THEN {Marked(d, packages)} ELSE KeptBack(d, packages))
  IN  IF wrong = {"download"} THEN {d}
      ELSE after \cup {[e EXCEPT !.broken = TRUE] : e \in {e \in after : "dpkg" \in wrong}}

(* compat/apt-install, run by plugins and debconf modules: the packages    *)
(* are recorded and, in direct mode, what is not installed is installed by *)
(* apt-get, which may fail.                                                *)
Request(packages) ==
  /\ installs' = installs \cup packages
  /\ UNCHANGED <<removals, blacklist, unwanted, restricted, oem>>
  /\ \E wrong \in SUBSET (IF direct /\ ~dpkg.broken THEN {"dpkg"} ELSE {}) :
       /\ dpkg' \in {dpkg} \cup (IF direct /\ ~dpkg.broken THEN InstallEnds(dpkg, packages, wrong) ELSE {})
       /\ trouble' = trouble \cup wrong
                       \cup (IF packages \subseteq installs THEN {} ELSE {"late request"})

(* do_install: nothing with broken packages about; an InstallStepError     *)
(* when the packages conflict, before the bar it started is stopped; a     *)
(* failed download is passed over, a failed dpkg run the user is told of.  *)
(* end says how it ended.                                                  *)
DoInstall(packages, end) ==
  \/ dpkg.broken /\ end = "ok" /\ UNCHANGED <<dpkg, root, bars, trouble>>
  \/ /\ ~dpkg.broken /\ end = "conflict" /\ bars' = bars + 1
     /\ UNCHANGED <<dpkg, root, trouble>>
  \/ /\ ~dpkg.broken /\ end = "ok" /\ root' = InChroot(root, FALSE) /\ UNCHANGED bars
     /\ \E wrong \in {{}, {"kept back"}, {"download"}, {"dpkg"}} :
          dpkg' \in InstallEnds(dpkg, packages, wrong) /\ trouble' = trouble \cup wrong

(* What do_remove leaves of dpkg's state: what get_remove_list finds, and  *)
(* what is not needed any more, is gone.                                   *)
Remaining(d, packages, recursive) ==
  {LET kept == d.installed \ RemoveList(d.installed, order, recursive)
       rest == kept \ AutoRemovable(kept, d.auto)
   IN  [d EXCEPT !.installed = rest, !.auto = @ \cap rest, !.hollow = @ \cap rest] :
     order \in Orders(packages \cap d.installed)}

RemoveEnds(packages, recursive, failure) ==
  LET ends == Remaining(dpkg, packages, recursive)
  IN  ends \cup (IF failure = {} THEN {}
                 ELSE {[d EXCEPT !.broken = b] : b \in BOOLEAN, d \in ends \cup {dpkg}})

(* do_remove; whether it fails and leaves dpkg broken, the user is told.   *)
DoRemove(packages, recursive) ==
  \/ dpkg.broken /\ UNCHANGED <<dpkg, root, trouble>>
  \/ /\ ~dpkg.broken /\ root' = InChroot(root, FALSE)
     /\ \E failure \in SUBSET {"dpkg"} :
          dpkg' \in RemoveEnds(packages, recursive, failure) /\ trouble' = trouble \cup failure

Kept == UNCHANGED <<dpkg, trouble, requestVars>>

-----------------------------------------------------------------------------
(* configure_python: byte-compilation, with the hooks of packages run in   *)
(* the target's root.                                                      *)
ConfigurePython ==
  /\ phase = "python" /\ (Goes("network") \/ Raises)
  /\ root' = InChroot(root, FALSE)
  /\ SameRegion /\ Kept /\ UNCHANGED <<pluginsLeft, bars, direct, aptConf, keys>>

ConfigureNetwork ==
  /\ phase = "network" /\ NextRegion(1) /\ (Goes("language") \/ Raises)
  /\ Kept /\ UNCHANGED <<pluginsLeft, bars, direct, root, aptConf, keys>>

(* configure_locale runs the language plugin, ahead of the others.         *)
RunLanguage ==
  /\ phase = "language" /\ NextRegion(1) /\ (Goes("apt") \/ Raises)
  /\ Kept /\ UNCHANGED <<pluginsLeft, bars, direct, root, aptConf, keys>>

(* configure_apt: apt's configuration during the installation, the CD made *)
(* visible in the target, and apt-setup.                                   *)
ConfigureApt ==
  /\ phase = "apt" /\ NextRegion(1)
  /\ IF oem THEN Goes("plugins") /\ UNCHANGED <<aptConf, root>>
     ELSE /\ Goes("plugins") \/ Raises
          /\ \E unauthenticated \in SUBSET {"AllowUnauthenticated"} :
               aptConf' = {"IgnoreTimeConflict", "NoMountCDROM"} \cup unauthenticated
          /\ root' = Mount(Umount(root, "cdrom"), "cdrom")
  /\ Kept /\ UNCHANGED <<pluginsLeft, bars, direct, keys>>

(* configure_plugins, run_plugin                                           *)
RunPlugin ==
  /\ phase = "plugins" /\ pluginsLeft > 0 /\ pluginsLeft' = pluginsLeft - 1
  /\ NextRegion(1)
  /\ (IF pluginsLeft = 1 THEN Goes("hooks") ELSE Goes("plugins")) \/ Raises
  /\ \E packages \in SUBSET LateRequests : Request(packages)
  /\ UNCHANGED <<bars, direct, root, aptConf, keys>>

NoPlugins ==
  /\ phase = "plugins" /\ pluginsLeft = 0 /\ Goes("hooks")
  /\ SameRegion /\ Kept /\ UNCHANGED <<pluginsLeft, bars, direct, root, aptConf, keys>>

\* Mutated: a hook that fails leaves the bar of the hooks started.
HooksKeepBar ==
  /\ phase = "hooks" /\ NextRegion(1) /\ Goes("langpacks")
  /\ bars' \in {bars, bars + 1}
  /\ Kept /\ UNCHANGED <<pluginsLeft, direct, root, aptConf, keys>>

(* run_target_config_hooks: a bar of its own, started and stopped.         *)
TargetHooks ==
  /\ phase = "hooks" /\ NextRegion(1) /\ Goes("langpacks")
  /\ Kept /\ UNCHANGED <<pluginsLeft, bars, direct, root, aptConf, keys>>

(* install_language_packs; run() passes over most of its exceptions.       *)
InstallLanguagePacks ==
  /\ phase = "langpacks" /\ NextRegion(5) /\ Goes("hardware")
  /\ IF oem THEN UNCHANGED <<dpkg, root, bars, trouble>>
     ELSE \/ DoInstall(Langpacks, "ok")
          \/ /\ ~dpkg.broken /\ bars' = bars + 1 /\ trouble' = trouble \cup {"conflict"}
             /\ UNCHANGED <<dpkg, root>>
  /\ UNCHANGED <<requestVars, pluginsLeft, direct, aptConf, keys>>

(* configure_hardware: hw-detect in the target's root, then packages that  *)
(* depend on the hardware reconfigured with update-initramfs diverted, one *)
(* initramfs made at the end; kernel links.  The region of the kernels to  *)
(* be removed, a step commented out, is passed with it.                    *)
ConfigureHardware ==
  /\ phase = "hardware" /\ position' = count + 1 /\ count' = count + 5
  /\ \/ Raises /\ root' = InChroot(root, FALSE)
     \/ /\ Goes("extras") \/ Raises
        /\ LET detected == InChroot(root, FALSE)
               diverted == Divert(ChrootSetup(detected, TRUE), {"update-initramfs"})
           IN  root' = IF oem THEN detected
                       ELSE ChrootCleanup(Restore(diverted, {"update-initramfs"}), TRUE)
  /\ \E packages \in SUBSET LateRequests : Request(packages)
  /\ direct' = (phase' = "extras")
  /\ UNCHANGED <<pluginsLeft, bars, aptConf, keys>>

(* install_extras: what was asked for, but for packages that need a        *)
(* foreign architecture.                                                   *)
InstallExtras ==
  /\ phase = "extras" /\ NextRegion(1)
  /\ \E end \in {"ok", "conflict"} :
       /\ IF end = "ok" THEN Goes("oem") ELSE Raises
       /\ DoInstall(RecordedInstalled \ Multiarch, end)
  /\ UNCHANGED <<requestVars, pluginsLeft, direct, aptConf, keys>>

(* The rest of it: OEM metapackages and oem-config itself; not recorded.   *)
InstallOemConfig ==
  /\ phase = "oem" /\ SameRegion
  /\ \/ Goes("directory") /\ UNCHANGED <<dpkg, root, bars, trouble>>
     \/ \E end \in {"ok", "conflict"} :
          /\ IF end = "ok" THEN Goes("directory") ELSE Raises
          /\ DoInstall(OemConfig, end)
  /\ UNCHANGED <<requestVars, pluginsLeft, direct, aptConf, keys>>

(* configure_active_directory: tools that are not needed are to be removed;*)
(* else the domain is joined with the target's directories bound, released *)
(* whatever happens.  A failure to join is told; a join that does not end  *)
(* within a minute raises subprocess.TimeoutExpired, which is no           *)
(* TimeoutError and passes the handler meant for it.                       *)
ConfigureDirectory ==
  /\ phase = "directory" /\ NextRegion(1)
  /\ \/ Goes("bootloader") /\ UNCHANGED <<root, trouble>>
        /\ removals' = removals \cup Removal(AdTools, TRUE)
     \/ /\ root' = UmountAll(MountAll(root, Binds), Binds)
        /\ \/ Goes("bootloader") /\ UNCHANGED trouble
              /\ removals' = removals \cup Removal(AdCli, TRUE)
           \/ Raises /\ trouble' = trouble \cup {"slow join"} /\ UNCHANGED removals
  /\ UNCHANGED <<installs, blacklist, unwanted, restricted, oem,
                 pluginsLeft, bars, direct, dpkg, aptConf, keys>>

(* copy_mok, configure_recovery_key: the keys are forgotten, with no disk  *)
(* to add them to or a failure to add them told.  With a disk on which     *)
(* lsblk finds no LUKS device dev is unbound, an exception before the keys *)
(* are forgotten.                                                          *)
RecoveryKey ==
  /\ phase = "bootloader" /\ NextRegion(1)
  /\ \/ Goes("grub") /\ keys' = FALSE
     \/ Raises /\ UNCHANGED keys
  /\ UNCHANGED <<requestVars, pluginsLeft, bars, direct, dpkg, root, aptConf, trouble>>

(* configure_bootloader: the binds are made, and undone only if no         *)
(* exception ends it; /sys, with efivars mounted on it, is busy then.      *)
(* grub-installer fails on EFI for good; elsewhere the user may choose     *)
(* another device, or none.  It asks for packages by apt-install.          *)
ConfigureBootloader ==
  /\ phase = "grub" /\ SameRegion
  /\ \/ Goes("remove") /\ UNCHANGED <<root, dpkg, trouble, requestVars>>
     \/ /\ ~oem
        /\ LET bound == MountAll(root, BootloaderBinds)
           IN  \/ Goes("remove") /\ root' = UmountAll(bound, BootloaderBinds)
               \/ Raises /\ root' = bound
        /\ \E packages \in SUBSET (LateRequests \cap Grub) : Request(packages)
  /\ UNCHANGED <<pluginsLeft, bars, direct, aptConf, keys>>

-----------------------------------------------------------------------------
(* remove_extras: what the manifests name and the boot loaders nobody asked*)
(* for, but for what was asked for and what that needs; restricted         *)
(* packages come on top, if there is anything to remove at all.            *)
Difference ==
  LET difference == unwanted \cup (Grub \ RecordedInstalled)
      rest == difference \ ExpandDependencies(dpkg.installed, RecordedInstalled, difference)
  IN  IF rest = {} THEN {} ELSE rest \cup (restricted \cap dpkg.installed)

(* remove_oem_extras: all but what was there before oem-config, oem-config *)
(* itself, and what was asked for.                                         *)
OemDifference ==
  LET keep == (Live \ Unwanted) \cup OemConfig \cup RecordedInstalled
  IN  dpkg.installed \ ExpandDependencies(dpkg.installed, keep, dpkg.installed)

(* The bar enters the region of the removals, and what to remove is        *)
(* recorded.  remove_extras goes on to remove all that is recorded.        *)
ListRemovals ==
  /\ phase = "remove" /\ NextRegion(4)
  /\ IF oem
       THEN \/ Goes("regular") /\ removals' = removals \cup Removal(OemDifference, FALSE)
            \/ Goes("restricted") /\ UNCHANGED removals
       ELSE IF Difference = {} THEN Goes("restricted") /\ UNCHANGED removals
       ELSE Goes("regular") /\ removals' = removals \cup Removal(Difference, FALSE)
  /\ UNCHANGED <<installs, blacklist, unwanted, restricted, oem,
                 pluginsLeft, bars, direct, dpkg, root, aptConf, keys, trouble>>

RemoveRegular ==
  /\ phase = "regular" /\ SameRegion /\ Goes("recursive")
  /\ DoRemove(RecordedRemoved(removals, FALSE), FALSE)
  /\ UNCHANGED <<requestVars, pluginsLeft, bars, direct, aptConf, keys>>

(* After it the list of packages for oem-config is written; without a      *)
(* manifest it names a variable that does not exist.                       *)
RemoveRecursively ==
  /\ phase = "recursive" /\ SameRegion
  /\ Goes("restricted") \/ (~oem /\ unwanted = {} /\ Raises)
  /\ DoRemove(RecordedRemoved(removals, TRUE), TRUE)
  /\ UNCHANGED <<requestVars, pluginsLeft, bars, direct, aptConf, keys>>

\* Mutated: what was asked for is taken to be installed already.
InstallNonfreeOnly ==
  /\ phase = "restricted" /\ NextRegion(1)
  /\ \E nonfree \in {{}, Nonfree}, end \in {"ok", "conflict"} :
       /\ IF end = "ok" THEN Goes("copies") ELSE Raises
       /\ DoInstall(nonfree, end)
  /\ UNCHANGED <<requestVars, pluginsLeft, direct, aptConf, keys>>

(* install_restricted_extras: nonfree packages, if chosen, and all that    *)
(* was asked for once more.                                                *)
InstallRestricted ==
  /\ phase = "restricted" /\ NextRegion(1)
  /\ \E nonfree \in {{}, Nonfree}, end \in {"ok", "conflict"} :
       /\ IF end = "ok" THEN Goes("copies") ELSE Raises
       /\ DoInstall(nonfree \cup RecordedInstalled, end)
  /\ UNCHANGED <<requestVars, pluginsLeft, direct, aptConf, keys>>

(* recache_apparmor mounts and unmounts what its service needs.            *)
RecacheApparmor(r) ==
  LET mounted == MountAll(r, {"proc", "sys", "securityfs"})
  IN  UmountAll(Umount(mounted, "securityfs"), {"proc", "sys"})

(* Network, bluetooth, apparmor and wallpaper: whatever fails is passed    *)
(* over.                                                                   *)
CopySettings ==
  /\ phase = "copies" /\ SameRegion /\ Goes("logs")
  /\ root' \in {root, IF oem THEN root ELSE RecacheApparmor(root)}
  /\ Kept /\ UNCHANGED <<pluginsLeft, bars, direct, aptConf, keys>>

(* The channel descriptor, logs, random seed; the bar is full at last.     *)
CopyLogs ==
  /\ phase = "logs" /\ UNCHANGED count
  /\ \/ phase' = "cleanup" /\ UNCHANGED failed /\ position' = End
     \/ Raises /\ position' \in {position, count}
  /\ Kept /\ UNCHANGED <<pluginsLeft, bars, direct, root, aptConf, keys>>

(* cleanup_after, cleanup: whether run() returns or raises.                *)
Cleanup ==
  /\ phase = "cleanup" /\ phase' = "done" /\ bars' = bars - 1
  /\ root' = Umount(root, "cdrom")
  /\ aptConf' = aptConf \ {"NoMountCDROM", "IgnoreTimeConflict", "AllowUnauthenticated"}
  /\ SameRegion /\ Kept /\ UNCHANGED <<failed, pluginsLeft, direct, keys>>

LastNext ==
  \/ ConfigurePython \/ ConfigureNetwork \/ RunLanguage \/ ConfigureApt
  \/ RunPlugin \/ NoPlugins \/ TargetHooks \/ InstallLanguagePacks
  \/ ConfigureHardware \/ InstallExtras \/ InstallOemConfig \/ ConfigureDirectory
  \/ RecoveryKey \/ ConfigureBootloader \/ ListRemovals \/ RemoveRegular
  \/ RemoveRecursively \/ InstallRestricted \/ CopySettings \/ CopyLogs \/ Cleanup
-----------------------------------------------------------------------------
Ended == phase = "done"
Installed == Ended /\ failed = "none"

(* However the last phase ends, no program of the target stays diverted    *)
(* and nothing stays mounted in it, unless it is the boot loader's failure *)
(* that ended it, or no package operation followed the boot loader, which  *)
(* leaves /sys mounted on EFI (chroot_setup, chroot_cleanup, the binds of  *)
(* configure_bootloader and configure_active_directory, recache_apparmor). *)
(* apt's settings for the time of the installation are gone, too ("This    *)
(* file will be left in place until the end of the install"), and after an *)
(* end that is well no crypto key stays in debconf's database              *)
(* (clean_crypto_keys on every way through configure_recovery_key).        *)
TargetReleased ==
  /\ Installed => ~keys
  /\ Ended => /\ root.diverted = {} /\ aptConf = {} /\ root.mounts["cdrom"] = 0
              /\ failed \notin {"grub", "restricted"} /\ ~dpkg.broken => root.mounts = CleanRoot.mounts

(* The bar's regions stay within the bar and the bar is full at the end,   *)
(* with all other bars stopped, unless a conflict of language packs was    *)
(* passed over (run, next_region, do_install).                             *)
ProgressFits ==
  /\ position <= End /\ count <= End
  /\ Installed => position = End /\ (bars = 0 \/ "conflict" \in trouble)

(* What was asked for, and not marked for removal, is installed at the end *)
(* of an installation that went well, even if it was removed on the way as *)
(* not needed, if an archive has it and apt kept nothing back, which       *)
(* do_install says nobody (mark_install, install_extras, do_remove,        *)
(* install_restricted_extras).                                             *)
AskedForIsInstalled ==
  Installed /\ ~oem /\ trouble \cap {"kept back", "download", "dpkg"} = {}
    => RecordedInstalled \ Missing \subseteq dpkg.installed

(* What was asked for before the copy, and what that needs of the live     *)
(* system, is never registered as installed with its files left out.       *)
AskedForHasItsFiles ==
  phase # "waiting" /\ "late request" \notin trouble
    => dpkg.hollow \cap ExpandDependencies(Live, installs \cup Grub, unwanted \cup (restricted \cap Live)) = {}

(* What lets generate_blacklist and remove_extras decide alike.  No        *)
(* dependency in the live system can be met by two packages that may go,   *)
(* or the one that goes first decides; oem-config, which is installed and  *)
(* not recorded, is in it; and not all boot loaders are, as remove_extras  *)
(* without one to remove might leave the restricted packages.              *)
MayGo == Unwanted \cup Restricted \cup Grub
DecisionsAgree ==
  /\ Broken(Live) = {} /\ OemConfig \subseteq Live
  /\ Restricted = {} \/ ~(Grub \subseteq Live)
  /\ \A p \in Live : \A alternatives \in Depends[p] :
       \A q, r \in ToSet(alternatives) \cap Live \cap MayGo : q = r

(* A package whose files were not copied does not stay registered as       *)
(* installed, as long as nothing went wrong, all that was asked for was    *)
(* asked for before the copy and was in the live system, and the two       *)
(* stages decide alike (generate_blacklist, remove_extras).                *)
NoHollowPackage ==
  Installed /\ ~oem /\ trouble \cap {"dpkg", "late request"} = {} /\ installs \subseteq Live
    => dpkg.hollow = {}
=============================================================================
