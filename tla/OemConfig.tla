----------------------------- MODULE OemConfig -----------------------------
(***************************************************************************)
(* The first boots of a machine that was prepared by its vendor:           *)
(* oem-config.service runs oem-config-firstboot, which runs                *)
(* oem-config-wrapper, under ubiquity-dm or on the console, and tries      *)
(* again when it fails; the wrapper runs oem-config and then what must run *)
(* after it.  What is on disk outlives a reboot or a power failure, which  *)
(* may come between any two steps.                                         *)
(***************************************************************************)
EXTENDS DisplayManager

CONSTANTS
  MaxTries,  \* 5
  Consoles   \* what FRONTEND may be

ASSUME MaxTriesAssumption == MaxTries \in Nat \ {0}

VARIABLES
  (* on disk *)
  oem_user,    \* the vendor's temporary account exists
  service,     \* oem-config.service was not disabled; it goes with its package
  run_file,    \* /var/lib/oem-config/run
  installed,   \* the packages of oem-config are
  remove,      \* debconf's oem-config/remove
  told,        \* the user was told to make an account by hand
  claimed,     \* a run that made no account passed for a success, see WentBack
  (* until the next boot *)
  console,     \* "window" or "debconf_ui": FRONTEND
  firstboot,   \* what oem-config-firstboot is at, "off" or "over"
  tries,
  wrapper      \* what oem-config-wrapper is at, "off" or "over"

disk    == <<oem_user, service, run_file, installed, remove, told, claimed>>
oemVars == <<disk, console, firstboot, tries, wrapper>>

OemInit ==
  /\ oem_user = TRUE /\ service = TRUE /\ run_file = TRUE /\ installed = TRUE
  /\ remove \in BOOLEAN /\ told = FALSE /\ claimed = FALSE
  /\ console \in Consoles
  /\ firstboot = "off" /\ tries = 0 /\ wrapper = "off"

-----------------------------------------------------------------------------
(* oem-config-wrapper *)

(* oem-config: not found once its package is gone. *)
WrapperStarts ==
  /\ wrapper' = IF installed THEN "oem-config" ELSE "failed"
  /\ IF installed THEN Runs(console)
     ELSE UNCHANGED <<kind, program, pagesindex, status>>
  /\ UNCHANGED machine

(* A run that made no account passes for a success when the user of the    *)
(* debconf frontend goes back from its first page, and when ubiquity-dm    *)
(* loses what the program returned.                                        *)
WentBack == kind = "debconf_ui" /\ rebooting

(* set -e *)
OemConfigEnds ==
  /\ wrapper = "oem-config" /\ program = "ended"
  /\ wrapper' = IF status = 0 THEN "succeeded" ELSE "failed"
  /\ claimed' = (claimed \/ (status = 0 /\ ~done /\ WentBack))
  /\ program' = "none"
  /\ UNCHANGED <<page, status, machine, dmVars, oem_user, service, run_file, installed,
                 remove, told, console, firstboot, tries>>

DontRunAgain ==
  /\ wrapper = "succeeded"
  /\ run_file' = FALSE /\ wrapper' = IF remove THEN "removing" ELSE "over"
  /\ UNCHANGED <<programVars, dmVars, oem_user, service, installed, remove, told, claimed,
                 console, firstboot, tries>>

(* oem-config-remove or oem-config-remove-gtk, || true *)
RemovePackages ==
  /\ wrapper = "removing"
  /\ installed' \in {installed, FALSE} /\ wrapper' = "over"
  /\ UNCHANGED <<programVars, dmVars, oem_user, service, run_file, remove, told, claimed,
                 console, firstboot, tries>>

WrapperStatus == IF wrapper = "over" THEN 0 ELSE 1
WrapperEnded  == wrapper \in {"over", "failed"}

-----------------------------------------------------------------------------
(* oem-config-firstboot *)

(* systemd starts it at boot; otherwise the machine comes up as it is.     *)
Boot ==
  /\ firstboot = "off"
  /\ firstboot' = IF service /\ installed THEN "trying" ELSE "over"
  /\ UNCHANGED <<programVars, dmVars, disk, console, tries, wrapper>>

TryInWindow ==
  /\ firstboot = "trying" /\ tries < MaxTries /\ console = "window"
  /\ tries' = tries + 1 /\ firstboot' = "running"
  /\ DmStarts
  /\ UNCHANGED <<programVars, disk, console, wrapper>>

TryOnConsole ==
  /\ firstboot = "trying" /\ tries < MaxTries /\ console = "debconf_ui"
  /\ tries' = tries + 1 /\ firstboot' = "running"
  /\ WrapperStarts
  /\ UNCHANGED <<dmVars, disk, console>>

(* ubiquity-dm runs the wrapper. *)
GreetOem ==
  /\ firstboot = "running" /\ console = "window"
  /\ Greet /\ WrapperStarts
  /\ UNCHANGED <<disk, console, firstboot, tries>>

GreetedOem ==
  /\ firstboot = "running" /\ console = "window" /\ WrapperEnded
  /\ Greeted(WrapperStatus) /\ wrapper' = "off"
  /\ UNCHANGED <<programVars, disk, console, firstboot, tries>>

(* CODE; ubiquity-dm's, or the wrapper's own. *)
Returned(code) == firstboot' = IF code = 0 THEN "cleaning" ELSE "trying"

DmReturned ==
  /\ firstboot = "running" /\ console = "window" /\ dm = "exited"
  /\ Returned(DmStatus)
  /\ claimed' = (claimed \/ (DmStatus = 0 /\ ret # 0 /\ ~done))
  /\ dm' = "off"
  /\ UNCHANGED <<programVars, box, attempt, Xs, timeout, session, excepted, oem_user,
                 service, run_file, installed, remove, told, console, tries, wrapper>>

WrapperReturned ==
  /\ firstboot = "running" /\ console = "debconf_ui" /\ WrapperEnded
  /\ Returned(WrapperStatus)
  /\ wrapper' = "off"
  /\ UNCHANGED <<programVars, dmVars, disk, console, tries>>

(* The vendor's account goes, unless debconf has lost the question along   *)
(* with the packages, which ends the script (set -e).                      *)
RemoveOemUser ==
  /\ firstboot = "cleaning"
  /\ \/ ~installed /\ firstboot' = "over" /\ UNCHANGED oem_user
     \/ firstboot' = "disabling" /\ oem_user' = (oem_user /\ ~remove)
  /\ UNCHANGED <<programVars, dmVars, service, run_file, installed, remove, told, claimed,
                 console, tries, wrapper>>

(* And so does the service; then oem-config/reboot. *)
DisableService(reboot) ==
  /\ firstboot = "disabling"
  /\ service' = FALSE /\ firstboot' = "over"
  /\ rebooting' = (rebooting \/ reboot)
  /\ UNCHANGED <<page, program, status, done, version, dmVars, oem_user, run_file,
                 installed, remove, told, claimed, console, tries, wrapper>>

\* Mutated: the last try is taken for a success.
PanicIsOver ==
  /\ firstboot = "trying" /\ tries = MaxTries
  /\ firstboot' = "cleaning" /\ UNCHANGED told
  /\ UNCHANGED <<programVars, dmVars, oem_user, service, run_file, installed, remove,
                 claimed, console, tries, wrapper>>

(* After the last try: a shell, and the advice to run adduser.             *)
Panic ==
  /\ firstboot = "trying" /\ tries = MaxTries
  /\ firstboot' = "shell" /\ told' = TRUE
  /\ UNCHANGED <<programVars, dmVars, oem_user, service, run_file, installed, remove,
                 claimed, console, tries, wrapper>>

AddUser ==
  /\ firstboot = "shell" /\ ~done
  /\ done' = TRUE
  /\ UNCHANGED <<page, program, status, rebooting, version, dmVars, oemVars>>

(* With what the last command in it returned (set -e). *)
LeaveShell ==
  /\ firstboot = "shell"
  /\ \/ firstboot' = "over" /\ UNCHANGED <<run_file, oem_user>>
     \/ /\ firstboot' = "purging" /\ run_file' = FALSE
        /\ oem_user' = (oem_user /\ ~remove)
  /\ UNCHANGED <<programVars, dmVars, service, installed, remove, told, claimed, console,
                 tries, wrapper>>

(* Not if apt-get fails. *)
PurgeAndReboot ==
  /\ firstboot = "purging"
  /\ installed' \in (IF remove THEN {installed, FALSE} ELSE {installed})
  /\ rebooting' \in (IF remove THEN {rebooting, TRUE} ELSE {TRUE})
  /\ firstboot' = "over"
  /\ UNCHANGED <<page, program, status, done, version, dmVars, oem_user, service, run_file,
                 remove, told, claimed, console, tries, wrapper>>

FirstBoot ==
  \/ Boot \/ TryInWindow \/ TryOnConsole \/ GreetOem \/ GreetedOem \/ DmReturned
  \/ WrapperReturned \/ RemoveOemUser
  \/ (\E reboot \in BOOLEAN : DisableService(reboot))
  \/ Panic \/ PurgeAndReboot

Wrapper == OemConfigEnds \/ DontRunAgain \/ RemovePackages

-----------------------------------------------------------------------------
(* A prepared machine can always be got into: until its user has an        *)
(* account, or was told how to make one, it has the vendor's, and the      *)
(* service with the program that asks again; whenever the power fails, an  *)
(* X server does not come up or a script fails half-way, and unless one of *)
(* the two kinds of false success happened (oem-config-firstboot,          *)
(* oem-config-wrapper, oem-config-remove).                                 *)
AWayIn == done \/ told \/ claimed \/ (oem_user /\ service /\ installed)

(* gtk_ui.py, Wizard.__init__: "reboot instead of crashing so we don't end *)
(* up with no user account".                                               *)
NoOneLockedOut == done \/ oem_user \/ service \/ told
=============================================================================
