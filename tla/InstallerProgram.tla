------------------------- MODULE InstallerProgram -------------------------
(***************************************************************************)
(* bin/ubiquity as the scripts around it see it: what it has done for the  *)
(* user, and the status it exits with, by frontend.  The window frontends  *)
(* are Wizard.tla's business and appear by their ends only; the debconf    *)
(* frontend and the noninteractive one, which nothing interleaves with,    *)
(* are here in full.  As oem-config it makes the end user's account        *)
(* (done); in the live session it installs (done).                         *)
(***************************************************************************)
EXTENDS Naturals

CONSTANT NPages
ASSUME NPagesAssumption == NPages \in Nat \ {0}

VARIABLES
  kind,        \* UBIQUITY_FRONTEND: "window", "debconf_ui" or "noninteractive"
  program,     \* "none", "main", or what it is at, or "ended"
  pagesindex,  \* of the page asked by the frontends without a window
  status,      \* its exit status
  done,
  rebooting,   \* the machine was told to reboot
  version      \* main wrote /var/log/installer/version

page    == <<kind, pagesindex>>
machine == <<done, rebooting, version>>
programVars == <<page, program, status, machine>>

At(p, k) == program = p /\ kind = k
Runs(k)  == program' = "main" /\ kind' = k /\ pagesindex' = 0 /\ status' = 0
Exit(s)  == program' = "ended" /\ status' = s

(* main: the lock or debconf's database may be held by another process.    *)
Main ==
  /\ program = "main"
  /\ \/ Exit(1) /\ UNCHANGED version
     \/ program' = "pages" /\ version' = TRUE /\ UNCHANGED status
  /\ UNCHANGED <<page, done, rebooting>>

-----------------------------------------------------------------------------
(* gtk_ui and kde_ui *)

(* run returns 0, or 10 from the finished dialog's Restart; oem-config has *)
(* no such dialog.                                                         *)
WindowDone(restart) ==
  /\ At("pages", "window")
  /\ done' = TRUE /\ rebooting' = (rebooting \/ restart) /\ Exit(0)
  /\ UNCHANGED <<page, version>>

(* The user leaves the installer: 0 too.  oem-config hides the buttons.    *)
WindowQuit ==
  /\ At("pages", "window")
  /\ Exit(0) /\ UNCHANGED <<page, machine>>

(* excepthook, or the X server went away. *)
WindowCrash ==
  /\ At("pages", "window")
  /\ Exit(1) /\ UNCHANGED <<page, machine>>

(* Gdk makes no cursor: Wizard.__init__ reboots the machine, and goes on   *)
(* to the cursor it has not made.                                          *)
WindowCannotDraw ==
  /\ At("pages", "window")
  /\ rebooting' = TRUE /\ Exit(1)
  /\ UNCHANGED <<page, done, version>>

-----------------------------------------------------------------------------
(* debconf_ui *)

DebconfNext ==
  /\ At("pages", "debconf_ui")
  /\ pagesindex' = pagesindex + 1
  /\ program' = IF pagesindex' = NPages THEN "plugininstall" ELSE "pages"
  /\ UNCHANGED <<kind, status, machine>>

(* From the first page: run returns 10, which install takes for Restart.   *)
DebconfBack ==
  /\ At("pages", "debconf_ui")
  /\ IF pagesindex = 0 THEN /\ rebooting' = TRUE /\ Exit(0)
                            /\ UNCHANGED pagesindex
     ELSE pagesindex' = pagesindex - 1 /\ UNCHANGED <<rebooting, program, status>>
  /\ UNCHANGED <<kind, done, version>>

(* plugininstall, which makes the account, and install: any status but 0   *)
(* is passed on or becomes an exception.                                   *)
DebconfPlugininstall ==
  /\ At("plugininstall", "debconf_ui")
  /\ \/ program' = "install" /\ done' = TRUE /\ UNCHANGED status
     \/ Exit(1) /\ UNCHANGED done
  /\ UNCHANGED <<page, rebooting, version>>

DebconfInstall ==
  /\ At("install", "debconf_ui")
  /\ \E s \in {0, 1} : Exit(s)
  /\ UNCHANGED <<page, machine>>

-----------------------------------------------------------------------------
(* noninteractive *)

(* A page is asked once, and must be answered by what was preseeded. *)
SilentPage ==
  /\ At("pages", "noninteractive")
  /\ \/ /\ pagesindex' = pagesindex + 1
        /\ program' = IF pagesindex' = NPages THEN "commit" ELSE "pages"
        /\ UNCHANGED status
     \/ Exit(1) /\ UNCHANGED pagesindex
  /\ UNCHANGED <<kind, machine>>

(* A commit that fails ends progress_loop without a word to main, unless   *)
(* partman_commit itself returned to partitioning.                         *)
SilentCommit ==
  /\ At("commit", "noninteractive")
  /\ \/ program' = "install" /\ UNCHANGED status
     \/ \E s \in {0, 1} : Exit(s)
  /\ UNCHANGED <<page, machine>>

(* install and plugininstall.  A status other than 3 or a signal's is an   *)
(* exception only if install.trace is there.                               *)
SilentInstall(reboot) ==
  /\ At("install", "noninteractive")
  /\ \/ done' = TRUE /\ rebooting' = (rebooting \/ reboot) /\ Exit(0)
     \/ (\E s \in {0, 1} : Exit(s)) /\ UNCHANGED <<done, rebooting>>
  /\ UNCHANGED <<page, version>>
=============================================================================
