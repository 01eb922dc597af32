-------------------------- MODULE DisplayManager --------------------------
(***************************************************************************)
(* bin/ubiquity-dm: it brings up an X server, with up to three             *)
(* configurations, a session with a window manager and helpers, and in it  *)
(* one program, whose end it waits for; then it says what went wrong and   *)
(* takes the session down.  X servers are processes of their own: they may *)
(* come up late, report by a signal at any time, refuse because another    *)
(* holds the display, or die.  The program is whatever the caller runs.    *)
(***************************************************************************)
EXTENDS Naturals, FiniteSets, InstallerProgram

CONSTANTS
  Boxes,     \* the machines: [fb0, failsafe, wm, watched, rootuser : BOOLEAN]
  Patience   \* how often a server is polled before it is given up: 60

ASSUME PatienceAssumption == Patience \in Nat

Attempts == <<"main", "fbdev", "vesa">>
Helpers  == {"settings", "wm"}

VARIABLES
  box,             \* the machine it runs on
  dm,              \* what it is at, "off" or "exited"
  attempt,         \* the index of the configuration it tries
  server,          \* of each X server it started: "none", "starting", "refused",
                   \* "up" or "gone"
  old,             \* an X server an earlier ubiquity-dm left: "none", "starting", "up"
  server_started,  \* some server sent SIGUSR1
  timeout,
  privileged,      \* the process is root: privileges are not dropped
  helpers,         \* window manager and settings daemon, those that run
  ret,             \* what the program exited with
  excepted         \* main's except clause was reached

Xs      == <<server, old, server_started>>
session == <<privileged, helpers, ret>>
dmVars  == <<box, dm, attempt, Xs, timeout, session, excepted>>

Holding == {"starting", "up"}
Free    == old = "none" /\ \A a \in DOMAIN server : server[a] \notin Holding
Screen  == old = "up" \/ \E a \in DOMAIN server : server[a] = "up"

DmInit ==
  /\ box \in Boxes
  /\ dm = "off" /\ attempt = 1 /\ server = [a \in 1 .. 3 |-> "none"] /\ old = "none"
  /\ server_started = FALSE /\ timeout = 0 /\ privileged = TRUE /\ helpers = {}
  /\ ret = 0 /\ excepted = FALSE

(* What stays of an ubiquity-dm when another starts: an X server that      *)
(* holds the display.                                                      *)
DmStarts ==
  /\ dm' = "trying" /\ attempt' = 1 /\ server' = [a \in 1 .. 3 |-> "none"]
  /\ old' = IF old # "none" THEN old
            ELSE IF Screen THEN "up" ELSE IF Free THEN "none" ELSE "starting"
  /\ server_started' = FALSE /\ timeout' = 0 /\ privileged' = TRUE /\ helpers' = {}
  /\ ret' = 0 /\ excepted' = FALSE
  /\ UNCHANGED box

(* main, on any exception: servers and helpers are left as they are. *)
Raises == dm' = "exited" /\ excepted' = TRUE

-----------------------------------------------------------------------------
(* The X servers *)

XComesUp(a) ==
  /\ server[a] = "starting"
  /\ server' = [server EXCEPT ![a] = "up"] /\ server_started' = TRUE
  /\ UNCHANGED <<box, dm, attempt, old, timeout, session, excepted>>

XDies(a) ==
  /\ server[a] \in Holding \cup {"refused"}
  /\ server' = [server EXCEPT ![a] = "gone"]
  /\ UNCHANGED <<box, dm, attempt, old, server_started, timeout, session, excepted>>

(* Nobody waits for its signal any more. *)
OldXChanges ==
  /\ old # "none"
  /\ old' \in (IF old = "starting" THEN {"up", "none"} ELSE {"none"})
  /\ UNCHANGED <<box, dm, attempt, server, server_started, timeout, session, excepted>>

-----------------------------------------------------------------------------
(* DM.run: an X server *)

Skipped(a) == (a = 1 /\ box.failsafe) \/ (a = 2 /\ ~box.fb0)

NextAttempt ==
  /\ dm = "trying" /\ Skipped(attempt)
  /\ attempt' = attempt + 1
  /\ UNCHANGED <<box, dm, Xs, timeout, session, excepted>>

LaunchX ==
  /\ dm = "trying" /\ ~Skipped(attempt)
  /\ server' = [server EXCEPT ![attempt] = IF Free THEN "starting" ELSE "refused"]
  /\ dm' = "polling" /\ timeout' = Patience
  /\ UNCHANGED <<box, attempt, old, server_started, session, excepted>>

XIsUp ==
  /\ dm = "polling" /\ server_started
  /\ dm' = "opening"
  /\ UNCHANGED <<box, attempt, Xs, timeout, session, excepted>>

KeepPolling ==
  /\ dm = "polling" /\ ~server_started /\ server[attempt] # "gone" /\ timeout > 0
  /\ timeout' = timeout - 1
  /\ UNCHANGED <<box, dm, attempt, Xs, session, excepted>>

(* XStartupError, which only the last attempt lets out.  The server that   *)
(* was too slow is left running.                                           *)
GiveUpX ==
  /\ dm = "polling" /\ ~server_started /\ (server[attempt] = "gone" \/ timeout = 0)
  /\ IF attempt = 3 THEN Raises ELSE dm' = "next" /\ UNCHANGED excepted
  /\ UNCHANGED <<box, attempt, Xs, timeout, session>>

(* Any of them may have reported in the meantime. *)
AfterAttempt ==
  /\ dm = "next"
  /\ IF server_started \/ attempt = 3 THEN dm' = "opening" /\ UNCHANGED attempt
     ELSE dm' = "trying" /\ attempt' = attempt + 1
  /\ UNCHANGED <<box, Xs, timeout, session, excepted>>

-----------------------------------------------------------------------------
(* DM.run: the session *)

(* pam_open_session raises, or the first helpers are started.  The unity   *)
(* settings daemon is waited for by a SignalWatcher, which drops ubiquity- *)
(* dm's own privileges; to the user it fell back to, root, that is no loss.*)
OpenSession ==
  /\ dm = "opening"
  /\ \/ (Raises /\ UNCHANGED privileged)
     \/ /\ dm' = IF box.watched THEN "watching" ELSE "managing"
        /\ privileged' = (~box.watched \/ box.rootuser)
        /\ UNCHANGED excepted
  /\ UNCHANGED <<box, attempt, Xs, timeout, helpers, ret>>

(* on_got_bus starts the daemon and takes the privileges back; what it     *)
(* waits for then comes within five seconds or not.                        *)
GotBus ==
  /\ dm = "watching"
  /\ helpers' = helpers \cup {"settings"} /\ privileged' = TRUE /\ dm' = "managing"
  /\ UNCHANGED <<box, attempt, Xs, timeout, ret, excepted>>

(* Its except clause only ends the loop. *)
NoBus ==
  /\ dm = "watching"
  /\ dm' = "managing"
  /\ UNCHANGED <<box, attempt, Xs, timeout, session, excepted>>

\* Mutated: the window manager is started with the privileges as they are.
StartWmAnyway ==
  /\ dm = "managing"
  /\ IF box.wm THEN /\ helpers' = helpers \cup {"wm"} /\ dm' = "greeting"
                    /\ UNCHANGED excepted
     ELSE Raises /\ UNCHANGED helpers
  /\ UNCHANGED <<box, attempt, Xs, timeout, privileged, ret>>

(* MissingProgramError; or, without privileges to drop, drop_privileges    *)
(* raises in the child and Popen in the parent.                            *)
StartWm ==
  /\ dm = "managing"
  /\ IF box.wm /\ privileged THEN /\ helpers' = helpers \cup {"wm"} /\ dm' = "greeting"
                                  /\ UNCHANGED excepted
     ELSE Raises /\ UNCHANGED helpers
  /\ UNCHANGED <<box, attempt, Xs, timeout, privileged, ret>>

(* The caller starts the program along with this. *)
Greet ==
  /\ dm = "greeting"
  /\ dm' = "waiting"
  /\ UNCHANGED <<box, attempt, Xs, timeout, session, excepted>>

(* With the program's status; the caller knows when. *)
Greeted(s) ==
  /\ dm = "waiting"
  /\ ret' = s /\ dm' = IF s = 0 THEN "stopping" ELSE "telling"
  /\ UNCHANGED <<box, attempt, Xs, timeout, privileged, helpers, excepted>>

(* zenity or kdialog, until the user has read it. *)
Tell ==
  /\ dm = "telling"
  /\ dm' = "stopping"
  /\ UNCHANGED <<box, attempt, Xs, timeout, session, excepted>>

-----------------------------------------------------------------------------
(* DM.run: the end of the session *)

Terminate ==
  /\ dm = "stopping"
  /\ dm' = "reaping"
  /\ UNCHANGED <<box, attempt, Xs, timeout, session, excepted>>

(* At SIGTERM, or by itself at any time. *)
HelperExits(h) ==
  /\ h \in helpers
  /\ helpers' = helpers \ {h}
  /\ UNCHANGED <<box, dm, attempt, Xs, timeout, privileged, ret, excepted>>

\* Mutated: only the window manager is killed.
AlarmForWm ==
  /\ dm = "reaping"
  /\ helpers' = helpers \ {"wm"}
  /\ UNCHANGED <<box, dm, attempt, Xs, timeout, privileged, ret, excepted>>

(* sigalrm_handler, one second later: SIGKILL. *)
Alarm ==
  /\ dm = "reaping" /\ helpers # {}
  /\ helpers' = {}
  /\ UNCHANGED <<box, dm, attempt, Xs, timeout, privileged, ret, excepted>>

Reaped ==
  /\ dm = "reaping" /\ helpers = {}
  /\ dm' = "clearing"
  /\ UNCHANGED <<box, attempt, Xs, timeout, session, excepted>>

(* The server that is stopped and waited for is the last one started.      *)
StopX ==
  /\ dm = "clearing"
  /\ server' = [server EXCEPT ![attempt] = "gone"]
  /\ dm' = "locale"
  /\ UNCHANGED <<box, attempt, old, server_started, timeout, session, excepted>>

(* run: set_locale, after a success, may raise; main itself returns        *)
(* nothing, whatever run returned.                                         *)
DmExits ==
  /\ dm = "locale"
  /\ \/ dm' = "exited" /\ UNCHANGED excepted
     \/ (ret = 0 /\ Raises)
  /\ UNCHANGED <<box, attempt, Xs, timeout, session>>

(* What sys.exit makes of main's value. *)
DmStatus == IF excepted THEN 1 ELSE 0

Works ==
  \/ NextAttempt \/ LaunchX \/ XIsUp \/ KeepPolling \/ GiveUpX \/ AfterAttempt
  \/ OpenSession \/ GotBus \/ NoBus \/ StartWm
  \/ Terminate \/ Alarm \/ Reaped \/ StopX \/ DmExits

Servers ==
  \/ \E a \in DOMAIN server : XComesUp(a) \/ XDies(a)
  \/ OldXChanges
  \/ \E h \in helpers : HelperExits(h)
=============================================================================
