------------------------------ MODULE Session ------------------------------
(***************************************************************************)
(* From power to program: what the boot of a live system                   *)
(* (start-ubiquity-dm) and of a machine prepared by its vendor (OemConfig) *)
(* start, under ubiquity-dm or without it, with X servers that come up     *)
(* late or not at all, programs that crash, and the power failing.         *)
(***************************************************************************)
EXTENDS OemConfig

CONSTANT Automatics   \* whether automatic-ubiquity is on the kernel's command line

VARIABLES
  prepared,    \* the disk is a prepared machine's; or the live system is booted
  automatic,
  live         \* what start-ubiquity-dm is at, "off" or "over"

vars == <<programVars, dmVars, oemVars, prepared, automatic, live>>

ProgramInit ==
  /\ kind = "window" /\ program = "none" /\ pagesindex = 0 /\ status = 0
  /\ done = FALSE /\ rebooting = FALSE /\ version = FALSE

Init ==
  /\ ProgramInit /\ DmInit /\ OemInit
  /\ prepared \in BOOLEAN /\ automatic \in Automatics /\ live = "off"
  /\ ~prepared => ~remove /\ console = "window"
  /\ prepared => ~automatic

-----------------------------------------------------------------------------
(* start-ubiquity-dm *)

LiveStarts ==
  /\ ~prepared /\ live = "off"
  /\ live' = "running" /\ DmStarts
  /\ UNCHANGED <<programVars, oemVars, prepared, automatic>>

GreetLive ==
  /\ live = "running"
  /\ Greet /\ Runs("window")
  /\ UNCHANGED <<machine, oemVars, prepared, automatic, live>>

GreetedLive ==
  /\ live = "running" /\ program = "ended"
  /\ Greeted(status) /\ program' = "none"
  /\ UNCHANGED <<page, status, machine, oemVars, prepared, automatic, live>>

(* "has X crashed, or has ubiquity?"  Without X an automatic installation  *)
(* does without.                                                           *)
LiveReturned ==
  /\ live = "running" /\ dm = "exited"
  /\ dm' = "off"
  /\ IF DmStatus # 0 /\ automatic /\ ~version
     THEN live' = "silent" /\ Runs("noninteractive")
     ELSE live' = "over" /\ UNCHANGED <<kind, program, pagesindex, status>>
  /\ UNCHANGED <<machine, box, attempt, Xs, timeout, session, excepted, oemVars, prepared,
                 automatic>>

SilentEnds ==
  /\ live = "silent" /\ program = "ended"
  /\ live' = "over" /\ program' = "none"
  /\ UNCHANGED <<page, status, machine, dmVars, oemVars, prepared, automatic>>

Live == LiveStarts \/ GreetLive \/ GreetedLive \/ LiveReturned \/ SilentEnds

-----------------------------------------------------------------------------
(* A window needs a screen. *)
WindowStep ==
  \/ Screen /\ ((\E restart \in {FALSE, ~prepared} : WindowDone(restart))
                  \/ (~prepared /\ WindowQuit) \/ WindowCannotDraw)
  \/ WindowCrash

ProgramStep ==
  \/ Main \/ WindowStep
  \/ DebconfNext \/ DebconfBack \/ DebconfPlugininstall \/ DebconfInstall
  \/ SilentPage \/ SilentCommit \/ (\E reboot \in BOOLEAN : SilentInstall(reboot))

(* The power fails, or the reboot that was asked for happens: what is not  *)
(* on disk is lost.  The live system is then left for good.                *)
GoesDown ==
  /\ prepared /\ firstboot # "off"
  /\ kind' = "window" /\ program' = "none" /\ pagesindex' = 0 /\ status' = 0
  /\ rebooting' = FALSE
  /\ dm' = "off" /\ attempt' = 1 /\ server' = [a \in 1 .. 3 |-> "none"] /\ old' = "none"
  /\ server_started' = FALSE /\ timeout' = 0 /\ privileged' = TRUE /\ helpers' = {}
  /\ ret' = 0 /\ excepted' = FALSE
  /\ firstboot' = "off" /\ tries' = 0 /\ wrapper' = "off"
  /\ UNCHANGED <<box, disk, done, version, console, prepared, automatic, live>>

ByOthers == <<dmVars, oemVars, prepared, automatic, live>>

Next ==
  \/ Live
  \/ prepared /\ (FirstBoot \/ Wrapper \/ AddUser \/ LeaveShell)
              /\ UNCHANGED <<prepared, automatic, live>>
  \/ ProgramStep /\ UNCHANGED ByOthers
  \/ (Works \/ Tell \/ Servers)
       /\ UNCHANGED <<programVars, oemVars, prepared, automatic, live>>
  \/ GoesDown
  \/ (live = "over" /\ UNCHANGED vars)

(* The scripts and ubiquity-dm are processes nothing blocks: what they can *)
(* do next they do.  Nothing is asked of the user, of the program, nor of  *)
(* an X server before it is told to stop.                                  *)
ScriptsGoOn ==
  \/ Live
  \/ prepared /\ (FirstBoot \/ Wrapper) /\ UNCHANGED <<prepared, automatic, live>>
  \/ Works /\ UNCHANGED <<programVars, oemVars, prepared, automatic, live>>

Spec == Init /\ [][Next]_vars /\ WF_vars(ScriptsGoOn)

-----------------------------------------------------------------------------
(* The program is started by a process that is root, on an X server that   *)
(* reported for duty, whichever of up to three it was, and an installation *)
(* without a window never over one that is done (DM.run, SignalWatcher,    *)
(* start-ubiquity-dm).                                                     *)
WellStarted ==
  /\ dm \in {"greeting", "waiting"} => privileged /\ server_started
  /\ live = "silent" /\ program # "ended" => ~done

(* Whoever waits for the scripts gets an end: they stop at nothing but the *)
(* program, the user, and the end of the boot.                             *)
Answering == program \notin {"none", "ended"} \/ dm = "telling" \/ firstboot = "shell"
Over == IF prepared THEN firstboot \in {"off", "over"} ELSE live = "over"
NeverStuck == []<>(Answering \/ Over)
=============================================================================
