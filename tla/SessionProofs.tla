--------------------------- MODULE SessionProofs ---------------------------
(* What Session.tla claims, for every kind of machine, any patience with X *)
(* servers and any number of tries.                                        *)
EXTENDS Session, TLAPS

(* What ubiquity-dm has when it goes on: a server reported, and it is root *)
(* again by the time it starts the window manager; a configuration after   *)
(* which it would go on without a server is never passed over.             *)
Equipped ==
  /\ dm \in {"opening", "watching", "managing", "greeting", "waiting"} => server_started
  /\ dm \in {"greeting", "waiting"} => privileged
  /\ dm = "next" => attempt # 3

LEMMA EquippedAtFirst == Init => Equipped
BY DEF Init, DmInit, Equipped

(* The steps of ubiquity-dm itself and of its processes. *)
LEMMA DmKeepsEquipped ==
  ASSUME Equipped, Works \/ Tell \/ Servers
  PROVE  Equipped'
<1> USE DEF Equipped, Raises
<1>1. CASE NextAttempt \/ LaunchX \/ XIsUp \/ KeepPolling
  BY <1>1 DEF NextAttempt, LaunchX, XIsUp, KeepPolling, Xs, session
<1>2. CASE GiveUpX \/ AfterAttempt
  BY <1>2 DEF GiveUpX, AfterAttempt, Xs, session
<1>3. CASE OpenSession \/ GotBus \/ NoBus \/ StartWm
  BY <1>3 DEF OpenSession, GotBus, NoBus, StartWm, Xs, session
<1>4. CASE Terminate \/ Alarm \/ Reaped \/ StopX \/ DmExits \/ Tell
  BY <1>4 DEF Terminate, Alarm, Reaped, StopX, DmExits, Tell, Xs, session
<1>5. CASE Servers
  BY <1>5 DEF Servers, XComesUp, XDies, OldXChanges, HelperExits, Xs, session
<1> QED BY <1>1, <1>2, <1>3, <1>4, <1>5 DEF Works

(* What the callers do to it. *)
LEMMA StartsEquipped == ASSUME Equipped, DmStarts PROVE Equipped'
BY DEF Equipped, DmStarts

LEMMA GreetsEquipped ==
  ASSUME Equipped, Greet \/ \E s : Greeted(s)
  PROVE  Equipped'
BY DEF Equipped, Greet, Greeted, Xs, session

LEMMA StaysEquipped == ASSUME Equipped, UNCHANGED dmVars PROVE Equipped'
BY DEF Equipped, dmVars, Xs, session

LEMMA FirstBootKeepsEquipped == ASSUME Equipped, FirstBoot PROVE Equipped'
<1>1. CASE TryInWindow
  BY <1>1, StartsEquipped DEF TryInWindow
<1>2. CASE GreetOem \/ GreetedOem
  BY <1>2, GreetsEquipped DEF GreetOem, GreetedOem
<1>3. CASE DmReturned
  BY <1>3 DEF DmReturned, Equipped
<1>4. CASE Boot \/ TryOnConsole \/ WrapperReturned \/ RemoveOemUser \/ Panic \/ PurgeAndReboot
           \/ \E reboot \in BOOLEAN : DisableService(reboot)
  BY <1>4, StaysEquipped
     DEF Boot, TryOnConsole, WrapperReturned, RemoveOemUser, Panic, PurgeAndReboot, DisableService
<1> QED BY <1>1, <1>2, <1>3, <1>4 DEF FirstBoot

LEMMA EquippedNext == ASSUME Equipped, [Next]_vars PROVE Equipped'
<1>1. CASE Live
  <2>1. CASE LiveStarts
    BY <2>1, StartsEquipped DEF LiveStarts
  <2>2. CASE GreetLive \/ GreetedLive
    BY <2>2, GreetsEquipped DEF GreetLive, GreetedLive
  <2>3. CASE LiveReturned
    BY <2>3 DEF LiveReturned, Equipped
  <2>4. CASE SilentEnds
    BY <2>4, StaysEquipped DEF SilentEnds
  <2> QED BY <1>1, <2>1, <2>2, <2>3, <2>4 DEF Live
<1>2. CASE FirstBoot
  BY <1>2, FirstBootKeepsEquipped
<1>3. CASE Wrapper \/ AddUser \/ LeaveShell
  BY <1>3, StaysEquipped
     DEF Wrapper, OemConfigEnds, DontRunAgain, RemovePackages, AddUser, LeaveShell
<1>4. CASE ProgramStep /\ UNCHANGED ByOthers
  BY <1>4, StaysEquipped DEF ByOthers
<1>5. CASE Works \/ Tell \/ Servers
  BY <1>5, DmKeepsEquipped
<1>6. CASE GoesDown
  BY <1>6 DEF GoesDown, Equipped
<1>7. CASE UNCHANGED vars
  BY <1>7, StaysEquipped DEF vars
<1> QED BY <1>1, <1>2, <1>3, <1>4, <1>5, <1>6, <1>7 DEF Next

-----------------------------------------------------------------------------
(* An installation of the live system that is done left its version file   *)
(* before, and without a window only the noninteractive frontend runs.     *)
AtWork == {"pages", "plugininstall", "install", "commit"}
Once ==
  /\ live # "off" => ~prepared
  /\ program \in AtWork => version
  /\ done => version \/ prepared
  /\ live = "silent" => kind = "noninteractive" /\ (program # "ended" => ~done)

LEMMA OnceAtFirst == Init => Once
BY DEF Init, ProgramInit, Once, AtWork

LEMMA ProgramKeepsOnce ==
  ASSUME Once, ProgramStep, UNCHANGED ByOthers
  PROVE  Once'
<1> USE DEF Once, AtWork, ByOthers, page, machine, At, Exit
<1>1. CASE Main
  BY <1>1 DEF Main
<1>2. CASE WindowStep
  BY <1>2 DEF WindowStep, WindowDone, WindowQuit, WindowCrash, WindowCannotDraw
<1>3. CASE DebconfNext \/ DebconfBack
  BY <1>3 DEF DebconfNext, DebconfBack
<1>4. CASE DebconfPlugininstall \/ DebconfInstall
  BY <1>4 DEF DebconfPlugininstall, DebconfInstall
<1>5. CASE SilentPage \/ SilentCommit
  BY <1>5 DEF SilentPage, SilentCommit
<1>6. CASE \E reboot \in BOOLEAN : SilentInstall(reboot)
  BY <1>6 DEF SilentInstall
<1> QED BY <1>1, <1>2, <1>3, <1>4, <1>5, <1>6 DEF ProgramStep

LEMMA LiveKeepsOnce == ASSUME Once, Live PROVE Once'
<1> USE DEF Once, AtWork, page, machine, programVars, Runs
<1>1. CASE LiveStarts
  BY <1>1 DEF LiveStarts
<1>2. CASE GreetLive
  BY <1>2 DEF GreetLive
<1>3. CASE GreetedLive
  BY <1>3 DEF GreetedLive
<1>4. CASE LiveReturned
  BY <1>4 DEF LiveReturned
<1>5. CASE SilentEnds
  BY <1>5 DEF SilentEnds
<1> QED BY <1>1, <1>2, <1>3, <1>4, <1>5 DEF Live

LEMMA OemKeepsOnce ==
  ASSUME Once, prepared, FirstBoot \/ Wrapper \/ AddUser \/ LeaveShell,
         UNCHANGED <<prepared, automatic, live>>
  PROVE  Once'
<1> USE DEF Once, AtWork, page, machine, programVars, Runs
<1>1. CASE FirstBoot
  BY <1>1 DEF FirstBoot, Boot, TryInWindow, TryOnConsole, GreetOem, GreetedOem, DmReturned,
              WrapperReturned, RemoveOemUser, DisableService, Panic, PurgeAndReboot,
              WrapperStarts
<1>2. CASE Wrapper
  BY <1>2 DEF Wrapper, OemConfigEnds, DontRunAgain, RemovePackages
<1>3. CASE AddUser \/ LeaveShell
  BY <1>3 DEF AddUser, LeaveShell
<1> QED BY <1>1, <1>2, <1>3

LEMMA OnceNext == ASSUME Once, [Next]_vars PROVE Once'
<1>1. CASE (Works \/ Tell \/ Servers) /\ UNCHANGED <<programVars, oemVars, prepared, automatic, live>>
  BY <1>1 DEF Once, AtWork, page, machine, programVars
<1>2. CASE GoesDown
  BY <1>2 DEF GoesDown, Once, AtWork
<1>3. CASE UNCHANGED vars
  BY <1>3 DEF vars, Once, AtWork, page, machine, programVars
<1> QED BY <1>1, <1>2, <1>3, ProgramKeepsOnce, LiveKeepsOnce, OemKeepsOnce DEF Next

(* The program is started by root on a server that reported, and an        *)
(* installation without a window never over one that is done, on any       *)
(* machine (DM.run, start-ubiquity-dm).                                    *)
THEOREM StartedWell == Spec => []WellStarted
<1>1. Init => Equipped /\ Once
  BY EquippedAtFirst, OnceAtFirst
<1>2. Equipped /\ Once /\ [Next]_vars => (Equipped /\ Once)'
  BY EquippedNext, OnceNext
<1>3. Equipped /\ Once => WellStarted
  BY DEF Equipped, Once, WellStarted
<1> QED BY <1>1, <1>2, <1>3, PTL DEF Spec

-----------------------------------------------------------------------------
(* A program that reports a success has made the account, or its user went *)
(* back; so does what waits for it, ubiquity-dm if it returned no failure. *)
Honest ==
  /\ wrapper # "off" => prepared
  /\ live # "off" => ~prepared
  /\ wrapper = "oem-config" => kind \in {"window", "debconf_ui"}
  /\ At("install", "debconf_ui") => done
  /\ wrapper = "oem-config" /\ program = "ended" /\ status = 0 => done \/ WentBack
  /\ wrapper \in {"succeeded", "removing", "over"} => done \/ claimed
  /\ prepared /\ dm \in {"telling", "stopping", "reaping", "clearing", "locale", "exited"}
       /\ ret = 0 /\ ~excepted => done \/ claimed

(* When the vendor's account is about to go there is a reason.             *)
Earned ==
  /\ firstboot \in {"cleaning", "disabling"} => done \/ claimed
  /\ firstboot \in {"shell", "purging"} => told
  /\ AWayIn

LEMMA EarnedAtFirst == Init => Honest /\ Earned
BY DEF Init, ProgramInit, DmInit, OemInit, Honest, Earned, AWayIn, At

(* The user's account, once made, stays. *)
LEMMA DoneStays == ASSUME ProgramStep, done PROVE done'
BY DEF ProgramStep, Main, WindowStep, WindowDone, WindowQuit, WindowCrash, WindowCannotDraw,
       DebconfNext, DebconfBack, DebconfPlugininstall, DebconfInstall, SilentPage, SilentCommit,
       SilentInstall, page, machine

LEMMA ProgramIsHonest == ASSUME Honest, ProgramStep, UNCHANGED ByOthers PROVE Honest'
<1>1. /\ UNCHANGED <<wrapper, prepared, live, claimed, dm, ret, excepted, kind>>
      /\ done => done'
  <2>1. UNCHANGED kind
    BY DEF ProgramStep, Main, WindowStep, WindowDone, WindowQuit, WindowCrash, WindowCannotDraw,
           DebconfNext, DebconfBack, DebconfPlugininstall, DebconfInstall, SilentPage,
           SilentCommit, SilentInstall, page
  <2> QED BY <2>1, DoneStays DEF ByOthers, dmVars, oemVars, disk, session
<1>2. At("install", "debconf_ui")' => done'
  BY <1>1 DEF Honest, ProgramStep, Main, WindowStep, WindowDone, WindowQuit, WindowCrash,
              WindowCannotDraw, DebconfNext, DebconfBack, DebconfPlugininstall, DebconfInstall,
              SilentPage, SilentCommit, SilentInstall, At, Exit
<1>3. ASSUME wrapper = "oem-config", program' = "ended", status' = 0 PROVE done' \/ WentBack'
  <2>1. prepared /\ kind \in {"window", "debconf_ui"}
    BY <1>3 DEF Honest
  <2>2. CASE Main
    BY <1>3, <2>2 DEF Main, Exit
  <2>3. CASE WindowStep
    BY <1>3, <2>1, <2>3 DEF WindowStep, WindowDone, WindowCrash, WindowCannotDraw, Exit
  <2>4. CASE ~prepared /\ WindowQuit
    BY <2>1, <2>4
  <2>5. CASE DebconfNext \/ DebconfBack
    BY <1>1, <1>3, <2>5 DEF DebconfNext, DebconfBack, At, Exit, WentBack
  <2>6. CASE DebconfPlugininstall \/ DebconfInstall
    BY <1>1, <1>3, <2>6 DEF DebconfPlugininstall, DebconfInstall, Honest, Exit
  <2>7. CASE SilentPage \/ SilentCommit \/ \E reboot \in BOOLEAN : SilentInstall(reboot)
    BY <2>1, <2>7 DEF SilentPage, SilentCommit, SilentInstall, At
  <2> QED BY <2>2, <2>3, <2>5, <2>6, <2>7 DEF ProgramStep
<1> QED BY <1>1, <1>2, <1>3 DEF Honest

LEMMA DmIsHonest ==
  ASSUME Honest, Works \/ Tell \/ Servers, UNCHANGED <<programVars, oemVars, prepared, live>>
  PROVE  Honest'
<1> DEFINE After == {"telling", "stopping", "reaping", "clearing", "locale", "exited"}
<1>1. UNCHANGED <<wrapper, prepared, live, claimed, kind, program, status, done, rebooting>>
  BY DEF programVars, page, machine, oemVars, disk
<1>2. /\ dm' \in After /\ ~excepted' => dm \in After /\ ~excepted /\ ret' = ret
  <2>1. CASE NextAttempt \/ LaunchX \/ XIsUp \/ KeepPolling \/ GiveUpX \/ AfterAttempt
    BY <2>1 DEF NextAttempt, LaunchX, XIsUp, KeepPolling, GiveUpX, AfterAttempt, Raises, session
  <2>2. CASE OpenSession \/ GotBus \/ NoBus \/ StartWm
    BY <2>2 DEF OpenSession, GotBus, NoBus, StartWm, Raises, session
  <2>3. CASE Terminate \/ Alarm \/ Reaped \/ StopX \/ DmExits \/ Tell
    BY <2>3 DEF Terminate, Alarm, Reaped, StopX, DmExits, Tell, Raises, session
  <2>4. CASE Servers
    BY <2>4 DEF Servers, XComesUp, XDies, OldXChanges, HelperExits, session
  <2> QED BY <2>1, <2>2, <2>3, <2>4 DEF Works
<1> QED BY <1>1, <1>2 DEF Honest, At, WentBack

LEMMA FirstBootIsHonest ==
  ASSUME Honest, prepared, FirstBoot, UNCHANGED <<prepared, live>>
  PROVE  Honest'
<1> USE DEF Honest, At, WentBack, programVars, page, machine, disk, dmVars, session
<1>1. CASE Boot \/ TryInWindow
  BY <1>1 DEF Boot, TryInWindow, DmStarts
<1>2. CASE TryOnConsole
  BY <1>2 DEF TryOnConsole, WrapperStarts, Runs
<1>3. CASE GreetOem
  BY <1>3 DEF GreetOem, Greet, WrapperStarts, Runs
<1>4. CASE GreetedOem
  BY <1>4 DEF GreetedOem, Greeted, WrapperStatus, WrapperEnded
<1>5. CASE DmReturned \/ WrapperReturned
  BY <1>5 DEF DmReturned, WrapperReturned
<1>6. CASE RemoveOemUser \/ Panic
  BY <1>6 DEF RemoveOemUser, Panic
<1>7. CASE PurgeAndReboot \/ \E reboot \in BOOLEAN : DisableService(reboot)
  BY <1>7 DEF PurgeAndReboot, DisableService
<1> QED BY <1>1, <1>2, <1>3, <1>4, <1>5, <1>6, <1>7 DEF FirstBoot

LEMMA HonestNext == ASSUME Honest, [Next]_vars PROVE Honest'
<1> USE DEF At, WentBack
<1>1. CASE Live
  <2>1. ~prepared /\ ~prepared' /\ wrapper = "off" /\ wrapper' = "off"
    BY <1>1 DEF Honest, Live, LiveStarts, GreetLive, GreetedLive, LiveReturned, SilentEnds, oemVars
  <2>2. At("install", "debconf_ui")' => done'
    BY <1>1 DEF Honest, Live, LiveStarts, GreetLive, GreetedLive, LiveReturned, SilentEnds,
                programVars, page, machine, Runs
  <2> QED BY <2>1, <2>2 DEF Honest
<1>2. CASE prepared /\ FirstBoot /\ UNCHANGED <<prepared, automatic, live>>
  BY <1>2, FirstBootIsHonest
<1>3. CASE Wrapper /\ UNCHANGED <<prepared, automatic, live>>
  BY <1>3 DEF Wrapper, OemConfigEnds, DontRunAgain, RemovePackages, Honest, programVars, page,
              machine, dmVars, session
<1>4. CASE (AddUser \/ LeaveShell) /\ UNCHANGED <<prepared, automatic, live>>
  BY <1>4 DEF AddUser, LeaveShell, Honest, programVars, page, machine, dmVars, session, oemVars, disk
<1>5. CASE ProgramStep /\ UNCHANGED ByOthers
  BY <1>5, ProgramIsHonest
<1>6. CASE (Works \/ Tell \/ Servers) /\ UNCHANGED <<programVars, oemVars, prepared, automatic, live>>
  BY <1>6, DmIsHonest
<1>7. CASE GoesDown
  BY <1>7 DEF GoesDown, Honest, disk
<1>8. CASE UNCHANGED vars
  BY <1>8 DEF vars, Honest, programVars, page, machine, dmVars, session, oemVars, disk
<1> QED BY <1>1, <1>2, <1>3, <1>4, <1>5, <1>6, <1>7, <1>8 DEF Next

LEMMA FirstBootKeepsEarned == ASSUME Honest, prepared, Earned, FirstBoot PROVE Earned'
<1> USE DEF Earned, AWayIn, programVars, machine, disk
<1>1. CASE Boot \/ TryInWindow \/ TryOnConsole \/ GreetOem \/ GreetedOem
  BY <1>1 DEF Boot, TryInWindow, TryOnConsole, GreetOem, GreetedOem, WrapperStarts
<1>2. CASE DmReturned
  <2>1. DmStatus = 0 => ~excepted
    BY DEF DmStatus
  <2>2. /\ DmStatus = 0 => done \/ claimed \/ ret # 0
        /\ claimed' = (claimed \/ (DmStatus = 0 /\ ret # 0 /\ ~done)) /\ done' = done
        /\ firstboot' = IF DmStatus = 0 THEN "cleaning" ELSE "trying"
        /\ UNCHANGED <<oem_user, service, installed, told>>
    BY <1>2, <2>1 DEF DmReturned, Returned, Honest
  <2>3. firstboot' \in {"cleaning", "disabling"} => done' \/ claimed'
    <3>1. CASE DmStatus = 0
      BY <2>2, <3>1, Zenon
    <3>2. CASE DmStatus # 0
      BY <2>2, <3>2
    <3> QED BY <3>1, <3>2
  <2>4. firstboot' \notin {"shell", "purging"}
    BY <2>2
  <2>5. AWayIn'
    BY <2>2, Zenon
  <2> QED BY <2>3, <2>4, <2>5
<1>3. CASE WrapperReturned
  BY <1>3 DEF WrapperReturned, Returned, WrapperStatus, Honest
<1>4. CASE RemoveOemUser
  BY <1>4 DEF RemoveOemUser
<1>5. CASE \E reboot \in BOOLEAN : DisableService(reboot)
  BY <1>5 DEF DisableService
<1>6. CASE Panic \/ PurgeAndReboot
  BY <1>6 DEF Panic, PurgeAndReboot
<1> QED BY <1>1, <1>2, <1>3, <1>4, <1>5, <1>6 DEF FirstBoot

LEMMA EarnedNext == ASSUME Honest, Earned, [Next]_vars PROVE Earned'
<1> USE DEF Earned, AWayIn
<1>1. CASE Live
  BY <1>1 DEF Live, LiveStarts, GreetLive, GreetedLive, LiveReturned, SilentEnds, programVars,
              machine, oemVars, disk
<1>2. CASE prepared /\ FirstBoot
  BY <1>2, FirstBootKeepsEarned
<1>3. CASE prepared /\ Wrapper
  <2>1. CASE OemConfigEnds \/ DontRunAgain
    BY <1>3, <2>1 DEF OemConfigEnds, DontRunAgain, programVars, machine
  <2>2. CASE RemovePackages
    BY <1>3, <2>2 DEF RemovePackages, Honest, programVars, machine
  <2> QED BY <1>3, <2>1, <2>2 DEF Wrapper
<1>4. CASE AddUser \/ LeaveShell
  BY <1>4 DEF AddUser, LeaveShell, programVars, machine, oemVars, disk
<1>5. CASE ProgramStep /\ UNCHANGED ByOthers
  BY <1>5, DoneStays DEF ByOthers, oemVars, disk
<1>6. CASE (Works \/ Tell \/ Servers) /\ UNCHANGED <<programVars, oemVars, prepared, automatic, live>>
  BY <1>6 DEF programVars, machine, oemVars, disk
<1>7. CASE GoesDown
  BY <1>7 DEF GoesDown, disk
<1>8. CASE UNCHANGED vars
  BY <1>8 DEF vars, programVars, machine, oemVars, disk
<1> QED BY <1>1, <1>2, <1>3, <1>4, <1>5, <1>6, <1>7, <1>8 DEF Next

(* However often the power fails and whatever fails on the way, a prepared *)
(* machine keeps its vendor's account, the service and the program it      *)
(* starts until its user has an account or was told how to make one,       *)
(* unless the user of the debconf frontend went back from the first page   *)
(* or ubiquity-dm lost the status of a run that failed                     *)
(* (oem-config-firstboot, oem-config-wrapper).                             *)
THEOREM NobodyLockedOut == Spec => []AWayIn
<1>1. Honest /\ Earned => AWayIn
  BY DEF Earned
<1>2. Honest /\ Earned /\ [Next]_vars => (Honest /\ Earned)'
  BY HonestNext, EarnedNext
<1> QED BY <1>1, <1>2, EarnedAtFirst, PTL DEF Spec
=============================================================================
