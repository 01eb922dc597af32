------------------------------- MODULE Wizard -------------------------------
(***************************************************************************)
(* The GTK installer wizard: the loop over the pages (Wizard.run), the     *)
(* debconf filters it runs in the foreground, one per page, the filters    *)
(* find_next_step launches in the background (partman_commit, install,     *)
(* plugininstall), and the nested GTK main loops they all share.           *)
(*                                                                         *)
(* A filter is one FilteredCommand object with its script.  loops is the   *)
(* stack of GTK main loops being run: "run" for the one of Wizard.run, and *)
(* a filter for each enter_ui_loop whose question is on the screen.  Every *)
(* handler runs on top of that stack, in one thread, so it is one step;    *)
(* the main loops of modal dialogs are part of the step that opens them.   *)
(* Pages are numbered from 1 here and from 0 in the code.                  *)
(***************************************************************************)
EXTENDS Naturals, Sequences, FiniteSets, PageHistory

CONSTANTS
  Pages,      \* names of the wizard's pages, in order
  UiOnly,     \* pages with no filter
  Skippable,  \* pages whose plugin_skip_page may hold
  Silent,     \* pages whose script asks nothing that was not preseeded
  NoGo,       \* pages whose script sends no GO, and exits 0 when backed out of
  FilterIds,  \* the filters that may be alive at once (a bound)
  Prompt,     \* quits are done before anything else happens
  NoFilter,   \* Python's None, for a filter
  MaxFaults   \* bound on the failures, errors and changes of mind

PageNames == {Pages[i] : i \in DOMAIN Pages}
Background == {"partman_commit", "install", "plugininstall"}

ASSUME PagesAssumption ==
  /\ Pages \in Seq(STRING)
  /\ "partman" \in PageNames
  /\ \A i, j \in DOMAIN Pages : Pages[i] = Pages[j] => i = j
  /\ UiOnly \cap {"partman", "timezone"} = {}
  /\ "partman" \notin Skippable \cup Silent \cup NoGo
  /\ Pages[Len(Pages)] \notin {"partman", "timezone"} \cup Skippable
  /\ PageNames \cap (Background \cup {"none"}) = {}
  /\ (Silent \cup NoGo) \cap Background = {}
ASSUME FilterIdsAssumption == NoFilter \notin FilterIds /\ "run" \notin FilterIds
ASSUME PromptAssumption == Prompt \in BOOLEAN
ASSUME MaxFaultsAssumption == MaxFaults \in Nat

VARIABLES
  stage,                \* where run() is: "pages", "slideshow", "finished", "exited"
  pagesindex,           \* the page run() is on
  history,              \* see PageHistory
  backup,               \* the user is going back
  current_page,         \* FALSE once it is None: the installer is being quit
  dbfilter,             \* the filter of the page being run, or NoFilter
  dbfilter_status,      \* the last filter to exit (of any kind) failed
  filters,              \* the FilteredCommand of each filter
  loops,                \* the GTK main loops being run, innermost last
  pending_quits,        \* quits asked of quit_main_loop and not yet done
  installing, locked,   \* switch_to_install_interface; lockdown_environment
  partitioned, timezone_set, finished_installing, finished_pages,
  allowed_change_step, allowed_go_backward,
  reopened,             \* (history) Back was pressed on a page past partitioning
  faults                \* (history) failures so far

place    == <<stage, pagesindex, history, backup, current_page>>
progress == <<partitioned, timezone_set, finished_installing, finished_pages>>
buttons  == <<allowed_change_step, allowed_go_backward>>
vars == <<place, dbfilter, dbfilter_status, filters, loops, pending_quits,
          installing, locked, progress, buttons, reopened, faults>>

-----------------------------------------------------------------------------
(* Filters *)

(* loop: its ui_loop_level is above 0.  go: what its script was last told, *)
(* "none" when it has yet to ask.                                          *)
Idle == [module |-> "none", done |-> FALSE, succeeded |-> FALSE,
         loop |-> FALSE, go |-> "none"]
Started(m) == [Idle EXCEPT !.module = m]

Live(f) == filters[f].module # "none"
Running(m) == {f \in FilterIds : filters[f].module = m}
IsPage(f) == filters[f].module \in PageNames

Fresh(fs) == CHOOSE f \in FilterIds : fs[f] = Idle
HasRoom(fs) == \E f \in FilterIds : fs[f] = Idle

(* exit_ui_loops, as the number of quits it asks for. *)
LoopQuits(f) == IF f # NoFilter /\ filters[f].loop THEN 1 ELSE 0

(* cancel_handler of the filter f, if there is one. *)
Cancelled(f) ==
  IF f = NoFilter THEN filters
  ELSE [filters EXCEPT ![f].done = TRUE, ![f].succeeded = FALSE, ![f].loop = FALSE]

OnStack(f) == \E i \in DOMAIN loops : loops[i] = f
Top == loops[Len(loops)]
Popped == SubSeq(loops, 1, Len(loops) - 1)

\* Mutated: counted from 0.
PartmanFromZero == (CHOOSE i \in DOMAIN Pages : Pages[i] = "partman") - 1
PartmanIndex == CHOOSE i \in DOMAIN Pages : Pages[i] = "partman"
CanFault == faults < MaxFaults /\ faults' = faults + 1

Init ==
  /\ stage = "pages" /\ pagesindex = 1 /\ history = <<>> /\ backup = FALSE
  /\ current_page = TRUE
  /\ dbfilter = NoFilter /\ dbfilter_status = FALSE
  /\ filters = [f \in FilterIds |-> Idle]
  /\ loops = <<>> /\ pending_quits = 0
  /\ installing = FALSE /\ locked = FALSE
  /\ partitioned = FALSE /\ timezone_set = FALSE
  /\ finished_installing = FALSE /\ finished_pages = FALSE
  /\ allowed_change_step = TRUE /\ allowed_go_backward = TRUE
  /\ reopened = FALSE /\ faults = 0

-----------------------------------------------------------------------------
(* find_next_step: what follows the end of a step.                         *)

LastPageDone(m) == m = Pages[Len(Pages)] /\ ~backup

\* Mutated: the time zone page does not wait for the partitions.
LaunchesTooSoon(m) ==
  {b \in Background :
     \/ LastPageDone(m) /\ finished_installing /\ b = "plugininstall"
     \/ /\ ~LastPageDone(m)
        /\ \/ m = "partman" /\ b = "partman_commit"
           \/ m = "timezone" /\ b = "install"
           \/ m = "partman_commit" /\ timezone_set /\ b = "install"
           \/ m = "install" /\ finished_pages /\ b = "plugininstall"}

\* Mutated: the end of the last page starts nothing.
LaunchesTooFew(m) ==
  {b \in Background :
     /\ ~LastPageDone(m)
     /\ \/ m = "partman" /\ b = "partman_commit"
        \/ m = "timezone" /\ partitioned /\ b = "install"
        \/ m = "partman_commit" /\ timezone_set /\ b = "install"
        \/ m = "install" /\ finished_pages /\ b = "plugininstall"}

(* The filter it starts in the background, if any. *)
Launches(m) ==
  {b \in Background :
     \/ LastPageDone(m) /\ finished_installing /\ b = "plugininstall"
     \/ /\ ~LastPageDone(m)
        /\ \/ m = "partman" /\ b = "partman_commit"
           \/ m = "timezone" /\ partitioned /\ b = "install"
           \/ m = "partman_commit" /\ timezone_set /\ b = "install"
           \/ m = "install" /\ finished_pages /\ b = "plugininstall"}

\* Mutated: only once the partitions are made.
SwitchesTooLate(m) == m = "partman_commit"

(* The step after which find_next_step calls switch_to_install_interface. *)
SwitchesToInstall(m) == m = "partman"

(* fs is the table of filters without the one that ended. *)
FindNextStep(m, fs) ==
  LET last == LastPageDone(m)
  IN  /\ filters' \in IF Launches(m) = {} THEN {fs}
                      ELSE {[fs EXCEPT ![Fresh(fs)] = Started(b)] : b \in Launches(m)}
      /\ finished_pages' = (finished_pages \/ last)
      /\ timezone_set' = (timezone_set \/ m = "timezone")
      /\ partitioned' = (partitioned \/ m = "partman_commit")
      /\ finished_installing' = (finished_installing \/ m = "install")
      /\ installing' = ((installing \/ SwitchesToInstall(m)) /\ m # "plugininstall")
      /\ locked' = (locked \/ SwitchesToInstall(m))

-----------------------------------------------------------------------------
(* run(): the loop over the pages *)

AtLoopHead == stage = "pages" /\ loops = <<>>
Page == Pages[pagesindex]

(* set_page: show the question of page i. *)
SetPage(i) ==
  /\ backup' = FALSE
  /\ current_page' = TRUE
  /\ history' = AddHistory(history, Entry(i, "shown"))
  /\ allowed_go_backward' =
       (pagesindex > 1 /\ \A j \in 1 .. pagesindex - 2 : Pages[j] # "partman")

StartFilterPage ==
  /\ AtLoopHead /\ pagesindex \in DOMAIN Pages /\ current_page
  /\ Page \notin UiOnly /\ HasRoom(filters)
  /\ filters' = [filters EXCEPT ![Fresh(filters)] = Started(Page)]
  /\ dbfilter' = Fresh(filters)
  /\ loops' = <<"run">>
  /\ allowed_change_step' = FALSE
  /\ UNCHANGED <<place, dbfilter_status, pending_quits, installing, locked,
                 progress, allowed_go_backward, reopened, faults>>

StartUiPage ==
  /\ AtLoopHead /\ pagesindex \in DOMAIN Pages /\ current_page
  /\ Page \in UiOnly
  /\ dbfilter' = NoFilter /\ dbfilter_status' = FALSE
  /\ SetPage(pagesindex)
  /\ loops' = <<"run">>
  /\ allowed_change_step' = TRUE
  /\ UNCHANGED <<stage, pagesindex, filters, pending_quits, installing, locked,
                 progress, reopened, faults>>

(* What run() does after a page: go back, go on, or, when a filter failed, *)
(* ask the user (dbfilter_handle_status).                                  *)
AfterPage ==
  /\ UNCHANGED <<stage, backup>>
  /\ dbfilter_status' = (dbfilter_status /\ (backup \/ ~current_page))
  /\ \/ /\ backup
        /\ pagesindex' = PopIndex(history, pagesindex)
        /\ history' = PopHistory(history)
        /\ UNCHANGED current_page
     \/ /\ ~backup /\ ~current_page
        /\ UNCHANGED <<pagesindex, history, current_page>>
     \/ /\ ~backup /\ current_page
        /\ pagesindex' = pagesindex + 1
        /\ UNCHANGED <<history, current_page>>
     \/ /\ ~backup /\ current_page /\ dbfilter_status
        /\ \E quit \in BOOLEAN : current_page' = ~quit
        /\ UNCHANGED <<pagesindex, history>>

SkipPage ==
  /\ AtLoopHead /\ pagesindex \in DOMAIN Pages /\ current_page
  /\ Page \in Skippable
  /\ AfterPage
  /\ UNCHANGED <<dbfilter, filters, loops, pending_quits, installing, locked,
                 progress, buttons, reopened, faults>>

(* The main loop of run() ends; what quits are left are lost in refresh(). *)
PageReturns ==
  /\ stage = "pages" /\ loops = <<"run">> /\ pending_quits > 0
  /\ loops' = <<>> /\ pending_quits' = 0
  /\ AfterPage
  /\ UNCHANGED <<dbfilter, filters, installing, locked, progress, buttons,
                 reopened, faults>>

LeaveRun ==
  /\ AtLoopHead /\ pagesindex \in DOMAIN Pages /\ ~current_page
  /\ stage' = "exited"
  /\ UNCHANGED <<pagesindex, history, backup, current_page, dbfilter,
                 dbfilter_status, filters, loops, pending_quits, installing,
                 locked, progress, buttons, reopened, faults>>

StartSlideshow ==
  /\ AtLoopHead /\ pagesindex \notin DOMAIN Pages
  /\ stage' = "slideshow" /\ loops' = <<"run">>
  /\ UNCHANGED <<pagesindex, history, backup, current_page, dbfilter,
                 dbfilter_status, filters, pending_quits, installing, locked,
                 progress, buttons, reopened, faults>>

(* The slideshow's main loop ends: the finished dialog. *)
Finish ==
  /\ stage = "slideshow" /\ loops = <<"run">> /\ pending_quits > 0
  /\ stage' = "finished" /\ loops' = <<>>
  /\ pending_quits' = pending_quits - 1 /\ locked' = FALSE
  /\ UNCHANGED <<pagesindex, history, backup, current_page, dbfilter,
                 dbfilter_status, filters, installing, progress, buttons,
                 reopened, faults>>

-----------------------------------------------------------------------------
(* Filters: questions, answers and exits *)

Up == stage \in {"pages", "slideshow"}

(* Scripts and users are heard by a main loop or by refresh().  If Prompt,  *)
(* a quit, which an idle callback does within milliseconds, always comes   *)
(* before whatever a script or the user does next.                         *)
Listening == Up /\ (Prompt => pending_quits = 0)

(* The script asks.  A filter that is done answers by itself; one that is  *)
(* not shows its page and enters a main loop.                              *)
AnswerAtOnce(f) ==
  /\ Listening /\ IsPage(f) /\ ~OnStack(f) /\ filters[f].done
  /\ filters[f].go # IF filters[f].succeeded THEN "ok" ELSE "backup"
  /\ filters' = [filters EXCEPT ![f].go = IF filters[f].succeeded THEN "ok" ELSE "backup"]
  /\ UNCHANGED <<place, dbfilter, dbfilter_status, loops, pending_quits,
                 installing, locked, progress, buttons, reopened, faults>>

Ask(f) ==
  /\ Listening /\ IsPage(f) /\ ~OnStack(f) /\ ~filters[f].done
  /\ filters[f].module \notin Silent
  /\ \/ filters[f].go = "none" /\ UNCHANGED faults
     \/ filters[f].go # "none" /\ CanFault
  /\ SetPage(CHOOSE i \in DOMAIN Pages : Pages[i] = filters[f].module)
  /\ filters' = [filters EXCEPT ![f].succeeded = FALSE, ![f].loop = TRUE,
                                ![f].go = "none"]
  /\ loops' = Append(loops, f)
  /\ allowed_change_step' = TRUE
  /\ UNCHANGED <<stage, pagesindex, dbfilter, dbfilter_status, pending_quits,
                 installing, locked, progress, reopened>>

(* A quit reaches the main loop of the question: the script is answered. *)
QuestionReturns(f) ==
  /\ Up /\ loops # <<>> /\ Top = f /\ pending_quits > 0
  /\ loops' = Popped /\ pending_quits' = pending_quits - 1
  /\ filters' = [filters EXCEPT ![f].go = IF filters[f].succeeded THEN "ok" ELSE "backup"]
  /\ UNCHANGED <<place, dbfilter, dbfilter_status, installing, locked, progress,
                 buttons, reopened, faults>>

\* Mutated: any filter leaves the page loop.
ExitsPage(f, more) ==
  /\ pending_quits' = pending_quits + LoopQuits(f) + more + 1
  /\ dbfilter' = IF f = dbfilter THEN NoFilter ELSE dbfilter

\* Mutated: the page's filter is not forgotten.
ExitsUnnoticed(f, more) ==
  /\ pending_quits' = pending_quits + LoopQuits(f) + more
                      + IF f = dbfilter THEN 1 ELSE 0
  /\ UNCHANGED dbfilter

(* The end of a script (process_input): its filter leaves any main loop it *)
(* believes it is in, and the page loop is left if it was the page's.      *)
Exit(f, more) ==
  /\ pending_quits' = pending_quits + LoopQuits(f) + more
                      + IF f = dbfilter THEN 1 ELSE 0
  /\ dbfilter' = IF f = dbfilter THEN NoFilter ELSE dbfilter

Without(f) == [filters EXCEPT ![f] = Idle]

(* plugininstall works for minutes: when it ends, the quits asked for      *)
(* before it have been done and run() is in its next main loop.            *)
FilterSucceeds(f) ==
  /\ Listening /\ Live(f) /\ ~OnStack(f)
  /\ LET m == filters[f].module IN
     /\ \/ m \in PageNames /\ filters[f].go = "ok"
        \/ m \in Silent /\ filters[f].go = "none"
        \/ m \in NoGo /\ filters[f].go = "backup"
        \/ m \in Background \ {"plugininstall"}
        \/ m = "plugininstall" /\ pending_quits = 0 /\ loops # <<>>
     /\ dbfilter_status' = FALSE
     /\ FindNextStep(m, Without(f))
     /\ Exit(f, IF m = "plugininstall" THEN 1 ELSE 0)
     /\ allowed_change_step' = (allowed_change_step /\ m # "partman")
  /\ UNCHANGED <<place, loops, allowed_go_backward, reopened, faults>>

(* The script exits non-zero: because it was told to back up, or broken.   *)
FilterFails(f) ==
  /\ Listening /\ Live(f) /\ ~OnStack(f)
  /\ filters[f].module \notin {"install", "plugininstall"}
  /\ \/ IsPage(f) /\ filters[f].go = "backup" /\ UNCHANGED faults
     \/ CanFault
  /\ dbfilter_status' = TRUE
  /\ filters' = Without(f)
  /\ Exit(f, 0)
  /\ UNCHANGED <<place, loops, installing, locked, progress, buttons, reopened>>

(* The crash dialog: sys.exit. *)
Crash(f) ==
  /\ Listening /\ filters[f].module \in {"install", "plugininstall"} /\ CanFault
  /\ stage' = "exited"
  /\ UNCHANGED <<pagesindex, history, backup, current_page, dbfilter,
                 dbfilter_status, filters, loops, pending_quits, installing,
                 locked, progress, buttons, reopened>>

(* error_dialog for the filter f, fatal, then its error() or run() sets    *)
(* done: return_to_partitioning starts partman again if installing.        *)
FatalError(f, done) ==
  LET told(fs) == [fs EXCEPT ![f].done = done, ![f].succeeded = FALSE, ![f].go = "none"]
      new == Fresh(filters)
  IN  IF installing
      THEN /\ HasRoom(filters)
           /\ filters' = [told(Cancelled(dbfilter)) EXCEPT ![new] = Started("partman")]
           /\ pending_quits' = pending_quits + LoopQuits(dbfilter)
           /\ dbfilter' = new
           /\ pagesindex' = PartmanIndex
           /\ allowed_change_step' = FALSE
           /\ installing' = FALSE /\ locked' = FALSE
      ELSE /\ filters' = told(filters)
           /\ UNCHANGED <<pending_quits, dbfilter, pagesindex,
                          allowed_change_step, installing, locked>>

BackgroundError(f) ==
  /\ Listening /\ filters[f].module \in Background /\ CanFault
  /\ FatalError(f, filters[f].module = "partman_commit")
  /\ UNCHANGED <<stage, history, backup, current_page, dbfilter_status, loops,
                 progress, allowed_go_backward, reopened>>

PartmanError(f) ==
  /\ Listening /\ filters[f].module = "partman" /\ ~OnStack(f) /\ CanFault
  /\ FatalError(f, FALSE)
  /\ UNCHANGED <<stage, history, backup, current_page, dbfilter_status, loops,
                 progress, allowed_go_backward, reopened>>

(* A page's script rejects the answer: it will ask again. *)
PageError(f) ==
  /\ Listening /\ IsPage(f) /\ filters[f].module # "partman" /\ ~OnStack(f)
  /\ filters[f].go = "ok" /\ CanFault
  /\ filters' = [filters EXCEPT ![f].done = FALSE, ![f].succeeded = FALSE, ![f].go = "none"]
  /\ UNCHANGED <<place, dbfilter, dbfilter_status, loops, pending_quits,
                 installing, locked, progress, buttons, reopened>>

-----------------------------------------------------------------------------
(* The user *)

CanClick == Listening /\ loops # <<>> /\ allowed_change_step /\ pagesindex \in DOMAIN Pages

\* Mutated: the buttons stay enabled.
ClickedAgain == UNCHANGED allowed_change_step

Clicked == allowed_change_step' = FALSE

(* ok_handler; partman's leaves done to its confirmation question. *)
NextOnFilterPage ==
  /\ CanClick /\ dbfilter # NoFilter
  /\ LET done == filters[dbfilter].done \/ filters[dbfilter].module # "partman"
     IN  filters' = [filters EXCEPT ![dbfilter].done = done,
                       ![dbfilter].succeeded = TRUE, ![dbfilter].loop = FALSE]
  /\ pending_quits' = pending_quits + LoopQuits(dbfilter)
  /\ Clicked
  /\ \E install_now \in BOOLEAN :  \* partman's plugin_on_next_clicked
       /\ install_now => Page = "partman"
       /\ installing' = (installing \/ install_now)
       /\ locked' = (locked \/ install_now)
  /\ UNCHANGED <<place, dbfilter, dbfilter_status, loops, progress,
                 allowed_go_backward, reopened, faults>>

NextOnUiPage ==
  /\ CanClick /\ dbfilter = NoFilter
  /\ Launches(Page) # {} => HasRoom(filters)
  /\ FindNextStep(Page, filters)
  /\ pending_quits' = pending_quits + 1
  /\ Clicked
  /\ UNCHANGED <<place, dbfilter, dbfilter_status, loops, allowed_go_backward,
                 reopened, faults>>

BackClicked ==
  /\ CanClick /\ allowed_go_backward
  /\ backup' = TRUE
  /\ filters' = Cancelled(dbfilter)
  /\ pending_quits' = pending_quits + IF dbfilter = NoFilter THEN 1 ELSE LoopQuits(dbfilter)
  /\ reopened' = (reopened \/ pagesindex > PartmanIndex)
  /\ Clicked
  /\ UNCHANGED <<stage, pagesindex, history, current_page, dbfilter,
                 dbfilter_status, loops, installing, locked, progress,
                 allowed_go_backward, faults>>

(* quit_installer, once the user confirms; the button is hidden when locked. *)
Quit ==
  /\ Listening /\ loops # <<>> /\ ~locked /\ current_page
  /\ current_page' = FALSE
  /\ filters' = Cancelled(dbfilter)
  /\ pending_quits' = pending_quits + LoopQuits(dbfilter) + 1
  /\ UNCHANGED <<stage, pagesindex, history, backup, dbfilter, dbfilter_status,
                 loops, installing, locked, progress, buttons, reopened, faults>>

-----------------------------------------------------------------------------
Run == StartFilterPage \/ StartUiPage \/ SkipPage \/ PageReturns \/ LeaveRun
         \/ StartSlideshow \/ Finish
Filter(f) == AnswerAtOnce(f) \/ Ask(f) \/ QuestionReturns(f) \/ FilterSucceeds(f)
Fault(f) == FilterFails(f) \/ Crash(f) \/ BackgroundError(f) \/ PartmanError(f)
              \/ PageError(f)
User == NextOnFilterPage \/ NextOnUiPage \/ BackClicked \/ Quit
Ended == stage \in {"finished", "exited"} /\ UNCHANGED vars

Next == Run \/ (\E f \in FilterIds : Filter(f) \/ Fault(f)) \/ User \/ Ended

Spec == Init /\ [][Next]_vars

(* What the scheduler gives: main loops that were told to quit return, and *)
(* scripts ask or end; and a user who, each time a page comes back, ends   *)
(* up pressing Next on it.                                                 *)
Fairness ==
  /\ WF_vars(Run)
  /\ \A f \in FilterIds :
       WF_vars(AnswerAtOnce(f) \/ Ask(f) \/ QuestionReturns(f) \/ FilterSucceeds(f)
                 \/ (IsPage(f) /\ filters[f].go = "backup" /\ FilterFails(f)))
  /\ \A i \in DOMAIN Pages :
       SF_vars(pagesindex = i /\ (NextOnFilterPage \/ NextOnUiPage))

FairSpec == Spec /\ Fairness

-----------------------------------------------------------------------------
(* Properties *)

Filters == [module : PageNames \cup Background \cup {"none"}, done : BOOLEAN,
            succeeded : BOOLEAN, loop : BOOLEAN, go : {"none", "ok", "backup"}]
Widgets == {"shown", NoWidget}

TypeOK ==
  /\ stage \in {"pages", "slideshow", "finished", "exited"}
  /\ pagesindex \in 1 .. Len(Pages) + 1
  /\ history \in Seq([page : DOMAIN Pages, widget : Widgets])
  /\ dbfilter \in FilterIds \cup {NoFilter}
  /\ filters \in [FilterIds -> Filters]
  /\ loops \in Seq(FilterIds \cup {"run"})
  /\ pending_quits \in Nat
  /\ backup \in BOOLEAN /\ current_page \in BOOLEAN /\ dbfilter_status \in BOOLEAN
  /\ installing \in BOOLEAN /\ locked \in BOOLEAN
  /\ partitioned \in BOOLEAN /\ timezone_set \in BOOLEAN
  /\ finished_installing \in BOOLEAN /\ finished_pages \in BOOLEAN
  /\ allowed_change_step \in BOOLEAN /\ allowed_go_backward \in BOOLEAN
  /\ reopened \in BOOLEAN /\ faults \in 0 .. MaxFaults

(* However partitioning, pages and errors interleave, the copy of the      *)
(* system only runs once the disk is partitioned and the time zone known,  *)
(* and the last phase once the copy and the pages are over                 *)
(* (maybe_start_installing, find_next_step).                               *)
StepsInOrder ==
  /\ Running("install") # {} => partitioned /\ timezone_set
  /\ Running("plugininstall") # {} => finished_installing /\ finished_pages

(* Whatever replaces whatever after an error, a filter whose script has    *)
(* ended is forgotten: Next and Back never call it, and no main loop runs  *)
(* for it, or twice for one that is alive (debconffilter_done,             *)
(* return_to_partitioning, enter_ui_loop).                                 *)
NoDeadFilter ==
  /\ dbfilter # NoFilter => IsPage(dbfilter)
  /\ \A i \in DOMAIN loops : loops[i] # "run" => IsPage(loops[i])
  /\ \A i, j \in DOMAIN loops : loops[i] = loops[j] => i = j

(* Every quit asked of quit_main_loop has a main loop left to end (unless  *)
(* the user is quitting), and reaches the one it was meant for: a filter   *)
(* that believes it is in a main loop is in it.                            *)
NoQuitLost ==
  /\ Up /\ current_page => pending_quits <= Len(loops)
  /\ \A f \in FilterIds : filters[f].loop => OnStack(f)

(* From the moment a step works on the disk until the finished dialog, the *)
(* user cannot quit (lockdown_environment, unlock_environment).            *)
LockedWhileWorking ==
  Up /\ (\E f \in FilterIds : filters[f].module \in Background) => locked

(* Next and Back act on the page on the screen: when they are enabled on a *)
(* page with a filter, that filter's question is the innermost main loop.  *)
ClicksReachThePage == current_page /\ CanClick /\ dbfilter # NoFilter => Top = dbfilter

(* gtk_ui.py, run: the slideshow's main loop ends with the last phase.     *)
FinishedWhenDone ==
  stage = "finished" /\ current_page =>
    /\ finished_installing /\ finished_pages
    /\ \A f \in FilterIds : filters[f].module \notin Background

(* The wizard comes to an end: no quit, click or exit is waited for in     *)
(* vain.                                                                   *)
Termination == <>(stage \in {"finished", "exited"})

(* The background steps implement InstallPlan: whatever the order in which *)
(* the time zone page and the steps end, at most one works on the target   *)
(* at a time, and none is started twice, unless something failed or the    *)
(* user went back from the page after partitioning, where Back is enabled. *)
Plan == INSTANCE InstallPlan WITH
  done <- {s \in {"partman_commit", "timezone", "install", "pages", "plugininstall"} :
             \/ s = "partman_commit" /\ partitioned
             \/ s = "timezone" /\ timezone_set
             \/ s = "install" /\ finished_installing
             \/ s = "pages" /\ finished_pages
             \/ s = "plugininstall" /\ finished_installing /\ finished_pages
                  /\ Running(s) = {}},
  running <- [s \in Background |-> Cardinality(Running(s))],
  announced <- stage = "finished",
  given_up <- faults > 0 \/ reopened
ImplementsPlan == Plan!Spec

(* gtk_ui.py, set_page: past partitioning "there is no going back" unless  *)
(* the install fails, so that the partitions are made once.                *)
CommittedOnce ==
  faults = 0 =>
    /\ Cardinality(Running("partman_commit")) <= 1
    /\ partitioned => Running("partman_commit") = {}
=============================================================================
