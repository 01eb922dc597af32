--------------------------- MODULE PageNavigation ---------------------------
(***************************************************************************)
(* Where Next and Back lead.  The page loop of run() reduced to what       *)
(* navigation needs: the page it is on, the screen that is shown, and      *)
(* the history.  A page shows its screens in order (partman has a second   *)
(* one, the advanced partitioner) unless plugin_skip_page holds or its     *)
(* script ends without a question.  Only prepare and partitioning declare   *)
(* optional widgets, so a page after partitioning has one screen.  trail   *)
(* is what the user has seen: it is what Back ought to retrace, and no     *)
(* part of the code.                                                       *)
(***************************************************************************)
EXTENDS PageHistory

CONSTANTS
  NPages,     \* how many pages the wizard has
  Partman,    \* the position of the partitioning page
  Screens,    \* Screens[i]: how many screens page i has
  Skippable,  \* pages whose plugin_skip_page may hold
  Silent,     \* pages whose script asks nothing
  MaxChanges  \* how often plugin_skip_page may change while the wizard runs (a bound)

ASSUME NavigationAssumption ==
  /\ NPages \in Nat \ {0} /\ Partman \in 1 .. NPages
  /\ Screens \in [1 .. NPages -> Nat \ {0}]
  /\ \A i \in Partman + 1 .. NPages : Screens[i] = 1
  /\ 1 \notin Skippable \cup Silent
  /\ NoWidget \notin Nat /\ MaxChanges \in Nat

VARIABLES
  pagesindex, history, backup,
  widget,   \* the screen of the page that is shown, or NoWidget
  skipped,  \* the pages whose plugin_skip_page holds
  changes,  \* how often that has changed
  trail     \* the screens seen and not backed out of

vars == <<pagesindex, history, backup, widget, skipped, changes, trail>>

Shown == Entry(pagesindex, widget)
Passed == pagesindex \in skipped \cup Silent

Init ==
  /\ pagesindex = 1 /\ history = <<>> /\ backup = FALSE /\ widget = NoWidget
  /\ skipped \in SUBSET Skippable /\ changes = 0
  /\ trail = {}

(* The page asks: set_page. *)
Show(w) ==
  /\ pagesindex <= NPages /\ w \in 1 .. Screens[pagesindex]
  /\ \/ widget = NoWidget /\ ~Passed /\ w = 1
     \/ widget \in Nat /\ w = widget + 1
  /\ widget' = w
  /\ history' = AddHistory(history, Entry(pagesindex, w))
  /\ backup' = FALSE
  /\ trail' = {e \in trail : e.page < pagesindex \/ e.widget < w} \cup {Entry(pagesindex, w)}
  /\ UNCHANGED <<pagesindex, skipped, changes>>

(* The page shows nothing. *)
Pass ==
  /\ pagesindex <= NPages /\ widget = NoWidget /\ Passed
  /\ pagesindex' = IF backup THEN PopIndex(history, pagesindex) ELSE pagesindex + 1
  /\ history' = IF backup THEN PopHistory(history) ELSE history
  /\ UNCHANGED <<backup, widget, skipped, changes, trail>>

NextPage ==
  /\ pagesindex <= NPages /\ widget # NoWidget
  /\ pagesindex' = pagesindex + 1
  /\ widget' = NoWidget
  /\ UNCHANGED <<history, backup, skipped, changes, trail>>

(* set_page: whether Back is enabled. *)
BackOffered == pagesindex > 1 /\ Partman \notin 1 .. pagesindex - 2

Back ==
  /\ pagesindex <= NPages /\ widget # NoWidget /\ BackOffered
  /\ backup' = TRUE
  /\ pagesindex' = PopIndex(history, pagesindex)
  /\ history' = PopHistory(history)
  /\ widget' = NoWidget
  /\ trail' = trail \ {Shown}
  /\ UNCHANGED <<skipped, changes>>

(* return_to_partitioning, from a page after partitioning. *)
ReturnToPartitioning ==
  /\ pagesindex > Partman
  /\ pagesindex' = Partman /\ widget' = NoWidget
  /\ trail' = {e \in trail : e.page < Partman}
  /\ UNCHANGED <<history, backup, skipped, changes>>

(* network_change: plugin_set_online_state. *)
NetworkChange ==
  /\ changes < MaxChanges /\ changes' = changes + 1
  /\ skipped' \in SUBSET Skippable
  /\ UNCHANGED <<pagesindex, history, backup, widget, trail>>

Next == (\E w \in 1 .. Max({Screens[i] : i \in 1 .. NPages}) : Show(w))
          \/ Pass \/ NextPage \/ Back \/ ReturnToPartitioning \/ NetworkChange
          \/ (pagesindex > NPages /\ UNCHANGED vars)

Spec == Init /\ [][Next]_vars /\ WF_vars(Pass \/ Show(1))

-----------------------------------------------------------------------------
(* What the history holds of the screens that were shown. *)
Real(h) == {e \in {h[i] : i \in DOMAIN h} : e.widget # NoWidget}

(* Screens come in the order of their pages, a page's in the page's order; *)
(* a page jumped over has no others.                                       *)
Before(a, b) ==
  \/ a.page < b.page
  \/ a.page = b.page /\ NoWidget \notin {a.widget, b.widget} /\ a.widget < b.widget

InOrder(h) == \A i, j \in DOMAIN h : i < j => Before(h[i], h[j])

(* As long as plugin_skip_page gives the same answers, and while a screen  *)
(* is shown, the history, less the entries of pages jumped over, is        *)
(* exactly the screens the user went through, once each and in their       *)
(* order: no jump, forward or back, loses or repeats one (add_history).    *)
HistoryFollowsTrail ==
  changes = 0 /\ widget # NoWidget => Real(history) = trail /\ InOrder(history)

(* Then Back ends up, however many pages are passed over on the way, on    *)
(* the page of the screen seen before, which starts again from its first   *)
(* screen (pop_history, set_page).                                         *)
BackShowsPrevious ==
  [][changes = 0 /\ backup /\ ~backup'
       => /\ \E e \in trail : e.page = pagesindex' /\ \A f \in trail : f.page <= e.page
          /\ widget' = 1]_vars

(* Back always ends up showing a screen, even if the pages to pass over    *)
(* change on the way: they do not send run() round in circles.             *)
BackEnds == backup ~> ~backup
=============================================================================
