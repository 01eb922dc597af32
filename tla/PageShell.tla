------------------------------ MODULE PageShell ------------------------------
(***************************************************************************)
(* The part of the GTK wizard its pages share (frontend/gtk_ui.py): which  *)
(* page is shown, the two buttons and their labels.  A page's own state    *)
(* and handlers are in the module named after it; Pages puts them          *)
(* together.  Here a page is left and entered in one step each: the loop   *)
(* and the filters behind that are in Wizard and DebconfFilter.            *)
(***************************************************************************)
EXTENDS Integers, Sequences, FiniteSets

CONSTANT Tours        \* the orders in which pages may be walked through

VARIABLES
  tour,       \* the pages of this wizard
  at,         \* index in tour of the page shown; past its end the pages are done
  way,        \* 1 or -1: the direction in which the user left it
  busy,       \* the complement of allowed_change_step
  forward,    \* allowed_go_forward
  backward,   \* allowed_go_backward
  nextLabel,  \* label of the Next button: "next", "connect", "install", "restart"
  backLabel   \* label of the Back button: "back" or "stop"

shellVars == <<tour, at, way, busy, forward, backward, nextLabel, backLabel>>

Page ==
  CASE at \in DOMAIN tour -> tour[at]
    [] at = 0 -> "none"
    [] at > Len(tour) -> "install"
    [] OTHER -> "gone"

Waiting(p) == Page = p /\ ~busy

(* A button reacts while it is sensitive and the wizard allows a step.     *)
NextClicked(p) == Waiting(p) /\ forward
BackClicked(p) == Waiting(p) /\ backward

(* The page's handler has not kept the click: its filter is told, and the  *)
(* buttons wait for the next page.  Back enables Next again.               *)
Leave(direction) ==
  /\ busy' = TRUE
  /\ way' = direction
  /\ forward' = (forward \/ direction = -1)
  /\ UNCHANGED <<tour, at, backward, nextLabel, backLabel>>

(* set_page: of the two labels only the Next button's is set again, from   *)
(* plugin_is_install and plugin_is_restart.                                *)
Show(index, label) ==
  /\ busy /\ at >= 0
  /\ at' = index
  /\ busy' = FALSE
  /\ backward' = (index > 1)
  /\ nextLabel' = label
  /\ UNCHANGED <<tour, way, backLabel>>

(* The installer is gone: after an error (excepthook), to try the live     *)
(* system, or because the machine restarts.                                *)
Ends ==
  /\ at' = -1
  /\ busy' = TRUE
  /\ UNCHANGED <<tour, way, forward, backward, nextLabel, backLabel>>

AllowForward(allowed) ==
  /\ forward' = allowed
  /\ UNCHANGED <<tour, at, way, busy, backward, nextLabel, backLabel>>

ShellInit ==
  /\ tour \in Tours
  /\ at = 0 /\ way = 1 /\ busy = TRUE
  /\ forward = TRUE /\ backward = FALSE
  /\ nextLabel = "next" /\ backLabel = "back"
=============================================================================
