----------------------------- MODULE PreparePage -----------------------------
(***************************************************************************)
(* The page on what else to install (plugins/ubi-prepare.py, GTK): the     *)
(* multimedia codecs, which with Secure Boot need a password, and          *)
(* downloads, which need the network.  On a machine without a disk that is *)
(* large enough, or with one in RST mode, it shows another page instead.   *)
(***************************************************************************)
EXTENDS PageShell

CONSTANT Machines    \* [secureboot, rst], the machines to install on

VARIABLES
  machine,    \* the one installed on
  space,      \* a disk is large enough
  view,       \* current_page: "prepare", "nospace" or "rst"
  nonfree,    \* prepare_nonfree_software is ticked
  disableSB,  \* disable_secureboot is ticked
  grid,       \* the password's entries are sensitive
  key,        \* the two entries: "empty", "bad" or "good"
  box,        \* [active, sensitive]: prepare_download_updates
  remembered, \* download_updates: what box was before the network went
  stored      \* use_nonfree, download_updates, secureboot_key in the database

prepareVars == <<machine, space, view, nonfree, disableSB, grid, key, box, remembered, stored>>

(* info_loop *)
MayContinue(n, g, k) == ~n \/ ~g \/ k = "good"

(* Page.prepare: the stored choice, Secure Boot (whose box is ticked each  *)
(* time), downloads, and the disks last.  A signal is only emitted, and    *)
(* Next only looked at, if something changes.                              *)
EnterPrepare ==
  LET looked == nonfree # stored.nonfree \/ machine.secureboot IN
  /\ nonfree' = stored.nonfree
  /\ disableSB' = (disableSB \/ machine.secureboot)
  /\ grid' = (grid \/ (machine.secureboot /\ ~disableSB))
  /\ remembered' = stored.downloads
  /\ box' = IF box.sensitive THEN [box EXCEPT !.active = stored.downloads] ELSE box
  /\ view' = IF machine.rst THEN "rst" ELSE IF ~space THEN "nospace" ELSE view
  /\ forward' = IF ~machine.rst /\ ~space THEN FALSE
                ELSE IF looked THEN MayContinue(nonfree', grid', key) ELSE forward
  /\ UNCHANGED <<machine, space, key, stored>>

Change(n, d, g, k) ==
  /\ Page = "prepare" /\ view = "prepare"
  /\ nonfree' = n /\ disableSB' = d /\ grid' = g /\ key' = k
  /\ AllowForward(MayContinue(n, g, k))
  /\ UNCHANGED <<machine, space, view, box, remembered, stored>>

ToggleNonfree == Change(~nonfree, disableSB, grid, key)
(* These two can only be used while the codecs are wanted.                 *)
ToggleSecureBoot ==
  machine.secureboot /\ nonfree /\ Change(nonfree, ~disableSB, ~disableSB, key)
TypeKey ==
  machine.secureboot /\ nonfree /\ grid
  /\ \E k \in {"empty", "bad", "good"} \ {key} : Change(nonfree, disableSB, grid, k)
ToggleDownloads ==
  /\ Page = "prepare" /\ view = "prepare" /\ box.sensitive
  /\ box' = [box EXCEPT !.active = ~@]
  /\ UNCHANGED <<machine, space, view, nonfree, disableSB, grid, key, remembered, stored>>
  /\ UNCHANGED shellVars

(* plugin_set_online_state: the box is remembered while there is no        *)
(* network.                                                                *)
PrepareOnline(state) ==
  LET kept == IF box.sensitive /\ ~state THEN box.active ELSE remembered IN
  /\ remembered' = kept
  /\ box' = [active |-> state /\ kept, sensitive |-> state]
  /\ UNCHANGED <<machine, space, view, nonfree, disableSB, grid, key, stored>>

DiskPlugged ==
  /\ ~space
  /\ space' = TRUE
  /\ UNCHANGED <<machine, view, nonfree, disableSB, grid, key, box, remembered, stored>>
  /\ UNCHANGED shellVars

(* On the RST page Next restarts the machine; otherwise ok_handler stores  *)
(* what is in the widgets, wanted or not.                                  *)
PrepareNext ==
  /\ NextClicked("prepare")
  /\ IF view = "rst"
     THEN Ends /\ UNCHANGED stored
     ELSE /\ Leave(1)
          /\ stored' = [nonfree |-> nonfree, downloads |-> FALSE,
                        key |-> IF machine.secureboot /\ key # "empty" THEN key ELSE stored.key]
  /\ UNCHANGED <<machine, space, view, nonfree, disableSB, grid, key, box, remembered>>

PrepareBack ==
  /\ BackClicked("prepare")
  /\ Leave(-1)
  /\ UNCHANGED prepareVars

PrepareInit ==
  /\ machine \in Machines /\ space \in BOOLEAN
  /\ view = "prepare" /\ nonfree = FALSE /\ disableSB = FALSE /\ grid = FALSE
  /\ key = "empty" /\ box = [active |-> FALSE, sensitive |-> FALSE] /\ remembered = TRUE
  /\ stored = [nonfree |-> FALSE, downloads |-> TRUE, key |-> "empty"]

PrepareStep ==
  \/ ToggleNonfree \/ ToggleSecureBoot \/ TypeKey \/ ToggleDownloads
  \/ DiskPlugged \/ PrepareNext \/ PrepareBack

(***************************************************************************)
(* Properties                                                              *)
(***************************************************************************)

(* Next stays disabled while the codecs need a password that has not been  *)
(* given twice and long enough, whatever was typed, ticked and unticked on *)
(* this visit or an earlier one; and while the page says that no disk is   *)
(* large enough and none is (info_loop, set_sufficient_space).             *)
PrepareReady ==
  /\ view = "prepare" => MayContinue(nonfree, grid, key)
  /\ view = "nospace" => space

(* Where Next restarts the machine it says so (plugin_is_restart).         *)
PrepareSays == (view = "rst") <=> (nextLabel = "restart")
=============================================================================
