---------------------------- MODULE WirelessPage ----------------------------
(***************************************************************************)
(* The page that joins a wireless network (plugins/ubi-wireless.py, GTK;   *)
(* nm.py; gtk_components/nmwidgets.py).  It uses the wizard's own buttons: *)
(* Next says "Connect" on a network that is not joined yet, and Back says  *)
(* "Stop" while one is being joined.  Its handlers go on while other pages *)
(* are shown.                                                              *)
(***************************************************************************)
EXTENDS PageShell, Network

CONSTANT Secured    \* the networks that ask for a password in a dialog

VARIABLES
  use,        \* the choice: TRUE to use wireless, FALSE not to
  seen,       \* self.state: the state of the last signal
  chosen,     \* have_selection
  row,        \* the network selected in the list, or "none"
  rows,       \* the networks listed (NetworkStore)
  air,        \* the networks in reach, which NetworkManager knows
  rescan,     \* build_cache is due (QueuedCaller)
  ours        \* the connection asked for here: "none", "asked", "known"

wirelessVars == <<use, seen, chosen, row, rows, air, rescan, ours>>

(* selection_changed: what Next says when wireless is used.  Whether the   *)
(* row is joined is asked of NetworkManager at this moment.                *)
NextSays(state, r) ==
  IF state = "connecting" \/ r = "none" \/ (link.state \in Connected /\ r = link.ap)
  THEN "next" ELSE "connect"

(* state_changed and the selection_changed it ends in, wireless used.      *)
Follow(state, r) ==
  /\ nextLabel' = NextSays(state, r)
  /\ backLabel' = IF state = "connecting" THEN "stop" ELSE "back"
  /\ backward' = TRUE

(* A network is selected: wireless is used from then on.                   *)
SelectRow ==
  /\ Page = "wireless"
  /\ row' \in rows \ {row}
  /\ chosen' = TRUE /\ use' = TRUE
  /\ IF use
     THEN nextLabel' = NextSays(seen, row') /\ UNCHANGED <<backLabel, backward>>
     ELSE Follow(seen, row')
  /\ UNCHANGED <<tour, at, way, busy, forward>>
  /\ UNCHANGED <<seen, rows, air, rescan, ours, networkVars>>

UseWireless ==
  /\ Page = "wireless" /\ ~use
  /\ use' = TRUE
  /\ row' = IF ~chosen /\ rows # {} THEN CHOOSE r \in rows : TRUE ELSE row
  /\ chosen' = TRUE
  /\ Follow(seen, row')
  /\ UNCHANGED <<tour, at, way, busy, forward>>
  /\ UNCHANGED <<seen, rows, air, rescan, ours, networkVars>>

\* Mutated: Next keeps what it says, too.
NoWirelessOnly ==
  /\ Page = "wireless" /\ use
  /\ use' = FALSE
  /\ forward' = TRUE
  /\ UNCHANGED <<tour, at, way, busy, backward, nextLabel, backLabel>>
  /\ UNCHANGED <<seen, chosen, row, rows, air, rescan, ours, networkVars>>

(* wireless_toggled the other way; Back keeps what it says.                *)
NoWireless ==
  /\ Page = "wireless" /\ use
  /\ use' = FALSE
  /\ nextLabel' = "next" /\ forward' = TRUE
  /\ UNCHANGED <<tour, at, way, busy, backward, backLabel>>
  /\ UNCHANGED <<seen, chosen, row, rows, air, rescan, ours, networkVars>>

(* plugin_on_next_clicked; connect_to_selection.                           *)
WirelessNext ==
  /\ NextClicked("wireless")
  /\ IF nextLabel # "connect"
     THEN Leave(1) /\ UNCHANGED <<ours, networkVars>>
     ELSE /\ UNCHANGED shellVars
          /\ \/ /\ row \in air
                /\ LinkBecomes("connecting", row)
                /\ ours' = IF row \in Secured THEN "asked" ELSE "known"
                /\ UNCHANGED <<probe, wget, online>>
             \/ row \in Secured \union {"none"} \union (AccessPoints \ air)  \* cancelled or failed
                /\ UNCHANGED <<ours, networkVars>>
  /\ UNCHANGED <<use, seen, chosen, row, rows, air, rescan>>

(* connect_cb: only now can the connection be taken back.                  *)
ConnectCallback ==
  /\ ours = "asked"
  /\ ours' = "known"
  /\ UNCHANGED <<use, seen, chosen, row, rows, air, rescan, networkVars>>
  /\ UNCHANGED shellVars

(* plugin_on_back_clicked; disconnect_from_ap.                             *)
WirelessBack ==
  /\ BackClicked("wireless")
  /\ IF backLabel = "stop"
     THEN /\ IF ours = "known"
             THEN LinkBecomes("disconnected", "none") /\ ours' = "none"
                  /\ UNCHANGED <<probe, wget, online>>
             ELSE UNCHANGED <<ours, networkVars>>
          /\ UNCHANGED <<use, shellVars>>
     ELSE /\ use' = FALSE
          /\ busy' = TRUE /\ way' = -1 /\ forward' = TRUE
          /\ nextLabel' = IF use THEN "next" ELSE nextLabel
          /\ UNCHANGED <<tour, at, backward, backLabel>>
          /\ UNCHANGED <<ours, networkVars>>
  /\ UNCHANGED <<seen, chosen, row, rows, air, rescan>>

(* A StateChanged signal; without the choice to use wireless it is noted   *)
(* and nothing more.                                                       *)
StateChanged(state) ==
  /\ seen' = state
  /\ IF use THEN Follow(state, row) /\ UNCHANGED <<tour, at, way, busy, forward>>
     ELSE UNCHANGED shellVars
  /\ chosen' = (chosen \/ use)
  /\ UNCHANGED <<use, row, rows, air, rescan, ours>>

(* Networks come and go; the list follows 500 ms after the last change,    *)
(* and a row that goes takes its selection with it without a word.  At     *)
(* most one is out of reach (bound).                                       *)
AirChanges ==
  /\ \E i \in DOMAIN tour : tour[i] = "wireless"
  /\ \E ap \in AccessPoints : air' = IF ap \in air THEN air \ {ap} ELSE air \union {ap}
  /\ Cardinality(AccessPoints \ air') <= 1
  /\ rescan' = TRUE
  /\ UNCHANGED <<use, seen, chosen, row, rows, ours, networkVars>>
  /\ UNCHANGED shellVars

BuildCache ==
  /\ rescan
  /\ rescan' = FALSE
  /\ rows' = air
  /\ row' = IF row \in air THEN row ELSE "none"
  /\ UNCHANGED <<use, seen, chosen, air, ours, networkVars>>
  /\ UNCHANGED shellVars

WirelessInit ==
  /\ use = FALSE /\ seen = link.state /\ chosen = FALSE /\ row = "none"
  /\ air = AccessPoints /\ rows = air /\ rescan = FALSE /\ ours = "none"

WirelessStep ==
  \/ SelectRow \/ UseWireless \/ NoWireless \/ WirelessNext \/ ConnectCallback
  \/ WirelessBack \/ AirChanges \/ BuildCache

(***************************************************************************)
(* Properties                                                              *)
(***************************************************************************)

(* While wireless is to be used Back says "Stop" exactly while a network   *)
(* is being joined, as far as the signals tell, and Next offers to connect *)
(* only when none is and wireless is wanted (wireless_toggled,             *)
(* state_changed, selection_changed, plugin_on_back_clicked), on whatever  *)
(* page and however the user and the signals alternate.                    *)
LabelsTell ==
  /\ use => (backLabel = "stop" <=> seen = "connecting")
  /\ nextLabel = "connect" => use /\ seen # "connecting"
=============================================================================
