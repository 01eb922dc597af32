------------------------------- MODULE Network -------------------------------
(***************************************************************************)
(* What the wizard knows of the network: NetworkManager's StateChanged     *)
(* signals (misc.add_connection_watch, gtk_ui.network_change), and the     *)
(* page it then fetches with wget to see whether the Internet is there     *)
(* (base.check_returncode).  NetworkManager is modelled from how its       *)
(* signals and calls are used.                                             *)
(***************************************************************************)
EXTENDS Integers, Sequences

CONSTANTS
  AccessPoints,  \* the wireless networks around
  MaxSignals     \* bound: signals on their way

VARIABLES
  link,      \* NetworkManager: [state, ap], ap being joined or joined
  signals,   \* the states signalled and not yet handled
  probe,     \* the 300 ms timer of check_returncode runs
  wget,      \* "none", or what the running wget will say: "ok", "bad"
  online     \* what the pages were told last (set_online_state)

networkVars == <<link, signals, probe, wget, online>>

(* The states the code tells apart; a connection is global when it reaches *)
(* the Internet and "local" (site) when it does not.                       *)
Connected == {"local", "global"}

LinkBecomes(state, ap) ==
  /\ Len(signals) < MaxSignals
  /\ link' = [state |-> state, ap |-> ap]
  /\ signals' = IF state = link.state THEN signals ELSE Append(signals, state)

(* NetworkManager by itself: a connection is made, fails or is lost.       *)
LinkChanges ==
  /\ \/ link.state = "connecting" /\ \E s \in Connected : LinkBecomes(s, link.ap)
     \/ link.state # "disconnected" /\ LinkBecomes("disconnected", "none")
  /\ UNCHANGED <<probe, wget, online>>

(* network_change.  A network that is gone does not stop the wget.         *)
NetworkChange(state) ==
  IF state = "global" THEN probe' = TRUE /\ UNCHANGED <<wget, online>>
  ELSE online' = FALSE /\ UNCHANGED <<probe, wget>>

(* check_returncode: starts a wget, unless one is still running ...        *)
StartWget ==
  /\ probe /\ wget = "none"
  /\ wget' \in (IF link.state = "global" THEN {"ok", "bad"} ELSE {"bad"})
  /\ UNCHANGED <<link, signals, probe, online>>

(* ... and when it has ended tells the pages.                              *)
WgetEnds ==
  /\ probe /\ wget # "none"
  /\ online' = (wget = "ok")
  /\ wget' = "none" /\ probe' = FALSE
  /\ UNCHANGED <<link, signals>>

NetworkInit ==
  /\ link = [state |-> "disconnected", ap |-> "none"]
  /\ signals = <<>> /\ probe = FALSE /\ wget = "none"
  /\ online = FALSE
=============================================================================
