---------------------------- MODULE InstallPlan ----------------------------
(***************************************************************************)
(* What the wizard promises about an installation: the steps that work on  *)
(* the target run once each, alone, and only when what they need is done,  *)
(* while the user goes through the pages; its end is announced when        *)
(* nothing is left to do.  It promises nothing more once the plan is given *)
(* up, because a step failed or the partitions are to be changed again.    *)
(* It says nothing of pages, filters, main loops or the order of callbacks. *)
(***************************************************************************)
EXTENDS Naturals, FiniteSets

VARIABLES
  done,       \* the steps that are over
  running,    \* how many processes run each of the background steps
  announced,  \* the user was told that the installation is finished
  given_up    \* a step failed, or the user went back to change the partitions

Steps == {"partman_commit", "timezone", "install", "pages", "plugininstall"}
Work  == {"partman_commit", "install", "plugininstall"}

Needs(s) == CASE s = "install"       -> {"partman_commit", "timezone"}
              [] s = "plugininstall" -> {"install", "pages"}
              [] OTHER               -> {}

Init ==
  /\ done = {} /\ running = [s \in Work |-> 0]
  /\ announced = FALSE /\ given_up = FALSE

Busy == \E s \in Work : running[s] > 0

(* The user confirms the partitioning. *)
Begin ==
  /\ ~Busy /\ "partman_commit" \notin done
  /\ running' = [running EXCEPT !["partman_commit"] = 1]
  /\ UNCHANGED <<done, announced, given_up>>

(* A step ends, and the work it was the last to hold up starts at once. *)
Complete(s) ==
  /\ ~announced /\ s \notin done
  /\ s \in Work => running[s] = 1
  /\ s \notin Work => Needs(s) \subseteq done
  /\ done' = done \cup {s}
  /\ running' = [w \in Work |->
       IF w # s /\ s \in Needs(w) /\ Needs(w) \subseteq done' THEN 1
       ELSE IF w = s THEN 0 ELSE running[w]]
  /\ UNCHANGED <<announced, given_up>>

Announce ==
  /\ ~announced /\ done = Steps
  /\ announced' = TRUE
  /\ UNCHANGED <<done, running, given_up>>

(* From here on anything may be done or run, but the plan stays given up. *)
GiveUp == given_up' = TRUE

Next == Begin \/ (\E s \in Steps : Complete(s)) \/ Announce \/ GiveUp

Spec == Init /\ [][Next]_<<done, running, announced, given_up>>
=============================================================================
