---------------------------- MODULE Installation ----------------------------
(***************************************************************************)
(* The two stages of an installation one after the other, as the frontend  *)
(* runs them: install.py copies, and only if it ends well plugininstall.py *)
(* makes a system of the copy.  With oem-config both run in the installed  *)
(* system itself.                                                          *)
(***************************************************************************)
EXTENDS CopyStage, LastPhase

installationVars == <<requestVars, copyStageVars, lastVars>>

Init == RequestsInit /\ CopyInit /\ LastInit

Copying  == CopyNext /\ UNCHANGED lastVars

(* install.py's process is gone with all it knew.  The tree it copied is   *)
(* dropped with it: nothing in the model of the last phase looks at it.    *)
(* What plugininstall.py does without a copy, after a single preseeded     *)
(* image, is not modelled.                                                 *)
Handover ==
  /\ stage = "done" /\ exit = 0 /\ image # "one" /\ StartLastPhase
  /\ stage' = "over" /\ target' = [p \in {} |-> Dir] /\ todo' = <<>> /\ skipped' = {}
  /\ image' = "none" /\ updater' = "none"
  /\ UNCHANGED <<exit, mountpoints, devs, mounted, attached, tuned>>
Finishing == LastNext /\ UNCHANGED copyStageVars

Next == Copying \/ Handover \/ Finishing

Spec == Init /\ [][Next]_installationVars
=============================================================================
