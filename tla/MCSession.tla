----------------------------- MODULE MCSession -----------------------------
(* A machine on which everything works, one without a frame buffer or a    *)
(* window manager, and two on which the settings daemon is waited for.     *)
EXTENDS Session

Box(fb0, failsafe, wm, watched, rootuser) ==
  [fb0 |-> fb0, failsafe |-> failsafe, wm |-> wm, watched |-> watched,
   rootuser |-> rootuser]

MCBoxes ==
  {Box(TRUE, FALSE, TRUE, FALSE, FALSE), Box(FALSE, FALSE, FALSE, FALSE, FALSE),
   Box(TRUE, TRUE, TRUE, TRUE, FALSE), Box(TRUE, FALSE, TRUE, TRUE, TRUE)}
=============================================================================
