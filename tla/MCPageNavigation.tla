-------------------------- MODULE MCPageNavigation --------------------------
(* language, console_setup, wireless, prepare, partman (two screens),      *)
(* timezone, usersetup.                                                    *)
EXTENDS PageNavigation

MCScreens == <<1, 1, 1, 1, 2, 1, 1>>
=============================================================================
