------------------------------ MODULE MCWizard ------------------------------
(* The pages of a live session's wizard, in the order order_plugins gives  *)
(* them, and the short wizard of a preseeded one: from partitioning on.    *)
EXTENDS Wizard

MCPages == <<"language", "console_setup", "wireless", "prepare", "partman",
             "timezone", "usersetup">>
MCShortPages == <<"partman", "timezone", "usersetup">>
=============================================================================
