---------------------------- MODULE KeyboardPage ----------------------------
(***************************************************************************)
(* The keyboard page (plugins/ubi-console-setup.py, GTK).  The script      *)
(* keyboard-configuration asks for a layout, which the page only notes,    *)
(* and for a variant, at which it waits.  A layout chosen meanwhile is     *)
(* acted on 600 ms later: it is put in the database and the script backs   *)
(* up and asks again, with the variants of that layout.  A variant is      *)
(* applied to the running keyboard as late.  What the script itself does   *)
(* with the answers is taken from how the page uses it.                    *)
(***************************************************************************)
EXTENDS PageShell

CONSTANTS
  VariantsOf,   \* layout -> its variants; no variant is of two layouts
  DefaultOf,    \* layout -> the variant first proposed
  Foreign,      \* layouts that cannot write Latin letters
  TwoScripts    \* variant -> the Latin variant it goes with (jp, lt, me, rs)

VARIABLES
  listed,     \* the layout whose variants are listed ("none" before)
  layout, variant,   \* selected in the two lists
  current,    \* current_layout: the layout last acted on
  answer,     \* keyboard-configuration/layout in the database
  question,   \* "closed", "variant" (the page waits) or "again"
  timers,     \* pending timeouts, of {"layout", "variant"}
  codes,      \* the layout and variant stored for the system
  live        \* the running keyboard: its groups

keyboardVars ==
  <<listed, layout, variant, current, answer, question, timers, codes, live>>

(* adjust_keyboard: letters that are not Latin come as a second group.     *)
AdjustKeyboard(l, v) ==
  IF l \in Foreign THEN [layouts |-> <<"us", l>>, variants |-> <<"", v>>]
  ELSE IF v \in DOMAIN TwoScripts
  THEN [layouts |-> <<l, l>>, variants |-> <<TwoScripts[v], v>>]
  ELSE [layouts |-> <<l>>, variants |-> <<v>>]

(* apply_keyboard: nothing happens if the variant is not of the layout;    *)
(* a layout without variants takes any for none.                           *)
ApplyKeyboard(l, v) ==
  live' = IF VariantsOf[l] = {} THEN AdjustKeyboard(l, "")
          ELSE IF v \in VariantsOf[l] THEN AdjustKeyboard(l, v) ELSE live

Selectable(l) == IF VariantsOf[l] = {} THEN {l} ELSE VariantsOf[l]

(* The script proposes one of the variants it lists.                       *)
ASSUME KeyboardAssumption ==
  "us" \in DOMAIN VariantsOf /\ \A l \in DOMAIN VariantsOf : DefaultOf[l] \in Selectable(l)

Fitting(l, v) == IF v \in Selectable(l) THEN v ELSE DefaultOf[l]

(* The script asks for the layout and the variant; the page selects what   *)
(* it proposes, and each selection starts a timeout.                       *)
Ask(l) ==
  /\ question' = "variant"
  /\ answer' = l /\ current' = l /\ layout' = l /\ listed' = l
  /\ variant' = IF l = codes.layout THEN codes.variant ELSE DefaultOf[l]
  /\ timers' = {"layout", "variant"}
  /\ UNCHANGED <<codes, live>>

(* Page.prepare and run.  A layout left in the database when the page was  *)
(* gone from backwards may be proposed instead of the stored one.          *)
EnterKeyboard ==
  /\ \E l \in {codes.layout, answer} : Ask(l)
  /\ UNCHANGED forward

AskAgain ==
  /\ Page = "console_setup" /\ ~busy /\ question = "again"
  /\ Ask(answer)
  /\ UNCHANGED shellVars

(* Selections, by hand; @plugin.only_this_page looks whether the filter is *)
(* still there, which it is for a while after the click on a button.       *)
StartTimer(t) ==
  \/ question # "closed" /\ timers' = timers \union {t}
  \/ question = "closed" /\ UNCHANGED timers

SelectLayout ==
  /\ Page = "console_setup"
  /\ layout' \in DOMAIN VariantsOf \ {layout}
  /\ StartTimer("layout")
  /\ UNCHANGED <<listed, variant, current, answer, question, codes, live>>
  /\ UNCHANGED shellVars

SelectVariant ==
  /\ Page = "console_setup"
  /\ variant' \in Selectable(listed) \ {variant}
  /\ StartTimer("variant")
  /\ UNCHANGED <<listed, layout, current, answer, question, codes, live>>
  /\ UNCHANGED shellVars

\* Mutated: the script is not asked again.
NotedOnly(l) ==
  /\ answer' = l
  /\ current' = l
  /\ UNCHANGED question

(* change_layout: the script is told of the layout and to back up, unless  *)
(* it has been answered already.                                           *)
ChangeLayout(l) ==
  /\ answer' = l
  /\ current' = l
  /\ question' = IF busy THEN question ELSE "again"

(* The timeouts do not look which page is shown: without the filter they   *)
(* are for they raise an error, and the installer's exception hook ends it.*)
LayoutTimeout ==
  /\ "layout" \in timers
  /\ timers' = timers \ {"layout"}
  /\ IF layout = current
     THEN UNCHANGED <<answer, current, question>> /\ UNCHANGED shellVars
     ELSE IF question = "closed"
     THEN Ends /\ UNCHANGED <<answer, current, question>>
     ELSE ChangeLayout(layout) /\ UNCHANGED shellVars
  /\ UNCHANGED <<listed, layout, variant, codes, live>>

VariantTimeout ==
  /\ "variant" \in timers
  /\ timers' = timers \ {"variant"}
  /\ IF question = "closed"
     THEN Ends /\ UNCHANGED live
     ELSE ApplyKeyboard(layout, variant) /\ UNCHANGED shellVars
  /\ UNCHANGED <<listed, layout, variant, current, answer, question, codes>>

(* Pressing keys and saying which ones there are ends in a layout and a    *)
(* variant (KeyboardDetector.read_step, KeyboardQuery.process).            *)
Detected ==
  UNION {{[layout |-> l, variant |-> v] : v \in Selectable(l)} : l \in DOMAIN VariantsOf}

(* The dialog that asks for the keys ends (calculate_result).              *)
DetectKeyboard ==
  /\ Waiting("console_setup")
  /\ \E keyboard \in Detected :
       /\ layout' = keyboard.layout
       /\ ChangeLayout(keyboard.layout)
       /\ timers' = IF keyboard.layout = layout THEN timers ELSE timers \union {"layout"}
       /\ ApplyKeyboard(keyboard.layout, keyboard.variant)
  /\ UNCHANGED <<listed, variant, codes>>
  /\ UNCHANGED shellVars

(* ok_handler stores the variant only; cancel_handler stores nothing.      *)
KeyboardNext ==
  /\ NextClicked("console_setup")
  /\ Leave(1)
  /\ timers' = {}
  /\ UNCHANGED <<listed, layout, variant, current, answer, question, codes, live>>

KeyboardBack ==
  /\ BackClicked("console_setup")
  /\ Leave(-1)
  /\ timers' = {}
  /\ UNCHANGED <<listed, layout, variant, current, answer, question, codes, live>>

\* Mutated: cleanup leaves the keyboard as it was tried.
KeyboardDoneAsTried ==
  /\ Page = "console_setup" /\ busy /\ question # "closed"
  /\ question' = "closed"
  /\ codes' = IF way = 1 THEN [layout |-> answer, variant |-> Fitting(answer, variant)]
              ELSE codes
  /\ UNCHANGED <<listed, layout, variant, current, answer, timers, live>>
  /\ UNCHANGED shellVars

(* The script ends; cleanup gives the running keyboard what it stored.     *)
KeyboardDone ==
  /\ Page = "console_setup" /\ busy /\ question # "closed"
  /\ question' = "closed"
  /\ codes' = IF way = 1 THEN [layout |-> answer, variant |-> Fitting(answer, variant)]
              ELSE codes
  /\ live' = AdjustKeyboard(codes'.layout,
                            IF VariantsOf[codes'.layout] = {} THEN "" ELSE codes'.variant)
  /\ UNCHANGED <<listed, layout, variant, current, answer, timers>>
  /\ UNCHANGED shellVars

KeyboardInit ==
  /\ codes = [layout |-> "us", variant |-> DefaultOf["us"]]
  /\ listed = "none" /\ layout = "none" /\ variant = "none" /\ current = "none"
  /\ answer = codes.layout
  /\ question = "closed" /\ timers = {}
  /\ live = AdjustKeyboard("us", "us")

KeyboardStep ==
  \/ AskAgain \/ SelectLayout \/ SelectVariant \/ LayoutTimeout \/ VariantTimeout
  \/ DetectKeyboard \/ KeyboardNext \/ KeyboardBack \/ KeyboardDone

(***************************************************************************)
(* Properties                                                              *)
(***************************************************************************)

(* When nothing is pending the page shows one keyboard: the layout         *)
(* selected is the one acted on, in the database, and the one whose        *)
(* variants are listed, and the variant selected is one of them            *)
(* (keyboard_layout_timeout, change_layout, run).                          *)
VariantsFit ==
  (Waiting("console_setup") /\ question = "variant" /\ timers = {}) =>
    /\ layout = current /\ layout = answer /\ layout = listed
    /\ variant \in Selectable(layout)

(* Away from the page the running keyboard is the stored one, whatever was *)
(* tried or detected on it and whichever way it was left (cleanup).        *)
LiveIsSaved ==
  (question = "closed" /\ Page \in {"other", "install"} /\ listed # "none") =>
    live = AdjustKeyboard(codes.layout,
                          IF VariantsOf[codes.layout] = {} THEN "" ELSE codes.variant)

=============================================================================
