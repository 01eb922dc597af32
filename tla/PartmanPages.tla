---------------------------- MODULE PartmanPages ----------------------------
(***************************************************************************)
(* What the user sees of the partitioning page (plugins/ubi-partman.py,    *)
(* PageGtk): one plugin with five pages, which it turns over itself before *)
(* it lets partman have the answer.  How partman is driven is in           *)
(* PartitioningPage; here it asks, and is told.                            *)
(***************************************************************************)
EXTENDS PageShell

CONSTANT Layouts   \* what may be found: [systems, mints, current, extra, disks, shrink]

VARIABLES
  found,      \* operating systems, those of them Mint, whether one is of this
               \* release, extra_options, the number of disks in use_device,
               \* and those of them with something to shrink, in resize
  asking,      \* the question partman is coming to: "automatic", "manual", or
               \* "nothing" if one waits for the user or the page is over
  partPage,         \* current_page: "ask", "bitlocker", "auto", "advanced", "crypto"
  option,      \* the way to install that is ticked
  features,    \* of a whole disk: "none", "lvm", "crypto"
  password,    \* the two entries, shared by the page "crypto" and the dialog
  recovery,    \* of "advanced": each pair "empty", "same" or "differ"
  recoveryKey, \* recovery_key_enable is ticked
  drives,      \* the rows of part_auto_select_drive
  drive        \* the one selected; 0 for none

driveVars == <<drives, drive>>
partmanVars == <<found, asking, partPage, option, features, password, recovery, recoveryKey,
                 driveVars>>

(* A disk can be used, or shrunk, only if there is one.                    *)
ASSUME LayoutsAssumption ==
  \A l \in Layouts :
    /\ l.disks \in Nat /\ l.shrink \subseteq Nat
    /\ "use_device" \in l.extra => l.disks > 0
    /\ "resize" \in l.extra => l.shrink # {}

Typed == {"empty", "same", "differ"}
Nothing == [systems |-> 0, mints |-> 0, current |-> FALSE, extra |-> {}, disks |-> 0,
            shrink |-> {}]

-----------------------------------------------------------------------------
(* Resizing is dropped if there is room anyway.                            *)
Extra(l) == IF "biggest_free" \in l.extra THEN l.extra \ {"resize"} ELSE l.extra

(* calculate_autopartitioning_options                                      *)
Options(l) ==
  LET extra    == Extra(l)
      room     == extra \intersect {"resize", "biggest_free"} # {}
      secret   == "bitlocker" \in extra
      replace  == extra \intersect {"replace"}
      reuse    == IF l.current /\ "reuse" \in extra THEN {"reuse"} ELSE {}
      when(b)  == IF b THEN {"resize"} ELSE {}
  IN  {"manual"} \union
      IF "use_device" \notin extra THEN {}
      ELSE {"use_device"} \union
           CASE l.systems = 0                 -> {}
             [] l.systems = 1 /\ l.mints = 1  -> replace \union reuse \union when(room)
             [] l.systems = 1 /\ l.mints # 1  -> when(room \/ secret)
             [] l.systems = 2 /\ l.mints = 1  -> replace \union reuse
             [] OTHER                         -> when(room \/ secret)

(* part_ask_option_is_install                                              *)
InstallsAtOnce(l, o) ==
  \/ o \in {"reuse", "replace"}
  \/ o = "resize" /\ "biggest_free" \in Extra(l)
  \/ o = "use_device" /\ l.disks = 1

(* part_ask_option_changed                                                 *)
AskLabel(l, o) == IF InstallsAtOnce(l, o) THEN "install" ELSE "next"

(* info_loop                                                               *)
KeysComplete(p, r) == p = "same" /\ r # "differ"

(* set_autopartition_options ticks the first that is offered and can be    *)
(* chosen: reuse needs the network.                                        *)
First(l, online) ==
  LET order == <<"resize", "reuse", "replace", "use_device", "manual">>
      can == {i \in DOMAIN order : order[i] \in Options(l) /\ (order[i] = "reuse" => online)}
  IN  order[CHOOSE i \in can : \A j \in can : i <= j]

-----------------------------------------------------------------------------
(* partman asks its question, for the first time on this visit or again.   *)
AskAutomatic(l, online) ==
  /\ found' = l /\ partPage' = "ask" /\ option' = First(l, online)
  /\ asking' = "nothing"
  /\ UNCHANGED <<features, password, recovery, recoveryKey, driveVars, forward>>

(* It comes to the table at once if there is nothing to automate: the page *)
(* clicks Next for the user.                                               *)
AskManual ==
  /\ partPage' = "advanced" /\ option' = "manual" /\ recovery' = "empty"
  /\ forward' = IF recovery # "empty" THEN KeysComplete(password, "empty") ELSE forward
  /\ asking' = "nothing"
  /\ UNCHANGED <<features, password, recoveryKey, driveVars>>

EnterPartman(online) ==
  \/ \E l \in Layouts : AskAutomatic(l, online)
  \/ AskManual /\ found' = Nothing

PartLabel == CASE partPage = "ask" -> AskLabel(found, option)
               [] partPage = "bitlocker" -> "restart"
               [] OTHER -> "install"

PartmanAsks(online) ==
  /\ Page = "partman" /\ asking # "nothing"
  /\ IF asking = "automatic" THEN AskAutomatic(found, online)
     ELSE AskManual /\ UNCHANGED found
  /\ busy' = FALSE /\ nextLabel' = PartLabel'
  /\ UNCHANGED <<tour, at, way, backward, backLabel>>

-----------------------------------------------------------------------------
(* The page turns over by itself; the click is not passed on.              *)
Turn(page, label, allowed) ==
  /\ partPage' = page /\ nextLabel' = label /\ forward' = allowed
  /\ UNCHANGED <<tour, at, way, busy, backward, backLabel>>
  /\ UNCHANGED <<found, asking, option, features, recoveryKey>>

Tick ==
  /\ Waiting("partman") /\ partPage = "ask"
  /\ \E o \in Options(found) \ {option} :
       /\ option' = o
       /\ nextLabel' = AskLabel(found, o)
  /\ UNCHANGED <<tour, at, way, busy, forward, backward, backLabel>>
  /\ UNCHANGED <<found, asking, partPage, features, password, recovery, recoveryKey, driveVars>>

(* on_advanced_features_clicked, on_crypto_lvm_toggled                     *)
ChooseFeatures ==
  /\ Waiting("partman") /\ partPage = "ask" /\ option = "use_device"
  /\ features' \in {"none", "lvm", "crypto"} \ {features}
  /\ UNCHANGED <<found, asking, partPage, option, password, recovery, recoveryKey, driveVars>>
  /\ UNCHANGED shellVars

(* The entries: on the page for the passphrase each change is looked at;   *)
(* a recovery key is made up when it is asked for, and can be edited.      *)
TypeKeys ==
  /\ Waiting("partman") /\ partPage = "crypto"
  /\ \/ password' \in Typed \ {password} /\ UNCHANGED <<recovery, recoveryKey>>
     \/ recoveryKey /\ recovery' \in Typed \ {recovery} /\ UNCHANGED <<password, recoveryKey>>
     \/ /\ recoveryKey' = ~recoveryKey
        /\ recovery' = IF recoveryKey THEN "empty" ELSE "same"
        /\ UNCHANGED password
  /\ AllowForward(KeysComplete(password', recovery'))
  /\ UNCHANGED <<found, asking, partPage, option, features, driveVars>>

(* The dialog of a partition clears the passphrase when a use is chosen,   *)
(* and looks at it if that is encryption; then it may be cancelled.        *)
PartitionDialog ==
  /\ Waiting("partman") /\ partPage = "advanced"
  /\ \/ password' = "empty" /\ UNCHANGED recovery /\ AllowForward(TRUE)
     \/ /\ password' \in Typed
        /\ recovery' \in IF recoveryKey THEN Typed ELSE {recovery}
        /\ AllowForward(KeysComplete(password', recovery'))
  /\ UNCHANGED <<found, asking, partPage, option, features, recoveryKey, driveVars>>

(* part_auto_select_drive_changed                                          *)
SelectDrive ==
  /\ Waiting("partman") /\ partPage = "auto"
  /\ drive' \in drives \ {drive}
  /\ UNCHANGED <<found, asking, partPage, option, features, password, recovery, recoveryKey, drives>>
  /\ UNCHANGED shellVars

(* "Use the manual partitioner" under the picture of a disk: ticks it, and *)
(* activates the button.                                                   *)
HiddenLink ==
  /\ Waiting("partman") /\ partPage = "auto"
  /\ option' = "manual" /\ nextLabel' = AskLabel(found, "manual")
  /\ UNCHANGED <<tour, at, way, busy, forward, backward, backLabel>>
  /\ UNCHANGED <<found, asking, partPage, features, password, recovery, recoveryKey, driveVars>>

(* plugin_on_next_clicked.  On the page for the passphrase it looks at the *)
(* entries once more, which have been looked at with each change.          *)
Barred    == option = "resize" /\ "bitlocker" \in found.extra
NeedsKeys == option = "use_device" /\ features = "crypto"
Keyed     == IF partPage = "crypto" THEN KeysComplete(password, recovery) ELSE ~NeedsKeys

(* On the first page the list of drives is filled for a whole disk, and    *)
(* emptied otherwise; for what can be shrunk it is filled later.           *)
ListDrives(more) ==
  LET whole == CASE partPage # "ask"        -> drives
                 [] partPage = "ask" /\ option = "use_device" -> 1 .. found.disks
                 [] OTHER                   -> {}
  IN  /\ drives' = whole \union more
      /\ drive' = CASE drives' = {} -> 0
                    [] drives' # {} /\ (partPage = "ask" \/ more # {}) ->
                         CHOOSE d \in drives' : \A e \in drives' : d <= e
                    [] OTHER -> drive

Restart == partPage = "bitlocker" /\ Ends /\ UNCHANGED partmanVars

ShowBitlocker ==
  /\ partPage = "ask" /\ Barred
  /\ Turn("bitlocker", "restart", forward) /\ UNCHANGED <<password, recovery, driveVars>>

ShowCrypto ==
  /\ partPage = "ask" /\ NeedsKeys
  /\ password' = "empty"
  /\ recovery' = IF recoveryKey THEN "same" ELSE recovery
  /\ ListDrives({})
  /\ Turn("crypto", "install", FALSE)

ShowAuto ==
  /\ partPage \in {"ask", "crypto"} /\ Keyed /\ ~Barred
  /\ option \in {"resize", "use_device"} /\ ~InstallsAtOnce(found, option)
  /\ ListDrives(IF option = "resize" THEN found.shrink ELSE {})
  /\ Turn("auto", "install", forward) /\ UNCHANGED <<password, recovery>>

(* The page for a table by hand; there the filter ends with the next click *)
(* unless partman refuses.  ok_handler asks for the keys of any automatic  *)
(* answer, by hand or not.                                                 *)
ToManual ==
  /\ option = "manual"
  /\ partPage' = "advanced" /\ recovery' = "empty" /\ nextLabel' = "install"
  /\ IF partPage = "advanced"
     THEN /\ forward' = IF recovery # "empty" THEN KeysComplete(password, "empty") ELSE forward
          /\ asking' \in {"nothing", "manual"}
     ELSE forward' = KeysComplete(password, "empty") /\ asking' = "manual"
  /\ busy' = TRUE /\ way' = 1
  /\ UNCHANGED <<tour, at, backward, backLabel>>
  /\ UNCHANGED <<found, option, features, password, recoveryKey, driveVars>>

(* The page has what it needs: the recovery key is written to its file, or *)
(* the click is kept; then get_autopartition_choice, which partman may     *)
(* refuse.                                                                 *)
Chosen ==
  \/ partPage = "auto" /\ option # "manual"
  \/ partPage \in {"ask", "crypto"} /\ Keyed /\ ~Barred /\ InstallsAtOnce(found, option)

Install ==
  /\ Chosen
  /\ busy' = TRUE /\ way' = 1 /\ forward' = KeysComplete(password, recovery)
  /\ asking' \in {"nothing", "automatic"}
  /\ ListDrives({})
  /\ UNCHANGED <<tour, at, backward, nextLabel, backLabel>>
  /\ UNCHANGED <<found, partPage, option, features, password, recovery, recoveryKey>>

NotWritten ==
  /\ Chosen
  /\ ListDrives({})
  /\ UNCHANGED <<found, asking, partPage, option, features, password, recovery, recoveryKey>>
  /\ UNCHANGED shellVars

PartmanNext ==
  /\ NextClicked("partman")
  /\ \/ Restart \/ ShowBitlocker \/ ShowCrypto \/ ShowAuto
     \/ ToManual \/ Install \/ NotWritten

\* Mutated: the button keeps the label of the page that was turned back from.
PartmanBackUnlabelled ==
  /\ BackClicked("partman")
  /\ IF partPage \in {"auto", "bitlocker", "crypto"}
     THEN Turn("ask", nextLabel, TRUE) /\ UNCHANGED <<password, recovery, driveVars>>
     ELSE /\ Leave(-1)
          /\ asking' = IF partPage = "advanced" /\ found # Nothing THEN "automatic" ELSE "nothing"
          /\ UNCHANGED <<found, partPage, option, features, password, recovery, recoveryKey, driveVars>>

PartmanBack ==
  /\ BackClicked("partman")
  /\ IF partPage \in {"auto", "bitlocker", "crypto"}
     THEN Turn("ask", "next", TRUE) /\ UNCHANGED <<password, recovery, driveVars>>
     ELSE /\ Leave(-1)
          /\ asking' = IF partPage = "advanced" /\ found # Nothing THEN "automatic" ELSE "nothing"
          /\ UNCHANGED <<found, partPage, option, features, password, recovery, recoveryKey, driveVars>>

PartmanInit ==
  /\ found \in Layouts /\ asking = "nothing" /\ partPage = "ask" /\ option = "manual"
  /\ features = "none" /\ password = "empty" /\ recovery = "empty" /\ recoveryKey = FALSE
  /\ drives = {} /\ drive = 0

PartmanStep ==
  \/ Tick \/ ChooseFeatures \/ TypeKeys \/ PartitionDialog \/ SelectDrive \/ HiddenLink
  \/ PartmanNext \/ PartmanBack

(***************************************************************************)
(* Properties                                                              *)
(***************************************************************************)

(* Whoever can click Next on one of the five pages has given what it needs *)
(* (the passphrase twice; a disk there is, with something to shrink if     *)
(* that is what is wanted), whichever of them, and whichever options, were *)
(* visited before.                                                         *)
PartmanReady ==
  CASE partPage = "crypto" -> KeysComplete(password, recovery)
    [] partPage = "auto"   -> /\ option = "resize" => drive \in found.shrink
                              /\ option = "use_device" => drive \in 1 .. found.disks
    [] OTHER               -> option \in Options(found)

(* The button only promises to install, or to restart, where that comes    *)
(* next or is all that comes after the keys (part_ask_option_changed,      *)
(* toggle_next_button).                                                    *)
PartmanSays ==
  /\ (nextLabel = "restart") <=> (partPage = "bitlocker")
  /\ (nextLabel = "install" /\ partPage = "ask") => InstallsAtOnce(found, option)
  /\ (nextLabel = "next") => (partPage = "ask" \/ option = "manual")
=============================================================================
