----------------------------- MODULE PagesProofs -----------------------------
(* What Pages.tla claims of the pages, for every tour through them, any      *)
(* languages, names, networks and machines.                                  *)
EXTENDS Pages, TLAPS, WellFoundedInduction

(* Whoever is not the wireless page, nor a signal it is told of, leaves it   *)
(* as it is and lets Next say something else than "Connect", if anything.    *)
PlainLabels == {"next", "install", "restart"}
LeavesWireless ==
  /\ UNCHANGED <<use, seen, chosen, row, backLabel>>
  /\ nextLabel' = nextLabel \/ nextLabel' \in PlainLabels

LEMMA ArrivalLeavesWireless == ASSUME Arrival PROVE LeavesWireless
<1> USE DEF LeavesWireless, PlainLabels, Arrive, Show
<1>1. CASE ArriveLanguage \/ ArriveKeyboard
  BY <1>1 DEF ArriveLanguage, ArriveKeyboard, wirelessVars
<1>2. CASE ArrivePrepare
  BY <1>2 DEF ArrivePrepare, wirelessVars
<1>3. CASE ArriveTimezone \/ ArriveUser
  BY <1>3 DEF ArriveTimezone, ArriveUser, wirelessVars
<1>4. CASE ArrivePartman
  BY <1>4 DEF ArrivePartman, PartLabel, AskLabel, wirelessVars
<1>5. CASE ArriveElse
  BY <1>5 DEF ArriveElse, wirelessVars
<1> QED BY <1>1, <1>2, <1>3, <1>4, <1>5 DEF Arrival

LEMMA PartmanLeavesLabels ==
  ASSUME PartmanStep \/ PartmanAsks(online)
  PROVE  UNCHANGED backLabel /\ (nextLabel' = nextLabel \/ nextLabel' \in PlainLabels)
<1> USE DEF PlainLabels, AskLabel
<1>1. CASE Tick \/ ChooseFeatures \/ TypeKeys \/ PartitionDialog \/ SelectDrive \/ HiddenLink
  BY <1>1 DEF Tick, ChooseFeatures, TypeKeys, PartitionDialog, SelectDrive, HiddenLink, shellVars,
             AllowForward
<1>2. CASE PartmanNext
  <2>1. CASE Restart
    BY <2>1 DEF Restart, Ends
  <2>2. CASE ShowBitlocker \/ ShowCrypto \/ ShowAuto
    BY <2>2 DEF ShowBitlocker, ShowCrypto, ShowAuto, Turn
  <2>3. CASE ToManual
    BY <2>3 DEF ToManual
  <2>4. CASE Install \/ NotWritten
    BY <2>4 DEF Install, NotWritten, shellVars
  <2> QED BY <1>2, <2>1, <2>2, <2>3, <2>4 DEF PartmanNext
<1>3. CASE PartmanBack
  BY <1>3 DEF PartmanBack, Turn, Leave
<1>4. CASE PartmanAsks(online)
  BY <1>4 DEF PartmanAsks, PartLabel
<1> QED BY <1>1, <1>2, <1>3, <1>4 DEF PartmanStep

LEMMA OtherPagesLeaveWireless ==
  ASSUME LanguageSteps \/ KeyboardSteps \/ PrepareSteps \/ TimezoneSteps \/ UserSteps
           \/ PartmanSteps \/ OtherSteps \/ Probing \/ Probed \/ Reported \/ Done
  PROVE  LeavesWireless
<1> USE DEF LeavesWireless, wirelessVars, shellVars, Leave, Ends, AllowForward
<1>1. CASE LanguageSteps
  BY <1>1 DEF LanguageSteps, SelectLanguage, UpdateChecked, LanguageNext, TryClicked
<1>2. CASE KeyboardSteps
  <2>1. UNCHANGED <<backLabel, nextLabel>>
    BY <1>2 DEF KeyboardSteps, KeyboardStep, AskAgain, SelectLayout, SelectVariant, LayoutTimeout,
               VariantTimeout, DetectKeyboard, KeyboardNext, KeyboardBack, KeyboardDone
  <2> QED BY <1>2, <2>1 DEF KeyboardSteps
<1>3. CASE PrepareSteps
  BY <1>3 DEF PrepareSteps, PrepareStep, ToggleNonfree, ToggleSecureBoot, TypeKey, Change,
             ToggleDownloads, DiskPlugged, PrepareNext, PrepareBack
<1>4. CASE TimezoneSteps
  <2>1. UNCHANGED <<backLabel, nextLabel>>
    BY <1>4 DEF TimezoneSteps, PickOnMap, TypePlace, Changed, GeonameTimeout, GeonameAnswer,
               TimezoneNext, TimezoneBack
  <2> QED BY <1>4, <2>1 DEF TimezoneSteps
<1>5. CASE UserSteps
  <2>1. UNCHANGED <<backLabel, nextLabel>>
    BY <1>5 DEF UserSteps, UserStep, TypeFull, TypeUser, TypeHost, TypePassword, Edit, HostTimeout,
               LookupResult, ToggleLogin, TypeDomain, UserNext, UserBack, SwitchTab
  <2> QED BY <1>5, <2>1 DEF UserSteps
<1>6. CASE PartmanSteps
  BY <1>6, PartmanLeavesLabels DEF PartmanSteps
<1>7. CASE OtherSteps
  BY <1>7 DEF OtherSteps
<1>8. CASE Probing \/ Probed \/ Reported
  BY <1>8 DEF Probing, Probed, Reported
<1>9. CASE Done
  BY <1>9 DEF Done, vars
<1> QED BY <1>1, <1>2, <1>3, <1>4, <1>5, <1>6, <1>7, <1>8, <1>9

LEMMA WirelessKeepsLabels == ASSUME LabelsTell, WirelessStep PROVE LabelsTell'
<1> USE DEF LabelsTell, NextSays, Follow, shellVars
<1>1. CASE SelectRow \/ UseWireless
  BY <1>1 DEF SelectRow, UseWireless
<1>2. CASE NoWireless
  BY <1>2 DEF NoWireless
<1>3. CASE WirelessNext
  BY <1>3 DEF WirelessNext, Leave
<1>4. CASE WirelessBack
  BY <1>4 DEF WirelessBack
<1>5. CASE ConnectCallback \/ AirChanges \/ BuildCache
  BY <1>5 DEF ConnectCallback, AirChanges, BuildCache
<1> QED BY <1>1, <1>2, <1>3, <1>4, <1>5 DEF WirelessStep

LEMMA LabelsNext == ASSUME LabelsTell, [Next]_vars PROVE LabelsTell'
<1>1. CASE WirelessSteps
  BY <1>1, WirelessKeepsLabels DEF WirelessSteps
<1>2. CASE Signal
  BY <1>2 DEF Signal, StateChanged, Follow, NextSays, LabelsTell, shellVars
<1>3. CASE LeavesWireless
  BY <1>3 DEF LeavesWireless, PlainLabels, LabelsTell
<1>4. CASE UNCHANGED vars
  BY <1>4 DEF vars, shellVars, wirelessVars, LabelsTell
<1> QED BY <1>1, <1>2, <1>3, <1>4, ArrivalLeavesWireless, OtherPagesLeaveWireless DEF Next

(* Next offers to connect and Back to stop only when there is something to *)
(* connect to or to stop, on every page and whatever the signals do        *)
(* (state_changed, selection_changed, wireless_toggled).                   *)
THEOREM LabelsAlwaysTell == Spec => []LabelsTell
<1>1. Init => LabelsTell
  BY DEF Init, ShellInit, WirelessInit, LabelsTell
<1> QED BY <1>1, LabelsNext, PTL DEF Spec

-----------------------------------------------------------------------------
(* On the language page the language to compare with is the stored one, as *)
(* long as the page can be left.                                           *)
InitialIsStored == Page = "language" /\ ~busy => initial = language
LanguageInv == CountryOfLanguage /\ InitialIsStored /\ "country" \in DOMAIN saved

(* What most steps do to it: nothing, and no page begins to wait but       *)
(* partman's.                                                              *)
LeavesCountry ==
  /\ UNCHANGED <<language, initial, saved, under, tour>>
  /\ busy' \/ (UNCHANGED <<at, busy>>) \/ (UNCHANGED at /\ Page = "partman")

LEMMA LeavingKeepsLanguage == ASSUME LanguageInv, LeavesCountry PROVE LanguageInv'
BY DEF LeavesCountry, LanguageInv, CountryOfLanguage, InitialIsStored, Page

LEMMA ArrivalKeepsLanguage == ASSUME LanguageInv, Arrival PROVE LanguageInv'
<1> USE DEF LanguageInv, CountryOfLanguage, InitialIsStored
<1>1. CASE ArriveLanguage
  BY <1>1 DEF Arrival, ArriveLanguage, EnterLanguage, zoneVars
<1>2. CASE ArriveKeyboard
  BY <1>2 DEF Arrival, ArriveKeyboard, Arrive, languageVars, zoneVars
<1>3. CASE ArrivePrepare
  BY <1>3 DEF Arrival, ArrivePrepare, Arrive, languageVars, zoneVars
<1>4. CASE ArriveTimezone
  BY <1>4 DEF Arrival, ArriveTimezone, Arrive, EnterTimezone, languageVars
<1>5. CASE ArriveUser
  BY <1>5 DEF Arrival, ArriveUser, Arrive, languageVars, zoneVars
<1>6. CASE ArrivePartman
  BY <1>6 DEF Arrival, ArrivePartman, Arrive, languageVars, zoneVars
<1>7. CASE ArriveElse
  BY <1>7 DEF Arrival, ArriveElse, Arrive, languageVars, zoneVars
<1> QED BY <1>1, <1>2, <1>3, <1>4, <1>5, <1>6, <1>7 DEF Arrival

LEMMA LanguageStepsKeepLanguage == ASSUME LanguageInv, LanguageSteps PROVE LanguageInv'
<1> USE DEF LanguageSteps, LanguageInv, CountryOfLanguage, InitialIsStored
<1>1. CASE (SelectLanguage \/ UpdateChecked) /\ UNCHANGED saved
  BY <1>1 DEF SelectLanguage, UpdateChecked, shellVars, Page
<1>2. CASE /\ LanguageNext \/ TryClicked
           /\ saved' = IF CountryReset THEN [saved EXCEPT !.country = "unset"] ELSE saved
  <2>1. initial = language /\ language' = lang /\ UNCHANGED <<initial, under>> /\ busy'
    BY <1>2 DEF LanguageNext, TryClicked, NextClicked, Waiting, Leave, Ends
  <2>2. CASE CountryReset
    BY <1>2, <2>1, <2>2 DEF CountryReset
  <2>3. CASE ~CountryReset
    BY <1>2, <2>1, <2>3 DEF CountryReset
  <2> QED BY <2>2, <2>3
<1> QED BY <1>1, <1>2

LEMMA TimezoneStepsKeepLanguage == ASSUME LanguageInv, TimezoneSteps PROVE LanguageInv'
<1> USE DEF TimezoneSteps, LanguageInv, CountryOfLanguage, InitialIsStored, languageVars
<1>1. CASE TimezoneNext /\ under' = language
  <2>1. under' = language /\ language' = language /\ busy'
    BY <1>1 DEF TimezoneNext, Leave
  <2>2. PICK c : saved' = [zone |-> zone, country |-> c]
    BY <1>1 DEF TimezoneNext
  <2> QED BY <2>1, <2>2
<1>2. CASE (PickOnMap \/ TimezoneBack) /\ UNCHANGED under
  BY <1>2 DEF PickOnMap, TimezoneBack, Leave, zoneVars, Page
<1>3. CASE (TypePlace \/ Changed \/ GeonameTimeout \/ GeonameAnswer) /\ UNCHANGED under
  BY <1>3 DEF TypePlace, Changed, GeonameTimeout, GeonameAnswer, shellVars, Page
<1> QED BY <1>1, <1>2, <1>3

LEMMA OtherPagesLeaveCountry ==
  ASSUME KeyboardSteps \/ WirelessSteps \/ PrepareSteps \/ UserSteps \/ PartmanSteps
           \/ OtherSteps \/ Signal \/ Probing \/ Probed \/ Reported \/ Done
  PROVE  LeavesCountry
<1> USE DEF LeavesCountry, languageVars, zoneVars, shellVars, Leave, Ends, AllowForward
<1>1. CASE KeyboardSteps
  <2>1. UNCHANGED tour /\ (busy' \/ UNCHANGED <<at, busy>>)
    BY <1>1 DEF KeyboardSteps, KeyboardStep, AskAgain, SelectLayout, SelectVariant, LayoutTimeout,
               VariantTimeout, DetectKeyboard, KeyboardNext, KeyboardBack, KeyboardDone
  <2> QED BY <1>1, <2>1 DEF KeyboardSteps
<1>2. CASE WirelessSteps
  <2>1. UNCHANGED tour /\ (busy' \/ UNCHANGED <<at, busy>>)
    BY <1>2 DEF WirelessSteps, WirelessStep, SelectRow, UseWireless, NoWireless, WirelessNext,
               ConnectCallback, WirelessBack, AirChanges, BuildCache
  <2> QED BY <1>2, <2>1 DEF WirelessSteps
<1>3. CASE PrepareSteps
  BY <1>3 DEF PrepareSteps, PrepareStep, ToggleNonfree, ToggleSecureBoot, TypeKey, Change,
             ToggleDownloads, DiskPlugged, PrepareNext, PrepareBack
<1>4. CASE UserSteps
  <2>1. UNCHANGED tour /\ (busy' \/ UNCHANGED <<at, busy>>)
    BY <1>4 DEF UserSteps, UserStep, TypeFull, TypeUser, TypeHost, TypePassword, Edit, HostTimeout,
               LookupResult, ToggleLogin, TypeDomain, UserNext, UserBack, SwitchTab
  <2> QED BY <1>4, <2>1 DEF UserSteps
<1>5. CASE PartmanSteps
  <2>1. CASE Tick \/ ChooseFeatures \/ TypeKeys \/ PartitionDialog \/ SelectDrive \/ HiddenLink
    BY <1>5, <2>1 DEF PartmanSteps, Tick, ChooseFeatures, TypeKeys, PartitionDialog, SelectDrive,
                      HiddenLink
  <2>2. CASE PartmanNext
    BY <1>5, <2>2 DEF PartmanSteps, PartmanNext, Restart, ShowBitlocker, ShowCrypto, ShowAuto, Turn,
                      ToManual, Install, NotWritten
  <2>3. CASE PartmanBack
    BY <1>5, <2>3 DEF PartmanSteps, PartmanBack, Turn
  <2>4. CASE PartmanAsks(online)
    BY <1>5, <2>4 DEF PartmanSteps, PartmanAsks
  <2> QED BY <1>5, <2>1, <2>2, <2>3, <2>4 DEF PartmanSteps, PartmanStep
<1>6. CASE OtherSteps
  BY <1>6 DEF OtherSteps
<1>7. CASE Signal
  BY <1>7 DEF Signal, StateChanged, Follow, Told, LanguageOnline
<1>8. CASE Probing \/ Probed \/ Reported
  BY <1>8 DEF Probing, Probed, Reported, Told, LanguageOnline
<1>9. CASE Done
  BY <1>9 DEF Done, vars
<1> QED BY <1>1, <1>2, <1>3, <1>4, <1>5, <1>6, <1>7, <1>8, <1>9

LEMMA LanguageInvNext == ASSUME LanguageInv, [Next]_vars PROVE LanguageInv'
<1>1. CASE UNCHANGED vars
  BY <1>1, LeavingKeepsLanguage DEF vars, LeavesCountry, languageVars, zoneVars, shellVars
<1> QED BY <1>1, ArrivalKeepsLanguage, LanguageStepsKeepLanguage, TimezoneStepsKeepLanguage,
           OtherPagesLeaveCountry, LeavingKeepsLanguage DEF Next

(* A stored country belongs to the stored language, however often the user *)
(* goes back and forth between the two pages (ubi-language.py ok_handler,  *)
(* ubi-timezone.py set_di_country).                                        *)
THEOREM CountryFollowsLanguage == Spec => []CountryOfLanguage
<1>1. Init => LanguageInv
  <2> SUFFICES ASSUME Init PROVE LanguageInv
    OBVIOUS
  <2>1. PICK z \in FirstZones : saved = [zone |-> z, country |-> "unset"]
    BY DEF Init, TimezoneInit
  <2> QED BY <2>1 DEF Init, ShellInit, LanguageInv, CountryOfLanguage, InitialIsStored
<1> QED BY <1>1, LanguageInvNext, PTL DEF Spec, LanguageInv

-----------------------------------------------------------------------------
(* The form; whether an entry is taken to be edited by hand is known only  *)
(* of entries that were.                                                   *)
Entries == {"full", "user", "host", "password", "userEdited", "hostEdited", "note"}
IsForm(f) == f = [e \in Entries |-> f[e]] /\ f.userEdited \in BOOLEAN /\ f.hostEdited \in BOOLEAN
UserFixed(f) == f.userEdited
HostFixed(f) == f.hostEdited

EditedKnown ==
  /\ "user" \notin given => ~UserFixed(form)
  /\ "host" \notin given => ~HostFixed(form)
NamesInv == IsForm(form) /\ NamesFollow /\ EditedKnown

(* What the handlers do to the form, for what was typed and what follows. *)
HostOnly(f, v) == SetHost(f, v, FALSE)
UserOnly(f, v) == SetUser(f, v, FALSE)
HostByHand(f, v) == SetHost(f, v, TRUE)
UserByHand(f, v) == SetUser(f, v, TRUE)
HostIfFree(f, v) == IF HostFixed(f) \/ v = "" THEN f.host ELSE HostOf[v]

LEMMA HostFollows ==
  ASSUME NEW f, IsForm(f), NEW v
  PROVE  LET g == HostOnly(f, v) IN
         /\ IsForm(g)
         /\ g.full = f.full /\ g.user = f.user /\ g.host = v
         /\ UserFixed(g) <=> UserFixed(f)
         /\ HostFixed(g) <=> HostFixed(f)
BY DEF HostOnly, SetHost, Checked, IsForm, Entries, UserFixed, HostFixed

LEMMA HostTyped ==
  ASSUME NEW f, IsForm(f), NEW v
  PROVE  LET g == HostByHand(f, v) IN
         /\ IsForm(g)
         /\ g.full = f.full /\ g.user = f.user /\ g.host = v
         /\ UserFixed(g) <=> UserFixed(f)
BY DEF HostByHand, SetHost, Checked, IsForm, Entries, UserFixed

Named(f, v) ==
  LET g == [f EXCEPT !.user = v]
  IN  IF ~HostFixed(f) /\ v # "" THEN HostOnly(g, HostOf[v]) ELSE g

LEMMA NamedForm ==
  ASSUME NEW f, IsForm(f), NEW v
  PROVE  LET h == Named(f, v) IN
         /\ IsForm(h) /\ h.full = f.full /\ h.user = v /\ h.host = HostIfFree(f, v)
         /\ UserFixed(h) <=> UserFixed(f)
         /\ HostFixed(h) <=> HostFixed(f)
<1> DEFINE g == [f EXCEPT !.user = v]
<1>1. /\ IsForm(g) /\ g.full = f.full /\ g.user = v /\ g.host = f.host
      /\ UserFixed(g) <=> UserFixed(f)
      /\ HostFixed(g) <=> HostFixed(f)
  BY DEF IsForm, Entries, UserFixed, HostFixed
<1>2. Named(f, v) = IF ~HostFixed(f) /\ v # "" THEN HostOnly(g, HostOf[v]) ELSE g
  BY DEF Named
<1> HIDE DEF g
<1>3. CASE HostFixed(f) \/ v = ""
  <2>1. Named(f, v) = g
    BY <1>2, <1>3
  <2> QED BY <1>1, <1>3, <2>1 DEF HostIfFree
<1>4. CASE ~HostFixed(f) /\ v # ""
  <2>1. PICK h : h = HostOnly(g, HostOf[v])
    OBVIOUS
  <2>2. Named(f, v) = h
    BY <1>2, <1>4, <2>1
  <2>3. /\ IsForm(h) /\ h.full = f.full /\ h.user = v /\ h.host = HostOf[v]
        /\ UserFixed(h) <=> UserFixed(f)
        /\ HostFixed(h) <=> HostFixed(f)
    BY <1>1, <2>1, HostFollows
  <2> QED BY <1>4, <2>2, <2>3 DEF HostIfFree
<1> QED BY <1>3, <1>4

(* The last of a handler: what it takes the change for, and the check. *)
Noted(h, e) == Checked([h EXCEPT !.userEdited = e])

LEMMA NotedForm ==
  ASSUME NEW h, IsForm(h), NEW e \in BOOLEAN
  PROVE  LET u == Noted(h, e) IN
         /\ IsForm(u) /\ u.full = h.full /\ u.user = h.user /\ u.host = h.host
         /\ u.userEdited = e
         /\ HostFixed(u) <=> HostFixed(h)
BY DEF Noted, Checked, IsForm, Entries, HostFixed

LEMMA UserFollows ==
  ASSUME NEW f, IsForm(f), NEW v
  PROVE  LET g == UserOnly(f, v) IN
         /\ IsForm(g)
         /\ g.full = f.full /\ g.user = v
         /\ g.host = IF f.user = v THEN f.host ELSE HostIfFree(f, v)
         /\ UserFixed(g) <=> UserFixed(f)
         /\ HostFixed(g) <=> HostFixed(f)
<1>1. CASE f.user = v
  BY <1>1 DEF UserOnly, SetUser
<1>2. CASE f.user # v
  <2>1. PICK h : h = Named(f, v)
    OBVIOUS
  <2>2. PICK e : e = h.userEdited
    OBVIOUS
  <2>3. UserOnly(f, v) = Noted(h, e)
    BY <1>2, <2>1, <2>2 DEF UserOnly, SetUser, Named, HostOnly, HostFixed, Noted
  <2>4. /\ IsForm(h) /\ h.full = f.full /\ h.user = v /\ h.host = HostIfFree(f, v)
        /\ UserFixed(h) <=> UserFixed(f)
        /\ HostFixed(h) <=> HostFixed(f)
    BY <2>1, NamedForm
  <2>5. e \in BOOLEAN
    BY <2>2, <2>4 DEF IsForm
  <2>6. LET u == Noted(h, e) IN
        /\ IsForm(u) /\ u.full = h.full /\ u.user = h.user /\ u.host = h.host
        /\ u.userEdited = e
        /\ HostFixed(u) <=> HostFixed(h)
    BY <2>4, <2>5, NotedForm
  <2>7. UserFixed(Noted(h, e)) <=> UserFixed(h)
    BY <2>2, <2>5, <2>6 DEF UserFixed
  <2> QED BY <1>2, <2>3, <2>4, <2>6, <2>7
<1> QED BY <1>1, <1>2

LEMMA UserTyped ==
  ASSUME NEW f, IsForm(f), NEW v
  PROVE  LET g == UserByHand(f, v) IN
         /\ IsForm(g)
         /\ g.full = f.full /\ g.user = v
         /\ g.host = IF f.user = v THEN f.host ELSE HostIfFree(f, v)
         /\ HostFixed(g) <=> HostFixed(f)
<1>1. CASE f.user = v
  BY <1>1 DEF UserByHand, SetUser
<1>2. CASE f.user # v
  <2>1. PICK h : h = Named(f, v)
    OBVIOUS
  <2>2. PICK e \in BOOLEAN : e = (v # "")
    OBVIOUS
  <2>3. UserByHand(f, v) = Noted(h, e)
    BY <1>2, <2>1, <2>2 DEF UserByHand, SetUser, Named, HostOnly, HostFixed, Noted
  <2>4. /\ IsForm(h) /\ h.full = f.full /\ h.user = v /\ h.host = HostIfFree(f, v)
        /\ HostFixed(h) <=> HostFixed(f)
    BY <2>1, NamedForm
  <2>5. LET u == Noted(h, e) IN
        /\ IsForm(u) /\ u.full = h.full /\ u.user = h.user /\ u.host = h.host
        /\ HostFixed(u) <=> HostFixed(h)
    BY <2>4, NotedForm
  <2> QED BY <1>2, <2>3, <2>4, <2>5
<1> QED BY <1>1, <1>2

LEMMA SetFullFacts ==
  ASSUME NEW f, IsForm(f), NEW v
  PROVE  LET g == SetFull(f, v) IN
         /\ IsForm(g)
         /\ g.full = v
         /\ UserFixed(g) <=> UserFixed(f)
         /\ HostFixed(g) <=> HostFixed(f)
         /\ g.user = IF UserFixed(f) THEN f.user ELSE UserOf[v]
         /\ g.host = IF UserFixed(f) \/ f.user = UserOf[v] THEN f.host
                     ELSE HostIfFree(f, UserOf[v])
<1> DEFINE g == [f EXCEPT !.full = v]
<1>1. /\ IsForm(g) /\ g.full = v /\ g.user = f.user /\ g.host = f.host
      /\ UserFixed(g) <=> UserFixed(f)
      /\ HostFixed(g) <=> HostFixed(f)
  BY DEF IsForm, Entries, UserFixed, HostFixed
<1>2. SetFull(f, v) = Checked(IF UserFixed(f) THEN g ELSE UserOnly(g, UserOf[v]))
  BY DEF SetFull, UserOnly, UserFixed
<1> HIDE DEF g
<1>3. ASSUME NEW h, IsForm(h)
      PROVE  LET u == Checked(h) IN
             /\ IsForm(u) /\ u.full = h.full /\ u.user = h.user /\ u.host = h.host
             /\ UserFixed(u) <=> UserFixed(h)
             /\ HostFixed(u) <=> HostFixed(h)
  BY <1>3 DEF Checked, IsForm, Entries, UserFixed, HostFixed
<1>4. CASE UserFixed(f)
  <2>1. SetFull(f, v) = Checked(g)
    BY <1>2, <1>4
  <2> QED BY <1>1, <1>3, <1>4, <2>1
<1>5. CASE ~UserFixed(f)
  <2>1. PICK h : h = UserOnly(g, UserOf[v])
    OBVIOUS
  <2>2. SetFull(f, v) = Checked(h)
    BY <1>2, <1>5, <2>1
  <2>3. /\ IsForm(h) /\ h.full = v /\ h.user = UserOf[v]
        /\ h.host = IF f.user = UserOf[v] THEN f.host ELSE HostIfFree(g, UserOf[v])
        /\ UserFixed(h) <=> UserFixed(f)
        /\ HostFixed(h) <=> HostFixed(f)
    BY <1>1, <2>1, UserFollows
  <2>4. HostIfFree(g, UserOf[v]) = HostIfFree(f, UserOf[v])
    BY <1>1 DEF HostIfFree
  <2> QED BY <1>3, <1>5, <2>2, <2>3, <2>4
<1> QED BY <1>4, <1>5

(* Page.prepare *)
LEMMA PreparedNames ==
  ASSUME NamesInv, EnterUser
  PROVE  NamesInv'
<1>1. PICK f : f = WithHost(form)
  OBVIOUS
<1>2. PICK g : g = WithFull(f)
  OBVIOUS
<1>3. PICK h : h = WithUser(g)
  OBVIOUS
<1>4. IsForm(form) /\ NamesFollow /\ EditedKnown
  BY DEF NamesInv
<1>5. /\ form' = Checked(h)
      /\ given' = given \cup {e \in {"host"} : f # form} \cup {e \in {"user"} : g.user # h.user}
  BY <1>1, <1>2, <1>3 DEF EnterUser, Prepared
<1>6. /\ IsForm(f) /\ f.full = form.full /\ f.user = form.user
      /\ UserFixed(f) <=> UserFixed(form)
      /\ f = form \/ "host" \in given'
  <2>1. CASE form.host = ""
    <3>1. f = HostByHand(form, db.host)
      BY <1>1, <2>1 DEF WithHost, HostByHand
    <3> QED BY <1>4, <1>5, <3>1, HostTyped
  <2>2. CASE form.host # ""
    BY <1>1, <1>4, <2>2 DEF WithHost
  <2> QED BY <2>1, <2>2
<1>7. /\ IsForm(g)
      /\ UserFixed(g) <=> UserFixed(form)
      /\ HostFixed(g) <=> HostFixed(f)
      /\ ~UserFixed(form) /\ form.user = UserOf[form.full] => g.user = UserOf[g.full]
      /\ (g.user = f.user /\ g.host = f.host) \/ g.host = HostIfFree(f, g.user)
  <2>1. CASE f.full = "" /\ db.full # ""
    <3>1. g = SetFull(f, db.full)
      BY <1>2, <2>1 DEF WithFull
    <3> QED BY <1>6, <3>1, SetFullFacts, SMTT(20)
  <2>2. CASE ~(f.full = "" /\ db.full # "")
    BY <1>2, <1>6, <2>2 DEF WithFull
  <2> QED BY <2>1, <2>2
<1>8. /\ IsForm(h) /\ h.full = g.full
      /\ HostFixed(h) <=> HostFixed(g)
      /\ h = g \/ "user" \in given'
      /\ (h.user = g.user /\ h.host = g.host) \/ h.host = HostIfFree(g, h.user)
  <2>1. CASE g.user = ""
    <3>1. h = UserByHand(g, db.user)
      BY <1>3, <2>1 DEF WithUser, UserByHand
    <3>2. CASE db.user = ""
      <4>1. h = g
        BY <2>1, <3>1, <3>2 DEF UserByHand, SetUser
      <4> QED BY <1>7, <4>1
    <3>3. CASE db.user # ""
      <4>1. /\ IsForm(h) /\ h.full = g.full /\ h.user = db.user
            /\ h.host = IF g.user = db.user THEN g.host ELSE HostIfFree(g, db.user)
            /\ HostFixed(h) <=> HostFixed(g)
        BY <1>7, <3>1, UserTyped
      <4> QED BY <1>5, <2>1, <3>3, <4>1
    <3> QED BY <3>2, <3>3
  <2>2. CASE g.user # ""
    BY <1>3, <1>7, <2>2 DEF WithUser
  <2> QED BY <2>1, <2>2
<1>9. /\ IsForm(form') /\ form'.full = h.full /\ form'.user = h.user /\ form'.host = h.host
      /\ UserFixed(form') <=> UserFixed(h)
      /\ HostFixed(form') <=> HostFixed(h)
  BY <1>5, <1>8 DEF Checked, IsForm, Entries, UserFixed, HostFixed
<1>10. given \subseteq given'
  BY <1>5
<1>11. "user" \notin given' => ~UserFixed(form') /\ form'.user = UserOf[form'.full]
  BY <1>4, <1>7, <1>8, <1>9, <1>10 DEF NamesFollow, EditedKnown
<1>12. "host" \notin given' =>
         /\ ~HostFixed(form')
         /\ form'.user # "" => form'.host = HostOf[form'.user]
  <2> SUFFICES ASSUME "host" \notin given'
               PROVE  ~HostFixed(form') /\ (form'.user # "" => form'.host = HostOf[form'.user])
    OBVIOUS
  <2>1. f = form /\ ~HostFixed(form) /\ (form.user # "" => form.host = HostOf[form.user])
    BY <1>4, <1>6, <1>10 DEF NamesFollow, EditedKnown
  <2>2. ~HostFixed(g) /\ (g.user # "" => g.host = HostOf[g.user])
    <3>1. ~HostFixed(f) /\ (f.user # "" => f.host = HostOf[f.user])
      BY <2>1
    <3>2. ~HostFixed(g)
      BY <1>7, <3>1
    <3>3. CASE g.user = f.user /\ g.host = f.host
      BY <3>1, <3>2, <3>3
    <3>4. CASE g.host = HostIfFree(f, g.user)
      BY <3>1, <3>2, <3>4 DEF HostIfFree
    <3> QED BY <1>7, <3>3, <3>4
  <2>3. ~HostFixed(h) /\ (h.user # "" => h.host = HostOf[h.user])
    BY <1>8, <2>2 DEF HostIfFree
  <2> QED BY <1>9, <2>3
<1> QED BY <1>9, <1>11, <1>12 DEF NamesInv, NamesFollow, EditedKnown, UserFixed, HostFixed

LEMMA SameNames ==
  ASSUME NamesInv, IsForm(form'), given' = given,
         form'.full = form.full, form'.user = form.user, form'.host = form.host,
         UserFixed(form') <=> UserFixed(form),
         HostFixed(form') <=> HostFixed(form)
  PROVE  NamesInv'
BY DEF NamesInv, NamesFollow, EditedKnown, UserFixed, HostFixed

LEMMA UserKeepsNames == ASSUME NamesInv, UserStep PROVE NamesInv'
<1>1. IsForm(form) /\ NamesFollow /\ EditedKnown
  BY DEF NamesInv
<1>2. CASE TypeFull
  <2>1. PICK v : form' = SetFull(form, v) /\ given' = given
    BY <1>2 DEF TypeFull, Edit
  <2>2. /\ IsForm(form') /\ form'.full = v
        /\ UserFixed(form') <=> UserFixed(form)
        /\ HostFixed(form') <=> HostFixed(form)
        /\ form'.user = IF UserFixed(form) THEN form.user ELSE UserOf[v]
        /\ form'.host = IF UserFixed(form) \/ form.user = UserOf[v] THEN form.host
                        ELSE HostIfFree(form, UserOf[v])
    BY <1>1, <2>1, SetFullFacts
  <2>3. "user" \notin given' => ~UserFixed(form') /\ form'.user = UserOf[form'.full]
    BY <1>1, <2>1, <2>2 DEF EditedKnown
  <2>4. "host" \notin given' =>
          /\ ~HostFixed(form')
          /\ form'.user # "" => form'.host = HostOf[form'.user]
    BY <1>1, <2>1, <2>2 DEF EditedKnown, NamesFollow, HostIfFree
  <2> QED BY <2>2, <2>3, <2>4 DEF NamesInv, NamesFollow, EditedKnown, UserFixed, HostFixed
<1>3. CASE TypeUser
  <2>1. PICK v : form' = UserByHand(form, v) /\ given' = given \cup {"user"}
    BY <1>3 DEF TypeUser, Edit, UserByHand
  <2>2. /\ IsForm(form') /\ form'.full = form.full /\ form'.user = v
        /\ form'.host = IF form.user = v THEN form.host ELSE HostIfFree(form, v)
        /\ HostFixed(form') <=> HostFixed(form)
    BY <1>1, <2>1, UserTyped
  <2>3. "host" \notin given' =>
          /\ ~HostFixed(form')
          /\ form'.user # "" => form'.host = HostOf[form'.user]
    BY <1>1, <2>1, <2>2 DEF EditedKnown, NamesFollow, HostIfFree
  <2> QED BY <2>1, <2>2, <2>3 DEF NamesInv, NamesFollow, EditedKnown, HostFixed
<1>4. CASE TypeHost
  <2>1. PICK v : form' = HostByHand(form, v) /\ given' = given \cup {"host"}
    BY <1>4 DEF TypeHost, Edit, HostByHand
  <2>2. /\ IsForm(form') /\ form'.full = form.full /\ form'.user = form.user
        /\ UserFixed(form') <=> UserFixed(form)
    BY <1>1, <2>1, HostTyped
  <2> QED BY <1>1, <2>1, <2>2 DEF NamesInv, NamesFollow, EditedKnown, UserFixed
<1>5. CASE TypePassword
  <2>1. PICK p : form' = [form EXCEPT !.password = p] /\ given' = given
    BY <1>5 DEF TypePassword, Edit
  <2>2. /\ IsForm(form')
        /\ form'.full = form.full /\ form'.user = form.user /\ form'.host = form.host
        /\ UserFixed(form') <=> UserFixed(form)
        /\ HostFixed(form') <=> HostFixed(form)
    BY <1>1, <2>1 DEF IsForm, Entries, UserFixed, HostFixed
  <2> QED BY <2>1, <2>2, SameNames
<1>6. CASE LookupResult \/ UserNext
  <2>1. given' = given /\ (form' = form \/ \E n : form' = [form EXCEPT !.note = n])
    BY <1>6 DEF LookupResult, UserNext, Checked
  <2>2. /\ IsForm(form')
        /\ form'.full = form.full /\ form'.user = form.user /\ form'.host = form.host
        /\ UserFixed(form') <=> UserFixed(form)
        /\ HostFixed(form') <=> HostFixed(form)
    BY <1>1, <2>1 DEF IsForm, Entries, UserFixed, HostFixed
  <2> QED BY <2>1, <2>2, SameNames
<1>7. CASE HostTimeout \/ ToggleLogin \/ TypeDomain \/ UserBack
  <2>1. UNCHANGED <<form, given>>
    BY <1>7 DEF HostTimeout, ToggleLogin, TypeDomain, UserBack
  <2> QED BY <1>1, <2>1, SameNames DEF UserFixed, HostFixed
<1> QED BY <1>2, <1>3, <1>4, <1>5, <1>6, <1>7 DEF UserStep

LEMMA OtherStepsLeaveForm ==
  ASSUME [Next]_vars, ~ArriveUser, ~UserSteps
  PROVE  UNCHANGED <<form, given>>
<1> USE DEF userVars
<1>1. CASE Arrival
  BY <1>1 DEF Arrival, ArriveLanguage, ArriveKeyboard, ArrivePrepare, ArriveTimezone, ArrivePartman,
             ArriveElse
<1>2. CASE LanguageSteps \/ KeyboardSteps \/ WirelessSteps \/ PrepareSteps \/ TimezoneSteps
             \/ PartmanSteps \/ OtherSteps
  BY <1>2 DEF LanguageSteps, KeyboardSteps, WirelessSteps, PrepareSteps, TimezoneSteps, PartmanSteps,
             OtherSteps
<1>3. CASE Signal \/ Probing \/ Probed \/ Reported
  BY <1>3 DEF Signal, Probing, Probed, Reported, UserConnectivity
<1>4. CASE Done \/ UNCHANGED vars
  BY <1>4 DEF Done, vars
<1> QED BY <1>1, <1>2, <1>3, <1>4 DEF Next

LEMMA NamesNext == ASSUME NamesInv, [Next]_vars PROVE NamesInv'
<1>1. CASE ArriveUser
  BY <1>1, PreparedNames DEF ArriveUser
<1>2. CASE UserSteps
  BY <1>2, UserKeepsNames DEF UserSteps
<1>3. CASE ~ArriveUser /\ ~UserSteps
  <2>1. UNCHANGED <<form, given>>
    BY <1>3, OtherStepsLeaveForm
  <2> QED BY <2>1, SameNames DEF NamesInv, UserFixed, HostFixed
<1> QED BY <1>1, <1>2, <1>3

LEMMA NamesInit == ASSUME Init PROVE NamesInv
<1>1. form = [full |-> "", user |-> "", host |-> "", password |-> "differ",
              userEdited |-> FALSE, hostEdited |-> FALSE, note |-> "none"]
  BY DEF Init, UserInit
<1>2. IsForm(form)
  BY <1>1 DEF IsForm, Entries
<1>3. ~UserFixed(form) /\ ~HostFixed(form)
  BY <1>1 DEF UserFixed, HostFixed
<1>4. form.full = "" /\ form.user = "" /\ form.host = ""
  BY <1>1
<1>5. NamesFollow
  BY <1>4, NamesAssumption DEF NamesFollow
<1> QED BY <1>2, <1>3, <1>5 DEF NamesInv, EditedKnown

(* A name nobody gave by hand follows the one it is made of, for any names *)
(* and whatever debconf proposes (on_fullname_changed and its like).       *)
THEOREM DerivedNamesFollow == Spec => []NamesFollow
<1>1. NamesInv => NamesFollow
  BY DEF NamesInv
<1> QED BY <1>1, NamesInit, NamesNext, PTL DEF Spec
-----------------------------------------------------------------------------
(* While the script waits for a variant, what is listed, stored and acted on *)
(* is one layout, and a layout selected since has its timeout; once it has   *)
(* ended the running keyboard is what it stored.                             *)
Running(c) == AdjustKeyboard(c.layout, IF VariantsOf[c.layout] = {} THEN "" ELSE c.variant)
OneKeyboard ==
  /\ answer = current /\ listed = current /\ variant \in Selectable(listed)
  /\ layout = current \/ "layout" \in timers
KeyboardInv ==
  /\ answer \in DOMAIN VariantsOf /\ codes.layout \in DOMAIN VariantsOf
  /\ codes.variant \in Selectable(codes.layout)
  /\ question # "closed" => layout \in DOMAIN VariantsOf
  /\ Waiting("console_setup") /\ question = "variant" => OneKeyboard
  /\ question = "closed" /\ listed # "none" => live = Running(codes)

(* What other pages do to it: nothing, and they do not make it wait.         *)
LeavesKeyboard ==
  /\ UNCHANGED keyboardVars
  /\ Waiting("console_setup")' => Waiting("console_setup") \/ question = "closed"

LEMMA LeavingKeepsKeyboard == ASSUME KeyboardInv, LeavesKeyboard PROVE KeyboardInv'
BY DEF LeavesKeyboard, KeyboardInv, OneKeyboard, keyboardVars

LEMMA OthersLeaveKeyboard ==
  ASSUME [Next]_vars, ~KeyboardSteps, ~ArriveKeyboard
  PROVE  LeavesKeyboard
<1> USE DEF LeavesKeyboard, Waiting
<1>1. CASE Arrival
  BY <1>1 DEF Arrival, Arrive, ArriveLanguage, ArrivePrepare, ArriveTimezone, ArriveUser,
             ArrivePartman, ArriveElse
<1>2. CASE WirelessSteps \/ PrepareSteps \/ UserSteps \/ PartmanSteps \/ OtherSteps
             \/ Signal \/ Probing \/ Probed \/ Reported \/ Done
  <2>1. LeavesCountry
    BY <1>2, OtherPagesLeaveCountry
  <2>2. UNCHANGED keyboardVars
    BY <1>2 DEF WirelessSteps, PrepareSteps, UserSteps, PartmanSteps, OtherSteps, Signal, Probing,
               Probed, Reported, Done, vars
  <2> QED BY <2>1, <2>2 DEF LeavesCountry, Page
<1>3. CASE LanguageSteps
  <2>1. UNCHANGED <<tour, keyboardVars>> /\ (busy' \/ UNCHANGED <<at, busy>>)
    BY <1>3 DEF LanguageSteps, SelectLanguage, UpdateChecked, LanguageNext, TryClicked, shellVars,
               Leave, Ends
  <2> QED BY <2>1 DEF Page
<1>4. CASE TimezoneSteps
  <2>1. UNCHANGED <<tour, keyboardVars>> /\ (busy' \/ UNCHANGED <<at, busy>>)
    BY <1>4 DEF TimezoneSteps, PickOnMap, TypePlace, Changed, GeonameTimeout, GeonameAnswer,
               TimezoneNext, TimezoneBack, shellVars, Leave
  <2> QED BY <2>1 DEF Page
<1>5. CASE UNCHANGED vars
  BY <1>5 DEF vars, shellVars, Page
<1> QED BY <1>1, <1>2, <1>3, <1>4, <1>5 DEF Next

(* The script asks *)
LEMMA AskKeepsKeyboard ==
  ASSUME KeyboardInv, NEW l \in DOMAIN VariantsOf, Ask(l)
  PROVE  KeyboardInv'
<1>1. variant' \in Selectable(l)
  BY KeyboardAssumption DEF Ask, KeyboardInv
<1> QED BY <1>1 DEF Ask, KeyboardInv, OneKeyboard

(* and the user and the timeouts come in between.                            *)
LEMMA KeyboardStepsKeepKeyboard == ASSUME KeyboardInv, KeyboardStep PROVE KeyboardInv'
<1> USE DEF KeyboardInv
<1>1. CASE AskAgain
  BY <1>1, AskKeepsKeyboard DEF AskAgain
<1>2. CASE SelectLayout
  BY <1>2 DEF SelectLayout, StartTimer, OneKeyboard, Waiting, Page, shellVars
<1>3. CASE SelectVariant
  BY <1>3 DEF SelectVariant, StartTimer, OneKeyboard, Waiting, Page, shellVars
<1>4. CASE LayoutTimeout
  BY <1>4 DEF LayoutTimeout, ChangeLayout, Ends, OneKeyboard, Waiting, Page, shellVars
<1>5. CASE VariantTimeout
  BY <1>5 DEF VariantTimeout, ApplyKeyboard, Ends, OneKeyboard, Waiting, Page, shellVars
<1>6. CASE DetectKeyboard
  <2>1. PICK keyboard \in Detected :
          layout' = keyboard.layout /\ ChangeLayout(keyboard.layout)
    BY <1>6 DEF DetectKeyboard
  <2>2. keyboard.layout \in DOMAIN VariantsOf
    BY <2>1 DEF Detected
  <2>3. question' = "again"
    BY <1>6, <2>1 DEF DetectKeyboard, ChangeLayout, Waiting
  <2> QED BY <1>6, <2>1, <2>2, <2>3 DEF DetectKeyboard, ChangeLayout
<1>7. CASE KeyboardNext \/ KeyboardBack
  BY <1>7 DEF KeyboardNext, KeyboardBack, Leave, Waiting
<1>8. CASE KeyboardDone
  <2>1. Fitting(answer, variant) \in Selectable(answer)
    BY KeyboardAssumption DEF Fitting
  <2>2. codes'.layout \in DOMAIN VariantsOf /\ codes'.variant \in Selectable(codes'.layout)
    BY <1>8, <2>1 DEF KeyboardDone
  <2>3. live' = Running(codes')
    BY <1>8 DEF KeyboardDone, Running
  <2> QED BY <1>8, <2>2, <2>3 DEF KeyboardDone
<1> QED BY <1>1, <1>2, <1>3, <1>4, <1>5, <1>6, <1>7, <1>8 DEF KeyboardStep

LEMMA KeyboardInvNext == ASSUME KeyboardInv, [Next]_vars PROVE KeyboardInv'
<1>1. CASE ArriveKeyboard
  <2>1. PICK l \in {codes.layout, answer} : Ask(l)
    BY <1>1 DEF ArriveKeyboard, EnterKeyboard
  <2> QED BY <2>1, AskKeepsKeyboard DEF KeyboardInv
<1>2. CASE KeyboardSteps
  BY <1>2, KeyboardStepsKeepKeyboard DEF KeyboardSteps
<1> QED BY <1>1, <1>2, OthersLeaveKeyboard, LeavingKeepsKeyboard

LEMMA KeyboardInvHolds == Spec => []KeyboardInv
<1>1. Init => KeyboardInv
  BY KeyboardAssumption DEF Init, KeyboardInit, KeyboardInv
<1> QED BY <1>1, KeyboardInvNext, PTL DEF Spec

(* The keyboard page shows one layout and a variant of it whenever nothing is *)
(* pending, in whatever order selections, timeouts, detection and the script's *)
(* questions came (keyboard_layout_timeout, change_layout, run).             *)
THEOREM VariantsAlwaysFit == Spec => []VariantsFit
<1>1. KeyboardInv => VariantsFit
  BY DEF KeyboardInv, OneKeyboard, VariantsFit
<1> QED BY <1>1, KeyboardInvHolds, PTL

(* Away from the page the running keyboard is the stored one (cleanup), for  *)
(* every way the page was left and whatever had been tried on it.            *)
THEOREM LiveKeyboardIsSaved == Spec => []LiveIsSaved
<1>1. KeyboardInv => LiveIsSaved
  BY Zenon DEF KeyboardInv, Running, LiveIsSaved
<1> QED BY <1>1, KeyboardInvHolds, PTL
-----------------------------------------------------------------------------
(* The look-ups of places.  One that was aborted is still out only together  *)
(* with the one that aborted it, which is for the text last asked for; so is *)
(* the timeout of two seconds.                                               *)
Places == (DOMAIN ZoneOf \cup {""}) \cup {PlaceOf[z] : z \in DOMAIN CountryOf}
Lookup == [text : Places, live : BOOLEAN]
Pending ==
  /\ \A i \in DOMAIN lookupsOut : lookupsOut[i].live => lookupsOut[i].text = asked
  /\ lookupsOut # <<>> => \E i \in DOMAIN lookupsOut : lookupsOut[i].live
  /\ fallback \in {"none", asked}
  /\ lookupsOut = <<>> /\ fallback = "none" => shown = asked
CompletionInv ==
  entry \in Places /\ lookupsOut \in Seq(Lookup) /\ (~overtaken => Pending)

LEMMA PlacesKnown ==
  /\ DOMAIN ZoneOf \subseteq Places /\ "" \in Places
  /\ \A z \in DOMAIN CountryOf : PlaceOf[z] \in Places
BY Zenon DEF Places

(* An entry fewer: the others keep their order.                              *)
LEMMA Removed ==
  ASSUME NEW S, NEW s \in Seq(S), NEW i \in 1 .. Len(s)
  PROVE  LET r == RemoveAt(s, i) IN
         /\ r \in Seq(S) /\ Len(r) = Len(s) - 1
         /\ \A j \in 1 .. Len(r) : r[j] = IF j < i THEN s[j] ELSE s[j + 1]
<1> DEFINE a == SubSeq(s, 1, i - 1)
           b == SubSeq(s, i + 1, Len(s))
<1>1. a \in Seq(S) /\ Len(a) = i - 1 /\ \A j \in 1 .. i - 1 : a[j] = s[j]
  OBVIOUS
<1>2. b \in Seq(S) /\ Len(b) = Len(s) - i /\ \A j \in 1 .. Len(s) - i : b[j] = s[i + j]
  OBVIOUS
<1>3. RemoveAt(s, i) = a \o b
  BY DEF RemoveAt
<1> HIDE DEF a, b
<1>4. a \o b \in Seq(S) /\ Len(a \o b) = Len(s) - 1
  <2>1. Len(a \o b) = Len(a) + Len(b) /\ a \o b \in Seq(S)
    <3>1. a \in Seq(S) /\ b \in Seq(S)
      BY <1>1, <1>2
    <3> QED BY <3>1
  <2>2. Len(s) \in Nat /\ i \in Int
    OBVIOUS
  <2> QED BY <1>1, <1>2, <2>1, <2>2
<1>5. ASSUME NEW j \in 1 .. Len(s) - 1
      PROVE  (a \o b)[j] = IF j < i THEN s[j] ELSE s[j + 1]
  <2>1. CASE j < i
    BY <1>1, <1>2, <2>1
  <2>2. CASE ~(j < i)
    <3>1. (a \o b)[j] = b[j - Len(a)]
      BY <1>1, <1>2, <2>2
    <3>2. j - Len(a) \in 1 .. Len(s) - i /\ i + (j - Len(a)) = j + 1
      BY <1>1, <2>2
    <3> QED BY <1>2, <2>2, <3>1, <3>2
  <2> QED BY <2>1, <2>2
<1> QED BY <1>3, <1>4, <1>5

LEMMA AnswerKeepsCompletions == ASSUME CompletionInv, GeonameAnswer PROVE CompletionInv'
<1>1. PICK i \in DOMAIN lookupsOut :
        /\ lookupsOut[i].live => \A j \in DOMAIN lookupsOut : lookupsOut[j].live
        /\ lookupsOut' = RemoveAt(lookupsOut, i) /\ shown' = lookupsOut[i].text
  BY DEF GeonameAnswer
<1>2. fallback' = "none" /\ UNCHANGED <<entry, asked, overtaken>>
  BY DEF GeonameAnswer
<1>3. lookupsOut \in Seq(Lookup) /\ i \in 1 .. Len(lookupsOut)
  BY <1>1 DEF CompletionInv
<1>4. /\ lookupsOut' \in Seq(Lookup) /\ Len(lookupsOut') = Len(lookupsOut) - 1
      /\ \A j \in 1 .. Len(lookupsOut') :
           lookupsOut'[j] = IF j < i THEN lookupsOut[j] ELSE lookupsOut[j + 1]
  BY <1>1, <1>3, Removed
<1>5. ASSUME Pending PROVE Pending'
  <2>1. \A j \in DOMAIN lookupsOut' : lookupsOut'[j].live => lookupsOut'[j].text = asked
    <3>1. \A j \in DOMAIN lookupsOut' :
            \E k \in DOMAIN lookupsOut : lookupsOut'[j] = lookupsOut[k]
      <4> SUFFICES ASSUME NEW j \in 1 .. Len(lookupsOut')
                   PROVE  \E k \in DOMAIN lookupsOut : lookupsOut'[j] = lookupsOut[k]
        BY <1>4
      <4>1. j \in DOMAIN lookupsOut /\ j + 1 \in DOMAIN lookupsOut
        BY <1>3, <1>4
      <4>2. lookupsOut'[j] = lookupsOut[j] \/ lookupsOut'[j] = lookupsOut[j + 1]
        BY <1>4
      <4> QED BY <4>1, <4>2
    <3>2. \A k \in DOMAIN lookupsOut : lookupsOut[k].live => lookupsOut[k].text = asked
      BY <1>5 DEF Pending
    <3> QED BY <3>1, <3>2, Zenon
  <2>2. CASE lookupsOut[i].live
    <3>1. \A j \in DOMAIN lookupsOut' : lookupsOut'[j].live
      BY <1>1, <1>3, <1>4, <2>2
    <3>2. lookupsOut' # <<>> => 1 \in DOMAIN lookupsOut'
      BY <1>4
    <3>3. shown' = asked
      BY <1>1, <1>5, <2>2 DEF Pending
    <3> QED BY <1>2, <2>1, <3>1, <3>2, <3>3 DEF Pending
  <2>3. CASE ~lookupsOut[i].live
    <3>1. PICK k \in DOMAIN lookupsOut : lookupsOut[k].live
      BY <1>3, <1>5 DEF Pending
    <3>2. k # i /\ k \in 1 .. Len(lookupsOut)
      BY <1>3, <2>3, <3>1
    <3>3. \E j \in DOMAIN lookupsOut' : lookupsOut'[j].live
      <4>1. CASE k < i
        BY <1>3, <1>4, <3>1, <3>2, <4>1
      <4>2. CASE k > i
        <5>1. k - 1 \in DOMAIN lookupsOut' /\ lookupsOut'[k - 1] = lookupsOut[k]
          BY <1>3, <1>4, <3>2, <4>2
        <5> QED BY <3>1, <5>1
      <4> QED BY <1>3, <3>2, <4>1, <4>2
    <3>4. lookupsOut' # <<>>
      BY <3>3
    <3> QED BY <1>2, <2>1, <3>3, <3>4 DEF Pending
  <2> QED BY <2>2, <2>3
<1> QED BY <1>2, <1>4, <1>5 DEF CompletionInv

LEMMA ChangeKeepsCompletions == ASSUME CompletionInv, Changed PROVE CompletionInv'
<1>1. entry' = entry /\ entry \in Places /\ lookupsOut \in Seq(Lookup)
  BY DEF Changed, CompletionInv
<1>2. CASE UNCHANGED completionVars
  BY <1>1, <1>2 DEF CompletionInv, Pending, completionVars
<1>3. CASE /\ asked' = entry /\ shown' = entry /\ UNCHANGED <<lookupsOut, fallback>>
           /\ overtaken' = (lookupsOut # <<>> \/ fallback # "none")
  <2>1. CASE lookupsOut = <<>> /\ fallback = "none"
    <3>1. DOMAIN lookupsOut' = {}
      BY <1>3, <2>1
    <3> QED BY <1>1, <1>3, <2>1, <3>1 DEF CompletionInv, Pending
  <2>2. CASE ~(lookupsOut = <<>> /\ fallback = "none")
    BY <1>1, <1>3, <2>2 DEF CompletionInv
  <2> QED BY <2>1, <2>2
<1> DEFINE aborted == [i \in DOMAIN lookupsOut |-> [lookupsOut[i] EXCEPT !.live = FALSE]]
           new == [text |-> entry, live |-> TRUE]
<1>4. CASE /\ asked' = entry /\ fallback' = entry
           /\ lookupsOut' = Append(aborted, new)
  <2>1. aborted \in Seq(Lookup) /\ Len(aborted) = Len(lookupsOut)
        /\ \A i \in 1 .. Len(aborted) : ~aborted[i].live
    <3>1. \A i \in 1 .. Len(lookupsOut) : lookupsOut[i] \in Lookup
      BY <1>1
    <3>2. \A l \in Lookup : [l EXCEPT !.live = FALSE] \in Lookup /\ ~[l EXCEPT !.live = FALSE].live
      BY DEF Lookup
    <3>3. /\ DOMAIN aborted = 1 .. Len(lookupsOut) /\ Len(lookupsOut) \in Nat
          /\ \A i \in 1 .. Len(lookupsOut) : aborted[i] = [lookupsOut[i] EXCEPT !.live = FALSE]
      <4>1. DOMAIN lookupsOut = 1 .. Len(lookupsOut) /\ Len(lookupsOut) \in Nat
        BY <1>1
      <4> QED BY <4>1, Zenon
    <3> HIDE DEF aborted
    <3>4. \A i \in 1 .. Len(lookupsOut) : aborted[i] \in Lookup /\ ~aborted[i].live
      BY <3>1, <3>2, <3>3, ZenonT(30)
    <3>5. aborted = [i \in 1 .. Len(lookupsOut) |-> aborted[i]]
      BY <3>3 DEF aborted
    <3>6. aborted \in Seq(Lookup) /\ Len(aborted) = Len(lookupsOut)
      BY <3>3, <3>4, <3>5
    <3> QED BY <3>4, <3>6
  <2>2. new \in Lookup /\ new.live /\ new.text = entry
    BY <1>1 DEF Lookup
  <2> HIDE DEF aborted, new
  <2>3. /\ lookupsOut' \in Seq(Lookup) /\ Len(lookupsOut') = Len(aborted) + 1
        /\ lookupsOut'[Len(aborted) + 1] = new
        /\ \A i \in 1 .. Len(aborted) : lookupsOut'[i] = aborted[i]
    BY <1>4, <2>1, <2>2
  <2>4. \A i \in DOMAIN lookupsOut' : lookupsOut'[i].live => lookupsOut'[i].text = asked'
    BY <1>4, <2>1, <2>2, <2>3
  <2>5. \E i \in DOMAIN lookupsOut' : lookupsOut'[i].live
    BY <2>1, <2>2, <2>3
  <2>6. lookupsOut' # <<>>
    BY <2>5
  <2> QED BY <1>1, <1>4, <2>3, <2>4, <2>5, <2>6 DEF CompletionInv, Pending
<1> QED BY <1>2, <1>3, <1>4 DEF Changed

LEMMA OthersLeaveCompletions ==
  ASSUME [Next]_vars, ~ArriveTimezone, ~TimezoneSteps
  PROVE  UNCHANGED <<completionVars, entry>>
<1> USE DEF zoneVars, completionVars
<1>1. CASE Arrival
  BY <1>1 DEF Arrival, ArriveLanguage, ArriveKeyboard, ArrivePrepare, ArriveUser, ArrivePartman,
             ArriveElse
<1>2. CASE LanguageSteps \/ KeyboardSteps \/ WirelessSteps \/ PrepareSteps \/ UserSteps
             \/ PartmanSteps \/ OtherSteps
  BY <1>2 DEF LanguageSteps, KeyboardSteps, WirelessSteps, PrepareSteps, UserSteps, PartmanSteps,
             OtherSteps
<1>3. CASE Signal \/ Probing \/ Probed \/ Reported \/ Done \/ UNCHANGED vars
  BY <1>3 DEF Signal, Probing, Probed, Reported, Done, vars
<1> QED BY <1>1, <1>2, <1>3 DEF Next

LEMMA CompletionInvNext == ASSUME CompletionInv, [Next]_vars PROVE CompletionInv'
<1>1. CASE UNCHANGED completionVars /\ entry' \in Places
  BY <1>1 DEF CompletionInv, Pending, completionVars
<1>2. CASE ArriveTimezone
  <2>1. PICK z : SelectCity(z) /\ UNCHANGED completionVars
    BY <1>2 DEF ArriveTimezone, EnterTimezone
  <2>2. entry' \in Places
    BY <2>1, PlacesKnown DEF SelectCity, CompletionInv
  <2> QED BY <1>1, <2>1, <2>2
<1>3. CASE TimezoneSteps
  <2>1. CASE PickOnMap
    <3>1. PICK z : SelectCity(z) /\ UNCHANGED completionVars
      BY <2>1 DEF PickOnMap
    <3>2. entry' \in Places
      BY <3>1, PlacesKnown DEF SelectCity, CompletionInv
    <3> QED BY <1>1, <3>1, <3>2
  <2>2. CASE TypePlace
    <3>1. entry' \in Places /\ UNCHANGED completionVars
      BY <2>2, PlacesKnown, Zenon DEF TypePlace
    <3> QED BY <1>1, <3>1
  <2>3. CASE GeonameTimeout
    BY <2>3 DEF GeonameTimeout, CompletionInv, Pending
  <2>4. CASE TimezoneNext \/ TimezoneBack
    <3>1. UNCHANGED <<completionVars, entry>>
      BY <2>4 DEF TimezoneNext, TimezoneBack, zoneVars, completionVars
    <3> QED BY <1>1, <3>1 DEF CompletionInv
  <2> QED BY <1>3, <2>1, <2>2, <2>3, <2>4, AnswerKeepsCompletions, ChangeKeepsCompletions
             DEF TimezoneSteps
<1>4. CASE ~ArriveTimezone /\ ~TimezoneSteps
  BY <1>1, <1>4, OthersLeaveCompletions DEF CompletionInv
<1> QED BY <1>2, <1>3, <1>4

(* When everything asked for is answered the completions shown are those of  *)
(* the text last asked for, whatever the number of look-ups that were out    *)
(* and the order of their answers and timeouts (changed, geoname_cb,         *)
(* geoname_timeout).                                                         *)
THEOREM CompletionsAreRight == Spec => []RightCompletions
<1>1. Init => CompletionInv
  <2>1. Init => lookupsOut = <<>> /\ shown = asked /\ fallback = "none"
    BY DEF Init, TimezoneInit
  <2>2. Init => entry \in Places
    BY PlacesKnown, Zenon DEF Init, TimezoneInit
  <2> QED BY <2>1, <2>2 DEF CompletionInv, Pending
<1>2. CompletionInv => RightCompletions
  BY DEF CompletionInv, Pending, RightCompletions
<1> QED BY <1>1, <1>2, CompletionInvNext, PTL DEF Spec

-----------------------------------------------------------------------------
(* That whoever can click Next on a page has given what the page needs, and  *)
(* that the button says what it does, for every tour through the pages.  The *)
(* five pages that look at what is entered share one flag, so each has to    *)
(* set it when it is shown and with every change, and must not be disturbed  *)
(* by the handlers of the others.                                            *)

(* What the handlers of page q do to the shell: on another page they change  *)
(* nothing of it that could make a page wait, or enable its button.          *)
KeepsTo(q) ==
  /\ UNCHANGED tour
  /\ busy' \/ UNCHANGED <<at, busy, forward>> \/ (UNCHANGED at /\ Page = q)

(* Whoever waits on a page after a step that was not on it waited before. *)
LEMMA WaitedBefore ==
  ASSUME NEW p, NEW q, p # q, KeepsTo(q), Page' = p, ~busy'
  PROVE  Page = p /\ ~busy /\ (forward' => forward)
<1>1. at' = at /\ tour' = tour /\ (Page = q \/ (busy' = busy /\ forward' = forward))
  BY DEF KeepsTo
<1>2. Page' = Page
  BY <1>1 DEF Page
<1>3. Page = p
  BY <1>2
<1>4. busy' = busy /\ forward' = forward
  BY <1>1, <1>3
<1> QED BY <1>3, <1>4

LEMMA PartmanKeepsTo == ASSUME PartmanSteps PROVE KeepsTo("partman")
<1> USE DEF KeepsTo, shellVars, Leave, Ends, AllowForward, Waiting, NextClicked, BackClicked
<1>1. CASE Tick \/ ChooseFeatures \/ TypeKeys \/ PartitionDialog \/ SelectDrive \/ HiddenLink
  BY <1>1 DEF Tick, ChooseFeatures, TypeKeys, PartitionDialog, SelectDrive, HiddenLink
<1>2. CASE PartmanNext
  BY <1>2 DEF PartmanNext, Restart, ShowBitlocker, ShowCrypto, ShowAuto, Turn, ToManual, Install,
             NotWritten
<1>3. CASE PartmanBack
  BY <1>3 DEF PartmanBack, Turn
<1>4. CASE PartmanAsks(online)
  BY <1>4 DEF PartmanAsks
<1> QED BY <1>1, <1>2, <1>3, <1>4 DEF PartmanSteps, PartmanStep

LEMMA PagesKeepToThemselves ==
  /\ LanguageSteps => KeepsTo("language")
  /\ KeyboardSteps => KeepsTo("console_setup")
  /\ WirelessSteps => KeepsTo("wireless")
  /\ PrepareSteps => KeepsTo("prepare")
  /\ TimezoneSteps => KeepsTo("timezone")
  /\ UserSteps => KeepsTo("usersetup")
  /\ PartmanSteps => KeepsTo("partman")
  /\ OtherSteps => KeepsTo("other")
  /\ Signal \/ Probing \/ Probed \/ Reported \/ Done \/ UNCHANGED vars => KeepsTo("none")
<1> USE DEF KeepsTo, shellVars, Leave, Ends, AllowForward, Waiting, NextClicked, BackClicked
<1>1. LanguageSteps => KeepsTo("language")
  BY DEF LanguageSteps, SelectLanguage, UpdateChecked, LanguageNext, TryClicked
<1>2. KeyboardSteps => KeepsTo("console_setup")
  BY DEF KeyboardSteps, KeyboardStep, AskAgain, SelectLayout, SelectVariant, LayoutTimeout,
         VariantTimeout, DetectKeyboard, KeyboardNext, KeyboardBack, KeyboardDone
<1>3. WirelessSteps => KeepsTo("wireless")
  BY DEF WirelessSteps, WirelessStep, SelectRow, UseWireless, NoWireless, WirelessNext,
         ConnectCallback, WirelessBack, AirChanges, BuildCache, Follow
<1>4. PrepareSteps => KeepsTo("prepare")
  BY DEF PrepareSteps, PrepareStep, ToggleNonfree, ToggleSecureBoot, TypeKey, Change,
         ToggleDownloads, DiskPlugged, PrepareNext, PrepareBack
<1>5. TimezoneSteps => KeepsTo("timezone")
  BY DEF TimezoneSteps, PickOnMap, TypePlace, Changed, GeonameTimeout, GeonameAnswer,
         TimezoneNext, TimezoneBack
<1>6. UserSteps => KeepsTo("usersetup")
  BY DEF UserSteps, UserStep, TypeFull, TypeUser, TypeHost, TypePassword, Edit, HostTimeout,
         LookupResult, ToggleLogin, TypeDomain, UserNext, UserBack, SwitchTab
<1>7. OtherSteps => KeepsTo("other")
  BY DEF OtherSteps
<1>8. Signal \/ Probing \/ Probed \/ Reported => KeepsTo("none")
  BY DEF Signal, StateChanged, Follow, Probing, Probed, Reported
<1>9. Done \/ UNCHANGED vars => KeepsTo("none")
  BY DEF Done, vars
<1> QED BY <1>1, <1>2, <1>3, <1>4, <1>5, <1>6, <1>7, <1>8, <1>9, PartmanKeepsTo

LEMMA ArrivesThere ==
  ASSUME Arrival
  PROVE  /\ ArriveLanguage => Page' = "language"
         /\ ArriveKeyboard => Page' = "console_setup"
         /\ ArrivePrepare => Page' = "prepare"
         /\ ArriveTimezone => Page' = "timezone"
         /\ ArriveUser => Page' = "usersetup"
         /\ ArrivePartman => Page' = "partman"
         /\ ArriveElse => Page' \in {"wireless", "other", "install"}
BY DEF ArriveLanguage, ArriveKeyboard, ArrivePrepare, ArriveTimezone, ArriveUser, ArrivePartman,
       ArriveElse, Arrive

-----------------------------------------------------------------------------
(* The language page and the map: their one handler sets the flag.           *)
LanguageGate == Page = "language" /\ ~busy /\ forward => LanguageReady
ZoneGate == Page = "timezone" /\ ~busy /\ forward => ZoneReady

LEMMA LanguageGateKept == ASSUME LanguageGate, [Next]_vars PROVE LanguageGate'
<1> USE DEF LanguageGate, LanguageReady
<1>1. CASE ArriveLanguage
  BY <1>1 DEF ArriveLanguage, EnterLanguage, Select, Listed
<1>2. CASE Arrival /\ ~ArriveLanguage
  BY <1>2, ArrivesThere DEF Arrival
<1>3. CASE LanguageSteps
  BY <1>3 DEF LanguageSteps, SelectLanguage, Select, UpdateChecked, LanguageNext, TryClicked, Leave,
             Ends, shellVars, Page
<1>4. CASE ~Arrival /\ ~LanguageSteps
  <2>1. lang' = lang
    BY <1>4 DEF Next, KeyboardSteps, WirelessSteps, PrepareSteps, TimezoneSteps, UserSteps,
               PartmanSteps, OtherSteps, Signal, Told, LanguageOnline, Probing, Probed, Reported,
               Done, vars, languageVars
  <2>2. \E q : q # "language" /\ KeepsTo(q)
    BY <1>4, PagesKeepToThemselves DEF Next
  <2> QED BY <2>1, <2>2, WaitedBefore
<1> QED BY <1>1, <1>2, <1>3, <1>4

LEMMA ZoneGateKept == ASSUME ZoneGate, [Next]_vars PROVE ZoneGate'
<1> USE DEF ZoneGate, ZoneReady
<1>1. CASE ArriveTimezone
  BY <1>1 DEF ArriveTimezone, EnterTimezone, SelectCity
<1>2. CASE Arrival /\ ~ArriveTimezone
  BY <1>2, ArrivesThere DEF Arrival
<1>3. CASE TimezoneSteps
  BY <1>3 DEF TimezoneSteps, PickOnMap, SelectCity, TypePlace, Changed, GeonameTimeout,
             GeonameAnswer, TimezoneNext, TimezoneBack, Leave, shellVars, Page
<1>4. CASE ~Arrival /\ ~TimezoneSteps
  <2>1. UNCHANGED <<zone, picked>>
    BY <1>4 DEF Next, LanguageSteps, KeyboardSteps, WirelessSteps, PrepareSteps, UserSteps,
               PartmanSteps, OtherSteps, Signal, Probing, Probed, Reported, Done, vars, zoneVars
  <2>2. \E q : q # "timezone" /\ KeepsTo(q)
    BY <1>4, PagesKeepToThemselves DEF Next
  <2> QED BY <2>1, <2>2, WaitedBefore
<1> QED BY <1>1, <1>2, <1>3, <1>4

-----------------------------------------------------------------------------
(* The page on what else to install: the password can only matter on a       *)
(* machine with Secure Boot, which is why it may be left unlooked at on the  *)
(* others when nothing else changed.                                         *)
PrepareGate ==
  /\ view \in {"prepare", "nospace", "rst"}
  /\ grid => machine.secureboot
  /\ Page = "prepare" /\ ~busy /\ forward => PrepareReady

LEMMA PrepareGateKept == ASSUME PrepareGate, [Next]_vars PROVE PrepareGate'
<1> USE DEF PrepareGate, PrepareReady
<1>1. CASE ArrivePrepare
  BY <1>1 DEF ArrivePrepare, EnterPrepare, MayContinue
<1>2. CASE Arrival /\ ~ArrivePrepare
  <2>1. UNCHANGED <<view, grid, machine>>
    BY <1>2 DEF Arrival, ArriveLanguage, ArriveKeyboard, ArriveTimezone, ArriveUser, ArrivePartman,
               ArriveElse, prepareVars
  <2> QED BY <1>2, <2>1, ArrivesThere DEF Arrival
<1>3. CASE PrepareSteps
  <2>1. CASE ToggleNonfree \/ ToggleSecureBoot \/ TypeKey
    BY <2>1 DEF ToggleNonfree, ToggleSecureBoot, TypeKey, Change, AllowForward
  <2>2. CASE ToggleDownloads \/ DiskPlugged
    BY <2>2 DEF ToggleDownloads, DiskPlugged, shellVars, Page
  <2>3. CASE PrepareNext \/ PrepareBack
    BY <2>3 DEF PrepareNext, PrepareBack, Leave, Ends, prepareVars
  <2> QED BY <1>3, <2>1, <2>2, <2>3 DEF PrepareSteps, PrepareStep
<1>4. CASE ~Arrival /\ ~PrepareSteps
  <2>1. UNCHANGED <<view, grid, machine, space, nonfree, key>>
    BY <1>4 DEF Next, LanguageSteps, KeyboardSteps, WirelessSteps, TimezoneSteps, UserSteps,
               PartmanSteps, OtherSteps, Signal, Told, PrepareOnline, Probing, Probed, Reported,
               Done, vars, prepareVars
  <2>2. \E q : q # "prepare" /\ KeepsTo(q)
    BY <1>4, PagesKeepToThemselves DEF Next
  <2> QED BY <2>1, <2>2, WaitedBefore
<1> QED BY <1>1, <1>2, <1>3, <1>4

-----------------------------------------------------------------------------
(* The names.  On the tab of the domain they cannot be typed, and from there *)
(* Next is enabled again without a look at them: they have to stay complete, *)
(* also while the page is entered once more and fills in what is empty.  It  *)
(* would spoil a user name if it took one that was typed for one that is     *)
(* made of the full name.                                                    *)
Blank == ""
Follows(f) == UserFixed(f) \/ f.user = Blank \/ f.user = UserOf[f.full]
UserInv ==
  /\ IsForm(form) /\ Follows(form)
  /\ tab \in {0, 1}
  /\ tab = 1 => Complete(form)
  /\ Page = "usersetup" /\ ~busy /\ forward => UserReady

LEMMA CheckedForm ==
  ASSUME NEW f, IsForm(f)
  PROVE  /\ IsForm(Checked(f))
         /\ Follows(f) => Follows(Checked(f))
         /\ Complete(Checked(f)) <=> Complete(f)
<1>1. LET u == Checked(f) IN
      /\ IsForm(u) /\ u.full = f.full /\ u.user = f.user /\ u.host = f.host
      /\ u.password = f.password
      /\ UserFixed(u) <=> UserFixed(f)
  BY DEF Checked, IsForm, Entries, UserFixed
<1> QED BY <1>1 DEF Follows, Complete

LEMMA UserTypedFollows ==
  ASSUME NEW f, IsForm(f), Follows(f), NEW v
  PROVE  Follows(UserByHand(f, v))
<1>1. CASE f.user = v
  BY <1>1 DEF UserByHand, SetUser
<1>2. CASE f.user # v
  <2>1. PICK h : h = Named(f, v)
    OBVIOUS
  <2>2. PICK e \in BOOLEAN : e = (v # Blank)
    OBVIOUS
  <2>3. UserByHand(f, v) = Noted(h, e)
    BY <1>2, <2>1, <2>2 DEF UserByHand, SetUser, Named, HostOnly, HostFixed, Noted, Blank
  <2>4. IsForm(h) /\ h.user = v
    BY <2>1, NamedForm
  <2>5. Noted(h, e).user = v /\ Noted(h, e).userEdited = e
    BY <2>4, NotedForm
  <2> QED BY <2>2, <2>3, <2>5 DEF Follows, UserFixed
<1> QED BY <1>1, <1>2

LEMMA FullFollows ==
  ASSUME NEW f, IsForm(f), Follows(f), NEW v
  PROVE  IsForm(SetFull(f, v)) /\ Follows(SetFull(f, v))
BY SetFullFacts DEF Follows

LEMMA HostTypedFollows ==
  ASSUME NEW f, IsForm(f), Follows(f), NEW v
  PROVE  IsForm(HostByHand(f, v)) /\ Follows(HostByHand(f, v))
BY HostTyped DEF Follows

LEMMA PreparedFollows ==
  ASSUME IsForm(form), Follows(form)
  PROVE  IsForm(Prepared) /\ Follows(Prepared)
<1>1. PICK f : f = WithHost(form)
  OBVIOUS
<1>2. PICK g : g = WithFull(f)
  OBVIOUS
<1>3. IsForm(f) /\ Follows(f)
  <2>1. f = form \/ f = HostByHand(form, db.host)
    BY <1>1 DEF WithHost, HostByHand
  <2> QED BY <2>1, HostTypedFollows
<1>4. IsForm(g) /\ Follows(g)
  <2>1. g = f \/ g = SetFull(f, db.full)
    BY <1>2 DEF WithFull
  <2> QED BY <1>3, <2>1, FullFollows
<1>5. Prepared = g \/ Prepared = UserByHand(g, db.user)
  BY <1>1, <1>2 DEF Prepared, WithUser, UserByHand
<1> QED BY <1>4, <1>5, UserTyped, UserTypedFollows

LEMMA PreparedComplete ==
  ASSUME IsForm(form), Follows(form), Complete(form)
  PROVE  Complete(Prepared)
<1>1. form.host # "" /\ form.user # ""
  BY NamesAssumption DEF Complete
<1>2. WithHost(form) = form
  BY <1>1 DEF WithHost
<1>3. PICK g : g = WithFull(form)
  OBVIOUS
<1>4. Complete(g)
  <2>1. CASE g = form
    BY <2>1
  <2>2. CASE form.full = "" /\ g = SetFull(form, db.full)
    <3>1. form.user # UserOf[form.full]
      BY <1>1, <2>2, NamesAssumption
    <3>2. UserFixed(form)
      BY <1>1, <3>1 DEF Follows, Blank
    <3>3. PICK h : h = [form EXCEPT !.full = db.full]
      OBVIOUS
    <3>4. IsForm(h) /\ h.user = form.user /\ h.host = form.host /\ h.password = form.password
          /\ UserFixed(h)
      BY <3>2, <3>3 DEF IsForm, Entries, UserFixed
    <3>5. g = Checked(h)
      BY <2>2, <3>2, <3>3 DEF SetFull, UserFixed
    <3> QED BY <3>4, <3>5, CheckedForm DEF Complete
  <2>3. g = form \/ (form.full = "" /\ g = SetFull(form, db.full))
    BY <1>3 DEF WithFull
  <2> QED BY <2>1, <2>2, <2>3
<1>5. g.user # ""
  BY <1>4, NamesAssumption DEF Complete
<1>6. Prepared = g
  BY <1>2, <1>3, <1>5 DEF Prepared, WithUser
<1> QED BY <1>4, <1>6

LEMMA UserStepsKeepUser == ASSUME UserInv, UserStep PROVE UserInv'
<1>1. /\ IsForm(form) /\ Follows(form) /\ tab \in {0, 1} /\ (tab = 1 => Complete(form))
      /\ Page = "usersetup" /\ ~busy /\ forward /\ tab = 0 => Complete(form)
  BY DEF UserInv, UserReady
<1>2. CASE TypeFull \/ TypeUser \/ TypeHost \/ TypePassword
  <2>1. tab' = 0 /\ (forward' => Complete(form'))
    BY <1>2 DEF TypeFull, TypeUser, TypeHost, TypePassword, Edit, AllowForward
  <2>2. IsForm(form') /\ Follows(form')
    <3>1. CASE TypeFull
      <4>1. PICK v : form' = SetFull(form, v)
        BY <3>1 DEF TypeFull, Edit
      <4> QED BY <1>1, <4>1, FullFollows
    <3>2. CASE TypeUser
      <4>1. PICK v : form' = UserByHand(form, v)
        BY <3>2 DEF TypeUser, Edit, UserByHand
      <4> QED BY <1>1, <4>1, UserTyped, UserTypedFollows
    <3>3. CASE TypeHost
      <4>1. PICK v : form' = HostByHand(form, v)
        BY <3>3 DEF TypeHost, Edit, HostByHand
      <4> QED BY <1>1, <4>1, HostTypedFollows
    <3>4. CASE TypePassword
      <4>1. PICK p : form' = [form EXCEPT !.password = p]
        BY <3>4 DEF TypePassword, Edit
      <4>2. IsForm(form') /\ form'.full = form.full /\ form'.user = form.user
            /\ (UserFixed(form') <=> UserFixed(form))
        BY <1>1, <4>1 DEF IsForm, Entries, UserFixed
      <4> QED BY <1>1, <4>2 DEF Follows
    <3> QED BY <1>2, <3>1, <3>2, <3>3, <3>4
  <2> QED BY <2>1, <2>2 DEF UserInv, UserReady
<1>3. CASE LookupResult \/ UserNext
  <2>1. form' = form \/ \E n : form' = [form EXCEPT !.note = n]
    BY <1>3 DEF LookupResult, UserNext, Checked
  <2>2. /\ IsForm(form') /\ form'.full = form.full /\ form'.user = form.user
        /\ form'.host = form.host /\ form'.password = form.password
        /\ UserFixed(form') <=> UserFixed(form)
    BY <1>1, <2>1 DEF IsForm, Entries, UserFixed
  <2>3. IsForm(form') /\ Follows(form') /\ (Complete(form') <=> Complete(form))
    BY <1>1, <2>2 DEF Follows, Complete
  <2>4. \/ tab' = tab /\ UNCHANGED shellVars
        \/ tab' = tab /\ busy'
        \/ tab' = 1 /\ Page = "usersetup" /\ ~busy /\ forward /\ tab = 0
    BY <1>3 DEF LookupResult, UserNext, SwitchTab, NextClicked, Waiting, Leave
  <2> QED BY <1>1, <2>3, <2>4 DEF UserInv, UserReady, shellVars, Page
<1>4. CASE HostTimeout \/ ToggleLogin \/ TypeDomain \/ UserBack
  <2>1. form' = form
    BY <1>4 DEF HostTimeout, ToggleLogin, TypeDomain, UserBack
  <2>2. \/ tab' = tab /\ UNCHANGED shellVars
        \/ tab' = tab /\ busy'
        \/ tab' = tab /\ tab = 1
        \/ tab' = 0 /\ tab = 1
    BY <1>4 DEF HostTimeout, ToggleLogin, TypeDomain, UserBack, SwitchTab, Leave
  <2> QED BY <1>1, <2>1, <2>2 DEF UserInv, UserReady, shellVars, Page
<1> QED BY <1>2, <1>3, <1>4 DEF UserStep

LEMMA UserInvNext == ASSUME UserInv, [Next]_vars PROVE UserInv'
<1>1. CASE ArriveUser
  <2>1. form' = Checked(Prepared) /\ tab' = tab /\ (forward' => Complete(Prepared))
    BY <1>1 DEF ArriveUser, EnterUser
  <2>2. IsForm(Prepared) /\ Follows(Prepared) /\ (Complete(form) => Complete(Prepared))
    BY PreparedFollows, PreparedComplete DEF UserInv
  <2>3. IsForm(form') /\ Follows(form') /\ (Complete(Prepared) => Complete(form'))
    BY <2>1, <2>2, CheckedForm
  <2> QED BY <2>1, <2>2, <2>3 DEF UserInv, UserReady
<1>2. CASE Arrival /\ ~ArriveUser
  <2>1. UNCHANGED <<form, tab>>
    BY <1>2 DEF Arrival, ArriveLanguage, ArriveKeyboard, ArrivePrepare, ArriveTimezone,
               ArrivePartman, ArriveElse, userVars
  <2>2. Page' # "usersetup"
    BY <1>2, ArrivesThere DEF Arrival
  <2> QED BY <2>1, <2>2 DEF UserInv
<1>3. CASE UserSteps
  BY <1>3, UserStepsKeepUser DEF UserSteps
<1>4. CASE ~Arrival /\ ~UserSteps
  <2>1. UNCHANGED <<form, tab>>
    BY <1>4 DEF Next, LanguageSteps, KeyboardSteps, WirelessSteps, PrepareSteps, TimezoneSteps,
               PartmanSteps, OtherSteps, Signal, Probing, Probed, Reported, UserConnectivity, Done,
               vars, userVars
  <2>2. \E q : q # "usersetup" /\ KeepsTo(q)
    BY <1>4, PagesKeepToThemselves DEF Next
  <2>3. Page' = "usersetup" /\ ~busy' /\ forward' => Page = "usersetup" /\ ~busy /\ forward
    BY <2>2, WaitedBefore
  <2> QED BY <2>1, <2>3 DEF UserInv, UserReady
<1> QED BY <1>1, <1>2, <1>3, <1>4

-----------------------------------------------------------------------------
(* The page for the partitions.  What the answer asks for is there, because  *)
(* the way to install can be offered, the list of disks is filled when the   *)
(* answer turns to them, and it is kept until the page is turned back.       *)
AllDisks == option = "use_device" /\ drives = 1 .. found.disks /\ drive \in drives
AllShrinkable == option = "resize" /\ drives = found.shrink /\ drive \in drives
PartInv ==
  /\ found \in Layouts \cup {Nothing}
  /\ option \in Options(found)
  /\ partPage = "crypto" => AllDisks
  /\ partPage = "auto" => option = "manual" \/ AllDisks \/ AllShrinkable
  /\ Page = "partman" /\ ~busy /\ forward /\ partPage = "crypto" => KeysComplete(password, recovery)

LEMMA PartInvReady ==
  ASSUME PartInv, Page = "partman", ~busy, forward
  PROVE  PartmanReady
BY DEF PartInv, PartmanReady, AllDisks, AllShrinkable

LEMMA LeastOf ==
  ASSUME NEW S \in SUBSET Nat, S # {}
  PROVE  (CHOOSE d \in S : \A e \in S : d <= e) \in S
<1>1. IsWellFoundedOn(OpToRel(<, Nat), Nat)
  BY NatLessThanWellFounded
<1>2. PICK x \in S : \A y \in S : ~(<<y, x>> \in OpToRel(<, Nat))
  BY <1>1, WFMin, Zenon
<1>3. \A y \in S : ~(y < x)
  BY <1>2 DEF OpToRel
<1>4. \A y \in S : x <= y
  BY <1>3
<1>5. \E d \in S : \A e \in S : d <= e
  BY <1>4
<1> QED BY <1>5, Zenon

(* What can be offered. *)
LEMMA Offered ==
  ASSUME NEW l \in Layouts \cup {Nothing}
  PROVE  /\ "manual" \in Options(l)
         /\ l.disks \in Nat /\ l.shrink \subseteq Nat
         /\ "use_device" \in Options(l) => l.disks > 0
         /\ "resize" \in Options(l) /\ "bitlocker" \notin l.extra /\ ~InstallsAtOnce(l, "resize")
              => l.shrink # {}
<1>1. /\ l.disks \in Nat /\ l.shrink \subseteq Nat
      /\ "use_device" \in l.extra => l.disks > 0
      /\ "resize" \in l.extra => l.shrink # {}
  BY LayoutsAssumption DEF Nothing
<1>2. "manual" \in Options(l)
  BY DEF Options
<1>3. "use_device" \in Options(l) => "use_device" \in l.extra
  BY DEF Options, Extra
<1>4. "resize" \in Options(l) =>
        "resize" \in Extra(l) \/ "biggest_free" \in Extra(l) \/ "bitlocker" \in Extra(l)
  BY DEF Options
<1>5. Extra(l) \subseteq l.extra
  BY DEF Extra
<1>6. "biggest_free" \in Extra(l) => InstallsAtOnce(l, "resize")
  BY DEF InstallsAtOnce
<1> QED BY <1>1, <1>2, <1>3, <1>4, <1>5, <1>6

LEMMA FirstOffered ==
  ASSUME NEW l \in Layouts \cup {Nothing}, NEW b
  PROVE  First(l, b) \in Options(l)
<1> DEFINE order == <<"resize", "reuse", "replace", "use_device", "manual">>
           can == {i \in DOMAIN order : order[i] \in Options(l) /\ (order[i] = "reuse" => b)}
           least == CHOOSE i \in can : \A j \in can : i <= j
<1>1. 5 \in can
  BY Offered
<1>2. can \in SUBSET Nat
  OBVIOUS
<1>3. \A i \in can : order[i] \in Options(l)
  OBVIOUS
<1>4. First(l, b) = order[least]
  BY DEF First
<1> HIDE DEF can, order
<1>5. least \in can
  BY <1>1, <1>2, LeastOf
<1> QED BY <1>3, <1>4, <1>5

(* The list of disks is filled on the first page, and then kept. *)
LEMMA ListFilled ==
  ASSUME PartInv, NEW more, ListDrives(more)
  PROVE  /\ partPage = "ask" /\ option = "use_device" /\ more = {} =>
              drives' = 1 .. found.disks /\ drive' \in drives'
         /\ partPage = "ask" /\ option # "use_device" /\ more # {} /\ more \subseteq Nat =>
              drives' = more /\ drive' \in drives'
         /\ partPage # "ask" /\ more = {} /\ drive \in drives =>
              drives' = drives /\ drive' = drive
<1>1. CASE partPage = "ask"
  <2>1. drives' = (IF option = "use_device" THEN 1 .. found.disks ELSE {}) \cup more
    BY <1>1 DEF ListDrives
  <2>2. drives' # {} => drive' = CHOOSE d \in drives' : \A e \in drives' : d <= e
    BY <1>1 DEF ListDrives
  <2>3. drives' \in SUBSET Nat /\ drives' # {} => drive' \in drives'
    BY <2>2, LeastOf
  <2>4. found \in Layouts \cup {Nothing} /\ option \in Options(found)
    BY DEF PartInv
  <2>5. found.disks \in Nat /\ (option = "use_device" => found.disks > 0)
    BY <2>4, Offered
  <2>6. CASE option = "use_device" /\ more = {}
    <3>1. drives' = 1 .. found.disks
      BY <2>1, <2>6
    <3>2. drives' \in SUBSET Nat /\ 1 \in drives'
      BY <2>5, <2>6, <3>1
    <3> QED BY <1>1, <2>3, <2>6, <3>1, <3>2
  <2>7. CASE option # "use_device" /\ more # {} /\ more \subseteq Nat
    BY <1>1, <2>1, <2>3, <2>7
  <2> QED BY <1>1, <2>6, <2>7
<1>2. CASE partPage # "ask"
  BY <1>2 DEF ListDrives
<1> QED BY <1>1, <1>2

LEMMA AskKeepsPart ==
  ASSUME NEW l \in Layouts \cup {Nothing}, NEW b, AskAutomatic(l, b)
  PROVE  PartInv'
<1>1. found' = l /\ partPage' = "ask" /\ option' = First(l, b)
  BY DEF AskAutomatic
<1> QED BY <1>1, FirstOffered DEF PartInv

LEMMA ManualKeepsPart ==
  ASSUME AskManual, found' \in Layouts \cup {Nothing}
  PROVE  PartInv'
<1>1. partPage' = "advanced" /\ option' = "manual"
  BY DEF AskManual
<1> QED BY <1>1, Offered DEF PartInv

LEMMA NextKeepsPart == ASSUME PartInv, PartmanNext PROVE PartInv'
<1>1. CASE Restart
  BY <1>1 DEF Restart, Ends, PartInv, AllDisks, AllShrinkable, partmanVars, driveVars
<1>2. CASE ShowBitlocker
  BY <1>2 DEF ShowBitlocker, Turn, PartInv
<1>3. CASE ShowCrypto
  <2>1. /\ partPage = "ask" /\ option = "use_device" /\ ListDrives({})
        /\ found' = found /\ option' = option /\ partPage' = "crypto" /\ ~forward'
    BY <1>3 DEF ShowCrypto, NeedsKeys, Turn
  <2>2. drives' = 1 .. found.disks /\ drive' \in drives'
    BY <2>1, ListFilled
  <2> QED BY <2>1, <2>2 DEF PartInv, AllDisks
<1>4. CASE ShowAuto
  <2>1. /\ partPage \in {"ask", "crypto"} /\ ~Barred /\ option \in {"resize", "use_device"}
        /\ ~InstallsAtOnce(found, option)
        /\ ListDrives(IF option = "resize" THEN found.shrink ELSE {})
        /\ found' = found /\ option' = option /\ partPage' = "auto"
    BY <1>4 DEF ShowAuto, Turn
  <2>2. CASE option = "resize"
    <3>1. partPage = "ask"
      BY <2>1, <2>2 DEF PartInv, AllDisks
    <3>2. found.shrink # {} /\ found.shrink \subseteq Nat
      BY <2>1, <2>2, Offered DEF PartInv, Barred
    <3>3. drives' = found.shrink /\ drive' \in drives'
      BY <2>1, <2>2, <3>1, <3>2, ListFilled
    <3> QED BY <2>1, <2>2, <3>3 DEF PartInv, AllShrinkable
  <2>3. CASE option = "use_device"
    <3>1. ListDrives({})
      BY <2>1, <2>3
    <3>2. drives' = 1 .. found.disks /\ drive' \in drives'
      BY <2>1, <2>3, <3>1, ListFilled DEF PartInv, AllDisks
    <3> QED BY <2>1, <2>3, <3>2 DEF PartInv, AllDisks
  <2> QED BY <2>1, <2>2, <2>3
<1>5. CASE ToManual
  BY <1>5 DEF ToManual, PartInv
<1>6. CASE Install \/ NotWritten
  <2>1. /\ partPage \in {"ask", "crypto", "auto"} /\ ListDrives({})
        /\ partPage = "auto" => option # "manual"
        /\ found' = found /\ option' = option /\ partPage' = partPage
        /\ busy' \/ UNCHANGED <<at, tour, busy, forward, password, recovery>>
    BY <1>6 DEF Install, NotWritten, Chosen, shellVars
  <2>2. partPage \in {"crypto", "auto"} => drives' = drives /\ drive' = drive
    BY <2>1, ListFilled DEF PartInv, AllDisks, AllShrinkable
  <2>3. UNCHANGED <<at, tour>> => Page' = Page
    BY DEF Page
  <2> QED BY <2>1, <2>2, <2>3 DEF PartInv, AllDisks, AllShrinkable
<1> QED BY <1>1, <1>2, <1>3, <1>4, <1>5, <1>6 DEF PartmanNext

LEMMA StepKeepsPart == ASSUME PartInv, PartmanStep PROVE PartInv'
<1>1. CASE PartmanNext
  BY <1>1, NextKeepsPart
<1>2. CASE PartmanBack
  BY <1>2 DEF PartmanBack, Turn, Leave, PartInv, AllDisks, AllShrinkable, driveVars
<1>3. CASE TypeKeys
  BY <1>3 DEF TypeKeys, AllowForward, PartInv, AllDisks, AllShrinkable, driveVars
<1>4. CASE Tick \/ PartitionDialog
  BY <1>4 DEF Tick, PartitionDialog, PartInv
<1>5. CASE ChooseFeatures \/ SelectDrive
  <2>1. /\ UNCHANGED <<found, option, partPage, drives, tour, at, busy, forward, password, recovery>>
        /\ drive' = drive \/ drive' \in drives
    BY <1>5 DEF ChooseFeatures, SelectDrive, shellVars, driveVars
  <2>2. Page' = Page
    BY <2>1 DEF Page
  <2> QED BY <2>1, <2>2 DEF PartInv, AllDisks, AllShrinkable
<1>6. CASE HiddenLink
  <2>1. partPage' = "auto" /\ option' = "manual" /\ found' = found
    BY <1>6 DEF HiddenLink
  <2> QED BY <2>1, Offered DEF PartInv
<1> QED BY <1>1, <1>2, <1>3, <1>4, <1>5, <1>6 DEF PartmanStep

LEMMA PartInvNext == ASSUME PartInv, [Next]_vars PROVE PartInv'
<1>1. CASE ArrivePartman
  BY <1>1, AskKeepsPart, ManualKeepsPart DEF ArrivePartman, EnterPartman
<1>2. CASE Arrival /\ ~ArrivePartman
  <2>1. UNCHANGED partmanVars
    BY <1>2 DEF Arrival, ArriveLanguage, ArriveKeyboard, ArrivePrepare, ArriveTimezone, ArriveUser,
               ArriveElse
  <2>2. Page' # "partman"
    BY <1>2, ArrivesThere DEF Arrival
  <2> QED BY <2>1, <2>2 DEF PartInv, AllDisks, AllShrinkable, partmanVars, driveVars
<1>3. CASE PartmanSteps
  <2>1. CASE PartmanAsks(online)
    <3>1. found \in Layouts \cup {Nothing}
      BY DEF PartInv
    <3>2. AskAutomatic(found, online) \/ (AskManual /\ found' = found)
      BY <2>1 DEF PartmanAsks
    <3> QED BY <3>1, <3>2, AskKeepsPart, ManualKeepsPart
  <2> QED BY <1>3, <2>1, StepKeepsPart DEF PartmanSteps
<1>4. CASE ~Arrival /\ ~PartmanSteps
  <2>1. UNCHANGED partmanVars
    BY <1>4 DEF Next, LanguageSteps, KeyboardSteps, WirelessSteps, PrepareSteps, TimezoneSteps,
               UserSteps, OtherSteps, Signal, Probing, Probed, Reported, Done, vars
  <2>2. \E q : q # "partman" /\ KeepsTo(q)
    BY <1>4, PagesKeepToThemselves DEF Next
  <2>3. Page' = "partman" /\ ~busy' /\ forward' => Page = "partman" /\ ~busy /\ forward
    BY <2>2, WaitedBefore
  <2> QED BY <2>1, <2>3 DEF PartInv, AllDisks, AllShrinkable, partmanVars, driveVars
<1> QED BY <1>1, <1>2, <1>3, <1>4

-----------------------------------------------------------------------------
(* All five together. *)
ReadyInv == LanguageGate /\ ZoneGate /\ PrepareGate /\ UserInv /\ PartInv

LEMMA ReadyInit == ASSUME Init PROVE ReadyInv
<1>1. busy
  BY DEF Init, ShellInit
<1>2. PrepareGate
  BY <1>1 DEF Init, PrepareInit, PrepareGate
<1>3. UserInv
  <2>1. IsForm(form)
    BY NamesInit DEF NamesInv
  <2>2. form.user = Blank /\ tab = 0
    BY DEF Init, UserInit, Blank
  <2> QED BY <1>1, <2>1, <2>2 DEF UserInv, Follows
<1>4. PartInv
  <2>1. found \in Layouts /\ option = "manual" /\ partPage = "ask"
    BY DEF Init, PartmanInit
  <2> QED BY <2>1, Offered DEF PartInv
<1> QED BY <1>1, <1>2, <1>3, <1>4 DEF ReadyInv, LanguageGate, ZoneGate

(* Whoever can click Next on a page has given what the page needs, on every *)
(* tour, for every machine, disk, language and name (allow_go_forward and   *)
(* the handlers of the pages that call it).                                 *)
THEOREM NextNeedsAnswers == Spec => []NextOnlyWhenReady
<1>1. ReadyInv /\ [Next]_vars => ReadyInv'
  BY LanguageGateKept, ZoneGateKept, PrepareGateKept, UserInvNext, PartInvNext DEF ReadyInv
<1>2. ReadyInv => NextOnlyWhenReady
  BY PartInvReady DEF ReadyInv, NextOnlyWhenReady, LanguageGate, ZoneGate, PrepareGate, UserInv
<1> QED BY <1>1, <1>2, ReadyInit, PTL DEF Spec

-----------------------------------------------------------------------------
(* The button.  Its label is set when a page is shown and when the one for   *)
(* the partitions turns; as long as wireless is not in use nothing else      *)
(* rewords it.                                                               *)
LabelKept == ~use' => ~use /\ nextLabel' = nextLabel

LEMMA LabelKeptElsewhere ==
  ASSUME [Next]_vars, ~Arrival, ~PartmanSteps, Page # "wireless"
  PROVE  LabelKept
<1> USE DEF LabelKept
<1>1. CASE WirelessSteps
  BY <1>1 DEF WirelessSteps, WirelessStep, SelectRow, UseWireless, NoWireless, WirelessNext,
             ConnectCallback, WirelessBack, AirChanges, BuildCache, NextClicked, BackClicked, Waiting,
             shellVars
<1>2. CASE Signal
  BY <1>2 DEF Signal, StateChanged, shellVars
<1>3. CASE UNCHANGED vars
  BY <1>3 DEF vars, shellVars, wirelessVars
<1>4. CASE Probing \/ Probed \/ Reported \/ Done
  BY <1>4 DEF Probing, Probed, Reported, Done, vars, shellVars, wirelessVars
<1>5. CASE LanguageSteps \/ KeyboardSteps \/ PrepareSteps \/ OtherSteps
  <2>1. CASE LanguageSteps
    BY <2>1 DEF LanguageSteps, SelectLanguage, UpdateChecked, LanguageNext, TryClicked, Leave, Ends,
               AllowForward, shellVars, wirelessVars
  <2>2. CASE KeyboardSteps
    <3>1. UNCHANGED nextLabel
      BY <2>2 DEF KeyboardSteps, KeyboardStep, AskAgain, SelectLayout, SelectVariant, LayoutTimeout,
                 VariantTimeout, DetectKeyboard, KeyboardNext, KeyboardBack, KeyboardDone, Leave, Ends,
                 AllowForward, shellVars
    <3> QED BY <2>2, <3>1 DEF KeyboardSteps, wirelessVars
  <2>3. CASE PrepareSteps
    BY <2>3 DEF PrepareSteps, PrepareStep, ToggleNonfree, ToggleSecureBoot, TypeKey, Change,
               ToggleDownloads, DiskPlugged, PrepareNext, PrepareBack, Leave, Ends, AllowForward,
               shellVars, wirelessVars
  <2>4. CASE OtherSteps
    BY <2>4 DEF OtherSteps, Leave, wirelessVars
  <2> QED BY <1>5, <2>1, <2>2, <2>3, <2>4
<1>6. CASE TimezoneSteps \/ UserSteps
  <2>1. CASE TimezoneSteps
    BY <2>1 DEF TimezoneSteps, PickOnMap, TypePlace, Changed, GeonameTimeout, GeonameAnswer,
               TimezoneNext, TimezoneBack, Leave, AllowForward, shellVars, wirelessVars
  <2>2. CASE UserSteps
    BY <2>2 DEF UserSteps, UserStep, TypeFull, TypeUser, TypeHost, TypePassword, Edit, HostTimeout,
               LookupResult, ToggleLogin, TypeDomain, UserNext, UserBack, SwitchTab, Leave,
               AllowForward, shellVars, wirelessVars
  <2> QED BY <1>6, <2>1, <2>2
<1> QED BY <1>1, <1>2, <1>3, <1>4, <1>5, <1>6 DEF Next

SaysPrepare == Page = "prepare" /\ ~busy /\ ~use => PrepareSays
SaysPartman == Page = "partman" /\ ~busy /\ ~use => PartmanSays

LEMMA PartmanThere == ASSUME PartmanSteps PROVE Page = "partman"
BY DEF PartmanSteps, PartmanStep, Tick, ChooseFeatures, TypeKeys, PartitionDialog, SelectDrive,
       HiddenLink, PartmanNext, PartmanBack, PartmanAsks, NextClicked, BackClicked, Waiting

LEMMA SaysPrepareKept == ASSUME SaysPrepare, [Next]_vars PROVE SaysPrepare'
<1>1. CASE ArrivePrepare
  BY <1>1 DEF ArrivePrepare, Arrive, Show, SaysPrepare, PrepareSays
<1>2. CASE Arrival /\ ~ArrivePrepare
  BY <1>2, ArrivesThere DEF Arrival, SaysPrepare
<1>3. CASE PrepareSteps
  BY <1>3 DEF PrepareSteps, PrepareStep, ToggleNonfree, ToggleSecureBoot, TypeKey, Change,
             ToggleDownloads, DiskPlugged, PrepareNext, PrepareBack, Leave, Ends, AllowForward,
             shellVars, wirelessVars, prepareVars, Page, SaysPrepare, PrepareSays
<1>4. CASE ~Arrival /\ ~PrepareSteps
  <2> SUFFICES ASSUME Page' = "prepare", ~busy', ~use'
               PROVE  PrepareSays'
    BY DEF SaysPrepare
  <2>1. view' = view
    BY <1>4 DEF Next, LanguageSteps, KeyboardSteps, WirelessSteps, TimezoneSteps, UserSteps,
               PartmanSteps, OtherSteps, Signal, Told, PrepareOnline, Probing, Probed, Reported,
               Done, vars, prepareVars
  <2>2. PICK q : q # "prepare" /\ KeepsTo(q)
    BY <1>4, PagesKeepToThemselves DEF Next
  <2>3. Page = "prepare" /\ ~busy
    BY <2>2, WaitedBefore
  <2>4. ~PartmanSteps
    BY <2>3, PartmanThere
  <2>5. ~use /\ nextLabel' = nextLabel
    BY <1>4, <2>3, <2>4, LabelKeptElsewhere DEF LabelKept
  <2> QED BY <2>1, <2>3, <2>5 DEF SaysPrepare, PrepareSays
<1> QED BY <1>1, <1>2, <1>3, <1>4

LEMMA PartmanStepSays == ASSUME SaysPartman, PartmanStep, use' = use PROVE SaysPartman'
<1>1. CASE Tick
  BY <1>1 DEF Tick, AskLabel, SaysPartman, PartmanSays
<1>2. CASE ChooseFeatures \/ SelectDrive \/ TypeKeys \/ PartitionDialog
  <2>1. /\ Page = "partman" /\ ~busy
        /\ UNCHANGED <<found, option, partPage, nextLabel>>
    BY <1>2 DEF ChooseFeatures, SelectDrive, TypeKeys, PartitionDialog, Waiting, AllowForward,
               shellVars
  <2>2. PartmanSays => PartmanSays'
    BY <2>1 DEF PartmanSays
  <2> QED BY <2>1, <2>2 DEF SaysPartman
<1>3. CASE HiddenLink
  BY <1>3 DEF HiddenLink, AskLabel, SaysPartman, PartmanSays
<1>4. CASE PartmanNext
  <2>1. CASE Restart \/ ToManual \/ Install
    BY <2>1 DEF Restart, ToManual, Install, Ends, SaysPartman
  <2>2. CASE ShowBitlocker \/ ShowCrypto \/ ShowAuto
    BY <2>2 DEF ShowBitlocker, ShowCrypto, ShowAuto, Turn, SaysPartman, PartmanSays
  <2>3. CASE NotWritten
    <3>1. /\ Page = "partman" /\ ~busy
          /\ UNCHANGED <<found, option, partPage, nextLabel>>
      BY <1>4, <2>3 DEF PartmanNext, NotWritten, NextClicked, Waiting, shellVars
    <3>2. PartmanSays => PartmanSays'
      BY <3>1 DEF PartmanSays
    <3> QED BY <3>1, <3>2 DEF SaysPartman
  <2> QED BY <1>4, <2>1, <2>2, <2>3 DEF PartmanNext
<1>5. CASE PartmanBack
  BY <1>5 DEF PartmanBack, Turn, Leave, SaysPartman, PartmanSays
<1> QED BY <1>1, <1>2, <1>3, <1>4, <1>5 DEF PartmanStep

LEMMA SaysPartmanKept == ASSUME SaysPartman, [Next]_vars PROVE SaysPartman'
<1>1. CASE ArrivePartman \/ (PartmanSteps /\ PartmanAsks(online))
  <2>1. nextLabel' = PartLabel'
    BY <1>1 DEF ArrivePartman, Arrive, Show, PartmanAsks
  <2>2. partPage' = "ask" \/ (partPage' = "advanced" /\ option' = "manual")
    BY <1>1 DEF ArrivePartman, EnterPartman, PartmanAsks, AskAutomatic, AskManual
  <2> QED BY <2>1, <2>2 DEF PartLabel, AskLabel, SaysPartman, PartmanSays
<1>2. CASE PartmanSteps /\ PartmanStep
  BY <1>2, PartmanStepSays DEF PartmanSteps, wirelessVars
<1>3. CASE Arrival /\ ~ArrivePartman
  BY <1>3, ArrivesThere DEF Arrival, SaysPartman
<1>4. CASE ~Arrival /\ ~PartmanSteps
  <2> SUFFICES ASSUME Page' = "partman", ~busy', ~use'
               PROVE  PartmanSays'
    BY DEF SaysPartman
  <2>1. UNCHANGED <<found, option, partPage>>
    BY <1>4 DEF Next, LanguageSteps, KeyboardSteps, WirelessSteps, PrepareSteps, TimezoneSteps,
               UserSteps, OtherSteps, Signal, Probing, Probed, Reported, Done, vars, partmanVars
  <2>2. PICK q : q # "partman" /\ KeepsTo(q)
    BY <1>4, PagesKeepToThemselves DEF Next
  <2>3. Page = "partman" /\ ~busy
    BY <2>2, WaitedBefore
  <2>4. ~use /\ nextLabel' = nextLabel
    BY <1>4, <2>3, LabelKeptElsewhere DEF LabelKept
  <2>5. PartmanSays
    BY <2>3, <2>4 DEF SaysPartman
  <2> QED BY <2>1, <2>4, <2>5 DEF PartmanSays
<1> QED BY <1>1, <1>2, <1>3, <1>4 DEF PartmanSteps

(* Where Next installs or restarts, the button says so, unless wireless is *)
(* in use (set_page, toggle_next_button, part_ask_option_changed).         *)
THEOREM ButtonSaysWhatItDoes == Spec => []NextSaysWhatItDoes
<1>1. Init => SaysPrepare /\ SaysPartman
  BY DEF Init, ShellInit, SaysPrepare, SaysPartman
<1>2. SaysPrepare /\ SaysPartman /\ [Next]_vars => (SaysPrepare /\ SaysPartman)'
  BY SaysPrepareKept, SaysPartmanKept
<1>3. SaysPrepare /\ SaysPartman => NextSaysWhatItDoes
  BY DEF SaysPrepare, SaysPartman, NextSaysWhatItDoes
<1> QED BY <1>1, <1>2, <1>3, PTL DEF Spec
=============================================================================
