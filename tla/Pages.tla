-------------------------------- MODULE Pages --------------------------------
(***************************************************************************)
(* The pages of the GTK wizard together: they share its two buttons and    *)
(* the network's signals, which reach every page, shown or not.  A tour is *)
(* the walk through some of them in the order of PluginOrder; "other" in   *)
(* it stands for any number of pages that are not looked at in that tour.  *)
(***************************************************************************)
EXTENDS LanguagePage, KeyboardPage, WirelessPage, PreparePage, TimezonePage,
        UserSetup, PartmanPages, PluginOrder

CONSTANT Loadings    \* the plugins, in the orders they may be loaded in

VARIABLE under       \* the language stored when the country was (history)

vars == <<shellVars, networkVars, languageVars, keyboardVars, wirelessVars,
          prepareVars, zoneVars, userVars, partmanVars, under>>

InTour(p) == \E i \in DOMAIN tour : tour[i] = p

(* plugin_skip_page of the wireless page.                                  *)
Skipped(p) == p = "wireless" /\ online

(* The page run() comes to next: backwards from the first it stays.        *)
Target ==
  LET Shown(i) == i > Len(tour) \/ ~Skipped(tour[i]) IN
  IF way = 1 THEN CHOOSE i \in at + 1 .. Len(tour) + 1 :
                    Shown(i) /\ \A j \in at + 1 .. i - 1 : ~Shown(j)
  ELSE IF \E i \in 1 .. at - 1 : Shown(i)
  THEN CHOOSE i \in 1 .. at - 1 : Shown(i) /\ \A j \in i + 1 .. at - 1 : ~Shown(j)
  ELSE at

(* Once the filter of the page left has ended, a page is shown and its     *)
(* Page.prepare and run have done what they do.                            *)
Arrive(p, label) ==
  /\ question = "closed" /\ asking = "nothing"
  /\ Show(Target, label)
  /\ Page' = p

ArriveLanguage ==
  /\ Arrive("language", "next") /\ EnterLanguage
  /\ UNCHANGED <<keyboardVars, wirelessVars, prepareVars, zoneVars, userVars, partmanVars>>
ArriveKeyboard ==
  /\ Arrive("console_setup", "next") /\ EnterKeyboard
  /\ UNCHANGED <<languageVars, wirelessVars, prepareVars, zoneVars, userVars, partmanVars>>
ArrivePrepare ==
  /\ EnterPrepare /\ Arrive("prepare", IF view' = "rst" THEN "restart" ELSE "next")
  /\ UNCHANGED <<languageVars, keyboardVars, wirelessVars, zoneVars, userVars, partmanVars>>
ArriveTimezone ==
  /\ Arrive("timezone", "next") /\ EnterTimezone(online)
  /\ UNCHANGED <<languageVars, keyboardVars, wirelessVars, prepareVars, userVars, partmanVars>>
ArriveUser ==
  /\ Arrive("usersetup", "next") /\ EnterUser
  /\ UNCHANGED <<languageVars, keyboardVars, wirelessVars, prepareVars, zoneVars, partmanVars>>
ArrivePartman ==
  /\ EnterPartman(online) /\ Arrive("partman", PartLabel')
  /\ UNCHANGED <<languageVars, keyboardVars, wirelessVars, prepareVars, zoneVars, userVars>>
ArriveElse ==
  /\ \/ Arrive("wireless", "next") /\ UNCHANGED forward
     \/ Arrive("other", "next") /\ forward' = TRUE
     \/ Arrive("install", "next") /\ UNCHANGED forward
  /\ UNCHANGED <<languageVars, keyboardVars, wirelessVars, prepareVars, zoneVars, userVars, partmanVars>>

Arrival ==
  /\ \/ ArriveLanguage \/ ArriveKeyboard \/ ArrivePrepare
     \/ ArriveTimezone \/ ArriveUser \/ ArrivePartman \/ ArriveElse
  /\ UNCHANGED <<networkVars, under>>

(* What the user and the timers do on a page.  The country is forgotten    *)
(* with the language it was chosen under (ubi-language.py ok_handler).     *)
LanguageSteps ==
  /\ \/ (SelectLanguage \/ UpdateChecked) /\ UNCHANGED saved
     \/ /\ LanguageNext \/ TryClicked
        /\ saved' = IF CountryReset THEN [saved EXCEPT !.country = "unset"] ELSE saved
  /\ UNCHANGED <<completionVars, entry, due, zone, picked, geoip, under>>
  /\ UNCHANGED <<networkVars, keyboardVars, wirelessVars, prepareVars, userVars, partmanVars>>

KeyboardSteps ==
  /\ KeyboardStep
  /\ UNCHANGED <<networkVars, languageVars, wirelessVars, prepareVars, zoneVars, userVars, partmanVars, under>>

WirelessSteps ==
  /\ WirelessStep
  /\ UNCHANGED <<languageVars, keyboardVars, prepareVars, zoneVars, userVars, partmanVars, under>>

PrepareSteps ==
  /\ PrepareStep
  /\ UNCHANGED <<networkVars, languageVars, keyboardVars, wirelessVars, zoneVars, userVars, partmanVars, under>>

(* Places are looked up in the tour without the language page only.        *)
TimezoneSteps ==
  /\ \/ (PickOnMap \/ TimezoneBack) /\ UNCHANGED under
     \/ /\ ~InTour("language")
        /\ TypePlace \/ Changed \/ GeonameTimeout \/ GeonameAnswer
        /\ UNCHANGED under
     \/ TimezoneNext /\ under' = language
  /\ UNCHANGED <<networkVars, languageVars, keyboardVars, wirelessVars, prepareVars, userVars, partmanVars>>

UserSteps ==
  /\ UserStep
  /\ UNCHANGED <<networkVars, languageVars, keyboardVars, wirelessVars, prepareVars, zoneVars, partmanVars, under>>

PartmanSteps ==
  /\ PartmanStep \/ PartmanAsks(online)
  /\ UNCHANGED <<networkVars, languageVars, keyboardVars, wirelessVars, prepareVars, zoneVars, userVars, under>>

OtherSteps ==
  /\ \/ NextClicked("other") /\ Leave(1)
     \/ BackClicked("other") /\ Leave(-1)
  /\ UNCHANGED <<networkVars, languageVars, keyboardVars, wirelessVars, prepareVars,
                 zoneVars, userVars, partmanVars, under>>

(* set_online_state, for the pages of the tour.                            *)
Told(state) ==
  /\ IF InTour("language") THEN LanguageOnline(state) ELSE UNCHANGED languageVars
  /\ IF InTour("prepare") THEN PrepareOnline(state) ELSE UNCHANGED prepareVars

(* A signal of NetworkManager, handled by the wireless page, by the wizard *)
(* and by the page that asks for a domain.                                 *)
Signal ==
  /\ signals # <<>>
  /\ signals' = Tail(signals)
  /\ StateChanged(Head(signals))
  /\ NetworkChange(Head(signals))
  /\ IF Head(signals) = "global" THEN UNCHANGED <<languageVars, prepareVars>> ELSE Told(FALSE)
  /\ UNCHANGED <<link, keyboardVars, zoneVars, userVars, partmanVars, under>>

Probing ==
  /\ StartWget \/ LinkChanges
  /\ UNCHANGED <<shellVars, languageVars, keyboardVars, wirelessVars, prepareVars,
                 zoneVars, userVars, partmanVars, under>>

Probed ==
  /\ WgetEnds /\ Told(online')
  /\ UNCHANGED <<shellVars, keyboardVars, wirelessVars, zoneVars, userVars, partmanVars, under>>

(* In a tour without the wireless page the network comes and goes as it    *)
(* likes, where a page shows it.                                           *)
Reported ==
  /\ ~InTour("wireless")
  /\ \E p \in {"language", "prepare", "usersetup", "partman"} : InTour(p)
  /\ online' = ~online
  /\ Told(online')
  /\ IF InTour("usersetup") THEN UserConnectivity(online') ELSE UNCHANGED userVars
  /\ UNCHANGED <<link, signals, probe, wget>>
  /\ UNCHANGED <<shellVars, keyboardVars, wirelessVars, zoneVars, partmanVars, under>>

(* What debconf and the machine are like at first matters for the pages of *)
(* the tour only.                                                          *)
Init ==
  /\ ShellInit /\ NetworkInit
  /\ LanguageInit /\ KeyboardInit /\ WirelessInit /\ PrepareInit /\ TimezoneInit /\ UserInit
  /\ PartmanInit
  /\ under = "none"
  /\ InTour("language")  \/ language = CHOOSE l \in Languages : TRUE
  /\ InTour("prepare")   \/ (space /\ machine = CHOOSE m \in Machines : TRUE)
  /\ InTour("timezone")  \/ saved.zone = CHOOSE z \in FirstZones : TRUE
  /\ InTour("usersetup") \/ db = CHOOSE d \in Preseeds : TRUE
  /\ found = CHOOSE l \in Layouts : TRUE

Done == Page \in {"install", "gone"} /\ UNCHANGED vars

Next ==
  \/ Arrival
  \/ LanguageSteps \/ KeyboardSteps \/ WirelessSteps \/ PrepareSteps \/ TimezoneSteps
  \/ UserSteps \/ PartmanSteps \/ OtherSteps
  \/ Signal \/ Probing \/ Probed \/ Reported
  \/ Done

Spec == Init /\ [][Next]_vars

(***************************************************************************)
(* Properties                                                              *)
(***************************************************************************)

(* Whoever waits on a page with Next enabled has given what the page       *)
(* needs, whatever was typed on it, before the page, or while another was  *)
(* being loaded: allow_go_forward is one flag for all pages, which each    *)
(* page's handlers set and which Back sets in passing.                     *)
NextOnlyWhenReady ==
  (~busy /\ forward) =>
    /\ Page = "language"  => LanguageReady
    /\ Page = "prepare"   => PrepareReady
    /\ Page = "timezone"  => ZoneReady
    /\ Page = "usersetup" => UserReady
    /\ Page = "partman"   => PartmanReady

(* Where Next installs or restarts, the button says so, and nowhere else   *)
(* (set_page, toggle_next_button).  Not once wireless is in use: then each *)
(* signal of NetworkManager rewords the button, also on pages that are not *)
(* the wireless one (ubi-wireless.py state_changed), and "Install now" may *)
(* turn into "Connect".                                                    *)
NextSaysWhatItDoes ==
  (~busy /\ ~use) =>
    /\ Page = "prepare" => PrepareSays
    /\ Page = "partman" => PartmanSays

(* A country that is stored was chosen under the language that is stored:  *)
(* going back and choosing another language forgets it (ubi-language.py    *)
(* ok_handler, ubi-timezone.py set_di_country).                            *)
CountryOfLanguage == saved.country # "unset" => under = language

(* The pages come in an order that does not depend on the one in which the *)
(* plugins were loaded, and every page after those it asks to come after   *)
(* (plugin_manager.order_plugins).                                         *)
Orders(oemUser) == {OrderPlugins(loaded, oemUser) : loaded \in Loadings}
OneOrder ==
  \A oemUser \in BOOLEAN :
    /\ Cardinality({Names(order) : order \in Orders(oemUser)}) = 1
    /\ \A order \in Orders(oemUser) : \A i, j \in DOMAIN order :
         (i < j) => ~ \E n \in DOMAIN order[i].after : order[i].after[n] = order[j].name
PagesInOrder == at = 0 => OneOrder
===============================================================================
