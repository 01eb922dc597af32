---------------------------- MODULE LanguagePage ----------------------------
(***************************************************************************)
(* The first page (plugins/ubi-language.py, GTK).  Selecting a language    *)
(* translates this page at once; going on stores it and translates the     *)
(* others.  The country is forgotten with the language it was chosen       *)
(* under.  The page also looks on the network for a newer installer.       *)
(***************************************************************************)
EXTENDS PageShell

CONSTANTS
  Languages,   \* the languages that are offered
  English      \* what is selected when the stored one is not

VARIABLES
  lang,       \* the language selected, "none" if none is
  locale,     \* the language of the wizard's texts (Wizard.locale)
  language,   \* localechooser/languagelist in the database
  initial,    \* initial_language of this visit
  newer       \* the link to a newer installer: "unknown", "due", "offered", "none"

languageVars == <<lang, locale, language, initial, newer>>

(* on_language_selection_changed                                           *)
Select(l) ==
  /\ lang' = l
  /\ forward' = (l # "none")
  /\ locale' = IF l = "none" THEN locale ELSE l

(* get_languages and set_language                                          *)
Listed(l) == IF l \in Languages THEN l ELSE IF English \in Languages THEN English ELSE "none"

\* Mutated: the language to compare with is that of the first visit.
EnterLanguageAgain ==
  /\ initial' = IF initial = "none" THEN language ELSE initial
  /\ Select(Listed(language))
  /\ UNCHANGED <<language, newer>>

(* Page.prepare and run: the list is filled anew, the stored language is   *)
(* selected in it, or else English.                                        *)
EnterLanguage ==
  /\ initial' = language
  /\ Select(Listed(language))
  /\ UNCHANGED <<language, newer>>

SelectLanguage ==
  /\ Page = "language"
  /\ \E l \in Languages \ {lang} : Select(l)
  /\ UNCHANGED <<language, initial, newer>>
  /\ UNCHANGED <<tour, at, way, busy, backward, nextLabel, backLabel>>

(* plugin_set_online_state and check_returncode, the page's own.           *)
LanguageOnline(state) ==
  /\ newer' = IF state THEN "due" ELSE IF newer = "due" THEN "unknown" ELSE newer
  /\ UNCHANGED <<lang, locale, language, initial>>

UpdateChecked ==
  /\ newer = "due"
  /\ newer' \in {"offered", "none"}
  /\ UNCHANGED <<lang, locale, language, initial>>
  /\ UNCHANGED shellVars

(* ok_handler, and cleanup when the filter ends; TRUE if the country is    *)
(* reset.                                                                  *)
LanguageNext ==
  /\ NextClicked("language")
  /\ Leave(1)
  /\ language' = lang
  /\ UNCHANGED <<lang, locale, initial, newer>>

CountryReset == initial # lang

(* "Try": ok_handler, but the installer ends.                              *)
TryClicked ==
  /\ Waiting("language") /\ lang # "none"
  /\ Ends
  /\ language' = lang
  /\ UNCHANGED <<lang, locale, initial, newer>>

LanguageInit ==
  /\ lang = "none" /\ initial = "none" /\ newer = "unknown"
  /\ language \in Languages \union {"unlisted"}
  /\ locale = language

LanguageReady == lang \in Languages
=============================================================================
