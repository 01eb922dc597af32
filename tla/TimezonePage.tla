---------------------------- MODULE TimezonePage ----------------------------
(***************************************************************************)
(* The "Where are you?" page (plugins/ubi-timezone.py, GTK): an entry for  *)
(* a place, whose completions come from the zones known here (after two    *)
(* seconds) and from a server on the network, and a map that tells its     *)
(* zone.  The map (libtimezonemap) and the server are modelled from how    *)
(* the page uses them.  Completions go on while other pages are shown.     *)
(***************************************************************************)
EXTENDS PageShell, SequencesExt

CONSTANTS
  ZoneOf,      \* place -> its zone on the map
  CountryOf,   \* the zones zone.tab knows (get_loc), with their countries
  PlaceOf,     \* zone -> the place that is put in the entry for it
  FirstZones,  \* zones clock-setup may propose, or the network tell
  MaxLookups   \* bound: look-ups of one time

VARIABLES
  entry,      \* the entry's text
  due,        \* the entry has changed less than 300 ms ago
  asked,      \* the text completions were last wanted for
  lookupsOut, \* questions to the server, oldest first: [text, live]
  fallback,   \* the text whose two seconds are running, or "none"
  cache,      \* texts with an answer of the server
  shown,      \* the text whose completions are shown
  overtaken,  \* they were shown from the cache with a look-up out (history)
  zone,       \* timezone
  picked,     \* the zone last picked on the map (history)
  saved,      \* time/zone and debian-installer/country
  geoip       \* tzsetup may ask the network where we are

zoneVars == <<entry, due, asked, lookupsOut, fallback, cache, shown, overtaken,
              zone, picked, saved, geoip>>

completionVars == <<asked, lookupsOut, fallback, cache, shown, overtaken>>

(* select_city, which the map calls for every location picked or set.      *)
SelectCity(z) ==
  /\ picked' = z
  /\ IF z \in DOMAIN CountryOf
     THEN entry' = PlaceOf[z] /\ due' = (due \/ entry # PlaceOf[z]) /\ zone' = z
     ELSE UNCHANGED <<entry, due, zone>>
  /\ forward' = (z \in DOMAIN CountryOf)

(* What tzsetup proposes: what the network tells or, if the country is new *)
(* or has several zones, one of the country's.                             *)
Several(country) ==
  \E y, z \in DOMAIN CountryOf : y # z /\ CountryOf[y] = country /\ CountryOf[z] = country
Proposed ==
  IF geoip' \/ saved.country = "unset" \/ Several(saved.country) THEN FirstZones ELSE {saved.zone}

(* Page.prepare and run: without a network the server that tells where the *)
(* machine is is taken out of the questions, and never put back.           *)
EnterTimezone(online) ==
  /\ geoip' = (geoip /\ online)
  /\ \E z \in Proposed : SelectCity(z)
  /\ UNCHANGED <<completionVars, saved>>

TypePlace ==
  /\ Page = "timezone"
  /\ entry' \in (DOMAIN ZoneOf \union {""}) \ {entry}
  /\ due' = TRUE
  /\ UNCHANGED <<completionVars, zone, picked, saved, geoip>>
  /\ UNCHANGED shellVars

PickOnMap ==
  /\ Page = "timezone"
  /\ \E place \in DOMAIN ZoneOf : SelectCity(ZoneOf[place])
  /\ UNCHANGED <<completionVars, saved, geoip>>
  /\ UNCHANGED <<tour, at, way, busy, backward, nextLabel, backLabel>>

\* Mutated: the look-ups that are out are not aborted.
ChangedOnly ==
  /\ due
  /\ due' = FALSE
  /\ entry \notin cache \union {""}
  /\ Len(lookupsOut) < MaxLookups
  /\ asked' = entry
  /\ lookupsOut' = Append(lookupsOut, [text |-> entry, live |-> TRUE])
  /\ fallback' = entry
  /\ overtaken' = FALSE
  /\ UNCHANGED <<cache, shown, entry, zone, picked, saved, geoip>>
  /\ UNCHANGED shellVars

(* changed, 300 ms after the entry: a text asked before shows its answer,  *)
(* another aborts the look-ups that are out and starts one.                *)
Changed ==
  /\ due
  /\ due' = FALSE
  /\ \/ entry = "" /\ UNCHANGED completionVars
     \/ /\ entry \in cache
        /\ asked' = entry
        /\ shown' = entry
        /\ overtaken' = (lookupsOut # <<>> \/ fallback # "none")
        /\ UNCHANGED <<lookupsOut, fallback, cache>>
     \/ /\ entry \notin cache \union {""}
        /\ Len(lookupsOut) < MaxLookups
        /\ asked' = entry
        /\ lookupsOut' = Append([i \in DOMAIN lookupsOut |-> [lookupsOut[i] EXCEPT !.live = FALSE]],
                                [text |-> entry, live |-> TRUE])
        /\ fallback' = entry
        /\ overtaken' = FALSE
        /\ UNCHANGED <<cache, shown>>
  /\ UNCHANGED <<entry, zone, picked, saved, geoip>>
  /\ UNCHANGED shellVars

(* geoname_timeout: two seconds without an answer show the zones known.    *)
GeonameTimeout ==
  /\ fallback # "none"
  /\ shown' = fallback
  /\ fallback' = "none"
  /\ UNCHANGED <<entry, due, asked, lookupsOut, cache, overtaken, zone, picked, saved, geoip>>
  /\ UNCHANGED shellVars

(* geoname_cb: an answer, a failure, or that the look-up was aborted; the  *)
(* aborted ones say so before a live one is answered.  Each stops the two  *)
(* seconds, whoever they are of, and shows its own completions.            *)
GeonameAnswer ==
  /\ \E i \in DOMAIN lookupsOut :
       /\ lookupsOut[i].live => \A j \in DOMAIN lookupsOut : lookupsOut[j].live
       /\ lookupsOut' = RemoveAt(lookupsOut, i)
       /\ shown' = lookupsOut[i].text
       /\ \E answered \in {FALSE, lookupsOut[i].live} :
            cache' = IF answered THEN cache \union {lookupsOut[i].text} ELSE cache
  /\ fallback' = "none"
  /\ UNCHANGED <<entry, due, asked, overtaken, zone, picked, saved, geoip>>
  /\ UNCHANGED shellVars

(* ok_handler and set_di_country.                                          *)
TimezoneNext ==
  /\ NextClicked("timezone")
  /\ Leave(1)
  /\ saved' = [zone |-> zone,
               country |-> IF zone \in DOMAIN CountryOf THEN CountryOf[zone] ELSE saved.country]
  /\ UNCHANGED <<entry, due, completionVars, zone, picked, geoip>>

TimezoneBack ==
  /\ BackClicked("timezone")
  /\ Leave(-1)
  /\ UNCHANGED zoneVars

TimezoneInit ==
  /\ entry = "" /\ due = FALSE /\ asked = "" /\ lookupsOut = <<>> /\ fallback = "none"
  /\ cache = {} /\ shown = "" /\ overtaken = FALSE
  /\ zone = "none" /\ picked = "none" /\ geoip = TRUE
  /\ saved \in {[zone |-> z, country |-> "unset"] : z \in FirstZones}

(***************************************************************************)
(* Properties                                                              *)
(***************************************************************************)

(* Next is enabled only if the zone that would be saved is the one picked  *)
(* last (select_city): not after a place whose zone is unknown, on this    *)
(* visit or an earlier one.                                                *)
ZoneReady == zone = picked /\ zone \in DOMAIN CountryOf

(* Once everything asked for has been answered the completions are those   *)
(* of the text last asked for, however answers, aborted look-ups and the   *)
(* two seconds overtook each other (changed, geoname_cb, geoname_timeout). *)
(* The exception is a text shown from the cache while another was being    *)
(* looked up: nothing aborts that look-up, and its answer replaces the     *)
(* completions of the text in the entry.                                   *)
RightCompletions ==
  (lookupsOut = <<>> /\ fallback = "none" /\ ~overtaken) => shown = asked
=============================================================================
