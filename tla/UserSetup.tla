------------------------------ MODULE UserSetup ------------------------------
(***************************************************************************)
(* The "Who are you?" page (plugins/ubi-usersetup.py, GTK).  The user name *)
(* follows the full name and the computer's name follows the user name     *)
(* until they are typed by hand; a second tab asks for a domain; names are *)
(* looked up on the network behind the user's back.  The form outlives the *)
(* page's filter, which is made anew on each visit.                        *)
(***************************************************************************)
EXTENDS PageShell

CONSTANTS
  UserOf,       \* full name -> user name made of it
  HostOf,       \* user name -> computer's name made of it
  GoodUsers, GoodHosts,   \* the names without errors
  Taken,        \* computers' names the network knows
  Preseeds      \* what debconf may hold at first: [full, user, host]

ASSUME NamesAssumption == UserOf[""] = "" /\ "" \notin GoodUsers \union GoodHosts

VARIABLES
  form,       \* the entries, and what the handlers remember of them
  tab,        \* 0: the names, 1: the domain
  login,      \* the check box of the domain: [active, sensitive]
  domainOk,   \* the domain's entries are complete
  hostTimer,  \* a look-up of the computer's name is due
  lookups,    \* names being looked up, of those the network knows
  db,         \* the answers debconf holds
  given       \* entries ever typed by hand or preseeded (history)

userVars == <<form, tab, login, domainOk, hostTimer, lookups, db, given>>

HostNote(host) ==
  IF host = "" THEN "none" ELSE IF host \in GoodHosts THEN "ok" ELSE "error"

Complete(f) == f.user \in GoodUsers /\ f.password = "same" /\ f.host \in GoodHosts

(* info_loop, which every change of an entry ends in; a handler that is    *)
(* blocked does not take the change for the user's.                        *)
Checked(f) == [f EXCEPT !.note = HostNote(f.host)]

SetHost(f, v, byHand) ==
  IF f.host = v THEN f
  ELSE Checked([f EXCEPT !.host = v, !.hostEdited = IF byHand THEN v # "" ELSE @])

\* Mutated: on_username_changed is not blocked while the name is derived.
SetUserUnblocked(f, v, byHand) ==
  IF f.user = v THEN f
  ELSE LET g == [f EXCEPT !.user = v] IN
       Checked([(IF ~f.hostEdited /\ v # "" THEN SetHost(g, HostOf[v], FALSE) ELSE g)
                EXCEPT !.userEdited = v # ""])

SetUser(f, v, byHand) ==
  IF f.user = v THEN f
  ELSE LET g == [f EXCEPT !.user = v] IN
       Checked([(IF ~f.hostEdited /\ v # "" THEN SetHost(g, HostOf[v], FALSE) ELSE g)
                EXCEPT !.userEdited = IF byHand THEN v # "" ELSE @])

SetFull(f, v) ==
  LET g == [f EXCEPT !.full = v] IN
  Checked(IF f.userEdited THEN g ELSE SetUser(g, UserOf[v], FALSE))

(* Page.prepare fills what is empty from debconf, in this order.           *)
WithHost(f) == IF f.host = "" THEN SetHost(f, db.host, TRUE) ELSE f
WithFull(f) == IF f.full = "" /\ db.full # "" THEN SetFull(f, db.full) ELSE f
WithUser(f) == IF f.user = "" THEN SetUser(f, db.user, TRUE) ELSE f
Prepared == WithUser(WithFull(WithHost(form)))

\* Mutated: prepare does not call info_loop.
EnterUserUnchecked ==
  /\ form' = Checked(Prepared)
  /\ hostTimer' = (hostTimer \/ WithHost(form) # form)
  /\ given' = given \union {e \in {"host"} : WithHost(form) # form}
                    \union {e \in {"user"} : WithFull(WithHost(form)).user # Prepared.user}
  /\ UNCHANGED <<forward, tab, login, domainOk, lookups, db>>

EnterUser ==
  /\ form' = Checked(Prepared)
  /\ forward' = Complete(Prepared)
  /\ hostTimer' = (hostTimer \/ WithHost(form) # form)
  /\ given' = given \union {e \in {"host"} : WithHost(form) # form}
                    \union {e \in {"user"} : WithFull(WithHost(form)).user # Prepared.user}
  /\ UNCHANGED <<tab, login, domainOk, lookups, db>>

(* The user types; each handler that hears of it runs.                     *)
Edit(f, byHand) ==
  /\ Page = "usersetup" /\ tab = 0
  /\ form' = f
  /\ given' = given \union byHand
  /\ AllowForward(Complete(f))
  /\ UNCHANGED <<tab, login, domainOk, lookups, db>>

TypeFull ==
  \E v \in DOMAIN UserOf \ {form.full} :
    Edit(SetFull(form, v), {}) /\ UNCHANGED hostTimer
TypeUser ==
  \E v \in DOMAIN HostOf \ {form.user} :
    Edit(SetUser(form, v, TRUE), {"user"}) /\ UNCHANGED hostTimer
TypeHost ==
  \E v \in GoodHosts \union {"", "bad_"} :
    /\ v # form.host
    /\ Edit(SetHost(form, v, TRUE), {"host"})
    /\ hostTimer' = TRUE
TypePassword ==
  Edit([form EXCEPT !.password = IF @ = "same" THEN "differ" ELSE "same"], {})
  /\ UNCHANGED hostTimer

(* A name is looked up 300 ms after it was last typed, unless the network  *)
(* answers for every name (resolver_ok).  Only the answer that the name    *)
(* exists shows, beside whatever the entry holds by then.                  *)
HostTimeout ==
  /\ hostTimer
  /\ hostTimer' = FALSE
  /\ \/ UNCHANGED lookups
     \/ form.note = "ok" /\ form.host \in Taken /\ lookups' = lookups \union {form.host}
  /\ UNCHANGED <<form, tab, login, domainOk, db, given>>
  /\ UNCHANGED shellVars

LookupResult ==
  \E host \in lookups :
    /\ lookups' = lookups \ {host}
    /\ form' = [form EXCEPT !.note = "exists"]
    /\ UNCHANGED <<tab, login, domainOk, hostTimer, db, given>>
    /\ UNCHANGED shellVars

(* The second tab.                                                         *)
ToggleLogin ==
  /\ Page = "usersetup" /\ tab = 0 /\ login.sensitive
  /\ login' = [login EXCEPT !.active = ~@]
  /\ UNCHANGED <<form, tab, domainOk, hostTimer, lookups, db, given>>
  /\ UNCHANGED shellVars

TypeDomain ==
  /\ Page = "usersetup" /\ tab = 1
  /\ domainOk' \in BOOLEAN
  /\ AllowForward(domainOk')
  /\ UNCHANGED <<form, tab, login, hostTimer, lookups, db, given>>

SwitchTab(n) ==
  /\ tab' = n
  /\ backward' = (n = 1)
  /\ forward' = (n = 0 \/ domainOk)
  /\ UNCHANGED <<tour, at, way, busy, nextLabel, backLabel>>

(* A domain can only be joined over a network.                             *)
UserConnectivity(state) ==
  /\ login' = [active |-> login.active /\ state, sensitive |-> state]
  /\ UNCHANGED <<form, tab, domainOk, hostTimer, lookups, db, given>>

(* plugin_on_next_clicked and ok_handler, which checks the computer's name *)
(* once more and keeps the page if it is bad.                              *)
UserNext ==
  /\ NextClicked("usersetup")
  /\ IF tab = 0 /\ login.active
     THEN SwitchTab(1) /\ UNCHANGED <<form, db>>
     ELSE /\ db' = [db EXCEPT !.full = form.full, !.user = form.user,
                              !.host = IF form.host \in GoodHosts THEN form.host ELSE @]
          /\ IF form.host \in GoodHosts
             THEN Leave(1) /\ UNCHANGED form
             ELSE form' = Checked(form) /\ UNCHANGED shellVars
          /\ UNCHANGED tab
  /\ UNCHANGED <<login, domainOk, hostTimer, lookups, given>>

UserBack ==
  /\ BackClicked("usersetup")
  /\ IF tab = 1 THEN SwitchTab(0) ELSE Leave(-1) /\ UNCHANGED tab
  /\ UNCHANGED <<form, login, domainOk, hostTimer, lookups, db, given>>

UserInit ==
  /\ db \in Preseeds
  /\ form = [full |-> "", user |-> "", host |-> "", password |-> "differ",
             userEdited |-> FALSE, hostEdited |-> FALSE, note |-> "none"]
  /\ tab = 0 /\ login = [active |-> FALSE, sensitive |-> TRUE] /\ domainOk = FALSE
  /\ hostTimer = FALSE /\ lookups = {} /\ given = {}

UserStep ==
  \/ TypeFull \/ TypeUser \/ TypeHost \/ TypePassword
  \/ HostTimeout \/ LookupResult
  \/ ToggleLogin \/ TypeDomain \/ UserNext \/ UserBack

(***************************************************************************)
(* Properties                                                              *)
(***************************************************************************)

(* Next is enabled on the names' tab only while they are complete and      *)
(* right, also when the user comes back from the domain's tab or from      *)
(* another page (info_loop, switch_userinfo_tab, Page.prepare).  Nothing   *)
(* of the kind holds of the domain's tab: the entries can still be emptied *)
(* after the click on Next, and on the way back info_loop looks at the     *)
(* names only.                                                             *)
UserReady == tab = 0 => Complete(form)

(* A name nobody gave by hand follows the name it is made of, however the  *)
(* user jumped between entries, pages and visits: the handlers that note   *)
(* the user's own editing must not take a derived name for it.             *)
NamesFollow ==
  /\ "user" \notin given => form.user = UserOf[form.full]
  /\ "host" \notin given /\ form.user # "" => form.host = HostOf[form.user]
=============================================================================
