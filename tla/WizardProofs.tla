---------------------------- MODULE WizardProofs ----------------------------
(* What Wizard.tla claims, for any list of pages, any number of filters    *)
(* and any number of failures.                                             *)
EXTENDS Wizard, SequenceTheorems, WellFoundedInduction, TLAPS

-----------------------------------------------------------------------------
(* Sets of numbers *)

(* A set of numbers has a least element, which Min chooses. *)
LEMMA LeastElement ==
  ASSUME NEW S \in SUBSET Nat, S # {}
  PROVE  Min(S) \in S
<1>1. IsWellFoundedOn(OpToRel(<, Nat), Nat)
  BY NatLessThanWellFounded
<1>2. PICK x \in S : \A y \in S : ~(<<y, x>> \in OpToRel(<, Nat))
  BY <1>1, WFMin, Zenon
<1>3. \A y \in S : ~(y < x)
  BY <1>2 DEF OpToRel
<1>4. \A y \in S : x <= y
  BY <1>3
<1> QED BY <1>4 DEF Min

(* A bounded set of numbers has a greatest element, which Max chooses. *)
LEMMA GreatestElement ==
  ASSUME NEW n \in Nat, NEW S \in SUBSET (0 .. n), S # {}
  PROVE  Max(S) \in S
<1> DEFINE T == {n - i : i \in S}
<1>1. T \in SUBSET Nat /\ T # {}
  <2>1. \A i \in S : n - i \in Nat
    OBVIOUS
  <2> QED BY <2>1, Zenon
<1>2. IsWellFoundedOn(OpToRel(<, Nat), Nat)
  BY NatLessThanWellFounded
<1> HIDE DEF T
<1>3. PICK t \in T : \A y \in T : ~(<<y, t>> \in OpToRel(<, Nat))
  BY <1>1, <1>2, WFMin, Zenon
<1>4. \A y \in T : t <= y
  <2>1. \A y \in T : ~(y < t)
    BY <1>1, <1>3 DEF OpToRel
  <2> QED BY <1>1, <2>1
<1>5. PICK x \in S : t = n - x
  BY <1>3 DEF T
<1>6. \A y \in S : x >= y
  <2> SUFFICES ASSUME NEW y \in S PROVE x >= y
    OBVIOUS
  <2>1. n - y \in T
    BY DEF T
  <2> QED BY <1>4, <1>5, <2>1
<1> QED BY <1>6 DEF Max

-----------------------------------------------------------------------------
(* The history *)

EntriesTo(n) == [page : 1 .. n, widget : Widgets]
Entries == [page : DOMAIN Pages, widget : Widgets]

(* Every page of the wizard has a number, partman's included. *)
LEMMA PagesAreNumbered ==
  /\ Len(Pages) \in Nat /\ DOMAIN Pages = 1 .. Len(Pages)
  /\ PartmanIndex \in DOMAIN Pages /\ Pages[PartmanIndex] = "partman"
  /\ \A m \in PageNames : (CHOOSE i \in DOMAIN Pages : Pages[i] = m) \in DOMAIN Pages
<1>1. Len(Pages) \in Nat /\ DOMAIN Pages = 1 .. Len(Pages)
  BY PagesAssumption
<1>2. PartmanIndex \in DOMAIN Pages /\ Pages[PartmanIndex] = "partman"
  BY PagesAssumption DEF PageNames, PartmanIndex
<1>3. \A m \in PageNames : (CHOOSE i \in DOMAIN Pages : Pages[i] = m) \in DOMAIN Pages
  BY DEF PageNames
<1> QED BY <1>1, <1>2, <1>3

(* A beginning of a history is one. *)
LEMMA Prefix ==
  ASSUME NEW E, NEW h \in Seq(E), NEW k \in Nat, k <= Len(h)
  PROVE  SubSeq(h, 1, k) \in Seq(E)
<1>1. \A i \in 1 .. k : h[i] \in E
  OBVIOUS
<1> QED BY <1>1, SubSeqProperties

(* add_history leaves a list of entries, of pages up to the last there was. *)
LEMMA AddHistoryUpTo ==
  ASSUME NEW n \in Nat, NEW h \in Seq(EntriesTo(n)), NEW e \in EntriesTo(n)
  PROVE  AddHistory(h, e) \in Seq(EntriesTo(n))
<1> DEFINE old == h[Len(h)].page
<1> DEFINE moved == IF e.page < old THEN PopToPage(h, e.page) ELSE h \o Fakes(old, e.page)
<1>1. CASE h = <<>>
  BY <1>1 DEF AddHistory
<1>2. ASSUME \E i \in DOMAIN h : h[i] = e, FirstIndex(h, e) < Len(h)
      PROVE  SubSeq(h, 1, FirstIndex(h, e)) \in Seq(EntriesTo(n))
  <2>1. {i \in DOMAIN h : h[i] = e} \in SUBSET Nat /\ {i \in DOMAIN h : h[i] = e} # {}
    BY <1>2
  <2>2. FirstIndex(h, e) \in Nat
    BY <2>1, LeastElement DEF FirstIndex
  <2> QED BY <1>2, <2>2, Prefix
<1>3. ASSUME h # <<>> PROVE moved \in Seq(EntriesTo(n)) /\ Append(moved, e) \in Seq(EntriesTo(n))
  <2>1. /\ Len(h) \in Nat \ {0} /\ DOMAIN h = 1 .. Len(h)
        /\ old \in 1 .. n /\ e.page \in 1 .. n
    <3>1. Len(h) \in Nat \ {0} /\ DOMAIN h = 1 .. Len(h) /\ h[Len(h)] \in EntriesTo(n)
      BY <1>3
    <3>2. old \in 1 .. n /\ e.page \in 1 .. n
      BY <3>1 DEF EntriesTo
    <3> QED BY <3>1, <3>2
  <2>2. PopToPage(h, e.page) \in Seq(EntriesTo(n))
    <3> DEFINE S == {1} \cup {i \in DOMAIN h : h[i].page = e.page}
    <3>1. S \in SUBSET (0 .. Len(h)) /\ S # {}
      BY <2>1
    <3>2. Max(S) \in S
      BY <2>1, <3>1, GreatestElement
    <3>3. Max(S) \in Nat /\ Max(S) <= Len(h)
      <4> HIDE DEF S
      <4>1. Max(S) \in 0 .. Len(h)
        BY <3>1, <3>2, Zenon
      <4> QED BY <2>1, <4>1
    <3>4. SubSeq(h, 1, Max(S)) \in Seq(EntriesTo(n))
      <4> HIDE DEF S
      <4> QED BY <3>3, Prefix
    <3> QED BY <3>4 DEF PopToPage
  <2>3. ASSUME ~(e.page < old) PROVE Fakes(old, e.page) \in Seq(EntriesTo(n))
    <3>1. PICK m \in Nat : m = IF e.page > old THEN e.page - old - 1 ELSE 0
      BY <2>1
    <3>2. ASSUME NEW k \in 1 .. m PROVE Entry(old + k, NoWidget) \in EntriesTo(n)
      <4>1. old + k \in 1 .. n
        BY <2>1, <3>1, SMTT(30)
      <4> QED BY <4>1 DEF Entry, EntriesTo, Widgets
    <3>3. [k \in 1 .. m |-> Entry(old + k, NoWidget)] \in Seq(EntriesTo(n))
      BY <3>1, <3>2
    <3> QED BY <3>1, <3>3 DEF Fakes
  <2>4. moved \in Seq(EntriesTo(n))
    BY <2>2, <2>3
  <2> QED BY <2>4
<1> HIDE DEF moved
<1>4. CASE h # <<>>
  <2>1. AddHistory(h, e) =
          IF (\E i \in DOMAIN h : h[i] = e) /\ FirstIndex(h, e) < Len(h)
          THEN SubSeq(h, 1, FirstIndex(h, e))
          ELSE IF moved[Len(moved)] = e THEN moved ELSE Append(moved, e)
    BY <1>4 DEF AddHistory, moved
  <2> QED BY <1>2, <1>3, <1>4, <2>1
<1> QED BY <1>1, <1>4

LEMMA AddHistoryType ==
  ASSUME NEW h \in Seq(Entries), NEW e \in Entries
  PROVE  AddHistory(h, e) \in Seq(Entries)
<1>1. Entries = EntriesTo(Len(Pages)) /\ Len(Pages) \in Nat
  BY PagesAreNumbered DEF Entries, EntriesTo
<1> QED BY <1>1, AddHistoryUpTo

(* pop_history leaves a list of entries, and leads to a page. *)
LEMMA PopHistoryType ==
  ASSUME NEW h \in Seq(Entries), NEW i \in DOMAIN Pages
  PROVE  PopHistory(h) \in Seq(Entries) /\ PopIndex(h, i) \in DOMAIN Pages
<1>1. PopHistory(h) \in Seq(Entries)
  <2>1. CASE Len(h) < 2
    BY <2>1 DEF PopHistory
  <2>2. CASE ~(Len(h) < 2)
    <3>1. Len(h) - 1 \in Nat /\ Len(h) - 1 <= Len(h)
      BY <2>2
    <3> QED BY <2>2, <3>1, Prefix DEF PopHistory
  <2> QED BY <2>1, <2>2
<1>2. PopIndex(h, i) \in DOMAIN Pages
  <2>1. CASE Len(h) < 2
    BY <2>1 DEF PopIndex
  <2>2. CASE ~(Len(h) < 2)
    <3>1. h[Len(h) - 1] \in Entries
      BY <2>2
    <3> QED BY <2>2, <3>1 DEF PopIndex, Entries
  <2> QED BY <2>1, <2>2
<1> QED BY <1>1, <1>2
-----------------------------------------------------------------------------
(* The table of filters *)

Table == [FilterIds -> Filters]

(* A filter that was just started is a filter. *)
LEMMA NewFilter ==
  /\ Idle \in Filters /\ Idle.module = "none"
  /\ \A m \in PageNames \cup Background :
       Started(m) \in Filters /\ Started(m).module = m
  BY DEF Idle, Started, Filters

(* When there is room, the filter that is started is a new one. *)
LEMMA Room ==
  ASSUME NEW fs, HasRoom(fs)
  PROVE  Fresh(fs) \in FilterIds /\ fs[Fresh(fs)] = Idle
  BY DEF HasRoom, Fresh

(* Telling a filter something leaves its module, and every other filter,   *)
(* as they are.                                                            *)
Told(fs, gs) == gs \in Table /\ \A f \in FilterIds : gs[f].module = fs[f].module

(* ok_handler, cancel_handler and error change a filter but never end it. *)
LEMMA Tell ==
  ASSUME NEW fs \in Table, NEW f \in FilterIds, NEW d \in BOOLEAN, NEW s \in BOOLEAN,
         NEW l \in BOOLEAN, NEW g \in {"none", "ok", "backup"}
  PROVE  /\ Told(fs, [fs EXCEPT ![f].done = d, ![f].succeeded = s, ![f].loop = l])
         /\ Told(fs, [fs EXCEPT ![f].done = d, ![f].succeeded = s, ![f].go = g])
         /\ Told(fs, [fs EXCEPT ![f].succeeded = s, ![f].loop = l, ![f].go = g])
         /\ Told(fs, [fs EXCEPT ![f].go = g])
<1> USE DEF Told, Table, Filters
<1>1. Told(fs, [fs EXCEPT ![f].done = d, ![f].succeeded = s, ![f].loop = l])
  <2> DEFINE r == [fs[f] EXCEPT !.done = d, !.succeeded = s, !.loop = l]
  <2>1. r \in Filters /\ r.module = fs[f].module
    OBVIOUS
  <2>2. [fs EXCEPT ![f].done = d, ![f].succeeded = s, ![f].loop = l] = [fs EXCEPT ![f] = r]
    OBVIOUS
  <2> HIDE DEF r
  <2>3. Told(fs, [fs EXCEPT ![f] = r])
    BY <2>1
  <2> QED BY <2>2, <2>3
<1>2. Told(fs, [fs EXCEPT ![f].done = d, ![f].succeeded = s, ![f].go = g])
  <2> DEFINE r == [fs[f] EXCEPT !.done = d, !.succeeded = s, !.go = g]
  <2>1. r \in Filters /\ r.module = fs[f].module
    OBVIOUS
  <2>2. [fs EXCEPT ![f].done = d, ![f].succeeded = s, ![f].go = g] = [fs EXCEPT ![f] = r]
    OBVIOUS
  <2> HIDE DEF r
  <2>3. Told(fs, [fs EXCEPT ![f] = r])
    BY <2>1
  <2> QED BY <2>2, <2>3
<1>3. Told(fs, [fs EXCEPT ![f].succeeded = s, ![f].loop = l, ![f].go = g])
  <2> DEFINE r == [fs[f] EXCEPT !.succeeded = s, !.loop = l, !.go = g]
  <2>1. r \in Filters /\ r.module = fs[f].module
    OBVIOUS
  <2>2. [fs EXCEPT ![f].succeeded = s, ![f].loop = l, ![f].go = g] = [fs EXCEPT ![f] = r]
    OBVIOUS
  <2> HIDE DEF r
  <2>3. Told(fs, [fs EXCEPT ![f] = r])
    BY <2>1
  <2> QED BY <2>2, <2>3
<1>4. Told(fs, [fs EXCEPT ![f].go = g])
  <2> DEFINE r == [fs[f] EXCEPT !.go = g]
  <2>1. r \in Filters /\ r.module = fs[f].module
    OBVIOUS
  <2>2. [fs EXCEPT ![f].go = g] = [fs EXCEPT ![f] = r]
    OBVIOUS
  <2> HIDE DEF r
  <2>3. Told(fs, [fs EXCEPT ![f] = r])
    BY <2>1
  <2> QED BY <2>2, <2>3
<1> QED BY <1>1, <1>2, <1>3, <1>4

(* cancel_handler leaves the same filters alive. *)
LEMMA Cancel ==
  ASSUME filters \in Table, dbfilter \in FilterIds \cup {NoFilter}
  PROVE  Told(filters, Cancelled(dbfilter))
<1>1. CASE dbfilter = NoFilter
  BY <1>1 DEF Cancelled, Told
<1>2. CASE dbfilter # NoFilter
  BY <1>2, Tell DEF Cancelled
<1> QED BY <1>1, <1>2

-----------------------------------------------------------------------------
(* The type invariant, in parts, with the fact it needs: run() is in a     *)
(* page's main loop only while pagesindex is a page.                       *)

PlaceOK ==
  /\ stage \in {"pages", "slideshow", "finished", "exited"}
  /\ pagesindex \in 1 .. Len(Pages) + 1
  /\ history \in Seq(Entries)
  /\ stage = "pages" /\ OnStack("run") => pagesindex \in DOMAIN Pages

FiltersOK == filters \in Table /\ dbfilter \in FilterIds \cup {NoFilter}

LoopsOK == loops \in Seq(FilterIds \cup {"run"}) /\ pending_quits \in Nat

FlagsOK ==
  /\ backup \in BOOLEAN /\ current_page \in BOOLEAN /\ dbfilter_status \in BOOLEAN
  /\ installing \in BOOLEAN /\ locked \in BOOLEAN
  /\ partitioned \in BOOLEAN /\ timezone_set \in BOOLEAN
  /\ finished_installing \in BOOLEAN /\ finished_pages \in BOOLEAN
  /\ allowed_change_step \in BOOLEAN /\ allowed_go_backward \in BOOLEAN

FaultsOK == faults \in 0 .. MaxFaults /\ reopened \in BOOLEAN

TypeInv == PlaceOK /\ FiltersOK /\ LoopsOK /\ FlagsOK /\ FaultsOK

(* The strengthened invariant implies the one the runs check. *)
LEMMA TypeInvIsTypeOK == TypeInv => TypeOK
  BY DEF TypeInv, TypeOK, PlaceOK, FiltersOK, LoopsOK, FlagsOK, FaultsOK, Table, Entries

(* What StepsInOrder asks of a filter of module b. *)
Justified(b) ==
  /\ b = "install" => partitioned /\ timezone_set
  /\ b = "plugininstall" => finished_installing /\ finished_pages

(* What find_next_step starts may start, and is a new filter. *)
LEMMA NextStep ==
  ASSUME NEW m, NEW fs \in Table, FindNextStep(m, fs), Launches(m) # {} => HasRoom(fs)
  PROVE  /\ filters' \in Table
         /\ \A g \in FilterIds :
              \/ filters'[g].module = fs[g].module
              \/ fs[g].module = "none" /\ filters'[g].module \in Background
                   /\ Justified(filters[g].module)'
<1>1. CASE Launches(m) = {}
  BY <1>1 DEF FindNextStep
<1>2. CASE Launches(m) # {}
  <2>1. PICK b \in Launches(m) : filters' = [fs EXCEPT ![Fresh(fs)] = Started(b)]
    BY <1>2 DEF FindNextStep
  <2>2. Fresh(fs) \in FilterIds /\ fs[Fresh(fs)].module = "none"
    BY <1>2, Room, NewFilter
  <2>3. b \in Background /\ Started(b) \in Filters /\ Started(b).module = b
    BY <2>1, NewFilter DEF Launches
  <2>4. Justified(b)'
    <3>1. b = "install" => partitioned' /\ timezone_set'
      BY <2>1 DEF Launches, FindNextStep
    <3>2. b = "plugininstall" => finished_installing' /\ finished_pages'
      BY <2>1 DEF Launches, FindNextStep
    <3> QED BY <3>1, <3>2 DEF Justified
  <2>5. filters' \in Table
    BY <2>1, <2>2, <2>3 DEF Table
  <2>6. \A g \in FilterIds \ {Fresh(fs)} : filters'[g].module = fs[g].module
    BY <2>1 DEF Table
  <2>7. filters'[Fresh(fs)].module = b
    BY <2>1, <2>2, <2>3 DEF Table
  <2>8. ASSUME NEW g \in FilterIds
        PROVE  \/ filters'[g].module = fs[g].module
               \/ fs[g].module = "none" /\ filters'[g].module \in Background
                    /\ Justified(filters[g].module)'
    <3>1. CASE g = Fresh(fs)
      BY <2>2, <2>3, <2>7, <2>4, <3>1 DEF Justified
    <3>2. CASE g # Fresh(fs)
      BY <2>6, <3>2
    <3> QED BY <3>1, <3>2
  <2> QED BY <2>5, <2>8
<1> QED BY <1>1, <1>2

(* What a step does to the table: a filter whose question is on the screen *)
(* stays, and the filter of the page; a background filter that appears may. *)
TableStep ==
  /\ filters' \in Table
  /\ \A g \in FilterIds :
       \/ filters'[g].module = filters[g].module
       \/ /\ ~IsPage(g) \/ (~OnStack(g) /\ dbfilter' # g)
          /\ filters'[g].module \in Background => Justified(filters[g].module)'

(* A filter told something is still there. *)
LEMMA ToldIsTableStep == Told(filters, filters') => TableStep
  BY DEF Told, TableStep

(* Every step of the wizard changes the table that way. *)
LEMMA EveryStepIsTableStep ==
  ASSUME PlaceOK, FiltersOK, LoopsOK, [Next]_vars
  PROVE  TableStep
<1> USE DEF FiltersOK
<1>1. CASE UNCHANGED filters
  BY <1>1 DEF TableStep
<1>2. CASE StartFilterPage
  <2>1. Page \in PageNames
    BY <1>2 DEF StartFilterPage, Page, PageNames
  <2>2. Started(Page) \in Filters /\ Started(Page).module = Page /\ Page \notin Background
    BY <2>1, NewFilter, PagesAssumption
  <2>3. Fresh(filters) \in FilterIds /\ filters[Fresh(filters)].module = "none"
    BY <1>2, Room, NewFilter DEF StartFilterPage
  <2>4. filters' = [filters EXCEPT ![Fresh(filters)] = Started(Page)]
    BY <1>2 DEF StartFilterPage
  <2>5. filters' \in Table
    BY <2>2, <2>3, <2>4 DEF Table
  <2>6. \A g \in FilterIds \ {Fresh(filters)} : filters'[g].module = filters[g].module
    BY <2>4 DEF Table
  <2>7. filters'[Fresh(filters)].module = Page /\ ~IsPage(Fresh(filters))
    BY <2>2, <2>3, <2>4, PagesAssumption DEF Table, IsPage
  <2> QED BY <2>2, <2>5, <2>6, <2>7 DEF TableStep
<1>3. ASSUME NEW f \in FilterIds, AnswerAtOnce(f) \/ QuestionReturns(f) PROVE TableStep
  <2>1. PICK g \in {"ok", "backup"} : filters' = [filters EXCEPT ![f].go = g]
    BY <1>3 DEF AnswerAtOnce, QuestionReturns
  <2> QED BY <2>1, Tell, ToldIsTableStep
<1>4. ASSUME NEW f \in FilterIds, Ask(f) PROVE TableStep
  BY <1>4, Tell, ToldIsTableStep DEF Ask
<1>5. ASSUME NEW f \in FilterIds, FilterSucceeds(f) PROVE TableStep
  <2> DEFINE m == filters[f].module
  <2>1. Without(f) \in Table /\ Without(f)[f] = Idle /\ HasRoom(Without(f))
    BY NewFilter DEF Without, Table, HasRoom
  <2>2. \A g \in FilterIds \ {f} : Without(f)[g] = filters[g]
    BY DEF Without, Table
  <2>3. FindNextStep(m, Without(f)) /\ ~OnStack(f) /\ dbfilter' # f
    BY <1>5, FilterIdsAssumption DEF FilterSucceeds, Exit
  <2>4. /\ filters' \in Table
        /\ \A g \in FilterIds :
             \/ filters'[g].module = Without(f)[g].module
             \/ Without(f)[g].module = "none" /\ filters'[g].module \in Background
                  /\ Justified(filters[g].module)'
    BY <2>1, <2>3, NextStep
  <2>5. ASSUME NEW g \in FilterIds
        PROVE  \/ filters'[g].module = filters[g].module
               \/ /\ ~IsPage(g) \/ (~OnStack(g) /\ dbfilter' # g)
                  /\ filters'[g].module \in Background => Justified(filters[g].module)'
    <3>1. CASE g = f
      <4>1. Without(f)[g].module = "none"
        BY <2>1, <3>1, NewFilter
      <4>2. "none" \notin Background
        BY DEF Background
      <4> QED BY <2>3, <2>4, <3>1, <4>1, <4>2
    <3>2. CASE g # f
      <4>1. Without(f)[g].module = filters[g].module
        BY <2>2, <3>2
      <4>2. filters[g].module = "none" => ~IsPage(g)
        BY PagesAssumption DEF IsPage
      <4> QED BY <2>4, <4>1, <4>2
    <3> QED BY <3>1, <3>2
  <2> QED BY <2>4, <2>5 DEF TableStep
<1>6. ASSUME NEW f \in FilterIds, FilterFails(f) PROVE TableStep
  <2>1. filters' = [filters EXCEPT ![f] = Idle] /\ ~OnStack(f) /\ dbfilter' # f
    BY <1>6, FilterIdsAssumption DEF FilterFails, Without, Exit
  <2>2. filters' \in Table /\ filters'[f].module \notin Background
    BY <2>1, NewFilter DEF Table, Background
  <2>3. \A g \in FilterIds \ {f} : filters'[g].module = filters[g].module
    BY <2>1 DEF Table
  <2> QED BY <2>1, <2>2, <2>3 DEF TableStep
<1>7. ASSUME NEW f \in FilterIds, NEW d \in BOOLEAN, FatalError(f, d) PROVE TableStep
  <2> DEFINE told(fs) == [fs EXCEPT ![f].done = d, ![f].succeeded = FALSE, ![f].go = "none"]
  <2> DEFINE new == Fresh(filters)
  <2>1. CASE ~installing
    <3>1. filters' = told(filters)
      BY <1>7, <2>1 DEF FatalError
    <3> QED BY <3>1, Tell, ToldIsTableStep
  <2>2. CASE installing
    <3> DEFINE gs == told(Cancelled(dbfilter))
    <3>1. Told(filters, Cancelled(dbfilter))
      BY Cancel
    <3>2. Told(Cancelled(dbfilter), gs)
      <4>1. Cancelled(dbfilter) \in Table
        BY <3>1 DEF Told
      <4> QED BY <4>1, Tell
    <3>3. gs \in Table /\ \A g \in FilterIds : gs[g].module = filters[g].module
      BY <3>1, <3>2 DEF Told
    <3>4. HasRoom(filters) /\ filters' = [gs EXCEPT ![new] = Started("partman")]
      BY <1>7, <2>2 DEF FatalError
    <3>5. new \in FilterIds /\ filters[new].module = "none"
      BY <3>4, Room, NewFilter
    <3>6. /\ Started("partman") \in Filters /\ Started("partman").module = "partman"
          /\ "partman" \notin Background
      BY NewFilter, PagesAssumption
    <3> HIDE DEF gs, new
    <3>7. filters' \in Table /\ filters'[new].module = "partman"
      BY <3>3, <3>4, <3>5, <3>6 DEF Table
    <3>8. \A g \in FilterIds \ {new} : filters'[g].module = filters[g].module
      BY <3>3, <3>4 DEF Table
    <3>9. ~IsPage(new)
      BY <3>5, PagesAssumption DEF IsPage
    <3> QED BY <3>5, <3>6, <3>7, <3>8, <3>9 DEF TableStep
  <2> QED BY <2>1, <2>2 DEF FatalError
<1>8. ASSUME NEW f \in FilterIds, PageError(f) PROVE TableStep
  BY <1>8, Tell, ToldIsTableStep DEF PageError
<1>9. CASE NextOnFilterPage
  <2>1. dbfilter \in FilterIds
    BY <1>9 DEF NextOnFilterPage
  <2>2. PICK d \in BOOLEAN : filters' = [filters EXCEPT ![dbfilter].done = d,
                                ![dbfilter].succeeded = TRUE, ![dbfilter].loop = FALSE]
    BY <1>9 DEF NextOnFilterPage
  <2> QED BY <2>1, <2>2, Tell, ToldIsTableStep
<1>10. CASE NextOnUiPage
  <2>1. /\ FindNextStep(Page, filters)
        /\ Launches(Page) # {} => HasRoom(filters)
    BY <1>10 DEF NextOnUiPage
  <2>2. /\ filters' \in Table
        /\ \A g \in FilterIds :
             \/ filters'[g].module = filters[g].module
             \/ filters[g].module = "none" /\ filters'[g].module \in Background
                  /\ Justified(filters[g].module)'
    BY <2>1, NextStep
  <2>3. \A g \in FilterIds : filters[g].module = "none" => ~IsPage(g)
    BY PagesAssumption DEF IsPage
  <2> QED BY <2>2, <2>3 DEF TableStep
<1>11. CASE BackClicked \/ Quit
  BY <1>11, Cancel, ToldIsTableStep DEF BackClicked, Quit
<1>12. CASE \/ StartUiPage \/ SkipPage \/ PageReturns \/ LeaveRun \/ StartSlideshow
            \/ Finish \/ Ended \/ UNCHANGED vars \/ \E f \in FilterIds : Crash(f)
  <2>1. UNCHANGED filters
    BY <1>12 DEF StartUiPage, SkipPage, PageReturns, LeaveRun, StartSlideshow, Finish,
                 Ended, vars, Crash
  <2> QED BY <1>1, <2>1
<1>13. ASSUME NEW f \in FilterIds, BackgroundError(f) \/ PartmanError(f) PROVE TableStep
  <2>1. PICK d \in BOOLEAN : FatalError(f, d)
    BY <1>13 DEF BackgroundError, PartmanError
  <2> QED BY <1>7, <2>1
<1> QED BY <1>2, <1>3, <1>4, <1>5, <1>6, <1>8, <1>9, <1>10, <1>11, <1>12, <1>13
        DEF Next, Run, Filter, Fault, User

(* The filter of the page, if any, is a filter. *)
LEMMA OwnerStep ==
  ASSUME FiltersOK, [Next]_vars
  PROVE  dbfilter' \in FilterIds \cup {NoFilter}
<1> USE DEF FiltersOK
<1>1. CASE UNCHANGED dbfilter
  BY <1>1
<1>2. CASE StartFilterPage
  BY <1>2, Room DEF StartFilterPage
<1>3. CASE StartUiPage
  BY <1>3 DEF StartUiPage
<1>4. ASSUME NEW f \in FilterIds, FilterSucceeds(f) \/ FilterFails(f)
      PROVE  dbfilter' \in FilterIds \cup {NoFilter}
  BY <1>4 DEF FilterSucceeds, FilterFails, Exit
<1>5. ASSUME NEW f \in FilterIds, BackgroundError(f) \/ PartmanError(f)
      PROVE  dbfilter' \in FilterIds \cup {NoFilter}
  BY <1>5, Room DEF BackgroundError, PartmanError, FatalError
<1>6. CASE \/ SkipPage \/ PageReturns \/ LeaveRun \/ StartSlideshow \/ Finish
           \/ User \/ Ended \/ UNCHANGED vars
           \/ \E f \in FilterIds :
                AnswerAtOnce(f) \/ Ask(f) \/ QuestionReturns(f) \/ Crash(f) \/ PageError(f)
  <2>1. UNCHANGED dbfilter
    BY <1>6 DEF SkipPage, PageReturns, LeaveRun, StartSlideshow, Finish, User,
                NextOnFilterPage, NextOnUiPage, BackClicked, Quit, Ended, vars,
                AnswerAtOnce, Ask, QuestionReturns, Crash, PageError
  <2> QED BY <1>1, <2>1
<1> QED BY <1>2, <1>3, <1>4, <1>5, <1>6 DEF Next, Run, Filter, Fault

(* Every main loop is run()'s or a filter's. *)
LEMMA LoopsStep ==
  ASSUME FiltersOK, LoopsOK, [Next]_vars
  PROVE  LoopsOK'
<1> DEFINE L == FilterIds \cup {"run"}
<1>1. loops' \in Seq(L)
  <2> USE DEF LoopsOK
  <2>1. CASE UNCHANGED loops
    BY <2>1
  <2>2. CASE loops' = <<"run">> \/ loops' = <<>>
    <3>1. "run" \in L
      OBVIOUS
    <3> HIDE DEF L
    <3>2. <<"run">> \in Seq(L) /\ <<>> \in Seq(L)
      BY <3>1
    <3> QED BY <2>2, <3>2
  <2>3. ASSUME NEW f \in FilterIds, Ask(f) PROVE loops' \in Seq(L)
    BY <2>3 DEF Ask
  <2>4. ASSUME NEW f \in FilterIds, QuestionReturns(f) PROVE loops' \in Seq(L)
    <3>1. PICK n \in Nat : n = Len(loops) - 1 /\ \A i \in 1 .. n : loops[i] \in L
      BY <2>4 DEF QuestionReturns
    <3>2. SubSeq(loops, 1, n) \in Seq(L)
      BY <3>1, SubSeqProperties
    <3> QED BY <2>4, <3>1, <3>2 DEF QuestionReturns, Popped
  <2>5. CASE StartFilterPage \/ StartUiPage \/ PageReturns \/ StartSlideshow \/ Finish
    BY <2>2, <2>5 DEF StartFilterPage, StartUiPage, PageReturns, StartSlideshow, Finish
  <2>6. CASE \/ SkipPage \/ LeaveRun \/ User \/ Ended \/ UNCHANGED vars
             \/ \E f \in FilterIds : AnswerAtOnce(f) \/ FilterSucceeds(f) \/ Fault(f)
    <3>1. UNCHANGED loops
      BY <2>6 DEF SkipPage, LeaveRun, User, NextOnFilterPage, NextOnUiPage, BackClicked,
                  Quit, Ended, vars, AnswerAtOnce, FilterSucceeds, Fault, FilterFails,
                  Crash, BackgroundError, PartmanError, PageError
    <3> QED BY <2>1, <3>1
  <2> QED BY <2>3, <2>4, <2>5, <2>6 DEF Next, Run, Filter
<1>2. pending_quits' \in Nat
  <2> USE DEF LoopsOK
  <2>1. LoopQuits(dbfilter) \in Nat /\ \A f \in FilterIds : LoopQuits(f) \in Nat
    BY DEF LoopQuits
  <2>2. CASE UNCHANGED pending_quits
    BY <2>2
  <2>3. CASE PageReturns \/ Finish \/ \E f \in FilterIds : QuestionReturns(f)
    BY <2>3 DEF PageReturns, Finish, QuestionReturns
  <2>4. ASSUME NEW f \in FilterIds, FilterSucceeds(f) \/ FilterFails(f)
        PROVE  pending_quits' \in Nat
    <3>1. PICK more \in {0, 1} : Exit(f, more)
      BY <2>4 DEF FilterSucceeds, FilterFails
    <3> QED BY <2>1, <3>1, SMTT(30) DEF Exit
  <2>5. ASSUME NEW f \in FilterIds, BackgroundError(f) \/ PartmanError(f)
        PROVE  pending_quits' \in Nat
    BY <2>1, <2>5 DEF BackgroundError, PartmanError, FatalError
  <2>6. CASE User
    BY <2>1, <2>6 DEF User, NextOnFilterPage, NextOnUiPage, BackClicked, Quit
  <2>7. CASE \/ StartFilterPage \/ StartUiPage \/ SkipPage \/ LeaveRun \/ StartSlideshow
             \/ Ended \/ UNCHANGED vars
             \/ \E f \in FilterIds : AnswerAtOnce(f) \/ Ask(f) \/ Crash(f) \/ PageError(f)
    <3>1. UNCHANGED pending_quits
      BY <2>7 DEF StartFilterPage, StartUiPage, SkipPage, LeaveRun, StartSlideshow, Ended,
                  vars, AnswerAtOnce, Ask, Crash, PageError
    <3> QED BY <2>2, <3>1
  <2> QED BY <2>3, <2>4, <2>5, <2>6, <2>7 DEF Next, Run, Filter, Fault
<1> QED BY <1>1, <1>2 DEF LoopsOK

(* Leaving a main loop, or entering a filter's. *)
LEMMA Stack ==
  ASSUME LoopsOK, loops # <<>>
  PROVE  /\ Len(Popped) = Len(loops) - 1
         /\ \A i \in DOMAIN Popped : i \in DOMAIN loops /\ Popped[i] = loops[i]
<1> DEFINE L == FilterIds \cup {"run"}
<1>1. PICK n \in Nat : n = Len(loops) - 1 /\ \A i \in 1 .. n : loops[i] \in L
  BY DEF LoopsOK
<1>2. /\ SubSeq(loops, 1, n) \in Seq(L)
      /\ Len(SubSeq(loops, 1, n)) = IF 1 <= n THEN n - 1 + 1 ELSE 0
      /\ \A i \in 1 .. n - 1 + 1 : SubSeq(loops, 1, n)[i] = loops[1 + i - 1]
  BY <1>1, SubSeqProperties
<1>3. Popped = SubSeq(loops, 1, n)
  BY <1>1 DEF Popped
<1>4. Len(Popped) = n /\ DOMAIN Popped = 1 .. n
  BY <1>2, <1>3
<1>5. \A i \in 1 .. n : i \in DOMAIN loops /\ Popped[i] = loops[i]
  BY <1>1, <1>2, <1>3 DEF LoopsOK
<1> QED BY <1>1, <1>4, <1>5

(* Entering a filter's main loop. *)
LEMMA Pushed ==
  ASSUME LoopsOK, NEW f \in FilterIds
  PROVE  /\ Len(Append(loops, f)) = Len(loops) + 1 /\ Append(loops, f)[Len(loops) + 1] = f
         /\ \A i \in DOMAIN Append(loops, f) :
              i # Len(loops) + 1 => i \in DOMAIN loops /\ Append(loops, f)[i] = loops[i]
  BY DEF LoopsOK

(* run() stays in the list of pages, and the history is one. *)
LEMMA PlaceStep ==
  ASSUME PlaceOK, FiltersOK, LoopsOK, [Next]_vars
  PROVE  PlaceOK'
<1> USE DEF PlaceOK
<1> USE PagesAreNumbered
<1>1. CASE UNCHANGED <<stage, pagesindex, history>> /\ (OnStack("run")' => OnStack("run"))
  BY <1>1
<1>2. CASE UNCHANGED <<stage, pagesindex, history>> /\ pagesindex \in DOMAIN Pages
  BY <1>2
<1>3. CASE UNCHANGED <<pagesindex, history>> /\ stage' \in {"slideshow", "finished", "exited"}
  BY <1>3
<1>4. ASSUME NEW i \in DOMAIN Pages, SetPage(i) PROVE history' \in Seq(Entries)
  <2>1. Entry(i, "shown") \in Entries
    BY DEF Entry, Entries, Widgets
  <2> QED BY <1>4, <2>1, AddHistoryType DEF SetPage
<1>5. ASSUME AfterPage, pagesindex \in DOMAIN Pages
      PROVE  stage' = stage /\ pagesindex' \in 1 .. Len(Pages) + 1 /\ history' \in Seq(Entries)
  <2>1. PopHistory(history) \in Seq(Entries) /\ PopIndex(history, pagesindex) \in DOMAIN Pages
    BY <1>5, PopHistoryType
  <2> QED BY <1>5, <2>1 DEF AfterPage
<1>6. CASE StartFilterPage
  <2>1. UNCHANGED <<stage, pagesindex, history>> /\ pagesindex \in DOMAIN Pages
    BY <1>6 DEF StartFilterPage, place
  <2> QED BY <1>2, <2>1
<1>7. CASE StartUiPage
  <2>1. UNCHANGED <<stage, pagesindex>> /\ pagesindex \in DOMAIN Pages /\ SetPage(pagesindex)
    BY <1>7 DEF StartUiPage
  <2> QED BY <1>4, <2>1
<1>8. CASE SkipPage \/ PageReturns
  <2>1. AfterPage /\ pagesindex \in DOMAIN Pages /\ loops' = <<>>
    <3>1. CASE SkipPage
      BY <3>1 DEF SkipPage, AtLoopHead
    <3>2. CASE PageReturns
      <4>1. loops = <<"run">> /\ stage = "pages"
        BY <3>2 DEF PageReturns
      <4>2. OnStack("run")
        BY <4>1 DEF OnStack
      <4> QED BY <3>2, <4>1, <4>2 DEF PageReturns
    <3> QED BY <1>8, <3>1, <3>2
  <2>2. ~OnStack("run")'
    BY <2>1 DEF OnStack
  <2> QED BY <1>5, <2>1, <2>2
<1>9. CASE LeaveRun \/ StartSlideshow \/ Finish
  BY <1>3, <1>9 DEF LeaveRun, StartSlideshow, Finish
<1>10. ASSUME NEW f \in FilterIds, Ask(f) PROVE PlaceOK'
  <2> DEFINE i == CHOOSE j \in DOMAIN Pages : Pages[j] = filters[f].module
  <2>1. i \in DOMAIN Pages
    BY <1>10 DEF Ask, IsPage
  <2>2. SetPage(i) /\ UNCHANGED <<stage, pagesindex>> /\ loops' = Append(loops, f)
    BY <1>10 DEF Ask
  <2>3. history' \in Seq(Entries)
    <3> HIDE DEF i
    <3> QED BY <1>4, <2>1, <2>2
  <2>4. OnStack("run")' => OnStack("run")
    <3> HIDE DEF i
    <3>1. f # "run"
      BY FilterIdsAssumption
    <3> QED BY <2>2, <3>1, Pushed DEF OnStack
  <2> HIDE DEF i
  <2> QED BY <2>2, <2>3, <2>4
<1>11. ASSUME NEW f \in FilterIds, QuestionReturns(f) PROVE PlaceOK'
  <2>1. UNCHANGED <<stage, pagesindex, history>> /\ loops # <<>> /\ loops' = Popped
    BY <1>11 DEF QuestionReturns, place
  <2>2. OnStack("run")' => OnStack("run")
    BY <2>1, Stack DEF OnStack
  <2> QED BY <1>1, <2>1, <2>2
<1>12. ASSUME NEW f \in FilterIds, BackgroundError(f) \/ PartmanError(f) PROVE PlaceOK'
  <2>1. UNCHANGED <<stage, history, loops>> /\ pagesindex' \in {pagesindex, PartmanIndex}
    BY <1>12 DEF BackgroundError, PartmanError, FatalError
  <2> QED BY <2>1 DEF OnStack
<1>13. ASSUME NEW f \in FilterIds, Crash(f) PROVE PlaceOK'
  BY <1>3, <1>13 DEF Crash
<1>14. CASE \/ User \/ Ended \/ UNCHANGED vars
            \/ \E f \in FilterIds :
                 AnswerAtOnce(f) \/ FilterSucceeds(f) \/ FilterFails(f) \/ PageError(f)
  <2>1. UNCHANGED <<stage, pagesindex, history, loops>>
    BY <1>14 DEF User, NextOnFilterPage, NextOnUiPage, BackClicked, Quit, Ended, vars, place,
                 AnswerAtOnce, FilterSucceeds, FilterFails, PageError
  <2> QED BY <1>1, <2>1 DEF OnStack
<1> QED BY <1>6, <1>7, <1>8, <1>9, <1>10, <1>11, <1>12, <1>13, <1>14
        DEF Next, Run, Filter, Fault

(* The history variables: failures are counted, and a Back past            *)
(* partitioning is not forgotten.                                          *)
LEMMA HistoryStep ==
  ASSUME FaultsOK, [Next]_vars
  PROVE  /\ UNCHANGED faults \/ CanFault
         /\ reopened' \in BOOLEAN /\ (reopened => reopened')
<1> USE DEF FaultsOK
<1>1. ASSUME NEW f \in FilterIds, Ask(f) \/ Fault(f)
      PROVE  (UNCHANGED faults \/ CanFault) /\ UNCHANGED reopened
  BY <1>1 DEF Ask, Fault, FilterFails, Crash, BackgroundError, PartmanError, PageError
<1>2. CASE \/ Run \/ NextOnFilterPage \/ NextOnUiPage \/ Quit \/ Ended \/ UNCHANGED vars
           \/ \E f \in FilterIds : AnswerAtOnce(f) \/ QuestionReturns(f) \/ FilterSucceeds(f)
  <2>1. UNCHANGED <<faults, reopened>>
    BY <1>2 DEF Run, StartFilterPage, StartUiPage, SkipPage, PageReturns, LeaveRun,
                StartSlideshow, Finish, NextOnFilterPage, NextOnUiPage,
                Quit, Ended, vars, AnswerAtOnce, QuestionReturns, FilterSucceeds
  <2> QED BY <2>1
<1>3. CASE BackClicked
  BY <1>3 DEF BackClicked
<1> QED BY <1>1, <1>2, <1>3 DEF Next, User, Filter

LEMMA FaultsStep ==
  ASSUME FaultsOK, [Next]_vars
  PROVE  FaultsOK'
<1>1. CASE UNCHANGED faults
  BY <1>1, HistoryStep DEF FaultsOK
<1>2. CASE CanFault
  BY <1>2, HistoryStep, MaxFaultsAssumption DEF FaultsOK, CanFault
<1> QED BY <1>1, <1>2, HistoryStep

(* The flags are booleans. *)
LEMMA FlagsStep ==
  ASSUME FlagsOK, [Next]_vars
  PROVE  FlagsOK'
<1> USE DEF FlagsOK, place, progress, buttons
<1>1. CASE StartFilterPage \/ StartUiPage
  <2>1. CASE StartFilterPage
    BY <2>1 DEF StartFilterPage
  <2>2. CASE StartUiPage
    BY <2>2 DEF StartUiPage, SetPage
  <2> QED BY <1>1, <2>1, <2>2
<1>2. CASE SkipPage \/ PageReturns
  <2>1. CASE SkipPage
    BY <2>1 DEF SkipPage, AfterPage
  <2>2. CASE PageReturns
    BY <2>2 DEF PageReturns, AfterPage
  <2> QED BY <1>2, <2>1, <2>2
<1>3. CASE LeaveRun \/ StartSlideshow \/ Finish
  <2>1. CASE LeaveRun
    BY <2>1 DEF LeaveRun
  <2>2. CASE StartSlideshow
    BY <2>2 DEF StartSlideshow
  <2>3. CASE Finish
    BY <2>3 DEF Finish
  <2> QED BY <1>3, <2>1, <2>2, <2>3
<1>4. ASSUME NEW f \in FilterIds, Filter(f) PROVE FlagsOK'
  <2>1. CASE AnswerAtOnce(f) \/ QuestionReturns(f)
    BY <2>1 DEF AnswerAtOnce, QuestionReturns
  <2>2. CASE Ask(f)
    BY <2>2 DEF Ask, SetPage
  <2>3. CASE FilterSucceeds(f)
    BY <2>3 DEF FilterSucceeds, FindNextStep
  <2> QED BY <1>4, <2>1, <2>2, <2>3 DEF Filter
<1>5. ASSUME NEW f \in FilterIds, Fault(f) PROVE FlagsOK'
  <2>1. CASE FilterFails(f)
    BY <2>1 DEF FilterFails
  <2>2. CASE Crash(f)
    BY <2>2 DEF Crash
  <2>3. CASE PageError(f)
    BY <2>3 DEF PageError
  <2>4. CASE BackgroundError(f) \/ PartmanError(f)
    <3>1. /\ UNCHANGED <<backup, current_page, dbfilter_status, progress, allowed_go_backward>>
          /\ \/ allowed_change_step' = FALSE /\ installing' = FALSE /\ locked' = FALSE
             \/ UNCHANGED <<allowed_change_step, installing, locked>>
      BY <2>4 DEF BackgroundError, PartmanError, FatalError
    <3> QED BY <3>1, ZenonT(60)
  <2> QED BY <1>5, <2>1, <2>2, <2>3, <2>4 DEF Fault
<1>6. CASE NextOnFilterPage \/ BackClicked \/ Quit
  <2>1. CASE NextOnFilterPage
    BY <2>1 DEF NextOnFilterPage, Clicked
  <2>2. CASE BackClicked
    BY <2>2 DEF BackClicked, Clicked
  <2>3. CASE Quit
    BY <2>3 DEF Quit
  <2> QED BY <1>6, <2>1, <2>2, <2>3
<1>7. CASE NextOnUiPage
  BY <1>7 DEF NextOnUiPage, FindNextStep, Clicked
<1>8. CASE Ended \/ UNCHANGED vars
  BY <1>8 DEF Ended, vars
<1> QED BY <1>1, <1>2, <1>3, <1>4, <1>5, <1>6, <1>7, <1>8 DEF Next, Run, User

-----------------------------------------------------------------------------
(* The variables of the wizard always hold values of their types: however  *)
(* the user, the scripts and the failures interleave, run() never leaves   *)
(* the list of pages but for its end, Back never pops an empty history,    *)
(* and quits are never negative.                                           *)
THEOREM TypeInvariant == Spec => []TypeInv
<1>1. Init => TypeInv
  <2> SUFFICES ASSUME Init PROVE TypeInv
    OBVIOUS
  <2> USE DEF Init
  <2>1. PlaceOK
    <3>1. <<>> \in Seq(Entries) /\ ~OnStack("run")
      BY DEF OnStack
    <3>2. 1 \in 1 .. Len(Pages) + 1
      BY PagesAreNumbered
    <3> QED BY <3>1, <3>2 DEF PlaceOK
  <2>2. FiltersOK
    BY NewFilter DEF FiltersOK, Table
  <2>3. LoopsOK
    BY DEF LoopsOK
  <2>4. FlagsOK
    BY DEF FlagsOK
  <2>5. FaultsOK
    <3>1. faults \in 0 .. MaxFaults
      BY MaxFaultsAssumption
    <3>2. reopened \in BOOLEAN
      OBVIOUS
    <3> QED BY <3>1, <3>2 DEF FaultsOK
  <2> QED BY <2>1, <2>2, <2>3, <2>4, <2>5 DEF TypeInv
<1>2. TypeInv /\ [Next]_vars => TypeInv'
  <2> SUFFICES ASSUME TypeInv, [Next]_vars PROVE TypeInv'
    OBVIOUS
  <2>1. PlaceOK /\ FiltersOK /\ LoopsOK /\ FlagsOK /\ FaultsOK
    BY DEF TypeInv
  <2>2. PlaceOK'
    BY <2>1, PlaceStep
  <2>3. FiltersOK'
    BY <2>1, EveryStepIsTableStep, OwnerStep DEF FiltersOK, TableStep
  <2>4. LoopsOK'
    BY <2>1, LoopsStep
  <2>5. FlagsOK'
    BY <2>1, FlagsStep
  <2>6. FaultsOK'
    BY <2>1, FaultsStep
  <2> QED BY <2>2, <2>3, <2>4, <2>5, <2>6 DEF TypeInv
<1> QED BY <1>1, <1>2, PTL DEF Spec

(* The type invariant that the runs check. *)
THEOREM Typing == Spec => []TypeOK
  BY TypeInvariant, TypeInvIsTypeOK, PTL

-----------------------------------------------------------------------------
(* The copy of the system only runs on a partitioned disk in a known time  *)
(* zone, and the last phase only after the copy and the pages, whatever    *)
(* fails, is started again or is launched twice on the way.                *)
THEOREM StepsOrdered == Spec => []StepsInOrder
<1>1. StepsInOrder <=> \A f \in FilterIds : Justified(filters[f].module)
  BY DEF StepsInOrder, Running, Justified
<1>2. Init => StepsInOrder
  BY <1>1, NewFilter DEF Init, Justified
<1>3. TypeInv /\ StepsInOrder /\ [Next]_vars => StepsInOrder'
  <2> SUFFICES ASSUME TypeInv, StepsInOrder, [Next]_vars,
                      NEW g \in FilterIds
               PROVE  Justified(filters[g].module)'
    BY DEF StepsInOrder, Running, Justified
  <2>1. /\ partitioned => partitioned'
        /\ timezone_set => timezone_set'
        /\ finished_installing => finished_installing'
        /\ finished_pages => finished_pages'
    <3>1. CASE UNCHANGED progress
      BY <3>1 DEF progress
    <3>2. CASE NextOnUiPage \/ \E f \in FilterIds : FilterSucceeds(f)
      BY <3>2 DEF NextOnUiPage, FilterSucceeds, FindNextStep
    <3>3. CASE \/ Run \/ NextOnFilterPage \/ BackClicked \/ Quit \/ Ended \/ UNCHANGED vars
               \/ \E f \in FilterIds :
                    AnswerAtOnce(f) \/ Ask(f) \/ QuestionReturns(f) \/ Fault(f)
      <4>1. UNCHANGED progress
        BY <3>3 DEF Run, StartFilterPage, StartUiPage, SkipPage, PageReturns, LeaveRun,
                    StartSlideshow, Finish, NextOnFilterPage, BackClicked, Quit, Ended, vars,
                    AnswerAtOnce, Ask, QuestionReturns, Fault, FilterFails, Crash,
                    BackgroundError, PartmanError, PageError
      <4> QED BY <3>1, <4>1
    <3> QED BY <3>2, <3>3 DEF Next, User, Filter
  <2>2. \/ filters'[g].module = filters[g].module
        \/ filters'[g].module \in Background => Justified(filters[g].module)'
    BY EveryStepIsTableStep DEF TypeInv, TableStep
  <2>3. CASE filters'[g].module = filters[g].module
    <3>1. Justified(filters[g].module)
      BY <1>1
    <3>2. filters'[g].module = "install" => partitioned' /\ timezone_set'
      BY <2>1, <2>3, <3>1 DEF Justified
    <3>3. filters'[g].module = "plugininstall" => finished_installing' /\ finished_pages'
      BY <2>1, <2>3, <3>1 DEF Justified
    <3> QED BY <3>2, <3>3 DEF Justified
  <2>4. CASE filters'[g].module \in Background => Justified(filters[g].module)'
    BY <2>4 DEF Background, Justified
  <2> QED BY <2>2, <2>3, <2>4
<1> QED BY <1>2, <1>3, TypeInvariant, PTL DEF Spec

(* The page's filter and the owners of the main loops are alive, and no    *)
(* filter is in two main loops, however often one filter takes another's   *)
(* place.                                                                  *)
OwnerAlive == dbfilter # NoFilter => IsPage(dbfilter)
StackAlive ==
  /\ \A i \in DOMAIN loops : loops[i] # "run" => IsPage(loops[i])
  /\ \A i, j \in DOMAIN loops : loops[i] = loops[j] => i = j

(* The filter that Next and Back act on is alive, after any step. *)
LEMMA OwnerStaysAlive ==
  ASSUME TypeInv, OwnerAlive, [Next]_vars
  PROVE  OwnerAlive'
<1>1. TableStep /\ FiltersOK
  BY EveryStepIsTableStep DEF TypeInv
<1>2. CASE dbfilter' = NoFilter
  BY <1>2 DEF OwnerAlive
<1>3. CASE dbfilter' = dbfilter
  <2> SUFFICES ASSUME dbfilter # NoFilter PROVE IsPage(dbfilter)'
    BY <1>3 DEF OwnerAlive
  <2>1. dbfilter \in FilterIds /\ IsPage(dbfilter)
    BY <1>1 DEF FiltersOK, OwnerAlive
  <2>2. filters'[dbfilter].module = filters[dbfilter].module
    BY <1>1, <1>3, <2>1 DEF TableStep
  <2> QED BY <1>3, <2>1, <2>2 DEF IsPage
<1>4. CASE StartFilterPage
  <2>1. Page \in PageNames /\ dbfilter' = Fresh(filters) /\ Fresh(filters) \in FilterIds
    BY <1>4, Room DEF StartFilterPage, Page, PageNames
  <2>2. filters'[dbfilter'] = Started(Page)
    BY <1>1, <1>4, <2>1 DEF StartFilterPage, FiltersOK, Table
  <2> QED BY <2>1, <2>2, NewFilter DEF OwnerAlive, IsPage
<1>5. ASSUME NEW f \in FilterIds, NEW d \in BOOLEAN, FatalError(f, d), installing
      PROVE  OwnerAlive'
  <2>1. dbfilter' = Fresh(filters) /\ Fresh(filters) \in FilterIds /\ filters' \in Table
    BY <1>1, <1>5, Room DEF FatalError, TableStep
  <2>2. PICK fs : filters' = [fs EXCEPT ![Fresh(filters)] = Started("partman")] /\ fs \in Table
    <3>1. Cancelled(dbfilter) \in Table
      BY <1>1, Cancel DEF FiltersOK, Told
    <3>2. [Cancelled(dbfilter) EXCEPT ![f].done = d, ![f].succeeded = FALSE,
                                      ![f].go = "none"] \in Table
      BY <3>1, Tell DEF Told
    <3> QED BY <1>5, <3>2 DEF FatalError
  <2>3. filters'[dbfilter'] = Started("partman")
    BY <2>1, <2>2 DEF Table
  <2> QED BY <2>3, NewFilter, PagesAssumption DEF OwnerAlive, IsPage
<1>6. ASSUME NEW f \in FilterIds, BackgroundError(f) \/ PartmanError(f) PROVE OwnerAlive'
  <2>1. PICK d \in BOOLEAN : FatalError(f, d)
    BY <1>6 DEF BackgroundError, PartmanError
  <2>2. CASE installing
    BY <1>5, <2>1, <2>2
  <2>3. CASE ~installing
    BY <1>3, <2>1, <2>3 DEF FatalError
  <2> QED BY <2>2, <2>3
<1>7. ASSUME NEW f \in FilterIds, FilterSucceeds(f) \/ FilterFails(f)
      PROVE  dbfilter' \in {dbfilter, NoFilter}
  BY <1>7 DEF FilterSucceeds, FilterFails, Exit
<1>8. CASE \/ StartUiPage \/ SkipPage \/ PageReturns \/ LeaveRun \/ StartSlideshow
           \/ Finish \/ User \/ Ended \/ UNCHANGED vars
           \/ \E f \in FilterIds :
                AnswerAtOnce(f) \/ Ask(f) \/ QuestionReturns(f) \/ Crash(f) \/ PageError(f)
  <2>1. dbfilter' \in {dbfilter, NoFilter}
    BY <1>8 DEF StartUiPage, SkipPage, PageReturns, LeaveRun, StartSlideshow, Finish, User,
                NextOnFilterPage, NextOnUiPage, BackClicked, Quit, Ended, vars,
                AnswerAtOnce, Ask, QuestionReturns, Crash, PageError
  <2> QED BY <1>2, <1>3, <2>1
<1> QED BY <1>2, <1>3, <1>4, <1>6, <1>7, <1>8 DEF Next, Run, Filter, Fault

(* The filters whose main loops are run are alive, and in one each. *)
LEMMA StackStaysAlive ==
  ASSUME TypeInv, StackAlive, [Next]_vars
  PROVE  StackAlive'
<1>1. TableStep /\ LoopsOK
  BY EveryStepIsTableStep DEF TypeInv
<1>2. ASSUME NEW i \in DOMAIN loops, loops[i] # "run"
      PROVE  filters'[loops[i]].module \in PageNames
  <2>1. loops[i] \in FilterIds /\ OnStack(loops[i]) /\ IsPage(loops[i])
    BY <1>1, <1>2 DEF LoopsOK, OnStack, StackAlive
  <2> QED BY <1>1, <2>1 DEF TableStep, IsPage
<1>3. ASSUME \A i \in DOMAIN loops' : i \in DOMAIN loops /\ loops'[i] = loops[i]
      PROVE  StackAlive'
  BY <1>2, <1>3 DEF StackAlive, IsPage
<1>4. CASE loops' = <<"run">> \/ loops' = <<>>
  BY <1>4 DEF StackAlive
<1>5. ASSUME NEW f \in FilterIds, Ask(f) PROVE StackAlive'
  <2> DEFINE n == Len(loops) + 1
  <2>1. loops' = Append(loops, f) /\ ~OnStack(f) /\ IsPage(f)
    BY <1>5 DEF Ask
  <2>2. /\ loops'[n] = f
        /\ \A i \in DOMAIN loops' : i # n => i \in DOMAIN loops /\ loops'[i] = loops[i]
    BY <1>1, <2>1, Pushed
  <2>3. filters'[f].module \in PageNames
    <3>1. Told(filters, filters')
      BY <1>5, Tell DEF Ask, TypeInv, FiltersOK
    <3> QED BY <2>1, <3>1 DEF Told, IsPage
  <2> HIDE DEF n
  <2>4. \A i \in DOMAIN loops' : loops'[i] # "run" => filters'[loops'[i]].module \in PageNames
    BY <1>2, <2>2, <2>3
  <2>5. \A i \in DOMAIN loops' : i # n => loops'[i] # f
    BY <2>1, <2>2 DEF OnStack
  <2>6. \A i, j \in DOMAIN loops' : loops'[i] = loops'[j] => i = j
    BY <2>2, <2>5 DEF StackAlive
  <2> QED BY <2>4, <2>6 DEF StackAlive, IsPage
<1>6. ASSUME NEW f \in FilterIds, QuestionReturns(f) PROVE StackAlive'
  <2>1. loops # <<>> /\ loops' = Popped
    BY <1>6 DEF QuestionReturns
  <2> QED BY <1>1, <1>3, <2>1, Stack
<1>7. CASE StartFilterPage \/ StartUiPage \/ PageReturns \/ StartSlideshow \/ Finish
  BY <1>4, <1>7 DEF StartFilterPage, StartUiPage, PageReturns, StartSlideshow, Finish
<1>8. CASE \/ SkipPage \/ LeaveRun \/ User \/ Ended \/ UNCHANGED vars
           \/ \E f \in FilterIds : AnswerAtOnce(f) \/ FilterSucceeds(f) \/ Fault(f)
  <2>1. UNCHANGED loops
    BY <1>8 DEF SkipPage, LeaveRun, User, NextOnFilterPage, NextOnUiPage, BackClicked,
                Quit, Ended, vars, AnswerAtOnce, FilterSucceeds, Fault, FilterFails,
                Crash, BackgroundError, PartmanError, PageError
  <2> QED BY <1>3, <2>1
<1> QED BY <1>5, <1>6, <1>7, <1>8 DEF Next, Run, Filter

(* No click and no main loop ever reaches a filter whose script has ended. *)
THEOREM DeadFiltersForgotten == Spec => []NoDeadFilter
<1>1. Init => OwnerAlive /\ StackAlive
  BY DEF Init, OwnerAlive, StackAlive
<1>2. TypeInv /\ OwnerAlive /\ StackAlive /\ [Next]_vars => (OwnerAlive /\ StackAlive)'
  BY OwnerStaysAlive, StackStaysAlive
<1>3. OwnerAlive /\ StackAlive => NoDeadFilter
  BY DEF OwnerAlive, StackAlive, NoDeadFilter
<1> QED BY <1>1, <1>2, <1>3, TypeInvariant, PTL DEF Spec
=============================================================================
