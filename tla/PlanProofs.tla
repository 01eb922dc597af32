----------------------------- MODULE PlanProofs -----------------------------
(* What Wizard.tla claims of a wizard up to the first failure, for any     *)
(* list of pages and any number of filters: no quit is lost, the user is   *)
(* locked in while a step works on the disk, the buttons reach the page    *)
(* that is shown, and, unless the user goes back from past partitioning,   *)
(* the background steps carry out InstallPlan.                             *)
EXTENDS WizardProofs, FiniteSetTheorems

-----------------------------------------------------------------------------
(* The inductive invariant *)

Owned == dbfilter # NoFilter
Own   == filters[dbfilter]
Asking == Owned /\ loops = <<"run", dbfilter>>

(* The main loops are those of run() and of the page's question, and no    *)
(* filter but the page's is a page's.                                      *)
Shape ==
  /\ stage = "pages" => loops = <<>> \/ loops = <<"run">> \/ Asking
  /\ stage = "slideshow" => loops = <<"run">>
  /\ stage \in {"slideshow", "finished"} => ~Owned
  /\ \A f \in FilterIds : IsPage(f) => f = dbfilter
  /\ \A f \in FilterIds : filters[f].loop => f = dbfilter /\ Asking /\ pending_quits = 0
  /\ Asking => Own.go = "none"

(* Unless the user is quitting, a quit is asked for exactly when the main  *)
(* loop that runs is to end, and the buttons are disabled until the next   *)
(* question.                                                               *)
Quits ==
  current_page /\ Up =>
    /\ loops = <<>> => ~Owned /\ pending_quits = 0
    /\ loops = <<"run">> /\ Owned => pending_quits = 0 /\ ~allowed_change_step
    /\ Asking => /\ pending_quits <= 1 /\ (pending_quits = 0 => Own.loop /\ ~backup)
                 /\ allowed_change_step => pending_quits = 0
    /\ loops = <<"run">> /\ ~Owned =>
         /\ pending_quits <= 1 /\ (pending_quits = 0 => ~backup)
         /\ pending_quits > 0 /\ stage = "pages" => ~allowed_change_step

(* The page's script is told to back up only if the user goes back or      *)
(* quits.                                                                  *)
Answers ==
  /\ Owned /\ ~current_page => Own.done
  /\ Owned /\ current_page => pagesindex \in DOMAIN Pages /\ Own.module = Pages[pagesindex]
  /\ Owned /\ current_page /\ backup => ~Own.succeeded /\ Own.go # "ok"
  /\ Owned /\ current_page /\ ~backup =>
       Own.go # "backup" /\ (Own.done \/ pending_quits > 0 => Own.succeeded)
  /\ Up /\ ~Owned /\ current_page /\ ~backup => ~dbfilter_status

(* The page has ended, or run() is past it. *)
Over == loops = <<"run">> /\ ~Owned /\ pending_quits > 0
Left(i) == pagesindex > i \/ (pagesindex = i /\ Over /\ ~backup)
Begun == partitioned \/ \E f \in FilterIds : filters[f].module = "partman_commit"

(* Where run() is tells whether the partitions were begun and the pages    *)
(* are over.  Nobody quits once they were, and only then can the user have *)
(* gone back to partitioning.                                              *)
Course ==
  /\ current_page => /\ Left(PartmanIndex) => Begun
                     /\ finished_pages <=> Left(Len(Pages))
  /\ ~current_page =>
       /\ pagesindex <= PartmanIndex /\ ~finished_pages
       /\ Owned \/ allowed_change_step => ~Begun
       /\ Owned => \E i \in 1 .. PartmanIndex : Own.module = Pages[i]
  /\ pagesindex = Len(Pages) + 1 => ~backup
  /\ reopened => Begun /\ current_page

(* The steps come after what they need. *)
Ordered ==
  /\ \A f \in FilterIds :
       /\ filters[f].module = "install" => partitioned
       /\ filters[f].module = "plugininstall" => finished_installing /\ finished_pages
  /\ finished_installing => partitioned

(* The user is locked in from the first of them on. *)
Ends ==
  /\ Up /\ Begun => locked
  /\ stage \in {"slideshow", "finished"} => pagesindex = Len(Pages) + 1 /\ current_page

(* Unless the user went back, each page from partitioning on does what it  *)
(* has to do once: when it is left, or, if the user quits before the work  *)
(* has begun, not at all or without effect on the others.                  *)
Once ==
  /\ current_page =>
       /\ Begun => Left(PartmanIndex)
       /\ timezone_set =>
            \A i \in DOMAIN Pages : Pages[i] = "timezone" /\ i > PartmanIndex => Left(i)
  /\ ~current_page /\ timezone_set =>
       \A i \in DOMAIN Pages : Pages[i] = "timezone" => i < PartmanIndex
  /\ pagesindex > PartmanIndex => ~backup
  /\ pagesindex <= PartmanIndex =>
       \A i \in DOMAIN history : history[i].page <= PartmanIndex

(* One step at a time works on the target, and is not done again. *)
Working(f) == filters[f].module \in Background
Work ==
  /\ \A f, g \in FilterIds : Working(f) /\ Working(g) => f = g
  /\ \A f \in FilterIds :
       /\ filters[f].module = "partman_commit" => ~partitioned
       /\ filters[f].module = "install" => partitioned /\ timezone_set /\ ~finished_installing
       /\ filters[f].module = "plugininstall" => finished_installing /\ finished_pages
  /\ finished_installing => partitioned /\ timezone_set

(* The slideshow ends with the last of them. *)
Last ==
  (stage = "slideshow" /\ pending_quits > 0) \/ stage = "finished" =>
    /\ finished_installing /\ finished_pages
    /\ \A f \in FilterIds : ~Working(f)

Sound == Shape /\ Quits /\ Answers /\ Course /\ Ordered /\ Ends
Straight == Once /\ Work /\ Last
Calm == Sound /\ (~reopened => Straight)

-----------------------------------------------------------------------------
(* Lemmas *)

(* Main loops that are not the same. *)
LEMMA Loops ==
  ASSUME NEW f \in FilterIds
  PROVE  /\ <<>> # <<"run">> /\ <<>> # <<"run", f>> /\ <<"run">> # <<"run", f>>
         /\ Len(<<>>) = 0 /\ Len(<<"run">>) = 1 /\ Len(<<"run", f>>) = 2
         /\ Append(<<"run">>, f) = <<"run", f>>
         /\ SubSeq(<<"run", f>>, 1, Len(<<"run", f>>) - 1) = <<"run">>
<1>1. Len(<<>>) = 0 /\ Len(<<"run">>) = 1 /\ Len(<<"run", f>>) = 2
  OBVIOUS
<1>2. <<>> # <<"run">> /\ <<>> # <<"run", f>> /\ <<"run">> # <<"run", f>>
  BY <1>1
<1> DEFINE L == FilterIds \cup {"run"}
<1>3. f \in L /\ "run" \in L
  OBVIOUS
<1> HIDE DEF L
<1>4. <<"run">> \in Seq(L) /\ <<"run", f>> \in Seq(L)
  BY <1>3
<1>5. Append(<<"run">>, f) = <<"run", f>>
  <2>1. /\ Append(<<"run">>, f) \in Seq(L) /\ Len(Append(<<"run">>, f)) = 2
        /\ Append(<<"run">>, f)[1] = "run" /\ Append(<<"run">>, f)[2] = f
    BY <1>1, <1>3, <1>4, AppendProperties
  <2>2. \A i \in 1 .. 2 : Append(<<"run">>, f)[i] = <<"run", f>>[i]
    BY <2>1
  <2> QED BY <1>1, <1>4, <2>1, <2>2, SeqEqual
<1>6. SubSeq(<<"run", f>>, 1, Len(<<"run", f>>) - 1) = <<"run">>
  <2> DEFINE s == SubSeq(<<"run", f>>, 1, 1)
  <2>1. \A i \in 1 .. 1 : <<"run", f>>[i] \in L
    BY <1>3
  <2>2. s \in Seq(L) /\ Len(s) = 1 /\ s[1] = "run"
    BY <2>1, SubSeqProperties
  <2> HIDE DEF s
  <2>3. \A i \in 1 .. 1 : s[i] = <<"run">>[i]
    BY <2>2
  <2>4. s = <<"run">>
    BY <1>1, <1>4, <2>2, <2>3, SeqEqual
  <2> QED BY <1>1, <2>4 DEF s
<1> QED BY <1>1, <1>2, <1>5, <1>6

(* The quit that is asked of a filter's main loop, if it is in one. *)
LEMMA OwnQuits ==
  /\ ~Owned => LoopQuits(dbfilter) = 0
  /\ Owned => LoopQuits(dbfilter) = IF Own.loop THEN 1 ELSE 0
  BY DEF LoopQuits, Owned, Own

SameWork ==
  \A f \in FilterIds, b \in Background : filters'[f].module = b <=> filters[f].module = b

(* As long as no step begins or ends, what is known of them stays.         *)
LEMMA WorkKept ==
  ASSUME Calm, SameWork, UNCHANGED progress
  PROVE  /\ Ordered' /\ (Begun' <=> Begun)
         /\ \A f \in FilterIds : Working(f)' <=> Working(f)
         /\ ~reopened => Work'
<1>1. Ordered' /\ (Begun' <=> Begun) /\ \A f \in FilterIds : Working(f)' <=> Working(f)
  BY DEF Calm, Sound, Ordered, SameWork, Background, Working, Begun, progress
<1>2. ~reopened => Work'
  BY DEF Calm, Straight, Work, SameWork, Background, Working, progress
<1> QED BY <1>1, <1>2

(* Some filter runs step s. *)
AtWork(s) == \E f \in FilterIds : filters[f].module = s

LEMMA ToldIsSameWork == Told(filters, filters') => SameWork
  BY DEF Told, SameWork

(* What is known of the wizard before a step that the user has not quit. *)
LEMMA Facts ==
  ASSUME TypeInv
  PROVE  /\ filters \in Table /\ dbfilter \in FilterIds \cup {NoFilter}
         /\ Owned => dbfilter \in FilterIds
         /\ pending_quits \in Nat /\ pagesindex \in 1 .. Len(Pages) + 1
         /\ PartmanIndex \in 1 .. Len(Pages) /\ Len(Pages) \in Nat
         /\ Pages[PartmanIndex] = "partman" /\ PartmanIndex < Len(Pages)
         /\ DOMAIN Pages = 1 .. Len(Pages)
         /\ \A i, j \in DOMAIN Pages : Pages[i] = Pages[j] => i = j
         /\ \A i \in DOMAIN Pages : Pages[i] \in PageNames
         /\ \A m \in PageNames : m \notin Background /\ m # "none"
         /\ NoFilter \notin FilterIds /\ "run" \notin FilterIds
<1>1. PartmanIndex \in 1 .. Len(Pages) /\ Len(Pages) \in Nat /\ Pages[PartmanIndex] = "partman"
  BY PagesAreNumbered
<1>2. Pages[Len(Pages)] # "partman"
  BY PagesAssumption
<1>3. PartmanIndex < Len(Pages)
  BY <1>1, <1>2
<1>4. \A i \in DOMAIN Pages : Pages[i] \in PageNames
  BY DEF PageNames
<1> QED
  BY <1>1, <1>3, <1>4, PagesAreNumbered, PagesAssumption, FilterIdsAssumption
     DEF TypeInv, FiltersOK, LoopsOK, PlaceOK, Owned

LEMMA StartFilterPageCalm ==
  ASSUME TypeInv, Calm, StartFilterPage
  PROVE  Calm'
<1> DEFINE f == Fresh(filters)
<1>1. /\ f \in FilterIds /\ f # NoFilter /\ filters[f] = Idle
      /\ dbfilter' = f /\ loops' = <<"run">>
      /\ filters' = [filters EXCEPT ![f] = Started(Page)]
      /\ stage = "pages" /\ loops = <<>> /\ current_page /\ pagesindex \in DOMAIN Pages
      /\ ~allowed_change_step'
      /\ UNCHANGED <<place, dbfilter_status, pending_quits, locked, progress, reopened>>
  BY Room, FilterIdsAssumption DEF StartFilterPage, AtLoopHead
<1> HIDE DEF f
<1>2. Page \in PageNames /\ Page \notin Background /\ Page # "none"
  BY <1>1, Facts DEF Page
<1>3. filters'[f] = Started(Page) /\ \A g \in FilterIds \ {f} : filters'[g] = filters[g]
  BY <1>1, Facts DEF Table
<1>4. /\ filters'[f].module = Page /\ ~filters'[f].loop /\ ~filters'[f].done
      /\ ~filters'[f].succeeded /\ filters'[f].go = "none"
      /\ filters[f].module = "none"
  BY <1>1, <1>3 DEF Started, Idle
<1>5. ~Owned /\ pending_quits = 0
  BY <1>1 DEF Calm, Sound, Quits, Up
<1>6. loops' # <<>> /\ loops' # <<"run", f>>
  BY <1>1, Loops
<1>7. SameWork
  BY <1>2, <1>3, <1>4 DEF SameWork, Background
<1>8. /\ Ordered' /\ (Begun' <=> Begun)
      /\ \A g \in FilterIds : Working(g)' <=> Working(g)
      /\ ~reopened => Work'
  BY <1>1, <1>7, WorkKept
<1>9. \A g \in FilterIds : ~IsPage(g) /\ ~filters[g].loop
  BY <1>5, Facts DEF Calm, Sound, Shape, Owned
<1>10. Shape'
  BY <1>1, <1>3, <1>4, <1>6, <1>9 DEF Shape, Asking, IsPage, place
<1>11. Quits'
  BY <1>1, <1>5, <1>6 DEF Quits, Asking, Owned, place
<1>12. Answers'
  BY <1>1, <1>3, <1>4, <1>5 DEF Answers, Owned, Own, Page, place
<1>13. \A i \in 1 .. Len(Pages) : Left(i)' <=> Left(i)
  BY <1>1, <1>5, Loops DEF Left, Over, place
<1>14. Course'
  BY <1>1, <1>8, <1>13, Facts DEF Calm, Sound, Course, place, progress
<1>15. Ends'
  BY <1>1, <1>5, <1>8 DEF Calm, Sound, Ends, Up, place
<1>16. ASSUME ~reopened PROVE Once' /\ Last'
  <2>1. Once'
    BY <1>1, <1>8, <1>13, <1>16, Facts DEF Calm, Straight, Once, place, progress
  <2>2. Last'
    BY <1>1 DEF Last, place
  <2> QED BY <2>1, <2>2
<1> QED BY <1>1, <1>8, <1>10, <1>11, <1>12, <1>14, <1>15, <1>16 DEF Calm, Sound, Straight

(* The history of a wizard that has not gone past partitioning names no    *)
(* page past it.                                                           *)
UpToPartman == \A i \in DOMAIN history : history[i].page <= PartmanIndex

LEMMA HistoryGrows ==
  ASSUME TypeInv, UpToPartman, NEW i \in 1 .. PartmanIndex, SetPage(i)
  PROVE  UpToPartman'
<1> DEFINE E == EntriesTo(PartmanIndex)
<1>1. history \in Seq(Entries) /\ PartmanIndex \in Nat
  BY Facts DEF TypeInv, PlaceOK
<1>2. \A j \in 1 .. Len(history) : history[j] \in E
  <2> SUFFICES ASSUME NEW j \in 1 .. Len(history) PROVE history[j] \in E
    OBVIOUS
  <2>1. history[j] \in Entries /\ history[j].page <= PartmanIndex
    BY <1>1 DEF UpToPartman
  <2> QED BY <1>1, <2>1, Facts DEF Entries, EntriesTo
<1>3. history \in Seq(E)
  <2> HIDE DEF E
  <2>1. history \in [1 .. Len(history) -> E] /\ Len(history) \in Nat
    BY <1>1, <1>2
  <2> QED BY <2>1, SeqDef
<1>4. Entry(i, "shown") \in E
  BY DEF Entry, EntriesTo, Widgets
<1>5. history' \in Seq(E)
  BY <1>1, <1>3, <1>4, AddHistoryUpTo DEF SetPage
<1>6. \A j \in DOMAIN history' : history'[j] \in E
  <2> HIDE DEF E
  <2> QED BY <1>5
<1> QED BY <1>1, <1>6 DEF UpToPartman, EntriesTo

LEMMA HistoryShrinks ==
  ASSUME TypeInv, UpToPartman, pagesindex \in 1 .. PartmanIndex
  PROVE  /\ PopIndex(history, pagesindex) \in 1 .. PartmanIndex
         /\ \A j \in DOMAIN PopHistory(history) : PopHistory(history)[j].page <= PartmanIndex
<1>1. history \in Seq(Entries)
  BY DEF TypeInv, PlaceOK
<1>2. CASE Len(history) < 2
  BY <1>1, <1>2 DEF PopIndex, PopHistory, UpToPartman
<1>3. CASE ~(Len(history) < 2)
  <2>0. Len(history) \in Nat /\ DOMAIN history = 1 .. Len(history)
    BY <1>1
  <2>9. Len(history) - 1 \in Nat /\ Len(history) - 1 \in DOMAIN history
    BY <1>3, <2>0
  <2>1. PICK n \in Nat : n = Len(history) - 1 /\ n \in DOMAIN history
    BY <2>9
  <2>2. history[n] \in Entries /\ history[n].page <= PartmanIndex
    BY <1>1, <2>1 DEF UpToPartman
  <2>3. PopIndex(history, pagesindex) = history[n].page
    BY <1>3, <2>1 DEF PopIndex
  <2>4. PopIndex(history, pagesindex) \in 1 .. PartmanIndex
    BY <2>2, <2>3, Facts DEF Entries
  <2>5. PopHistory(history) = SubSeq(history, 1, n)
    BY <1>3, <2>1 DEF PopHistory
  <2>6. \A j \in 1 .. n : history[j] \in Entries
    BY <1>1, <2>1
  <2>7. /\ Len(SubSeq(history, 1, n)) = n /\ SubSeq(history, 1, n) \in Seq(Entries)
        /\ \A j \in 1 .. n : SubSeq(history, 1, n)[j] = history[j]
    BY <1>1, <2>1, <2>6, SubSeqProperties
  <2>8. \A j \in DOMAIN PopHistory(history) : PopHistory(history)[j].page <= PartmanIndex
    BY <1>1, <2>1, <2>5, <2>7 DEF UpToPartman
  <2> QED BY <2>4, <2>8
<1> QED BY <1>2, <1>3

LEMMA StartUiPageCalm ==
  ASSUME TypeInv, Calm, StartUiPage
  PROVE  Calm'
<1>1. /\ dbfilter' = NoFilter /\ ~dbfilter_status' /\ SetPage(pagesindex)
      /\ loops' = <<"run">> /\ allowed_change_step' /\ ~backup' /\ current_page'
      /\ stage = "pages" /\ loops = <<>> /\ current_page /\ pagesindex \in DOMAIN Pages
      /\ UNCHANGED <<stage, pagesindex, filters, pending_quits, locked, progress, reopened>>
  BY DEF StartUiPage, AtLoopHead, SetPage
<1>2. ~Owned /\ pending_quits = 0
  BY <1>1 DEF Calm, Sound, Quits, Up
<1>3. /\ Ordered' /\ (Begun' <=> Begun)
      /\ \A g \in FilterIds : Working(g)' <=> Working(g)
      /\ ~reopened => Work'
  BY <1>1, WorkKept DEF SameWork
<1>4. ~Owned'
  BY <1>1 DEF Owned
<1>5. Shape'
  <2>1. \A g \in FilterIds : ~IsPage(g) /\ ~filters[g].loop
    BY <1>2, Facts DEF Calm, Sound, Shape, Owned
  <2> QED BY <1>1, <1>4, <2>1 DEF Shape, Asking, IsPage
<1>6. Quits'
  BY <1>1, <1>2, <1>4, Loops DEF Quits, Asking
<1>7. Answers'
  BY <1>1, <1>4 DEF Answers
<1>8. \A i \in 1 .. Len(Pages) : Left(i)' <=> Left(i)
  BY <1>1, <1>2, Loops DEF Left, Over
<1>9. Course'
  BY <1>1, <1>3, <1>8, Facts DEF Calm, Sound, Course, progress
<1>10. Ends'
  BY <1>1, <1>3 DEF Calm, Sound, Ends, Up
<1>11. ASSUME ~reopened PROVE Once' /\ Last'
  <2>1. ASSUME pagesindex <= PartmanIndex PROVE UpToPartman'
    <3>1. UpToPartman /\ pagesindex \in 1 .. PartmanIndex
      BY <1>11, <2>1, Facts DEF Calm, Straight, Once, UpToPartman
    <3> QED BY <1>1, <3>1, HistoryGrows
  <2>2. Once'
    BY <1>1, <1>3, <1>8, <1>11, <2>1, Facts DEF Calm, Straight, Once, progress, UpToPartman
  <2>3. Last'
    BY <1>1 DEF Last
  <2> QED BY <2>2, <2>3
<1> QED BY <1>1, <1>3, <1>5, <1>6, <1>7, <1>9, <1>10, <1>11 DEF Calm, Sound, Straight

(* run() goes on to the next page, or back. *)
LEMMA AfterPageCalm ==
  ASSUME TypeInv, Calm, SkipPage \/ PageReturns
  PROVE  Calm'
<1>1. /\ stage = "pages" /\ stage' = "pages" /\ loops' = <<>> /\ AfterPage
      /\ UNCHANGED <<backup, dbfilter, filters, locked, progress, allowed_change_step, reopened>>
      /\ pagesindex \in DOMAIN Pages
      /\ \/ loops = <<>> /\ pending_quits' = pending_quits /\ current_page /\ Page \in Skippable
         \/ loops = <<"run">> /\ pending_quits > 0 /\ pending_quits' = 0
  <2>1. ASSUME stage = "pages", loops = <<"run">> PROVE pagesindex \in DOMAIN Pages
    <3>1. 1 \in DOMAIN <<"run">> /\ <<"run">>[1] = "run"
      OBVIOUS
    <3> QED BY <2>1, <3>1 DEF TypeInv, PlaceOK, OnStack
  <2> QED BY <2>1 DEF SkipPage, PageReturns, AtLoopHead, AfterPage, place, buttons
<1>2. current_page => ~Owned
  BY <1>1, Facts DEF Calm, Sound, Quits, Up
<1>3. current_page => pending_quits' = 0
  BY <1>1 DEF Calm, Sound, Quits, Up
<1>4. /\ Ordered' /\ (Begun' <=> Begun)
      /\ \A g \in FilterIds : Working(g)' <=> Working(g)
      /\ ~reopened => Work'
  BY <1>1, WorkKept DEF SameWork
<1>5. \A g \in FilterIds : ~filters[g].loop
  BY <1>1, <1>2, Facts, Loops DEF Calm, Sound, Shape, Asking
<1>6. (Owned' <=> Owned) /\ ~Asking' /\ ~Over'
  BY <1>1, Facts, Loops DEF Owned, Asking, Over
<1>7. Shape'
  BY <1>1, <1>5, <1>6 DEF Calm, Sound, Shape, IsPage
<1>8. ~(~backup /\ current_page /\ dbfilter_status)
  BY <1>1, <1>2 DEF Calm, Sound, Answers, Up
<1>9. current_page' = current_page
  BY <1>1, <1>8 DEF AfterPage
<1>10. Quits'
  BY <1>1, <1>2, <1>3, <1>6, <1>9, Loops DEF Quits
<1>11. Answers'
  <2>1. Own' = Own
    BY <1>1 DEF Own
  <2>2. current_page /\ ~backup => ~dbfilter_status'
    BY <1>1 DEF AfterPage
  <2> QED BY <1>1, <1>2, <1>6, <1>9, <2>1, <2>2 DEF Calm, Sound, Answers
<1>12. ASSUME ~reopened, pagesindex <= PartmanIndex, backup
       PROVE  pagesindex' \in 1 .. PartmanIndex /\ UpToPartman'
  <2>1. UpToPartman /\ pagesindex \in 1 .. PartmanIndex
    BY <1>12, Facts DEF Calm, Straight, Once, UpToPartman
  <2>2. pagesindex' = PopIndex(history, pagesindex) /\ history' = PopHistory(history)
    BY <1>1, <1>12 DEF AfterPage
  <2> QED BY <2>1, <2>2, HistoryShrinks DEF UpToPartman
<1>13. ASSUME backup PROVE Course' /\ (~reopened => Once')
  <2>1. pagesindex' \in 1 .. Len(Pages)
    <3>1. pagesindex' = PopIndex(history, pagesindex)
      BY <1>1, <1>13 DEF AfterPage
    <3> QED BY <1>1, <3>1, PopHistoryType, Facts DEF TypeInv, PlaceOK
  <2>2. ~Left(Len(Pages)) /\ ~Left(Len(Pages))'
    BY <1>1, <1>6, <1>13, <2>1, Facts DEF Left
  <2>3. ~Begun /\ current_page => ~Left(PartmanIndex)'
    <3>1. ~Begun /\ current_page => ~reopened /\ pagesindex <= PartmanIndex
      BY Facts DEF Calm, Sound, Course, Left
    <3> QED BY <1>6, <1>12, <1>13, <3>1, Facts DEF Left
  <2>4. ~current_page => pagesindex' <= PartmanIndex
    <3>1. ~current_page => ~reopened /\ pagesindex <= PartmanIndex
      BY DEF Calm, Sound, Course
    <3> QED BY <1>12, <1>13, <3>1, Facts
  <2>5. Course'
    BY <1>1, <1>4, <1>6, <1>9, <2>1, <2>2, <2>3, <2>4, Facts
       DEF Calm, Sound, Course, progress, Own
  <2>6. ASSUME ~reopened PROVE Once'
    <3>1. pagesindex <= PartmanIndex
      BY <1>13, <2>6, Facts DEF Calm, Straight, Once
    <3>2. pagesindex' \in 1 .. PartmanIndex /\ UpToPartman'
      BY <1>12, <1>13, <2>6, <3>1
    <3>3. \A i \in PartmanIndex .. Len(Pages) : ~Left(i) /\ ~Left(i)'
      BY <1>6, <1>13, <3>1, <3>2, Facts DEF Left
    <3> QED BY <1>1, <1>4, <1>6, <1>9, <2>6, <3>2, <3>3, Facts
            DEF Calm, Straight, Once, progress, UpToPartman
  <2> QED BY <2>5, <2>6
<1>14. ASSUME ~current_page, ~backup PROVE Course' /\ (~reopened => Once')
  <2>1. UNCHANGED <<pagesindex, history>>
    BY <1>1, <1>14 DEF AfterPage
  <2>2. Course'
    BY <1>1, <1>4, <1>6, <1>9, <1>14, <2>1 DEF Calm, Sound, Course, progress, Own
  <2>3. ~reopened => Once'
    BY <1>1, <1>9, <1>14, <2>1 DEF Calm, Straight, Once, progress
  <2> QED BY <2>2, <2>3
<1>15. ASSUME ~backup, current_page PROVE Course' /\ (~reopened => Once')
  <2>1. pagesindex' = pagesindex + 1 /\ history' = history
    BY <1>1, <1>8, <1>15 DEF AfterPage
  <2>2. \A i \in 1 .. Len(Pages) : Left(i)' <=> pagesindex >= i
    BY <1>6, <2>1, Facts DEF Left
  <2>3. \A i \in 1 .. Len(Pages) : (Left(i) => Left(i)')
    BY <2>2, Facts DEF Left
  <2>4. ASSUME NEW i \in {PartmanIndex, Len(Pages)} PROVE Left(i) <=> Left(i)'
    <3>1. CASE loops = <<>>
      <4>1. Page \in Skippable
        BY <1>1, <3>1, Loops, Facts
      <4>2. pagesindex # i
        BY <1>1, <4>1, Facts, PagesAssumption DEF Page
      <4> QED BY <2>2, <4>2, Facts DEF Left
    <3>2. CASE loops # <<>>
      <4>1. Over
        BY <1>1, <1>2, <1>15, <3>2 DEF Over
      <4> QED BY <1>15, <2>2, <4>1, Facts DEF Left
    <3> QED BY <3>1, <3>2
  <2>5. Course'
    BY <1>1, <1>4, <1>9, <1>15, <2>1, <2>4, Facts DEF Calm, Sound, Course, progress
  <2>6. ASSUME ~reopened PROVE Once'
    <3>1. pagesindex' <= PartmanIndex => pagesindex <= PartmanIndex
      BY <2>1, Facts
    <3> QED BY <1>1, <1>4, <1>9, <1>15, <2>1, <2>3, <2>4, <2>6, <3>1, Facts
            DEF Calm, Straight, Once, progress
  <2> QED BY <2>5, <2>6
<1>16. Course' /\ (~reopened => Once')
  BY <1>13, <1>14, <1>15, Facts DEF TypeInv, FlagsOK
<1>17. Ends' /\ Last'
  BY <1>1, <1>4 DEF Calm, Sound, Ends, Last, Up
<1> QED BY <1>1, <1>4, <1>7, <1>10, <1>11, <1>16, <1>17 DEF Calm, Sound, Straight

LEMMA LeavingCalm ==
  ASSUME TypeInv, Calm, LeaveRun \/ StartSlideshow \/ Finish
  PROVE  Calm'
<1>1. UNCHANGED <<pagesindex, history, backup, current_page, dbfilter, dbfilter_status,
                  filters, progress, allowed_change_step, reopened>>
  BY DEF LeaveRun, StartSlideshow, Finish, buttons
<1>2. /\ Ordered' /\ (Begun' <=> Begun)
      /\ \A g \in FilterIds : Working(g)' <=> Working(g)
      /\ ~reopened => Work'
  BY <1>1, WorkKept DEF SameWork
<1>3. (Owned' <=> Owned) /\ (Own' = Own)
  BY <1>1 DEF Owned, Own
<1>4. CASE LeaveRun
  <2>1. /\ stage' = "exited" /\ stage = "pages" /\ loops = <<>> /\ ~current_page
        /\ UNCHANGED <<loops, pending_quits, locked>>
    BY <1>4 DEF LeaveRun, AtLoopHead
  <2>2. (Asking' <=> Asking) /\ ~Asking /\ (\A i \in 1 .. Len(Pages) : Left(i)' <=> Left(i))
    BY <1>1, <1>3, <2>1, Facts, Loops DEF Asking, Left, Over
  <2>3. Shape'
    BY <1>1, <1>3, <2>1, <2>2 DEF Calm, Sound, Shape, IsPage
  <2>4. Quits' /\ Answers'
    BY <1>1, <1>3, <2>1 DEF Calm, Sound, Quits, Answers, Up
  <2>5. Course'
    BY <1>1, <1>2, <1>3, <2>1, <2>2, Facts DEF Calm, Sound, Course, progress
  <2>6. ~reopened => Once'
    BY <1>1, <1>2, <2>2, Facts DEF Calm, Straight, Once, progress
  <2>7. Ends' /\ Last'
    BY <2>1 DEF Ends, Last, Up
  <2> QED BY <1>1, <1>2, <2>3, <2>4, <2>5, <2>6, <2>7 DEF Calm, Sound, Straight
<1>5. CASE StartSlideshow
  <2>1. /\ stage' = "slideshow" /\ stage = "pages" /\ loops = <<>> /\ loops' = <<"run">>
        /\ pagesindex = Len(Pages) + 1
        /\ UNCHANGED <<pending_quits, locked>>
    BY <1>5, Facts DEF StartSlideshow, AtLoopHead
  <2>2. current_page /\ ~Owned /\ pending_quits = 0
    BY <2>1, Facts DEF Calm, Sound, Course, Quits, Up
  <2>3. ~Asking' /\ (\A i \in 1 .. Len(Pages) : Left(i)' <=> Left(i))
    BY <1>1, <1>3, <2>1, <2>2, Facts DEF Asking, Left, Over
  <2>4. Shape'
    <3>1. \A g \in FilterIds : ~filters[g].loop
      BY <2>2, Facts DEF Calm, Sound, Shape, Asking
    <3> QED BY <1>1, <1>3, <2>1, <2>2, <2>3, <3>1 DEF Calm, Sound, Shape, IsPage
  <2>5. Quits' /\ Answers'
    <3>1. ~backup
      BY <2>1, Facts DEF Calm, Sound, Course
    <3> QED BY <1>1, <1>3, <2>1, <2>2, <2>3, <3>1, Loops DEF Calm, Sound, Quits, Answers, Up
  <2>6. Course'
    BY <1>1, <1>2, <1>3, <2>2, <2>3, Facts DEF Calm, Sound, Course, progress
  <2>7. ~reopened => Once'
    BY <1>1, <1>2, <2>3, Facts DEF Calm, Straight, Once, progress
  <2>8. Ends' /\ Last'
    BY <1>1, <1>2, <2>1, <2>2 DEF Calm, Sound, Ends, Last, Up
  <2> QED BY <1>1, <1>2, <2>4, <2>5, <2>6, <2>7, <2>8 DEF Calm, Sound, Straight
<1>6. CASE Finish
  <2>1. /\ stage' = "finished" /\ stage = "slideshow" /\ loops = <<"run">> /\ loops' = <<>>
        /\ pending_quits > 0
    BY <1>6 DEF Finish
  <2>2. pagesindex = Len(Pages) + 1 /\ current_page /\ ~Owned
    BY <2>1 DEF Calm, Sound, Ends, Shape
  <2>3. ~Asking' /\ (\A i \in 1 .. Len(Pages) : Left(i)' <=> Left(i))
    BY <1>1, <1>3, <2>1, <2>2, Facts DEF Asking, Left, Over
  <2>4. Shape'
    <3>1. \A g \in FilterIds : ~filters[g].loop
      BY <2>2, Facts DEF Calm, Sound, Shape, Asking
    <3> QED BY <1>1, <1>3, <2>1, <2>2, <2>3, <3>1 DEF Calm, Sound, Shape, IsPage
  <2>5. Quits' /\ Answers'
    BY <1>1, <1>3, <2>1, <2>2 DEF Calm, Sound, Quits, Answers, Up
  <2>6. Course'
    BY <1>1, <1>2, <1>3, <2>2, <2>3, Facts DEF Calm, Sound, Course, progress
  <2>7. Ends'
    BY <1>1, <2>1, <2>2 DEF Ends, Up
  <2>8. ~reopened => Once' /\ Last'
    <3>1. ~reopened => Once'
      BY <1>1, <1>2, <2>2, <2>3, Facts DEF Calm, Straight, Once, progress
    <3>2. ~reopened => Last'
      BY <1>1, <1>2, <2>1 DEF Calm, Straight, Last, progress
    <3> QED BY <3>1, <3>2
  <2> QED BY <1>1, <1>2, <2>4, <2>5, <2>6, <2>7, <2>8 DEF Calm, Sound, Straight
<1> QED BY <1>4, <1>5, <1>6

(* The page's filter is one of a page; no fault happens.                   *)
LEMMA OwnIsPage ==
  ASSUME TypeInv, Calm
  PROVE  /\ Owned => IsPage(dbfilter) /\ dbfilter \in FilterIds /\ ~Working(dbfilter)
         /\ \A f \in FilterIds : IsPage(f) => f = dbfilter /\ Owned
         /\ \A f \in FilterIds : Working(f) => f # dbfilter /\ ~filters[f].loop
<1>1. Owned => IsPage(dbfilter) /\ dbfilter \in FilterIds
  <2>1. ASSUME Owned PROVE \E i \in 1 .. Len(Pages) : Own.module = Pages[i]
    <3>1. CASE current_page
      BY <2>1, <3>1, Facts DEF Calm, Sound, Answers
    <3>2. CASE ~current_page
      BY <2>1, <3>2, Facts DEF Calm, Sound, Course
    <3> QED BY <3>1, <3>2
  <2> QED BY <2>1, Facts DEF IsPage, Own
<1>2. \A f \in FilterIds : Working(f) => ~IsPage(f)
  BY Facts DEF Working, IsPage
<1>3. \A f \in FilterIds : IsPage(f) => f = dbfilter /\ Owned
  BY Facts DEF Calm, Sound, Shape, Owned
<1>4. \A f \in FilterIds : Working(f) => f # dbfilter /\ ~filters[f].loop
  BY <1>1, <1>2, Facts DEF Calm, Sound, Shape, Asking, Owned
<1> QED BY <1>1, <1>2, <1>3, <1>4

(* A step after which there is no failure is none.                         *)
LEMMA NoFaults == ASSUME TypeInv, faults' = 0 PROVE ~CanFault
  BY DEF TypeInv, FaultsOK, CanFault

(* The filter find_next_step starts is the only one to change.             *)
LEMMA Launched ==
  ASSUME NEW m, NEW fs \in Table, FindNextStep(m, fs), Launches(m) # {} => HasRoom(fs)
  PROVE  \/ Launches(m) = {} /\ filters' = fs
         \/ \E k \in FilterIds, b \in Launches(m) :
              /\ fs[k] = Idle /\ filters'[k] = Started(b)
              /\ \A g \in FilterIds \ {k} : filters'[g] = fs[g]
<1>1. CASE Launches(m) = {}
  BY <1>1 DEF FindNextStep
<1>2. CASE Launches(m) # {}
  <2>1. PICK b \in Launches(m) : filters' = [fs EXCEPT ![Fresh(fs)] = Started(b)]
    BY <1>2 DEF FindNextStep
  <2>2. Fresh(fs) \in FilterIds /\ fs[Fresh(fs)] = Idle
    BY <1>2, Room
  <2>3. \A g \in FilterIds \ {Fresh(fs)} : filters'[g] = fs[g]
    BY <2>1 DEF Table
  <2>4. filters'[Fresh(fs)] = Started(b)
    BY <2>1, <2>2 DEF Table
  <2> QED BY <2>1, <2>2, <2>3, <2>4
<1> QED BY <1>1, <1>2

(* Nothing of what the end of page m does has been done before.            *)
InTurn(m) ==
  /\ m = "partman" => ~Begun
  /\ m = "timezone" /\ partitioned => ~timezone_set
  /\ LastPageDone(m) => ~finished_pages

(* The end of a page starts at most one step, after what that one needs.   *)
LEMMA PageWork ==
  ASSUME TypeInv, Ordered, NEW m \in PageNames, NEW fs \in Table, FindNextStep(m, fs),
         Launches(m) # {} => HasRoom(fs),
         \A g \in FilterIds : fs[g] = filters[g] \/ (fs[g] = Idle /\ ~Working(g))
  PROVE  /\ Ordered' /\ (Begun' <=> Begun \/ m = "partman")
         /\ \A g \in FilterIds :
              filters'[g] = fs[g] \/ (Working(g)' /\ ~filters'[g].loop /\ fs[g] = Idle)
         /\ Work /\ InTurn(m) => Work'
<1>1. /\ finished_pages' = (finished_pages \/ LastPageDone(m))
      /\ timezone_set' = (timezone_set \/ m = "timezone")
      /\ partitioned' = partitioned /\ finished_installing' = finished_installing
  BY Facts DEF FindNextStep, Background, TypeInv, FlagsOK
<1>2. Idle.module = "none" /\ "none" \notin Background
  BY DEF Idle, Background
<1>3. \A g \in FilterIds, b \in Background : fs[g].module = b <=> filters[g].module = b
  BY <1>2 DEF Working
<1>4. m # "partman_commit" /\ m # "install" /\ Pages[Len(Pages)] # "partman"
      /\ Pages[Len(Pages)] # "timezone"
  BY Facts, PagesAssumption DEF Background
<1>5. \A b \in Launches(m) :
        \/ /\ LastPageDone(m) /\ finished_installing /\ b = "plugininstall"
           /\ m # "partman" /\ m # "timezone"
        \/ m = "partman" /\ b = "partman_commit"
        \/ m = "timezone" /\ partitioned /\ b = "install"
  BY <1>4 DEF Launches, LastPageDone
<1>6. \A b \in Launches(m) :
        /\ b \in Background
        /\ b = "install" => partitioned' /\ timezone_set'
        /\ b = "plugininstall" => finished_installing /\ finished_pages'
        /\ b = "partman_commit" <=> m = "partman"
  BY <1>1, <1>5 DEF Background
<1>7. ASSUME Work, InTurn(m), NEW b \in Launches(m)
      PROVE  /\ \A g \in FilterIds : ~Working(g)
             /\ b = "partman_commit" => ~partitioned
             /\ b = "install" => ~finished_installing
  <2>1. \A g \in FilterIds : ~Working(g)
    BY <1>5, <1>7 DEF Work, Working, Begun, Background, InTurn
  <2>2. b = "install" => ~finished_installing
    BY <1>5, <1>7 DEF Work, InTurn
  <2> QED BY <1>5, <1>7, <2>1, <2>2 DEF Begun, InTurn
<1>8. m = "partman" => Launches(m) = {"partman_commit"}
  BY PagesAssumption DEF Launches, LastPageDone, Background
<1>9. CASE Launches(m) = {} /\ filters' = fs
  <2>1. m # "partman"
    BY <1>8, <1>9
  <2>2. Begun' <=> Begun
    BY <1>1, <1>3, <1>9 DEF Begun, Background
  <2>3. Ordered'
    BY <1>1, <1>3, <1>9 DEF Ordered, Background
  <2>4. Work => Work'
    BY <1>1, <1>3, <1>9 DEF Work, Working, Background
  <2> QED BY <1>9, <2>1, <2>2, <2>3, <2>4
<1>10. ASSUME NEW k \in FilterIds, NEW b \in Launches(m), fs[k] = Idle, filters'[k] = Started(b),
              \A g \in FilterIds \ {k} : filters'[g] = fs[g]
       PROVE  /\ Ordered' /\ (Begun' <=> Begun \/ m = "partman")
              /\ \A g \in FilterIds :
                   filters'[g] = fs[g] \/ (Working(g)' /\ ~filters'[g].loop /\ fs[g] = Idle)
              /\ Work /\ InTurn(m) => Work'
  <2>1. filters'[k].module = b /\ ~filters'[k].loop
    BY <1>10 DEF Started, Idle
  <2>2. Working(k)'
    BY <1>6, <2>1 DEF Working
  <2>3. /\ \A g \in FilterIds \ {k}, c \in Background :
             filters'[g].module = c <=> filters[g].module = c
        /\ \A c \in Background : filters[k].module # c
    BY <1>2, <1>3, <1>10
  <2>4. Ordered'
    BY <1>1, <1>6, <2>1, <2>3 DEF Ordered, Background
  <2>5. Begun' <=> Begun \/ m = "partman"
    BY <1>1, <1>6, <1>8, <1>10, <2>1, <2>3 DEF Begun, Background
  <2>6. ASSUME Work, InTurn(m) PROVE Work'
    <3>1. \A g \in FilterIds \ {k} : filters'[g].module \notin Background
      BY <1>7, <2>3, <2>6 DEF Working
    <3> QED BY <1>1, <1>6, <1>7, <2>1, <2>6, <3>1 DEF Work, Working, Background
  <2> QED BY <1>10, <2>1, <2>2, <2>4, <2>5, <2>6
<1> QED BY <1>9, <1>10, Launched

(* The end of a background step starts at most the next one.               *)
LEMMA NextWork ==
  ASSUME TypeInv, Ordered, NEW f \in FilterIds, Working(f),
         FindNextStep(filters[f].module, Without(f))
  PROVE  /\ Ordered' /\ Begun /\ Begun'
         /\ timezone_set' = timezone_set /\ finished_pages' = finished_pages
         /\ finished_installing => finished_installing'
         /\ \A g \in FilterIds :
              \/ filters'[g] = filters[g] /\ g # f
              \/ /\ g = f \/ filters[g] = Idle
                 /\ filters'[g] = Idle \/ (Working(g)' /\ ~filters'[g].loop)
         /\ filters[f].module = "plugininstall" => filters' = Without(f)
         /\ Work => Work'
<1> DEFINE m == filters[f].module
<1>1. Without(f) \in Table /\ Without(f)[f] = Idle /\ HasRoom(Without(f))
      /\ \A g \in FilterIds \ {f} : Without(f)[g] = filters[g]
  BY Facts, NewFilter DEF Without, Table, HasRoom
<1>2. Idle.module = "none" /\ "none" \notin Background
  BY DEF Idle, Background
<1>3. m \in Background /\ ~LastPageDone(m) /\ m # "timezone" /\ m # "partman"
  <2>1. Pages[Len(Pages)] \in PageNames
    BY Facts
  <2> QED BY <2>1, Facts DEF Working, LastPageDone, Background
<1>4. /\ finished_pages' = finished_pages /\ timezone_set' = timezone_set
      /\ partitioned' = (partitioned \/ m = "partman_commit")
      /\ finished_installing' = (finished_installing \/ m = "install")
  BY <1>3, Facts DEF FindNextStep, TypeInv, FlagsOK
<1>5. Work => \A g \in FilterIds : Without(f)[g].module \notin Background
  BY <1>1, <1>2 DEF Work, Working
<1>6. \A b \in Launches(m) : b \in Background
        /\ \/ b = "install" /\ m = "partman_commit" /\ timezone_set
           \/ b = "plugininstall" /\ m = "install" /\ finished_pages
  BY <1>3 DEF Launches, Background
<1>7. Begun /\ Begun' /\ partitioned' /\ (partitioned => partitioned')
  BY <1>3, <1>4 DEF Begun, Ordered, Background
<1>8. ASSUME Launches(m) = {}, filters' = Without(f) PROVE Ordered' /\ (Work => Work')
  <2>1. \A g \in FilterIds : filters'[g].module \notin Background \/ filters'[g] = filters[g]
    BY <1>1, <1>2, <1>8
  <2>2. Ordered'
    BY <1>4, <1>7, <2>1 DEF Ordered, Background
  <2>3. Work => Work'
    BY <1>3, <1>4, <1>5, <1>8 DEF Work, Working, Background
  <2> QED BY <2>2, <2>3
<1>9. ASSUME NEW k \in FilterIds, NEW b \in Launches(m), Without(f)[k] = Idle,
             filters'[k] = Started(b),
             \A g \in FilterIds \ {k} : filters'[g] = Without(f)[g]
      PROVE  /\ Ordered' /\ (Work => Work')
             /\ \A g \in FilterIds :
                  \/ filters'[g] = filters[g] /\ g # f
                  \/ /\ g = f \/ filters[g] = Idle
                     /\ filters'[g] = Idle \/ (Working(g)' /\ ~filters'[g].loop)
             /\ m # "plugininstall"
  <2>1. filters'[k].module = b /\ ~filters'[k].loop
    BY <1>9 DEF Started, Idle
  <2>2. \A g \in FilterIds \ {k} :
          filters'[g].module \notin Background \/ filters'[g] = filters[g]
    BY <1>1, <1>2, <1>9
  <2>3. Ordered'
    BY <1>4, <1>6, <1>7, <2>1, <2>2 DEF Ordered, Background
  <2>4. ASSUME Work PROVE Work'
    <3>1. \A g \in FilterIds \ {k} : filters'[g].module \notin Background
      BY <1>5, <1>9, <2>4
    <3> QED BY <1>3, <1>4, <1>6, <2>1, <2>4, <3>1 DEF Work, Working, Background
  <2>5. Working(k)'
    BY <1>6, <2>1 DEF Working
  <2> QED BY <1>1, <1>6, <1>9, <2>1, <2>3, <2>4, <2>5
<1> HIDE DEF m
<1>10. m = filters[f].module
  BY DEF m
<1>11. \/ Launches(m) = {} /\ filters' = Without(f)
       \/ \E k \in FilterIds, b \in Launches(m) :
            /\ Without(f)[k] = Idle /\ filters'[k] = Started(b)
            /\ \A g \in FilterIds \ {k} : filters'[g] = Without(f)[g]
  BY <1>1, <1>10, Launched
<1>12. CASE Launches(m) = {} /\ filters' = Without(f)
  <2>1. Ordered' /\ Begun /\ Begun' /\ (Work => Work')
    BY <1>7, <1>8, <1>12
  <2>2. \A g \in FilterIds :
          \/ filters'[g] = filters[g] /\ g # f
          \/ g = f /\ filters'[g] = Idle
    BY <1>1, <1>12
  <2>3. /\ filters' = Without(f) /\ timezone_set' = timezone_set
        /\ finished_pages' = finished_pages /\ (finished_installing => finished_installing')
    BY <1>4, <1>12
  <2> QED BY <2>1, <2>2, <2>3
<1>13. CASE ~(Launches(m) = {} /\ filters' = Without(f))
  BY <1>4, <1>7, <1>9, <1>10, <1>11, <1>13
<1> QED BY <1>12, <1>13

-----------------------------------------------------------------------------
(* The page's script asks, and is answered *)

LEMMA AnswerAtOnceCalm ==
  ASSUME TypeInv, Calm, NEW f \in FilterIds, AnswerAtOnce(f)
  PROVE  Calm'
<1>1. /\ f = dbfilter /\ Owned /\ Own.done
      /\ filters' = [filters EXCEPT ![f].go = IF Own.succeeded THEN "ok" ELSE "backup"]
      /\ UNCHANGED <<stage, pagesindex, history, backup, current_page, dbfilter,
                     dbfilter_status, loops, pending_quits, locked, progress, allowed_change_step,
                     reopened>>
  BY OwnIsPage DEF AnswerAtOnce, Own, place, buttons
<1>2. ~Asking
  <2>1. ASSUME Asking PROVE OnStack(f)
    <3>1. loops = <<"run", f>> /\ 2 \in DOMAIN <<"run", f>> /\ <<"run", f>>[2] = f
      BY <1>1, <2>1 DEF Asking
    <3> QED BY <3>1 DEF OnStack
  <2> QED BY <2>1 DEF AnswerAtOnce
<1>3. /\ \A g \in FilterIds \ {f} : filters'[g] = filters[g]
      /\ filters'[f] = [Own EXCEPT !.go = IF Own.succeeded THEN "ok" ELSE "backup"]
  BY <1>1, Facts DEF Own, Table
<1>4. /\ Own'.module = Own.module /\ Own'.done /\ Own'.succeeded = Own.succeeded
      /\ Own'.loop = Own.loop /\ Own'.go = IF Own.succeeded THEN "ok" ELSE "backup"
      /\ Own' = filters'[f] /\ Own = filters[f]
  BY <1>1, <1>3, Facts DEF Own, Table, Filters
<1>5. SameWork
  BY <1>3, <1>4 DEF SameWork
<1>6. /\ Ordered' /\ (Begun' <=> Begun)
      /\ \A g \in FilterIds : Working(g)' <=> Working(g)
      /\ ~reopened => Work'
  BY <1>1, <1>5, WorkKept
<1>7. Owned' /\ ~Asking'
  BY <1>1, <1>2 DEF Owned, Asking
<1>8. Shape'
  BY <1>1, <1>2, <1>3, <1>4, <1>7 DEF Calm, Sound, Shape, IsPage
<1>9. Quits'
  BY <1>1, <1>2, <1>7 DEF Calm, Sound, Quits, Up
<1>10. Answers'
  BY <1>1, <1>4, <1>7 DEF Calm, Sound, Answers, Up
<1>11. \A i \in 1 .. Len(Pages) : Left(i)' <=> Left(i)
  BY <1>1, <1>7 DEF Left, Over
<1>12. Course'
  BY <1>1, <1>4, <1>6, <1>7, <1>11, Facts DEF Calm, Sound, Course, progress
<1>13. Ends'
  BY <1>1, <1>6 DEF Calm, Sound, Ends, Up
<1>14. ASSUME ~reopened PROVE Once' /\ Last'
  <2>1. Once'
    BY <1>1, <1>6, <1>11, <1>14, Facts DEF Calm, Straight, Once, progress
  <2>2. Last'
    BY <1>1, <1>6, <1>14 DEF Calm, Straight, Last, progress
  <2> QED BY <2>1, <2>2
<1> QED BY <1>1, <1>6, <1>8, <1>9, <1>10, <1>12, <1>13, <1>14 DEF Calm, Sound, Straight

LEMMA AskCalm ==
  ASSUME TypeInv, Calm, NEW f \in FilterIds, Ask(f)
  PROVE  Calm'
<1>1. /\ f = dbfilter /\ Owned /\ ~Own.done /\ Up /\ IsPage(f) /\ ~OnStack(f)
      /\ filters' = [filters EXCEPT ![f].succeeded = FALSE, ![f].loop = TRUE, ![f].go = "none"]
      /\ loops' = Append(loops, f) /\ ~backup' /\ current_page'
      /\ UNCHANGED <<stage, pagesindex, dbfilter, dbfilter_status, pending_quits,
                     locked, progress, reopened>>
  BY OwnIsPage DEF Ask, Own, SetPage, Listening
<1>2. ~Asking
  <2>1. ASSUME Asking PROVE OnStack(f)
    <3>1. loops = <<"run", f>> /\ 2 \in DOMAIN <<"run", f>> /\ <<"run", f>>[2] = f
      BY <1>1, <2>1 DEF Asking
    <3> QED BY <3>1 DEF OnStack
  <2> QED BY <1>1, <2>1
<1>3. current_page /\ pagesindex \in DOMAIN Pages /\ Own.module = Pages[pagesindex]
  BY <1>1 DEF Calm, Sound, Answers
<1>4. stage = "pages" /\ loops = <<"run">> /\ pending_quits = 0
  BY <1>1, <1>2, <1>3 DEF Calm, Sound, Shape, Quits, Up
<1>5. loops' = <<"run", f>>
  BY <1>1, <1>4, Loops
<1>6. /\ \A g \in FilterIds \ {f} : filters'[g] = filters[g]
      /\ filters'[f] = [Own EXCEPT !.succeeded = FALSE, !.loop = TRUE, !.go = "none"]
  BY <1>1, Facts DEF Own, Table
<1>7. /\ Own'.module = Own.module /\ ~Own'.done /\ ~Own'.succeeded
      /\ Own'.loop /\ Own'.go = "none" /\ Own' = filters'[f] /\ Own = filters[f]
  BY <1>1, <1>6, Facts DEF Own, Table, Filters
<1>8. SameWork
  BY <1>6, <1>7 DEF SameWork
<1>9. /\ Ordered' /\ (Begun' <=> Begun)
      /\ \A g \in FilterIds : Working(g)' <=> Working(g)
      /\ ~reopened => Work'
  BY <1>1, <1>8, WorkKept
<1>10. Owned' /\ Asking'
  BY <1>1, <1>5 DEF Owned, Asking
<1>11. Shape'
  BY <1>1, <1>4, <1>6, <1>7, <1>10 DEF Calm, Sound, Shape, IsPage
<1>12. Quits'
  BY <1>1, <1>4, <1>5, <1>7, <1>10, Loops DEF Quits
<1>13. Answers'
  BY <1>1, <1>3, <1>4, <1>7, <1>10 DEF Answers
<1>14. \A i \in 1 .. Len(Pages) : Left(i)' <=> Left(i)
  BY <1>1, <1>4, <1>10, Facts DEF Left, Over
<1>15. Course'
  BY <1>1, <1>3, <1>9, <1>14, Facts DEF Calm, Sound, Course, progress
<1>16. Ends'
  BY <1>1, <1>4, <1>9 DEF Calm, Sound, Ends, Up
<1>17. ASSUME ~reopened PROVE Once' /\ Last'
  <2>1. ASSUME pagesindex <= PartmanIndex PROVE UpToPartman'
    <3>1. UpToPartman /\ pagesindex \in 1 .. PartmanIndex
      BY <1>17, <2>1, Facts DEF Calm, Straight, Once, UpToPartman
    <3>2. (CHOOSE i \in DOMAIN Pages : Pages[i] = filters[f].module) = pagesindex
      BY <1>3, <1>7, Facts
    <3>3. SetPage(pagesindex)
      BY <3>2 DEF Ask
    <3> QED BY <3>1, <3>3, HistoryGrows
  <2>2. Once'
    BY <1>1, <1>3, <1>9, <1>14, <1>17, <2>1, Facts
       DEF Calm, Straight, Once, progress, UpToPartman
  <2>3. Last'
    BY <1>1, <1>4 DEF Last
  <2> QED BY <2>2, <2>3
<1> QED BY <1>1, <1>9, <1>11, <1>12, <1>13, <1>15, <1>16, <1>17 DEF Calm, Sound, Straight

LEMMA QuestionReturnsCalm ==
  ASSUME TypeInv, Calm, NEW f \in FilterIds, QuestionReturns(f)
  PROVE  Calm'
<1>1. /\ Up /\ loops # <<>> /\ Top = f /\ pending_quits > 0
      /\ loops' = Popped /\ pending_quits' = pending_quits - 1
      /\ filters' = [filters EXCEPT ![f].go = IF filters[f].succeeded THEN "ok" ELSE "backup"]
      /\ UNCHANGED <<stage, pagesindex, history, backup, current_page, dbfilter,
                     dbfilter_status, locked, progress, allowed_change_step, reopened>>
  BY DEF QuestionReturns, place, buttons
<1>2. Asking /\ stage = "pages" /\ f = dbfilter
  <2>1. loops # <<"run">>
    <3>1. ASSUME loops = <<"run">> PROVE Top = "run"
      BY <3>1 DEF Top
    <3> QED BY <1>1, <3>1, FilterIdsAssumption
  <2>2. Asking /\ stage = "pages"
    BY <1>1, <2>1 DEF Calm, Sound, Shape, Up
  <2>3. Top = dbfilter
    BY <2>2, Facts, Loops DEF Top, Asking
  <2> QED BY <1>1, <2>2, <2>3
<1>3. Owned /\ loops' = <<"run">>
  BY <1>1, <1>2, Facts, Loops DEF Asking, Popped
<1>4. /\ \A g \in FilterIds \ {f} : filters'[g] = filters[g]
      /\ filters'[f] = [Own EXCEPT !.go = IF Own.succeeded THEN "ok" ELSE "backup"]
  BY <1>1, <1>2, Facts DEF Own, Table
<1>5. /\ Own'.module = Own.module /\ Own'.done = Own.done /\ Own'.succeeded = Own.succeeded
      /\ Own'.loop = Own.loop /\ Own'.go = IF Own.succeeded THEN "ok" ELSE "backup"
      /\ Own' = filters'[f] /\ Own = filters[f]
  BY <1>1, <1>2, <1>4, Facts DEF Own, Table, Filters
<1>6. SameWork
  BY <1>4, <1>5 DEF SameWork
<1>7. /\ Ordered' /\ (Begun' <=> Begun)
      /\ \A g \in FilterIds : Working(g)' <=> Working(g)
      /\ ~reopened => Work'
  BY <1>1, <1>6, WorkKept
<1>8. Owned' /\ ~Asking'
  BY <1>1, <1>2, <1>3, Facts, Loops DEF Owned, Asking
<1>9. Shape'
  <2>1. \A g \in FilterIds : ~filters[g].loop
    BY <1>1 DEF Calm, Sound, Shape
  <2> QED BY <1>1, <1>2, <1>3, <1>4, <1>5, <1>8, <2>1 DEF Calm, Sound, Shape, IsPage
<1>10. current_page => pending_quits = 1 /\ ~allowed_change_step
  BY <1>1, <1>2, Facts DEF Calm, Sound, Quits
<1>11. Quits'
  BY <1>1, <1>3, <1>8, <1>10, Loops DEF Quits
<1>12. Answers'
  BY <1>1, <1>3, <1>5, <1>8, <1>10 DEF Calm, Sound, Answers
<1>13. \A i \in 1 .. Len(Pages) : Left(i)' <=> Left(i)
  BY <1>1, <1>3, <1>8 DEF Left, Over
<1>14. Course'
  BY <1>1, <1>3, <1>5, <1>7, <1>8, <1>13, Facts DEF Calm, Sound, Course, progress
<1>15. Ends'
  BY <1>1, <1>2, <1>7 DEF Calm, Sound, Ends, Up
<1>16. ASSUME ~reopened PROVE Once' /\ Last'
  <2>1. Once'
    BY <1>1, <1>7, <1>13, <1>16, Facts DEF Calm, Straight, Once, progress
  <2>2. Last'
    BY <1>1, <1>2 DEF Last
  <2> QED BY <2>1, <2>2
<1> QED BY <1>1, <1>7, <1>9, <1>11, <1>12, <1>14, <1>15, <1>16 DEF Calm, Sound, Straight

-----------------------------------------------------------------------------
(* A page ends, or a step of the background *)

(* The page that ends is the one run() is on, or one up to partitioning if *)
(* the user has quit.  Unless the user went back, it is the first time for *)
(* those past partitioning.                                                *)
LEMMA PageEnds ==
  ASSUME TypeInv, Calm, NEW m \in PageNames, NEW fs \in Table, FindNextStep(m, fs),
         Launches(m) # {} => HasRoom(fs),
         \A g \in FilterIds : fs[g] = filters[g] \/ (fs[g] = Idle /\ ~Working(g)),
         UNCHANGED <<pagesindex, history, backup, current_page, reopened>>,
         dbfilter' = NoFilter,
         \/ /\ current_page /\ pagesindex \in DOMAIN Pages /\ m = Pages[pagesindex] /\ ~Over
            /\ backup => m # "partman"
            /\ ~backup => Over'
         \/ /\ ~current_page /\ ~Begun /\ \E i \in 1 .. PartmanIndex : m = Pages[i]
            /\ allowed_change_step' => m # "partman"
  PROVE  /\ Ordered' /\ Course' /\ (Begun' => Begun \/ locked')
         /\ \A g \in FilterIds :
              filters'[g] = fs[g] \/ (Working(g)' /\ ~filters'[g].loop /\ fs[g] = Idle)
         /\ ~reopened => InTurn(m) /\ Work' /\ Once'
<1>1. /\ Ordered' /\ (Begun' <=> Begun \/ m = "partman")
      /\ \A g \in FilterIds :
           filters'[g] = fs[g] \/ (Working(g)' /\ ~filters'[g].loop /\ fs[g] = Idle)
      /\ Work /\ InTurn(m) => Work'
  BY PageWork DEF Calm, Sound
<1>2. /\ finished_pages' <=> finished_pages \/ LastPageDone(m)
      /\ timezone_set' <=> timezone_set \/ m = "timezone"
      /\ locked' = (locked \/ m = "partman") /\ ~Owned'
  BY DEF FindNextStep, SwitchesToInstall, Owned
<1>3. /\ PartmanIndex \in Nat /\ Len(Pages) \in Nat /\ PartmanIndex < Len(Pages)
      /\ PartmanIndex \in 1 .. Len(Pages) /\ pagesindex \in Nat /\ DOMAIN Pages = 1 .. Len(Pages)
      /\ \A i, j \in DOMAIN Pages : Pages[i] = Pages[j] => i = j
      /\ Pages[PartmanIndex] = "partman" /\ Len(Pages) \in 1 .. Len(Pages)
  BY Facts
<1>4. current_page => pagesindex \in 1 .. Len(Pages) /\ m = Pages[pagesindex]
  BY <1>3
<1>5. ASSUME NEW i \in 1 .. Len(Pages), current_page
      PROVE  /\ Left(i) <=> pagesindex > i
             /\ Left(i)' <=> pagesindex > i \/ (pagesindex = i /\ ~backup)
  BY <1>5, Facts DEF Left
<1>6. LastPageDone(m) <=> current_page /\ ~backup /\ pagesindex = Len(Pages)
  <2>1. CASE current_page
    BY <1>3, <1>4, <2>1 DEF LastPageDone
  <2>2. CASE ~current_page
    <3>1. PICK n \in 1 .. PartmanIndex : m = Pages[n]
      BY <2>2
    <3>2. n \in DOMAIN Pages /\ n <= PartmanIndex
      BY <1>3
    <3>3. m # Pages[Len(Pages)]
      BY <1>3, <3>1, <3>2
    <3> QED BY <2>2, <3>3 DEF LastPageDone
  <2> QED BY <2>1, <2>2
<1>7. Course'
  <2>1. ASSUME current_page PROVE (Left(PartmanIndex)' => Begun') /\ (finished_pages' <=> Left(Len(Pages))')
    <3>1. Left(PartmanIndex) => Begun
      BY <2>1 DEF Calm, Sound, Course
    <3>2. finished_pages <=> Left(Len(Pages))
      BY <2>1 DEF Calm, Sound, Course
    <3>3. pagesindex = PartmanIndex => m = "partman"
      BY <1>3, <1>4, <2>1
    <3>4. Left(PartmanIndex)' => Begun'
      BY <1>1, <1>3, <1>5, <2>1, <3>1, <3>3
    <3>5. Left(Len(Pages)) <=> pagesindex > Len(Pages)
      BY <1>3, <1>5, <2>1
    <3>6. Left(Len(Pages))' <=> pagesindex > Len(Pages) \/ (pagesindex = Len(Pages) /\ ~backup)
      BY <1>3, <1>5, <2>1
    <3> QED BY <1>2, <1>6, <2>1, <3>2, <3>4, <3>5, <3>6
  <2>2. ASSUME ~current_page
        PROVE  pagesindex <= PartmanIndex /\ ~finished_pages'
               /\ (allowed_change_step' => ~Begun') /\ ~reopened
    <3>1. pagesindex <= PartmanIndex /\ ~finished_pages /\ ~reopened
      BY <2>2 DEF Calm, Sound, Course
    <3> QED BY <1>1, <1>2, <1>6, <2>2, <3>1
  <2>3. pagesindex # Len(Pages) + 1
    <3>1. CASE current_page
      BY <1>3, <1>4, <3>1
    <3>2. CASE ~current_page
      BY <1>3, <2>2, <3>2
    <3> QED BY <3>1, <3>2
  <2>4. reopened => Begun' /\ current_page
    BY <1>1 DEF Calm, Sound, Course
  <2> QED BY <1>2, <2>1, <2>2, <2>3, <2>4 DEF Course
<1>8. ASSUME ~reopened PROVE InTurn(m) /\ Work' /\ Once'
  <2>1. Once /\ Work
    BY <1>8 DEF Calm, Straight
  <2>2. InTurn(m)
    <3>1. CASE current_page
      <4>1. ~Left(pagesindex)
        BY <1>4, <1>5, <3>1, Facts
      <4>2. m = "partman" => ~Begun
        BY <1>3, <1>4, <2>1, <3>1, <4>1 DEF Once
      <4>3. ASSUME m = "timezone", partitioned PROVE ~timezone_set
        <5>1. Left(PartmanIndex)
          BY <2>1, <3>1, <4>3 DEF Once, Begun
        <5>2. pagesindex > PartmanIndex
          BY <1>3, <1>5, <3>1, <5>1
        <5> QED BY <1>3, <1>4, <2>1, <3>1, <4>1, <4>3, <5>2 DEF Once
      <4>4. LastPageDone(m) => ~finished_pages
        BY <1>6, <3>1, <4>1 DEF Calm, Sound, Course
      <4> QED BY <4>2, <4>3, <4>4 DEF InTurn
    <3>2. CASE ~current_page
      BY <1>6, <3>2 DEF Begun, InTurn
    <3> QED BY <3>1, <3>2
  <2>3. Once'
    <3>1. ASSUME current_page, Begun' PROVE Left(PartmanIndex)'
      <4>1. CASE m = "partman"
        <5>1. pagesindex = PartmanIndex /\ ~backup
          BY <1>3, <1>4, <3>1, <4>1
        <5> QED BY <1>3, <1>5, <3>1, <5>1
      <4>2. CASE m # "partman"
        <5>1. Left(PartmanIndex)
          BY <1>1, <2>1, <3>1, <4>2 DEF Once
        <5> QED BY <1>3, <1>5, <3>1, <5>1
      <4> QED BY <4>1, <4>2
    <3>2. ASSUME current_page, timezone_set', NEW i \in DOMAIN Pages, Pages[i] = "timezone",
                 i > PartmanIndex
          PROVE  Left(i)'
      <4>1. CASE m = "timezone"
        <5>1. i = pagesindex
          BY <1>3, <1>4, <3>2, <4>1
        <5>2. ~backup
          BY <1>3, <2>1, <3>2, <5>1 DEF Once
        <5> QED BY <1>3, <1>5, <3>2, <5>1, <5>2
      <4>2. CASE m # "timezone"
        <5>1. Left(i)
          BY <1>2, <2>1, <3>2, <4>2 DEF Once
        <5> QED BY <1>3, <1>5, <3>2, <5>1
      <4> QED BY <4>1, <4>2
    <3>3. ASSUME ~current_page, timezone_set', NEW i \in DOMAIN Pages, Pages[i] = "timezone"
          PROVE  i < PartmanIndex
      <4>1. i # PartmanIndex
        BY <1>3, <3>3
      <4>2. CASE m = "timezone"
        <5>1. PICK n \in 1 .. PartmanIndex : m = Pages[n]
          BY <3>3
        <5>2. n \in DOMAIN Pages /\ n <= PartmanIndex
          BY <1>3
        <5>3. i = n
          BY <1>3, <3>3, <4>2, <5>1, <5>2
        <5> QED BY <1>3, <4>1, <5>2, <5>3
      <4>3. CASE m # "timezone"
        BY <1>2, <2>1, <3>3, <4>3 DEF Once
      <4> QED BY <4>2, <4>3
    <3>4. pagesindex > PartmanIndex => ~backup
      BY <2>1 DEF Once
    <3>5. pagesindex <= PartmanIndex =>
            \A i \in DOMAIN history : history[i].page <= PartmanIndex
      BY <2>1 DEF Once
    <3> QED BY <3>1, <3>2, <3>3, <3>4, <3>5 DEF Once
  <2> QED BY <1>1, <2>1, <2>2, <2>3
<1> QED BY <1>1, <1>2, <1>7, <1>8

LEMMA PageSucceedsCalm ==
  ASSUME TypeInv, Calm, NEW f \in FilterIds, IsPage(f), FilterSucceeds(f)
  PROVE  Calm' /\ (~reopened => InTurn(filters[f].module))
<1> DEFINE m == filters[f].module
<1>1. /\ Up /\ ~OnStack(f) /\ f = dbfilter /\ Owned /\ m \in PageNames /\ m # "plugininstall"
      /\ (m \in Silent /\ Own.go = "none") \/ Own.go = "ok" \/ (m \in NoGo /\ Own.go = "backup")
      /\ ~dbfilter_status' /\ FindNextStep(m, Without(f))
      /\ dbfilter' = NoFilter /\ pending_quits' = pending_quits + LoopQuits(f) + 0 + 1
      /\ allowed_change_step' = (allowed_change_step /\ m # "partman")
      /\ UNCHANGED <<stage, pagesindex, history, backup, current_page, loops, reopened>>
  BY OwnIsPage, Facts DEF FilterSucceeds, Exit, IsPage, Own, Background, Listening, place
<1>2. Own = filters[f] /\ Own.module = m
  BY <1>1 DEF Own
<1> HIDE DEF m
<1>3. ~Asking
  <2>1. ASSUME Asking PROVE OnStack(f)
    <3>1. loops = <<"run", f>> /\ 2 \in DOMAIN <<"run", f>> /\ <<"run", f>>[2] = f
      BY <1>1, <2>1 DEF Asking
    <3> QED BY <3>1 DEF OnStack
  <2> QED BY <1>1, <2>1
<1>4. pending_quits' = pending_quits + 1 /\ pending_quits \in Nat /\ stage = "pages" /\ ~Owned'
  <2>1. ~Own.loop
    BY <1>1, <1>2, <1>3 DEF Calm, Sound, Shape
  <2> QED BY <1>1, <2>1, OwnQuits, Facts DEF Calm, Sound, Shape, Up, Owned
<1>5. /\ Without(f) \in Table /\ HasRoom(Without(f)) /\ Without(f)[f] = Idle
      /\ \A g \in FilterIds \ {f} : Without(f)[g] = filters[g]
  BY Facts, NewFilter DEF Without, Table, HasRoom
<1>6. ~Idle.loop /\ Idle.module = "none"
  BY DEF Idle
<1>7. current_page => loops = <<"run">> /\ pending_quits = 0 /\ ~allowed_change_step
  BY <1>1, <1>3, <1>4 DEF Calm, Sound, Shape, Quits
<1>8. /\ Ordered' /\ Course' /\ (Begun' => Begun \/ locked')
      /\ \A g \in FilterIds :
           filters'[g] = Without(f)[g]
             \/ (Working(g)' /\ ~filters'[g].loop /\ Without(f)[g] = Idle)
      /\ ~reopened => InTurn(m) /\ Work' /\ Once'
  <2>1. \A g \in FilterIds :
          Without(f)[g] = filters[g] \/ (Without(f)[g] = Idle /\ ~Working(g))
    BY <1>1, <1>5, OwnIsPage
  <2>2. ~Over
    BY <1>1 DEF Over
  <2>3. CASE current_page
    <3>1. pagesindex \in DOMAIN Pages /\ m = Pages[pagesindex]
      BY <1>1, <1>2, <2>3 DEF Calm, Sound, Answers
    <3>2. ASSUME backup PROVE m # "partman"
      <4>1. Own.go # "ok"
        BY <1>1, <2>3, <3>2 DEF Calm, Sound, Answers
      <4> QED BY <1>1, <4>1, PagesAssumption
    <3>3. Over'
      BY <1>1, <1>4, <1>7, <2>3 DEF Over
    <3> QED BY <1>1, <1>5, <2>1, <2>2, <2>3, <3>1, <3>2, <3>3, PageEnds
  <2>4. CASE ~current_page
    <3>1. ~Begun /\ \E i \in 1 .. PartmanIndex : m = Pages[i]
      BY <1>1, <1>2, <2>4 DEF Calm, Sound, Course
    <3> QED BY <1>1, <1>5, <2>1, <2>4, <3>1, PageEnds
  <2> QED BY <2>3, <2>4
<1>9. Shape'
  <2>1. \A g \in FilterIds : ~filters'[g].loop
    <3>1. \A g \in FilterIds : ~filters[g].loop
      BY <1>3 DEF Calm, Sound, Shape
    <3> QED BY <1>5, <1>6, <1>8, <3>1
  <2>2. \A g \in FilterIds : ~IsPage(g)'
    <3>1. \A g \in FilterIds : Without(f)[g].module \notin PageNames
      BY <1>1, <1>5, <1>6, OwnIsPage, Facts DEF IsPage
    <3>2. \A g \in FilterIds : Working(g)' => ~IsPage(g)'
      BY Facts DEF Working, IsPage
    <3> QED BY <1>8, <3>1, <3>2 DEF IsPage
  <2>3. loops = <<>> \/ loops = <<"run">>
    BY <1>3, <1>4 DEF Calm, Sound, Shape
  <2> QED BY <1>1, <1>4, <2>1, <2>2, <2>3 DEF Shape, Asking
<1>10. Quits'
  <2>1. current_page => /\ loops' = <<"run">> /\ loops' # <<>> /\ pending_quits' = 1
                        /\ ~allowed_change_step'
    <3>1. current_page => pending_quits' = 1
      BY <1>4, <1>7
    <3> QED BY <1>1, <1>7, <3>1, Loops
  <2>2. ~Asking'
    BY <1>4 DEF Asking
  <2> QED BY <1>1, <1>4, <2>1, <2>2 DEF Quits
<1>11. Answers'
  BY <1>1, <1>4 DEF Answers
<1>12. Ends'
  <2>1. locked => locked'
    BY <1>1 DEF FindNextStep
  <2> QED BY <1>1, <1>4, <1>8, <2>1 DEF Calm, Sound, Ends, Up
<1>13. Last'
  BY <1>1, <1>4 DEF Last
<1> QED BY <1>1, <1>8, <1>9, <1>10, <1>11, <1>12, <1>13 DEF Calm, Sound, Straight, m

(* The page's script ends because it was told to back up. *)
LEMMA FilterFailsCalm ==
  ASSUME TypeInv, Calm, faults' = 0, NEW f \in FilterIds, FilterFails(f)
  PROVE  Calm'
<1>1. /\ Up /\ ~OnStack(f) /\ f = dbfilter /\ Owned /\ IsPage(f) /\ Own.go = "backup"
      /\ filters' = Without(f)
      /\ dbfilter' = NoFilter /\ pending_quits' = pending_quits + LoopQuits(f) + 0 + 1
      /\ UNCHANGED <<stage, pagesindex, history, backup, current_page, loops, locked, progress,
                     allowed_change_step, reopened>>
  BY OwnIsPage, NoFaults DEF FilterFails, Exit, Own, Listening, place, buttons
<1>2. Own = filters[f]
  BY <1>1 DEF Own
<1>3. ~Asking
  <2>1. ASSUME Asking PROVE OnStack(f)
    <3>1. loops = <<"run", f>> /\ 2 \in DOMAIN <<"run", f>> /\ <<"run", f>>[2] = f
      BY <1>1, <2>1 DEF Asking
    <3> QED BY <3>1 DEF OnStack
  <2> QED BY <1>1, <2>1
<1>4. pending_quits' = pending_quits + 1 /\ pending_quits \in Nat /\ stage = "pages" /\ ~Owned'
  <2>1. ~Own.loop
    BY <1>1, <1>2, <1>3 DEF Calm, Sound, Shape
  <2> QED BY <1>1, <2>1, OwnQuits, Facts DEF Calm, Sound, Shape, Up, Owned
<1>5. filters'[f] = Idle /\ \A g \in FilterIds \ {f} : filters'[g] = filters[g]
  BY <1>1, Facts DEF Without, Table
<1>6. ~Idle.loop /\ Idle.module = "none" /\ "none" \notin Background /\ ~Working(f)
  BY <1>1, OwnIsPage DEF Idle, Background
<1>7. current_page => loops = <<"run">> /\ pending_quits = 0 /\ ~allowed_change_step /\ backup
  BY <1>1, <1>3, <1>4 DEF Calm, Sound, Shape, Quits, Answers
<1>8. SameWork
  BY <1>5, <1>6 DEF SameWork, Working
<1>9. /\ Ordered' /\ (Begun' <=> Begun)
      /\ \A g \in FilterIds : Working(g)' <=> Working(g)
      /\ ~reopened => Work'
  BY <1>1, <1>8, WorkKept
<1>10. Shape'
  <2>1. \A g \in FilterIds : ~filters'[g].loop /\ ~IsPage(g)'
    <3>1. \A g \in FilterIds : ~filters[g].loop
      BY <1>3 DEF Calm, Sound, Shape
    <3> QED BY <1>1, <1>5, <1>6, <3>1, OwnIsPage, Facts DEF IsPage
  <2>2. loops = <<>> \/ loops = <<"run">>
    BY <1>3, <1>4 DEF Calm, Sound, Shape
  <2> QED BY <1>1, <1>4, <2>1, <2>2 DEF Shape, Asking
<1>11. Quits'
  <2>1. current_page => /\ loops' = <<"run">> /\ loops' # <<>> /\ pending_quits' = 1
                        /\ ~allowed_change_step'
    <3>1. current_page => pending_quits' = 1
      BY <1>4, <1>7
    <3> QED BY <1>1, <1>7, <3>1, Loops
  <2>2. ~Asking'
    BY <1>4 DEF Asking
  <2> QED BY <1>1, <1>4, <2>1, <2>2 DEF Quits
<1>12. Answers'
  BY <1>1, <1>4, <1>7 DEF Answers
<1>13. current_page => \A i \in 1 .. Len(Pages) : Left(i)' <=> Left(i)
  BY <1>1, <1>7 DEF Left, Over
<1>14. Course'
  BY <1>1, <1>4, <1>9, <1>13, Facts DEF Calm, Sound, Course, progress
<1>15. Ends' /\ Last'
  BY <1>1, <1>4, <1>9 DEF Calm, Sound, Ends, Last, Up
<1>16. ~reopened => Once'
  BY <1>1, <1>9, <1>13, Facts DEF Calm, Straight, Once, progress
<1> QED BY <1>1, <1>9, <1>10, <1>11, <1>12, <1>14, <1>15, <1>16 DEF Calm, Sound, Straight

LEMMA StepSucceedsCalm ==
  ASSUME TypeInv, Calm, NEW f \in FilterIds, Working(f), FilterSucceeds(f)
  PROVE  Calm'
<1> DEFINE m == filters[f].module
<1>1. /\ Up /\ f # dbfilter /\ ~filters[f].loop
      /\ m = "plugininstall" => pending_quits = 0 /\ loops # <<>>
      /\ m \in Background
      /\ ~dbfilter_status' /\ FindNextStep(m, Without(f))
      /\ dbfilter' = dbfilter
      /\ pending_quits' = pending_quits + LoopQuits(f) + (IF m = "plugininstall" THEN 1 ELSE 0) + 0
      /\ allowed_change_step' = (allowed_change_step /\ m # "partman")
      /\ UNCHANGED <<stage, pagesindex, history, backup, current_page, loops, reopened>>
  <2>1. m \notin PageNames /\ m \in Background /\ f # dbfilter /\ ~filters[f].loop
    BY OwnIsPage, Facts DEF Working
  <2>2. ASSUME m = "plugininstall" PROVE pending_quits = 0 /\ loops # <<>>
    <3>1. m \notin Silent /\ m \notin NoGo
      BY <2>1, PagesAssumption
    <3> QED BY <2>1, <2>2, <3>1 DEF FilterSucceeds
  <2> QED BY <2>1, <2>2 DEF FilterSucceeds, Exit, Listening, place
<1>2. /\ Ordered' /\ Begun /\ Begun'
      /\ timezone_set' = timezone_set /\ finished_pages' = finished_pages
      /\ finished_installing => finished_installing'
      /\ \A g \in FilterIds :
           \/ filters'[g] = filters[g] /\ g # f
           \/ /\ g = f \/ filters[g] = Idle
              /\ filters'[g] = Idle \/ (Working(g)' /\ ~filters'[g].loop)
      /\ m = "plugininstall" => filters' = Without(f)
      /\ Work => Work'
  BY <1>1, NextWork DEF Calm, Sound
<1>3. m = "plugininstall" => finished_installing /\ finished_pages
  BY DEF Calm, Sound, Ordered
<1> HIDE DEF m
<1>4. /\ m # "plugininstall" => pending_quits' = pending_quits
      /\ m = "plugininstall" => pending_quits = 0 /\ pending_quits' = 1
      /\ LoopQuits(f) = 0
  BY <1>1, Facts DEF LoopQuits
<1>5. ASSUME m = "plugininstall"
      PROVE  stage = "slideshow" /\ loops = <<"run">> /\ ~Owned /\ pagesindex = Len(Pages) + 1
             /\ current_page
  <2>1. current_page
    BY <1>3, <1>5 DEF Calm, Sound, Course
  <2>2. ~Over
    BY <1>1, <1>5, Facts DEF Over
  <2>3. pagesindex = Len(Pages) + 1
    BY <1>3, <1>5, <2>1, <2>2, Facts DEF Calm, Sound, Course, Left
  <2>4. ~Owned
    BY <2>1, <2>3, Facts DEF Calm, Sound, Answers
  <2>5. stage = "slideshow"
    <3>1. ASSUME stage = "pages" PROVE FALSE
      <4>1. loops = <<"run">>
        BY <1>1, <1>5, <2>4, <3>1 DEF Calm, Sound, Shape, Asking
      <4>2. OnStack("run")
        <5>1. 1 \in DOMAIN <<"run">> /\ <<"run">>[1] = "run"
          OBVIOUS
        <5> QED BY <4>1, <5>1 DEF OnStack
      <4> QED BY <2>3, <3>1, <4>2, Facts DEF TypeInv, PlaceOK
    <3> QED BY <1>1, <3>1 DEF Up
  <2> QED BY <2>1, <2>3, <2>4, <2>5 DEF Calm, Sound, Shape
<1>6. (Owned' <=> Owned) /\ (Asking' <=> Asking) /\ (Owned => Own' = Own)
  <2>1. Owned => filters'[dbfilter] = filters[dbfilter]
    <3>1. Owned => dbfilter \in FilterIds /\ filters[dbfilter] # Idle
      <4>1. Idle.module \notin PageNames
        BY NewFilter, Facts
      <4> QED BY <4>1, OwnIsPage DEF IsPage
    <3> QED BY <1>1, <1>2, <3>1
  <2> QED BY <1>1, <2>1 DEF Owned, Asking, Own
<1>7. Shape'
  <2>1. \A g \in FilterIds :
          \/ filters'[g] = filters[g]
          \/ ~filters'[g].loop /\ ~IsPage(g)'
    <3>1. ~Idle.loop /\ Idle.module \notin PageNames
      BY Facts DEF Idle
    <3>2. \A g \in FilterIds : Working(g)' => ~IsPage(g)'
      BY Facts DEF Working, IsPage
    <3> QED BY <1>2, <3>1, <3>2 DEF IsPage
  <2>2. \A g \in FilterIds : filters'[g].loop => g = dbfilter /\ Asking /\ pending_quits = 0
    BY <2>1 DEF Calm, Sound, Shape
  <2>3. \A g \in FilterIds : IsPage(g)' => g = dbfilter
    BY <2>1 DEF Calm, Sound, Shape, IsPage
  <2>4. Asking => m # "plugininstall"
    BY <1>5, Loops DEF Asking
  <2>5. Asking => Own'.go = "none"
    BY <1>6 DEF Calm, Sound, Shape, Asking
  <2> QED BY <1>1, <1>4, <1>6, <2>2, <2>3, <2>4, <2>5 DEF Calm, Sound, Shape, Asking
<1>8. Quits'
  <2>1. allowed_change_step' => allowed_change_step
    BY <1>1
  <2>2. CASE m = "plugininstall"
    BY <1>1, <1>4, <1>5, <1>6, <2>2, Loops DEF Quits, Asking
  <2>3. CASE m # "plugininstall"
    BY <1>1, <1>4, <1>6, <2>1, <2>3 DEF Calm, Sound, Quits, Up, Asking
  <2> QED BY <2>2, <2>3
<1>9. Answers'
  <2>1. pending_quits' > 0 /\ Owned => pending_quits > 0
    BY <1>4, <1>5, Facts
  <2> QED BY <1>1, <1>6, <2>1 DEF Calm, Sound, Answers
<1>10. \A i \in 1 .. Len(Pages) : Left(i)' <=> Left(i)
  <2>1. CASE m = "plugininstall"
    BY <1>1, <1>5, <2>1, Facts DEF Left
  <2>2. CASE m # "plugininstall"
    BY <1>1, <1>4, <1>6, <2>2 DEF Left, Over
  <2> QED BY <2>1, <2>2
<1>11. Course'
  <2>1. allowed_change_step' => allowed_change_step
    BY <1>1
  <2> QED BY <1>1, <1>2, <1>6, <1>10, <2>1, Facts DEF Calm, Sound, Course
<1>12. Ends'
  <2>1. locked => locked'
    BY <1>1 DEF FindNextStep
  <2> QED BY <1>1, <1>2, <2>1 DEF Calm, Sound, Ends, Up
<1>13. ASSUME ~reopened PROVE Once' /\ Last'
  <2>1. Once'
    BY <1>1, <1>2, <1>10, <1>13, Facts DEF Calm, Straight, Once
  <2>2. ~(stage = "slideshow" /\ pending_quits > 0)
    BY <1>13 DEF Calm, Straight, Last
  <2>3. ASSUME stage = "slideshow", pending_quits' > 0
        PROVE  finished_installing' /\ finished_pages' /\ \A g \in FilterIds : ~Working(g)'
    <3>1. m = "plugininstall"
      BY <1>4, <2>2, <2>3
    <3>2. filters' = Without(f) /\ finished_installing' /\ finished_pages'
      BY <1>2, <1>3, <3>1
    <3>3. \A g \in FilterIds : g # f => ~Working(g)
      BY <1>13 DEF Calm, Straight, Work
    <3>4. \A g \in FilterIds : filters'[g] = IF g = f THEN Idle ELSE filters[g]
      BY <3>2, Facts DEF Without, Table
    <3>5. Idle.module \notin Background
      BY DEF Idle, Background
    <3> QED BY <3>2, <3>3, <3>4, <3>5 DEF Working
  <2>4. Last'
    BY <1>1, <2>3 DEF Last, Up
  <2> QED BY <2>1, <2>4
<1> QED BY <1>1, <1>2, <1>7, <1>8, <1>9, <1>11, <1>12, <1>13 DEF Calm, Sound, Straight

-----------------------------------------------------------------------------
(* The user *)

(* When the buttons work, the page's question is on the screen, if it has a *)
(* filter, and no quit is on its way.                                      *)
LEMMA Enabled ==
  ASSUME TypeInv, Calm, CanClick
  PROVE  /\ stage = "pages" /\ loops # <<>> /\ pagesindex \in DOMAIN Pages
         /\ current_page /\ Owned => Asking /\ Own.loop
         /\ current_page => pending_quits = 0 /\ ~backup
         /\ ~Owned => loops = <<"run">>
         /\ ~current_page => ~Begun /\ pagesindex <= PartmanIndex
<1>1. stage = "pages" /\ loops # <<>> /\ pagesindex \in DOMAIN Pages /\ allowed_change_step
  BY Facts DEF CanClick, Listening, Up, Calm, Sound, Ends
<1>2. loops = <<"run">> \/ Asking
  BY <1>1 DEF Calm, Sound, Shape
<1>3. ~Owned => loops = <<"run">>
  BY <1>2 DEF Asking
<1>4. current_page /\ Owned => Asking /\ Own.loop /\ pending_quits = 0 /\ ~backup
  BY <1>1, <1>2 DEF Calm, Sound, Quits, Up
<1>5. current_page /\ ~Owned => pending_quits = 0 /\ ~backup
  BY <1>1, <1>3, Facts DEF Calm, Sound, Quits, Up
<1>6. ~current_page => ~Begun /\ pagesindex <= PartmanIndex
  BY <1>1 DEF Calm, Sound, Course
<1> QED BY <1>1, <1>3, <1>4, <1>5, <1>6

LEMMA NextOnFilterPageCalm ==
  ASSUME TypeInv, Calm, NextOnFilterPage
  PROVE  Calm'
<1>1. CanClick /\ Owned /\ dbfilter \in FilterIds
  BY Facts DEF NextOnFilterPage, Owned
<1>2. PICK d \in BOOLEAN :
        /\ filters' = [filters EXCEPT ![dbfilter].done = d, ![dbfilter].succeeded = TRUE,
                                      ![dbfilter].loop = FALSE]
        /\ Own.done => d
  BY DEF NextOnFilterPage, Own
<1>3. /\ pending_quits' = pending_quits + LoopQuits(dbfilter) /\ ~allowed_change_step'
      /\ locked => locked'
      /\ UNCHANGED <<stage, pagesindex, history, backup, current_page, dbfilter,
                     dbfilter_status, loops, progress, reopened>>
  BY DEF NextOnFilterPage, Clicked, place
<1>4. /\ \A g \in FilterIds \ {dbfilter} : filters'[g] = filters[g]
      /\ filters'[dbfilter] = [Own EXCEPT !.done = d, !.succeeded = TRUE, !.loop = FALSE]
  BY <1>1, <1>2, Facts DEF Own, Table
<1>5. /\ Own'.module = Own.module /\ (Own.done => Own'.done) /\ Own'.succeeded
      /\ ~Own'.loop /\ Own'.go = Own.go /\ Own' = filters'[dbfilter] /\ Own = filters[dbfilter]
  BY <1>1, <1>2, <1>3, <1>4, Facts DEF Own, Table, Filters
<1>6. SameWork
  BY <1>4, <1>5 DEF SameWork
<1>7. /\ Ordered' /\ (Begun' <=> Begun)
      /\ \A g \in FilterIds : Working(g)' <=> Working(g)
      /\ ~reopened => Work'
  BY <1>3, <1>6, WorkKept
<1>8. Owned' /\ (Asking' <=> Asking) /\ stage = "pages"
  BY <1>1, <1>3, Enabled DEF Owned, Asking
<1>9. current_page => Asking /\ pending_quits' = 1 /\ ~backup
  <2>1. current_page => Asking /\ Own.loop /\ pending_quits = 0 /\ ~backup
    BY <1>1, Enabled
  <2> QED BY <1>1, <1>3, <2>1, OwnQuits
<1>10. Shape'
  BY <1>1, <1>3, <1>4, <1>5, <1>8, Facts DEF Calm, Sound, Shape, IsPage
<1>11. Quits'
  <2>1. Asking => loops # <<>> /\ loops # <<"run">>
    BY <1>1, Loops DEF Asking
  <2> QED BY <1>3, <1>8, <1>9, <2>1 DEF Quits
<1>12. Answers'
  <2>1. current_page => pagesindex \in DOMAIN Pages /\ Own.module = Pages[pagesindex]
    BY <1>1 DEF Calm, Sound, Answers
  <2>2. current_page => Own.go = "none"
    BY <1>9 DEF Calm, Sound, Shape
  <2>3. ~current_page => Own.done
    BY <1>1 DEF Calm, Sound, Answers
  <2> QED BY <1>3, <1>5, <1>8, <1>9, <2>1, <2>2, <2>3 DEF Answers
<1>13. \A i \in 1 .. Len(Pages) : Left(i)' <=> Left(i)
  BY <1>1, <1>3, <1>8 DEF Left, Over
<1>14. Course'
  BY <1>1, <1>3, <1>5, <1>7, <1>8, <1>13, Facts DEF Calm, Sound, Course, progress
<1>15. Ends' /\ Last'
  BY <1>3, <1>7, <1>8 DEF Calm, Sound, Ends, Last, Up
<1>16. ~reopened => Once'
  BY <1>3, <1>7, <1>13, Facts DEF Calm, Straight, Once, progress
<1> QED BY <1>3, <1>7, <1>10, <1>11, <1>12, <1>14, <1>15, <1>16 DEF Calm, Sound, Straight

LEMMA NextOnUiPageCalm ==
  ASSUME TypeInv, Calm, NextOnUiPage
  PROVE  Calm' /\ (~reopened => InTurn(Page))
<1>1. CanClick /\ ~Owned /\ pagesindex \in DOMAIN Pages /\ stage = "pages" /\ loops = <<"run">>
  BY Enabled DEF NextOnUiPage, Owned
<1>2. Page \in PageNames /\ Page = Pages[pagesindex]
  BY <1>1, Facts DEF Page
<1>3. /\ Launches(Page) # {} => HasRoom(filters)
      /\ FindNextStep(Page, filters) /\ pending_quits' = pending_quits + 1
      /\ ~allowed_change_step' /\ dbfilter = NoFilter
      /\ UNCHANGED <<stage, pagesindex, history, backup, current_page, dbfilter,
                     dbfilter_status, loops, reopened>>
  BY DEF NextOnUiPage, Clicked, place
<1>4. current_page => pending_quits' = 1 /\ ~backup /\ ~Over /\ Over'
  <2>1. current_page => pending_quits = 0 /\ ~backup
    BY <1>1, Enabled
  <2> QED BY <1>1, <1>3, <2>1 DEF Over, Owned
<1>5. ~current_page => ~Begun /\ \E i \in 1 .. PartmanIndex : Page = Pages[i]
  <2>1. ~current_page => ~Begun /\ pagesindex \in 1 .. PartmanIndex
    BY <1>1, Enabled, Facts
  <2> QED BY <1>2, <2>1
<1>6. /\ Ordered' /\ Course' /\ (Begun' => Begun \/ locked')
      /\ \A g \in FilterIds :
           filters'[g] = filters[g]
             \/ (Working(g)' /\ ~filters'[g].loop /\ filters[g] = Idle)
      /\ ~reopened => InTurn(Page) /\ Work' /\ Once'
  BY <1>1, <1>2, <1>3, <1>4, <1>5, Facts, PageEnds
<1>7. ~Owned' /\ ~Asking'
  BY <1>1, <1>3 DEF Owned, Asking
<1>8. Shape'
  <2>1. \A g \in FilterIds : ~filters'[g].loop /\ ~IsPage(g)'
    <3>1. \A g \in FilterIds : ~filters[g].loop /\ ~IsPage(g)
      BY <1>1, OwnIsPage DEF Calm, Sound, Shape, Asking
    <3>2. \A g \in FilterIds : Working(g)' => ~IsPage(g)'
      BY Facts DEF Working, IsPage
    <3> QED BY <1>6, <3>1, <3>2 DEF IsPage
  <2> QED BY <1>1, <1>3, <1>7, <2>1 DEF Shape
<1>9. Quits'
  BY <1>1, <1>3, <1>4, <1>7, Facts, Loops DEF Quits
<1>10. Answers'
  BY <1>1, <1>3, <1>7 DEF Calm, Sound, Answers, Up
<1>11. Ends'
  <2>1. locked => locked'
    BY <1>3 DEF FindNextStep
  <2> QED BY <1>1, <1>3, <1>6, <2>1 DEF Calm, Sound, Ends, Up
<1>12. Last'
  BY <1>1, <1>3 DEF Last
<1> QED BY <1>3, <1>6, <1>8, <1>9, <1>10, <1>11, <1>12 DEF Calm, Sound, Straight

(* What cancel_handler does to the page's filter, and to no other. *)
LEMMA Backed ==
  ASSUME TypeInv, filters' = Cancelled(dbfilter), UNCHANGED dbfilter
  PROVE  /\ SameWork
         /\ \A g \in FilterIds : IsPage(g)' <=> IsPage(g)
         /\ \A g \in FilterIds : g # dbfilter => filters'[g] = filters[g]
         /\ Owned => /\ Own'.module = Own.module /\ Own'.done /\ ~Own'.succeeded
                     /\ ~Own'.loop /\ Own'.go = Own.go
<1>1. CASE ~Owned
  BY <1>1 DEF Cancelled, Owned, SameWork, IsPage
<1>2. CASE Owned
  <2>1. /\ dbfilter \in FilterIds /\ Own' = filters'[dbfilter] /\ Own = filters[dbfilter]
        /\ filters' = [filters EXCEPT ![dbfilter].done = TRUE, ![dbfilter].succeeded = FALSE,
                                      ![dbfilter].loop = FALSE]
    BY <1>2, Facts DEF Cancelled, Owned, Own
  <2>2. /\ \A g \in FilterIds \ {dbfilter} : filters'[g] = filters[g]
        /\ filters'[dbfilter] = [Own EXCEPT !.done = TRUE, !.succeeded = FALSE, !.loop = FALSE]
    BY <2>1, Facts DEF Table
  <2>3. /\ Own'.module = Own.module /\ Own'.done /\ ~Own'.succeeded
        /\ ~Own'.loop /\ Own'.go = Own.go
    BY <2>1, <2>2, Facts DEF Table, Filters
  <2> QED BY <2>1, <2>2, <2>3 DEF SameWork, IsPage
<1> QED BY <1>1, <1>2

LEMMA BackClickedCalm ==
  ASSUME TypeInv, Calm, BackClicked
  PROVE  Calm'
<1>1. CanClick /\ pagesindex \in DOMAIN Pages /\ stage = "pages" /\ loops # <<>>
  BY Enabled DEF BackClicked
<1>2. /\ filters' = Cancelled(dbfilter) /\ ~allowed_change_step' /\ backup'
      /\ pending_quits' = pending_quits + (IF dbfilter = NoFilter THEN 1 ELSE LoopQuits(dbfilter))
      /\ reopened' = (reopened \/ pagesindex > PartmanIndex)
      /\ UNCHANGED <<stage, pagesindex, history, current_page, dbfilter, dbfilter_status,
                     loops, locked, progress>>
  BY DEF BackClicked, Clicked
<1>3. pagesindex > PartmanIndex => Begun /\ current_page
  <2>1. pagesindex > PartmanIndex => current_page /\ Left(PartmanIndex)
    BY Facts DEF Calm, Sound, Course, Left
  <2> QED BY <2>1 DEF Calm, Sound, Course
<1>4. /\ SameWork
      /\ \A g \in FilterIds : IsPage(g)' <=> IsPage(g)
      /\ \A g \in FilterIds : g # dbfilter => filters'[g] = filters[g]
      /\ Owned => /\ Own'.module = Own.module /\ Own'.done /\ ~Own'.succeeded
                  /\ ~Own'.loop /\ Own'.go = Own.go /\ Own' = filters'[dbfilter]
  BY <1>2, Backed DEF Own
<1>5. /\ Ordered' /\ (Begun' <=> Begun)
      /\ \A g \in FilterIds : Working(g)' <=> Working(g)
      /\ ~reopened => Work'
  BY <1>2, <1>4, WorkKept
<1>6. (Owned' <=> Owned) /\ (Asking' <=> Asking)
  BY <1>2 DEF Owned, Asking
<1>7. current_page => pending_quits = 0 /\ pending_quits' = 1 /\ (Owned => Asking) /\ ~backup
  <2>1. current_page => pending_quits = 0 /\ (Owned => Asking /\ Own.loop) /\ ~backup
    BY <1>1, Enabled
  <2> QED BY <1>2, <2>1, OwnQuits DEF Owned
<1>8. Shape'
  <2>1. ASSUME NEW g \in FilterIds PROVE ~filters'[g].loop
    <3>1. CASE g = dbfilter
      BY <1>4, <3>1, FilterIdsAssumption DEF Owned
    <3>2. CASE g # dbfilter
      BY <1>4, <3>2 DEF Calm, Sound, Shape
    <3> QED BY <3>1, <3>2
  <2>2. \A g \in FilterIds : IsPage(g)' => g = dbfilter
    BY <1>4 DEF Calm, Sound, Shape
  <2>3. Asking => Own'.go = "none"
    BY <1>4 DEF Calm, Sound, Shape, Asking
  <2>4. loops = <<>> \/ loops = <<"run">> \/ Asking
    BY <1>1 DEF Calm, Sound, Shape
  <2> QED BY <1>1, <1>2, <1>6, <2>1, <2>2, <2>3, <2>4 DEF Shape
<1>9. Quits'
  <2>1. Asking => loops # <<>> /\ loops # <<"run">>
    BY Facts, Loops DEF Asking
  <2> QED BY <1>1, <1>2, <1>6, <1>7, <2>1 DEF Quits
<1>10. Answers'
  <2>1. Owned /\ current_page => Own.module = Pages[pagesindex] /\ Own.go = "none"
    BY <1>7 DEF Calm, Sound, Shape, Answers
  <2> QED BY <1>1, <1>2, <1>4, <1>6, <1>7, <2>1 DEF Answers
<1>11. current_page => \A i \in 1 .. Len(Pages) : Left(i)' <=> Left(i)
  BY <1>2, <1>7 DEF Left, Over
<1>12. Course'
  <2>1. pagesindex # Len(Pages) + 1
    BY <1>1, Facts
  <2>2. reopened' => Begun' /\ current_page'
    BY <1>2, <1>3, <1>5 DEF Calm, Sound, Course
  <2> QED BY <1>2, <1>4, <1>5, <1>6, <1>11, <2>1, <2>2, Facts DEF Calm, Sound, Course, progress
<1>13. Ends' /\ Last'
  BY <1>1, <1>2, <1>5 DEF Calm, Sound, Ends, Last, Up
<1>14. ASSUME ~reopened' PROVE Once' /\ Work'
  <2>1. ~reopened /\ ~(pagesindex > PartmanIndex)
    BY <1>2, <1>14
  <2> QED BY <1>2, <1>5, <1>11, <2>1, Facts DEF Calm, Straight, Once, progress
<1> QED BY <1>5, <1>8, <1>9, <1>10, <1>12, <1>13, <1>14 DEF Calm, Sound, Straight

LEMMA QuitCalm ==
  ASSUME TypeInv, Calm, Quit
  PROVE  Calm'
<1>1. /\ Up /\ loops # <<>> /\ ~locked /\ current_page /\ ~current_page'
      /\ filters' = Cancelled(dbfilter)
      /\ UNCHANGED <<stage, pagesindex, history, backup, dbfilter, dbfilter_status,
                     loops, locked, progress, allowed_change_step, reopened>>
  BY DEF Quit, Listening, buttons
<1>2. ~Begun /\ ~reopened
  BY <1>1 DEF Calm, Sound, Ends, Course
<1>3. pagesindex <= PartmanIndex /\ pagesindex \in 1 .. Len(Pages)
  BY <1>1, <1>2, Facts DEF Calm, Sound, Course, Left
<1>4. stage = "pages"
  BY <1>1, <1>3, Facts DEF Calm, Sound, Ends, Up
<1>5. /\ SameWork
      /\ \A g \in FilterIds : IsPage(g)' <=> IsPage(g)
      /\ \A g \in FilterIds : g # dbfilter => filters'[g] = filters[g]
      /\ Owned => /\ Own'.module = Own.module /\ Own'.done /\ ~Own'.succeeded
                  /\ ~Own'.loop /\ Own'.go = Own.go /\ Own' = filters'[dbfilter]
  BY <1>1, Backed DEF Own
<1>6. /\ Ordered' /\ (Begun' <=> Begun)
      /\ \A g \in FilterIds : Working(g)' <=> Working(g)
      /\ ~reopened => Work'
  BY <1>1, <1>5, WorkKept
<1>7. (Owned' <=> Owned) /\ (Asking' <=> Asking)
  BY <1>1 DEF Owned, Asking
<1>8. Shape'
  <2>1. ASSUME NEW g \in FilterIds PROVE ~filters'[g].loop
    <3>1. CASE g = dbfilter
      BY <1>5, <3>1, FilterIdsAssumption DEF Owned
    <3>2. CASE g # dbfilter
      BY <1>5, <3>2 DEF Calm, Sound, Shape
    <3> QED BY <3>1, <3>2
  <2>2. \A g \in FilterIds : IsPage(g)' => g = dbfilter
    BY <1>5 DEF Calm, Sound, Shape
  <2>3. Asking => Own'.go = "none"
    BY <1>5 DEF Calm, Sound, Shape, Asking
  <2>4. loops = <<>> \/ loops = <<"run">> \/ Asking
    BY <1>4 DEF Calm, Sound, Shape
  <2> QED BY <1>1, <1>4, <1>7, <2>1, <2>2, <2>3, <2>4 DEF Shape
<1>9. Quits' /\ Answers'
  BY <1>1, <1>5, <1>7 DEF Quits, Answers
<1>10. ~finished_pages
  <2>1. /\ pagesindex \in Nat /\ PartmanIndex \in Nat /\ Len(Pages) \in Nat
        /\ PartmanIndex < Len(Pages)
    BY <1>3, Facts
  <2>2. pagesindex # Len(Pages) /\ ~(pagesindex > Len(Pages))
    BY <1>3, <2>1
  <2>3. ~Left(Len(Pages))
    BY <2>2 DEF Left
  <2> QED BY <1>1, <2>3 DEF Calm, Sound, Course
<1>11. Course'
  <2>1. Owned => \E i \in 1 .. PartmanIndex : Own.module = Pages[i]
    BY <1>1, <1>3, Facts DEF Calm, Sound, Answers
  <2>2. pagesindex # Len(Pages) + 1
    BY <1>3, Facts
  <2> QED BY <1>1, <1>2, <1>3, <1>5, <1>6, <1>7, <1>10, <2>1, <2>2 DEF Course, progress
<1>12. Once'
  <2>1. ASSUME timezone_set, NEW i \in DOMAIN Pages, Pages[i] = "timezone" PROVE i < PartmanIndex
    <3>1. i # PartmanIndex
      BY <2>1, Facts
    <3>2. CASE i > PartmanIndex
      BY <1>1, <1>2, <1>3, <2>1, <3>2, Facts DEF Calm, Straight, Once, Left
    <3> QED BY <2>1, <3>1, <3>2, Facts
  <2>2. pagesindex <= PartmanIndex => UpToPartman
    BY <1>2 DEF Calm, Straight, Once, UpToPartman
  <2> QED BY <1>1, <1>3, <2>1, <2>2, Facts DEF Once, progress, UpToPartman
<1>13. Ends' /\ Last'
  BY <1>1, <1>2, <1>4, <1>6 DEF Ends, Last, Up
<1> QED BY <1>1, <1>2, <1>6, <1>8, <1>9, <1>11, <1>12, <1>13 DEF Calm, Sound, Straight

-----------------------------------------------------------------------------
(* The invariant *)

LEMMA CalmAtFirst == Init => Calm
<1> SUFFICES ASSUME Init PROVE Calm
  OBVIOUS
<1>1. /\ stage = "pages" /\ loops = <<>> /\ pending_quits = 0 /\ current_page /\ ~Owned
      /\ ~backup /\ ~dbfilter_status /\ history = <<>> /\ pagesindex = 1
      /\ ~reopened /\ ~partitioned /\ ~timezone_set /\ ~finished_installing /\ ~finished_pages
      /\ \A f \in FilterIds : filters[f] = Idle
  BY DEF Init, Owned
<1>2. ~Idle.loop /\ Idle.module \notin PageNames \cup Background
  BY PagesAssumption DEF Idle, Background
<1>4. ~Asking /\ ~Over
  BY <1>1 DEF Asking, Over
<1>5. \A i \in 1 .. Len(Pages) : ~Left(i)
  BY <1>1, <1>4, PagesAreNumbered DEF Left
<1>6. ~Begun /\ \A f \in FilterIds : ~Working(f) /\ ~IsPage(f)
  BY <1>1, <1>2 DEF Begun, Working, IsPage, Background
<1>7. Shape /\ Quits /\ Answers /\ Ordered /\ Ends
  BY <1>1, <1>2, <1>4, <1>6 DEF Shape, Quits, Answers, Ordered, Ends, Working, Background
<1>8. Course
  BY <1>1, <1>5, <1>6, PagesAreNumbered DEF Course
<1>9. Once /\ Work /\ Last
  BY <1>1, <1>5, <1>6, PagesAreNumbered DEF Once, Work, Last, Working, Background
<1> QED BY <1>7, <1>8, <1>9 DEF Calm, Sound, Straight

LEMMA CalmNext ==
  ASSUME TypeInv, Calm, faults' = 0, [Next]_vars
  PROVE  Calm'
<1>1. CASE Run
  BY <1>1, StartFilterPageCalm, StartUiPageCalm, AfterPageCalm, LeavingCalm DEF Run
<1>2. ASSUME NEW f \in FilterIds, Filter(f) PROVE Calm'
  <2>1. CASE FilterSucceeds(f)
    <3>1. IsPage(f) \/ Working(f)
      BY <2>1, PagesAssumption DEF FilterSucceeds, IsPage, Working, Live, TypeInv, FiltersOK,
         Table, Filters
    <3> QED BY <2>1, <3>1, PageSucceedsCalm, StepSucceedsCalm
  <2> QED BY <1>2, <2>1, AnswerAtOnceCalm, AskCalm, QuestionReturnsCalm DEF Filter
<1>3. ASSUME NEW f \in FilterIds, Fault(f) PROVE Calm'
  <2>1. FilterFails(f)
    BY <1>3, NoFaults DEF Fault, Crash, BackgroundError, PartmanError, PageError
  <2> QED BY <2>1, FilterFailsCalm
<1>4. CASE User
  BY <1>4, NextOnFilterPageCalm, NextOnUiPageCalm, BackClickedCalm, QuitCalm DEF User
<1>5. CASE Ended \/ UNCHANGED vars
  BY <1>5 DEF Ended, vars, place, progress, buttons, Calm, Sound, Straight, Shape, Quits,
              Answers, Course, Ordered, Ends, Once, Work, Last, Owned, Own, Asking, Over, Left,
              Begun, Working, IsPage, Up
<1> QED BY <1>1, <1>2, <1>3, <1>4, <1>5 DEF Next

(* Up to the first failure, the wizard is in the states Calm describes.    *)
THEOREM StaysCalm == Spec => [](TypeInv /\ (faults = 0 => Calm))
<1>1. Init => (faults = 0 => Calm)
  BY CalmAtFirst
<1>2. TypeInv /\ (faults = 0 => Calm) /\ [Next]_vars => (faults = 0 => Calm)'
  <2> SUFFICES ASSUME TypeInv, faults = 0 => Calm, [Next]_vars, faults' = 0 PROVE Calm'
    OBVIOUS
  <2>1. UNCHANGED faults
    BY NoFaults, HistoryStep DEF TypeInv
  <2> QED BY <2>1, CalmNext
<1> QED BY <1>1, <1>2, TypeInvariant, PTL DEF Spec

(* Up to the first failure, every quit asked for ends the main loop it was *)
(* asked for.                                                              *)
THEOREM QuitsArrive == Spec => [](faults = 0 => NoQuitLost)
<1>1. TypeInv /\ Calm => NoQuitLost
  <2> SUFFICES ASSUME TypeInv, Calm PROVE NoQuitLost
    OBVIOUS
  <2>1. ASSUME Up, current_page PROVE pending_quits <= Len(loops)
    <3>1. loops = <<>> \/ loops = <<"run">> \/ Asking
      BY <2>1 DEF Calm, Sound, Shape, Up
    <3>2. CASE loops = <<>>
      BY <2>1, <3>2 DEF Calm, Sound, Quits
    <3>3. CASE loops = <<"run">>
      BY <2>1, <3>3, Facts DEF Calm, Sound, Quits
    <3>4. CASE Asking
      <4>1. Len(loops) = 2
        BY <3>4, Facts, Loops DEF Asking
      <4>2. pending_quits <= 1
        BY <2>1, <3>4 DEF Calm, Sound, Quits
      <4> QED BY <4>1, <4>2, Facts
    <3> QED BY <3>1, <3>2, <3>3, <3>4
  <2>2. ASSUME NEW f \in FilterIds, filters[f].loop PROVE OnStack(f)
    <3>1. loops = <<"run", f>>
      BY <2>2 DEF Calm, Sound, Shape, Asking
    <3>2. 2 \in DOMAIN <<"run", f>> /\ <<"run", f>>[2] = f
      OBVIOUS
    <3> QED BY <3>1, <3>2 DEF OnStack
  <2> QED BY <2>1, <2>2 DEF NoQuitLost
<1> QED BY <1>1, StaysCalm, PTL

(* Up to the first failure, nobody quits the installer while a step works  *)
(* on the disk.                                                            *)
THEOREM UserLockedIn == Spec => [](faults = 0 => LockedWhileWorking)
<1>1. Calm => LockedWhileWorking
  <2>1. ASSUME Calm, NEW f \in FilterIds, Working(f) PROVE Begun
    BY <2>1 DEF Calm, Sound, Ordered, Working, Begun, Background
  <2> QED BY <2>1 DEF LockedWhileWorking, Working, Calm, Sound, Ends
<1> QED BY <1>1, StaysCalm, PTL

(* Up to the first failure, Next and Back act on the page that is shown.   *)
THEOREM ButtonsReachThePage == Spec => [](faults = 0 => ClicksReachThePage)
<1>1. TypeInv /\ Calm => ClicksReachThePage
  <2> SUFFICES ASSUME TypeInv, Calm, current_page, CanClick, Owned PROVE Top = dbfilter
    BY DEF ClicksReachThePage, Owned
  <2>1. Asking
    BY Enabled
  <2> QED BY <2>1, Facts, Loops DEF Asking, Top
<1> QED BY <1>1, StaysCalm, PTL

(* As long as nothing failed and the user did not go back from past        *)
(* partitioning, the finished dialog comes after the last phase.           *)
THEOREM FinishesWhenDone == Spec => [](faults = 0 /\ ~reopened => FinishedWhenDone)
<1>1. Calm /\ ~reopened => FinishedWhenDone
  BY DEF Calm, Straight, Last, FinishedWhenDone, Working
<1> QED BY <1>1, StaysCalm, PTL

-----------------------------------------------------------------------------
(* The background steps carry out InstallPlan *)

Done == {s \in {"partman_commit", "timezone", "install", "pages", "plugininstall"} :
           \/ s = "partman_commit" /\ partitioned
           \/ s = "timezone" /\ timezone_set
           \/ s = "install" /\ finished_installing
           \/ s = "pages" /\ finished_pages
           \/ s = "plugininstall" /\ finished_installing /\ finished_pages
                /\ Running(s) = {}}
Counts == [s \in Background |-> Cardinality(Running(s))]
Announced == stage = "finished"
GivenUp == faults > 0 \/ reopened

(* A step that is at work is run by one filter.                            *)
Alone ==
  \A s \in Background : /\ Counts[s] = IF AtWork(s) THEN 1 ELSE 0
                        /\ Running(s) = {} <=> ~AtWork(s)

LEMMA OneEach == Work => Alone
<1> SUFFICES ASSUME Work, NEW s \in Background
             PROVE  /\ Counts[s] = IF AtWork(s) THEN 1 ELSE 0
                    /\ Running(s) = {} <=> ~AtWork(s)
  BY DEF Alone
<1>1. Counts[s] = Cardinality(Running(s))
  BY DEF Counts
<1>2. CASE AtWork(s)
  <2>1. PICK f \in FilterIds : filters[f].module = s
    BY <1>2 DEF AtWork
  <2>2. Running(s) = {f}
    BY <2>1 DEF Running, Work, Working
  <2> QED BY <1>1, <1>2, <2>2, FS_Singleton
<1>3. CASE ~AtWork(s)
  <2>1. Running(s) = {}
    BY <1>3 DEF AtWork, Running
  <2> QED BY <1>1, <1>3, <2>1, FS_EmptySet
<1> QED BY <1>2, <1>3

(* find_next_step adds what it starts to what is at work.                  *)
LEMMA LaunchedWork ==
  ASSUME NEW m, NEW fs \in Table, FindNextStep(m, fs), Launches(m) # {} => HasRoom(fs)
  PROVE  \A b \in Background :
           AtWork(b)' <=> (\E g \in FilterIds : fs[g].module = b) \/ b \in Launches(m)
<1>1. \A b, c \in Launches(m) : b = c
  BY DEF Launches
<1>2. Idle.module \notin Background
  BY DEF Idle, Background
<1>3. CASE Launches(m) = {} /\ filters' = fs
  BY <1>3 DEF AtWork
<1>4. ASSUME NEW k \in FilterIds, NEW c \in Launches(m), fs[k] = Idle,
             filters'[k] = Started(c), \A g \in FilterIds \ {k} : filters'[g] = fs[g],
             NEW b \in Background
      PROVE  AtWork(b)' <=> (\E g \in FilterIds : fs[g].module = b) \/ b \in Launches(m)
  <2>1. filters'[k].module = c
    BY <1>4 DEF Started, Idle
  <2>2. b \in Launches(m) <=> b = c
    BY <1>1
  <2>3. fs[k].module # b
    BY <1>2, <1>4
  <2> QED BY <1>4, <2>1, <2>2, <2>3 DEF AtWork
<1> QED BY <1>3, <1>4, Launched

(* What InstallPlan does not see.                                          *)
Quiet == SameWork /\ UNCHANGED progress /\ (Announced' <=> Announced)

LEMMA QuietStep ==
  ASSUME TypeInv, Calm, faults' = 0, [Next]_vars,
         ~NextOnUiPage, ~Finish, \A f \in FilterIds : ~FilterSucceeds(f)
  PROVE  Quiet
<1>1. CASE StartFilterPage
  <2>1. /\ Fresh(filters) \in FilterIds /\ filters[Fresh(filters)].module = "none"
        /\ filters' = [filters EXCEPT ![Fresh(filters)] = Started(Page)]
        /\ UNCHANGED progress /\ UNCHANGED stage
    BY <1>1, Room, NewFilter DEF StartFilterPage, place
  <2>2. Started(Page).module \notin Background /\ "none" \notin Background
    <3>1. Page \in PageNames
      BY <1>1, Facts DEF StartFilterPage, Page
    <3> QED BY <3>1, NewFilter, Facts DEF Background
  <2>3. SameWork
    <3>1. filters'[Fresh(filters)] = Started(Page)
      BY <2>1, Facts DEF Table
    <3>2. \A g \in FilterIds \ {Fresh(filters)} : filters'[g] = filters[g]
      BY <2>1, Facts DEF Table
    <3> QED BY <2>1, <2>2, <3>1, <3>2 DEF SameWork
  <2> QED BY <2>1, <2>3 DEF Quiet, Announced
<1>2. CASE StartUiPage \/ SkipPage \/ PageReturns \/ LeaveRun \/ StartSlideshow
  <2>1. UNCHANGED <<filters, progress>>
    BY <1>2 DEF StartUiPage, SkipPage, PageReturns, LeaveRun, StartSlideshow
  <2>2. Announced' <=> Announced
    BY <1>2 DEF StartUiPage, SkipPage, PageReturns, LeaveRun, StartSlideshow, AfterPage,
                AtLoopHead, Announced
  <2> QED BY <2>1, <2>2 DEF Quiet, SameWork
<1>3. ASSUME NEW f \in FilterIds, AnswerAtOnce(f) \/ Ask(f) \/ QuestionReturns(f) PROVE Quiet
  <2>1. UNCHANGED progress /\ UNCHANGED stage
    BY <1>3 DEF AnswerAtOnce, Ask, QuestionReturns, place
  <2>2. Told(filters, filters')
    <3>1. CASE Ask(f)
      BY <3>1, Tell, Facts DEF Ask
    <3>2. CASE AnswerAtOnce(f) \/ QuestionReturns(f)
      <4>1. PICK g \in {"ok", "backup"} : filters' = [filters EXCEPT ![f].go = g]
        BY <3>2 DEF AnswerAtOnce, QuestionReturns
      <4> QED BY <4>1, Tell, Facts
    <3> QED BY <1>3, <3>1, <3>2
  <2> QED BY <2>1, <2>2, ToldIsSameWork DEF Quiet, Announced
<1>4. ASSUME NEW f \in FilterIds, FilterFails(f) PROVE Quiet
  <2>1. IsPage(f) /\ filters' = Without(f) /\ UNCHANGED progress /\ UNCHANGED stage
    BY <1>4, NoFaults DEF FilterFails, place
  <2>2. filters'[f] = Idle /\ \A g \in FilterIds \ {f} : filters'[g] = filters[g]
    BY <2>1, Facts DEF Without, Table
  <2>3. Idle.module \notin Background /\ filters[f].module \notin Background
    BY <2>1, Facts DEF Idle, Background, IsPage
  <2>4. SameWork
    BY <2>2, <2>3 DEF SameWork
  <2> QED BY <2>1, <2>4 DEF Quiet, Announced
<1>5. CASE NextOnFilterPage
  <2>1. dbfilter \in FilterIds /\ UNCHANGED progress /\ UNCHANGED stage
    BY <1>5, Facts DEF NextOnFilterPage, place
  <2>2. PICK d \in BOOLEAN : filters' = [filters EXCEPT ![dbfilter].done = d,
                                ![dbfilter].succeeded = TRUE, ![dbfilter].loop = FALSE]
    BY <1>5 DEF NextOnFilterPage
  <2>3. Told(filters, filters')
    BY <2>1, <2>2, Tell, Facts
  <2> QED BY <2>1, <2>3, ToldIsSameWork DEF Quiet, Announced
<1>6. CASE BackClicked \/ Quit
  <2>1. filters' = Cancelled(dbfilter) /\ UNCHANGED <<progress, stage>>
    BY <1>6 DEF BackClicked, Quit
  <2> QED BY <2>1, Cancel, ToldIsSameWork, Facts DEF Quiet, Announced
<1>7. CASE Ended \/ UNCHANGED vars
  BY <1>7 DEF Ended, vars, Quiet, SameWork, Announced, place
<1>8. \A f \in FilterIds :
        ~Crash(f) /\ ~BackgroundError(f) /\ ~PartmanError(f) /\ ~PageError(f)
  BY NoFaults DEF Crash, BackgroundError, PartmanError, PageError
<1> QED BY <1>1, <1>2, <1>3, <1>4, <1>5, <1>6, <1>7, <1>8
        DEF Next, Run, Filter, Fault, User

(* What is done and at work, as InstallPlan has it.                        *)
DoneAs ==
  /\ Done \subseteq {"partman_commit", "timezone", "install", "pages", "plugininstall"}
  /\ "partman_commit" \in Done <=> partitioned
  /\ "timezone" \in Done <=> timezone_set
  /\ "install" \in Done <=> finished_installing
  /\ "pages" \in Done <=> finished_pages
  /\ "plugininstall" \in Done <=>
       finished_installing /\ finished_pages /\ ~AtWork("plugininstall")

LEMMA DoneIs == Work => DoneAs
<1> SUFFICES ASSUME Work
             PROVE  "plugininstall" \in Done <=>
                      finished_installing /\ finished_pages /\ ~AtWork("plugininstall")
  BY DEF Done, DoneAs
<1>1. Running("plugininstall") = {} <=> ~AtWork("plugininstall")
  BY OneEach DEF Alone, Background
<1> QED BY <1>1 DEF Done

LEMMA PlanNeeds ==
  /\ Plan!Needs("install") = {"partman_commit", "timezone"}
  /\ Plan!Needs("plugininstall") = {"install", "pages"}
  /\ Plan!Needs("partman_commit") = {} /\ Plan!Needs("timezone") = {}
  /\ Plan!Needs("pages") = {}
  /\ Plan!Work = Background
  BY DEF Plan!Needs, Plan!Work, Background

LEMMA QuietPlan ==
  ASSUME Quiet, UNCHANGED GivenUp
  PROVE  UNCHANGED <<Done, Counts, Announced, GivenUp>>
<1>1. \A s \in Background : Running(s)' = Running(s)
  BY DEF Quiet, SameWork, Running
<1>2. Done' = Done
  BY <1>1 DEF Quiet, progress, Done, Background
<1>3. Counts' = Counts
  BY <1>1 DEF Counts
<1>4. Announced' = Announced
  BY DEF Quiet, Announced
<1> QED BY <1>2, <1>3, <1>4

LEMMA CompletesPlan ==
  ASSUME Work, Work', ~Announced, ~Announced', UNCHANGED GivenUp,
         NEW s \in {"partman_commit", "timezone", "install", "pages", "plugininstall"},
         s \notin Done, s \in Background => AtWork(s), Done' = Done \cup {s},
         \A w \in Background :
           AtWork(w)' <=> w # s /\ (AtWork(w) \/ (s \in Plan!Needs(w) /\ Plan!Needs(w) \subseteq Done'))
  PROVE  Plan!Complete(s)
<1>1. \A w \in Background : Counts[w] = IF AtWork(w) THEN 1 ELSE 0
  BY OneEach DEF Alone
<1>2. \A w \in Background : Counts'[w] = IF AtWork(w)' THEN 1 ELSE 0
  <2>1. Work' => Alone'
    BY OneEach, PTL
  <2> QED BY <2>1 DEF Alone
<1>3. Counts' = [w \in Background |->
        IF w # s /\ s \in Plan!Needs(w) /\ Plan!Needs(w) \subseteq Done' THEN 1
        ELSE IF w = s THEN 0 ELSE Counts[w]]
  <2>1. Counts' = [w \in Background |-> Counts'[w]]
    BY DEF Counts
  <2>2. \A w \in Background :
          Counts'[w] = IF w # s /\ s \in Plan!Needs(w) /\ Plan!Needs(w) \subseteq Done' THEN 1
                       ELSE IF w = s THEN 0 ELSE Counts[w]
    BY <1>1, <1>2
  <2> QED BY <2>1, <2>2, Zenon
<1>4. s \in Background => Counts[s] = 1
  BY <1>1
<1>5. s \notin Background => Plan!Needs(s) \subseteq Done
  BY PlanNeeds DEF Background
<1> QED BY <1>3, <1>4, <1>5, PlanNeeds DEF Plan!Complete, Done, Counts, Announced, GivenUp

LEMMA BeginsPlan ==
  ASSUME Work, Work', ~Announced, ~Announced', UNCHANGED GivenUp, ~partitioned, Done' = Done,
         \A w \in Background : ~AtWork(w),
         \A w \in Background : AtWork(w)' <=> w = "partman_commit"
  PROVE  Plan!Begin
<1>1. \A w \in Background : Counts[w] = 0
  BY OneEach DEF Alone
<1>2. \A w \in Background : Counts'[w] = IF w = "partman_commit" THEN 1 ELSE 0
  <2>1. Work' => Alone'
    BY OneEach, PTL
  <2> QED BY <2>1 DEF Alone
<1>3. Counts' = [Counts EXCEPT !["partman_commit"] = 1]
  BY <1>1, <1>2 DEF Counts
<1>4. ~Plan!Busy
  BY <1>1 DEF Plan!Busy, Plan!Work, Background, Counts
<1>5. "partman_commit" \notin Done
  BY DoneIs DEF DoneAs
<1> QED BY <1>3, <1>4, <1>5 DEF Plan!Begin, Done, Counts, Announced, GivenUp

(* The end of a page is one step of the plan, or none.                     *)
LEMMA PagePlan ==
  ASSUME TypeInv, Work, Work', ~Announced, ~Announced', UNCHANGED GivenUp,
         NEW m \in PageNames, NEW fs \in Table, FindNextStep(m, fs),
         Launches(m) # {} => HasRoom(fs), InTurn(m),
         \A b \in Background : AtWork(b) <=> \E g \in FilterIds : fs[g].module = b
  PROVE  Plan!Next \/ UNCHANGED <<Done, Counts, Announced, GivenUp>>
<1>1. \A b \in Background : AtWork(b)' <=> AtWork(b) \/ b \in Launches(m)
  BY LaunchedWork
<1>2. /\ partitioned' <=> partitioned
      /\ finished_installing' <=> finished_installing
      /\ timezone_set' <=> timezone_set \/ m = "timezone"
      /\ finished_pages' <=> finished_pages \/ LastPageDone(m)
      /\ m \notin Background
  BY Facts DEF FindNextStep, Background
<1>3. DoneAs /\ DoneAs'
  BY DoneIs, PTL
<1>4. Pages[Len(Pages)] # "partman" /\ Pages[Len(Pages)] # "timezone"
  BY PagesAssumption
<1>5. /\ AtWork("partman_commit") => ~partitioned
      /\ AtWork("install") => partitioned /\ timezone_set /\ ~finished_installing
      /\ AtWork("plugininstall") => finished_installing /\ finished_pages
      /\ finished_installing => partitioned /\ timezone_set
  BY DEF Work, AtWork
<1>6. CASE m = "partman"
  <2>1. ~LastPageDone(m) /\ Launches(m) = {"partman_commit"}
    BY <1>4, <1>6 DEF LastPageDone, Launches, Background
  <2>2. \A b \in Background : ~AtWork(b)
    BY <1>5, <1>6 DEF InTurn, Begun, Background, AtWork
  <2>3. Done' = Done
    <3>1. ~finished_installing /\ ~finished_installing'
      BY <1>2, <1>5, <1>6 DEF InTurn, Begun
    <3>2. (timezone_set' <=> timezone_set) /\ (finished_pages' <=> finished_pages)
      BY <1>2, <1>6, <2>1
    <3> DEFINE F == {"partman_commit", "timezone", "install", "pages", "plugininstall"}
    <3>3. \A s \in F : s \in Done' <=> s \in Done
      BY <1>2, <1>3, <3>1, <3>2 DEF DoneAs
    <3>4. Done \subseteq F /\ Done' \subseteq F
      BY <1>3 DEF DoneAs
    <3> HIDE DEF F
    <3> QED BY <3>3, <3>4
  <2>4. Plan!Begin
    BY <1>1, <1>6, <2>1, <2>2, <2>3, BeginsPlan DEF InTurn, Begun
  <2> QED BY <2>4 DEF Plan!Next
<1>7. CASE m = "timezone" /\ ~timezone_set
  <2>1. ~LastPageDone(m) /\ \A b \in Background : b \in Launches(m) <=> b = "install" /\ partitioned
    BY <1>4, <1>7 DEF LastPageDone, Launches, Background
  <2>2. Done' = Done \cup {"timezone"} /\ "timezone" \notin Done
    BY <1>1, <1>2, <1>3, <1>5, <1>7, <2>1 DEF DoneAs, Background
  <2>3. "partman_commit" \in Done' <=> partitioned
    BY <1>2, <1>3 DEF DoneAs
  <2>4. \A w \in Background :
          AtWork(w)' <=> AtWork(w) \/ ("timezone" \in Plan!Needs(w) /\ Plan!Needs(w) \subseteq Done')
    BY <1>1, <2>1, <2>2, <2>3, PlanNeeds DEF Background
  <2>5. Plan!Complete("timezone")
    BY <2>2, <2>4, CompletesPlan DEF Background
  <2> QED BY <2>5 DEF Plan!Next, Plan!Steps
<1>8. CASE LastPageDone(m)
  <2>1. /\ m # "timezone" /\ m # "partman" /\ ~finished_pages
        /\ \A b \in Background : b \in Launches(m) <=> b = "plugininstall" /\ finished_installing
    BY <1>4, <1>8 DEF LastPageDone, Launches, Background, InTurn
  <2>2. Done' = Done \cup {"pages"} /\ "pages" \notin Done
    BY <1>1, <1>2, <1>3, <1>5, <1>8, <2>1 DEF DoneAs, Background
  <2>3. "install" \in Done' <=> finished_installing
    BY <1>2, <1>3 DEF DoneAs
  <2>4. \A w \in Background :
          AtWork(w)' <=> AtWork(w) \/ ("pages" \in Plan!Needs(w) /\ Plan!Needs(w) \subseteq Done')
    BY <1>1, <2>1, <2>2, <2>3, PlanNeeds DEF Background
  <2>5. Plan!Complete("pages")
    BY <2>2, <2>4, CompletesPlan DEF Background
  <2> QED BY <2>5 DEF Plan!Next, Plan!Steps
<1>9. CASE m # "partman" /\ ~LastPageDone(m) /\ (m = "timezone" => timezone_set)
  <2>1. Launches(m) = {}
    BY <1>2, <1>9 DEF Launches, InTurn, Background
  <2>2. filters' = fs
    BY <2>1 DEF FindNextStep
  <2>3. Done' = Done
    <3>1. AtWork("plugininstall")' <=> AtWork("plugininstall")
      BY <1>1, <2>1 DEF Background
    <3>2. (timezone_set' <=> timezone_set) /\ (finished_pages' <=> finished_pages)
      BY <1>2, <1>9
    <3> DEFINE F == {"partman_commit", "timezone", "install", "pages", "plugininstall"}
    <3>3. \A s \in F : s \in Done' <=> s \in Done
      BY <1>2, <1>3, <3>1, <3>2 DEF DoneAs
    <3>4. Done \subseteq F /\ Done' \subseteq F
      BY <1>3 DEF DoneAs
    <3> HIDE DEF F
    <3> QED BY <3>3, <3>4
  <2>4. Counts' = Counts
    <3>1. Alone /\ Alone'
      BY OneEach, PTL
    <3>2. \A b \in Background : Counts'[b] = Counts[b]
      BY <1>1, <2>1, <3>1 DEF Alone
    <3> QED BY <3>2 DEF Counts
  <2> QED BY <2>3, <2>4 DEF Announced
<1> QED BY <1>6, <1>7, <1>8, <1>9

(* The end of a background step is that step's end in the plan.            *)
LEMMA StepPlan ==
  ASSUME TypeInv, Work, Work', ~Announced, ~Announced', UNCHANGED GivenUp,
         NEW f \in FilterIds, Working(f),
         FindNextStep(filters[f].module, Without(f))
  PROVE  Plan!Next
<1> DEFINE m == filters[f].module
<1>1. Without(f) \in Table /\ Without(f)[f] = Idle /\ HasRoom(Without(f))
      /\ \A g \in FilterIds \ {f} : Without(f)[g] = filters[g]
  BY Facts, NewFilter DEF Without, Table, HasRoom
<1>2. \A b \in Background : ~ \E g \in FilterIds : Without(f)[g].module = b
  <2>1. Idle.module \notin Background
    BY DEF Idle, Background
  <2> QED BY <1>1, <2>1 DEF Work, Working
<1>3. \A b \in Background : AtWork(b)' <=> b \in Launches(m)
  BY <1>1, <1>2, LaunchedWork
<1>4. \A b \in Background : AtWork(b) <=> b = m
  BY DEF Work, Working, AtWork
<1>5. m \in Background /\ ~LastPageDone(m) /\ m # "timezone" /\ m # "partman"
  <2>1. Pages[Len(Pages)] \in PageNames
    BY Facts
  <2> QED BY <2>1, Facts DEF Working, LastPageDone, Background
<1>6. /\ m = "partman_commit" => ~partitioned
      /\ m = "install" => partitioned /\ timezone_set /\ ~finished_installing
      /\ m = "plugininstall" => finished_installing /\ finished_pages
      /\ finished_installing => partitioned /\ timezone_set
  BY DEF Work
<1>7. /\ finished_pages' <=> finished_pages
      /\ timezone_set' <=> timezone_set
      /\ partitioned' <=> partitioned \/ m = "partman_commit"
      /\ finished_installing' <=> finished_installing \/ m = "install"
  BY <1>5 DEF FindNextStep
<1> HIDE DEF m
<1>8. \A b \in Background :
        b \in Launches(m) <=> \/ b = "install" /\ m = "partman_commit" /\ timezone_set
                              \/ b = "plugininstall" /\ m = "install" /\ finished_pages
  BY <1>5 DEF Launches, Background
<1>9. DoneAs /\ DoneAs'
  BY DoneIs, PTL
<1>10. AtWork("plugininstall") => m = "plugininstall"
  BY <1>4 DEF Background
<1>11. AtWork("plugininstall")' <=> m = "install" /\ finished_pages
  BY <1>3, <1>8 DEF Background
<1>12. Done' = Done \cup {m} /\ m \notin Done
  <2>1. CASE m = "partman_commit"
    BY <1>6, <1>7, <1>9, <2>1 DEF DoneAs
  <2>2. CASE m = "install"
    BY <1>6, <1>7, <1>9, <1>11, <2>2 DEF DoneAs
  <2>3. CASE m = "plugininstall"
    <3>1. AtWork("plugininstall")
      BY <1>4, <2>3 DEF Background
    <3> QED BY <1>6, <1>7, <1>9, <1>11, <2>3, <3>1 DEF DoneAs
  <2> QED BY <1>5, <2>1, <2>2, <2>3 DEF Background
<1>13. /\ "timezone" \in Done' <=> timezone_set
       /\ "pages" \in Done' <=> finished_pages
       /\ m = "partman_commit" => "partman_commit" \in Done'
       /\ m = "install" => "install" \in Done'
  BY <1>7, <1>9 DEF DoneAs
<1>14. \A w \in Background :
         AtWork(w)' <=> w # m /\ (AtWork(w) \/ (m \in Plan!Needs(w) /\ Plan!Needs(w) \subseteq Done'))
  BY <1>3, <1>4, <1>5, <1>8, <1>13, PlanNeeds DEF Background
<1>15. PICK s \in Background : s = m
  BY <1>5
<1>16. s \in {"partman_commit", "timezone", "install", "pages", "plugininstall"}
  BY DEF Background
<1>17. Plan!Complete(s)
  <2>1. Done' = Done \cup {s} /\ s \notin Done /\ AtWork(s)
    BY <1>4, <1>12, <1>15
  <2>2. \A w \in Background :
          AtWork(w)' <=> w # s /\ (AtWork(w) \/ (s \in Plan!Needs(w) /\ Plan!Needs(w) \subseteq Done'))
    BY <1>14, <1>15
  <2> QED BY <1>16, <2>1, <2>2, CompletesPlan
<1> QED BY <1>16, <1>17 DEF Plan!Next, Plan!Steps

LEMMA PlanNext ==
  ASSUME TypeInv, Calm, Calm', ~GivenUp, ~GivenUp', faults' = 0, [Next]_vars
  PROVE  Plan!Next \/ UNCHANGED <<Done, Counts, Announced, GivenUp>>
<1>1. /\ Work /\ Work' /\ Last /\ ~reopened
      /\ UNCHANGED GivenUp
  BY DEF Calm, Straight, GivenUp
<1>2. CASE NextOnUiPage
  <2>1. Page \in PageNames /\ InTurn(Page) /\ ~Announced /\ ~Announced'
    BY <1>1, <1>2, Facts, NextOnUiPageCalm DEF NextOnUiPage, CanClick, Page, Announced, Listening, Up,
       place
  <2>2. \A b \in Background : AtWork(b) <=> \E g \in FilterIds : filters[g].module = b
    BY DEF AtWork
  <2> QED BY <1>1, <1>2, <2>1, <2>2, Facts, PagePlan DEF NextOnUiPage
<1>3. ASSUME NEW f \in FilterIds, FilterSucceeds(f)
      PROVE  Plan!Next \/ UNCHANGED <<Done, Counts, Announced, GivenUp>>
  <2>1. /\ FindNextStep(filters[f].module, Without(f)) /\ ~Announced /\ ~Announced'
        /\ IsPage(f) \/ Working(f)
    BY <1>3, PagesAssumption DEF FilterSucceeds, Listening, Up, Announced, place,
       IsPage, Working, Live, TypeInv, FiltersOK, Table, Filters
  <2>2. CASE Working(f)
    BY <1>1, <2>1, <2>2, StepPlan
  <2>3. CASE IsPage(f)
    <3>1. InTurn(filters[f].module) /\ filters[f].module \in PageNames
      BY <1>1, <1>3, <2>3, PageSucceedsCalm DEF IsPage
    <3>2. Without(f) \in Table /\ Without(f)[f] = Idle /\ HasRoom(Without(f))
          /\ \A g \in FilterIds \ {f} : Without(f)[g] = filters[g]
      BY Facts, NewFilter DEF Without, Table, HasRoom
    <3>3. Idle.module \notin Background /\ filters[f].module \notin Background
      BY <3>1, Facts DEF Idle, Background
    <3>4. \A b \in Background : AtWork(b) <=> \E g \in FilterIds : Without(f)[g].module = b
      BY <3>2, <3>3 DEF AtWork
    <3> QED BY <1>1, <2>1, <3>1, <3>2, <3>4, PagePlan
  <2> QED BY <2>1, <2>2, <2>3
<1>4. CASE Finish
  <2>1. ~Announced /\ Announced' /\ UNCHANGED <<filters, progress>>
    BY <1>4 DEF Finish, Announced
  <2>2. Done = Plan!Steps
    <3>1. /\ finished_installing /\ finished_pages /\ partitioned /\ timezone_set
          /\ ~AtWork("plugininstall")
      BY <1>1, <1>4 DEF Finish, Last, Work, AtWork, Working, Background
    <3>2. DoneAs
      BY <1>1, DoneIs
    <3> QED BY <3>1, <3>2 DEF DoneAs, Plan!Steps
  <2>3. Done' = Done /\ Counts' = Counts
    BY <2>1 DEF Done, Counts, progress, Running
  <2>4. Plan!Announce
    BY <1>1, <2>1, <2>2, <2>3 DEF Plan!Announce, Done, Counts, Announced, GivenUp
  <2> QED BY <2>4 DEF Plan!Next
<1>5. CASE ~NextOnUiPage /\ ~Finish /\ \A f \in FilterIds : ~FilterSucceeds(f)
  BY <1>1, <1>5, QuietStep, QuietPlan
<1> QED BY <1>2, <1>3, <1>4, <1>5

(* The background steps carry out InstallPlan, which is given up with the   *)
(* first failure, or when the user goes back from past partitioning.       *)
THEOREM CarriesOutThePlan == Spec => ImplementsPlan
<1> SUFFICES Spec => Plan!Spec
  BY DEF ImplementsPlan
<1>1. Init => Plan!Init
  <2> SUFFICES ASSUME Init PROVE Plan!Init
    OBVIOUS
  <2>1. \A s \in Background : Running(s) = {}
    BY DEF Init, Running, Idle, Background
  <2>2. Counts = [s \in Background |-> 0]
    BY <2>1, FS_EmptySet DEF Counts
  <2>3. Done = {}
    BY DEF Init, Done
  <2>4. GivenUp = FALSE
    BY DEF Init, GivenUp
  <2> QED BY <2>2, <2>3, <2>4, PlanNeeds DEF Init, Plan!Init, Counts, Done, GivenUp
<1> DEFINE Inv == TypeInv /\ (faults = 0 => Calm)
<1>2. Inv /\ Inv' /\ [Next]_vars => [Plan!Next]_<<Done, Counts, Announced, GivenUp>>
  <2> SUFFICES ASSUME Inv, Inv', [Next]_vars
               PROVE  [Plan!Next]_<<Done, Counts, Announced, GivenUp>>
    OBVIOUS
  <2>1. CASE GivenUp'
    <3>1. Plan!GiveUp
      BY <2>1 DEF Plan!GiveUp, GivenUp
    <3> QED BY <3>1 DEF Plan!Next
  <2>2. CASE ~GivenUp'
    <3>1. faults' = 0 /\ ~reopened' /\ UNCHANGED faults
      <4>1. faults' \in Nat
        BY DEF TypeInv, FaultsOK
      <4>2. faults' = 0 /\ ~reopened'
        BY <2>2, <4>1 DEF GivenUp
      <4> QED BY <4>2, NoFaults, HistoryStep DEF TypeInv
    <3>2. ~GivenUp
      BY <3>1, HistoryStep DEF GivenUp, TypeInv
    <3> QED BY <2>2, <3>1, <3>2, PlanNext
  <2> QED BY <2>1, <2>2
<1>3. Spec => []Inv
  BY StaysCalm
<1> QED BY <1>1, <1>2, <1>3, PTL DEF Spec, Plan!Spec, Done, Counts, Announced, GivenUp
=============================================================================
