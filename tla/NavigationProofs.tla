-------------------------- MODULE NavigationProofs --------------------------
(***************************************************************************)
(* That Back retraces the user's way, for any pages, any of them that may  *)
(* be skipped or ask nothing, and any number of screens.  The invariant    *)
(* describes the history at every moment of a tour: it starts with the     *)
(* first page, its entries come in order, every page up to its last entry  *)
(* that was not jumped over is there with its first screen, and its last   *)
(* entry tells where the user is, whether a screen is shown, the wizard is *)
(* on its way forward, or Back is passing over pages.                      *)
(***************************************************************************)
EXTENDS PageNavigation, TLAPS

(* The pages that show nothing as things stand. *)
Gone == skipped \cup Silent

Entries == [page : Nat, widget : Nat \cup {NoWidget}]
IsHistory(h) == h \in Seq(Entries) /\ h # <<>>

(* An entry is a screen its page has, or stands for one jumped over. *)
Screen(e) ==
  /\ e.page \in 1 .. NPages
  /\ IF e.page \in Gone THEN e.widget = NoWidget ELSE e.widget \in 1 .. Screens[e.page]

Covers(h) ==
  \A p \in 1 .. h[Len(h)].page : p \notin Gone => \E i \in DOMAIN h : h[i] = Entry(p, 1)

WellFormed(h) ==
  /\ IsHistory(h)
  /\ h[1] = Entry(1, 1)
  /\ \A i \in DOMAIN h : Screen(h[i])
  /\ InOrder(h)
  /\ Covers(h)

Top == history[Len(history)]

(* What the user went through, and where that has led: a screen is shown, *)
(* run() goes forward, or it goes back.                                    *)
OnScreen == ~backup /\ Top = Shown /\ trail = Real(history)
Forward ==
  /\ trail = {e \in Real(history) : e.page < pagesindex}
  /\ \A p \in Top.page + 1 .. pagesindex - 1 : p \in Gone
Backward == Top.page = pagesindex /\ trail = Real(history) /\ pagesindex <= Partman

Underway ==
  /\ WellFormed(history)
  /\ widget # NoWidget => OnScreen
  /\ widget = NoWidget /\ ~backup => Forward
  /\ widget = NoWidget /\ backup => Backward

AtStart == history = <<>> /\ pagesindex = 1 /\ widget = NoWidget /\ ~backup /\ trail = {}

Where ==
  /\ pagesindex \in 1 .. NPages + 1
  /\ widget \in Nat \cup {NoWidget}
  /\ backup \in BOOLEAN
  /\ skipped \subseteq Skippable

NavigationInv ==
  /\ changes \in Nat
  /\ changes = 0 => Where /\ (AtStart \/ Underway)

-----------------------------------------------------------------------------
LEMMA RealHas ==
  ASSUME NEW h, NEW e
  PROVE  e \in Real(h) <=> e.widget # NoWidget /\ \E i \in DOMAIN h : h[i] = e
BY DEF Real

LEMMA HistoryHas ==
  ASSUME NEW h, IsHistory(h)
  PROVE  /\ Len(h) \in Nat \ {0} /\ DOMAIN h = 1 .. Len(h)
         /\ \A i \in DOMAIN h : h[i] \in Entries
         /\ \A i \in DOMAIN h : h[i].page \in Nat /\ h[i].widget \in Nat \cup {NoWidget}
<1>1. h \in Seq(Entries) /\ h # <<>>
  BY DEF IsHistory
<1>2. /\ Len(h) \in Nat \ {0} /\ DOMAIN h = 1 .. Len(h)
      /\ \A i \in DOMAIN h : h[i] \in Entries
  BY <1>1
<1>3. \A e \in Entries : e.page \in Nat /\ e.widget \in Nat \cup {NoWidget}
  BY DEF Entries
<1> QED BY <1>2, <1>3

(* A screen stands in the history once. *)
LEMMA StandsOnce ==
  ASSUME NEW h, WellFormed(h), NEW i \in DOMAIN h, NEW j \in DOMAIN h, h[i] = h[j]
  PROVE  i = j
<1>1. i \in Nat /\ j \in Nat /\ h[i].page \in Nat
  BY HistoryHas DEF WellFormed
<1>2. h[i].widget # NoWidget => h[i].widget \in Nat
  BY HistoryHas DEF WellFormed
<1>3. ~Before(h[i], h[i])
  BY <1>1, <1>2 DEF Before
<1>4. ~(i < j) /\ ~(j < i)
  BY <1>3 DEF WellFormed, InOrder
<1> QED BY <1>1, <1>4

(* The first so many entries are a history like the whole. *)
LEMMA PrefixFits ==
  ASSUME NavigationAssumption, NEW h, WellFormed(h), NEW k \in 1 .. Len(h)
  PROVE  /\ WellFormed(SubSeq(h, 1, k))
         /\ Len(SubSeq(h, 1, k)) = k
         /\ \A i \in 1 .. k : SubSeq(h, 1, k)[i] = h[i]
<1> DEFINE s == SubSeq(h, 1, k)
<1>1. /\ h \in Seq(Entries) /\ h # <<>>
      /\ Len(h) \in Nat /\ DOMAIN h = 1 .. Len(h)
  BY HistoryHas DEF WellFormed, IsHistory
<1>2. Len(s) = k /\ DOMAIN s = 1 .. k /\ (\A i \in 1 .. k : s[i] = h[i])
  BY <1>1
<1>3. s \in Seq(Entries) /\ s # <<>>
  BY <1>1, <1>2
<1>4. 1 \in 1 .. k /\ 1 .. k \subseteq DOMAIN h
  BY <1>1
<1> HIDE DEF s
<1>5. s[1] = Entry(1, 1) /\ (\A i \in DOMAIN s : Screen(s[i]))
  BY <1>2, <1>4 DEF WellFormed
<1>6. InOrder(s)
  BY <1>2, <1>4 DEF WellFormed, InOrder
<1>7. Covers(s)
  <2>1. SUFFICES ASSUME NEW p \in 1 .. h[k].page, p \notin Gone
                 PROVE  \E i \in 1 .. k : h[i] = Entry(p, 1)
    <3>1. s[Len(s)] = h[k] /\ DOMAIN s = 1 .. k /\ (\A i \in 1 .. k : s[i] = h[i])
      BY <1>2
    <3> QED BY <3>1 DEF Covers
  <2>2. k \in DOMAIN h /\ Len(h) \in DOMAIN h /\ h[k].page \in Nat /\ h[Len(h)].page \in Nat
    BY <1>1, HistoryHas DEF WellFormed
  <2>3. h[k].page <= h[Len(h)].page
    BY <1>1, <2>2 DEF WellFormed, InOrder, Before
  <2>4. PICK i \in DOMAIN h : h[i] = Entry(p, 1)
    <3>1. p \in 1 .. h[Len(h)].page
      BY <2>2, <2>3
    <3> QED BY <2>1, <3>1 DEF WellFormed, Covers
  <2>5. ~(k < i)
    <3>1. SUFFICES ASSUME k < i PROVE FALSE
      OBVIOUS
    <3>2. Before(h[k], h[i])
      BY <2>2, <3>1 DEF WellFormed, InOrder
    <3>3. h[k].page = p /\ h[k].widget # NoWidget /\ h[k].widget < 1
      BY <2>2, <2>4, <3>2 DEF Before, Entry
    <3>4. h[k].widget \in 1 .. Screens[p]
      BY <2>1, <2>2, <3>3 DEF WellFormed, Screen
    <3> QED BY <3>3, <3>4
  <2> QED BY <1>1, <2>4, <2>5
<1>8. WellFormed(s)
  BY <1>2, <1>3, <1>5, <1>6, <1>7 DEF WellFormed, IsHistory
<1> QED BY <1>2, <1>8 DEF s

(* What a prefix holds of the screens: those up to its last. *)
LEMMA PrefixHolds ==
  ASSUME NavigationAssumption, NEW h, WellFormed(h), NEW k \in 1 .. Len(h), h[k].widget # NoWidget
  PROVE  Real(SubSeq(h, 1, k)) = {e \in Real(h) : Before(e, h[k])} \cup {h[k]}
<1>1. /\ Len(h) \in Nat /\ DOMAIN h = 1 .. Len(h)
      /\ \A i \in DOMAIN h : h[i].page \in Nat /\ h[i].widget \in Nat \cup {NoWidget}
  BY HistoryHas DEF WellFormed
<1>2. DOMAIN SubSeq(h, 1, k) = 1 .. k /\ \A i \in 1 .. k : SubSeq(h, 1, k)[i] = h[i]
  BY <1>1, PrefixFits, HistoryHas DEF WellFormed
<1>3. ASSUME NEW i \in DOMAIN h
      PROVE  (i < k => Before(h[i], h[k])) /\ (i >= k => ~Before(h[i], h[k]))
  <2>1. i < k => Before(h[i], h[k])
    BY <1>1 DEF WellFormed, InOrder
  <2>2. k < i => Before(h[k], h[i])
    BY <1>1 DEF WellFormed, InOrder
  <2>3. /\ h[i].page \in Nat /\ h[i].widget \in Nat \cup {NoWidget}
        /\ h[k].page \in Nat /\ h[k].widget \in Nat \cup {NoWidget} /\ NoWidget \notin Nat
    BY <1>1 DEF NavigationAssumption
  <2>4. k < i => ~Before(h[i], h[k])
    BY <2>2, <2>3 DEF Before
  <2>5. ~Before(h[k], h[k])
    BY <2>3 DEF Before
  <2>6. i \in Nat /\ k \in Nat
    BY <1>1
  <2> QED BY <2>1, <2>4, <2>5, <2>6
<1>4. ASSUME NEW e
      PROVE  e \in Real(SubSeq(h, 1, k)) <=> e \in {f \in Real(h) : Before(f, h[k])} \cup {h[k]}
  <2>1. ASSUME e \in Real(SubSeq(h, 1, k)) PROVE e \in {f \in Real(h) : Before(f, h[k])} \cup {h[k]}
    <3>1. PICK i \in 1 .. k : h[i] = e /\ e.widget # NoWidget
      BY <1>2, <2>1 DEF Real
    <3>2. i \in DOMAIN h /\ e \in Real(h)
      BY <1>1, <3>1 DEF Real
    <3> QED BY <1>1, <1>3, <3>1, <3>2
  <2>2. ASSUME e \in Real(h), Before(e, h[k]) PROVE e \in Real(SubSeq(h, 1, k))
    <3>1. PICK i \in DOMAIN h : h[i] = e /\ e.widget # NoWidget
      BY <2>2 DEF Real
    <3>2. i \in 1 .. k
      BY <1>1, <1>3, <2>2, <3>1
    <3> QED BY <1>2, <3>1, <3>2 DEF Real
  <2>3. k \in 1 .. k
    OBVIOUS
  <2>4. h[k] \in Real(SubSeq(h, 1, k))
    BY <1>2, <2>3 DEF Real
  <2> QED BY <2>1, <2>2, <2>4
<1> QED BY <1>4

(* Every screen in a history comes before its last entry, or is it. *)
LEMMA ScreensUpToTop ==
  ASSUME NavigationAssumption, NEW h, WellFormed(h), NEW e \in Real(h)
  PROVE  /\ e.page \in 1 .. NPages /\ e.widget \in Nat \ {0} /\ e.page <= h[Len(h)].page
         /\ e = h[Len(h)] \/ Before(e, h[Len(h)])
<1>1. /\ Len(h) \in Nat \ {0} /\ DOMAIN h = 1 .. Len(h)
      /\ \A i \in DOMAIN h : h[i].page \in Nat /\ h[i].widget \in Nat \cup {NoWidget}
  BY HistoryHas DEF WellFormed
<1>2. PICK i \in DOMAIN h : h[i] = e /\ e.widget # NoWidget
  BY DEF Real
<1>3. Screen(e)
  BY <1>2 DEF WellFormed
<1>4. Len(h) \in DOMAIN h /\ i \in Nat /\ i <= Len(h)
  BY <1>1
<1>5. e = h[Len(h)] \/ Before(e, h[Len(h)])
  BY <1>1, <1>2, <1>4 DEF WellFormed, InOrder
<1>6. e.page <= h[Len(h)].page
  BY <1>1, <1>2, <1>4, <1>5 DEF Before
<1>7. e.page \in 1 .. NPages /\ e.widget \in 1 .. Screens[e.page]
  BY <1>2, <1>3 DEF Screen
<1>8. e.widget \in Nat \ {0}
  BY <1>7 DEF NavigationAssumption
<1> QED BY <1>5, <1>6, <1>7, <1>8

(* pop_history takes the last entry off, and nothing else. *)
LEMMA PoppedIs ==
  ASSUME NavigationAssumption, NEW h, WellFormed(h), Len(h) >= 2
  PROVE  /\ WellFormed(PopHistory(h))
         /\ Len(PopHistory(h)) = Len(h) - 1
         /\ PopHistory(h)[Len(h) - 1] = h[Len(h) - 1]
         /\ Real(PopHistory(h)) = Real(h) \ {h[Len(h)]}
<1> DEFINE s == SubSeq(h, 1, Len(h) - 1)
<1>1. Len(h) \in Nat \ {0} /\ DOMAIN h = 1 .. Len(h) /\ Len(h) - 1 \in 1 .. Len(h)
  BY HistoryHas DEF WellFormed
<1>2. PopHistory(h) = s
  BY <1>1 DEF PopHistory
<1>3. /\ WellFormed(s) /\ Len(s) = Len(h) - 1
      /\ \A i \in 1 .. Len(h) - 1 : s[i] = h[i]
  BY <1>1, PrefixFits
<1>4. DOMAIN s = 1 .. Len(h) - 1
  BY <1>3, HistoryHas DEF WellFormed
<1> HIDE DEF s
<1>5. ASSUME NEW e PROVE e \in Real(s) <=> e \in Real(h) \ {h[Len(h)]}
  <2>1. ASSUME e \in Real(s) PROVE e \in Real(h) \ {h[Len(h)]}
    <3>1. PICK i \in 1 .. Len(h) - 1 : h[i] = e /\ e.widget # NoWidget
      BY <1>3, <1>4, <2>1 DEF Real
    <3>2. PICK L \in Nat \ {0} : L = Len(h)
      BY <1>1
    <3>5. i \in 1 .. L - 1 /\ DOMAIN h = 1 .. L
      BY <1>1, <3>2
    <3>4. i \in DOMAIN h /\ Len(h) \in DOMAIN h /\ i # Len(h)
      BY <3>2, <3>5
    <3>3. e # h[Len(h)]
      BY <3>1, <3>4, StandsOnce
    <3> QED BY <3>1, <3>4, <3>3 DEF Real
  <2>2. ASSUME e \in Real(h), e # h[Len(h)] PROVE e \in Real(s)
    <3>1. PICK i \in DOMAIN h : h[i] = e /\ e.widget # NoWidget
      BY <2>2 DEF Real
    <3>2. i \in 1 .. Len(h) - 1
      BY <1>1, <2>2, <3>1
    <3> QED BY <1>3, <1>4, <3>1, <3>2 DEF Real
  <2> QED BY <2>1, <2>2
<1>6. Real(s) = Real(h) \ {h[Len(h)]}
  BY <1>5
<1> QED BY <1>1, <1>2, <1>3, <1>6

-----------------------------------------------------------------------------
(* add_history, on a page whose first screen was shown before: everything  *)
(* after it is dropped.                                                    *)
LEMMA ShownAgain ==
  ASSUME NavigationAssumption, NEW h, WellFormed(h),
         NEW p \in 1 .. h[Len(h)].page, p \notin Gone
  PROVE  /\ WellFormed(AddHistory(h, Entry(p, 1)))
         /\ AddHistory(h, Entry(p, 1))[Len(AddHistory(h, Entry(p, 1)))] = Entry(p, 1)
         /\ Real(AddHistory(h, Entry(p, 1))) = {f \in Real(h) : f.page < p} \cup {Entry(p, 1)}
<1> DEFINE e == Entry(p, 1)
<1>1. /\ Len(h) \in Nat \ {0} /\ DOMAIN h = 1 .. Len(h) /\ h \in Seq(Entries)
      /\ \A i \in DOMAIN h : h[i].page \in Nat /\ h[i].widget \in Nat \cup {NoWidget}
  BY HistoryHas DEF WellFormed, IsHistory
<1>2. PICK k \in DOMAIN h : h[k] = e
  BY DEF WellFormed, Covers
<1>3. e.page = p /\ e.widget = 1 /\ e.widget # NoWidget
  BY DEF Entry, NavigationAssumption
<1> HIDE DEF e
<1>4. {i \in DOMAIN h : h[i] = e} = {k}
  BY <1>2, StandsOnce
<1>5. FirstIndex(h, e) = k
  <2>1. Min({k}) = k
    BY <1>1 DEF Min
  <2> QED BY <1>4, <2>1 DEF FirstIndex
<1>6. AddHistory(h, e) = SubSeq(h, 1, k)
  <2>1. CASE k < Len(h)
    BY <1>1, <1>2, <1>5, <2>1 DEF AddHistory
  <2>2. CASE k = Len(h)
    <3>1. h[Len(h)].page = p
      BY <1>2, <1>3, <2>2
    <3>2. p \in Nat
      OBVIOUS
    <3>3. Fakes(p, p) = <<>>
      BY <3>2 DEF Fakes
    <3>4. h \o Fakes(p, p) = h
      BY <1>1, <3>3
    <3>5. h # <<>>
      BY <1>1
    <3>6. AddHistory(h, e) = h
      BY <1>2, <1>3, <1>5, <2>2, <3>1, <3>2, <3>4, <3>5 DEF AddHistory
    <3>7. SubSeq(h, 1, Len(h)) = h
      BY <1>1
    <3> QED BY <2>2, <3>6, <3>7
  <2> QED BY <1>1, <2>1, <2>2
<1>7. /\ WellFormed(SubSeq(h, 1, k)) /\ Len(SubSeq(h, 1, k)) = k
      /\ SubSeq(h, 1, k)[k] = e
  <2>1. k \in 1 .. Len(h) /\ k \in 1 .. k
    BY <1>1
  <2> QED BY <1>2, <2>1, PrefixFits
<1>8. Real(SubSeq(h, 1, k)) = {f \in Real(h) : Before(f, e)} \cup {e}
  BY <1>1, <1>2, <1>3, PrefixHolds
<1>9. \A f \in Real(h) : Before(f, e) <=> f.page < p
  BY <1>3, ScreensUpToTop DEF Before
<1>10. Real(SubSeq(h, 1, k)) = {f \in Real(h) : f.page < p} \cup {e}
  BY <1>8, <1>9
<1> QED BY <1>6, <1>7, <1>10 DEF e

LEMMA EndsUp ==
  ASSUME NEW S, NEW h \in Seq(S), NEW f \in Seq(S), NEW e \in S
  PROVE  /\ h \o f \in Seq(S) /\ Len(h \o f) = Len(h) + Len(f)
         /\ Append(h \o f, e) \in Seq(S) /\ Len(Append(h \o f, e)) = Len(h) + Len(f) + 1
         /\ \A i \in 1 .. Len(h) : (h \o f)[i] = h[i] /\ Append(h \o f, e)[i] = h[i]
         /\ \A i \in Len(h) + 1 .. Len(h) + Len(f) :
              (h \o f)[i] = f[i - Len(h)] /\ Append(h \o f, e)[i] = f[i - Len(h)]
         /\ Append(h \o f, e)[Len(h) + Len(f) + 1] = e
<1>1. Len(h) \in Nat /\ Len(f) \in Nat
  OBVIOUS
<1>2. /\ h \o f \in Seq(S) /\ Len(h \o f) = Len(h) + Len(f)
      /\ \A i \in 1 .. Len(h) : (h \o f)[i] = h[i]
      /\ \A i \in Len(h) + 1 .. Len(h) + Len(f) : (h \o f)[i] = f[i - Len(h)]
  BY <1>1
<1>3. PICK g \in Seq(S) : g = h \o f
  BY <1>2
<1>4. /\ Append(g, e) \in Seq(S) /\ Len(Append(g, e)) = Len(g) + 1
      /\ \A i \in 1 .. Len(g) : Append(g, e)[i] = g[i]
      /\ Append(g, e)[Len(g) + 1] = e
  OBVIOUS
<1>5. 1 .. Len(h) \subseteq 1 .. Len(g) /\ Len(h) + 1 .. Len(h) + Len(f) \subseteq 1 .. Len(g)
  BY <1>1, <1>2, <1>3
<1> QED BY <1>1, <1>2, <1>3, <1>4, <1>5

(* A screen comes next if it is the following one of the page that is     *)
(* shown, or the first of a later page and the pages between show nothing. *)
ComesNext(top, e) ==
  /\ Screen(e) /\ e.page \notin Gone
  /\ \/ e.page = top.page /\ top.widget # NoWidget /\ e.widget = top.widget + 1
     \/ e.page > top.page /\ e.widget = 1 /\ \A p \in top.page + 1 .. e.page - 1 : p \in Gone

(* How a history grows: by jumped over pages, and then the screen. *)
Grows(h, top, e, n, s) ==
  /\ s \in Seq(Entries) /\ DOMAIN s = 1 .. Len(h) + n + 1 /\ Len(s) = Len(h) + n + 1
  /\ \A i \in 1 .. Len(h) : s[i] = h[i]
  /\ \A i \in Len(h) + 1 .. Len(h) + n : s[i] = Entry(top.page + (i - Len(h)), NoWidget)
  /\ s[Len(h) + n + 1] = e

LEMMA Shifted ==
  ASSUME NEW L \in Nat, NEW n \in Nat, NEW t \in Nat, NEW i \in L + 1 .. L + n
  PROVE  t + (i - L) \in t + 1 .. t + n /\ t < t + (i - L)
OBVIOUS

LEMMA BeforeAndBefore ==
  ASSUME NEW a, NEW b, NEW c, a.page \in Nat, b.page \in Nat, c.page \in Nat,
         a.widget \in Nat \cup {NoWidget}, b.widget \in Nat \cup {NoWidget},
         c.widget \in Nat \cup {NoWidget}, Before(a, b), Before(b, c)
  PROVE  Before(a, c)
<1>1. PICK p \in Nat, q \in Nat, r \in Nat : p = a.page /\ q = b.page /\ r = c.page
  OBVIOUS
<1>2. PICK u \in Nat \cup {NoWidget}, v \in Nat \cup {NoWidget}, w \in Nat \cup {NoWidget} :
        u = a.widget /\ v = b.widget /\ w = c.widget
  OBVIOUS
<1>3. p < q \/ (p = q /\ NoWidget \notin {u, v} /\ u < v)
  BY <1>1, <1>2 DEF Before
<1>4. q < r \/ (q = r /\ NoWidget \notin {v, w} /\ v < w)
  BY <1>1, <1>2 DEF Before
<1>5. p < r \/ (p = r /\ NoWidget \notin {u, w} /\ u < w)
  <2>1. CASE p < q \/ q < r
    BY <1>3, <1>4, <2>1
  <2>2. CASE ~(p < q) /\ ~(q < r)
    <3>1. u \in Nat /\ v \in Nat /\ w \in Nat /\ u < v /\ v < w /\ p = r
      BY <1>3, <1>4, <2>2
    <3>2. u < w
      BY <3>1
    <3> QED BY <1>3, <1>4, <2>2, <3>1, <3>2
  <2> QED BY <2>1, <2>2
<1> QED BY <1>1, <1>2, <1>5 DEF Before

LEMMA GrownFits ==
  ASSUME NavigationAssumption, NEW h, WellFormed(h), NEW top, top = h[Len(h)],
         NEW e \in Entries, ComesNext(top, e),
         NEW n \in Nat, n = (IF e.page > top.page THEN e.page - top.page - 1 ELSE 0),
         NEW s, Grows(h, top, e, n, s)
  PROVE  WellFormed(s) /\ Real(s) = Real(h) \cup {e}
<1>1. /\ \A i \in DOMAIN h : h[i].page \in Nat /\ h[i].widget \in Nat \cup {NoWidget}
      /\ Len(h) \in Nat \ {0} /\ DOMAIN h = 1 .. Len(h)
  BY HistoryHas DEF WellFormed
<1>2. PICK L \in Nat \ {0} : L = Len(h)
  BY <1>1
<1>3. /\ e.page \in 1 .. NPages /\ e.widget \in 1 .. Screens[e.page] /\ e.widget \in Nat \ {0}
      /\ e.page \in Nat /\ e.widget # NoWidget
  BY DEF ComesNext, Screen, NavigationAssumption
<1>4. DOMAIN h = 1 .. L /\ L \in DOMAIN h /\ h[L] = top
  BY <1>1, <1>2
<1>18. top.page \in Nat /\ top.widget \in Nat \cup {NoWidget} /\ top.page <= e.page
  BY <1>1, <1>3, <1>4 DEF ComesNext
<1>5. PICK t \in Nat : t = top.page
  BY <1>18
<1>19. PICK u \in 1 .. NPages : u = e.page
  BY <1>3
<1>6. /\ DOMAIN s = 1 .. L + n + 1
      /\ \A i \in 1 .. L : s[i] = h[i]
      /\ \A i \in L + 1 .. L + n : s[i].page = t + (i - L) /\ s[i].widget = NoWidget
      /\ s[L + n + 1] = e
  <2>1. DOMAIN s = 1 .. L + n + 1 /\ (\A i \in 1 .. L : s[i] = h[i]) /\ s[L + n + 1] = e
    BY <1>2 DEF Grows
  <2>2. \A i \in L + 1 .. L + n : s[i] = Entry(t + (i - L), NoWidget)
    BY <1>2, <1>5 DEF Grows
  <2>3. \A q : Entry(q, NoWidget).page = q /\ Entry(q, NoWidget).widget = NoWidget
    BY DEF Entry
  <2> QED BY <2>1, <2>2, <2>3
<1>7. s \in Seq(Entries) /\ s # <<>> /\ s[Len(s)] = e
  BY <1>2, <1>6 DEF Grows
<1>8. \A i \in DOMAIN s : i \in 1 .. L \/ i \in L + 1 .. L + n \/ i = L + n + 1
  BY <1>6
<1>9. 1 .. L \subseteq DOMAIN s /\ L + n + 1 \in DOMAIN s
  BY <1>6
<1>10. Before(top, e)
  BY <1>3, <1>18 DEF ComesNext, Before
<1>11. \A i \in DOMAIN h : h[i].page <= top.page /\ Before(h[i], e)
  <2>1. SUFFICES ASSUME NEW i \in DOMAIN h PROVE h[i].page <= top.page /\ Before(h[i], e)
    OBVIOUS
  <2>2. h[i] = top \/ Before(h[i], top)
    <3>1. i < L \/ i = L
      BY <1>4
    <3> QED BY <1>4, <3>1 DEF WellFormed, InOrder
  <2>3. h[i].page \in Nat /\ h[i].widget \in Nat \cup {NoWidget}
    BY <1>1
  <2>4. h[i].page <= top.page
    BY <1>18, <2>2, <2>3 DEF Before
  <2>5. CASE h[i] = top
    BY <1>10, <2>4, <2>5
  <2>6. CASE Before(h[i], top)
    <3>1. Before(h[i], e)
      BY <1>3, <1>10, <1>18, <2>3, <2>6, BeforeAndBefore
    <3> QED BY <2>4, <3>1
  <2> QED BY <2>2, <2>4, <2>5, <2>6
<1>12. Real(s) = Real(h) \cup {e}
  <2>1. ASSUME NEW r, r \in Real(s) PROVE r \in Real(h) \cup {e}
    <3>1. PICK i \in DOMAIN s : s[i] = r /\ r.widget # NoWidget
      BY <2>1 DEF Real
    <3>2. i \in 1 .. L \/ i = L + n + 1
      BY <1>6, <1>8, <3>1
    <3> QED BY <1>4, <1>6, <3>1, <3>2 DEF Real
  <2>2. ASSUME NEW r, r \in Real(h) PROVE r \in Real(s)
    <3>1. PICK i \in DOMAIN h : h[i] = r /\ r.widget # NoWidget
      BY <2>2 DEF Real
    <3>2. i \in DOMAIN s /\ s[i] = r
      BY <1>4, <1>6, <1>9, <3>1
    <3> QED BY <3>1, <3>2 DEF Real
  <2>3. e \in Real(s)
    BY <1>3, <1>6, <1>9 DEF Real
  <2> QED BY <2>1, <2>2, <2>3
<1>13. s[1] = Entry(1, 1)
  <2>1. 1 \in 1 .. L
    OBVIOUS
  <2> QED BY <1>6, <2>1 DEF WellFormed
<1>14. \A i \in DOMAIN s : Screen(s[i])
  <2>1. SUFFICES ASSUME NEW i \in DOMAIN s PROVE Screen(s[i])
    OBVIOUS
  <2>2. CASE i \in 1 .. L
    BY <1>4, <1>6, <2>2 DEF WellFormed
  <2>3. CASE i \in L + 1 .. L + n
    <3>1. PICK q \in Nat : q = t + (i - L)
      BY <2>3
    <3>2. u > t /\ n = u - t - 1
      BY <1>3, <1>5, <1>18, <1>19, <2>3
    <3>3. q \in t + 1 .. u - 1
      <4>1. q \in t + 1 .. t + n
        BY <1>2, <2>3, <3>1, Shifted
      <4>2. t + n = u - 1
        BY <3>2
      <4> QED BY <4>1, <4>2, Zenon
    <3>4. q \in Gone
      <4>1. e.page # top.page
        BY <1>5, <1>19, <3>2
      <4>2. \A m \in top.page + 1 .. e.page - 1 : m \in Gone
        BY <4>1 DEF ComesNext
      <4> QED BY <1>5, <1>19, <3>3, <4>2
    <3>5. q \in 1 .. NPages
      BY <1>19, <3>3 DEF NavigationAssumption
    <3> QED BY <1>6, <2>3, <3>1, <3>4, <3>5 DEF Screen
  <2>4. CASE i = L + n + 1
    BY <1>6, <2>4 DEF ComesNext
  <2> QED BY <1>8, <2>2, <2>3, <2>4
<1>15. InOrder(s)
  <2>1. SUFFICES ASSUME NEW i \in DOMAIN s, NEW j \in DOMAIN s, i < j PROVE Before(s[i], s[j])
    BY DEF InOrder
  <2>0. i \in Nat /\ j \in Nat
    BY <1>6
  <2>2. CASE j \in 1 .. L
    <3>1. i \in DOMAIN h /\ j \in DOMAIN h /\ s[i] = h[i] /\ s[j] = h[j]
      BY <1>4, <1>6, <1>8, <2>0, <2>1, <2>2
    <3> QED BY <2>1, <3>1 DEF WellFormed, InOrder
  <2>3. CASE i \in 1 .. L /\ j \in L + 1 .. L + n
    <3>1. s[i].page \in Nat /\ s[i].page <= t
      BY <1>1, <1>4, <1>5, <1>6, <1>11, <2>3
    <3>2. PICK q \in Nat : q = t + (j - L)
      BY <2>3
    <3>3. t < q
      BY <2>3, <3>2, Shifted
    <3>4. s[j].page = q
      BY <1>6, <2>3, <3>2
    <3> QED BY <3>1, <3>3, <3>4 DEF Before
  <2>4. CASE i \in L + 1 .. L + n /\ j \in L + 1 .. L + n
    <3>1. PICK q \in Nat : q = t + (i - L)
      BY <2>4
    <3>3. PICK r \in Nat : r = t + (j - L)
      BY <2>4
    <3>4. q < r
      BY <2>1, <2>4, <3>1, <3>3
    <3>5. s[i].page = q /\ s[j].page = r
      BY <1>6, <2>4, <3>1, <3>3
    <3>2. q < r /\ s[i].page = q /\ s[j].page = r
      BY <3>4, <3>5
    <3> QED BY <3>2 DEF Before
  <2>5. CASE i \in 1 .. L /\ j = L + n + 1
    BY <1>4, <1>6, <1>11, <2>5
  <2>6. CASE i \in L + 1 .. L + n /\ j = L + n + 1
    <3>1. PICK q \in Nat : q = t + (i - L)
      BY <2>6
    <3>2. n = u - t - 1
      BY <1>3, <1>5, <1>18, <1>19, <2>6
    <3>4. q < u
      BY <2>6, <3>1, <3>2
    <3>5. s[i].page = q /\ s[j].page = u
      BY <1>6, <1>19, <2>6, <3>1
    <3>3. q < u /\ s[i].page = q /\ s[j].page = u
      BY <3>4, <3>5
    <3> QED BY <3>3 DEF Before
  <2> QED BY <1>8, <2>0, <2>1, <2>2, <2>3, <2>4, <2>5, <2>6
<1>16. Covers(s)
  <2>1. SUFFICES ASSUME NEW p \in 1 .. e.page, p \notin Gone
                 PROVE  \E i \in DOMAIN s : s[i] = Entry(p, 1)
    BY <1>7 DEF Covers
  <2>2. CASE p <= t
    <3>1. p \in 1 .. h[Len(h)].page
      BY <1>5, <1>19, <2>2
    <3>2. PICK i \in DOMAIN h : h[i] = Entry(p, 1)
      BY <2>1, <3>1 DEF WellFormed, Covers
    <3> QED BY <1>4, <1>6, <1>9, <3>2
  <2>3. CASE p > t
    <3>1. p \in t + 1 .. u /\ u > t
      BY <1>19, <2>1, <2>3
    <3>2. e.widget = 1 /\ \A q \in t + 1 .. u - 1 : q \in Gone
      BY <1>5, <1>19, <3>1 DEF ComesNext
    <3>3. p = u
      BY <2>1, <3>1, <3>2
    <3>4. e = Entry(p, 1)
      BY <1>19, <3>2, <3>3 DEF Entry, Entries
    <3> QED BY <1>6, <1>9, <3>4
  <2> QED BY <1>19, <2>2, <2>3
<1>17. WellFormed(s)
  BY <1>7, <1>13, <1>14, <1>15, <1>16 DEF WellFormed, IsHistory
<1> QED BY <1>12, <1>17

(* add_history, on such a screen: it is added, behind an entry for each    *)
(* page jumped over.                                                       *)
LEMMA ShownNext ==
  ASSUME NavigationAssumption, NEW h, WellFormed(h), NEW e \in Entries, ComesNext(h[Len(h)], e)
  PROVE  /\ WellFormed(AddHistory(h, e))
         /\ AddHistory(h, e)[Len(AddHistory(h, e))] = e
         /\ Real(AddHistory(h, e)) = Real(h) \cup {e}
<1>1. /\ h \in Seq(Entries) /\ h # <<>>
      /\ Len(h) \in Nat \ {0} /\ DOMAIN h = 1 .. Len(h) /\ Len(h) \in DOMAIN h
      /\ \A i \in DOMAIN h : h[i].page \in Nat /\ h[i].widget \in Nat \cup {NoWidget}
  BY HistoryHas DEF WellFormed, IsHistory
<1>2. PICK top : top = h[Len(h)]
  OBVIOUS
<1>3. ComesNext(top, e)
  BY <1>2
<1>4. e.page \in Nat /\ e.widget \in Nat \ {0} /\ e.widget # NoWidget
  BY DEF ComesNext, Screen, NavigationAssumption
<1>5. top.page \in Nat /\ top.widget \in Nat \cup {NoWidget} /\ top.page <= e.page
  BY <1>1, <1>2, <1>3, <1>4 DEF ComesNext
<1>6. PICK n \in Nat : n = (IF e.page > top.page THEN e.page - top.page - 1 ELSE 0)
  BY <1>4, <1>5
<1>7. PICK f \in Seq(Entries) :
        f = Fakes(top.page, e.page) /\ Len(f) = n /\ \A m \in 1 .. n : f[m] = Entry(top.page + m, NoWidget)
  <2>1. \A m \in 1 .. n : Entry(top.page + m, NoWidget) \in Entries
    <3>1. \A m \in 1 .. n : top.page + m \in Nat
      BY <1>5, <1>6
    <3> QED BY <3>1 DEF Entry, Entries
  <2>2. Fakes(top.page, e.page) = [m \in 1 .. n |-> Entry(top.page + m, NoWidget)]
    BY <1>6 DEF Fakes
  <2>3. [m \in 1 .. n |-> Entry(top.page + m, NoWidget)] \in Seq(Entries)
    BY <1>6, <2>1
  <2> QED BY <1>6, <2>2, <2>3
<1>8. PICK s : s = Append(h \o f, e)
  OBVIOUS
<1>9. /\ s \in Seq(Entries) /\ Len(s) = Len(h) + n + 1
      /\ \A i \in 1 .. Len(h) : s[i] = h[i]
      /\ \A i \in Len(h) + 1 .. Len(h) + n : s[i] = f[i - Len(h)]
      /\ s[Len(h) + n + 1] = e
  <2>1. /\ Append(h \o f, e) \in Seq(Entries) /\ Len(Append(h \o f, e)) = Len(h) + Len(f) + 1
        /\ \A i \in 1 .. Len(h) : Append(h \o f, e)[i] = h[i]
        /\ \A i \in Len(h) + 1 .. Len(h) + Len(f) : Append(h \o f, e)[i] = f[i - Len(h)]
        /\ Append(h \o f, e)[Len(h) + Len(f) + 1] = e
    BY <1>1, EndsUp
  <2>2. Len(f) = n
    BY <1>7
  <2> QED BY <1>8, <2>1, <2>2
<1>10. Grows(h, top, e, n, s)
  <2>1. \A i \in Len(h) + 1 .. Len(h) + n : i - Len(h) \in 1 .. n
    BY <1>1, <1>6
  <2>2. \A i \in Len(h) + 1 .. Len(h) + n : s[i] = Entry(top.page + (i - Len(h)), NoWidget)
    BY <1>7, <1>9, <2>1
  <2>3. DOMAIN s = 1 .. Len(h) + n + 1
    BY <1>9
  <2> QED BY <1>9, <2>2, <2>3 DEF Grows
<1>11. WellFormed(s) /\ Real(s) = Real(h) \cup {e}
  BY <1>2, <1>3, <1>6, <1>10, GrownFits
<1>12. s[Len(s)] = e
  BY <1>9
<1>13. \A i \in DOMAIN h : h[i] # e
  <2>1. SUFFICES ASSUME NEW i \in DOMAIN h, h[i] = e PROVE FALSE
    OBVIOUS
  <2>2. i \in DOMAIN s /\ Len(s) \in DOMAIN s /\ s[i] = h[i] /\ i # Len(s)
    BY <1>1, <1>6, <1>9, SMTT(20)
  <2> QED BY <1>11, <1>12, <2>1, <2>2, StandsOnce
<1>14. (h \o f)[Len(h \o f)] # e
  <2>1. h \o f \in Seq(Entries) /\ Len(h \o f) = Len(h) + n
        /\ (\A i \in 1 .. Len(h) : (h \o f)[i] = h[i])
        /\ (\A i \in Len(h) + 1 .. Len(h) + n : (h \o f)[i] = f[i - Len(h)])
    <3>1. /\ h \o f \in Seq(Entries) /\ Len(h \o f) = Len(h) + Len(f)
          /\ \A i \in 1 .. Len(h) : (h \o f)[i] = h[i]
          /\ \A i \in Len(h) + 1 .. Len(h) + Len(f) : (h \o f)[i] = f[i - Len(h)]
      BY <1>1, EndsUp
    <3>2. Len(f) = n
      BY <1>7
    <3> QED BY <3>1, <3>2
  <2>2. CASE n = 0
    <3>1. Len(h \o f) = Len(h)
      BY <1>1, <2>1, <2>2
    <3> QED BY <1>1, <1>13, <2>1, <3>1
  <2>3. CASE n > 0
    <3>1. PICK L \in Nat : L = Len(h)
      BY <1>1
    <3>3. L + n \in L + 1 .. L + n /\ (L + n) - L = n /\ n \in 1 .. n
      BY <1>6, <2>3, <3>1
    <3>4. \A i \in L + 1 .. L + n : (h \o f)[i] = f[i - L]
      BY <2>1, <3>1
    <3>5. (h \o f)[L + n] = f[(L + n) - L]
      BY <3>3, <3>4
    <3>2. (h \o f)[Len(h \o f)] = f[n]
      BY <2>1, <3>1, <3>3, <3>5
    <3>6. f[n] = Entry(top.page + n, NoWidget)
      BY <1>7, <3>3
    <3>7. f[n].widget = NoWidget
      BY <3>6 DEF Entry
    <3>8. f[n] # e
      BY <1>4, <3>7
    <3> QED BY <3>2, <3>8
  <2>4. n = 0 \/ n > 0
    OBVIOUS
  <2> QED BY <2>2, <2>3, <2>4
<1>15. AddHistory(h, e) = s
  <2>1. ~\E i \in DOMAIN h : h[i] = e
    BY <1>13
  <2>2. ~(e.page < top.page)
    BY <1>4, <1>5
  <2> QED BY <1>1, <1>2, <1>7, <1>8, <1>14, <2>1, <2>2 DEF AddHistory
<1> QED BY <1>11, <1>12, <1>15

-----------------------------------------------------------------------------
(* As long as no page changes its mind, what is a history stays one. *)
LEMMA MindsKept ==
  ASSUME skipped' = skipped, WellFormed(history')
  PROVE  WellFormed(history)'
<1>1. Gone' = Gone
  BY DEF Gone
<1> QED BY <1>1 DEF WellFormed, Screen, Covers

(* Where a page shows something, it is not one of those that do not. *)
LEMMA PassedIsGone == Passed <=> pagesindex \in Gone
BY DEF Passed, Gone

LEMMA FirstShows ==
  ASSUME NavigationAssumption, skipped \subseteq Skippable
  PROVE  WellFormed(<<Entry(1, 1)>>) /\ Real(<<Entry(1, 1)>>) = {Entry(1, 1)}
<1> DEFINE h == <<Entry(1, 1)>>
<1>1. Entry(1, 1) \in Entries /\ Entry(1, 1).page = 1 /\ Entry(1, 1).widget = 1
  BY DEF Entry, Entries
<1>2. h \in Seq(Entries) /\ h # <<>> /\ Len(h) = 1 /\ DOMAIN h = {1} /\ h[1] = Entry(1, 1)
  BY <1>1
<1> HIDE DEF h
<1>3. 1 \notin Gone /\ 1 \in 1 .. NPages /\ 1 \in 1 .. Screens[1] /\ NoWidget # 1
  BY DEF NavigationAssumption, Gone
<1>4. \A i \in DOMAIN h : Screen(h[i])
  BY <1>1, <1>2, <1>3 DEF Screen
<1>5. InOrder(h)
  BY <1>2 DEF InOrder
<1>6. Covers(h)
  BY <1>1, <1>2 DEF Covers
<1>7. Real(h) = {Entry(1, 1)}
  BY <1>1, <1>2, <1>3 DEF Real
<1> QED BY <1>2, <1>4, <1>5, <1>6, <1>7 DEF WellFormed, IsHistory, h

LEMMA ShowKept ==
  ASSUME NavigationAssumption, NavigationInv, NEW w, Show(w), changes = 0
  PROVE  Where' /\ Underway'
<1> DEFINE e == Entry(pagesindex, w)
<1>1. Where /\ (AtStart \/ Underway)
  BY DEF NavigationInv
<1>2. /\ pagesindex \in 1 .. NPages /\ w \in 1 .. Screens[pagesindex] /\ w \in Nat \ {0}
      /\ w # NoWidget /\ widget' = w /\ backup' = FALSE /\ pagesindex' = pagesindex
      /\ skipped' = skipped /\ history' = AddHistory(history, e)
  BY <1>1 DEF Show, Where, NavigationAssumption
<1>3. Where'
  BY <1>1, <1>2 DEF Where
<1>4. e \in Entries /\ e.page = pagesindex /\ e.widget = w /\ Shown' = e
  BY <1>2 DEF Entry, Entries, Shown
<1>5. trail' = {f \in trail : f.page < pagesindex \/ f.widget < w} \cup {e}
  BY DEF Show
<1>6. \/ widget = NoWidget /\ pagesindex \notin Gone /\ w = 1
      \/ widget # NoWidget /\ w = widget + 1
  BY PassedIsGone DEF Show, NavigationAssumption
<1> HIDE DEF e
<1>7. SUFFICES WellFormed(history') /\ history'[Len(history')] = e /\ trail' = Real(history')
  <2>1. Top' = history'[Len(history')] /\ Real(history)' = Real(history')
    BY DEF Top, Real
  <2>2. WellFormed(history)'
    BY <1>2, <1>7, MindsKept
  <2> QED BY <1>2, <1>3, <1>4, <1>7, <2>1, <2>2 DEF Underway, OnScreen
<1>8. CASE AtStart
  <2>1. e = Entry(1, 1) /\ history' = <<e>> /\ trail' = {e}
    BY <1>2, <1>5, <1>6, <1>8 DEF AtStart, AddHistory, e
  <2>2. Len(history') = 1 /\ history'[1] = e
    BY <2>1
  <2> QED BY <1>1, <2>1, <2>2, FirstShows DEF Where
<1>9. CASE Underway /\ widget # NoWidget
  <2>1. WellFormed(history) /\ Top = Shown /\ trail = Real(history) /\ w = widget + 1
    BY <1>6, <1>9 DEF Underway, OnScreen
  <2>2. Top.page = pagesindex /\ Top.widget = widget /\ widget \in Nat
    BY <1>1, <1>9, <2>1 DEF Shown, Entry, Where
  <2>3. history # <<>> /\ Len(history) \in DOMAIN history
    BY <2>1, HistoryHas DEF WellFormed, IsHistory
  <2>4. pagesindex \notin Gone
    <3>1. Screen(Top)
      BY <2>1, <2>3 DEF WellFormed, Top
    <3> QED BY <1>9, <2>2, <3>1 DEF Screen
  <2>5. ComesNext(Top, e)
    BY <1>2, <1>4, <1>9, <2>1, <2>2, <2>4 DEF ComesNext, Screen
  <2>6. /\ WellFormed(history') /\ history'[Len(history')] = e
        /\ Real(history') = Real(history) \cup {e}
    BY <1>2, <1>4, <2>1, <2>5, ShownNext DEF Top
  <2>7. \A f \in trail : f.page < pagesindex \/ f.widget < w
    <3>1. SUFFICES ASSUME NEW f \in Real(history) PROVE f.page < pagesindex \/ f.widget < w
      BY <2>1
    <3>2. f.widget \in Nat \ {0} /\ (f = Top \/ Before(f, Top))
      BY <2>1, ScreensUpToTop DEF Top
    <3>3. CASE f = Top
      BY <2>1, <2>2, <3>3
    <3>4. CASE Before(f, Top)
      BY <2>1, <2>2, <3>2, <3>4 DEF Before
    <3> QED BY <3>2, <3>3, <3>4
  <2>8. trail' = trail \cup {e}
    BY <1>5, <2>7
  <2> QED BY <2>1, <2>6, <2>8
<1>10. CASE Underway /\ widget = NoWidget /\ pagesindex <= Top.page
  <2>1. WellFormed(history) /\ pagesindex \notin Gone /\ w = 1
    BY <1>6, <1>10 DEF Underway
  <2>2. pagesindex \in 1 .. history[Len(history)].page
    BY <1>2, <1>10 DEF Top
  <2>3. /\ WellFormed(history') /\ history'[Len(history')] = e
        /\ Real(history') = {f \in Real(history) : f.page < pagesindex} \cup {e}
    BY <1>2, <2>1, <2>2, ShownAgain DEF e
  <2>4. {f \in trail : f.page < pagesindex \/ f.widget < w}
          = {f \in Real(history) : f.page < pagesindex}
    <3>1. \A f \in Real(history) : ~(f.widget < w)
      BY <2>1, ScreensUpToTop
    <3>2. trail = Real(history) \/ trail = {f \in Real(history) : f.page < pagesindex}
      BY <1>10 DEF Underway, Forward, Backward
    <3> QED BY <3>1, <3>2
  <2> QED BY <1>5, <2>3, <2>4
<1>11. CASE Underway /\ widget = NoWidget /\ ~(pagesindex <= Top.page)
  <2>1. WellFormed(history) /\ pagesindex \notin Gone /\ w = 1
    BY <1>6, <1>11 DEF Underway
  <2>2. Top.page \in Nat
    BY <2>1, HistoryHas DEF WellFormed, Top
  <2>3. pagesindex > Top.page
    BY <1>2, <1>11, <2>2
  <2>4. Forward
    BY <1>11, <2>2 DEF Underway, Backward
  <2>5. ComesNext(Top, e)
    BY <1>2, <1>4, <2>1, <2>3, <2>4 DEF ComesNext, Screen, Forward
  <2>6. /\ WellFormed(history') /\ history'[Len(history')] = e
        /\ Real(history') = Real(history) \cup {e}
    BY <1>2, <1>4, <2>1, <2>5, ShownNext DEF Top
  <2>7. \A f \in Real(history) : f.page < pagesindex
    <3>1. SUFFICES ASSUME NEW f \in Real(history) PROVE f.page < pagesindex
      OBVIOUS
    <3>2. f.page \in Nat /\ f.page <= Top.page
      BY <2>1, ScreensUpToTop DEF Top
    <3> QED BY <1>2, <2>2, <2>3, <3>2
  <2>8. trail' = Real(history) \cup {e}
    BY <1>5, <2>4, <2>7 DEF Forward
  <2> QED BY <2>6, <2>8
<1> QED BY <1>1, <1>8, <1>9, <1>10, <1>11

(* pop_history and the step back: to the page of the entry before. *)
LEMMA StepBack ==
  ASSUME NavigationAssumption, NEW h, WellFormed(h), NEW i, i = h[Len(h)].page, h[Len(h)] # Entry(1, 1)
  PROVE  /\ WellFormed(PopHistory(h))
         /\ PopHistory(h)[Len(PopHistory(h))].page = PopIndex(h, i)
         /\ Real(PopHistory(h)) = Real(h) \ {h[Len(h)]}
         /\ PopIndex(h, i) \in 1 .. NPages
         /\ Before(Entry(PopIndex(h, i), h[Len(h) - 1].widget), h[Len(h)])
         /\ h[Len(h) - 1].widget \in (Nat \ {0}) \cup {NoWidget}
<1>1. /\ Len(h) \in Nat \ {0} /\ DOMAIN h = 1 .. Len(h)
      /\ \A k \in DOMAIN h : h[k] \in Entries
  BY HistoryHas DEF WellFormed
<1>2. PICK L \in Nat \ {0} : L = Len(h)
  BY <1>1
<1>3. L # 1
  BY <1>2 DEF WellFormed
<1>4. L >= 2 /\ L - 1 \in DOMAIN h /\ L \in DOMAIN h /\ L - 1 < L
  BY <1>1, <1>2, <1>3
<1>5. PopIndex(h, i) = h[L - 1].page
  BY <1>2, <1>4 DEF PopIndex
<1>6. /\ WellFormed(PopHistory(h)) /\ Len(PopHistory(h)) = L - 1
      /\ PopHistory(h)[L - 1] = h[L - 1] /\ Real(PopHistory(h)) = Real(h) \ {h[L]}
  BY <1>2, <1>4, PoppedIs
<1>7. Screen(h[L - 1])
  BY <1>4 DEF WellFormed
<1>8. h[L - 1].page \in 1 .. NPages /\ h[L - 1].widget \in (Nat \ {0}) \cup {NoWidget}
  BY <1>7 DEF Screen, NavigationAssumption
<1>9. Before(h[L - 1], h[L])
  BY <1>4 DEF WellFormed, InOrder
<1>10. Before(Entry(h[L - 1].page, h[L - 1].widget), h[L])
  BY <1>9 DEF Before, Entry
<1> QED BY <1>2, <1>5, <1>6, <1>8, <1>10

LEMMA PassKept ==
  ASSUME NavigationAssumption, NavigationInv, Pass, changes = 0
  PROVE  Where' /\ Underway'
<1>1. Where /\ (AtStart \/ Underway)
  BY DEF NavigationInv
<1>2. /\ pagesindex \in 1 .. NPages /\ widget = NoWidget /\ pagesindex \in Gone
      /\ backup' = backup /\ widget' = widget /\ skipped' = skipped /\ trail' = trail
  BY <1>1, PassedIsGone DEF Pass, Where
<1>3. Underway
  BY <1>1, <1>2 DEF AtStart, Gone, Where, NavigationAssumption
<1>4. WellFormed(history)
  BY <1>3 DEF Underway
<1>5. Gone' = Gone
  BY <1>2 DEF Gone
<1>6. CASE backup
  <2>1. Backward
    BY <1>2, <1>3, <1>6 DEF Underway
  <2>2. history' = PopHistory(history) /\ pagesindex' = PopIndex(history, pagesindex)
    BY <1>6 DEF Pass
  <2>3. history[Len(history)].page = pagesindex /\ pagesindex # 1
    BY <1>1, <1>2, <2>1 DEF Backward, Top, Gone, Where, NavigationAssumption
  <2>4. history[Len(history)] # Entry(1, 1)
    BY <2>3 DEF Entry
  <2>5. /\ WellFormed(history') /\ history'[Len(history')].page = pagesindex'
        /\ Real(history') = Real(history) \ {history[Len(history)]}
        /\ pagesindex' \in 1 .. NPages
        /\ Before(Entry(pagesindex', history[Len(history) - 1].widget), history[Len(history)])
    BY <1>4, <2>2, <2>3, <2>4, StepBack
  <2>6. pagesindex' <= pagesindex
    BY <1>2, <2>3, <2>5 DEF Before, Entry
  <2>7. history[Len(history)].widget = NoWidget
    <3>1. Len(history) \in DOMAIN history
      BY <1>4, HistoryHas DEF WellFormed
    <3>2. Screen(history[Len(history)])
      BY <1>4, <3>1 DEF WellFormed
    <3> QED BY <1>2, <2>3, <3>2 DEF Screen
  <2>8. Real(history') = Real(history)
    BY <2>5, <2>7 DEF Real
  <2>9. Real(history)' = Real(history') /\ Top' = history'[Len(history')]
    BY DEF Real, Top
  <2>10. Backward'
    BY <1>2, <2>1, <2>5, <2>6, <2>8, <2>9 DEF Backward, NavigationAssumption
  <2>11. WellFormed(history)'
    BY <1>2, <2>5, MindsKept
  <2>12. Where'
    BY <1>1, <1>2, <2>5 DEF Where, NavigationAssumption
  <2> QED BY <1>2, <1>6, <2>10, <2>11, <2>12 DEF Underway
<1>7. CASE ~backup
  <2>1. Forward
    BY <1>2, <1>3, <1>7 DEF Underway
  <2>2. history' = history /\ pagesindex' = pagesindex + 1
    BY <1>7 DEF Pass
  <2>3. WellFormed(history)'
    BY <1>2, <1>4, <2>2, MindsKept
  <2>4. Top' = Top /\ Real(history)' = Real(history)
    BY <2>2 DEF Top, Real
  <2>5. Top.page \in Nat
    BY <1>4, HistoryHas DEF WellFormed, Top
  <2>6. {e \in Real(history) : e.page < pagesindex'} = {e \in Real(history) : e.page < pagesindex}
    <3>1. SUFFICES ASSUME NEW e \in Real(history) PROVE e.page # pagesindex /\ e.page \in Nat
      BY <1>2, <2>2
    <3>2. PICK i \in DOMAIN history : history[i] = e /\ e.widget # NoWidget
      BY DEF Real
    <3>3. Screen(e)
      BY <1>4, <3>2 DEF WellFormed
    <3> QED BY <1>2, <3>2, <3>3 DEF Screen
  <2>7. \A p \in Top.page + 1 .. pagesindex' - 1 : p \in Gone
    <3>1. SUFFICES ASSUME NEW p \in Top.page + 1 .. pagesindex' - 1 PROVE p \in Gone
      OBVIOUS
    <3>2. p = pagesindex \/ p \in Top.page + 1 .. pagesindex - 1
      BY <1>2, <2>2, <2>5
    <3> QED BY <1>2, <2>1, <3>2 DEF Forward
  <2>8. Forward'
    BY <1>2, <1>5, <2>1, <2>4, <2>6, <2>7 DEF Forward
  <2>9. Where'
    BY <1>1, <1>2, <2>2 DEF Where, NavigationAssumption
  <2> QED BY <1>2, <1>7, <2>3, <2>8, <2>9 DEF Underway
<1> QED BY <1>1, <1>6, <1>7 DEF Where

LEMMA NextPageKept ==
  ASSUME NavigationAssumption, NavigationInv, NextPage, changes = 0
  PROVE  Where' /\ Underway'
<1>1. Where /\ (AtStart \/ Underway)
  BY DEF NavigationInv
<1>2. /\ pagesindex \in 1 .. NPages /\ widget # NoWidget /\ pagesindex' = pagesindex + 1
      /\ history' = history /\ widget' = NoWidget
      /\ backup' = backup /\ skipped' = skipped /\ trail' = trail
  BY <1>1 DEF NextPage, Where
<1>3. WellFormed(history) /\ ~backup /\ Top = Shown /\ trail = Real(history)
  BY <1>1, <1>2 DEF AtStart, Underway, OnScreen
<1>4. WellFormed(history)' /\ Top' = Top /\ Real(history)' = Real(history)
  BY <1>2, <1>3, MindsKept DEF Top, Real
<1>5. Top.page = pagesindex
  BY <1>3 DEF Shown, Entry
<1>6. \A e \in Real(history) : e.page < pagesindex'
  <2>1. SUFFICES ASSUME NEW e \in Real(history) PROVE e.page < pagesindex'
    OBVIOUS
  <2>2. e.page \in Nat /\ e.page <= Top.page
    BY <1>3, ScreensUpToTop DEF Top
  <2> QED BY <1>2, <1>5, <2>2
<1>7. trail' = {e \in Real(history)' : e.page < pagesindex'}
  BY <1>2, <1>3, <1>4, <1>6
<1>8. Top'.page + 1 .. pagesindex' - 1 = {}
  BY <1>2, <1>4, <1>5
<1>9. Forward'
  BY <1>7, <1>8 DEF Forward
<1>10. Where'
  BY <1>1, <1>2 DEF Where, NavigationAssumption
<1> QED BY <1>2, <1>3, <1>4, <1>9, <1>10 DEF Underway

LEMMA BackKept ==
  ASSUME NavigationAssumption, NavigationInv, Back, changes = 0
  PROVE  Where' /\ Underway'
<1>1. Where /\ (AtStart \/ Underway)
  BY DEF NavigationInv
<1>2. /\ pagesindex \in 2 .. NPages /\ widget # NoWidget /\ backup' = TRUE
      /\ pagesindex' = PopIndex(history, pagesindex) /\ history' = PopHistory(history)
      /\ widget' = NoWidget /\ skipped' = skipped /\ trail' = trail \ {Shown}
  BY <1>1 DEF Back, BackOffered, Where, NavigationAssumption
<1>3. WellFormed(history) /\ Top = Shown /\ trail = Real(history)
  BY <1>1, <1>2 DEF AtStart, Underway, OnScreen
<1>4. /\ history[Len(history)].page = pagesindex /\ history[Len(history)].widget = widget
      /\ history[Len(history)] # Entry(1, 1)
  BY <1>2, <1>3 DEF Top, Shown, Entry
<1>5. /\ WellFormed(history') /\ history'[Len(history')].page = pagesindex'
      /\ Real(history') = Real(history) \ {history[Len(history)]}
      /\ pagesindex' \in 1 .. NPages
      /\ Before(Entry(pagesindex', history[Len(history) - 1].widget), history[Len(history)])
      /\ history[Len(history) - 1].widget \in (Nat \ {0}) \cup {NoWidget}
  BY <1>2, <1>3, <1>4, StepBack
<1>6. pagesindex <= Partman + 1
  BY <1>2 DEF Back, BackOffered, NavigationAssumption
<1>7. pagesindex' <= Partman
  <2>1. Len(history) \in DOMAIN history
    BY <1>3, HistoryHas DEF WellFormed
  <2>2. Screen(history[Len(history)])
    BY <1>3, <2>1 DEF WellFormed
  <2>3. widget \in 1 .. Screens[pagesindex]
    BY <1>2, <1>4, <2>2 DEF Screen
  <2>4. pagesindex = Partman + 1 => widget = 1
    BY <1>2, <2>3 DEF NavigationAssumption
  <2>5. pagesindex' < pagesindex \/ (pagesindex' = pagesindex /\ widget # 1)
    BY <1>2, <1>4, <1>5, <2>3 DEF Before, Entry, NavigationAssumption
  <2> QED BY <1>2, <1>5, <1>6, <2>4, <2>5 DEF NavigationAssumption
<1>8. trail' = Real(history')
  BY <1>2, <1>3, <1>5 DEF Top
<1>9. Real(history)' = Real(history') /\ Top' = history'[Len(history')]
  BY DEF Real, Top
<1>10. Backward'
  BY <1>5, <1>7, <1>8, <1>9 DEF Backward
<1>11. WellFormed(history)'
  BY <1>2, <1>5, MindsKept
<1>12. Where'
  BY <1>1, <1>2, <1>5 DEF Where, NavigationAssumption
<1> QED BY <1>2, <1>10, <1>11, <1>12 DEF Underway

LEMMA ReturnKept ==
  ASSUME NavigationAssumption, NavigationInv, ReturnToPartitioning, changes = 0
  PROVE  Where' /\ Underway'
<1>1. Where /\ (AtStart \/ Underway)
  BY DEF NavigationInv
<1>2. /\ pagesindex > Partman /\ pagesindex' = Partman /\ widget' = NoWidget
      /\ history' = history /\ backup' = backup /\ skipped' = skipped
      /\ trail' = {e \in trail : e.page < Partman} /\ Partman \in 1 .. NPages
      /\ pagesindex \in 1 .. NPages + 1 /\ NPages \in Nat
  BY <1>1 DEF ReturnToPartitioning, Where, NavigationAssumption
<1>3. Underway
  BY <1>1, <1>2 DEF AtStart
<1>4. WellFormed(history) /\ ~backup
  BY <1>1, <1>2, <1>3 DEF Underway, OnScreen, Backward, Where
<1>5. WellFormed(history)' /\ Top' = Top /\ Real(history)' = Real(history) /\ Gone' = Gone
  BY <1>2, <1>4, MindsKept DEF Top, Real, Gone
<1>6. Top.page \in Nat
  BY <1>4, HistoryHas DEF WellFormed, Top
<1>7. /\ trail = Real(history) \/ trail = {e \in Real(history) : e.page < pagesindex}
      /\ \A p \in Top.page + 1 .. pagesindex - 1 : p \in Gone
  <2>1. CASE widget = NoWidget
    BY <1>3, <1>4, <2>1 DEF Underway, Forward
  <2>2. CASE widget # NoWidget
    <3>1. Top = Shown /\ trail = Real(history)
      BY <1>3, <2>2 DEF Underway, OnScreen
    <3>2. Top.page = pagesindex
      BY <3>1 DEF Shown, Entry
    <3>3. Top.page + 1 .. pagesindex - 1 = {}
      BY <1>2, <3>2
    <3> QED BY <3>1, <3>3
  <2> QED BY <2>1, <2>2
<1>8. trail' = {e \in Real(history) : e.page < Partman}
  <2>1. \A e \in Real(history) : e.page \in Nat
    BY <1>4, ScreensUpToTop
  <2>2. \A e \in Real(history) : e.page < Partman => e.page < pagesindex
    BY <1>2, <2>1
  <2> QED BY <1>2, <1>7, <2>2
<1>9. \A p \in Top.page + 1 .. Partman - 1 : p \in Gone
  BY <1>2, <1>6, <1>7
<1>10. Forward'
  BY <1>2, <1>5, <1>8, <1>9 DEF Forward
<1>11. Where'
  BY <1>1, <1>2 DEF Where, NavigationAssumption
<1> QED BY <1>2, <1>4, <1>5, <1>10, <1>11 DEF Underway

-----------------------------------------------------------------------------
LEMMA NavigationAtFirst ==
  ASSUME NavigationAssumption, Init
  PROVE  NavigationInv
<1>1. 1 \in 1 .. NPages + 1 /\ skipped \subseteq Skippable
  BY DEF Init, NavigationAssumption
<1>2. Where
  BY <1>1 DEF Init, Where
<1>3. AtStart /\ changes \in Nat
  BY DEF Init, AtStart
<1> QED BY <1>2, <1>3 DEF NavigationInv

LEMMA NavigationKept ==
  ASSUME NavigationAssumption, NavigationInv, [Next]_vars
  PROVE  NavigationInv'
<1>1. CASE NetworkChange
  BY <1>1 DEF NetworkChange, NavigationInv
<1>2. CASE UNCHANGED vars
  BY <1>2 DEF vars, NavigationInv, Where, AtStart, Underway, OnScreen, Forward, Backward, WellFormed,
              Screen, Covers, Gone, Top, Shown
<1>3. CASE Pass \/ NextPage \/ Back \/ ReturnToPartitioning \/ \E w : Show(w)
  <2>1. changes' = changes
    BY <1>3 DEF Pass, NextPage, Back, ReturnToPartitioning, Show
  <2>2. SUFFICES ASSUME changes = 0 PROVE Where' /\ Underway'
    BY <2>1 DEF NavigationInv
  <2> QED BY <1>3, <2>2, PassKept, NextPageKept, BackKept, ReturnKept, ShowKept
<1> QED BY <1>1, <1>2, <1>3 DEF Next

THEOREM NavigationHolds == Spec => []NavigationInv
<1>1. Init => NavigationInv
  BY NavigationAssumption, NavigationAtFirst
<1>2. NavigationInv /\ [Next]_vars => NavigationInv'
  BY NavigationAssumption, NavigationKept
<1> QED BY <1>1, <1>2, PTL DEF Spec

(* The history is the user's way, for any pages and any tour. *)
THEOREM HistoryFollowsTheUser == Spec => []HistoryFollowsTrail
<1>1. NavigationInv => HistoryFollowsTrail
  BY DEF NavigationInv, HistoryFollowsTrail, AtStart, Underway, OnScreen, WellFormed
<1> QED BY <1>1, NavigationHolds, PTL

(* Back leads to the page of the screen seen before, over any number of    *)
(* pages that show nothing.                                                *)
THEOREM BackRetraces == Spec => BackShowsPrevious
<1>1. ASSUME NavigationInv, [Next]_vars, changes = 0, backup, ~backup'
      PROVE  /\ \E e \in trail : e.page = pagesindex' /\ \A f \in trail : f.page <= e.page
             /\ widget' = 1
  <2>1. PICK w : Show(w)
    BY <1>1 DEF Next, vars, Pass, NextPage, Back, ReturnToPartitioning, NetworkChange
  <2>2. Where /\ Underway
    BY <1>1 DEF NavigationInv, AtStart
  <2>3. widget = NoWidget /\ WellFormed(history) /\ Backward
    BY <1>1, <2>2 DEF Underway, OnScreen
  <2>4. widget' = 1 /\ pagesindex' = pagesindex /\ pagesindex \notin Gone
    BY <2>1, <2>3, PassedIsGone, NavigationAssumption DEF Show, NavigationAssumption
  <2>5. /\ Len(history) \in DOMAIN history /\ history[Len(history)].page = pagesindex
        /\ trail = Real(history)
    BY <2>3, HistoryHas DEF WellFormed, Backward, Top
  <2>6. Screen(history[Len(history)])
    BY <2>3, <2>5 DEF WellFormed
  <2>7. history[Len(history)].widget # NoWidget
    <3>1. history[Len(history)].widget \in 1 .. Screens[pagesindex]
      BY <2>4, <2>5, <2>6 DEF Screen
    <3>2. pagesindex \in 1 .. NPages
      BY <2>5, <2>6 DEF Screen
    <3> QED BY <3>1, <3>2, NavigationAssumption DEF NavigationAssumption
  <2>8. history[Len(history)] \in trail
    BY <2>5, <2>7 DEF Real
  <2>9. \A f \in trail : f.page <= history[Len(history)].page
    BY <2>3, <2>5, ScreensUpToTop, NavigationAssumption
  <2> QED BY <2>4, <2>5, <2>8, <2>9
<1>2. NavigationInv /\ [Next]_vars =>
        [changes = 0 /\ backup /\ ~backup'
           => /\ \E e \in trail : e.page = pagesindex' /\ \A f \in trail : f.page <= e.page
              /\ widget' = 1]_vars
  BY <1>1
<1> QED BY <1>2, NavigationHolds, PTL DEF Spec, BackShowsPrevious
=============================================================================
