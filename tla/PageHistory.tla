---------------------------- MODULE PageHistory ----------------------------
(***************************************************************************)
(* The list of pages the user has been through, which the Back button      *)
(* walks (BaseFrontend.add_history and pop_history).  An entry names a     *)
(* page, by its position in the wizard, and the widget of it that was      *)
(* shown; a page that was jumped over leaves an entry with NoWidget for    *)
(* its always-on widget, of which every plugin has one.  Positions start   *)
(* at 1 here and at 0 in the code.                                         *)
(***************************************************************************)
EXTENDS Naturals, Sequences, FiniteSetsExt

CONSTANT NoWidget

Entry(page, widget) == [page |-> page, widget |-> widget]

(* list.index *)
FirstIndex(h, e) == Min({i \in DOMAIN h : h[i] = e})

(* The while loop of add_history: pop until the page is on top, but never  *)
(* the last entry left.                                                    *)
PopToPage(h, page) ==
  SubSeq(h, 1, Max({1} \cup {i \in DOMAIN h : h[i].page = page}))

\* Mutated: the page arrived at counts as jumped over.
FakesOneMore(old, new) ==
  [n \in 1 .. (IF new > old THEN new - old ELSE 0) |-> Entry(old + n, NoWidget)]

(* The entries for the pages strictly between two positions, in order. *)
Fakes(old, new) ==
  [n \in 1 .. (IF new > old THEN new - old - 1 ELSE 0) |-> Entry(old + n, NoWidget)]

\* Mutated: a page shown before is not looked for.
AddHistoryAnew(h, e) ==
  LET old   == h[Len(h)].page
      moved == IF e.page < old THEN PopToPage(h, e.page) ELSE h \o Fakes(old, e.page)
  IN  IF h = <<>> THEN <<e>> ELSE Append(moved, e)

AddHistory(h, e) ==
  LET seen  == \E i \in DOMAIN h : h[i] = e
      old   == h[Len(h)].page
      moved == IF e.page < old THEN PopToPage(h, e.page) ELSE h \o Fakes(old, e.page)
  IN  IF h = <<>> THEN <<e>>
      ELSE IF seen /\ FirstIndex(h, e) < Len(h) THEN SubSeq(h, 1, FirstIndex(h, e))
      ELSE IF moved[Len(moved)] = e THEN moved
      ELSE Append(moved, e)

\* Mutated: nothing is popped.
PopHistoryNone(h) == h

PopHistory(h) == IF Len(h) < 2 THEN h ELSE SubSeq(h, 1, Len(h) - 1)

(* The position run() goes to when the user asked to go back from page i. *)
PopIndex(h, i) == IF Len(h) < 2 THEN i ELSE h[Len(h) - 1].page
=============================================================================
