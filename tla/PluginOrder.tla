----------------------------- MODULE PluginOrder -----------------------------
(***************************************************************************)
(* The order of the pages (plugin_manager.py): plugin files are loaded in  *)
(* the order the directory lists them, sorted by weight, and put one by    *)
(* one after or before pages that are placed already.  A plugin is         *)
(* [name, weight, after, before, hidden, oem]; after and before are        *)
(* sequences of names, <<"">> for None, which stands for an end.           *)
(***************************************************************************)
EXTENDS Integers, SequencesExt

Names(order) == [i \in DOMAIN order |-> order[i].name]

(* get_mod_index: 0 if there is none.                                      *)
ModIndex(order, name) ==
  IF name \in Range(Names(order))
  THEN CHOOSE i \in DOMAIN order :
         order[i].name = name /\ \A j \in 1 .. i - 1 : order[j].name # name
  ELSE 0

(* determine_mod_index: how many plugins stay in front of it, -1 if that   *)
(* is not known yet.  The first name known, or None, decides.              *)
FirstKnown(order, names) ==
  SelectSeq(names, LAMBDA n : n = "" \/ ModIndex(order, n) > 0)

\* Mutated: the place is that of the plugin it comes after.
InFrontOfIt(after, before, order) ==
  LET a == FirstKnown(order, after)
      b == FirstKnown(order, before)
  IN  IF a # <<>> THEN (IF a[1] = "" THEN 0 ELSE ModIndex(order, a[1]) - 1)
      ELSE IF b # <<>> THEN (IF b[1] = "" THEN Len(order) ELSE ModIndex(order, b[1]) - 1)
      ELSE -1

DetermineModIndex(after, before, order) ==
  LET a == FirstKnown(order, after)
      b == FirstKnown(order, before)
  IN  IF a # <<>> THEN (IF a[1] = "" THEN 0 ELSE ModIndex(order, a[1]))
      ELSE IF b # <<>> THEN (IF b[1] = "" THEN Len(order) ELSE ModIndex(order, b[1]) - 1)
      ELSE -1

(* one_pass: the first plugin whose place is known is placed.  Those that  *)
(* only hide others, or are not for the user's own configuration, go.      *)
OnePass(state) ==
  LET only    == SelectSeq(state.mods, LAMBDA m : m.after = <<>> /\ m.before = <<>> /\ m.hidden # {})
      rest    == SelectSeq(state.mods, LAMBDA m : m.after # <<>> \/ m.before # <<>> \/ m.hidden = {})
      Place(m) == DetermineModIndex(m.after, m.before, state.order)
      ready   == SelectSeq(rest, LAMBDA m : Place(m) >= 0)
      m       == ready[1]
  IN  IF ready = <<>>
      THEN [state EXCEPT !.mods = rest,
                         !.hidden = @ \union UNION {o.hidden : o \in Range(only)}]
      ELSE [mods   |-> SelectSeq(rest, LAMBDA o : o # m),
            order  |-> InsertAt(state.order, Place(m) + 1, m),
            hidden |-> state.hidden \union m.hidden \union UNION {o.hidden : o \in Range(only)}]

(* sorted by weight; those of one weight stay as they were loaded.         *)
ByWeight(mods) ==
  FlattenSeq([i \in 1 .. Cardinality({m.weight : m \in Range(mods)}) |->
                SelectSeq(mods, LAMBDA m : m.weight =
                  SetToSortSeq({o.weight : o \in Range(mods)}, <)[i])])

(* order_plugins, with the plugins in the order they were loaded.          *)
OrderPlugins(loaded, oemUser) ==
  LET kept   == IF oemUser THEN SelectSeq(loaded, LAMBDA m : m.oem) ELSE loaded
      sorted == ByWeight(kept)
      placed == FoldLeft(LAMBDA state, i : OnePass(state),
                         [mods |-> sorted, order |-> <<>>, hidden |-> {}],
                         [i \in 1 .. Len(sorted) + 1 |-> i])
  IN  SelectSeq(placed.order, LAMBDA m : m.name \notin placed.hidden)
=============================================================================
