------------------------------ MODULE Packages ------------------------------
(***************************************************************************)
(* What the installation decides about packages: which of the live         *)
(* system's are not wanted in the installed one, which of those may go     *)
(* without breaking others, and which to install.  A set of packages D     *)
(* "marked for deletion" stands for apt's depcache; apt itself is          *)
(* modelled by what it says is broken.                                     *)
(***************************************************************************)
EXTENDS Naturals, Sequences, FiniteSets, SequencesExt

CONSTANTS
  Package,      \* the packages there are
  Depends,      \* per package, a set of dependencies: sequences of alternatives
  Recommends,   \* the same for Recommends
  Held,         \* packages apt refuses to delete (mark_delete raises SystemError)
  Prerm         \* packages with a prerm script

ASSUME GraphAssumption ==
  /\ IsFiniteSet(Package) /\ Held \subseteq Package /\ Prerm \subseteq Package
  /\ Depends \in [Package -> SUBSET (Seq(Package) \ {<<>>})]
  /\ Recommends \in [Package -> SUBSET Seq(Package)]

(* A loop that adds to a set until more, a function, has nothing to add.   *)
Grown(more, set) ==
  LET grow[s \in SUBSET Package] ==
        IF more[s] = {} THEN s ELSE grow[s \cup more[s]]
  IN  grow[set]

(* A loop that takes a set through the steps of the elements of order.     *)
Through(step, order, set) ==
  LET upto[n \in 0 .. Len(order)] ==
        IF n = 0 THEN set ELSE step[order[n]][upto[n - 1]]
  IN  upto[Len(order)]

(* apt: the installed packages with a dependency that is not installed.    *)
Broken(installed) ==
  {p \in installed : \E alternatives \in Depends[p] :
                        ToSet(alternatives) \cap installed = {}}

(* The first installed alternative, as a set with at most one element.     *)
FirstInstalled(alternatives, installed) ==
  {alternatives[i] : i \in {j \in DOMAIN alternatives :
     alternatives[j] \in installed /\ \A k \in 1 .. j - 1 : alternatives[k] \notin installed}}

Needed(p, installed) ==
  UNION {FirstInstalled(a, installed) : a \in Depends[p] \cup Recommends[p]}

(* expand_dependencies_simple: keep, and what it needs of to_remove.  A    *)
(* package that is not installed needs nothing.                            *)
ExpandDependencies(installed, keep, to_remove) ==
  Grown([expanded \in SUBSET Package |->
           ((UNION {Needed(p, installed) : p \in expanded \cap installed}) \cap to_remove)
             \ expanded], keep)

-----------------------------------------------------------------------------
(* get_remove_list *)

(* What deleting p besides D drags along, as far as it may go.             *)
Dragged(installed, D, p, to_remove, recursive) ==
  Grown([marked \in SUBSET Package |->
           LET more == Broken(installed \ marked)
           IN  IF more \cap Held = {} /\ (recursive \/ more \subseteq to_remove)
                 THEN more ELSE {}], D \cup {p})

\* Mutated: a deletion that leaves packages broken is not taken back.
TryRemoveAnyway(installed, D, p, to_remove, recursive) ==
  IF p \notin installed \ Held THEN D
  ELSE Dragged(installed, D, p, to_remove, recursive)

(* One package of get_remove_list's inner loop; a deletion that leaves     *)
(* something broken is taken back.                                         *)
TryRemove(installed, D, p, to_remove, recursive) ==
  IF p \notin installed \ Held THEN D
  ELSE LET marked == Dragged(installed, D, p, to_remove, recursive)
       IN  IF Broken(installed \ marked) = {} THEN marked ELSE D

(* The loop over to_remove, for those D does not have yet.                 *)
RemovalRound(installed, D, order, recursive) ==
  Through([p \in Package |-> [E \in SUBSET Package |->
             IF p \in D THEN E
             ELSE TryRemove(installed, E, p, ToSet(order) \ D, recursive)]], order, D)

(* It is repeated while it deletes anything.  order is the order in which  *)
(* Python enumerates the set.                                              *)
RemoveList(installed, order, recursive) ==
  Grown([D \in SUBSET Package |-> RemovalRound(installed, D, order, recursive) \ D], {})

(* The orders a set may be enumerated in.                                  *)
Orders(S) == SetToSeqs(S)

-----------------------------------------------------------------------------
(* do_remove purges what nothing installed needs any more and was only     *)
(* installed for its dependents (auto): apt's is_auto_removable.           *)
AutoRemovable(installed, auto) ==
  installed \ Grown([needed \in SUBSET Package |->
    ((UNION {UNION {ToSet(a) : a \in Depends[p] \cup Recommends[p]} : p \in needed})
       \cap installed) \ needed], installed \ auto)

(* mark_install: the packages and, installed for them, the dependencies    *)
(* they lack; apt takes the first alternative.                             *)
WithDependencies(installed, to_install) ==
  Grown([now \in SUBSET Package |->
    {Head(a) : a \in UNION {{b \in Depends[p] : ToSet(b) \cap now = {}} : p \in now}}],
    installed \cup to_install)

-----------------------------------------------------------------------------
(* One package of generate_blacklist's loop.                               *)
Confirm(installed, D, p, unwanted) ==
  IF p \in D THEN D
  ELSE LET would == TryRemove(installed, D, p, {p}, TRUE)
       IN  IF would \subseteq unwanted THEN would ELSE D

Confirmed(installed, unwanted) ==
  Through([p \in Package |-> [D \in SUBSET Package |-> Confirm(installed, D, p, unwanted)]],
          SetToSeq(unwanted), {})

\* Mutated: what is to be kept is blacklisted as well.
BlacklistAll(installed, difference, keep) == Confirmed(installed, difference \ Prerm)

(* generate_blacklist: the packages whose files are not copied.            *)
(* difference are those the manifests, the minimal installation and the    *)
(* choice against restricted packages name.                                *)
Blacklist(installed, difference, keep) ==
  Confirmed(installed, (difference \ ExpandDependencies(installed, keep, difference)) \ Prerm)
=============================================================================
