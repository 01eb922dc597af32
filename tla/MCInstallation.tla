--------------------------- MODULE MCInstallation ---------------------------
(***************************************************************************)
(* A live system with a manual page tree that became a link, and packages  *)
(* for each rule: gone needs lib, prm has a prerm script and needs tool,   *)
(* base cannot be deleted and needs the restricted drv, doc is automatic   *)
(* and only gone recommends it, new is not there yet.                      *)
(***************************************************************************)
EXTENDS Installation

N(n) == [n |-> n, bak |-> 0]
etc == <<N("etc")>>
fstab == <<N("etc"), N("fstab")>>
usr == <<N("usr")>>
man == <<N("usr"), N("man")>>
share == <<N("usr"), N("share")>>
sman == <<N("usr"), N("share"), N("man")>>
page == <<N("usr"), N("page")>>
apt == <<N("usr"), N("share"), N("apt")>>

MCSource ==
  [p \in {etc, fstab, usr, man, share, sman, page, apt} |->
     CASE p = fstab -> Node("file", "new", <<>>)
       [] p = page -> Node("file", "new", <<>>)
       [] p = man -> Node("link", "none", sman)
       [] OTHER -> Dir]
MCWalk == <<etc, usr, fstab, man, share, page, sman, apt>>
MCOwner == [p \in DOMAIN MCSource |-> IF p = page THEN {"gone"} ELSE {"base"}]

Old == Node("file", "old", <<>>)
Mine(p) == p :> Dir @@ Append(p, N("mine")) :> Old
Some == fstab :> Old @@ etc :> Dir
MCTargets ==
  {Some,
   Some @@ usr :> Dir @@ Mine(man) @@ share :> Dir @@ sman :> Dir @@ Mine(page),
   Some @@ usr :> Dir @@ Mine(man) @@ share :> Dir @@ Mine(sman) @@ page :> Old,
   Some @@ usr :> Dir @@ Mine(man) @@ share :> Old}

MCReserved == {fstab}
MCImages == <<"image1", "image2">>
MCUpdaterDir == apt

MCDepends ==
  [p \in Package |-> CASE p = "gone" -> {<<"lib">>}
                       [] p = "new" -> {<<"lib">>}
                       [] p = "prm" -> {<<"tool">>}
                       [] p = "base" -> {<<"drv">>}
                       [] OTHER -> {}]
MCRecommends == [p \in Package |-> IF p = "gone" THEN {<<"doc">>} ELSE {}]

(* What the theorems on the packages suppose of them.                      *)
ASSUME PackagesAssumption == DecisionsAgree
=============================================================================
