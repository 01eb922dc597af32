------------------------------ MODULE Requests ------------------------------
(***************************************************************************)
(* What the two stages of the installation leave each other on disk, under *)
(* /var/lib/ubiquity: which packages components asked for (apt-installed), *)
(* which are to go (apt-removed), and whether apt-install queues a request *)
(* or carries it out (apt-install-direct).                                 *)
(***************************************************************************)
EXTENDS Packages

CONSTANTS
  Live,        \* packages of the live system
  Unwanted,    \* those that manifests and choices say not to keep
  Restricted,  \* packages from the restricted archive
  Langpacks,   \* the language packs for the chosen locales
  AdTools,     \* Active Directory tools
  Optional,    \* what else may be asked for before the copy
  Grub         \* boot loader packages

ASSUME RequestsAssumption ==
  /\ Live \subseteq Package /\ Unwanted \subseteq Live /\ Restricted \subseteq Package
  /\ Langpacks \cup AdTools \cup Optional \cup Grub \subseteq Package

VARIABLES
  installs,    \* apt-installed
  removals,    \* apt-removed: records of a package and whether recursively
  blacklist,   \* packages whose files are not copied
  unwanted,    \* Unwanted, or {} if the CD has no manifest
  restricted,  \* Restricted, or {} if that archive is allowed
  oem          \* UBIQUITY_OEM_USER_CONFIG: the target is the running system

requestVars == <<installs, removals, blacklist, unwanted, restricted, oem>>

RequestsInit ==
  /\ installs = {} /\ removals = {} /\ blacklist = {}
  /\ unwanted = {} /\ restricted = {} /\ oem \in BOOLEAN

(* query_recorded_installed: what is marked to be removed is not installed *)
(* first.                                                                  *)
RecordedInstalled == installs \ {r.package : r \in removals}

(* record_removed, query_recorded_removed *)
Removal(packages, recursive) == {[package |-> p, recursive |-> recursive] : p \in packages}
RecordedRemoved(records, recursive) ==
  {r.package : r \in {s \in records : s.recursive = recursive}}
=============================================================================
