------------------------- MODULE InstallationProofs -------------------------
(* What Installation.tla claims of the last phase's progress bar, of the    *)
(* copy, of the packages that are left out and asked for, and of the        *)
(* target's mounts, for every live filesystem, whatever was in the target,  *)
(* any packages and any number of plugins.                                  *)
EXTENDS Installation, FiniteSetTheorems, FunctionTheorems, SequenceTheorems,
        WellFoundedInduction, TLAPS

Listing == {"regular", "recursive", "restricted"}

(* How far the regions have got by the phase that is to come. *)
CountFits ==
  /\ phase \in {"python", "network"} => count = StartCount
  /\ phase = "language" => count = StartCount + 1
  /\ phase = "apt" => count = StartCount + 2
  /\ phase = "plugins" => count = StartCount + 3 + (Plugins - pluginsLeft)
  /\ phase = "hooks" => count = StartCount + 3 + Plugins
  /\ phase = "langpacks" => count = StartCount + 4 + Plugins
  /\ phase = "hardware" => count = StartCount + 9 + Plugins
  /\ phase = "extras" => count = StartCount + 14 + Plugins
  /\ phase \in {"oem", "directory"} => count = StartCount + 15 + Plugins
  /\ phase = "bootloader" => count = StartCount + 16 + Plugins
  /\ phase \in {"grub", "remove"} => count = StartCount + 17 + Plugins
  /\ phase \in Listing => count = StartCount + 21 + Plugins
  /\ phase \in {"copies", "logs"} => count = StartCount + 22 + Plugins

(* Plugins are run once each: none before their turn, none is left after it. *)
PluginsFit ==
  /\ pluginsLeft \in 0 .. Plugins
  /\ phase \in {"waiting", "python", "network", "language", "apt"} => pluginsLeft = Plugins

(* A bar besides the first is left by a conflict of language packs, or by   *)
(* the exception that ended the script.                                     *)
BarsFit ==
  /\ bars \in Int
  /\ phase \notin {"waiting", "cleanup", "done"} => bars = 1 \/ "conflict" \in trouble
  /\ phase = "cleanup" /\ failed = "none" => bars = 1 \/ "conflict" \in trouble
  /\ Installed => bars = 0 \/ "conflict" \in trouble

InBar ==
  /\ oem \in BOOLEAN
  /\ count \in Nat /\ position \in Nat
  /\ count < End /\ position <= End
  /\ phase \notin {"cleanup", "done"} => position <= count /\ failed = "none"
  /\ phase \in {"cleanup", "done"} /\ failed = "none" => position = End
  /\ PluginsFit /\ CountFits /\ BarsFit

LEMMA InBarAtFirst == Init => InBar
BY LastPhaseAssumption
   DEF Init, RequestsInit, LastInit, InBar, PluginsFit, CountFits, BarsFit, Listing, Installed,
       Ended, End, StartCount

(* The copy leaves the bar to the frontend, and oem as it is. *)
LEMMA CopyingKeepsOem == Copying => UNCHANGED <<oem, lastVars>>
<1> SUFFICES ASSUME Copying PROVE oem' = oem
  BY DEF Copying
<1> USE DEF requestVars
<1>1. CASE Prepare
  BY <1>1 DEF Prepare
<1>2. CASE MountSource \/ MountFails \/ StartCopy \/ UnmountSource \/ NothingToUnmount
  BY <1>2 DEF MountSource, MountFails, StartCopy, UnmountSource, NothingToUnmount
<1>3. CASE Skip \/ MakeRoom \/ Create \/ Mismatch \/ Retry \/ SetMetadata \/ CopyFails \/ FinishCopy
  BY <1>3 DEF Skip, MakeRoom, Create, Mismatch, Retry, SetMetadata, CopyFails, FinishCopy
<1>4. CASE KillUpdater \/ UpdaterMakesDir \/ UpdaterEnds
  BY <1>4 DEF KillUpdater, UpdaterMakesDir, UpdaterEnds
<1> QED BY <1>1, <1>2, <1>3, <1>4 DEF Copying, CopyNext

(* What a package operation, or a request for one, does to the bars. *)
LEMMA InstallBars ==
  ASSUME NEW packages, NEW end, DoInstall(packages, end)
  PROVE  /\ end = "ok" => bars' = bars
         /\ bars' = bars \/ bars' = bars + 1
         /\ trouble \subseteq trouble'
BY DEF DoInstall

LEMMA RemoveTrouble ==
  ASSUME NEW packages, NEW recursive, DoRemove(packages, recursive)
  PROVE  trouble \subseteq trouble'
BY DEF DoRemove

LEMMA RequestTrouble ==
  ASSUME NEW packages, Request(packages)
  PROVE  trouble \subseteq trouble' /\ UNCHANGED oem
BY DEF Request

-----------------------------------------------------------------------------
(* The steps up to the plugins, and those plugins. *)
LEMMA FirstStepsKeepInBar ==
  ASSUME InBar,
         ConfigurePython \/ ConfigureNetwork \/ RunLanguage \/ ConfigureApt \/ RunPlugin \/ NoPlugins
  PROVE  InBar'
<1> USE LastPhaseAssumption
    DEF InBar, PluginsFit, CountFits, BarsFit, Listing, Installed, Ended, End, StartCount,
        Goes, Raises, NextRegion, SameRegion, Kept, requestVars
<1>1. CASE ConfigurePython
  BY <1>1 DEF ConfigurePython
<1>2. CASE ConfigureNetwork \/ RunLanguage
  BY <1>2 DEF ConfigureNetwork, RunLanguage
<1>3. CASE ConfigureApt
  BY <1>3 DEF ConfigureApt
<1>4. CASE RunPlugin
  <2>1. trouble \subseteq trouble' /\ UNCHANGED oem
    BY <1>4, RequestTrouble DEF RunPlugin
  <2> QED BY <1>4, <2>1 DEF RunPlugin
<1>5. CASE NoPlugins
  BY <1>5 DEF NoPlugins
<1> QED BY <1>1, <1>2, <1>3, <1>4, <1>5

(* From the hooks to the directory: the packages that are installed. *)
LEMMA InstallStepsKeepInBar ==
  ASSUME InBar,
         TargetHooks \/ InstallLanguagePacks \/ ConfigureHardware \/ InstallExtras
           \/ InstallOemConfig \/ ConfigureDirectory
  PROVE  InBar'
<1> USE LastPhaseAssumption
    DEF InBar, PluginsFit, CountFits, BarsFit, Listing, Installed, Ended, End, StartCount,
        Goes, Raises, NextRegion, SameRegion, Kept, requestVars
<1>1. CASE TargetHooks
  BY <1>1 DEF TargetHooks
<1>2. CASE InstallLanguagePacks
  <2>1. CASE oem \/ DoInstall(Langpacks, "ok")
    BY <1>2, <2>1, InstallBars DEF InstallLanguagePacks
  <2>2. CASE bars' = bars + 1 /\ trouble' = trouble \cup {"conflict"}
    BY <1>2, <2>2 DEF InstallLanguagePacks
  <2> QED BY <1>2, <2>1, <2>2 DEF InstallLanguagePacks
<1>3. CASE ConfigureHardware
  <2>1. trouble \subseteq trouble' /\ UNCHANGED oem
    BY <1>3, RequestTrouble DEF ConfigureHardware
  <2>2. /\ phase = "hardware" /\ position' = count + 1 /\ count' = count + 5
        /\ Goes("extras") \/ Raises
        /\ UNCHANGED <<pluginsLeft, bars>>
    BY <1>3 DEF ConfigureHardware
  <2>3. CASE Goes("extras")
    BY <2>1, <2>2, <2>3
  <2>4. CASE Raises
    BY <2>1, <2>2, <2>4
  <2> QED BY <2>2, <2>3, <2>4
<1>4. CASE InstallExtras
  BY <1>4, InstallBars DEF InstallExtras
<1>5. CASE InstallOemConfig
  BY <1>5, InstallBars DEF InstallOemConfig
<1>6. CASE ConfigureDirectory
  <2>1. /\ phase = "directory" /\ NextRegion(1)
        /\ Goes("bootloader") \/ Raises
        /\ trouble \subseteq trouble' /\ UNCHANGED <<oem, pluginsLeft, bars>>
    BY <1>6 DEF ConfigureDirectory
  <2> QED BY <2>1
<1> QED BY <1>1, <1>2, <1>3, <1>4, <1>5, <1>6

(* From the recovery key to the last removal. *)
LEMMA RemoveStepsKeepInBar ==
  ASSUME InBar,
         RecoveryKey \/ ConfigureBootloader \/ ListRemovals \/ RemoveRegular \/ RemoveRecursively
  PROVE  InBar'
<1> USE DEF InBar, PluginsFit, CountFits, BarsFit, Listing, Installed, Ended, End, StartCount,
            Goes, Raises, NextRegion, SameRegion, requestVars
<1>1. CASE RecoveryKey
  BY <1>1, LastPhaseAssumption DEF RecoveryKey
<1>2. CASE ConfigureBootloader
  <2>1. trouble \subseteq trouble' /\ UNCHANGED oem
    BY <1>2, RequestTrouble DEF ConfigureBootloader
  <2>2. /\ phase = "grub" /\ UNCHANGED <<count, position, pluginsLeft, bars>>
        /\ Goes("remove") \/ Raises
    BY <1>2 DEF ConfigureBootloader
  <2> QED BY <2>1, <2>2, LastPhaseAssumption
<1>3. CASE ListRemovals
  <2>1. /\ phase = "remove" /\ NextRegion(4)
        /\ Goes("regular") \/ Goes("restricted")
        /\ UNCHANGED <<oem, pluginsLeft, bars, trouble>>
    BY <1>3 DEF ListRemovals
  <2> QED BY <1>3, <2>1, LastPhaseAssumption DEF ListRemovals
<1>4. CASE RemoveRegular
  BY <1>4, RemoveTrouble, LastPhaseAssumption, ZenonT(30) DEF RemoveRegular
<1>5. CASE RemoveRecursively
  BY <1>5, RemoveTrouble, LastPhaseAssumption DEF RemoveRecursively
<1> QED BY <1>1, <1>2, <1>3, <1>4, <1>5

LEMMA LastStepsKeepInBar ==
  ASSUME InBar, InstallRestricted \/ CopySettings \/ CopyLogs \/ Cleanup
  PROVE  InBar'
<1> USE LastPhaseAssumption
    DEF InBar, PluginsFit, CountFits, BarsFit, Listing, Installed, Ended, End, StartCount,
        Goes, Raises, NextRegion, SameRegion, Kept, requestVars
<1>1. CASE InstallRestricted
  BY <1>1, InstallBars DEF InstallRestricted
<1>2. CASE CopySettings
  BY <1>2 DEF CopySettings
<1>3. CASE CopyLogs
  BY <1>3 DEF CopyLogs
<1>4. CASE Cleanup
  BY <1>4 DEF Cleanup
<1> QED BY <1>1, <1>2, <1>3, <1>4

LEMMA InBarNext == ASSUME InBar, [Next]_installationVars PROVE InBar'
<1>1. CASE Copying
  BY <1>1, CopyingKeepsOem
     DEF InBar, PluginsFit, CountFits, BarsFit, Installed, Ended, End, StartCount, lastVars, barVars
<1>2. CASE Handover
  BY <1>2, LastPhaseAssumption
     DEF Handover, StartLastPhase, InBar, PluginsFit, CountFits, BarsFit, Listing, Installed,
         Ended, End, StartCount, requestVars
<1>3. CASE Finishing
  BY <1>3, FirstStepsKeepInBar, InstallStepsKeepInBar, RemoveStepsKeepInBar, LastStepsKeepInBar
     DEF Finishing, LastNext
<1>4. CASE UNCHANGED installationVars
  BY <1>4
     DEF installationVars, requestVars, lastVars, barVars,
         InBar, PluginsFit, CountFits, BarsFit, Installed, Ended, End, StartCount
<1> QED BY <1>1, <1>2, <1>3, <1>4 DEF Next

(* The regions of the one bar stay within it, however many plugins there    *)
(* are; and after an installation that went well it is full, and no other   *)
(* is left unless a conflict of language packs was passed over (next_region *)
(* and the regions of run).                                                 *)
THEOREM RegionsFit == Spec => []ProgressFits
<1>1. InBar => ProgressFits
  BY LastPhaseAssumption DEF InBar, BarsFit, ProgressFits, Installed, Ended, End, StartCount
<1> QED BY <1>1, InBarAtFirst, InBarNext, PTL DEF Spec

-----------------------------------------------------------------------------
(* Paths *)

Names == [n : STRING, bak : Nat]

LEMMA PathsAreSequences ==
  ASSUME NEW p \in Path
  PROVE  p \in Seq(Names) /\ Len(p) \in Nat \ {0} /\ \A i \in 1 .. Len(p) : p[i] \in Names
<1>1. Path = Seq(Names) \ {<<>>}
  BY DEF Path, Names
<1>2. p \in Seq(Names) /\ p # <<>>
  BY <1>1
<1>3. Len(p) \in Nat /\ Len(p) # 0
  BY <1>2, EmptySeq, LenProperties
<1>4. \A i \in 1 .. Len(p) : p[i] \in Names
  BY <1>2, ElementOfSeq
<1> QED BY <1>2, <1>3, <1>4

LEMMA SequencesArePaths ==
  ASSUME NEW p \in Seq(Names), Len(p) # 0
  PROVE  p \in Path
<1>1. Path = Seq(Names) \ {<<>>}
  BY DEF Path, Names
<1>2. p # <<>>
  BY EmptySeq
<1> QED BY <1>1, <1>2

LEMMA SamePath ==
  ASSUME NEW p \in Path, NEW q \in Path, Len(p) = Len(q), \A i \in 1 .. Len(p) : p[i] = q[i]
  PROVE  p = q
BY PathsAreSequences, SeqEqual

(* The way to p after n names. *)
LEMMA OnTheWay ==
  ASSUME NEW p \in Path, NEW n \in 1 .. Len(p)
  PROVE  /\ SubSeq(p, 1, n) \in Path /\ Len(SubSeq(p, 1, n)) = n
         /\ \A i \in 1 .. n : SubSeq(p, 1, n)[i] = p[i]
<1>1. \A i \in 1 .. n : p[i] \in Names
  BY PathsAreSequences
<1>2. /\ SubSeq(p, 1, n) \in Seq(Names) /\ Len(SubSeq(p, 1, n)) = IF 1 <= n THEN n - 1 + 1 ELSE 0
      /\ \A i \in 1 .. n - 1 + 1 : SubSeq(p, 1, n)[i] = p[1 + i - 1]
  <2>1. 1 \in Int /\ n \in Int
    BY PathsAreSequences
  <2> QED BY <1>1, <2>1, SubSeqProperties
<1>3. n \in Nat \ {0}
  BY PathsAreSequences
<1>4. Len(SubSeq(p, 1, n)) = n /\ \A i \in 1 .. n : SubSeq(p, 1, n)[i] = p[i]
  BY <1>2, <1>3
<1>5. SubSeq(p, 1, n) \in Path
  BY <1>2, <1>3, <1>4, SequencesArePaths
<1> QED BY <1>4, <1>5

(* p is on the way to q. *)
LEMMA BelowIs ==
  ASSUME NEW p \in Path, NEW q \in Path
  PROVE  Below(p, q) <=> Len(p) <= Len(q) /\ \A i \in 1 .. Len(p) : p[i] = q[i]
<1>1. Len(p) \in Nat \ {0} /\ Len(q) \in Nat \ {0}
  BY PathsAreSequences
<1>2. Len(p) \in 1 .. Len(p) /\ (Len(p) <= Len(q) => Len(p) \in 1 .. Len(q))
  BY <1>1
<1>3. SubSeq(p, 1, Len(p)) = p
  BY <1>2, OnTheWay, SamePath
<1>4. ASSUME Len(p) <= Len(q)
      PROVE  SubSeq(q, 1, Len(p)) = p <=> \A i \in 1 .. Len(p) : p[i] = q[i]
  <2>1. /\ SubSeq(q, 1, Len(p)) \in Path /\ Len(SubSeq(q, 1, Len(p))) = Len(p)
        /\ \A i \in 1 .. Len(p) : SubSeq(q, 1, Len(p))[i] = q[i]
    BY <1>2, <1>4, OnTheWay
  <2>2. (\A i \in 1 .. Len(p) : p[i] = q[i]) => SubSeq(q, 1, Len(p)) = p
    BY <2>1, SamePath
  <2> QED BY <2>1, <2>2
<1> QED BY <1>3, <1>4 DEF Below, IsPrefix

LEMMA WaysAreBelow ==
  ASSUME NEW p \in Path, NEW q \in Path
  PROVE  /\ Below(p, q) <=> Len(p) <= Len(q) /\ p = SubSeq(q, 1, Len(p))
         /\ \A n \in 1 .. Len(q) : Below(SubSeq(q, 1, n), q)
         /\ Below(p, p)
         /\ Below(p, q) /\ Below(q, p) => p = q
         /\ \A r \in Path : Below(p, q) /\ Below(q, r) => Below(p, r)
         /\ \A n \in 1 .. Len(q) : Below(p, SubSeq(q, 1, n)) => Below(p, q)
         /\ \A n \in 1 .. Len(q) : Below(p, q) /\ Len(p) <= n => Below(p, SubSeq(q, 1, n))
<1>1. Len(p) \in Nat \ {0} /\ Len(q) \in Nat \ {0}
  BY PathsAreSequences
<1>2. Below(p, q) <=> Len(p) <= Len(q) /\ p = SubSeq(q, 1, Len(p))
  <2>1. SubSeq(p, 1, Len(p)) = p
    <3>1. Len(p) \in 1 .. Len(p)
      BY <1>1
    <3>2. /\ SubSeq(p, 1, Len(p)) \in Path /\ Len(SubSeq(p, 1, Len(p))) = Len(p)
          /\ \A i \in 1 .. Len(p) : SubSeq(p, 1, Len(p))[i] = p[i]
      BY <3>1, OnTheWay
    <3> QED BY <3>2, SamePath
  <2> QED BY <2>1 DEF Below, IsPrefix
<1>3. ASSUME NEW n \in 1 .. Len(q)
      PROVE  Below(SubSeq(q, 1, n), q)
  <2>1. /\ SubSeq(q, 1, n) \in Path /\ Len(SubSeq(q, 1, n)) = n
        /\ \A i \in 1 .. n : SubSeq(q, 1, n)[i] = q[i]
    BY OnTheWay
  <2>2. n <= Len(q) /\ \A i \in 1 .. n : SubSeq(q, 1, n)[i] = q[i]
    BY <1>1, <2>1
  <2> QED BY <2>1, <2>2, BelowIs
<1>4. Below(p, p)
  BY <1>1, BelowIs
<1>5. Below(p, q) /\ Below(q, p) => p = q
  BY <1>1, BelowIs, SamePath
<1>6. \A r \in Path : Below(p, q) /\ Below(q, r) => Below(p, r)
  BY <1>1, BelowIs, PathsAreSequences
<1>7. ASSUME NEW n \in 1 .. Len(q)
      PROVE  /\ Below(p, SubSeq(q, 1, n)) => Below(p, q)
             /\ Below(p, q) /\ Len(p) <= n => Below(p, SubSeq(q, 1, n))
  <2>1. /\ SubSeq(q, 1, n) \in Path /\ Len(SubSeq(q, 1, n)) = n
        /\ \A i \in 1 .. n : SubSeq(q, 1, n)[i] = q[i]
    BY OnTheWay
  <2>2. Below(p, q) <=> Len(p) <= Len(q) /\ \A i \in 1 .. Len(p) : p[i] = q[i]
    BY BelowIs
  <2>3. Below(p, SubSeq(q, 1, n)) <=> Len(p) <= n /\ \A i \in 1 .. Len(p) : p[i] = SubSeq(q, 1, n)[i]
    BY <2>1, BelowIs
  <2> QED BY <1>1, <2>1, <2>2, <2>3
<1> QED BY <1>2, <1>3, <1>4, <1>5, <1>6, <1>7

-----------------------------------------------------------------------------
(* What is moved *)

Relocated(p, where, q) == where \o SubSeq(q, Len(p) + 1, Len(q))

LEMMA RelocatedIs ==
  ASSUME NEW p \in Path, NEW q \in Path, Below(p, q), NEW where \in Path
  PROVE  LET w == Relocated(p, where, q)
         IN  /\ w \in Path /\ Len(w) = Len(where) + (Len(q) - Len(p))
             /\ \A i \in 1 .. Len(where) : w[i] = where[i]
             /\ \A i \in Len(where) + 1 .. Len(w) : w[i] = q[(i - Len(where)) + Len(p)]
<1> DEFINE rest == SubSeq(q, Len(p) + 1, Len(q))
<1>1. /\ Len(p) \in Nat \ {0} /\ Len(q) \in Nat \ {0} /\ Len(where) \in Nat \ {0}
      /\ Len(p) <= Len(q) /\ where \in Seq(Names)
  BY PathsAreSequences, BelowIs
<1>2. \A i \in Len(p) + 1 .. Len(q) : q[i] \in Names
  BY <1>1, PathsAreSequences
<1>3. /\ rest \in Seq(Names) /\ Len(rest) = Len(q) - Len(p)
      /\ \A i \in 1 .. Len(rest) : rest[i] = q[i + Len(p)]
  <2>1. /\ rest \in Seq(Names) /\ Len(rest) = IF Len(p) + 1 <= Len(q) THEN Len(q) - (Len(p) + 1) + 1 ELSE 0
        /\ \A i \in 1 .. Len(q) - (Len(p) + 1) + 1 : rest[i] = q[(Len(p) + 1) + i - 1]
    BY <1>1, <1>2, SubSeqProperties
  <2> QED BY <1>1, <2>1
<1> HIDE DEF rest
<1>4. /\ where \o rest \in Seq(Names) /\ Len(where \o rest) = Len(where) + Len(rest)
      /\ \A i \in 1 .. Len(where) + Len(rest) :
           (where \o rest)[i] = IF i <= Len(where) THEN where[i] ELSE rest[i - Len(where)]
  <2>1. Len(where \o rest) = Len(where) + Len(rest)
    BY <1>1, <1>3, ConcatProperties
  <2>2. \A i \in 1 .. Len(where) + Len(rest) :
           (where \o rest)[i] = IF i <= Len(where) THEN where[i] ELSE rest[i - Len(where)]
    BY <1>1, <1>3, ConcatProperties
  <2> QED BY <1>1, <1>3, <2>1, <2>2, ConcatProperties
<1>5. where \o rest \in Path
  <2>1. Len(where \o rest) # 0
    BY <1>1, <1>3, <1>4
  <2> QED BY <1>4, <2>1, SequencesArePaths
<1>6. Relocated(p, where, q) = where \o rest
  BY DEF Relocated, rest
<1>7. ASSUME NEW i \in 1 .. Len(where) PROVE (where \o rest)[i] = where[i]
  BY <1>1, <1>3, <1>4
<1>8. ASSUME NEW i \in Len(where) + 1 .. Len(where \o rest)
      PROVE  (where \o rest)[i] = q[(i - Len(where)) + Len(p)]
  <2>1. /\ i \in 1 .. Len(where) + Len(rest) /\ ~(i <= Len(where))
        /\ i - Len(where) \in 1 .. Len(rest)
    BY <1>1, <1>3, <1>4
  <2>2. (where \o rest)[i] = rest[i - Len(where)]
    BY <1>4, <2>1
  <2> QED BY <1>3, <2>1, <2>2
<1> QED BY <1>1, <1>3, <1>4, <1>5, <1>6, <1>7, <1>8

LEMMA RelocatedRelates ==
  ASSUME NEW p \in Path, NEW q \in Path, Below(p, q), NEW where \in Path
  PROVE  LET w == Relocated(p, where, q)
         IN  /\ Below(where, w)
             /\ p = q => w = where
             /\ p # q => w[Len(w)] = q[Len(q)]
             /\ \A r \in Path : Below(p, r) /\ Relocated(p, where, r) = w => r = q
             /\ \A n \in Len(where) .. Len(w) :
                  LET m == (n - Len(where)) + Len(p)
                  IN  m \in Len(p) .. Len(q) /\ SubSeq(w, 1, n) = Relocated(p, where, SubSeq(q, 1, m))
<1> DEFINE w == Relocated(p, where, q)
<1>1. /\ Len(p) \in Nat \ {0} /\ Len(q) \in Nat \ {0} /\ Len(where) \in Nat \ {0}
      /\ Len(p) <= Len(q) /\ \A i \in 1 .. Len(p) : p[i] = q[i]
  BY PathsAreSequences, BelowIs
<1>2. /\ w \in Path /\ Len(w) = Len(where) + (Len(q) - Len(p))
      /\ \A i \in 1 .. Len(where) : w[i] = where[i]
      /\ \A i \in Len(where) + 1 .. Len(w) : w[i] = q[(i - Len(where)) + Len(p)]
  BY RelocatedIs
<1>3. Below(where, w)
  BY <1>1, <1>2, BelowIs
<1>4. p = q => w = where
  BY <1>1, <1>2, SamePath
<1>5. p # q => w[Len(w)] = q[Len(q)]
  <2>1. p # q => Len(q) > Len(p)
    BY <1>1, SamePath
  <2> QED BY <1>1, <1>2, <2>1
<1>6. ASSUME NEW r \in Path, Below(p, r), Relocated(p, where, r) = w
      PROVE  r = q
  <2>1. /\ Len(r) \in Nat \ {0} /\ Len(p) <= Len(r) /\ \A i \in 1 .. Len(p) : p[i] = r[i]
    BY <1>6, PathsAreSequences, BelowIs
  <2>2. /\ Len(w) = Len(where) + (Len(r) - Len(p))
        /\ \A i \in Len(where) + 1 .. Len(w) : w[i] = r[(i - Len(where)) + Len(p)]
    BY <1>6, RelocatedIs
  <2>3. Len(r) = Len(q)
    BY <1>1, <1>2, <2>1, <2>2
  <2>4. ASSUME NEW i \in 1 .. Len(q) PROVE r[i] = q[i]
    <3>1. CASE i <= Len(p)
      BY <1>1, <2>1, <3>1
    <3>2. CASE i > Len(p)
      <4>1. (i - Len(p)) + Len(where) \in Len(where) + 1 .. Len(w)
        BY <1>1, <1>2, <3>2
      <4>2. (((i - Len(p)) + Len(where)) - Len(where)) + Len(p) = i
        BY <1>1
      <4> QED BY <1>2, <2>2, <4>1, <4>2
    <3> QED BY <1>1, <3>1, <3>2
  <2> QED BY <1>1, <2>3, <2>4, SamePath
<1>7. ASSUME NEW n \in Len(where) .. Len(w)
      PROVE  LET m == (n - Len(where)) + Len(p)
             IN  m \in Len(p) .. Len(q) /\ SubSeq(w, 1, n) = Relocated(p, where, SubSeq(q, 1, m))
  <2> DEFINE m == (n - Len(where)) + Len(p)
  <2>1. m \in Len(p) .. Len(q) /\ m \in 1 .. Len(q) /\ n \in 1 .. Len(w)
    BY <1>1, <1>2
  <2>2. /\ SubSeq(q, 1, m) \in Path /\ Len(SubSeq(q, 1, m)) = m
        /\ \A i \in 1 .. m : SubSeq(q, 1, m)[i] = q[i]
    BY <2>1, OnTheWay
  <2>3. Below(p, SubSeq(q, 1, m))
    BY <2>1, WaysAreBelow
  <2> DEFINE v == Relocated(p, where, SubSeq(q, 1, m))
  <2>4. /\ v \in Path /\ Len(v) = Len(where) + (m - Len(p))
        /\ \A i \in 1 .. Len(where) : v[i] = where[i]
        /\ \A i \in Len(where) + 1 .. Len(v) : v[i] = SubSeq(q, 1, m)[(i - Len(where)) + Len(p)]
    <3>1. PICK x : x = SubSeq(q, 1, m)
      OBVIOUS
    <3>2. x \in Path /\ Len(x) = m /\ Below(p, x)
      BY <2>2, <2>3, <3>1
    <3>3. LET y == Relocated(p, where, x)
          IN  /\ y \in Path /\ Len(y) = Len(where) + (Len(x) - Len(p))
              /\ \A i \in 1 .. Len(where) : y[i] = where[i]
              /\ \A i \in Len(where) + 1 .. Len(y) : y[i] = x[(i - Len(where)) + Len(p)]
      BY <3>2, RelocatedIs
    <3> QED BY <3>1, <3>2, <3>3
  <2>5. Len(v) = n
    BY <1>1, <2>4
  <2>6. /\ SubSeq(w, 1, n) \in Path /\ Len(SubSeq(w, 1, n)) = n
        /\ \A i \in 1 .. n : SubSeq(w, 1, n)[i] = w[i]
    BY <1>2, <2>1, OnTheWay
  <2> HIDE DEF v, w, m
  <2>7. ASSUME NEW i \in 1 .. n PROVE v[i] = w[i]
    <3>1. CASE i <= Len(where)
      BY <1>1, <1>2, <2>4, <3>1
    <3>2. CASE i > Len(where)
      <4>1. (i - Len(where)) + Len(p) \in 1 .. m
        BY <1>1, <2>1, <3>2 DEF m
      <4>2. i \in Len(where) + 1 .. Len(v) /\ i \in Len(where) + 1 .. Len(w)
        BY <1>1, <2>1, <2>5, <3>2
      <4>3. v[i] = SubSeq(q, 1, m)[(i - Len(where)) + Len(p)] /\ w[i] = q[(i - Len(where)) + Len(p)]
        BY <1>2, <2>4, <4>2 DEF w, v
      <4> QED BY <2>2, <4>1, <4>3
    <3> QED BY <1>1, <2>1, <3>1, <3>2
  <2>8. SubSeq(w, 1, n) = v
    BY <2>4, <2>5, <2>6, <2>7, SamePath
  <2> QED BY <2>1, <2>8 DEF v, w, m
<1> QED BY <1>3, <1>4, <1>5, <1>6, <1>7

LEMMA MovedIs ==
  ASSUME NEW t, DOMAIN t \subseteq Path, NEW p \in Path, NEW where \in Path,
         \A q \in DOMAIN t : ~Below(where, q)
  PROVE  LET M    == Moved(t, p, where)
             tree == {q \in DOMAIN t : Below(p, q)}
         IN  /\ DOMAIN M = (DOMAIN t \ tree) \cup {Relocated(p, where, r) : r \in tree}
             /\ \A q \in DOMAIN t \ tree : M[q] = t[q]
             /\ \A q \in tree : M[Relocated(p, where, q)] = t[q]
<1> DEFINE M    == Moved(t, p, where)
           tree == {q \in DOMAIN t : Below(p, q)}
           D    == (DOMAIN t \ tree) \cup {Relocated(p, where, r) : r \in tree}
<1>1. M = [q \in D |-> IF \E r \in tree : Relocated(p, where, r) = q
                         THEN t[CHOOSE r \in tree : Relocated(p, where, r) = q] ELSE t[q]]
  BY DEF Moved, Relocated
<1>2. DOMAIN M = D
  BY <1>1
<1>3. ASSUME NEW q \in DOMAIN t \ tree PROVE M[q] = t[q]
  <2>1. \A r \in tree : Relocated(p, where, r) # q
    <3> SUFFICES ASSUME NEW r \in tree, Relocated(p, where, r) = q PROVE FALSE
      OBVIOUS
    <3>1. Below(where, Relocated(p, where, r))
      BY RelocatedRelates
    <3> QED BY <3>1
  <2> QED BY <1>1, <2>1
<1>4. ASSUME NEW q \in tree PROVE M[Relocated(p, where, q)] = t[q]
  <2> DEFINE w == Relocated(p, where, q)
  <2>1. \A r \in tree : Relocated(p, where, r) = w => r = q
    BY RelocatedRelates
  <2>2. (CHOOSE r \in tree : Relocated(p, where, r) = w) = q
    BY <2>1
  <2>3. w \in D /\ \E r \in tree : Relocated(p, where, r) = w
    OBVIOUS
  <2> QED BY <1>1, <2>2, <2>3
<1> QED BY <1>2, <1>3, <1>4

LEMMA TreeWays ==
  ASSUME NEW t, IsTree(t), NEW q \in DOMAIN t
  PROVE  /\ q \in Path
         /\ \A p \in Path : Below(p, q) /\ p # q => p \in DOMAIN t /\ t[p] = Dir
<1>1. q \in Path
  BY DEF IsTree
<1>2. ASSUME NEW p \in Path, Below(p, q), p # q
      PROVE  p \in DOMAIN t /\ t[p] = Dir
  <2>1. Len(p) <= Len(q) /\ p = SubSeq(q, 1, Len(p)) /\ \A i \in 1 .. Len(p) : p[i] = q[i]
    BY <1>1, <1>2, WaysAreBelow, BelowIs
  <2>2. Len(p) \in 1 .. Len(q) - 1
    BY <1>1, <1>2, <2>1, PathsAreSequences, SamePath
  <2> QED BY <2>1, <2>2 DEF IsTree
<1> QED BY <1>1, <1>2

(* A directory is moved to a place that is free and has directories on its *)
(* way.                                                                    *)
LEMMA MovedTree ==
  ASSUME NEW t, IsTree(t), NEW p \in DOMAIN t, t[p] = Dir, NEW where \in Path, where \notin DOMAIN t,
         ~Below(p, where),
         \A n \in 1 .. Len(where) - 1 : SubSeq(where, 1, n) \in DOMAIN t /\ t[SubSeq(where, 1, n)] = Dir
  PROVE  /\ IsTree(Moved(t, p, where))
         /\ \A q \in DOMAIN t : ~Below(where, q)
<1> DEFINE M    == Moved(t, p, where)
           tree == {q \in DOMAIN t : Below(p, q)}
           To(q) == Relocated(p, where, q)
<1>1. DOMAIN t \subseteq Path /\ p \in Path /\ IsFiniteSet(DOMAIN t)
  BY DEF IsTree
<1>2. \A q \in DOMAIN t : ~Below(where, q)
  BY TreeWays
<1>3. /\ DOMAIN M = (DOMAIN t \ tree) \cup {To(r) : r \in tree}
      /\ \A q \in DOMAIN t \ tree : M[q] = t[q]
      /\ \A q \in tree : M[To(q)] = t[q]
  BY <1>1, <1>2, MovedIs
<1>4. tree \subseteq Path /\ p \in tree
  BY <1>1, WaysAreBelow
<1>5. \A q \in tree : To(q) \in Path
  BY <1>1, <1>4, RelocatedIs
<1> HIDE DEF M, To
<1>6. DOMAIN M \subseteq Path
  BY <1>1, <1>3, <1>5
<1>7. IsFiniteSet(DOMAIN M)
  <2> DEFINE f == [r \in tree |-> To(r)]
             T == {To(r) : r \in tree}
  <2>1. IsFiniteSet(tree) /\ IsFiniteSet(DOMAIN t \ tree)
    BY <1>1, FS_Subset
  <2>2. f \in Surjection(tree, T)
    BY Fun_IsSurj
  <2>3. IsFiniteSet(T)
    BY <2>1, <2>2, FS_Surjection
  <2> QED BY <1>3, <2>1, <2>3, FS_Union
<1>8. \A q \in DOMAIN M : M[q].kind = "dir" => M[q] = Dir
  BY <1>3 DEF IsTree
<1>9. ASSUME NEW q \in DOMAIN t \ tree, NEW n \in 1 .. Len(q) - 1
      PROVE  SubSeq(q, 1, n) \in DOMAIN M /\ M[SubSeq(q, 1, n)] = Dir
  <2>1. SubSeq(q, 1, n) \in DOMAIN t /\ t[SubSeq(q, 1, n)] = Dir
    BY DEF IsTree
  <2>2. n \in 1 .. Len(q)
    BY <1>1, PathsAreSequences
  <2>3. SubSeq(q, 1, n) \notin tree
    BY <1>1, <2>2, WaysAreBelow
  <2> QED BY <1>3, <2>1, <2>3
<1>10. ASSUME NEW r \in tree, NEW n \in 1 .. Len(To(r)) - 1
       PROVE  SubSeq(To(r), 1, n) \in DOMAIN M /\ M[SubSeq(To(r), 1, n)] = Dir
  <2>1. /\ Len(where) \in Nat \ {0} /\ Len(p) \in Nat \ {0} /\ Len(r) \in Nat \ {0}
        /\ To(r) \in Path /\ Len(To(r)) = Len(where) + (Len(r) - Len(p))
        /\ Len(p) <= Len(r)
    BY <1>1, <1>4, PathsAreSequences, RelocatedIs, BelowIs DEF To
  <2>2. CASE n < Len(where)
    <3>1. n \in 1 .. Len(where) - 1 /\ n \in 1 .. Len(where) /\ n \in 1 .. Len(To(r))
      BY <2>1, <2>2
    <3>2. SubSeq(To(r), 1, n) = SubSeq(where, 1, n)
      <4>1. \A i \in 1 .. Len(where) : To(r)[i] = where[i]
        BY <1>1, <1>4, RelocatedIs DEF To
      <4>2. /\ SubSeq(To(r), 1, n) \in Path /\ Len(SubSeq(To(r), 1, n)) = n
            /\ \A i \in 1 .. n : SubSeq(To(r), 1, n)[i] = To(r)[i]
        BY <2>1, <3>1, OnTheWay
      <4>3. /\ SubSeq(where, 1, n) \in Path /\ Len(SubSeq(where, 1, n)) = n
            /\ \A i \in 1 .. n : SubSeq(where, 1, n)[i] = where[i]
        BY <3>1, OnTheWay
      <4> QED BY <2>1, <3>1, <4>1, <4>2, <4>3, SamePath
    <3>3. SubSeq(where, 1, n) \notin tree
      BY <1>1, <3>1, WaysAreBelow
    <3> QED BY <1>3, <3>1, <3>2, <3>3
  <2>3. CASE n >= Len(where)
    <3> DEFINE m == (n - Len(where)) + Len(p)
    <3>1. n \in Len(where) .. Len(To(r))
      BY <2>1, <2>3
    <3>2. m \in Len(p) .. Len(r) /\ SubSeq(To(r), 1, n) = To(SubSeq(r, 1, m))
      BY <1>1, <1>4, <3>1, RelocatedRelates DEF To
    <3>3. m \in 1 .. Len(r) - 1 /\ m \in 1 .. Len(r)
      BY <2>1, <2>3
    <3>4. SubSeq(r, 1, m) \in DOMAIN t /\ t[SubSeq(r, 1, m)] = Dir
      BY <3>3 DEF IsTree
    <3>5. Below(p, SubSeq(r, 1, m))
      <4>1. r \in Path /\ Below(p, r) /\ Len(p) <= m
        BY <1>4, <2>1, <2>3
      <4> HIDE DEF m
      <4> QED BY <1>1, <3>3, <4>1, WaysAreBelow
    <3> QED BY <1>3, <3>2, <3>4, <3>5
  <2> QED BY <2>1, <2>2, <2>3
<1> QED BY <1>2, <1>3, <1>6, <1>7, <1>8, <1>9, <1>10 DEF IsTree, M

LEMMA LeastNumber ==
  ASSUME NEW S \in SUBSET Nat, S # {}
  PROVE  \E x \in S : \A y \in S : x <= y
<1>1. IsWellFoundedOn(OpToRel(<, Nat), Nat)
  BY NatLessThanWellFounded
<1>2. PICK x \in S : \A y \in S : ~(<<y, x>> \in OpToRel(<, Nat))
  BY <1>1, WFMin, Zenon
<1>3. \A y \in S : ~(y < x)
  BY <1>2 DEF OpToRel
<1> QED BY <1>3

LEMMA BakIs ==
  ASSUME NEW p \in Path, NEW n \in Nat
  PROVE  /\ Bak(p, n) \in Path /\ Len(Bak(p, n)) = Len(p)
         /\ \A i \in 1 .. Len(p) - 1 : Bak(p, n)[i] = p[i]
         /\ Bak(p, n)[Len(p)].n = p[Len(p)].n
         /\ Bak(p, n)[Len(p)].bak = p[Len(p)].bak + n
         /\ p[Len(p)].bak \in Nat
<1> DEFINE k    == Len(p)
           name == [p[k] EXCEPT !.bak = @ + n]
<1>1. p \in Seq(Names) /\ k \in 1 .. Len(p) /\ k \in Nat \ {0} /\ p[k] \in Names
  BY PathsAreSequences
<1>2. /\ name \in Names /\ name.n = p[k].n /\ name.bak = p[k].bak + n /\ p[k].bak \in Nat
  BY <1>1 DEF Names
<1> HIDE DEF name, k
<1>3. Bak(p, n) = [p EXCEPT ![k] = name]
  BY DEF Bak, name, k
<1>4. [p EXCEPT ![k] = name] \in Seq(Names) /\ Len([p EXCEPT ![k] = name]) = Len(p)
      /\ \A i \in 1 .. Len(p) : [p EXCEPT ![k] = name][i] = IF i = k THEN name ELSE p[i]
  BY <1>1, <1>2, ExceptSeq
<1>5. Bak(p, n) \in Path
  BY <1>1, <1>3, <1>4, SequencesArePaths DEF k
<1> QED BY <1>1, <1>2, <1>3, <1>4, <1>5 DEF k

LEMMA FreeBackup ==
  ASSUME NEW t, IsTree(t), NEW p \in Path
  PROVE  \E n \in 1 .. Cardinality(DOMAIN t) + 1 :
           Bak(p, n) \notin DOMAIN t /\ \A k \in 1 .. n - 1 : Bak(p, k) \in DOMAIN t
<1> DEFINE C == Cardinality(DOMAIN t)
           S == {n \in 1 .. C + 1 : Bak(p, n) \notin DOMAIN t}
<1>1. IsFiniteSet(DOMAIN t) /\ C \in Nat
  BY FS_CardinalityType DEF IsTree
<1> HIDE DEF C
<1>2. S # {}
  <2> SUFFICES ASSUME \A n \in 1 .. C + 1 : Bak(p, n) \in DOMAIN t PROVE FALSE
    OBVIOUS
  <2> DEFINE f == [n \in 1 .. C + 1 |-> Bak(p, n)]
  <2>1. f \in [1 .. C + 1 -> DOMAIN t]
    OBVIOUS
  <2>2. IsFiniteSet(1 .. C + 1) /\ Cardinality(1 .. C + 1) = C + 1
    BY <1>1, FS_Interval
  <2>3. C < Cardinality(1 .. C + 1)
    BY <1>1, <2>2
  <2>4. \E x, y \in 1 .. C + 1 : x # y /\ f[x] = f[y]
    <3> HIDE DEF f
    <3> QED BY <1>1, <2>1, <2>2, <2>3, FS_PigeonHole DEF C
  <2>5. PICK x \in 1 .. C + 1, y \in 1 .. C + 1 : x # y /\ Bak(p, x) = Bak(p, y)
    BY <2>4
  <2>6. x \in Nat /\ y \in Nat /\ p[Len(p)].bak \in Nat
    BY <1>1, <2>5, BakIs
  <2>7. p[Len(p)].bak + x = p[Len(p)].bak + y
    BY <2>5, <2>6, BakIs
  <2> QED BY <2>5, <2>6, <2>7
<1>3. PICK n \in S : \A m \in S : n <= m
  <2>1. S \subseteq Nat
    BY <1>1
  <2> QED BY <1>2, <2>1, LeastNumber
<1>4. \A k \in 1 .. n - 1 : Bak(p, k) \in DOMAIN t
  <2> SUFFICES ASSUME NEW k \in 1 .. n - 1, Bak(p, k) \notin DOMAIN t PROVE FALSE
    OBVIOUS
  <2>1. k \in S /\ k < n
    BY <1>1, <1>3
  <2> QED BY <1>1, <1>3, <2>1
<1> QED BY <1>3, <1>4 DEF C

LEMMA MovesAside ==
  ASSUME NEW t, IsTree(t), NEW p \in DOMAIN t, t[p] = Dir
  PROVE  \E where \in Path :
           /\ MoveAside(t, p) = Moved(t, p, where)
           /\ where \notin DOMAIN t /\ ~Below(p, where)
           /\ \A n \in 1 .. Len(where) - 1 :
                SubSeq(where, 1, n) \in DOMAIN t /\ t[SubSeq(where, 1, n)] = Dir
<1> DEFINE Free(n) == Bak(p, n) \notin DOMAIN t /\ \A k \in 1 .. n - 1 : Bak(p, k) \in DOMAIN t
           free    == CHOOSE n \in 1 .. Cardinality(DOMAIN t) + 1 : Free(n)
           where   == Bak(p, free)
<1>1. p \in Path
  BY DEF IsTree
<1>2. free \in 1 .. Cardinality(DOMAIN t) + 1 /\ Free(free)
  BY <1>1, FreeBackup
<1>3. free \in Nat \ {0}
  BY <1>2, FS_CardinalityType DEF IsTree
<1>4. MoveAside(t, p) = Moved(t, p, where)
  BY DEF MoveAside
<1> HIDE DEF free
<1>5. /\ where \in Path /\ Len(where) = Len(p) /\ Len(p) \in Nat \ {0}
      /\ \A i \in 1 .. Len(p) - 1 : where[i] = p[i]
      /\ where[Len(p)] # p[Len(p)]
  <2>1. where[Len(p)].bak = p[Len(p)].bak + free /\ p[Len(p)].bak \in Nat
    BY <1>1, <1>3, BakIs
  <2> QED BY <1>1, <1>3, <2>1, BakIs, PathsAreSequences
<1> HIDE DEF where
<1>6. ~Below(p, where)
  BY <1>1, <1>5, BelowIs
<1>7. ASSUME NEW n \in 1 .. Len(where) - 1
      PROVE  SubSeq(where, 1, n) \in DOMAIN t /\ t[SubSeq(where, 1, n)] = Dir
  <2>1. n \in 1 .. Len(p) - 1 /\ n \in 1 .. Len(p) /\ n \in 1 .. Len(where)
    BY <1>5
  <2>2. /\ SubSeq(where, 1, n) \in Path /\ Len(SubSeq(where, 1, n)) = n
        /\ \A i \in 1 .. n : SubSeq(where, 1, n)[i] = where[i]
    BY <1>5, <2>1, OnTheWay
  <2>3. /\ SubSeq(p, 1, n) \in Path /\ Len(SubSeq(p, 1, n)) = n
        /\ \A i \in 1 .. n : SubSeq(p, 1, n)[i] = p[i]
    BY <1>1, <2>1, OnTheWay
  <2>4. \A i \in 1 .. n : SubSeq(where, 1, n)[i] = SubSeq(p, 1, n)[i]
    BY <1>5, <2>1, <2>2, <2>3
  <2>5. SubSeq(where, 1, n) = SubSeq(p, 1, n)
    BY <2>2, <2>3, <2>4, SamePath
  <2>6. SubSeq(p, 1, n) \in DOMAIN t /\ t[SubSeq(p, 1, n)] = Dir
    BY <2>1 DEF IsTree
  <2> QED BY <2>5, <2>6
<1>8. where \notin DOMAIN t
  BY <1>2 DEF where
<1> QED BY <1>4, <1>5, <1>6, <1>7, <1>8

(* What remove_target may do: make p free, with all else where it was, or, *)
(* below p, under the same name somewhere.                                 *)
Keeps(t, p, u) ==
  /\ IsTree(u)
  /\ \A c \in DOMAIN t : ~Below(p, c) => c \in DOMAIN u /\ u[c] = t[c]
  /\ \A c \in DOMAIN t : Below(p, c) /\ c # p =>
       \E q \in DOMAIN u : u[q] = t[c] /\ Last(q) = Last(c)

LEMMA MovedKeeps ==
  ASSUME NEW t, IsTree(t), NEW p \in DOMAIN t, t[p] = Dir, NEW where \in Path, where \notin DOMAIN t,
         ~Below(p, where),
         \A n \in 1 .. Len(where) - 1 : SubSeq(where, 1, n) \in DOMAIN t /\ t[SubSeq(where, 1, n)] = Dir
  PROVE  LET M == Moved(t, p, where)
         IN  Keeps(t, p, M) /\ p \notin DOMAIN M /\ where \in DOMAIN M /\ M[where] = Dir
<1> DEFINE M    == Moved(t, p, where)
           tree == {q \in DOMAIN t : Below(p, q)}
<1>1. DOMAIN t \subseteq Path /\ p \in Path
  BY DEF IsTree
<1>2. IsTree(M) /\ \A q \in DOMAIN t : ~Below(where, q)
  BY MovedTree
<1>3. /\ DOMAIN M = (DOMAIN t \ tree) \cup {Relocated(p, where, r) : r \in tree}
      /\ \A q \in DOMAIN t \ tree : M[q] = t[q]
      /\ \A q \in tree : M[Relocated(p, where, q)] = t[q]
  BY <1>1, <1>2, MovedIs
<1> HIDE DEF M
<1>4. p \in tree /\ Relocated(p, where, p) = where
  BY <1>1, WaysAreBelow, RelocatedRelates
<1>5. p \notin DOMAIN M
  <2>1. \A r \in tree : Relocated(p, where, r) # p
    <3> SUFFICES ASSUME NEW r \in tree, Relocated(p, where, r) = p PROVE FALSE
      OBVIOUS
    <3>1. Below(where, p)
      BY <1>1, RelocatedRelates
    <3> QED BY <1>2, <3>1
  <2> QED BY <1>3, <1>4, <2>1
<1>6. ASSUME NEW c \in tree, c # p
      PROVE  \E q \in DOMAIN M : M[q] = t[c] /\ Last(q) = Last(c)
  <2> DEFINE w == Relocated(p, where, c)
  <2>1. w[Len(w)] = c[Len(c)]
    BY <1>1, <1>6, RelocatedRelates
  <2>2. w \in DOMAIN M /\ M[w] = t[c]
    BY <1>3
  <2> QED BY <2>1, <2>2 DEF Last
<1>7. \A c \in DOMAIN t : ~Below(p, c) => c \in DOMAIN M /\ M[c] = t[c]
  BY <1>3
<1>8. where \in DOMAIN M /\ M[where] = Dir
  BY <1>3, <1>4
<1>9. Keeps(t, p, M)
  BY <1>2, <1>6, <1>7 DEF Keeps
<1> QED BY <1>5, <1>8, <1>9 DEF M

LEMMA WithoutOne ==
  ASSUME NEW t, IsTree(t), NEW p \in DOMAIN t, t[p].kind # "dir" \/ Children(t, p) = {}
  PROVE  LET u == Without(t, {p})
         IN  /\ Keeps(t, p, u) /\ DOMAIN u = DOMAIN t \ {p}
             /\ \A c \in DOMAIN u : u[c] = t[c]
<1> DEFINE u == Without(t, {p})
<1>1. DOMAIN u = DOMAIN t \ {p} /\ \A c \in DOMAIN u : u[c] = t[c]
  BY DEF Without
<1> HIDE DEF u
<1>2. DOMAIN t \subseteq Path /\ IsFiniteSet(DOMAIN t) /\ Dir.kind = "dir"
  BY DEF IsTree, Dir, Node
<1>3. \A c \in DOMAIN t : Below(p, c) => c = p
  <2> SUFFICES ASSUME NEW c \in DOMAIN t, Below(p, c), c # p PROVE FALSE
    OBVIOUS
  <2>1. c \in Children(t, p)
    BY DEF Children
  <2>2. t[p] = Dir
    BY <1>2, TreeWays
  <2>3. t[p].kind = "dir"
    BY <1>2, <2>2
  <2> QED BY <2>1, <2>3
<1>4. p \in Path /\ Below(p, p)
  BY <1>2, WaysAreBelow
<1>5. IsFiniteSet(DOMAIN u)
  BY <1>1, <1>2, FS_Subset
<1>6. ASSUME NEW c \in DOMAIN u, NEW n \in 1 .. Len(c) - 1
      PROVE  SubSeq(c, 1, n) \in DOMAIN u /\ u[SubSeq(c, 1, n)] = Dir
  <2>1. SubSeq(c, 1, n) \in DOMAIN t /\ t[SubSeq(c, 1, n)] = Dir
    BY <1>1 DEF IsTree
  <2>2. c \in Path /\ n \in 1 .. Len(c)
    BY <1>1, <1>2, PathsAreSequences
  <2>3. SubSeq(c, 1, n) # p
    <3>1. Below(SubSeq(c, 1, n), c)
      BY <2>2, WaysAreBelow
    <3> QED BY <1>1, <1>3, <3>1
  <2> QED BY <1>1, <2>1, <2>3
<1>7. \A c \in DOMAIN u : u[c].kind = "dir" => u[c] = Dir
  BY <1>1 DEF IsTree
<1>8. IsTree(u)
  BY <1>1, <1>2, <1>5, <1>6, <1>7 DEF IsTree
<1> QED BY <1>1, <1>3, <1>4, <1>8 DEF Keeps, u

Ways(p) == {SubSeq(p, 1, n) : n \in 1 .. Len(p)}

DirsMade(t, p, u) ==
  /\ IsTree(u) /\ DOMAIN u = DOMAIN t \cup Ways(p)
  /\ \A c \in DOMAIN t : u[c] = t[c]
  /\ \A c \in DOMAIN u \ DOMAIN t : u[c] = Dir
  /\ \A n \in 1 .. Len(p) : u[SubSeq(p, 1, n)] = Dir

(* os.makedirs, where only directories are on the way. *)
LEMMA WithDirsIs ==
  ASSUME NEW t, IsTree(t), NEW p \in Path \cup {<<>>}, Clear(t, p)
  PROVE  DirsMade(t, p, WithDirs(t, p))
<1> DEFINE u == WithDirs(t, p)
           W == Ways(p)
<1>1. /\ DOMAIN u = DOMAIN t \cup W /\ \A c \in DOMAIN t : u[c] = t[c]
      /\ \A c \in DOMAIN u \ DOMAIN t : u[c] = Dir
  BY DEF WithDirs, Ways
<1> HIDE DEF u
<1>2. DOMAIN t \subseteq Path /\ IsFiniteSet(DOMAIN t)
  BY DEF IsTree
<1>3. Len(p) \in Nat /\ (Len(p) > 0 => p \in Path)
  BY PathsAreSequences, EmptySeq
<1>4. W \subseteq Path
  <2> SUFFICES ASSUME NEW n \in 1 .. Len(p) PROVE SubSeq(p, 1, n) \in Path
    BY DEF Ways
  <2>1. p \in Path
    BY <1>3
  <2> QED BY <2>1, OnTheWay
<1>5. \A n \in 1 .. Len(p) : u[SubSeq(p, 1, n)] = Dir
  BY <1>1 DEF IsTree, Clear, Ways
<1>6. IsFiniteSet(DOMAIN u)
  <2> DEFINE f == [n \in 1 .. Len(p) |-> SubSeq(p, 1, n)]
  <2>1. IsFiniteSet(1 .. Len(p))
    BY <1>3, FS_Interval
  <2>2. f \in Surjection(1 .. Len(p), W)
    BY Fun_IsSurj DEF Ways
  <2>3. IsFiniteSet(W)
    BY <2>1, <2>2, FS_Surjection
  <2> HIDE DEF f, W
  <2>4. IsFiniteSet(DOMAIN t \cup W)
    BY <1>2, <2>3, FS_Union
  <2> QED BY <1>1, <2>4
<1>7. \A c \in DOMAIN u : u[c].kind = "dir" => u[c] = Dir
  BY <1>1 DEF IsTree
<1>8. ASSUME NEW c \in DOMAIN u, NEW n \in 1 .. Len(c) - 1
      PROVE  SubSeq(c, 1, n) \in DOMAIN u /\ u[SubSeq(c, 1, n)] = Dir
  <2>1. CASE c \in DOMAIN t
    BY <1>1, <2>1 DEF IsTree
  <2>2. CASE c \notin DOMAIN t
    <3>1. PICK m \in 1 .. Len(p) : c = SubSeq(p, 1, m)
      BY <1>1, <2>2 DEF Ways
    <3>2. p \in Path /\ Len(c) = m /\ c \in Path /\ \A i \in 1 .. m : c[i] = p[i]
      BY <1>3, <3>1, OnTheWay
    <3>3. n \in 1 .. Len(c) /\ n \in 1 .. Len(p)
      BY <1>3, <3>2
    <3>4. /\ SubSeq(c, 1, n) \in Path /\ Len(SubSeq(c, 1, n)) = n
          /\ \A i \in 1 .. n : SubSeq(c, 1, n)[i] = c[i]
      BY <3>2, <3>3, OnTheWay
    <3>5. /\ SubSeq(p, 1, n) \in Path /\ Len(SubSeq(p, 1, n)) = n
          /\ \A i \in 1 .. n : SubSeq(p, 1, n)[i] = p[i]
      BY <3>2, <3>3, OnTheWay
    <3>6. SubSeq(c, 1, n) = SubSeq(p, 1, n)
      BY <3>2, <3>3, <3>4, <3>5, SamePath
    <3> QED BY <1>1, <1>5, <3>3, <3>6 DEF Ways
  <2> QED BY <2>1, <2>2
<1>9. IsTree(u)
  BY <1>1, <1>2, <1>4, <1>6, <1>7, <1>8 DEF IsTree
<1> QED BY <1>1, <1>5, <1>9 DEF u, DirsMade

WayExists(t, p) ==
  \A n \in 1 .. Len(p) - 1 : SubSeq(p, 1, n) \in DOMAIN t /\ t[SubSeq(p, 1, n)] = Dir

NodeMade(t, p, node, u) ==
  /\ IsTree(u) /\ DOMAIN u = DOMAIN t \cup {p} /\ u[p] = node
  /\ \A c \in DOMAIN t \ {p} : u[c] = t[c]

(* One node more, or another one, with directories on its way. *)
LEMMA WithIs ==
  ASSUME NEW t, IsTree(t), NEW p \in Path, NEW node, node.kind = "dir" => node = Dir,
         Children(t, p) = {}, WayExists(t, p)
  PROVE  NodeMade(t, p, node, With(t, p, node))
<1> DEFINE u == With(t, p, node)
<1>1. DOMAIN u = DOMAIN t \cup {p} /\ u[p] = node /\ \A c \in DOMAIN t \ {p} : u[c] = t[c]
  BY DEF With
<1> HIDE DEF u
<1>2. DOMAIN t \subseteq Path /\ IsFiniteSet(DOMAIN t)
  BY DEF IsTree
<1>3. IsFiniteSet(DOMAIN u)
  BY <1>1, <1>2, FS_AddElement
<1>4. \A c \in DOMAIN u : u[c].kind = "dir" => u[c] = Dir
  BY <1>1 DEF IsTree
<1>5. ASSUME NEW c \in DOMAIN u, NEW n \in 1 .. Len(c) - 1
      PROVE  SubSeq(c, 1, n) \in DOMAIN u /\ u[SubSeq(c, 1, n)] = Dir
  <2>1. c \in Path /\ n \in 1 .. Len(c) /\ Len(c) \in Nat
    BY <1>1, <1>2, PathsAreSequences
  <2>2. SubSeq(c, 1, n) \in DOMAIN t /\ t[SubSeq(c, 1, n)] = Dir
    BY <1>1 DEF IsTree, WayExists
  <2>3. SubSeq(c, 1, n) # p
    <3> SUFFICES ASSUME SubSeq(c, 1, n) = p PROVE FALSE
      OBVIOUS
    <3>1. Below(p, c) /\ Len(p) = n
      BY <2>1, WaysAreBelow, OnTheWay
    <3>2. c # p
      BY <2>1, <3>1
    <3> QED BY <1>1, <3>1, <3>2 DEF Children
  <2> QED BY <1>1, <2>2, <2>3
<1> QED BY <1>1, <1>2, <1>3, <1>4, <1>5 DEF IsTree, NodeMade, u

LEMMA ParentIs ==
  ASSUME NEW p \in Path
  PROVE  /\ Parent(p) \in Path \cup {<<>>} /\ Len(Parent(p)) = Len(p) - 1
         /\ \A n \in 1 .. Len(p) - 1 : SubSeq(Parent(p), 1, n) = SubSeq(p, 1, n)
<1>1. Len(p) \in Nat \ {0}
  BY PathsAreSequences
<1>2. CASE Len(p) = 1
  <2>1. Parent(p) = <<>>
    BY <1>2, SubSeqEmpty DEF Parent
  <2> QED BY <1>2, <2>1, EmptySeq
<1>3. CASE Len(p) > 1
  <2>1. Len(p) - 1 \in 1 .. Len(p)
    BY <1>1, <1>3
  <2>2. /\ Parent(p) \in Path /\ Len(Parent(p)) = Len(p) - 1
        /\ \A i \in 1 .. Len(p) - 1 : Parent(p)[i] = p[i]
    BY <2>1, OnTheWay DEF Parent
  <2>3. ASSUME NEW n \in 1 .. Len(p) - 1
        PROVE  SubSeq(Parent(p), 1, n) = SubSeq(p, 1, n)
    <3>1. n \in 1 .. Len(p)
      BY <1>1
    <3>2. /\ SubSeq(p, 1, n) \in Path /\ Len(SubSeq(p, 1, n)) = n
          /\ \A i \in 1 .. n : SubSeq(p, 1, n)[i] = p[i]
      BY <3>1, OnTheWay
    <3>3. /\ SubSeq(Parent(p), 1, n) \in Path /\ Len(SubSeq(Parent(p), 1, n)) = n
          /\ \A i \in 1 .. n : SubSeq(Parent(p), 1, n)[i] = Parent(p)[i]
      <4>1. PICK q : q = Parent(p)
        OBVIOUS
      <4>2. n \in 1 .. Len(p) - 1
        OBVIOUS
      <4>3. q \in Path /\ Len(q) = Len(p) - 1
        BY <2>2, <4>1
      <4>4. n \in 1 .. Len(q)
        BY <4>2, <4>3
      <4>5. /\ SubSeq(q, 1, n) \in Path /\ Len(SubSeq(q, 1, n)) = n
            /\ \A i \in 1 .. n : SubSeq(q, 1, n)[i] = q[i]
        BY <4>3, <4>4, OnTheWay
      <4> QED BY <4>1, <4>5
    <3>4. \A i \in 1 .. n : i \in 1 .. Len(p) - 1
      BY <1>1
    <3>5. \A i \in 1 .. n : SubSeq(Parent(p), 1, n)[i] = SubSeq(p, 1, n)[i]
      BY <2>2, <3>2, <3>3, <3>4
    <3> QED BY <3>2, <3>3, <3>5, SamePath
  <2> QED BY <2>2, <2>3
<1>4. Len(p) = 1 \/ Len(p) > 1
  BY <1>1
<1> QED BY <1>2, <1>3, <1>4, Zenon

(* A directory moved to where the new link points. *)
LEMMA MovedToLink ==
  ASSUME NEW t, IsTree(t), NEW p \in DOMAIN t, t[p] = Dir, NEW to \in Path,
         to \notin DOMAIN Vacated(t, to), Clear(t, Parent(to)), ~Below(p, to)
  PROVE  LET M == Moved(WithDirs(Vacated(t, to), Parent(to)), p, to)
         IN  Keeps(t, p, M) /\ p \notin DOMAIN M
<1> DEFINE u == Vacated(t, to)
           v == WithDirs(u, Parent(to))
           M == Moved(v, p, to)
<1>1. /\ IsTree(u) /\ DOMAIN u = DOMAIN t \ {to} /\ \A c \in DOMAIN u : u[c] = t[c]
      /\ to \in DOMAIN t => t[to] = Dir
  <2>1. CASE u = t
    BY <2>1
  <2>2. CASE u # t
    <3>1. to \in DOMAIN t /\ t[to].kind = "dir" /\ Children(t, to) = {} /\ u = Without(t, {to})
      BY <2>2 DEF Vacated
    <3>2. LET w == Without(t, {to})
          IN  /\ Keeps(t, to, w) /\ DOMAIN w = DOMAIN t \ {to}
              /\ \A c \in DOMAIN w : w[c] = t[c]
      BY <3>1, WithoutOne
    <3>3. IsTree(u)
      BY <3>1, <3>2 DEF Keeps
    <3>4. t[to] = Dir
      BY <3>1 DEF IsTree
    <3> QED BY <3>1, <3>2, <3>3, <3>4
  <2> QED BY <2>1, <2>2
<1> HIDE DEF u
<1>2. Clear(u, Parent(to))
  BY <1>1 DEF Clear
<1>3. /\ Parent(to) \in Path \cup {<<>>} /\ Len(Parent(to)) = Len(to) - 1
      /\ \A n \in 1 .. Len(to) - 1 : SubSeq(Parent(to), 1, n) = SubSeq(to, 1, n)
  BY ParentIs
<1>4. /\ IsTree(v) /\ DOMAIN v = DOMAIN u \cup Ways(Parent(to))
      /\ \A c \in DOMAIN u : v[c] = u[c]
      /\ \A n \in 1 .. Len(Parent(to)) : v[SubSeq(Parent(to), 1, n)] = Dir
  <2>1. DirsMade(u, Parent(to), v)
    <3>1. PICK d : d = Parent(to)
      OBVIOUS
    <3>2. d \in Path \cup {<<>>} /\ Clear(u, d) /\ IsTree(u)
      BY <1>1, <1>2, <1>3, <3>1
    <3>3. DirsMade(u, d, WithDirs(u, d))
      BY <3>2, WithDirsIs
    <3> QED BY <3>1, <3>3
  <2> HIDE DEF v
  <2> QED BY <2>1 DEF DirsMade
<1> HIDE DEF v
<1>5. ASSUME NEW n \in 1 .. Len(to) - 1
      PROVE  SubSeq(to, 1, n) \in DOMAIN v /\ v[SubSeq(to, 1, n)] = Dir
  <2>1. n \in 1 .. Len(Parent(to)) /\ SubSeq(Parent(to), 1, n) = SubSeq(to, 1, n)
    BY <1>3
  <2>2. SubSeq(Parent(to), 1, n) \in Ways(Parent(to)) /\ v[SubSeq(Parent(to), 1, n)] = Dir
    BY <1>4, <2>1 DEF Ways
  <2> QED BY <1>4, <2>1, <2>2
<1>6. to \notin DOMAIN v
  <2> SUFFICES ASSUME NEW n \in 1 .. Len(to) - 1, SubSeq(to, 1, n) = to PROVE FALSE
    BY <1>1, <1>3, <1>4 DEF Ways
  <2>1. n \in 1 .. Len(to) /\ n # Len(to)
    BY PathsAreSequences
  <2> QED BY <2>1, OnTheWay
<1>7. p \in Path /\ p # to
  BY WaysAreBelow DEF IsTree
<1>8. p \in DOMAIN v /\ v[p] = Dir
  BY <1>1, <1>4, <1>7
<1>9. Keeps(v, p, M) /\ p \notin DOMAIN M /\ to \in DOMAIN M /\ M[to] = Dir
  BY <1>4, <1>5, <1>6, <1>8, MovedKeeps
<1> HIDE DEF M
<1>10. ASSUME NEW c \in DOMAIN t, ~Below(p, c)
       PROVE  c \in DOMAIN M /\ M[c] = t[c]
  <2>1. CASE c = to
    BY <1>1, <1>9, <2>1
  <2>2. CASE c # to
    <3>1. c \in DOMAIN v /\ v[c] = t[c]
      BY <1>1, <1>4, <2>2
    <3> QED BY <1>9, <1>10, <3>1 DEF Keeps
  <2> QED BY <2>1, <2>2
<1>11. ASSUME NEW c \in DOMAIN t, Below(p, c), c # p
       PROVE  \E q \in DOMAIN M : M[q] = t[c] /\ Last(q) = Last(c)
  <2>1. c # to
    BY <1>11
  <2>2. c \in DOMAIN v /\ v[c] = t[c]
    BY <1>1, <1>4, <2>1
  <2> QED BY <1>9, <1>11, <2>2 DEF Keeps
<1>12. IsTree(M)
  BY <1>9 DEF Keeps
<1> QED BY <1>9, <1>10, <1>11, <1>12 DEF Keeps, M, v, u

LEMMA TargetRemoved ==
  ASSUME NEW t, IsTree(t), NEW p \in DOMAIN Source, ~Blocked(t, p, Source[p])
  PROVE  LET u == RemoveTarget(t, p, Source[p])
         IN  Keeps(t, p, u) /\ (p \in DOMAIN u => Source[p] = Dir /\ u[p] = Dir)
<1> DEFINE node == Source[p]
           u    == RemoveTarget(t, p, node)
<1>1. /\ p \in Path /\ (node.kind = "dir" => node = Dir)
      /\ node.kind = "link" => node.to \in Path \cup {<<>>}
  BY SourceAssumption DEF IsTree
<1> HIDE DEF node
<1>2. \A c \in DOMAIN t : t[c].kind = "dir" => t[c] = Dir
  BY DEF IsTree
<1>3. CASE p \notin DOMAIN t \/ (node.kind = "dir" /\ t[p].kind = "dir")
  <2>1. u = t
    BY <1>3 DEF RemoveTarget
  <2>2. Keeps(t, p, t)
    BY DEF Keeps
  <2> QED BY <1>1, <1>2, <1>3, <2>1, <2>2 DEF node
<1>4. CASE /\ p \in DOMAIN t /\ ~(node.kind = "dir" /\ t[p].kind = "dir")
           /\ t[p].kind # "dir" \/ Children(t, p) = {}
  <2>1. u = Without(t, {p})
    BY <1>4 DEF RemoveTarget
  <2>2. Keeps(t, p, u) /\ DOMAIN u = DOMAIN t \ {p}
    BY <1>4, <2>1, WithoutOne, SMTT(20)
  <2> QED BY <2>2 DEF node
<1>5. CASE /\ p \in DOMAIN t /\ ~(node.kind = "dir" /\ t[p].kind = "dir")
           /\ ~(t[p].kind # "dir" \/ Children(t, p) = {})
  <2>1. t[p].kind = "dir" /\ t[p] = Dir
    BY <1>2, <1>5
  <2>2. CASE node.kind = "link" /\ node.to \notin DOMAIN Vacated(t, node.to) \cup {<<>>}
    <3>1. u = Moved(WithDirs(Vacated(t, node.to), Parent(node.to)), p, node.to)
      BY <1>5, <2>2 DEF RemoveTarget
    <3>2. node.to \in Path /\ Clear(t, Parent(node.to)) /\ ~Below(p, node.to)
      BY <1>1, <1>5, <2>1, <2>2 DEF Blocked, node
    <3>3. node.to \notin DOMAIN Vacated(t, node.to)
      BY <2>2
    <3>4. Keeps(t, p, u) /\ p \notin DOMAIN u
      BY <1>5, <2>1, <3>1, <3>2, <3>3, MovedToLink
    <3> QED BY <3>4 DEF node
  <2>3. CASE ~(node.kind = "link" /\ node.to \notin DOMAIN Vacated(t, node.to) \cup {<<>>})
    <3>1. u = MoveAside(t, p)
      BY <1>5, <2>3 DEF RemoveTarget
    <3>2. Keeps(t, p, u) /\ p \notin DOMAIN u
      BY <1>5, <2>1, <3>1, MovesAside, MovedKeeps
    <3> QED BY <3>2 DEF node
  <2> QED BY <2>2, <2>3
<1> QED BY <1>3, <1>4, <1>5

-----------------------------------------------------------------------------
(* What is left of the walk lists a directory before what is in it, and with *)
(* it all that is in it.                                                     *)
WalkFits(s) ==
  /\ s \in Seq(DOMAIN Source)
  /\ \A i, j \in 1 .. Len(s) : Below(s[i], s[j]) => i <= j
  /\ \A p \in ToSet(s), q \in DOMAIN Source : Below(p, q) => q \in ToSet(s)

SourceFiles == {p \in DOMAIN Source : Source[p].kind = "file"}

(* What the walk has passed is copied, unless it is not to be, or a bad    *)
(* copy was let go.                                                        *)
Passed(p) == NotCopied(p) \/ p \in skipped \/ (p \in DOMAIN target /\ target[p] = Source[p])
Walked == \A p \in DOMAIN Source : p \in ToSet(todo) \/ Passed(p)

(* The source was not mounted, and umount_source will find that out, or it *)
(* never is, as with one image that is preseeded.                          *)
Unseen ==
  /\ todo = <<>> /\ image # "rofs"
  /\ image = "one" \/ (mountpoints # <<>> /\ Last(mountpoints) \notin mounted)

TreeFits == IsTree(target) /\ skipped \subseteq SourceFiles /\ WalkFits(todo)

(* What is at the next path between two steps of its copy.                 *)
NextFits ==
  /\ stage \in {"create", "metadata"} => todo # <<>> /\ ~NotCopied(Head(todo))
  /\ stage = "create" /\ Head(todo) \in DOMAIN target =>
       \/ Source[Head(todo)].kind = "file" /\ target[Head(todo)] = Node("file", "bad", <<>>)
       \/ Source[Head(todo)] = Dir /\ target[Head(todo)] = Dir
  /\ stage = "metadata" => Passed(Head(todo))

WalkIsDone ==
  /\ stage \in {"copy", "create", "metadata", "unmount"} => Walked \/ Unseen
  /\ stage \in {"unmount", "reap"} => todo = <<>> /\ ~tuned
  /\ stage = "reap" \/ Copied => (Walked \/ image = "one") /\ todo = <<>> /\ ~tuned

(* Nothing is mounted or attached that umount_source would not release.    *)
MountsFit ==
  /\ mountpoints \in Seq({"source"} \cup ToSet(Images)) /\ mounted \subseteq ToSet(mountpoints)
  /\ devs \in Seq({"loop0", "unused"} \cup ToSet(Images)) /\ attached \subseteq ToSet(devs)
  /\ image \in {"none"} \cup ImageModes
  /\ stage = "init" => image = "none"
  /\ stage # "over" /\ image \in {"none", "rofs", "one"} => mountpoints = <<>> /\ devs = <<>>
  /\ stage = "mount" /\ image \in {"union", "detected"} =>
       mountpoints # <<>> /\ Last(mountpoints) = "source"
  /\ stage = "mount" /\ image = "several" => Len(mountpoints) <= Len(Images)
  /\ stage \in {"copy", "create", "metadata", "unmount", "reap"} => image # "none"
  /\ stage = "reap" \/ Copied => mountpoints = <<>> /\ devs = <<>>
  /\ Copied => updater # "running"

CopyFits ==
  /\ TreeFits /\ NextFits /\ WalkIsDone /\ MountsFit
  /\ phase # "waiting" => stage = "over"

LEMMA HeadOfWalk ==
  ASSUME NEW s, WalkFits(s), s # <<>>
  PROVE  /\ Head(s) \in ToSet(s) /\ Head(s) \in DOMAIN Source /\ WalkFits(Tail(s))
         /\ ToSet(s) = {Head(s)} \cup ToSet(Tail(s))
         /\ \A p \in ToSet(s) : Below(p, Head(s)) => p = Head(s)
<1> DEFINE r == Tail(s)
           S == DOMAIN Source
<1>1. /\ s \in Seq(S) /\ \A i, j \in 1 .. Len(s) : Below(s[i], s[j]) => i <= j
      /\ \A p \in ToSet(s), q \in S : Below(p, q) => q \in ToSet(s)
  BY DEF WalkFits
<1>2. Len(s) \in Nat \ {0} /\ Head(s) = s[1] /\ \A i \in 1 .. Len(s) : s[i] \in S
  BY <1>1, EmptySeq, LenProperties, ElementOfSeq
<1>3. /\ r \in Seq(S) /\ Len(r) = Len(s) - 1 /\ \A i \in 1 .. Len(r) : r[i] = s[i + 1]
  BY <1>1, HeadTailProperties
<1> HIDE DEF r, S
<1>4. ToSet(s) = {s[i] : i \in 1 .. Len(s)} /\ ToSet(r) = {r[i] : i \in 1 .. Len(r)}
  BY <1>1, <1>3 DEF ToSet
<1>5. ToSet(s) = {Head(s)} \cup ToSet(r)
  <2>1. ASSUME NEW i \in 1 .. Len(s) PROVE s[i] = s[1] \/ s[i] \in ToSet(r)
    <3>1. CASE i = 1
      BY <3>1
    <3>2. CASE i # 1
      <4>1. i - 1 \in 1 .. Len(r) /\ (i - 1) + 1 = i
        BY <1>2, <1>3, <3>2
      <4>2. r[i - 1] = s[i]
        BY <1>3, <4>1
      <4> QED BY <1>4, <4>1, <4>2
    <3> QED BY <3>1, <3>2
  <2>2. ASSUME NEW i \in 1 .. Len(r) PROVE r[i] \in ToSet(s)
    <3>1. i + 1 \in 1 .. Len(s) /\ r[i] = s[i + 1]
      BY <1>2, <1>3
    <3> QED BY <1>4, <3>1
  <2>3. 1 \in 1 .. Len(s)
    BY <1>2
  <2> QED BY <1>2, <1>4, <2>1, <2>2, <2>3
<1>6. ASSUME NEW p \in ToSet(s), Below(p, Head(s)) PROVE p = Head(s)
  <2>1. PICK i \in 1 .. Len(s) : p = s[i]
    BY <1>4
  <2>2. 1 \in 1 .. Len(s)
    BY <1>2
  <2>3. i <= 1
    BY <1>1, <1>2, <1>6, <2>1, <2>2
  <2>4. i = 1
    BY <1>2, <2>3
  <2> QED BY <1>2, <2>1, <2>4
<1>7. \A i, j \in 1 .. Len(r) : Below(r[i], r[j]) => i <= j
  <2> SUFFICES ASSUME NEW i \in 1 .. Len(r), NEW j \in 1 .. Len(r), Below(r[i], r[j])
               PROVE  i <= j
    OBVIOUS
  <2>1. i + 1 \in 1 .. Len(s) /\ j + 1 \in 1 .. Len(s) /\ r[i] = s[i + 1] /\ r[j] = s[j + 1]
    BY <1>2, <1>3
  <2>2. i + 1 <= j + 1
    BY <1>1, <2>1
  <2> QED BY <2>2
<1>8. ASSUME NEW p \in ToSet(r), NEW q \in S, Below(p, q) PROVE q \in ToSet(r)
  <2>1. q \in ToSet(s)
    BY <1>1, <1>5, <1>8
  <2>2. CASE q = Head(s)
    <3>1. PICK i \in 1 .. Len(r) : p = r[i]
      BY <1>4
    <3>2. i + 1 \in 1 .. Len(s) /\ 1 \in 1 .. Len(s) /\ p = s[i + 1] /\ q = s[1]
      BY <1>2, <1>3, <2>2, <3>1
    <3>3. i + 1 <= 1
      BY <1>1, <1>8, <3>2
    <3> QED BY <3>3
  <2> QED BY <1>5, <2>1, <2>2
<1>9. Head(s) \in S
  BY <1>2
<1> QED BY <1>3, <1>5, <1>6, <1>7, <1>8, <1>9 DEF WalkFits, r, S

LEMMA FrontOf ==
  ASSUME NEW S, NEW s \in Seq(S), s # <<>>
  PROVE  /\ Front(s) \in Seq(S) /\ Len(Front(s)) = Len(s) - 1
         /\ ToSet(s) \subseteq ToSet(Front(s)) \cup {Last(s)}
<1>1. Len(s) \in Nat \ {0} /\ \A i \in 1 .. Len(s) : s[i] \in S
  BY EmptySeq, LenProperties, ElementOfSeq
<1> DEFINE f == Front(s)
<1> HIDE DEF f
<1>2. /\ f \in Seq(S) /\ Len(f) = Len(s) - 1 /\ \A i \in 1 .. Len(s) - 1 : f[i] = s[i]
  <2>1. PICK k : k = Len(s) - 1
    OBVIOUS
  <2>2. k \in Int /\ k \in Nat /\ 1 \in Int /\ \A i \in 1 .. k : s[i] \in S
    BY <1>1, <2>1
  <2>3. /\ SubSeq(s, 1, k) \in Seq(S) /\ Len(SubSeq(s, 1, k)) = IF 1 <= k THEN k - 1 + 1 ELSE 0
        /\ \A i \in 1 .. k - 1 + 1 : SubSeq(s, 1, k)[i] = s[1 + i - 1]
    BY <2>2, SubSeqProperties
  <2>4. Len(SubSeq(s, 1, k)) = k /\ k - 1 + 1 = k /\ \A i \in 1 .. k : SubSeq(s, 1, k)[i] = s[i]
    BY <2>2, <2>3
  <2>5. SubSeq(s, 1, k) = f
    BY <2>1 DEF f, Front
  <2>6. f \in Seq(S) /\ Len(f) = k /\ \A i \in 1 .. k : f[i] = s[i]
    BY <2>3, <2>4, <2>5
  <2> QED BY <2>1, <2>6
<1>3. ToSet(s) = {s[i] : i \in 1 .. Len(s)} /\ ToSet(f) = {f[i] : i \in 1 .. Len(f)}
  BY <1>2, LenProperties DEF ToSet
<1>4. ASSUME NEW i \in 1 .. Len(s) PROVE s[i] \in ToSet(f) \cup {s[Len(s)]}
  <2>1. CASE i = Len(s)
    BY <2>1
  <2>2. CASE i # Len(s)
    <3>1. i \in 1 .. Len(f) /\ f[i] = s[i]
      BY <1>1, <1>2, <2>2
    <3> QED BY <1>3, <3>1
  <2> QED BY <2>1, <2>2
<1> QED BY <1>2, <1>3, <1>4 DEF f, Last

LEMMA AppendTo ==
  ASSUME NEW S, NEW s \in Seq(S), NEW e \in S
  PROVE  /\ Append(s, e) \in Seq(S) /\ Append(s, e) # <<>> /\ Last(Append(s, e)) = e
         /\ Len(Append(s, e)) = Len(s) + 1 /\ ToSet(Append(s, e)) = ToSet(s) \cup {e}
<1> DEFINE a == Append(s, e)
<1>1. /\ a \in Seq(S) /\ a # <<>> /\ Len(a) = Len(s) + 1 /\ Len(s) \in Nat
      /\ \A i \in 1 .. Len(s) : a[i] = s[i]
      /\ a[Len(s) + 1] = e
  BY AppendProperties, LenProperties
<1> HIDE DEF a
<1>2. ToSet(s) = {s[i] : i \in 1 .. Len(s)} /\ ToSet(a) = {a[i] : i \in 1 .. Len(a)}
  BY <1>1 DEF ToSet
<1>3. ASSUME NEW i \in 1 .. Len(a) PROVE a[i] \in ToSet(s) \cup {e}
  <2>1. i \in 1 .. Len(s) \/ i = Len(s) + 1
    BY <1>1
  <2> QED BY <1>1, <1>2, <2>1
<1>4. ASSUME NEW i \in 1 .. Len(s) PROVE s[i] \in ToSet(a)
  <2>1. i \in 1 .. Len(a) /\ a[i] = s[i]
    BY <1>1
  <2> QED BY <1>2, <2>1
<1>5. e \in ToSet(a)
  <2>1. Len(s) + 1 \in 1 .. Len(a)
    BY <1>1
  <2> QED BY <1>1, <1>2, <2>1
<1>6. ToSet(a) = ToSet(s) \cup {e}
  BY <1>2, <1>3, <1>4, <1>5
<1> QED BY <1>1, <1>6 DEF a, Last

-----------------------------------------------------------------------------
LEMMA CopyFitsAtFirst == Init => CopyFits
<1> SUFFICES ASSUME Init PROVE CopyFits
  OBVIOUS
<1> USE DEF Init, CopyInit, LastInit
<1>1. TreeFits
  <2>1. <<>> \in Seq(DOMAIN Source) /\ Len(<<>>) = 0 /\ ToSet(<<>>) = {}
    BY EmptySeq, LenProperties DEF ToSet
  <2> QED BY <2>1, TargetsAssumption DEF TreeFits, WalkFits
<1>2. NextFits /\ WalkIsDone
  BY DEF NextFits, WalkIsDone, Copied
<1>3. MountsFit
  BY DEF MountsFit, Copied
<1> QED BY <1>1, <1>2, <1>3 DEF CopyFits

(* What was passed stays so, as long as it stays in the target.            *)
LEMMA StaysPassed ==
  ASSUME NEW p, Passed(p), UNCHANGED blacklist, skipped \subseteq skipped',
         p \in DOMAIN target => p \in DOMAIN target' /\ target'[p] = target[p]
  PROVE  Passed(p)'
BY DEF Passed, NotCopied

(* The directories on the way to the path that is next are copied.         *)
LEMMA WayIsCopied ==
  ASSUME TreeFits, todo # <<>>, Walked, NEW n \in 1 .. Len(Head(todo)) - 1
  PROVE  LET q == SubSeq(Head(todo), 1, n) IN q \in DOMAIN target /\ target[q] = Dir
<1> DEFINE h == Head(todo)
           q == SubSeq(h, 1, n)
<1>1. h \in DOMAIN Source /\ \A p \in ToSet(todo) : Below(p, h) => p = h
  BY HeadOfWalk DEF TreeFits
<1>2. h \in Path /\ q \in DOMAIN Source /\ Source[q] = Dir
  BY <1>1, SourceAssumption DEF IsTree
<1> HIDE DEF h
<1>3. n \in 1 .. Len(h) /\ n # Len(h)
  BY <1>2, PathsAreSequences DEF h
<1>4. Below(q, h) /\ Len(q) = n
  BY <1>2, <1>3, WaysAreBelow, OnTheWay
<1> HIDE DEF q
<1>5. q \notin ToSet(todo)
  BY <1>1, <1>3, <1>4
<1>6. Passed(q) /\ Dir.kind = "dir"
  BY <1>2, <1>5 DEF Walked, Dir, Node
<1>7. ~NotCopied(q) /\ q \notin skipped
  <2>1. q \notin Reserved /\ q \notin SourceFiles
    BY <1>2, <1>6, SourceAssumption DEF SourceFiles
  <2> QED BY <1>2, <1>6, <2>1 DEF NotCopied, TreeFits
<1>8. q \in DOMAIN target /\ target[q] = Dir
  BY <1>2, <1>6, <1>7 DEF Passed
<1> QED BY <1>8 DEF q, h

(* Something is made at the path that is next.                             *)
LEMMA MadeHere ==
  ASSUME TreeFits, NextFits, stage = "create", Walked, NEW node, node.kind = "dir" => node = Dir,
         Head(todo) \in DOMAIN target => target[Head(todo)].kind # "dir",
         target' = With(target, Head(todo), node)
  PROVE  /\ IsTree(target)' /\ Head(todo) \in DOMAIN target' /\ target'[Head(todo)] = node
         /\ \A p \in DOMAIN target \ {Head(todo)} : p \in DOMAIN target' /\ target'[p] = target[p]
<1> DEFINE h == Head(todo)
<1>1. todo # <<>> /\ IsTree(target)
  BY DEF NextFits, TreeFits
<1>2. h \in DOMAIN Source /\ h \in Path
  <2>1. h \in DOMAIN Source
    BY <1>1, HeadOfWalk DEF TreeFits
  <2> QED BY <2>1, SourceAssumption DEF IsTree
<1>3. WayExists(target, h)
  BY <1>1, WayIsCopied DEF WayExists
<1> HIDE DEF h
<1>4. Children(target, h) = {}
  <2> SUFFICES ASSUME NEW c \in Children(target, h) PROVE FALSE
    OBVIOUS
  <2>1. c \in DOMAIN target /\ Below(h, c) /\ h # c
    BY DEF Children
  <2>2. h \in DOMAIN target /\ target[h] = Dir
    BY <1>1, <1>2, <2>1, TreeWays
  <2> QED BY <2>2 DEF h, Dir, Node
<1>5. NodeMade(target, h, node, With(target, h, node))
  BY <1>1, <1>2, <1>3, <1>4, WithIs
<1>6. target' = With(target, h, node)
  BY DEF h
<1>7. IsTree(target') /\ DOMAIN target' = DOMAIN target \cup {h} /\ target'[h] = node
      /\ \A c \in DOMAIN target \ {h} : target'[c] = target[c]
  BY <1>5, <1>6 DEF NodeMade
<1> QED BY <1>7 DEF h, IsTree

(* A step of the walk, or its end, leaves the mounts alone.                *)
LEMMA WalkKeepsMounts ==
  ASSUME MountsFit, UNCHANGED <<mountVars, updater>>, stage \in {"copy", "create", "metadata"},
         stage' \in {"copy", "create", "metadata", "unmount"} \/ (stage' = "done" /\ exit' # 0)
  PROVE  MountsFit'
BY DEF MountsFit, mountVars, Copied

(* An error ends the stage with another code than 0.                       *)
LEMMA FailureFits ==
  ASSUME CopyFits, stage # "over", \E code \in {1, 3} : Fails(code),
         UNCHANGED <<requestVars, lastVars>>,
         UNCHANGED <<copyVars, mountVars>>
  PROVE  CopyFits'
<1>1. /\ stage' = "done" /\ exit' # 0 /\ phase' = phase
      /\ UNCHANGED <<todo, target, skipped, blacklist, mountpoints, devs, mounted, attached, image>>
      /\ TreeFits /\ MountsFit
  BY DEF CopyFits, Fails, copyVars, mountVars, requestVars, lastVars
<1>2. TreeFits'
  BY <1>1 DEF TreeFits, WalkFits, IsTree
<1>3. NextFits' /\ WalkIsDone'
  BY <1>1 DEF NextFits, WalkIsDone, Copied
<1>4. MountsFit'
  BY <1>1 DEF MountsFit, Copied
<1>5. phase' = "waiting"
  BY <1>1 DEF CopyFits
<1> QED BY <1>2, <1>3, <1>4, <1>5 DEF CopyFits

LEMMA SkipFits ==
  ASSUME CopyFits, Skip, UNCHANGED lastVars
  PROVE  CopyFits'
<1>1. /\ TreeFits /\ NextFits /\ WalkIsDone /\ MountsFit /\ phase = "waiting" /\ phase' = phase
      /\ todo # <<>> /\ Walked /\ stage = "copy" /\ stage' = stage
      /\ todo' = Tail(todo) /\ target' = target /\ skipped' = skipped /\ blacklist' = blacklist
      /\ NotCopied(Head(todo))
  BY DEF CopyFits, Skip, WalkIsDone, Unseen, lastVars, requestVars
<1>2. ToSet(todo) = {Head(todo)} \cup ToSet(todo') /\ WalkFits(todo')
  BY <1>1, HeadOfWalk DEF TreeFits
<1>3. TreeFits'
  BY <1>1, <1>2 DEF TreeFits, IsTree, WalkFits
<1>4. Walked'
  <2> SUFFICES ASSUME NEW p \in DOMAIN Source, p \notin ToSet(todo') PROVE Passed(p)'
    BY DEF Walked
  <2>1. Passed(p)
    BY <1>1, <1>2 DEF Walked, Passed
  <2> QED BY <1>1, <2>1, StaysPassed
<1>5. NextFits' /\ WalkIsDone'
  BY <1>1, <1>4 DEF NextFits, WalkIsDone, Copied
<1>6. MountsFit'
  BY <1>1, WalkKeepsMounts DEF Skip
<1> QED BY <1>1, <1>3, <1>5, <1>6 DEF CopyFits

LEMMA MakeRoomFits ==
  ASSUME CopyFits, MakeRoom, UNCHANGED lastVars
  PROVE  CopyFits'
<1> DEFINE h == Head(todo)
<1>1. /\ TreeFits /\ NextFits /\ WalkIsDone /\ MountsFit /\ phase = "waiting" /\ phase' = phase
      /\ todo # <<>> /\ Walked /\ stage = "copy" /\ todo' = todo /\ ~NotCopied(h)
      /\ skipped' = skipped /\ UNCHANGED <<blacklist, mountVars, updater>>
      /\ ~Blocked(target, h, Source[h]) /\ target' = RemoveTarget(target, h, Source[h])
      /\ stage' = IF h \in DOMAIN target' THEN "metadata" ELSE "create"
  BY DEF CopyFits, MakeRoom, WalkIsDone, Unseen, lastVars, requestVars
<1>2. h \in DOMAIN Source /\ h \in ToSet(todo) /\ IsTree(target)
  BY <1>1, HeadOfWalk DEF TreeFits
<1>3. Keeps(target, h, target') /\ (h \in DOMAIN target' => Source[h] = Dir /\ target'[h] = Dir)
  BY <1>1, <1>2, TargetRemoved
<1> HIDE DEF h
<1>4. TreeFits'
  BY <1>1, <1>3 DEF TreeFits, IsTree, WalkFits, Keeps
<1>5. Walked'
  <2> SUFFICES ASSUME NEW p \in DOMAIN Source, p \notin ToSet(todo) PROVE Passed(p)'
    BY <1>1 DEF Walked
  <2>1. Passed(p)
    BY <1>1 DEF Walked, Passed
  <2>2. ~Below(h, p)
    BY <1>1, <1>2 DEF TreeFits, WalkFits
  <2>3. p \in DOMAIN target => p \in DOMAIN target' /\ target'[p] = target[p]
    BY <1>3, <2>2 DEF Keeps
  <2> QED BY <1>1, <2>1, <2>3, StaysPassed
<1>6. NextFits'
  <2>1. Head(todo') = h /\ (NotCopied(h)' <=> NotCopied(h))
    BY <1>1 DEF h, NotCopied
  <2>2. stage' = "metadata" => h \in DOMAIN target' /\ target'[h] = Source[h]
    BY <1>1, <1>3
  <2>3. stage' = "create" => h \notin DOMAIN target'
    BY <1>1
  <2> QED BY <1>1, <2>1, <2>2, <2>3 DEF NextFits, Passed, h
<1>7. WalkIsDone'
  BY <1>1, <1>5 DEF WalkIsDone, Copied
<1>8. MountsFit'
  BY <1>1, WalkKeepsMounts
<1> QED BY <1>1, <1>4, <1>6, <1>7, <1>8 DEF CopyFits

Bad == Node("file", "bad", <<>>)

(* A copy of what is next, or one with a wrong sum.                        *)
LEMMA MadeFits ==
  ASSUME CopyFits, stage = "create", NEW node, node.kind = "dir" => node = Dir,
         Head(todo) \in DOMAIN target => target[Head(todo)].kind # "dir",
         target' = With(target, Head(todo), node),
         UNCHANGED <<todo, mountVars, updater, blacklist, phase>>,
         skipped \subseteq skipped', skipped' \subseteq SourceFiles,
         stage' \in {"create", "metadata"},
         stage' = "create" => Source[Head(todo)].kind = "file" /\ node = Bad,
         stage' = "metadata" => node = Source[Head(todo)] \/ Head(todo) \in skipped'
  PROVE  CopyFits'
<1> DEFINE h == Head(todo)
<1>1. /\ TreeFits /\ NextFits /\ WalkIsDone /\ MountsFit /\ phase = "waiting" /\ todo # <<>>
      /\ Walked /\ ~NotCopied(h)
  BY DEF CopyFits, NextFits, WalkIsDone, Unseen
<1>2. /\ IsTree(target)' /\ h \in DOMAIN target' /\ target'[h] = node
      /\ \A p \in DOMAIN target \ {h} : p \in DOMAIN target' /\ target'[p] = target[p]
  BY <1>1, MadeHere
<1>3. TreeFits'
  BY <1>1, <1>2 DEF TreeFits, WalkFits
<1>4. h \in ToSet(todo)
  BY <1>1, HeadOfWalk DEF TreeFits
<1>5. Head(todo') = h
  OBVIOUS
<1> HIDE DEF h
<1>6. Walked'
  <2> SUFFICES ASSUME NEW p \in DOMAIN Source, p \notin ToSet(todo) PROVE Passed(p)'
    BY DEF Walked
  <2>1. Passed(p) /\ p # h
    BY <1>1, <1>4 DEF Walked, Passed
  <2> QED BY <1>2, <2>1, StaysPassed
<1>7. NextFits'
  <2>1. NotCopied(h)' <=> NotCopied(h)
    BY <1>5 DEF NotCopied, h
  <2> QED BY <1>1, <1>2, <1>5, <2>1 DEF NextFits, Passed, Bad, h
<1>8. WalkIsDone'
  BY <1>1, <1>6 DEF WalkIsDone, Copied
<1>9. MountsFit'
  BY <1>1, WalkKeepsMounts
<1> QED BY <1>1, <1>3, <1>7, <1>8, <1>9 DEF CopyFits

LEMMA CreateFits ==
  ASSUME CopyFits, Create, UNCHANGED lastVars
  PROVE  CopyFits'
<1> DEFINE h == Head(todo)
<1>1. /\ stage = "create" /\ TreeFits /\ NextFits /\ WalkIsDone /\ MountsFit /\ phase = "waiting"
      /\ phase' = phase /\ todo # <<>> /\ Walked
      /\ UNCHANGED <<todo, skipped, mountVars, updater, blacklist, requestVars, lastVars>>
  BY DEF CopyFits, NextFits, WalkIsDone, Unseen, Create, lastVars, requestVars
<1>2. h \in DOMAIN Source /\ skipped \subseteq SourceFiles /\ IsTree(target)
  BY <1>1, HeadOfWalk DEF TreeFits
<1>3. Source[h].kind = "dir" => Source[h] = Dir
  BY <1>2, SourceAssumption DEF IsTree
<1>4. CASE h \in DOMAIN target /\ Source[h].kind # "dir"
  <2>1. Fails(1) /\ UNCHANGED target
    BY <1>4 DEF Create
  <2>2. (\E code \in {1, 3} : Fails(code)) /\ UNCHANGED copyVars
    BY <1>1, <2>1 DEF copyVars
  <2> QED BY <1>1, <2>2, FailureFits
<1>5. CASE h \notin DOMAIN target
  <2>1. PICK node : node = Source[h]
    OBVIOUS
  <2>2. target' = With(target, h, node) /\ stage' = "metadata"
    BY <1>5, <2>1 DEF Create
  <2> QED BY <1>1, <1>2, <1>3, <1>5, <2>1, <2>2, MadeFits
<1>6. CASE h \in DOMAIN target /\ Source[h].kind = "dir"
  <2>1. target' = target /\ stage' = "metadata"
    BY <1>6 DEF Create
  <2>2. target[h] = Dir /\ Source[h] = Dir
    BY <1>1, <1>3, <1>6 DEF NextFits
  <2>3. TreeFits'
    BY <1>1, <2>1 DEF TreeFits, WalkFits, IsTree
  <2>4. Walked' /\ NextFits'
    BY <1>1, <1>6, <2>1, <2>2 DEF Walked, NextFits, Passed, NotCopied
  <2>5. WalkIsDone'
    BY <1>1, <2>1, <2>4 DEF WalkIsDone, Copied
  <2>6. MountsFit'
    BY <1>1, <2>1, WalkKeepsMounts
  <2> QED BY <1>1, <2>3, <2>4, <2>5, <2>6 DEF CopyFits
<1> QED BY <1>4, <1>5, <1>6

LEMMA MismatchFits ==
  ASSUME CopyFits, Mismatch, UNCHANGED lastVars
  PROVE  CopyFits'
<1> DEFINE h == Head(todo)
<1>1. /\ stage = "create" /\ TreeFits /\ NextFits /\ phase' = phase /\ todo # <<>>
      /\ UNCHANGED <<todo, mountVars, updater, blacklist, requestVars, lastVars>>
      /\ Source[h].kind = "file"
  BY DEF CopyFits, NextFits, Mismatch, lastVars, requestVars
<1>2. h \in SourceFiles /\ skipped \subseteq SourceFiles
  BY <1>1, HeadOfWalk DEF TreeFits, SourceFiles
<1>3. (Bad.kind = "dir" => Bad = Dir) /\ (h \in DOMAIN target => target[h].kind # "dir")
  BY <1>1 DEF NextFits, Bad, Node, Dir
<1>4. CASE skipped' = skipped \cup {h} /\ target' = With(target, h, Bad) /\ stage' = "metadata"
  BY <1>1, <1>2, <1>3, <1>4, MadeFits
<1>5. CASE target' = With(target, h, Bad) /\ UNCHANGED <<skipped, stage>>
  BY <1>1, <1>2, <1>3, <1>5, MadeFits
<1>6. CASE Fails(3) /\ UNCHANGED <<skipped, target>>
  <2>1. (\E code \in {1, 3} : Fails(code)) /\ UNCHANGED copyVars
    BY <1>1, <1>6 DEF copyVars
  <2> QED BY <1>1, <2>1, FailureFits
<1> QED BY <1>4, <1>5, <1>6 DEF Mismatch, Bad

LEMMA RetryFits ==
  ASSUME CopyFits, Retry, UNCHANGED lastVars
  PROVE  CopyFits'
<1> DEFINE h == Head(todo)
<1>1. /\ stage = "create" /\ TreeFits /\ NextFits /\ phase' = phase /\ todo # <<>>
      /\ UNCHANGED <<todo, skipped, mountVars, updater, blacklist>>
      /\ Source[h].kind = "file" /\ target' = With(target, h, Source[h]) /\ stage' = "metadata"
  BY DEF CopyFits, NextFits, Retry, lastVars, requestVars
<1>2. skipped \subseteq SourceFiles
  BY <1>1 DEF TreeFits
<1>3. h \in DOMAIN target => target[h].kind # "dir"
  BY <1>1 DEF NextFits, Node, Dir
<1> QED BY <1>1, <1>2, <1>3, MadeFits

LEMMA SetMetadataFits ==
  ASSUME CopyFits, SetMetadata, UNCHANGED lastVars
  PROVE  CopyFits'
<1>1. /\ TreeFits /\ NextFits /\ WalkIsDone /\ MountsFit /\ phase = "waiting" /\ phase' = phase
      /\ todo # <<>> /\ Walked /\ stage = "metadata" /\ stage' = "copy"
      /\ todo' = Tail(todo) /\ target' = target /\ skipped' = skipped /\ blacklist' = blacklist
      /\ Passed(Head(todo)) /\ UNCHANGED <<mountVars, updater>>
  BY DEF CopyFits, SetMetadata, NextFits, WalkIsDone, Unseen, lastVars, requestVars
<1>2. ToSet(todo) = {Head(todo)} \cup ToSet(todo') /\ WalkFits(todo')
  BY <1>1, HeadOfWalk DEF TreeFits
<1>3. TreeFits'
  BY <1>1, <1>2 DEF TreeFits, IsTree, WalkFits
<1>4. Walked'
  <2> SUFFICES ASSUME NEW p \in DOMAIN Source, p \notin ToSet(todo') PROVE Passed(p)'
    BY DEF Walked
  <2>1. Passed(p)
    BY <1>1, <1>2 DEF Walked
  <2> QED BY <1>1, <2>1, StaysPassed
<1>5. NextFits' /\ WalkIsDone'
  BY <1>1, <1>4 DEF NextFits, WalkIsDone, Copied
<1>6. MountsFit'
  BY <1>1, WalkKeepsMounts
<1> QED BY <1>1, <1>3, <1>5, <1>6 DEF CopyFits

LEMMA FinishCopyFits ==
  ASSUME CopyFits, FinishCopy, UNCHANGED lastVars
  PROVE  CopyFits'
<1>1. /\ TreeFits /\ NextFits /\ WalkIsDone /\ MountsFit /\ phase = "waiting" /\ phase' = phase
      /\ todo = <<>> /\ stage = "copy"
      /\ UNCHANGED <<todo, target, skipped, blacklist, mountVars, updater, copyVars, requestVars, lastVars>>
  BY DEF CopyFits, FinishCopy, copyVars, lastVars, requestVars
<1>2. CASE stage' = "unmount" /\ tuned' = FALSE
  <2>1. TreeFits'
    BY <1>1 DEF TreeFits, IsTree, WalkFits
  <2>2. Walked' \/ Unseen'
    BY <1>1 DEF WalkIsDone, Walked, Unseen, Passed, NotCopied, mountVars
  <2>3. NextFits' /\ WalkIsDone'
    BY <1>1, <1>2, <2>2 DEF NextFits, WalkIsDone, Copied
  <2>4. MountsFit'
    BY <1>1, <1>2, WalkKeepsMounts
  <2> QED BY <1>1, <2>1, <2>3, <2>4 DEF CopyFits
<1>3. CASE \E code \in {1, 3} : Fails(code)
  BY <1>1, <1>3, FailureFits
<1> QED BY <1>2, <1>3 DEF FinishCopy

-----------------------------------------------------------------------------
LEMMA PrepareFits ==
  ASSUME CopyFits, Prepare, UNCHANGED lastVars
  PROVE  CopyFits'
<1>1. /\ TreeFits /\ NextFits /\ WalkIsDone /\ MountsFit /\ phase = "waiting" /\ phase' = phase
      /\ stage = "init" /\ oem' = oem /\ (stage' = "mount" \/ (stage' = "done" /\ oem))
      /\ UNCHANGED <<todo, target, skipped, mountpoints, devs, mounted, attached, image>>
  BY DEF CopyFits, Prepare, copyVars, mountVars, lastVars, requestVars
<1>2. TreeFits'
  BY <1>1 DEF TreeFits, IsTree, WalkFits
<1>3. NextFits' /\ WalkIsDone'
  BY <1>1 DEF NextFits, WalkIsDone, Copied
<1>4. MountsFit'
  BY <1>1 DEF MountsFit, Copied
<1> QED BY <1>1, <1>2, <1>3, <1>4 DEF CopyFits

Places  == {"source"} \cup ToSet(Images)
Devices == {"loop0", "unused"} \cup ToSet(Images)

(* What is mounted and attached is known to umount_source. *)
Known ==
  /\ mountpoints \in Seq(Places) /\ mounted \subseteq ToSet(mountpoints)
  /\ devs \in Seq(Devices) /\ attached \subseteq ToSet(devs)

LEMMA OneMounted ==
  ASSUME Known, NEW dev \in Devices, NEW point \in Places, MountOneImage(dev, point)
  PROVE  /\ Known' /\ mountpoints' # <<>> /\ Last(mountpoints') = point
         /\ Len(mountpoints') = Len(mountpoints) + 1
<1>1. mountpoints' = Append(mountpoints, point)
  BY DEF MountOneImage
<1>2. /\ mountpoints' \in Seq(Places) /\ ToSet(mountpoints') = ToSet(mountpoints) \cup {point}
      /\ mountpoints' # <<>> /\ Last(mountpoints') = point /\ Len(mountpoints') = Len(mountpoints) + 1
  BY <1>1, AppendTo DEF Known
<1>3. mounted' \subseteq ToSet(mountpoints')
  BY <1>2 DEF MountOneImage, Known
<1>4. devs' \in Seq(Devices) /\ attached' \subseteq ToSet(devs')
  <2>1. PICK d : d \in {dev, "unused"} /\ devs' = Append(devs, d) /\ attached' \subseteq attached \cup {d}
    BY DEF MountOneImage
  <2>2. d \in Devices
    BY <2>1 DEF Devices
  <2>3. devs' \in Seq(Devices) /\ ToSet(devs') = ToSet(devs) \cup {d}
    BY <2>1, <2>2, AppendTo DEF Known
  <2> QED BY <2>1, <2>3 DEF Known
<1> QED BY <1>2, <1>3, <1>4 DEF Known

LEMMA MountSourceFits ==
  ASSUME CopyFits, MountSource, UNCHANGED lastVars
  PROVE  CopyFits'
<1>1. /\ TreeFits /\ MountsFit /\ phase = "waiting" /\ phase' = phase /\ Known
      /\ stage = "mount" /\ stage' = "mount" /\ UNCHANGED <<todo, target, skipped>>
  BY DEF CopyFits, MountSource, MountsFit, Known, Places, Devices, copyVars, lastVars
<1>2. TreeFits'
  BY <1>1 DEF TreeFits, IsTree, WalkFits
<1>3. NextFits' /\ WalkIsDone'
  BY <1>1 DEF NextFits, WalkIsDone, Copied
<1>4. /\ image' \in {"none"} \cup ImageModes /\ Known'
      /\ image' \in {"none", "rofs", "one"} => mountpoints' = <<>> /\ devs' = <<>>
      /\ image' \in {"union", "detected"} => mountpoints' # <<>> /\ Last(mountpoints') = "source"
      /\ image' = "several" => Len(mountpoints') <= Len(Images)
  <2>1. CASE image = "none" /\ image' \in ImageModes
    <3>1. mountpoints = <<>> /\ devs = <<>> /\ Len(mountpoints) = 0
      BY <1>1, <2>1, EmptySeq DEF MountsFit
    <3>2. CASE image' = "union"
      <4>1. mountpoints' = <<"source">> /\ mounted' \subseteq {"source"} /\ UNCHANGED <<devs, attached>>
        BY <2>1, <3>2 DEF MountSource
      <4>2. "source" \in Places
        BY DEF Places
      <4>3. <<"source">> \in Seq(Places) /\ Len(<<"source">>) = 1 /\ <<"source">>[1] = "source"
        BY <4>2
      <4>4. ToSet(<<"source">>) = {"source"} /\ Last(<<"source">>) = "source" /\ <<"source">> # <<>>
        BY <4>3, EmptySeq DEF ToSet, Last
      <4> QED BY <1>1, <2>1, <3>2, <4>1, <4>3, <4>4 DEF Known
    <3>3. CASE image' = "detected"
      <4>1. MountOneImage("loop0", "source")
        BY <2>1, <3>3 DEF MountSource
      <4>2. "loop0" \in Devices /\ "source" \in Places
        BY DEF Devices, Places
      <4>3. Known' /\ mountpoints' # <<>> /\ Last(mountpoints') = "source"
        BY <1>1, <4>1, <4>2, OneMounted
      <4> QED BY <2>1, <3>3, <4>3
    <3>4. CASE image' \notin {"union", "detected"}
      <4>1. UNCHANGED <<mountpoints, devs, mounted, attached>>
        BY <2>1, <3>4 DEF MountSource
      <4>2. 0 <= Len(Images)
        BY ImageAssumption, LenProperties
      <4> QED BY <1>1, <2>1, <3>1, <3>4, <4>1, <4>2 DEF Known
    <3> QED BY <3>2, <3>3, <3>4
  <2>2. CASE image = "several" /\ ~AllMounted /\ image' = image
    <3>1. PICK n : n = Len(mountpoints) + 1
      OBVIOUS
    <3>2. n \in 1 .. Len(Images)
      <4>1. Len(mountpoints) \in Nat /\ Len(Images) \in Nat
        BY <1>1, ImageAssumption, LenProperties DEF Known
      <4>2. Len(mountpoints) <= Len(Images) /\ Len(mountpoints) # Len(Images)
        BY <1>1, <2>2 DEF MountsFit, AllMounted
      <4> QED BY <3>1, <4>1, <4>2
    <3>3. Images[n] \in ToSet(Images) /\ MountOneImage(Images[n], Images[n])
      <4>1. n \in DOMAIN Images
        BY <3>2, ImageAssumption, LenProperties
      <4> QED BY <2>2, <3>1, <4>1 DEF MountSource, ToSet
    <3>4. Known' /\ Len(mountpoints') = Len(mountpoints) + 1
      BY <1>1, <3>3, OneMounted DEF Places, Devices
    <3>5. Len(mountpoints') <= Len(Images)
      BY <3>1, <3>2, <3>4, ImageAssumption, LenProperties
    <3> QED BY <1>1, <2>2, <3>4, <3>5 DEF MountsFit
  <2> QED BY <2>1, <2>2 DEF MountSource
<1>5. MountsFit'
  BY <1>1, <1>4 DEF MountsFit, Known, Places, Devices, Copied
<1> QED BY <1>1, <1>2, <1>3, <1>5 DEF CopyFits

LEMMA StartCopyFits ==
  ASSUME CopyFits, StartCopy, UNCHANGED lastVars
  PROVE  CopyFits'
<1>1. /\ TreeFits /\ MountsFit /\ phase = "waiting" /\ phase' = phase /\ Known
      /\ stage = "mount" /\ stage' = "copy" /\ UNCHANGED <<target, skipped, image, devs, attached>>
      /\ image # "none" /\ todo' = IF image = "rofs" \/ "source" \in mounted' THEN Walk ELSE <<>>
  BY DEF CopyFits, StartCopy, MountsFit, Known, Places, Devices, lastVars
<1>2. image \in {"rofs", "union", "detected", "one", "several"}
  BY <1>1, ImageAssumption DEF MountsFit
<1>3. WalkFits(Walk) /\ WalkFits(<<>>)
  <2>1. WalkFits(Walk)
    BY SourceAssumption, LenProperties DEF WalkFits
  <2>2. <<>> \in Seq(DOMAIN Source) /\ Len(<<>>) = 0 /\ ToSet(<<>>) = {}
    BY EmptySeq, LenProperties DEF ToSet
  <2> QED BY <2>1, <2>2 DEF WalkFits
<1>4. TreeFits'
  BY <1>1, <1>3 DEF TreeFits, IsTree
<1>5. /\ Known' /\ (image \in {"rofs", "one"} => mountpoints' = <<>> /\ devs' = <<>>)
      /\ image \notin {"rofs", "one"} => mountpoints' # <<>> /\ Last(mountpoints') = "source"
  <2>1. CASE image = "several"
    <3>1. /\ mountpoints' = Append(mountpoints, "source") /\ mounted' \subseteq mounted \cup {"source"}
          /\ "source" \in Places
      BY <2>1 DEF StartCopy, Places
    <3>2. /\ mountpoints' \in Seq(Places) /\ ToSet(mountpoints') = ToSet(mountpoints) \cup {"source"}
          /\ mountpoints' # <<>> /\ Last(mountpoints') = "source"
      BY <1>1, <3>1, AppendTo DEF Known
    <3> QED BY <1>1, <2>1, <3>1, <3>2 DEF Known
  <2>2. CASE image # "several"
    <3>1. UNCHANGED <<mountpoints, mounted>>
      BY <2>2 DEF StartCopy
    <3> QED BY <1>1, <1>2, <2>2, <3>1 DEF Known, MountsFit
  <2> QED BY <2>1, <2>2
<1>6. Walked' \/ Unseen'
  <2>1. CASE todo' = Walk
    BY <2>1, SourceAssumption DEF Walked
  <2>2. CASE todo' # Walk
    BY <1>1, <1>5, <2>2 DEF Unseen
  <2> QED BY <2>1, <2>2
<1>7. NextFits' /\ WalkIsDone'
  BY <1>1, <1>6 DEF NextFits, WalkIsDone, Copied
<1>8. MountsFit'
  BY <1>1, <1>2, <1>5 DEF MountsFit, Known, Places, Devices, Copied
<1> QED BY <1>1, <1>4, <1>7, <1>8 DEF CopyFits

LEMMA UnmountSourceFits ==
  ASSUME CopyFits, UnmountSource, UNCHANGED lastVars
  PROVE  CopyFits'
<1>1. /\ TreeFits /\ WalkIsDone /\ MountsFit /\ phase = "waiting" /\ phase' = phase /\ Known
      /\ stage = "unmount" /\ image # "rofs" /\ image # "none" /\ todo = <<>> /\ ~tuned
      /\ UNCHANGED <<todo, target, skipped, image, tuned, updater, blacklist, requestVars, lastVars>>
      /\ mountpoints # <<>> \/ devs # <<>> => image # "one"
  BY DEF CopyFits, UnmountSource, MountsFit, WalkIsDone, Known, Places, Devices, copyVars,
         lastVars, requestVars
<1>2. TreeFits'
  BY <1>1 DEF TreeFits, IsTree, WalkFits
<1>3. Walked => Walked'
  BY <1>1 DEF Walked, Passed, NotCopied
<1>4. CASE mountpoints # <<>> /\ Last(mountpoints) \in mounted
  <2>1. /\ mountpoints' = Front(mountpoints) /\ mounted' = mounted \ {Last(mountpoints)}
        /\ UNCHANGED <<devs, attached, stage, exit>>
    BY <1>4 DEF UnmountSource
  <2>2. Walked'
    BY <1>1, <1>3, <1>4 DEF WalkIsDone, Unseen
  <2>3. NextFits' /\ WalkIsDone'
    BY <1>1, <2>1, <2>2 DEF NextFits, WalkIsDone, Copied
  <2>4. mountpoints' \in Seq(Places) /\ ToSet(mountpoints) \subseteq ToSet(mountpoints') \cup {Last(mountpoints)}
    BY <1>1, <1>4, <2>1, FrontOf DEF Known
  <2>5. MountsFit'
    BY <1>1, <1>4, <2>1, <2>4 DEF MountsFit, Known, Places, Copied
  <2> QED BY <1>1, <1>2, <2>3, <2>5 DEF CopyFits
<1>5. CASE mountpoints # <<>> /\ Last(mountpoints) \notin mounted
  <2>1. /\ mountpoints' = Front(mountpoints) /\ mounted' = mounted /\ UNCHANGED <<devs, attached>>
        /\ stage' = "done" /\ exit' # 0
    BY <1>5 DEF UnmountSource, Fails
  <2>2. NextFits' /\ WalkIsDone'
    BY <1>1, <2>1 DEF NextFits, WalkIsDone, Copied
  <2>3. mountpoints' \in Seq(Places) /\ ToSet(mountpoints) \subseteq ToSet(mountpoints') \cup {Last(mountpoints)}
    BY <1>1, <1>5, <2>1, FrontOf DEF Known
  <2>4. mounted' \subseteq ToSet(mountpoints')
    BY <1>1, <1>5, <2>1, <2>3 DEF Known
  <2>5. MountsFit'
    BY <1>1, <1>5, <2>1, <2>3, <2>4 DEF MountsFit, Known, Places, Copied
  <2> QED BY <1>1, <1>2, <2>2, <2>5 DEF CopyFits
<1>6. CASE mountpoints = <<>> /\ devs # <<>>
  <2>1. /\ devs' = Front(devs) /\ attached' = attached \ {Last(devs)}
        /\ UNCHANGED <<mountpoints, mounted, stage, exit>>
    BY <1>6 DEF UnmountSource
  <2>2. Walked'
    BY <1>1, <1>3, <1>6 DEF WalkIsDone, Unseen
  <2>3. NextFits' /\ WalkIsDone'
    BY <1>1, <2>1, <2>2 DEF NextFits, WalkIsDone, Copied
  <2>4. devs' \in Seq(Devices) /\ ToSet(devs) \subseteq ToSet(devs') \cup {Last(devs)}
    BY <1>1, <1>6, <2>1, FrontOf DEF Known
  <2>5. MountsFit'
    BY <1>1, <1>6, <2>1, <2>4 DEF MountsFit, Known, Devices, Copied
  <2> QED BY <1>1, <1>2, <2>3, <2>5 DEF CopyFits
<1>7. CASE mountpoints = <<>> /\ devs = <<>>
  <2>1. stage' = "reap" /\ UNCHANGED <<mountpoints, mounted, devs, attached, exit>>
    BY <1>7 DEF UnmountSource
  <2>2. Walked' \/ image' = "one"
    BY <1>1, <1>3, <1>7 DEF WalkIsDone, Unseen
  <2>3. NextFits' /\ WalkIsDone'
    BY <1>1, <2>1, <2>2 DEF NextFits, WalkIsDone, Copied
  <2>4. MountsFit'
    BY <1>1, <1>7, <2>1 DEF MountsFit, Copied
  <2> QED BY <1>1, <1>2, <2>3, <2>4 DEF CopyFits
<1> QED BY <1>4, <1>5, <1>6, <1>7

LEMMA LastStepsFit ==
  ASSUME CopyFits, NothingToUnmount \/ KillUpdater, UNCHANGED lastVars
  PROVE  CopyFits'
<1>1. /\ TreeFits /\ WalkIsDone /\ MountsFit /\ phase = "waiting" /\ phase' = phase
      /\ UNCHANGED <<todo, target, skipped, mountpoints, devs, mounted, attached, image, tuned,
                     blacklist, oem>>
  BY DEF CopyFits, NothingToUnmount, KillUpdater, copyVars, mountVars, lastVars, requestVars
<1>2. TreeFits'
  BY <1>1 DEF TreeFits, IsTree, WalkFits
<1>3. (Walked \/ image = "one") /\ todo = <<>> /\ ~tuned /\ mountpoints = <<>> /\ devs = <<>>
  BY <1>1 DEF NothingToUnmount, KillUpdater, WalkIsDone, Unseen, MountsFit
<1>4. Walked' \/ image' = "one"
  BY <1>1, <1>3 DEF Walked, Passed, NotCopied
<1>5. (stage' = "reap" /\ image = "rofs" /\ stage = "unmount")
        \/ (stage' = "done" /\ updater' # "running" /\ stage = "reap")
  BY DEF NothingToUnmount, KillUpdater
<1>6. NextFits' /\ WalkIsDone'
  BY <1>1, <1>3, <1>4, <1>5 DEF NextFits, WalkIsDone, Copied
<1>7. MountsFit'
  BY <1>1, <1>3, <1>5 DEF MountsFit, Copied
<1> QED BY <1>1, <1>2, <1>6, <1>7 DEF CopyFits

(* What update-apt-cache makes is there in the source, too.                *)
LEMMA UpdaterWays ==
  ASSUME NEW n \in 1 .. Len(UpdaterDir)
  PROVE  Source[SubSeq(UpdaterDir, 1, n)] = Dir
<1>1. UpdaterDir \in DOMAIN Source /\ UpdaterDir \in Path /\ Source[UpdaterDir] = Dir
  BY SourceAssumption DEF IsTree
<1>2. Len(UpdaterDir) \in Nat \ {0}
  BY <1>1, PathsAreSequences
<1>3. CASE n = Len(UpdaterDir)
  <2>1. SubSeq(UpdaterDir, 1, n) = UpdaterDir
    BY <1>1, <1>3, WaysAreBelow
  <2> QED BY <1>1, <2>1
<1>4. CASE n # Len(UpdaterDir)
  <2>1. n \in 1 .. Len(UpdaterDir) - 1
    BY <1>2, <1>4
  <2> QED BY <1>1, <2>1, SourceAssumption DEF IsTree
<1> QED BY <1>3, <1>4

LEMMA UpdaterMakes ==
  ASSUME TreeFits, UpdaterMakesDir
  PROVE  /\ IsTree(target)'
         /\ \A p \in DOMAIN target : p \in DOMAIN target' /\ target'[p] = target[p]
         /\ \A p \in DOMAIN target' \ DOMAIN target : target'[p] = Dir /\ Source[p] = Dir
<1>1. IsTree(target) /\ UpdaterDir \in Path \cup {<<>>} /\ Clear(target, UpdaterDir)
  BY SourceAssumption DEF TreeFits, UpdaterMakesDir, IsTree
<1>2. DirsMade(target, UpdaterDir, target')
  BY <1>1, WithDirsIs DEF UpdaterMakesDir
<1>3. \A p \in Ways(UpdaterDir) : Source[p] = Dir
  BY UpdaterWays DEF Ways
<1> QED BY <1>2, <1>3 DEF DirsMade, IsTree

LEMMA UpdaterMakesDirFits ==
  ASSUME CopyFits, UpdaterMakesDir, UNCHANGED lastVars
  PROVE  CopyFits'
<1>1. /\ TreeFits /\ NextFits /\ WalkIsDone /\ MountsFit /\ phase' = phase /\ updater = "running"
      /\ UNCHANGED <<stage, exit, todo, skipped, mountpoints, devs, mounted, attached, image,
                     tuned, updater, blacklist, oem>>
      /\ phase # "waiting" => stage = "over"
  BY DEF CopyFits, UpdaterMakesDir, mountVars, lastVars, requestVars
<1>2. /\ IsTree(target)'
      /\ \A p \in DOMAIN target : p \in DOMAIN target' /\ target'[p] = target[p]
      /\ \A p \in DOMAIN target' \ DOMAIN target : target'[p] = Dir /\ Source[p] = Dir
  BY <1>1, UpdaterMakes
<1>3. TreeFits'
  BY <1>1, <1>2 DEF TreeFits, WalkFits
<1>4. \A p : Passed(p) => Passed(p)'
  BY <1>1, <1>2, StaysPassed
<1>5. Walked => Walked'
  BY <1>1, <1>4 DEF Walked
<1>6. Unseen => Unseen'
  BY <1>1 DEF Unseen
<1>7. NextFits'
  BY <1>1, <1>2, <1>4 DEF NextFits, NotCopied
<1>8. ~Copied /\ ~Copied'
  BY <1>1 DEF MountsFit, Copied
<1>9. WalkIsDone'
  BY <1>1, <1>5, <1>6, <1>8 DEF WalkIsDone
<1>10. MountsFit'
  BY <1>1, <1>8 DEF MountsFit
<1> QED BY <1>1, <1>3, <1>7, <1>9, <1>10 DEF CopyFits

LEMMA UpdaterEndsFits ==
  ASSUME CopyFits, UpdaterEnds \/ UNCHANGED copyStageVars, UNCHANGED <<requestVars, lastVars>>
  PROVE  CopyFits'
<1>1. /\ TreeFits /\ NextFits /\ WalkIsDone /\ MountsFit /\ phase' = phase
      /\ UNCHANGED <<stage, exit, todo, target, skipped, mountpoints, devs, mounted, attached, image,
                     tuned, blacklist, oem>>
      /\ updater' \in {updater, "ended"}
      /\ phase # "waiting" => stage = "over"
  BY DEF CopyFits, UpdaterEnds, copyStageVars, copyVars, mountVars, lastVars, requestVars
<1>2. TreeFits'
  BY <1>1 DEF TreeFits, IsTree, WalkFits
<1>3. NextFits' /\ (Walked => Walked') /\ (Unseen => Unseen') /\ (Copied' <=> Copied)
  BY <1>1 DEF NextFits, Walked, Unseen, Passed, NotCopied, Copied
<1>4. WalkIsDone'
  BY <1>1, <1>3 DEF WalkIsDone
<1>5. MountsFit'
  BY <1>1, <1>3 DEF MountsFit
<1> QED BY <1>1, <1>2, <1>3, <1>4, <1>5 DEF CopyFits

LEMMA HandoverFits ==
  ASSUME CopyFits, Handover
  PROVE  CopyFits'
<1>1. /\ stage' = "over" /\ target' = [p \in {} |-> Dir] /\ todo' = <<>> /\ skipped' = {}
      /\ UNCHANGED <<mountpoints, devs, mounted, attached>> /\ image' = "none" /\ MountsFit
  BY DEF CopyFits, Handover
<1>2. IsTree(target)'
  BY <1>1, FS_EmptySet DEF IsTree
<1>3. WalkFits(todo)'
  <2>1. <<>> \in Seq(DOMAIN Source) /\ Len(<<>>) = 0 /\ ToSet(<<>>) = {}
    BY EmptySeq, LenProperties DEF ToSet
  <2> QED BY <1>1, <2>1 DEF WalkFits
<1>4. TreeFits' /\ NextFits' /\ WalkIsDone'
  BY <1>1, <1>2, <1>3 DEF TreeFits, NextFits, WalkIsDone, Copied
<1>5. MountsFit'
  BY <1>1 DEF MountsFit, Copied
<1> QED BY <1>1, <1>4, <1>5 DEF CopyFits

(* The last phase does nothing before it has begun.                        *)
LEMMA FinishingIsLate == LastNext => phase # "waiting"
<1>1. ConfigurePython \/ ConfigureNetwork \/ RunLanguage \/ ConfigureApt => phase # "waiting"
  BY DEF ConfigurePython, ConfigureNetwork, RunLanguage, ConfigureApt
<1>2. RunPlugin \/ NoPlugins \/ TargetHooks \/ InstallLanguagePacks => phase # "waiting"
  BY DEF RunPlugin, NoPlugins, TargetHooks, InstallLanguagePacks
<1>3. ConfigureHardware \/ InstallExtras \/ InstallOemConfig \/ ConfigureDirectory => phase # "waiting"
  BY DEF ConfigureHardware, InstallExtras, InstallOemConfig, ConfigureDirectory
<1>4. RecoveryKey \/ ConfigureBootloader \/ ListRemovals \/ RemoveRegular => phase # "waiting"
  BY DEF RecoveryKey, ConfigureBootloader, ListRemovals, RemoveRegular
<1>5. RemoveRecursively \/ InstallRestricted \/ CopySettings \/ CopyLogs \/ Cleanup => phase # "waiting"
  BY DEF RemoveRecursively, InstallRestricted, CopySettings, CopyLogs, Cleanup
<1> QED BY <1>1, <1>2, <1>3, <1>4, <1>5 DEF LastNext

LEMMA FinishingFits ==
  ASSUME CopyFits, Finishing
  PROVE  CopyFits'
<1>1. /\ TreeFits /\ MountsFit /\ stage = "over"
      /\ UNCHANGED <<stage, todo, target, skipped, mountpoints, devs, mounted, attached, image, updater>>
  BY FinishingIsLate DEF CopyFits, Finishing, copyStageVars, copyVars, mountVars
<1>2. TreeFits'
  BY <1>1 DEF TreeFits, IsTree, WalkFits
<1>3. NextFits' /\ WalkIsDone'
  BY <1>1 DEF NextFits, WalkIsDone, Copied
<1>4. MountsFit'
  BY <1>1 DEF MountsFit, Copied
<1> QED BY <1>1, <1>2, <1>3, <1>4 DEF CopyFits

LEMMA CopyFitsNext ==
  ASSUME CopyFits, [Next]_installationVars
  PROVE  CopyFits'
<1>1. CASE Copying
  <2>1. UNCHANGED lastVars
    BY <1>1 DEF Copying
  <2>2. CASE MountFails
    <3>1. /\ \E code \in {1, 3} : Fails(code)
          /\ stage # "over" /\ UNCHANGED <<requestVars, copyVars, mountVars>>
      BY <2>2 DEF MountFails
    <3> QED BY <2>1, <3>1, FailureFits
  <2>3. CASE CopyFails
    <3>1. /\ \E code \in {1, 3} : Fails(code)
          /\ stage # "over" /\ UNCHANGED <<requestVars, copyVars, mountVars>>
      BY <2>3 DEF CopyFails
    <3> QED BY <2>1, <3>1, FailureFits
  <2>4. CASE UpdaterEnds
    <3>1. UNCHANGED requestVars
      BY <2>4 DEF UpdaterEnds
    <3> QED BY <2>1, <2>4, <3>1, UpdaterEndsFits
  <2> QED BY <1>1, <2>1, <2>2, <2>3, <2>4, PrepareFits, MountSourceFits, StartCopyFits, SkipFits,
             MakeRoomFits, CreateFits, MismatchFits, RetryFits, SetMetadataFits, FinishCopyFits,
             UnmountSourceFits, LastStepsFit, UpdaterMakesDirFits
          DEF Copying, CopyNext
<1>2. CASE Handover
  BY <1>2, HandoverFits
<1>3. CASE Finishing
  BY <1>3, FinishingFits
<1>4. CASE UNCHANGED installationVars
  BY <1>4, UpdaterEndsFits DEF installationVars
<1> QED BY <1>1, <1>2, <1>3, <1>4 DEF Next

(* However partman left the target, whatever fails on the way and whatever *)
(* update-apt-cache makes meanwhile: when install.py exits with 0, every   *)
(* file of the live system that is to be copied is in the target as it is  *)
(* in the source, unless the user let a bad copy pass or a single image is *)
(* preseeded, and nothing of what the stage set up is left (copy_all,      *)
(* remove_target, mount_source, umount_source).                            *)
THEOREM SourceIsCopied ==
  Spec => []CopiesTheSource
<1>1. CopyFits => CopiesTheSource
  <2> SUFFICES ASSUME CopyFits, Copied PROVE CopiesTheSource
    BY DEF CopiesTheSource
  <2>1. /\ Walked \/ image = "one"
        /\ todo = <<>> /\ ~tuned /\ mountpoints = <<>> /\ devs = <<>> /\ updater # "running"
    BY DEF CopyFits, WalkIsDone, MountsFit, Copied
  <2>2. ToSet(<<>>) = {}
    BY EmptySeq, LenProperties DEF ToSet
  <2>3. mounted = {} /\ attached = {}
    BY <2>1, <2>2 DEF CopyFits, MountsFit
  <2>4. image # "one" =>
          \A p \in DOMAIN Source \ skipped :
            NotCopied(p) \/ (p \in DOMAIN target /\ target[p] = Source[p])
    BY <2>1, <2>2 DEF Walked, Passed
  <2> QED BY <2>1, <2>3, <2>4 DEF CopiesTheSource
<1> QED BY <1>1, CopyFitsAtFirst, CopyFitsNext, PTL DEF Spec

(* A step of the copy keeps what was in the target before it, or it makes  *)
(* room for what the walk is at, which itself need not be kept.            *)
LEMMA CopyKeeps ==
  ASSUME CopyFits, [Next]_installationVars, stage # "done", NEW p \in DOMAIN target,
         target[p].data = "old"
  PROVE  \/ p \in DOMAIN Source /\ p \notin Reserved /\ stage = "copy"
         \/ \E q \in DOMAIN target' : target'[q].data = "old" /\ Last(q).n = Last(p).n
<1>1. TreeFits /\ NextFits /\ WalkIsDone
  BY DEF CopyFits
<1>2. (p \in DOMAIN target' /\ target'[p] = target[p]) =>
        \E q \in DOMAIN target' : target'[q].data = "old" /\ Last(q).n = Last(p).n
  OBVIOUS
<1>3. CASE UNCHANGED target
  BY <1>2, <1>3
<1>4. CASE MakeRoom
  <2> DEFINE h == Head(todo)
  <2>1. /\ todo # <<>> /\ stage = "copy" /\ ~NotCopied(h) /\ ~Blocked(target, h, Source[h])
        /\ target' = RemoveTarget(target, h, Source[h])
    BY <1>4 DEF MakeRoom
  <2>2. h \in DOMAIN Source /\ IsTree(target)
    BY <1>1, <2>1, HeadOfWalk DEF TreeFits
  <2>3. Keeps(target, h, target')
    BY <2>1, <2>2, TargetRemoved
  <2> HIDE DEF h
  <2>4. CASE p = h
    BY <2>1, <2>2, <2>4 DEF NotCopied
  <2>5. CASE ~Below(h, p)
    BY <1>2, <2>3, <2>5 DEF Keeps
  <2>6. CASE Below(h, p) /\ p # h
    <3>1. PICK q \in DOMAIN target' : target'[q] = target[p] /\ Last(q) = Last(p)
      BY <2>3, <2>6 DEF Keeps
    <3> QED BY <3>1
  <2> QED BY <2>4, <2>5, <2>6
<1>5. CASE Create \/ Mismatch \/ Retry
  <2>1. stage = "create" /\ todo # <<>>
    BY <1>1, <1>5 DEF Create, Mismatch, Retry, NextFits
  <2>2. Head(todo) \in DOMAIN target => target[Head(todo)].data # "old"
    BY <1>1, <2>1 DEF NextFits, Node, Dir
  <2>3. target' = target \/ \E node : target' = With(target, Head(todo), node)
    BY <1>5 DEF Create, Mismatch, Retry
  <2>4. p \in DOMAIN target' /\ target'[p] = target[p]
    BY <2>2, <2>3 DEF With
  <2> QED BY <1>2, <2>4
<1>6. CASE UpdaterMakesDir
  BY <1>1, <1>2, <1>6, UpdaterMakes
<1>7. UNCHANGED target \/ MakeRoom \/ Create \/ Mismatch \/ Retry \/ UpdaterMakesDir
  <2>1. CASE Copying
    <3>1. Prepare \/ MountSource \/ MountFails \/ StartCopy => UNCHANGED target
      BY DEF Prepare, MountSource, MountFails, StartCopy, copyVars
    <3>2. Skip \/ SetMetadata \/ CopyFails \/ FinishCopy => UNCHANGED target
      BY DEF Skip, SetMetadata, CopyFails, FinishCopy, copyVars
    <3>3. UnmountSource \/ NothingToUnmount \/ KillUpdater \/ UpdaterEnds => UNCHANGED target
      BY DEF UnmountSource, NothingToUnmount, KillUpdater, UpdaterEnds, copyVars
    <3> QED BY <2>1, <3>1, <3>2, <3>3 DEF Copying, CopyNext
  <2>2. CASE Handover
    BY <2>2 DEF Handover
  <2>3. CASE Finishing \/ UNCHANGED installationVars
    BY <2>3 DEF Finishing, installationVars, copyStageVars, copyVars
  <2> QED BY <2>1, <2>2, <2>3 DEF Next
<1> QED BY <1>3, <1>4, <1>5, <1>6, <1>7

(* Whatever tree was in the target, a step of the copy loses nothing that  *)
(* a directory of it held, at most moves it aside or to where the new link *)
(* points, and partman's fstab and crypttab stay (remove_target, copy_all).*)
THEOREM TargetIsKept == Spec => NothingLost
<1>1. CopyFits /\ [Next]_installationVars =>
        [stage # "done" => \A p \in DOMAIN target :
           target[p].data = "old" =>
             \/ p \in DOMAIN Source /\ p \notin Reserved /\ stage = "copy"
             \/ \E q \in DOMAIN target' : target'[q].data = "old"
                  /\ Last(q).n = Last(p).n]_target
  BY CopyKeeps
<1> QED BY <1>1, CopyFitsAtFirst, CopyFitsNext, PTL DEF Spec, NothingLost

-----------------------------------------------------------------------------
(* Packages *)

(* The recursion of Grown has a solution: each set grows to the union of the *)
(* sets it goes through.                                                     *)
LEMMA GrowthExists ==
  ASSUME NEW more \in [SUBSET Package -> SUBSET Package]
  PROVE  \E g : g = [s \in SUBSET Package |-> IF more[s] = {} THEN s ELSE g[s \cup more[s]]]
<1> DEFINE P         == SUBSET Package
           Step(s)   == s \cup more[s]
           Closed(F) == \A e \in F : Step(e) \in F
           Orbit(s)  == {e \in P : \A F \in SUBSET P : s \in F /\ Closed(F) => e \in F}
           grow      == [s \in P |-> UNION Orbit(s)]
<1>1. \A s \in P : Step(s) \in P /\ s \subseteq Step(s)
  OBVIOUS
<1>2. \A s \in P : s \in Orbit(s)
  OBVIOUS
<1>3. ASSUME NEW s \in P, more[s] = {} PROVE UNION Orbit(s) = s
  <2>1. {s} \in SUBSET P /\ s \in {s} /\ Closed({s})
    BY <1>3
  <2>2. Orbit(s) \subseteq {s}
    BY <2>1
  <2>3. s \in Orbit(s)
    BY <1>2
  <2> HIDE DEF Orbit
  <2> QED BY <2>2, <2>3
<1>4. ASSUME NEW s \in P PROVE Closed(Orbit(s))
  <2> SUFFICES ASSUME NEW e \in Orbit(s) PROVE Step(e) \in Orbit(s)
    OBVIOUS
  <2>1. ASSUME NEW F \in SUBSET P, s \in F, Closed(F) PROVE Step(e) \in F
    BY <2>1
  <2> QED BY <2>1, <1>1
<1>5. ASSUME NEW s \in P PROVE UNION Orbit(s) = UNION Orbit(Step(s))
  <2> DEFINE F == {s} \cup Orbit(Step(s))
  <2>1. F \in SUBSET P /\ s \in F /\ Closed(F)
    <3>1. F \in SUBSET P /\ s \in F
      BY <1>1
    <3>2. Step(s) \in Orbit(Step(s))
      BY <1>1, <1>2
    <3>3. \A e \in Orbit(Step(s)) : Step(e) \in Orbit(Step(s))
      BY <1>1, <1>4
    <3> QED BY <3>1, <3>2, <3>3
  <2>2. Orbit(s) \subseteq F
    BY <2>1
  <2>3. Orbit(Step(s)) \subseteq Orbit(s)
    <3>1. Step(s) \in Orbit(s)
      BY <1>2, <1>4
    <3> SUFFICES ASSUME NEW e \in Orbit(Step(s)), NEW F1 \in SUBSET P, s \in F1, Closed(F1)
                 PROVE  e \in F1
      OBVIOUS
    <3>2. Step(s) \in F1
      OBVIOUS
    <3> QED BY <3>2
  <2>4. s \subseteq Step(s) /\ Step(s) \in Orbit(Step(s))
    BY <1>1, <1>2
  <2> HIDE DEF Orbit, Step
  <2> QED BY <2>2, <2>3, <2>4
<1> HIDE DEF Orbit
<1>6. grow = [s \in P |-> IF more[s] = {} THEN s ELSE grow[s \cup more[s]]]
  <2> SUFFICES ASSUME NEW s \in P
               PROVE  UNION Orbit(s) = IF more[s] = {} THEN s ELSE grow[s \cup more[s]]
    OBVIOUS
  <2>1. grow[Step(s)] = UNION Orbit(Step(s))
    BY <1>1
  <2> QED BY <1>3, <1>5, <2>1
<1> QED BY <1>6

LEMMA GrownIs ==
  ASSUME NEW more \in [SUBSET Package -> SUBSET Package], NEW s \in SUBSET Package
  PROVE  Grown(more, s) = IF more[s] = {} THEN s ELSE Grown(more, s \cup more[s])
<1> DEFINE g == CHOOSE f : f = [e \in SUBSET Package |-> IF more[e] = {} THEN e ELSE f[e \cup more[e]]]
<1>1. g = [e \in SUBSET Package |-> IF more[e] = {} THEN e ELSE g[e \cup more[e]]]
  BY GrowthExists
<1>2. \A e : Grown(more, e) = g[e]
  BY DEF Grown
<1> HIDE DEF g
<1>3. s \cup more[s] \in SUBSET Package
  OBVIOUS
<1> QED BY <1>1, <1>2, <1>3

(* What holds of a set and is kept by each turn of the loop holds at its end,  *)
(* where there is nothing to add.                                              *)
LEMMA GrownEnds ==
  ASSUME IsFiniteSet(Package),
         NEW more \in [SUBSET Package -> SUBSET Package],
         NEW Good \in SUBSET SUBSET Package,
         \A e \in Good : more[e] # {} => e \cup more[e] \in Good /\ more[e] \cap e = {},
         NEW s \in Good
  PROVE  /\ Grown(more, s) \in Good /\ more[Grown(more, s)] = {}
         /\ s \subseteq Grown(more, s)
<1> DEFINE Ends(e) == /\ Grown(more, e) \in Good /\ more[Grown(more, e)] = {}
                      /\ e \subseteq Grown(more, e)
           Left(e) == Cardinality(Package \ e)
           Wrong == {e \in Good : ~Ends(e)}
<1>1. SUFFICES ASSUME Wrong # {} PROVE FALSE
  OBVIOUS
<1>2. \A e \in Wrong : Left(e) \in Nat
  BY FS_Subset, FS_CardinalityType
<1>3. PICK e \in Wrong : \A d \in Wrong : Left(e) <= Left(d)
  <2> DEFINE N == {Left(d) : d \in Wrong}
  <2>1. N \in SUBSET Nat /\ N # {}
    <3> HIDE DEF Left, Wrong
    <3> QED BY <1>1, <1>2
  <2>2. PICK n \in N : \A k \in N : n <= k
    <3> HIDE DEF N
    <3> QED BY <2>1, LeastNumber
  <2> HIDE DEF Left, Wrong
  <2> QED BY <2>2
<1>4. more[e] # {}
  <2> SUFFICES ASSUME more[e] = {} PROVE Ends(e)
    OBVIOUS
  <2>1. Grown(more, e) = e
    BY GrownIs
  <2> QED BY <2>1
<1> DEFINE d == e \cup more[e]
<1>5. d \in Good /\ e \subseteq d /\ d # e
  BY <1>4
<1>6. Grown(more, e) = Grown(more, d)
  BY <1>4, GrownIs
<1>7. ~Ends(d)
  BY <1>5, <1>6
<1>8. Left(d) < Left(e)
  <2>1. Package \ d \in SUBSET (Package \ e) /\ Package \ d # Package \ e
    BY <1>5
  <2>2. IsFiniteSet(Package \ e) /\ Left(e) \in Nat
    BY FS_Subset, FS_CardinalityType
  <2>3. IsFiniteSet(Package \ d)
    BY <2>1, <2>2, FS_Subset
  <2>4. Left(d) <= Left(e) /\ Left(d) # Left(e) /\ Left(d) \in Nat
    BY <2>1, <2>2, <2>3, FS_Subset, FS_CardinalityType
  <2> QED BY <2>2, <2>4
<1> QED BY <1>2, <1>3, <1>5, <1>7, <1>8

(* The same for a loop over a sequence: it goes through the sets that n        *)
(* elements of it lead to, for each n.                                         *)
Passes(f, step, order, set, N) ==
  f = [n \in 0 .. N |-> IF n = 0 THEN set ELSE step[order[n]][f[n - 1]]]

LEMMA PassExists ==
  ASSUME NEW step, NEW order, NEW set, NEW N \in Nat
  PROVE  \E f : Passes(f, step, order, set, N)
<1> DEFINE Solves(f, k) == f = [n \in 0 .. k |-> IF n = 0 THEN set ELSE step[order[n]][f[n - 1]]]
<1>1. \E f : Solves(f, 0)
  <2>1. Solves([n \in 0 .. 0 |-> set], 0)
    OBVIOUS
  <2> HIDE DEF Solves
  <2> QED BY <2>1
<1>2. ASSUME NEW k \in 1 .. N, NEW f, Solves(f, k - 1) PROVE \E g : Solves(g, k)
  <2> DEFINE g == [n \in 0 .. k |-> IF n = k THEN step[order[k]][f[k - 1]] ELSE f[n]]
  <2>1. \A n \in 0 .. k - 1 : f[n] = IF n = 0 THEN set ELSE step[order[n]][f[n - 1]]
    BY <1>2
  <2>2. ASSUME NEW n \in 0 .. k
        PROVE  g[n] = IF n = 0 THEN set ELSE step[order[n]][g[n - 1]]
    <3>1. CASE n = k
      <4>1. k \in Nat /\ n # 0 /\ n - 1 = k - 1 /\ k - 1 \in 0 .. k /\ k - 1 # k
        BY <3>1
      <4>2. g[k - 1] = f[k - 1]
        BY <4>1
      <4>3. g[n] = step[order[k]][f[k - 1]]
        BY <3>1
      <4> HIDE DEF g
      <4> QED BY <3>1, <4>1, <4>2, <4>3
    <3>2. CASE n # k
      <4>1. /\ k \in Nat /\ n \in 0 .. k - 1
            /\ n # 0 => n - 1 \in 0 .. k /\ n - 1 # k
        BY <3>2
      <4>2. g[n] = f[n]
        BY <3>2
      <4>3. n # 0 => g[n - 1] = f[n - 1]
        BY <4>1
      <4> HIDE DEF g
      <4> QED BY <2>1, <4>1, <4>2, <4>3
    <3> QED BY <3>1, <3>2
  <2>3. Solves(g, k)
    <3>1. g = [n \in 0 .. k |-> g[n]]
      OBVIOUS
    <3> HIDE DEF g
    <3> QED BY <2>2, <3>1
  <2> HIDE DEF Solves, g
  <2> QED BY <2>3
<1> HIDE DEF Solves
<1> DEFINE Wrong == {k \in 0 .. N : ~\E f : Solves(f, k)}
<1>3. Wrong = {}
  <2>1. SUFFICES ASSUME Wrong # {} PROVE FALSE
    OBVIOUS
  <2>2. Wrong \in SUBSET Nat
    OBVIOUS
  <2>3. PICK k \in Wrong : \A j \in Wrong : k <= j
    <3> HIDE DEF Wrong
    <3> QED BY <2>1, <2>2, LeastNumber
  <2>4. k \in 1 .. N /\ k - 1 \in 0 .. N /\ k - 1 \notin Wrong
    BY <1>1, <2>3
  <2> QED BY <1>2, <2>3, <2>4
<1>4. \E f : Solves(f, N)
  BY <1>3
<1> QED BY <1>4 DEF Solves, Passes

StepsKeep(step, order, Good, N) ==
  \A n \in 1 .. N : \A D \in Good[n - 1] : step[order[n]][D] \in Good[n]

LEMMA ThroughKeeps ==
  ASSUME NEW step, NEW order, NEW set, NEW N \in Nat, Len(order) = N,
         NEW Good, set \in Good[0], StepsKeep(step, order, Good, N)
  PROVE  Through(step, order, set) \in Good[N]
<1>1. PICK u : Passes(u, step, order, set, N) /\ Through(step, order, set) = u[N]
  <2>1. \E f : Passes(f, step, order, set, N)
    BY PassExists
  <2> DEFINE f == CHOOSE g : Passes(g, step, order, set, N)
  <2>2. Passes(f, step, order, set, N)
    BY <2>1
  <2>3. Through(step, order, set) = f[N]
    BY DEF Through, Passes
  <2> QED BY <2>2, <2>3
<1>2. \A n \in 0 .. N : u[n] = IF n = 0 THEN set ELSE step[order[n]][u[n - 1]]
  BY <1>1 DEF Passes
<1> DEFINE Wrong == {n \in 0 .. N : ~(u[n] \in Good[n])}
<1>3. Wrong = {}
  <2>1. SUFFICES ASSUME Wrong # {} PROVE FALSE
    OBVIOUS
  <2>2. Wrong \in SUBSET Nat
    OBVIOUS
  <2>3. PICK n \in Wrong : \A j \in Wrong : n <= j
    <3> HIDE DEF Wrong
    <3> QED BY <2>1, <2>2, LeastNumber
  <2>4. n # 0
    BY <1>2, <2>3
  <2>5. n \in 1 .. N /\ n - 1 \in 0 .. N /\ n - 1 \notin Wrong
    BY <2>3, <2>4
  <2>6. u[n - 1] \in Good[n - 1] /\ u[n] = step[order[n]][u[n - 1]]
    BY <1>2, <2>4, <2>5
  <2>7. u[n] \in Good[n]
    BY <2>5, <2>6 DEF StepsKeep
  <2> QED BY <2>3, <2>7
<1> QED BY <1>1, <1>3

-----------------------------------------------------------------------------
(* What the model's loops add.                                                 *)
LEMMA DependsAre ==
  ASSUME NEW p \in Package, NEW a \in Depends[p]
  PROVE  a \in Seq(Package) /\ a # <<>> /\ ToSet(a) \subseteq Package /\ Head(a) \in ToSet(a)
<1>1. a \in Seq(Package) /\ a # <<>>
  BY GraphAssumption
<1>2. Head(a) = a[1] /\ 1 \in DOMAIN a
  BY <1>1, EmptySeq, LenProperties
<1>3. \A i \in DOMAIN a : a[i] \in Package
  BY <1>1, ElementOfSeq, LenProperties
<1> QED BY <1>1, <1>2, <1>3 DEF ToSet

(* mark_install keeps what is installed and marks what it was asked for.       *)
LEMMA InstallsWhatWasAsked ==
  ASSUME NEW installed \in SUBSET Package, NEW asked \in SUBSET Package
  PROVE  /\ WithDependencies(installed, asked) \in SUBSET Package
         /\ installed \cup asked \subseteq WithDependencies(installed, asked)
<1> DEFINE Add(now) == {Head(a) : a \in UNION {{b \in Depends[p] : ToSet(b) \cap now = {}} : p \in now}}
           more == [now \in SUBSET Package |-> Add(now)]
           s == installed \cup asked
<1>1. \A now \in SUBSET Package : Add(now) \in SUBSET Package /\ Add(now) \cap now = {}
  BY DependsAre
<1>2. more \in [SUBSET Package -> SUBSET Package]
  BY <1>1
<1>3. WithDependencies(installed, asked) = Grown(more, s)
  BY DEF WithDependencies
<1>5. \A now \in SUBSET Package : more[now] = Add(now)
  OBVIOUS
<1> HIDE DEF Add, more
<1>6. /\ Grown(more, s) \in SUBSET Package
      /\ s \subseteq Grown(more, s)
  <2>1. PICK Good : Good = SUBSET Package
    OBVIOUS
  <2>2. Good \in SUBSET SUBSET Package /\ s \in Good /\ IsFiniteSet(Package)
    BY <2>1, GraphAssumption
  <2>3. \A e \in Good : more[e] # {} => e \cup more[e] \in Good /\ more[e] \cap e = {}
    BY <1>1, <1>5, <2>1
  <2> HIDE DEF s
  <2>4. Grown(more, s) \in Good /\ s \subseteq Grown(more, s)
    BY <1>2, <2>2, <2>3, GrownEnds
  <2> QED BY <2>1, <2>4
<1> QED BY <1>3, <1>6

LEMMA NeededIsThere ==
  ASSUME NEW p \in Package, NEW installed \in SUBSET Package
  PROVE  Needed(p, installed) \in SUBSET Package /\ Needed(p, installed) \subseteq installed
BY DEF Needed, FirstInstalled

(* Whatever a member needs of remove is a member. *)
Supplied(kept, installed, remove) ==
  \A p \in kept \cap installed : Needed(p, installed) \cap remove \subseteq kept

(* expand_dependencies_simple: it keeps what it is given, adds only what is    *)
(* installed and to be removed, and ends when all that is kept is supplied;    *)
(* whatever else holds the given packages and is supplied holds all of it.     *)
LEMMA ExpandedAre ==
  ASSUME NEW installed \in SUBSET Package, NEW keep \in SUBSET Package, NEW remove \in SUBSET Package
  PROVE  /\ ExpandDependencies(installed, keep, remove) \in SUBSET Package
         /\ keep \subseteq ExpandDependencies(installed, keep, remove)
         /\ ExpandDependencies(installed, keep, remove) \ keep \subseteq installed \cap remove
         /\ Supplied(ExpandDependencies(installed, keep, remove), installed, remove)
         /\ \A Y \in SUBSET Package : keep \subseteq Y /\ Supplied(Y, installed, remove)
               => ExpandDependencies(installed, keep, remove) \subseteq Y
<1> DEFINE Add(e) == ((UNION {Needed(p, installed) : p \in e \cap installed}) \cap remove) \ e
           more == [e \in SUBSET Package |-> Add(e)]
           X == ExpandDependencies(installed, keep, remove)
<1>1. X = Grown(more, keep)
  BY DEF ExpandDependencies
<1>2. ASSUME NEW e \in SUBSET Package
      PROVE  /\ Add(e) \in SUBSET remove /\ Add(e) \cap e = {} /\ Add(e) \subseteq installed
             /\ \A x : x \in Add(e) <=> /\ x \in remove /\ x \notin e
                                      /\ \E p \in e \cap installed : x \in Needed(p, installed)
  <2>1. \A p \in e \cap installed : Needed(p, installed) \subseteq installed
    BY NeededIsThere
  <2>2. PICK U : U = UNION {Needed(p, installed) : p \in e \cap installed}
    OBVIOUS
  <2>3. \A x : x \in U <=> \E p \in e \cap installed : x \in Needed(p, installed)
    BY <2>2, Zenon
  <2>4. Add(e) = (U \cap remove) \ e
    BY <2>2
  <2> QED BY <2>1, <2>3, <2>4
<1> HIDE DEF Add
<1>3. \A e \in SUBSET Package : Add(e) = {} => Supplied(e, installed, remove)
  BY <1>2 DEF Supplied
<1>4. ASSUME NEW e \in SUBSET Package, NEW Y \in SUBSET Package,
             e \subseteq Y, Supplied(Y, installed, remove)
      PROVE  Add(e) \subseteq Y
  <2>1. \A p \in e \cap installed : Needed(p, installed) \cap remove \subseteq Y
    BY <1>4 DEF Supplied
  <2> QED BY <1>2, <2>1
<1>5. \A e \in SUBSET Package : more[e] = Add(e)
  OBVIOUS
<1>6. more \in [SUBSET Package -> SUBSET Package]
  <2>1. \A e \in SUBSET Package : Add(e) \in SUBSET Package
    BY <1>2
  <2> HIDE DEF Add
  <2> QED BY <2>1
<1>7. IsFiniteSet(Package)
  BY GraphAssumption
<1> HIDE DEF more, X
<1>8. ASSUME NEW Y \in SUBSET Package, keep \subseteq Y,
             \A e \in SUBSET Package : e \subseteq Y => Add(e) \subseteq Y
      PROVE  X \in SUBSET Package /\ X \subseteq Y /\ keep \subseteq X /\ Add(X) = {}
  <2>1. PICK Good : Good = SUBSET Y
    OBVIOUS
  <2>2. Good \in SUBSET SUBSET Package /\ keep \in Good
    BY <1>8, <2>1
  <2>3. \A e \in Good : more[e] # {} => e \cup more[e] \in Good /\ more[e] \cap e = {}
    BY <1>2, <1>5, <1>8, <2>1, <2>2
  <2>4. Grown(more, keep) \in Good /\ more[Grown(more, keep)] = {} /\ keep \subseteq Grown(more, keep)
    BY <1>6, <1>7, <2>2, <2>3, GrownEnds
  <2> QED BY <1>1, <1>5, <2>1, <2>2, <2>4
<1>9. X \in SUBSET Package /\ keep \subseteq X /\ X \subseteq keep \cup (installed \cap remove) /\ Add(X) = {}
  <2>1. keep \cup (installed \cap remove) \in SUBSET Package
    OBVIOUS
  <2>2. \A e \in SUBSET Package : Add(e) \subseteq keep \cup (installed \cap remove)
    BY <1>2
  <2> QED BY <1>8, <2>1, <2>2
<1>10. ASSUME NEW Y \in SUBSET Package, keep \subseteq Y, Supplied(Y, installed, remove)
       PROVE  X \subseteq Y
  BY <1>4, <1>8, <1>10
<1>11. X \in SUBSET Package /\ keep \subseteq X /\ X \ keep \subseteq installed \cap remove
       /\ Supplied(X, installed, remove)
  BY <1>3, <1>9
<1> QED BY <1>10, <1>11 DEF X

(* A deletion drags nothing along that apt refuses to delete. *)
LEMMA DraggedIs ==
  ASSUME NEW installed \in SUBSET Package, NEW E \in SUBSET Package, NEW p \in Package,
         NEW remove, NEW recursive \in BOOLEAN
  PROVE  LET marked == Dragged(installed, E, p, remove, recursive)
         IN  /\ marked \in SUBSET Package /\ E \cup {p} \subseteq marked
             /\ marked \cap Held \subseteq (E \cup {p})
             /\ ~recursive => marked \subseteq E \cup {p} \cup remove
<1> DEFINE more == [marked \in SUBSET Package |->
                      LET b == Broken(installed \ marked)
                      IN  IF b \cap Held = {} /\ (recursive \/ b \subseteq remove) THEN b ELSE {}]
           s == E \cup {p}
           G == {M \in SUBSET Package : M \cap Held \subseteq s /\ (~recursive => M \subseteq s \cup remove)}
<1>1. \A M \in SUBSET Package : Broken(installed \ M) \subseteq installed \ M
  BY DEF Broken
<1>2. \A M \in SUBSET Package : /\ more[M] \in SUBSET Package /\ more[M] \cap M = {} /\ more[M] \cap Held = {}
                                /\ ~recursive => more[M] \subseteq remove
  BY <1>1
<1>3. more \in [SUBSET Package -> SUBSET Package]
  BY <1>1
<1>4. Dragged(installed, E, p, remove, recursive) = Grown(more, s)
  BY DEF Dragged
<1>5. s \in G /\ G \in SUBSET SUBSET Package
  OBVIOUS
<1> HIDE DEF more
<1>6. \A M \in G : more[M] # {} => M \cup more[M] \in G /\ more[M] \cap M = {}
  BY <1>2
<1> HIDE DEF G
<1>7. IsFiniteSet(Package)
  BY GraphAssumption
<1>8. Grown(more, s) \in G /\ s \subseteq Grown(more, s)
  BY <1>3, <1>5, <1>6, <1>7, GrownEnds
<1> QED BY <1>4, <1>8 DEF G

LEMMA RemovedOrNot ==
  ASSUME NEW installed \in SUBSET Package, NEW D \in SUBSET Package, NEW p \in Package,
         NEW remove, NEW recursive
  PROVE  TryRemove(installed, D, p, remove, recursive) = D
           \/ Broken(installed \ TryRemove(installed, D, p, remove, recursive)) = {}
BY DEF TryRemove

(* A set enumerated in the one order that SetToSeq picks. *)
LEMMA SequenceOfSet ==
  ASSUME NEW S \in SUBSET Package
  PROVE  /\ Len(SetToSeq(S)) \in Nat
         /\ \A n \in 1 .. Len(SetToSeq(S)) : SetToSeq(S)[n] \in S
<1>1. PICK N \in Nat : N = Cardinality(S) /\ ExistsBijection(1 .. N, S)
  BY GraphAssumption, FS_Subset, FS_CardinalityType
<1>2. PICK f \in [1 .. N -> S] : IsInjective(f)
  BY <1>1 DEF ExistsBijection, Bijection, Injection
<1>3. SetToSeq(S) \in [1 .. N -> S]
  BY <1>1, <1>2 DEF SetToSeq
<1>4. SetToSeq(S) \in Seq(S) /\ DOMAIN SetToSeq(S) = 1 .. N
  BY <1>3, SeqDef
<1>5. Len(SetToSeq(S)) \in Nat /\ 1 .. Len(SetToSeq(S)) = 1 .. N
  BY <1>4, LenProperties
<1> QED BY <1>3, <1>5

(* generate_blacklist: it names only packages it may name and apt deletes, and *)
(* a system with nothing broken has nothing broken without them.               *)
LEMMA ConfirmedAre ==
  ASSUME NEW installed \in SUBSET Package, NEW S \in SUBSET Package
  PROVE  /\ Confirmed(installed, S) \subseteq S /\ Confirmed(installed, S) \cap Held = {}
         /\ Broken(installed) = {} => Broken(installed \ Confirmed(installed, S)) = {}
<1> DEFINE step == [p \in Package |-> [D \in SUBSET Package |-> Confirm(installed, D, p, S)]]
           G == {D \in SUBSET Package :
                   D \subseteq S /\ D \cap Held = {} /\ (Broken(installed) = {} => Broken(installed \ D) = {})}
<1>1. PICK order, N : /\ order = SetToSeq(S) /\ N = Len(order) /\ N \in Nat
                      /\ \A n \in 1 .. N : order[n] \in Package
  BY SequenceOfSet
<1>2. PICK Good : Good = [n \in 0 .. N |-> G]
  OBVIOUS
<1>3. {} \in G
  <2>1. installed \ {} = installed
    OBVIOUS
  <2> QED BY <2>1
<1>4. ASSUME NEW D \in G, NEW p \in Package PROVE step[p][D] \in G
  <2>1. step[p][D] = Confirm(installed, D, p, S)
    OBVIOUS
  <2>2. Confirm(installed, D, p, S) = D
        \/ (Confirm(installed, D, p, S) \subseteq S
             /\ Confirm(installed, D, p, S) = TryRemove(installed, D, p, {p}, TRUE))
    BY DEF Confirm
  <2>3. Confirm(installed, D, p, S) = D \/ Broken(installed \ Confirm(installed, D, p, S)) = {}
    BY <2>2, RemovedOrNot
  <2>4. Confirm(installed, D, p, S) \cap Held = {}
    <3>1. PICK marked : marked = Dragged(installed, D, p, {p}, TRUE)
      OBVIOUS
    <3>2. p \notin Held => marked \cap Held = {}
      <4>1. PICK r \in BOOLEAN : r = TRUE
        OBVIOUS
      <4>2. D \in SUBSET Package /\ D \cap Held = {}
        OBVIOUS
      <4> HIDE DEF step, G
      <4>3. Dragged(installed, D, p, {p}, r) \cap Held \subseteq D \cup {p}
        BY <4>2, DraggedIs
      <4> QED BY <3>1, <4>1, <4>2, <4>3
    <3>3. TryRemove(installed, D, p, {p}, TRUE) = D
          \/ (p \notin Held /\ TryRemove(installed, D, p, {p}, TRUE) = marked)
      BY <3>1 DEF TryRemove
    <3> QED BY <2>2, <3>2, <3>3
  <2> HIDE DEF step
  <2> QED BY <2>1, <2>2, <2>3, <2>4
<1>5. Confirmed(installed, S) = Through(step, order, {})
  BY <1>1 DEF Confirmed
<1> HIDE DEF step, G
<1>6. {} \in Good[0] /\ StepsKeep(step, order, Good, N)
  <2>1. 0 \in 0 .. N /\ \A n \in 1 .. N : n - 1 \in 0 .. N /\ n \in 0 .. N
    BY <1>1
  <2> QED BY <1>1, <1>2, <1>3, <1>4, <2>1 DEF StepsKeep
<1>7. Through(step, order, {}) \in Good[N]
  BY <1>1, <1>6, ThroughKeeps
<1>8. Good[N] = G
  BY <1>1, <1>2
<1> QED BY <1>5, <1>7, <1>8 DEF G

LEMMA BlacklistFits ==
  ASSUME NEW difference \in SUBSET Package, NEW keep \in SUBSET Package,
         NEW installed \in SUBSET Package
  PROVE  /\ Blacklist(installed, difference, keep) \subseteq difference
         /\ Blacklist(installed, difference, keep) \cap Held = {}
         /\ Blacklist(installed, difference, keep) \cap ExpandDependencies(installed, keep, difference) = {}
         /\ Broken(installed) = {} => Broken(installed \ Blacklist(installed, difference, keep)) = {}
<1>1. PICK X : X = ExpandDependencies(installed, keep, difference)
  OBVIOUS
<1>2. PICK S \in SUBSET Package : S = (difference \ X) \ Prerm
  OBVIOUS
<1>3. Blacklist(installed, difference, keep) = Confirmed(installed, S)
  BY <1>1, <1>2 DEF Blacklist
<1>4. PICK list : list = Confirmed(installed, S)
  OBVIOUS
<1>5. /\ list \subseteq S /\ list \cap Held = {}
      /\ Broken(installed) = {} => Broken(installed \ list) = {}
  BY <1>4, ConfirmedAre
<1> QED BY <1>1, <1>2, <1>3, <1>4, <1>5

-----------------------------------------------------------------------------
(* What is to be copied *)

LEMMA CopyKeepsRequests ==
  ASSUME Copying, ~Prepare
  PROVE  /\ UNCHANGED requestVars /\ (stage' = "mount" => stage = "mount")
         /\ stage = "init" => stage' = "init"
<1>1. CASE MountSource \/ MountFails \/ StartCopy \/ UnmountSource \/ NothingToUnmount
  BY <1>1 DEF MountSource, MountFails, StartCopy, UnmountSource, NothingToUnmount, Fails
<1>2. CASE Skip \/ MakeRoom \/ Create \/ Mismatch \/ Retry
  BY <1>2 DEF Skip, MakeRoom, Create, Mismatch, Retry, Fails
<1>3. CASE SetMetadata \/ CopyFails \/ FinishCopy
  BY <1>3 DEF SetMetadata, CopyFails, FinishCopy, Fails
<1>4. CASE KillUpdater \/ UpdaterMakesDir \/ UpdaterEnds
  BY <1>4 DEF KillUpdater, UpdaterMakesDir, UpdaterEnds
<1> QED BY <1>1, <1>2, <1>3, <1>4 DEF Copying, CopyNext

LEMMA PrepareDecides ==
  ASSUME Prepare, stage' = "mount", Broken(Live) = {}
  PROVE  NoFilesMissing'
<1>1. PICK extra \in SUBSET Optional, generate \in BOOLEAN :
        /\ installs' = Langpacks \cup AdTools \cup extra
        /\ unwanted' \in {Unwanted, {}} /\ restricted' \in {Restricted, {}}
        /\ blacklist' = IF generate
                          THEN Blacklist(Live, unwanted' \cup (restricted' \cap Live),
                                         (Langpacks \cup AdTools \cup extra) \cup Grub)
                          ELSE {}
  BY DEF Prepare
<1>2. PICK difference, keep : /\ difference = unwanted' \cup (restricted' \cap Live)
                             /\ keep = (Langpacks \cup AdTools \cup extra) \cup Grub
  OBVIOUS
<1>3. difference \in SUBSET Package /\ keep \in SUBSET Package /\ Live \in SUBSET Package
  BY <1>1, <1>2, RequestsAssumption
<1>4. CASE generate
  <2>1. blacklist' = Blacklist(Live, difference, keep)
    BY <1>1, <1>2, <1>4
  <2>2. keep \subseteq ExpandDependencies(Live, keep, difference)
    BY <1>3, ExpandedAre
  <2>3. blacklist' \cap keep = {} /\ Broken(Live \ blacklist') = {}
    BY <1>3, <2>1, <2>2, BlacklistFits
  <2> QED BY <1>1, <1>2, <2>3 DEF NoFilesMissing, Broken
<1>5. CASE ~generate
  <2>1. blacklist' = {} /\ Live \ {} = Live
    BY <1>1, <1>5
  <2> QED BY <2>1 DEF NoFilesMissing, Broken
<1> QED BY <1>4, <1>5

(* What the user asked to keep is copied with all it needs, and no copied  *)
(* program lacks a library that was blacklisted (generate_blacklist,       *)
(* get_remove_list), whatever the manifests name and whatever packages     *)
(* depend on, provided that nothing is broken in the live system itself.   *)
THEOREM NothingIsMissing ==
  ASSUME Broken(Live) = {}
  PROVE  Spec => []NoFilesMissing
<1> DEFINE Inv == CopyFits /\ NoFilesMissing
<1>1. Init => Inv
  BY CopyFitsAtFirst DEF Init, CopyInit, NoFilesMissing
<1>2. ASSUME Inv, [Next]_installationVars PROVE Inv'
  <2> SUFFICES NoFilesMissing'
    BY <1>2, CopyFitsNext
  <2>1. ASSUME stage' # "mount" PROVE NoFilesMissing'
    BY <2>1 DEF NoFilesMissing
  <2>2. ASSUME UNCHANGED requestVars, stage' = "mount" => stage = "mount" PROVE NoFilesMissing'
    BY <1>2, <2>2 DEF NoFilesMissing, requestVars, Broken
  <2>3. CASE Copying /\ Prepare
    BY <2>1, <2>3, PrepareDecides
  <2>4. CASE Copying /\ ~Prepare
    BY <2>2, <2>4, CopyKeepsRequests
  <2>5. CASE Handover
    BY <2>1, <2>5 DEF Handover
  <2>6. CASE Finishing
    <3>1. stage = "over" /\ stage' = stage
      BY <1>2, <2>6, FinishingIsLate DEF Finishing, copyStageVars, CopyFits
    <3> QED BY <2>1, <3>1
  <2>7. CASE UNCHANGED installationVars
    BY <2>2, <2>7 DEF installationVars, copyStageVars
  <2> QED BY <1>2, <2>3, <2>4, <2>5, <2>6, <2>7 DEF Next
<1> QED BY <1>1, <1>2, PTL DEF Spec

-----------------------------------------------------------------------------
(* Packages of the target *)

Dpkg == [installed : SUBSET Package, auto : SUBSET Package, hollow : SUBSET Package,
         broken : BOOLEAN]

LEMMA CompletedIs ==
  ASSUME dpkg \in Dpkg, NEW packages \in SUBSET Package, NEW now \in SUBSET Package
  PROVE  /\ Completed(dpkg, packages, now) \in Dpkg
         /\ Completed(dpkg, packages, now).installed = now
         /\ Completed(dpkg, packages, now).broken = dpkg.broken
         /\ Completed(dpkg, packages, now).hollow = dpkg.hollow
<1>1. PICK auto \in SUBSET Package : auto = dpkg.auto \cup (now \ (dpkg.installed \cup packages))
  BY DEF Dpkg
<1>2. Completed(dpkg, packages, now) = [dpkg EXCEPT !.installed = now, !.auto = auto]
  BY <1>1 DEF Completed
<1> QED BY <1>1, <1>2 DEF Dpkg

LEMMA MarkedIs ==
  ASSUME dpkg \in Dpkg, NEW packages \in SUBSET Package
  PROVE  /\ Marked(dpkg, packages) \in SUBSET Package
         /\ packages \ Missing \subseteq Marked(dpkg, packages)
<1>1. PICK there \in SUBSET Package : there = dpkg.installed
  BY DEF Dpkg
<1>2. PICK asked \in SUBSET Package : asked = packages \cap InCache(dpkg)
  OBVIOUS
<1>3. packages \ Missing \subseteq asked
  BY <1>2 DEF InCache
<1>4. Marked(dpkg, packages) = WithDependencies(there, asked)
  BY <1>1, <1>2 DEF Marked
<1>5. /\ WithDependencies(there, asked) \in SUBSET Package
      /\ there \cup asked \subseteq WithDependencies(there, asked)
  BY InstallsWhatWasAsked
<1> QED BY <1>3, <1>4, <1>5

(* What do_install may end with; only a run of dpkg that fails breaks any. *)
LEMMA InstallEndsFit ==
  ASSUME dpkg \in Dpkg, NEW packages \in SUBSET Package,
         NEW wrong \in {{}, {"kept back"}, {"download"}, {"dpkg"}}, NEW d \in InstallEnds(dpkg, packages, wrong)
  PROVE  /\ d \in Dpkg /\ (d.broken => dpkg.broken \/ "dpkg" \in wrong)
         /\ d.hollow = dpkg.hollow
         /\ wrong = {} => packages \ Missing \subseteq d.installed
<1>1. PICK all, marked, after :
        /\ all = Marked(dpkg, packages)
        /\ marked = IF wrong = {} THEN {all} ELSE KeptBack(dpkg, packages)
        /\ after = Changed(dpkg, packages, marked)
  OBVIOUS
<1>2. all \in SUBSET Package /\ packages \ Missing \subseteq all
  BY <1>1, MarkedIs
<1>3. marked \subseteq SUBSET Package
  <2>1. dpkg.installed \in SUBSET Package
    BY DEF Dpkg
  <2>2. KeptBack(dpkg, packages) \subseteq SUBSET Package
    BY <1>1, <1>2, <2>1 DEF KeptBack
  <2> QED BY <1>1, <1>2, <2>2
<1>4. ASSUME NEW e \in after
      PROVE  /\ e \in Dpkg /\ e.broken = dpkg.broken /\ e.hollow = dpkg.hollow
             /\ wrong = {} => packages \ Missing \subseteq e.installed
  <2>1. PICK now \in marked : e = Completed(dpkg, packages, now)
    BY <1>1, <1>4 DEF Changed
  <2>2. /\ e \in Dpkg /\ e.broken = dpkg.broken /\ e.hollow = dpkg.hollow /\ e.installed = now
    BY <1>3, <2>1, CompletedIs
  <2>3. wrong = {} => now = all
    BY <1>1, <2>1
  <2> QED BY <1>2, <2>2, <2>3
<1>5. {"download"} # {"dpkg"} /\ {"download"} # {} /\ {"dpkg"} # {}
  OBVIOUS
<1>6. InstallEnds(dpkg, packages, wrong) =
        IF wrong = {"download"} THEN {dpkg}
        ELSE after \cup {[e EXCEPT !.broken = TRUE] : e \in {e \in after : "dpkg" \in wrong}}
  BY <1>1 DEF InstallEnds
<1>7. CASE wrong = {"download"}
  <2>1. d = dpkg
    BY <1>6, <1>7
  <2> QED BY <1>5, <1>7, <2>1
<1>8. CASE wrong # {"download"} /\ d \in after
  BY <1>4, <1>8
<1>9. CASE wrong # {"download"} /\ d \notin after
  <2>1. PICK e \in after : d = [e EXCEPT !.broken = TRUE] /\ "dpkg" \in wrong
    BY <1>6, <1>9
  <2>2. d \in Dpkg /\ d.hollow = dpkg.hollow
    BY <1>4, <2>1 DEF Dpkg
  <2> QED BY <2>1, <2>2
<1> QED BY <1>7, <1>8, <1>9

(* do_install, and what do_install's chroot does to the target's root. *)
LEMMA InstallLeaves ==
  ASSUME dpkg \in Dpkg, NEW packages \in SUBSET Package, NEW end, DoInstall(packages, end)
  PROVE  /\ dpkg' \in Dpkg /\ trouble \subseteq trouble' /\ dpkg'.hollow = dpkg.hollow
         /\ dpkg'.broken => dpkg.broken \/ "dpkg" \in trouble'
         /\ dpkg.broken \/ end = "conflict" => UNCHANGED <<dpkg, root>>
         /\ ~dpkg.broken /\ end = "ok" => root' = InChroot(root, FALSE)
         /\ ~dpkg.broken /\ end = "ok" /\ trouble' \cap {"kept back", "download", "dpkg"} = {}
              => packages \ Missing \subseteq dpkg'.installed
<1>1. CASE dpkg.broken \/ end = "conflict"
  BY <1>1 DEF DoInstall
<1>2. CASE ~dpkg.broken /\ end # "conflict"
  <2>1. PICK wrong \in {{}, {"kept back"}, {"download"}, {"dpkg"}} :
          /\ end = "ok" /\ root' = InChroot(root, FALSE)
          /\ dpkg' \in InstallEnds(dpkg, packages, wrong) /\ trouble' = trouble \cup wrong
    BY <1>2 DEF DoInstall
  <2>2. /\ dpkg' \in Dpkg /\ (dpkg'.broken => dpkg.broken \/ "dpkg" \in wrong)
        /\ dpkg'.hollow = dpkg.hollow
        /\ wrong = {} => packages \ Missing \subseteq dpkg'.installed
    BY <2>1, InstallEndsFit
  <2>3. trouble' \cap {"kept back", "download", "dpkg"} = {} => wrong = {}
    BY <2>1
  <2> QED BY <1>2, <2>1, <2>2, <2>3
<1> QED BY <1>1, <1>2

LEMMA RemainingFit ==
  ASSUME dpkg \in Dpkg, NEW packages, NEW recursive, NEW d \in Remaining(dpkg, packages, recursive)
  PROVE  /\ d \in Dpkg /\ d.broken = dpkg.broken /\ d.installed \subseteq dpkg.installed
         /\ d.hollow \subseteq dpkg.hollow
<1>1. PICK order, kept, rest :
        /\ order \in Orders(packages \cap dpkg.installed)
        /\ kept = dpkg.installed \ RemoveList(dpkg.installed, order, recursive)
        /\ rest = kept \ AutoRemovable(kept, dpkg.auto)
        /\ d = [dpkg EXCEPT !.installed = rest, !.auto = @ \cap rest, !.hollow = @ \cap rest]
  BY DEF Remaining
<1>2. rest \subseteq dpkg.installed
  BY <1>1
<1> QED BY <1>1, <1>2 DEF Dpkg

LEMMA RemoveLeaves ==
  ASSUME dpkg \in Dpkg, NEW packages, NEW recursive, DoRemove(packages, recursive)
  PROVE  /\ dpkg' \in Dpkg /\ trouble \subseteq trouble' /\ dpkg'.installed \subseteq dpkg.installed
         /\ dpkg'.hollow \subseteq dpkg.hollow
         /\ dpkg'.broken => dpkg.broken \/ "dpkg" \in trouble'
         /\ dpkg.broken => UNCHANGED <<dpkg, root>>
         /\ ~dpkg.broken => root' = InChroot(root, FALSE)
<1>1. CASE dpkg.broken
  BY <1>1 DEF DoRemove
<1>2. CASE ~dpkg.broken
  <2>1. PICK failure \in SUBSET {"dpkg"} :
          /\ root' = InChroot(root, FALSE)
          /\ dpkg' \in RemoveEnds(packages, recursive, failure) /\ trouble' = trouble \cup failure
    BY <1>2 DEF DoRemove
  <2>2. PICK ends : ends = Remaining(dpkg, packages, recursive)
    OBVIOUS
  <2>3. dpkg' \in ends
        \/ (failure # {} /\ \E b \in BOOLEAN, d \in ends \cup {dpkg} : dpkg' = [d EXCEPT !.broken = b])
    BY <2>1, <2>2 DEF RemoveEnds
  <2>4. \A d \in ends \cup {dpkg} :
          /\ d \in Dpkg /\ d.broken = dpkg.broken
          /\ d.installed \subseteq dpkg.installed /\ d.hollow \subseteq dpkg.hollow
    BY <2>2, RemainingFit
  <2>5. CASE dpkg' \in ends
    BY <1>2, <2>1, <2>4, <2>5
  <2>6. CASE failure # {} /\ \E b \in BOOLEAN, d \in ends \cup {dpkg} : dpkg' = [d EXCEPT !.broken = b]
    <3>1. PICK b \in BOOLEAN, d \in Dpkg :
            /\ dpkg' = [d EXCEPT !.broken = b]
            /\ d.installed \subseteq dpkg.installed /\ d.hollow \subseteq dpkg.hollow
      BY <2>4, <2>6
    <3>2. dpkg' \in Dpkg /\ dpkg'.installed \subseteq dpkg.installed /\ dpkg'.hollow \subseteq dpkg.hollow
      BY <3>1 DEF Dpkg
    <3>3. "dpkg" \in failure
      BY <2>6
    <3> QED BY <1>2, <2>1, <3>2, <3>3
  <2> QED BY <2>3, <2>5, <2>6
<1> QED BY <1>1, <1>2

LEMMA RequestLeaves ==
  ASSUME dpkg \in Dpkg, NEW packages \in SUBSET Package, Request(packages)
  PROVE  /\ dpkg' \in Dpkg /\ trouble \subseteq trouble' /\ dpkg'.hollow = dpkg.hollow
         /\ dpkg'.broken => dpkg.broken \/ "dpkg" \in trouble'
         /\ installs' = installs \cup packages
         /\ UNCHANGED <<removals, blacklist, unwanted, restricted, oem>>
<1>1. PICK wrong \in {{}, {"dpkg"}} :
        /\ dpkg' = dpkg \/ dpkg' \in InstallEnds(dpkg, packages, wrong)
        /\ trouble \cup wrong \subseteq trouble'
  <2>1. PICK wrong \in SUBSET {"dpkg"} :
          /\ dpkg' = dpkg \/ dpkg' \in InstallEnds(dpkg, packages, wrong)
          /\ trouble \cup wrong \subseteq trouble'
    BY DEF Request
  <2>2. wrong = {} \/ wrong = {"dpkg"}
    BY <2>1
  <2> QED BY <2>1, <2>2
<1>2. CASE dpkg' = dpkg
  BY <1>1, <1>2 DEF Request
<1>3. CASE dpkg' \in InstallEnds(dpkg, packages, wrong)
  <2>1. /\ dpkg' \in Dpkg /\ (dpkg'.broken => dpkg.broken \/ "dpkg" \in wrong)
        /\ dpkg'.hollow = dpkg.hollow
    BY <1>1, <1>3, InstallEndsFit
  <2> QED BY <1>1, <2>1 DEF Request
<1> QED BY <1>1, <1>2, <1>3

-----------------------------------------------------------------------------
(* The target's root *)

(* Nothing is mounted but the CD, c times, and /sys, s times. *)
RootWith(c, s) ==
  [mounts |-> [p \in Points |-> IF p = "cdrom" THEN c ELSE IF p = "sys" THEN s ELSE 0],
   diverted |-> {}]

LEMMA RootWithIs ==
  ASSUME NEW c, NEW s
  PROVE  /\ RootWith(c, s).diverted = {} /\ RootWith(c, s).mounts["cdrom"] = c
         /\ RootWith(c, s).mounts["sys"] = s
         /\ \A p \in Points \ {"cdrom", "sys"} : RootWith(c, s).mounts[p] = 0
         /\ DOMAIN RootWith(c, s).mounts = Points
         /\ c = 0 /\ s = 0 => RootWith(c, s).mounts = CleanRoot.mounts
BY DEF RootWith, Points, CleanRoot

RootOf(mounts, diverted) == [mounts |-> mounts, diverted |-> diverted]

LEMMA RootOfIs ==
  ASSUME NEW m, NEW d
  PROVE  RootOf(m, d).mounts = m /\ RootOf(m, d).diverted = d
BY DEF RootOf

LEMMA Mounting ==
  ASSUME NEW m, NEW d, NEW set, NEW result,
         result = [p \in Points |-> IF p \in set /\ (p = "efivars" => Efi) THEN m[p] + 1 ELSE m[p]]
  PROVE  MountAll(RootOf(m, d), set) = RootOf(result, d)
BY DEF MountAll, RootOf

LEMMA Unmounting ==
  ASSUME NEW m, NEW d, NEW set, NEW result,
         result = [p \in Points |->
                     IF p \in set /\ m[p] > 0 /\ ~Busy(RootOf(m, d), p) THEN m[p] - 1 ELSE m[p]]
  PROVE  UmountAll(RootOf(m, d), set) = RootOf(result, d)
BY DEF UmountAll, RootOf

LEMMA Diverting ==
  ASSUME NEW m, NEW d, NEW set, NEW result
  PROVE  /\ result = d \cup set => Divert(RootOf(m, d), set) = RootOf(m, result)
         /\ result = d \ set => Restore(RootOf(m, d), set) = RootOf(m, result)
<1>1. ASSUME result = d \cup set PROVE Divert(RootOf(m, d), set) = RootOf(m, result)
  BY <1>1 DEF Divert, RootOf
<1>2. ASSUME result = d \ set PROVE Restore(RootOf(m, d), set) = RootOf(m, result)
  BY <1>2 DEF Restore, RootOf
<1> QED BY <1>1, <1>2

(* chroot_setup and chroot_cleanup leave the root as it was, but for a /sys *)
(* that was mounted before: chroot_setup spares it, chroot_cleanup does not.*)
LEMMA ChrootIsLeft ==
  ASSUME NEW c \in {0, 1}, NEW s \in {0, 1}, NEW x11
  PROVE  /\ ChrootCleanup(ChrootSetup(RootWith(c, s), x11), x11) = RootWith(c, 0)
         /\ \E m : ChrootSetup(RootWith(c, s), x11) = RootOf(m, Daemons)
<1> DEFINE X == X11(x11)
           M == [p \in Points |-> IF p = "cdrom" THEN c ELSE IF p = "sys" THEN s ELSE 0]
           N == [p \in Points |-> IF p = "cdrom" THEN c ELSE IF p = "sys" THEN 0 ELSE 0]
           there == {p \in {"proc", "sys"} : M[p] > 0}
           up == [p \in Points |-> IF p = "cdrom" THEN c ELSE IF p \in Binds \cup X THEN 1 ELSE 0]
<1>1. X \subseteq {"x11"}
  BY DEF X11
<1>2. there = IF s = 1 THEN {"sys"} ELSE {}
  BY DEF Points
<1>3. RootWith(c, s) = RootOf(M, {}) /\ RootWith(c, 0) = RootOf(N, {})
  BY DEF RootWith, RootOf
<1>4. up = [p \in Points |-> IF p \in (Binds \ there) \cup X /\ (p = "efivars" => Efi)
                               THEN M[p] + 1 ELSE M[p]]
  <2> HIDE DEF X, there
  <2> QED BY <1>1, <1>2 DEF Points, Binds
<1>5. \A p \in Points : ~Busy(RootOf(up, Daemons), p)
  <2>1. up["efivars"] = 0 /\ up["securityfs"] = 0
    <3> HIDE DEF X
    <3> QED BY <1>1 DEF Points, Binds
  <2>2. RootOf(up, Daemons).mounts = up
    BY DEF RootOf
  <2> HIDE DEF up
  <2> QED BY <2>1, <2>2 DEF Busy
<1>6. N = [p \in Points |-> IF p \in Binds \cup X /\ up[p] > 0 /\ ~Busy(RootOf(up, Daemons), p)
                               THEN up[p] - 1 ELSE up[p]]
  <2>1. \A p \in Points :
          (IF p \in Binds \cup X /\ up[p] > 0 THEN up[p] - 1 ELSE up[p]) = N[p]
    <3> HIDE DEF X
    <3> QED BY <1>1 DEF Points, Binds
  <2>2. N = [p \in Points |-> N[p]]
    OBVIOUS
  <2> HIDE DEF up, N
  <2> QED BY <1>5, <2>1, <2>2
<1> HIDE DEF M, N, up
<1>7. ChrootSetup(RootOf(M, {}), x11) = RootOf(up, Daemons)
  <2>1. {p \in {"proc", "sys"} : RootOf(M, {}).mounts[p] > 0} = there
    BY RootOfIs
  <2>2. PICK set : set = (Binds \ there) \cup X
    OBVIOUS
  <2>3. ChrootSetup(RootOf(M, {}), x11) = MountAll(Divert(RootOf(M, {}), Daemons), set)
    BY <2>1, <2>2 DEF ChrootSetup
  <2>4. Daemons = {} \cup Daemons
    OBVIOUS
  <2>5. Divert(RootOf(M, {}), Daemons) = RootOf(M, Daemons)
    BY <2>4, Diverting
  <2>6. MountAll(RootOf(M, Daemons), set) = RootOf(up, Daemons)
    <3> HIDE DEF there, X
    <3> QED BY <1>4, <2>2, Mounting
  <2> QED BY <2>3, <2>5, <2>6
<1>8. ChrootCleanup(RootOf(up, Daemons), x11) = RootOf(N, {})
  <2>1. UmountAll(RootOf(up, Daemons), Binds \cup X) = RootOf(N, Daemons)
    <3> HIDE DEF X
    <3> QED BY <1>6, Unmounting
  <2>2. {} = Daemons \ Daemons
    OBVIOUS
  <2>3. Restore(RootOf(N, Daemons), Daemons) = RootOf(N, {})
    BY <2>2, Diverting
  <2> QED BY <2>1, <2>3 DEF ChrootCleanup, X
<1> QED BY <1>3, <1>7, <1>8

LEMMA OneMore ==
  ASSUME NEW c, NEW s
  PROVE  RootWith(c, s) =
           RootOf([p \in Points |-> IF p = "cdrom" THEN c ELSE IF p = "sys" THEN s ELSE 0], {})
BY DEF RootWith, RootOf

(* configure_apt unmounts the CD and mounts it; cleanup unmounts it. *)
LEMMA CdIsMounted ==
  ASSUME NEW c \in {0, 1}, NEW s \in {0, 1}
  PROVE  /\ Mount(Umount(RootWith(c, s), "cdrom"), "cdrom") = RootWith(1, s)
         /\ Umount(RootWith(c, s), "cdrom") = RootWith(0, s)
<1> DEFINE M == [p \in Points |-> IF p = "cdrom" THEN c ELSE IF p = "sys" THEN s ELSE 0]
           N == [p \in Points |-> IF p = "cdrom" THEN 0 ELSE IF p = "sys" THEN s ELSE 0]
           O == [p \in Points |-> IF p = "cdrom" THEN 1 ELSE IF p = "sys" THEN s ELSE 0]
<1>1. RootWith(c, s) = RootOf(M, {}) /\ RootWith(0, s) = RootOf(N, {}) /\ RootWith(1, s) = RootOf(O, {})
  BY OneMore
<1>2. N = [p \in Points |-> IF p \in {"cdrom"} /\ M[p] > 0 /\ ~Busy(RootOf(M, {}), p)
                              THEN M[p] - 1 ELSE M[p]]
  <2>1. ~Busy(RootOf(M, {}), "cdrom")
    BY DEF Busy
  <2> QED BY <2>1
<1>3. O = [p \in Points |-> IF p \in {"cdrom"} /\ (p = "efivars" => Efi) THEN N[p] + 1 ELSE N[p]]
  OBVIOUS
<1> HIDE DEF M, N, O
<1>4. UmountAll(RootOf(M, {}), {"cdrom"}) = RootOf(N, {})
  BY <1>2, Unmounting
<1>5. MountAll(RootOf(N, {}), {"cdrom"}) = RootOf(O, {})
  BY <1>3, Mounting
<1> QED BY <1>1, <1>4, <1>5 DEF Mount, Umount

(* What is bound to join the domain is released. *)
LEMMA BindsAreLeft ==
  ASSUME NEW c \in {0, 1}, NEW s \in {0, 1}
  PROVE  UmountAll(MountAll(RootWith(c, s), Binds), Binds) = RootWith(c, s)
<1> DEFINE M == [p \in Points |-> IF p = "cdrom" THEN c ELSE IF p = "sys" THEN s ELSE 0]
           N == [p \in Points |-> IF p \in Binds THEN M[p] + 1 ELSE M[p]]
<1>1. RootWith(c, s) = RootOf(M, {})
  BY OneMore
<1>2. N = [p \in Points |-> IF p \in Binds /\ (p = "efivars" => Efi) THEN M[p] + 1 ELSE M[p]]
  BY DEF Binds
<1>3. M = [p \in Points |-> IF p \in Binds /\ N[p] > 0 /\ ~Busy(RootOf(N, {}), p)
                              THEN N[p] - 1 ELSE N[p]]
  <2>1. N["efivars"] = 0 /\ N["securityfs"] = 0
    BY DEF Points, Binds
  <2>2. \A p : ~Busy(RootOf(N, {}), p)
    <3> HIDE DEF N
    <3> QED BY <2>1, RootOfIs DEF Busy
  <2>3. \A p \in Points : M[p] = IF p \in Binds /\ N[p] > 0 THEN N[p] - 1 ELSE N[p]
    BY DEF Binds
  <2>4. M = [p \in Points |-> M[p]]
    OBVIOUS
  <2> HIDE DEF M, N
  <2> QED BY <2>2, <2>3, <2>4
<1> HIDE DEF M, N
<1>4. MountAll(RootOf(M, {}), Binds) = RootOf(N, {})
  BY <1>2, Mounting
<1>5. UmountAll(RootOf(N, {}), Binds) = RootOf(M, {})
  BY <1>3, Unmounting
<1> QED BY <1>1, <1>4, <1>5

(* configure_bootloader unmounts /sys while efivars, if there, is mounted on it. *)
LEMMA BootloaderBindsAreLeft ==
  ASSUME NEW c \in {0, 1}
  PROVE  /\ UmountAll(MountAll(RootWith(c, 0), BootloaderBinds), BootloaderBinds)
              = RootWith(c, IF Efi THEN 1 ELSE 0)
         /\ \E m : m["cdrom"] = c /\ DOMAIN m = Points
                   /\ MountAll(RootWith(c, 0), BootloaderBinds) = RootOf(m, {})
<1> DEFINE M == [p \in Points |-> IF p = "cdrom" THEN c ELSE IF p = "sys" THEN 0 ELSE 0]
           s == IF Efi THEN 1 ELSE 0
           N == [p \in Points |-> IF p = "cdrom" THEN c ELSE IF p \in Binds THEN 1
                                  ELSE IF p = "efivars" THEN s ELSE 0]
           O == [p \in Points |-> IF p = "cdrom" THEN c ELSE IF p = "sys" THEN s ELSE 0]
<1>1. RootWith(c, 0) = RootOf(M, {}) /\ RootWith(c, s) = RootOf(O, {})
  BY OneMore
<1>2. N = [p \in Points |-> IF p \in BootloaderBinds /\ (p = "efivars" => Efi) THEN M[p] + 1 ELSE M[p]]
  BY DEF Binds, BootloaderBinds
<1>3. O = [p \in Points |-> IF p \in BootloaderBinds /\ N[p] > 0 /\ ~Busy(RootOf(N, {}), p)
                              THEN N[p] - 1 ELSE N[p]]
  <2>1. N["efivars"] = s /\ N["securityfs"] = 0
    BY DEF Points, Binds
  <2>2. \A p : Busy(RootOf(N, {}), p) <=> p = "sys" /\ s > 0
    <3> HIDE DEF N
    <3> QED BY <2>1, RootOfIs DEF Busy
  <2>3. \A p \in Points : O[p] = IF p \in BootloaderBinds /\ N[p] > 0 /\ ~(p = "sys" /\ s > 0)
                                   THEN N[p] - 1 ELSE N[p]
    BY DEF Binds, BootloaderBinds
  <2>4. O = [p \in Points |-> O[p]]
    OBVIOUS
  <2> HIDE DEF O, N
  <2> QED BY <2>2, <2>3, <2>4
<1>4. N["cdrom"] = c /\ DOMAIN N = Points
  BY DEF Points
<1> HIDE DEF M, N, O
<1>5. MountAll(RootOf(M, {}), BootloaderBinds) = RootOf(N, {})
  BY <1>2, Mounting
<1>6. UmountAll(RootOf(N, {}), BootloaderBinds) = RootOf(O, {})
  BY <1>3, Unmounting
<1> QED BY <1>1, <1>4, <1>5, <1>6

(* After the boot loader failed, cleanup unmounts nothing but the CD. *)
LEMMA CdIsUnmounted ==
  ASSUME NEW m, DOMAIN m = Points, m["cdrom"] \in {0, 1}
  PROVE  \E n : DOMAIN n = Points /\ n["cdrom"] = 0 /\ Umount(RootOf(m, {}), "cdrom") = RootOf(n, {})
<1> DEFINE N == [p \in Points |-> IF p \in {"cdrom"} /\ m[p] > 0 /\ ~Busy(RootOf(m, {}), p)
                                    THEN m[p] - 1 ELSE m[p]]
<1>1. ~Busy(RootOf(m, {}), "cdrom") /\ "cdrom" \in Points
  BY DEF Busy, Points
<1>2. N["cdrom"] = 0 /\ DOMAIN N = Points
  BY <1>1
<1>3. UmountAll(RootOf(m, {}), {"cdrom"}) = RootOf(N, {})
  BY Unmounting
<1> QED BY <1>2, <1>3 DEF Umount

LEMMA ApparmorIsLeft ==
  ASSUME NEW c \in {0, 1}, NEW s \in {0, 1}
  PROVE  RecacheApparmor(RootWith(c, s)) = RootWith(c, s)
<1> DEFINE M == [p \in Points |-> IF p = "cdrom" THEN c ELSE IF p = "sys" THEN s ELSE 0]
           up == {"proc", "sys", "securityfs"}
           N == [p \in Points |-> IF p \in up THEN M[p] + 1 ELSE M[p]]
           O == [p \in Points |-> IF p \in {"proc", "sys"} THEN M[p] + 1 ELSE M[p]]
<1>1. RootWith(c, s) = RootOf(M, {})
  BY OneMore
<1>2. N = [p \in Points |-> IF p \in up /\ (p = "efivars" => Efi) THEN M[p] + 1 ELSE M[p]]
  OBVIOUS
<1>3. O = [p \in Points |-> IF p \in {"securityfs"} /\ N[p] > 0 /\ ~Busy(RootOf(N, {}), p)
                              THEN N[p] - 1 ELSE N[p]]
  <2>1. ~Busy(RootOf(N, {}), "securityfs")
    BY DEF Busy
  <2> QED BY <2>1 DEF Points
<1>4. M = [p \in Points |-> IF p \in {"proc", "sys"} /\ O[p] > 0 /\ ~Busy(RootOf(O, {}), p)
                              THEN O[p] - 1 ELSE O[p]]
  <2>1. O["efivars"] = 0 /\ O["securityfs"] = 0
    BY DEF Points
  <2>2. \A p : ~Busy(RootOf(O, {}), p)
    <3> HIDE DEF O
    <3> QED BY <2>1, RootOfIs DEF Busy
  <2>3. \A p \in Points : M[p] = IF p \in {"proc", "sys"} /\ O[p] > 0 THEN O[p] - 1 ELSE O[p]
    OBVIOUS
  <2>4. M = [p \in Points |-> M[p]]
    OBVIOUS
  <2> HIDE DEF M, O
  <2> QED BY <2>2, <2>3, <2>4
<1> HIDE DEF M, N, O
<1>5. MountAll(RootOf(M, {}), up) = RootOf(N, {})
  BY <1>2, Mounting
<1>6. UmountAll(RootOf(N, {}), {"securityfs"}) = RootOf(O, {})
  BY <1>3, Unmounting
<1>7. UmountAll(RootOf(O, {}), {"proc", "sys"}) = RootOf(M, {})
  BY <1>4, Unmounting
<1> QED BY <1>1, <1>5, <1>6, <1>7 DEF RecacheApparmor, Umount

(* Programs run in the target's root, hw-detect and the packages it has    *)
(* reconfigured.                                                           *)
LEMMA RunningIsLeft ==
  ASSUME NEW c \in {0, 1}, NEW s \in {0, 1}, NEW x11
  PROVE  /\ InChroot(RootWith(c, s), x11) = IF oem THEN RootWith(c, s) ELSE RootWith(c, 0)
         /\ ChrootCleanup(Restore(Divert(ChrootSetup(RootWith(c, s), x11), {"update-initramfs"}),
                                  {"update-initramfs"}), x11) = RootWith(c, 0)
<1>1. PICK m : ChrootSetup(RootWith(c, s), x11) = RootOf(m, Daemons)
  BY ChrootIsLeft
<1>2. PICK all : all = Daemons \cup {"update-initramfs"}
  OBVIOUS
<1>3. Divert(RootOf(m, Daemons), {"update-initramfs"}) = RootOf(m, all)
  BY <1>2, Diverting
<1>4. Daemons = all \ {"update-initramfs"}
  BY <1>2 DEF Daemons
<1>5. Restore(RootOf(m, all), {"update-initramfs"}) = RootOf(m, Daemons)
  BY <1>4, Diverting
<1>6. ChrootCleanup(ChrootSetup(RootWith(c, s), x11), x11) = RootWith(c, 0)
  BY ChrootIsLeft
<1> QED BY <1>1, <1>3, <1>5, <1>6 DEF InChroot

-----------------------------------------------------------------------------
(* The last phase *)

Concluding == {"copies", "logs", "cleanup", "done"}
AfterBootloader == {"remove", "regular", "recursive", "restricted"} \cup Concluding

(* The script goes on with no exception, or it is over.                    *)
EndsWell == phase \in {"copies", "logs"} \/ (phase \in {"cleanup", "done"} /\ failed = "none")

StateFits ==
  /\ oem \in BOOLEAN /\ installs \in SUBSET Package /\ blacklist \in SUBSET Package
  /\ dpkg \in Dpkg /\ (dpkg.broken => "dpkg" \in trouble)
  /\ phase \notin {"cleanup", "done"} => failed = "none"

(* What is mounted, if the boot loader's installation raised no exception: *)
(* /sys only between a boot loader installed on EFI and the next package   *)
(* operation, which a broken dpkg or a conflict may prevent.               *)
MountsOf(c, s) ==
  /\ root = RootWith(c, s)
  /\ oem => s = 0
  /\ phase = "done" => c = 0
  /\ phase \notin AfterBootloader => s = 0
  /\ phase \in Concluding => s = 0 \/ dpkg.broken \/ failed = "restricted"

RootFits ==
  /\ failed # "grub" => \E c, s \in {0, 1} : MountsOf(c, s)
  /\ failed = "grub" => \E m : /\ root = RootOf(m, {}) /\ DOMAIN m = Points
                               /\ m["cdrom"] \in {0, 1} /\ (phase = "done" => m["cdrom"] = 0)

ConfFits ==
  /\ aptConf \subseteq {"NoMountCDROM", "IgnoreTimeConflict", "AllowUnauthenticated"}
  /\ phase = "done" => aptConf = {}
  /\ phase \in {"grub", "remove", "regular", "recursive", "restricted"} \/ EndsWell => ~keys

AskedFits ==
  EndsWell /\ ~oem /\ trouble \cap {"kept back", "download", "dpkg"} = {}
    => RecordedInstalled \ Missing \subseteq dpkg.installed

LastFits == StateFits /\ RootFits /\ ConfFits /\ AskedFits

LEMMA LastFitsAtFirst == Init => LastFits
<1> SUFFICES ASSUME Init PROVE LastFits
  OBVIOUS
<1> USE DEF Init, RequestsInit, LastInit
<1>1. StateFits
  BY DEF StateFits, Dpkg
<1>2. root = RootWith(0, 0)
  BY DEF CleanRoot, RootWith
<1>3. MountsOf(0, 0)
  BY <1>2 DEF MountsOf, Concluding
<1>4. RootFits
  BY <1>3 DEF RootFits
<1>5. ConfFits /\ AskedFits
  BY DEF ConfFits, AskedFits, EndsWell
<1> QED BY <1>1, <1>4, <1>5 DEF LastFits

LEMMA MountsAre ==
  ASSUME LastFits, phase \notin {"cleanup", "done"}
  PROVE  /\ failed = "none"
         /\ \E c, s \in {0, 1} : root = RootWith(c, s) /\ (oem \/ phase \notin AfterBootloader => s = 0)
                /\ (phase \in Concluding => s = 0 \/ dpkg.broken)
<1>1. failed = "none"
  BY DEF LastFits, StateFits
<1>2. PICK c, s \in {0, 1} : MountsOf(c, s)
  BY <1>1 DEF LastFits, RootFits
<1> QED BY <1>1, <1>2 DEF MountsOf

LEMMA MountsFollow ==
  ASSUME NEW c \in {0, 1}, NEW s \in {0, 1}, root' = RootWith(c, s), failed' # "grub",
         phase' # "done", oem' \/ phase' \notin AfterBootloader => s = 0,
         phase' \in Concluding => s = 0 \/ dpkg'.broken \/ failed' = "restricted"
  PROVE  RootFits'
<1>1. MountsOf(c, s)'
  BY DEF MountsOf
<1> QED BY <1>1 DEF RootFits

(* The phases with no package operation. *)
LEMMA QuietPhasesFit ==
  ASSUME LastFits,
         ConfigurePython \/ ConfigureNetwork \/ RunLanguage \/ ConfigureApt \/ NoPlugins \/ TargetHooks
  PROVE  LastFits'
<1>1. PICK c, s \in {0, 1} : root = RootWith(c, s) /\ failed = "none" /\ s = 0
      /\ phase \in {"python", "network", "language", "apt", "plugins", "hooks"}
  BY MountsAre DEF ConfigurePython, ConfigureNetwork, RunLanguage, ConfigureApt, NoPlugins, TargetHooks,
                   AfterBootloader, Concluding
<1>2. /\ UNCHANGED <<oem, blacklist, installs, dpkg, trouble>>
      /\ \/ phase' = "cleanup" /\ failed' = phase
         \/ failed' = failed /\ phase' \in {"network", "language", "apt", "plugins", "hooks", "langpacks"}
  BY DEF ConfigurePython, ConfigureNetwork, RunLanguage, ConfigureApt, NoPlugins, TargetHooks,
         Kept, requestVars, Goes, Raises
<1>3. \E d \in {0, 1} : root' = RootWith(d, 0)
  <2>1. CASE ConfigurePython
    BY <1>1, <2>1, RunningIsLeft DEF ConfigurePython
  <2>2. CASE ConfigureApt
    BY <1>1, <2>2, CdIsMounted DEF ConfigureApt
  <2>3. CASE ConfigureNetwork \/ RunLanguage \/ NoPlugins \/ TargetHooks
    BY <1>1, <2>3 DEF ConfigureNetwork, RunLanguage, NoPlugins, TargetHooks
  <2> QED BY <2>1, <2>2, <2>3
<1>4. StateFits'
  BY <1>1, <1>2 DEF LastFits, StateFits
<1>5. RootFits'
  BY <1>1, <1>2, <1>3, MountsFollow DEF Concluding
<1>6. ConfFits'
  <2>1. aptConf' \subseteq {"NoMountCDROM", "IgnoreTimeConflict", "AllowUnauthenticated"}
    <3>1. CASE ConfigureApt
      BY <3>1 DEF ConfigureApt, LastFits, ConfFits
    <3>2. CASE ~ConfigureApt
      BY <3>2 DEF ConfigurePython, ConfigureNetwork, RunLanguage, NoPlugins, TargetHooks, LastFits, ConfFits
    <3> QED BY <3>1, <3>2
  <2> QED BY <1>1, <1>2, <2>1 DEF ConfFits, EndsWell
<1>7. AskedFits'
  BY <1>1, <1>2 DEF AskedFits, EndsWell
<1> QED BY <1>4, <1>5, <1>6, <1>7 DEF LastFits

(* The phases that ask for packages. *)
LEMMA AskingPhasesFit ==
  ASSUME LastFits, RunPlugin \/ ConfigureHardware
  PROVE  LastFits'
<1>1. PICK c, s \in {0, 1} : root = RootWith(c, s) /\ failed = "none" /\ s = 0
      /\ phase \in {"plugins", "hardware"}
  BY MountsAre DEF RunPlugin, ConfigureHardware, AfterBootloader, Concluding
<1>2. PICK packages \in SUBSET LateRequests : Request(packages)
  BY DEF RunPlugin, ConfigureHardware
<1>3. packages \in SUBSET Package
  BY <1>2, LastPhaseAssumption
<1>4. /\ dpkg' \in Dpkg /\ trouble \subseteq trouble' /\ (dpkg'.broken => dpkg.broken \/ "dpkg" \in trouble')
      /\ installs' = installs \cup packages /\ UNCHANGED <<oem, blacklist>>
  BY <1>2, <1>3, RequestLeaves DEF LastFits, StateFits
<1>5. UNCHANGED aptConf
      /\ \/ phase' = "cleanup" /\ failed' = phase
         \/ failed' = failed /\ phase' \in {"plugins", "hooks", "extras"}
  BY DEF RunPlugin, ConfigureHardware, Goes, Raises
<1>6. root' = RootWith(c, 0)
  <2>1. CASE RunPlugin
    BY <1>1, <2>1 DEF RunPlugin
  <2>2. CASE ConfigureHardware
    <3>1. InChroot(root, FALSE) = RootWith(c, 0)
      BY <1>1, RunningIsLeft
    <3>2. ChrootCleanup(Restore(Divert(ChrootSetup(RootWith(c, 0), TRUE), {"update-initramfs"}),
                                {"update-initramfs"}), TRUE) = RootWith(c, 0)
      BY RunningIsLeft
    <3> QED BY <2>2, <3>1, <3>2 DEF ConfigureHardware
  <2> QED BY <2>1, <2>2
<1>7. StateFits'
  BY <1>1, <1>3, <1>4, <1>5 DEF LastFits, StateFits
<1>8. RootFits'
  BY <1>1, <1>5, <1>6, MountsFollow DEF Concluding
<1>9. ConfFits' /\ AskedFits'
  BY <1>1, <1>5 DEF LastFits, ConfFits, AskedFits, EndsWell
<1> QED BY <1>7, <1>8, <1>9 DEF LastFits

(* The phases that install packages. *)
LEMMA InstallingPhasesFit ==
  ASSUME LastFits, InstallLanguagePacks \/ InstallExtras \/ InstallOemConfig
  PROVE  LastFits'
<1>1. PICK c, s \in {0, 1} : root = RootWith(c, s) /\ failed = "none" /\ s = 0
      /\ phase \in {"langpacks", "extras", "oem"}
  BY MountsAre DEF InstallLanguagePacks, InstallExtras, InstallOemConfig, AfterBootloader, Concluding
<1>2. UNCHANGED <<aptConf, blacklist, installs, oem>>
      /\ \/ phase' = "cleanup" /\ failed' = phase
         \/ failed' = failed /\ phase' \in {"hardware", "oem", "directory"}
  BY DEF InstallLanguagePacks, InstallExtras, InstallOemConfig, Goes, Raises, requestVars
<1>3. \/ UNCHANGED <<dpkg, root>> /\ trouble \subseteq trouble'
      \/ \E packages \in SUBSET Package, end \in {"ok", "conflict"} : DoInstall(packages, end)
  <2>1. RecordedInstalled \ Multiarch \in SUBSET Package
    BY DEF LastFits, StateFits, RecordedInstalled
  <2>2. Langpacks \in SUBSET Package /\ OemConfig \in SUBSET Package
    BY RequestsAssumption, LastPhaseAssumption
  <2>3. CASE InstallLanguagePacks
    BY <2>2, <2>3 DEF InstallLanguagePacks
  <2>4. CASE InstallExtras
    BY <2>1, <2>4 DEF InstallExtras
  <2>5. CASE InstallOemConfig
    BY <2>2, <2>5 DEF InstallOemConfig
  <2> QED BY <2>3, <2>4, <2>5
<1>4. /\ dpkg' \in Dpkg /\ trouble \subseteq trouble' /\ (dpkg'.broken => "dpkg" \in trouble')
      /\ root' = root \/ root' = InChroot(root, FALSE)
  <2>1. CASE UNCHANGED <<dpkg, root>> /\ trouble \subseteq trouble'
    BY <2>1 DEF LastFits, StateFits
  <2>2. ASSUME NEW packages \in SUBSET Package, NEW end \in {"ok", "conflict"}, DoInstall(packages, end)
        PROVE  /\ dpkg' \in Dpkg /\ trouble \subseteq trouble' /\ (dpkg'.broken => "dpkg" \in trouble')
               /\ root' = root \/ root' = InChroot(root, FALSE)
    <3>1. dpkg \in Dpkg /\ (dpkg.broken => "dpkg" \in trouble)
      BY DEF LastFits, StateFits
    <3> QED BY <2>2, <3>1, InstallLeaves
  <2> QED BY <1>3, <2>1, <2>2
<1>5. root' = RootWith(c, 0)
  BY <1>1, <1>4, RunningIsLeft
<1>6. StateFits'
  BY <1>1, <1>2, <1>4 DEF LastFits, StateFits
<1>7. RootFits'
  BY <1>1, <1>2, <1>5, MountsFollow DEF Concluding
<1>8. ConfFits' /\ AskedFits'
  BY <1>1, <1>2 DEF LastFits, ConfFits, AskedFits, EndsWell
<1> QED BY <1>6, <1>7, <1>8 DEF LastFits

LEMMA DirectoryFits ==
  ASSUME LastFits, ConfigureDirectory \/ RecoveryKey
  PROVE  LastFits'
<1>1. PICK c, s \in {0, 1} : root = RootWith(c, s) /\ failed = "none" /\ s = 0
      /\ phase \in {"directory", "bootloader"}
  BY MountsAre DEF ConfigureDirectory, RecoveryKey, AfterBootloader, Concluding
<1>2. /\ UNCHANGED <<oem, blacklist, installs, dpkg, aptConf>> /\ trouble \subseteq trouble'
      /\ \/ phase' = "cleanup" /\ failed' = phase
         \/ failed' = failed /\ phase' = "bootloader"
         \/ failed' = failed /\ phase' = "grub" /\ ~keys'
  BY DEF ConfigureDirectory, RecoveryKey, requestVars, Goes, Raises
<1>3. root' = RootWith(c, 0)
  BY <1>1, BindsAreLeft DEF ConfigureDirectory, RecoveryKey
<1>4. StateFits'
  BY <1>1, <1>2 DEF LastFits, StateFits
<1>5. RootFits'
  BY <1>1, <1>2, <1>3, MountsFollow DEF Concluding
<1>6. ConfFits' /\ AskedFits'
  BY <1>1, <1>2 DEF LastFits, ConfFits, AskedFits, EndsWell
<1> QED BY <1>4, <1>5, <1>6 DEF LastFits

LEMMA BootloaderFits ==
  ASSUME LastFits, ConfigureBootloader
  PROVE  LastFits'
<1>1. PICK c, s \in {0, 1} : root = RootWith(c, s) /\ failed = "none" /\ s = 0 /\ phase = "grub"
  BY MountsAre DEF ConfigureBootloader, AfterBootloader, Concluding
<1>2. ~keys /\ UNCHANGED <<keys, aptConf>>
  BY <1>1 DEF ConfigureBootloader, LastFits, ConfFits
<1>3. /\ dpkg' \in Dpkg /\ trouble \subseteq trouble' /\ (dpkg'.broken => dpkg.broken \/ "dpkg" \in trouble')
      /\ installs' \in SUBSET Package /\ UNCHANGED <<oem, blacklist>>
  <2>1. CASE UNCHANGED <<dpkg, trouble, requestVars>>
    BY <2>1 DEF LastFits, StateFits, requestVars
  <2>2. ASSUME NEW packages \in SUBSET (LateRequests \cap Grub), Request(packages)
        PROVE  /\ dpkg' \in Dpkg /\ trouble \subseteq trouble' /\ (dpkg'.broken => dpkg.broken \/ "dpkg" \in trouble')
               /\ installs' \in SUBSET Package /\ UNCHANGED <<oem, blacklist>>
    <3>1. packages \in SUBSET Package
      BY LastPhaseAssumption
    <3> QED BY <2>2, <3>1, RequestLeaves DEF LastFits, StateFits
  <2> QED BY <2>1, <2>2 DEF ConfigureBootloader
<1>4. \/ Goes("remove") /\ root' = root
      \/ Goes("remove") /\ root' = UmountAll(MountAll(RootWith(c, 0), BootloaderBinds), BootloaderBinds) /\ ~oem
      \/ Raises /\ root' = MountAll(RootWith(c, 0), BootloaderBinds)
  BY <1>1 DEF ConfigureBootloader
<1>5. StateFits'
  BY <1>1, <1>3, <1>4 DEF LastFits, StateFits, Goes, Raises
<1>6. RootFits'
  <2>1. CASE Goes("remove")
    <3>1. \E e \in {0, 1} : root' = RootWith(c, e) /\ (oem => e = 0)
      BY <1>1, <1>4, <2>1, BootloaderBindsAreLeft DEF Goes, Raises
    <3>2. phase' = "remove" /\ failed' = "none"
      BY <1>1, <2>1 DEF Goes
    <3> QED BY <1>3, <3>1, <3>2, MountsFollow DEF Concluding, AfterBootloader
  <2>2. CASE Raises /\ root' = MountAll(RootWith(c, 0), BootloaderBinds)
    <3>1. phase' = "cleanup" /\ failed' = "grub"
      BY <1>1, <2>2 DEF Raises
    <3>2. \E m : m["cdrom"] = c /\ DOMAIN m = Points /\ root' = RootOf(m, {})
      BY <2>2, BootloaderBindsAreLeft
    <3> QED BY <3>1, <3>2 DEF RootFits
  <2> QED BY <1>4, <2>1, <2>2
<1>7. ConfFits' /\ AskedFits'
  BY <1>1, <1>2, <1>4 DEF LastFits, ConfFits, AskedFits, EndsWell, Goes, Raises
<1> QED BY <1>5, <1>6, <1>7 DEF LastFits

LEMMA RemovingPhasesFit ==
  ASSUME LastFits, ListRemovals \/ RemoveRegular \/ RemoveRecursively
  PROVE  LastFits'
<1>1. PICK c, s \in {0, 1} : root = RootWith(c, s) /\ failed = "none" /\ (oem => s = 0)
      /\ phase \in {"remove", "regular", "recursive"}
  BY MountsAre DEF ListRemovals, RemoveRegular, RemoveRecursively
<1>2. /\ UNCHANGED <<oem, blacklist, installs, aptConf, keys>>
      /\ \/ RemoveRecursively /\ phase' = "cleanup" /\ failed' = phase /\ phase = "recursive"
         \/ failed' = failed /\ phase' \in {"regular", "recursive", "restricted"}
  BY DEF ListRemovals, RemoveRegular, RemoveRecursively, requestVars, Goes, Raises
<1>3. /\ dpkg' \in Dpkg /\ trouble \subseteq trouble' /\ (dpkg'.broken => "dpkg" \in trouble')
      /\ root' = root \/ root' = InChroot(root, FALSE)
      /\ RemoveRecursively => root' = InChroot(root, FALSE) \/ dpkg'.broken
  <2>1. dpkg \in Dpkg /\ (dpkg.broken => "dpkg" \in trouble)
    BY DEF LastFits, StateFits
  <2>2. CASE ListRemovals
    BY <2>1, <2>2 DEF ListRemovals, RemoveRecursively
  <2>3. CASE RemoveRegular \/ RemoveRecursively
    <3>1. PICK packages, recursive : DoRemove(packages, recursive)
      BY <2>3 DEF RemoveRegular, RemoveRecursively
    <3> QED BY <2>1, <3>1, RemoveLeaves
  <2> QED BY <2>2, <2>3
<1>4. \E e \in {0, 1} : /\ root' = RootWith(c, e) /\ (oem => e = 0)
                        /\ RemoveRecursively => e = 0 \/ dpkg'.broken
  BY <1>1, <1>3, RunningIsLeft
<1>5. StateFits'
  BY <1>1, <1>2, <1>3 DEF LastFits, StateFits
<1>6. RootFits'
  <2> QED BY <1>1, <1>2, <1>4, MountsFollow DEF Concluding, AfterBootloader
<1>7. ConfFits' /\ AskedFits'
  BY <1>1, <1>2 DEF LastFits, ConfFits, AskedFits, EndsWell
<1> QED BY <1>5, <1>6, <1>7 DEF LastFits

LEMMA RestrictedFits ==
  ASSUME LastFits, InstallRestricted
  PROVE  LastFits'
<1>1. PICK c, s \in {0, 1} : root = RootWith(c, s) /\ failed = "none" /\ phase = "restricted" /\ (oem => s = 0)
  BY MountsAre DEF InstallRestricted
<1>2. PICK nonfree \in {{}, Nonfree}, end \in {"ok", "conflict"} :
        /\ IF end = "ok" THEN Goes("copies") ELSE Raises
        /\ DoInstall(nonfree \cup RecordedInstalled, end)
  BY DEF InstallRestricted
<1>3. UNCHANGED <<aptConf, keys, blacklist, installs, removals, oem>> /\ ~keys
  BY <1>1 DEF InstallRestricted, requestVars, LastFits, ConfFits
<1>4. PICK packages \in SUBSET Package : packages = nonfree \cup RecordedInstalled
  BY LastPhaseAssumption DEF LastFits, StateFits, RecordedInstalled
<1>5. dpkg \in Dpkg /\ (dpkg.broken => "dpkg" \in trouble) /\ oem \in BOOLEAN
      /\ installs \in SUBSET Package /\ blacklist \in SUBSET Package
  BY DEF LastFits, StateFits
<1>6. /\ dpkg' \in Dpkg /\ trouble \subseteq trouble'
      /\ dpkg'.broken => dpkg.broken \/ "dpkg" \in trouble'
      /\ dpkg.broken \/ end = "conflict" => UNCHANGED <<dpkg, root>>
      /\ ~dpkg.broken /\ end = "ok" => root' = InChroot(root, FALSE)
      /\ ~dpkg.broken /\ end = "ok" /\ trouble' \cap {"kept back", "download", "dpkg"} = {}
           => packages \ Missing \subseteq dpkg'.installed
  BY <1>2, <1>4, <1>5, InstallLeaves
<1>7. \/ end = "ok" /\ phase' = "copies" /\ failed' = "none"
      \/ end = "conflict" /\ phase' = "cleanup" /\ failed' = "restricted"
  BY <1>1, <1>2 DEF Goes, Raises
<1>8. StateFits'
  BY <1>3, <1>5, <1>6, <1>7 DEF StateFits
<1>9. RootFits'
  <2>1. \E e \in {0, 1} : root' = RootWith(c, e) /\ (oem => e = 0) /\ (end = "ok" => e = 0 \/ dpkg'.broken)
    BY <1>1, <1>5, <1>6, <1>7, RunningIsLeft
  <2> QED BY <1>3, <1>7, <2>1, MountsFollow DEF Concluding, AfterBootloader
<1>10. ConfFits'
  BY <1>3, <1>7 DEF LastFits, ConfFits
<1>11. AskedFits'
  <2>1. "dpkg" \in trouble => "dpkg" \in trouble'
    BY <1>6
  <2>2. RecordedInstalled' = RecordedInstalled
    BY <1>3 DEF RecordedInstalled
  <2> QED BY <1>4, <1>5, <1>6, <1>7, <2>1, <2>2 DEF AskedFits, EndsWell
<1> QED BY <1>8, <1>9, <1>10, <1>11 DEF LastFits

LEMMA SettingsFit ==
  ASSUME LastFits, CopySettings \/ CopyLogs
  PROVE  LastFits'
<1>1. PICK c, s \in {0, 1} : root = RootWith(c, s) /\ failed = "none" /\ (oem => s = 0)
      /\ phase \in {"copies", "logs"} /\ (s = 0 \/ dpkg.broken)
  BY MountsAre DEF CopySettings, CopyLogs, Concluding
<1>2. /\ UNCHANGED <<oem, blacklist, installs, removals, dpkg, trouble, aptConf, keys>>
      /\ \/ phase' = "logs" /\ failed' = "none"
         \/ phase' = "cleanup" /\ failed' \in {"none", "logs"} 
  BY <1>1 DEF CopySettings, CopyLogs, Kept, requestVars, Goes, Raises
<1>3. root' = RootWith(c, s)
  BY <1>1, ApparmorIsLeft DEF CopySettings, CopyLogs
<1>4. StateFits'
  BY <1>1, <1>2 DEF LastFits, StateFits
<1>5. RootFits'
  BY <1>1, <1>2, <1>3, MountsFollow DEF Concluding, AfterBootloader
<1>6. ConfFits' /\ AskedFits'
  BY <1>1, <1>2 DEF LastFits, ConfFits, AskedFits, EndsWell, RecordedInstalled
<1> QED BY <1>4, <1>5, <1>6 DEF LastFits

LEMMA CleanupFits ==
  ASSUME LastFits, Cleanup
  PROVE  LastFits'
<1>1. /\ phase = "cleanup" /\ phase' = "done" /\ root' = Umount(root, "cdrom")
      /\ UNCHANGED <<failed, oem, blacklist, installs, removals, dpkg, trouble, keys>>
      /\ aptConf' = aptConf \ {"NoMountCDROM", "IgnoreTimeConflict", "AllowUnauthenticated"}
  BY DEF Cleanup, Kept, requestVars
<1>2. StateFits'
  BY <1>1 DEF LastFits, StateFits
<1>3. RootFits'
  <2>1. CASE failed # "grub"
    <3>1. PICK c, s \in {0, 1} : MountsOf(c, s)
      BY <2>1 DEF LastFits, RootFits
    <3>2. root' = RootWith(0, s)
      BY <1>1, <3>1, CdIsMounted DEF MountsOf
    <3>3. MountsOf(0, s)'
      BY <1>1, <3>1, <3>2 DEF MountsOf, Concluding, AfterBootloader
    <3> QED BY <1>1, <2>1, <3>3 DEF RootFits
  <2>2. CASE failed = "grub"
    <3>1. PICK m : root = RootOf(m, {}) /\ DOMAIN m = Points /\ m["cdrom"] \in {0, 1}
      BY <2>2 DEF LastFits, RootFits
    <3>2. PICK n : DOMAIN n = Points /\ n["cdrom"] = 0 /\ root' = RootOf(n, {})
      BY <1>1, <3>1, CdIsUnmounted
    <3> QED BY <1>1, <2>2, <3>2 DEF RootFits
  <2> QED BY <2>1, <2>2
<1>4. ConfFits' /\ AskedFits'
  BY <1>1 DEF LastFits, ConfFits, AskedFits, EndsWell, RecordedInstalled
<1> QED BY <1>2, <1>3, <1>4 DEF LastFits

LEMMA PreparedFits ==
  ASSUME LastFits, CopyFits, Copying, Prepare
  PROVE  LastFits'
<1>1. UNCHANGED <<phase, failed, dpkg, root, aptConf, keys, trouble, oem>> /\ phase = "waiting"
  BY CopyingKeepsOem DEF lastVars, Prepare, CopyFits
<1>2. installs' \in SUBSET Package /\ blacklist' \in SUBSET Package
  <2>1. CASE oem
    BY <2>1 DEF Prepare, requestVars, LastFits, StateFits
  <2>2. CASE ~oem
    <3>1. PICK extra \in SUBSET Optional, generate \in BOOLEAN :
            /\ installs' = Langpacks \cup AdTools \cup extra
            /\ unwanted' \in {Unwanted, {}} /\ restricted' \in {Restricted, {}}
            /\ blacklist' = IF generate
                              THEN Blacklist(Live, unwanted' \cup (restricted' \cap Live),
                                             (Langpacks \cup AdTools \cup extra) \cup Grub)
                              ELSE {}
      BY <2>2 DEF Prepare
    <3>2. PICK difference, keep : /\ difference = unwanted' \cup (restricted' \cap Live)
                                 /\ keep = (Langpacks \cup AdTools \cup extra) \cup Grub
      OBVIOUS
    <3>3. difference \in SUBSET Package /\ keep \in SUBSET Package /\ Live \in SUBSET Package
      BY <3>1, <3>2, RequestsAssumption
    <3>4. Blacklist(Live, difference, keep) \subseteq difference
      BY <3>3, BlacklistFits
    <3> QED BY <3>1, <3>2, <3>3, <3>4
  <2> QED BY <2>1, <2>2
<1>3. StateFits'
  BY <1>1, <1>2 DEF LastFits, StateFits
<1>4. RootFits'
  BY <1>1 DEF LastFits, RootFits, MountsOf, Concluding, AfterBootloader
<1>5. ConfFits' /\ AskedFits'
  BY <1>1 DEF LastFits, ConfFits, AskedFits, EndsWell
<1> QED BY <1>3, <1>4, <1>5 DEF LastFits

LEMMA BegunFits ==
  ASSUME LastFits, Handover
  PROVE  LastFits'
<1>1. /\ phase = "waiting" /\ phase' = "python"
      /\ dpkg' = [installed |-> Live, auto |-> AutoInst, hollow |-> blacklist, broken |-> FALSE]
      /\ UNCHANGED <<failed, root, aptConf, trouble, installs, blacklist, oem>>
  BY DEF Handover, StartLastPhase, requestVars
<1>2. StateFits'
  <2>1. dpkg' \in Dpkg /\ ~dpkg'.broken
    BY <1>1, RequestsAssumption, LastPhaseAssumption DEF LastFits, StateFits, Dpkg
  <2> QED BY <1>1, <2>1 DEF LastFits, StateFits
<1>3. RootFits'
  BY <1>1, MountsAre, MountsFollow DEF LastFits, StateFits, AfterBootloader, Concluding
<1>4. ConfFits' /\ AskedFits'
  BY <1>1 DEF LastFits, ConfFits, AskedFits, EndsWell
<1> QED BY <1>2, <1>3, <1>4 DEF LastFits

LEMMA LastFitsNext ==
  ASSUME LastFits, CopyFits, [Next]_installationVars
  PROVE  LastFits'
<1>1. ASSUME UNCHANGED <<requestVars, lastVars>> PROVE LastFits'
  <2>1. UNCHANGED <<phase, failed, dpkg, root, aptConf, keys, trouble, oem, installs, removals, blacklist>>
    BY <1>1 DEF lastVars, requestVars
  <2> QED BY <2>1
          DEF LastFits, StateFits, RootFits, MountsOf, ConfFits, AskedFits, EndsWell, RecordedInstalled
<1>2. CASE Copying
  <2>1. CASE Prepare
    BY <1>2, <2>1, PreparedFits
  <2>2. CASE ~Prepare
    BY <1>1, <1>2, <2>2, CopyKeepsRequests DEF Copying
  <2> QED BY <2>1, <2>2
<1>3. CASE Handover
  BY <1>3, BegunFits
<1>4. CASE Finishing
  BY <1>4, QuietPhasesFit, AskingPhasesFit, InstallingPhasesFit, DirectoryFits, BootloaderFits,
     RemovingPhasesFit, RestrictedFits, SettingsFit, CleanupFits
     DEF Finishing, LastNext
<1>5. CASE UNCHANGED installationVars
  BY <1>1, <1>5 DEF installationVars
<1> QED BY <1>2, <1>3, <1>4, <1>5 DEF Next

(* However the last phase ends, it leaves nothing mounted in the target's  *)
(* root and none of its programs diverted, but for what the boot loader's  *)
(* failure, or a boot loader with no package operation after it, leaves;   *)
(* no setting of apt that was meant for the installation, and after a good *)
(* end no crypto key (chroot_setup, chroot_cleanup, configure_bootloader,  *)
(* configure_active_directory, recache_apparmor, cleanup_after).           *)
THEOREM RootIsReleased == Spec => []TargetReleased
<1>1. LastFits => TargetReleased
  <2> SUFFICES ASSUME LastFits, Ended PROVE TargetReleased
    BY DEF TargetReleased, Installed
  <2>1. Installed => ~keys
    BY DEF LastFits, ConfFits, EndsWell, Installed, Ended
  <2>2. aptConf = {}
    BY DEF LastFits, ConfFits, Ended
  <2>3. CASE failed # "grub"
    <3>1. PICK c, s \in {0, 1} : MountsOf(c, s)
      BY <2>3 DEF LastFits, RootFits
    <3>2. root = RootWith(0, s) /\ (failed # "restricted" /\ ~dpkg.broken => s = 0)
      BY <3>1 DEF MountsOf, Ended, Concluding
    <3> QED BY <2>1, <2>2, <3>2, RootWithIs DEF TargetReleased
  <2>4. CASE failed = "grub"
    <3>1. PICK m : root = RootOf(m, {}) /\ m["cdrom"] = 0
      BY <2>4 DEF LastFits, RootFits, Ended
    <3> QED BY <2>1, <2>2, <2>4, <3>1, RootOfIs DEF TargetReleased
  <2> QED BY <2>3, <2>4
<1> QED BY <1>1, LastFitsAtFirst, LastFitsNext, CopyFitsAtFirst, CopyFitsNext, PTL DEF Spec

(* What was asked for and not marked for removal, and an archive has, is    *)
(* installed at the end of an installation in which no download and no run  *)
(* of dpkg failed and apt kept nothing back, whatever was removed on the    *)
(* way (mark_install, install_restricted_extras).                           *)
THEOREM AskedForGetsInstalled == Spec => []AskedForIsInstalled
<1>1. LastFits => AskedForIsInstalled
  BY DEF LastFits, AskedFits, AskedForIsInstalled, EndsWell, Installed, Ended
<1> QED BY <1>1, LastFitsAtFirst, LastFitsNext, CopyFitsAtFirst, CopyFitsNext, PTL DEF Spec

-----------------------------------------------------------------------------
(* What was left out of the copy *)

(* What must have its files, as generate_blacklist decided.                *)
Spared == ExpandDependencies(Live, installs \cup Grub, unwanted \cup (restricted \cap Live))

ListFits ==
  /\ "late request" \notin trouble => blacklist \cap Spared = {}
  /\ phase # "waiting" => dpkg.hollow \subseteq blacklist

(* No step of the last phase changes what was decided, and only a late     *)
(* request adds to what was asked for.                                     *)
LEMMA RequestsMove ==
  ASSUME LastNext
  PROVE  /\ trouble \subseteq trouble' /\ UNCHANGED <<blacklist, unwanted, restricted>>
         /\ "late request" \notin trouble' => installs' = installs
<1> DEFINE Moved1 ==
         /\ trouble \subseteq trouble' /\ UNCHANGED <<blacklist, unwanted, restricted>>
         /\ "late request" \notin trouble' => installs' = installs
<1>1. CASE UNCHANGED requestVars /\ UNCHANGED trouble
  BY <1>1 DEF requestVars
<1>2. CASE ConfigurePython \/ ConfigureNetwork \/ RunLanguage \/ ConfigureApt \/ NoPlugins \/ TargetHooks
  BY <1>1, <1>2 DEF ConfigurePython, ConfigureNetwork, RunLanguage, ConfigureApt, NoPlugins, TargetHooks, Kept
<1>3. ASSUME NEW packages, Request(packages) PROVE Moved1
  BY <1>3 DEF Request
<1>4. CASE RunPlugin \/ ConfigureHardware
  BY <1>3, <1>4 DEF RunPlugin, ConfigureHardware
<1>5. ASSUME NEW packages, NEW end, DoInstall(packages, end), UNCHANGED requestVars PROVE Moved1
  BY <1>5 DEF DoInstall, requestVars
<1>6. CASE InstallLanguagePacks
  <2>1. trouble \subseteq trouble' /\ UNCHANGED requestVars
    BY <1>6 DEF InstallLanguagePacks, DoInstall
  <2> QED BY <2>1 DEF requestVars
<1>7. CASE InstallExtras \/ InstallOemConfig \/ InstallRestricted
  BY <1>1, <1>5, <1>7 DEF InstallExtras, InstallOemConfig, InstallRestricted
<1>8. CASE ConfigureDirectory
  BY <1>8 DEF ConfigureDirectory
<1>9. CASE ConfigureBootloader
  BY <1>1, <1>3, <1>9 DEF ConfigureBootloader
<1>10. CASE ListRemovals
  BY <1>10 DEF ListRemovals
<1>11. CASE RemoveRegular \/ RemoveRecursively
  BY <1>11 DEF RemoveRegular, RemoveRecursively, DoRemove, requestVars
<1>12. CASE RecoveryKey \/ CopySettings \/ CopyLogs \/ Cleanup
  BY <1>1, <1>12 DEF RecoveryKey, CopySettings, CopyLogs, Cleanup, Kept
<1> QED BY <1>2, <1>4, <1>6, <1>7, <1>8, <1>9, <1>10, <1>11, <1>12 DEF LastNext

(* Nothing loses its files in the last phase.                              *)
LEMMA HollowShrinks ==
  ASSUME LastFits, LastNext
  PROVE  dpkg'.hollow \subseteq dpkg.hollow
<1>1. dpkg \in Dpkg /\ installs \in SUBSET Package
  BY DEF LastFits, StateFits
<1>2. ASSUME NEW packages \in SUBSET Package, NEW end, DoInstall(packages, end)
      PROVE  dpkg'.hollow \subseteq dpkg.hollow
  BY <1>1, <1>2, InstallLeaves
<1>3. ASSUME NEW packages \in SUBSET Package, Request(packages) PROVE dpkg'.hollow \subseteq dpkg.hollow
  BY <1>1, <1>3, RequestLeaves
<1>4. ASSUME NEW packages, NEW recursive, DoRemove(packages, recursive)
      PROVE  dpkg'.hollow \subseteq dpkg.hollow
  BY <1>1, <1>4, RemoveLeaves
<1>5. CASE ConfigurePython \/ ConfigureNetwork \/ RunLanguage \/ ConfigureApt \/ NoPlugins \/ TargetHooks
  BY <1>5 DEF ConfigurePython, ConfigureNetwork, RunLanguage, ConfigureApt, NoPlugins, TargetHooks, Kept
<1>6. CASE RunPlugin \/ ConfigureHardware
  BY <1>3, <1>6, LastPhaseAssumption DEF RunPlugin, ConfigureHardware
<1>7. CASE InstallLanguagePacks
  <2>1. Langpacks \in SUBSET Package
    BY RequestsAssumption
  <2> QED BY <1>2, <1>7, <2>1 DEF InstallLanguagePacks
<1>8. CASE InstallExtras \/ InstallOemConfig
  <2>1. RecordedInstalled \ Multiarch \in SUBSET Package /\ OemConfig \in SUBSET Package
    BY <1>1, LastPhaseAssumption DEF RecordedInstalled
  <2> QED BY <1>2, <1>8, <2>1 DEF InstallExtras, InstallOemConfig
<1>9. CASE InstallRestricted
  <2>1. PICK nonfree \in {{}, Nonfree}, end \in {"ok", "conflict"} : DoInstall(nonfree \cup RecordedInstalled, end)
    BY <1>9 DEF InstallRestricted
  <2>2. PICK packages \in SUBSET Package : packages = nonfree \cup RecordedInstalled
    BY <1>1, LastPhaseAssumption DEF RecordedInstalled
  <2> QED BY <1>2, <2>1, <2>2
<1>10. CASE ConfigureDirectory \/ RecoveryKey \/ ListRemovals
  BY <1>10 DEF ConfigureDirectory, RecoveryKey, ListRemovals
<1>11. CASE ConfigureBootloader
  BY <1>3, <1>11, LastPhaseAssumption DEF ConfigureBootloader
<1>12. CASE RemoveRegular \/ RemoveRecursively
  BY <1>4, <1>12 DEF RemoveRegular, RemoveRecursively
<1>13. CASE CopySettings \/ CopyLogs \/ Cleanup
  BY <1>13 DEF CopySettings, CopyLogs, Cleanup, Kept
<1> QED BY <1>5, <1>6, <1>7, <1>8, <1>9, <1>10, <1>11, <1>12, <1>13 DEF LastNext

LEMMA PreparedListFits ==
  ASSUME ListFits, Prepare, UNCHANGED <<trouble, phase>>, phase = "waiting"
  PROVE  ListFits'
<1>1. CASE oem
  BY <1>1 DEF Prepare, requestVars, ListFits, Spared
<1>2. CASE ~oem
  <2>1. PICK extra \in SUBSET Optional, generate \in BOOLEAN :
          /\ installs' = Langpacks \cup AdTools \cup extra
          /\ unwanted' \in {Unwanted, {}} /\ restricted' \in {Restricted, {}}
          /\ blacklist' = IF generate
                            THEN Blacklist(Live, unwanted' \cup (restricted' \cap Live),
                                           (Langpacks \cup AdTools \cup extra) \cup Grub)
                            ELSE {}
    BY <1>2 DEF Prepare
  <2>2. PICK difference, keep : /\ difference = unwanted' \cup (restricted' \cap Live)
                               /\ keep = installs' \cup Grub
    OBVIOUS
  <2>3. difference \in SUBSET Package /\ keep \in SUBSET Package /\ Live \in SUBSET Package
    BY <2>1, <2>2, RequestsAssumption
  <2>4. blacklist' = IF generate THEN Blacklist(Live, difference, keep) ELSE {}
    BY <2>1, <2>2
  <2>5. blacklist' \cap ExpandDependencies(Live, keep, difference) = {}
    BY <2>3, <2>4, BlacklistFits
  <2>6. Spared' = ExpandDependencies(Live, keep, difference)
    BY <2>2 DEF Spared
  <2> QED BY <2>5, <2>6 DEF ListFits
<1> QED BY <1>1, <1>2

LEMMA ListFitsNext ==
  ASSUME LastFits, CopyFits, ListFits, [Next]_installationVars
  PROVE  ListFits'
<1>1. ASSUME UNCHANGED <<requestVars, lastVars>> PROVE ListFits'
  <2>1. UNCHANGED <<phase, dpkg, blacklist, installs, trouble, unwanted, restricted>>
    BY <1>1 DEF lastVars, requestVars
  <2> QED BY <2>1 DEF ListFits, Spared
<1>2. CASE Copying
  <2>1. CASE Prepare
    <3>1. UNCHANGED <<phase, trouble>> /\ phase = "waiting"
      BY <1>2, <2>1 DEF Copying, lastVars, Prepare, CopyFits
    <3> QED BY <2>1, <3>1, PreparedListFits
  <2>2. CASE ~Prepare
    BY <1>1, <1>2, <2>2, CopyKeepsRequests DEF Copying
  <2> QED BY <2>1, <2>2
<1>3. CASE Handover
  <2>1. /\ dpkg'.hollow = blacklist
        /\ UNCHANGED <<trouble, installs, blacklist, unwanted, restricted>>
    BY <1>3 DEF Handover, StartLastPhase, requestVars
  <2> QED BY <2>1 DEF ListFits, Spared
<1>4. CASE Finishing
  <2>1. LastNext /\ phase # "waiting"
    BY <1>4, FinishingIsLate DEF Finishing
  <2>2. dpkg'.hollow \subseteq blacklist'
    BY <2>1, RequestsMove, HollowShrinks DEF ListFits
  <2>3. ASSUME "late request" \notin trouble' PROVE blacklist' \cap Spared' = {}
    <3>1. "late request" \notin trouble /\ UNCHANGED <<blacklist, installs, unwanted, restricted>>
      BY <2>1, <2>3, RequestsMove
    <3> QED BY <3>1 DEF ListFits, Spared
  <2> QED BY <2>2, <2>3 DEF ListFits
<1>5. CASE UNCHANGED installationVars
  BY <1>1, <1>5 DEF installationVars
<1> QED BY <1>2, <1>3, <1>4, <1>5 DEF Next

(* Whatever the manifests name and whatever packages depend on, what was   *)
(* asked for before the copy, and what that needs of the live system, is   *)
(* never registered as installed with its files left out, unless something *)
(* was asked for late (generate_blacklist, expand_dependencies_simple).    *)
THEOREM AskedForIsNotHollow == Spec => []AskedForHasItsFiles
<1> DEFINE Inv == LastFits /\ CopyFits /\ ListFits
<1>1. Init => Inv
  <2>1. Init => ListFits
    BY DEF Init, RequestsInit, LastInit, ListFits
  <2> QED BY <2>1, LastFitsAtFirst, CopyFitsAtFirst
<1>2. Inv /\ [Next]_installationVars => Inv'
  BY LastFitsNext, CopyFitsNext, ListFitsNext
<1>3. Inv => AskedForHasItsFiles
  BY DEF AskedForHasItsFiles, ListFits, Spared
<1> QED BY <1>1, <1>2, <1>3, PTL DEF Spec
=============================================================================
