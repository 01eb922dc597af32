------------------------ MODULE DebconfFilterProofs ------------------------
(* What DebconfFilter.tla claims, for every set of questions and any       *)
(* nesting of progress bars.                                               *)
EXTENDS DebconfFilter, SequenceTheorems, TLAPS

(* What the start and the end of a progress bar do to a list of them. *)
LEMMA StackLengths ==
  ASSUME NEW S, NEW s \in Seq(S)
  PROVE  /\ \A t \in S : <<t>> \o s \in Seq(S) /\ Len(<<t>> \o s) = Len(s) + 1
         /\ s # <<>> => /\ Tail(s) \in Seq(S) /\ Len(Tail(s)) = Len(s) - 1
                        /\ Front(s) \in Seq(S) /\ Len(Front(s)) = Len(s) - 1
<1>1. ASSUME NEW t \in S PROVE <<t>> \o s \in Seq(S) /\ Len(<<t>> \o s) = Len(s) + 1
  OBVIOUS
<1>2. ASSUME s # <<>>
      PROVE  /\ Tail(s) \in Seq(S) /\ Len(Tail(s)) = Len(s) - 1
             /\ Front(s) \in Seq(S) /\ Len(Front(s)) = Len(s) - 1
  <2>1. Tail(s) \in Seq(S) /\ Len(Tail(s)) = Len(s) - 1
    BY <1>2
  <2>2. PICK n \in Nat : n = Len(s) - 1 /\ \A i \in 1 .. n : s[i] \in S
    BY <1>2
  <2>3. SubSeq(s, 1, n) \in Seq(S) /\ Len(SubSeq(s, 1, n)) = IF 1 <= n THEN n - 1 + 1 ELSE 0
    BY <2>2, SubSeqProperties
  <2>4. Len(SubSeq(s, 1, n)) = n
    BY <2>3
  <2>5. Front(s) = SubSeq(s, 1, n)
    BY <2>2 DEF Front
  <2> QED BY <2>1, <2>2, <2>3, <2>4, <2>5
<1> QED BY <1>1, <1>2

(* The bar a START opens has one of the titles. *)
LEMMA StartTitle ==
  ASSUME NEW l \in Lines, l.verb = "START"
  PROVE  l.arg \in Titles
<1>1. ASSUME NEW q, NEW v, v # "START", l = Line(v, q) PROVE FALSE
  BY <1>1 DEF Line
<1>2. ~ \E q \in Asked \cup Errors \cup Others : l = Line("INPUT", q)
  BY <1>1
<1>3. ~ \E c \in {"", "progresscancel"} : l = Line("CAPB", c)
  BY <1>1
<1>4. ~ \E v \in {"GO", "SET", "REGION", "STOP", "GET"} : l = Line(v, "")
  BY <1>1
<1>5. PICK t \in Titles : l = Line("START", t)
  BY <1>2, <1>3, <1>4 DEF Lines
<1> QED BY <1>5 DEF Line

-----------------------------------------------------------------------------
(* The variables always hold values of their types, the filter's list and  *)
(* the frontend's of progress bars included.                               *)
THEOREM Typing == Spec => []TypeOK
<1>1. Init => TypeOK
  <2>1. Line("GET", "") \in Lines
    BY DEF Lines
  <2>2. <<>> \in Seq(Titles)
    OBVIOUS
  <2> QED BY <2>1, <2>2 DEF Init, TypeOK
<1>2. TypeOK /\ [Next]_vars => TypeOK'
  <2> SUFFICES ASSUME TypeOK, [Next]_vars PROVE TypeOK'
    OBVIOUS
  <2>0. installing' \in BOOLEAN
    BY DEF Next, vars, TypeOK
  <2> USE <2>0 DEF TypeOK, bars, answer, cancel
  <2>1. ASSUME NEW l \in Lines, Send(l) PROVE TypeOK'
    BY <2>1 DEF Send
  <2>2. CASE End
    BY <2>2 DEF End
  <2>3. CASE Capb
    BY <2>3 DEF Capb, Reply
  <2>4. CASE SkipQuestion \/ PassOn \/ Go \/ Get \/ ProgressSet \/ ProgressRegion
    BY <2>4 DEF SkipQuestion, PassOn, Go, Get, ProgressSet, ProgressRegion, Reply
  <2>5. CASE ShowQuestion \/ AnswerAtOnce
    <3>1. positions' \in Seq(Titles)
      <4>1. positions' = positions \/ positions' = <<>>
        BY <2>5 DEF ShowQuestion, AnswerAtOnce, StopBars
      <4>2. positions \in Seq(Titles) /\ <<>> \in Seq(Titles)
        OBVIOUS
      <4> QED BY <4>1, <4>2
    <3>2. progress_cancelled' \in BOOLEAN
      BY <2>5 DEF ShowQuestion, AnswerAtOnce, StopBars
    <3> QED BY <2>5, <3>1, <3>2 DEF ShowQuestion, AnswerAtOnce, StopBars, Reply
  <2>6. CASE ShowError
    BY <2>6 DEF ShowError, Reply
  <2>7. CASE ProgressStart
    <3>1. line.arg \in Titles
      BY <2>7, StartTitle DEF ProgressStart, Reads
    <3>2. progress_bars' \in Seq(Titles) /\ positions' \in Seq(Titles)
      BY <2>7, <3>1, StackLengths DEF ProgressStart
    <3> QED BY <2>7, <3>2 DEF ProgressStart, Reply
  <2>8. CASE ProgressStop
    <3>1. progress_bars' \in Seq(Titles) /\ positions' \in Seq(Titles)
      BY <2>8, StackLengths DEF ProgressStop
    <3> QED BY <2>8, <3>1 DEF ProgressStop, Reply
  <2>9. CASE Break
    BY <2>9 DEF Break
  <2>10. ASSUME NEW ok \in BOOLEAN, Answer(ok) PROVE TypeOK'
    BY <2>10 DEF Answer, Reply
  <2>11. CASE CancelHandler \/ CancelProgress
    BY <2>11 DEF CancelHandler, CancelProgress
  <2>12. CASE UNCHANGED working
    BY <2>12 DEF working
  <2> QED BY <2>1, <2>2, <2>3, <2>4, <2>5, <2>6, <2>7, <2>8, <2>9, <2>10, <2>11, <2>12
          DEF Next, Step, ProcessLine, vars
<1> QED BY <1>1, <1>2, PTL DEF Spec

(* A filter all of whose errors are reported to the user never sends its   *)
(* script back while the user's last answer was OK.                        *)
THEOREM BackupSafe == Quiet = {} => (Spec => []GoFollowsTheAnswer)
<1> SUFFICES ASSUME Quiet = {} PROVE Spec => []GoFollowsTheAnswer
  OBVIOUS
<1> USE DEF GoFollowsTheAnswer, answer
<1>1. Init => GoFollowsTheAnswer
  BY DEF Init
<1>2. GoFollowsTheAnswer /\ [Next]_vars => GoFollowsTheAnswer'
  <2> SUFFICES ASSUME GoFollowsTheAnswer, [Next]_vars PROVE GoFollowsTheAnswer'
    OBVIOUS
  <2>1. CASE \/ \E l \in Lines : Send(l)
             \/ End \/ Capb \/ Go \/ Get \/ ProgressStart \/ ProgressSet
             \/ ProgressRegion \/ ProgressStop \/ Break \/ CancelProgress
    BY <2>1 DEF Send, End, Capb, Go, Get, ProgressStart, ProgressSet, ProgressRegion,
                ProgressStop, Break, CancelProgress
  <2>2. CASE SkipQuestion \/ PassOn
    BY <2>2 DEF SkipQuestion, PassOn
  <2>3. CASE ShowQuestion \/ AnswerAtOnce
    BY <2>3 DEF ShowQuestion, AnswerAtOnce
  <2>4. CASE ShowError
    BY <2>4 DEF ShowError
  <2>5. ASSUME NEW ok \in BOOLEAN, Answer(ok) PROVE GoFollowsTheAnswer'
    BY <2>5 DEF Answer
  <2>6. CASE CancelHandler
    BY <2>6 DEF CancelHandler
  <2>7. CASE UNCHANGED working
    BY <2>7 DEF working
  <2> QED BY <2>1, <2>2, <2>3, <2>4, <2>5, <2>6, <2>7 DEF Next, Step, ProcessLine, vars
<1> QED BY <1>1, <1>2, PTL DEF Spec

(* The Cancel button stands for the capability, and a click on it does not *)
(* outlive either.                                                         *)
CancelInv == cancel_button = progress_cancel /\ CancelOffered

(* A script is never told that its bar was cancelled while it does not     *)
(* offer Cancel.                                                           *)
THEOREM CancelSafe == Spec => []CancelOffered
<1> USE DEF CancelInv, CancelOffered, cancel
<1>1. Init => CancelInv
  BY DEF Init
<1>2. CancelInv /\ [Next]_vars => CancelInv'
  <2> SUFFICES ASSUME CancelInv, [Next]_vars PROVE CancelInv'
    OBVIOUS
  <2>1. CASE \/ \E l \in Lines : Send(l)
             \/ End \/ SkipQuestion \/ ShowError \/ PassOn \/ Go \/ Get
             \/ ProgressStart \/ ProgressSet \/ ProgressRegion
             \/ (\E ok \in BOOLEAN : Answer(ok)) \/ CancelHandler
    <3>1. UNCHANGED cancel
      BY <2>1 DEF Send, End, SkipQuestion, ShowError, PassOn, Go, Get, ProgressStart,
                  ProgressSet, ProgressRegion, Answer, CancelHandler
    <3> QED BY <3>1
  <2>2. CASE Capb
    BY <2>2 DEF Capb
  <2>3. CASE ShowQuestion \/ AnswerAtOnce
    BY <2>3 DEF ShowQuestion, AnswerAtOnce, StopBars
  <2>4. CASE ProgressStop
    BY <2>4 DEF ProgressStop
  <2>5. CASE Break
    BY <2>5 DEF Break
  <2>6. CASE CancelProgress
    BY <2>6 DEF CancelProgress
  <2>7. CASE UNCHANGED working
    BY <2>7 DEF working
  <2> QED BY <2>1, <2>2, <2>3, <2>4, <2>5, <2>6, <2>7 DEF Next, Step, ProcessLine, vars
<1>3. CancelInv => CancelOffered
  OBVIOUS
<1> QED BY <1>1, <1>2, <1>3, PTL DEF Spec

(* Whatever the script asks, no bar is left that the filter forgot.        *)
THEOREM NoBarStrays == Spec => []NoStrayBar
<1>1. Init => NoStrayBar
  <2>1. Len(<<>>) <= Len(<<>>)
    OBVIOUS
  <2> QED BY <2>1 DEF Init, NoStrayBar
<1>2. TypeOK /\ NoStrayBar /\ [Next]_vars => NoStrayBar'
  <2> SUFFICES ASSUME TypeOK, NoStrayBar, [Next]_vars PROVE NoStrayBar'
    OBVIOUS
  <2>0. /\ progress_bars \in Seq(Titles) /\ positions \in Seq(Titles)
        /\ Len(progress_bars) \in Nat /\ Len(positions) \in Nat
        /\ Len(positions) <= Len(progress_bars)
    BY DEF TypeOK, NoStrayBar
  <2>1. CASE UNCHANGED bars
    BY <2>1 DEF NoStrayBar, bars
  <2>2. CASE ShowQuestion \/ AnswerAtOnce
    BY <2>0, <2>2 DEF ShowQuestion, AnswerAtOnce, StopBars, NoStrayBar
  <2>3. CASE ProgressStart
    <3>1. line.arg \in Titles
      BY <2>3, StartTitle DEF ProgressStart, Reads, TypeOK
    <3> QED BY <2>0, <2>3, <3>1, StackLengths DEF ProgressStart, NoStrayBar
  <2>4. CASE ProgressStop
    <3>1. CASE progress_bars = <<>>
      BY <2>1, <2>4, <3>1 DEF ProgressStop
    <3>2. CASE progress_bars # <<>>
      <4>1. /\ positions # <<>>
            /\ positions' = Tail(positions) /\ progress_bars' = Front(progress_bars)
        BY <2>4, <3>2 DEF ProgressStop
      <4>2. /\ Len(positions') = Len(positions) - 1
            /\ Len(progress_bars') = Len(progress_bars) - 1
        BY <2>0, <3>2, <4>1, StackLengths
      <4> QED BY <2>0, <4>2 DEF NoStrayBar
    <3> QED BY <3>1, <3>2
  <2>5. CASE \/ \E l \in Lines : Send(l)
             \/ End \/ Capb \/ SkipQuestion \/ ShowError \/ PassOn \/ Go \/ Get
             \/ ProgressSet \/ ProgressRegion \/ Break
             \/ (\E ok \in BOOLEAN : Answer(ok)) \/ CancelHandler \/ CancelProgress
    <3>1. UNCHANGED bars
      BY <2>5 DEF Send, End, Capb, SkipQuestion, ShowError, PassOn, Go, Get,
                  ProgressSet, ProgressRegion, Break, Answer, CancelHandler,
                  CancelProgress
    <3> QED BY <2>1, <3>1
  <2>6. CASE UNCHANGED working
    BY <2>1, <2>6 DEF working
  <2> QED BY <2>2, <2>3, <2>4, <2>5, <2>6 DEF Next, Step, ProcessLine, vars
<1> QED BY <1>1, <1>2, Typing, PTL DEF Spec

(* During the installation, when questions leave the progress bars alone,  *)
(* the two lists stay as long as each other and no command finds them      *)
(* apart, however deeply bars nest.                                        *)
AlikeWhileInstalling == installing => ~broken /\ Len(progress_bars) = Len(positions)

THEOREM BarsSafe == Spec => []BarsInStep
<1> USE DEF AlikeWhileInstalling
<1>1. Init => AlikeWhileInstalling
  BY DEF Init
<1>2. TypeOK /\ AlikeWhileInstalling /\ [Next]_vars => AlikeWhileInstalling'
  <2> SUFFICES ASSUME TypeOK, AlikeWhileInstalling, [Next]_vars, installing
               PROVE (~broken /\ Len(progress_bars) = Len(positions))'
    BY DEF Next, vars
  <2>0. /\ progress_bars \in Seq(Titles) /\ positions \in Seq(Titles)
        /\ Len(progress_bars) \in Nat /\ Len(positions) = Len(progress_bars) /\ ~broken
    BY DEF TypeOK
  <2>1. CASE UNCHANGED <<bars, broken>>
    BY <2>0, <2>1 DEF bars
  <2>2. CASE ShowQuestion \/ AnswerAtOnce
    <3>1. UNCHANGED <<bars, broken>>
      BY <2>2 DEF ShowQuestion, AnswerAtOnce, StopBars, bars, Reply
    <3> QED BY <2>1, <3>1
  <2>3. CASE ProgressStart
    <3>1. line.arg \in Titles
      BY <2>3, StartTitle DEF ProgressStart, Reads, TypeOK
    <3> QED BY <2>0, <2>3, <3>1, StackLengths DEF ProgressStart, Reply
  <2>4. CASE ProgressStop
    <3>1. CASE progress_bars = <<>>
      BY <2>1, <2>4, <3>1 DEF ProgressStop, Reply
    <3>2. CASE progress_bars # <<>>
      <4>1. /\ positions # <<>> /\ broken' = broken
            /\ positions' = Tail(positions) /\ progress_bars' = Front(progress_bars)
        BY <2>4, <3>2 DEF ProgressStop, Reply
      <4>2. /\ Len(positions') = Len(positions) - 1
            /\ Len(progress_bars') = Len(progress_bars) - 1
        BY <2>0, <3>2, <4>1, StackLengths
      <4> QED BY <2>0, <4>1, <4>2
    <3> QED BY <3>1, <3>2
  <2>5. CASE Break
    <3>1. positions = <<>> /\ progress_bars # <<>>
      BY <2>5 DEF Break
    <3> QED BY <2>0, <3>1
  <2>6. CASE \/ \E l \in Lines : Send(l)
             \/ End \/ Capb \/ SkipQuestion \/ ShowError \/ PassOn \/ Go \/ Get
             \/ ProgressSet \/ ProgressRegion
             \/ (\E ok \in BOOLEAN : Answer(ok)) \/ CancelHandler \/ CancelProgress
    <3>1. UNCHANGED <<bars, broken>>
      BY <2>6 DEF Send, End, Capb, SkipQuestion, ShowError, PassOn, Go, Get,
                  ProgressSet, ProgressRegion, Answer, CancelHandler, CancelProgress, Reply
    <3> QED BY <2>1, <3>1
  <2>7. CASE UNCHANGED working
    BY <2>1, <2>7 DEF working
  <2> QED BY <2>2, <2>3, <2>4, <2>5, <2>6, <2>7 DEF Next, Step, ProcessLine, vars
<1>3. NoStrayBar /\ AlikeWhileInstalling => BarsInStep
  BY DEF BarsInStep
<1> QED BY <1>1, <1>2, <1>3, Typing, NoBarStrays, PTL DEF Spec
=============================================================================
