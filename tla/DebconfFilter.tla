--------------------------- MODULE DebconfFilter ---------------------------
(***************************************************************************)
(* One filter at the level of the debconf protocol: the script sends one   *)
(* command at a time and waits for its reply; the DebconfFilter answers    *)
(* it, itself, with the help of the FilteredCommand (a question, an error, *)
(* a progress bar), or by passing it on to debconf; the user answers the   *)
(* question on the screen, or presses the progress bar's Cancel button.    *)
(* The progress bars of the frontend (ProgressPosition) are those of this  *)
(* filter.                                                                 *)
(***************************************************************************)
EXTENDS Naturals, Sequences, SequencesExt

CONSTANTS
  Asked,       \* questions the FilteredCommand has a pattern for
  Errors,      \* questions of type error
  Quiet,       \* those whose error() returns False and says nothing
  Others,      \* questions that only debconf knows
  Seen,        \* those of Asked that were preseeded
  Automatic,   \* UBIQUITY_AUTOMATIC
  Titles,      \* titles of progress bars
  MaxBars      \* bound on the nesting of progress bars

ASSUME QuestionsAssumption ==
  /\ Asked \cap Errors = {} /\ (Asked \cup Errors) \cap Others = {}
  /\ Seen \subseteq Asked /\ Quiet \subseteq Errors
ASSUME FlagsAssumption == Automatic \in BOOLEAN
ASSUME MaxBarsAssumption == MaxBars \in Nat

VARIABLES
  installing,          \* frontend.installing, the same all the filter's life
  script,              \* "running", "waiting" for a reply, "ended"
  line,                \* the command it waits for the reply to
  reply,               \* the code of the last reply
  asking,              \* enter_ui_loop: a question is on the screen
  done, succeeded,     \* of the FilteredCommand
  next_go_backup,      \* of the DebconfFilter, as the next three
  progress_cancel,     \* the script has the progresscancel capability
  progress_bars,
  broken,              \* process_line raised an exception
  positions,           \* the titles in ProgressPosition, innermost first
  cancel_button,       \* debconf_progress_cancellable
  progress_cancelled   \* the user pressed it

answer == <<done, succeeded>>
bars   == <<progress_bars, positions>>
cancel == <<progress_cancel, cancel_button, progress_cancelled>>
working == <<script, line, reply, asking, answer, next_go_backup, bars, broken,
             cancel>>
vars == <<installing, working>>

Line(verb, arg) == [verb |-> verb, arg |-> arg]
Lines ==
  {Line("INPUT", q) : q \in Asked \cup Errors \cup Others}
    \cup {Line("START", t) : t \in Titles}
    \cup {Line("CAPB", c) : c \in {"", "progresscancel"}}
    \cup {Line(v, "") : v \in {"GO", "SET", "REGION", "STOP", "GET"}}

Init ==
  /\ installing \in BOOLEAN
  /\ script = "running" /\ line = Line("GET", "") /\ reply = 0
  /\ asking = FALSE /\ done = FALSE /\ succeeded = FALSE
  /\ next_go_backup = FALSE /\ broken = FALSE
  /\ progress_bars = <<>> /\ positions = <<>>
  /\ progress_cancel = FALSE /\ cancel_button = FALSE /\ progress_cancelled = FALSE

-----------------------------------------------------------------------------
(* The script *)

Send(l) ==
  /\ script = "running"
  /\ l.verb = "START" => Len(progress_bars) < MaxBars
  /\ script' = "waiting" /\ line' = l
  /\ UNCHANGED <<reply, asking, answer, next_go_backup, bars, broken, cancel>>

End ==
  /\ script = "running"
  /\ script' = "ended"
  /\ UNCHANGED <<line, reply, asking, answer, next_go_backup, bars, broken, cancel>>

-----------------------------------------------------------------------------
(* process_line *)

Reads(verb) == script = "waiting" /\ ~asking /\ line.verb = verb
Reply(code) == script' = "running" /\ reply' = code /\ UNCHANGED <<line, broken>>

\* Mutated: the click on Cancel outlives the capability.
CapbKeepsClick ==
  /\ Reads("CAPB")
  /\ LET c == line.arg = "progresscancel" IN progress_cancel' = c /\ cancel_button' = c
  /\ Reply(0)
  /\ UNCHANGED <<asking, answer, next_go_backup, bars, progress_cancelled>>

Capb ==
  /\ Reads("CAPB")
  /\ LET c == line.arg = "progresscancel" IN
     /\ progress_cancel' = c /\ cancel_button' = c
     /\ progress_cancelled' = (progress_cancelled /\ c)
  /\ Reply(0)
  /\ UNCHANGED <<asking, answer, next_go_backup, bars>>

(* A preseeded question, in automatic mode. *)
SkipQuestion ==
  /\ Reads("INPUT") /\ line.arg \in Seen /\ Automatic
  /\ next_go_backup' = FALSE
  /\ Reply(30)
  /\ UNCHANGED <<asking, answer, bars, cancel>>

\* Mutated: during the installation too.
StopBarsAlways ==
  /\ positions' = <<>>
  /\ progress_cancelled' = (progress_cancelled /\ positions = <<>>)
  /\ UNCHANGED <<progress_bars, progress_cancel, cancel_button>>

(* FilteredCommand.run stops the frontend's progress bars on the way, but  *)
(* not during the installation.                                            *)
StopBars ==
  /\ positions' = IF installing THEN positions ELSE <<>>
  /\ progress_cancelled' =
       (progress_cancelled /\ (installing \/ positions = <<>>))
  /\ UNCHANGED <<progress_bars, progress_cancel, cancel_button>>

Handled == Reads("INPUT") /\ line.arg \in Asked /\ ~(line.arg \in Seen /\ Automatic)

ShowQuestion ==
  /\ Handled /\ ~done
  /\ StopBars
  /\ succeeded' = FALSE /\ asking' = TRUE
  /\ UNCHANGED <<script, line, reply, done, next_go_backup, broken>>

AnswerAtOnce ==
  /\ Handled /\ done
  /\ StopBars
  /\ next_go_backup' = ~succeeded
  /\ Reply(0)
  /\ UNCHANGED <<asking, answer>>

\* Mutated: any error sends the script back, and the answer stays.
ShowErrorAsRefusal ==
  /\ Reads("INPUT") /\ line.arg \in Errors
  /\ next_go_backup' = TRUE
  /\ Reply(0)
  /\ UNCHANGED <<asking, answer, bars, cancel>>

ShowError ==
  /\ Reads("INPUT") /\ line.arg \in Errors
  /\ IF line.arg \in Quiet THEN next_go_backup' = TRUE /\ UNCHANGED answer
     ELSE next_go_backup' = FALSE /\ done' = FALSE /\ succeeded' = FALSE
  /\ Reply(0)
  /\ UNCHANGED <<asking, bars, cancel>>

(* debconf shows the question, or says it will not. *)
PassOn ==
  /\ Reads("INPUT") /\ line.arg \in Others
  /\ \/ Reply(0) /\ next_go_backup' = FALSE
     \/ Reply(30) /\ UNCHANGED next_go_backup
  /\ UNCHANGED <<asking, answer, bars, cancel>>

Go ==
  /\ Reads("GO")
  /\ Reply(IF next_go_backup THEN 30 ELSE 0)
  /\ UNCHANGED <<asking, answer, next_go_backup, bars, cancel>>

Get ==
  /\ Reads("GET") /\ Reply(0)
  /\ UNCHANGED <<asking, answer, next_go_backup, bars, cancel>>

\* Mutated: only the frontend knows of the bar.
ProgressStartUnknown ==
  /\ Reads("START")
  /\ positions' = <<line.arg>> \o positions
  /\ Reply(0)
  /\ UNCHANGED <<asking, answer, next_go_backup, progress_bars, cancel>>

ProgressStart ==
  /\ Reads("START")
  /\ progress_bars' = <<line.arg>> \o progress_bars
  /\ positions' = <<line.arg>> \o positions
  /\ Reply(0)
  /\ UNCHANGED <<asking, answer, next_go_backup, cancel>>

(* SET, STEP and INFO *)
ProgressSet ==
  /\ Reads("SET")
  /\ Reply(IF progress_bars # <<>> /\ progress_cancelled /\ progress_cancel THEN 30 ELSE 0)
  /\ UNCHANGED <<asking, answer, next_go_backup, bars, cancel>>

(* REGION and STOP need a bar in ProgressPosition. *)
ProgressRegion ==
  /\ Reads("REGION") /\ (progress_bars # <<>> => positions # <<>>)
  /\ Reply(0)
  /\ UNCHANGED <<asking, answer, next_go_backup, bars, cancel>>

ProgressStop ==
  /\ Reads("STOP") /\ (progress_bars # <<>> => positions # <<>>)
  /\ IF progress_bars = <<>> THEN UNCHANGED <<bars, cancel>>
     ELSE /\ positions' = Tail(positions)
          /\ progress_bars' = Front(progress_bars)
          /\ progress_cancelled' = FALSE
          /\ UNCHANGED <<progress_cancel, cancel_button>>
  /\ Reply(0)
  /\ UNCHANGED <<asking, answer, next_go_backup>>

(* Without one they raise IndexError: process_line returns False, the      *)
(* pipes are closed under the script.                                      *)
Break ==
  /\ Reads("REGION") \/ Reads("STOP")
  /\ progress_bars # <<>> /\ positions = <<>>
  /\ broken' = TRUE /\ script' = "ended"
  /\ progress_cancelled' = (progress_cancelled /\ line.verb # "STOP")
  /\ UNCHANGED <<line, reply, asking, answer, next_go_backup, bars, progress_cancel,
                 cancel_button>>

-----------------------------------------------------------------------------
(* The user *)

(* ok_handler and cancel_handler end the question's main loop; the         *)
(* ok_handler of partman leaves done as it is.                             *)
Answer(ok) ==
  /\ asking
  /\ asking' = FALSE
  /\ done' \in (IF ok THEN BOOLEAN ELSE {TRUE}) /\ succeeded' = ok
  /\ next_go_backup' = ~ok
  /\ Reply(0)
  /\ UNCHANGED <<bars, cancel>>

(* cancel_handler while the script works: quitting, or an error elsewhere. *)
CancelHandler ==
  /\ script # "ended" /\ ~asking
  /\ done' = TRUE /\ succeeded' = FALSE
  /\ UNCHANGED <<script, line, reply, asking, next_go_backup, bars, broken, cancel>>

CancelProgress ==
  /\ script # "ended" /\ cancel_button
  /\ progress_cancelled' = TRUE
  /\ UNCHANGED <<script, line, reply, asking, answer, next_go_backup, bars, broken,
                 progress_cancel, cancel_button>>

-----------------------------------------------------------------------------
ProcessLine ==
  Capb \/ SkipQuestion \/ ShowQuestion \/ AnswerAtOnce \/ ShowError \/ PassOn \/ Go
    \/ Get \/ ProgressStart \/ ProgressSet \/ ProgressRegion \/ ProgressStop \/ Break

Step ==
  \/ (\E l \in Lines : Send(l)) \/ End
  \/ ProcessLine
  \/ (\E ok \in BOOLEAN : Answer(ok)) \/ CancelHandler \/ CancelProgress
  \/ (script = "ended" /\ UNCHANGED working)

Next == Step /\ UNCHANGED installing

Spec == Init /\ [][Next]_vars

-----------------------------------------------------------------------------
TypeOK ==
  /\ installing \in BOOLEAN
  /\ script \in {"running", "waiting", "ended"}
  /\ line \in Lines /\ reply \in {0, 30}
  /\ {asking, done, succeeded, next_go_backup, broken, progress_cancel,
      cancel_button, progress_cancelled} \subseteq BOOLEAN
  /\ progress_bars \in Seq(Titles) /\ positions \in Seq(Titles)

(* Whatever is asked again, reported, skipped or left to debconf between   *)
(* two GOs, the script is never sent back by its GO while the user's last  *)
(* answer was OK: DebconfFilter.next_go_backup does not outlive the        *)
(* refusal it came from (FilteredCommand.succeeded).                       *)
GoFollowsTheAnswer == next_go_backup => ~succeeded

(* A question may take progress bars away from under the script, but never *)
(* leaves one on the screen that the filter has forgotten, and that no     *)
(* command of the script would stop (FilteredCommand.run, process_line).   *)
NoStrayBar == Len(positions) <= Len(progress_bars)

(* During the installation the filter and the frontend agree on how many   *)
(* progress bars there are, and no legal command finds the frontend        *)
(* without one (process_line, ProgressPosition.stop); before it no bar is  *)
(* left that the filter has forgotten.                                     *)
BarsInStep ==
  /\ NoStrayBar
  /\ installing => ~broken /\ Len(progress_bars) = Len(positions)

(* A script is told that its progress bar was cancelled only while it has  *)
(* said it can be, even if the capability comes and goes after the click   *)
(* (capb, debconf_progress_cancellable).                                   *)
CancelOffered == progress_cancelled => cancel_button /\ progress_cancel
=============================================================================
