-------------------------- MODULE PartitioningPage --------------------------
(***************************************************************************)
(* The partitioning page, plugins/ubi-partman.py, driving partman.  Page   *)
(* answers every question partman asks: by itself while it looks for what  *)
(* automatic partitioning can do and while it reads the partition table    *)
(* into its cache, by what the user asked for otherwise.  partman, the     *)
(* page and the user take turns: the wizard locks its buttons whenever it  *)
(* is not the user's.                                                      *)
(***************************************************************************)
EXTENDS Partman

CONSTANTS
  Methods,    \* what a partition may be used as
  Mounts,     \* mount points; "" for none
  OneDisk     \* there is just one disk for automatic partitioning

ASSUME PageAssumption ==
  /\ Methods \cup {"same", "unread"} \subseteq STRING /\ Mounts \cup {"same"} \subseteq STRING
  /\ "same" \notin Methods \cup Mounts /\ "" \in Mounts /\ OneDisk \in BOOLEAN

VARIABLES
  turn,     \* whose move it is: "partman", "page", "user", or "over"
  partman,  \* see module Partman
  answer,   \* the answer partman has not acted on
  complete, \* the question came with its menu, not with a frozen one
  frozen,   \* the menus that are frozen: no_show_choices files
  build,    \* reading the partition table, see BuildInit
  auto,     \* automatic partitioning, see AutoInit
  request,  \* what the user wants done: creating_, editing_partition and so on
  view,     \* the page in front
  status,   \* how the user's turn ended: succeeded, done, finish_partitioning
  failure,  \* the exception that ended the page, or "none"
  refused,  \* partman or the user objected while the request was carried out (history)
  turnedAway \* partman refused to open the partition to be deleted, or to be read
             \* last, as its device is in use (history)

pageVars == <<turn, partman, answer, complete, frozen, build, auto, request, view,
              status, failure, refused, turnedAway>>

NoList == <<<<>>>>    \* no list of partitions, which is not the empty list
NoRequest == [is |-> "none"]
NoStatus == [succeeded |-> FALSE, done |-> FALSE, finish |-> FALSE]
Bottom == [q |-> "none", on |-> <<>>, todo |-> <<>>]

(* building_cache, __state, update_partitions, partition_cache and         *)
(* cache_order; whether the page shows progress.                           *)
BuildInit == [on |-> TRUE, menus |-> <<Bottom>>, updates |-> NoList,
              cache |-> [s \in {} |-> 0], order |-> <<>>, progress |-> FALSE]

(* auto_state (0 for None), extra_options, autopartition_question,         *)
(* bad_auto_size and extra_choice; activating_crypto.                      *)
AutoInit == [walk |-> 0, extra |-> {}, asking |-> FALSE, badSize |-> FALSE,
             choice |-> "none", crypto |-> FALSE]

Starts == {Start, [Start EXCEPT !.autoDone = TRUE]}

Init ==
  /\ turn = "partman" /\ partman \in Starts /\ answer = [is |-> "none"] /\ complete = TRUE
  /\ frozen = {} /\ build = BuildInit /\ auto = AutoInit /\ request = NoRequest
  /\ view = "ask" /\ status = NoStatus /\ failure = "none" /\ refused = FALSE
  /\ turnedAway = FALSE

-----------------------------------------------------------------------------
(* Answers                                                                 *)
Reply(a) == answer' = a /\ turn' = "partman"
Is(word) == [is |-> word]
Raise(exception) == failure' = exception /\ turn' = "over"

(* preseed_script needs the option in the menu that came with the question *)
ReplyFromMenu(word) ==
  IF complete THEN Reply(Is(word)) /\ UNCHANGED failure
  ELSE Raise("PartmanOptionError") /\ UNCHANGED answer

Asked(q) == turn = "page" /\ partman.q = q
UsersTurn == turn' = "user" /\ UNCHANGED answer
Top == Last(build.menus)
Cached == DOMAIN build.cache

(* tidy_update_partitions drops free and locked partitions from the start  *)
(* of the list: they have no menu to be read.                              *)
Boring(cache, s) == s \notin DOMAIN cache \/ cache[s].num = 0 \/ s \in LockedParts
Tidied(cache, list) ==
  LET keep == {i \in DOMAIN list : ~Boring(cache, list[i])}
      first == CHOOSE i \in keep : \A j \in keep : i <= j
  IN  IF keep = {} THEN <<>> ELSE SubSeq(list, first, Len(list))

(* maybe_thaw_choose_partition: just before the last time choose_partition *)
(* comes back.                                                             *)
\* Mutated: thawed only when the reading is over.
LateThaw(b) == frozen' = frozen \ {"active"} /\ build' = b
MaybeThaw(b) ==
  LET list == Tidied(b.cache, b.updates)
  IN IF Last(b.menus).q # "choose" THEN frozen' = frozen \ {"active"} /\ build' = b
     ELSE /\ frozen' = frozen \ ({"active"} \cup IF list = <<>> THEN {"choose"} ELSE {})
          /\ build' = [b EXCEPT !.updates = list]

-----------------------------------------------------------------------------
(* set: partman tells of changed partitions, which is not listened to      *)
(* while the cache is being built.                                         *)
Heard(b, news) ==
  LET known == IF b.updates = NoList THEN <<>> ELSE b.updates
      fresh == Only(news, Range(news) \ Range(known))
  IN  IF b.on \/ news = <<>> THEN b ELSE [b EXCEPT !.updates = known \o fresh]

(* error: what was wrong with a request is noted with it, for the question *)
(* that comes again; the user's last move no longer counts as successful.  *)
BadSizes == {"bad_new_size", "new_size_commit_failed"}
Noted(error) ==
  LET bad(what) == [request EXCEPT !.bad = @ \cup {what}]
  IN CASE error = "bad_new_partition_size" /\ request.is = "create" -> bad("size")
       [] error \in BadSizes /\ request.is = "edit" -> bad("size")
       [] error = "bad_mountpoint" /\ request.is \in {"create", "edit"} -> bad("mountpoint")
       [] OTHER -> request
Bad(what) == what \in request.bad

(* The page knows only of partitions that are in use themselves, so that   *)
(* it opens others to read them and lets the user delete them; partman     *)
(* refuses on a device that is in use as a whole.                          *)
TurnedAway(o) ==
  /\ answer.is = "partition" /\ o.error = "locked"
  /\ IF build.on THEN Tidied(build.cache, build.updates) = <<>> ELSE request.is = "delete"

(* partman acts on the answer and comes to its next question; if it was    *)
(* the last the page is over.                                              *)
PartmanMoves ==
  /\ turn = "partman"
  /\ \E o \in Outcomes(partman, answer) :
       /\ partman' = o.partman
       /\ build' = Heard(build, o.news)
       /\ turn' = IF o.partman.q \in {"done", "left"} THEN "over" ELSE "page"
       /\ complete' = (o.partman.q \notin frozen)
       /\ request' = Noted(o.error)
       /\ auto' = [auto EXCEPT !.badSize = @ \/ (o.error \in BadSizes /\ request.is # "edit")]
       /\ status' = IF o.error \in {"none", "impossible_resize"} THEN status ELSE NoStatus
       /\ refused' = (refused \/ (o.error # "none" /\ request.is # "none" /\ ~build.on))
       /\ turnedAway' = (turnedAway \/ TurnedAway(o))
  /\ answer' = Is("none")
  /\ UNCHANGED <<frozen, view, failure>>

(* partman or one of its scripts dies, with what it had frozen left so;    *)
(* the page's object is dropped.                                           *)
PartmanDies ==
  /\ turn = "partman" /\ turn' = "over"
  /\ partman' = [Start EXCEPT !.q = "died"] /\ answer' = Is("none") /\ complete' = TRUE
  /\ build' = BuildInit /\ auto' = AutoInit /\ request' = NoRequest
  /\ status' = NoStatus /\ refused' = FALSE /\ turnedAway' = FALSE
  /\ UNCHANGED <<frozen, view, failure>>

(* prepare, when the page is entered again after Back or partman's death:  *)
(* /var/lib/partman is removed, so partman starts from scratch, and menus  *)
(* an earlier partman died with are thawed.                                *)
Afresh ==
  /\ turn = "over" /\ partman.q \in {"left", "died"}
  /\ turn' = "partman" /\ partman' \in Starts /\ answer' = [is |-> "none"] /\ complete' = TRUE
  /\ build' = BuildInit /\ auto' = AutoInit /\ request' = NoRequest
  /\ status' = NoStatus /\ failure' = "none" /\ refused' = FALSE /\ turnedAway' = FALSE
  /\ UNCHANGED view
\* Mutated: what partman died with stays frozen.
PrepareFrozen == Afresh /\ UNCHANGED frozen
Prepare == Afresh /\ frozen' = {}

-----------------------------------------------------------------------------
(* automatically_partition: each option that asks further questions is     *)
(* entered to learn what it offers and backed out of; then the user is     *)
(* shown what there is.                                                    *)
Walked == {"resize", "some_device"}
NextToWalk == {i \in DOMAIN AutoChoices : i > auto.walk /\ AutoChoices[i] \in Walked}

WalkOn ==
  /\ Asked("auto") /\ NextToWalk # {}
  /\ LET i == CHOOSE i \in NextToWalk : \A j \in NextToWalk : i <= j
     IN  /\ auto' = [auto EXCEPT !.walk = i, !.asking = TRUE,
                                 !.extra = IF auto.walk = 0 THEN {} ELSE @]
         /\ Reply(Is(AutoChoices[i]))
  /\ status' = [status EXCEPT !.succeeded = TRUE]
  /\ UNCHANGED <<partman, complete, frozen, build, request, view, failure, refused>>

ShowAsk ==
  /\ Asked("auto") /\ NextToWalk = {}
  /\ auto' = [auto EXCEPT !.walk = 0, !.asking = TRUE,
                          !.extra = @ \cup {"manual"} \cup (Range(AutoChoices) \ Walked)]
  /\ view' = "ask" /\ status' = [status EXCEPT !.succeeded = FALSE] /\ UsersTurn
  /\ UNCHANGED <<partman, complete, frozen, build, request, failure, refused>>

(* select_disk, new_size: on the walk, what they offer is kept and the     *)
(* page goes back; a partition too small to share is not kept.             *)
Collect(found) ==
  /\ auto' = [auto EXCEPT !.extra = @ \cup found]
  /\ status' = [status EXCEPT !.succeeded = FALSE] /\ Reply(Is("back"))
  /\ UNCHANGED <<partman, complete, frozen, build, request, view, failure, refused>>

WalkSelectDisk == Asked("select_disk") /\ auto.walk # 0 /\ Collect({"some_device"})
WalkNewSize ==
  /\ Asked("new_size") /\ auto.asking /\ auto.walk # 0
  /\ \E fits \in SUBSET {"resize"} : Collect(fits)

AnswerSelectDisk ==
  /\ Asked("select_disk") /\ auto.walk = 0
  /\ status' = [status EXCEPT !.succeeded = TRUE] /\ Reply(Is("disk"))
  /\ UNCHANGED <<partman, complete, frozen, build, auto, request, view, failure, refused>>

AnswerAutoSize ==
  /\ Asked("new_size") /\ auto.asking /\ auto.walk = 0
  /\ IF auto.badSize THEN Reply(Is("back")) /\ UNCHANGED status
     ELSE Reply(Is("size")) /\ status' = [status EXCEPT !.succeeded = TRUE]
  /\ auto' = [auto EXCEPT !.badSize = FALSE]
  /\ UNCHANGED <<partman, complete, frozen, build, request, view, failure, refused>>

(* The passphrase is what was typed in.  There is one: Next does not leave *)
(* the page it is typed in on without it, so show_crypto_page is not met.  *)
AnswerPassphrase ==
  /\ Asked("passphrase") /\ Reply(Is("passphrase"))
  /\ UNCHANGED <<partman, complete, frozen, build, auto, request, view, status, failure, refused>>

-----------------------------------------------------------------------------
(* plugin_on_next_clicked, plugin_on_back_clicked, ok_handler: the pages   *)
(* of automatic partitioning.  Only the last Next gives partman an answer. *)
Ends(choice) ==
  \/ choice = "reuse"
  \/ view = "auto"
  \/ choice = "some_device" /\ OneDisk
  \/ choice = "some_device_crypto" /\ OneDisk /\ view = "crypto"

AtAsk == turn = "user" /\ partman.q = "auto"
SameElse == UNCHANGED <<partman, complete, frozen, build, request, failure, refused>>

NextAuto ==
  /\ AtAsk
  /\ \E choice \in IF view = "ask" THEN auto.extra ELSE {auto.choice} :
       /\ auto' = [auto EXCEPT !.choice = IF Ends(choice) THEN "none" ELSE choice]
       /\ IF Ends(choice) \/ choice = "manual"
          THEN /\ view' = IF choice = "manual" THEN "advanced" ELSE view
               /\ status' = [status EXCEPT !.succeeded = TRUE] /\ Reply(Is(choice))
          ELSE /\ view' = IF choice = "some_device_crypto" /\ view = "ask" THEN "crypto" ELSE "auto"
               /\ UNCHANGED <<status, turn, answer>>
  /\ SameElse

BackAuto ==
  /\ AtAsk
  /\ IF view = "ask"
     THEN /\ status' = [status EXCEPT !.succeeded = FALSE, !.done = TRUE] /\ Reply(Is("back"))
          /\ UNCHANGED view
     ELSE view' = "ask" /\ UNCHANGED <<status, turn, answer>>
  /\ auto' = [auto EXCEPT !.choice = "none"] /\ SameElse

-----------------------------------------------------------------------------
(* choose_partition.  What was heard of starts a new reading, of the whole *)
(* table after an undo.                                                    *)
\* Mutated: an undo is like any other news.
RestartedInPart(b) ==
  IF ~b.on /\ b.updates \notin {NoList, <<>>}
  THEN [b EXCEPT !.on = TRUE, !.menus = <<Bottom>>] ELSE b
Restarted(b) ==
  IF ~b.on /\ b.updates \notin {NoList, <<>>}
  THEN [b EXCEPT !.on = TRUE, !.menus = <<Bottom>>,
                 !.updates = IF ALL \in Range(@) THEN NoList ELSE @]
  ELSE b

(* Cache and list of a new reading: what partman told of is dropped from   *)
(* the cache, what its menu lists and the cache lacks is put in.           *)
Reread(b, listed) ==
  LET kept == IF b.updates = NoList THEN {} ELSE DOMAIN b.cache \ Range(b.updates)
      cache == [s \in kept \cup Range(listed) |->
                  IF s \in kept THEN b.cache[s]
                  ELSE [num |-> NumberOf(partman.parts, s), method |-> "unread", mount |-> ""]]
      list == IF b.updates = NoList THEN listed
              ELSE Only(b.updates, DOMAIN cache)
  IN  [b EXCEPT !.cache = cache, !.order = listed, !.updates = Tidied(cache, list),
                !.progress = TRUE]

(* Opens the menu of the next partition on the list.                       *)
\* Mutated: the page goes on believing it has the first partition open.
VisitForgetful(b) ==
  /\ Reply([is |-> "partition", on |-> Head(b.updates)])
  /\ build' = [b EXCEPT !.updates = Tail(@),
                        !.menus = IF Len(@) = 1
                                  THEN Append(@, [q |-> "choose", on |-> Head(b.updates), todo |-> <<>>])
                                  ELSE @]
Visit(b) ==
  /\ Reply([is |-> "partition", on |-> Head(b.updates)])
  /\ build' = [b EXCEPT !.updates = Tail(@),
                        !.menus = IF Len(@) = 1
                                  THEN Append(@, [q |-> "choose", on |-> Head(b.updates), todo |-> <<>>])
                                  ELSE [@ EXCEPT ![Len(@)].on = Head(b.updates)]]

(* autopartition_question is None: the other options are not looked at any *)
(* more.                                                                   *)
Manual == [auto EXCEPT !.asking = FALSE, !.extra = {"manual"}]

(* What the user wanted is forgotten, activating_crypto not, and it is his *)
(* turn.                                                                   *)
Show(b) ==
  /\ build' = [b EXCEPT !.menus = <<Bottom>>] /\ request' = NoRequest
  /\ status' = [status EXCEPT !.succeeded = FALSE, !.finish = FALSE]
  /\ view' = "advanced" /\ refused' = FALSE
  /\ IF auto.crypto THEN ReplyFromMenu("crypto") ELSE UsersTurn /\ UNCHANGED failure
  /\ auto' = Manual

ReadDone(b) == [b EXCEPT !.on = FALSE, !.updates = NoList, !.progress = FALSE]

AtChoose == Asked("choose") /\ UNCHANGED <<partman, complete>>

StartReading ==
  LET b == Restarted(build)
      c == Reread(b, IF complete THEN Entries(partman.parts) ELSE <<>>)
  IN  /\ AtChoose /\ b.on /\ Last(b.menus).q # "choose"
      /\ IF c.updates # <<>>
         THEN /\ Visit(c) /\ frozen' = frozen \cup {"choose"} /\ view' = "advanced"
              /\ auto' = Manual
              /\ UNCHANGED <<request, status, failure, refused>>
         ELSE Show(ReadDone(c)) /\ frozen' = frozen \ {"choose"}

ReadOn ==
  LET list == Tidied(build.cache, build.updates)
  IN  /\ AtChoose /\ build.on /\ Top.q = "choose"
      /\ IF list # <<>>
         THEN Visit([build EXCEPT !.updates = list])
              /\ UNCHANGED <<frozen, auto, request, view, status, failure, refused>>
         ELSE Show(ReadDone(build)) /\ frozen' = frozen \ {"choose"}

(* Nothing was heard: the request came to nothing, or there was none.      *)
NothingRead ==
  /\ AtChoose /\ ~Restarted(build).on
  /\ IF request.is = "delete"
     THEN /\ Raise("Deleting partition didn't rebuild cache?")
          /\ UNCHANGED <<answer, build, auto, request, view, status, refused>>
     ELSE Show(build)
  /\ UNCHANGED frozen

-----------------------------------------------------------------------------
(* The user on the advanced page: create_partition, edit_partition,        *)
(* delete_partition, create_label, undo, Next and Back.  What a row offers *)
(* is get_actions'.                                                        *)
Shown == {s \in Range(build.order) : s \in Cached}
Free(s) == build.cache[s].num = 0

Room(s) == Cardinality({i \in 1..Size : DeviceOf[i] = Device(s)})

Wanted ==
  (UNION {[is : {"create"}, on : {s}, size : 1..Cardinality(Places(s)), place : {"Beginning", "End"},
          method : Methods, mount : Mounts, bad : {{}}] : s \in {s \in Shown : Free(s)}})
  \cup
  (UNION {[is : {"edit"}, on : {s}, size : 0..Room(s),
          method : Methods \cup {"same"}, mount : Mounts \cup {"same"}, bad : {{}}]
           \ {[is |-> "edit", on |-> s, size |-> 0, method |-> "same", mount |-> "same", bad |-> {}]}
         : s \in {s \in Shown : ~Free(s) /\ s \notin LockedParts}})
  \cup [is : {"delete"}, on : {s \in Shown : ~Free(s) /\ s \notin LockedParts}, bad : {{}}]
  \cup [is : {"label"}, on : Range(DeviceOf), bad : {{}}]
  \cup {[is |-> "undo", bad |-> {}]}

AtAdvanced == turn = "user" /\ partman.q = "choose"

(* run hands partman the row the request is about; creating and editing    *)
(* are kept track of.                                                      *)
Carry(w) ==
  CASE w.is = "undo" -> ReplyFromMenu("undo") /\ UNCHANGED build
    [] w.is = "label" -> Reply([is |-> "device", on |-> w.on]) /\ UNCHANGED <<build, failure>>
    [] w.is = "delete" -> Reply([is |-> "partition", on |-> w.on]) /\ UNCHANGED <<build, failure>>
    [] w.is \in {"create", "edit"} ->
         /\ Reply([is |-> "partition", on |-> w.on]) /\ UNCHANGED failure
         /\ build' = [build EXCEPT !.menus = Append(@, [q |-> "choose", on |-> w.on, todo |-> <<>>])]

UserWants ==
  /\ AtAdvanced
  /\ \E w \in Wanted :
       /\ request' = w /\ Carry(w)
       /\ auto' = [auto EXCEPT !.crypto = IF w.is \in {"create", "edit"} THEN w.method = "crypto" ELSE @]
  /\ status' = [status EXCEPT !.succeeded = FALSE]
  /\ UNCHANGED <<partman, complete, frozen, view, refused>>

NextAdvanced ==
  /\ AtAdvanced /\ ReplyFromMenu("finish")
  /\ status' = [status EXCEPT !.succeeded = TRUE, !.finish = TRUE]
  /\ UNCHANGED <<partman, complete, frozen, build, auto, request, view, refused>>

BackAdvanced ==
  /\ AtAdvanced /\ Reply(Is("back"))
  /\ status' = [status EXCEPT !.succeeded = FALSE, !.done = TRUE]
  /\ UNCHANGED <<partman, complete, frozen, build, auto, request, view, failure, refused>>

-----------------------------------------------------------------------------
(* The questions of one partition.  Each handler knows what it was asked   *)
(* for by the request or by the reading that is on; with neither it raises *)
(* an AssertionError.                                                      *)
Requested(kinds) == request.is \in kinds
Editing == Requested({"create", "edit"})
Handles(q) == Asked(q) /\ UNCHANGED <<partman, complete, auto, view, status>>
Unexpected(expected) ==
  /\ ~expected /\ Raise("unexpected") /\ UNCHANGED <<answer, build, frozen, request, refused>>
AsBefore == UNCHANGED <<build, frozen, request, failure, refused>>

OnNewLabel ==
  /\ Handles("confirm_new_label")
  /\ \/ Requested({"label"}) /\ (\E word \in {"true", "false"} : Reply(Is(word))) /\ AsBefore
     \/ Unexpected(Requested({"label"}))

OnFreeSpace ==
  /\ Handles("free_space")
  /\ \/ Requested({"create"}) /\ ReplyFromMenu("new") /\ UNCHANGED <<build, frozen, request, refused>>
     \/ Unexpected(Requested({"create"}))

(* new_partition_size, and new_partition_place with it                     *)
OnNewPartitionSize ==
  /\ Handles("new_partition_size")
  /\ \/ /\ Requested({"create"}) /\ AsBefore
        /\ Reply(IF Bad("size") THEN Is("back")
                 ELSE [is |-> "size", size |-> request.size, place |-> request.place])
     \/ Unexpected(Requested({"create"}))

(* active_partition while reading: partman's record of the partition goes  *)
(* into the cache, and resizing is entered to learn how far it may go, or  *)
(* the menu is left at once where it has no item for that.                 *)
Read(b, s) ==
  LET p == At(partman.parts, s)
  IN  [b EXCEPT !.cache[Last(b.menus).on].method = p.method,
                !.cache[Last(b.menus).on].mount = p.mount]

ReadPartition ==
  /\ Handles("active") /\ build.on /\ UNCHANGED <<request, failure, refused>>
  /\ \/ /\ Top.q = "active" /\ Reply(Is("back"))
        /\ MaybeThaw([build EXCEPT !.menus = Front(@)])
     \/ /\ Top.q = "choose" /\ Reply(Is("back"))
        /\ MaybeThaw(Read(build, partman.on))
     \/ /\ Top.q = "choose" /\ Reply(Is("resize")) /\ frozen' = frozen \cup {"active"}
        /\ build' = [Read(build, partman.on) EXCEPT !.menus =
                       Append(@, [q |-> "active", on |-> Last(@).on, todo |-> <<>>])]

(* active_partition for a request: its items one after the other, as far   *)
(* as the menu has them, then finish.                                      *)
\* Mutated: resizing, which leaves the partition's menu, comes first.
ResizeFirst(w) ==
  (IF w.is = "edit" /\ w.size # 0 THEN <<"resize">> ELSE <<>>)
    \o (IF w.method # "same" THEN <<"method">> ELSE <<>>)
    \o (IF w.mount # "same" THEN <<"mountpoint">> ELSE <<>>)
ItemsOf(w) ==
  (IF w.method # "same" THEN <<"method">> ELSE <<>>)
    \o (IF w.mount # "same" THEN <<"mountpoint">> ELSE <<>>)
    \o (IF w.is = "edit" /\ w.size # 0 THEN <<"resize">> ELSE <<>>)
Offered(todo) == {i \in DOMAIN todo : todo[i] \in Items(At(partman.parts, partman.on))}

DoRequest ==
  /\ Handles("active") /\ ~build.on /\ Editing /\ UNCHANGED <<frozen, request, refused>>
  /\ LET todo == IF Top.q = "active" THEN Top.todo ELSE ItemsOf(request)
         below == IF Top.q = "active" THEN Front(build.menus) ELSE build.menus
         i == CHOOSE i \in Offered(todo) : \A j \in Offered(todo) : i <= j
     IN IF Offered(todo) = {}
        THEN ReplyFromMenu("finish") /\ build' = [build EXCEPT !.menus = below]
        ELSE /\ Reply(Is(todo[i])) /\ UNCHANGED failure
             /\ build' = [build EXCEPT !.menus = Append(below,
                  [q |-> "active", on |-> Last(below).on, todo |-> SubSeq(todo, i + 1, Len(todo))])]

DoDelete ==
  /\ Handles("active") /\ ~build.on /\ ~Editing
  /\ \/ /\ Requested({"delete"}) /\ ReplyFromMenu("delete") /\ request' = NoRequest
        /\ UNCHANGED <<build, frozen, refused>>
     \/ Unexpected(Requested({"delete"}))

OnChooseMethod ==
  /\ Handles("choose_method")
  /\ \/ Editing /\ Reply([is |-> "method", method |-> request.method]) /\ AsBefore
     \/ Unexpected(Editing)

\* Mutated: a mount point that was refused is given again.
OnMountpointAgain ==
  /\ \E q \in {"mountpoint", "mountpoint_manual"} : Handles(q)
  /\ Editing /\ AsBefore /\ Reply([is |-> "mount", mount |-> request.mount])
OnMountpoint ==
  /\ \E q \in {"mountpoint", "mountpoint_manual"} : Handles(q)
  /\ \/ /\ Editing /\ AsBefore
        /\ Reply(IF Bad("mountpoint") THEN Is("back") ELSE [is |-> "mount", mount |-> request.mount])
     \/ Unexpected(Editing)

(* confirm_resize: of itself while something is being found out, or as the *)
(* user says.                                                              *)
FindingOut == IF auto.asking THEN auto.walk # 0 ELSE build.on
OnConfirmResize ==
  /\ Handles("confirm_resize")
  /\ \/ FindingOut /\ Reply(Is("true")) /\ AsBefore
     \/ /\ ~FindingOut /\ (auto.asking \/ Requested({"edit"}))
        /\ \E word \in {"true", "false"} :
             Reply(Is(word)) /\ refused' = (refused \/ (word = "false" /\ ~auto.asking))
        /\ UNCHANGED <<build, frozen, request, failure>>
     \/ Unexpected(auto.asking \/ build.on \/ Requested({"edit"}))

OnNewSize ==
  /\ Handles("new_size") /\ ~auto.asking
  /\ \/ build.on /\ Reply(Is("back")) /\ AsBefore
     \/ /\ ~build.on /\ Requested({"edit"}) /\ AsBefore
        /\ Reply(IF Bad("size") THEN Is("back") ELSE [is |-> "size", size |-> request.size])
     \/ Unexpected(build.on \/ Requested({"edit"}))

OnCryptoMenu ==
  /\ Asked("crypto") /\ UNCHANGED <<partman, complete, frozen, build, request, view, status, refused>>
  /\ IF auto.crypto THEN ReplyFromMenu("finish") /\ auto' = [auto EXCEPT !.crypto = FALSE]
     ELSE Raise("unexpected") /\ UNCHANGED <<answer, auto>>

(* partman/confirm: the last word is the user's.  If he goes back from the *)
(* automatic way all of it is undone and he is asked again.                *)
\* Mutated: going back from the automatic way does not undo it.
ConfirmKeepingAll ==
  /\ Asked("confirm")
  /\ \E word \in {"true", "false"} :
       /\ Reply(Is(word))
       /\ status' = [status EXCEPT !.succeeded = @ \/ word = "true", !.done = @ \/ word = "true"]
       /\ partman' = IF word = "false" /\ auto.asking
                     THEN [partman EXCEPT !.autoDone = FALSE] ELSE partman
  /\ UNCHANGED <<complete, frozen, build, auto, request, view, failure, refused>>

OnConfirm ==
  /\ Asked("confirm")
  /\ \E word \in {"true", "false"} :
       /\ Reply(Is(word))
       /\ status' = [status EXCEPT !.succeeded = @ \/ word = "true", !.done = @ \/ word = "true"]
       /\ partman' = IF word = "false" /\ auto.asking
                     THEN [partman EXCEPT !.parts = Initial, !.autoDone = FALSE] ELSE partman
  /\ UNCHANGED <<complete, frozen, build, auto, request, view, failure, refused>>

-----------------------------------------------------------------------------
PageAnswers ==
  \/ WalkOn \/ ShowAsk \/ WalkSelectDisk \/ WalkNewSize \/ AnswerSelectDisk \/ AnswerAutoSize
  \/ AnswerPassphrase
  \/ StartReading \/ ReadOn \/ NothingRead
  \/ OnNewLabel \/ OnFreeSpace \/ OnNewPartitionSize
  \/ ReadPartition \/ DoRequest \/ DoDelete
  \/ OnChooseMethod \/ OnMountpoint \/ OnConfirmResize \/ OnNewSize \/ OnCryptoMenu \/ OnConfirm

UserMoves == NextAuto \/ BackAuto \/ UserWants \/ NextAdvanced \/ BackAdvanced

(* The page is over for good.                                              *)
Ended ==
  turn = "over" /\ (partman.q = "done" \/ failure # "none") /\ UNCHANGED pageVars

Next ==
  \/ PartmanMoves \/ PartmanDies
  \/ (PageAnswers \/ UserMoves) /\ UNCHANGED turnedAway
  \/ Prepare \/ Ended

(* partman and the page go on by themselves; the user need not.  This is   *)
(* weak fairness of the steps at their turns, where some step is always    *)
(* possible (the runs check deadlock), put so that TLC can evaluate it on  *)
(* every state.                                                            *)
Fairness == <>[](turn \in {"partman", "page"}) => []<><<TRUE>>_pageVars
Spec == Init /\ [][Next]_pageVars /\ Fairness

-----------------------------------------------------------------------------
(* No handler is asked for what it does not expect, and none gives an      *)
(* answer partman's menu lacks: ubi-partman.py raises no AssertionError    *)
(* and no PartmanOptionError, until partman turns it away from a partition *)
(* of a device in use.                                                     *)
NoSurprise == ~turnedAway => failure = "none"

(* Whenever the user chooses on the advanced page, the page's cache is the *)
(* partition table: same rows in the same order, and of each row the       *)
(* number, and the use and the mount point partman has unless partman lets *)
(* nobody into it; until the page is turned away.                          *)
PageShowsTable ==
  turn = "user" /\ partman.q = "choose" /\ ~turnedAway =>
    /\ build.order = Entries(partman.parts) /\ Range(build.order) \subseteq Cached
    /\ \A s \in Range(build.order) : build.cache[s].num = NumberOf(partman.parts, s)
    /\ \A p \in partman.parts :
         InUse(p.slot) \/
           build.cache[p.slot] = [num |-> p.num, method |-> p.method, mount |-> p.mount]

(* When it is the user's turn the page is at rest: nothing is being read,  *)
(* no request is left over, the page in front belongs to partman's         *)
(* question, and, until the page is turned away, no menu is frozen and the *)
(* question came with all of its menu.                                     *)
AtRest ==
  turn = "user" =>
    /\ ~turnedAway => frozen = {} /\ complete
    /\ ~build.progress /\ build.menus = <<Bottom>>
    /\ build.updates \in {NoList, <<>>} /\ request = NoRequest
    /\ (partman.q = "choose") = (view = "advanced")

(* While the cache is read partman asks about the partition the page       *)
(* believes it opened, so that what it says goes into the right row.       *)
InStep ==
  turn = "page" /\ build.on /\ partman.q \in {"active", "confirm_resize", "new_size"}
    /\ partman.on # Nothing => Len(build.menus) > 1 /\ partman.on = Top.on

(* What the user asked for on the advanced page is so when the page comes  *)
(* back to him, unless partman or he himself objected while it was being   *)
(* carried out; what partman objects to while the table is read again does *)
(* not excuse it.                                                          *)
CarriedOut(parts, w) ==
  CASE w.is = "create" ->
         \E p \in parts :
           /\ p.slot = NewSlot(w.on, w.size, w.place) /\ p.method = w.method
           /\ p.mount = (IF Mountable(w.method) THEN w.mount ELSE "")
    [] w.is = "edit" ->
         \E p \in parts :
           /\ p.slot[1] = w.on[1]
           /\ w.size # 0 => Cardinality(Places(p.slot)) = w.size
           /\ w.method # "same" => p.method = w.method
           /\ w.mount # "same" /\ Mountable(p.method) => p.mount = w.mount
    [] w.is = "undo" -> parts = Initial
    [] OTHER -> TRUE
AsRequested ==
  turn = "page" /\ request # NoRequest /\ request' = NoRequest /\ ~refused
    => CarriedOut(partman.parts, request)
RequestCarriedOut == [][AsRequested]_pageVars

(* Whenever automatic partitioning is offered it is offered for the table  *)
(* as it was found: nothing of an earlier choice, abandoned half way or    *)
(* taken back at the last question, is left in it.                         *)
AskedFromScratch ==
  turn = "user" /\ partman.q = "auto" => partman.parts = Initial /\ "manual" \in auto.extra

(* Once it is not his turn the user gets it back, or the page ends, except *)
(* while an encrypted volume is being opened: that is tried again for as   *)
(* long as it fails.                                                       *)
ComesBack == (turn = "page" /\ ~auto.crypto) ~> (turn \in {"user", "over"})

(* choose_partition, ubi-partman.py:2966: "Deleting partition didn't       *)
(* rebuild cache?" is said to be impossible: partman always lets the user  *)
(* delete what the page lets him delete.                                   *)
DeletingRebuilds == failure # "Deleting partition didn't rebuild cache?"
=============================================================================
