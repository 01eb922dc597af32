# Ubiquity in TLA+

A verification development of the ubiquity installer: TLA+ modules translated
from its source, TLC configurations that model-check them, and TLAPS proofs.
Line numbers are those of the sources under `src/`; `PROJECT.json` (`map`) gives
the lines each definition stands for, and (`hazards`) what is hard to test in
this code, line by line, with the properties that would notice.

    tlc -config wizard.cfg MCWizard        # any of the runs of section 3
    tlapm WizardProofs.tla                 # or another of the proof modules

## 1. The system

Ubiquity is one Python process with one GTK thread. It shows a sequence of
*pages* and, from the moment the user confirms the partitioning, works on the
disk behind the remaining ones. Nearly everything that talks to the system is a
*script* that speaks the debconf protocol over a pipe; the disk is partitioned
by debian-installer's partman, driven question by question. The same program,
called oem-config, makes the user's account on a machine its vendor prepared.

| component | state | modules |
|---|---|---|
| GTK wizard (`frontend/gtk_ui.py`, `base.py`) | page index and history, the filter in front, progress of the background steps, nested `Gtk.main` loops and pending quits, the buttons | `Wizard`, `InstallPlan` |
| page history (`base.py`) | a list of (page, widget) | `PageHistory`, `PageNavigation` |
| filters (`filteredcommand.py`, `debconffilter.py`, `plugin.py`) | `done`, `succeeded`, `next_go_backup`, two lists of progress bars, Cancel | `DebconfFilter`, `Wizard` |
| partitioning page (`ubi-partman.py`) and partman | the partition table, partman's question, the page's stack of menus and cache, frozen menus, the user's request | `PartitionTable`, `Partman`, `PartitioningPage`, `PartmanPages` |
| the other pages (`plugins/*.py`) | their entries, timers, look-ups; what they store | `PageShell`, `LanguagePage`, `KeyboardPage`, `WirelessPage`, `PreparePage`, `TimezonePage`, `UserSetup`, `Pages` |
| network (`nm.py`, `misc.py`, `base.py`) | NetworkManager's states, signals under way, the probe for the Internet | `Network` |
| plugin order (`plugin_manager.py`) | none: an algorithm | `PluginOrder` |
| the copy (`scripts/install.py`) | the target's tree, mounts, loop devices, update-apt-cache | `CopyStage` |
| the last phase (`scripts/plugininstall.py`, `install_misc.py`) | packages, mounts and diversions in the target, queued requests, one progress bar | `Packages`, `Requests`, `TargetRoot`, `LastPhase`, `Installation` |
| session (`bin/ubiquity-dm`, `scripts/start-ubiquity-dm`) | X servers, privileges, helpers, the program's status | `DisplayManager`, `Session` |
| first boots of a prepared machine (`bin/oem-config-*`, `data/oem-config.service`) | what is on disk, the tries | `OemConfig`, `Session` |
| `bin/ubiquity`, debconf and noninteractive frontends | what was done, the exit status | `InstallerProgram` |

How they interact: the wizard creates a filter for each page and each background
step and is called back when it ends (`debconffilter_done`); filters enter and
leave the wizard's main loops; pages set the wizard's buttons at any time, from
timers, answers of servers and D-Bus signals; the copy and the last phase leave
each other files under `/var/lib/ubiquity`; the scripts around the program see
its exit status and what is on disk, and nothing else.

What is hard in it: recursive main loops left through staggered idle callbacks;
background steps that end in any order with respect to the pages; an error that
replaces filter and page under `run()`; Back over pages that were shown, skipped
or silent; a page that must answer an automaton it does not own, and caches what
that says; timers and look-ups that end after the page they belong to; package
decisions taken before the copy and acted upon after it; exceptions between a
mount and its unmount; X servers that report late; a power failure anywhere in
the first boots. What makes the components correct is what section 3 lists.

## 2. The modules

Each component has a module whose actions are the code's handlers; MC modules
give TLC its constants. One GTK thread means that a handler is one atomic step
with all it calls; modal dialogs are part of the step that opens them.

### Wizard, InstallPlan, PageHistory, PageNavigation

`loops` is the stack of `Gtk.main` calls: `"run"` for the one in `run()` (a
page's, or the slideshow's) and a filter for each question on the screen.
`filters` is the table of live FilteredCommands; `FilterIds` bounds how many are
alive at once, which Python does not. `loop` is `ui_loop_level > 0`, `go` what
the script was last told.

| code | action |
|---|---|
| one turn of the loop in `run()` | `StartFilterPage`, `StartUiPage` or `SkipPage`, then `PageReturns`; `LeaveRun`, `StartSlideshow`, `Finish` at its ends |
| `dbfilter_handle_status` | `AfterPage` (the dialog's three answers) |
| `FilteredCommand.run` | `Ask` (shows the page, enters a loop) or `AnswerAtOnce` (already `done`) |
| `quit_main_loop`, `idle_quit` | `pending_quits`; each returns one loop: `QuestionReturns`, `PageReturns`, `Finish` |
| a script's exit | `FilterSucceeds`, `FilterFails`, `Crash` (install, plugininstall) |
| `error()` of the components and pages | `BackgroundError`, `PartmanError`, `PageError` |
| the buttons | `NextOnFilterPage`, `NextOnUiPage`, `BackClicked`, `Quit` |

* Quits still pending when `run()`'s own loop ends are lost in `refresh()`,
  where no main loop is running: `PageReturns` sets `pending_quits` to 0.
* `on_back_clicked` on a page without a filter also calls `find_next_step`,
  which does nothing there (`PagesAssumption`). `BackClicked` leaves it out.
* `ubi-prepare`'s script sends no GO and exits 0 even when backed out of
  (`NoGo`); `ubi-console-setup` may have nothing to ask (`Silent`).
* partman's `ok_handler` does not set `done`: only its confirmation question
  does. Its `plugin_on_next_clicked` may switch to the install interface early.
* When the user quits during the slideshow `run()` reaches the finished dialog
  too, with `current_page` None; `FinishedWhenDone` is about the other case.

`faults`, bounded by `MaxFaults`, counts a script that fails by itself, a crash,
an error dialog, a question asked again. `Prompt` states that an idle quit, done
within milliseconds, comes before whatever a script or the user does next; the
fault-free run does without it. `reopened`, a history variable, says that Back
was pressed on a page past partitioning: `set_page` leaves it enabled on the first
of them. `InstallPlan` is the abstract specification: the background steps, each
started when the last thing it waits for is done. It is given up (`given_up`, which
the refinement maps to a failure or `reopened`) when a step fails or the partitions
are to be changed again.

`PagesAssumption` says of the pages that partitioning always shows a question and
is not left with a success by Back, and that the last page is always shown and
is neither partitioning nor the time zone: of the plugins only `ubi-wireless`
declares `plugin_skip_page` (`ubi-wireless.py:39`), partman's scripts end with GO,
and usersetup comes last.
`PageNavigation` is the loop of `run()` reduced to navigation, with `trail`, what
the user went through, as a history variable, and pages that change their mind
about being skipped when the network does (`MaxChanges`). `NavigationAssumption`
says that pages after partitioning have one screen: only prepare and partitioning
declare optional widgets (`ubi-prepare.py:133`, `ubi-partman.py:177`).

### DebconfFilter

The script sends any line of `Lines` in any order and waits for its reply.
`process_line` is split into one action per branch. `installing` is chosen
initially and never changes: it does not while one filter runs, but for partman's
own exit. `Answer(TRUE)` may leave `done` false, as partman's `ok_handler` does.
`Quiet` are errors whose `error()` returns False without telling the user
(`ubi-partman.py:2230`). Debconf is external: it shows a question or says it will
not (`PassOn`).

### PartitionTable, Partman, PartitioningPage

A partition or a run of free space is a *slot* named by where it begins and
ends, as parted's ids are, so it changes name with its neighbours. `Partman` is
d-i's partman as the page meets it: `Outcomes` gives every question that may
follow an answer, including its errors. `PartitioningPage` is `Page` of
`ubi-partman.py`: `turn` says whether partman, the page or the user acts; `build`
is what the page keeps while it reads (the stack of states, the cache, its
order, `update_partitions`), `frozen` the files that freeze menus, `auto` what
automatic partitioning found. `DoRequest` and the `On...` actions are the
branches of `Page.run`; the user's requests are create, edit, delete, new label
and undo. `refused` remembers that partman or the user objected, `turnedAway`,
a history variable, that partman refused to open the row the page was to delete or
reads last, whose device is in use as a whole (`InUse`): `build_locked` looks at the
partition's mark only. What follows is the finding `locked_device`, and what the page
does afterwards is in the model, but not promised.

Whether a partition's menu has an item for resizing, which partman asks parted, is
left open while the page reads; requests find it there.

### PageShell, the pages, Network, Pages, PluginOrder

`PageShell` is what pages share: which one is shown, `forward`, `backward` and
the buttons' labels. Each page is a module with the page's entries and one action
per handler, timer, answer or signal; handlers of a page go on while another is
shown, where the code lets them. `Pages` puts them together: a *tour* is a walk
through some of the pages, in which `"other"` stands for pages that are not
looked at; it chooses one initially. `PartmanPages` is the partitioning plugin's
five sub-pages as the user sees them: ask, BitLocker's, auto, advanced and
crypto; `Layouts` is what partman may find. `PluginOrder` is a pure
algorithm, checked in the initial states on the plugins' own declarations, over
every order in which they may be loaded.

### Packages, Requests, TargetRoot, CopyStage, LastPhase, Installation

`Packages` is the closure of dependencies and the greedy removal
(`get_remove_list`), with apt's `BrokenCount` as an operator. `Requests` is what
the stages leave each other on disk. `TargetRoot` counts mounts and diversions.
`CopyStage` copies a small tree entry by entry over whatever is in the target,
while `update-apt-cache` makes directories in it; a path is a sequence of names
that may carry a number of `.bak` suffixes. What a move of a directory cannot do,
through a file or into the directory itself, is `Blocked` and raises. In
`LastPhase` every phase either goes on or raises, and the code's own handlers
decide what becomes of that. `do_install` passes over what is not in apt's cache
(`Missing`: no archive has it) and lets `resolve_by_keep` keep back any of the
rest, neither with a word to the user: `InstallEnds` gives every set of packages
it may leave, and `trouble` notes that apt kept something back. `Installation`
runs one stage after the other, the second after a copy only: not after a single
preseeded image, whose stage ends well with nothing copied.

### InstallerProgram, DisplayManager, OemConfig, Session

`DisplayManager` is one run of ubiquity-dm from its first X server to its exit:
`server` is the state of each of the three it may start, `old` one left by an
earlier ubiquity-dm. X servers are processes of their own: they come up late,
report by SIGUSR1 at any time, refuse when the display is held, or die. `Raises`
is any exception, which `main` turns into status 1 with everything left running.
Of the helpers the window manager and the settings daemon, which is waited for,
stand for all. `InstallerProgram` is the program by its ends; the frontends
without a window are there with every exit they have. `OemConfig` is the service,
the five tries, the wrapper, and what outlives a boot. `Session` puts them under
the live system's boot script and the prepared machine's first boots, with
`GoesDown`, a power failure or the reboot asked for, between any two steps of the
latter. `claimed` is a history variable: a run that made no account passed for a
success, in one of the two ways the code has for that: ubiquity-dm lost a status
that was not 0, or the user went back from the debconf frontend's first page
(`WentBack`).

## 3. The runs

| run | bounds | states | question |
|---|---|---|---|
| `wizard` | all 7 pages, wireless skippable and without filter, console_setup silent, Back wherever it is enabled, no failures, every interleaving, 4 filters | 9,273 | does an undisturbed wizard end, and follow the plan unless it is reopened? |
| `wizard_faults` | partman, timezone, usersetup; Back, one failure of any kind, 3 filters | 2.4 million | what holds whatever fails? |
| `navigation` | 7 pages, one skippable, one silent, one with two screens, two changes of network | 376 | does Back retrace the trail, and end? |
| `filter` | two own questions (one preseeded, automatic), an error, a foreign question, bars of two titles, three deep, installing or not | 98,860 | answers, Cancel, bars |
| `partitioning` | a disk in use as a whole with a partition that is not marked, one of two places with one partition, and one with a partition in use; two methods, two mount points, all requests, all errors, partman dying anywhere | 1.5 million | page and partman |
| `installation` | 11 packages, one in no archive, 8 paths, four targets (one where the new link points through a file), five ways to provide the source, every phase failing | 405,404 | what a good end has done, and every end undone |
| `pages` | seven tours, two signals and two look-ups under way, three machines, five layouts | 609,060 | what the pages keep |
| `session` | four machines, a server polled once, two tries, two pages, with and without automatic-ubiquity | 903,474 | from power on to the program and back |
| `early_finish`, `second_commit`, `locked_device`, `lost_status` | as above, without failures in `second_commit` | | each violates the one property it states (section 5) |

What the properties say (their comments say it at length):

* `ImplementsPlan` (refinement of `InstallPlan!Spec`): each background step runs
  once, alone, after what it needs, up to a failure or until the user goes back from
the page after partitioning. `Termination`: every fair behaviour ends.
  `NoQuitLost`: quits and main loops match. `LockedWhileWorking`,
  `ClicksReachThePage`: what the user can do.
* `StepsInOrder`, `NoDeadFilter`: even with failures, the copy waits for the
  partitions and the time zone, the last phase for the copy and the pages; no
  click or main loop belongs to a filter whose script has ended.
* `HistoryFollowsTrail`: the history holds the screens the user went through, in
  their order, and else only pages jumped over. `BackShowsPrevious`, `BackEnds`:
  Back leads to the screen before, and ends.
* `GoFollowsTheAnswer`, `CancelOffered`, `BarsInStep`: the protocol towards the
  script, and two lists of the same bars.
* `NoSurprise`: no handler meets a question or a menu it does not expect, until
  partman turned the page away; nor are `PageShowsTable` and `AtRest` promised then.
  `InStep`: what partman says goes into the row of the partition it speaks of.
  `PageShowsTable`: the page shows the table there is. `AtRest`: when it is the
  user's turn nothing is frozen or half read. `AskedFromScratch`: automatic
  partitioning is offered for the table that was found. `RequestCarriedOut`: the
  user gets what he asked for, if neither partman nor he objected while it was
  carried out. `ComesBack`: and his turn.
* `CopiesTheSource`, `NothingLost`: the target is the source, nothing that was in
  it is lost, and nothing the copy set up is left; of a single preseeded image
  only the latter two. `NoFilesMissing`, `NoHollowPackage`: what is not copied and
  what is removed agree, the second where the packages let the two stages decide
  alike (`DecisionsAgree`). `AskedForIsInstalled`: what was asked for, if an
  archive has it and apt kept nothing back. `TargetReleased`: however the last
  phase ends, the target is let go of. `ProgressFits`: the one bar.
* `NextOnlyWhenReady`, `LabelsTell`: the buttons all pages share.
  `NextSaysWhatItDoes`: Next promises to install or to restart where that is what
  comes, and nowhere else, as long as wireless is not in use; once it is, each
  signal of NetworkManager rewords the button, on pages after the wireless one
  too (`state_changed` does not look which page is shown). `NamesFollow`,
  `VariantsFit`, `LiveIsSaved`, `RightCompletions`, `CountryOfLanguage`: what
  pages keep agrees with itself whatever the timers and look-ups do.
  `PagesInOrder`: the pages come in one order, however they were loaded.
* `WellStarted`: the program is started by root, on a server that reported, and
  never again over an installation that is done. `AWayIn`: a prepared machine keeps
  its vendor's account, the service and the program until its user has one or was
  told how to make one, wherever the power fails, but for the two false successes of
  section 2. `NeverStuck`: the scripts stop at
  nothing but the program, the user and the end of the boot.

Each has a mutant of the code's model that breaks it (definitions under
`\* Mutated:`), so that none holds by the shape of the model.

### Bounds

A page and one background step make two filters; Back after partitioning adds a
second partman_commit, and four leave room for it. With failures more may pile up
and `FilterIds` cuts those behaviours off: what `wizard_faults` checks is
therefore also proved for any number (section 4). The short wizard starts with
partitioning because nothing works in the background before it. Bars three deep
are the least that tell first, middle and last apart. Two places on a disk are the
least on which creating, resizing and deleting change a neighbour's id; the other
disks make the cache keep what partman did not tell of, and are the two ways to be
in use, as a whole and by partition. The packages hold one for each rule of the
removal, the tree one entry for each of its cases, and three targets the ways to
be in their way. Two signals and two look-ups are the least that can overtake or
outlive each other; the tours are apart because pages meet in the buttons and the
network only, which every tour has, and language with time zone, which have a tour
together. A server polled once instead of 60 times may still come up before,
during and after the polling; two tries have a first, a repeated and a last one.

`CHECK_DEADLOCK FALSE` is set where the program may really stop: after a failure
in the wizard (in its slideshow, when partman_commit failed: the TODO at
`gtk_ui.py:1733`), and at the end of the installation's scripts.

### Fairness

`Wizard` (`FairSpec`) assumes weak fairness of `run()`'s own steps and of each
live filter: GLib dispatches sources that stay ready, and scripts ask or end; and
strong fairness of Next on each page: every time the page comes back the user may
press something else, but not for ever. Back and Quit are never assumed.
`PageNavigation` assumes weak fairness of `run()`, not of the user.
`PartitioningPage` assumes only that as long as it is partman's or the page's
turn something happens: both are processes nothing blocks. `Session` assumes weak
fairness of the scripts and ubiquity-dm as a whole; nothing of the user, of the
program, nor of an X server. The pages have safety properties only.

## 4. The proofs

`WizardProofs` proves for every list of pages that satisfies `PagesAssumption`,
every number of filters and every number of failures:

* `TypeInvariant`, `Typing`: `TypeOK`. It is not inductive: `PopIndex` and
  `PartmanIndex` must be pages, which needs the history to name real pages
  (`AddHistoryType`, `PopHistoryType`), and `PageReturns` needs that while the
  page loop's `"run"` is on the stack and `stage` is `"pages"`, `pagesindex` is a
  page (`PlaceOK`).
* `StepsOrdered`: `StepsInOrder`, by `EveryStepIsTableStep`: each step leaves a
  filter's module as it was, starts one that is `Justified`, or ends one; and
  the four progress flags never become false again.
* `DeadFiltersForgotten`: `NoDeadFilter`. Its two halves rest on each other
  through `TableStep`: a filter on the stack, or the page's filter once the step
  is over, does not end.

`PlanProofs` proves, for the same pages and filters, with Back wherever it is
enabled, what holds up to the first failure (`faults = 0`); after one the first
four properties below are false, as runs with other constants show at once.

* `StaysCalm`: the inductive invariant `Calm`. `Shape`: the main loops are
  `run`'s and that of the page's question, and only the page's filter is a page's.
  `Quits`: a quit is due exactly when the loop that runs is to end, and the buttons
  are disabled until the next question. `Answers`: the script is told to back up
  only if the user goes back or quits. `Course`: where `run` is tells whether the
  partitions were begun and the pages are over; nobody quits once they were, and only
  then can the user have reopened them. `Ordered`: the steps come after what they
  need. `Ends`: the user is locked in from the first step on. These (`Sound`) hold
  even if the user goes back to partitioning. Unless he does so do (`Straight`):
  `Once`, each page from partitioning on sets its flag when it is left, or, if the
  user quits before, not at all; `Work`, one step at a time and none again; `Last`,
  the slideshow ends with the last. Each part is needed by another: that the quit a
  page asks for ends its own loop rests on the buttons, and they on the quits.
* `QuitsArrive`, `UserLockedIn`, `ButtonsReachThePage`: `NoQuitLost`,
  `LockedWhileWorking`, `ClicksReachThePage`; and `FinishesWhenDone`:
  `FinishedWhenDone`, if the wizard is not reopened.
* `CarriesOutThePlan`: `ImplementsPlan`, the whole of it and without a condition,
  as `InstallPlan` states no fairness and says itself when it is given up. A step
  is the plan's when a page with a flag is left or a background filter succeeds
  (`PagePlan`, `StepPlan`), and no step of it otherwise (`QuietPlan`).

`NavigationProofs` proves for any pages, any of them skippable or silent, and any
number of screens on the pages up to partitioning:

* `HistoryFollowsTheUser`: `HistoryFollowsTrail`, and `BackRetraces`:
  `BackShowsPrevious`, from `NavigationInv`. Shown or not, the history begins with
  the first page, is in order, and holds the first screen of every page up to its
  last entry that shows something (`WellFormed`); therefore a page that comes
  again, by Back or by an error's return, is found there. Its last entry is the
  screen that is shown (`OnScreen`); or the pages between it and `pagesindex` all
  show nothing (`Forward`); or, on the way back, it is of the page that comes
  (`Backward`). `ShownAgain` and `ShownNext` say what `add_history` makes of such a
  history, `StepBack` what `pop_history` does. An error in the middle of Back would
  break it, but the pages Back passes over are not after partitioning: Back is not
  offered further than one page behind it, and that page has one screen.

`DebconfFilterProofs` proves for all questions, titles and depths of bars:

* `Typing`;
* `BackupSafe`: `GoFollowsTheAnswer` if `Quiet = {}`. With a silent error it does
  not hold, as intended by the code: "Back up silently." The run that checks the
  property has no silent errors either;
* `CancelSafe`: `CancelOffered`, with the button in step with the capability;
* `BarsSafe`: `BarsInStep`, from `NoBarStrays` (the frontend never shows more
  bars than the filter knows of) and `AlikeWhileInstalling`.

`PartitioningProofs` proves for any disks, table, recipe, locks, methods and
mount points:

* `PageOnCourse`: the inductive invariant `OnCourse`, which holds until partman turns
  the page away (`turnedAway`). The conversation is in one
  of three phases. `Choosing`: automatic partitioning, with nothing read and, while
  it can be taken back, partman's table as it was found. `Reading`: one row is
  open, partman is at that row, and every row is fresh in the cache, on the list
  of those to be read, or the one being read. `Waiting`: what the cache does not
  know is on the list partman has told of (`Known`), and request, question and
  answer fit each other (`Asks`, `Answers`, `Doing`).
* `HandlersAreExpected` (`NoSurprise`), `CacheIsTable` (`PageShowsTable`),
  `PageAtRest` (`AtRest`), `RightRowRead` (`InStep`) and `OfferedFromScratch`
  (`AskedFromScratch`) follow from it.
* `RequestsAreCarriedOut` (`RequestCarriedOut`), with a second invariant, `InHand`.
  As long as nobody objects, the items of a request that are still to do are kept
  in order in the open menu, the one in hand is partman's question, and what is
  not among them is done (`UnderWay`). The page skips an item that is not in
  partman's menu together with those before the one it finds, so the proof needs
  that the menu offers the method always and the mount point whenever the method
  just set can have one (`NextItem`, `NoItem`). What partman objects to while the
  table is read again is of another menu and excuses nothing.

The step that carries it is that what partman tells after a change covers every
row the change touched (`TellsAll`), its neighbours' free space among them; that
needs that a table's rows are disjoint and cover the disks (the lemmas on tables
and on lists in order), and hence that the places of a device are next to each
other (`TableAssumption`). Any devices and partitions may be in use. All seven hold
until partman turns the page away: the page, which takes the menu that comes back
for the row's own, is off its course from there on (`locked_device`, section 5).
That a refusal of any other row does no harm is part of the proof: the page goes on
with the next one, and the row refused counts as read (`FreshIn`). TLC checks
`InStep`, `AskedFromScratch`, `RequestCarriedOut` and `ComesBack` beyond that point
too.

`SessionProofs` proves for every kind of machine, any patience with X servers and
any number of tries:

* `StartedWell`: `WellStarted`. Its half about ubiquity-dm follows from
  `Equipped`: past `"launching"` a server reported, and privileges, dropped while
  the session is watched and managed, are back before the greeting. `Equipped`
  needs that `"next"` is never reached with the third configuration, or the one
  after it would go on without a server. The other half is `Once`: the frontend
  without a window is only entered by its own kind of machine, before it is done,
  and whoever works has written the version file, so that done implies it.
* `NobodyLockedOut`: `AWayIn`, from `Earned`: firstboot takes the account and the
  service, and the wrapper the program, only when an account was made or one of the
  false successes happened, and the shell is entered and left only after the user
  was told; and from `Honest`: a program that ends with 0 under the wrapper made the
  account or was backed out of.

`InstallationProofs` proves for any live filesystem, any tree in the target, any
packages and any number of plugins:

* `SourceIsCopied`: `CopiesTheSource`, and `TargetIsKept`: `NothingLost`, both from
  `CopyFits`. The target is a tree at every step (`IsTree`); what is left of the
  walk is closed downwards and lists a directory before what is in it
  (`WalkFits`), so that making room for a path disturbs nothing that was passed;
  what was passed is copied (`Walked`), or the source was never mounted, which
  umount_source finds out before anything can end well (`Unseen`); between
  remove_target and the copy nothing but update-apt-cache's directories or a bad
  copy can appear at the path (`NextFits`); what is mounted and attached is on the
  lists umount_source works off (`MountsFit`). The lemmas about paths and trees
  say what a move, a backup under the first free name, makedirs and rmdir make of
  a tree (`MovedTree`, `FreeBackup`, `WithDirsIs`, `WithoutOne`), and
  `TargetRemoved` puts them together for remove_target. `SourceAssumption` is what
  os.walk gives: a tree, parents first.
* `RegionsFit`: `ProgressFits`. `InBar` says how far the regions of the bar have
  got in each phase (`CountFits`), which needs how many plugins are left
  (`PluginsFit`) and that `oem` does not change once the copy is over; and that a
  second bar is there only after a conflict of language packs or an exception
  (`BarsFit`).
* `NothingIsMissing`: `NoFilesMissing`, if nothing is broken in the live system;
  one that is broken to begin with lacks packages whatever is left out. It rests on
  what the removal does in whatever order: a deletion that breaks something is
  taken back with all it dragged along (`RemoveLeaves`), so nothing is broken
  between two of them; and on the closure of what was asked for, which the
  blacklist keeps clear of.
* `RootIsReleased`: `TargetReleased`, and `AskedForGetsInstalled`:
  `AskedForIsInstalled`, from one invariant, `LastFits`: in each phase which
  packages are installed (`StateFits`, `AskedFits`), what is mounted and diverted in
  the target (`RootFits`), and that what the script put into apt's configuration is
  taken out (`ConfFits`). Between two phases nothing is mounted but the CD and, on
  EFI, /sys, unless the boot loader's installation raised. What was
  asked for may go as not needed while other packages are removed;
  install_restricted_extras, which comes last, installs it again. It holds for
  what an archive has (`Missing`) and if apt kept nothing back: `do_install` tells
  nobody of either.
* `AskedForIsNotHollow`: `AskedForHasItsFiles`, from `ListFits`, which says what the
  blacklist and the lists of both stages hold: for any packages whatever, what was
  asked for before the copy, and what that needs of the live system, never stays
  registered with its files left out. It is the half of `NoHollowPackage` that does
  not rest on the two stages deciding alike, which the code does not see to. The
  other half, that what is left out is removed, TLC checks on the run's packages,
  where `DecisionsAgree` holds: the live system is sound, it holds oem-config, no
  package may go in place of another one that may go too, and restricted packages
  are not set aside when there is nothing to remove. Without it that half is false
  (section 5).

The loops of `Packages` are recursive functions on sets of packages and on the
places of a list (`Grown`, `Through`) instead of RECURSIVE operators, so that they
can be reasoned about. `GrowthExists` shows that the first has a value, as every
round adds something; `GrownEnds` that what each round keeps holds of the set it
ends with, to which nothing can be added; `ThroughKeeps` the same of a walk through
a list.

`PagesProofs` proves for any tours, languages, layouts, networks, zones and names:

* `LabelsAlwaysTell`: `LabelsTell`, which is inductive as it stands; the proof is
  that no other page touches what it speaks of.
* `CountryFollowsLanguage`: `CountryOfLanguage`. It needs that on the language
  page the language the page began with is the one stored (`InitialIsStored`),
  since Next compares with that one to tell whether to forget the country.
* `DerivedNamesFollow`: `NamesFollow`. It needs that the form takes a name for
  edited only if it was given by hand (`EditedKnown`), through the handlers that
  set other entries while they are blocked; and that the user name made of an
  empty full name is empty (`NamesAssumption`).
* `VariantsAlwaysFit`: `VariantsFit`, and `LiveKeyboardIsSaved`: `LiveIsSaved`,
  both from `KeyboardInv`: while the script waits for a variant, what is listed,
  stored and acted on is one layout, and a layout selected since has its timeout
  still to come; once it has ended, what runs is what it stored.
* `CompletionsAreRight`: `RightCompletions`. `Pending`: of the look-ups that are
  out, the live ones are of the text last asked for, and if any is out one is live;
  the two seconds, if they run, are of that text too.

It also proves, for any disks, what Next needs and says:

* `NextNeedsAnswers`: `NextOnlyWhenReady`, one invariant per page. That a page's
  flag is not set by another's handlers is `PagesKeepToThemselves`: on another page
  they change nothing of the shell that could make one wait or enable its button.
  The password of the page on what to install may be left unlooked at only on a
  machine without Secure Boot (`PrepareGate`). The names must stay complete while
  the domain's tab is shown and the page is entered again, for Back enables Next
  without a look at them; that needs that a typed user name is not taken for a
  derived one (`UserInv`). The page for the partitions needs that a way to install
  is only ticked if it is offered, and that the list of disks is filled when the
  page turns to them and kept until it turns back (`PartInv`).
* `ButtonSaysWhatItDoes`: `NextSaysWhatItDoes`. The labels were once part of
  `NextOnlyWhenReady`; the attempt to prove that for every tour showed it false of
  those that hold the wireless page, which is why the property now says so.

Assumptions: those named in the modules (`PagesAssumption`, `FilterIdsAssumption`,
`QuestionsAssumption`, ...), which TLC evaluates on the instances. Only
model-checked: liveness (`Termination`, `BackEnds`, `ComesBack`, `NeverStuck`),
which TLAPS does not prove, and `PagesInOrder`, which is about the plugins the code
declares and has no other constants, so that the run says all there is to say.
That the violated properties of section 5 are violated is TLC's to show.

## 5. Where code and documents disagree

1. `early_finish`: an error during the slideshow makes a new partman filter
   `self.dbfilter`; its exit quits the slideshow's loop, and the finished dialog
   appears while partman_commit works. The comment at `gtk_ui.py:931` says only
   the last phase ends that loop.
2. `second_commit`: `set_page` looks for partman in `pages[:pagesindex - 1]`, which
   leaves out the page just before the current one (`gtk_ui.py:1471`). On the page
   after partitioning Back is enabled while partman_commit works, and Next on the
   partitioning page starts another. The comment at 1472: "We're past partitioning.
   Unless the install fails, there is no going back."
3. `locked_device`: `partman_lock_unit` (`base.sh:1126`) marks either a device or its
   partitions, and partman opens no partition of a marked device; the page looks at
   the partition's mark only (`ubi-partman.py:2168`) and lets the user delete it.
   Partman turns the page away with the request still there, which the assertion at
   2966, "Deleting partition didn't rebuild cache?", says cannot be. Most devices in
   use as a whole (a bare disk under LVM) have no partitions; the code does not see
   to it.
4. `lost_status`: `main()` of ubiquity-dm returns nothing, so its status is 0
   unless an exception reached it. A crash of oem-config counts as a success, and
   the vendor's account and the service go: "so we don't end up with no user
   account" (`gtk_ui.py:269`).

Seen on the way and not run as checks, by place:

* **Wizard.** A page that was jumped over has a history entry without a widget; if
  it is shown on the way back it gets a second, and Back shows it again
  (`base.py:222`). PROGRESS STOP forgets the outermost title, not the current one
  (`debconffilter.py:381`). A late success of the probe sets the wizard online
  while it is offline (`base.py:456`).
* **Partitioning.** If the partition read last is on a device in use the menu
  stays frozen, and the page raises `PartmanOptionError` when it needs an item
  that is hidden. What is read again of the cache are the entries partman told of
  (2824); the entry of a partition that was deleted or got another id stays with
  its path, although "Duplicate paths should not be possible" (3672). An encrypted
  volume whose commit fails is opened again for ever (3413). Crypto keys of an
  abandoned automatic choice stay, against the comment at `plugininstall.py:907`.
  Every automatic answer passes `get_crypto_keys`, whose `info_loop` disables Next
  for an empty passphrase: the manual page comes up with Next disabled, and so
  does the ask page after a refusal (3564, 1720). Resizing is offered by one bound
  and limited by another (3296-3302, 685).
* **Installation.** Packages whose files were left out stay registered when the
  stages decide differently, each on its own part of what is installed
  (`install_misc.py:643`): a dependency can be met by either of two packages
  that may both go, and one of them has to stay; oem-config, installed but not
  recorded, pulls in what needs a blacklisted package; restricted packages are set
  aside by `generate_blacklist` but `remove_extras` has nothing to remove
  (`DecisionsAgree` excludes these). A preseeded single image is never mounted
  (`install.py:688-696`), and the stage ends well with nothing copied (the copy is
  in the run with it, what is copied is not asked then, nor is the last phase run).
  `do_install` passes over packages no archive has (`install_misc.py:538`) and those
  `resolve_by_keep` keeps back (568) without an error. `do_remove`
  (`plugininstall.py:1148`) purges everything apt counts as auto-removable, also what
  was asked for and recorded "so that we don't try to remove them later"
  (`install_misc.py:213`). A join of a directory that times out is not caught;
  `dev` may be unbound (`plugininstall.py:913-919`); a bar is left after an
  ignored conflict of language packs; `/sys` stays mounted on EFI after grub
  fails; `remove_extras` meets an unbound name without a manifest.
* **Pages.** usersetup: a preseeded user name is overwritten by the one derived
  from the preseeded full name (859-877); a look-up's answer is noted beside
  another name (457); what is typed after Next is not saved. keyboard: a layout
  chosen less than 600 ms before Next is lost, although it is meant to apply at
  once (583-587); its timers do not look which page is shown. time zone: an
  aborted look-up's answer stops the new one's fallback. wireless: leaving while
  it connects can leave Back saying "Stop". prepare: the download box is always
  stored as unset; "Either way, we cannot continue" is untrue when codecs were
  preseeded. language: cancelling does not restore the locale.
* **Session.** A server given up after 60 s is not stopped; its late signal
  counts for its successor, and it outlives ubiquity-dm, whose next try it
  refuses the display. Backing out of the debconf frontend's first page reboots
  with status 0, so that firstboot's branch for 10 (102-125) is out of reach. A
  noninteractive installation whose commit fails exits with 0. After the panic
  shell the default target is still oem-config's; if the last command in that
  shell failed, `set -e` ends the script there. `GET oem-config/remove` after a
  purge (firstboot:85) may end it too, with account and service left.
  The run file is read by the upstart job only.

## 6. Not modelled, and what is left

* KDE's frontend (the same page loop with one flag for its main loops); the KDE,
  debconf and noninteractive views of the pages; OEM mode of the pages.
* `parted_server.py` and `misc.py`'s privileges: protocols of two calls each,
  with nothing between that interleaves.
* ProgressPosition's arithmetic; the partial lines and the SET, SUBST and METAGET
  hooks of DebconfFilter; the synchronous filters; a plugin that vetoes Next;
  usersetup's second main loop for a bad host name.
* Partitioning: the format item, wubi, ZFS, `SHOW_BITLOCKER_UI`, new volumes of
  an encrypted partition, drawing and sizes in bytes. The type and place of a new
  partition are folded into its size.
* Pages: release notes, names of zones, several wireless cards, the Install
  plugins. Installation: progress within one package operation, what logs and
  byte-compilation contain, a copy without the MD5 check.
* Session: debug modes, hooks and dm-scripts, shutting down instead of
  rebooting, oem-config-prepare; helpers an exception left are not followed.
* Drawing, tables, translations; the helper scripts that run commands in
  sequence.

Next, in order: `ProgressPosition`, then KDE's main loops, as modules.
