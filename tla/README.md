# A model of the REAPER plugin

This directory holds TLA+ models of `reaper-plugin`, the TLC configurations that
check them, and proofs for TLAPS. It is meant to be read beside the code: every
definition that models code is listed in `PROJECT.json` under `map` with the
lines it stands for.

The plugin is a Go process that an agent host starts and talks to over MCP. It
controls a running REAPER, a digital audio workstation on the same machine. It
has three ways in:

- REAPER's *Web Remote*, an HTTP server on the loopback interface, which reports
  transport and tracks and triggers actions by command id;
- the *runner exchange* `~/.ori-reaper`: the plugin puts a Lua script into
  `inbox.lua`, triggers the command of `ori_reaper_runner.lua` over Web Remote,
  and polls `last_status.txt` (and, for edits, reads `last_receipt.txt`);
- files: REAPER's configuration, a library of Lua scripts, project folders.

Nothing in the exchange says which run a file belongs to, REAPER's main thread
gets to a trigger when it pleases, and the MCP SDK calls the tools concurrently.
That is where the hard behaviour of this program is, and where the models begin.

## Inventory

| Component | State | Operations | Interacts with |
| --- | --- | --- | --- |
| Runner (`runner.go`) | `Runner.mu`; the exchange files | `RunScript`, `RunReadOnlyInspection`, `RunTidyApplier`, `RunTrackEdit`, `RunBulkPlan`, all through `run` | Lua runner by files, REAPER by HTTP |
| Lua runner (`ori_reaper_runner.lua`) | the script it has loaded | load, audit, execute, report | exchange files, the project |
| Connection test (`verifier*.go`) | a mutex of its own; copies of two exchange files | `verifyProject` | exchange files, REAPER |
| Command line (`runner_cli.go`, `main.go`) | none | `Exec`, `InstallRunner`, `ReadRunnerID` | exchange files, REAPER, in another process |
| Guarded edits and plans (`edits.go`, `bulk.go`) | none: they generate Lua | `Validate`, `Lua`, `Inverse`, `Ordered`, receipts | Runner |
| Edit service (`service.go`) | `undos`, by workspace | `tracks.edit`, `tracks.undo` | Runner, Web Remote client |
| Review service (`service.go`) | `plans`, `proposals` | propose, current, read, apply or test, cancel or discard, save | Runner, library |
| Script library (`library.go`) | files | list, read, create, update, delete | review service, catalog |
| Action catalog (`catalog.go`, `registered_catalog.go`) | none | list, find, tier | library, REAPER's keyboard file |
| Web Remote client (`client.go`) | none | state, actions, trigger | REAPER |
| Project Tidy (`tidy*.go`, `tidy_*.lua`) | records in the project folder; `state.json`, `plan.json`, `apply_result.json` in the exchange | survey, apply selection, dismiss, status, read | Runner, Lua runner, project files |
| Studio catalog (`studio*.go`) | none between calls | sources, paged inventory, live plugin list | files, Runner |
| Script registration (`scripts.go`) | REAPER's `reaper-kb.ini` | register, clean, add, delete | REAPER, which saves the same file; catalogs |
| Setup (`profile*.go`, `probe*.go`, `webremote.go`, `runtime.go`, `config.go`) | REAPER's configuration | probe, stage, repair, readiness | files, processes |
| MCP server (`serve.go`) | none | one tool for each operation | everything above |
| Surfaces (`ui/`) | what is shown; pending SDK requests | poll, act, render | MCP tools by messages |
| Blueprints, skills, protocol, scripts | data | | |

What makes each correct, and what is hard about it:

- **Runner and Lua runner.** A script runs at most once; an answer is about the
  caller's own script; a call that says "Nothing was run" is right, also later.
  Hard because the lock orders the plugin's calls and not REAPER's executions:
  requests that fail after they arrived, timeouts followed by a late execution,
  REAPER restarting, a status file that is written in two steps.
- **Connection test and command line.** They share the exchange and not the lock.
  A passed test must mean that REAPER ran the test's own script.
- **Edits.** An edit changes the track it was made for or nothing; its inverse
  restores what was there; a plan changes the tracks its author pointed at. Hard
  because a track is known by position and name only, others edit the project
  between any two reads, and positions shift under moves.
- **Edit service.** An edit is undone at most once, whoever races for it.
- **Review.** What was settled stays settled, capacities hold, workspaces do not
  see each other's items, only tested code gets into the library. Hard because
  every operation looks up, works on a copy without the lock, and writes back.
- **Library and catalog.** A create replaces nothing; a script runs under the tier
  it is listed with. Hard because files are read twice and nothing locks them.
- **Project Tidy.** A project is changed only as its user selected, reports name
  nothing that was not done, records survive a crash between two of their writes,
  a settled proposal is not opened again, and following the proposals comes to an
  end without losing a name. Hard because three files of the exchange are shared
  outside the lock, REAPER may come late to an applier, the user switches and edits
  projects meanwhile, and a report is four writes.
- **Studio catalog.** Following the cursor to the end lists every entry that was
  there all the time, once, and counts what it skipped. Hard because nothing is
  kept between the pages and the source changes.
- **Script registration.** What is removed is what is gone. Hard because REAPER
  writes the file in forms of its own.
- **Surfaces.** What is shown is not older than what the user just did.

The hazards, one by one and at their lines, are in `PROJECT.json` under
`hazards`, each with the properties that would catch it.

## Modules

| Module | Models | Uses |
| --- | --- | --- |
| `ReaperHost` | the exchange files and the Lua runner on REAPER's main thread | |
| `RunnerExchange` | concurrent calls of `Runner.run` | `ReaperHost`, refines `RunnerPromise` |
| `RunnerPromise` | what `Runner.run` promises, without files and locks | |
| `ExchangeClients` | connection test and command line beside the runs | `RunnerExchange` |
| `TrackEdits` | guarded edits, inverses and plans, as functions on projects | |
| `EditSession` | edits, undos and plans of concurrent calls on one project | `TrackEdits` |
| `ServiceReview` | plans, proposals, the script library, custom actions | |
| `TidyPlans` | what a survey proposes and an application changes, as functions on projects | |
| `TidyStore` | the files of proposals and reports in a project folder | `TidyPlans` |
| `SharedRunner` | a run of the Runner as one step, and the execution REAPER may owe afterwards | |
| `TidySession` | surveys, applications and dismissals of concurrent calls | `TidyStore`, `SharedRunner`, refines `TidyPromise` |
| `TidyPromise` | what Project Tidy promises, without files, runs and calls | |
| `StudioPages` | a page of a folder or of the plugin list, as functions | |
| `StudioCatalog` | hosts that list sources page by page | `StudioPages`, `SharedRunner` |
| `ReaperDesk` | Project Tidy and the Studio catalog at one Runner | `TidySession`, `StudioCatalog` |
| `KeyboardFile` | `reaper-kb.ini` between the plugin and REAPER | |
| `OrderLemmas` | lemmas: the first of some numbers, induction up to a bound, what removing from and inserting into a sequence gives | |
| `RunnerExchange_proofs` | theorems about `RunnerExchange` | |
| `ExchangeClients_proofs` | theorems about `ExchangeClients` | |
| `EditSession_proofs` | lemmas about `TrackEdits`, theorems about `EditSession` | `OrderLemmas` |
| `ServiceReview_proofs` | theorems about `ServiceReview` | |
| `TidySession_proofs` | surveys and applications as functions; the inductive invariant and the refinement of Project Tidy | `OrderLemmas` |
| `StudioCatalog_proofs` | walks and pages as functions; the inductive invariant of the Studio catalog | `OrderLemmas` |
| `ReaperDesk_proofs` | the theorems about Project Tidy and the Studio catalog, of the desk | `TidySession_proofs`, `StudioCatalog_proofs` |
| `MC...` | constants for TLC | |

### ReaperHost

`inbox`, `status` and `receipt` are the three files, by what a reader makes of
them: a script, not its text; "ok", "error" or empty, not the message. `pending`
counts triggers REAPER has received and not started. `stage`, `loaded` and
`outcome` are the locals of one execution of `ori_reaper_runner.lua`: it reads
the inbox (`LuaLoad`), turns it away or executes it (`LuaRefuse`, `LuaExecute`),
and reports in two steps (`LuaOpenStatus` truncates the file, `LuaWriteStatus`
fills it). `ReaperRestart` loses triggers and the execution; files stay. `ran`
is a history variable: how often each script was executed.

### RunnerExchange

Each call has a program counter; its values follow `Runner.run` from top to
bottom, and every file operation, the HTTP request and every poll is a step of
its own. A script stands for its run, so two calls never send the same text;
that is what lets `ran` say whose execution it was. Every error return is there:
`Failures` lists them by the outcome the caller sees.

`overlap` is a history variable. It says that REAPER still owed work when the
call took the lock, which only an earlier timeout, a lost request or a restart
can bring about. The promises are about calls without it; the run
`exchange_receipt` shows why they cannot be about the others.

### ExchangeClients

`CheckStep` is `verifyProject` with its deferred calls in the order Go runs them,
under the test's own lock. `ExecStep` is `Manager.Exec`. Errors the code ignores
are outcomes in which nothing changed. `Disturb` marks the runs that shared the
exchange with somebody.

### TrackEdits and EditSession

A track has a GUID, a name, a colour, a solo state and whether it is a folder
parent; the plugin never sees the GUID, the properties use it to follow a track.
Colours keep their arithmetic on a small scale: `Flag` stands for 0x1000000, and
REAPER may report a custom colour with its flag or without. `Refusal`, `Applied`
and `InverseOf` are the Lua guard, the Lua mutation and `Inverse`. `Reordered` is
REAPER's own function, modelled from the comment and the tests that describe it.
`Ordered` gives what each pass of its two loops appends, an edit or nothing, and
`BulkApplied` goes through these passes in their order.

In `EditSession` a run of a script is one step that may be refused, done, or done
with its answer lost: scripts do not interleave on REAPER's main thread, and
`RunnerExchange` shows what is needed to treat a run as one step. Between the
steps of a call other calls and `OutsideChange` (the user, other workspaces)
happen. A `mark` records the project around an edit so that `UndoRestores` can
compare what the inverse brings back with what was there.

### ServiceReview

`plans` and `proposals` are the maps under `Service.mu`; each step is one time
the code holds that lock, runs a script, or touches a file. A call keeps what it
has looked up in `job`, as the code keeps its copy. The library maps a file name
to whose code the file holds and whether its header asks for confirmation. A
create has two visible steps, since the file exists before its text does, and may
fail after its text is there, when the file is closed or read back.

### TidyPlans, TidyStore and TidySession

A project is its tracks, each with the roles its name spells and a colour, and its
markers and regions, each with a place and a name. A section name keeps what the
code tells apart: the section, its number, and whether it is written the way the
conventions ask. `IsProject` says what REAPER may have in a project. `Survey` is `GenerateTidySurvey`, with the choice of survivors
among markers at one place (`Twins`); `StillFits`, `Prepared` and `Changed` are
the phases of `tidy_applier.lua`. `conventions.md` is the constants.

`TidyStore` has one variable for each kind of file; a proposal is its number in
the order of creation. In `TidySession` each step of a call is one file read or
written, one directory listed, or one run, in the order of `RunTidySurvey`,
`RunTidyApplySelection`, `WriteProposal`, `WriteApplyReport` and
`DismissProposal`: a survey reads `state.json` (`ReadState`), takes the instant of
its proposal (`MakeProposal`), lists the names of the records (`ListProposals`) and
reads them one by one (`ReadRecord`), and others may write one in between. `GiveUp` is an error or a crash at any of these places: the
call is gone, its files stay. `stateFile`, `planFile` and `resultFile` are the
three files in the exchange that no lock protects. `asked` and `performed` are
history: what users have selected, and what REAPER has done.

`TidyPromise` is the abstract specification: a proposal is published once, settled
from then on, called "applied" only when something of it was done and "superseded"
only when a newer one is published, and nothing is done that was not asked for
while it was open. It lets a settled proposal be settled again, differently,
because the code writes a status from a copy that may be old.

### SharedRunner

A run is one step here, and `RunnerExchange` is the reason it may be. What is left
of the steps in between is what a timed-out run leaves behind: executions REAPER
owes (`owed`, a number), each of which comes later in the middle of whatever other
call and executes the canonical script that is in the inbox by then. Such an
execution writes a status, too (`stray`), and a run that has cleared the old one may
take it for its own: `Mistaken` is a run that goes on with "ok" before REAPER has come
to its script, which is then owed in its place. That is the behaviour
`exchange_receipt` finds in the steps of the Runner, as its callers meet it. `owing`
bounds how many runs may leave one.

### StudioPages and StudioCatalog

A source is a walk: a sequence of found items with what each adds to a page, an
entry or a count (`FoundIn` for a folder, `RowsFound` for the plugin list). `Page`
cuts it, with the counts of the checkpoint when the page is full. How many entries
a page takes is a choice (`room`), for the limit of the request and the bytes of
the answer alike. Paths are sequences of numbers, which keeps the order in which
the code compares them; a number in `LongNames` stands for a name whose cursor is
longer than the plugin accepts. `Sorted` puts a finite set in its order, each element
at the place given by how many come before it, and `Total` adds up a sequence; both
are functions, so that they can be proved about. `IsTree` says what can be on a disk
(an item is in a folder that is there), `IsList` what REAPER can list.

`StudioCatalog` adds the hosts that put pages together. `stayed` and `steady` are
history: which entries were there all the time, and whether nothing changed. The
plugin list is written by an inspector for each page, to a file outside the lock.

### ReaperDesk

The two in one plugin process: their steps interleave, and an execution left by one
comes in the middle of the other.

### KeyboardFile

`keyboard` is the set of rows in the file, `actions` the rows REAPER has in memory
and will save. A row has a command id or not, and its path is relative or absolute,
quoted or not: these are what the readers of the file differ by (`RegistrationFact`,
`Holds`, `Cleanable`). Writing is two steps, since the file is truncated first.

## Runs

| Run | Result | Shows |
| --- | --- | --- |
| `exchange` | holds | three concurrent calls, two of them edits: all promises, the refinement of `RunnerPromise`, and that every call returns |
| `exchange_receipt` | violated | a receipt can be stale in spite of the removal before the run |
| `clients` | holds | a run, a test and a command line together |
| `clients_noop` | violated | a connection test can execute the script of an earlier run again |
| `edits` | holds | two calls, two edits or a plan of two, two undos, two outside changes |
| `edits_undo` | violated | an applied edit whose undo is refused |
| `edits_moves` | violated | two moves in a plan differ from two single moves |
| `review` | holds | three calls of two workspaces, one place for each kind of item |
| `review_withdrawn` | violated | "Nothing was applied" of a plan that was applied |
| `review_tier` | violated | a confirm-tier script run without confirmation |
| `desk` | holds | Project Tidy and the catalog, alone and together, from eight kinds of starting points |
| `keyboard` | violated | cleaning leaves the row of a script that is gone |

A violated run checks one sentence of a comment, a tool description or an answer
to the user against what the code does; `PROJECT.json` quotes it under
`findings`. Each property of the other runs has a mutant of the model, which
changes the code's behaviour the way a plausible mistake would and breaks that
property: no lock, a lock over the files only, a removal left out, a request
sent twice, a guard dropped, an off-by-one. The mutants stand beside the
definitions they change, marked as such.

### Bounds, and why they suffice

- `exchange`: three calls. A promise is about one call; a second one can leave
  work behind for it, and a third can overwrite what the second left. Each call
  triggers at most once, so `pending` is bounded without a bound of the model.
- `clients`: one of each. Any two of them meet in every order; two tests exclude
  each other, and two command lines add no step a run and one do not make. The
  script of the run is a plain one, without a receipt: what receipts add is
  checked in `exchange`.
- `edits`: a project of three tracks has a move in either direction over a
  neighbour and over two places. The named, unnamed, folder, soloed-in-place and
  black tracks are in it. `MaxChanges` is 2: the second change can hide the first
  from the guard (rename away and move in). Plans have two edits (`PlanEdits`),
  enough for every pair of kinds in both orders, and are not mixed with undos,
  which they leave alone.
- `review`: capacity 1 is the smallest at which an item beyond it is possible,
  three ids let an item be settled, put back and replaced, `MaxCalls` 6 is enough
  for propose, test, retest, save and discard with one call to spare. Files are
  independent of each other, so one is enough.

- `desk` starts from a choice of situations, each small, instead of one that has
  everything (`MCReaperDesk`):
  - `Proposing`: every project of two markers and a region at two places, with
    unnamed, equal, differently written and free names, every one of four markers
    at one place, and every track of three roles. These are single states, in
    which what a survey proposes is compared with the project. Two places and
    four markers have every case of the choice of survivors: named and unnamed,
    agreeing and not.
  - `Alone`: one caller with three calls (survey, apply, survey, with a crash in any)
    and a run that times out, over two markers of which one is a duplicate, with a
    user who changes the project once, and over three markers without. With three
    markers and a change there are two calls.
  - `Together`: two callers in one workspace; two applications of one proposal,
    survey beside survey, dismissal beside application. One of them may time out,
    except where both callers make two calls.
  - `Workspaces`: two projects, one open at a time, so that a plan of one can be
    in `plan.json` while the other is open.
  - `Changing`: five folders that turn into one another, up to three times, while a
    host lists: hidden and linked items, folders that do not open or list, that lie
    too deep or hold too many names.
  - `TooLarge`: a folder of seven items for `WalkLimit` 5.
  - `Live`: two hosts, lists with repeated and unfit rows, two changes.
  - `Both`: an apply and a listing at one Runner with two late executions.

  `MaxProposals` 3 is a first, a crashed and a superseding survey. `MaxItems` 4 is
  never in the way. `DepthLimit` 2 has a folder too deep, and `MaxRoom` 2 pages
  that end within a folder.
- `keyboard`: three rows of the repository's own test, two calls.

`CHECK_DEADLOCK` is on everywhere; each module says in a last disjunct
(`AllReturned`, `ClientsDone`, `SessionDone`, `ReviewDone`, `Quiet`) when nothing more is
asked of it.

### Fairness

`exchange` and `desk` have a liveness property. `FairSpec` assumes weak fairness of each
call once it has been made: Go runs a goroutine that is not blocked, file
operations return, and HTTP requests have a timeout (`client.go`). The deadline
of the wait stays enabled as long as the call polls, and Go's `select` chooses
among ready channels at random, so it is taken sooner or later. A call takes the
lock once; Go's mutex does not starve a waiter, which together with the finite
number of calls makes weak fairness enough. Nothing at all is assumed of REAPER.

`StudioFairness` in `desk` assumes weak fairness of each host's listing: a host that
has a cursor asks for the next page, and a call returns, which is what the `exchange`
run shows of its only waiting part. A call may fail at each of its places and the
property (`EveryListingEnds`) counts that as an end; what it excludes is a cursor that
does not get on. Nothing is assumed of the calls of Project Tidy.

## What is proved

Every invariant and every action property of the passing runs is proved for all
values of the constants, and so are both refinements. What TLC checks on a handful of
tracks, calls, files and folders holds for any number of them. Only liveness stays
with TLC.

| Theorem | States | Module |
| --- | --- | --- |
| `TypeCorrect`, `Inductive` | `TypeOK` and the inductive invariant of the exchange | `RunnerExchange_proofs` |
| `InboxOwned` | `WaitingRunOwnsInbox` | |
| `OkIsOwnRunHolds` | `OkIsOwnRun` | |
| `AtMostOnceHolds` | `AtMostOnce` | |
| `GivenUpNeverRunsHolds` | `GivenUpNeverRuns` | |
| `ExchangeKeepsPromise` | the exchange implements `RunnerPromise` | |
| `ClientsTypeCorrect` | `ClientsTypeOK` | `ExchangeClients_proofs` |
| `ClientsVerifiedMeansProbed` | `VerifiedMeansProbed` | |
| `ClientsOkWhenUndisturbed` | `OkWhenUndisturbed` | |
| `SessionTypeCorrect` | `SessionTypeOK` | `EditSession_proofs` |
| `SessionUndoneAtMostOnce` | `UndoneAtMostOnce` | |
| `SessionUndoRestores` | `UndoRestores` | |
| `SessionFolderParentsStay` | `FolderParentsStay` (action property) | |
| `SessionPlanHitsItsTracks` | `PlanHitsItsTracks` (action property) | |
| `ReviewTypeCorrect` | `ReviewTypeOK` | `ServiceReview_proofs` |
| `ReviewCapacity` | `CapacityHolds` | |
| `ReviewSavedWasTested` | `SavedWasTested` | |
| `ReviewSettledStayGone` | `SettledPlansStayGone` | |
| `ReviewIsolation` | `WorkspaceIsolation` | |
| `ReviewCreateReplacesNothing` | `CreateReplacesNothing` (action property) | |
| `SurveyKeepsNames` | `KeepsNames` of every project | `TidySession_proofs` |
| `SurveyEnds` | `TwoRoundsTidy` of every project | |
| `TidyImplementsPromise` | Project Tidy by itself implements `TidyPromise` | |
| `DeskTypeCorrect` | `TidyTypeOK` | `ReaperDesk_proofs` |
| `DeskOnlyWhatWasAsked` | `OnlyWhatWasAsked` | |
| `DeskReportsAreTrue` | `ReportsAreTrue` | |
| `DeskRecordsLoad` | `RecordsLoad` | |
| `DeskAppliedHasResult` | `AppliedHasResult` | |
| `DeskSurveySettlesOlder` | `SurveySettlesOlder` | |
| `DeskKeepsNames`, `DeskInTwoRounds` | `TidyKeepsNames`, `TidyInTwoRounds` | |
| `DeskPlacesKeepAMarker` | `PlacesKeepAMarker` (action property) | |
| `DeskKeepsTidyPromise` | the desk implements `TidyPromise` | |
| `DeskStudioTypeCorrect` | `StudioTypeOK` | |
| `DeskNothingListedTwice` | `NothingListedTwice` | |
| `DeskStayersAreListed` | `StayersAreListed` | |
| `DeskPagesAddUp` | `PagesAddUp` | |
| `DeskCursorsGoOn` | `CursorsGoOn` (action property) | |

### Assumptions

They are the `ASSUME` of each module, and TLC evaluates them in every run.

- `ScriptsAssumption`, `RunsAssumption`, `ClientsAssumption`: an edit is a script, a
  call is named by its script, no script is of two clients, and "no file" and
  "blank" are no scripts.
- `SessionAssumption`: a project starts as a list of tracks in which no two have one
  GUID, which REAPER sees to; plans have any number of edits.
- `ReviewAssumption`: ids and callers are finitely many, the markers for "none" are
  no ids and no workspaces, and there is room for one item.
- `PlansAssumption`, `InstancesAssumption`: the bus role and the written style are
  among the roles and styles, an unnamed marker names no section, and what REAPER
  starts with are projects (`IsProject`: finitely many markers, each with a place and
  a name).
- `StudioPagesAssumption`, `StudioCatalogAssumption`: names are finitely many numbers
  (there are only so many strings of the length a file system allows, and their order is
  that of the numbers), and the limits are numbers.
- `DeskAssumption`: what a host may find are folders (`IsTree`) and plugin lists
  (`IsList`). All that `IsList` asks is that a row that cannot be shown has no
  identifier that reads like the id of an entry: the former is sorted by the identifier
  (`studio_live.go:175`), the latter by its format and identifier
  (`studio_live.go:225`). REAPER has none of this kind, but the code does not exclude
  it, and with one at the end of a page `PagesAddUp` would be false: the row would be
  counted nowhere.

### The exchange

None of the four promises is inductive. That a script ran at most once says nothing
about triggers under way that would run it again. The strengthening counts what is
*due*: `Due(r)` is how often `r` has been executed, plus one if the Lua runner has
just loaded it, plus every pending trigger if `r` is in the inbox, because each of
these would execute whatever is there. For a call that met REAPER at rest `Due`
never exceeds one, and it is zero when the call gave up before its trigger. That
needs to know that only the owner of the inbox sends triggers, which is mutual
exclusion (`Mutex`) and `WaitingRunOwnsInbox`; that a script not yet written is
nowhere in REAPER (`UnwrittenInv`); that up to its trigger such a call leaves REAPER
idle with the files cleared (`CalmInv`); and that while it waits, a status or a
receipt that appears can only be that of its own execution (`WaitInv`). `IInv` is the
conjunction. The refinement proof has one lemma for each kind of step of
`RunnerPromise` and shows every other step to be a stutter.

With tests and command lines beside the runs none of this holds: they write the
inbox without the lock. `ClientsInv` says what is left, of a run that nobody has
joined: it is alone in the exchange (`SoleInv`), and whatever REAPER does while it
waits is done for it (`ServedInv`). How often its script has run is left open, but for
the at least once that an "ok" tells of: a test may put an old script back into the
inbox, as the run `clients_noop` shows. A response file is written only by
the script that carries its nonce (`ResponsesInv`), which is all a passed test needs.

### Edits, undos and plans

`SessionInv` adds to the type invariant what each place of a call knows (`JobsInv`),
what a receipt means (`MarksInv`), and where the number of an edit can be
(`NumbersInv`): with the call that makes it, in the slot, or with the call that takes
it back, in one of these at a time. The last is what makes `UndoneAtMostOnce`
inductive: `TakeUndo` empties the slot in the step in which it takes the inverse.

`UndoRestores` needs `MarksInv` to say of the slot where its inverse is from: an edit,
valid, and what its receipt said of the track as the edit found it. The rest is about
functions. For a move, `MovedPlaces` says where each track is afterwards, in terms of
`BeforeIndex`, and `MovedBack` that the move of the inverse puts every track where it
was. A colour comes back with or without its flag (`ColorBack`). What a receipt cannot
express (`Irreversible`: an empty name, solo in place, a black without its flag, a move
past the last track) is the exception `UndoRestores` makes.

`PlanHitsItsTracks` is about two loops. `OrderedIs` says that no pass of the first
moves anything and every pass of the second does nothing else. By induction over the
passes, after the first loop each position has its own track with the last value given
to it (`FirstLoop`), and the second changes no track, only the order (`SecondLoop`). In the order proposed this is false, and TLC shows it of
the mutant `AsProposed`.

### Reviews

`CoreInv` follows every item through the copies that calls hold of it: an item is a
plan or a proposal for good, in the maps and in each copy (`KindInv`); an id that was
given out is never fresh again (`HomeInv`), which is why a settled plan stays gone;
and a mark "tested" in the map or in a copy tells of a run without an error
(`PassedInv`). `RoomInv` counts the proposals that are there together with those a test
has taken out and may put back, since the code compares only the former with the
capacity; a call that tests makes room for at most one more.

### Project Tidy

`IInv` of `TidySession_proofs` says what is in the three shared files whoever wrote them
(`FilesInv`: a plan was asked for, of its project; a result names only what was done),
what a call at each of its places has written and still knows (`CallInv`), that two
surveys work on different proposals (`DistinctInv`), and that a survey alone in its
workspace knows every older open proposal (`OlderInv`). The last is only so alone: of
two surveys at the same time each may have listed the records before the other's was
there, and both proposals stay open until the next survey, although the skill says
without a condition that "A newer survey supersedes an older open proposal"
(`skills/reaper-project-tidy/SKILL.md:192`). `SurveySettlesOlder` has the condition.
Most steps only add to the store, so that what a call knows stays true (`Grows`,
`KnownStays`, `CallsStep`); the lemmas for the single steps are about the one call that
acts. `AppliedHasResult` and `RecordsLoad` hold through crashes because `StoreInv`
speaks of files and not of calls. The desk adds the steps of the listings, which leave
all of this alone but for the late run.

`SurveyKeepsNames` and `SurveyEnds` rest on the survivor of a duplicate: there is one,
since the numbers of markers have a first (`FirstOf`), it is at the same place under the
same name, and it is no duplicate itself. `DeskPlacesKeepAMarker` is about plans that
are as old as can be: `ProjectsInv` says that no plan anywhere, in a record, in a call or
in `plan.json`, deletes what another of its items counts on (`SafePlan`), and the
applier compares the survivor with its snapshot, too.

### The Studio catalog

All rests on the order of the keys. `Before` is a strict total order of paths
(`BeforeTransitive`, `BeforeTotal`), every folder and every plugin list is a walk in
this order (`IsWalk`), and a page is a first part of what is found behind the cursor, up
to its last entry, which is the next cursor. `FolderRest` and `ListRest` say why nothing
has to be kept between two pages: what is found from a cursor on is the rest of what is
found from an earlier one, for every cursor that is an entry. For a folder that is the
argument about `GoesInto`, `Passed` and the ends of folders: the walk goes into each
folder that the cursor is in, and counts such an end exactly if it lies behind the
cursor.

`StudioInv` says of each listing (`ReaderInv`) that what is listed increases and ends at
the cursor (`UpToCursor`), from which nothing can be listed twice; that every entry that
stayed is listed or lies ahead of the cursor (`Owes`), whatever else has come or gone;
and, while the source has not changed, that what was counted and what would be counted
from the cursor on make up one whole walk (`Adds`). Of a call that has cleared the plugin
list it adds that a list in the file is one that has all that stayed (`ListFits`),
although another call or a late run may have written it. The last two need that no
walk is cut short by its limit: with such a folder they are false, and the properties say
so, too. TLC has checked `StudioInv` on the instance of `desk` before it was proved.
`WorldChangesKeeps` is where the source changes under a listing, `TakeKeeps` where a page
is added to it; the sums over pages are equalities about recursive functions, each by an
induction up to the length of a walk (`TotalSplits`).

### What is only model-checked

- `EveryCallReturns` and `EveryListingEnds`: liveness under fairness is out of the
  prover's reach. What the second needs besides fairness, that no page brings a host
  back, is `DeskCursorsGoOn`; there are only finitely many cursors.
- The violated runs, of course: a counterexample needs no proof.

## What is not modelled

- Text: quoting of names in Lua, frontmatter, status messages, HTML. Where text
  matters its effect is there: an empty name, an empty status file, a header
  without confirmation.
- The audits of the Lua runner, as regular expressions over a script: whether a
  script passes is a choice.
- Directory resolution and symlink checks: one outcome, "unavailable".
- Two full plugin processes on one exchange. The command line shows what a client
  without the lock can do.
- Mute and arm edits, which are solo edits without the third value.
- Of Project Tidy: seeding and parsing `conventions.md`, the status and report
  views, the wording of reasons and reports, places as floating-point numbers.
- Of the Studio catalog: the search for REAPER's resource folder and its identity,
  owners, formats, and the facts about scripts other than their registration. With
  these goes the count of registrations that point outside every source
  (`external_registration`, `studio.go:809`): `StudioInventory` adds it to the skips of
  the first page of REAPER's scripts, and it counts rows of `reaper-kb.ini`, not items
  of the walk. `Reasons` has the skips of items.
- Setup, profile, probes and the Web Remote configuration: sequential reads and
  writes of configuration files and a summary of their results. There is no second
  actor and no state between calls; what can be wrong in them is text, which tests
  reach better.
- The surfaces (`ui/`): display code around two flags. A poll that was under way
  before an action shows the old state as the new one (`live-control/app.js:213`),
  and a refresh selects again what the user has unchecked
  (`project-tidy/model.js:68`); both are plain from a few lines.
- Smaller things that were looked at and are promised nowhere: an undo slot that is
  emptied before the undo runs and takes the latest writer, tracks told apart by
  position and name only, a create that removes a file by name, a delete that an
  update undoes, one last result for all workspaces, a conventions file replaced
  while it is seeded.
- Blueprints, skills, protocol vectors, spikes, release scripts: data and tools.

## Plan

1. Done: `ReaperHost`, `RunnerExchange`, `RunnerPromise` and their proofs.
2. Done: `ExchangeClients`, `TrackEdits`, `EditSession`, `ServiceReview`.
3. Done: `TidyPlans`, `TidyStore`, `TidySession`, `TidyPromise`, `StudioPages`,
   `StudioCatalog`, `ReaperDesk`, `KeyboardFile`.
4. Done: the proofs of all safety properties of `ExchangeClients`, `EditSession`,
   `ServiceReview` and `TidySession`, and of the refinement of `TidyPromise`.
5. Done: the Studio catalog, in `StudioCatalog_proofs` and `ReaperDesk_proofs`.
6. Left: a folder in which two names are equal in normal form, and a plugin list without
   the assumption of `IsList`, as sources of their own, with the promises they break.
