----------------------------- MODULE StudioCatalog -----------------------------
(***************************************************************************)
(* Hosts that list the sources of the REAPER Studio catalog page by page   *)
(* (studio.go): a folder on disk, which the user changes meanwhile, or     *)
(* REAPER's plugin list, which an inspector writes to fx_list.json for     *)
(* each page.  The plugin keeps nothing between two pages; the host keeps  *)
(* the cursor, adds up what it is told and asks again until no cursor      *)
(* comes back.  The file is cleared and read outside the Runner's lock.    *)
(***************************************************************************)
EXTENDS StudioPages, SharedRunner

CONSTANTS
  Readers,    \* hosts
  MaxRoom,    \* entries a page can take
  NoList      \* no fx_list.json

ASSUME StudioCatalogAssumption == MaxRoom \in Nat

VARIABLES
  tree,       \* the folder of the source
  rows,       \* the plugins REAPER has installed
  install,    \* the identity of the resource folder
  fxFile,     \* fx_list.json
  phase,      \* of each host's listing
  listing,    \* what the host has of it
  studioLeft  \* bounds: listings of each host, changes; what may come: [trees, lists]

worldVars   == <<tree, rows, install>>
readerVars  == <<phase, listing>>
studioVars  == <<worldVars, fxFile, readerVars, studioLeft>>
catalogVars == <<studioVars, sharedVars>>

Phases == {"idle", "ask", "run", "read", "done", "failed"}

Nothing == [r \in Reasons |-> 0]

\* A listing that begins now: what it has found and counted so far; and, as
\* history, which entries were there all the time, and whether nothing changed.
Begun(source, entries) ==
  [source |-> source, install |-> install, cursor |-> Top,
   listed |-> <<>>, visited |-> 0, skips |-> Nothing,
   stayed |-> entries, steady |-> TRUE]

StudioStart(i) ==
  /\ tree \in i.trees
  /\ rows \in i.lists
  /\ install = 1
  /\ fxFile = NoList
  /\ phase = [r \in Readers |-> "idle"]
  /\ listing = [r \in Readers |-> Begun("folder", {})]
  /\ studioLeft = [listings |-> i.listings, changes |-> i.studioChanges,
                   trees |-> i.trees, lists |-> i.lists]

-------------------------------------------------------------------------------
EntriesOf(source, t, l) == IF source = "folder" THEN FilesIn(t) ELSE PluginsIn(l)

\* studio.sources.read tells the host the installation and that the source is ready.
ReadSources(r, source) ==
  /\ phase[r] \in {"idle", "done", "failed"}
  /\ studioLeft.listings[r] > 0
  /\ studioLeft' = [studioLeft EXCEPT !.listings[r] = @ - 1]
  /\ phase' = [phase EXCEPT ![r] = "ask"]
  /\ listing' = [listing EXCEPT ![r] = Begun(source, EntriesOf(source, tree, rows))]
  /\ UNCHANGED <<worldVars, fxFile, sharedVars>>

\* The host gets an error, or a state that is not "ok", and the listing is over.
Fail(r, from) ==
  /\ phase[r] = from
  /\ phase' = [phase EXCEPT ![r] = "failed"]
  /\ UNCHANGED listing

\* The request or its cursor is refused, or the source is not to be read now.
Unavailable(r) ==
  /\ Fail(r, "ask")
  /\ UNCHANGED <<worldVars, fxFile, sharedVars, studioLeft>>

SameInstallation(r) == listing[r].install = install

Readable(r) ==
  /\ SameInstallation(r)
  /\ ~Refused(listing[r].cursor)

\* The host takes a page to what it has.
Take(r, page) ==
  /\ listing' = [listing EXCEPT ![r].listed = @ \o page.entries,
                                ![r].visited = @ + page.visited,
                                ![r].skips = [s \in Reasons |-> @[s] + page.skips[s]],
                                ![r].cursor = page.next]
  /\ phase' = [phase EXCEPT ![r] = IF page.next = Top THEN "done" ELSE "ask"]

\* StudioInventory of a folder.
ReadFilePage(r) ==
  /\ phase[r] = "ask"
  /\ listing[r].source = "folder"
  /\ Readable(r)
  /\ \E found \in {FoundIn(tree, listing[r].cursor)}, room \in 1 .. MaxRoom : Take(r, Page(found, room))
  /\ UNCHANGED <<worldVars, fxFile, sharedVars, studioLeft>>

\* studioLiveInventory clears the list first.
ClearList(r) ==
  /\ phase[r] = "ask"
  /\ listing[r].source = "plugins"
  /\ Readable(r)
  /\ phase' = [phase EXCEPT ![r] = "run"]
  /\ fxFile' = NoList
  /\ UNCHANGED <<worldVars, sharedVars, listing, studioLeft>>

\* studio_fx_inspector.lua.
ListPlugins ==
  /\ fxFile' = rows
  /\ UNCHANGED <<worldVars, studioLeft>>

RunList(r) ==
  /\ phase[r] = "run"
  /\ phase' = [phase EXCEPT ![r] = "read"]
  /\ ListPlugins
  /\ Answered("fx")
  /\ UNCHANGED listing

\* The host's call goes on, and REAPER has not come to the inspector.
RunListMistaken(r) ==
  /\ phase[r] = "run"
  /\ phase' = [phase EXCEPT ![r] = "read"]
  /\ Mistaken("fx")
  /\ UNCHANGED <<worldVars, fxFile, listing, studioLeft>>

RunListFails(r) ==
  /\ Fail(r, "run")
  /\ Unanswered("fx")
  /\ UNCHANGED <<worldVars, fxFile, studioLeft>>

ReadListPage(r) ==
  /\ phase[r] = "read"
  /\ fxFile # NoList
  /\ \E found \in {RowsFound(fxFile, listing[r].cursor)}, room \in 1 .. MaxRoom : Take(r, Page(found, room))
  /\ UNCHANGED <<worldVars, fxFile, sharedVars, studioLeft>>

\* Mutant: it waits for the list another page has cleared.
AwaitList(r) ==
  /\ phase[r] = "read"
  /\ fxFile = NoList
  /\ UNCHANGED catalogVars

\* Another page has cleared the list, or it cannot be read.
ListUnreadable(r) ==
  /\ Fail(r, "read")
  /\ UNCHANGED <<worldVars, fxFile, sharedVars, studioLeft>>

LateList ==
  /\ LateRun("fx")
  /\ ListPlugins
  /\ UNCHANGED readerVars

\* What a change of the folder or of the plugins means to the listings under way.
Note(t, l) ==
  listing' = [r \in Readers |->
    LET source == listing[r].source
        same   == IF source = "folder" THEN t = tree ELSE l = rows
    IN  [listing[r] EXCEPT !.stayed = @ \cap EntriesOf(source, t, l), !.steady = @ /\ same]]

\* The user changes the folder, has plugins scanned, or replaces the installation.
WorldChanges ==
  /\ studioLeft.changes > 0
  /\ studioLeft' = [studioLeft EXCEPT !.changes = @ - 1]
  /\ \/ tree' \in studioLeft.trees \ {tree} /\ UNCHANGED <<rows, install>>
     \/ rows' \in studioLeft.lists \ {rows} /\ UNCHANGED <<tree, install>>
     \/ tree' \in studioLeft.trees /\ install' = install + 1 /\ UNCHANGED rows
  /\ Note(tree', rows')
  /\ UNCHANGED <<fxFile, phase, sharedVars>>

ReaderStep(r) ==
  \/ Unavailable(r) \/ ReadFilePage(r)
  \/ ClearList(r) \/ RunListFails(r) \/ RunList(r) \/ RunListMistaken(r)
  \/ ListUnreadable(r) \/ ReadListPage(r)

StudioStep ==
  \/ \E r \in Readers : ReaderStep(r) \/ \E source \in {"folder", "plugins"} : ReadSources(r, source)
  \/ LateList
  \/ WorldChanges

\* A host goes on with its listing, and calls return.
StudioFairness == \A r \in Readers : WF_catalogVars(ReaderStep(r))

-------------------------------------------------------------------------------
StudioTypeOK ==
  /\ phase \in [Readers -> Phases]
  /\ fxFile \in studioLeft.lists \cup {NoList}
  /\ \A r \in Readers :
       /\ listing[r].source \in {"folder", "plugins"}
       /\ listing[r].cursor \in Seq(Names)
       /\ listing[r].visited \in Nat
       /\ listing[r].skips \in [Reasons -> Nat]

\* No entry is listed twice, whatever appears, goes or changes its kind between
\* two pages (walkStudioSource, pageStudioFXList).
NothingListedTwice == \A r \in Readers : IsInjective(listing[r].listed)

CutShortSomewhere == \E t \in studioLeft.trees : \E c \in FilesIn(t) \cup {Top} : CutShort(t, c)

\* A listing that came to its end has every entry that was there all the time,
\* although each page is of another folder or list; unless a folder holds more
\* than a walk visits: then it ends early, and nothing says so.
StayersAreListed ==
  \A r \in Readers :
    phase[r] = "done" /\ ~(listing[r].source = "folder" /\ CutShortSomewhere) =>
      listing[r].stayed \subseteq ToSet(listing[r].listed)

\* "a skipped item is counted on exactly one page and Ori can sum the counts"
\* (studio_files.go:22): the pages of a source that did not change add up to one
\* page that takes everything.
WholePage(source) ==
  IF source = "folder" THEN FilePage(tree, Top, Cardinality(DOMAIN tree))
  ELSE ListPage(rows, Top, Len(rows))

PagesAddUp ==
  \A r \in Readers :
    phase[r] = "done" /\ listing[r].steady /\ ~(listing[r].source = "folder" /\ CutShortSomewhere) =>
      LET whole == WholePage(listing[r].source) IN
      /\ listing[r].visited = whole.visited
      /\ listing[r].skips = whole.skips
      /\ listing[r].listed = whole.entries

\* Following the cursor gets on: a page that is not the last ends behind where it
\* began, whatever the source has become (walkStudioSource, pageStudioFXList).
CursorsGoOn ==
  [][\A r \in Readers :
       (ReadFilePage(r) \/ ReadListPage(r)) /\ phase'[r] = "ask" =>
         Before(listing[r].cursor, listing'[r].cursor)]_studioVars

\* Every listing comes to an end.
EveryListingEnds == \A r \in Readers : phase[r] = "ask" ~> phase[r] \in {"done", "failed"}
===============================================================================
