----------------------------- MODULE MCReaperDesk ------------------------------
(***************************************************************************)
(* ReaperDesk from a choice of starting points. Of Project Tidy: every     *)
(* small project, for what is proposed of it; one caller beside a user who *)
(* moves and renames markers; two callers in one workspace; callers of two *)
(* workspaces beside a user who opens the other project. Of the catalog:   *)
(* folders that change into one another; folders too large for a walk;     *)
(* two hosts that read the plugin list. And both at one Runner.            *)
(***************************************************************************)
EXTENDS ReaperDesk

CONSTANTS c1, c2, A, B, r1, r2

MCCallers == {c1, c2}
MCReaders == {r1, r2}
MCPaths   == {A, B}
MCNoName  == SectionName("none", 0, "own")

M(n) == Key(FALSE, n)
R(n) == Key(TRUE, n)

Verse(style) == SectionName("verse", 1, style)
Free  == SectionName("free", 1, "loud")
MarkerNames == {MCNoName, Verse("own"), Verse("loud"), Free}

Project(tracks, markers) == [tracks |-> tracks, markers |-> markers]

NoTracks  == [g \in {} |-> Track({}, NoColor)]
NoMarkers == [k \in {} |-> Marker(1, Free)]
Plain     == Project(NoTracks, NoMarkers)
Drums     == [g \in {"t"} |-> Track({"drums"}, NoColor)]
OneName(name) == [k \in {M(1)} |-> Marker(1, name)]

Bounds(n1, n2, changes, owes, l1, l2, studioChanges) ==
  [calls |-> [c \in MCCallers |-> IF c = c1 THEN n1 ELSE n2], changes |-> changes,
   owing |-> owes,
   listings |-> [r \in MCReaders |-> IF r = r1 THEN l1 ELSE l2],
   studioChanges |-> studioChanges]

Projects(p, q) == [projects |-> [x \in MCPaths |-> IF x = A THEN p ELSE q], open |-> A]

\* The source itself, and what is in it.
Source(items) == items @@ (Top :> Folder)

Sources(trees, lists) == [trees |-> trees, lists |-> lists]

NoSource == Sources({Source(<<1>> :> File)}, {<<>>})

\* Two markers and a region at two places, or four markers at one.
SomeMarkers ==
  UNION {[ks -> {Marker(x, n) : x \in {1, 2}, n \in MarkerNames}] : ks \in SUBSET {M(1), M(2), R(1)}}
  \cup [{M(1), M(2), M(3), M(4)} -> {Marker(1, n) : n \in MarkerNames}]

SomeTracks == [{"t"} -> {Track(w, c) : w \in SUBSET Roles, c \in TrackColors}]

Tidy(p, q, n1, n2, changes, owes) ==
  Projects(p, q) @@ NoSource @@ Bounds(n1, n2, changes, owes, 0, 0, 0)

Proposing ==
  {Tidy(Project(NoTracks, ms), Plain, 0, 0, 0, 0) : ms \in SomeMarkers}
  \cup {Tidy(Project(ts, NoMarkers), Plain, 0, 0, 0, 0) : ts \in SomeTracks}

\* Two markers of one name at a place, the name in the wrong style; and a third one
\* elsewhere.
Beat        == [k \in {M(1), M(2)} |-> Marker(1, Verse("loud"))]
BeatMarkers == (M(3) :> Marker(2, Free)) @@ Beat

DrumsOnly == Project(Drums, NoMarkers)

Alone      == {Tidy(Project(NoTracks, Beat), Plain, 3, 0, 1, 1),
               Tidy(Project(NoTracks, BeatMarkers), Plain, 3, 0, 0, 1),
               Tidy(Project(NoTracks, BeatMarkers), Plain, 2, 0, 1, 1)}
Together   == {Tidy(Project(Drums, OneName(Verse("loud"))), Plain, 2, 1, 0, 1),
               Tidy(DrumsOnly, Plain, 2, 1, 0, 1),
               Tidy(DrumsOnly, Plain, 2, 2, 0, 0)}
Workspaces == {Tidy(DrumsOnly, DrumsOnly, 2, 1, 1, 1)}

-------------------------------------------------------------------------------
Studio(s, owes, l1, l2, changes) ==
  Projects(Plain, Plain) @@ s @@ Bounds(0, 0, 0, owes, l1, l2, changes)

\* Folders that hold more names than are looked at, that cannot be opened, that
\* lie too deep; files that become folders.
Folders ==
  {Source(<<1>> :> Item("folder", "no", 2) @@ <<1, 1>> :> File @@ <<1, 2>> :> File
          @@ <<2>> :> Item("hidden", "no", 0) @@ <<3>> :> File),
   Source(<<1>> :> Folder @@ <<1, 2>> :> File @@ <<2>> :> OtherFile @@ <<3>> :> File),
   Source(<<1>> :> File @@ <<2>> :> Item("folder", "list", 0) @@ <<3>> :> Folder
          @@ <<3, 1>> :> File @@ <<3, 2>> :> Folder),
   Source(<<1>> :> Item("folder", "open", 0) @@ <<2>> :> Item("symlink", "no", 0)),
   (Top :> Item("folder", "list", 0))}

LargeFolders ==
  {Source(<<1>> :> Item("folder", "no", 1) @@ <<1, 1>> :> File @@ <<1, 2>> :> File
          @@ <<2>> :> OtherFile @@ <<3>> :> Folder @@ <<3, 1>> :> File @@ <<3, 2>> :> File)}

\* Rows that repeat an identifier, and a row with nothing to show.
PluginLists ==
  {<<Row(3, TRUE), Row(1, TRUE), Row(3, TRUE), Row(2, FALSE)>>,
   <<Row(1, TRUE), Row(4, TRUE), Row(1, TRUE)>>, <<Row(3, TRUE)>>}

Changing == {Studio(Sources(Folders, {<<>>}), 0, 1, 0, 3)}
TooLarge == {Studio(Sources(LargeFolders, {<<>>}), 0, 1, 0, 0)}
Live     == {Studio(Sources({Source(<<1>> :> File)}, PluginLists), 1, 1, 1, 2)}

Both == {Projects(DrumsOnly, Plain) @@ Sources({Source(<<1>> :> File)}, {<<Row(1, TRUE), Row(3, TRUE)>>})
         @@ Bounds(2, 0, 0, 2, 1, 0, 0)}

MCInstances ==
  Proposing \cup Alone \cup Together \cup Workspaces \cup Changing \cup TooLarge \cup Live \cup Both
===============================================================================
