------------------------------ MODULE StudioPages ------------------------------
(***************************************************************************)
(* One page of a catalog source, as functions: of a folder on disk         *)
(* (studio_files.go) and of REAPER's plugin list (studio_live.go).         *)
(*                                                                         *)
(* A source is a walk: a sequence of items in the order of their keys,     *)
(* each with what it adds to the page.  Nothing is kept between the pages: *)
(* a page repeats the walk, drops what the cursor says is behind it, and   *)
(* stops where it is full.                                                 *)
(***************************************************************************)
EXTENDS Naturals, FiniteSets, Sequences, SequencesExt

CONSTANTS
  Names,       \* file names, in their order
  LongNames,   \* those with which an encoded path is over maxStudioCursorBytes
  DepthLimit,  \* studioWalkDepthLimit
  WalkLimit    \* studioWalkItemLimit

ASSUME StudioPagesAssumption ==
  /\ Names \subseteq Nat /\ Names # {} /\ IsFiniteSet(Names)
  /\ LongNames \subseteq Names
  /\ DepthLimit \in Nat
  /\ WalkLimit \in Nat

\* Why an item of a walk is skipped. What StudioInventory adds to the first page of
\* REAPER's scripts, a count of registrations that point outside every source
\* (external_registration), is of no item of the walk and is left out.
Reasons == {"hidden", "symlink", "unreadable", "unsupported_name", "depth_limit", "too_large"}

\* The start of a source; every key is after it.
Top == <<>>

\* compareStudioPath: element by element, a folder before what is in it.
Before(a, b) ==
  \/ IsStrictPrefix(a, b)
  \/ \E n \in 1 .. Len(a) \cap 1 .. Len(b) :
       a[n] < b[n] /\ \A m \in 1 .. n - 1 : a[m] = b[m]

\* A set in its order, "before" being those that come before each of its elements
\* (SetToSortSeq tries every sequence of the set).
Sorted(set, before) ==
  [n \in 1 .. Cardinality(set) |-> CHOOSE x \in set : Cardinality(before[x]) = n - 1]

PathOrder(paths) == Sorted(paths, [p \in paths |-> {q \in paths : Before(q, p)}])

\* What the walk finds at a key: how many items it visits there, and how many of
\* them, "skipped", it skips for the one reason.
Found(key, entry, visited, reason, skipped) ==
  [key |-> key, entry |-> entry, visited |-> visited, reason |-> reason, skipped |-> skipped]

-------------------------------------------------------------------------------
(***************************************************************************)
(* Cutting a page.                                                         *)
(***************************************************************************)

EntryIndexes(found) == {i \in DOMAIN found : found[i].entry}

EntryOrder(found) ==
  Sorted(EntryIndexes(found), [i \in EntryIndexes(found) |-> EntryIndexes(found) \cap 1 .. i - 1])

Entries(found) ==
  LET order == EntryOrder(found) IN [n \in DOMAIN order |-> found[order[n]].key]

\* The page can take "room" entries, for the limit of the request or for the bytes
\* of its answer, and the next entry does not fit any more.
IsFull(found, room) == Cardinality(EntryIndexes(found)) > room

LastIndex(found, room) == EntryOrder(found)[room]

\* Mutant: without the checkpoint, what lies before the entry that does not fit is
\* counted with this page, too.
UpToNextEntry(found, room) ==
  IF IsFull(found, room) THEN SubSeq(found, 1, LastIndex(found, room + 1) - 1) ELSE found

\* A full page ends with its last entry: the counts of the checkpoint.
Covered(found, room) ==
  IF IsFull(found, room) THEN SubSeq(found, 1, LastIndex(found, room)) ELSE found

Total(counts) ==
  LET upTo[n \in 0 .. Len(counts)] == IF n = 0 THEN 0 ELSE upTo[n - 1] + counts[n]
  IN  upTo[Len(counts)]

Visits(found) == Total([i \in DOMAIN found |-> found[i].visited])

Skips(found) ==
  [r \in Reasons |->
     Total([i \in DOMAIN found |-> IF found[i].reason = r THEN found[i].skipped ELSE 0])]

\* A page: its entries, what it covers, and the cursor to go on with, if any.
Page(found, room) ==
  LET covered == Covered(found, room)
      keys    == Entries(covered)
  IN  [entries |-> keys,
       visited |-> Visits(covered),
       skips   |-> Skips(covered),
       next    |-> IF IsFull(found, room) THEN keys[Len(keys)] ELSE Top]

-------------------------------------------------------------------------------
(***************************************************************************)
(* A folder on disk: a function from paths to                              *)
(*   [kind, broken, beyond].                                               *)
(* A folder may not open, or not list ("broken"), and holds "beyond" names *)
(* more than are looked at.  The path of the source itself is Top.         *)
(***************************************************************************)

Item(kind, broken, beyond) == [kind |-> kind, broken |-> broken, beyond |-> beyond]

Folder    == Item("folder", "no", 0)
File      == Item("file", "no", 0)    \* of a type of the source, with a fit name
OtherFile == Item("other", "no", 0)   \* of another type

\* What there can be on a disk: each item is in a folder that is there, too.
IsTree(tree) ==
  /\ Top \in DOMAIN tree
  /\ IsFiniteSet(DOMAIN tree)
  /\ \A p \in DOMAIN tree :
       /\ p \in Seq(Names)
       /\ \A n \in 0 .. Len(p) : SubSeq(p, 1, n) \in DOMAIN tree
       /\ tree[p].kind \in {"folder", "file", "other"} \cup Reasons
       /\ tree[p].broken \in {"no", "open", "list"}
       /\ tree[p].beyond \in Nat

\* Mutant: the folder that the cursor is in is taken to be done.
GoesIntoNext(tree, cursor, p) ==
  \/ p = Top
  \/ tree[p].kind = "folder" /\ Len(p) + 1 <= DepthLimit /\ Before(cursor, p)

\* The walk goes into a folder that is after the cursor, or that the cursor is in.
GoesInto(tree, cursor, p) ==
  \/ p = Top
  \/ /\ tree[p].kind = "folder"
     /\ Len(p) + 1 <= DepthLimit
     /\ Before(cursor, p) \/ IsStrictPrefix(p, cursor)

Lists(tree, cursor, p) ==
  /\ GoesInto(tree, cursor, p)
  /\ tree[p].broken = "no"

\* The items looked at, and the ends of folders that hold names beyond the limit:
\* such an end has a key behind every name.
Beyond == CHOOSE n \in {m + 1 : m \in Names} : \A m \in Names : m < n

Looked(tree, cursor) ==
  {p \in DOMAIN tree \ {Top} :
     \A n \in 0 .. Len(p) - 1 : Lists(tree, cursor, SubSeq(p, 1, n))}

Ends(tree, cursor) ==
  {Append(p, Beyond) : p \in {q \in Looked(tree, cursor) \cup {Top} :
                                Lists(tree, cursor, q) /\ tree[q].beyond > 0}}

FoundAt(tree, p) ==
  LET item == tree[p] IN
  CASE item.kind = "file"   -> Found(p, TRUE, 1, "hidden", 0)
    [] item.kind = "other"  -> Found(p, FALSE, 1, "hidden", 0)
    [] item.kind \in Reasons -> Found(p, FALSE, 1, item.kind, 1)
    [] item.kind = "folder" ->
         IF Len(p) + 1 > DepthLimit THEN Found(p, FALSE, 1, "depth_limit", 1)
         ELSE IF item.broken = "open" THEN Found(p, FALSE, 1, "unreadable", 1)
         ELSE IF item.broken = "list" THEN Found(p, FALSE, 2, "unreadable", 1)
         ELSE Found(p, FALSE, 1, "hidden", 0)

FoundBeyond(tree, p) ==
  LET n == tree[Front(p)].beyond IN Found(p, FALSE, n, "too_large", n)

\* The items in their order, as far as the walk of one call goes.
Walked(tree, cursor) ==
  LET items == PathOrder(Looked(tree, cursor))
  IN  SubSeq(items, 1, IF Len(items) > WalkLimit THEN WalkLimit ELSE Len(items))

\* The walk ended before it had seen everything.
CutShort(tree, cursor) == Cardinality(Looked(tree, cursor)) > WalkLimit

\* Mutant: what is at the cursor is found once more.
NotBefore(cursor, p) == ~Before(p, cursor)

Behind(cursor, p) == Before(cursor, p)

\* The walk passes the cursor at the first item that is not before it; from then
\* on it counts the ends of folders, too.
Passed(tree, cursor, p) ==
  \/ cursor = Top
  \/ \E q \in Looked(tree, cursor) : Before(q, p) /\ ~Before(q, cursor)

\* A folder that cannot list is one item, at the start when it is the source.
FoundIn(tree, cursor) ==
  LET walked == Walked(tree, cursor)
      seen   == {p \in ToSet(walked) : Behind(cursor, p)}
      ends   == {p \in Ends(tree, cursor) :
                   /\ Passed(tree, cursor, p)
                   /\ \A q \in Looked(tree, cursor) \ ToSet(walked) : Before(p, q)}
      keys   == PathOrder(seen \cup ends)
  IN  IF tree[Top].broken = "list" /\ cursor = Top
        THEN <<Found(Top, FALSE, 1, "unreadable", 1)>>
        ELSE [i \in DOMAIN keys |-> IF keys[i] \in ends THEN FoundBeyond(tree, keys[i])
                                    ELSE FoundAt(tree, keys[i])]

FilePage(tree, cursor, room) == Page(FoundIn(tree, cursor), room)

FilesIn(tree) == {p \in Looked(tree, Top) : tree[p].kind = "file"}

\* encodeStudioCursor writes three bytes for one, and a cursor over its bound is
\* refused with the request (validateStudioInventoryInput).
Refused(cursor) == \E n \in DOMAIN cursor : cursor[n] \in LongNames

-------------------------------------------------------------------------------
(***************************************************************************)
(* REAPER's plugin list: a sequence of rows [id, fit], in REAPER's order.  *)
(***************************************************************************)

Row(id, fit) == [id |-> id, fit |-> fit]

\* An entry is sorted by its format and identifier, a row that cannot be shown by the
\* identifier alone: they are not the same.
IsList(rows) ==
  /\ rows \in Seq([id : Names, fit : BOOLEAN])
  /\ \A i, j \in DOMAIN rows : rows[i].fit /\ ~rows[j].fit => rows[i].id # rows[j].id

Repeats(rows, i) == rows[i].fit /\ \E j \in 1 .. i - 1 : rows[j].fit /\ rows[j].id = rows[i].id

\* studioFXItems: a row that repeats an id comes right after the row it repeats.
RowKey(rows, i) == IF Repeats(rows, i) THEN <<rows[i].id, 0>> ELSE <<rows[i].id>>

\* Mutant: a row that repeats an id is an entry, too.
EveryRowFound(rows, i) ==
  Found(RowKey(rows, i), rows[i].fit, 1, "unsupported_name", IF rows[i].fit THEN 0 ELSE 1)

RowFound(rows, i) ==
  IF rows[i].fit /\ ~Repeats(rows, i)
    THEN Found(RowKey(rows, i), TRUE, 1, "hidden", 0)
    ELSE Found(RowKey(rows, i), FALSE, 1, "unsupported_name", 1)

\* Sorted by the key, rows of one key as REAPER lists them.
RowsFound(rows, cursor) ==
  LET Earlier(i, j) ==
        \/ Before(RowKey(rows, i), RowKey(rows, j))
        \/ RowKey(rows, i) = RowKey(rows, j) /\ i < j
      behind == {i \in DOMAIN rows : Behind(cursor, RowKey(rows, i))}
      order  == Sorted(behind, [j \in behind |-> {i \in behind : Earlier(i, j)}])
  IN  [n \in DOMAIN order |-> RowFound(rows, order[n])]

ListPage(rows, cursor, room) == Page(RowsFound(rows, cursor), room)

PluginsIn(rows) == {<<rows[i].id>> : i \in {j \in DOMAIN rows : rows[j].fit}}
===============================================================================
