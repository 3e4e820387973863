----------------------------- MODULE MemoPages -----------------------------
(***************************************************************************)
(* GET /memos and the client that scrolls through it.  The server answers  *)
(* a page of the memos that match a filter, in an order that changes under *)
(* the reader's hands, and names the next page by an offset; the client    *)
(* puts pages one behind the other, and after an invalidation fetches them *)
(* all again, one at a time, while the old ones stay on the screen.  What  *)
(* is shown is the rows of all pages in one sequence (the flatMap of the   *)
(* component) and how many pages they came in.                             *)
(*                                                                         *)
(* What a filter can ask of a memo's text, creator and times is a set of   *)
(* traits of the memo; pinned and visibility are on their own.             *)
(***************************************************************************)
EXTENDS Integers, Sequences, FiniteSets

CONSTANTS N,           \* the memos are 1..N: the ids that SQLite gives
          MaxTime,     \* bound: display times are 0..MaxTime
          Traits,      \* of content, tags, creator, day
          Sights,      \* who may see a memo: a subset of SightKinds
          Lists,       \* the lists a reader opens
          PageSize,
          MaxScan,     \* MEMO_FILTER_MAX_SCAN
          MaxEdits     \* bound: changes of memos in a behaviour

Memos == 1..N
Times == 0..MaxTime
SightKinds == {"public", "protected", "own", "others"}

(* A clause of the filter string; has_link, has_task_list and has_code are *)
(* each a "has" with a trait of its own.  The clauses of "MemoryKinds" are *)
(* not part of the SQL statement.                                          *)
SqlKinds == {"creator", "time", "pinned", "visibility"}
MemoryKinds == {"word", "tag", "has"}
Clause == [kind: SqlKinds \cup MemoryKinds, values: SUBSET (Traits \cup SightKinds)]

ASSUME PagesAssumption ==
  /\ N \in Nat /\ MaxTime \in Nat /\ MaxScan \in Nat /\ MaxEdits \in Nat
  /\ PageSize \in Nat \ {0}
  /\ Sights \subseteq SightKinds
  /\ \A q \in Lists: /\ q.state \in {"NORMAL", "ARCHIVED"}
                     /\ q.viewer \in {"user", "visitor"}
                     /\ q.filter \in Seq(Clause)

VARIABLES memo,      \* the table
          query,     \* the list that is open
          shown,     \* the walk through its pages that is on the screen
          again,     \* the walk that will replace it, or Nothing
          edits

listVars == <<memo, query, shown, again, edits>>

(* stamp: the time the list is sorted by.                                  *)
Row == [status: {"none", "NORMAL", "ARCHIVED", "deleted"}, pinned: {"yes", "no"},
        stamp: Times, traits: SUBSET Traits, sight: Sights]

(* A walk: the rows of its pages, how many pages, and the offset of the    *)
(* next (0: there is none).  History: the memos that have not changed      *)
(* since it began, whether none has, whether no page was cut by MaxScan,   *)
(* and how many memos left the pages it has read.                          *)
Start == [rows |-> <<>>, pages |-> 0, next |-> 0,
          steady |-> Memos, quiet |-> "yes", whole |-> "yes", falls |-> 0]
Nothing == [Start EXCEPT !.steady = {}, !.quiet = "no"]

Walk == [rows: Seq(Memos), pages: Nat, next: Nat,
         steady: SUBSET Memos, quiet: {"yes", "no"}, whole: {"yes", "no"}, falls: Nat]

ListTypeOK ==
  /\ memo \in [Memos -> Row]
  /\ query \in Lists
  /\ shown \in Walk /\ again \in Walk
  /\ edits \in 0..MaxEdits

-----------------------------------------------------------------------------
(* parseMemoListFilter: of two clauses of a kind the later one counts, of  *)
(* two time ranges the first; each "has" is a flag of its own.             *)
Counts(f) ==
  {i \in DOMAIN f: \/ f[i].kind = "has"
                  \/ \A j \in DOMAIN f: f[j].kind = f[i].kind
                                         => IF f[i].kind = "time" THEN i <= j ELSE j <= i}

Meets(row, c) ==
  CASE c.kind = "pinned"     -> row.pinned = "yes"
    [] c.kind = "visibility" -> row.sight \in c.values
    [] OTHER                 -> c.values \subseteq row.traits

(* With a visibility clause a signed-in viewer gets just that, and a       *)
(* visitor what is public of it.                                           *)
Sees(q, row) ==
  IF q.viewer = "visitor" THEN row.sight = "public"
  ELSE row.sight # "others" \/ \E i \in DOMAIN q.filter: q.filter[i].kind = "visibility"

Meant(q, row, kinds) ==
  \A i \in Counts(q.filter): q.filter[i].kind \in kinds => Meets(row, q.filter[i])

(* What a list should hold, and how it is sorted.                          *)
Matching(db, q) ==
  {m \in Memos: /\ db[m].status = q.state /\ Sees(q, db[m])
                /\ Meant(q, db[m], SqlKinds \cup MemoryKinds)}

Before(db, m, n) ==
  IF db[m].pinned # db[n].pinned THEN db[m].pinned = "yes"
  ELSE IF db[m].stamp # db[n].stamp THEN db[m].stamp > db[n].stamp
  ELSE m > n

(* The place of m in S, and the first k places.                            *)
Rank(db, S, m) == Cardinality({n \in S: Before(db, n, m)})
First(db, S, k) == {m \in S: Rank(db, S, m) < k}

Sorted(db, S) == [i \in 1..Cardinality(S) |-> CHOOSE m \in S: Rank(db, S, m) = i - 1]

Slice(db, S, from, size) ==
  LET rest == IF from < Cardinality(S) THEN Cardinality(S) - from ELSE 0
  IN [i \in 1..(IF rest < size THEN rest ELSE size) |-> Sorted(db, S)[from + i]]

(* listMemosTopLevel: the WHERE of the statement; ORDER BY, LIMIT and      *)
(* OFFSET are a Slice.                                                     *)
Selected(db, q) ==
  {m \in Memos: db[m].status = q.state /\ Sees(q, db[m]) /\ Meant(q, db[m], SqlKinds)}

(* memoListFilterNeedsMemory                                               *)
NeedsMemory(f) == \E i \in DOMAIN f: f[i].kind \in MemoryKinds

(* A filter on the text is matched in memory, on the first MaxScan rows.   *)
Filtered(db, q) ==
  {m \in First(db, Selected(db, q), MaxScan): Meant(q, db[m], MemoryKinds)}

Whole(db, q) ==
  IF NeedsMemory(q.filter) /\ Cardinality(Selected(db, q)) > MaxScan THEN "no" ELSE "yes"

Page(rows, next, whole) == [rows |-> rows, next |-> next, whole |-> whole]

\* Mutant: the rows are matched after they have been cut into pages.
ServeCut(db, q, offset) ==
  LET rows == Slice(db, Selected(db, q), offset, PageSize)
      more == IF Len(rows) = PageSize THEN offset + PageSize ELSE 0
  IN Page(SelectSeq(rows, LAMBDA m: Meant(q, db[m], MemoryKinds)), more, "yes")

\* Mutant: the token names the row after the first row of the next page.
ServeOff(db, q, offset) ==
  LET rows == Slice(db, Selected(db, q), offset, PageSize)
  IN Page(SelectSeq(rows, LAMBDA m: Meant(q, db[m], MemoryKinds)),
          IF Len(rows) = PageSize THEN offset + PageSize + 1 ELSE 0, "yes")

(* The handler of GET /memos.                                              *)
Serve(db, q, offset) ==
  LET all == IF NeedsMemory(q.filter) THEN Filtered(db, q) ELSE Selected(db, q)
      rows == Slice(db, all, offset, PageSize)
      more == IF NeedsMemory(q.filter) THEN Cardinality(all) > offset + PageSize
                                       ELSE Len(rows) = PageSize
  IN Page(rows, IF more THEN offset + PageSize ELSE 0, Whole(db, q))

-----------------------------------------------------------------------------
(* The client.                                                             *)

WithPage(w, p) ==
  [w EXCEPT !.rows = @ \o p.rows, !.pages = @ + 1, !.next = p.next,
            !.whole = IF p.whole = "yes" THEN @ ELSE "no"]

(* A filter, a shortcut or another page of the app: a query of its own.    *)
Open(q) ==
  /\ query' = q
  /\ shown' = WithPage(Start, Serve(memo, q, 0))
  /\ again' = Nothing
  /\ UNCHANGED <<memo, edits>>

(* fetchNextPage, of the scroll or because the page is not full; a refetch *)
(* that is under way is given up.                                          *)
FetchNext ==
  /\ shown.next # 0
  /\ shown' = WithPage(shown, Serve(memo, query, shown.next))
  /\ again' = Nothing
  /\ UNCHANGED <<memo, query, edits>>

(* The list is invalidated, by a save in this tab: the walk begins again.  *)
Refetch ==
  /\ again' = WithPage(Start, Serve(memo, query, 0))
  /\ UNCHANGED <<memo, query, shown, edits>>

(* The next page of the refetch, by the token of the page before it; when  *)
(* it has as many pages as are shown, or there are no more, it is shown.   *)
RefetchNext ==
  /\ again # Nothing
  /\ IF again.next # 0 /\ again.pages < shown.pages
     THEN again' = WithPage(again, Serve(memo, query, again.next)) /\ UNCHANGED shown
     ELSE shown' = again /\ again' = Nothing
  /\ UNCHANGED <<memo, query, edits>>

(* The refetch fails: what is shown stays.                                 *)
RefetchFails ==
  /\ again # Nothing
  /\ again' = Nothing
  /\ UNCHANGED <<memo, query, shown, edits>>

-----------------------------------------------------------------------------
(* Someone changes a memo.                                                 *)

(* m is one of the first k of the list, and is not afterwards.             *)
FallsFrom(m, k) == /\ m \in First(memo, Matching(memo, query), k)
                   /\ m \notin First(memo', Matching(memo', query), k)

(* What it is to a walk through the list.                                  *)
Disturbed(w, m) ==
  IF w = Nothing THEN Nothing
  ELSE [w EXCEPT !.steady = @ \ {m}, !.quiet = "no",
                 !.falls = IF FallsFrom(m, PageSize * w.pages) THEN @ + 1 ELSE @]

Change(m) ==
  /\ edits < MaxEdits
  /\ edits' = edits + 1
  /\ UNCHANGED query
  /\ shown' = Disturbed(shown, m) /\ again' = Disturbed(again, m)

Create(m) ==
  /\ memo[m].status = "none" /\ \A n \in 1..(m - 1): memo[n].status # "none"
  /\ \E row \in Row: /\ row.status \in {"NORMAL", "ARCHIVED"}
                     /\ memo' = [memo EXCEPT ![m] = row]
  /\ Change(m)

Stored(m) == memo[m].status \in {"NORMAL", "ARCHIVED"}

(* PATCH of the state.  Every PATCH touches updated_ts, which the list may *)
(* be sorted by, and it may set the time to any: what is touched later     *)
(* need not sort before.                                                   *)
Move(m) ==
  /\ Stored(m)
  /\ \E t \in Times:
       memo' = [memo EXCEPT ![m].stamp = t,
                  ![m].status = IF @ = "NORMAL" THEN "ARCHIVED" ELSE "NORMAL"]
  /\ Change(m)

Delete(m) ==
  /\ Stored(m)
  /\ memo' = [memo EXCEPT ![m].status = "deleted"]
  /\ Change(m)

\* Mutant: a memo that is no longer pinned has no value in the column.
PinNull(m) ==
  /\ Stored(m)
  /\ \E t \in Times:
       memo' = [memo EXCEPT ![m].stamp = t,
                            ![m].pinned = IF @ = "yes" THEN "null" ELSE "yes"]
  /\ Change(m)

Pin(m) ==
  /\ Stored(m)
  /\ \E t \in Times:
       memo' = [memo EXCEPT ![m].stamp = t,
                            ![m].pinned = IF @ = "yes" THEN "no" ELSE "yes"]
  /\ Change(m)

(* A PATCH of the text, the visibility or a time.                          *)
Edit(m) ==
  /\ Stored(m)
  /\ \E t \in Times, has \in SUBSET Traits, s \in Sights:
       memo' = [memo EXCEPT ![m].stamp = t, ![m].traits = has, ![m].sight = s]
  /\ Change(m)

ListNext ==
  \/ \E q \in Lists: Open(q)
  \/ FetchNext \/ Refetch \/ RefetchNext \/ RefetchFails
  \/ \E m \in Memos: Create(m) \/ Move(m) \/ Delete(m) \/ Pin(m) \/ Edit(m)

(* All memos but the last are stored, of one time: ids order them.         *)
ListInit ==
  /\ memo \in [Memos -> Row]
  /\ \A m \in Memos: /\ memo[m].status = IF m = N THEN "none" ELSE "NORMAL"
                     /\ memo[m].pinned = "no" /\ memo[m].stamp = 0
  /\ memo[N].traits = {} /\ memo[N].sight = CHOOSE s \in Sights: TRUE
  /\ query \in Lists
  /\ shown = WithPage(Start, Serve(memo, query, 0)) /\ again = Nothing
  /\ edits = 0

ListSpec == ListInit /\ [][ListNext]_listVars

-----------------------------------------------------------------------------
In(s) == {s[i]: i \in DOMAIN s}

(* Where nothing changed since a walk began, its rows are the list from    *)
(* its top, each memo once and in order, page by page, and the last page   *)
(* ends it; a filter that is matched in memory ends it at MaxScan rows.    *)
Reached(db, q) ==
  {m \in Matching(db, q):
     NeedsMemory(q.filter) => m \in First(db, Selected(db, q), MaxScan)}

(* Where something did, the rows of the others are still the list's: for   *)
(* this viewer, of this state and by this filter.                          *)
PagesTrue ==
  \A w \in {shown, again} \ {Nothing}:
    /\ w.quiet = "yes" =>
         w.rows = IF w.next = 0 THEN Sorted(memo, Reached(memo, query))
                  ELSE Slice(memo, Reached(memo, query), 0, PageSize * w.pages)
    /\ In(w.rows) \cap w.steady \subseteq Matching(memo, query)

(* A memo that nobody touched is passed over only for one that left the    *)
(* pages in front of it: memos that are new or rise never hide another.    *)
Unread(w) == (Matching(memo, query) \cap w.steady) \ In(w.rows)

NoneSkipped ==
  \A w \in {shown, again} \ {Nothing}:
    w.next = 0 /\ w.whole = "yes" => Cardinality(Unread(w)) <= w.falls

(* What joins the screen matches every clause of the filter.               *)
FilterHolds ==
  [][\A m \in In(shown'.rows) \ In(shown.rows):
       query' = query => \A i \in DOMAIN query.filter: Meets(memo[m], query.filter[i])]_listVars
=============================================================================
