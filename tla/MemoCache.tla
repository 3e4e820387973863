------------------------------- MODULE MemoCache -------------------------------
(***************************************************************************)
(* What one tab of the web client has cached of one memo: the copy of the  *)
(* memo's own query (detail) and the copy in the pages of a list.  Queries *)
(* are fetched when they are mounted or focused; a mutation (pin, archive, *)
(* a task's box) writes its result into the copies before it is sent and   *)
(* takes it back when it fails; the editor and reactions write to the      *)
(* server first and then see to the copies.  All of them may be on their   *)
(* way at once, and a request fails with or without having been executed.  *)
(*                                                                         *)
(* A value of a field is the number of the change that made it.  TanStack  *)
(* Query is external: queries are cancelled, invalidated and set as its    *)
(* version 5.96 does.                                                      *)
(***************************************************************************)
EXTENDS Naturals

CONSTANTS Calls,       \* the calls of the page that may be on their way at once
          Scenes,      \* who changes the memo, the fields that mutations change,
                       \* and whether requests may fail
          MaxChanges,  \* bound on the changes of this tab and of others
          None

Queries == {"detail", "list"}
Fields == {"content", "other"}   \* other: pinned, state, reactions
Kinds == {"patch", "edit", "react"}
Values == 0 .. MaxChanges
Memo == [Fields -> Values]

ASSUME CacheAssumption ==
  /\ Scenes \subseteq [kinds : SUBSET (Kinds \cup {"others"}),
                     fields : SUBSET Fields, faults : BOOLEAN]
  /\ MaxChanges \in Nat
  /\ None \notin Memo /\ None \notin Kinds \cup Queries

VARIABLES scene,    \* the scene of this behaviour
          store,    \* the memo on the server
          changes,  \* how many changes were begun so far
          data,     \* the copy of each query, or None
          old,      \* isInvalidated
          page,     \* the query with an observer: the page shows the memo, or a
                    \* list that it is in, or neither
          fetch,    \* the fetch of each query: where it is, what it was
                    \* answered, and (history) whether the memo changed since
          call,     \* the call under way, see NoCall
          doubt,    \* history: copies the code has no way to trust
          dead      \* history: values of changes that failed, unexecuted

cache == <<data, old, page, fetch>>
vars == <<scene, store, changes, cache, call, doubt, dead>>

NoFetch == [at |-> "no", memo |-> None, late |-> FALSE]
Asked == [NoFetch EXCEPT !.at = "asked"]

\* kind: None when there is none.  at: "sent", "stored" (executed, unanswered)
\* or "read" (a reaction whose memo was read again).  retried: shouldRetry.
\* before: previousMemo.  answer: the memo the server answered.  History: sound
\* (before was the memo but for this change) and late (the memo changed since
\* the answer).
NoCall == [kind |-> None, field |-> "content", value |-> 0, at |-> "no",
           retried |-> FALSE, before |-> None, answer |-> None,
           sound |-> TRUE, late |-> FALSE]

TypeOK ==
  /\ scene \in Scenes
  /\ store \in Memo /\ changes \in Values
  /\ data \in [Queries -> Memo \cup {None}]
  /\ old \in [Queries -> BOOLEAN]
  /\ page \in Queries \cup {None}
  /\ fetch \in [Queries -> [at : {"no", "asked", "answered"},
                            memo : Memo \cup {None}, late : BOOLEAN]]
  /\ call \in [Calls -> [kind : Kinds \cup {None}, field : Fields, value : Values,
                         at : {"no", "sent", "stored", "read"}, retried : BOOLEAN,
                         before : Memo \cup {None}, answer : Memo \cup {None},
                         sound : BOOLEAN, late : BOOLEAN]]
  /\ doubt \in [Queries -> BOOLEAN]
  /\ dead \subseteq Values

Init ==
  /\ scene \in Scenes
  /\ store = [f \in Fields |-> 0] /\ changes = 0
  /\ data = [q \in Queries |-> None] /\ old = [q \in Queries |-> FALSE]
  /\ page = None /\ fetch = [q \in Queries |-> NoFetch]
  /\ call = [c \in Calls |-> NoCall]
  /\ doubt = [q \in Queries |-> FALSE] /\ dead = {}

\* The request of c was executed, once at least.
Done(c) == call[c].retried \/ call[c].at \in {"stored", "read"}

-----------------------------------------------------------------------------
(* The server                                                              *)

\* The field f of the memo becomes n; what was read before is now late.
Write(f, n, calls) ==
  /\ store' = [store EXCEPT ![f] = n]
  /\ fetch' = [q \in Queries |-> [fetch[q] EXCEPT !.late = @ \/ fetch[q].at = "answered"]]
  /\ call' = [c \in Calls |-> IF c \in DOMAIN calls THEN calls[c]
                ELSE [call[c] EXCEPT !.late = @ \/ call[c].answer # None,
                                     !.sound = @ /\ (call[c].before = None
                                                     \/ call[c].before[f] = n)]]

\* Another client, which this one hears nothing of.
Others(f) ==
  /\ "others" \in scene.kinds
  /\ changes < MaxChanges
  /\ changes' = changes + 1
  /\ Write(f, changes + 1, <<>>)
  /\ doubt' = [q \in Queries |-> data[q] # None]
  /\ UNCHANGED <<data, old, page, dead>>

\* The request of c is executed: PATCH /memos, or the upsert of a reaction.
Execute(c) ==
  /\ call[c].at = "sent"
  /\ LET memo == [store EXCEPT ![call[c].field] = call[c].value] IN
     Write(call[c].field, call[c].value,
           [d \in {c} |-> [call[c] EXCEPT !.at = "stored", !.answer = memo,
                                          !.late = FALSE]])
  /\ UNCHANGED <<changes, data, old, page, doubt, dead>>

-----------------------------------------------------------------------------
(* TanStack Query                                                          *)

\* A fetch under way is shared.
Ask(q) == IF fetch[q].at = "no" THEN Asked ELSE fetch[q]

\* Another page: its query mounts (shouldFetchOnMount; whether the staleTime
\* of a copy is over is left open), that of the last one loses its observer.
\* A fetch goes on without one: the queryFns take no signal.
Visit(p) ==
  /\ p # page
  /\ page' = p
  /\ \/ fetch' = [q \in Queries |-> IF q = p THEN Ask(q) ELSE fetch[q]]
     \/ /\ p \in Queries => data[p] # None /\ ~old[p]
        /\ UNCHANGED fetch
  /\ UNCHANGED <<store, changes, data, old, call, doubt, dead>>

\* The window gets the focus, or the network is back.
Focus(q) ==
  /\ q = page /\ fetch[q].at = "no"
  /\ fetch' = [fetch EXCEPT ![q] = Asked]
  /\ UNCHANGED <<store, changes, data, old, page, call, doubt, dead>>

\* The gcTime is over.
Collect(q) ==
  /\ q # page /\ data[q] # None /\ fetch[q].at = "no"
  /\ data' = [data EXCEPT ![q] = None]
  /\ old' = [old EXCEPT ![q] = FALSE]
  /\ doubt' = [doubt EXCEPT ![q] = FALSE]
  /\ UNCHANGED <<store, changes, page, fetch, call, dead>>

\* The server answers GET /memos or GET /memos/:id.  A fetch that fails and is
\* made again stands as one that is answered later.
Answer(q) ==
  /\ fetch[q].at = "asked"
  /\ fetch' = [fetch EXCEPT ![q] = [at |-> "answered", memo |-> store, late |-> FALSE]]
  /\ UNCHANGED <<store, changes, data, old, page, call, doubt, dead>>

Land(q) ==
  /\ fetch[q].at = "answered"
  /\ data' = [data EXCEPT ![q] = fetch[q].memo]
  /\ old' = [old EXCEPT ![q] = FALSE]
  /\ fetch' = [fetch EXCEPT ![q] = NoFetch]
  /\ doubt' = [doubt EXCEPT ![q] = fetch[q].late]
  /\ UNCHANGED <<store, changes, page, call, dead>>

\* invalidateQueries of the queries qs, whose copies are now d and whose marks
\* m: the copies are old, and those on the page are fetched, from the beginning
\* unless there is no copy yet.
Invalidate(qs, d, m) ==
  /\ old' = [q \in Queries |-> IF q \in qs THEN d[q] # None ELSE m[q]]
  /\ fetch' = [q \in Queries |->
       IF q \in qs /\ q = page /\ (d[q] # None \/ fetch[q].at = "no") THEN Asked ELSE fetch[q]]

Fresh == [q \in Queries |-> FALSE]

-----------------------------------------------------------------------------
(* useMemoQueries and those that write behind it                           *)

\* patchMemoInCollectionQueries, after the detail was set to memo.
Everywhere(memo) == [q \in Queries |-> IF q = "list" /\ data[q] = None THEN None ELSE memo]

\* A call under way was executed, and the memo m does not show it.
Unseen(m) == \E d \in Calls : Done(d) /\ m[call[d].field] # call[d].value

Begin(c, kind) ==
  /\ kind \in scene.kinds
  /\ call[c].kind = None /\ changes < MaxChanges
  /\ changes' = changes + 1

\* Mutant: a copy that is not there becomes the patch alone.
WithUnguarded(m, f, n) == IF m = None THEN [g \in {f} |-> n] ELSE [m EXCEPT ![f] = n]

\* The copy m with the patch spread over it.
With(m, f, n) == IF m = None THEN None ELSE [m EXCEPT ![f] = n]

\* onMutate: fetches are cancelled, the copies patched and thereby fresh.
Patch(c, f) ==
  LET n == changes + 1
      from == IF data["detail"] # None THEN "detail" ELSE "list"
      before == data[from] IN
  /\ Begin(c, "patch") /\ f \in scene.fields
  /\ fetch' = [q \in Queries |-> NoFetch]
  /\ data' = [detail |-> With(before, f, n), list |-> With(data["list"], f, n)]
  /\ old' = Fresh
  /\ doubt' = [q \in Queries |-> IF data[q] # None THEN doubt[q] \/ old[q]
                                 ELSE doubt[from] \/ old[from]]
  /\ call' = [call EXCEPT ![c] = [NoCall EXCEPT
       !.kind = "patch", !.field = f, !.value = n, !.at = "sent", !.before = before,
       !.sound = before = None \/ ~(old[from] \/ doubt[from] \/ Unseen(before))]]
  /\ UNCHANGED <<store, page, dead>>

\* memoService.save, or a click on a reaction: nothing happens before the answer.
Send(c, kind, f) ==
  /\ kind = "edit" => f = "content"
  /\ kind = "react" => f = "other"
  /\ Begin(c, kind)
  /\ call' = [call EXCEPT ![c] = [NoCall EXCEPT
       !.kind = kind, !.field = f, !.value = changes + 1, !.at = "sent"]]
  /\ UNCHANGED <<store, cache, doubt, dead>>

End(c) == call' = [call EXCEPT ![c] = NoCall]

\* onSuccess: the copies become the answer, lists are fetched anew.
Patched(c) ==
  LET d == Everywhere(call[c].answer) IN
  /\ call[c].kind = "patch" /\ call[c].at = "stored"
  /\ data' = d
  /\ Invalidate({"list"}, d, Fresh)
  /\ doubt' = [q \in Queries |-> d[q] # None /\ call[c].late]
  /\ End(c)
  /\ UNCHANGED <<store, changes, page, dead>>

\* Mutant: an edit leaves the memo's own query alone.
EditInvalidatesLists == {"list"}

\* handleSave invalidates these once the memo is saved.
EditInvalidates == Queries

Edited(c) ==
  /\ call[c].kind = "edit" /\ call[c].at = "stored"
  /\ Invalidate(EditInvalidates, data, old)
  /\ End(c)
  /\ UNCHANGED <<store, changes, data, page, doubt, dead>>

\* handleReactionClick reads the memo again.
ReadAgain(c) ==
  /\ call[c].kind = "react" /\ call[c].at = "stored"
  /\ call' = [call EXCEPT ![c].at = "read", ![c].answer = store, ![c].late = FALSE]
  /\ UNCHANGED <<store, changes, cache, doubt, dead>>

Reacted(c) ==
  LET d == [data EXCEPT !["detail"] = call[c].answer] IN
  /\ call[c].at = "read"
  /\ data' = d
  /\ Invalidate({"list"}, d, [old EXCEPT !["detail"] = FALSE])
  /\ doubt' = [doubt EXCEPT !["detail"] = call[c].late]
  /\ End(c)
  /\ UNCHANGED <<store, changes, page, dead>>

\* The answer of the first attempt is lost: a mutation is sent again.  Until it
\* is executed, "sent" stands for either attempt.
Retry(c) ==
  /\ scene.faults /\ call[c].kind = "patch"
  /\ call[c].at = "stored" /\ ~call[c].retried
  /\ call' = [call EXCEPT ![c].at = "sent", ![c].retried = TRUE,
                          ![c].answer = None, ![c].late = FALSE]
  /\ UNCHANGED <<store, changes, cache, doubt, dead>>

\* Mutant: the copies in lists keep what was never saved.
RollbackDetail(memo) == [data EXCEPT !["detail"] = memo]

\* onError, when there was a copy.
Rollback(memo) == Everywhere(memo)

\* The request is refused, or the last attempt or its answer is lost.
Fail(c) ==
  LET k == call[c] IN
  /\ scene.faults /\ k.kind # None
  /\ IF k.kind # "patch" THEN UNCHANGED <<data, old, fetch>>
     ELSE IF k.before # None
     THEN data' = Rollback(k.before) /\ old' = Fresh /\ UNCHANGED fetch
     ELSE Invalidate(Queries, data, old) /\ UNCHANGED data
  /\ doubt' = [q \in Queries |-> data'[q] # None /\
                 (Done(c) \/ IF k.before # None THEN ~k.sound ELSE doubt[q])]
  /\ dead' = IF Done(c) \/ \E d \in Calls \ {c} : call[d].before # None
                                                /\ call[d].before[k.field] = k.value
             THEN dead ELSE dead \cup {k.value}
  /\ call' = [d \in Calls |-> IF d = c THEN NoCall ELSE
       [call[d] EXCEPT !.sound = @ /\ (call[d].before = None
                                       \/ call[d].before[k.field] # k.value)]]
  /\ UNCHANGED <<store, changes, page>>

-----------------------------------------------------------------------------
Step ==
  \/ \E f \in Fields : Others(f)
  \/ \E p \in Queries \cup {None} : Visit(p)
  \/ \E q \in Queries : \/ Focus(q) \/ Collect(q)
                        \/ Answer(q) \/ Land(q)
  \/ \E c \in Calls : \/ \E f \in Fields : Patch(c, f) \/ Send(c, "edit", f) \/ Send(c, "react", f)
                      \/ Execute(c) \/ Patched(c) \/ Edited(c) \/ ReadAgain(c) \/ Reacted(c)
                      \/ Retry(c) \/ Fail(c)

Next == Step /\ UNCHANGED scene

Spec == Init /\ [][Next]_vars

-----------------------------------------------------------------------------
\* With no call under way, a copy that counts as fresh shows the memo as the
\* server has it, whichever changes of this page met, in whichever order their
\* answers came: onSuccess, the invalidations and onError between them miss no
\* copy.  Not so a copy in doubt: another client wrote since it was fetched,
\* a change went through unanswered, or the copy was written from something
\* read before another change was executed.
ShownTrue ==
  (\A c \in Calls : call[c].kind = None) =>
     \A q \in Queries : data[q] # None /\ ~old[q] /\ ~doubt[q] => data[q] = store

\* A change that failed and was never executed is nowhere in the cache, unless
\* another mutation began in its presence and has it in its own snapshot.
NoTrace ==
  \A q \in Queries, f \in Fields : data[q] # None => data[q][f] \notin dead
=============================================================================
