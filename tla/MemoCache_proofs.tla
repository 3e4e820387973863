-------------------------- MODULE MemoCache_proofs --------------------------
(***************************************************************************)
(* Proofs about what the web client has cached.  MemoCache: its type       *)
(* invariant, that a change that failed unexecuted leaves no trace in the  *)
(* copies, and that copies that are trusted are the memo when nothing is   *)
(* under way.  MemoPages: its type invariant, that the pages of a list     *)
(* that nobody changed are the list, and that a memo is passed over only   *)
(* for one that left the pages in front of it.                             *)
(***************************************************************************)
EXTENDS MemoCache, MemoPages, FiniteSetTheorems, TLAPS

Stores == [Queries -> Memo \cup {None}]
Fetches == [at : {"no", "asked", "answered"}, memo : Memo \cup {None}, late : BOOLEAN]
CallType == [kind : Kinds \cup {None}, field : Fields, value : Values,
             at : {"no", "sent", "stored", "read"}, retried : BOOLEAN,
             before : Memo \cup {None}, answer : Memo \cup {None},
             sound : BOOLEAN, late : BOOLEAN]

-----------------------------------------------------------------------------
(* Types.                                                                  *)

(* The records that the actions build from nothing.                        *)
LEMMA Blanks ==
  /\ NoFetch \in Fetches /\ Asked \in Fetches /\ NoCall \in CallType
  /\ NoFetch.memo = None /\ Asked.memo = None
  /\ Fresh \in [Queries -> BOOLEAN]
<1>1. NoFetch \in Fetches /\ NoFetch.memo = None
  BY DEF NoFetch, Fetches
<1>2. Asked \in Fetches /\ Asked.memo = None
  BY <1>1 DEF Asked, Fetches
<1>4. 0 \in Values /\ "content" \in Fields
  BY CacheAssumption DEF Values, Fields
<1>5. NoCall \in CallType
  BY <1>4 DEF NoCall, CallType
<1> QED
  BY <1>1, <1>2, <1>4, <1>5 DEF Fresh

(* A memo stays one when a field of it changes.                            *)
LEMMA FieldSet ==
  ASSUME NEW m \in Memo, NEW f \in Fields, NEW n \in Values
  PROVE  /\ [m EXCEPT ![f] = n] \in Memo
         /\ [m EXCEPT ![f] = n][f] = n
         /\ \A g \in Fields : g # f => [m EXCEPT ![f] = n][g] = m[g]
BY DEF Memo

LEMMA WithTyped ==
  ASSUME NEW m \in Memo \cup {None}, NEW f \in Fields, NEW n \in Values
  PROVE  With(m, f, n) \in Memo \cup {None}
BY FieldSet DEF With

(* patchMemoInCollectionQueries makes no copy where there is none.         *)
LEMMA EverywhereTyped ==
  ASSUME NEW m \in Memo \cup {None}, data \in Stores
  PROVE  /\ Everywhere(m) \in Stores
         /\ \A q \in Queries : Everywhere(m)[q] \in {m, None}
BY DEF Everywhere, Stores

(* What invalidateQueries does: a fetch goes on as it was, or anew.        *)
LEMMA Invalidated ==
  ASSUME NEW qs, NEW d, NEW m \in [Queries -> BOOLEAN],
         fetch \in [Queries -> Fetches], Invalidate(qs, d, m)
  PROVE  /\ old' \in [Queries -> BOOLEAN]
         /\ fetch' \in [Queries -> Fetches]
         /\ \A q \in Queries : fetch'[q].memo \in {fetch[q].memo, None}
BY Blanks DEF Invalidate

(* A write to the memo marks what was read before, and changes no more of  *)
(* it.                                                                     *)
LEMMA WriteMarks ==
  ASSUME TypeOK, NEW f \in Fields, NEW n \in Values, NEW calls, Write(f, n, calls),
         NEW c \in Calls, c \notin DOMAIN calls
  PROVE  /\ call'[c] \in CallType
         /\ \E late, sound \in BOOLEAN :
              call'[c] = [call[c] EXCEPT !.late = late, !.sound = sound]
<1> DEFINE late == call[c].late \/ call[c].answer # None
           sound == call[c].sound /\ (call[c].before = None \/ call[c].before[f] = n)
<1>1. call[c] \in CallType
  BY DEF TypeOK, CallType
<1>2. late \in BOOLEAN /\ sound \in BOOLEAN
  BY <1>1 DEF CallType
<1>3. call'[c] = [call[c] EXCEPT !.late = late, !.sound = sound]
  BY DEF Write
<1> HIDE DEF late, sound
<1>4. [call[c] EXCEPT !.late = late, !.sound = sound] \in CallType
  BY <1>1, <1>2 DEF CallType
<1> QED
  BY <1>2, <1>3, <1>4

LEMMA WriteTyped ==
  ASSUME TypeOK, NEW f \in Fields, NEW n \in Values, NEW calls, Write(f, n, calls)
  PROVE  /\ store' \in Memo
         /\ fetch' \in [Queries -> Fetches]
         /\ \A q \in Queries : fetch'[q].memo = fetch[q].memo
<1>1. store' \in Memo
  BY FieldSet DEF Write, TypeOK
<1>2. ASSUME NEW q \in Queries
      PROVE  fetch'[q] \in Fetches /\ fetch'[q].memo = fetch[q].memo
  <2> DEFINE late == fetch[q].late \/ fetch[q].at = "answered"
  <2>1. fetch[q] \in Fetches
    BY DEF TypeOK, Fetches
  <2>2. late \in BOOLEAN
    BY <2>1 DEF Fetches
  <2>3. fetch'[q] = [fetch[q] EXCEPT !.late = late]
    BY DEF Write
  <2> HIDE DEF late
  <2> QED
    BY <2>1, <2>2, <2>3 DEF Fetches
<1>3. fetch' \in [Queries -> Fetches]
  <2>1. fetch' = [q \in Queries |-> fetch'[q]]
    BY DEF Write
  <2> QED
    BY <1>2, <2>1
<1> QED
  BY <1>1, <1>2, <1>3

(* The type invariant of the next state, part by part.                     *)
LEMMA TypeParts ==
  ASSUME scene' \in Scenes, store' \in Memo, changes' \in Values, data' \in Stores,
         old' \in [Queries -> BOOLEAN], page' \in Queries \cup {None},
         fetch' \in [Queries -> Fetches], call' \in [Calls -> CallType],
         doubt' \in [Queries -> BOOLEAN], dead' \subseteq Values
  PROVE  TypeOK'
BY DEF TypeOK, Stores, Fetches, CallType

LEMMA TypeNow ==
  ASSUME TypeOK
  PROVE  /\ scene \in Scenes /\ store \in Memo /\ changes \in Values /\ data \in Stores
         /\ old \in [Queries -> BOOLEAN] /\ page \in Queries \cup {None}
         /\ fetch \in [Queries -> Fetches] /\ call \in [Calls -> CallType]
         /\ doubt \in [Queries -> BOOLEAN] /\ dead \subseteq Values
BY DEF TypeOK, Stores, Fetches, CallType

(* The next change has a number, as long as the bound is not reached.      *)
LEMMA NextNumber ==
  ASSUME changes \in Values, changes < MaxChanges
  PROVE  changes + 1 \in Values
BY CacheAssumption DEF Values

LEMMA OthersTyped ==
  ASSUME TypeOK, NEW f \in Fields, Others(f), UNCHANGED scene
  PROVE  TypeOK'
<1> DEFINE n == changes + 1
<1>1. Write(f, n, <<>>) /\ n \in Values /\ changes' = n
  BY TypeNow, NextNumber DEF Others
<1> HIDE DEF n
<1>2. \A c \in Calls : call'[c] \in CallType
  <2>1. \A c \in Calls : c \notin DOMAIN <<>>
    OBVIOUS
  <2> QED BY <1>1, <2>1, WriteMarks
<1>3. call' \in [Calls -> CallType]
  BY <1>1, <1>2 DEF Write
<1>4. store' \in Memo /\ fetch' \in [Queries -> Fetches]
  BY <1>1, WriteTyped
<1>5. doubt' \in [Queries -> BOOLEAN]
  BY DEF Others
<1> QED
  BY <1>1, <1>3, <1>4, <1>5, TypeNow, TypeParts DEF Others

LEMMA ExecuteLeads ==
  ASSUME TypeOK, NEW c \in Calls, Execute(c)
  PROVE  /\ Write(call[c].field, call[c].value,
                  [d \in {c} |-> [call[c] EXCEPT !.at = "stored", !.late = FALSE,
                     !.answer = [store EXCEPT ![call[c].field] = call[c].value]]])
         /\ call[c].field \in Fields /\ call[c].value \in Values
         /\ [store EXCEPT ![call[c].field] = call[c].value] \in Memo
         /\ call'[c] = [call[c] EXCEPT !.at = "stored", !.late = FALSE,
                     !.answer = [store EXCEPT ![call[c].field] = call[c].value]]
<1>1. call[c] \in CallType /\ store \in Memo
  BY TypeNow
<1>2. call[c].field \in Fields /\ call[c].value \in Values
  BY <1>1 DEF CallType
<1>3. [store EXCEPT ![call[c].field] = call[c].value] \in Memo
  BY <1>1, <1>2, FieldSet
<1> DEFINE k == [call[c] EXCEPT !.at = "stored", !.late = FALSE,
                   !.answer = [store EXCEPT ![call[c].field] = call[c].value]]
<1>4. Write(call[c].field, call[c].value, [d \in {c} |-> k])
  BY <1>1 DEF Execute, CallType
<1>5. call'[c] = k
  <2> HIDE DEF k
  <2> QED BY <1>4 DEF Write
<1> QED
  BY <1>2, <1>3, <1>4, <1>5

LEMMA ExecuteTyped ==
  ASSUME TypeOK, NEW c \in Calls, Execute(c), UNCHANGED scene
  PROVE  TypeOK'
<1> DEFINE saved == [store EXCEPT ![call[c].field] = call[c].value]
           k == [call[c] EXCEPT !.at = "stored", !.late = FALSE, !.answer = saved]
<1>1. /\ Write(call[c].field, call[c].value, [d \in {c} |-> k])
      /\ call[c].field \in Fields /\ call[c].value \in Values
      /\ saved \in Memo /\ call'[c] = k
  BY ExecuteLeads
<1>2. k \in CallType
  <2>1. call[c] \in CallType /\ saved \in Memo
    BY <1>1, TypeNow
  <2> HIDE DEF saved
  <2> QED BY <2>1 DEF CallType
<1>3. \A d \in Calls : call'[d] \in CallType
  <2> HIDE DEF k
  <2>1. \A d \in Calls \ {c} : d \notin DOMAIN [e \in {c} |-> k]
    OBVIOUS
  <2> QED BY <1>1, <1>2, <2>1, WriteMarks
<1> HIDE DEF k
<1>4. call' \in [Calls -> CallType]
  BY <1>1, <1>3 DEF Write
<1>5. store' \in Memo /\ fetch' \in [Queries -> Fetches]
  BY <1>1, WriteTyped
<1> QED
  BY <1>4, <1>5, TypeNow, TypeParts DEF Execute

LEMMA QueriesTyped ==
  ASSUME TypeOK, UNCHANGED scene, NEW p \in Queries \cup {None}, NEW q \in Queries,
         Visit(p) \/ Focus(q) \/ Collect(q) \/ Answer(q) \/ Land(q)
  PROVE  TypeOK'
<1>1. CASE Visit(p)
  <2>1. fetch' \in [Queries -> Fetches]
    BY <1>1, TypeNow, Blanks DEF Visit, Ask
  <2> QED BY <1>1, <2>1, TypeNow, TypeParts DEF Visit
<1>2. CASE Focus(q)
  BY <1>2, TypeNow, TypeParts, Blanks DEF Focus
<1>3. CASE Collect(q)
  BY <1>3, TypeNow, TypeParts DEF Collect, Stores
<1>4. CASE Answer(q)
  <2>1. [at |-> "answered", memo |-> store, late |-> FALSE] \in Fetches
    BY TypeNow DEF Fetches
  <2> QED BY <1>4, <2>1, TypeNow, TypeParts DEF Answer
<1>5. CASE Land(q)
  <2>1. fetch[q].memo \in Memo \cup {None} /\ fetch[q].late \in BOOLEAN
    BY TypeNow DEF Fetches
  <2>2. data' \in Stores /\ old' \in [Queries -> BOOLEAN] /\ doubt' \in [Queries -> BOOLEAN]
    BY <1>5, <2>1, TypeNow DEF Land, Stores
  <2> QED BY <1>5, <2>2, TypeNow, TypeParts, Blanks DEF Land
<1> QED
  BY <1>1, <1>2, <1>3, <1>4, <1>5

(* The call that a mutation, an edit or a reaction starts with.            *)
LEMMA FirstCall ==
  ASSUME NEW kind \in Kinds, NEW f \in Fields, NEW n \in Values,
         NEW b \in Memo \cup {None}, NEW s \in BOOLEAN
  PROVE  /\ [NoCall EXCEPT !.kind = kind, !.field = f, !.value = n, !.at = "sent"]
              \in CallType
         /\ [NoCall EXCEPT !.kind = kind, !.field = f, !.value = n, !.at = "sent",
                           !.before = b, !.sound = s] \in CallType
BY Blanks DEF CallType

(* What onMutate patches.                                                  *)
PatchFrom == IF data["detail"] # None THEN "detail" ELSE "list"

LEMMA PatchLeads ==
  ASSUME TypeOK, NEW c \in Calls, NEW f \in Fields, Patch(c, f)
  PROVE  /\ changes + 1 \in Values /\ changes' = changes + 1 /\ "patch" \in Kinds
         /\ data[PatchFrom] \in Memo \cup {None}
         /\ fetch' = [q \in Queries |-> NoFetch]
         /\ data' = [q \in Queries |->
              IF q = "detail" THEN With(data[PatchFrom], f, changes + 1)
              ELSE With(data["list"], f, changes + 1)]
         /\ \E s \in BOOLEAN : call' = [call EXCEPT ![c] = [NoCall EXCEPT
              !.kind = "patch", !.field = f, !.value = changes + 1, !.at = "sent",
              !.before = data[PatchFrom], !.sound = s]]
         /\ call[c].kind = None
         /\ UNCHANGED <<store, page, dead>>
<1> DEFINE s == data[PatchFrom] = None
                  \/ ~(old[PatchFrom] \/ doubt[PatchFrom] \/ Unseen(data[PatchFrom]))
<1>1. s \in BOOLEAN
  OBVIOUS
<1>2. call' = [call EXCEPT ![c] = [NoCall EXCEPT
              !.kind = "patch", !.field = f, !.value = changes + 1, !.at = "sent",
              !.before = data[PatchFrom], !.sound = s]]
  BY DEF Patch, PatchFrom
<1>3. changes + 1 \in Values /\ changes' = changes + 1 /\ "patch" \in Kinds
  BY TypeNow, NextNumber DEF Patch, Begin, Kinds
<1>4. data[PatchFrom] \in Memo \cup {None}
  BY TypeNow DEF PatchFrom, Stores, Queries
<1>5. data' = [q \in Queries |->
              IF q = "detail" THEN With(data[PatchFrom], f, changes + 1)
              ELSE With(data["list"], f, changes + 1)]
  BY DEF Patch, PatchFrom, Queries
<1> HIDE DEF s
<1> QED
  BY <1>1, <1>2, <1>3, <1>4, <1>5 DEF Patch, Begin

LEMMA PatchTyped ==
  ASSUME TypeOK, UNCHANGED scene, NEW c \in Calls, NEW f \in Fields, Patch(c, f)
  PROVE  TypeOK'
<1> DEFINE n == changes + 1
           new == With(data[PatchFrom], f, n)
           other == With(data["list"], f, n)
<1>1. /\ n \in Values /\ changes' = n /\ "patch" \in Kinds
      /\ data[PatchFrom] \in Memo \cup {None}
      /\ fetch' = [q \in Queries |-> NoFetch]
      /\ data' = [q \in Queries |-> IF q = "detail" THEN new ELSE other]
      /\ UNCHANGED <<store, page, dead>>
  BY PatchLeads
<1>2. PICK s \in BOOLEAN : call' = [call EXCEPT ![c] = [NoCall EXCEPT
        !.kind = "patch", !.field = f, !.value = n, !.at = "sent",
        !.before = data[PatchFrom], !.sound = s]]
  BY PatchLeads
<1>3. data' \in Stores
  <2>1. new \in Memo \cup {None}
    BY <1>1, WithTyped
  <2>2. data["list"] \in Memo \cup {None}
    BY TypeNow DEF Stores, Queries
  <2>3. other \in Memo \cup {None}
    BY <1>1, <2>2, WithTyped
  <2> HIDE DEF new, other
  <2> QED BY <1>1, <2>1, <2>3 DEF Stores
<1>4. call' \in [Calls -> CallType]
  <2> DEFINE k == [NoCall EXCEPT
        !.kind = "patch", !.field = f, !.value = n, !.at = "sent",
        !.before = data[PatchFrom], !.sound = s]
  <2>1. k \in CallType
    BY <1>1, FirstCall
  <2>2. call' = [call EXCEPT ![c] = k]
    BY <1>2
  <2> HIDE DEF k
  <2> QED BY <2>1, <2>2, TypeNow
<1>5. old' \in [Queries -> BOOLEAN]
  BY Blanks DEF Patch
<1>6. doubt' \in [Queries -> BOOLEAN]
  BY TypeNow DEF Patch, Queries
<1> QED
  BY <1>1, <1>3, <1>4, <1>5, <1>6, Blanks, TypeNow, TypeParts

LEMMA SendTyped ==
  ASSUME TypeOK, UNCHANGED scene, NEW c \in Calls, NEW f \in Fields,
         NEW kind \in Kinds, Send(c, kind, f)
  PROVE  TypeOK'
<1>1. changes + 1 \in Values /\ changes' = changes + 1
  BY TypeNow, NextNumber DEF Send, Begin
<1>2. call' \in [Calls -> CallType]
  BY <1>1, TypeNow, FirstCall DEF Send
<1> QED
  BY <1>1, <1>2, TypeNow, TypeParts DEF Send, cache

LEMMA PatchedTyped ==
  ASSUME TypeOK, UNCHANGED scene, NEW c \in Calls, Patched(c)
  PROVE  TypeOK'
<1> DEFINE d == Everywhere(call[c].answer)
<1>1. call[c].answer \in Memo \cup {None} /\ call[c].late \in BOOLEAN
  BY TypeNow DEF CallType
<1>2. d \in Stores
  BY <1>1, TypeNow, EverywhereTyped
<1> HIDE DEF d
<1>3. old' \in [Queries -> BOOLEAN] /\ fetch' \in [Queries -> Fetches]
  BY TypeNow, Blanks, Invalidated DEF Patched, d
<1>4. data' = d /\ call' = [call EXCEPT ![c] = NoCall]
  BY DEF Patched, End, d
<1>5. doubt' \in [Queries -> BOOLEAN]
  BY <1>1 DEF Patched
<1> QED
  BY <1>2, <1>3, <1>4, <1>5, Blanks, TypeNow, TypeParts DEF Patched

LEMMA EditedTyped ==
  ASSUME TypeOK, UNCHANGED scene, NEW c \in Calls, Edited(c)
  PROVE  TypeOK'
<1>1. old' \in [Queries -> BOOLEAN] /\ fetch' \in [Queries -> Fetches]
  BY TypeNow, Invalidated DEF Edited
<1> QED
  BY <1>1, Blanks, TypeNow, TypeParts DEF Edited, End

LEMMA ReadAgainTyped ==
  ASSUME TypeOK, UNCHANGED scene, NEW c \in Calls, ReadAgain(c)
  PROVE  TypeOK'
<1>1. call[c] \in CallType /\ store \in Memo
  BY TypeNow
<1>2. call' = [call EXCEPT ![c] = [call[c] EXCEPT !.at = "read", !.answer = store,
                                                  !.late = FALSE]]
  BY <1>1, TypeNow DEF ReadAgain, CallType
<1>3. [call[c] EXCEPT !.at = "read", !.answer = store, !.late = FALSE] \in CallType
  BY <1>1 DEF CallType
<1> QED
  BY <1>2, <1>3, TypeNow, TypeParts DEF ReadAgain, cache

LEMMA ReactedTyped ==
  ASSUME TypeOK, UNCHANGED scene, NEW c \in Calls, Reacted(c)
  PROVE  TypeOK'
<1> DEFINE d == [data EXCEPT !["detail"] = call[c].answer]
           m == [old EXCEPT !["detail"] = FALSE]
<1>1. call[c].answer \in Memo \cup {None} /\ call[c].late \in BOOLEAN
  BY TypeNow DEF CallType
<1>2. d \in Stores /\ m \in [Queries -> BOOLEAN]
  BY <1>1, TypeNow DEF Stores
<1> HIDE DEF d, m
<1>3. Invalidate({"list"}, d, m)
  BY DEF Reacted, d, m
<1>4. old' \in [Queries -> BOOLEAN] /\ fetch' \in [Queries -> Fetches]
  BY <1>2, <1>3, TypeNow, Invalidated
<1>5. data' = d /\ call' = [call EXCEPT ![c] = NoCall]
  BY DEF Reacted, End, d
<1>6. doubt' \in [Queries -> BOOLEAN]
  BY <1>1, TypeNow DEF Reacted
<1> QED
  BY <1>2, <1>4, <1>5, <1>6, Blanks, TypeNow, TypeParts DEF Reacted

LEMMA RetryTyped ==
  ASSUME TypeOK, UNCHANGED scene, NEW c \in Calls, Retry(c)
  PROVE  TypeOK'
<1> DEFINE k == [call[c] EXCEPT !.at = "sent", !.retried = TRUE, !.answer = None,
                                !.late = FALSE]
<1>1. call[c] \in CallType
  BY TypeNow
<1>2. call' = [call EXCEPT ![c] = k]
  BY <1>1, TypeNow DEF Retry, CallType
<1>3. k \in CallType
  BY <1>1 DEF CallType
<1>4. call' \in [Calls -> CallType]
  <2> HIDE DEF k
  <2> QED BY <1>2, <1>3, TypeNow
<1>5. UNCHANGED <<store, changes, data, old, page, fetch, doubt, dead>>
  BY DEF Retry, cache
<1> QED
  BY <1>4, <1>5, TypeNow, TypeParts

(* What onError leaves: the copies as they were, or those of the snapshot. *)
LEMMA FailLeads ==
  ASSUME TypeOK, NEW c \in Calls, Fail(c)
  PROVE  /\ \/ data' = data /\ call[c].before = None
            \/ data' = data /\ call[c].kind # "patch"
            \/ data' = Everywhere(call[c].before) /\ call[c].before \in Memo
         /\ old' \in [Queries -> BOOLEAN] /\ fetch' \in [Queries -> Fetches]
         /\ \A q \in Queries : fetch'[q].memo \in {fetch[q].memo, None}
         /\ call'[c] = NoCall
         /\ \A d \in Calls \ {c} : \E s \in BOOLEAN :
              call'[d] = [call[d] EXCEPT !.sound = s]
<1>1. call[c].before \in Memo \cup {None}
  BY TypeNow DEF CallType
<1>2. /\ \/ data' = data /\ call[c].before = None
         \/ data' = data /\ call[c].kind # "patch"
         \/ data' = Everywhere(call[c].before) /\ call[c].before \in Memo
      /\ old' \in [Queries -> BOOLEAN] /\ fetch' \in [Queries -> Fetches]
      /\ \A q \in Queries : fetch'[q].memo \in {fetch[q].memo, None}
  <2>1. CASE call[c].kind # "patch"
    BY <2>1, TypeNow DEF Fail
  <2>2. CASE call[c].kind = "patch" /\ call[c].before # None
    BY <1>1, <2>2, TypeNow, Blanks DEF Fail, Rollback
  <2>3. CASE call[c].kind = "patch" /\ call[c].before = None
    <3>1. Invalidate(Queries, data, old) /\ UNCHANGED data
      BY <2>3 DEF Fail
    <3> QED BY <2>3, <3>1, TypeNow, Invalidated
  <2> QED BY <2>1, <2>2, <2>3
<1>3. call'[c] = NoCall
  BY DEF Fail
<1>4. ASSUME NEW d \in Calls \ {c}
      PROVE  \E s \in BOOLEAN : call'[d] = [call[d] EXCEPT !.sound = s]
  <2> DEFINE s == call[d].sound /\ (call[d].before = None
                            \/ call[d].before[call[c].field] # call[c].value)
  <2>1. call[d] \in CallType
    BY TypeNow
  <2>2. s \in BOOLEAN
    BY <2>1 DEF CallType
  <2>3. call'[d] = [call[d] EXCEPT !.sound = s]
    BY DEF Fail
  <2> HIDE DEF s
  <2> QED BY <2>2, <2>3
<1> QED
  BY <1>2, <1>3, <1>4

LEMMA FailTyped ==
  ASSUME TypeOK, UNCHANGED scene, NEW c \in Calls, Fail(c)
  PROVE  TypeOK'
<1>1. data' \in Stores
  BY TypeNow, FailLeads, EverywhereTyped
<1>2. call' \in [Calls -> CallType]
  <2>1. ASSUME NEW d \in Calls PROVE call'[d] \in CallType
    <3>1. CASE d = c
      BY <3>1, FailLeads, Blanks
    <3>2. CASE d # c
      <4>1. PICK s \in BOOLEAN : call'[d] = [call[d] EXCEPT !.sound = s]
        BY <3>2, FailLeads
      <4>2. call[d] \in CallType
        BY TypeNow
      <4> QED BY <4>1, <4>2 DEF CallType
    <3> QED BY <3>1, <3>2
  <2>2. call' = [d \in Calls |-> call'[d]]
    BY DEF Fail
  <2> QED BY <2>1, <2>2
<1>3. doubt' \in [Queries -> BOOLEAN]
  BY DEF Fail
<1>4. dead' \subseteq Values
  <2>1. call[c].value \in Values
    BY TypeNow DEF CallType
  <2> QED BY <2>1, TypeNow DEF Fail
<1>5. old' \in [Queries -> BOOLEAN] /\ fetch' \in [Queries -> Fetches]
  BY FailLeads
<1> QED
  BY <1>1, <1>2, <1>3, <1>4, <1>5, TypeNow, TypeParts DEF Fail

LEMMA StepTyped ==
  ASSUME TypeOK, [Next]_vars
  PROVE  TypeOK'
<1>1. CASE UNCHANGED vars
  BY <1>1 DEF vars, cache, TypeOK
<1>2. CASE Next
  <2>1. CASE \E f \in Fields : Others(f)
    BY <1>2, <2>1, OthersTyped DEF Next
  <2>2. CASE \E p \in Queries \cup {None} : Visit(p)
    <3>1. "list" \in Queries
      BY DEF Queries
    <3> QED BY <1>2, <2>2, <3>1, QueriesTyped DEF Next
  <2>3. CASE \E q \in Queries : Focus(q) \/ Collect(q) \/ Answer(q) \/ Land(q)
    BY <1>2, <2>3, QueriesTyped DEF Next
  <2>4. CASE \E c \in Calls, f \in Fields : Patch(c, f)
    BY <1>2, <2>4, PatchTyped DEF Next
  <2>5. CASE \E c \in Calls, f \in Fields : Send(c, "edit", f) \/ Send(c, "react", f)
    BY <1>2, <2>5, SendTyped DEF Next, Kinds
  <2>6. CASE \E c \in Calls : Execute(c) \/ Patched(c) \/ Edited(c) \/ ReadAgain(c)
                                \/ Reacted(c) \/ Retry(c) \/ Fail(c)
    BY <1>2, <2>6, ExecuteTyped, PatchedTyped, EditedTyped, ReadAgainTyped, ReactedTyped,
       RetryTyped, FailTyped DEF Next
  <2> QED
    BY <1>2, <2>1, <2>2, <2>3, <2>4, <2>5, <2>6 DEF Next, Step
<1> QED
  BY <1>1, <1>2

LEMMA InitTyped == Init => TypeOK
<1> SUFFICES ASSUME Init PROVE TypeOK
  OBVIOUS
<1>1. 0 \in Values
  BY CacheAssumption DEF Values
<1> QED
  BY <1>1, Blanks DEF Init, TypeOK, Memo, Fetches, CallType

(* Every copy, fetch and call that the cache goes through is a proper one: *)
(* in particular no patch is spread over a copy that is not there.         *)
THEOREM TypeCorrect == Spec => []TypeOK
BY InitTyped, StepTyped, PTL DEF Spec

-----------------------------------------------------------------------------
(* Where the value of a change may be.                                     *)

(* A call whose request was not executed yet.                              *)
Quiet(c) == call[c].kind # None /\ ~Done(c)

(* Values that the server does not have, and those among them that no copy *)
(* has either: a mutation that found no copy showed its change nowhere.    *)
Unsaved(v) == \/ v \in dead \/ v > changes
              \/ \E c \in Calls : Quiet(c) /\ call[c].value = v
Unshown(v) == \/ v \in dead \/ v > changes
              \/ \E c \in Calls : Quiet(c) /\ call[c].before = None /\ call[c].value = v

(* The memos that come from the server, and those the page may have made.  *)
Told == {None, store} \cup {fetch[q].memo : q \in Queries} \cup {call[c].answer : c \in Calls}
Held == {data[q] : q \in Queries} \cup {call[c].before : c \in Calls}

LacksIn(fields, m, v) == m # None => \A f \in fields : m[f] # v
Lacks(m, v) == LacksIn(Fields, m, v)

(* The changes under way are different ones, none of them failed, and only *)
(* those of mutations have a snapshot.                                     *)
Issued ==
  /\ \A v \in dead : v <= changes
  /\ \A c \in Calls :
       /\ call[c].at # "no" => call[c].kind # None
       /\ call[c].before # None => call[c].kind = "patch"
       /\ call[c].kind # None => call[c].value <= changes /\ call[c].value \notin dead
       /\ \A d \in Calls : d # c /\ call[c].kind # None /\ call[d].kind # None =>
            call[c].value # call[d].value

NotTold == \A m \in Told, v \in Nat : Unsaved(v) => Lacks(m, v)
NotHeld == \A m \in Held, v \in Nat : Unshown(v) => Lacks(m, v)

(* A change not executed is in its own field only, and not in the snapshot *)
(* that its failure brings back.                                           *)
OwnField ==
  \A c \in Calls : Quiet(c) =>
    /\ Lacks(call[c].before, call[c].value)
    /\ \A m \in Held : LacksIn(Fields \ {call[c].field}, m, call[c].value)

IInv == TypeOK /\ Issued /\ NotTold /\ NotHeld /\ OwnField

(* What a step may make of a call that it does not begin.                  *)
Kept(c) ==
  \/ call'[c] = NoCall
  \/ /\ call'[c].kind = call[c].kind /\ call'[c].field = call[c].field
     /\ call'[c].value = call[c].value /\ call'[c].before = call[c].before
     /\ Done(c) => Done(c)'
     /\ call'[c].at # "no" => call[c].kind # None

LEMMA NoneIdle ==
  /\ NoCall.kind = None /\ NoCall.at = "no" /\ ~NoCall.retried
  /\ NoCall.before = None /\ NoCall.answer = None
BY DEF NoCall

(* A step that begins and fails no change leaves each as it was: its value *)
(* is where it was, or is the server's by now.                             *)
LEMMA KeptCalls ==
  ASSUME IInv, UNCHANGED dead, changes' \in Nat, changes' >= changes,
         \A c \in Calls : Kept(c)
  PROVE  /\ Issued'
         /\ \A v \in Nat : /\ Unsaved(v)' => Unsaved(v)
                           /\ Unshown(v)' => Unshown(v)
         /\ \A c \in Calls : Quiet(c)' => /\ Quiet(c)
                                          /\ call'[c].value = call[c].value
                                          /\ call'[c].field = call[c].field
                                          /\ call'[c].before = call[c].before
<1>1. \A c \in Calls : Quiet(c)' => /\ Quiet(c)
                                    /\ call'[c].value = call[c].value
                                    /\ call'[c].field = call[c].field
                                    /\ call'[c].before = call[c].before
  BY NoneIdle DEF Kept, Quiet
<1>2. \A c \in Calls : call'[c].kind # None => /\ call[c].kind # None
                                               /\ call'[c].value = call[c].value
  BY NoneIdle DEF Kept
<1>3. \A c \in Calls : /\ call'[c].at # "no" => call'[c].kind # None
                       /\ call'[c].before # None => call'[c].kind = "patch"
  BY NoneIdle DEF Kept, IInv, Issued
<1>4. changes \in Nat
  BY TypeNow DEF IInv, Values
<1>5. ASSUME NEW v \in Nat, v <= changes PROVE v <= changes'
  BY <1>4, <1>5
<1>6. dead' \subseteq Nat /\ \A c \in Calls : call[c].value \in Nat
  BY TypeNow DEF IInv, Values, CallType
<1>7. Issued'
  <2>1. \A v \in dead' : v <= changes'
    BY <1>5, <1>6 DEF IInv, Issued
  <2>2. \A c \in Calls : call'[c].kind # None =>
          call'[c].value <= changes' /\ call'[c].value \notin dead'
    BY <1>2, <1>5, <1>6 DEF IInv, Issued
  <2>3. \A c, d \in Calls : d # c /\ call'[c].kind # None /\ call'[d].kind # None =>
          call'[c].value # call'[d].value
    BY <1>2 DEF IInv, Issued
  <2>4. ASSUME NEW c \in Calls
        PROVE /\ call'[c].at # "no" => call'[c].kind # None
              /\ call'[c].before # None => call'[c].kind = "patch"
              /\ call'[c].kind # None =>
                   call'[c].value <= changes' /\ call'[c].value \notin dead'
              /\ \A d \in Calls : d # c /\ call'[c].kind # None /\ call'[d].kind # None =>
                   call'[c].value # call'[d].value
    BY <1>3, <2>2, <2>3
  <2> QED BY <2>1, <2>4 DEF Issued
<1>8. ASSUME NEW v \in Nat, v > changes' PROVE v > changes
  BY <1>4, <1>8
<1>9. \A v \in Nat : Unsaved(v)' => Unsaved(v)
  BY <1>1, <1>8 DEF Unsaved
<1>10. \A v \in Nat : Unshown(v)' => Unshown(v)
  BY <1>1, <1>8 DEF Unshown
<1> QED
  BY <1>1, <1>7, <1>9, <1>10

Rest == (Issued /\ NotTold /\ NotHeld /\ OwnField)'

LEMMA NowTold ==
  /\ None \in Told /\ store \in Told
  /\ \A q \in Queries : fetch[q].memo \in Told
  /\ \A c \in Calls : call[c].answer \in Told
BY DEF Told

LEMMA NowHeld ==
  /\ \A q \in Queries : data[q] \in Held
  /\ \A c \in Calls : call[c].before \in Held
BY DEF Held

(* If what is told and held then was told or held before, but for one memo *)
(* that has what was executed only, the values are still where they may be. *)
LEMMA CarriedWith ==
  ASSUME IInv, UNCHANGED dead, changes' \in Nat, changes' >= changes,
         \A c \in Calls : Kept(c),
         \A q \in Queries : data'[q] \in Told \cup Held,
         NEW saved, \A v \in Nat : Unsaved(v)' => Lacks(saved, v),
         store' \in Told \cup {saved},
         \A q \in Queries : fetch'[q].memo \in Told,
         \A c \in Calls : call'[c].answer \in Told \cup {saved}
  PROVE  Rest
<1>1. Told' \subseteq Told \cup {saved}
  BY DEF Told
<1>2. \A c \in Calls : call'[c].before \in Told \cup Held
  BY NoneIdle DEF Kept, Told, Held
<1>3. Held' \subseteq Told \cup Held
  BY <1>2 DEF Held
<1>4. NotTold'
  BY <1>1, KeptCalls DEF IInv, NotTold, Lacks, LacksIn
<1>5. \A v \in Nat : Unshown(v) => Unsaved(v)
  BY DEF Unshown, Unsaved
<1>6. NotHeld'
  BY <1>3, <1>5, KeptCalls DEF IInv, NotTold, NotHeld, Lacks, LacksIn
<1>7. OwnField'
  <2> SUFFICES ASSUME NEW c \in Calls, Quiet(c)'
      PROVE  /\ Lacks(call'[c].before, call'[c].value)
             /\ \A m \in Held' : LacksIn(Fields \ {call'[c].field}, m, call'[c].value)
    BY DEF OwnField, Lacks, LacksIn
  <2>1. /\ Quiet(c) /\ call'[c].value = call[c].value
        /\ call'[c].field = call[c].field /\ call'[c].before = call[c].before
    BY KeptCalls
  <2>2. call[c].value \in Nat /\ Unsaved(call[c].value)
    BY <2>1, TypeNow DEF IInv, CallType, Values, Unsaved
  <2>3. \A m \in Told : Lacks(m, call[c].value)
    BY <2>2 DEF IInv, NotTold
  <2> QED
    BY <1>3, <2>1, <2>3 DEF IInv, OwnField, Lacks, LacksIn
<1> QED
  BY <1>4, <1>6, <1>7, KeptCalls DEF Rest

LEMMA Carried ==
  ASSUME IInv, UNCHANGED <<changes, dead>>, \A c \in Calls : Kept(c),
         \A q \in Queries : data'[q] \in Told \cup Held,
         store' \in Told,
         \A q \in Queries : fetch'[q].memo \in Told,
         \A c \in Calls : call'[c].answer \in Told
  PROVE  Rest
<1>1. changes' \in Nat /\ changes' >= changes
  BY TypeNow DEF IInv, Values
<1>2. \A v \in Nat : Unsaved(v)' => Lacks(None, v)
  BY DEF Lacks, LacksIn
<1> QED
  BY <1>1, <1>2, CarriedWith

LEMMA SameKept ==
  ASSUME IInv, NEW c \in Calls, call'[c] = call[c]
  PROVE  Kept(c)
BY DEF Kept, Done, IInv, Issued

LEMMA QueriesKeep ==
  ASSUME IInv, NEW p \in Queries \cup {None}, NEW q \in Queries,
         Visit(p) \/ Focus(q) \/ Collect(q) \/ Answer(q) \/ Land(q)
  PROVE  Rest
<1>1. UNCHANGED <<store, call, changes, dead>>
  BY DEF Visit, Focus, Collect, Answer, Land
<1>2. /\ \A c \in Calls : Kept(c) /\ call'[c].answer \in Told
      /\ store' \in Told
  BY <1>1, SameKept, NowTold
<1>3. \A r \in Queries : data'[r] \in Told \cup Held
  BY NowTold, NowHeld, TypeNow DEF Visit, Focus, Collect, Answer, Land, IInv, Stores
<1>4. \A r \in Queries : fetch'[r].memo \in Told
  <2>1. CASE Visit(p)
    BY <2>1, NowTold, Blanks DEF Visit, Ask
  <2>2. CASE Focus(q)
    BY <2>2, NowTold, Blanks, TypeNow DEF Focus, IInv
  <2>3. CASE Collect(q)
    BY <2>3, NowTold DEF Collect
  <2>4. CASE Answer(q)
    BY <2>4, NowTold, TypeNow DEF Answer, IInv
  <2>5. CASE Land(q)
    BY <2>5, NowTold, Blanks, TypeNow DEF Land, IInv
  <2> QED BY <2>1, <2>2, <2>3, <2>4, <2>5
<1> QED
  BY <1>1, <1>2, <1>3, <1>4, Carried

(* A call that ends, or goes on as r with its change as it was.            *)
LEMMA OneCall ==
  ASSUME IInv, NEW c \in Calls, NEW r, call' = [call EXCEPT ![c] = r],
         r.answer \in Told,
         \/ r = NoCall
         \/ /\ r.kind = call[c].kind /\ r.field = call[c].field
            /\ r.value = call[c].value /\ r.before = call[c].before
            /\ r.retried \/ r.at \in {"stored", "read"}
            /\ call[c].kind # None
  PROVE  \A d \in Calls : Kept(d) /\ call'[d].answer \in Told
<1>1. ASSUME NEW d \in Calls, d # c PROVE Kept(d) /\ call'[d].answer \in Told
  <2>1. call'[d] = call[d]
    BY <1>1
  <2> QED BY <2>1, SameKept, NowTold
<1>2. call'[c] = r
  BY TypeNow DEF IInv
<1>3. Kept(c)
  BY <1>2 DEF Kept, Done
<1> QED
  BY <1>1, <1>2, <1>3

LEMMA AnswersKeep ==
  ASSUME IInv, NEW c \in Calls, Patched(c) \/ Edited(c) \/ Reacted(c)
  PROVE  Rest
<1> USE DEF IInv
<1>1. UNCHANGED <<store, changes, dead>> /\ call' = [call EXCEPT ![c] = NoCall]
  BY DEF Patched, Edited, Reacted, End
<1>2. \A d \in Calls : Kept(d) /\ call'[d].answer \in Told
  BY <1>1, OneCall, NoneIdle, NowTold
<1>3. call[c].answer \in Memo \cup {None}
  BY TypeNow DEF CallType
<1>4. \A q \in Queries : data'[q] \in Told \cup Held /\ fetch'[q].memo \in Told
  <2>1. CASE Patched(c)
    <3>1. Everywhere(call[c].answer) \in Stores
      BY <1>3, TypeNow, EverywhereTyped
    <3>2. \A q \in Queries : fetch'[q].memo \in {fetch[q].memo, None}
      BY <2>1, TypeNow, Blanks, Invalidated DEF Patched
    <3>3. \A q \in Queries : data'[q] \in {call[c].answer, None}
      BY <1>3, <2>1, TypeNow, EverywhereTyped DEF Patched
    <3> QED BY <3>2, <3>3, NowTold
  <2>2. CASE Edited(c)
    <3>1. \A q \in Queries : fetch'[q].memo \in {fetch[q].memo, None}
      BY <2>2, TypeNow, Invalidated DEF Edited
    <3> QED BY <2>2, <3>1, NowTold, NowHeld DEF Edited
  <2>3. CASE Reacted(c)
    <3> DEFINE m == [old EXCEPT !["detail"] = FALSE]
    <3>1. m \in [Queries -> BOOLEAN]
      BY TypeNow
    <3>2. \A q \in Queries : fetch'[q].memo \in {fetch[q].memo, None}
      BY <2>3, <3>1, TypeNow, Invalidated DEF Reacted
    <3>3. \A q \in Queries : data'[q] \in {call[c].answer, data[q]}
      BY <2>3, TypeNow DEF Reacted, Stores
    <3> QED BY <3>2, <3>3, NowTold, NowHeld
  <2> QED BY <2>1, <2>2, <2>3
<1>5. store' \in Told
  BY <1>1, NowTold
<1> QED
  BY <1>1, <1>2, <1>4, <1>5, Carried

LEMMA AgainKeep ==
  ASSUME IInv, NEW c \in Calls, ReadAgain(c) \/ Retry(c)
  PROVE  Rest
<1> USE DEF IInv
<1>1. call[c] \in CallType /\ call[c].kind # None
  BY TypeNow DEF ReadAgain, Retry, Issued
<1>2. \A d \in Calls : Kept(d) /\ call'[d].answer \in Told
  <2>1. CASE ReadAgain(c)
    <3> DEFINE r == [call[c] EXCEPT !.at = "read", !.answer = store, !.late = FALSE]
    <3>1. call' = [call EXCEPT ![c] = r]
      BY <1>1, <2>1, TypeNow DEF ReadAgain, CallType
    <3>2. /\ r.answer = store /\ r.at = "read" /\ r.kind = call[c].kind
          /\ r.field = call[c].field /\ r.value = call[c].value
          /\ r.before = call[c].before
      BY <1>1 DEF CallType
    <3> HIDE DEF r
    <3> QED BY <1>1, <3>1, <3>2, NowTold, OneCall
  <2>2. CASE Retry(c)
    <3> DEFINE r == [call[c] EXCEPT !.at = "sent", !.retried = TRUE, !.answer = None,
                                    !.late = FALSE]
    <3>1. call' = [call EXCEPT ![c] = r]
      BY <1>1, <2>2, TypeNow DEF Retry, CallType
    <3>2. /\ r.answer = None /\ r.retried /\ r.kind = call[c].kind
          /\ r.field = call[c].field /\ r.value = call[c].value
          /\ r.before = call[c].before
      BY <1>1 DEF CallType
    <3> HIDE DEF r
    <3> QED BY <1>1, <3>1, <3>2, NowTold, OneCall
  <2> QED BY <2>1, <2>2
<1>3. UNCHANGED <<store, changes, dead, data, fetch>>
  BY DEF ReadAgain, Retry, cache
<1> QED
  BY <1>2, <1>3, NowTold, NowHeld, Carried

(* A write gives the memo a value that is unsaved no more.                 *)
LEMMA Written ==
  ASSUME IInv, NEW f \in Fields, NEW n \in Values, ~Unsaved(n)',
         \A v \in Nat : Unsaved(v)' => Unsaved(v)
  PROVE  \A v \in Nat : Unsaved(v)' => Lacks([store EXCEPT ![f] = n], v)
<1> SUFFICES ASSUME NEW v \in Nat, Unsaved(v)'
    PROVE  Lacks([store EXCEPT ![f] = n], v)
  OBVIOUS
<1>1. n # v /\ Lacks(store, v)
  BY NowTold DEF IInv, NotTold
<1>2. store # None /\ store \in Memo
  BY TypeNow, CacheAssumption DEF IInv
<1> QED
  BY <1>1, <1>2, FieldSet DEF Lacks, LacksIn

(* What a write marks it does not change otherwise.                        *)
LEMMA MarkedKept ==
  ASSUME IInv, NEW f \in Fields, NEW n \in Values, NEW calls, Write(f, n, calls),
         NEW c \in Calls, c \notin DOMAIN calls
  PROVE  Kept(c) /\ call'[c].answer = call[c].answer /\ Quiet(c)' = Quiet(c)
<1>1. PICK late, sound \in BOOLEAN :
        call'[c] = [call[c] EXCEPT !.late = late, !.sound = sound]
  BY WriteMarks DEF IInv
<1>2. call[c] \in CallType
  BY TypeNow DEF IInv
<1>3. /\ call'[c].kind = call[c].kind /\ call'[c].field = call[c].field
      /\ call'[c].value = call[c].value /\ call'[c].before = call[c].before
      /\ call'[c].at = call[c].at /\ call'[c].retried = call[c].retried
      /\ call'[c].answer = call[c].answer
  BY <1>1, <1>2 DEF CallType
<1>4. Quiet(c)' = Quiet(c)
  BY <1>3 DEF Quiet, Done
<1>5. Kept(c)
  BY <1>3 DEF Kept, Done, IInv, Issued
<1> QED
  BY <1>3, <1>4, <1>5

LEMMA OthersKeep ==
  ASSUME IInv, NEW f \in Fields, Others(f)
  PROVE  Rest
<1>0. PICK n : n = changes + 1
  OBVIOUS
<1> DEFINE saved == [store EXCEPT ![f] = n]
<1>1. Write(f, n, <<>>) /\ n \in Values /\ changes' = n /\ UNCHANGED <<data, dead>>
  BY <1>0, TypeNow, NextNumber DEF IInv, Others
<1>2. n \in Nat /\ n > changes /\ changes \in Nat
  BY <1>0, TypeNow DEF IInv, Values
<1>3. \A c \in Calls : Kept(c) /\ call'[c].answer = call[c].answer
  <2>1. \A c \in Calls : c \notin DOMAIN <<>>
    OBVIOUS
  <2> QED BY <1>1, <2>1, MarkedKept
<1>4. \A v \in Nat : Unsaved(v)' => Unsaved(v)
  BY <1>1, <1>2, <1>3, KeptCalls
<1>5. ~Unsaved(n)'
  <2>1. n \notin dead'
    BY <1>1, <1>2 DEF IInv, Issued
  <2>2. ASSUME NEW c \in Calls, Quiet(c)' PROVE call'[c].value # n
    <3>1. Quiet(c) /\ call'[c].value = call[c].value
      BY <1>1, <1>2, <1>3, <2>2, KeptCalls
    <3>2. call[c].value <= changes /\ call[c].value \in Nat
      BY <3>1, TypeNow DEF IInv, Issued, Quiet, CallType, Values
    <3> QED BY <1>2, <3>1, <3>2
  <2>3. ~(n > changes')
    BY <1>1, <1>2
  <2> QED BY <2>1, <2>2, <2>3 DEF Unsaved
<1>6. \A v \in Nat : Unsaved(v)' => Lacks(saved, v)
  BY <1>1, <1>4, <1>5, Written
<1>7. store' = saved /\ \A q \in Queries : fetch'[q].memo = fetch[q].memo
  BY <1>1, WriteTyped DEF IInv, Write
<1> HIDE DEF saved
<1> QED
  BY <1>1, <1>2, <1>3, <1>6, <1>7, NowTold, NowHeld, CarriedWith

LEMMA ExecuteKeep ==
  ASSUME IInv, NEW c \in Calls, Execute(c)
  PROVE  Rest
<1>0. PICK f, n : f = call[c].field /\ n = call[c].value
  OBVIOUS
<1> DEFINE saved == [store EXCEPT ![f] = n]
           k == [call[c] EXCEPT !.at = "stored", !.late = FALSE, !.answer = saved]
<1>1. Write(f, n, [d \in {c} |-> k]) /\ f \in Fields /\ n \in Values /\ call'[c] = k
  BY <1>0, ExecuteLeads DEF IInv
<1>2. /\ call'[c].kind = call[c].kind /\ call'[c].field = call[c].field
      /\ call'[c].value = call[c].value /\ call'[c].before = call[c].before
      /\ call'[c].at = "stored" /\ call'[c].answer = saved
      /\ call[c].kind # None /\ UNCHANGED <<changes, data, dead>>
  <2>1. call[c] \in CallType
    BY TypeNow DEF IInv
  <2>2. call[c].kind # None /\ UNCHANGED <<changes, data, dead>>
    BY DEF Execute, IInv, Issued
  <2> HIDE DEF saved
  <2> QED BY <1>1, <2>1, <2>2 DEF CallType
<1> HIDE DEF k, saved
<1>3. ASSUME NEW d \in Calls, d # c
      PROVE  Kept(d) /\ call'[d].answer = call[d].answer
  <2>1. d \notin DOMAIN [e \in {c} |-> k]
    BY <1>3
  <2> QED BY <1>1, <2>1, MarkedKept
<1>4. Kept(c)
  BY <1>2 DEF Kept, Done
<1>5. changes' \in Nat /\ changes' >= changes
  BY <1>2, TypeNow DEF IInv, Values
<1>6. \A d \in Calls : Kept(d)
  BY <1>3, <1>4
<1>7. \A v \in Nat : Unsaved(v)' => Unsaved(v)
  BY <1>2, <1>5, <1>6, KeptCalls
<1>8. ~Unsaved(n)'
  <2>1. n \notin dead' /\ ~(n > changes')
    BY <1>0, <1>1, <1>2, TypeNow DEF IInv, Issued, Values
  <2>2. ASSUME NEW d \in Calls, Quiet(d)' PROVE call'[d].value # n
    <3>1. Quiet(d) /\ call'[d].value = call[d].value
      BY <1>2, <1>5, <1>6, <2>2, KeptCalls
    <3>2. d # c
      BY <1>2, <2>2 DEF Quiet, Done
    <3> QED BY <1>0, <1>2, <3>1, <3>2 DEF IInv, Issued, Quiet
  <2> QED BY <2>1, <2>2 DEF Unsaved
<1>9. \A v \in Nat : Unsaved(v)' => Lacks(saved, v)
  BY <1>1, <1>7, <1>8, Written DEF saved
<1>10. store' = saved /\ \A q \in Queries : fetch'[q].memo = fetch[q].memo
  BY <1>1, WriteTyped DEF IInv, Write, saved
<1>11. \A d \in Calls : call'[d].answer \in Told \cup {saved}
  BY <1>2, <1>3, NowTold
<1> QED
  BY <1>2, <1>5, <1>6, <1>9, <1>10, <1>11, NowTold, NowHeld, CarriedWith

LEMMA HeldTyped ==
  ASSUME TypeOK
  PROVE  Held \subseteq Memo \cup {None}
BY TypeNow DEF Held, Stores, CallType

(* A change that begins gets a number that no memo has, and goes into the  *)
(* copies only when the code has one to go back to.                        *)
LEMMA Begun ==
  ASSUME IInv, NEW c \in Calls, call[c].kind = None, changes' = changes + 1,
         changes' \in Values, UNCHANGED <<store, dead>>,
         \A d \in Calls \ {c} : call'[d] = call[d],
         call'[c].kind # None, call'[c].field \in Fields, call'[c].value = changes',
         call'[c].at = "sent", call'[c].retried = FALSE, call'[c].answer = None,
         call'[c].before \in Held \cup {None},
         call'[c].before # None => call'[c].kind = "patch",
         \A q \in Queries : fetch'[q].memo \in Told,
         \A q \in Queries : \/ data'[q] \in Held \cup {None}
                            \/ /\ call'[c].before # None
                               /\ \E m \in Held \ {None} :
                                    data'[q] = [m EXCEPT ![call'[c].field] = changes']
  PROVE  Rest
<1>1. PICK f \in Fields, n \in Values, b \in Held \cup {None} :
        f = call'[c].field /\ n = changes' /\ b = call'[c].before
  OBVIOUS
<1>2. changes \in Nat /\ n \in Nat /\ n > changes /\ ~(n > n)
  BY <1>1, TypeNow DEF IInv, Values
<1>3. \A d \in Calls : call[d].value \in Nat
  BY TypeNow DEF IInv, CallType, Values
<1>4. \A d \in Calls \ {c} : Quiet(d)' = Quiet(d)
  BY <1>1 DEF Quiet, Done
<1>5. \A v \in dead : v \in Nat /\ v <= changes
  BY TypeNow DEF IInv, Issued, Values
<1>6. \A d \in Calls : call[d].kind # None => call[d].value <= changes
  BY DEF IInv, Issued
<1>7. \A v \in Nat : v <= changes => v <= n /\ v # n
  BY <1>2
<1>8. \A v \in Nat : Unsaved(v)' => Unsaved(v)
  <2> SUFFICES ASSUME NEW v \in Nat, Unsaved(v)' PROVE Unsaved(v)
    OBVIOUS
  <2>1. v > n => v > changes
    BY <1>2
  <2>2. v = n => v > changes
    BY <1>2
  <2> QED BY <1>1, <1>4, <2>1, <2>2 DEF Unsaved
<1>9. \A v \in Nat : Unshown(v)' => Unshown(v) /\ (v = n => b = None)
  <2> SUFFICES ASSUME NEW v \in Nat, Unshown(v)' PROVE Unshown(v) /\ (v = n => b = None)
    OBVIOUS
  <2>1. v > n => v > changes /\ v # n
    BY <1>2
  <2>2. v = n => v > changes
    BY <1>2
  <2>3. CASE v \in dead'
    BY <1>5, <1>7, <2>3 DEF Unshown
  <2>4. CASE v > changes'
    BY <1>1, <2>1, <2>4 DEF Unshown
  <2>5. ASSUME NEW d \in Calls, Quiet(d)', call'[d].before = None, call'[d].value = v
        PROVE  Unshown(v) /\ (v = n => b = None)
    <3>1. CASE d = c
      BY <1>1, <2>2, <2>5, <3>1 DEF Unshown
    <3>2. CASE d # c
      BY <1>1, <1>3, <1>4, <1>6, <1>7, <2>5, <3>2 DEF Unshown, Quiet
    <3> QED BY <3>1, <3>2
  <2> QED BY <2>3, <2>4, <2>5 DEF Unshown
<1>10. Issued'
  <2>1. \A v \in dead' : v <= changes'
    BY <1>1, <1>5, <1>7
  <2>2. n <= n /\ n \notin dead
    BY <1>2, <1>5, <1>7
  <2>3. ASSUME NEW d \in Calls
        PROVE /\ call'[d].at # "no" => call'[d].kind # None
              /\ call'[d].before # None => call'[d].kind = "patch"
              /\ call'[d].kind # None => call'[d].value <= n /\ call'[d].value \notin dead
              /\ \A e \in Calls : e # d /\ call'[d].kind # None /\ call'[e].kind # None =>
                   call'[d].value # call'[e].value
    BY <1>1, <1>3, <1>6, <1>7, <2>2 DEF IInv, Issued
  <2>4. n = changes' /\ dead = dead'
    BY <1>1
  <2> QED BY <2>1, <2>3, <2>4 DEF Issued
<1>11. NotTold'
  <2>1. \A d \in Calls : call'[d].answer \in Told
    BY <1>1, NowTold
  <2>2. Told' \subseteq Told
    BY <2>1, NowTold DEF Told
  <2> QED BY <1>8, <2>2 DEF IInv, NotTold, Lacks, LacksIn
<1>12. \A m \in Held' : \/ m \in Held \cup {None}
                        \/ b # None /\ \E m0 \in Held \ {None} : m = [m0 EXCEPT ![f] = n]
  <2>1. \A d \in Calls : call'[d].before \in Held \cup {None}
    BY <1>1, NowHeld
  <2> SUFFICES ASSUME NEW m \in Held'
      PROVE  \/ m \in Held \cup {None}
             \/ b # None /\ \E m0 \in Held \ {None} : m = [m0 EXCEPT ![f] = n]
    OBVIOUS
  <2>2. CASE \E d \in Calls : m = call'[d].before
    BY <2>1, <2>2
  <2>3. CASE \E q \in Queries : m = data'[q]
    BY <1>1, <2>3
  <2> QED BY <2>2, <2>3 DEF Held
<1>13. Unshown(n)
  BY <1>2 DEF Unshown
<1>14. ASSUME NEW m \in Held', NEW v \in Nat, v # n \/ b = None,
              NEW fields \in SUBSET Fields, \A m0 \in Held : LacksIn(fields, m0, v)
       PROVE  LacksIn(fields, m, v)
  <2>1. CASE m \in Held \cup {None}
    BY <1>14, <2>1 DEF LacksIn
  <2>2. CASE b # None /\ \E m0 \in Held \ {None} : m = [m0 EXCEPT ![f] = n]
    <3>1. PICK m0 \in Held \ {None} : m = [m0 EXCEPT ![f] = n]
      BY <2>2
    <3>2. m0 \in Memo
      BY HeldTyped DEF IInv
    <3>3. \A g \in Fields : m[g] \in {n, m0[g]}
      BY <3>1, <3>2, FieldSet
    <3> QED BY <1>14, <2>2, <3>3 DEF LacksIn
  <2> QED BY <1>12, <2>1, <2>2
<1>15. NotHeld'
  <2> SUFFICES ASSUME NEW m \in Held', NEW v \in Nat, Unshown(v)' PROVE Lacks(m, v)
    BY DEF NotHeld, Lacks, LacksIn
  <2>1. Unshown(v) /\ (v # n \/ b = None)
    BY <1>9
  <2>2. \A m0 \in Held : LacksIn(Fields, m0, v)
    BY <2>1 DEF IInv, NotHeld, Lacks
  <2> QED BY <1>14, <2>1, <2>2 DEF Lacks
<1>16. OwnField'
  <2> SUFFICES ASSUME NEW d \in Calls, Quiet(d)'
      PROVE  /\ Lacks(call'[d].before, call'[d].value)
             /\ \A m \in Held' : LacksIn(Fields \ {call'[d].field}, m, call'[d].value)
    BY DEF OwnField, Lacks, LacksIn
  <2>1. CASE d # c
    <3>1. Quiet(d) /\ call'[d] = call[d] /\ call[d].value # n /\ call[d].value \in Nat
      BY <1>1, <1>3, <1>4, <1>6, <1>7, <2>1 DEF Quiet
    <3>2. \A m0 \in Held : LacksIn(Fields \ {call[d].field}, m0, call[d].value)
      BY <3>1 DEF IInv, OwnField
    <3>3. \A m \in Held' : LacksIn(Fields \ {call[d].field}, m, call[d].value)
      BY <1>14, <3>1, <3>2
    <3>4. Lacks(call[d].before, call[d].value)
      BY <3>1 DEF IInv, OwnField
    <3> QED BY <3>1, <3>3, <3>4
  <2>2. CASE d = c
    <3>1. call'[d].before = b /\ call'[d].value = n /\ call'[d].field = f
      BY <1>1, <2>2
    <3>2. \A m0 \in Held \cup {None} : LacksIn(Fields, m0, n)
      BY <1>2, <1>13 DEF IInv, NotHeld, Lacks, LacksIn
    <3>3. ASSUME NEW m \in Held' PROVE LacksIn(Fields \ {f}, m, n)
      <4>1. CASE m \in Held \cup {None}
        BY <3>2, <4>1 DEF LacksIn
      <4>2. CASE \E m0 \in Held \ {None} : m = [m0 EXCEPT ![f] = n]
        <5>1. PICK m0 \in Held \ {None} : m = [m0 EXCEPT ![f] = n]
          BY <4>2
        <5>2. m0 \in Memo
          BY HeldTyped DEF IInv
        <5>3. \A g \in Fields \ {f} : m[g] = m0[g]
          BY <5>1, <5>2, FieldSet
        <5> QED BY <3>2, <5>3 DEF LacksIn
      <4> QED BY <1>12, <4>1, <4>2
    <3> QED BY <3>1, <3>2, <3>3 DEF Lacks
  <2> QED BY <2>1, <2>2
<1> QED
  BY <1>10, <1>11, <1>15, <1>16 DEF Rest

LEMMA SendKeep ==
  ASSUME IInv, NEW c \in Calls, NEW f \in Fields, NEW kind \in Kinds, Send(c, kind, f)
  PROVE  Rest
<1>1. /\ changes' = changes + 1 /\ changes' \in Values /\ call[c].kind = None
      /\ UNCHANGED <<store, dead, data, fetch>>
  BY TypeNow, NextNumber DEF IInv, Send, Begin, cache
<1>2. call'[c] = [NoCall EXCEPT !.kind = kind, !.field = f, !.value = changes',
                                !.at = "sent"]
  BY <1>1, TypeNow DEF IInv, Send
<1>3. /\ call'[c].kind = kind /\ call'[c].field = f /\ call'[c].value = changes'
      /\ call'[c].at = "sent" /\ call'[c].retried = FALSE
      /\ call'[c].before = None /\ call'[c].answer = None
  BY <1>2 DEF NoCall
<1>4. kind # None
  BY CacheAssumption
<1>5. \A q \in Queries : fetch'[q].memo \in Told /\ data'[q] \in Held
  BY <1>1, NowTold, NowHeld
<1>6. \A d \in Calls \ {c} : call'[d] = call[d]
  BY TypeNow DEF IInv, Send
<1> QED
  BY <1>1, <1>3, <1>4, <1>5, <1>6, Begun

LEMMA PatchKeep ==
  ASSUME IInv, NEW c \in Calls, NEW f \in Fields, Patch(c, f)
  PROVE  Rest
<1> DEFINE b == data[PatchFrom]
<1>1. /\ changes' = changes + 1 /\ changes' \in Values /\ call[c].kind = None
      /\ "patch" \in Kinds /\ b \in Memo \cup {None} /\ UNCHANGED <<store, dead>>
      /\ fetch' = [q \in Queries |-> NoFetch]
      /\ data' = [q \in Queries |-> IF q = "detail" THEN With(b, f, changes')
                                    ELSE With(data["list"], f, changes')]
  BY PatchLeads DEF IInv
<1>2. PICK s \in BOOLEAN : call' = [call EXCEPT ![c] = [NoCall EXCEPT
        !.kind = "patch", !.field = f, !.value = changes + 1, !.at = "sent",
        !.before = data[PatchFrom], !.sound = s]]
  BY PatchLeads DEF IInv
<1>3. call'[c] = [NoCall EXCEPT !.kind = "patch", !.field = f, !.value = changes',
                                !.at = "sent", !.before = b, !.sound = s]
  BY <1>1, <1>2, TypeNow DEF IInv
<1>4. /\ call'[c].kind = "patch" /\ call'[c].field = f /\ call'[c].value = changes'
      /\ call'[c].at = "sent" /\ call'[c].retried = FALSE
      /\ call'[c].before = b /\ call'[c].answer = None
  <2> HIDE DEF b
  <2> QED BY <1>3 DEF NoCall
<1>5. "patch" # None
  BY <1>1, CacheAssumption
<1>6. b \in Held /\ data["list"] \in Held /\ (b = None => data["list"] = None)
  BY NowHeld DEF PatchFrom, Queries
<1>7. ASSUME NEW q \in Queries
      PROVE  \/ data'[q] \in Held \cup {None}
             \/ b # None /\ \E m \in Held \ {None} : data'[q] = [m EXCEPT ![f] = changes']
  <2> HIDE DEF b
  <2>1. CASE q = "detail"
    BY <1>1, <1>6, <2>1 DEF With
  <2>2. CASE q # "detail"
    BY <1>1, <1>6, <2>2 DEF With
  <2> QED BY <2>1, <2>2
<1>8. \A q \in Queries : fetch'[q].memo \in Told
  BY <1>1, Blanks, NowTold
<1>9. \A d \in Calls \ {c} : call'[d] = call[d]
  BY <1>2
<1> HIDE DEF b
<1>10. \A q \in Queries : \/ data'[q] \in Held \cup {None}
                         \/ /\ call'[c].before # None
                            /\ \E m \in Held \ {None} :
                                 data'[q] = [m EXCEPT ![call'[c].field] = changes']
  BY <1>4, <1>7
<1>11. /\ changes' = changes + 1 /\ changes' \in Values /\ call[c].kind = None
       /\ UNCHANGED <<store, dead>>
       /\ call'[c].kind # None /\ call'[c].field \in Fields
       /\ call'[c].value = changes' /\ call'[c].at = "sent"
       /\ call'[c].retried = FALSE /\ call'[c].answer = None
       /\ call'[c].before \in Held \cup {None}
       /\ call'[c].before # None => call'[c].kind = "patch"
  BY <1>1, <1>4, <1>5, <1>6
<1> QED
  BY <1>8, <1>9, <1>10, <1>11, Begun

(* A call that fails unexecuted takes its value with it: the snapshot that *)
(* comes back does not have it, nor has any other snapshot that could come *)
(* back later.                                                             *)
LEMMA FailKeep ==
  ASSUME IInv, NEW c \in Calls, Fail(c)
  PROVE  Rest
<1>0. PICK f, n, b : f = call[c].field /\ n = call[c].value /\ b = call[c].before
  OBVIOUS
<1>1. /\ UNCHANGED <<store, changes>> /\ call'[c] = NoCall
      /\ call[c].kind # None
      /\ n \in Nat /\ f \in Fields /\ b \in Memo \cup {None} /\ changes \in Nat
  BY <1>0, FailLeads, TypeNow DEF IInv, Fail, CallType, Values
<1>2. ASSUME NEW d \in Calls, d # c
      PROVE  /\ call'[d].kind = call[d].kind /\ call'[d].field = call[d].field
             /\ call'[d].value = call[d].value /\ call'[d].before = call[d].before
             /\ call'[d].at = call[d].at /\ call'[d].answer = call[d].answer
             /\ Quiet(d)' = Quiet(d)
  <2>1. PICK s \in BOOLEAN : call'[d] = [call[d] EXCEPT !.sound = s]
    BY <1>2, FailLeads DEF IInv
  <2>2. call[d] \in CallType
    BY TypeNow DEF IInv
  <2>3. /\ call'[d].kind = call[d].kind /\ call'[d].field = call[d].field
        /\ call'[d].value = call[d].value /\ call'[d].before = call[d].before
        /\ call'[d].at = call[d].at /\ call'[d].answer = call[d].answer
        /\ call'[d].retried = call[d].retried
    BY <2>1, <2>2 DEF CallType
  <2> QED BY <2>3 DEF Quiet, Done
<1>3. ~Quiet(c)'
  BY <1>1, NoneIdle DEF Quiet
<1>4. \/ dead' = dead
      \/ /\ dead' = dead \cup {n} /\ Quiet(c)
         /\ \A d \in Calls \ {c} : call[d].before # None => call[d].before[f] # n
  BY <1>0, <1>1 DEF Fail, Quiet
<1>5. \A v \in Nat : Unsaved(v)' => Unsaved(v)
  BY <1>0, <1>1, <1>2, <1>3, <1>4 DEF Unsaved
<1>6. \A v \in Nat : Unshown(v)' => Unshown(v) \/ (v = n /\ dead' # dead)
  BY <1>0, <1>1, <1>2, <1>3, <1>4 DEF Unshown
<1>7. Issued'
  <2>1. \A v \in dead' : v <= changes'
    BY <1>0, <1>1, <1>4 DEF IInv, Issued
  <2>2. \A d \in Calls : call[d].kind # None /\ d # c => call[d].value \notin dead'
    BY <1>0, <1>1, <1>4 DEF IInv, Issued
  <2>3. ASSUME NEW d \in Calls
        PROVE /\ call'[d].at # "no" => call'[d].kind # None
              /\ call'[d].before # None => call'[d].kind = "patch"
              /\ call'[d].kind # None => call'[d].value <= changes' /\ call'[d].value \notin dead'
              /\ \A e \in Calls : e # d /\ call'[d].kind # None /\ call'[e].kind # None =>
                   call'[d].value # call'[e].value
    BY <1>1, <1>2, <2>2, NoneIdle DEF IInv, Issued
  <2> QED BY <2>1, <2>3 DEF Issued
<1>8. NotTold'
  <2>1. \A d \in Calls : call'[d].answer \in Told
    BY <1>1, <1>2, NoneIdle, NowTold
  <2>2. \A q \in Queries : fetch'[q].memo \in Told
    BY FailLeads, NowTold DEF IInv
  <2>3. Told' \subseteq Told
    BY <1>1, <2>1, <2>2, NowTold DEF Told
  <2> QED BY <1>5, <2>3 DEF IInv, NotTold, Lacks, LacksIn
<1>9. \A q \in Queries : \/ data'[q] \in Held \/ data'[q] = None
  <2>1. ASSUME b \in Memo, data' = Everywhere(b)
        PROVE  \A q \in Queries : data'[q] \in {b, None}
    BY <2>1, EverywhereTyped, TypeNow DEF IInv
  <2> QED BY <1>0, <2>1, FailLeads, NowHeld DEF IInv
<1>10. \A d \in Calls : call'[d].before \in Held \cup {None}
  BY <1>1, <1>2, NoneIdle, NowHeld
<1>11. Held' \subseteq Held \cup {None}
  BY <1>9, <1>10 DEF Held
<1>12. ASSUME dead' # dead, b # None, NEW m \in Held'
       PROVE  Lacks(m, n)
  <2>1. Quiet(c) /\ Lacks(b, n)
    BY <1>0, <1>4, <1>12 DEF IInv, OwnField
  <2>2. CASE \E q \in Queries : m = data'[q]
    <3>1. call[c].kind = "patch"
      BY <1>0, <1>12 DEF IInv, Issued
    <3>2. data' = Everywhere(b) /\ b \in Memo
      BY <1>0, <1>12, <3>1, FailLeads DEF IInv
    <3>3. m \in {b, None}
      BY <2>2, <3>2, EverywhereTyped, TypeNow DEF IInv
    <3> QED BY <2>1, <3>3 DEF Lacks, LacksIn
  <2>3. CASE \E d \in Calls : m = call'[d].before
    <3>1. PICK d \in Calls : m = call'[d].before
      BY <2>3
    <3>2. CASE d = c
      BY <1>1, <3>1, <3>2, NoneIdle DEF Lacks, LacksIn
    <3>3. CASE d # c
      <4>1. m = call[d].before /\ m \in Held
        BY <1>2, <3>1, <3>3, NowHeld
      <4>2. LacksIn(Fields \ {f}, m, n)
        BY <1>0, <2>1, <4>1 DEF IInv, OwnField
      <4>3. m # None => m[f] # n
        BY <1>4, <1>12, <3>3, <4>1
      <4> QED BY <4>2, <4>3 DEF Lacks, LacksIn
    <3> QED BY <3>2, <3>3
  <2> QED BY <2>2, <2>3 DEF Held
<1>13. NotHeld'
  <2> SUFFICES ASSUME NEW m \in Held', NEW v \in Nat, Unshown(v)' PROVE Lacks(m, v)
    BY DEF NotHeld, Lacks, LacksIn
  <2>1. CASE Unshown(v)
    BY <1>11, <2>1 DEF IInv, NotHeld, Lacks, LacksIn
  <2>2. CASE ~Unshown(v)
    <3>1. v = n /\ dead' # dead
      BY <1>6, <2>2
    <3>2. Quiet(c)
      BY <1>4, <3>1
    <3>3. b # None
      BY <1>0, <2>2, <3>1, <3>2 DEF Unshown
    <3> QED BY <1>12, <3>1, <3>3
  <2> QED BY <2>1, <2>2
<1>14. OwnField'
  <2> SUFFICES ASSUME NEW d \in Calls, Quiet(d)'
      PROVE  /\ Lacks(call'[d].before, call'[d].value)
             /\ \A m \in Held' : LacksIn(Fields \ {call'[d].field}, m, call'[d].value)
    BY DEF OwnField, Lacks, LacksIn
  <2>1. d # c
    BY <1>3
  <2>2. Quiet(d)
    BY <1>2, <2>1
  <2> QED
    BY <1>2, <1>11, <2>1, <2>2 DEF IInv, OwnField, Lacks, LacksIn
<1> QED
  BY <1>7, <1>8, <1>13, <1>14 DEF Rest

LEMMA StepKeeps == IInv /\ [Next]_vars => IInv'
<1> SUFFICES ASSUME IInv, [Next]_vars PROVE IInv'
  OBVIOUS
<1>1. TypeOK'
  BY StepTyped DEF IInv
<1>2. Rest
  <2>1. CASE UNCHANGED vars
    <3>1. \A c \in Calls : Kept(c)
      BY <2>1, SameKept DEF vars
    <3> QED BY <2>1, <3>1, NowTold, NowHeld, Carried DEF vars, cache
  <2>2. CASE \E f \in Fields : Others(f)
    BY <2>2, OthersKeep
  <2>3. CASE \E p \in Queries \cup {None} : Visit(p)
    <3>1. "list" \in Queries
      BY DEF Queries
    <3> QED BY <2>3, <3>1, QueriesKeep
  <2>4. CASE \E q \in Queries : Focus(q) \/ Collect(q) \/ Answer(q) \/ Land(q)
    BY <2>4, QueriesKeep
  <2>5. CASE \E c \in Calls, f \in Fields : Patch(c, f)
    BY <2>5, PatchKeep
  <2>6. CASE \E c \in Calls, f \in Fields : Send(c, "edit", f) \/ Send(c, "react", f)
    BY <2>6, SendKeep DEF Kinds
  <2>7. CASE \E c \in Calls : Execute(c)
    BY <2>7, ExecuteKeep
  <2>8. CASE \E c \in Calls : Patched(c) \/ Edited(c) \/ Reacted(c)
    BY <2>8, AnswersKeep
  <2>9. CASE \E c \in Calls : ReadAgain(c) \/ Retry(c)
    BY <2>9, AgainKeep
  <2>10. CASE \E c \in Calls : Fail(c)
    BY <2>10, FailKeep
  <2> QED
    BY <2>1, <2>2, <2>3, <2>4, <2>5, <2>6, <2>7, <2>8, <2>9, <2>10 DEF Next, Step
<1> QED
  BY <1>1, <1>2 DEF IInv, Rest

LEMMA InitKeeps == Init => IInv
<1> SUFFICES ASSUME Init PROVE IInv
  OBVIOUS
<1>1. \A c \in Calls : call[c] = NoCall
  BY DEF Init
<1>2. /\ \A q \in Queries : fetch[q].memo = None /\ data[q] = None
      /\ changes = 0 /\ dead = {} /\ store = [f \in Fields |-> 0]
  BY Blanks DEF Init
<1>3. \A c \in Calls : ~Quiet(c)
  BY <1>1, NoneIdle DEF Quiet
<1>4. Issued
  BY <1>1, <1>2, NoneIdle DEF Issued
<1>5. Told \subseteq {None, store} /\ Held \subseteq {None}
  BY <1>1, <1>2, NoneIdle DEF Told, Held
<1>6. \A v \in Nat : Unsaved(v) => v > 0
  BY <1>2, <1>3 DEF Unsaved
<1>7. \A v \in Nat : v > 0 => Lacks(store, v) /\ Lacks(None, v)
  BY <1>2 DEF Lacks, LacksIn
<1>8. NotTold
  BY <1>5, <1>6, <1>7 DEF NotTold
<1>9. NotHeld /\ OwnField
  BY <1>3, <1>5 DEF NotHeld, OwnField, Lacks, LacksIn
<1> QED
  BY <1>4, <1>8, <1>9, InitTyped DEF IInv

(* A change that failed without having been executed is in no copy, in any *)
(* order of mutations, their failures, edits, reactions and fetches: the   *)
(* copies that onError misses, and those that fetches bring back, do not   *)
(* have it either.                                                         *)
THEOREM FailuresLeaveNoTrace == Spec => []NoTrace
<1>1. IInv => NoTrace
  <2> SUFFICES ASSUME IInv, NEW q \in Queries, NEW f \in Fields, data[q] # None,
                      data[q][f] \in dead
      PROVE  FALSE
    BY DEF NoTrace
  <2>1. data[q][f] \in Nat /\ Unshown(data[q][f])
    BY TypeNow DEF IInv, Values, Unshown
  <2>2. Lacks(data[q], data[q][f])
    BY <2>1, NowHeld DEF IInv, NotHeld
  <2> QED BY <2>2 DEF Lacks, LacksIn
<1> QED
  BY <1>1, InitKeeps, StepKeeps, PTL DEF Spec

-----------------------------------------------------------------------------
(* What a copy that is trusted may still differ from the memo in.          *)

QuietPatch(c) == call[c].kind = "patch" /\ ~Done(c)

Idle ==
  \A c \in Calls : /\ Done(c) \/ call[c].at = "sent" => call[c].kind # None
                   /\ call[c].before # None => call[c].kind = "patch"

(* What nobody wrote after is the memo.                                    *)
Answers ==
  /\ \A q \in Queries :
       fetch[q].at = "answered" /\ ~fetch[q].late => fetch[q].memo = store
  /\ \A c \in Calls :
       call[c].answer # None /\ ~call[c].late => call[c].answer = store

(* A field is as the server has it, or a mutation put its own value there  *)
(* and is not executed yet, or a call was executed whose value is not yet  *)
(* there.                                                                  *)
Explained(m) ==
  \A f \in Fields :
    \/ m[f] = store[f]
    \/ \E d \in Calls : /\ call[d].field = f
                        /\ \/ QuietPatch(d) /\ m[f] = call[d].value
                           \/ Done(d) /\ m[f] # call[d].value

Trusted(q) == data[q] # None /\ ~old[q] /\ ~doubt[q]
Copies == \A q \in Queries : Trusted(q) => Explained(data[q])

(* A snapshot that is sound is the memo, but for other mutations that were *)
(* not executed yet.                                                       *)
Snapshots ==
  \A c \in Calls : QuietPatch(c) /\ call[c].before # None /\ call[c].sound =>
    \A f \in Fields :
      \/ call[c].before[f] = store[f]
      \/ \E d \in Calls \ {c} : /\ QuietPatch(d) /\ call[d].field = f
                                /\ call[c].before[f] = call[d].value

Shown == Idle /\ Answers /\ Copies /\ Snapshots
ShownInv == TypeOK /\ Shown

LEMMA IdleFetch == NoFetch.at = "no" /\ Asked.at = "asked"
BY DEF NoFetch, Asked

(* A step that leaves calls and memo alone.                                *)
LEMMA SameCalls ==
  ASSUME ShownInv, UNCHANGED <<store, call>>
  PROVE  /\ Idle' /\ Snapshots'
         /\ \A c \in Calls :
              call'[c].answer # None /\ ~call'[c].late => call'[c].answer = store'
BY DEF ShownInv, Shown, Idle, Snapshots, Answers, QuietPatch, Done

LEMMA QueriesShow ==
  ASSUME ShownInv, NEW p \in Queries \cup {None}, NEW q \in Queries,
         Visit(p) \/ Focus(q) \/ Collect(q) \/ Answer(q) \/ Land(q)
  PROVE  Shown'
<1> USE DEF ShownInv, Shown
<1>1. UNCHANGED <<store, call>>
  BY DEF Visit, Focus, Collect, Answer, Land
<1>2. ASSUME NEW r \in Queries, fetch'[r].at = "answered", ~fetch'[r].late
      PROVE  fetch'[r].memo = store'
  <2>1. CASE Visit(p)
    BY <1>1, <1>2, <2>1, IdleFetch DEF Visit, Ask, Answers
  <2>2. CASE Focus(q)
    BY <1>1, <1>2, <2>2, IdleFetch, TypeNow DEF Focus, Answers
  <2>3. CASE Collect(q)
    BY <1>1, <1>2, <2>3 DEF Collect, Answers
  <2>4. CASE Answer(q)
    BY <1>1, <1>2, <2>4, TypeNow DEF Answer, Answers
  <2>5. CASE Land(q)
    BY <1>1, <1>2, <2>5, IdleFetch, TypeNow DEF Land, Answers
  <2> QED BY <2>1, <2>2, <2>3, <2>4, <2>5
<1>3. ASSUME NEW r \in Queries, Trusted(r)'
      PROVE  Explained(data[r])'
  <2>1. CASE UNCHANGED <<data, old, doubt>>
    <3>1. Explained(data[r]) /\ data'[r] = data[r]
      BY <1>3, <2>1 DEF Copies, Trusted
    <3> QED BY <1>1, <3>1 DEF Explained, QuietPatch, Done
  <2>2. CASE Collect(q)
    <3>1. r # q
      BY <1>3, <2>2, TypeNow DEF Collect, Trusted, Stores
    <3>2. Trusted(r) /\ data'[r] = data[r]
      BY <1>3, <2>2, <3>1, TypeNow DEF Collect, Trusted, Stores
    <3>3. Explained(data[r])
      BY <3>2 DEF Copies
    <3> QED BY <1>1, <3>2, <3>3 DEF Explained, QuietPatch, Done
  <2>3. CASE Land(q)
    <3>1. CASE r = q
      <4>1. data'[r] = fetch[q].memo /\ fetch[q].at = "answered" /\ ~fetch[q].late
        BY <1>3, <2>3, <3>1, TypeNow DEF Land, Trusted, Stores
      <4>2. data'[r] = store'
        BY <1>1, <4>1 DEF Answers
      <4> QED BY <4>2 DEF Explained
    <3>2. CASE r # q
      <4>1. Trusted(r) /\ data'[r] = data[r]
        BY <1>3, <2>3, <3>2, TypeNow DEF Land, Trusted, Stores
      <4>2. Explained(data[r])
        BY <4>1 DEF Copies
      <4> QED BY <1>1, <4>1, <4>2 DEF Explained, QuietPatch, Done
    <3> QED BY <3>1, <3>2
  <2> QED BY <2>1, <2>2, <2>3 DEF Visit, Focus, Answer
<1>4. Answers'
  BY <1>1, <1>2, SameCalls DEF Answers
<1>5. Copies'
  BY <1>3 DEF Copies
<1> QED
  BY <1>1, <1>4, <1>5, SameCalls

(* A call that was executed ends.                                          *)
LEMMA CallEnds ==
  ASSUME ShownInv, NEW c \in Calls, UNCHANGED store, call' = [call EXCEPT ![c] = NoCall],
         Done(c)
  PROVE  /\ Idle' /\ Snapshots'
         /\ \A d \in Calls :
              call'[d].answer # None /\ ~call'[d].late => call'[d].answer = store'
<1> USE DEF ShownInv, Shown
<1>1. call'[c] = NoCall /\ \A d \in Calls \ {c} : call'[d] = call[d]
  BY TypeNow
<1>2. Idle'
  BY <1>1, NoneIdle DEF Idle, Done
<1>3. \A d \in Calls : call'[d].answer # None /\ ~call'[d].late => call'[d].answer = store'
  BY <1>1, NoneIdle DEF Answers
<1>4. \A d \in Calls : QuietPatch(d)' => d # c
  BY <1>1, NoneIdle, CacheAssumption DEF QuietPatch, Kinds
<1>5. \A d \in Calls : QuietPatch(d) => d # c
  BY DEF QuietPatch
<1>6. \A d \in Calls \ {c} : QuietPatch(d)' = QuietPatch(d)
  BY <1>1 DEF QuietPatch, Done
<1>7. Snapshots'
  <2> SUFFICES ASSUME NEW d \in Calls, QuietPatch(d)', call'[d].before # None, call'[d].sound,
                      NEW f \in Fields
      PROVE  \/ call'[d].before[f] = store'[f]
             \/ \E e \in Calls \ {d} : /\ QuietPatch(e)' /\ call'[e].field = f
                                       /\ call'[d].before[f] = call'[e].value
    BY DEF Snapshots
  <2>1. d # c /\ call'[d] = call[d] /\ QuietPatch(d)
    BY <1>1, <1>4, <1>6
  <2>2. \/ call[d].before[f] = store[f]
        \/ \E e \in Calls \ {d} : /\ QuietPatch(e) /\ call[e].field = f
                                  /\ call[d].before[f] = call[e].value
    BY <2>1 DEF Snapshots
  <2>3. ASSUME NEW e \in Calls \ {d}, QuietPatch(e)
        PROVE  call'[e] = call[e] /\ QuietPatch(e)'
    BY <1>1, <1>5, <1>6, <2>3
  <2> QED BY <2>1, <2>2, <2>3
<1> QED
  BY <1>2, <1>3, <1>7

(* No fetch is further than it was: a fetch that begins again was not      *)
(* answered yet.                                                           *)
LEMMA FetchesShow ==
  ASSUME ShownInv, UNCHANGED store, NEW qs, NEW d, NEW m, Invalidate(qs, d, m)
  PROVE  \A q \in Queries :
           fetch'[q].at = "answered" /\ ~fetch'[q].late => fetch'[q].memo = store'
BY IdleFetch DEF Invalidate, ShownInv, Shown, Answers

LEMMA AnswersShow ==
  ASSUME ShownInv, NEW c \in Calls, Patched(c) \/ Edited(c) \/ Reacted(c)
  PROVE  Shown'
<1> USE DEF ShownInv, Shown
<1>1. UNCHANGED store /\ call' = [call EXCEPT ![c] = NoCall] /\ Done(c)
  BY DEF Patched, Edited, Reacted, End, Done
<1>2. \A q \in Queries :
        fetch'[q].at = "answered" /\ ~fetch'[q].late => fetch'[q].memo = store'
  BY <1>1, FetchesShow DEF Patched, Edited, Reacted
<1>3. call[c].answer \in Memo \cup {None} /\ call[c].late \in BOOLEAN
  BY TypeNow DEF CallType
<1>4. ASSUME NEW q \in Queries, Trusted(q)'
      PROVE  data'[q] = store'
  <2>1. CASE Patched(c)
    <3>1. data'[q] \in {call[c].answer, None} /\ ~call[c].late
      BY <1>3, <1>4, <2>1, EverywhereTyped, TypeNow DEF Patched, Trusted
    <3> QED BY <1>1, <1>4, <3>1 DEF Answers, Trusted
  <2>2. CASE Edited(c)
    BY <1>4, <2>2, TypeNow DEF Edited, Invalidate, EditInvalidates, Trusted, Stores
  <2>3. CASE Reacted(c)
    <3>1. CASE q = "list"
      BY <1>4, <2>3, <3>1, TypeNow DEF Reacted, Invalidate, Trusted, Stores
    <3>2. CASE q = "detail"
      <4>1. data'[q] = call[c].answer /\ ~call[c].late
        BY <1>4, <2>3, <3>2, TypeNow DEF Reacted, Trusted, Stores
      <4> QED BY <1>1, <1>4, <4>1 DEF Answers, Trusted
    <3> QED BY <3>1, <3>2 DEF Queries
  <2> QED BY <2>1, <2>2, <2>3
<1>5. Copies'
  BY <1>4 DEF Copies, Explained
<1>6. Answers'
  BY <1>1, <1>2, CallEnds DEF Answers
<1> QED
  BY <1>1, <1>5, <1>6, CallEnds

(* A call that was executed goes on.                                       *)
LEMMA AgainShow ==
  ASSUME ShownInv, NEW c \in Calls, ReadAgain(c) \/ Retry(c)
  PROVE  Shown'
<1> USE DEF ShownInv, Shown
<1>1. UNCHANGED <<store, data, old, fetch, doubt>> /\ Done(c)
  BY DEF ReadAgain, Retry, cache, Done
<1>2. \A d \in Calls \ {c} : call'[d] = call[d]
  BY TypeNow DEF ReadAgain, Retry
<1>3. /\ call'[c].kind = call[c].kind /\ call'[c].field = call[c].field
      /\ call'[c].value = call[c].value /\ call'[c].before = call[c].before /\ Done(c)'
      /\ call'[c].answer # None => call'[c].answer = store'
  <2>1. call[c] \in CallType
    BY TypeNow
  <2>2. CASE ReadAgain(c)
    <3>1. call'[c] = [call[c] EXCEPT !.at = "read", !.answer = store, !.late = FALSE]
      BY <2>1, <2>2, TypeNow DEF ReadAgain, CallType
    <3> QED BY <1>1, <2>1, <3>1 DEF CallType, Done
  <2>3. CASE Retry(c)
    <3>1. call'[c] = [call[c] EXCEPT !.at = "sent", !.retried = TRUE, !.answer = None,
                                     !.late = FALSE]
      BY <2>1, <2>3, TypeNow DEF Retry, CallType
    <3> QED BY <1>1, <2>1, <3>1 DEF CallType, Done
  <2> QED BY <2>2, <2>3
<1>4. \A d \in Calls : /\ QuietPatch(d)' = QuietPatch(d) /\ Done(d)' = Done(d)
                       /\ call'[d].field = call[d].field /\ call'[d].value = call[d].value
                       /\ call'[d].kind = call[d].kind
  BY <1>1, <1>2, <1>3 DEF QuietPatch, Done
<1>5. Idle'
  BY <1>1, <1>2, <1>3, <1>4 DEF Idle
<1>6. Answers'
  BY <1>1, <1>2, <1>3 DEF Answers
<1>7. Copies'
  <2>1. ASSUME NEW q \in Queries, Trusted(q)' PROVE Explained(data[q])'
    <3>1. Explained(data[q])
      BY <1>1, <2>1 DEF Copies, Trusted
    <3> QED BY <1>1, <1>4, <3>1 DEF Explained
  <2> QED BY <2>1 DEF Copies
<1>8. Snapshots'
  <2> SUFFICES ASSUME NEW d \in Calls, QuietPatch(d)', call'[d].before # None, call'[d].sound,
                      NEW f \in Fields
      PROVE  \/ call'[d].before[f] = store'[f]
             \/ \E e \in Calls \ {d} : /\ QuietPatch(e)' /\ call'[e].field = f
                                       /\ call'[d].before[f] = call'[e].value
    BY DEF Snapshots
  <2>1. d # c /\ call'[d] = call[d] /\ QuietPatch(d)
    BY <1>1, <1>2, <1>4 DEF QuietPatch
  <2>2. \/ call[d].before[f] = store[f]
        \/ \E e \in Calls \ {d} : /\ QuietPatch(e) /\ call[e].field = f
                                  /\ call[d].before[f] = call[e].value
    BY <2>1 DEF Snapshots
  <2> QED BY <1>1, <1>4, <2>1, <2>2
<1> QED
  BY <1>5, <1>6, <1>7, <1>8

(* After a write nothing that was read before counts as the memo, and only *)
(* the snapshots that have the value written are still sound.              *)
LEMMA WriteShows ==
  ASSUME ShownInv, NEW f \in Fields, NEW n \in Values, NEW calls, Write(f, n, calls)
  PROVE  /\ \A q \in Queries : fetch'[q].at = "answered" => fetch'[q].late
         /\ \A c \in Calls : c \notin DOMAIN calls =>
              /\ call'[c].kind = call[c].kind /\ call'[c].field = call[c].field
              /\ call'[c].value = call[c].value /\ call'[c].before = call[c].before
              /\ call'[c].at = call[c].at
              /\ Done(c)' = Done(c) /\ QuietPatch(c)' = QuietPatch(c)
              /\ call'[c].answer # None => call'[c].late
              /\ call'[c].sound => /\ call[c].sound
                                   /\ call[c].before = None \/ call[c].before[f] = n
<1> USE DEF ShownInv
<1>1. ASSUME NEW q \in Queries, fetch'[q].at = "answered" PROVE fetch'[q].late
  <2> DEFINE late == fetch[q].late \/ fetch[q].at = "answered"
  <2>1. fetch[q] \in Fetches
    BY TypeNow
  <2>2. fetch'[q] = [fetch[q] EXCEPT !.late = late]
    BY DEF Write
  <2>3. fetch'[q].late = late /\ fetch[q].at = "answered"
    <3> HIDE DEF late
    <3> QED BY <1>1, <2>1, <2>2 DEF Fetches
  <2> QED BY <2>3
<1>2. ASSUME NEW c \in Calls, c \notin DOMAIN calls
      PROVE  /\ call'[c].kind = call[c].kind /\ call'[c].field = call[c].field
             /\ call'[c].value = call[c].value /\ call'[c].before = call[c].before
             /\ call'[c].at = call[c].at
             /\ Done(c)' = Done(c) /\ QuietPatch(c)' = QuietPatch(c)
             /\ call'[c].answer # None => call'[c].late
             /\ call'[c].sound => /\ call[c].sound
                                  /\ call[c].before = None \/ call[c].before[f] = n
  <2> DEFINE late == call[c].late \/ call[c].answer # None
             sound == call[c].sound /\ (call[c].before = None \/ call[c].before[f] = n)
  <2>1. call[c] \in CallType
    BY TypeNow
  <2>2. call'[c] = [call[c] EXCEPT !.late = late, !.sound = sound]
    BY <1>2 DEF Write
  <2>3. /\ call'[c].kind = call[c].kind /\ call'[c].field = call[c].field
        /\ call'[c].value = call[c].value /\ call'[c].before = call[c].before
        /\ call'[c].at = call[c].at /\ call'[c].retried = call[c].retried
        /\ call'[c].answer = call[c].answer /\ call'[c].late = late
        /\ call'[c].sound = sound
    <3> HIDE DEF late, sound
    <3> QED BY <2>1, <2>2 DEF CallType
  <2>4. Done(c)' = Done(c) /\ QuietPatch(c)' = QuietPatch(c)
    BY <2>3 DEF Done, QuietPatch
  <2>5. call'[c].answer # None => call'[c].late
    BY <2>3
  <2>6. call'[c].sound => call[c].sound /\ (call[c].before = None \/ call[c].before[f] = n)
    BY <2>3
  <2> QED BY <2>3, <2>4, <2>5, <2>6
<1> QED
  BY <1>1, <1>2

(* The snapshots still sound after a write by w, or by nobody here.        *)
LEMMA WriteSnapshots ==
  ASSUME ShownInv, NEW f \in Fields, NEW n \in Values, NEW calls, Write(f, n, calls),
         \A c \in DOMAIN calls : c \in Calls => ~QuietPatch(c)' /\ call[c].field = f
  PROVE  Snapshots'
<1> USE DEF ShownInv, Shown
<1> SUFFICES ASSUME NEW d \in Calls, QuietPatch(d)', call'[d].before # None, call'[d].sound,
                    NEW g \in Fields
    PROVE  \/ call'[d].before[g] = store'[g]
           \/ \E e \in Calls \ {d} : /\ QuietPatch(e)' /\ call'[e].field = g
                                     /\ call'[d].before[g] = call'[e].value
  BY DEF Snapshots
<1>1. d \notin DOMAIN calls
  OBVIOUS
<1>2. /\ QuietPatch(d) /\ call'[d].before = call[d].before /\ call[d].sound
      /\ call[d].before[f] = n
  BY <1>1, WriteShows
<1>3. store'[f] = n /\ (g # f => store'[g] = store[g])
  <2>1. store \in Memo
    BY TypeNow
  <2>2. store' = [store EXCEPT ![f] = n]
    BY DEF Write
  <2> QED BY <2>1, <2>2, FieldSet
<1>4. CASE g = f
  BY <1>2, <1>3, <1>4
<1>5. CASE g # f
  <2>1. CASE call[d].before[g] = store[g]
    BY <1>2, <1>3, <1>5, <2>1
  <2>2. CASE \E e \in Calls \ {d} : /\ QuietPatch(e) /\ call[e].field = g
                                    /\ call[d].before[g] = call[e].value
    <3>1. PICK e \in Calls \ {d} : /\ QuietPatch(e) /\ call[e].field = g
                                   /\ call[d].before[g] = call[e].value
      BY <2>2
    <3>2. e \notin DOMAIN calls
      BY <1>5, <3>1
    <3>3. QuietPatch(e)' /\ call'[e].field = call[e].field /\ call'[e].value = call[e].value
      BY <3>1, <3>2, WriteShows
    <3> QED BY <1>2, <3>1, <3>3
  <2> QED BY <1>2, <2>1, <2>2 DEF Snapshots
<1> QED
  BY <1>4, <1>5

LEMMA OthersShow ==
  ASSUME ShownInv, NEW f \in Fields, Others(f)
  PROVE  Shown'
<1> USE DEF ShownInv, Shown
<1>1. PICK n \in Values : Write(f, n, <<>>)
  BY TypeNow, NextNumber DEF Others
<1>2. \A c \in Calls : c \notin DOMAIN <<>>
  OBVIOUS
<1>3. Idle'
  BY <1>1, <1>2, WriteShows DEF Idle
<1>4. Answers'
  BY <1>1, <1>2, WriteShows DEF Answers
<1>5. Snapshots'
  BY <1>1, <1>2, WriteSnapshots
<1>6. Copies'
  BY TypeNow DEF Others, Copies, Trusted
<1> QED
  BY <1>3, <1>4, <1>5, <1>6

LEMMA ExecuteShow ==
  ASSUME ShownInv, NEW c \in Calls, Execute(c)
  PROVE  Shown'
<1> USE DEF ShownInv, Shown
<1>0. PICK f, n : f = call[c].field /\ n = call[c].value
  OBVIOUS
<1> DEFINE saved == [store EXCEPT ![f] = n]
           k == [call[c] EXCEPT !.at = "stored", !.late = FALSE, !.answer = saved]
<1>1. Write(f, n, [d \in {c} |-> k]) /\ f \in Fields /\ n \in Values /\ call'[c] = k
  BY <1>0, ExecuteLeads
<1>2. /\ call'[c].kind = call[c].kind /\ call'[c].field = f
      /\ call'[c].value = n /\ call'[c].at = "stored" /\ call'[c].answer = saved
      /\ call'[c].before = call[c].before
  <2>1. call[c] \in CallType
    BY TypeNow
  <2> HIDE DEF saved
  <2> QED BY <1>0, <1>1, <2>1 DEF CallType
<1>3. store' = saved
  BY <1>1 DEF Write
<1> HIDE DEF k, saved
<1>4. \A d \in Calls \ {c} : d \notin DOMAIN [e \in {c} |-> k]
  OBVIOUS
<1>5. Done(c)' /\ ~QuietPatch(c)'
  BY <1>2 DEF Done, QuietPatch
<1>6. \A d \in Calls \ {c} :
        /\ call'[d].kind = call[d].kind /\ call'[d].field = call[d].field
        /\ call'[d].value = call[d].value /\ call'[d].at = call[d].at
        /\ call'[d].before = call[d].before
        /\ Done(d)' = Done(d) /\ QuietPatch(d)' = QuietPatch(d)
        /\ call'[d].answer # None => call'[d].late
  BY <1>1, <1>4, WriteShows
<1>7. Idle'
  <2>1. call[c].kind # None
    BY DEF Execute, Idle
  <2> QED BY <1>2, <1>6, <2>1 DEF Idle
<1>8. Answers'
  <2>1. \A q \in Queries : fetch'[q].at = "answered" => fetch'[q].late
    BY <1>1, WriteShows
  <2> QED BY <1>2, <1>3, <1>6, <2>1 DEF Answers
<1>9. Snapshots'
  BY <1>0, <1>1, <1>5, WriteSnapshots
<1>10. Copies'
  <2> SUFFICES ASSUME NEW q \in Queries, Trusted(q)', NEW g \in Fields
      PROVE  \/ data'[q][g] = store'[g]
             \/ \E d \in Calls : /\ call'[d].field = g
                                 /\ \/ QuietPatch(d)' /\ data'[q][g] = call'[d].value
                                    \/ Done(d)' /\ data'[q][g] # call'[d].value
    BY DEF Copies, Explained
  <2>1. data'[q] = data[q] /\ Trusted(q)
    BY DEF Execute, Trusted
  <2>2. CASE g = f
    <3>1. store'[g] = n
      BY <1>1, <1>3, <2>2, FieldSet, TypeNow DEF saved
    <3> QED BY <1>2, <1>5, <2>2, <3>1
  <2>3. CASE g # f
    <3>1. store'[g] = store[g]
      BY <1>1, <1>3, <2>3, FieldSet, TypeNow DEF saved
    <3>2. \/ data[q][g] = store[g]
          \/ \E d \in Calls : /\ call[d].field = g
                              /\ \/ QuietPatch(d) /\ data[q][g] = call[d].value
                                 \/ Done(d) /\ data[q][g] # call[d].value
      BY <2>1 DEF Copies, Explained
    <3> QED BY <1>0, <1>6, <2>1, <2>3, <3>1, <3>2
  <2> QED BY <2>2, <2>3
<1> QED
  BY <1>7, <1>8, <1>9, <1>10

(* A call that begins explains nothing that there was, and needs nothing   *)
(* explained but its own snapshot.                                         *)
LEMMA BeginShows ==
  ASSUME ShownInv, NEW c \in Calls, call[c].kind = None, UNCHANGED store,
         \A d \in Calls \ {c} : call'[d] = call[d],
         call'[c].kind # None, call'[c].at = "sent", call'[c].retried = FALSE,
         call'[c].answer = None, call'[c].before # None => call'[c].kind = "patch"
  PROVE  /\ Idle'
         /\ \A d \in Calls :
              call'[d].answer # None /\ ~call'[d].late => call'[d].answer = store'
         /\ \A d \in Calls \ {c} : QuietPatch(d)' = QuietPatch(d) /\ Done(d)' = Done(d)
         /\ ~QuietPatch(c) /\ ~Done(c) /\ ~Done(c)'
         /\ \A d \in Calls \ {c} : QuietPatch(d)' /\ call'[d].before # None /\ call'[d].sound =>
              \A f \in Fields :
                \/ call'[d].before[f] = store'[f]
                \/ \E e \in Calls \ {d} : /\ QuietPatch(e)' /\ call'[e].field = f
                                          /\ call'[d].before[f] = call'[e].value
<1> USE DEF ShownInv, Shown
<1>1. \A d \in Calls \ {c} : QuietPatch(d)' = QuietPatch(d) /\ Done(d)' = Done(d)
  BY DEF QuietPatch, Done
<1>2. ~QuietPatch(c) /\ ~Done(c) /\ ~Done(c)'
  BY CacheAssumption DEF QuietPatch, Done, Idle, Kinds
<1>3. Idle'
  BY <1>1 DEF Idle
<1>4. \A d \in Calls :
        call'[d].answer # None /\ ~call'[d].late => call'[d].answer = store'
  BY DEF Answers
<1>5. ASSUME NEW d \in Calls \ {c}, QuietPatch(d)', call'[d].before # None, call'[d].sound,
             NEW f \in Fields
      PROVE  \/ call'[d].before[f] = store'[f]
             \/ \E e \in Calls \ {d} : /\ QuietPatch(e)' /\ call'[e].field = f
                                       /\ call'[d].before[f] = call'[e].value
  <2>1. \/ call[d].before[f] = store[f]
        \/ \E e \in Calls \ {d} : /\ QuietPatch(e) /\ call[e].field = f
                                  /\ call[d].before[f] = call[e].value
    BY <1>1, <1>5 DEF Snapshots
  <2> QED BY <1>1, <1>2, <2>1
<1> QED
  BY <1>1, <1>2, <1>3, <1>4, <1>5

(* What was explained before a call began still is.                        *)
LEMMA BeginExplains ==
  ASSUME ShownInv, NEW c \in Calls, call[c].kind = None, UNCHANGED store,
         \A d \in Calls \ {c} : call'[d] = call[d],
         call'[c].kind # None, call'[c].at = "sent", call'[c].retried = FALSE,
         call'[c].answer = None, call'[c].before # None => call'[c].kind = "patch",
         NEW m, Explained(m)
  PROVE  Explained(m)'
<1> SUFFICES ASSUME NEW f \in Fields
    PROVE  \/ m[f] = store'[f]
           \/ \E d \in Calls : /\ call'[d].field = f
                               /\ \/ QuietPatch(d)' /\ m[f] = call'[d].value
                                  \/ Done(d)' /\ m[f] # call'[d].value
  BY DEF Explained
<1>1. \/ m[f] = store[f]
      \/ \E d \in Calls : /\ call[d].field = f
                          /\ \/ QuietPatch(d) /\ m[f] = call[d].value
                             \/ Done(d) /\ m[f] # call[d].value
  BY DEF Explained
<1>2. /\ \A d \in Calls \ {c} : QuietPatch(d)' = QuietPatch(d) /\ Done(d)' = Done(d)
      /\ ~QuietPatch(c) /\ ~Done(c)
  BY BeginShows
<1> QED
  BY <1>1, <1>2

LEMMA SendShows ==
  ASSUME ShownInv, NEW c \in Calls, NEW f \in Fields, NEW kind \in Kinds \ {"patch"},
         Send(c, kind, f)
  PROVE  Shown'
<1> USE DEF ShownInv, Shown
<1>1. call'[c] = [NoCall EXCEPT !.kind = kind, !.field = f, !.value = changes + 1,
                                !.at = "sent"]
  BY TypeNow DEF Send
<1>2. /\ call'[c].kind = kind /\ call'[c].at = "sent" /\ call'[c].retried = FALSE
      /\ call'[c].answer = None /\ call'[c].before = None /\ kind # None
  BY <1>1, CacheAssumption DEF NoCall
<1>3. /\ call[c].kind = None /\ UNCHANGED <<store, data, old, fetch, doubt>>
      /\ \A d \in Calls \ {c} : call'[d] = call[d]
  BY TypeNow DEF Send, Begin, cache
<1>4. Answers'
  <2>1. \A d \in Calls :
          call'[d].answer # None /\ ~call'[d].late => call'[d].answer = store'
    BY <1>2, <1>3, BeginShows
  <2> QED BY <1>3, <2>1 DEF Answers
<1>5. Snapshots'
  <2>1. ~QuietPatch(c)'
    BY <1>2 DEF QuietPatch
  <2>2. \A d \in Calls \ {c} : QuietPatch(d)' /\ call'[d].before # None /\ call'[d].sound =>
          \A g \in Fields :
            \/ call'[d].before[g] = store'[g]
            \/ \E e \in Calls \ {d} : /\ QuietPatch(e)' /\ call'[e].field = g
                                      /\ call'[d].before[g] = call'[e].value
    BY <1>2, <1>3, BeginShows
  <2> QED BY <2>1, <2>2 DEF Snapshots
<1>6. Copies'
  <2> SUFFICES ASSUME NEW q \in Queries, Trusted(q)' PROVE Explained(data[q])'
    BY DEF Copies
  <2>1. PICK m : m = data[q]
    OBVIOUS
  <2>2. Explained(m)
    BY <1>3, <2>1 DEF Copies, Trusted
  <2>3. Explained(m)'
    BY <1>2, <1>3, <2>2, BeginExplains
  <2>4. m = data'[q]
    BY <1>3, <2>1
  <2> QED BY <2>3, <2>4 DEF Explained
<1>7. Idle'
  BY <1>2, <1>3, BeginShows
<1> QED
  BY <1>4, <1>5, <1>6, <1>7

LEMMA PatchShows ==
  ASSUME ShownInv, NEW c \in Calls, NEW f \in Fields, Patch(c, f)
  PROVE  Shown'
<1> USE DEF ShownInv, Shown
<1> DEFINE s == data[PatchFrom] = None
                  \/ ~(old[PatchFrom] \/ doubt[PatchFrom] \/ Unseen(data[PatchFrom]))
<1>0. PICK b, n : b = data[PatchFrom] /\ n = changes + 1
  OBVIOUS
<1>1. /\ call[c].kind = None /\ UNCHANGED store /\ b \in Memo \cup {None} /\ n \in Values
      /\ fetch' = [q \in Queries |-> NoFetch]
      /\ data' = [q \in Queries |-> IF q = "detail" THEN With(data[PatchFrom], f, changes + 1)
                                    ELSE With(data["list"], f, changes + 1)]
  BY <1>0, PatchLeads
<1>2. call'[c] = [NoCall EXCEPT !.kind = "patch", !.field = f, !.value = changes + 1,
                    !.at = "sent", !.before = data[PatchFrom], !.sound = s]
  BY TypeNow DEF Patch, PatchFrom
<1>3. /\ call'[c].kind = "patch" /\ call'[c].field = f /\ call'[c].value = n
      /\ call'[c].at = "sent" /\ call'[c].retried = FALSE /\ call'[c].answer = None
      /\ call'[c].before = b /\ call'[c].sound = s
  <2> HIDE DEF s
  <2> QED BY <1>0, <1>2 DEF NoCall
<1>4. \A d \in Calls \ {c} : call'[d] = call[d]
  BY TypeNow DEF Patch
<1>5. "patch" # None
  BY CacheAssumption DEF Kinds
<1>6. QuietPatch(c)' /\ PatchFrom \in Queries
  BY <1>3 DEF QuietPatch, Done, PatchFrom, Queries
<1>7. Answers'
  <2>1. \A d \in Calls :
          call'[d].answer # None /\ ~call'[d].late => call'[d].answer = store'
    BY <1>1, <1>3, <1>4, <1>5, BeginShows
  <2> QED BY <1>1, <2>1, IdleFetch DEF Answers
<1>8. Snapshots'
  <2>1. \A d \in Calls \ {c} : QuietPatch(d)' /\ call'[d].before # None /\ call'[d].sound =>
          \A g \in Fields :
            \/ call'[d].before[g] = store'[g]
            \/ \E e \in Calls \ {d} : /\ QuietPatch(e)' /\ call'[e].field = g
                                      /\ call'[d].before[g] = call'[e].value
    BY <1>1, <1>3, <1>4, <1>5, BeginShows
  <2>2. ASSUME b # None, s, NEW g \in Fields
        PROVE  \/ b[g] = store'[g]
               \/ \E e \in Calls \ {c} : /\ QuietPatch(e)' /\ call'[e].field = g
                                         /\ b[g] = call'[e].value
    <3>1. Trusted(PatchFrom) /\ ~Unseen(b)
      BY <1>0, <2>2 DEF Trusted
    <3>2. Explained(b)
      BY <1>0, <1>6, <3>1 DEF Copies
    <3>3. \/ b[g] = store[g]
          \/ \E e \in Calls : QuietPatch(e) /\ call[e].field = g /\ b[g] = call[e].value
      BY <3>1, <3>2 DEF Explained, Unseen
    <3>4. ~QuietPatch(c) /\ \A e \in Calls \ {c} : QuietPatch(e)' = QuietPatch(e)
      BY <1>1, <1>3, <1>4, <1>5, BeginShows
    <3> QED BY <1>1, <1>4, <3>3, <3>4
  <2> HIDE DEF s
  <2> QED BY <1>3, <2>1, <2>2 DEF Snapshots
<1>9. Copies'
  <2> SUFFICES ASSUME NEW q \in Queries, Trusted(q)' PROVE Explained(data[q])'
    BY DEF Copies
  <2>1. PICK r \in Queries : Trusted(r) /\ data'[q] = [data[r] EXCEPT ![f] = n]
    <3>1. CASE q = "detail"
      <4>1. b # None /\ data'[q] = [b EXCEPT ![f] = n]
        BY <1>0, <1>1, <3>1 DEF With, Trusted
      <4>2. ~doubt[PatchFrom] /\ ~old[PatchFrom]
        BY <3>1, TypeNow DEF Patch, PatchFrom, Trusted, Queries
      <4> QED BY <1>0, <1>6, <4>1, <4>2 DEF Trusted
    <3>2. CASE q = "list"
      <4>1. data[q] # None /\ data'[q] = [data[q] EXCEPT ![f] = n]
        BY <1>0, <1>1, <3>2 DEF With, Trusted
      <4>2. ~doubt[q] /\ ~old[q]
        BY <4>1, TypeNow DEF Patch, Trusted, Queries
      <4> QED BY <4>1, <4>2 DEF Trusted
    <3> QED BY <3>1, <3>2 DEF Queries
  <2>2. PICK m : m = data[r]
    OBVIOUS
  <2>3. m \in Memo /\ Explained(m)
    BY <2>1, <2>2, TypeNow DEF Copies, Trusted, Stores
  <2>4. Explained(m)'
    BY <1>1, <1>3, <1>4, <1>5, <2>3, BeginExplains
  <2> SUFFICES ASSUME NEW g \in Fields
      PROVE  \/ data'[q][g] = store'[g]
             \/ \E d \in Calls : /\ call'[d].field = g
                                 /\ \/ QuietPatch(d)' /\ data'[q][g] = call'[d].value
                                    \/ Done(d)' /\ data'[q][g] # call'[d].value
    BY DEF Explained
  <2>5. data'[q][f] = n /\ (g # f => data'[q][g] = m[g])
    <3>1. data'[q] = [m EXCEPT ![f] = n] /\ m \in Memo /\ n \in Values
      BY <1>1, <2>1, <2>2, <2>3
    <3> QED BY <3>1, FieldSet
  <2>6. CASE g = f
    BY <1>3, <1>6, <2>5, <2>6
  <2>7. CASE g # f
    BY <2>4, <2>5, <2>7 DEF Explained
  <2> QED BY <2>6, <2>7
<1>10. Idle'
  BY <1>1, <1>3, <1>4, <1>5, BeginShows
<1> QED
  BY <1>7, <1>8, <1>9, <1>10

(* onError gives the copies back what they showed before, or leaves them   *)
(* in doubt; it takes the snapshots that have the change out of trust.     *)
LEMMA FailShows ==
  ASSUME ShownInv, NEW c \in Calls, Fail(c)
  PROVE  Shown'
<1> USE DEF ShownInv, Shown
<1>0. PICK f, n, b : f = call[c].field /\ n = call[c].value /\ b = call[c].before
  OBVIOUS
<1>1. /\ UNCHANGED store /\ call'[c] = NoCall /\ call[c].kind # None
      /\ b \in Memo \cup {None} /\ call[c].sound \in BOOLEAN
  BY <1>0, FailLeads, TypeNow DEF Fail, CallType
<1>2. ASSUME NEW d \in Calls, d # c
      PROVE  /\ call'[d].kind = call[d].kind /\ call'[d].field = call[d].field
             /\ call'[d].value = call[d].value /\ call'[d].before = call[d].before
             /\ call'[d].at = call[d].at /\ call'[d].answer = call[d].answer
             /\ call'[d].late = call[d].late
             /\ QuietPatch(d)' = QuietPatch(d) /\ Done(d)' = Done(d)
             /\ call'[d].sound => /\ call[d].sound
                                  /\ call[d].before = None \/ call[d].before[f] # n
  <2> DEFINE s == call[d].sound /\ (call[d].before = None \/ call[d].before[f] # n)
  <2>1. call'[d] = [call[d] EXCEPT !.sound = s]
    BY <1>0, <1>2 DEF Fail
  <2>2. call[d] \in CallType
    BY TypeNow
  <2>3. /\ call'[d].kind = call[d].kind /\ call'[d].field = call[d].field
        /\ call'[d].value = call[d].value /\ call'[d].before = call[d].before
        /\ call'[d].at = call[d].at /\ call'[d].answer = call[d].answer
        /\ call'[d].late = call[d].late /\ call'[d].retried = call[d].retried
        /\ call'[d].sound = s
    <3> HIDE DEF s
    <3> QED BY <2>1, <2>2 DEF CallType
  <2>4. QuietPatch(d)' = QuietPatch(d) /\ Done(d)' = Done(d)
    BY <2>3 DEF QuietPatch, Done
  <2> QED BY <2>3, <2>4
<1>3. ~QuietPatch(c)' /\ ~Done(c)'
  BY <1>1, NoneIdle, CacheAssumption DEF QuietPatch, Done, Kinds
<1>4. Idle'
  BY <1>1, <1>2, <1>3, NoneIdle DEF Idle
<1>5. Answers'
  <2>1. \A q \in Queries :
          fetch'[q].at = "answered" /\ ~fetch'[q].late => fetch'[q].memo = store'
    <3>1. CASE UNCHANGED fetch
      BY <1>1, <3>1 DEF Answers
    <3>2. CASE Invalidate(Queries, data, old)
      BY <1>1, <3>2, FetchesShow
    <3> QED BY <3>1, <3>2 DEF Fail
  <2>2. \A d \in Calls :
          call'[d].answer # None /\ ~call'[d].late => call'[d].answer = store'
    BY <1>1, <1>2, NoneIdle DEF Answers
  <2> QED BY <2>1, <2>2 DEF Answers
<1>6. Snapshots'
  <2> SUFFICES ASSUME NEW d \in Calls, QuietPatch(d)', call'[d].before # None, call'[d].sound,
                      NEW g \in Fields
      PROVE  \/ call'[d].before[g] = store'[g]
             \/ \E e \in Calls \ {d} : /\ QuietPatch(e)' /\ call'[e].field = g
                                       /\ call'[d].before[g] = call'[e].value
    BY DEF Snapshots
  <2>1. /\ d # c /\ QuietPatch(d) /\ call'[d].before = call[d].before /\ call[d].sound
        /\ call[d].before[f] # n
    BY <1>2, <1>3
  <2>2. \/ call[d].before[g] = store[g]
        \/ \E e \in Calls \ {d} : /\ QuietPatch(e) /\ call[e].field = g
                                  /\ call[d].before[g] = call[e].value
    BY <2>1 DEF Snapshots
  <2>3. ASSUME NEW e \in Calls \ {d}, QuietPatch(e), call[e].field = g,
               call[d].before[g] = call[e].value
        PROVE  e # c
    BY <1>0, <2>1, <2>3
  <2> QED BY <1>1, <1>2, <2>1, <2>2, <2>3
<1>7. Copies'
  <2> SUFFICES ASSUME NEW q \in Queries, Trusted(q)', NEW g \in Fields
      PROVE  \/ data'[q][g] = store'[g]
             \/ \E d \in Calls : /\ call'[d].field = g
                                 /\ \/ QuietPatch(d)' /\ data'[q][g] = call'[d].value
                                    \/ Done(d)' /\ data'[q][g] # call'[d].value
    BY DEF Copies, Explained
  <2>1. ~Done(c)
    BY TypeNow DEF Fail, Trusted
  <2>2. CASE b # None
    <3>1. call[c].sound
      BY <1>0, <1>1, <2>2, TypeNow DEF Fail, Trusted
    <3>2. CASE call[c].kind = "patch"
      <4>1. data' = Everywhere(b)
        BY <1>0, <2>2, <3>2 DEF Fail, Rollback
      <4>2. data'[q] = b
        BY <1>1, <4>1, EverywhereTyped, TypeNow DEF Trusted
      <4>3. QuietPatch(c)
        BY <2>1, <3>2 DEF QuietPatch
      <4>4. \/ b[g] = store[g]
            \/ \E e \in Calls \ {c} : /\ QuietPatch(e) /\ call[e].field = g
                                      /\ b[g] = call[e].value
        BY <1>0, <2>2, <3>1, <4>3 DEF Snapshots
      <4> QED BY <1>1, <1>2, <4>2, <4>4
    <3>3. CASE call[c].kind # "patch"
      BY <1>0, <2>2, <3>3 DEF Idle
    <3> QED BY <3>2, <3>3
  <2>3. CASE b = None
    <3>1. CASE call[c].kind = "patch"
      BY <1>0, <2>3, <3>1, TypeNow DEF Fail, Invalidate, Trusted, Stores
    <3>2. CASE call[c].kind # "patch"
      <4>1. Trusted(q) /\ data'[q] = data[q]
        BY <1>0, <2>1, <2>3, <3>2, TypeNow DEF Fail, Trusted
      <4>2. \/ data[q][g] = store[g]
            \/ \E d \in Calls : /\ call[d].field = g
                                /\ \/ QuietPatch(d) /\ data[q][g] = call[d].value
                                   \/ Done(d) /\ data[q][g] # call[d].value
        BY <4>1 DEF Copies, Explained
      <4>3. ~QuietPatch(c)
        BY <3>2 DEF QuietPatch
      <4> QED BY <1>1, <1>2, <2>1, <4>1, <4>2, <4>3
    <3> QED BY <3>1, <3>2
  <2> QED BY <2>2, <2>3
<1> QED
  BY <1>4, <1>5, <1>6, <1>7

LEMMA StepShows == ShownInv /\ [Next]_vars => ShownInv'
<1> SUFFICES ASSUME ShownInv, [Next]_vars PROVE ShownInv'
  OBVIOUS
<1>1. TypeOK'
  BY StepTyped DEF ShownInv
<1>2. Shown'
  <2>1. CASE UNCHANGED vars
    BY <2>1 DEF vars, cache, ShownInv, Shown, Idle, Answers, Copies, Snapshots, Explained,
                Trusted, QuietPatch, Done
  <2>2. CASE \E f \in Fields : Others(f)
    BY <2>2, OthersShow
  <2>3. CASE \E p \in Queries \cup {None} : Visit(p)
    <3>1. "list" \in Queries
      BY DEF Queries
    <3> QED BY <2>3, <3>1, QueriesShow
  <2>4. CASE \E q \in Queries : Focus(q) \/ Collect(q) \/ Answer(q) \/ Land(q)
    BY <2>4, QueriesShow
  <2>5. CASE \E c \in Calls, f \in Fields : Patch(c, f)
    BY <2>5, PatchShows
  <2>6. CASE \E c \in Calls, f \in Fields : Send(c, "edit", f) \/ Send(c, "react", f)
    BY <2>6, SendShows DEF Kinds
  <2>7. CASE \E c \in Calls : Execute(c)
    BY <2>7, ExecuteShow
  <2>8. CASE \E c \in Calls : Patched(c) \/ Edited(c) \/ Reacted(c)
    BY <2>8, AnswersShow
  <2>9. CASE \E c \in Calls : ReadAgain(c) \/ Retry(c)
    BY <2>9, AgainShow
  <2>10. CASE \E c \in Calls : Fail(c)
    BY <2>10, FailShows
  <2> QED
    BY <2>1, <2>2, <2>3, <2>4, <2>5, <2>6, <2>7, <2>8, <2>9, <2>10 DEF Next, Step
<1> QED
  BY <1>1, <1>2 DEF ShownInv

LEMMA InitShows == Init => ShownInv
<1> SUFFICES ASSUME Init PROVE ShownInv
  OBVIOUS
<1>1. \A c \in Calls : call[c] = NoCall
  BY DEF Init
<1>2. \A c \in Calls : ~QuietPatch(c) /\ ~Done(c)
  BY <1>1, NoneIdle, CacheAssumption DEF QuietPatch, Done, Kinds
<1>3. Idle
  BY <1>1, <1>2, NoneIdle DEF Idle
<1>4. Answers
  BY <1>1, NoneIdle, IdleFetch DEF Init, Answers
<1>5. Copies /\ Snapshots
  BY <1>2 DEF Init, Copies, Snapshots, Trusted
<1> QED
  BY <1>3, <1>4, <1>5, InitTyped DEF ShownInv, Shown

(* Whatever mutations, edits and reactions of the page met, in whichever   *)
(* order they were executed, answered and failed: when all are over, every *)
(* copy that counts as fresh and is not in doubt is the memo.              *)
THEOREM FreshIsTrue == Spec => []ShownTrue
<1>1. ShownInv => ShownTrue
  <2> SUFFICES ASSUME ShownInv, \A c \in Calls : call[c].kind = None,
                      NEW q \in Queries, Trusted(q)
      PROVE  data[q] = store
    BY DEF ShownTrue, Trusted
  <2>1. \A c \in Calls : ~QuietPatch(c) /\ ~Done(c)
    BY CacheAssumption DEF ShownInv, Shown, Idle, QuietPatch, Kinds
  <2>2. \A f \in Fields : data[q][f] = store[f]
    BY <2>1 DEF ShownInv, Shown, Copies, Explained
  <2>3. data[q] \in Memo /\ store \in Memo
    BY TypeNow DEF ShownInv, Trusted, Stores
  <2> QED BY <2>2, <2>3 DEF Memo
<1> QED
  BY <1>1, InitShows, StepShows, PTL DEF Spec

-----------------------------------------------------------------------------
(* The pages of a list.                                                    *)

Tables == [Memos -> Row]

-----------------------------------------------------------------------------
(* The order of a list.                                                    *)

LEMMA ListConstants ==
  /\ N \in Nat /\ MaxScan \in Nat /\ MaxEdits \in Nat
  /\ PageSize \in Nat /\ PageSize > 0
  /\ Memos \subseteq Nat
BY PagesAssumption DEF Memos

(* Sets of memos are finite, and a subset that leaves one out is smaller.  *)
LEMMA FiniteMemos ==
  ASSUME NEW S \in SUBSET Memos
  PROVE  IsFiniteSet(S) /\ Cardinality(S) \in Nat
<1>1. IsFiniteSet(Memos)
  BY ListConstants, FS_Interval DEF Memos
<1> QED
  BY <1>1, FS_Subset, FS_CardinalityType

LEMMA FewerMemos ==
  ASSUME NEW S \in SUBSET Memos, NEW T \in SUBSET S
  PROVE  /\ Cardinality(T) <= Cardinality(S)
         /\ T # S => Cardinality(T) < Cardinality(S)
<1>1. IsFiniteSet(S) /\ Cardinality(S) \in Nat /\ Cardinality(T) \in Nat
  BY FiniteMemos
<1>2. Cardinality(T) <= Cardinality(S) /\ (Cardinality(S) = Cardinality(T) => S = T)
  BY <1>1, FS_Subset
<1> QED
  BY <1>1, <1>2

(* ORDER BY is strict and total: ids break every tie.                      *)
LEMMA BeforeOrders ==
  ASSUME NEW db \in Tables, NEW l \in Memos, NEW m \in Memos, NEW n \in Memos
  PROVE  /\ ~Before(db, m, m)
         /\ m # n => Before(db, m, n) \/ Before(db, n, m)
         /\ Before(db, l, m) /\ Before(db, m, n) => Before(db, l, n)
<1>1. /\ \A x \in {l, m, n} : db[x].pinned \in {"yes", "no"} /\ db[x].stamp \in Int
      /\ l \in Int /\ m \in Int /\ n \in Int
  BY ListConstants DEF Tables, Row, Times
<1> QED
  BY <1>1 DEF Before

(* Before on the changed table is as it was between other memos.           *)
LEMMA BeforeElsewhere ==
  ASSUME NEW db, NEW now, NEW m, NEW n, now[m] = db[m], now[n] = db[n]
  PROVE  Before(now, m, n) = Before(db, m, n)
BY DEF Before

-----------------------------------------------------------------------------
(* The place of a memo in a set.                                           *)

LEMMA RankBounds ==
  ASSUME NEW db \in Tables, NEW S \in SUBSET Memos, NEW m \in Memos
  PROVE  /\ Rank(db, S, m) \in Nat
         /\ Rank(db, S, m) <= Cardinality(S)
         /\ m \in S => Rank(db, S, m) < Cardinality(S)
<1> DEFINE front == {n \in S : Before(db, n, m)}
<1>1. front \in SUBSET S /\ front \in SUBSET Memos
  OBVIOUS
<1>2. m \in S => front # S
  BY BeforeOrders
<1>3. Rank(db, S, m) = Cardinality(front)
  BY DEF Rank
<1> HIDE DEF front
<1> QED
  BY <1>1, <1>2, <1>3, FewerMemos, FiniteMemos

LEMMA RankOrders ==
  ASSUME NEW db \in Tables, NEW S \in SUBSET Memos, NEW m \in S, NEW n \in Memos,
         Before(db, m, n)
  PROVE  Rank(db, S, m) < Rank(db, S, n)
<1> DEFINE low == {x \in S : Before(db, x, m)}
           high == {x \in S : Before(db, x, n)}
<1>1. low \in SUBSET high /\ high \in SUBSET Memos
  BY BeforeOrders
<1>2. m \in high /\ m \notin low
  BY BeforeOrders
<1>3. Rank(db, S, m) = Cardinality(low) /\ Rank(db, S, n) = Cardinality(high)
  BY DEF Rank
<1> HIDE DEF low, high
<1> QED
  BY <1>1, <1>2, <1>3, FewerMemos

LEMMA RankInjective ==
  ASSUME NEW db \in Tables, NEW S \in SUBSET Memos, NEW m \in S, NEW n \in S,
         Rank(db, S, m) = Rank(db, S, n)
  PROVE  m = n
<1>1. Rank(db, S, m) \in Nat
  BY RankBounds
<1>2. ~Before(db, m, n) /\ ~Before(db, n, m)
  BY <1>1, RankOrders
<1> QED
  BY <1>2, BeforeOrders

(* Every place of the list is some memo's.                                 *)
LEMMA RankOnto ==
  ASSUME NEW db \in Tables, NEW S \in SUBSET Memos, NEW k \in Nat, k < Cardinality(S)
  PROVE  \E m \in S : Rank(db, S, m) = k
<1> DEFINE f == [m \in S |-> Rank(db, S, m)]
<1>1. PICK c \in Nat : c = Cardinality(S)
  BY FiniteMemos
<1>2. f \in [S -> 0..(c - 1)]
  BY <1>1, RankBounds
<1>3. f \in Injection(S, 0..(c - 1))
  BY <1>2, RankInjective DEF Injection, IsInjective
<1>4. IsFiniteSet(0..(c - 1)) /\ Cardinality(0..(c - 1)) = c
  <2>1. c - 1 \in Int
    OBVIOUS
  <2> QED BY <2>1, FS_Interval
<1>5. f \in Surjection(S, 0..(c - 1))
  <2> HIDE DEF f
  <2> QED BY <1>1, <1>3, <1>4, FS_Injection
<1>6. k \in 0..(c - 1)
  BY <1>1
<1>7. \E m \in S : f[m] = k
  <2> HIDE DEF f
  <2> QED BY <1>5, <1>6 DEF Surjection
<1> QED
  BY <1>7

-----------------------------------------------------------------------------
(* Lists and their pages.                                                  *)

(* Sorted enumerates S: the i-th is the one that has i - 1 before it.      *)
LEMMA SortedPlaces ==
  ASSUME NEW db \in Tables, NEW S \in SUBSET Memos
  PROVE  /\ Sorted(db, S) \in Seq(S)
         /\ Len(Sorted(db, S)) = Cardinality(S)
         /\ \A i \in 1..Cardinality(S) : /\ Sorted(db, S)[i] \in S
                                         /\ Rank(db, S, Sorted(db, S)[i]) = i - 1
         /\ \A m \in S : /\ Rank(db, S, m) + 1 \in 1..Cardinality(S)
                         /\ Sorted(db, S)[Rank(db, S, m) + 1] = m
<1>1. PICK c \in Nat : c = Cardinality(S)
  BY FiniteMemos
<1> DEFINE list == Sorted(db, S)
<1>2. list = [i \in 1..c |-> CHOOSE m \in S : Rank(db, S, m) = i - 1]
  BY <1>1 DEF Sorted
<1>3. ASSUME NEW i \in 1..c
      PROVE  list[i] \in S /\ Rank(db, S, list[i]) = i - 1
  <2>1. i - 1 \in Nat /\ i - 1 < c
    OBVIOUS
  <2>2. \E m \in S : Rank(db, S, m) = i - 1
    BY <1>1, <2>1, RankOnto
  <2>3. list[i] = CHOOSE m \in S : Rank(db, S, m) = i - 1
    BY <1>2
  <2> HIDE DEF list
  <2> QED BY <2>2, <2>3
<1> HIDE DEF list
<1>4. list \in [1..c -> S]
  <2>1. list = [i \in 1..c |-> list[i]]
    BY <1>2
  <2> QED BY <1>3, <2>1
<1>5. list \in Seq(S) /\ Len(list) = c
  BY <1>4
<1>6. ASSUME NEW m \in S
      PROVE  Rank(db, S, m) + 1 \in 1..c /\ list[Rank(db, S, m) + 1] = m
  <2>1. PICK r \in Nat : r = Rank(db, S, m) /\ r < c
    BY <1>1, RankBounds
  <2>2. r + 1 \in 1..c /\ (r + 1) - 1 = r
    BY <2>1
  <2>3. list[r + 1] \in S /\ Rank(db, S, list[r + 1]) = r
    BY <1>3, <2>2
  <2> QED BY <2>1, <2>2, <2>3, RankInjective
<1> QED
  BY <1>1, <1>3, <1>5, <1>6 DEF list

(* It is in the order of the list, and no memo is in it twice.             *)
THEOREM ListsAreOrdered ==
  ASSUME NEW db \in Tables, NEW S \in SUBSET Memos,
         NEW i \in 1..Cardinality(S), NEW j \in 1..Cardinality(S), i < j
  PROVE  Before(db, Sorted(db, S)[i], Sorted(db, S)[j])
<1>1. PICK m \in S, n \in S : /\ m = Sorted(db, S)[i] /\ n = Sorted(db, S)[j]
                             /\ Rank(db, S, m) = i - 1 /\ Rank(db, S, n) = j - 1
  BY SortedPlaces
<1>2. Cardinality(S) \in Nat
  BY FiniteMemos
<1>3. Rank(db, S, m) < Rank(db, S, n)
  BY <1>1, <1>2
<1>4. ~(Rank(db, S, n) < Rank(db, S, m)) /\ m # n
  BY <1>1, <1>2, <1>3
<1>5. Before(db, m, n)
  BY <1>4, BeforeOrders, RankOrders
<1> QED
  BY <1>1, <1>5

(* How many rows a page has that begins after k of S.                      *)
RowsOf(S, k, p) == LET c == Cardinality(S)
                 IN IF c <= k THEN 0 ELSE IF c - k < p THEN c - k ELSE p

LEMMA RowsOfBounds ==
  ASSUME NEW S \in SUBSET Memos, NEW k \in Nat, NEW p \in Nat
  PROVE  /\ RowsOf(S, k, p) \in Nat
         /\ \A i \in 1..RowsOf(S, k, p) : k + i \in 1..Cardinality(S)
         /\ k <= Cardinality(S) => /\ RowsOf(S, 0, k) = k
                                   /\ RowsOf(S, 0, k + p) = k + RowsOf(S, k, p)
         /\ Cardinality(S) <= k => RowsOf(S, 0, k) = Cardinality(S)
<1>1. Cardinality(S) \in Nat
  BY FiniteMemos
<1> QED
  BY <1>1 DEF RowsOf

LEMMA SliceRow ==
  ASSUME NEW db, NEW S \in SUBSET Memos, NEW k \in Nat, NEW p \in Nat,
         NEW i \in 1..RowsOf(S, k, p)
  PROVE  Slice(db, S, k, p)[i] = Sorted(db, S)[k + i]
<1>1. Cardinality(S) \in Nat
  BY FiniteMemos
<1>2. RowsOf(S, k, p) = LET rest == IF k < Cardinality(S) THEN Cardinality(S) - k ELSE 0
                      IN IF rest < p THEN rest ELSE p
  BY <1>1 DEF RowsOf
<1> QED
  BY <1>2 DEF Slice

LEMMA SliceTyped ==
  ASSUME NEW db \in Tables, NEW S \in SUBSET Memos, NEW k \in Nat, NEW p \in Nat
  PROVE  Slice(db, S, k, p) \in [1..RowsOf(S, k, p) -> S]
<1>1. Cardinality(S) \in Nat
  BY FiniteMemos
<1>2. RowsOf(S, k, p) = LET rest == IF k < Cardinality(S) THEN Cardinality(S) - k ELSE 0
                      IN IF rest < p THEN rest ELSE p
  BY <1>1 DEF RowsOf
<1>3. \A i \in 1..RowsOf(S, k, p) : Sorted(db, S)[k + i] \in S
  BY RowsOfBounds, SortedPlaces
<1>4. Slice(db, S, k, p) = [i \in 1..RowsOf(S, k, p) |-> Sorted(db, S)[k + i]]
  BY <1>2 DEF Slice
<1> QED
  BY <1>3, <1>4

LEMMA SeqOf ==
  ASSUME NEW S, NEW n \in Nat, NEW f \in [1..n -> S]
  PROVE  f \in Seq(S) /\ Len(f) = n
OBVIOUS

(* rows is the n places of a list of members of S after the k-th.          *)
IsSlice(rows, list, S, k, n) ==
  /\ rows \in [1..n -> S]
  /\ rows \in Seq(S) /\ Len(rows) = n
  /\ \A i \in 1..n : rows[i] = list[k + i]

LEMMA SliceIs ==
  ASSUME NEW db \in Tables, NEW S \in SUBSET Memos, NEW k \in Nat, NEW p \in Nat
  PROVE  IsSlice(Slice(db, S, k, p), Sorted(db, S), S, k, RowsOf(S, k, p))
<1>1. PICK n \in Nat : n = RowsOf(S, k, p)
  BY RowsOfBounds
<1>2. Slice(db, S, k, p) \in [1..n -> S]
  BY <1>1, SliceTyped
<1>3. \A i \in 1..n : Slice(db, S, k, p)[i] = Sorted(db, S)[k + i]
  BY <1>1, SliceRow
<1>4. Slice(db, S, k, p) \in Seq(S) /\ Len(Slice(db, S, k, p)) = n
  BY <1>1, <1>2, SeqOf
<1>5. IsSlice(Slice(db, S, k, p), Sorted(db, S), S, k, n)
  BY <1>2, <1>3, <1>4 DEF IsSlice
<1> QED
  BY <1>1, <1>5

LEMMA SliceLength ==
  ASSUME NEW db \in Tables, NEW S \in SUBSET Memos, NEW k \in Nat, NEW p \in Nat
  PROVE  /\ Slice(db, S, k, p) \in Seq(S)
         /\ Len(Slice(db, S, k, p)) = RowsOf(S, k, p)
<1>1. IsSlice(Slice(db, S, k, p), Sorted(db, S), S, k, RowsOf(S, k, p))
  BY SliceIs
<1> QED
  BY <1>1 DEF IsSlice

(* Pages one behind the other are one page of their sizes together.        *)
LEMMA SlicesJoin ==
  ASSUME NEW db \in Tables, NEW S \in SUBSET Memos, NEW k \in Nat, NEW p \in Nat,
         k <= Cardinality(S)
  PROVE  Slice(db, S, 0, k) \o Slice(db, S, k, p) = Slice(db, S, 0, k + p)
<1>1. PICK n \in Nat : n = RowsOf(S, k, p)
  BY RowsOfBounds
<1>2. k + p \in Nat /\ k = RowsOf(S, 0, k) /\ k + n = RowsOf(S, 0, k + p)
  BY <1>1, RowsOfBounds
<1> DEFINE list == Sorted(db, S)
           a == Slice(db, S, 0, k)
           b == Slice(db, S, k, p)
           d == Slice(db, S, 0, k + p)
<1> HIDE DEF list, a, b, d
<1>3. a \in Seq(S) /\ Len(a) = k /\ \A i \in 1..k : a[i] = list[0 + i]
  <2>1. IsSlice(a, list, S, 0, k)
    BY <1>2, SliceIs DEF list, a
  <2> QED BY <2>1 DEF IsSlice
<1>4. b \in Seq(S) /\ Len(b) = n /\ \A i \in 1..n : b[i] = list[k + i]
  <2>1. IsSlice(b, list, S, k, n)
    BY <1>1, SliceIs DEF list, b
  <2> QED BY <2>1 DEF IsSlice
<1>5. d \in Seq(S) /\ Len(d) = k + n /\ \A i \in 1..(k + n) : d[i] = list[0 + i]
  <2>1. IsSlice(d, list, S, 0, k + n)
    BY <1>2, SliceIs DEF list, d
  <2> QED BY <2>1 DEF IsSlice
<1>6. a \o b \in Seq(S) /\ Len(a \o b) = k + n
  BY <1>3, <1>4
<1>7. ASSUME NEW i \in 1..(k + n)
      PROVE  (a \o b)[i] = d[i]
  <2>1. CASE i <= k
    <3>1. (a \o b)[i] = a[i]
      BY <1>3, <1>4, <2>1
    <3> QED BY <1>3, <1>5, <2>1, <3>1
  <2>2. CASE i > k
    <3>1. i - k \in 1..n /\ k + (i - k) = 0 + i
      BY <2>2
    <3>2. (a \o b)[i] = b[i - k]
      BY <1>3, <1>4, <2>2
    <3>3. b[i - k] = list[0 + i]
      BY <1>4, <3>1
    <3> QED BY <1>5, <3>2, <3>3
  <2>3. i <= k \/ i > k
    OBVIOUS
  <2> QED BY <2>1, <2>2, <2>3
<1>8. a \o b = d
  BY <1>5, <1>6, <1>7
<1> QED
  BY <1>8 DEF a, b, d

(* A page that reaches the end is all of the list.                         *)
LEMMA SliceAll ==
  ASSUME NEW db \in Tables, NEW S \in SUBSET Memos, NEW k \in Nat, Cardinality(S) <= k
  PROVE  Slice(db, S, 0, k) = Sorted(db, S)
<1>1. PICK c \in Nat : c = Cardinality(S)
  BY FiniteMemos
<1>2. c = RowsOf(S, 0, k)
  BY <1>1, RowsOfBounds
<1> DEFINE list == Sorted(db, S)
           rows == Slice(db, S, 0, k)
<1> HIDE DEF list, rows
<1>3. rows \in [1..c -> S] /\ \A i \in 1..c : rows[i] = list[0 + i]
  <2>1. IsSlice(rows, list, S, 0, c)
    BY <1>2, SliceIs DEF list, rows
  <2> QED BY <2>1 DEF IsSlice
<1>4. list = [i \in 1..c |-> list[i]]
  BY <1>1 DEF list, Sorted
<1>5. rows = [i \in 1..c |-> rows[i]]
  BY <1>3
<1>6. \A i \in 1..c : rows[i] = list[i]
  BY <1>3
<1>7. [i \in 1..c |-> rows[i]] = [i \in 1..c |-> list[i]]
  BY <1>6
<1>8. rows = list
  BY <1>4, <1>5, <1>7
<1> QED
  BY <1>8 DEF list, rows

(* A page has the memos whose places it covers.                            *)
LEMMA SliceHolds ==
  ASSUME NEW db \in Tables, NEW S \in SUBSET Memos, NEW k \in Nat, NEW p \in Nat,
         NEW m \in S, k <= Rank(db, S, m), Rank(db, S, m) < k + p
  PROVE  m \in In(Slice(db, S, k, p))
<1>1. PICK c \in Nat : c = Cardinality(S)
  BY FiniteMemos
<1>2. PICK r \in Nat : r = Rank(db, S, m) /\ r < c
  BY <1>1, RankBounds
<1>3. PICK n \in Nat : n = RowsOf(S, k, p)
  BY RowsOfBounds
<1> DEFINE list == Sorted(db, S)
           rows == Slice(db, S, k, p)
<1>4. list[r + 1] = m
  BY <1>2, SortedPlaces
<1> HIDE DEF list, rows
<1>5. rows \in [1..n -> S] /\ \A i \in 1..n : rows[i] = list[k + i]
  <2>1. IsSlice(rows, list, S, k, n)
    BY <1>3, SliceIs DEF list, rows
  <2> QED BY <2>1 DEF IsSlice
<1>6. PICK i \in 1..n : k + i = r + 1
  <2>1. (r - k) + 1 \in 1..n /\ k + ((r - k) + 1) = r + 1
    BY <1>1, <1>2, <1>3 DEF RowsOf
  <2> QED BY <2>1
<1>7. i \in DOMAIN rows /\ rows[i] = m
  BY <1>4, <1>5, <1>6
<1> QED
  BY <1>7 DEF In, rows

-----------------------------------------------------------------------------
(* The handler.                                                            *)

LEMMA ListSets ==
  ASSUME NEW db, NEW q
  PROVE  /\ Matching(db, q) \in SUBSET Memos /\ Selected(db, q) \in SUBSET Memos
         /\ Filtered(db, q) \in SUBSET Selected(db, q)
         /\ Reached(db, q) \in SUBSET Matching(db, q)
BY DEF Matching, Selected, Filtered, Reached, First

(* The statement and the match in memory ask what the filter says between  *)
(* them.                                                                   *)
LEMMA SelectedMatches ==
  ASSUME NEW db, NEW q, NEW m
  PROVE  m \in Matching(db, q) <=> m \in Selected(db, q) /\ Meant(q, db[m], MemoryKinds)
<1>1. Meant(q, db[m], SqlKinds \cup MemoryKinds)
        <=> Meant(q, db[m], SqlKinds) /\ Meant(q, db[m], MemoryKinds)
  BY DEF Meant
<1> QED
  BY <1>1 DEF Matching, Selected

LEMMA NoMemory ==
  ASSUME NEW db, NEW q, ~NeedsMemory(q.filter)
  PROVE  Matching(db, q) = Selected(db, q) /\ Reached(db, q) = Selected(db, q)
<1>1. \A m : Meant(q, db[m], MemoryKinds)
  BY DEF NeedsMemory, Meant, Counts
<1>2. Matching(db, q) = Selected(db, q)
  BY <1>1, SelectedMatches
<1> QED
  BY <1>2 DEF Reached

(* What pages are cut from, by either way, is what can be reached.         *)
LEMMA CutFrom ==
  ASSUME NEW db, NEW q
  PROVE  Reached(db, q) = IF NeedsMemory(q.filter) THEN Filtered(db, q) ELSE Selected(db, q)
<1>1. CASE NeedsMemory(q.filter)
  <2>1. \A m : m \in Reached(db, q) <=> m \in Filtered(db, q)
    BY <1>1, SelectedMatches DEF Reached, Filtered, First
  <2> QED BY <1>1, <2>1
<1>2. CASE ~NeedsMemory(q.filter)
  BY <1>2, NoMemory
<1> QED
  BY <1>1, <1>2

(* When the scan was not cut, that is all that matches.                    *)
LEMMA WholeReached ==
  ASSUME NEW db \in Tables, NEW q, Whole(db, q) = "yes"
  PROVE  Reached(db, q) = Matching(db, q)
<1>1. CASE NeedsMemory(q.filter)
  <2> DEFINE S == Selected(db, q)
  <2>1. S \in SUBSET Memos /\ Cardinality(S) \in Nat
    BY ListSets, FiniteMemos
  <2>2. Cardinality(S) <= MaxScan
    BY <1>1, <2>1, ListConstants DEF Whole
  <2>3. \A m \in S : Rank(db, S, m) \in Nat /\ Rank(db, S, m) < Cardinality(S)
    BY <2>1, RankBounds
  <2>4. \A m \in S : Rank(db, S, m) < MaxScan
    BY <2>1, <2>2, <2>3, ListConstants
  <2>5. \A m \in Matching(db, q) : m \in First(db, S, MaxScan)
    BY <2>4, SelectedMatches DEF First
  <2> QED BY <2>5 DEF Reached
<1>2. CASE ~NeedsMemory(q.filter)
  BY <1>2, NoMemory
<1> QED
  BY <1>1, <1>2

(* A page is the rows after the offset, and the token names the row after  *)
(* them: there is one just when it may have more to say.                   *)
LEMMA ServeFacts ==
  ASSUME NEW db \in Tables, NEW q \in Lists, NEW k \in Nat
  PROVE  /\ Serve(db, q, k).rows = Slice(db, Reached(db, q), k, PageSize)
         /\ Serve(db, q, k).next \in {0, k + PageSize}
         /\ Serve(db, q, k).next = 0 => Cardinality(Reached(db, q)) <= k + PageSize
         /\ Serve(db, q, k).next # 0 => k + PageSize <= Cardinality(Reached(db, q))
         /\ Serve(db, q, k).whole = Whole(db, q)
<1>1. PICK S \in SUBSET Memos : S = Reached(db, q)
  BY ListSets
<1>2. Cardinality(S) \in Nat
  BY FiniteMemos
<1> DEFINE rows == Slice(db, S, k, PageSize)
           more == IF NeedsMemory(q.filter) THEN Cardinality(S) > k + PageSize
                                            ELSE Len(rows) = PageSize
<1>3. Serve(db, q, k) = Page(rows, IF more THEN k + PageSize ELSE 0, Whole(db, q))
  BY <1>1, CutFrom DEF Serve
<1>4. more => k + PageSize <= Cardinality(S)
  <2>1. CASE ~NeedsMemory(q.filter) /\ more
    <3>1. Len(rows) = RowsOf(S, k, PageSize)
      BY SliceLength, ListConstants
    <3>2. RowsOf(S, k, PageSize) = PageSize
      BY <2>1, <3>1
    <3> QED BY <1>2, <3>2, ListConstants DEF RowsOf
  <2> QED BY <1>2, <2>1, ListConstants
<1>5. ~more => Cardinality(S) <= k + PageSize
  <2>1. CASE ~NeedsMemory(q.filter) /\ ~more
    <3>1. Len(rows) = RowsOf(S, k, PageSize)
      BY SliceLength, ListConstants
    <3>2. RowsOf(S, k, PageSize) # PageSize
      BY <2>1, <3>1
    <3> QED BY <1>2, <3>2, ListConstants DEF RowsOf
  <2> QED BY <1>2, <2>1, ListConstants
<1> HIDE DEF rows, more
<1>6. /\ Serve(db, q, k).rows = rows
      /\ Serve(db, q, k).next = IF more THEN k + PageSize ELSE 0
      /\ Serve(db, q, k).whole = Whole(db, q)
  BY <1>3 DEF Page
<1> QED
  BY <1>1, <1>4, <1>5, <1>6, ListConstants DEF rows

-----------------------------------------------------------------------------
(* The walks.                                                              *)

LEMMA SpecialWalks ==
  /\ Start \in Walk /\ Nothing \in Walk
  /\ Start.rows = <<>> /\ Start.pages = 0 /\ Start.falls = 0 /\ Start.quiet = "yes"
  /\ Nothing.pages = 0 /\ Nothing.quiet = "no"
<1>1. <<>> \in Seq(Memos)
  OBVIOUS
<1>2. Start \in Walk
  BY <1>1 DEF Start, Walk
<1>3. Start.rows = <<>> /\ Start.pages = 0 /\ Start.falls = 0 /\ Start.quiet = "yes"
  BY DEF Start
<1>4. Nothing \in Walk
  BY <1>2 DEF Nothing, Walk
<1>5. Nothing.pages = 0 /\ Nothing.quiet = "no"
  BY <1>2, <1>3 DEF Nothing, Walk
<1> QED
  BY <1>2, <1>3, <1>4, <1>5

LEMMA WalkFields ==
  ASSUME NEW w \in Walk
  PROVE  /\ w.rows \in Seq(Memos) /\ w.pages \in Nat /\ w.next \in Nat
         /\ w.steady \in SUBSET Memos /\ w.quiet \in {"yes", "no"}
         /\ w.whole \in {"yes", "no"} /\ w.falls \in Nat
BY DEF Walk

(* How many rows the pages of a walk are worth.                            *)
Span(w) == PageSize * w.pages

LEMMA SpanType ==
  ASSUME NEW w \in Walk
  PROVE  Span(w) \in Nat
BY WalkFields, ListConstants DEF Span

LEMMA PageType ==
  ASSUME NEW db \in Tables, NEW q \in Lists, NEW k \in Nat
  PROVE  /\ Serve(db, q, k).rows \in Seq(Memos)
         /\ Serve(db, q, k).next \in Nat
         /\ Serve(db, q, k).whole \in {"yes", "no"}
<1>1. PICK S \in SUBSET Memos : S = Reached(db, q)
  BY ListSets
<1>2. Slice(db, S, k, PageSize) \in Seq(S)
  BY SliceLength, ListConstants
<1>3. Slice(db, S, k, PageSize) \in Seq(Memos)
  BY <1>2
<1>4. Serve(db, q, k).rows \in Seq(Memos)
  BY <1>1, <1>3, ServeFacts
<1>5. k + PageSize \in Nat
  BY ListConstants
<1>6. Serve(db, q, k).next \in Nat
  BY <1>5, ServeFacts
<1>7. Whole(db, q) \in {"yes", "no"}
  BY DEF Whole
<1> QED
  BY <1>4, <1>6, <1>7, ServeFacts

(* A page more.                                                            *)
LEMMA WithPageIs ==
  ASSUME NEW w \in Walk, NEW p, p.rows \in Seq(Memos), p.next \in Nat,
         p.whole \in {"yes", "no"}
  PROVE  /\ WithPage(w, p) \in Walk
         /\ WithPage(w, p).rows = w.rows \o p.rows
         /\ WithPage(w, p).pages = w.pages + 1
         /\ WithPage(w, p).next = p.next
         /\ WithPage(w, p).whole = "yes" <=> w.whole = "yes" /\ p.whole = "yes"
         /\ WithPage(w, p).steady = w.steady /\ WithPage(w, p).quiet = w.quiet
         /\ WithPage(w, p).falls = w.falls
         /\ Span(WithPage(w, p)) = Span(w) + PageSize
<1>1. w.rows \o p.rows \in Seq(Memos)
  BY WalkFields
<1>2. /\ WithPage(w, p) \in Walk
      /\ WithPage(w, p).rows = w.rows \o p.rows
      /\ WithPage(w, p).pages = w.pages + 1
      /\ WithPage(w, p).next = p.next
      /\ WithPage(w, p).whole = "yes" <=> w.whole = "yes" /\ p.whole = "yes"
      /\ WithPage(w, p).steady = w.steady /\ WithPage(w, p).quiet = w.quiet
      /\ WithPage(w, p).falls = w.falls
  <2>1. PICK rows \in Seq(Memos) : rows = w.rows \o p.rows
    BY <1>1
  <2>2. PICK whole \in {"yes", "no"} :
          /\ whole = (IF p.whole = "yes" THEN w.whole ELSE "no")
          /\ whole = "yes" <=> w.whole = "yes" /\ p.whole = "yes"
    BY WalkFields
  <2>3. PICK next \in Nat, pages \in Nat : next = p.next /\ pages = w.pages + 1
    BY WalkFields
  <2>4. WithPage(w, p) = [w EXCEPT !.rows = rows, !.pages = pages, !.next = next,
                                   !.whole = whole]
    BY <2>1, <2>2, <2>3 DEF WithPage, Walk
  <2>5. /\ WithPage(w, p) \in Walk
        /\ WithPage(w, p).rows = rows /\ WithPage(w, p).pages = pages
        /\ WithPage(w, p).next = next /\ WithPage(w, p).whole = whole
        /\ WithPage(w, p).steady = w.steady /\ WithPage(w, p).quiet = w.quiet
        /\ WithPage(w, p).falls = w.falls
    BY <2>4 DEF Walk
  <2> QED BY <2>1, <2>2, <2>3, <2>5
<1>3. Span(WithPage(w, p)) = Span(w) + PageSize
  BY <1>2, WalkFields, ListConstants DEF Span
<1> QED
  BY <1>2, <1>3

LEMMA InJoined ==
  ASSUME NEW S, NEW s \in Seq(S), NEW t \in Seq(S)
  PROVE  In(s \o t) = In(s) \cup In(t)
<1>1. ASSUME NEW i \in DOMAIN s
      PROVE  i \in DOMAIN (s \o t) /\ (s \o t)[i] = s[i]
  OBVIOUS
<1>2. ASSUME NEW i \in DOMAIN t
      PROVE  Len(s) + i \in DOMAIN (s \o t) /\ (s \o t)[Len(s) + i] = t[i]
  OBVIOUS
<1>3. ASSUME NEW i \in DOMAIN (s \o t)
      PROVE  (s \o t)[i] \in In(s) \cup In(t)
  <2>1. CASE i <= Len(s)
    <3>1. i \in DOMAIN s /\ (s \o t)[i] = s[i]
      BY <2>1
    <3> QED BY <3>1 DEF In
  <2>2. CASE ~(i <= Len(s))
    <3>1. i - Len(s) \in DOMAIN t /\ (s \o t)[i] = t[i - Len(s)]
      BY <2>2
    <3> QED BY <3>1 DEF In
  <2> QED BY <2>1, <2>2
<1>4. In(s) \subseteq In(s \o t) /\ In(t) \subseteq In(s \o t)
  BY <1>1, <1>2 DEF In
<1>5. In(s \o t) \subseteq In(s) \cup In(t)
  BY <1>3 DEF In
<1> QED
  BY <1>4, <1>5

(* What a walk has shown when nothing changed, and what of the memos that  *)
(* did not change; and the memos it has passed over.                       *)
RowsTrue(db, q, w, k) ==
  /\ w.rows = Slice(db, Reached(db, q), 0, k)
  /\ k <= Cardinality(Reached(db, q))

Passed(db, q, w, k) ==
  {m \in (Matching(db, q) \cap w.steady) \ In(w.rows) : Rank(db, Matching(db, q), m) < k}

Belong(db, q, w) == In(w.rows) \cap w.steady \subseteq Matching(db, q)

Left(db, q, w) == (Matching(db, q) \cap w.steady) \ In(w.rows)

(* The inductive invariant of a walk: the next page begins where the pages *)
(* so far end, and of the places they cover no more are missing than have  *)
(* moved up into them.                                                     *)
WalkTrue(db, q, w) ==
  /\ w.pages # 0
  /\ w.next # 0 => w.next = Span(w)
  /\ w.quiet = "yes" => IF w.next = 0 THEN w.rows = Sorted(db, Reached(db, q))
                        ELSE RowsTrue(db, q, w, Span(w))
  /\ w.whole = "yes" =>
       Cardinality(IF w.next = 0 THEN Left(db, q, w) ELSE Passed(db, q, w, Span(w))) <= w.falls
  /\ Belong(db, q, w)

LEMMA PassedSets ==
  ASSUME NEW db, NEW q, NEW w, NEW k
  PROVE  Passed(db, q, w, k) \in SUBSET Memos /\ Left(db, q, w) \in SUBSET Memos
BY ListSets DEF Passed, Left

(* Another page, served from the table as it is now.                       *)
LEMMA PageAdded ==
  ASSUME NEW db \in Tables, NEW q \in Lists, NEW w \in Walk, NEW k \in Nat, k = Span(w),
         w.quiet = "yes" => RowsTrue(db, q, w, k), Belong(db, q, w),
         w.whole = "yes" => Cardinality(Passed(db, q, w, k)) <= w.falls
  PROVE  /\ WithPage(w, Serve(db, q, k)) \in Walk
         /\ WalkTrue(db, q, WithPage(w, Serve(db, q, k)))
<1> DEFINE p == Serve(db, q, k)
           v == WithPage(w, p)
<1>1. PICK S \in SUBSET Memos : S = Reached(db, q)
  BY ListSets
<1>2. Cardinality(S) \in Nat /\ k + PageSize \in Nat /\ PageSize \in Nat /\ PageSize > 0
  BY FiniteMemos, ListConstants
<1>3. /\ p.rows = Slice(db, S, k, PageSize)
      /\ p.next \in {0, k + PageSize}
      /\ p.next = 0 => Cardinality(S) <= k + PageSize
      /\ p.next # 0 => k + PageSize <= Cardinality(S)
      /\ p.whole = Whole(db, q)
  BY <1>1, ServeFacts
<1>4. p.rows \in Seq(Memos) /\ p.next \in Nat /\ p.whole \in {"yes", "no"}
  BY PageType
<1> HIDE DEF p
<1>5. /\ v \in Walk
      /\ v.rows = w.rows \o p.rows
      /\ v.pages = w.pages + 1
      /\ v.next = p.next
      /\ v.whole = "yes" <=> w.whole = "yes" /\ p.whole = "yes"
      /\ v.steady = w.steady /\ v.quiet = w.quiet
      /\ v.falls = w.falls
      /\ Span(v) = k + PageSize
  BY <1>4, WithPageIs
<1> HIDE DEF v
<1>6. v.pages # 0 /\ (v.next # 0 => v.next = Span(v))
  BY <1>3, <1>5, WalkFields
<1>7. ASSUME v.quiet = "yes"
      PROVE  IF v.next = 0 THEN v.rows = Sorted(db, S) ELSE RowsTrue(db, q, v, Span(v))
  <2>1. w.rows = Slice(db, S, 0, k) /\ k <= Cardinality(S)
    BY <1>1, <1>5, <1>7 DEF RowsTrue
  <2>2. v.rows = Slice(db, S, 0, k + PageSize)
    <3>1. Slice(db, S, 0, k) \o Slice(db, S, k, PageSize) = Slice(db, S, 0, k + PageSize)
      BY <1>2, <2>1, SlicesJoin
    <3> QED BY <1>3, <1>5, <2>1, <3>1
  <2>3. CASE v.next = 0
    BY <1>2, <1>3, <1>5, <2>2, <2>3, SliceAll
  <2>4. CASE v.next # 0
    BY <1>1, <1>3, <1>5, <2>2, <2>4 DEF RowsTrue
  <2> QED BY <2>3, <2>4
<1>8. ASSUME v.whole = "yes"
      PROVE  Cardinality(IF v.next = 0 THEN Left(db, q, v) ELSE Passed(db, q, v, Span(v)))
               <= v.falls
  <2> DEFINE was == Passed(db, q, w, k)
             new == IF v.next = 0 THEN Left(db, q, v) ELSE Passed(db, q, v, Span(v))
  <2>1. S = Matching(db, q)
    BY <1>1, <1>3, <1>5, <1>8, WholeReached
  <2>2. ASSUME NEW m \in new
        PROVE  m \in was
    <3>1. m \in S /\ m \in w.steady /\ m \notin In(v.rows)
      BY <1>5, <2>1, <2>2 DEF Left, Passed
    <3>2. m \notin In(w.rows) /\ m \notin In(p.rows)
      BY <1>4, <1>5, <3>1, InJoined, WalkFields
    <3>3. PICK r \in Nat : r = Rank(db, S, m) /\ r < Cardinality(S)
      BY <3>1, RankBounds
    <3>4. r < k + PageSize
      <4>1. CASE v.next = 0
        BY <1>2, <1>3, <1>5, <3>3, <4>1
      <4>2. CASE v.next # 0
        BY <1>5, <2>1, <2>2, <3>3, <4>2 DEF Passed
      <4> QED BY <4>1, <4>2
    <3>5. ~(k <= r)
      BY <1>2, <1>3, <3>1, <3>2, <3>3, <3>4, SliceHolds
    <3>6. r < k
      BY <3>5
    <3> QED BY <2>1, <3>1, <3>2, <3>3, <3>6 DEF Passed
  <2>3. was \in SUBSET Memos /\ new \in SUBSET Memos
    BY PassedSets
  <2>4. Cardinality(was) <= w.falls
    BY <1>5, <1>8
  <2> HIDE DEF was, new
  <2>5. new \in SUBSET was
    BY <2>2
  <2>6. Cardinality(new) <= Cardinality(was) /\ Cardinality(was) \in Nat /\ Cardinality(new) \in Nat
    BY <2>3, <2>5, FewerMemos, FiniteMemos
  <2>7. Cardinality(new) <= v.falls
    BY <1>5, <2>4, <2>6, WalkFields
  <2> QED BY <2>7 DEF new
<1>9. Belong(db, q, v)
  <2>1. p.rows \in Seq(S)
    BY <1>2, <1>3, SliceLength
  <2>2. In(p.rows) \subseteq S
    BY <2>1 DEF In
  <2>3. In(v.rows) = In(w.rows) \cup In(p.rows)
    BY <1>4, <1>5, InJoined, WalkFields
  <2>4. S \subseteq Matching(db, q)
    BY <1>1, ListSets
  <2> QED BY <1>5, <2>2, <2>3, <2>4 DEF Belong
<1> QED
  BY <1>1, <1>5, <1>6, <1>7, <1>8, <1>9 DEF v, p, WalkTrue

(* The first page of a walk.                                               *)
LEMMA WalkBegins ==
  ASSUME NEW db \in Tables, NEW q \in Lists
  PROVE  /\ WithPage(Start, Serve(db, q, 0)) \in Walk
         /\ WalkTrue(db, q, WithPage(Start, Serve(db, q, 0)))
<1>1. PICK S \in SUBSET Memos : S = Reached(db, q)
  BY ListSets
<1>2. Cardinality(S) \in Nat
  BY FiniteMemos
<1>3. Start \in Walk /\ Start.rows = <<>> /\ Start.falls = 0 /\ Span(Start) = 0
  BY SpecialWalks, ListConstants DEF Span
<1>4. RowsTrue(db, q, Start, 0)
  <2> DEFINE rows == Slice(db, S, 0, 0)
  <2>1. rows \in Seq(S) /\ Len(rows) = 0
    <3>1. RowsOf(S, 0, 0) = 0
      BY RowsOfBounds, <1>2
    <3> QED BY <3>1, SliceLength
  <2> HIDE DEF rows
  <2>2. rows = <<>>
    BY <2>1
  <2> QED BY <1>1, <1>2, <1>3, <2>2 DEF RowsTrue, rows
<1>5. Cardinality(Passed(db, q, Start, 0)) <= Start.falls
  <2>1. \A m \in Matching(db, q) : ~(Rank(db, Matching(db, q), m) < 0)
    <3>1. \A m \in Matching(db, q) : Rank(db, Matching(db, q), m) \in Nat
      BY ListSets, RankBounds
    <3> QED BY <3>1
  <2>2. Passed(db, q, Start, 0) = {}
    BY <2>1 DEF Passed
  <2>3. Cardinality(Passed(db, q, Start, 0)) = 0
    BY <2>2, FS_EmptySet
  <2> QED BY <1>3, <2>3
<1>6. Belong(db, q, Start)
  BY <1>3 DEF Belong, In
<1>7. 0 \in Nat
  OBVIOUS
<1> QED
  BY <1>3, <1>4, <1>5, <1>6, <1>7, PageAdded

(* The next page of a walk that has one.                                   *)
LEMMA WalkGoesOn ==
  ASSUME NEW db \in Tables, NEW q \in Lists, NEW w \in Walk, WalkTrue(db, q, w), w.next # 0
  PROVE  /\ WithPage(w, Serve(db, q, w.next)) \in Walk
         /\ WalkTrue(db, q, WithPage(w, Serve(db, q, w.next)))
<1>1. PICK k \in Nat : k = w.next /\ k = Span(w)
  BY SpanType DEF WalkTrue
<1>2. (w.quiet = "yes" => RowsTrue(db, q, w, k)) /\ Belong(db, q, w)
  BY <1>1 DEF WalkTrue
<1>3. w.whole = "yes" => Cardinality(Passed(db, q, w, k)) <= w.falls
  BY <1>1 DEF WalkTrue
<1>4. /\ WithPage(w, Serve(db, q, k)) \in Walk
      /\ WalkTrue(db, q, WithPage(w, Serve(db, q, k)))
  BY <1>1, <1>2, <1>3, PageAdded
<1> QED
  BY <1>1, <1>4

-----------------------------------------------------------------------------
(* Changes.                                                                *)

(* A table that differs in one memo.                                       *)
Elsewhere(db, now, m) == \A x \in Memos \ {m} : now[x] = db[x]

(* Another memo moves up by one place at most, and then because m left the *)
(* places in front of it.                                                  *)
LEMMA MovesUp ==
  ASSUME NEW db \in Tables, NEW now \in Tables, NEW m \in Memos, Elsewhere(db, now, m),
         NEW S \in SUBSET Memos, NEW T \in SUBSET Memos,
         \A x \in Memos \ {m} : x \in S <=> x \in T,
         NEW x \in S, x # m, Rank(now, T, x) < Rank(db, S, x)
  PROVE  /\ Rank(now, T, x) = Rank(db, S, x) - 1
         /\ m \in S /\ Before(db, m, x)
         /\ ~(m \in T /\ Before(now, m, x))
<1> DEFINE was == {n \in S : Before(db, n, x)}
           new == {n \in T : Before(now, n, x)}
<1>1. was \in SUBSET Memos /\ new \in SUBSET Memos
  OBVIOUS
<1>2. \A n \in Memos \ {m} : n \in was <=> n \in new
  BY BeforeElsewhere DEF Elsewhere
<1>3. Rank(db, S, x) = Cardinality(was) /\ Rank(now, T, x) = Cardinality(new)
  BY DEF Rank
<1>4. m \in was <=> m \in S /\ Before(db, m, x)
  OBVIOUS
<1>5. m \in new <=> m \in T /\ Before(now, m, x)
  OBVIOUS
<1> HIDE DEF was, new
<1>6. Cardinality(was) \in Nat /\ Cardinality(new) \in Nat
  BY <1>1, FiniteMemos
<1>7. ~(was \subseteq new)
  <2>1. was \in SUBSET new => Cardinality(was) <= Cardinality(new)
    BY <1>1, FewerMemos
  <2> QED BY <1>3, <1>6, <2>1
<1>8. m \in was /\ m \notin new
  BY <1>1, <1>2, <1>7
<1>9. new = was \ {m}
  BY <1>1, <1>2, <1>8
<1>10. Cardinality(new) = Cardinality(was) - 1
  BY <1>1, <1>8, <1>9, FiniteMemos, FS_RemoveElement
<1> QED
  BY <1>3, <1>4, <1>5, <1>8, <1>10

(* So m has left the first k places, if another memo moved up into them.   *)
LEMMA FallsWhenOthersRise ==
  ASSUME NEW db \in Tables, NEW now \in Tables, NEW m \in Memos, Elsewhere(db, now, m),
         NEW S \in SUBSET Memos, NEW T \in SUBSET Memos,
         \A x \in Memos \ {m} : x \in S <=> x \in T,
         NEW x \in S, x # m, NEW k \in Nat, k <= Rank(db, S, x), Rank(now, T, x) < k
  PROVE  /\ Rank(db, S, x) = k
         /\ m \in First(db, S, k) /\ m \notin First(now, T, k)
<1>1. Rank(db, S, x) \in Nat /\ Rank(now, T, x) \in Nat
  BY RankBounds
<1>2. /\ Rank(now, T, x) = Rank(db, S, x) - 1
      /\ m \in S /\ Before(db, m, x)
      /\ ~(m \in T /\ Before(now, m, x))
  <2>1. Rank(now, T, x) < Rank(db, S, x)
    BY <1>1
  <2> QED BY <2>1, MovesUp
<1>3. Rank(db, S, x) = k /\ Rank(now, T, x) = k - 1
  BY <1>1, <1>2
<1>4. m \in First(db, S, k)
  <2>1. Rank(db, S, m) < Rank(db, S, x)
    BY <1>2, RankOrders
  <2> QED BY <1>2, <1>3, <2>1 DEF First
<1>5. ASSUME m \in First(now, T, k)
      PROVE  FALSE
  <2>1. m \in T /\ Rank(now, T, m) < k
    BY <1>5 DEF First
  <2>2. x \in T /\ Before(now, x, m)
    BY <1>2, <2>1, BeforeOrders
  <2>3. Rank(now, T, x) < Rank(now, T, m)
    BY <2>2, RankOrders
  <2>4. Rank(now, T, m) \in Nat
    BY RankBounds
  <2> QED BY <1>3, <2>1, <2>3, <2>4
<1> QED
  BY <1>3, <1>4, <1>5

(* What a change does to a walk: its pages are as they were, m is no       *)
(* longer steady, and a fall is counted.                                   *)
LEMMA ChangedWalk ==
  ASSUME NEW db \in Tables, NEW now \in Tables, NEW q \in Lists, NEW m \in Memos,
         Elsewhere(db, now, m),
         NEW w \in Walk, WalkTrue(db, q, w),
         NEW v \in Walk, v.rows = w.rows, v.pages = w.pages, v.next = w.next,
         v.whole = w.whole, v.quiet = "no", v.steady = w.steady \ {m},
         v.falls = IF /\ m \in First(db, Matching(db, q), Span(w))
                      /\ m \notin First(now, Matching(now, q), Span(w))
                   THEN w.falls + 1 ELSE w.falls
  PROVE  WalkTrue(now, q, v)
<1>1. PICK S \in SUBSET Memos, T \in SUBSET Memos : S = Matching(db, q) /\ T = Matching(now, q)
  BY ListSets
<1>2. \A x \in Memos \ {m} : x \in S <=> x \in T
  BY <1>1 DEF Matching, Elsewhere
<1>3. PICK k \in Nat : k = Span(w) /\ k = Span(v)
  BY SpanType DEF Span
<1>4. w.falls \in Nat /\ w.falls <= v.falls
  BY WalkFields
<1>5. v.pages # 0 /\ (v.next # 0 => v.next = Span(v))
  BY <1>3 DEF WalkTrue
<1>6. ASSUME v.whole = "yes", v.next = 0
      PROVE  Cardinality(Left(now, q, v)) <= v.falls
  <2> DEFINE was == Left(db, q, w)
             new == Left(now, q, v)
  <2>1. was \in SUBSET Memos /\ new \in SUBSET Memos
    BY PassedSets
  <2>2. new \in SUBSET was
    BY <1>1, <1>2 DEF Left
  <2>3. Cardinality(was) <= w.falls
    BY <1>6 DEF WalkTrue
  <2> HIDE DEF was, new
  <2>4. Cardinality(new) <= Cardinality(was) /\ Cardinality(was) \in Nat /\ Cardinality(new) \in Nat
    BY <2>1, <2>2, FewerMemos, FiniteMemos
  <2>5. Cardinality(new) <= v.falls
    BY <1>4, <2>3, <2>4, WalkFields
  <2> QED BY <2>5 DEF new
<1>7. ASSUME v.whole = "yes", v.next # 0
      PROVE  Cardinality(Passed(now, q, v, k)) <= v.falls
  <2> DEFINE was == Passed(db, q, w, k)
             new == Passed(now, q, v, k)
  <2>1. was \in SUBSET Memos /\ new \in SUBSET Memos
    BY PassedSets
  <2>2. Cardinality(was) <= w.falls
    BY <1>3, <1>7 DEF WalkTrue
  <2>3. Cardinality(was) \in Nat /\ Cardinality(new) \in Nat
    BY <2>1, FiniteMemos
  <2>4. ASSUME NEW x \in new \ was
        PROVE  /\ x \in S /\ Rank(db, S, x) = k
               /\ m \in First(db, S, k) /\ m \notin First(now, T, k)
    <3>1. x \in T /\ x # m /\ x \in w.steady /\ x \notin In(w.rows) /\ Rank(now, T, x) < k
      BY <1>1, <2>4 DEF Passed
    <3>2. x \in S
      BY <1>2, <3>1
    <3>3. Rank(db, S, x) \in Nat /\ ~(Rank(db, S, x) < k)
      BY <1>1, <2>4, <3>1, <3>2, RankBounds DEF Passed
    <3>4. k <= Rank(db, S, x)
      BY <3>3
    <3> QED BY <1>2, <3>1, <3>2, <3>4, FallsWhenOthersRise
  <2>5. CASE new \subseteq was
    <3> HIDE DEF was, new
    <3>1. Cardinality(new) <= Cardinality(was)
      BY <2>1, <2>5, FewerMemos
    <3>2. Cardinality(new) <= v.falls
      BY <1>4, <2>2, <2>3, <3>1, WalkFields
    <3> QED BY <3>2 DEF new
  <2>6. CASE ~(new \subseteq was)
    <3> HIDE DEF was, new
    <3>1. PICK x \in new \ was : TRUE
      BY <2>6
    <3>2. v.falls = w.falls + 1
      BY <1>1, <1>3, <2>4, <3>1
    <3>3. \A y \in new \ was : y = x
      BY <2>4, <3>1, RankInjective
    <3>4. new \in SUBSET (was \cup {x}) /\ was \cup {x} \in SUBSET Memos
      BY <2>1, <3>1, <3>3
    <3>5. Cardinality(was \cup {x}) = Cardinality(was) + 1
      BY <2>1, <3>1, FiniteMemos, FS_AddElement
    <3>6. Cardinality(new) <= Cardinality(was \cup {x})
      BY <3>4, FewerMemos
    <3>7. Cardinality(new) <= v.falls
      BY <1>4, <2>2, <2>3, <3>2, <3>5, <3>6
    <3> QED BY <3>7 DEF new
  <2> QED BY <2>5, <2>6
<1>8. Belong(now, q, v)
  <2>1. In(w.rows) \cap w.steady \subseteq S
    BY <1>1 DEF WalkTrue, Belong
  <2> QED BY <1>1, <1>2, <2>1 DEF Belong
<1> QED
  BY <1>3, <1>5, <1>6, <1>7, <1>8 DEF WalkTrue

-----------------------------------------------------------------------------
(* The invariant.                                                          *)

ListIInv ==
  /\ ListTypeOK
  /\ WalkTrue(memo, query, shown)
  /\ again = Nothing \/ WalkTrue(memo, query, again)

LEMMA NothingIsNoWalk ==
  ASSUME NEW db, NEW q
  PROVE  ~WalkTrue(db, q, Nothing)
BY SpecialWalks DEF WalkTrue

(* A change leaves the table one that differs in m.                        *)
LEMMA ChangedTable ==
  ASSUME ListTypeOK, NEW m \in Memos,
         Create(m) \/ Move(m) \/ Delete(m) \/ Pin(m) \/ Edit(m)
  PROVE  \E row \in Row : memo' = [memo EXCEPT ![m] = row]
<1>1. memo \in Tables /\ memo[m] \in Row
  BY DEF ListTypeOK, Tables
<1>2. CASE Create(m)
  BY <1>2 DEF Create
<1>3. CASE Move(m)
  <2>1. PICK t \in Times, s \in {"NORMAL", "ARCHIVED"} :
          memo' = [memo EXCEPT ![m] = [memo[m] EXCEPT !.stamp = t, !.status = s]]
    BY <1>1, <1>3 DEF Move, Row
  <2>2. [memo[m] EXCEPT !.stamp = t, !.status = s] \in Row
    BY <1>1 DEF Row
  <2> QED BY <2>1, <2>2
<1>4. CASE Delete(m)
  <2>1. memo' = [memo EXCEPT ![m] = [memo[m] EXCEPT !.status = "deleted"]]
    BY <1>4 DEF Delete
  <2>2. [memo[m] EXCEPT !.status = "deleted"] \in Row
    BY <1>1 DEF Row
  <2> QED BY <2>1, <2>2
<1>5. CASE Pin(m)
  <2>1. PICK t \in Times, p \in {"yes", "no"} :
          memo' = [memo EXCEPT ![m] = [memo[m] EXCEPT !.stamp = t, !.pinned = p]]
    BY <1>1, <1>5 DEF Pin, Row
  <2>2. [memo[m] EXCEPT !.stamp = t, !.pinned = p] \in Row
    BY <1>1 DEF Row
  <2> QED BY <2>1, <2>2
<1>6. CASE Edit(m)
  <2>1. PICK t \in Times, has \in SUBSET Traits, s \in Sights :
          memo' = [memo EXCEPT ![m] = [memo[m] EXCEPT !.stamp = t, !.traits = has,
                                                      !.sight = s]]
    <3>1. PICK t \in Times, has \in SUBSET Traits, s \in Sights :
            memo' = [memo EXCEPT ![m].stamp = t, ![m].traits = has, ![m].sight = s]
      BY <1>6 DEF Edit
    <3>2. [[[memo[m] EXCEPT !.stamp = t] EXCEPT !.traits = has] EXCEPT !.sight = s]
            = [memo[m] EXCEPT !.stamp = t, !.traits = has, !.sight = s]
      OBVIOUS
    <3>3. memo' = [memo EXCEPT ![m] = [memo[m] EXCEPT !.stamp = t, !.traits = has,
                                                      !.sight = s]]
      BY <1>1, <3>1, <3>2 DEF Tables
    <3> QED BY <3>3
  <2>2. [memo[m] EXCEPT !.stamp = t, !.traits = has, !.sight = s] \in Row
    BY <1>1 DEF Row
  <2> QED BY <2>1, <2>2
<1> QED
  BY <1>2, <1>3, <1>4, <1>5, <1>6

(* What a change does to a walk that is true of the table.                 *)
LEMMA DisturbedWalk ==
  ASSUME ListTypeOK, NEW m \in Memos, NEW now \in Tables, now = memo', query' = query,
         Elsewhere(memo, now, m), NEW w \in Walk, WalkTrue(memo, query, w)
  PROVE  Disturbed(w, m) \in Walk /\ WalkTrue(now, query, Disturbed(w, m))
<1> DEFINE v == Disturbed(w, m)
<1>1. w # Nothing
  BY NothingIsNoWalk
<1>2. PICK falls \in Nat : falls = IF /\ m \in First(memo, Matching(memo, query), Span(w))
                                      /\ m \notin First(now, Matching(now, query), Span(w))
                                   THEN w.falls + 1 ELSE w.falls
  BY WalkFields
<1>3. v = [w EXCEPT !.steady = w.steady \ {m}, !.quiet = "no", !.falls = falls]
  BY <1>1, <1>2 DEF Disturbed, FallsFrom, Span, Walk
<1> HIDE DEF v
<1>4. /\ v \in Walk /\ v.rows = w.rows /\ v.pages = w.pages /\ v.next = w.next
      /\ v.whole = w.whole /\ v.quiet = "no" /\ v.steady = w.steady \ {m}
      /\ v.falls = falls
  BY <1>3 DEF Walk
<1>5. memo \in Tables /\ query \in Lists
  BY DEF ListTypeOK, Tables
<1>6. WalkTrue(now, query, v)
  BY <1>2, <1>4, <1>5, ChangedWalk
<1> QED
  BY <1>4, <1>6 DEF v

LEMMA ListInductive ==
  ASSUME ListIInv, [ListNext]_listVars
  PROVE  ListIInv'
<1> USE DEF ListIInv
<1>1. /\ memo \in Tables /\ query \in Lists /\ edits \in 0..MaxEdits
      /\ shown \in Walk /\ again \in Walk
  BY DEF ListTypeOK, Tables
<1>2. ASSUME NEW q \in Lists, Open(q)
      PROVE  ListIInv'
  <2>1. memo' = memo /\ query' = q /\ edits' = edits /\ again' = Nothing
    BY <1>2 DEF Open
  <2>2. shown' \in Walk /\ WalkTrue(memo, q, shown')
    BY <1>1, <1>2, WalkBegins DEF Open
  <2> QED BY <1>1, <2>1, <2>2, SpecialWalks DEF ListTypeOK, Tables
<1>3. ASSUME FetchNext
      PROVE  ListIInv'
  <2>1. memo' = memo /\ query' = query /\ edits' = edits /\ again' = Nothing
    BY <1>3 DEF FetchNext
  <2>2. shown' \in Walk /\ WalkTrue(memo, query, shown')
    BY <1>1, <1>3, WalkGoesOn DEF FetchNext
  <2> QED BY <1>1, <2>1, <2>2, SpecialWalks DEF ListTypeOK, Tables
<1>4. ASSUME Refetch
      PROVE  ListIInv'
  <2>1. memo' = memo /\ query' = query /\ edits' = edits /\ shown' = shown
    BY <1>4 DEF Refetch
  <2>2. again' \in Walk /\ WalkTrue(memo, query, again')
    BY <1>1, <1>4, WalkBegins DEF Refetch
  <2> QED BY <1>1, <2>1, <2>2 DEF ListTypeOK, Tables
<1>5. ASSUME RefetchNext
      PROVE  ListIInv'
  <2>1. memo' = memo /\ query' = query /\ edits' = edits /\ WalkTrue(memo, query, again)
    BY <1>5 DEF RefetchNext
  <2>2. CASE again.next # 0 /\ again.pages < shown.pages
    <3>1. shown' = shown /\ again' = WithPage(again, Serve(memo, query, again.next))
      BY <1>5, <2>2 DEF RefetchNext
    <3>2. again' \in Walk /\ WalkTrue(memo, query, again')
      BY <1>1, <2>1, <2>2, <3>1, WalkGoesOn
    <3> QED BY <1>1, <2>1, <3>1, <3>2 DEF ListTypeOK, Tables
  <2>3. CASE ~(again.next # 0 /\ again.pages < shown.pages)
    <3>1. shown' = again /\ again' = Nothing
      BY <1>5, <2>3 DEF RefetchNext
    <3> QED BY <1>1, <2>1, <3>1, SpecialWalks DEF ListTypeOK, Tables
  <2> QED BY <2>2, <2>3
<1>6. ASSUME RefetchFails
      PROVE  ListIInv'
  <2>1. memo' = memo /\ query' = query /\ edits' = edits /\ shown' = shown /\ again' = Nothing
    BY <1>6 DEF RefetchFails
  <2> QED BY <1>1, <2>1, SpecialWalks DEF ListTypeOK, Tables
<1>7. ASSUME NEW m \in Memos, Create(m) \/ Move(m) \/ Delete(m) \/ Pin(m) \/ Edit(m)
      PROVE  ListIInv'
  <2>1. PICK row \in Row : memo' = [memo EXCEPT ![m] = row]
    BY <1>7, ChangedTable
  <2>2. PICK now \in Tables : now = memo' /\ Elsewhere(memo, now, m)
    BY <1>1, <2>1 DEF Tables, Elsewhere
  <2>3. Change(m)
    BY <1>7 DEF Create, Move, Delete, Pin, Edit
  <2>4. /\ query' = query /\ edits' \in 0..MaxEdits
        /\ shown' = Disturbed(shown, m) /\ again' = Disturbed(again, m)
    BY <1>1, <2>3, ListConstants DEF Change
  <2>5. shown' \in Walk /\ WalkTrue(now, query, shown')
    BY <1>1, <2>2, <2>4, DisturbedWalk
  <2>6. CASE again = Nothing
    <3>1. again' = Nothing
      BY <2>4, <2>6 DEF Disturbed
    <3> QED BY <1>1, <2>2, <2>4, <2>5, <3>1, SpecialWalks DEF ListTypeOK, Tables
  <2>7. CASE again # Nothing
    <3>1. again' \in Walk /\ WalkTrue(now, query, again')
      BY <1>1, <2>2, <2>4, <2>7, DisturbedWalk
    <3> QED BY <1>1, <2>2, <2>4, <2>5, <3>1 DEF ListTypeOK, Tables
  <2> QED BY <2>6, <2>7
<1>8. ASSUME UNCHANGED listVars
      PROVE  ListIInv'
  BY <1>8 DEF listVars, ListTypeOK
<1> QED
  BY <1>2, <1>3, <1>4, <1>5, <1>6, <1>7, <1>8 DEF ListNext

LEMMA ListBegins ==
  ASSUME ListInit
  PROVE  ListIInv
<1>1. memo \in Tables /\ query \in Lists /\ again = Nothing /\ edits = 0
  BY DEF ListInit, Tables
<1>2. shown \in Walk /\ WalkTrue(memo, query, shown)
  BY <1>1, WalkBegins DEF ListInit
<1> QED
  BY <1>1, <1>2, SpecialWalks, ListConstants DEF ListIInv, ListTypeOK, Tables

LEMMA ListInvariant == ListSpec => []ListIInv
<1>1. ListInit => ListIInv
  BY ListBegins
<1>2. ListIInv /\ [ListNext]_listVars => ListIInv'
  BY ListInductive
<1> QED
  BY <1>1, <1>2, PTL DEF ListSpec

(* The table, the open list and the walks keep their types: every offset   *)
(* that a token names is a number, every row a memo.                       *)
THEOREM ListTypeCorrect == ListSpec => []ListTypeOK
<1>1. ListIInv => ListTypeOK
  BY DEF ListIInv
<1> QED
  BY <1>1, ListInvariant, PTL

(* Where nothing changed since a walk began, the rows of its pages are the *)
(* list from its top, each memo once and in order, whatever the page size, *)
(* and all that can be reached of it after the last page.  Where something *)
(* did, the rows of the memos that did not are still the list's.           *)
THEOREM PagesAreTrue == ListSpec => []PagesTrue
<1>1. ListIInv => PagesTrue
  <2> SUFFICES ASSUME ListIInv, NEW w \in {shown, again} \ {Nothing}
      PROVE  /\ w.quiet = "yes" =>
                  w.rows = IF w.next = 0 THEN Sorted(memo, Reached(memo, query))
                           ELSE Slice(memo, Reached(memo, query), 0, PageSize * w.pages)
             /\ In(w.rows) \cap w.steady \subseteq Matching(memo, query)
    BY DEF PagesTrue
  <2>1. WalkTrue(memo, query, w)
    BY DEF ListIInv
  <2> QED BY <2>1 DEF WalkTrue, RowsTrue, Span, Belong
<1> QED
  BY <1>1, ListInvariant, PTL

(* The parser keeps one clause of a kind, but for the flags of links, task *)
(* lists and code.  A filter that repeats no other kind is met in full: of *)
(* the memos that did not change since a walk began, only those are shown  *)
(* that every clause allows.                                               *)
THEOREM SingleClausesHold ==
  ASSUME \A q \in Lists : \A i, j \in DOMAIN q.filter :
           q.filter[i].kind = q.filter[j].kind /\ q.filter[i].kind # "has" => i = j
  PROVE  ListSpec => [](\A w \in {shown, again} \ {Nothing} :
                          \A m \in In(w.rows) \cap w.steady, i \in DOMAIN query.filter :
                            Meets(memo[m], query.filter[i]))
<1>1. ListIInv => \A w \in {shown, again} \ {Nothing} :
                    \A m \in In(w.rows) \cap w.steady, i \in DOMAIN query.filter :
                      Meets(memo[m], query.filter[i])
  <2> SUFFICES ASSUME ListIInv, NEW w \in {shown, again} \ {Nothing},
                      NEW m \in In(w.rows) \cap w.steady, NEW i \in DOMAIN query.filter
      PROVE  Meets(memo[m], query.filter[i])
    OBVIOUS
  <2>1. WalkTrue(memo, query, w) /\ query \in Lists
    BY DEF ListIInv, ListTypeOK
  <2>2. m \in Matching(memo, query)
    BY <2>1 DEF WalkTrue, Belong
  <2>3. query.filter \in Seq(Clause)
    BY <2>1, PagesAssumption
  <2>4. query.filter[i].kind \in SqlKinds \cup MemoryKinds
    <3>1. query.filter[i] \in Clause
      BY <2>3
    <3> QED BY <3>1 DEF Clause
  <2>5. i \in Counts(query.filter)
    <3>1. i \in Nat
      BY <2>3
    <3>2. \/ query.filter[i].kind = "has"
          \/ \A j \in DOMAIN query.filter : query.filter[j].kind = query.filter[i].kind => j = i
      BY <2>1
    <3> QED BY <3>1, <3>2 DEF Counts
  <2> QED BY <2>2, <2>4, <2>5 DEF Matching, Meant
<1> QED
  BY <1>1, ListInvariant, PTL

(* Of the memos that nobody touched since a walk began, its pages lack no  *)
(* more at their end than memos were moved, hidden or removed out of the   *)
(* pages in front of them.                                                 *)
THEOREM NothingSkipped == ListSpec => []NoneSkipped
<1>1. ListIInv => NoneSkipped
  <2> SUFFICES ASSUME ListIInv, NEW w \in {shown, again} \ {Nothing},
                      w.next = 0, w.whole = "yes"
      PROVE  Cardinality(Unread(w)) <= w.falls
    BY DEF NoneSkipped
  <2>1. WalkTrue(memo, query, w)
    BY DEF ListIInv
  <2>2. Unread(w) = Left(memo, query, w)
    BY DEF Unread, Left
  <2> QED BY <2>1, <2>2 DEF WalkTrue
<1> QED
  BY <1>1, ListInvariant, PTL
=============================================================================
