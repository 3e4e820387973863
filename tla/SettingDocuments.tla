------------------------- MODULE SettingDocuments -------------------------
(***************************************************************************)
(* The handlers that change a setting document, and the repository methods *)
(* they call: read the row, change its JSON, write the row back.  The two  *)
(* statements are not in a transaction.                                    *)
(*                                                                         *)
(* On Node the database (better-sqlite3) answers at once, so the awaits of *)
(* a repository method are microtasks and nobody else runs until the       *)
(* handler waits for something of the world outside (the request's body,   *)
(* a hash): "turn" is the request whose chain of microtasks is running.    *)
(* On D1 every statement is a round trip, and anything happens meanwhile.  *)
(***************************************************************************)
EXTENDS DocumentCalls

VARIABLES runtime,   \* "node" or "d1"
          kind, archived, doc, call, taken, answer,  \* as in Documents
          row,       \* "yes": the document's row exists
          pc,        \* pc[r]: where the handler of r stands
          copy,      \* copy[r]: the content r read
          turn,      \* on Node, the request in the middle of its microtasks
          late       \* the calls whose copy was overtaken before they wrote

vars == <<runtime, kind, archived, doc, call, taken, answer, row, pc, copy, turn, late>>

(* On Node the handlers implement Documents.  On D1 the mapping holds the   *)
(* abstract document still: there the refinement says nothing.             *)
OnNode(x, y) == IF runtime = "node" THEN x ELSE y

Abstract == INSTANCE Documents WITH
  archived <- OnNode(archived, "no"),
  doc <- OnNode(doc, Empty),
  call <- OnNode(call, [r \in Requests |-> NoOne]),
  taken <- OnNode(taken, {}),
  answer <- OnNode(answer, [r \in Requests |-> "none"])

Points == {"idle", "read", "write", "reread", "end"}

TypeOK ==
  /\ runtime \in {"node", "d1"}
  /\ kind \in Kinds
  /\ archived \in {"yes", "no"}
  /\ doc \in Content
  /\ call \in [Requests -> AnyCall \cup {NoOne}]
  /\ taken \subseteq Requests
  /\ answer \in [Requests -> {"none", "ok", "missing", "failed", "lost"}]
  /\ row \in {"yes", "no"}
  /\ pc \in [Requests -> Points]
  /\ copy \in [Requests -> Content]
  /\ turn \in Requests \cup {NoOne}
  /\ late \subseteq Requests

Hidden == kind \in UserKinds /\ archived = "yes"
Visible == IF Hidden THEN Empty ELSE doc

Init ==
  /\ runtime \in {"node", "d1"}
  /\ kind \in Kinds
  /\ archived = "no"
  /\ doc \in StartContents
  /\ call = [r \in Requests |-> NoOne]
  /\ taken = {}
  /\ answer = [r \in Requests |-> "none"]
  /\ row = IF Has(doc, Old) THEN "yes" ELSE "no"
  /\ pc = [r \in Requests |-> "idle"]
  /\ copy = [r \in Requests |-> Empty]
  /\ turn = NoOne
  /\ late = {}

(* It is the turn of r: on D1 always, on Node when no one else's chain of  *)
(* microtasks is running.                                                  *)
MayRun(r) == runtime = "d1" \/ turn \in {NoOne, r}

(* r goes on to point p without waiting for the world outside, or ends.    *)
Go(r, p) ==
  /\ pc' = [pc EXCEPT ![r] = p]
  /\ turn' = IF runtime = "node" /\ p # "end" THEN r ELSE NoOne

End(r, v) == Go(r, "end") /\ answer' = [answer EXCEPT ![r] = v]

(* A replacement is written unread, but for the general setting's, and     *)
(* a shortcut that is only looked at is not read before the answer is.     *)
First(a) ==
  IF a.op = "look" THEN "reread"
  ELSE IF a.op = "replace" /\ kind # "general" THEN "write"
  ELSE "read"

(* The document changes, or hides: the copies others read of it are old.   *)
Overtaken == {q \in Requests: pc[q] = "write" /\ First(call[q]) = "read"}

(* After its write the handler reads the row again to answer: the PATCH of *)
(* a setting whatever it finds there, that of an item to find the item.    *)
AnswersRow(a) ==
  \/ kind \in {"general", "custom"}
  \/ kind \in {"tokens", "shortcuts"} /\ a.op = "replace"
Rereads(a) == AnswersRow(a) \/ a.op = "change"

\* Mutant: the setting is read before the body, and not again after it.
BeginReading(r) ==
  /\ pc[r] = "idle" /\ MayRun(r)
  /\ \E a \in CallsOf(kind, r):
       /\ call' = [call EXCEPT ![r] = a]
       /\ pc' = [pc EXCEPT ![r] = IF First(a) = "read" THEN "write" ELSE First(a)]
  /\ copy' = [copy EXCEPT ![r] = Visible]
  /\ UNCHANGED <<runtime, kind, archived, doc, taken, answer, row, turn, late>>

(* The request is authenticated and its body read.  What createPat hashes  *)
(* it hashes before it reads, so that no wait separates read from write.   *)
Begin(r) ==
  /\ pc[r] = "idle" /\ MayRun(r)
  /\ \E a \in CallsOf(kind, r):
       /\ call' = [call EXCEPT ![r] = a]
       /\ pc' = [pc EXCEPT ![r] = First(a)]
  /\ UNCHANGED <<runtime, kind, archived, doc, taken, answer, row, copy, turn, late>>

\* Mutant: the handler waits (hashes, fetches) after it has read.
ReadAndWait(r) ==
  /\ pc[r] = "read" /\ MayRun(r)
  /\ copy' = [copy EXCEPT ![r] = Visible]
  /\ IF Refuses(call[r], Visible)
     THEN End(r, "missing")
     ELSE /\ pc' = [pc EXCEPT ![r] = "write"] /\ turn' = NoOne
          /\ UNCHANGED answer
  /\ UNCHANGED <<runtime, kind, archived, doc, call, taken, row, late>>

(* getUserSetting, getGeneralSetting, getInstanceSettingRaw.               *)
Read(r) ==
  /\ pc[r] = "read" /\ MayRun(r)
  /\ copy' = [copy EXCEPT ![r] = Visible]
  /\ IF Refuses(call[r], Visible)
     THEN IF kind = "shortcuts" /\ call[r].op = "change"
          THEN Go(r, "reread") /\ UNCHANGED answer
          ELSE End(r, "missing")
     ELSE Go(r, "write") /\ UNCHANGED answer
  /\ UNCHANGED <<runtime, kind, archived, doc, call, taken, row, late>>

(* upsertUserSetting writes no row for an archived user, and says nothing. *)
Write(r) ==
  /\ pc[r] = "write" /\ MayRun(r)
  /\ IF Hidden THEN UNCHANGED <<doc, row, late>>
     ELSE /\ doc' = Applied(r, call[r], copy[r])
          /\ row' = "yes"
          /\ late' = late \cup (Overtaken \ {r})
  /\ taken' = taken \cup {r}
  /\ copy' = [copy EXCEPT ![r] = Empty]
  /\ IF Rereads(call[r]) THEN Go(r, "reread") /\ UNCHANGED answer ELSE End(r, "ok")
  /\ UNCHANGED <<runtime, kind, archived, call>>

Reread(r) ==
  /\ pc[r] = "reread" /\ MayRun(r)
  /\ End(r, IF AnswersRow(call[r])
            THEN IF Hidden \/ row = "no" THEN "failed" ELSE "ok"
            ELSE IF Refuses(call[r], Visible) THEN "missing" ELSE "ok")
  /\ UNCHANGED <<runtime, kind, archived, doc, call, taken, row, copy, late>>

(* The worker is evicted, or the process killed, between two statements.   *)
Lose(r) ==
  /\ pc[r] \notin {"idle", "end"} /\ MayRun(r)
  /\ End(r, "lost")
  /\ UNCHANGED <<runtime, kind, archived, doc, call, taken, row, copy, late>>

(* DELETE /users/:username, or PATCH of its state, between the statements. *)
Archive ==
  /\ kind \in UserKinds
  /\ runtime = "node" => turn = NoOne
  /\ archived' = IF archived = "yes" THEN "no" ELSE "yes"
  /\ late' = late \cup Overtaken
  /\ UNCHANGED <<runtime, kind, doc, call, taken, answer, row, pc, copy, turn>>

Finished == \A r \in Requests: pc[r] = "end"

Next ==
  \/ \E r \in Requests: Begin(r) \/ Read(r) \/ Write(r) \/ Reread(r) \/ Lose(r)
  \/ Archive
  \/ Finished /\ UNCHANGED vars

Spec == Init /\ [][Next]_vars

(* The handlers of a Node server implement the abstract document: between  *)
(* reading a setting and writing it back no other call gets a turn.        *)
NodeImplements == Abstract!ASpec

(* A call writes back what it made of the content as it still stands; an   *)
(* older content is brought back only by a call that another write, or an  *)
(* archived owner, overtook, and on Node none ever is.                     *)
FreshUnlessLate ==
  /\ runtime = "node" => late = {}
  /\ \A r \in Overtaken \ late: copy[r] = Visible

(* A secret that is stored is never lost by a call that could not send it  *)
(* back: a webhook's goes with the settings PATCH that replaces the list,  *)
(* a provider's only with the provider, unless an overtaken call writes.   *)
SecretsKept ==
  [][\A k \in Keys:
       doc[k].secret # NoOne /\ Has(doc', k) /\ doc'[k].secret = NoOne =>
         \E r \in Requests: /\ pc[r] = "write" /\ pc'[r] # "write"
                            /\ call[r].op = "replace" \/ r \in late]_vars
=============================================================================
