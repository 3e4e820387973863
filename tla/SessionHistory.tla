--------------------------- MODULE SessionHistory ---------------------------
(***************************************************************************)
(* Sessions with history variables: what the read-then-write of the        *)
(* REFRESH_TOKENS document guarantees, and exactly when.                   *)
(*                                                                         *)
(* ideal is the store every handler is written for: one in which adding    *)
(* and removing a session is atomic.  raced are the users for whom two     *)
(* read-write windows have overlapped (or whose row changed its name or    *)
(* status inside one); outside raced the stored document is the ideal one. *)
(***************************************************************************)
EXTENDS Sessions

VARIABLES ideal,     \* per user, the sessions of an atomic store
          raced,     \* users whose document two requests wrote at once
          disturbed  \* requests that were running while a username changed

hvars == <<status, username, secret, docs, expired, req, ideal, raced, disturbed>>

\* The username whose document a request has read and will write.
Target(r) == IF req[r].pc = "dropWrite" THEN req[r].owner ELSE req[r].name

Holding(r) == req[r].pc \in Writing

HInit ==
  /\ Init
  /\ ideal = [u \in Users |-> {}]
  /\ raced = {}
  /\ disturbed = {}

\* What the write of request r does to a session set, were it atomic.
Intended(r, S) ==
  CASE req[r].pc = "addWrite" -> S \cup {r}
    [] req[r].pc = "clear"    -> {}
    [] OTHER                  -> S \ {req[r].cookie}

HDocWrite(r) ==
  /\ DocWrite(r)
  /\ ideal' = [u \in Users |-> IF u \in Holder(Target(r))
                               THEN Intended(r, ideal[u]) ELSE ideal[u]]
  /\ raced' = raced \cup {u \in Holder(Target(r)) :
                 \E q \in Requests \ {r} : Holding(q) /\ u \in Holder(Target(q))}
  /\ UNCHANGED disturbed

\* A row that appears, is renamed, archived or restored under a read document.
RowChange ==
  /\ raced' = raced \cup {u \in Users : /\ \/ status'[u] # status[u]
                                           \/ username'[u] # username[u]
                                        /\ \E q \in Requests : Holding(q)}
  /\ disturbed' =
       IF \E u \in Users : username'[u] \notin {username[u]} /\ username[u] # None
       THEN disturbed \cup {r \in Requests : req[r].pc \notin
                                {"idle", "done", "rejected"}}
       ELSE disturbed
  /\ UNCHANGED ideal

HNext ==
  \/ \E r \in Requests : HDocWrite(r)
  \/ \E r \in Requests : /\ Start(r) \/ OtherStep(r) \/ Crash(r)
                         /\ UNCHANGED <<ideal, raced, disturbed>>
  \/ \E r \in Requests : CreateUser(r) /\ RowChange
  \/ World /\ RowChange

HSpec == HInit /\ [][HNext]_hvars

-----------------------------------------------------------------------------
\* Without an overlap of two read-write windows the document is exactly what
\* the handlers intend: a refresh replaces its token, a sign-out empties the
\* document, no device loses its session to another one's request.
SerialUnlessRaced == \A u \in Users \ raced : docs[u] = ideal[u]

\* A user's document holds sessions of that user only, although every write is
\* addressed by username, unless a rename or an overlap intervened.
OwnSessions ==
  \A u \in Users \ raced : \A t \in docs[u] \ disturbed : req[t].uid = u

=============================================================================
