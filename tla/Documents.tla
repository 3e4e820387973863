---------------------------- MODULE Documents ----------------------------
(***************************************************************************)
(* What a setting document promises to those who call it: every call takes *)
(* effect in one step, on the content of that moment, at most once; it is  *)
(* answered ok only when it took effect, "missing" only when the item it   *)
(* names was not there, and it may be lost, with or without its effect,    *)
(* but not half of it.  SettingDocuments shows which runtime keeps this.   *)
(***************************************************************************)
EXTENDS DocumentCalls

VARIABLES kind,      \* what the document is
          archived,  \* "yes": the user who owns it is archived
          doc,       \* its content
          call,      \* call[r]: what request r asks for, NoOne before
          taken,     \* the calls that took effect
          answer     \* answer[r]: "none", "ok", "missing", "failed", "lost"

avars == <<kind, archived, doc, call, taken, answer>>

(* An archived user's documents read as empty, and take no writes.         *)
Hidden == kind \in UserKinds /\ archived = "yes"
Visible == IF Hidden THEN Empty ELSE doc

AInit ==
  /\ kind \in Kinds
  /\ archived = "no"
  /\ doc \in StartContents
  /\ call = [r \in Requests |-> NoOne]
  /\ taken = {}
  /\ answer = [r \in Requests |-> "none"]

Waiting(r) == call[r] # NoOne /\ answer[r] = "none"

Ask(r) ==
  /\ call[r] = NoOne
  /\ \E a \in CallsOf(kind, r): call' = [call EXCEPT ![r] = a]
  /\ UNCHANGED <<kind, archived, doc, taken, answer>>

Take(r) ==
  /\ Waiting(r) /\ r \notin taken /\ call[r].op # "look"
  /\ ~Refuses(call[r], Visible)
  /\ doc' = IF Hidden THEN doc ELSE Applied(r, call[r], Visible)
  /\ taken' = taken \cup {r}
  /\ answer' \in {answer, [answer EXCEPT ![r] = "ok"]}
  /\ UNCHANGED <<kind, archived, call>>

Answer(r, v) ==
  /\ Waiting(r)
  /\ v = "ok" => r \in taken \/ call[r].op = "look"
  /\ v = "missing" => r \notin taken /\ Refuses(call[r], Visible)
  /\ v = "failed" => Hidden
  /\ answer' = [answer EXCEPT ![r] = v]
  /\ UNCHANGED <<kind, archived, doc, call, taken>>

Archive ==
  /\ archived' = IF archived = "yes" THEN "no" ELSE "yes"
  /\ UNCHANGED <<kind, doc, call, taken, answer>>

ANext ==
  \/ \E r \in Requests:
       \/ Ask(r) \/ Take(r)
       \/ \E v \in {"ok", "missing", "failed", "lost"}: Answer(r, v)
  \/ Archive

ASpec == AInit /\ [][ANext]_avars
=============================================================================
