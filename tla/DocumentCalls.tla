-------------------------- MODULE DocumentCalls --------------------------
(***************************************************************************)
(* The JSON documents the server keeps in one row each: a user's personal  *)
(* access tokens, shortcuts, webhooks and general setting (user_setting),  *)
(* and the instance's settings (system_setting).  This module says what a  *)
(* call on a document asks for, and what it makes of the content it finds. *)
(*                                                                         *)
(* A document maps keys (the id of an item of a list, the name of a field) *)
(* to entries.  An entry is written by a call, and may carry a secret: a   *)
(* webhook's signing secret, the key of an AI provider.  The answers leave *)
(* it out (a webhook's is read by getSigningSecret alone), so that who     *)
(* sends back what an answer showed sends no secret.                       *)
(***************************************************************************)
EXTENDS FiniteSets

CONSTANTS Requests,  \* the calls of a behaviour
          Old,       \* a key that may be in the document before them
          Before,    \* the author of that entry
          NoOne

ASSUME Apart == /\ NoOne \notin Requests
                /\ Before \notin Requests
                /\ Old \notin Requests
                /\ Before # NoOne

(* A list item made by a call is named after the call: its id is a fresh   *)
(* crypto.randomUUID() or eight random bytes.                              *)
Keys == Requests \cup {Old}

UserKinds == {"tokens", "shortcuts", "webhooks", "general", "custom"}
Kinds == UserKinds \cup {"instance", "providers", "plain"}

Authors == Requests \cup {Before, NoOne}
Entry == [by: Authors, secret: Authors]
Absent == [by |-> NoOne, secret |-> NoOne]
Content == [Keys -> Entry]
Empty == [k \in Keys |-> Absent]
Has(c, k) == c[k].by # NoOne

StartContents ==
  {[Empty EXCEPT ![Old] = e]:
     e \in {Absent} \cup [by: {Before}, secret: {Before, NoOne}]}

Call(op, keys, sends) == [op |-> op, keys |-> keys, sends |-> sends]
AnyCall == [op: {"add", "change", "look", "remove", "merge", "replace", "provide"},
            keys: SUBSET Keys, sends: SUBSET Keys]

ASSUME NoCall == NoOne \notin AnyCall

(* POST .../personalAccessTokens, .../shortcuts and .../webhooks: an item  *)
(* of a new id; a webhook always gets a signing secret.                    *)
Additions(kind, r) ==
  IF kind \in {"tokens", "shortcuts", "webhooks"}
  THEN {Call("add", {r}, IF kind = "webhooks" THEN {r} ELSE {})}
  ELSE {}

(* DELETE of an item by its id.                                            *)
Removals(kind) ==
  IF kind \in {"tokens", "shortcuts", "webhooks"}
  THEN {Call("remove", {k}, {}): k \in Keys}
  ELSE {}

(* PATCH of an item: a shortcut whose mask names a field that the body     *)
(* leaves out is only looked at; a webhook may get a new secret.           *)
Changes(kind) ==
  CASE kind = "shortcuts" -> {Call(op, {k}, {}): op \in {"change", "look"}, k \in Keys}
    [] kind = "webhooks"  -> {Call("change", {k}, {}): k \in Keys}
                             \cup {Call("change", {k}, {k}): k \in Keys}
    [] OTHER              -> {}

(* PATCH of a setting.  "merge" overwrites the fields the call names,      *)
(* "replace" the whole value; "provide" is the list of AI providers, where *)
(* a provider sent without a key keeps the stored one.  The PATCH that     *)
(* knows neither tokens nor shortcuts writes what reads as an empty list.  *)
Settings(kind) ==
  (IF kind \in {"general", "instance"}
   THEN {Call("merge", ks, {}): ks \in SUBSET Keys \ {{}}} ELSE {})
  \cup
  (IF kind \in {"webhooks", "general", "custom", "plain"}
   THEN {Call("replace", ks, {}): ks \in SUBSET Keys} ELSE {})
  \cup
  (IF kind \in {"tokens", "shortcuts"} THEN {Call("replace", {}, {})} ELSE {})
  \cup
  (IF kind = "providers"
   THEN UNION {{Call("provide", ks, ss): ss \in SUBSET ks}: ks \in SUBSET Keys} ELSE {})

CallsOf(kind, r) == Additions(kind, r) \cup Removals(kind) \cup Changes(kind) \cup Settings(kind)

\* Mutant: a provider that is sent without its key loses the stored one.
WrittenBare(r, a, e) ==
  [by |-> r, secret |-> IF a.op \notin {"replace", "provide"} THEN e.secret ELSE NoOne]

(* An entry a call writes over what was there.                             *)
Written(r, a, e) ==
  [by |-> r,
   secret |-> IF a.op # "replace" THEN e.secret ELSE NoOne]

(* With the secret of the call itself, when it brings one.                 *)
Signed(r, a, k, e) ==
  IF k \in a.sends THEN [Written(r, a, e) EXCEPT !.secret = r] ELSE Written(r, a, e)

\* Mutant: the removed item leaves a hole in the document.
AppliedHoles(r, a, c) ==
  [k \in (IF a.op = "remove" THEN Keys \ a.keys ELSE Keys) |->
     IF k \in a.keys THEN Signed(r, a, k, c[k])
     ELSE IF a.op \in {"replace", "provide"} THEN Absent ELSE c[k]]

(* The content call a of request r makes of content c.                     *)
Applied(r, a, c) ==
  [k \in Keys |->
     IF k \in a.keys
     THEN IF a.op = "remove" THEN Absent ELSE Signed(r, a, k, c[k])
     ELSE IF a.op \in {"replace", "provide"} THEN Absent ELSE c[k]]

(* The call cannot be applied: the item it names is not there.             *)
Refuses(a, c) == a.op \in {"change", "remove", "look"} /\ \E k \in a.keys: ~Has(c, k)
=============================================================================
