----------------------------- MODULE Accounts -----------------------------
(***************************************************************************)
(* User accounts: registration, the profile PATCH with its rename, sign-in *)
(* through an identity provider with the registration it may make, and     *)
(* the identities a user links.  One action is one SQL statement with the  *)
(* computation up to the next one.                                         *)
(*                                                                         *)
(* On Node (better-sqlite3) the statements of a handler run in one chain   *)
(* of microtasks until it waits for the world outside: a body, the hash of *)
(* a password, the identity provider.  "turn" is the request whose chain   *)
(* is running.  On D1 every statement is a round trip of its own.          *)
(*                                                                         *)
(* The row that a request inserts is named after the request.              *)
(***************************************************************************)
EXTENDS FiniteSets

CONSTANTS Requests, Old,   \* rows of the user table: made here, or before
          Names,           \* usernames, and identifiers at the provider
          Providers,
          None

Ids == Requests \cup Old

ASSUME AccountsAssumption ==
  /\ Requests \cap Old = {}
  /\ None \notin Ids \cup Names \cup Providers

VARIABLES runtime,   \* "node" or "d1"
          closed,    \* "yes": general.disallowUserRegistration
          name,      \* the username of each row, None before it is inserted
          status,    \* row_status: "NORMAL" or "ARCHIVED"
          idps,      \* the identity providers that are configured
          links,     \* user_identity
          ask,       \* what each request asks for
          pc,        \* where its handler stands
          answer,    \* what it answered
          turn,
          first,     \* "yes": the registration counted no user
          uid,       \* the user id that a link request works with
          landed,    \* the rows that took the fields of a PATCH
          renamed,   \* the rows that took its new name
          shown,     \* the row the answer shows
          elders,    \* the NORMAL rows when a registration began
          gone       \* the rows that have been archived at some time

users == <<name, status, gone>>
marks == <<first, uid, landed, renamed, shown, elders>>
vars == <<runtime, closed, users, idps, links, ask, pc, answer, turn, marks>>

\* "profile": nickname, email, avatar, description, password, role.
Changes == {"nothing", "profile", "archive", "restore"}

\* "hopeful": a registration that asks for the role ADMIN without being one.
Registration == [kind: {"register"}, user: Names, wants: {"USER", "ADMIN", "hopeful"}]
Patch == {p \in [kind: {"patch"}, user: Names, to: Names, set: Changes]:
            p.to # p.user \/ p.set # "nothing"}
Sso == [kind: {"sso"}, user: Names, idp: Providers]
Link == [kind: {"link"}, user: Names, idp: Providers, extern: Names]
Unlink == [kind: {"unlink"}, user: Names, idp: Providers]
Ask == Registration \cup Patch \cup Sso \cup Link \cup Unlink

NoAsk == [kind |-> "none"]

Points == {"idle", "count", "look", "insert", "reget", "avatar", "signin",
           "fields", "clash", "rename", "reread",
           "fetch", "own", "other", "upsert", "show", "drop", "end"}

TypeOK ==
  /\ runtime \in {"node", "d1"} /\ closed \in {"yes", "no"}
  /\ name \in [Ids -> Names \cup {None}]
  /\ status \in [Ids -> {"NORMAL", "ARCHIVED"}]
  /\ idps \subseteq Providers
  /\ links \subseteq [user: Ids, idp: Providers, extern: Names]
  /\ ask \in [Requests -> Ask \cup {NoAsk}]
  /\ pc \in [Requests -> Points]
  /\ answer \in [Requests -> {"none", "ok", "exists", "denied", "missing", "failed"}]
  /\ turn \in Requests \cup {None}
  /\ first \in [Requests -> {"yes", "no"}]
  /\ uid \in [Requests -> Ids \cup {None}]
  /\ landed \in [Requests -> SUBSET Ids] /\ renamed \in [Requests -> SUBSET Ids]
  /\ shown \in [Requests -> SUBSET Ids] /\ elders \in [Requests -> SUBSET Ids]
  /\ gone \subseteq Ids

(* SELECT ... WHERE username = ?, of any state and of state NORMAL.        *)
Named(n) == {i \in Ids: name[i] = n}
Active(n) == {i \in Named(n): status[i] = "NORMAL"}
Normal == {i \in Ids: name[i] # None /\ status[i] = "NORMAL"}

(* It is the turn of r.  Wait: r waits for the world outside before p; Go: *)
(* it goes on to p at once; End: it answers.                               *)
MayRun(r, p) == pc[r] = p /\ (runtime = "d1" \/ turn \in {None, r})
Wait(r, p) == pc' = [pc EXCEPT ![r] = p] /\ turn' = None /\ UNCHANGED answer
Go(r, p) ==
  /\ pc' = [pc EXCEPT ![r] = p]
  /\ turn' = IF runtime = "node" THEN r ELSE None
  /\ UNCHANGED answer
End(r, v) == /\ pc' = [pc EXCEPT ![r] = "end"] /\ turn' = None
             /\ answer' = [answer EXCEPT ![r] = v]

(* The request arrives: its caller is known, the access checks are made    *)
(* and its body has been read.                                             *)
Begin(r, a) ==
  /\ MayRun(r, "idle")
  /\ ask' = [ask EXCEPT ![r] = a]
  /\ elders' = [elders EXCEPT ![r] = IF a.kind \in {"register", "sso"} THEN Normal ELSE {}]
  /\ UNCHANGED <<runtime, closed, users, idps, links, first, landed, renamed, shown>>

BeginRegister(r) ==
  \E a \in Registration: Begin(r, a) /\ Wait(r, "count") /\ UNCHANGED uid
BeginPatch(r) ==
  \E a \in Patch: Begin(r, a) /\ Wait(r, "fields") /\ UNCHANGED uid
BeginSso(r) ==
  \E a \in Sso: /\ Begin(r, a)
                /\ IF a.idp \in idps THEN Wait(r, "fetch") ELSE End(r, "missing")
                /\ UNCHANGED uid

(* POST and DELETE .../linkedIdentities look up the id of the user first.  *)
BeginIdentity(r) ==
  \E a \in Link \cup Unlink:
    /\ Begin(r, a)
    /\ \/ \E i \in Active(a.user): uid' = [uid EXCEPT ![r] = i]
       \/ Active(a.user) = {} /\ UNCHANGED uid
    /\ IF Active(a.user) = {} THEN End(r, "missing")
       ELSE IF a.kind = "unlink" THEN Go(r, "drop")
       ELSE IF a.idp \in idps THEN Wait(r, "own") ELSE End(r, "missing")

\* Mutant: the user of the name asked for is counted, not all users.
CountNamed(r) ==
  /\ MayRun(r, "count")
  /\ Go(r, "look")
  /\ first' = [first EXCEPT ![r] = IF Active(ask[r].user) = {} THEN "yes" ELSE "no"]
  /\ UNCHANGED <<runtime, closed, users, idps, links, ask, uid, landed, renamed, shown, elders>>

Count(r) ==
  /\ MayRun(r, "count")
  /\ IF closed = "yes" /\ Normal # {}
     THEN End(r, "denied") /\ UNCHANGED first
     ELSE /\ Go(r, "look")
          /\ first' = [first EXCEPT ![r] = IF Normal = {} THEN "yes" ELSE "no"]
  /\ UNCHANGED <<runtime, closed, users, idps, links, ask, uid, landed, renamed, shown, elders>>

(* The name is looked up among the NORMAL rows; then the password is hashed. *)
Look(r) ==
  /\ MayRun(r, "look")
  /\ IF Active(ask[r].user) # {} THEN End(r, "exists")
     ELSE IF ask[r].wants = "hopeful" /\ first[r] = "no" THEN End(r, "denied")
     ELSE Wait(r, "insert")
  /\ UNCHANGED <<runtime, closed, users, idps, links, ask, marks>>

(* Both fetches are answered; an account that does not exist is made.      *)
UserInfo(r) ==
  /\ MayRun(r, "fetch")
  /\ shown' = [shown EXCEPT ![r] = Active(ask[r].user)]
  /\ IF Active(ask[r].user) # {} THEN End(r, "ok")
     ELSE IF closed = "yes" THEN End(r, "denied")
     ELSE Wait(r, "insert")
  /\ UNCHANGED <<runtime, closed, users, idps, links, ask, first, uid, landed, renamed, elders>>

(* The provider refuses, or its identifier filter does.                    *)
Refused(r) ==
  /\ MayRun(r, "fetch") \/ MayRun(r, "own")
  /\ End(r, "denied")
  /\ UNCHANGED <<runtime, closed, users, idps, links, ask, marks>>

(* The role a row is made with: ADMIN when no user was counted, or when an *)
(* administrator asks for it.                                              *)
Granted(r) ==
  IF ask[r].kind = "sso" THEN "USER"
  ELSE IF first[r] = "yes" \/ ask[r].wants # "USER" THEN "ADMIN" ELSE "USER"

(* username is UNIQUE, whatever the state of the row that has it.          *)
Insert(r) ==
  /\ MayRun(r, "insert")
  /\ IF Named(ask[r].user) # {}
     THEN End(r, "failed") /\ UNCHANGED users
     ELSE /\ Go(r, "reget")
          /\ name' = [name EXCEPT ![r] = ask[r].user]
          /\ UNCHANGED <<status, gone>>
  /\ UNCHANGED <<runtime, closed, idps, links, ask, marks>>

Reget(r) ==
  /\ MayRun(r, "reget")
  /\ shown' = [shown EXCEPT ![r] = Active(ask[r].user)]
  /\ IF Active(ask[r].user) = {} THEN End(r, "failed")
     ELSE End(r, "ok") \/ (ask[r].kind = "sso" /\ Go(r, "avatar"))
  /\ UNCHANGED <<runtime, closed, users, idps, links, ask, first, uid, landed, renamed, elders>>

(* An avatar that the provider sent is stored, and the user read again.    *)
Avatar(r) ==
  /\ MayRun(r, "avatar")
  /\ landed' = [landed EXCEPT ![r] = Named(ask[r].user)]
  /\ Go(r, "signin")
  /\ UNCHANGED <<runtime, closed, users, idps, links, ask, first, uid, renamed, shown, elders>>

SignIn(r) ==
  /\ MayRun(r, "signin")
  /\ shown' = [shown EXCEPT ![r] = Active(ask[r].user)]
  /\ End(r, IF Active(ask[r].user) = {} THEN "missing" ELSE "ok")
  /\ UNCHANGED <<runtime, closed, users, idps, links, ask, first, uid, landed, renamed, elders>>

-----------------------------------------------------------------------------
(* updateUser, of whoever has the name now.                                *)
Fields(r) ==
  /\ MayRun(r, "fields")
  /\ LET a == ask[r]
         rows == Named(a.user)
     IN /\ landed' = [landed EXCEPT ![r] = IF a.set = "nothing" THEN {} ELSE rows]
        /\ status' = [i \in Ids |-> IF i \in rows /\ a.set = "archive" THEN "ARCHIVED"
                                    ELSE IF i \in rows /\ a.set = "restore" THEN "NORMAL"
                                    ELSE status[i]]
        /\ gone' = IF a.set = "archive" THEN gone \cup rows ELSE gone
        /\ Go(r, IF a.to = a.user THEN "reread" ELSE "clash")
  /\ UNCHANGED <<runtime, closed, name, idps, links, ask, first, uid, renamed, shown, elders>>

(* renameUser: a SELECT for the new name, then the UPDATE.                 *)
Clash(r) ==
  /\ MayRun(r, "clash")
  /\ IF Named(ask[r].to) # {} THEN End(r, "exists") ELSE Go(r, "rename")
  /\ UNCHANGED <<runtime, closed, users, idps, links, ask, marks>>

Rename(r) ==
  /\ MayRun(r, "rename")
  /\ LET rows == Named(ask[r].user) IN
     IF rows # {} /\ Named(ask[r].to) # {}
     THEN End(r, "failed") /\ UNCHANGED <<name, renamed>>
     ELSE /\ name' = [i \in Ids |-> IF i \in rows THEN ask[r].to ELSE name[i]]
          /\ renamed' = [renamed EXCEPT ![r] = rows]
          /\ Go(r, "reread")
  /\ UNCHANGED <<runtime, closed, status, gone, idps, links, ask,
                 first, uid, landed, shown, elders>>

Reread(r) ==
  /\ MayRun(r, "reread")
  /\ shown' = [shown EXCEPT ![r] = Named(ask[r].to)]
  /\ End(r, IF Named(ask[r].to) = {} THEN "missing" ELSE "ok")
  /\ UNCHANGED <<runtime, closed, users, idps, links, ask, first, uid, landed, renamed, elders>>

Finished == \A r \in Requests: pc[r] = "end"

(* DELETE /users/:username archives the row in one statement.              *)
Delete(n) ==
  /\ ~Finished /\ (runtime = "node" => turn = None)
  /\ status' = [i \in Ids |-> IF i \in Named(n) THEN "ARCHIVED" ELSE status[i]]
  /\ gone' = gone \cup Named(n)
  /\ UNCHANGED <<runtime, closed, name, idps, links, ask, pc, answer, turn, marks>>

-----------------------------------------------------------------------------
LinksOf(i, p) == {l \in links: l.user = i /\ l.idp = p}
Claims(p, e) == {l \in links: l.idp = p /\ l.extern = e}

\* Mutant: only the owner of the identity is looked up, not the user's own.
OwnUnchecked(r) ==
  /\ MayRun(r, "own") /\ Go(r, "other")
  /\ UNCHANGED <<runtime, closed, users, idps, links, ask, marks>>

(* The fetches are answered: getUserIdentity, then the identity's owner.   *)
Own(r) ==
  /\ MayRun(r, "own")
  /\ IF LinksOf(uid[r], ask[r].idp) # {} THEN End(r, "exists") ELSE Go(r, "other")
  /\ UNCHANGED <<runtime, closed, users, idps, links, ask, marks>>

Other(r) ==
  /\ MayRun(r, "other")
  /\ IF \E l \in Claims(ask[r].idp, ask[r].extern): l.user # uid[r]
     THEN End(r, "exists") ELSE Go(r, "upsert")
  /\ UNCHANGED <<runtime, closed, users, idps, links, ask, marks>>

\* Mutant: the username is stored for the user's id.
UpsertNamed(r) ==
  /\ MayRun(r, "upsert") /\ Go(r, "show")
  /\ links' = links \cup {[user |-> ask[r].user, idp |-> ask[r].idp, extern |-> ask[r].extern]}
  /\ UNCHANGED <<runtime, closed, users, idps, ask, marks>>

(* ON CONFLICT (user_id, provider) the row takes the new identity; that an *)
(* identity has one owner is a constraint that makes the statement fail.   *)
Upsert(r) ==
  /\ MayRun(r, "upsert")
  /\ LET l == [user |-> uid[r], idp |-> ask[r].idp, extern |-> ask[r].extern] IN
     IF \E m \in Claims(l.idp, l.extern): m.user # l.user
     THEN End(r, "failed") /\ UNCHANGED links
     ELSE Go(r, "show") /\ links' = (links \ LinksOf(l.user, l.idp)) \cup {l}
  /\ UNCHANGED <<runtime, closed, users, idps, ask, marks>>

Show(r) ==
  /\ MayRun(r, "show")
  /\ End(r, IF LinksOf(uid[r], ask[r].idp) = {} THEN "failed" ELSE "ok")
  /\ UNCHANGED <<runtime, closed, users, idps, links, ask, marks>>

Drop(r) ==
  /\ MayRun(r, "drop")
  /\ links' = links \ LinksOf(uid[r], ask[r].idp)
  /\ End(r, IF LinksOf(uid[r], ask[r].idp) = {} THEN "missing" ELSE "ok")
  /\ UNCHANGED <<runtime, closed, users, idps, ask, marks>>

(* POST and DELETE /identity-providers: the links of a provider stay.      *)
Configure(p) ==
  /\ ~Finished /\ (runtime = "node" => turn = None)
  /\ idps' = IF p \in idps THEN idps \ {p} ELSE idps \cup {p}
  /\ UNCHANGED <<runtime, closed, users, links, ask, pc, answer, turn, marks>>

-----------------------------------------------------------------------------
Serve(r) ==
  \/ BeginRegister(r) \/ BeginPatch(r) \/ BeginSso(r) \/ BeginIdentity(r)
  \/ Count(r) \/ Look(r) \/ UserInfo(r) \/ Refused(r)
  \/ Insert(r) \/ Reget(r) \/ Avatar(r) \/ SignIn(r)
  \/ Fields(r) \/ Clash(r) \/ Rename(r) \/ Reread(r)
  \/ Own(r) \/ Other(r) \/ Upsert(r) \/ Show(r) \/ Drop(r)

Next ==
  \/ \E r \in Requests: Serve(r)
  \/ \E n \in Names: Delete(n)
  \/ \E p \in Providers: Configure(p)
  \/ Finished /\ UNCHANGED vars

Init ==
  /\ runtime \in {"node", "d1"} /\ closed \in {"yes", "no"}
  /\ name \in [Ids -> Names \cup {None}]
  /\ \A r \in Requests: name[r] = None
  /\ \A i, j \in Old: name[i] = name[j] => i = j \/ name[i] = None
  /\ status = [i \in Ids |-> "NORMAL"]
  /\ idps = Providers
  /\ links \in SUBSET [user: Old, idp: Providers, extern: Names]
  /\ \A l, m \in links: l.idp = m.idp /\ (l.user = m.user \/ l.extern = m.extern) => l = m
  /\ \A l \in links: name[l.user] # None
  /\ ask = [r \in Requests |-> NoAsk]
  /\ pc = [r \in Requests |-> "idle"]
  /\ answer = [r \in Requests |-> "none"]
  /\ turn = None
  /\ first = [r \in Requests |-> "no"]
  /\ uid = [r \in Requests |-> None]
  /\ landed = [r \in Requests |-> {}] /\ renamed = [r \in Requests |-> {}]
  /\ shown = [r \in Requests |-> {}] /\ elders = [r \in Requests |-> {}]
  /\ gone = {}

Spec == Init /\ [][Next]_vars

-----------------------------------------------------------------------------
(* Who registers when an account is there becomes an administrator only if *)
(* one asked for it, and cannot register at all where that is closed; only *)
(* when all those accounts have been archived is the next one the first.   *)
Founders ==
  \A r \in Requests:
    /\ name[r] # None
    /\ closed = "yes" \/ (Granted(r) = "ADMIN" /\ ask[r].wants # "ADMIN")
    => elders[r] \subseteq gone

(* On Node the row that an ok answer shows is the row that the handler     *)
(* made, and that all its updates landed on: none of them finds another    *)
(* row under the name.  A rename that is refused has renamed nothing,      *)
(* though the fields sent with it are changed, on any runtime.             *)
OneRow ==
  \A r \in Requests:
    /\ answer[r] = "ok" /\ runtime = "node" =>
         /\ name[r] # None => shown[r] = {r} /\ landed[r] \subseteq {r}
         /\ ask[r].kind = "patch" =>
              /\ Cardinality(shown[r]) = 1
              /\ ask[r].set # "nothing" => landed[r] = shown[r]
              /\ ask[r].to # ask[r].user => renamed[r] = shown[r]
    /\ answer[r] = "exists" => renamed[r] = {}

(* A linked identity goes only when it is unlinked: on Node the check that *)
(* the user has no identity of the provider still holds at the upsert,     *)
(* which would replace it without a word.                                  *)
LinkStands ==
  [][runtime = "node" =>
       \A l \in links \ links': \E r \in Requests:
         pc[r] = "drop" /\ pc'[r] = "end" /\ uid[r] = l.user]_vars

(* Who links an identity of a provider can sign in with it: the sign-in is *)
(* answered with the account that the identity is linked to.               *)
LinkedSignsIn ==
  [][\A r \in Requests, l \in links:
       /\ ask[r].kind = "sso" /\ answer[r] = "none" /\ answer'[r] = "ok"
       /\ l \in Claims(ask[r].idp, ask[r].user) /\ status[l.user] = "NORMAL"
       => shown'[r] = {l.user}]_vars
=============================================================================
