------------------------------ MODULE Sessions ------------------------------
(***************************************************************************)
(* Sign-in, token refresh and sign-out of the memos server.                *)
(*                                                                         *)
(* The sessions of a user are ONE JSON document, the user_setting row      *)
(* REFRESH_TOKENS.  Every change of it is a SELECT, a change of the parsed *)
(* document in memory, and an upsert of the whole document: two SQL        *)
(* statements with an await between them and no transaction.  A request    *)
(* is a process; one action is one SQL statement together with the         *)
(* computation up to the next one, so any two requests interleave between  *)
(* statements.                                                             *)
(*                                                                         *)
(* A request is used once.  The random values it makes (the id of the      *)
(* refresh token it issues, the secret key it may install) are named by    *)
(* the request itself: crypto.randomUUID() never repeats.                  *)
(***************************************************************************)
EXTENDS FiniteSets

CONSTANTS Users,     \* rows of the user table, registered or not yet
          Names,     \* usernames
          Requests,  \* HTTP requests, each served at most once
          Seeded,    \* the users registered before the behaviour starts
          BootKey,   \* the secret key a seeded instance already has
          None

ASSUME SessionsAssumption ==
  /\ Seeded \subseteq Users
  /\ BootKey \notin Requests
  /\ None \notin Requests \cup Names \cup Users \cup {BootKey}

VARIABLES status,    \* row_status of each user
          username,  \* username of each user, None before the row exists
          secret,    \* system_setting.secret_key
          docs,      \* per user, the token ids in user_setting.REFRESH_TOKENS
          expired,   \* issued refresh tokens past their expiry
          req        \* the local state of each request

vars == <<status, username, secret, docs, expired, req>>

Kinds == {"unused", "register", "profile", "signin", "refresh", "signout"}

Pcs == {"idle", "ensureKey", "setKey", "create", "signKey", "userId",
        "refreshKey", "record", "checkExpiry", "purgeRead", "purgeWrite",
        "getUser", "rotateRead", "rotateWrite", "addRead", "addWrite",
        "authUser", "cookieKey", "cookieUser", "dropRead", "dropWrite",
        "clear", "done", "rejected"}

\* A request between the SELECT and the upsert of a session document.
Writing == {"purgeWrite", "rotateWrite", "dropWrite", "addWrite"}

NewRequest == [kind   |-> "unused", pc |-> "idle",
               name   |-> None,   \* the username the handler works with
               row    |-> None,   \* sign-in: the user whose password was checked
               uid    |-> None,   \* the user id signed into the tokens
               key    |-> None,   \* the secret read for signing or verifying
               cookie |-> None,   \* the refresh token presented
               owner  |-> None,   \* sign-out: username of the cookie's user
               snap   |-> {}]     \* the session document as it was read

TypeOK ==
  /\ status \in [Users -> {"ABSENT", "NORMAL", "ARCHIVED"}]
  /\ username \in [Users -> Names \cup {None}]
  /\ secret \in Requests \cup {BootKey, None}
  /\ docs \in [Users -> SUBSET Requests]
  /\ expired \subseteq Requests
  /\ req \in [Requests -> [kind   : Kinds,
                           pc     : Pcs,
                           name   : Names \cup {None},
                           row    : Users \cup {None},
                           uid    : Users \cup {None},
                           key    : Requests \cup {BootKey, None},
                           cookie : Requests \cup {None},
                           owner  : Names \cup {None},
                           snap   : SUBSET Requests]]

-----------------------------------------------------------------------------
\* The NORMAL rows with this username: at most one, the column is UNIQUE.
Holder(n) == {u \in Users : status[u] = "NORMAL" /\ username[u] = n}

\* Mutant: the stored JSON is used without being parsed into one list.
DocOfUnparsed(n) == {docs[u] : u \in Holder(n)}

\* getUserSetting: the document of the NORMAL user of that name, else empty.
DocOf(n) == UNION {docs[u] : u \in Holder(n)}

\* Mutant: the upsert forgets row_status = 'NORMAL'.
PutDocAnyState(n, d) ==
  docs' = [u \in Users |-> IF username[u] = n THEN d ELSE docs[u]]

\* upsertUserSetting: INSERT ... SELECT from the NORMAL user of that name, so
\* it writes nothing when there is none.
PutDoc(n, d) == docs' = [u \in Users |-> IF u \in Holder(n) THEN d ELSE docs[u]]

\* Tokens whose Set-Cookie reached a browser: any of them may be presented.
Delivered == {t \in Requests : /\ req[t].kind \in {"signin", "refresh"}
                               /\ req[t].pc = "done"}

\* verifyRefreshToken: signature under the current key, and the JWT's own exp.
Verifies(t, k) == req[t].key = k /\ t \notin expired

Goto(r, pc) == req' = [req EXCEPT ![r].pc = pc]

\* The request is over and issued no token: its locals are garbage.
Finish(r, pc) == req' = [req EXCEPT ![r] = [NewRequest EXCEPT !.kind = req[r].kind,
                                                              !.pc = pc]]

Reject(r) == Finish(r, "rejected")

Init ==
  /\ status = [u \in Users |-> IF u \in Seeded THEN "NORMAL" ELSE "ABSENT"]
  /\ username \in [Users -> Names \cup {None}]
  /\ \A u \in Users : (username[u] = None) <=> u \notin Seeded
  /\ \A u, v \in Seeded : username[u] = username[v] => u = v
  /\ secret = IF Seeded = {} THEN None ELSE BootKey
  /\ docs = [u \in Users |-> {}]
  /\ expired = {}
  /\ req = [r \in Requests |-> NewRequest]

-----------------------------------------------------------------------------
(* POST /users and GET /instance/profile: both begin with ensureSecretKey. *)

RegisterStart(r, n) ==
  /\ req[r].pc = "idle"
  /\ Holder(n) = {}
  /\ req' = [req EXCEPT ![r].kind = "register", ![r].pc = "ensureKey",
                        ![r].name = n]
  /\ UNCHANGED <<status, username, secret, docs, expired>>

ProfileStart(r) ==
  /\ req[r].pc = "idle"
  /\ req' = [req EXCEPT ![r].kind = "profile", ![r].pc = "ensureKey"]
  /\ UNCHANGED <<status, username, secret, docs, expired>>

AfterEnsure == [register |-> "create", profile |-> "done", signin |-> "signKey"]

\* Mutant: ensureSecretKey is no longer awaited for a missing key.
EnsureKeyReadOnly(r) ==
  /\ req[r].pc = "ensureKey"
  /\ Goto(r, AfterEnsure[req[r].kind])
  /\ UNCHANGED <<status, username, secret, docs, expired>>

EnsureKeyRead(r) ==
  /\ req[r].pc = "ensureKey"
  /\ Goto(r, IF secret = None THEN "setKey" ELSE AfterEnsure[req[r].kind])
  /\ UNCHANGED <<status, username, secret, docs, expired>>

\* The upsert replaces whatever key another caller installed meanwhile.
EnsureKeyWrite(r) ==
  /\ req[r].pc = "setKey"
  /\ secret' = r
  /\ Goto(r, AfterEnsure[req[r].kind])
  /\ UNCHANGED <<status, username, docs, expired>>

\* INSERT INTO user: the UNIQUE username counts archived rows too.
CreateUser(r) ==
  /\ req[r].pc = "create"
  /\ \/ /\ \E u \in Users : username[u] = req[r].name
        /\ Reject(r)
        /\ UNCHANGED <<status, username>>
     \/ /\ \A u \in Users : username[u] # req[r].name
        /\ \E u \in {v \in Users : status[v] = "ABSENT"} :
             /\ status' = [status EXCEPT ![u] = "NORMAL"]
             /\ username' = [username EXCEPT ![u] = req[r].name]
        /\ Finish(r, "done")
  /\ UNCHANGED <<secret, docs, expired>>

-----------------------------------------------------------------------------
(* POST /auth/signin                                                       *)

\* getUser and verifyPassword; a wrong name or password changes nothing.
SigninStart(r, u) ==
  /\ req[r].pc = "idle"
  /\ status[u] = "NORMAL"
  /\ req' = [req EXCEPT ![r].kind = "signin", ![r].pc = "ensureKey",
                        ![r].name = username[u], ![r].row = u]
  /\ UNCHANGED <<status, username, secret, docs, expired>>

SigninKey(r) ==
  /\ req[r].pc = "signKey"
  /\ req' = [req EXCEPT ![r].pc = "userId", ![r].key = secret]
  /\ UNCHANGED <<status, username, secret, docs, expired>>

\* getUserInternalId looks the user up a second time, by username.
SigninUserId(r) ==
  /\ req[r].pc = "userId"
  /\ \/ /\ Holder(req[r].name) = {}
        /\ Reject(r)
     \/ \E u \in Holder(req[r].name) :
          req' = [req EXCEPT ![r].pc = "addRead", ![r].uid = u]
  /\ UNCHANGED <<status, username, secret, docs, expired>>

-----------------------------------------------------------------------------
(* addRefreshSession and deleteRefreshToken: a read, then a whole write.   *)

DocRead(r, at, next, n) ==
  /\ req[r].pc = at
  /\ req' = [req EXCEPT ![r].pc = next, ![r].snap = DocOf(n)]
  /\ UNCHANGED <<status, username, secret, docs, expired>>

TokenDelete(r, at, next, n) ==
  /\ req[r].pc = at
  /\ PutDoc(n, req[r].snap \ {req[r].cookie})
  /\ IF next = "rejected" THEN Reject(r)
     ELSE req' = [req EXCEPT ![r].pc = next, ![r].snap = {}]
  /\ UNCHANGED <<status, username, secret, expired>>

AddRead(r) == DocRead(r, "addRead", "addWrite", req[r].name)

\* Mutant: the new document holds the new session only.
AddWriteFresh(r) ==
  /\ req[r].pc = "addWrite"
  /\ PutDoc(req[r].name, {r})
  /\ \E pc \in {"done", "rejected"} :
       req' = [req EXCEPT ![r].pc = pc, ![r].snap = {}, ![r].cookie = None,
                             ![r].row = None]
  /\ UNCHANGED <<status, username, secret, expired>>

\* The write that stores the new session, and the response that delivers it;
\* the response may be lost after the write.
AddWrite(r) ==
  /\ req[r].pc = "addWrite"
  /\ PutDoc(req[r].name, req[r].snap \cup {r})
  /\ \E pc \in {"done", "rejected"} :
       req' = [req EXCEPT ![r].pc = pc, ![r].snap = {}, ![r].cookie = None,
                             ![r].row = None]
  /\ UNCHANGED <<status, username, secret, expired>>

-----------------------------------------------------------------------------
(* POST /auth/refresh                                                      *)

RefreshStart(r, t) ==
  /\ req[r].pc = "idle"
  /\ t \in Delivered
  /\ req' = [req EXCEPT ![r].kind = "refresh", ![r].pc = "refreshKey",
                        ![r].cookie = t]
  /\ UNCHANGED <<status, username, secret, docs, expired>>

RefreshKey(r) ==
  /\ req[r].pc = "refreshKey"
  /\ IF Verifies(req[r].cookie, secret)
     THEN req' = [req EXCEPT ![r].pc = "record", ![r].key = secret,
                             ![r].uid = req[req[r].cookie].uid]
     ELSE Reject(r)
  /\ UNCHANGED <<status, username, secret, docs, expired>>

\* getRefreshTokenRecord: by the user id of the JWT, NORMAL users only.
RefreshRecord(r) ==
  LET u == req[r].uid IN
  /\ req[r].pc = "record"
  /\ IF status[u] = "NORMAL" /\ req[r].cookie \in docs[u]
     THEN req' = [req EXCEPT ![r].pc = "checkExpiry", ![r].name = username[u]]
     ELSE Reject(r)
  /\ UNCHANGED <<status, username, secret, docs, expired>>

\* The stored expiry is compared with a later clock than the JWT's was.
RefreshExpiry(r) ==
  /\ req[r].pc = "checkExpiry"
  /\ Goto(r, IF req[r].cookie \in expired THEN "purgeRead" ELSE "getUser")
  /\ UNCHANGED <<status, username, secret, docs, expired>>

PurgeRead(r)  == DocRead(r, "purgeRead", "purgeWrite", req[r].name)
PurgeWrite(r) == TokenDelete(r, "purgeWrite", "rejected", req[r].name)

RefreshUser(r) ==
  /\ req[r].pc = "getUser"
  /\ IF Holder(req[r].name) = {} THEN Reject(r) ELSE Goto(r, "rotateRead")
  /\ UNCHANGED <<status, username, secret, docs, expired>>

RotateRead(r)  == DocRead(r, "rotateRead", "rotateWrite", req[r].name)
RotateWrite(r) == TokenDelete(r, "rotateWrite", "addRead", req[r].name)

-----------------------------------------------------------------------------
(* POST /auth/signout, behind the bearer-token middleware                  *)

\* The bearer is the access token delivered with the session a; the browser
\* sends the refresh cookie c it has, if any.
SignoutStart(r, a, c) ==
  /\ req[r].pc = "idle"
  /\ a \in Delivered
  /\ req[a].key = secret
  /\ req' = [req EXCEPT ![r].kind = "signout", ![r].pc = "authUser",
                        ![r].uid = req[a].uid, ![r].name = req[a].name,
                        ![r].cookie = c]
  /\ UNCHANGED <<status, username, secret, docs, expired>>

\* The user's current name; the name in the token when the id is not NORMAL.
SignoutAuth(r) ==
  LET u == req[r].uid IN
  /\ req[r].pc = "authUser"
  /\ req' = [req EXCEPT ![r].pc = "cookieKey",
                        ![r].name = IF status[u] = "NORMAL" THEN username[u] ELSE @]
  /\ UNCHANGED <<status, username, secret, docs, expired>>

SignoutCookie(r) ==
  LET c == req[r].cookie IN
  /\ req[r].pc = "cookieKey"
  /\ req' = [req EXCEPT ![r].key = secret,
                        ![r].pc = IF c # None /\ Verifies(c, secret)
                                  THEN "cookieUser" ELSE "clear"]
  /\ UNCHANGED <<status, username, secret, docs, expired>>

SignoutOwner(r) ==
  LET u == req[req[r].cookie].uid IN
  /\ req[r].pc = "cookieUser"
  /\ IF status[u] = "NORMAL"
     THEN req' = [req EXCEPT ![r].pc = "dropRead", ![r].owner = username[u]]
     ELSE Goto(r, "clear")
  /\ UNCHANGED <<status, username, secret, docs, expired>>

DropRead(r)  == DocRead(r, "dropRead", "dropWrite", req[r].owner)
DropWrite(r) == TokenDelete(r, "dropWrite", "clear", req[r].owner)

\* deleteRefreshSessionsForUser: an upsert of the empty document, no read.  A
\* PATCH of settings/REFRESH_TOKENS by the user writes what reads as no sessions,
\* and is the sign-out of a browser without a cookie.
SignoutClear(r) ==
  /\ req[r].pc = "clear"
  /\ PutDoc(req[r].name, {})
  /\ Finish(r, "done")
  /\ UNCHANGED <<status, username, secret, expired>>

-----------------------------------------------------------------------------
(* The rest of the server and the world.                                   *)

\* Mutant: a failed refresh puts the old session back.
CrashRestores(r) ==
  /\ req[r].pc \notin {"idle", "done", "rejected"}
  /\ IF req[r].pc = "addRead" /\ req[r].cookie # None
     THEN PutDoc(req[r].name, DocOf(req[r].name) \cup {req[r].cookie})
     ELSE UNCHANGED docs
  /\ Reject(r)
  /\ UNCHANGED <<status, username, secret, expired>>

\* A failed statement (500) or a process exit: the request stops where it is.
Crash(r) ==
  /\ req[r].pc \notin {"idle", "done", "rejected"}
  /\ Reject(r)
  /\ UNCHANGED <<status, username, secret, docs, expired>>

\* DELETE /users/{user}, and PATCH of state, which can also restore.
SetState(u, s) ==
  /\ status[u] \notin {"ABSENT", s}
  /\ status' = [status EXCEPT ![u] = s]
  /\ UNCHANGED <<username, secret, docs, expired, req>>

\* Mutant: a rename that only looks for a clash among NORMAL users.
RenameNormalClash(u, n) ==
  /\ status[u] # "ABSENT"
  /\ Holder(n) = {}
  /\ username' = [username EXCEPT ![u] = n]
  /\ UNCHANGED <<status, secret, docs, expired, req>>

Rename(u, n) ==
  /\ status[u] # "ABSENT"
  /\ \A v \in Users : username[v] # n
  /\ username' = [username EXCEPT ![u] = n]
  /\ UNCHANGED <<status, secret, docs, expired, req>>

Expire(t) ==
  /\ t \in Delivered \ expired
  /\ expired' = expired \cup {t}
  /\ UNCHANGED <<status, username, secret, docs, req>>

\* Upserts of a session document.
DocWrite(r) == \/ PurgeWrite(r) \/ RotateWrite(r) \/ DropWrite(r)
               \/ AddWrite(r) \/ SignoutClear(r)

\* Statements that read, and the install of the secret key.
OtherStep(r) ==
  \/ EnsureKeyRead(r) \/ EnsureKeyWrite(r) \/ SigninKey(r) \/ SigninUserId(r)
  \/ RefreshKey(r) \/ RefreshRecord(r) \/ RefreshExpiry(r) \/ RefreshUser(r)
  \/ SignoutAuth(r) \/ SignoutCookie(r) \/ SignoutOwner(r)
  \/ AddRead(r) \/ PurgeRead(r) \/ RotateRead(r) \/ DropRead(r)

Start(r) ==
  \/ \E n \in Names : RegisterStart(r, n)
  \/ ProfileStart(r)
  \/ \E u \in Users : SigninStart(r, u)
  \/ \E t \in Requests : RefreshStart(r, t)
  \/ \E a \in Requests, c \in Delivered \cup {None} : SignoutStart(r, a, c)

World ==
  \/ \E u \in Users, s \in {"NORMAL", "ARCHIVED"} : SetState(u, s)
  \/ \E u \in Users, n \in Names : Rename(u, n)
  \/ \E t \in Requests : Expire(t)

RequestStep(r) ==
  Start(r) \/ OtherStep(r) \/ CreateUser(r) \/ DocWrite(r) \/ Crash(r)

Next == (\E r \in Requests : RequestStep(r)) \/ World

Spec == Init /\ [][Next]_vars

-----------------------------------------------------------------------------
\* A token that is gone: its request is over, no stored document holds it and
\* no request carries it in the document it has read and will write back.
Gone(t) ==
  /\ req[t].pc \in {"done", "rejected"}
  /\ \A u \in Users : t \notin docs[u]
  /\ \A r \in Requests : t \notin req[r].snap

\* A refresh token that was rotated, purged or signed out stays unusable: only
\* a request that had already read it (addRefreshSession, deleteRefreshToken)
\* can bring it back, and once none is left no later sequence of sign-ins,
\* refreshes, sign-outs, renames, crashes or restored accounts does.
NoResurrection == [][\A t \in Requests : Gone(t) => Gone(t)']_vars

\* upsertUserSetting selects from the NORMAL user: a request that read the
\* document before the account was archived cannot write it afterwards.
ArchivedFrozen ==
  [][\A u \in Users : status[u] = "ARCHIVED" => docs'[u] = docs[u]]_vars

\* Every row has a username of its own, archived rows included, so that the
\* lookups by username that the session code repeats are unambiguous.
UniqueNames ==
  \A u, v \in Users : username[u] = username[v] /\ username[u] # None => u = v

\* The "!" of (await repo.getSecretKey())! is justified: no request signs or
\* verifies a token before a key is installed, because whatever creates the
\* first user has run ensureSecretKey to its end.
KeyNeverMissing ==
  /\ (\E u \in Users : status[u] # "ABSENT") => secret # None
  /\ \A r \in Requests :
       req[r].pc \in {"userId", "record", "addRead", "addWrite", "clear"}
         => req[r].key # None

=============================================================================
