-------------------------- MODULE Accounts_proofs --------------------------
(***************************************************************************)
(* Proofs about Accounts: its type invariant, who becomes an administrator *)
(* unasked, that a Node handler works on one row, and that a linked        *)
(* identity goes only when it is unlinked.                                 *)
(***************************************************************************)
EXTENDS Accounts, FiniteSetTheorems, TLAPS

(* What a request asks for, at each point of its handler.                  *)
KindRight(r) ==
  /\ pc[r] \in {"count", "look"} => ask[r] \in Registration
  /\ pc[r] \in {"insert", "reget"} => ask[r] \in Registration \cup Sso
  /\ pc[r] \in {"fetch", "avatar", "signin"} => ask[r] \in Sso
  /\ pc[r] \in {"fields", "clash", "rename", "reread"} => ask[r] \in Patch
  /\ pc[r] \in {"own", "other", "upsert", "show"} => ask[r] \in Link /\ uid[r] \in Ids
  /\ pc[r] = "drop" => ask[r] \in Unlink /\ uid[r] \in Ids

Typed == TypeOK /\ \A r \in Requests: KindRight(r)

(* The rows: one for a name, and who is archived has been noted.           *)
RowsRight ==
  /\ \A i, j \in Ids: name[i] # None /\ name[i] = name[j] => i = j
  /\ \A i \in Ids: status[i] = "ARCHIVED" => i \in gone
  /\ \A i \in Ids: name[i] = None => status[i] = "NORMAL"

(* What a registration knows of the accounts that were there before it.    *)
FounderRight(r) ==
  /\ name[r] # None => /\ pc[r] \in {"reget", "avatar", "signin", "end"}
                       /\ ask[r] \in Registration \cup Sso
  /\ \A i \in elders[r]: name[i] # None
  /\ ask[r].kind = "register" /\ (pc[r] \in {"look", "insert"} \/ name[r] # None) =>
       /\ first[r] = "yes" \/ closed = "yes" => elders[r] \subseteq gone
       /\ pc[r] # "look" /\ ask[r].wants = "hopeful" => first[r] = "yes"
  /\ ask[r].kind = "sso" /\ (pc[r] = "insert" \/ name[r] # None) => closed = "no"

(* The points that a Node handler reaches without giving its turn away.    *)
Chain == {"look", "reget", "avatar", "signin", "clash", "rename", "reread",
          "other", "upsert", "show", "drop"}

(* What a Node handler knows in the middle of its chain.                   *)
ChainRight(r) ==
  LET a == ask[r] IN
  /\ pc[r] \in Chain => turn = r
  /\ pc[r] \in {"reget", "avatar", "signin"} => name[r] = a.user /\ status[r] = "NORMAL"
  /\ pc[r] = "signin" => landed[r] = {r}
  /\ pc[r] \in {"clash", "rename"} =>
       a.to # a.user /\ (a.set # "nothing" => landed[r] = Named(a.user))
  /\ pc[r] = "rename" => Named(a.to) = {}
  /\ pc[r] = "reread" => /\ a.set # "nothing" => landed[r] = Named(a.to)
                         /\ a.to # a.user => renamed[r] = Named(a.to)
  /\ pc[r] \in {"other", "upsert"} => LinksOf(uid[r], a.idp) = {}

RowRight(r) ==
  /\ (answer[r] = "none") <=> (pc[r] # "end")
  /\ renamed[r] # {} => pc[r] \in {"reread", "end"} /\ answer[r] # "exists"
  /\ pc[r] \in {"idle", "count", "look", "insert", "fetch", "reget", "avatar"} => landed[r] = {}
  /\ runtime = "node" => ChainRight(r)

(* OneRow of one request.                                                  *)
Shows(r) ==
  /\ answer[r] = "ok" /\ runtime = "node" =>
       /\ name[r] # None => shown[r] = {r} /\ landed[r] \subseteq {r}
       /\ ask[r].kind = "patch" =>
            /\ Cardinality(shown[r]) = 1
            /\ ask[r].set # "nothing" => landed[r] = shown[r]
            /\ ask[r].to # ask[r].user => renamed[r] = shown[r]
  /\ answer[r] = "exists" => renamed[r] = {}

Right(r) == FounderRight(r) /\ RowRight(r) /\ Shows(r)

IInv == Typed /\ RowsRight /\ \A r \in Requests: Right(r)

-----------------------------------------------------------------------------
(* Type correctness.                                                       *)

LEMMA TypeInit == Init => Typed
<1> SUFFICES ASSUME Init PROVE Typed
  OBVIOUS
<1>1. NoAsk \in Ask \cup {NoAsk}
  OBVIOUS
<1>2. links \subseteq [user: Ids, idp: Providers, extern: Names]
  BY DEF Init, Ids
<1> QED
  BY <1>1, <1>2 DEF Init, Typed, TypeOK, KindRight, Points

(* Where each step of a request takes it.                                  *)
LEMMA TypeBegin ==
  ASSUME Typed, NEW r \in Requests,
         BeginRegister(r) \/ BeginPatch(r) \/ BeginSso(r) \/ BeginIdentity(r)
  PROVE  Typed'
<1> USE DEF Typed, TypeOK
<1>0. Normal \subseteq Ids
  BY DEF Normal
<1>1. CASE BeginRegister(r)
  <2>1. PICK a \in Registration: Begin(r, a) /\ Wait(r, "count") /\ UNCHANGED uid
    BY <1>1 DEF BeginRegister
  <2>2. TypeOK'
    BY <1>0, <2>1 DEF Begin, Wait, users, Ask, Points
  <2> QED
    BY <2>1, <2>2 DEF Begin, Wait, KindRight
<1>2. CASE BeginPatch(r)
  <2>1. PICK a \in Patch: Begin(r, a) /\ Wait(r, "fields") /\ UNCHANGED uid
    BY <1>2 DEF BeginPatch
  <2>2. TypeOK'
    BY <1>0, <2>1 DEF Begin, Wait, users, Ask, Points
  <2> QED
    BY <2>1, <2>2 DEF Begin, Wait, KindRight
<1>3. CASE BeginSso(r)
  <2>1. PICK a \in Sso: Begin(r, a) /\ (Wait(r, "fetch") \/ End(r, "missing")) /\ UNCHANGED uid
    BY <1>3 DEF BeginSso
  <2>2. TypeOK'
    BY <1>0, <2>1 DEF Begin, Wait, End, users, Ask, Points
  <2> QED
    BY <2>1, <2>2 DEF Begin, Wait, End, KindRight
<1>4. CASE BeginIdentity(r)
  <2>1. PICK a \in Link \cup Unlink:
          /\ Begin(r, a)
          /\ \/ \E i \in Ids: uid' = [uid EXCEPT ![r] = i]
             \/ Active(a.user) = {} /\ UNCHANGED uid
          /\ IF Active(a.user) = {} THEN End(r, "missing")
             ELSE IF a.kind = "unlink" THEN Go(r, "drop")
             ELSE IF a.idp \in idps THEN Wait(r, "own") ELSE End(r, "missing")
    BY <1>4 DEF BeginIdentity, Active, Named
  <2>2. uid' \in [Requests -> Ids \cup {None}]
    BY <2>1
  <2>3. \/ End(r, "missing")
        \/ Go(r, "drop") /\ a \in Unlink /\ uid'[r] \in Ids
        \/ Wait(r, "own") /\ a \in Link /\ uid'[r] \in Ids
    BY <2>1 DEF Link, Unlink
  <2>4. TypeOK'
    BY <1>0, <2>1, <2>2, <2>3 DEF Begin, Wait, End, Go, users, Ask, Points
  <2>5. \A q \in Requests \ {r}: uid'[q] = uid[q]
    BY <2>1
  <2> QED
    BY <2>1, <2>3, <2>4, <2>5 DEF Begin, Wait, End, Go, KindRight
<1> QED
  BY <1>1, <1>2, <1>3, <1>4

LEMMA TypeServe ==
  ASSUME Typed, NEW r \in Requests, Serve(r)
  PROVE  Typed'
<1> USE DEF Typed, TypeOK
<1>0. Normal \subseteq Ids /\ (\A n: Named(n) \subseteq Ids /\ Active(n) \subseteq Ids)
  BY DEF Normal, Named, Active
<1>1. CASE Count(r)
  BY <1>1 DEF Count, MayRun, Go, End, users, KindRight, Points
<1>2. CASE Look(r)
  BY <1>2 DEF Look, MayRun, Wait, End, users, marks, KindRight, Points
<1>3. CASE UserInfo(r)
  BY <1>0, <1>3 DEF UserInfo, MayRun, Wait, End, users, KindRight, Points
<1>4. CASE Refused(r)
  BY <1>4 DEF Refused, MayRun, End, users, marks, KindRight, Points
<1>5. CASE Insert(r)
  <2>1. ask[r].user \in Names
    BY <1>5 DEF Insert, MayRun, KindRight, Registration, Sso
  <2> QED
    BY <1>5, <2>1 DEF Insert, MayRun, Go, End, users, marks, KindRight, Points, Ids
<1>6. CASE Reget(r)
  <2>1. ask[r].kind = "sso" => ask[r] \in Sso
    BY <1>6 DEF Reget, MayRun, KindRight, Registration
  <2> QED
    BY <1>0, <1>6, <2>1 DEF Reget, MayRun, Go, End, users, KindRight, Points
<1>7. CASE Avatar(r)
  BY <1>0, <1>7 DEF Avatar, MayRun, Go, users, KindRight, Points
<1>8. CASE SignIn(r)
  BY <1>0, <1>8 DEF SignIn, MayRun, End, users, KindRight, Points
<1>9. CASE Fields(r)
  BY <1>0, <1>9 DEF Fields, MayRun, Go, users, KindRight, Points
<1>10. CASE Clash(r)
  BY <1>10 DEF Clash, MayRun, Go, End, users, marks, KindRight, Points
<1>11. CASE Rename(r)
  <2>1. ask[r].to \in Names
    BY <1>11 DEF Rename, MayRun, KindRight, Patch
  <2> QED
    BY <1>0, <1>11, <2>1 DEF Rename, MayRun, Go, End, users, KindRight, Points
<1>12. CASE Reread(r)
  BY <1>0, <1>12 DEF Reread, MayRun, End, users, KindRight, Points
<1>13. CASE Own(r)
  BY <1>13 DEF Own, MayRun, Go, End, users, marks, KindRight, Points
<1>14. CASE Other(r)
  BY <1>14 DEF Other, MayRun, Go, End, users, marks, KindRight, Points
<1>15. CASE Upsert(r)
  <2>1. [user |-> uid[r], idp |-> ask[r].idp, extern |-> ask[r].extern]
          \in [user: Ids, idp: Providers, extern: Names]
    BY <1>15 DEF Upsert, MayRun, KindRight, Link
  <2> QED
    BY <1>15, <2>1 DEF Upsert, MayRun, Go, End, users, marks, KindRight, Points
<1>16. CASE Show(r)
  BY <1>16 DEF Show, MayRun, End, users, marks, KindRight, Points
<1>17. CASE Drop(r)
  BY <1>17 DEF Drop, MayRun, End, users, marks, KindRight, Points
<1> QED
  BY <1>1, <1>2, <1>3, <1>4, <1>5, <1>6, <1>7, <1>8, <1>9, <1>10, <1>11, <1>12,
     <1>13, <1>14, <1>15, <1>16, <1>17, TypeBegin DEF Serve

LEMMA TypeNext == Typed /\ [Next]_vars => Typed'
<1> SUFFICES ASSUME Typed, [Next]_vars PROVE Typed'
  OBVIOUS
<1>1. CASE \E n \in Names: Delete(n)
  BY <1>1 DEF Typed, TypeOK, Delete, marks, KindRight, Named
<1>2. CASE \E p \in Providers: Configure(p)
  BY <1>2 DEF Typed, TypeOK, Configure, users, marks, KindRight
<1>3. CASE UNCHANGED vars
  BY <1>3 DEF Typed, TypeOK, vars, users, marks, KindRight
<1> QED
  BY <1>1, <1>2, <1>3, TypeServe DEF Next

(* The variables keep their types: no handler answers twice or stores a    *)
(* username where the id of a row belongs.                                 *)
THEOREM TypeCorrect == Spec => []TypeOK
<1>1. Typed => TypeOK
  BY DEF Typed
<1> QED
  BY TypeInit, TypeNext, <1>1, PTL DEF Spec

-----------------------------------------------------------------------------
(* The other steps leave a request alone.                                  *)

Mine(r) == <<pc[r], ask[r], answer[r], first[r], uid[r],
             landed[r], renamed[r], shown[r], elders[r]>>

(* Where a step can be taken.                                              *)
LEMMA Turns ==
  ASSUME NEW r \in Requests, Serve(r), runtime = "node"
  PROVE  turn \in {None, r}
<1> USE DEF MayRun
<1>1. CASE BeginRegister(r) \/ BeginPatch(r) \/ BeginSso(r) \/ BeginIdentity(r)
  BY <1>1 DEF BeginRegister, BeginPatch, BeginSso, BeginIdentity, Begin
<1> QED
  BY <1>1 DEF Serve, Count, Look, UserInfo, Refused, Insert, Reget, Avatar, SignIn, Fields,
     Clash, Rename, Reread, Own, Other, Upsert, Show, Drop

(* A handler changes only what is its own of the requests' variables.      *)
LEMMA OwnOnly ==
  ASSUME Typed, NEW q \in Requests, Serve(q), NEW r \in Requests, r # q
  PROVE  Mine(r)' = Mine(r) /\ runtime' = runtime /\ closed' = closed
<1> USE DEF Typed, TypeOK, Mine, Go, Wait, End, users, marks
<1>1. CASE BeginRegister(q) \/ BeginPatch(q) \/ BeginSso(q)
  BY <1>1 DEF BeginRegister, BeginPatch, BeginSso, Begin
<1>2. CASE BeginIdentity(q)
  BY <1>2 DEF BeginIdentity, Begin
<1>3. CASE Count(q) \/ Look(q) \/ UserInfo(q) \/ Refused(q)
  BY <1>3 DEF Count, Look, UserInfo, Refused
<1>4. CASE Insert(q) \/ Reget(q) \/ Avatar(q) \/ SignIn(q)
  BY <1>4 DEF Insert, Reget, Avatar, SignIn
<1>5. CASE Fields(q) \/ Clash(q) \/ Rename(q) \/ Reread(q)
  BY <1>5 DEF Fields, Clash, Rename, Reread
<1>6. CASE Own(q) \/ Other(q) \/ Upsert(q) \/ Show(q) \/ Drop(q)
  BY <1>6 DEF Own, Other, Upsert, Show, Drop
<1> QED
  BY <1>1, <1>2, <1>3, <1>4, <1>5, <1>6 DEF Serve

(* Which actions change the rows, and which the links.                     *)
LEMMA RowsKept ==
  ASSUME NEW q \in Requests, Serve(q), ~Insert(q), ~Fields(q), ~Rename(q)
  PROVE  name' = name /\ status' = status /\ gone' = gone
  BY DEF Serve, BeginRegister, BeginPatch, BeginSso, BeginIdentity, Begin, Count, Look,
     UserInfo, Refused, Reget, Avatar, SignIn, Clash, Reread, Own, Other, Upsert, Show, Drop,
     users

LEMMA LinksKept ==
  ASSUME NEW q \in Requests, Serve(q), ~Upsert(q), ~Drop(q)
  PROVE  links' = links
  BY DEF Serve, BeginRegister, BeginPatch, BeginSso, BeginIdentity, Begin, Count, Look,
     UserInfo, Refused, Insert, Reget, Avatar, SignIn, Fields, Clash, Rename, Reread,
     Own, Other, Show

(* A name that is taken stays taken by its row, under this name or another. *)
LEMMA RowsNext ==
  ASSUME Typed, RowsRight, NEW q \in Requests, Serve(q)
  PROVE  /\ RowsRight'
         /\ gone \subseteq gone'
         /\ \A i \in Ids: name[i] # None => name'[i] # None
         /\ \A r \in Requests \ {q}: name[r] = None => name'[r] = None
<1> USE DEF Typed, TypeOK, RowsRight
<1>1. CASE Insert(q)
  <2>1. ask[q].user \in Names
    BY <1>1 DEF Insert, MayRun, KindRight, Registration, Sso
  <2>2. ask[q].user # None
    BY <2>1, AccountsAssumption
  <2>3. CASE Named(ask[q].user) # {}
    BY <1>1, <2>3 DEF Insert, users
  <2>4. CASE Named(ask[q].user) = {}
    <3>1. \A i \in Ids: name[i] # ask[q].user
      BY <2>4 DEF Named
    <3>2. name' = [name EXCEPT ![q] = ask[q].user] /\ status' = status /\ gone' = gone
      BY <1>1, <2>4 DEF Insert
    <3>3. q \in Ids /\ q \in DOMAIN name
      BY DEF Ids
    <3> QED
      BY <2>2, <3>1, <3>2, <3>3
  <2> QED
    BY <2>3, <2>4
<1>2. CASE Fields(q)
  <2>1. name' = name
    BY <1>2 DEF Fields
  <2>2. \A i \in Ids: i \in Named(ask[q].user) => name[i] # None
    BY <1>2, AccountsAssumption DEF Fields, MayRun, KindRight, Patch, Named
  <2>3. gone \subseteq gone' /\ \A i \in Ids: status'[i] = "ARCHIVED" => i \in gone'
    BY <1>2 DEF Fields
  <2>4. \A i \in Ids: i \notin Named(ask[q].user) => status'[i] = status[i]
    BY <1>2 DEF Fields
  <2> QED
    BY <2>1, <2>2, <2>3, <2>4
<1>3. CASE Rename(q)
  <2>1. ask[q].to \in Names /\ ask[q].user \in Names
    BY <1>3 DEF Rename, MayRun, KindRight, Patch
  <2>2. status' = status /\ gone' = gone
    BY <1>3 DEF Rename
  <2>3. CASE name' = name
    BY <2>2, <2>3
  <2>4. CASE name' # name
    <3>1. /\ Named(ask[q].user) # {} => Named(ask[q].to) = {}
          /\ name' = [i \in Ids |-> IF i \in Named(ask[q].user) THEN ask[q].to ELSE name[i]]
      BY <1>3, <2>4 DEF Rename
    <3>2. \A i \in Ids: i \in Named(ask[q].user) <=> name[i] = ask[q].user
      BY DEF Named
    <3>3. \A i \in Ids: name[i] = ask[q].user => name'[i] = ask[q].to
      BY <3>1, <3>2
    <3>4. \A i \in Ids: name[i] # ask[q].user => name'[i] = name[i]
      BY <3>1, <3>2
    <3>5. \A i, j \in Ids: name[i] = ask[q].user => name[j] # ask[q].to
      BY <3>1, <3>2 DEF Named
    <3>6. ask[q].to # None /\ ask[q].user # None
      BY <2>1, AccountsAssumption
    <3> QED
      BY <2>2, <3>3, <3>4, <3>5, <3>6 DEF Ids
  <2> QED
    BY <2>3, <2>4
<1>4. CASE ~Insert(q) /\ ~Fields(q) /\ ~Rename(q)
  BY <1>4, RowsKept
<1> QED
  BY <1>1, <1>2, <1>3, <1>4

LEMMA RowsDelete ==
  ASSUME Typed, RowsRight, NEW n \in Names, Delete(n)
  PROVE  RowsRight' /\ gone \subseteq gone' /\ name' = name
<1>1. \A i \in Named(n): name[i] # None
  BY AccountsAssumption DEF Named
<1> QED
  BY <1>1 DEF Typed, TypeOK, RowsRight, Delete, Named

(* What holds of a request still holds after the steps of others: in the   *)
(* middle of its chain on Node there are none.                             *)
LEMMA OthersFounder ==
  ASSUME NEW r \in Requests, FounderRight(r), Mine(r)' = Mine(r), closed' = closed,
         gone \subseteq gone', \A i \in Ids: name[i] # None => name'[i] # None,
         name[r] = None => name'[r] = None, elders[r] \subseteq Ids
  PROVE  FounderRight(r)'
  BY DEF FounderRight, Mine

LEMMA OthersRow ==
  ASSUME NEW r \in Requests, RowRight(r), Mine(r)' = Mine(r), runtime' = runtime,
         runtime = "node" => turn # r
  PROVE  RowRight(r)'
<1>1. runtime = "node" => pc[r] \notin Chain
  BY DEF RowRight, ChainRight
<1> QED
  BY <1>1 DEF RowRight, ChainRight, Chain, Mine

LEMMA OneNamed ==
  ASSUME RowsRight, NEW i \in Ids, name[i] # None
  PROVE  Named(name[i]) = {i}
  BY DEF RowsRight, Named

-----------------------------------------------------------------------------
(* The steps of a request's own handler.                                   *)

LEMMA FounderBegin ==
  ASSUME Typed, RowsRight, NEW r \in Requests, FounderRight(r),
         BeginRegister(r) \/ BeginPatch(r) \/ BeginSso(r) \/ BeginIdentity(r)
  PROVE  FounderRight(r)'
<1>1. PICK a \in Ask: Begin(r, a)
  BY DEF BeginRegister, BeginPatch, BeginSso, BeginIdentity, Ask
<1>2. pc[r] = "idle" /\ name[r] = None /\ name' = name /\ ask'[r] = a
  BY <1>1 DEF Begin, MayRun, FounderRight, users, Typed, TypeOK
<1>3. \A i \in elders'[r]: name[i] # None
  BY <1>1 DEF Begin, Normal, Typed, TypeOK
<1>4. pc'[r] \notin {"look", "insert"}
  BY DEF BeginRegister, BeginPatch, BeginSso, BeginIdentity, Wait, Go, End, Typed, TypeOK
<1> QED
  BY <1>2, <1>3, <1>4 DEF FounderRight

LEMMA FounderServe ==
  ASSUME Typed, RowsRight, NEW r \in Requests, FounderRight(r), Serve(r)
  PROVE  FounderRight(r)'
<1> USE DEF Typed, TypeOK
<1>1. CASE Count(r)
  <2>1. ask[r].kind = "register" /\ name[r] = None
    BY <1>1 DEF Count, MayRun, KindRight, Registration, FounderRight
  <2>2. Normal = {} => elders[r] \subseteq gone
    BY DEF Normal, RowsRight, FounderRight
  <2> QED
    BY <1>1, <2>1, <2>2 DEF Count, Go, End, FounderRight, users
<1>2. CASE Look(r)
  <2>1. name[r] = None /\ ask[r].kind = "register"
    BY <1>2 DEF Look, MayRun, FounderRight, KindRight, Registration
  <2> QED
    BY <1>2, <2>1 DEF Look, MayRun, Wait, End, FounderRight, users, marks
<1>3. CASE UserInfo(r)
  <2>1. name[r] = None /\ ask[r].kind = "sso"
    BY <1>3 DEF UserInfo, MayRun, FounderRight, KindRight, Sso
  <2> QED
    BY <1>3, <2>1 DEF UserInfo, Wait, End, FounderRight, users
<1>4. CASE Insert(r)
  <2>1. /\ ask[r] \in Registration \cup Sso /\ pc[r] = "insert" /\ pc'[r] \in {"reget", "end"}
        /\ \A i \in Ids: name[i] # None => name'[i] # None
    BY <1>4, RowsNext DEF Insert, MayRun, KindRight, Go, End, Serve
  <2>2. ask' = ask /\ first' = first /\ elders' = elders /\ closed' = closed /\ gone' = gone
    BY <1>4 DEF Insert, marks, users
  <2> QED
    BY <2>1, <2>2 DEF FounderRight
<1>5. CASE Fields(r) \/ Rename(r)
  <2>1. /\ ask[r].kind = "patch" /\ ask' = ask /\ elders' = elders /\ name[r] = None
        /\ \A i \in Ids: name[i] # None => name'[i] # None
    BY <1>5, RowsNext DEF Fields, Rename, MayRun, KindRight, Patch, Serve, FounderRight
  <2>2. name'[r] = None
    <3>1. \A i \in Ids: i \in Named(ask[r].user) => name[i] # None
      BY <1>5, AccountsAssumption DEF Fields, Rename, MayRun, KindRight, Patch, Named
    <3> QED
      BY <1>5, <2>1, <3>1 DEF Fields, Rename, Ids
  <2> QED
    BY <2>1, <2>2 DEF FounderRight
<1>6. CASE Reget(r) \/ Avatar(r) \/ SignIn(r)
  BY <1>6 DEF Reget, Avatar, SignIn, MayRun, Go, End, FounderRight, users
<1>7. CASE Refused(r) \/ Clash(r) \/ Reread(r)
  BY <1>7 DEF Refused, Clash, Reread, MayRun, Go, End, FounderRight, users, marks
<1>8. CASE Own(r) \/ Other(r) \/ Upsert(r) \/ Show(r) \/ Drop(r)
  BY <1>8 DEF Own, Other, Upsert, Show, Drop, MayRun, Go, End, FounderRight, users, marks
<1> QED
  BY <1>1, <1>2, <1>3, <1>4, <1>5, <1>6, <1>7, <1>8, FounderBegin DEF Serve

LEMMA RowBegin ==
  ASSUME Typed, NEW r \in Requests, RowRight(r),
         BeginRegister(r) \/ BeginPatch(r) \/ BeginSso(r) \/ BeginIdentity(r)
  PROVE  RowRight(r)' /\ answer'[r] \in {"none", "missing"}
<1> USE DEF Typed, TypeOK
<1>1. PICK a \in Ask: Begin(r, a)
  BY DEF BeginRegister, BeginPatch, BeginSso, BeginIdentity, Ask
<1>2. /\ pc[r] = "idle" /\ landed' = landed /\ renamed' = renamed /\ answer[r] = "none"
      /\ runtime' = runtime /\ landed[r] = {} /\ renamed[r] = {}
  BY <1>1 DEF Begin, MayRun, RowRight
<1>3. \/ pc'[r] \in {"count", "fields", "fetch", "own"} /\ answer'[r] = "none"
      \/ pc'[r] = "drop" /\ answer'[r] = "none" /\ (runtime = "node" => turn' = r)
      \/ pc'[r] = "end" /\ answer'[r] = "missing"
  BY <1>2 DEF BeginRegister, BeginPatch, BeginSso, BeginIdentity, Wait, Go, End
<1> QED
  BY <1>2, <1>3 DEF RowRight, ChainRight, Chain

LEMMA RowRegister ==
  ASSUME Typed, RowsRight, NEW r \in Requests, RowRight(r), FounderRight(r),
         Count(r) \/ Look(r) \/ UserInfo(r) \/ Refused(r) \/ Insert(r)
  PROVE  RowRight(r)'
<1> USE DEF Typed, TypeOK
<1>1. CASE Count(r)
  BY <1>1 DEF Count, MayRun, Go, End, RowRight, ChainRight, Chain
<1>2. CASE Look(r)
  BY <1>2 DEF Look, MayRun, Wait, End, RowRight, ChainRight, Chain, marks
<1>3. CASE UserInfo(r)
  BY <1>3 DEF UserInfo, MayRun, Wait, End, RowRight, ChainRight, Chain
<1>4. CASE Refused(r)
  BY <1>4 DEF Refused, MayRun, Wait, End, RowRight, ChainRight, Chain, marks
<1>5. CASE Insert(r)
  <2>1. pc[r] = "insert" /\ name[r] = None /\ status' = status /\ status[r] = "NORMAL"
    BY <1>5 DEF Insert, MayRun, FounderRight, RowsRight, users, Ids
  <2>2. \/ pc'[r] = "end" /\ answer'[r] = "failed"
        \/ /\ pc'[r] = "reget" /\ answer'[r] = answer[r] /\ name'[r] = ask[r].user
           /\ (runtime = "node" => turn' = r)
    BY <1>5 DEF Insert, Go, End, Ids
  <2>3. /\ ask' = ask /\ landed' = landed /\ renamed' = renamed /\ runtime' = runtime
        /\ landed[r] = {} /\ renamed[r] = {} /\ answer[r] = "none"
    BY <1>5, <2>1 DEF Insert, marks, RowRight
  <2> QED
    BY <2>1, <2>2, <2>3 DEF RowRight, ChainRight, Chain
<1> QED
  BY <1>1, <1>2, <1>3, <1>4, <1>5

LEMMA RowSignIn ==
  ASSUME Typed, RowsRight, NEW r \in Requests, RowRight(r),
         Reget(r) \/ Avatar(r) \/ SignIn(r)
  PROVE  RowRight(r)'
<1> USE DEF Typed, TypeOK
<1>1. CASE Reget(r)
  BY <1>1 DEF Reget, MayRun, Go, End, RowRight, ChainRight, Chain, users
<1>2. CASE Avatar(r)
  <2>1. runtime = "node" => Named(ask[r].user) = {r}
    <3>1. runtime = "node" => name[r] = ask[r].user
      BY <1>2 DEF Avatar, MayRun, RowRight, ChainRight
    <3>2. r \in Ids /\ ask[r].user # None
      BY <1>2, AccountsAssumption DEF Avatar, MayRun, KindRight, Sso, Ids
    <3> QED
      BY <3>1, <3>2, OneNamed
  <2> QED
    BY <1>2, <2>1 DEF Avatar, MayRun, Go, RowRight, ChainRight, Chain, users
<1>3. CASE SignIn(r)
  BY <1>3 DEF SignIn, MayRun, End, RowRight, ChainRight, Chain, users
<1> QED
  BY <1>1, <1>2, <1>3

LEMMA RowPatch ==
  ASSUME Typed, RowsRight, NEW r \in Requests, RowRight(r),
         Fields(r) \/ Clash(r) \/ Rename(r) \/ Reread(r)
  PROVE  RowRight(r)'
<1> USE DEF Typed, TypeOK
<1>1. CASE Fields(r)
  <2>1. /\ landed'[r] = IF ask[r].set = "nothing" THEN {} ELSE Named(ask[r].user)
        /\ pc'[r] = IF ask[r].to = ask[r].user THEN "reread" ELSE "clash"
        /\ name' = name /\ ask' = ask /\ renamed' = renamed /\ answer' = answer
        /\ runtime' = runtime /\ (runtime = "node" => turn' = r)
    BY <1>1 DEF Fields, Go
  <2>2. pc[r] = "fields" /\ answer[r] = "none" /\ renamed[r] = {}
    BY <1>1 DEF Fields, MayRun, RowRight
  <2>3. Named(ask[r].user)' = Named(ask[r].user) /\ Named(ask[r].to)' = Named(ask[r].to)
    BY <2>1 DEF Named
  <2> QED
    BY <2>1, <2>2, <2>3 DEF RowRight, ChainRight, Chain
<1>2. CASE Clash(r)
  <2>1. /\ pc[r] = "clash" /\ name' = name /\ ask' = ask /\ landed' = landed
        /\ renamed' = renamed /\ runtime' = runtime
        /\ renamed[r] = {} /\ answer[r] = "none"
    BY <1>2 DEF Clash, MayRun, RowRight, users, marks
  <2>2. \/ pc'[r] = "end" /\ answer'[r] = "exists"
        \/ /\ Named(ask[r].to) = {} /\ pc'[r] = "rename" /\ answer'[r] = "none"
           /\ (runtime = "node" => turn' = r)
    BY <1>2, <2>1 DEF Clash, Go, End
  <2>3. Named(ask[r].user)' = Named(ask[r].user) /\ Named(ask[r].to)' = Named(ask[r].to)
    BY <2>1 DEF Named
  <2> QED
    BY <2>1, <2>2, <2>3 DEF RowRight, ChainRight, Chain
<1>3. CASE Rename(r)
  <2>1. /\ pc[r] = "rename" /\ ask' = ask /\ landed' = landed /\ runtime' = runtime
        /\ renamed[r] = {} /\ answer[r] = "none"
    BY <1>3 DEF Rename, MayRun, RowRight
  <2>2. CASE Named(ask[r].user) # {} /\ Named(ask[r].to) # {}
    BY <1>3, <2>1, <2>2 DEF Rename, End, RowRight, ChainRight, Chain
  <2>3. CASE ~(Named(ask[r].user) # {} /\ Named(ask[r].to) # {})
    <3>1. /\ name' = [i \in Ids |-> IF i \in Named(ask[r].user) THEN ask[r].to ELSE name[i]]
          /\ renamed'[r] = Named(ask[r].user) /\ pc'[r] = "reread" /\ answer' = answer
          /\ (runtime = "node" => turn' = r)
      BY <1>3, <2>3 DEF Rename, Go
    <3>2. runtime = "node" =>
            /\ Named(ask[r].to) = {}
            /\ ask[r].set # "nothing" => landed[r] = Named(ask[r].user)
      BY <2>1 DEF RowRight, ChainRight
    <3>3. Named(ask[r].to) = {} => Named(ask[r].to)' = Named(ask[r].user)
      BY <2>1, <3>1 DEF Named
    <3> QED
      BY <2>1, <3>1, <3>2, <3>3 DEF RowRight, ChainRight, Chain
  <2> QED
    BY <2>2, <2>3
<1>4. CASE Reread(r)
  BY <1>4 DEF Reread, MayRun, End, RowRight, ChainRight, Chain, users
<1> QED
  BY <1>1, <1>2, <1>3, <1>4

LEMMA RowIdentity ==
  ASSUME Typed, NEW r \in Requests, RowRight(r),
         Own(r) \/ Other(r) \/ Upsert(r) \/ Show(r) \/ Drop(r)
  PROVE  RowRight(r)'
<1> USE DEF Typed, TypeOK, MayRun, RowRight, ChainRight, Chain, Go, End
<1>1. CASE Own(r)
  <2>1. LinksOf(uid[r], ask[r].idp)' = LinksOf(uid[r], ask[r].idp)
    BY <1>1 DEF Own, LinksOf, marks
  <2> QED
    BY <1>1, <2>1 DEF Own, users, marks
<1>2. CASE Other(r)
  <2>1. LinksOf(uid[r], ask[r].idp)' = LinksOf(uid[r], ask[r].idp)
    BY <1>2 DEF Other, LinksOf, marks
  <2> QED
    BY <1>2, <2>1 DEF Other, users, marks
<1>3. CASE Upsert(r) \/ Show(r) \/ Drop(r)
  BY <1>3 DEF Upsert, Show, Drop, users, marks
<1> QED
  BY <1>1, <1>2, <1>3

(* An answer that is ok comes from one of these, with what they found.     *)
LEMMA ShowsServe ==
  ASSUME Typed, RowsRight, NEW r \in Requests, FounderRight(r), RowRight(r), Serve(r)
  PROVE  Shows(r)'
<1> USE DEF Typed, TypeOK, MayRun
<1>1. CASE UserInfo(r)
  BY <1>1 DEF UserInfo, Wait, End, Shows, FounderRight, RowRight, KindRight, Sso, users
<1>2. CASE Reget(r) \/ SignIn(r)
  <2>1. /\ name' = name /\ ask' = ask /\ runtime' = runtime /\ renamed' = renamed
        /\ landed' = landed /\ shown'[r] = Active(ask[r].user) /\ answer'[r] # "exists"
    BY <1>2 DEF Reget, SignIn, Go, End, users, RowRight
  <2>2. ask[r].kind # "patch" /\ ask[r].user # None /\ r \in Ids
    BY <1>2, AccountsAssumption DEF Reget, SignIn, KindRight, Registration, Sso, Ids
  <2>3. runtime = "node" =>
          name[r] = ask[r].user /\ status[r] = "NORMAL" /\ landed[r] \subseteq {r}
    BY <1>2 DEF Reget, SignIn, RowRight, ChainRight
  <2>4. runtime = "node" => Active(ask[r].user) = {r}
    BY <2>2, <2>3, OneNamed DEF Active
  <2> QED
    BY <2>1, <2>2, <2>3, <2>4 DEF Shows
<1>3. CASE Reread(r)
  <2>1. /\ name' = name /\ ask' = ask /\ runtime' = runtime /\ renamed' = renamed
        /\ landed' = landed /\ shown'[r] = Named(ask[r].to) /\ answer'[r] # "exists"
        /\ name[r] = None /\ ask[r] \in Patch /\ pc[r] = "reread"
        /\ answer'[r] = "ok" => Named(ask[r].to) # {}
    BY <1>3 DEF Reread, End, users, FounderRight, KindRight
  <2>2. ask[r].to # None
    BY <2>1, AccountsAssumption DEF Patch
  <2>3. answer'[r] = "ok" => Cardinality(Named(ask[r].to)) = 1
    <3> SUFFICES ASSUME Named(ask[r].to) # {} PROVE Cardinality(Named(ask[r].to)) = 1
      BY <2>1
    <3>1. PICK i \in Ids: name[i] = ask[r].to
      BY DEF Named
    <3>2. Named(ask[r].to) = {i}
      BY <2>2, <3>1, OneNamed
    <3> QED
      BY <3>2, FS_Singleton
  <2>4. runtime = "node" =>
          /\ ask[r].set # "nothing" => landed[r] = Named(ask[r].to)
          /\ ask[r].to # ask[r].user => renamed[r] = Named(ask[r].to)
    BY <2>1 DEF RowRight, ChainRight
  <2> QED
    BY <2>1, <2>3, <2>4 DEF Shows
<1>4. CASE Show(r) \/ Drop(r)
  BY <1>4 DEF Show, Drop, End, Shows, FounderRight, KindRight, Link, Unlink, users, marks
<1>5. CASE BeginRegister(r) \/ BeginPatch(r) \/ BeginSso(r) \/ BeginIdentity(r)
  BY <1>5, RowBegin DEF Shows
<1>6. CASE Count(r) \/ Look(r) \/ Refused(r) \/ Insert(r)
  BY <1>6 DEF Count, Look, Refused, Insert, Go, Wait, End, Shows, RowRight, marks
<1>7. CASE Avatar(r) \/ Fields(r) \/ Clash(r)
  BY <1>7 DEF Avatar, Fields, Clash, Go, End, Shows, RowRight, marks
<1>8. CASE Rename(r)
  BY <1>8 DEF Rename, Go, End, Shows, RowRight
<1>9. CASE Own(r) \/ Other(r) \/ Upsert(r)
  BY <1>9 DEF Own, Other, Upsert, Go, End, Shows, RowRight, marks
<1> QED
  BY <1>1, <1>2, <1>3, <1>4, <1>5, <1>6, <1>7, <1>8, <1>9 DEF Serve

LEMMA OthersShows ==
  ASSUME NEW r \in Requests, Shows(r), Mine(r)' = Mine(r), runtime' = runtime,
         name[r] = None => name'[r] = None
  PROVE  Shows(r)'
  BY DEF Shows, Mine

-----------------------------------------------------------------------------
(* The inductive invariant.                                                *)

LEMMA InvInit == Init => IInv
<1> SUFFICES ASSUME Init PROVE IInv
  OBVIOUS
<1>1. RowsRight
  <2> SUFFICES ASSUME NEW i \in Ids, NEW j \in Ids, name[i] # None, name[i] = name[j]
               PROVE  i = j
    BY DEF Init, RowsRight
  <2>1. i \in Old /\ j \in Old
    BY DEF Init, Ids
  <2> QED
    BY <2>1 DEF Init
<1>2. ASSUME NEW r \in Requests PROVE Right(r)
  BY DEF Init, Right, FounderRight, RowRight, ChainRight, Chain, Shows, NoAsk
<1> QED
  BY <1>1, <1>2, TypeInit DEF IInv

LEMMA InvServe ==
  ASSUME IInv, NEW q \in Requests, Serve(q), NEW r \in Requests
  PROVE  Right(r)'
<1> USE DEF IInv, Right
<1>1. CASE r # q
  <2>1. /\ Mine(r)' = Mine(r) /\ runtime' = runtime /\ closed' = closed
        /\ runtime = "node" => turn # r
    BY <1>1, OwnOnly, Turns, AccountsAssumption DEF Ids
  <2>2. gone \subseteq gone' /\ (\A i \in Ids: name[i] # None => name'[i] # None)
        /\ (name[r] = None => name'[r] = None)
    BY <1>1, RowsNext
  <2>3. elders[r] \subseteq Ids
    BY DEF Typed, TypeOK
  <2> QED
    BY <2>1, <2>2, <2>3, OthersFounder, OthersRow, OthersShows
<1>2. CASE r = q
  <2>1. FounderRight(r)'
    BY <1>2, FounderServe
  <2>2. RowRight(r)'
    BY <1>2, RowBegin, RowRegister, RowSignIn, RowPatch, RowIdentity DEF Serve
  <2>3. Shows(r)'
    BY <1>2, ShowsServe
  <2> QED
    BY <2>1, <2>2, <2>3
<1> QED
  BY <1>1, <1>2

LEMMA InvNext == IInv /\ [Next]_vars => IInv'
<1> SUFFICES ASSUME IInv, [Next]_vars PROVE IInv'
  OBVIOUS
<1> USE DEF IInv
<1>0. Typed'
  BY TypeNext
<1>1. CASE \E q \in Requests: Serve(q)
  BY <1>0, <1>1, InvServe, RowsNext
<1>2. ASSUME NEW n \in Names, Delete(n) PROVE IInv'
  <2>1. RowsRight' /\ gone \subseteq gone' /\ name' = name
    BY <1>2, RowsDelete
  <2>2. closed' = closed /\ runtime' = runtime /\ (runtime = "node" => turn = None)
        /\ \A r \in Requests: Mine(r)' = Mine(r)
    BY <1>2 DEF Delete, marks, Mine
  <2>3. \A r \in Requests: r # None /\ elders[r] \subseteq Ids
    BY AccountsAssumption DEF Typed, TypeOK, Ids
  <2> QED
    BY <1>0, <2>1, <2>2, <2>3, OthersFounder, OthersRow, OthersShows DEF Right
<1>3. ASSUME NEW p \in Providers, Configure(p) PROVE IInv'
  <2>1. closed' = closed /\ runtime' = runtime /\ (runtime = "node" => turn = None)
        /\ name' = name /\ status' = status /\ gone' = gone
        /\ \A r \in Requests: Mine(r)' = Mine(r)
    BY <1>3 DEF Configure, marks, users, Mine
  <2>2. \A r \in Requests: r # None /\ elders[r] \subseteq Ids
    BY AccountsAssumption DEF Typed, TypeOK, Ids
  <2>3. RowsRight'
    BY <2>1 DEF RowsRight
  <2> QED
    BY <1>0, <2>1, <2>2, <2>3, OthersFounder, OthersRow, OthersShows DEF Right
<1>4. CASE UNCHANGED vars
  <2>1. \A r \in Requests: Mine(r)' = Mine(r)
    BY <1>4 DEF vars, users, marks, Mine
  <2>2. RowsRight'
    BY <1>4 DEF vars, users, RowsRight
  <2>3. \A r \in Requests: FounderRight(r)' /\ Shows(r)'
    BY <1>4 DEF vars, users, marks, Right, FounderRight, Shows
  <2>4. \A r \in Requests: RowRight(r)'
    BY <1>4 DEF vars, users, marks, Right, RowRight, ChainRight, LinksOf, Named
  <2> QED
    BY <1>0, <2>2, <2>3, <2>4 DEF Right
<1> QED
  BY <1>1, <1>2, <1>3, <1>4 DEF Next

-----------------------------------------------------------------------------
(* Who registers while an account is there becomes an administrator, or is *)
(* let in where registration is closed, only after all those accounts have *)
(* been archived: POST /users counts before it hashes the password.        *)
THEOREM FoundersUnasked == Spec => []Founders
<1>1. ASSUME IInv PROVE Founders
  <2> SUFFICES ASSUME NEW r \in Requests, name[r] # None,
                      closed = "yes" \/ (Granted(r) = "ADMIN" /\ ask[r].wants # "ADMIN")
               PROVE  elders[r] \subseteq gone
    BY DEF Founders
  <2>1. FounderRight(r) /\ pc[r] # "look" /\ closed \in {"yes", "no"}
    BY <1>1 DEF IInv, Right, FounderRight, Typed, TypeOK
  <2>2. CASE ask[r] \in Registration
    <3>1. ask[r].kind = "register" /\ ask[r].wants \in {"USER", "ADMIN", "hopeful"}
      BY <2>2 DEF Registration
    <3>2. first[r] = "yes" \/ closed = "yes"
      BY <2>1, <3>1 DEF FounderRight, Granted
    <3> QED
      BY <2>1, <3>1, <3>2 DEF FounderRight
  <2>3. CASE ask[r] \in Sso
    BY <2>1, <2>3 DEF FounderRight, Sso, Granted
  <2> QED
    BY <2>1, <2>2, <2>3 DEF FounderRight
<1> QED
  BY <1>1, InvInit, InvNext, PTL DEF Spec

(* On Node the row an ok answer shows is the one that all the handler's    *)
(* updates landed on, and a refused rename has renamed nothing.            *)
THEOREM HandlersKeepTheirRow == Spec => []OneRow
<1>1. IInv => OneRow
  BY DEF IInv, Right, Shows, OneRow
<1> QED
  BY <1>1, InvInit, InvNext, PTL DEF Spec

(* On Node a linked identity goes only when its user unlinks it: the check *)
(* of POST .../linkedIdentities still holds at its upsert.                 *)
THEOREM LinksStand == Spec => LinkStands
<1> DEFINE Kept == runtime = "node" =>
             \A l \in links \ links': \E r \in Requests:
               pc[r] = "drop" /\ pc'[r] = "end" /\ uid[r] = l.user
<1>1. ASSUME IInv, [Next]_vars PROVE [Kept]_vars
  <2> SUFFICES ASSUME runtime = "node", NEW l \in links \ links'
               PROVE  \E r \in Requests: pc[r] = "drop" /\ pc'[r] = "end" /\ uid[r] = l.user
    OBVIOUS
  <2>1. PICK r \in Requests: Upsert(r) \/ Drop(r)
    BY <1>1, LinksKept DEF Next, Delete, Configure, vars
  <2>2. LinksOf(uid[r], ask[r].idp) = {} \/ ~Upsert(r)
    BY <1>1 DEF IInv, Right, RowRight, ChainRight, Upsert, MayRun
  <2>3. Drop(r)
    BY <2>1, <2>2 DEF Upsert
  <2> QED
    BY <1>1, <2>3 DEF Drop, MayRun, End, LinksOf, IInv, Typed, TypeOK
<1> QED
  BY <1>1, InvInit, InvNext, PTL DEF Spec, LinkStands
=============================================================================
