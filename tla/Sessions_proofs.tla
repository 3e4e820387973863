--------------------------- MODULE Sessions_proofs ---------------------------
(***************************************************************************)
(* Proofs about Sessions, for any sets of users, names and requests.       *)
(***************************************************************************)
EXTENDS SessionHistory, TLAPS

RefreshPcs == {"record", "checkExpiry", "purgeRead", "purgeWrite", "getUser",
               "rotateRead", "rotateWrite"}

SignoutPcs == {"authUser", "cookieKey", "cookieUser", "dropRead", "dropWrite",
               "clear"}

\* What the control point of a request says about its locals: typing alone is
\* not inductive, a step that follows a cookie to the request that issued it
\* needs to know that there is one and that it carries a user id.
Shape(r) ==
  /\ req[r].pc \in {"ensureKey", "setKey"}
       => req[r].kind \in {"register", "profile", "signin"}
  /\ req[r].pc = "create" => req[r].kind = "register"
  /\ req[r].pc \in SignoutPcs => /\ req[r].kind = "signout"
                                 /\ req[r].cookie \in Delivered \cup {None}
  /\ req[r].pc \in RefreshPcs \cup {"addRead", "addWrite", "authUser"}
       => req[r].uid \in Users
  /\ req[r].pc = "refreshKey" => req[r].cookie \in Delivered
  /\ req[r].pc = "cookieUser" => req[r].cookie # None
  /\ r \in Delivered => req[r].uid \in Users

TInv == TypeOK /\ \A r \in Requests : Shape(r)

ReqType == [kind   : Kinds,
            pc     : Pcs,
            name   : Names \cup {None},
            row    : Users \cup {None},
            uid    : Users \cup {None},
            key    : Requests \cup {BootKey, None},
            cookie : Requests \cup {None},
            owner  : Names \cup {None},
            snap   : SUBSET Requests]

-----------------------------------------------------------------------------
LEMMA InitTInv == Init => TInv
  BY SessionsAssumption
  DEF Init, TInv, TypeOK, Shape, NewRequest, Kinds, Pcs, Delivered, SignoutPcs, RefreshPcs

\* A step that replaces the record of one request that is not over, and the
\* record is well shaped, keeps the invariant: no token is withdrawn.
LEMMA LocalStep ==
  ASSUME TInv, NEW r \in Requests, NEW x \in ReqType,
         req' = [req EXCEPT ![r] = x],
         r \notin Delivered,
         Shape(r)',
         status' \in [Users -> {"ABSENT", "NORMAL", "ARCHIVED"}],
         username' \in [Users -> Names \cup {None}],
         secret' \in Requests \cup {BootKey, None},
         docs' \in [Users -> SUBSET Requests],
         expired' \subseteq Requests
  PROVE  TInv'
<1>1. TypeOK'
  BY DEF TInv, TypeOK, ReqType
<1>2. Delivered \subseteq Delivered'
  BY DEF TInv, TypeOK, Delivered
<1>3. ASSUME NEW q \in Requests PROVE Shape(q)'
  <2>1. CASE q = r
    BY <2>1
  <2>2. CASE q # r
    <3>1. req'[q] = req[q] /\ Shape(q)
      BY <2>2 DEF TInv, TypeOK
    <3>2. q \in Delivered' <=> q \in Delivered
      BY <3>1 DEF Delivered
    <3> QED BY <3>1, <3>2, <1>2 DEF Shape
  <2> QED BY <2>1, <2>2
<1> QED BY <1>1, <1>3 DEF TInv

-----------------------------------------------------------------------------

LEMMA FieldTypes ==
  ASSUME NEW x \in ReqType
  PROVE  /\ \A v \in Pcs : [x EXCEPT !.pc = v] \in ReqType
         /\ \A v \in Kinds : [x EXCEPT !.kind = v] \in ReqType
         /\ \A v \in Names \cup {None} : [x EXCEPT !.name = v] \in ReqType
         /\ \A v \in Names \cup {None} : [x EXCEPT !.owner = v] \in ReqType
         /\ \A v \in Users \cup {None} : [x EXCEPT !.row = v] \in ReqType
         /\ \A v \in Users \cup {None} : [x EXCEPT !.uid = v] \in ReqType
         /\ \A v \in Requests \cup {BootKey, None} : [x EXCEPT !.key = v] \in ReqType
         /\ \A v \in Requests \cup {None} : [x EXCEPT !.cookie = v] \in ReqType
         /\ \A v \in SUBSET Requests : [x EXCEPT !.snap = v] \in ReqType
  BY DEF ReqType

\* What a request's own step has to show about req.
Moved(r) ==
  /\ req' = [req EXCEPT ![r] = req'[r]]
  /\ req'[r] \in ReqType
  /\ r \notin Delivered
  /\ Shape(r)'

LEMMA Finished ==
  ASSUME TInv, NEW r \in Requests, NEW pc \in {"done", "rejected"}, Finish(r, pc),
         r \notin Delivered,
         pc = "done" => req[r].kind \notin {"signin", "refresh"}
  PROVE  Moved(r)
<1>1. req'[r] = [kind |-> req[r].kind, pc |-> pc, name |-> None, row |-> None,
                 uid |-> None, key |-> None, cookie |-> None, owner |-> None,
                 snap |-> {}]
  BY DEF Finish, NewRequest, TInv, TypeOK
<1>2. req'[r] \in ReqType
  BY <1>1 DEF TInv, TypeOK, ReqType, Pcs
<1>3. Shape(r)'
  BY <1>1 DEF Shape, RefreshPcs, SignoutPcs, Delivered
<1>4. req' = [req EXCEPT ![r] = req'[r]]
  BY DEF Finish, TInv, TypeOK
<1> QED BY <1>2, <1>3, <1>4 DEF Moved


LEMMA EnsureMoved ==
  ASSUME TInv, NEW r \in Requests, EnsureKeyRead(r) \/ EnsureKeyWrite(r)
  PROVE  Moved(r)
<1>1. req \in [Requests -> ReqType] /\ r \notin Delivered
      /\ req[r].kind \in {"register", "profile", "signin"}
  BY DEF TInv, TypeOK, ReqType, EnsureKeyRead, EnsureKeyWrite, Delivered, Shape
<1>2. PICK p \in {"setKey", "create", "done", "signKey"} :
        /\ Goto(r, p)
        /\ p = "create" => req[r].kind = "register"
        /\ p = "done" => req[r].kind = "profile"
  BY <1>1 DEF EnsureKeyRead, EnsureKeyWrite, AfterEnsure
<1>3. p \in Pcs
  BY DEF Pcs
<1>4. req'[r] \in ReqType
  BY <1>1, <1>2, <1>3, FieldTypes DEF Goto
<1>5a. req' = [req EXCEPT ![r] = req'[r]]
  BY <1>1, <1>2 DEF Goto
<1>5b. /\ req'[r].pc = p
      /\ req'[r].kind = req[r].kind
  BY <1>1, <1>2 DEF Goto, ReqType
<1>6. Shape(r)'
  BY <1>1, <1>2, <1>5a, <1>5b DEF Shape, RefreshPcs, SignoutPcs, Delivered
<1> QED BY <1>1, <1>4, <1>5a, <1>5b, <1>6 DEF Moved

LEMMA SigninMoved ==
  ASSUME TInv, NEW r \in Requests, SigninKey(r) \/ SigninUserId(r)
  PROVE  Moved(r)
<1>1. /\ req \in [Requests -> ReqType] /\ r \notin Delivered
      /\ secret \in Requests \cup {BootKey, None}
      /\ {"userId", "addRead"} \subseteq Pcs
  BY DEF TInv, TypeOK, ReqType, SigninKey, SigninUserId, Delivered, Pcs
<1>2. CASE SigninKey(r)
  <2>1. req'[r] \in ReqType
    BY <1>1, <1>2, FieldTypes DEF SigninKey
  <2>2a. req' = [req EXCEPT ![r] = req'[r]]
    BY <1>1, <1>2 DEF SigninKey
  <2>2b. /\ req'[r].pc = "userId"
    BY <1>1, <1>2 DEF SigninKey, ReqType
  <2>3. Shape(r)'
    BY <2>2a, <2>2b DEF Shape, RefreshPcs, SignoutPcs, Delivered
  <2> QED BY <1>1, <2>1, <2>2a, <2>2b, <2>3 DEF Moved
<1>3. CASE SigninUserId(r) /\ ~ Reject(r)
  <2>0. PICK u \in Users : req' = [req EXCEPT ![r].pc = "addRead", ![r].uid = u]
    BY <1>3 DEF SigninUserId, Holder
  <2>1. req'[r] \in ReqType
    BY <1>1, <2>0, FieldTypes
  <2>2a. req' = [req EXCEPT ![r] = req'[r]]
    BY <1>1, <2>0
  <2>2b. /\ req'[r].pc = "addRead"
        /\ req'[r].uid = u
    BY <1>1, <2>0 DEF ReqType
  <2>3. Shape(r)'
    BY <2>2a, <2>2b DEF Shape, RefreshPcs, SignoutPcs, Delivered
  <2> QED BY <1>1, <2>1, <2>2a, <2>2b, <2>3 DEF Moved
<1>4. CASE Reject(r)
  BY <1>1, <1>4, Finished DEF Reject
<1> QED BY <1>2, <1>3, <1>4

LEMMA RefreshMoved ==
  ASSUME TInv, NEW r \in Requests,
         RefreshKey(r) \/ RefreshRecord(r) \/ RefreshExpiry(r) \/ RefreshUser(r)
  PROVE  Moved(r)
<1>1. /\ req \in [Requests -> ReqType] /\ r \notin Delivered /\ Shape(r)
      /\ secret \in Requests \cup {BootKey, None}
      /\ RefreshPcs \subseteq Pcs
  BY DEF TInv, TypeOK, ReqType, RefreshKey, RefreshRecord, RefreshExpiry, RefreshUser,
         Delivered, Pcs, RefreshPcs
<1>2. CASE Reject(r)
  BY <1>1, <1>2, Finished DEF Reject
<1>3. CASE RefreshKey(r) /\ ~ Reject(r)
  <2> DEFINE u == req[req[r].cookie].uid
  <2>1. u \in Users
    BY <1>1, <1>3 DEF RefreshKey, TInv, Shape, Delivered
  <2>2. req' = [req EXCEPT ![r].pc = "record", ![r].key = secret, ![r].uid = u]
    BY <1>3 DEF RefreshKey
  <2> HIDE DEF u
  <2>3. req'[r] \in ReqType
    BY <1>1, <2>1, <2>2, FieldTypes DEF RefreshPcs
  <2>4a. req' = [req EXCEPT ![r] = req'[r]]
    BY <1>1, <2>2
  <2>4b. /\ req'[r].pc = "record"
        /\ req'[r].uid = u
    BY <1>1, <2>2 DEF ReqType
  <2>5. Shape(r)'
    BY <2>1, <2>4a, <2>4b DEF Shape, RefreshPcs, SignoutPcs, Delivered
  <2> QED BY <1>1, <2>3, <2>4a, <2>4b, <2>5 DEF Moved
<1>4. CASE RefreshRecord(r) /\ ~ Reject(r)
  <2> DEFINE n == username[req[r].uid]
  <2>1. n \in Names \cup {None} /\ req[r].uid \in Users
    BY <1>1, <1>4 DEF RefreshRecord, TInv, TypeOK, Shape, RefreshPcs
  <2>2. req' = [req EXCEPT ![r].pc = "checkExpiry", ![r].name = n]
    BY <1>4 DEF RefreshRecord
  <2> HIDE DEF n
  <2>3. req'[r] \in ReqType
    BY <1>1, <2>1, <2>2, FieldTypes DEF RefreshPcs
  <2>4a. req' = [req EXCEPT ![r] = req'[r]]
    BY <1>1, <2>2
  <2>4b. /\ req'[r].pc = "checkExpiry"
        /\ req'[r].uid = req[r].uid
    BY <1>1, <2>2 DEF ReqType
  <2>5. Shape(r)'
    BY <2>1, <2>4a, <2>4b DEF Shape, RefreshPcs, SignoutPcs, Delivered
  <2> QED BY <1>1, <2>3, <2>4a, <2>4b, <2>5 DEF Moved
<1>5. CASE (RefreshExpiry(r) \/ RefreshUser(r)) /\ ~ Reject(r)
  <2>1. PICK p \in RefreshPcs : Goto(r, p)
    BY <1>5 DEF RefreshExpiry, RefreshUser, RefreshPcs
  <2>2. req[r].uid \in Users
    BY <1>1, <1>5 DEF RefreshExpiry, RefreshUser, Shape, RefreshPcs
  <2>3. req'[r] \in ReqType
    BY <1>1, <2>1, FieldTypes DEF Goto
  <2>4a. req' = [req EXCEPT ![r] = req'[r]]
    BY <1>1, <2>1 DEF Goto
  <2>4b. /\ req'[r].pc = p
        /\ req'[r].uid = req[r].uid
    BY <1>1, <2>1 DEF ReqType, Goto
  <2>5. Shape(r)'
    BY <2>2, <2>4a, <2>4b DEF Shape, RefreshPcs, SignoutPcs, Delivered
  <2> QED BY <1>1, <2>3, <2>4a, <2>4b, <2>5 DEF Moved
<1> QED BY <1>2, <1>3, <1>4, <1>5

LEMMA SignoutMoved ==
  ASSUME TInv, NEW r \in Requests,
         SignoutAuth(r) \/ SignoutCookie(r) \/ SignoutOwner(r)
  PROVE  Moved(r)
<1>1. /\ req \in [Requests -> ReqType] /\ r \notin Delivered /\ Shape(r)
      /\ secret \in Requests \cup {BootKey, None}
      /\ SignoutPcs \subseteq Pcs
      /\ req[r].kind = "signout" /\ req[r].cookie \in Delivered \cup {None}
  BY DEF TInv, TypeOK, ReqType, SignoutAuth, SignoutCookie, SignoutOwner,
         Delivered, Pcs, SignoutPcs, Shape
<1>2. CASE SignoutAuth(r)
  <2> DEFINE n == IF status[req[r].uid] = "NORMAL" THEN username[req[r].uid] ELSE req[r].name
  <2>1. n \in Names \cup {None}
    BY <1>1, <1>2 DEF SignoutAuth, TInv, TypeOK, Shape
  <2>2. req' = [req EXCEPT ![r].pc = "cookieKey", ![r].name = n]
    BY <1>2 DEF SignoutAuth
  <2> HIDE DEF n
  <2>3. req'[r] \in ReqType
    BY <1>1, <2>1, <2>2, FieldTypes DEF SignoutPcs
  <2>4a. req' = [req EXCEPT ![r] = req'[r]]
    BY <1>1, <2>2
  <2>4b. /\ req'[r].pc = "cookieKey"
        /\ req'[r].uid = req[r].uid
        /\ req'[r].kind = "signout"
        /\ req'[r].cookie = req[r].cookie
    BY <1>1, <2>2 DEF ReqType
  <2>5. Shape(r)'
    BY <1>1, <2>4a, <2>4b DEF Shape, RefreshPcs, SignoutPcs, Delivered
  <2> QED BY <1>1, <2>3, <2>4a, <2>4b, <2>5 DEF Moved
<1>3. CASE SignoutCookie(r)
  <2>1. PICK p \in {"cookieUser", "clear"} :
          /\ req' = [req EXCEPT ![r].key = secret, ![r].pc = p]
          /\ p = "cookieUser" => req[r].cookie # None
    BY <1>3 DEF SignoutCookie
  <2>3. req'[r] \in ReqType
    BY <1>1, <2>1, FieldTypes DEF SignoutPcs
  <2>4a. req' = [req EXCEPT ![r] = req'[r]]
    BY <1>1, <2>1
  <2>4b. /\ req'[r].pc = p
        /\ req'[r].uid = req[r].uid
        /\ req'[r].kind = "signout"
        /\ req'[r].cookie = req[r].cookie
    BY <1>1, <2>1 DEF ReqType
  <2>5. Shape(r)'
    BY <1>1, <2>1, <2>4a, <2>4b DEF Shape, RefreshPcs, SignoutPcs, Delivered
  <2> QED BY <1>1, <2>3, <2>4a, <2>4b, <2>5 DEF Moved
<1>4. CASE SignoutOwner(r) /\ req'[r].pc = "dropRead"
  <2> DEFINE n == username[req[req[r].cookie].uid]
  <2>1. n \in Names \cup {None}
    <3>1. req[r].cookie \in Delivered
      BY <1>1, <1>4 DEF SignoutOwner, Shape
    <3> QED BY <3>1 DEF TInv, TypeOK, Shape, Delivered
  <2>2. req' = [req EXCEPT ![r].pc = "dropRead", ![r].owner = n]
    BY <1>1, <1>4 DEF SignoutOwner, Goto, ReqType
  <2> HIDE DEF n
  <2>3. req'[r] \in ReqType
    BY <1>1, <2>1, <2>2, FieldTypes DEF SignoutPcs
  <2>4a. req' = [req EXCEPT ![r] = req'[r]]
    BY <1>1, <2>2
  <2>4b. /\ req'[r].pc = "dropRead"
        /\ req'[r].uid = req[r].uid
        /\ req'[r].kind = "signout"
        /\ req'[r].cookie = req[r].cookie
    BY <1>1, <2>2 DEF ReqType
  <2>5. Shape(r)'
    BY <1>1, <2>4a, <2>4b DEF Shape, RefreshPcs, SignoutPcs, Delivered
  <2> QED BY <1>1, <2>3, <2>4a, <2>4b, <2>5 DEF Moved
<1>5. CASE SignoutOwner(r) /\ req'[r].pc # "dropRead"
  <2>1. Goto(r, "clear")
    BY <1>1, <1>5 DEF SignoutOwner, ReqType
  <2>3. req'[r] \in ReqType
    BY <1>1, <2>1, FieldTypes DEF SignoutPcs, Goto
  <2>4a. req' = [req EXCEPT ![r] = req'[r]]
    BY <1>1, <2>1 DEF Goto
  <2>4b. /\ req'[r].pc = "clear"
        /\ req'[r].uid = req[r].uid
        /\ req'[r].kind = "signout"
        /\ req'[r].cookie = req[r].cookie
    BY <1>1, <2>1 DEF ReqType, Goto
  <2>5. Shape(r)'
    BY <1>1, <2>4a, <2>4b DEF Shape, RefreshPcs, SignoutPcs, Delivered
  <2> QED BY <1>1, <2>3, <2>4a, <2>4b, <2>5 DEF Moved
<1> QED BY <1>2, <1>3, <1>4, <1>5

\* The reads and the rewrites of a document leave the identity of a request.
LEMMA DocMoved ==
  ASSUME TInv, NEW r \in Requests, NEW S \in SUBSET Requests,
         NEW p \in Pcs, req' = [req EXCEPT ![r].pc = p, ![r].snap = S],
         \/ /\ {req[r].pc, p} \subseteq RefreshPcs \cup {"addRead", "addWrite"}
         \/ {req[r].pc, p} \subseteq {"dropRead", "dropWrite", "clear"}
  PROVE  Moved(r)
<1>1. /\ req \in [Requests -> ReqType] /\ r \notin Delivered /\ Shape(r)
      /\ S \in SUBSET Requests
  BY DEF TInv, TypeOK, ReqType, Delivered, RefreshPcs
<1>3. req'[r] \in ReqType
  BY <1>1, FieldTypes
<1>4a. req' = [req EXCEPT ![r] = req'[r]]
  BY <1>1
<1>4b. /\ req'[r].pc = p
      /\ req'[r].uid = req[r].uid
      /\ req'[r].kind = req[r].kind
      /\ req'[r].cookie = req[r].cookie
  BY <1>1 DEF ReqType
<1>5. Shape(r)'
  BY <1>1, <1>4a, <1>4b DEF Shape, RefreshPcs, SignoutPcs, Delivered
<1> QED BY <1>1, <1>3, <1>4a, <1>4b, <1>5 DEF Moved

LEMMA ReadMoved ==
  ASSUME TInv, NEW r \in Requests,
         AddRead(r) \/ PurgeRead(r) \/ RotateRead(r) \/ DropRead(r)
  PROVE  Moved(r)
<1>1. \A n : DocOf(n) \in SUBSET Requests
  BY DEF DocOf, Holder, TInv, TypeOK
<1>2. {"addRead", "addWrite", "dropRead", "dropWrite"} \cup RefreshPcs \subseteq Pcs
  BY DEF Pcs, RefreshPcs
<1>3. CASE AddRead(r)
  BY <1>1, <1>2, <1>3, DocMoved DEF AddRead, DocRead
<1>4. CASE PurgeRead(r) \/ RotateRead(r)
  BY <1>1, <1>2, <1>4, DocMoved DEF PurgeRead, RotateRead, DocRead, RefreshPcs
<1>5. CASE DropRead(r)
  BY <1>1, <1>2, <1>5, DocMoved DEF DropRead, DocRead
<1> QED BY <1>3, <1>4, <1>5

LEMMA WriteMoved ==
  ASSUME TInv, NEW r \in Requests, DocWrite(r)
  PROVE  Moved(r)
<1>2. {"addRead", "addWrite", "clear", "dropWrite", "done", "rejected"} \cup RefreshPcs \subseteq Pcs
  BY DEF Pcs, RefreshPcs
<1>3. CASE PurgeWrite(r)
  BY <1>3, Finished DEF PurgeWrite, TokenDelete, Reject, Delivered
<1>4. CASE RotateWrite(r)
  BY <1>2, <1>4, DocMoved DEF RotateWrite, TokenDelete, RefreshPcs
<1>5. CASE DropWrite(r)
  BY <1>2, <1>5, DocMoved DEF DropWrite, TokenDelete
<1>6. CASE SignoutClear(r)
  BY <1>6, Finished DEF SignoutClear, TInv, Shape, SignoutPcs, Delivered
<1>7. CASE AddWrite(r)
  <2>1. /\ req \in [Requests -> ReqType] /\ r \notin Delivered /\ req[r].uid \in Users
    BY <1>7 DEF TInv, TypeOK, ReqType, AddWrite, Delivered, Shape
  <2>2. PICK p \in {"done", "rejected"} :
          req' = [req EXCEPT ![r].pc = p, ![r].snap = {}, ![r].cookie = None, ![r].row = None]
    BY <1>7 DEF AddWrite
  <2>3. req'[r] \in ReqType
    BY <1>2, <2>1, <2>2, FieldTypes
  <2>4a. req' = [req EXCEPT ![r] = req'[r]]
    BY <2>1, <2>2
  <2>4b. /\ req'[r].pc = p
        /\ req'[r].uid = req[r].uid
    BY <2>1, <2>2 DEF ReqType
  <2>5. Shape(r)'
    BY <2>1, <2>4a, <2>4b DEF Shape, RefreshPcs, SignoutPcs
  <2> QED BY <2>1, <2>3, <2>4a, <2>4b, <2>5 DEF Moved
<1> QED BY <1>3, <1>4, <1>5, <1>6, <1>7 DEF DocWrite

LEMMA StartMoved ==
  ASSUME TInv, NEW r \in Requests, Start(r)
  PROVE  Moved(r)
<1> USE DEF TInv, TypeOK, ReqType, Moved, Shape, Kinds, Pcs, RefreshPcs, SignoutPcs,
            Delivered
<1>1. CASE \E n \in Names : RegisterStart(r, n)
  BY <1>1 DEF RegisterStart
<1>2. CASE ProfileStart(r)
  BY <1>2 DEF ProfileStart
<1>3. CASE \E u \in Users : SigninStart(r, u)
  BY <1>3 DEF SigninStart
<1>4. CASE \E t \in Requests : RefreshStart(r, t)
  BY <1>4 DEF RefreshStart
<1>5. CASE \E a \in Requests, c \in Delivered \cup {None} : SignoutStart(r, a, c)
  BY <1>5 DEF SignoutStart
<1> QED BY <1>1, <1>2, <1>3, <1>4, <1>5 DEF Start

LEMMA OverMoved ==
  ASSUME TInv, NEW r \in Requests, CreateUser(r) \/ Crash(r)
  PROVE  Moved(r)
<1>1. CASE CreateUser(r)
  BY <1>1, Finished DEF CreateUser, Reject, Delivered, TInv, Shape
<1>2. CASE Crash(r)
  BY <1>2, Finished DEF Crash, Reject, Delivered
<1> QED BY <1>1, <1>2

LEMMA StepMoved ==
  ASSUME TInv, NEW r \in Requests, RequestStep(r)
  PROVE  Moved(r)
  BY StartMoved, EnsureMoved, SigninMoved, RefreshMoved, SignoutMoved, ReadMoved,
     WriteMoved, OverMoved
  DEF RequestStep, OtherStep

-----------------------------------------------------------------------------
\* The tables and the clock keep their types in every step.
Tables == /\ status \in [Users -> {"ABSENT", "NORMAL", "ARCHIVED"}]
          /\ username \in [Users -> Names \cup {None}]
          /\ secret \in Requests \cup {BootKey, None}
          /\ docs \in [Users -> SUBSET Requests]
          /\ expired \subseteq Requests

LEMMA WriteTables ==
  ASSUME TInv, NEW r \in Requests, DocWrite(r)
  PROVE  Tables'
<1>1. docs' \in [Users -> SUBSET Requests]
  <2>1. req[r].snap \in SUBSET Requests
    BY DEF TInv, TypeOK
  <2> QED BY <2>1 DEF DocWrite, PurgeWrite, RotateWrite, DropWrite, AddWrite, SignoutClear,
                  TokenDelete, PutDoc, TInv, TypeOK
<1> QED BY <1>1 DEF DocWrite, PurgeWrite, RotateWrite, DropWrite, AddWrite, SignoutClear,
                    TokenDelete, Tables, TInv, TypeOK

LEMMA OtherTables ==
  ASSUME TInv, NEW r \in Requests, Start(r) \/ OtherStep(r) \/ Crash(r)
  PROVE  /\ Tables'
         /\ UNCHANGED <<status, username, docs, expired>>
<1>1. CASE EnsureKeyWrite(r)
  BY <1>1 DEF EnsureKeyWrite, Tables, TInv, TypeOK
<1>2. CASE ~ EnsureKeyWrite(r)
  <2>1. UNCHANGED <<status, username, secret, docs, expired>>
    BY <1>2 DEF Start, RegisterStart, ProfileStart, SigninStart, RefreshStart, SignoutStart,
       OtherStep, EnsureKeyRead, SigninKey, SigninUserId, RefreshKey, RefreshRecord,
       RefreshExpiry, RefreshUser, SignoutAuth, SignoutCookie, SignoutOwner, AddRead,
       PurgeRead, RotateRead, DropRead, DocRead, Crash
  <2> QED BY <2>1 DEF Tables, TInv, TypeOK
<1> QED BY <1>1, <1>2

LEMMA CreateTables ==
  ASSUME TInv, NEW r \in Requests, CreateUser(r)
  PROVE  Tables'
<1>1. req[r].name \in Names \cup {None}
  BY DEF TInv, TypeOK
<1> QED BY <1>1 DEF CreateUser, Tables, TInv, TypeOK

LEMMA StepTInv ==
  ASSUME TInv, NEW r \in Requests, RequestStep(r)
  PROVE  TInv'
<1>1. Moved(r)
  BY StepMoved
<1>2. Tables'
  BY WriteTables, OtherTables, CreateTables DEF RequestStep
<1> QED BY <1>1, <1>2, LocalStep DEF Moved, Tables

LEMMA WorldTInv == ASSUME TInv, World PROVE TInv'
<1>1. req' = req
  BY DEF World, SetState, Rename, Expire
<1>2. TypeOK'
  BY <1>1 DEF TInv, TypeOK, World, SetState, Rename, Expire, Delivered
<1> QED BY <1>1, <1>2 DEF TInv, Shape, Delivered

LEMMA NextTInv == TInv /\ [Next]_vars => TInv'
<1> SUFFICES ASSUME TInv, [Next]_vars PROVE TInv'
  OBVIOUS
<1>1. CASE \E r \in Requests : RequestStep(r)
  BY <1>1, StepTInv
<1>2. CASE World
  BY <1>2, WorldTInv
<1>3. CASE UNCHANGED vars
  BY <1>3 DEF vars, TInv, TypeOK, Shape, Delivered
<1> QED BY <1>1, <1>2, <1>3 DEF Next

LEMMA AlwaysTInv == Spec => []TInv
  BY InitTInv, NextTInv, PTL DEF Spec

\* Every value the handlers compute stays in its type, whatever the
\* interleaving, for any sets of users, names and requests.
THEOREM TypeCorrect == Spec => []TypeOK
<1>1. TInv => TypeOK
  BY DEF TInv
<1> QED BY <1>1, AlwaysTInv, PTL

-----------------------------------------------------------------------------
\* Usernames: only CreateUser and Rename assign one, to a single row.

LEMMA UniqueNamesStep == TInv /\ UniqueNames /\ [Next]_vars => UniqueNames'
<1> SUFFICES ASSUME TInv, UniqueNames, [Next]_vars PROVE UniqueNames'
  OBVIOUS
<1>1. CASE UNCHANGED username
  BY <1>1 DEF UniqueNames
<1>2. ASSUME NEW r \in Requests, CreateUser(r) PROVE UniqueNames'
  <2>1. CASE UNCHANGED username
    BY <2>1, <1>1
  <2>2. CASE /\ \A v \in Users : username[v] # req[r].name
             /\ \E u \in Users : username' = [username EXCEPT ![u] = req[r].name]
    BY <2>2 DEF UniqueNames, TInv, TypeOK
  <2> QED BY <1>2, <2>1, <2>2 DEF CreateUser
<1>3. CASE World
  BY <1>1, <1>3 DEF World, SetState, Rename, Expire, UniqueNames, TInv, TypeOK
<1>4. ASSUME NEW r \in Requests, Start(r) \/ OtherStep(r) \/ Crash(r) PROVE UNCHANGED username
  BY <1>4, OtherTables
<1>5. ASSUME NEW r \in Requests, DocWrite(r) PROVE UNCHANGED username
  BY <1>5 DEF DocWrite, PurgeWrite, RotateWrite, DropWrite, AddWrite, SignoutClear, TokenDelete
<1> QED BY <1>1, <1>2, <1>3, <1>4, <1>5 DEF Next, RequestStep, vars

\* No two rows of the user table ever share a username, archived or not.
THEOREM NamesStayUnique == Spec => []UniqueNames
<1>1. Init => UniqueNames
  BY DEF Init, UniqueNames
<1> QED BY <1>1, UniqueNamesStep, AlwaysTInv, PTL DEF Spec

-----------------------------------------------------------------------------
(* The secret key.  Before it exists nobody is registered and no request is *)
(* past ensureSecretKey; a request past reading it holds it.               *)

KeyPcs == RefreshPcs \cup {"userId", "addRead", "addWrite", "cookieUser", "dropRead",
                           "dropWrite", "clear"}

KInv ==
  /\ secret = None =>
       /\ \A u \in Users : status[u] = "ABSENT"
       /\ \A r \in Requests : req[r].pc \in {"idle", "ensureKey", "setKey", "rejected"}
  /\ \A r \in Requests : req[r].pc \in KeyPcs => req[r].key # None

LEMMA InitKInv == Init => KInv
  BY SessionsAssumption DEF Init, KInv, KeyPcs, RefreshPcs, NewRequest

\* Where the first statement of each kind of request leaves it.
LEMMA StartPc ==
  ASSUME TInv, NEW r \in Requests, Start(r)
  PROVE  \/ req'[r].pc = "ensureKey" /\ UNCHANGED <<status, secret>>
         \/ /\ req'[r].pc \in {"refreshKey", "authUser"}
            /\ Delivered # {}
<1>1. req \in [Requests -> ReqType]
  BY DEF TInv, TypeOK, ReqType
<1>2. ASSUME NEW n \in Names, RegisterStart(r, n)
      PROVE  req'[r].pc = "ensureKey" /\ UNCHANGED <<status, secret>>
  BY <1>1, <1>2 DEF RegisterStart, ReqType
<1>3. CASE ProfileStart(r)
  BY <1>1, <1>3 DEF ProfileStart, ReqType
<1>4. ASSUME NEW u \in Users, SigninStart(r, u)
      PROVE  req'[r].pc = "ensureKey" /\ UNCHANGED <<status, secret>>
  BY <1>1, <1>4 DEF SigninStart, ReqType
<1>5. ASSUME NEW t \in Requests, RefreshStart(r, t)
      PROVE  req'[r].pc = "refreshKey" /\ Delivered # {}
  BY <1>1, <1>5 DEF RefreshStart, ReqType
<1>6. ASSUME NEW a \in Requests, NEW c, SignoutStart(r, a, c)
      PROVE  req'[r].pc = "authUser" /\ Delivered # {}
  BY <1>1, <1>6 DEF SignoutStart, ReqType
<1> QED BY <1>2, <1>3, <1>4, <1>5, <1>6 DEF Start

\* A request that has the key keeps it; one that reads it finds one.
LEMMA StepKeyHeld ==
  ASSUME TInv, KInv, NEW r \in Requests, RequestStep(r), req'[r].pc \in KeyPcs
  PROVE  req'[r].key # None
<1>1. req \in [Requests -> ReqType]
  BY DEF TInv, TypeOK, ReqType
<1>2. CASE Start(r)
  <2>1. req'[r].pc \in {"ensureKey", "refreshKey", "authUser"}
    BY <1>2, StartPc
  <2> QED BY <2>1 DEF KeyPcs, RefreshPcs
<1>3. CASE EnsureKeyRead(r) \/ EnsureKeyWrite(r)
  <2>1. req'[r].pc \in {"setKey", "create", "done", "signKey"}
    BY <1>1, <1>3 DEF EnsureKeyRead, EnsureKeyWrite, Goto, AfterEnsure, ReqType, TInv, Shape
  <2> QED BY <2>1 DEF KeyPcs, RefreshPcs
<1>4. CASE Reject(r) \/ Finish(r, "done")
  <2>1. req'[r].pc \in {"done", "rejected"}
    BY <1>1, <1>4 DEF Reject, Finish, NewRequest
  <2> QED BY <2>1 DEF KeyPcs, RefreshPcs
<1>5. CASE (SigninKey(r) \/ RefreshKey(r) \/ SignoutCookie(r)) /\ ~ Reject(r)
  <2>1. secret # None
    BY <1>5 DEF KInv, SigninKey, RefreshKey, SignoutCookie
  <2>2. req'[r].key = secret
    BY <1>1, <1>5 DEF SigninKey, RefreshKey, SignoutCookie, ReqType
  <2> QED BY <2>1, <2>2
<1>6. CASE req[r].pc \in KeyPcs /\ req'[r].key = req[r].key
  BY <1>6 DEF KInv
<1>7. CASE OtherStep(r) /\ ~ Reject(r) /\ ~ (\/ EnsureKeyRead(r) \/ EnsureKeyWrite(r)
             \/ SigninKey(r) \/ RefreshKey(r) \/ SignoutCookie(r) \/ SignoutAuth(r))
  <2>1. req[r].pc \in KeyPcs
    BY <1>7 DEF OtherStep, SigninUserId, RefreshRecord, RefreshExpiry, RefreshUser,
       SignoutOwner, AddRead, PurgeRead, RotateRead, DropRead, DocRead, KeyPcs, RefreshPcs
  <2>2. req'[r].key = req[r].key
    BY <1>1, <1>7 DEF OtherStep, SigninUserId, RefreshRecord, RefreshExpiry, RefreshUser,
       SignoutOwner, AddRead, PurgeRead, RotateRead, DropRead, DocRead, Goto, ReqType
  <2> QED BY <1>6, <2>1, <2>2
<1>8. CASE SignoutAuth(r)
  <2>1. req'[r].pc = "cookieKey"
    BY <1>1, <1>8 DEF SignoutAuth, ReqType
  <2> QED BY <2>1 DEF KeyPcs, RefreshPcs
<1>9. CASE DocWrite(r) /\ ~ Reject(r) /\ ~ Finish(r, "done")
  <2>1. req[r].pc \in KeyPcs
    BY <1>9 DEF DocWrite, PurgeWrite, RotateWrite, DropWrite, AddWrite, SignoutClear,
       TokenDelete, KeyPcs, RefreshPcs
  <2>2. req'[r].key = req[r].key
    BY <1>1, <1>9 DEF DocWrite, PurgeWrite, RotateWrite, DropWrite, AddWrite, SignoutClear,
       TokenDelete, ReqType
  <2> QED BY <1>6, <2>1, <2>2
<1> QED BY <1>2, <1>3, <1>4, <1>5, <1>7, <1>8, <1>9 DEF RequestStep, CreateUser, Crash

\* While there is no key, only registration and profile requests run.
LEMMA StepBeforeKey ==
  ASSUME TInv, KInv, NEW r \in Requests, RequestStep(r), secret' = None
  PROVE  /\ secret = None
         /\ UNCHANGED status
         /\ req'[r].pc \in {"idle", "ensureKey", "setKey", "rejected"}
<1>1. req \in [Requests -> ReqType]
  BY DEF TInv, TypeOK, ReqType
<1>2. secret = None
  BY SessionsAssumption DEF RequestStep, Start, RegisterStart, ProfileStart, SigninStart,
     RefreshStart, SignoutStart, OtherStep, EnsureKeyRead, EnsureKeyWrite, SigninKey,
     SigninUserId, RefreshKey, RefreshRecord, RefreshExpiry, RefreshUser, SignoutAuth,
     SignoutCookie, SignoutOwner, AddRead, PurgeRead, RotateRead, DropRead, DocRead,
     Crash, CreateUser, DocWrite, PurgeWrite, RotateWrite, DropWrite, AddWrite,
     SignoutClear, TokenDelete
<1>3. req[r].pc \in {"idle", "ensureKey", "setKey", "rejected"}
      /\ Delivered = {} /\ \A u \in Users : status[u] # "NORMAL"
  BY <1>2 DEF KInv, Delivered
<1>4. CASE Start(r)
  BY <1>2, <1>3, <1>4, StartPc
<1>5. CASE EnsureKeyRead(r)
  BY <1>1, <1>2, <1>5 DEF EnsureKeyRead, Goto, ReqType
<1>6. CASE EnsureKeyWrite(r)
  BY <1>6, SessionsAssumption DEF EnsureKeyWrite
<1>7. CASE Crash(r)
  BY <1>1, <1>2, <1>7 DEF Crash, Reject, Finish, NewRequest
<1>8. Start(r) \/ EnsureKeyRead(r) \/ EnsureKeyWrite(r) \/ Crash(r)
  BY <1>3 DEF RequestStep, OtherStep, SigninKey,
     SigninUserId, RefreshKey, RefreshRecord, RefreshExpiry, RefreshUser, SignoutAuth,
     SignoutCookie, SignoutOwner, AddRead, PurgeRead, RotateRead, DropRead, DocRead,
     CreateUser, DocWrite, PurgeWrite, RotateWrite, DropWrite, AddWrite, SignoutClear,
     TokenDelete
<1> QED BY <1>2, <1>4, <1>5, <1>6, <1>7, <1>8

LEMMA NextKInv == TInv /\ KInv /\ [Next]_vars => KInv'
<1> SUFFICES ASSUME TInv, KInv, [Next]_vars PROVE KInv'
  OBVIOUS
<1>1. ASSUME NEW r \in Requests, RequestStep(r) PROVE KInv'
  <2>1. \A q \in Requests : q # r => req'[q] = req[q]
    BY <1>1, StepMoved DEF Moved, TInv, TypeOK
  <2>2. \A q \in Requests : req'[q].pc \in KeyPcs => req'[q].key # None
    BY <1>1, <2>1, StepKeyHeld DEF KInv
  <2>3. ASSUME secret' = None
        PROVE  /\ \A u \in Users : status'[u] = "ABSENT"
               /\ \A q \in Requests :
                    req'[q].pc \in {"idle", "ensureKey", "setKey", "rejected"}
    BY <1>1, <2>1, <2>3, StepBeforeKey DEF KInv
  <2> QED BY <2>2, <2>3 DEF KInv
<1>2. CASE World
  BY <1>2 DEF World, SetState, Rename, Expire, KInv, TInv, TypeOK
<1>3. CASE UNCHANGED vars
  BY <1>3 DEF vars, KInv
<1> QED BY <1>1, <1>2, <1>3 DEF Next

\* (await repo.getSecretKey())! never meets a missing key.
THEOREM KeyAlwaysThere == Spec => []KeyNeverMissing
<1>1. TInv /\ KInv => KeyNeverMissing
  BY DEF KInv, KeyNeverMissing, KeyPcs, RefreshPcs, TInv, TypeOK
<1> QED BY <1>1, InitKInv, NextKInv, AlwaysTInv, PTL DEF Spec

-----------------------------------------------------------------------------
(* Where tokens travel.  A step of a request puts into its snapshot only     *)
(* tokens of stored documents, and into the documents only its snapshot and  *)
(* the token it issues itself.                                               *)

LEMMA StepActive ==
  ASSUME NEW r \in Requests, RequestStep(r)
  PROVE  req[r].pc \notin {"done", "rejected"}
<1>1. CASE Start(r)
  BY <1>1 DEF Start, RegisterStart, ProfileStart, SigninStart, RefreshStart, SignoutStart
<1>2. CASE OtherStep(r)
  BY <1>2 DEF OtherStep, EnsureKeyRead, EnsureKeyWrite, SigninKey, SigninUserId, RefreshKey,
     RefreshRecord, RefreshExpiry, RefreshUser, SignoutAuth, SignoutCookie, SignoutOwner,
     AddRead, PurgeRead, RotateRead, DropRead, DocRead
<1>3. CASE DocWrite(r)
  BY <1>3 DEF DocWrite, PurgeWrite, RotateWrite, DropWrite, AddWrite, SignoutClear,
     TokenDelete
<1>4. CASE CreateUser(r) \/ Crash(r)
  BY <1>4 DEF CreateUser, Crash
<1> QED BY <1>1, <1>2, <1>3, <1>4 DEF RequestStep

LEMMA StepDocs ==
  ASSUME TInv, NEW r \in Requests, RequestStep(r), NEW u \in Users
  PROVE  /\ docs'[u] \subseteq docs[u] \cup req[r].snap \cup {r}
         /\ status[u] # "NORMAL" => docs'[u] = docs[u]
<1>1. CASE UNCHANGED docs
  BY <1>1
<1>2. ASSUME NEW n, NEW d, PutDoc(n, d), d \subseteq req[r].snap \cup {r}
      PROVE  /\ docs'[u] \subseteq docs[u] \cup req[r].snap \cup {r}
             /\ status[u] # "NORMAL" => docs'[u] = docs[u]
  BY <1>2 DEF PutDoc, Holder
<1>3. CASE DocWrite(r)
  <2>1. \E n, d : PutDoc(n, d) /\ d \subseteq req[r].snap \cup {r}
    BY <1>3 DEF DocWrite, PurgeWrite, RotateWrite, DropWrite, AddWrite, SignoutClear,
       TokenDelete
  <2> QED BY <1>2, <2>1
<1>4. CASE CreateUser(r)
  BY <1>1, <1>4 DEF CreateUser
<1> QED BY <1>1, <1>3, <1>4, OtherTables DEF RequestStep

LEMMA DocOfStored ==
  ASSUME NEW t, \A u \in Users : t \notin docs[u], NEW n
  PROVE  t \notin DocOf(n)
  BY DEF DocOf, Holder

\* Only the four reads load a snapshot; what they load was stored.
LEMMA StepSnap ==
  ASSUME TInv, NEW r \in Requests, RequestStep(r),
         NEW t, t \notin req[r].snap, \A u \in Users : t \notin docs[u]
  PROVE  t \notin req'[r].snap
<1>1. req \in [Requests -> ReqType]
  BY DEF TInv, TypeOK, ReqType
<1>2. CASE AddRead(r) \/ PurgeRead(r) \/ RotateRead(r) \/ DropRead(r)
  <2>1. \E n : req'[r].snap = DocOf(n)
    BY <1>1, <1>2 DEF AddRead, PurgeRead, RotateRead, DropRead, DocRead, ReqType
  <2> QED BY <2>1, DocOfStored
<1>3. CASE Start(r)
  <2>1. req'[r].snap = req[r].snap
    <3>1. ASSUME NEW n \in Names, RegisterStart(r, n) PROVE req'[r].snap = req[r].snap
      BY <1>1, <3>1 DEF RegisterStart, ReqType
    <3>2. CASE ProfileStart(r)
      BY <1>1, <3>2 DEF ProfileStart, ReqType
    <3>3. ASSUME NEW u \in Users, SigninStart(r, u) PROVE req'[r].snap = req[r].snap
      BY <1>1, <3>3 DEF SigninStart, ReqType
    <3>4. ASSUME NEW c \in Requests, RefreshStart(r, c) PROVE req'[r].snap = req[r].snap
      BY <1>1, <3>4 DEF RefreshStart, ReqType
    <3>5. ASSUME NEW a \in Requests, NEW c, SignoutStart(r, a, c)
          PROVE  req'[r].snap = req[r].snap
      BY <1>1, <3>5 DEF SignoutStart, ReqType
    <3> QED BY <1>3, <3>1, <3>2, <3>3, <3>4, <3>5 DEF Start
  <2> QED BY <2>1
<1>4. CASE Finish(r, "done") \/ Reject(r)
  BY <1>1, <1>4 DEF Finish, Reject, NewRequest
<1>5. CASE DocWrite(r) /\ ~ Finish(r, "done") /\ ~ Reject(r)
  <2>1. req'[r].snap = {}
    BY <1>1, <1>5 DEF DocWrite, PurgeWrite, RotateWrite, DropWrite, AddWrite, SignoutClear,
       TokenDelete, ReqType
  <2> QED BY <2>1
<1>6. CASE EnsureKeyRead(r) \/ EnsureKeyWrite(r) \/ RefreshExpiry(r)
  BY <1>1, <1>6 DEF EnsureKeyRead, EnsureKeyWrite, RefreshExpiry, Goto, ReqType
<1>7. CASE ~ Reject(r) /\ (SigninKey(r) \/ SigninUserId(r) \/ RefreshKey(r)
             \/ RefreshRecord(r) \/ RefreshUser(r))
  BY <1>1, <1>7 DEF SigninKey, SigninUserId, RefreshKey, RefreshRecord, RefreshUser, Goto,
     ReqType
<1>8. CASE SignoutAuth(r) \/ SignoutCookie(r) \/ SignoutOwner(r)
  BY <1>1, <1>8 DEF SignoutAuth, SignoutCookie, SignoutOwner, Goto, ReqType
<1> QED BY <1>2, <1>3, <1>4, <1>5, <1>6, <1>7, <1>8
        DEF RequestStep, OtherStep, CreateUser, Crash

LEMMA StepGone ==
  ASSUME TInv, NEW r \in Requests, RequestStep(r), NEW t \in Requests, Gone(t)
  PROVE  Gone(t)'
<1>1. t # r
  BY StepActive DEF Gone
<1>2. \A q \in Requests : q # r => req'[q] = req[q]
  BY StepMoved DEF Moved, TInv, TypeOK
<1>3. req'[t].pc \in {"done", "rejected"}
  BY <1>1, <1>2 DEF Gone
<1>4. \A u \in Users : t \notin docs'[u]
  BY <1>1, StepDocs DEF Gone
<1>5. \A q \in Requests : t \notin req'[q].snap
  BY <1>2, StepSnap DEF Gone
<1> QED BY <1>3, <1>4, <1>5 DEF Gone

\* A token that is out of the documents and of everybody's hands never works
\* again, for any number of users, devices and concurrent requests.
THEOREM GoneForGood == Spec => NoResurrection
<1>1. TInv /\ [Next]_vars => [\A t \in Requests : Gone(t) => Gone(t)']_vars
  <2> SUFFICES ASSUME TInv, Next, NEW t \in Requests, Gone(t) PROVE Gone(t)'
    OBVIOUS
  <2>1. CASE World
    BY <2>1 DEF World, SetState, Rename, Expire, Gone
  <2> QED BY <2>1, StepGone DEF Next
<1> QED BY <1>1, AlwaysTInv, PTL DEF Spec, NoResurrection

\* The sessions of an archived account stand still until it is restored.
THEOREM ArchivedStandStill == Spec => ArchivedFrozen
<1>1. TInv /\ [Next]_vars
        => [\A u \in Users : status[u] = "ARCHIVED" => docs'[u] = docs[u]]_vars
  <2> SUFFICES ASSUME TInv, Next, NEW u \in Users, status[u] = "ARCHIVED"
               PROVE  docs'[u] = docs[u]
    OBVIOUS
  <2>1. CASE World
    BY <2>1 DEF World, SetState, Rename, Expire
  <2> QED BY <2>1, StepDocs DEF Next
<1> QED BY <1>1, AlwaysTInv, PTL DEF Spec, ArchivedFrozen
-----------------------------------------------------------------------------
(* Sessions with their history: every step of it is a step of Sessions.    *)

HInv == TInv /\ UniqueNames

LEMMA HistorySteps == [HNext]_hvars => [Next]_vars
BY DEF HNext, HDocWrite, Next, RequestStep, hvars, vars

LEMMA InitHInv == HInit => HInv
BY InitTInv DEF HInit, HInv, Init, UniqueNames

LEMMA StepHInv == HInv /\ [HNext]_hvars => HInv'
BY HistorySteps, NextTInv, UniqueNamesStep DEF HInv

(* Rows that exist have a name, and requests that will create one know it. *)
RowsNamed ==
  /\ \A u \in Users : status[u] # "ABSENT" => username[u] # None
  /\ \A r \in Requests :
       req[r].kind = "register" /\ req[r].pc \in {"ensureKey", "setKey", "create"}
         => req[r].name \in Names

(* The requests by where their steps may leave them.                       *)
LEMMA StepEnds ==
  ASSUME TInv, NEW r \in Requests, CreateUser(r) \/ Crash(r) \/ Reject(r) \/ Finish(r, "done")
  PROVE  req'[r].pc \in {"done", "rejected"}
<1>1. PICK pc \in {"done", "rejected"} : Finish(r, pc)
  BY DEF CreateUser, Crash, Reject
<1>2. req' = [req EXCEPT ![r] = [NewRequest EXCEPT !.kind = req[r].kind, !.pc = pc]]
  BY <1>1 DEF Finish
<1>3. [NewRequest EXCEPT !.kind = req[r].kind, !.pc = pc].pc = pc
  BY DEF NewRequest
<1> QED
  BY <1>2, <1>3 DEF TInv, TypeOK

LEMMA WriteEnds ==
  ASSUME TInv, NEW r \in Requests, DocWrite(r)
  PROVE  req'[r].pc \in {"done", "rejected", "addRead", "clear"}
<1>1. req \in [Requests -> ReqType]
  BY DEF TInv, TypeOK, ReqType
<1>2. CASE Reject(r) \/ Finish(r, "done")
  BY <1>2, StepEnds
<1>3. CASE ~Reject(r) /\ ~Finish(r, "done")
  BY <1>1, <1>3 DEF DocWrite, PurgeWrite, RotateWrite, DropWrite, AddWrite, SignoutClear,
     TokenDelete, ReqType
<1> QED
  BY <1>2, <1>3

LEMMA RowsStep ==
  ASSUME TInv, RowsNamed, NEW r \in Requests, RequestStep(r),
         req'[r].kind = "register", req'[r].pc \in {"ensureKey", "setKey", "create"}
  PROVE  req'[r].name \in Names
<1>1. req \in [Requests -> ReqType]
  BY DEF TInv, TypeOK, ReqType
<1>2. CASE Start(r)
  <2>1. ASSUME NEW n \in Names, RegisterStart(r, n) PROVE req'[r].name \in Names
    BY <1>1, <2>1 DEF RegisterStart, ReqType
  <2>2. ASSUME NEW u \in Users, SigninStart(r, u) PROVE FALSE
    BY <1>1, <2>2 DEF SigninStart, ReqType
  <2>3. CASE ProfileStart(r)
    BY <1>1, <2>3 DEF ProfileStart, ReqType
  <2>4. ASSUME NEW t \in Requests, RefreshStart(r, t) PROVE FALSE
    BY <1>1, <2>4 DEF RefreshStart, ReqType
  <2>5. ASSUME NEW a \in Requests, NEW c, SignoutStart(r, a, c) PROVE FALSE
    BY <1>1, <2>5 DEF SignoutStart, ReqType
  <2> QED BY <1>2, <2>1, <2>2, <2>3, <2>4, <2>5 DEF Start
<1>3. CASE EnsureKeyRead(r) \/ EnsureKeyWrite(r)
  <2>1. req'[r].name = req[r].name /\ req'[r].kind = req[r].kind
    BY <1>1, <1>3 DEF EnsureKeyRead, EnsureKeyWrite, Goto, ReqType
  <2> QED BY <1>3, <2>1 DEF RowsNamed, EnsureKeyRead, EnsureKeyWrite
<1>4. CASE Reject(r) \/ CreateUser(r) \/ Crash(r)
  BY <1>4, StepEnds
<1>5. CASE DocWrite(r)
  BY <1>5, WriteEnds
<1>6. CASE OtherStep(r) /\ ~Reject(r) /\ ~EnsureKeyRead(r) /\ ~EnsureKeyWrite(r)
  BY <1>1, <1>6 DEF OtherStep, SigninKey, SigninUserId, RefreshKey, RefreshRecord, RefreshExpiry,
     RefreshUser, SignoutAuth, SignoutCookie, SignoutOwner, AddRead, PurgeRead, RotateRead,
     DropRead, DocRead, Goto, ReqType
<1> QED
  BY <1>2, <1>3, <1>4, <1>5, <1>6 DEF RequestStep

(* What a step does to the rows of the user table.                         *)
LEMMA StepRows ==
  ASSUME TInv, NEW r \in Requests, RequestStep(r)
  PROVE  \/ UNCHANGED <<status, username>>
         \/ /\ CreateUser(r) /\ req[r].kind = "register" /\ req[r].pc = "create"
            /\ \E u \in Users : /\ status[u] = "ABSENT"
                                /\ status' = [status EXCEPT ![u] = "NORMAL"]
                                /\ username' = [username EXCEPT ![u] = req[r].name]
<1>1. CASE CreateUser(r)
  BY <1>1 DEF CreateUser, TInv, Shape
<1>2. CASE DocWrite(r)
  BY <1>2 DEF DocWrite, PurgeWrite, RotateWrite, DropWrite, AddWrite, SignoutClear, TokenDelete
<1> QED
  BY <1>1, <1>2, OtherTables DEF RequestStep

LEMMA StepRowsNamed == HInv /\ RowsNamed /\ [Next]_vars => RowsNamed'
<1> SUFFICES ASSUME HInv, RowsNamed, [Next]_vars PROVE RowsNamed'
  OBVIOUS
<1>0. TInv /\ None \notin Names
  BY SessionsAssumption DEF HInv
<1>1. ASSUME NEW r \in Requests, RequestStep(r) PROVE RowsNamed'
  <2>1. \A q \in Requests : q # r => req'[q] = req[q]
    BY <1>0, <1>1, StepMoved DEF Moved, TInv, TypeOK
  <2>2. \A u \in Users : status'[u] # "ABSENT" => username'[u] # None
    <3>1. CASE UNCHANGED <<status, username>>
      BY <3>1 DEF RowsNamed
    <3>2. CASE ~UNCHANGED <<status, username>>
      <4>1. req[r].name \in Names
        BY <1>0, <1>1, <3>2, StepRows DEF RowsNamed
      <4>2. PICK u \in Users : /\ status' = [status EXCEPT ![u] = "NORMAL"]
                               /\ username' = [username EXCEPT ![u] = req[r].name]
        BY <1>0, <1>1, <3>2, StepRows
      <4> QED BY <1>0, <4>1, <4>2 DEF RowsNamed, TInv, TypeOK
    <3> QED BY <3>1, <3>2
  <2>3. ASSUME NEW q \in Requests, req'[q].kind = "register",
               req'[q].pc \in {"ensureKey", "setKey", "create"}
        PROVE  req'[q].name \in Names
    BY <1>0, <1>1, <2>1, <2>3, RowsStep DEF RowsNamed
  <2> QED BY <2>2, <2>3 DEF RowsNamed
<1>2. CASE World
  BY <1>0, <1>2 DEF World, SetState, Rename, Expire, RowsNamed, TInv, TypeOK
<1>3. CASE UNCHANGED vars
  BY <1>3 DEF vars, RowsNamed
<1> QED
  BY <1>1, <1>2, <1>3 DEF Next

(* A username has one holder.                                              *)
LEMMA OneHolder ==
  ASSUME UniqueNames, RowsNamed, NEW n, NEW u \in Holder(n), NEW v \in Holder(n)
  PROVE  u = v
BY DEF UniqueNames, RowsNamed, Holder

-----------------------------------------------------------------------------
(* Outside raced the document is the one of an atomic store, and whoever   *)
(* will write it has read it as it is.                                     *)

Serial(u) ==
  /\ docs[u] = ideal[u]
  /\ \A r \in Requests : Holding(r) /\ u \in Holder(Target(r)) => req[r].snap = docs[u]

SerialInv == HInv /\ RowsNamed /\ \A u \in Users \ raced : Serial(u)

(* A request holds a document because it has just read it.                 *)
LEMMA HoldingReads ==
  ASSUME TInv, NEW r \in Requests, RequestStep(r), Holding(r)'
  PROVE  /\ UNCHANGED <<docs, status, username>>
         /\ req'[r].snap = DocOf(Target(r)')
<1>1. req \in [Requests -> ReqType] /\ req'[r].pc \in Writing
  BY DEF TInv, TypeOK, ReqType, Holding
<1>2. CASE AddRead(r) \/ PurgeRead(r) \/ RotateRead(r)
  <2>1. PICK p \in {"addWrite", "purgeWrite", "rotateWrite"} :
          req' = [req EXCEPT ![r].pc = p, ![r].snap = DocOf(req[r].name)]
    BY <1>2 DEF AddRead, PurgeRead, RotateRead, DocRead
  <2>2. req'[r].pc = p /\ req'[r].name = req[r].name /\ req'[r].snap = DocOf(req[r].name)
    BY <1>1, <2>1 DEF ReqType
  <2> QED BY <1>2, <2>2 DEF AddRead, PurgeRead, RotateRead, DocRead, Target
<1>3. CASE DropRead(r)
  <2>1. req' = [req EXCEPT ![r].pc = "dropWrite", ![r].snap = DocOf(req[r].owner)]
    BY <1>3 DEF DropRead, DocRead
  <2>2. /\ req'[r].pc = "dropWrite" /\ req'[r].owner = req[r].owner
        /\ req'[r].snap = DocOf(req[r].owner)
    BY <1>1, <2>1 DEF ReqType
  <2> QED BY <1>3, <2>2 DEF DropRead, DocRead, Target
<1>4. CASE Start(r)
  BY <1>1, <1>4, StartPc DEF Writing
<1>5. CASE Reject(r) \/ CreateUser(r) \/ Crash(r)
  BY <1>1, <1>5, StepEnds DEF Writing
<1>6. CASE DocWrite(r)
  BY <1>1, <1>6, WriteEnds DEF Writing
<1>7. CASE EnsureKeyRead(r) \/ EnsureKeyWrite(r)
  <2>1. req'[r].pc \in {"setKey", "create", "done", "signKey"}
    BY <1>1, <1>7 DEF EnsureKeyRead, EnsureKeyWrite, Goto, AfterEnsure, ReqType, TInv, Shape
  <2> QED BY <1>1, <2>1 DEF Writing
<1>8. CASE OtherStep(r) /\ ~Reject(r) /\ ~ (\/ EnsureKeyRead(r) \/ EnsureKeyWrite(r)
             \/ AddRead(r) \/ PurgeRead(r) \/ RotateRead(r) \/ DropRead(r))
  <2>1. req'[r].pc \in {"userId", "addRead", "record", "checkExpiry", "purgeRead", "getUser",
                        "rotateRead", "cookieKey", "cookieUser", "clear", "dropRead"}
    BY <1>1, <1>8 DEF OtherStep, SigninKey, SigninUserId, RefreshKey, RefreshRecord, RefreshExpiry,
       RefreshUser, SignoutAuth, SignoutCookie, SignoutOwner, Goto, ReqType
  <2> QED BY <1>1, <2>1 DEF Writing
<1> QED
  BY <1>2, <1>3, <1>4, <1>5, <1>6, <1>7, <1>8 DEF RequestStep, OtherStep

(* A write, seen as the intended change of what was read.                  *)
LEMMA WriteIntends ==
  ASSUME NEW r \in Requests, DocWrite(r)
  PROVE  /\ docs' = [u \in Users |-> IF u \in Holder(Target(r))
                                     THEN Intended(r, req[r].snap) ELSE docs[u]]
         /\ req[r].pc = "clear" \/ Holding(r)
         /\ UNCHANGED <<status, username>>
BY DEF DocWrite, PurgeWrite, RotateWrite, DropWrite, AddWrite, SignoutClear, TokenDelete,
   PutDoc, Target, Intended, Holding, Writing

LEMMA TargetStays ==
  ASSUME NEW q \in Requests, req'[q] = req[q], UNCHANGED <<status, username>>
  PROVE  /\ Holding(q)' <=> Holding(q)
         /\ \A u : u \in Holder(Target(q))' <=> u \in Holder(Target(q))
BY DEF Holding, Target, Holder
(* A write that overlaps with none puts the ideal document into the store, *)
(* and nobody is left who has read another one.                            *)
LEMMA WriteSerial ==
  ASSUME SerialInv, NEW r \in Requests, HDocWrite(r), NEW u \in Users \ raced'
  PROVE  Serial(u)'
<1>1. /\ TInv /\ DocWrite(r) /\ RequestStep(r) /\ UNCHANGED <<status, username>>
      /\ u \notin raced /\ Serial(u)
  BY WriteIntends DEF SerialInv, HInv, HDocWrite, RequestStep
<1>2. ~Holding(r)'
  BY <1>1, WriteEnds DEF Holding, Writing
<1>3. \A q \in Requests \ {r} : req'[q] = req[q]
  BY <1>1, StepMoved DEF Moved, TInv, TypeOK
<1>4. CASE u \in Holder(Target(r))
  <2>1. \A q \in Requests \ {r} : ~(Holding(q) /\ u \in Holder(Target(q)))
    BY <1>4 DEF HDocWrite
  <2>2. Intended(r, req[r].snap) = Intended(r, ideal[u])
    <3>1. CASE req[r].pc = "clear"
      BY <3>1 DEF Intended
    <3>2. CASE Holding(r)
      BY <1>1, <1>4, <3>2 DEF Serial
    <3> QED BY <1>1, <3>1, <3>2, WriteIntends
  <2>3. docs'[u] = ideal'[u]
    BY <1>1, <1>4, <2>2, WriteIntends DEF HDocWrite
  <2>4. \A q \in Requests : ~(Holding(q)' /\ u \in Holder(Target(q))')
    BY <1>1, <1>2, <1>3, <2>1, TargetStays DEF Holding
  <2> QED BY <2>3, <2>4 DEF Serial, Holding
<1>5. CASE u \notin Holder(Target(r))
  <2>1. docs'[u] = docs[u] /\ ideal'[u] = ideal[u]
    BY <1>1, <1>5, WriteIntends DEF HDocWrite
  <2>2. ASSUME NEW q \in Requests, Holding(q)', u \in Holder(Target(q))'
        PROVE  req'[q].snap = docs'[u]
    <3>1. q # r
      BY <1>2, <2>2 DEF Holding
    <3>2. Holding(q) /\ u \in Holder(Target(q)) /\ req'[q] = req[q]
      BY <1>1, <1>3, <2>2, <3>1, TargetStays
    <3> QED BY <1>1, <2>1, <3>2 DEF Serial
  <2> QED BY <1>1, <2>1, <2>2 DEF Serial
<1> QED
  BY <1>4, <1>5

(* A step that writes no document: a request that ends up holding one has  *)
(* it from the store.                                                      *)
LEMMA ReadSerial ==
  ASSUME SerialInv, NEW r \in Requests, RequestStep(r), UNCHANGED <<docs, status, username>>,
         NEW u \in Users \ raced, ideal'[u] = ideal[u]
  PROVE  Serial(u)'
<1>1. TInv /\ UniqueNames /\ RowsNamed /\ Serial(u)
  BY DEF SerialInv, HInv
<1>2. \A q \in Requests \ {r} : req'[q] = req[q]
  BY <1>1, StepMoved DEF Moved, TInv, TypeOK
<1>3. ASSUME NEW q \in Requests, Holding(q)', u \in Holder(Target(q))'
      PROVE  req'[q].snap = docs'[u]
  <2>1. CASE q = r
    <3>1. UNCHANGED <<status, username>> /\ req'[r].snap = DocOf(Target(r)')
      BY <1>1, <1>3, <2>1, HoldingReads
    <3>2. u \in Holder(Target(r)')
      BY <1>3, <2>1, <3>1 DEF Holder, Target
    <3>3. \A v \in Holder(Target(r)') : v = u
      BY <1>1, <3>2, OneHolder
    <3>4. DocOf(Target(r)') = docs[u]
      BY <3>2, <3>3 DEF DocOf
    <3> QED BY <2>1, <3>1, <3>4
  <2>2. CASE q # r
    <3>1. Holding(q) /\ req'[q] = req[q]
      BY <1>2, <1>3, <2>2 DEF Holding
    <3>2. u \in Holder(Target(q))
      BY <1>3, <3>1, TargetStays
    <3> QED BY <1>1, <3>1, <3>2 DEF Serial
  <2> QED BY <2>1, <2>2
<1> QED
  BY <1>1, <1>3 DEF Serial

(* A change of a row that nobody has read.                                 *)
LEMMA RowSerial ==
  ASSUME SerialInv, UNCHANGED <<docs, req>>, NEW u \in Users \ raced, ideal'[u] = ideal[u],
         \/ status'[u] = status[u] /\ username'[u] = username[u]
         \/ \A q \in Requests : ~Holding(q)
  PROVE  Serial(u)'
<1>1. Serial(u)
  BY DEF SerialInv
<1>2. ASSUME NEW q \in Requests, Holding(q)', u \in Holder(Target(q))'
      PROVE  Holding(q) /\ u \in Holder(Target(q))
  BY <1>2 DEF Holding, Target, Holder
<1> QED
  BY <1>1, <1>2 DEF Serial

LEMMA StepSerial == SerialInv /\ [HNext]_hvars => SerialInv'
<1> SUFFICES ASSUME SerialInv, [HNext]_hvars PROVE SerialInv'
  OBVIOUS
<1>1. HInv' /\ RowsNamed' /\ TInv /\ HInv
  BY StepHInv, StepRowsNamed, HistorySteps DEF SerialInv, HInv
<1>2. ASSUME NEW u \in Users \ raced' PROVE Serial(u)'
  <2>1. CASE UNCHANGED hvars
    BY <2>1 DEF hvars, SerialInv, Serial, Holding, Target, Holder
  <2>2. CASE \E r \in Requests : HDocWrite(r)
    BY <2>2, WriteSerial
  <2>3. ASSUME NEW r \in Requests, Start(r) \/ OtherStep(r) \/ Crash(r),
               UNCHANGED <<ideal, raced, disturbed>>
        PROVE  Serial(u)'
    <3>1. UNCHANGED <<docs, status, username>> /\ RequestStep(r)
      BY <1>1, <2>3, OtherTables DEF RequestStep
    <3> QED BY <2>3, <3>1, ReadSerial
  <2>4. ASSUME NEW r \in Requests, CreateUser(r), RowChange PROVE Serial(u)'
    <3>1. u \notin raced /\ UNCHANGED <<docs, ideal>> /\ RequestStep(r)
      BY <2>4 DEF RowChange, CreateUser, RequestStep
    <3>2. \/ status'[u] = status[u] /\ username'[u] = username[u]
          \/ \A q \in Requests : ~Holding(q)
      BY <2>4 DEF RowChange
    <3>3. \A q \in Requests : Holding(q)' => Holding(q) /\ Target(q)' = Target(q) /\ req'[q] = req[q]
      <4>1. \A q \in Requests \ {r} : req'[q] = req[q]
        BY <1>1, <3>1, StepMoved DEF Moved, TInv, TypeOK
      <4>2. ~Holding(r)'
        BY <1>1, <2>4, StepEnds DEF Holding, Writing
      <4> QED BY <4>1, <4>2 DEF Holding, Target
    <3>4. ASSUME NEW q \in Requests, Holding(q)', u \in Holder(Target(q))'
          PROVE  Holding(q) /\ u \in Holder(Target(q)) /\ req'[q] = req[q]
      BY <3>2, <3>3, <3>4 DEF Holder
    <3> QED BY <3>1, <3>4 DEF Serial, SerialInv
  <2>5. CASE World /\ RowChange
    <3>1. u \notin raced /\ UNCHANGED <<docs, req, ideal>>
      BY <2>5 DEF RowChange, World, SetState, Rename, Expire
    <3>2. \/ status'[u] = status[u] /\ username'[u] = username[u]
          \/ \A q \in Requests : ~Holding(q)
      BY <2>5 DEF RowChange
    <3> QED BY <3>1, <3>2, RowSerial
  <2> QED BY <2>1, <2>2, <2>3, <2>4, <2>5 DEF HNext
<1> QED
  BY <1>1, <1>2 DEF SerialInv

LEMMA InitSerial == HInit => SerialInv
<1> SUFFICES ASSUME HInit PROVE SerialInv
  OBVIOUS
<1>1. HInv
  BY InitHInv
<1>2. RowsNamed
  BY DEF HInit, Init, RowsNamed, NewRequest
<1>3. \A u \in Users : Serial(u)
  BY DEF HInit, Init, Serial, Holding, Writing, NewRequest
<1> QED
  BY <1>1, <1>2, <1>3 DEF SerialInv

(* As long as no two read-write windows on a user's document overlap it is *)
(* the document of an atomic store: what is written is the intended change *)
(* of what was read, and what was read is what is stored.                  *)
THEOREM SerialWithoutRaces == HSpec => []SerialUnlessRaced
<1>1. SerialInv => SerialUnlessRaced
  BY DEF SerialInv, Serial, SerialUnlessRaced
<1> QED
  BY <1>1, InitSerial, StepSerial, PTL DEF HSpec
-----------------------------------------------------------------------------
(* Whose sessions a document holds.                                        *)

(* From here on a sign-in or a refresh works with a name and a user id.    *)
LatePcs == {"checkExpiry", "purgeRead", "purgeWrite", "getUser", "rotateRead", "rotateWrite",
            "addRead", "addWrite"}

NameRight(r) ==
  req[r].pc \in LatePcs /\ r \notin disturbed =>
    req[r].uid \in Users /\ status[req[r].uid] # "ABSENT" /\ username[req[r].uid] = req[r].name

(* Only requests that are over have their token in a document.             *)
StoredOver ==
  \A t \in Requests :
    (\E u \in Users : t \in docs[u]) \/ (\E r \in Requests : t \in req[r].snap)
      => req[t].pc \in {"done", "rejected"}

Own(u) == \A t \in docs[u] \ disturbed : req[t].uid = u

OwnInv == /\ SerialInv /\ StoredOver
          /\ \A r \in Requests : NameRight(r)
          /\ \A u \in Users \ raced : Own(u)

LEMMA OverStays ==
  ASSUME TInv, NEW r \in Requests, RequestStep(r), NEW t \in Requests,
         req[t].pc \in {"done", "rejected"}
  PROVE  req'[t] = req[t]
<1>1. t # r
  BY StepActive
<1> QED
  BY <1>1, StepMoved DEF Moved, TInv, TypeOK

(* A token that gets into a document is in the snapshot, or is the one of  *)
(* a request that ends with this write.                                    *)
LEMMA IssuedOver ==
  ASSUME TInv, NEW r \in Requests, RequestStep(r), NEW u \in Users, NEW t \in docs'[u],
         t \notin docs[u], t \notin req[r].snap
  PROVE  /\ t = r /\ AddWrite(r) /\ u \in Holder(req[r].name)
         /\ req'[r].pc \in {"done", "rejected"} /\ req'[r].uid = req[r].uid
<1>1. req \in [Requests -> ReqType]
  BY DEF TInv, TypeOK, ReqType
<1>2. DocWrite(r)
  BY OtherTables DEF RequestStep, CreateUser
<1>3. u \in Holder(Target(r)) /\ t \in Intended(r, req[r].snap)
  BY <1>2, WriteIntends
<1>4. req[r].pc = "addWrite" /\ t = r
  BY <1>3 DEF Intended
<1>5. AddWrite(r)
  BY <1>2, <1>4 DEF DocWrite, PurgeWrite, RotateWrite, DropWrite, SignoutClear, TokenDelete
<1>6. PICK pc \in {"done", "rejected"} :
        req' = [req EXCEPT ![r].pc = pc, ![r].snap = {}, ![r].cookie = None, ![r].row = None]
  BY <1>5 DEF AddWrite
<1>7. req'[r].pc = pc /\ req'[r].uid = req[r].uid
  BY <1>1, <1>6 DEF ReqType
<1> QED
  BY <1>3, <1>4, <1>5, <1>7 DEF Target

LEMMA StepStored == TInv /\ StoredOver /\ [Next]_vars => StoredOver'
<1> SUFFICES ASSUME TInv, StoredOver, [Next]_vars PROVE StoredOver'
  OBVIOUS
<1>1. ASSUME NEW r \in Requests, RequestStep(r) PROVE StoredOver'
  <2>1. SUFFICES ASSUME NEW t \in Requests,
                        (\E u \in Users : t \in docs'[u]) \/ (\E q \in Requests : t \in req'[q].snap)
                 PROVE  req'[t].pc \in {"done", "rejected"}
    BY DEF StoredOver
  <2>2. CASE (\E u \in Users : t \in docs[u]) \/ (\E q \in Requests : t \in req[q].snap)
    BY <1>1, <2>2, OverStays DEF StoredOver
  <2>3. CASE (\A u \in Users : t \notin docs[u]) /\ (\A q \in Requests : t \notin req[q].snap)
    <3>1. \A q \in Requests : t \notin req'[q].snap
      <4>1. t \notin req'[r].snap
        BY <1>1, <2>3, StepSnap
      <4>2. \A q \in Requests \ {r} : req'[q] = req[q]
        BY <1>1, StepMoved DEF Moved, TInv, TypeOK
      <4> QED BY <2>3, <4>1, <4>2
    <3>2. PICK u \in Users : t \in docs'[u]
      BY <2>1, <3>1
    <3> QED BY <1>1, <2>3, <3>2, IssuedOver
  <2> QED BY <2>2, <2>3
<1>2. CASE World
  BY <1>2 DEF World, SetState, Rename, Expire, StoredOver
<1>3. CASE UNCHANGED vars
  BY <1>3 DEF vars, StoredOver
<1> QED
  BY <1>1, <1>2, <1>3 DEF Next

(* The name is read with the row of the id, and kept with it.              *)
LEMMA OwnName ==
  ASSUME HInv, RowsNamed, NEW r \in Requests, RequestStep(r), NameRight(r),
         disturbed \subseteq disturbed'
  PROVE  NameRight(r)'
<1>1. req \in [Requests -> ReqType] /\ TInv
  BY DEF HInv, TInv, TypeOK, ReqType
<1>2. CASE req'[r].pc \notin LatePcs
  BY <1>2 DEF NameRight
<1>3. ASSUME UNCHANGED <<status, username>>, req[r].pc \in LatePcs,
             req'[r].uid = req[r].uid, req'[r].name = req[r].name
      PROVE  NameRight(r)'
  BY <1>3 DEF NameRight
<1>4. CASE Start(r)
  <2>1. req'[r].pc \in {"ensureKey", "refreshKey", "authUser"}
    BY <1>1, <1>4, StartPc
  <2> QED BY <1>2, <2>1 DEF LatePcs
<1>5. CASE Reject(r) \/ Finish(r, "done") \/ CreateUser(r) \/ Crash(r)
  BY <1>1, <1>2, <1>5, StepEnds DEF LatePcs
<1>6. CASE EnsureKeyRead(r) \/ EnsureKeyWrite(r)
  <2>1. req'[r].pc \in {"setKey", "create", "done", "signKey"}
    BY <1>1, <1>6 DEF EnsureKeyRead, EnsureKeyWrite, Goto, AfterEnsure, ReqType, TInv, Shape
  <2> QED BY <1>2, <2>1 DEF LatePcs
<1>7. CASE SigninUserId(r) /\ ~Reject(r)
  <2>1. PICK u \in Holder(req[r].name) : req' = [req EXCEPT ![r].pc = "addRead", ![r].uid = u]
    BY <1>7 DEF SigninUserId
  <2>2. req'[r].uid = u /\ req'[r].name = req[r].name
    BY <1>1, <2>1 DEF ReqType
  <2> QED BY <1>7, <2>1, <2>2 DEF SigninUserId, NameRight, Holder
<1>8. CASE RefreshRecord(r) /\ ~Reject(r)
  <2>1. /\ status[req[r].uid] = "NORMAL" /\ req[r].uid \in Users
        /\ req' = [req EXCEPT ![r].pc = "checkExpiry", ![r].name = username[req[r].uid]]
    BY <1>1, <1>8 DEF RefreshRecord, TInv, Shape, RefreshPcs
  <2>2. req'[r].uid = req[r].uid /\ req'[r].name = username[req[r].uid]
    BY <1>1, <2>1 DEF ReqType
  <2> QED BY <1>8, <2>1, <2>2 DEF RefreshRecord, NameRight
<1>9. CASE ~Reject(r) /\ (\/ RefreshExpiry(r) \/ RefreshUser(r) \/ AddRead(r) \/ PurgeRead(r)
                          \/ RotateRead(r))
  <2>1. req'[r].uid = req[r].uid /\ req'[r].name = req[r].name
    BY <1>1, <1>9 DEF RefreshExpiry, RefreshUser, AddRead, PurgeRead, RotateRead, DocRead, Goto,
       ReqType
  <2>2. UNCHANGED <<status, username>> /\ req[r].pc \in LatePcs
    BY <1>9 DEF RefreshExpiry, RefreshUser, AddRead, PurgeRead, RotateRead, DocRead, LatePcs
  <2> QED BY <1>3, <2>1, <2>2
<1>10. CASE (SigninKey(r) \/ RefreshKey(r)) /\ ~Reject(r)
  <2>1. req'[r].pc \in {"userId", "record"}
    BY <1>1, <1>10 DEF SigninKey, RefreshKey, ReqType
  <2> QED BY <1>2, <2>1 DEF LatePcs
<1>11. CASE SignoutAuth(r) \/ SignoutCookie(r) \/ SignoutOwner(r) \/ DropRead(r)
  <2>1. req'[r].pc \in {"cookieKey", "cookieUser", "clear", "dropRead", "dropWrite"}
    BY <1>1, <1>11 DEF SignoutAuth, SignoutCookie, SignoutOwner, DropRead, DocRead, Goto, ReqType
  <2> QED BY <1>2, <2>1 DEF LatePcs
<1>12. CASE DocWrite(r) /\ ~Reject(r) /\ ~Finish(r, "done")
  <2>1. CASE RotateWrite(r)
    <3>1. req'[r].uid = req[r].uid /\ req'[r].name = req[r].name
      BY <1>1, <1>12, <2>1 DEF RotateWrite, TokenDelete, ReqType
    <3> QED BY <1>3, <2>1, <3>1 DEF RotateWrite, TokenDelete, LatePcs
  <2>2. CASE AddWrite(r) \/ DropWrite(r)
    <3>1. req'[r].pc \in {"done", "rejected", "clear"}
      BY <1>1, <1>12, <2>2 DEF AddWrite, DropWrite, TokenDelete, ReqType
    <3> QED BY <1>2, <3>1 DEF LatePcs
  <2> QED BY <1>12, <2>1, <2>2 DEF DocWrite, PurgeWrite, TokenDelete, SignoutClear
<1> QED
  BY <1>4, <1>5, <1>6, <1>7, <1>8, <1>9, <1>10, <1>11, <1>12 DEF RequestStep, OtherStep

(* Somebody else's row does not change under a name, or disturbs it.       *)
LEMMA OthersName ==
  ASSUME HInv, RowsNamed, NEW q \in Requests, NameRight(q), req'[q] = req[q],
         disturbed \subseteq disturbed',
         NEW r \in Requests, RequestStep(r)
  PROVE  NameRight(q)'
<1>1. CASE UNCHANGED <<status, username>>
  BY <1>1 DEF NameRight
<1>2. CASE ~UNCHANGED <<status, username>>
  <2>1. PICK u \in Users : /\ status[u] = "ABSENT"
                           /\ status' = [status EXCEPT ![u] = "NORMAL"]
                           /\ username' = [username EXCEPT ![u] = req[r].name]
    BY <1>2, StepRows DEF HInv
  <2>2. \A v \in Users : v # u => status'[v] = status[v] /\ username'[v] = username[v]
    BY <2>1 DEF HInv, TInv, TypeOK
  <2> QED BY <2>1, <2>2 DEF NameRight
<1> QED
  BY <1>1, <1>2

LEMMA WorldName ==
  ASSUME HInv, RowsNamed, NEW q \in Requests, NameRight(q), World, RowChange
  PROVE  NameRight(q)'
<1>1. UNCHANGED req
  BY DEF World, SetState, Rename, Expire
<1>2. SUFFICES ASSUME req[q].pc \in LatePcs, q \notin disturbed' PROVE NameRight(q)'
  BY <1>1 DEF NameRight
<1>3. q \notin disturbed
  BY <1>2 DEF RowChange
<1>4. \A u \in Users : username'[u] = username[u] \/ username[u] = None
  BY <1>2 DEF RowChange, LatePcs
<1>5. \A u \in Users : status[u] # "ABSENT" => status'[u] # "ABSENT"
  BY DEF World, SetState, Rename, Expire, HInv, TInv, TypeOK
<1> QED
  BY <1>1, <1>2, <1>3, <1>4, <1>5 DEF NameRight, RowsNamed

(* The session that is added is the holder's.                              *)
LEMMA StepOwn ==
  ASSUME OwnInv, NEW r \in Requests, RequestStep(r), NEW u \in Users \ raced,
         HDocWrite(r) \/ UNCHANGED docs, disturbed \subseteq disturbed'
  PROVE  Own(u)'
<1>1. TInv /\ UniqueNames /\ RowsNamed /\ Own(u) /\ Serial(u) /\ NameRight(r)
  BY DEF OwnInv, SerialInv, HInv
<1>2. SUFFICES ASSUME NEW t \in docs'[u], t \notin disturbed' PROVE req'[t].uid = u
  BY DEF Own
<1>3. t \in Requests /\ t \notin disturbed
  BY <1>1, <1>2, StepTInv DEF TInv, TypeOK
<1>4. CASE t \in docs[u]
  <2>1. req[t].uid = u /\ req[t].pc \in {"done", "rejected"}
    BY <1>1, <1>3, <1>4 DEF Own, OwnInv, StoredOver
  <2> QED BY <1>1, <1>3, <2>1, OverStays
<1>5. CASE t \notin docs[u]
  <2>1. DocWrite(r)
    BY <1>2, <1>5 DEF HDocWrite
  <2>2. u \in Holder(Target(r))
    BY <1>2, <1>5, <2>1, WriteIntends
  <2>3. t \notin req[r].snap
    <3>1. CASE Holding(r)
      BY <1>1, <1>5, <2>2, <3>1 DEF Serial
    <3>2. CASE req[r].pc = "clear"
      BY <1>2, <2>1, <2>2, <3>2, WriteIntends DEF Intended
    <3> QED BY <2>1, <3>1, <3>2, WriteIntends
  <2>4. /\ t = r /\ AddWrite(r) /\ u \in Holder(req[r].name) /\ req'[r].uid = req[r].uid
    BY <1>1, <1>2, <1>5, <2>3, IssuedOver
  <2>5. username[req[r].uid] = req[r].name /\ req[r].uid \in Users
    BY <1>1, <1>3, <2>4 DEF NameRight, AddWrite, LatePcs
  <2>6. username[u] = req[r].name /\ username[u] # None
    BY <1>1, <2>4 DEF Holder, RowsNamed
  <2> QED BY <1>1, <2>4, <2>5, <2>6 DEF UniqueNames
<1> QED
  BY <1>4, <1>5

LEMMA StepOwnInv == OwnInv /\ [HNext]_hvars => OwnInv'
<1> SUFFICES ASSUME OwnInv, [HNext]_hvars PROVE OwnInv'
  OBVIOUS
<1>1. /\ SerialInv' /\ StoredOver' /\ TInv /\ HInv /\ RowsNamed
  BY StepSerial, StepStored, HistorySteps DEF OwnInv, SerialInv, HInv
<1>2. CASE UNCHANGED hvars
  BY <1>1, <1>2 DEF hvars, OwnInv, NameRight, Own
<1>3. ASSUME NEW r \in Requests, RequestStep(r), raced \subseteq raced',
             disturbed \subseteq disturbed', HDocWrite(r) \/ UNCHANGED docs
      PROVE  OwnInv'
  <2>1. \A q \in Requests \ {r} : req'[q] = req[q]
    BY <1>1, <1>3, StepMoved DEF Moved, TInv, TypeOK
  <2>2. \A q \in Requests : NameRight(q)'
    BY <1>1, <1>3, <2>1, OwnName, OthersName DEF OwnInv
  <2>3. \A u \in Users \ raced' : Own(u)'
    BY <1>3, StepOwn
  <2> QED BY <1>1, <2>2, <2>3 DEF OwnInv
<1>4. CASE \E r \in Requests : HDocWrite(r)
  BY <1>3, <1>4 DEF HDocWrite, RequestStep
<1>5. CASE \E r \in Requests : /\ Start(r) \/ OtherStep(r) \/ Crash(r)
                               /\ UNCHANGED <<ideal, raced, disturbed>>
  BY <1>1, <1>3, <1>5, OtherTables DEF RequestStep
<1>6. CASE \E r \in Requests : CreateUser(r) /\ RowChange
  BY <1>3, <1>6 DEF RequestStep, RowChange, CreateUser
<1>7. CASE World /\ RowChange
  <2>1. \A q \in Requests : NameRight(q)'
    BY <1>1, <1>7, WorldName DEF OwnInv
  <2>2. \A u \in Users \ raced' : Own(u)'
    <3>1. UNCHANGED <<docs, req>> /\ raced \subseteq raced' /\ disturbed \subseteq disturbed'
      BY <1>7 DEF World, SetState, Rename, Expire, RowChange
    <3> QED BY <3>1 DEF OwnInv, Own
  <2> QED BY <1>1, <2>1, <2>2 DEF OwnInv
<1> QED
  BY <1>2, <1>4, <1>5, <1>6, <1>7 DEF HNext

(* A document holds its user's sessions only, although every write is      *)
(* addressed by username: the name a request works with is that of its     *)
(* user until a rename disturbs it, and no two rows have the same name.    *)
THEOREM SessionsStayOwn == HSpec => []OwnSessions
<1>1. HInit => OwnInv
  <2> SUFFICES ASSUME HInit PROVE OwnInv
    OBVIOUS
  <2>1. \A r \in Requests : NameRight(r)
    BY DEF HInit, Init, NameRight, LatePcs, NewRequest
  <2>2. StoredOver
    BY DEF HInit, Init, StoredOver, NewRequest
  <2> QED BY <2>1, <2>2, InitSerial DEF HInit, Init, OwnInv, Own
<1>2. OwnInv => OwnSessions
  BY DEF OwnInv, Own, OwnSessions
<1> QED
  BY <1>1, <1>2, StepOwnInv, PTL DEF HSpec
=============================================================================
