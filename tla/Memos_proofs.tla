----------------------------- MODULE Memos_proofs -----------------------------
(***************************************************************************)
(* Memos keeps its types, its notifications true, its comments attached,   *)
(* its share links alive and its deleted memos deleted, for any users,     *)
(* memos, requests and relation lists.                                     *)
(***************************************************************************)
EXTENDS Memos, TLAPS

PosterPcs == NotifyPcs \cup {"creator", "insert", "resolve", "parentId", "link",
                             "reread", "webhook"}
CommentPcs == NotifyPcs \cup {"parentId", "link", "webhook"}
RelatePcs == {"relResolve", "relDelete", "relFind", "relInsert"}
ReactPcs == {"reactUser", "reactDelete", "reactInsert"}
SharePcs == {"shareMemo", "shareOwner", "shareInsert"}

\* What a request works on, by where it is.
Shape(r) ==
  /\ pc[r] = "idle" <=> arg[r].kind = "unused"
  /\ arg[r].kind \notin {"unused", "create"} => arg[r].memo \in Memos
  /\ pc[r] \in PosterPcs => /\ arg[r].kind \in {"create", "comment"}
                            /\ arg[r].who \in Users
                            /\ arg[r].vis \in Visibilities
                            /\ arg[r].state \in States
  /\ pc[r] \in CommentPcs => arg[r].kind = "comment"
  /\ pc[r] \in RelatePcs => arg[r].kind \in {"create", "relate"}
  /\ pc[r] \in ReactPcs => arg[r].kind = "react"
  /\ pc[r] \in SharePcs => arg[r].kind = "share"
  /\ pc[r] \in {"delId", "delReactions"} => arg[r].kind = "delete"
  /\ pc[r] = "unreact" => arg[r].kind = "unreact"
  /\ arg[r].kind = "react" => pc[r] \in ReactPcs \cup {"done", "rejected"}
  /\ arg[r].kind \in {"create", "comment"} =>
       pc[r] \in PosterPcs \cup RelatePcs \cup {"done", "rejected"}
  /\ pc[r] \in {"relFind", "relInsert"} => todo[r] # <<>>

\* A memo that was found is there until a hard delete passes, and a memo that
\* is not there yet was never found.
Known(r) ==
  /\ arg[r].kind \notin {"unused", "create"} =>
       Exists(arg[r].memo) \/ arg[r].memo \in condemned
  /\ pc[r] = "delRow" => arg[r].memo \in condemned
  /\ pc[r] \in {"idle", "creator", "insert"} => ~ Exists(r) /\ r \notin condemned

\* A comment past its link hangs; one about to notify may do so.
Posting(r) ==
  /\ arg[r].kind = "comment" /\ pc[r] \in NotifyPcs \cup {"reread", "webhook", "done"}
       => Hangs(r)
  /\ pc[r] \in {"sender", "receiver", "notify"} =>
       arg[r].who # arg[r].owner /\ arg[r].vis # "PRIVATE"
  /\ pc[r] = "webhook" => arg[r].who # arg[r].owner

\* Only a request that has begun has left rows behind.
Begun ==
  /\ \A r \in inbox \cup posted \cup shares \cup reactions : pc[r] # "idle"
  /\ \A r \in reactions : arg[r].kind = "react"
  /\ \A r \in shares : arg[r].kind = "share"

\* A reaction to be deleted is one of the memo the request names.
Referring(r) ==
  arg[r].kind = "unreact" =>
    /\ arg[r].ref \in Requests /\ pc[arg[r].ref] # "idle"
    /\ arg[arg[r].ref].memo = arg[r].memo

IInv ==
  /\ TypeOK
  /\ \A r \in Requests : Shape(r) /\ Known(r) /\ Posting(r)
  /\ Begun
  /\ InboxTrue
  /\ SharesHaveMemo
  /\ \A r \in Requests : Referring(r)
  /\ ReactionsKept

LEMMA InitIInv == Init => IInv
<1> SUFFICES ASSUME Init PROVE IInv
  OBVIOUS
<1> USE MemosAssumption
<1>1. TypeOK
  <2>1. NoArg \in Args
    BY DEF NoArg, Args, Kinds
  <2> QED BY <2>1 DEF Init, TypeOK, Pcs, States
<1>2. ASSUME NEW r \in Requests PROVE Shape(r) /\ Known(r) /\ Posting(r)
  <2>1. pc[r] = "idle" /\ arg[r] = NoArg /\ row[r] = None /\ condemned = {}
    BY DEF Init
  <2>2. arg[r].kind = "unused"
    BY <2>1 DEF NoArg
  <2> QED BY <2>1, <2>2 DEF Shape, Known, Posting, PosterPcs, CommentPcs, RelatePcs,
                            ReactPcs, SharePcs,
                            NotifyPcs, Exists
<1>3. Begun /\ InboxTrue /\ SharesHaveMemo
  BY DEF Init, Begun, InboxTrue, SharesHaveMemo
<1>4. ReactionsKept /\ \A r \in Requests : Referring(r)
  BY DEF Init, ReactionsKept, Referring, NoArg
<1> QED BY <1>1, <1>2, <1>3, <1>4 DEF IInv

-----------------------------------------------------------------------------
(* Frame: a request moves itself only, and never changes what it was asked. *)

Frame(r) ==
  /\ pc' = [pc EXCEPT ![r] = pc'[r]]
  /\ arg' = [arg EXCEPT ![r] = arg'[r]]
  /\ todo' = [todo EXCEPT ![r] = todo'[r]]

\* What a handler's first reads establish.
Opened(r, a, to) ==
  /\ Begin(r, a, to)
  /\ a \in Args
  /\ a.kind # "unused"
  /\ a.kind # "create" => a.memo \in Memos /\ Exists(a.memo)
  /\ a.kind \in {"create", "comment"} => to = "creator"
  /\ to \in {"creator", "patchRead", "delId", "archive", "relResolve", "reactUser",
             "unreact", "shareMemo", "unshareMemo"}
  /\ to = "creator" => /\ a.kind \in {"create", "comment"}
                       /\ a.who \in Users /\ a.vis \in Visibilities /\ a.state \in States
  /\ to = "relResolve" => a.kind = "relate"
  /\ to = "reactUser" => a.kind = "react"
  /\ to = "shareMemo" => a.kind = "share"
  /\ to = "delId" => a.kind = "delete"
  /\ to = "unreact" => a.kind = "unreact"
  /\ a.kind = "react" => to = "reactUser"
  /\ a.kind = "unreact" => a.ref \in reactions /\ a.memo = arg[a.ref].memo

LEMMA StartOpens ==
  ASSUME IInv, NEW r \in Requests, Start(r)
  PROVE  \E a, to : Opened(r, a, to)
<1> USE MemosAssumption
<1>0. TypeOK /\ \A d \in Drafts : d[1] \in Visibilities /\ d[2] \in States
      /\ \A p \in Patches : p[1] \in Visibilities \cup {None} /\ p[2] \in States \cup {None}
  BY DEF IInv
<1>1. ASSUME NEW u \in Users, NEW d \in Drafts, NEW b \in Bodies \cup {<<>>},
             CreateStart(r, u, d[1], d[2], b)
      PROVE  \E a, to : Opened(r, a, to)
  <2> DEFINE a == [NoArg EXCEPT !.kind = "create", !.who = u, !.vis = d[1],
                                !.state = d[2], !.body = b]
  <2>1. Begin(r, a, "creator")
    BY <1>1 DEF CreateStart
  <2>2. /\ a \in Args
        /\ a.kind \notin {"unused"}
        /\ a.kind # "create" => a.memo \in Memos /\ Exists(a.memo)
    BY <1>1, <1>0 DEF CreateStart, NoArg, Args, Kinds, MayEdit
  <2>3. Opened(r, a, "creator")
    BY <1>1, <2>1, <2>2, <1>0 DEF Opened, NoArg
  <2> QED BY <2>3
<1>2. ASSUME NEW u \in Users, NEW d \in Drafts, NEW m \in Memos,
             CommentStart(r, u, m, d[1], d[2])
      PROVE  \E a, to : Opened(r, a, to)
  <2> DEFINE a == [NoArg EXCEPT !.kind = "comment", !.who = u, !.memo = m,
                     !.owner = row[m].creator, !.vis = d[1], !.state = d[2]]
  <2>1. Begin(r, a, "creator")
    BY <1>2 DEF CommentStart
  <2>0. row[m].creator \in Users
    BY <1>0, <1>2 DEF CommentStart, Exists, Rows, TypeOK
  <2>2. /\ a \in Args
        /\ a.kind \notin {"unused"}
        /\ a.kind # "create" => a.memo \in Memos /\ Exists(a.memo)
    BY <1>2, <1>0, <2>0 DEF CommentStart, NoArg, Args, Kinds, MayEdit
  <2>3. Opened(r, a, "creator")
    BY <1>2, <2>1, <2>2, <1>0, <2>0 DEF Opened, NoArg
  <2> QED BY <2>3
<1>3. ASSUME NEW u \in Users, NEW d \in Patches, NEW m \in Memos,
             PatchStart(r, u, m, d[1], d[2])
      PROVE  \E a, to : Opened(r, a, to)
  <2> DEFINE a == [NoArg EXCEPT !.kind = "patch", !.who = u, !.memo = m,
                                !.vis = d[1], !.state = d[2]]
  <2>1. Begin(r, a, "patchRead")
    BY <1>3 DEF PatchStart
  <2>2. /\ a \in Args
        /\ a.kind \notin {"unused"}
        /\ a.kind # "create" => a.memo \in Memos /\ Exists(a.memo)
    BY <1>3, <1>0 DEF PatchStart, NoArg, Args, Kinds, MayEdit
  <2>3. Opened(r, a, "patchRead")
    BY <1>3, <2>1, <2>2, <1>0 DEF Opened, NoArg
  <2> QED BY <2>3
<1>4. ASSUME NEW u \in Users, NEW m \in Memos,
             RemoveStart(r, u, m, TRUE)
      PROVE  \E a, to : Opened(r, a, to)
  <2> DEFINE a == [NoArg EXCEPT !.kind = "delete", !.who = u, !.memo = m]
  <2>1. Begin(r, a, "delId")
    BY <1>4 DEF RemoveStart
  <2>2. /\ a \in Args
        /\ a.kind \notin {"unused"}
        /\ a.kind # "create" => a.memo \in Memos /\ Exists(a.memo)
    BY <1>4 DEF RemoveStart, NoArg, Args, Kinds, MayEdit
  <2>3. Opened(r, a, "delId")
    BY <1>4, <2>1, <2>2 DEF Opened, NoArg
  <2> QED BY <2>3
<1>5. ASSUME NEW u \in Users, NEW m \in Memos,
             RemoveStart(r, u, m, FALSE)
      PROVE  \E a, to : Opened(r, a, to)
  <2> DEFINE a == [NoArg EXCEPT !.kind = "archive", !.who = u, !.memo = m]
  <2>1. Begin(r, a, "archive")
    BY <1>5 DEF RemoveStart
  <2>2. /\ a \in Args
        /\ a.kind \notin {"unused"}
        /\ a.kind # "create" => a.memo \in Memos /\ Exists(a.memo)
    BY <1>5 DEF RemoveStart, NoArg, Args, Kinds, MayEdit
  <2>3. Opened(r, a, "archive")
    BY <1>5, <2>1, <2>2 DEF Opened, NoArg
  <2> QED BY <2>3
<1>6. ASSUME NEW u \in Users, NEW m \in Memos, NEW b \in Bodies \cup {<<>>},
             RelateStart(r, u, m, b)
      PROVE  \E a, to : Opened(r, a, to)
  <2> DEFINE a == [NoArg EXCEPT !.kind = "relate", !.who = u, !.memo = m, !.body = b]
  <2>1. Begin(r, a, "relResolve")
    BY <1>6 DEF RelateStart
  <2>2. /\ a \in Args
        /\ a.kind \notin {"unused"}
        /\ a.kind # "create" => a.memo \in Memos /\ Exists(a.memo)
    BY <1>6 DEF RelateStart, NoArg, Args, Kinds, MayEdit
  <2>3. Opened(r, a, "relResolve")
    BY <1>6, <2>1, <2>2 DEF Opened, NoArg
  <2> QED BY <2>3
<1>7. ASSUME NEW u \in Users, NEW m \in Memos,
             ReactStart(r, u, m)
      PROVE  \E a, to : Opened(r, a, to)
  <2> DEFINE a == [NoArg EXCEPT !.kind = "react", !.who = u, !.memo = m]
  <2>1. Begin(r, a, "reactUser")
    BY <1>7 DEF ReactStart
  <2>2. /\ a \in Args
        /\ a.kind \notin {"unused"}
        /\ a.kind # "create" => a.memo \in Memos /\ Exists(a.memo)
    BY <1>7 DEF ReactStart, NoArg, Args, Kinds, MayEdit
  <2>3. Opened(r, a, "reactUser")
    BY <1>7, <2>1, <2>2 DEF Opened, NoArg
  <2> QED BY <2>3
<1>8. ASSUME NEW u \in Users, NEW m \in Memos,
             ShareStart(r, u, m)
      PROVE  \E a, to : Opened(r, a, to)
  <2> DEFINE a == [NoArg EXCEPT !.kind = "share", !.who = u, !.memo = m]
  <2>1. Begin(r, a, "shareMemo")
    BY <1>8 DEF ShareStart
  <2>2. /\ a \in Args
        /\ a.kind \notin {"unused"}
        /\ a.kind # "create" => a.memo \in Memos /\ Exists(a.memo)
    BY <1>8 DEF ShareStart, NoArg, Args, Kinds, MayEdit
  <2>3. Opened(r, a, "shareMemo")
    BY <1>8, <2>1, <2>2 DEF Opened, NoArg
  <2> QED BY <2>3
<1>9. ASSUME NEW u \in Users, NEW q \in Requests,
             UnreactStart(r, u, q)
      PROVE  \E a, to : Opened(r, a, to)
  <2> DEFINE a == [NoArg EXCEPT !.kind = "unreact", !.who = u, !.ref = q, !.memo = arg[q].memo]
  <2>1. Begin(r, a, "unreact")
    BY <1>9 DEF UnreactStart
  <2>0. arg[q].memo \in Memos
    BY <1>9 DEF UnreactStart, IInv, Begun, Shape, TypeOK
  <2>2. /\ a \in Args
        /\ a.kind \notin {"unused"}
        /\ a.kind # "create" => a.memo \in Memos /\ Exists(a.memo)
    BY <1>9, <2>0 DEF UnreactStart, NoArg, Args, Kinds, MayEdit
  <2>3. Opened(r, a, "unreact")
    BY <1>9, <2>1, <2>2, <2>0 DEF Opened, NoArg, UnreactStart
  <2> QED BY <2>3
<1>10. ASSUME NEW u \in Users, NEW q \in Requests, UnshareStart(r, u, q)
       PROVE  \E a, to : Opened(r, a, to)
  <2> DEFINE a == [NoArg EXCEPT !.kind = "unshare", !.who = u, !.ref = q,
                                !.memo = arg[q].memo]
  <2>1. Begin(r, a, "unshareMemo")
    BY <1>10 DEF UnshareStart
  <2>0. arg[q].memo \in Memos
    BY <1>10 DEF UnshareStart, IInv, Shape
  <2>2. /\ a \in Args
        /\ a.kind \notin {"unused"}
        /\ a.kind # "create" => a.memo \in Memos /\ Exists(a.memo)
    BY <1>10, <2>0 DEF UnshareStart, NoArg, Args, Kinds, MayEdit
  <2>3. Opened(r, a, "unshareMemo")
    BY <2>1, <2>2 DEF Opened, NoArg
  <2> QED BY <2>3
<1> QED BY <1>1, <1>2, <1>3, <1>4, <1>5, <1>6, <1>7, <1>8, <1>9, <1>10 DEF Start

LEMMA StepFrame ==
  ASSUME IInv, NEW r \in Requests, RequestStep(r)
  PROVE  /\ Frame(r)
         /\ ~ Start(r) => arg' = arg /\ pc[r] \notin {"idle", "done", "rejected"}
<1> USE DEF IInv, TypeOK, Frame, Go
<1>1. CASE Start(r)
  BY <1>1, StartOpens DEF Opened, Begin
<1>2. CASE Lookup(r)
  BY <1>2 DEF Lookup, Read, FindCreator, FindInserted, FindParent, FindParentRow,
     FindParentUser, FindSender, FindReceiver, RereadMemo, FindPatched, FindDeleted,
     FindSource, FindReactor, FindShared, FindShareOwner, FindUnshared
<1>3. CASE InsertMemo(r) \/ LinkParent(r) \/ Notify(r) \/ PostWebhook(r) \/ PatchMemo(r)
           \/ ArchiveMemo(r) \/ DeleteReactions(r) \/ DeleteRelations(r) \/ DeleteRow(r)
  BY <1>3 DEF InsertMemo, LinkParent, Notify, PostWebhook, PatchMemo, ArchiveMemo,
     DeleteReactions, DeleteRelations, DeleteRow
<1>4. CASE DropRelations(r) \/ FindRelated(r) \/ InsertRelation(r) \/ DeleteSameReaction(r)
           \/ InsertReaction(r) \/ DeleteReaction(r) \/ InsertShare(r) \/ DeleteShare(r)
  BY <1>4 DEF DropRelations, FindRelated, InsertRelation, DeleteSameReaction,
     InsertReaction, DeleteReaction, InsertShare, DeleteShare
<1>5. CASE Crash(r)
  BY <1>5 DEF Crash
<1> QED BY <1>1, <1>2, <1>3, <1>4, <1>5 DEF RequestStep, Write

-----------------------------------------------------------------------------
(* Types.                                                                    *)

LEMMA LookupTypes ==
  ASSUME IInv, NEW r \in Requests, Lookup(r)
  PROVE  /\ TypeOK'
         /\ UNCHANGED <<tables, posted, account, condemned, arg, todo>>
<1>1. \E at, to \in Pcs : Read(r, at, to)
  BY DEF Lookup, FindCreator, FindInserted, FindParent, FindParentRow,
     FindParentUser, FindSender, FindReceiver, RereadMemo, FindPatched, FindDeleted,
     FindSource, FindReactor, FindShared, FindShareOwner, FindUnshared, Pcs, NotifyPcs
<1> QED BY <1>1 DEF Read, Go, tables, IInv, TypeOK

\* PATCH and archive rewrite a row that exists and make none.
LEMMA PatchKeepsRows ==
  ASSUME IInv, NEW r \in Requests, PatchMemo(r) \/ ArchiveMemo(r)
  PROVE  /\ row' \in [Memos -> Rows \cup {None}]
         /\ \A m \in Memos : Exists(m)' <=> Exists(m)
<1> DEFINE m == arg[r].memo
<1>1. CASE row' = row
  BY <1>1 DEF Exists, IInv, TypeOK
<1>2. CASE row' # row
  <2>1. m \in Memos /\ row[m] \in Rows /\ row' = [row EXCEPT ![m] = row'[m]]
    BY <1>2 DEF PatchMemo, ArchiveMemo, Exists, Shape, PosterPcs, RelatePcs, NotifyPcs, IInv,
                TypeOK
  <2>2. CASE PatchMemo(r)
    <3> DEFINE v == IF arg[r].vis = None THEN row[m].vis ELSE arg[r].vis
               s == IF arg[r].state = None THEN row[m].state ELSE arg[r].state
    <3>1. v \in Visibilities /\ s \in States
      BY <2>1 DEF Rows, Args, IInv, TypeOK
    <3>2. row' = [row EXCEPT ![m].vis = v, ![m].state = s]
      BY <1>2, <2>2 DEF PatchMemo
    <3> HIDE DEF v, s
    <3>3. row'[m] = [row[m] EXCEPT !.vis = v, !.state = s]
      BY <2>1, <3>2 DEF Rows, IInv, TypeOK
    <3>4. row'[m] \in Rows
      BY <2>1, <3>1, <3>3 DEF Rows
    <3> QED BY <2>1, <3>4, MemosAssumption DEF Exists, IInv, TypeOK
  <2>3. CASE ArchiveMemo(r)
    <3>1. row' = [row EXCEPT ![m].state = "ARCHIVED"]
      BY <1>2, <2>3 DEF ArchiveMemo
    <3>2. row'[m] = [row[m] EXCEPT !.state = "ARCHIVED"]
      BY <2>1, <3>1 DEF IInv, TypeOK
    <3>3. row'[m] \in Rows
      BY <2>1, <3>2 DEF Rows, States
    <3> QED BY <2>1, <3>3, MemosAssumption DEF Exists, IInv, TypeOK
  <2> QED BY <2>2, <2>3
<1> QED BY <1>1, <1>2

LEMMA MemoWriteTypes ==
  ASSUME IInv, NEW r \in Requests,
         InsertMemo(r) \/ PatchMemo(r) \/ ArchiveMemo(r) \/ DeleteRow(r)
  PROVE  /\ TypeOK'
         /\ UNCHANGED <<relations, reactions, inbox, condemned, arg, todo>>
<1> USE DEF IInv, TypeOK, Go, Pcs, tables
<1>1. CASE InsertMemo(r)
  <2>1. [creator |-> arg[r].who, vis |-> arg[r].vis, state |-> arg[r].state] \in Rows
    BY <1>1 DEF InsertMemo, Shape, PosterPcs, Rows
  <2> QED BY <1>1, <2>1 DEF InsertMemo
<1>2. CASE PatchMemo(r) \/ ArchiveMemo(r)
  <2>1. row' \in [Memos -> Rows \cup {None}]
    BY <1>2, PatchKeepsRows
  <2> QED BY <1>2, <2>1 DEF PatchMemo, ArchiveMemo
<1>3. CASE DeleteRow(r)
  BY <1>3 DEF DeleteRow
<1> QED BY <1>1, <1>2, <1>3

LEMMA OtherWriteTypes ==
  ASSUME IInv, NEW r \in Requests, Write(r) \/ Crash(r),
         ~ (InsertMemo(r) \/ PatchMemo(r) \/ ArchiveMemo(r) \/ DeleteRow(r))
  PROVE  TypeOK' /\ UNCHANGED <<row, arg>>
<1> USE DEF IInv, TypeOK, Go, Pcs, tables
<1>1. CASE LinkParent(r)
  <2>1. <<r, arg[r].memo, "COMMENT">> \in Memos \X Memos \X Types
    BY <1>1 DEF LinkParent, Shape, CommentPcs, Types, Memos
  <2>2. relations' \subseteq Memos \X Memos \X Types
    BY <1>1, <2>1 DEF LinkParent
  <2>3. pc' \in [Requests -> Pcs]
    BY <1>1 DEF LinkParent, NotifyPcs
  <2> QED BY <1>1, <2>2, <2>3 DEF LinkParent
<1>2. CASE Notify(r) \/ PostWebhook(r) \/ Crash(r)
  BY <1>2 DEF Notify, PostWebhook, Crash
<1>6. CASE DeleteReactions(r) \/ DeleteSameReaction(r) \/ DeleteReaction(r)
  BY <1>6 DEF DeleteReactions, DeleteSameReaction, DeleteReaction
<1>7. CASE InsertReaction(r) \/ InsertShare(r) \/ DeleteShare(r)
  BY <1>7 DEF InsertReaction, InsertShare, DeleteShare
<1>3. CASE DeleteRelations(r)
  BY <1>3 DEF DeleteRelations, Shape, PosterPcs, RelatePcs, NotifyPcs
<1>4. CASE DropRelations(r)
  <2>1. arg[r].body \in Bodies \cup {<<>>}
    BY DEF Args
  <2>2. arg[r].body \in Seq(Memos \X Types)
    <3>1. <<>> \in Seq(Memos \X Types)
      OBVIOUS
    <3>2. Bodies \subseteq Seq(Memos \X Types)
      BY MemosAssumption
    <3> QED BY <2>1, <3>1, <3>2
  <2>3. todo' \in [Requests -> Seq(Memos \X Types)]
    BY <1>4, <2>2 DEF DropRelations
  <2> QED BY <1>4, <2>3 DEF DropRelations
<1>5. CASE FindRelated(r) \/ InsertRelation(r)
  <2>1. /\ todo[r] \in Seq(Memos \X Types) /\ todo[r] # <<>>
        /\ Source(r) \in Memos
    BY <1>5 DEF FindRelated, InsertRelation, Shape, Source, Memos, RelatePcs
  <2>2. Head(todo[r]) \in Memos \X Types /\ Tail(todo[r]) \in Seq(Memos \X Types)
    BY <2>1
  <2>3. CASE FindRelated(r)
    BY <2>2, <2>3 DEF FindRelated, AfterPair
  <2>4. CASE InsertRelation(r)
    <3>1. <<Source(r), Head(todo[r])[1], Head(todo[r])[2]>> \in Memos \X Memos \X Types
      BY <2>1, <2>2
    <3> QED BY <2>2, <2>4, <3>1 DEF InsertRelation, AfterPair
  <2> QED BY <1>5, <2>3, <2>4
<1> QED BY <1>1, <1>2, <1>3, <1>4, <1>5, <1>6, <1>7 DEF Write

LEMMA StepTypes ==
  ASSUME IInv, NEW r \in Requests, RequestStep(r)
  PROVE  TypeOK'
<1>1. CASE Start(r)
  <2>1. PICK a, to : Opened(r, a, to)
    BY <1>1, StartOpens
  <2> QED BY <2>1 DEF Opened, Begin, Go, tables, IInv, TypeOK, Pcs
<1> QED BY <1>1, LookupTypes, MemoWriteTypes, OtherWriteTypes DEF RequestStep, Write

-----------------------------------------------------------------------------
(* What no step undoes.                                                      *)

LEMMA StepKeeps ==
  ASSUME IInv, NEW r \in Requests, RequestStep(r)
  PROVE  /\ condemned \subseteq condemned'
         /\ condemned' # condemned =>
              pc[r] = "delRelations" /\ condemned' = condemned \cup {arg[r].memo}
         /\ \A m \in Memos : Exists(m) => Exists(m)' \/ m \in condemned'
         /\ \A m \in Memos : Exists(m)' => Exists(m) \/ (m = r /\ pc[r] = "insert")
         /\ \A m, p : <<m, p, "COMMENT">> \in relations =>
              \/ <<m, p, "COMMENT">> \in relations'
              \/ {m, p} \cap condemned' # {}
<1>1. CASE Start(r) \/ Lookup(r) \/ Crash(r)
  <2>1. CASE Start(r)
    <3>1. PICK a, to : Opened(r, a, to)
      BY <2>1, StartOpens
    <3> QED BY <3>1 DEF Opened, Begin, tables, Exists
  <2>2. CASE Lookup(r)
    BY <2>2, LookupTypes DEF tables, Exists
  <2>3. CASE Crash(r)
    BY <2>3 DEF Crash, tables, Exists
  <2> QED BY <1>1, <2>1, <2>2, <2>3
<1>2. CASE InsertMemo(r)
  <2>1. \A m \in Memos \ {r} : row'[m] = row[m]
    BY <1>2 DEF InsertMemo, IInv, TypeOK
  <2>2. pc[r] = "insert" /\ ~ Exists(r) /\ UNCHANGED <<relations, condemned>>
    BY <1>2 DEF InsertMemo, IInv, Known
  <2> QED BY <2>1, <2>2 DEF Exists
<1>3. CASE PatchMemo(r) \/ ArchiveMemo(r)
  <2>1. UNCHANGED <<relations, condemned>>
    BY <1>3 DEF PatchMemo, ArchiveMemo
  <2>2. \A m \in Memos : Exists(m)' <=> Exists(m)
    BY <1>3, PatchKeepsRows
  <2> QED BY <2>1, <2>2
<1>4. CASE DeleteRow(r)
  <2>1. arg[r].memo \in condemned /\ row' = [row EXCEPT ![arg[r].memo] = None]
        /\ UNCHANGED <<relations, condemned>>
    BY <1>4 DEF DeleteRow, IInv, Known
  <2> QED BY <2>1 DEF IInv, TypeOK, Exists
<1>5. CASE DeleteRelations(r)
  BY <1>5 DEF DeleteRelations, Exists
<1>6. CASE DropRelations(r)
  BY <1>6 DEF DropRelations, Exists
<1>7. CASE LinkParent(r) \/ InsertRelation(r)
  BY <1>7 DEF LinkParent, InsertRelation, Exists
<1>8. CASE Notify(r) \/ PostWebhook(r) \/ DeleteReactions(r) \/ FindRelated(r)
           \/ DeleteSameReaction(r) \/ InsertReaction(r) \/ DeleteReaction(r)
           \/ InsertShare(r) \/ DeleteShare(r)
  BY <1>8 DEF Notify, PostWebhook, DeleteReactions, FindRelated, DeleteSameReaction,
     InsertReaction, DeleteReaction, InsertShare, DeleteShare, tables, Exists
<1> QED BY <1>1, <1>2, <1>3, <1>4, <1>5, <1>6, <1>7, <1>8 DEF RequestStep, Write

\* A request that is not the one that moved keeps all it relies on.
LEMMA OthersKeep ==
  ASSUME IInv, NEW r \in Requests, RequestStep(r), NEW q \in Requests, q # r
  PROVE  Shape(q)' /\ Known(q)' /\ Posting(q)'
<1>1. arg'[q] = arg[q] /\ pc'[q] = pc[q] /\ todo'[q] = todo[q]
  BY StepFrame DEF Frame, IInv, TypeOK
<1>2. Shape(q)'
  BY <1>1 DEF IInv, Shape
<1>3. Known(q)'
  <2>1. arg[q].kind \notin {"unused", "create"} => arg[q].memo \in Memos
    BY DEF IInv, Shape
  <2>2. arg'[q].kind \notin {"unused", "create"} =>
          Exists(arg[q].memo)' \/ arg[q].memo \in condemned'
    BY <1>1, <2>1, StepKeeps DEF IInv, Known
  <2>3. pc[q] \in {"idle", "creator", "insert"} => ~ Exists(q)' /\ q \notin condemned'
    <3>1. pc[r] = "delRelations" => arg[r].memo \in Memos /\
            (Exists(arg[r].memo) \/ arg[r].memo \in condemned)
      BY DEF IInv, Known, Shape, PosterPcs, RelatePcs, NotifyPcs
    <3>2. q \in Memos
      BY DEF Memos
    <3> QED BY <3>1, <3>2, StepKeeps DEF IInv, Known
  <2> QED BY <1>1, <2>2, <2>3, StepKeeps DEF IInv, Known, Exists
<1>4. Posting(q)'
  BY <1>1, StepKeeps DEF IInv, Posting, Hangs
<1> QED BY <1>2, <1>3, <1>4

\* Whatever hangs goes on hanging, as long as the request is the same.
LEMMA HangsKeeps ==
  ASSUME IInv, NEW r \in Requests, RequestStep(r), NEW q \in Requests,
         arg'[q] = arg[q], Hangs(q)
  PROVE  Hangs(q)'
BY StepKeeps DEF Hangs

-----------------------------------------------------------------------------
(* The request that moved.                                                   *)

LEMMA StartKeeps ==
  ASSUME IInv, NEW r \in Requests, Start(r)
  PROVE  Shape(r)' /\ Known(r)' /\ Posting(r)'
<1>1. PICK a, to : Opened(r, a, to)
  BY StartOpens
<1>2. pc[r] = "idle" /\ pc'[r] = to /\ arg'[r] = a /\ todo' = todo
      /\ row' = row /\ condemned' = condemned
  BY <1>1 DEF Opened, Begin, Go, tables, IInv, TypeOK
<1>3. Shape(r)'
  BY <1>1, <1>2 DEF Opened, Shape, PosterPcs, CommentPcs, RelatePcs, ReactPcs,
     SharePcs, NotifyPcs
<1>4. Known(r)'
  BY <1>1, <1>2 DEF Opened, Known, Exists, IInv
<1>5. Posting(r)'
  BY <1>1, <1>2 DEF Opened, Posting, NotifyPcs
<1> QED BY <1>3, <1>4, <1>5

LEMMA LookupKeeps ==
  ASSUME IInv, NEW r \in Requests, Lookup(r)
  PROVE  Shape(r)' /\ Known(r)' /\ Posting(r)'
<1>1. /\ UNCHANGED <<row, relations, condemned, arg, todo>>
      /\ pc' = [pc EXCEPT ![r] = pc'[r]]
  BY LookupTypes, StepFrame DEF tables, RequestStep, Frame
<1>2. Shape(r)'
  <2> USE <1>1 DEF IInv, Shape, Read, Go, PosterPcs, CommentPcs, RelatePcs, ReactPcs,
                   SharePcs, NotifyPcs, TypeOK
  <2>1. CASE FindCreator(r) \/ FindInserted(r) \/ FindParent(r) \/ FindParentRow(r)
    BY <2>1 DEF FindCreator, FindInserted, FindParent, FindParentRow
  <2>2. CASE FindParentUser(r) \/ FindSender(r) \/ FindReceiver(r)
    BY <2>2 DEF FindParentUser, FindSender, FindReceiver
  <2>3. CASE RereadMemo(r)
    BY <2>3 DEF RereadMemo
  <2>4. CASE FindPatched(r) \/ FindDeleted(r) \/ FindSource(r)
    BY <2>4 DEF FindPatched, FindDeleted, FindSource
  <2>5. CASE FindReactor(r) \/ FindShared(r) \/ FindShareOwner(r) \/ FindUnshared(r)
    BY <2>5 DEF FindReactor, FindShared, FindShareOwner, FindUnshared
  <2> QED BY <2>1, <2>2, <2>3, <2>4, <2>5 DEF Lookup
<1>3. Known(r)'
  <2>1. pc'[r] # "delRow" /\ pc'[r] \notin {"idle", "creator"}
        /\ (pc'[r] = "insert" => pc[r] = "creator")
    BY <1>1 DEF Lookup, FindCreator, FindInserted, FindParent, FindParentRow,
     FindParentUser, FindSender, FindReceiver, RereadMemo, FindPatched, FindDeleted,
     FindSource, FindReactor, FindShared, FindShareOwner, FindUnshared, Read, Go, IInv, TypeOK
  <2> QED BY <1>1, <2>1 DEF IInv, Known, Exists
<1>4. Posting(r)'
  <2> USE <1>1 DEF IInv, Posting, Shape, Read, Go, Hangs, NotifyPcs, TypeOK
  <2>1. CASE FindParent(r)
    <3>1. pc[r] = "parentId" /\ arg[r].kind = "comment" /\ pc'[r] \in {"link", "reread"}
      BY <2>1 DEF FindParent, CommentPcs
    <3>2. pc'[r] = "reread" => arg[r].memo \in condemned
      <4>1. pc'[r] = "reread" => ~ Exists(arg[r].memo)
        BY <2>1 DEF FindParent
      <4>2. Exists(arg[r].memo) \/ arg[r].memo \in condemned
        BY <3>1 DEF Known
      <4> QED BY <4>1, <4>2
    <3>3. pc'[r] = "reread" => Hangs(r)'
      BY <3>2
    <3> QED BY <3>1, <3>3
  <2>2. CASE FindCreator(r) \/ FindInserted(r) \/ FindParentRow(r)
    BY <2>2 DEF FindCreator, FindInserted, FindParentRow
  <2>3. CASE FindParentUser(r) \/ FindSender(r) \/ FindReceiver(r)
    BY <2>3 DEF FindParentUser, FindSender, FindReceiver
  <2>4. CASE RereadMemo(r)
    BY <2>4 DEF RereadMemo
  <2>5. CASE FindPatched(r) \/ FindDeleted(r) \/ FindSource(r)
    <3>1. arg'[r].kind # "comment" /\ pc'[r] \notin NotifyPcs \cup {"webhook"}
      BY <2>5 DEF FindPatched, FindDeleted, FindSource, PosterPcs, RelatePcs
    <3> QED BY <3>1
  <2>6. CASE FindReactor(r) \/ FindShared(r) \/ FindShareOwner(r) \/ FindUnshared(r)
    BY <2>6 DEF FindReactor, FindShared, FindShareOwner, FindUnshared
  <2> QED BY <2>1, <2>2, <2>3, <2>4, <2>5, <2>6 DEF Lookup
<1> QED BY <1>2, <1>3, <1>4

LEMMA WriteKeeps ==
  ASSUME IInv, NEW r \in Requests, Write(r) \/ Crash(r)
  PROVE  Shape(r)' /\ Known(r)' /\ Posting(r)'
<1>0. RequestStep(r) /\ arg' = arg /\ Frame(r)
  <2>1. pc[r] # "idle"
    BY DEF Write, Crash, InsertMemo, LinkParent, Notify, PostWebhook, PatchMemo,
       ArchiveMemo, DeleteReactions, DeleteRelations, DeleteRow, DropRelations,
       FindRelated, InsertRelation, DeleteSameReaction, InsertReaction,
       DeleteReaction, InsertShare, DeleteShare
  <2>2. ~ Start(r)
    BY <2>1, StartOpens DEF Opened, Begin
  <2> QED BY <2>2, StepFrame DEF RequestStep
<1>1. Shape(r)'
  <2> USE <1>0 DEF IInv, Shape, Go, PosterPcs, CommentPcs, RelatePcs, ReactPcs,
                   SharePcs, NotifyPcs, TypeOK
  <2>1. CASE InsertMemo(r) \/ LinkParent(r) \/ Notify(r) \/ PostWebhook(r)
    BY <2>1 DEF InsertMemo, LinkParent, Notify, PostWebhook
  <2>2. CASE PatchMemo(r) \/ ArchiveMemo(r)
    BY <2>2 DEF PatchMemo, ArchiveMemo
  <2>3. CASE DeleteReactions(r) \/ DeleteRelations(r) \/ DeleteRow(r)
    BY <2>3 DEF DeleteReactions, DeleteRelations, DeleteRow
  <2>4. CASE DropRelations(r)
    BY <2>4 DEF DropRelations
  <2>5. CASE FindRelated(r) \/ InsertRelation(r)
    BY <2>5 DEF FindRelated, InsertRelation, AfterPair
  <2>6. CASE DeleteSameReaction(r) \/ InsertReaction(r) \/ DeleteReaction(r)
             \/ InsertShare(r) \/ DeleteShare(r) \/ Crash(r)
    BY <2>6 DEF DeleteSameReaction, InsertReaction, DeleteReaction, InsertShare, DeleteShare, Crash
  <2> QED BY <2>1, <2>2, <2>3, <2>4, <2>5, <2>6 DEF Write
<1>2. Known(r)'
  <2>1. arg[r].kind \notin {"unused", "create"} =>
          Exists(arg[r].memo)' \/ arg[r].memo \in condemned'
    BY <1>0, StepKeeps DEF IInv, Known, Shape
  <2>2. pc'[r] \notin {"idle", "creator", "insert"}
        /\ (pc'[r] = "delRow" => arg[r].memo \in condemned')
    BY <1>0 DEF Write, Crash, InsertMemo, LinkParent, Notify, PostWebhook, PatchMemo,
       ArchiveMemo, DeleteReactions, DeleteRelations, DeleteRow, DropRelations,
       FindRelated, InsertRelation, DeleteSameReaction, InsertReaction,
       DeleteReaction, InsertShare, DeleteShare, AfterPair, Go, IInv, TypeOK
  <2> QED BY <1>0, <2>1, <2>2 DEF Known, Exists
<1>3. Posting(r)'
  <2>1. CASE LinkParent(r)
    BY <1>0, <2>1 DEF LinkParent, Posting, Hangs, Go, IInv, TypeOK
  <2>2. CASE ~ LinkParent(r)
    <3>1. pc'[r] \notin {"sender", "receiver", "notify", "webhook"}
          /\ (arg[r].kind = "comment" /\ pc'[r] \in NotifyPcs \cup {"reread", "webhook", "done"}
               => pc[r] \in NotifyPcs \cup {"reread", "webhook"})
      <4> USE <1>0 DEF IInv, Shape, Go, PosterPcs, CommentPcs, RelatePcs, ReactPcs,
                   SharePcs, NotifyPcs, TypeOK
      <4>1. CASE InsertMemo(r) \/ Notify(r) \/ PostWebhook(r) \/ Crash(r)
        BY <4>1 DEF InsertMemo, Notify, PostWebhook, Crash
      <4>2. CASE PatchMemo(r) \/ ArchiveMemo(r)
        BY <4>2 DEF PatchMemo, ArchiveMemo
      <4>3. CASE DeleteReactions(r) \/ DeleteRelations(r) \/ DeleteRow(r)
        BY <4>3 DEF DeleteReactions, DeleteRelations, DeleteRow
      <4>4. CASE DropRelations(r) \/ FindRelated(r) \/ InsertRelation(r)
        BY <4>4 DEF DropRelations, FindRelated, InsertRelation, AfterPair
      <4>5. CASE DeleteSameReaction(r) \/ InsertReaction(r) \/ DeleteReaction(r)
                 \/ InsertShare(r) \/ DeleteShare(r)
        BY <4>5 DEF DeleteSameReaction, InsertReaction, DeleteReaction, InsertShare, DeleteShare
      <4> QED BY <4>1, <4>2, <4>3, <4>4, <4>5, <2>2 DEF Write
    <3> QED BY <1>0, <3>1, HangsKeeps DEF Posting, IInv
  <2> QED BY <2>1, <2>2
<1> QED BY <1>1, <1>2, <1>3

-----------------------------------------------------------------------------
(* What hangs from memos.                                                    *)

\* A request that has begun never becomes idle again.
LEMMA StepMoves ==
  ASSUME IInv, NEW r \in Requests, RequestStep(r), ~ Start(r)
  PROVE  arg' = arg /\ pc[r] # "idle" /\ \A q \in Requests : pc[q] # "idle" => pc'[q] # "idle"
<1>1. Shape(r)' /\ arg' = arg /\ pc[r] \notin {"idle", "done", "rejected"}
  BY StepFrame, LookupKeeps, WriteKeeps DEF RequestStep
<1>2. pc'[r] # "idle"
  <2>1. CASE Lookup(r)
    BY <2>1 DEF Lookup, FindCreator, FindInserted, FindParent, FindParentRow,
      FindParentUser, FindSender, FindReceiver, RereadMemo, FindPatched, FindDeleted,
      FindSource, FindReactor, FindShared, FindShareOwner, FindUnshared, Read, Go, IInv, TypeOK
  <2>2. CASE Write(r) \/ Crash(r)
    BY <2>2 DEF Write, Crash, InsertMemo, LinkParent, Notify, PostWebhook, PatchMemo,
      ArchiveMemo, DeleteReactions, DeleteRelations, DeleteRow, DropRelations,
      FindRelated, InsertRelation, DeleteSameReaction, InsertReaction,
      DeleteReaction, InsertShare, DeleteShare, AfterPair, Go, IInv, TypeOK
  <2> QED BY <2>1, <2>2 DEF RequestStep
<1> QED BY StepFrame, <1>1, <1>2 DEF Frame, IInv, TypeOK

\* What a step does to the reactions, and where it leaves a POST of one.
LEMMA StepReacts ==
  ASSUME IInv, NEW r \in Requests, RequestStep(r), ~ Start(r)
  PROVE  /\ \A x \in reactions \ reactions' :
              \/ pc[r] = "delReactions" /\ arg[x].memo = arg[r].memo
              \/ pc[r] = "reactDelete" /\ pc'[r] = "reactInsert" /\ x \in SameReaction(r)
              \/ pc[r] = "unreact" /\ x = arg[r].ref
         /\ arg[r].kind = "react" /\ (pc[r] = "reactInsert" \/ pc'[r] = "done") =>
              pc'[r] = "rejected" \/ (pc'[r] = "done" /\ r \in reactions')
<1> USE DEF IInv, TypeOK, Go, Shape, PosterPcs, NotifyPcs, RelatePcs, ReactPcs, SharePcs, CommentPcs
<1>1. CASE Lookup(r)
  <2>1. reactions' = reactions
    BY <1>1, LookupTypes DEF tables
  <2>2. arg[r].kind = "react" => pc[r] # "reactInsert" /\ pc'[r] # "done"
    BY <1>1 DEF Lookup, FindCreator, FindInserted, FindParent, FindParentRow,
        FindParentUser, FindSender, FindReceiver, RereadMemo, FindPatched, FindDeleted,
        FindSource, FindReactor, FindShared, FindShareOwner, FindUnshared, Read
  <2> QED BY <2>1, <2>2
<1>2. CASE InsertMemo(r) \/ LinkParent(r) \/ Notify(r) \/ PostWebhook(r)
           \/ PatchMemo(r) \/ ArchiveMemo(r)
  BY <1>2 DEF InsertMemo, LinkParent, Notify, PostWebhook, PatchMemo, ArchiveMemo, tables
<1>3. CASE DeleteReactions(r)
  BY <1>3 DEF DeleteReactions
<1>4. CASE DeleteRelations(r) \/ DropRelations(r) \/ FindRelated(r) \/ InsertRelation(r)
           \/ DeleteRow(r)
  BY <1>4 DEF DeleteRelations, DropRelations, FindRelated, InsertRelation, DeleteRow, tables
<1>5. CASE DeleteSameReaction(r)
  BY <1>5 DEF DeleteSameReaction
<1>6. CASE InsertReaction(r)
  BY <1>6 DEF InsertReaction
<1>7. CASE DeleteReaction(r)
  BY <1>7 DEF DeleteReaction
<1>8. CASE InsertShare(r) \/ DeleteShare(r) \/ Crash(r)
  BY <1>8 DEF InsertShare, DeleteShare, Crash, tables
<1> QED BY <1>1, <1>2, <1>3, <1>4, <1>5, <1>6, <1>7, <1>8 DEF RequestStep, Write

LEMMA StepReactions ==
  ASSUME IInv, NEW r \in Requests, RequestStep(r)
  PROVE  ReactionsKept' /\ \A q \in Requests : Referring(q)'
<1>0. Frame(r) /\ pc' \in [Requests -> Pcs]
  BY StepFrame, StepTypes DEF TypeOK
<1>1. CASE Start(r)
  <2>1. PICK a, to : Opened(r, a, to)
    BY <1>1, StartOpens
  <2>2. /\ pc[r] = "idle" /\ pc'[r] = to /\ arg'[r] = a /\ reactions' = reactions
        /\ \A q \in Requests \ {r} : pc'[q] = pc[q] /\ arg'[q] = arg[q]
    BY <2>1 DEF Opened, Begin, Go, tables, IInv, TypeOK
  <2>3. to \notin {"idle", "done"}
    BY <2>1 DEF Opened
  <2>4. r \notin reactions /\ reactions \subseteq Requests
        /\ \A q \in reactions : pc[q] # "idle"
    BY <2>2 DEF IInv, Begun, TypeOK
  <2>5. Referring(r)'
    BY <2>1, <2>2, <2>3, <2>4 DEF Opened, Referring
  <2>6. ASSUME NEW q \in Requests, q # r PROVE Referring(q)'
    BY <2>2, <2>3, <2>6 DEF IInv, Referring
  <2>7. ASSUME NEW q \in Requests, arg'[q].kind = "react", pc'[q] = "done"
        PROVE  SameReaction(q)' # {} \/ \E w \in Requests \ {q} : Took(w, q)'
    <3>1. q # r /\ arg[q].kind = "react" /\ pc[q] = "done"
      BY <2>2, <2>3, <2>7
    <3>2. CASE SameReaction(q) # {}
      BY <2>2, <2>4, <3>1, <3>2 DEF SameReaction
    <3>3. ASSUME NEW w \in Requests \ {q}, Took(w, q) PROVE Took(w, q)'
      <4>1. w # r
        BY <2>2, <3>3 DEF Took, IInv, Shape, ReactPcs
      <4>2. arg[w].kind = "unreact" => arg[w].ref \in Requests \ {r}
        BY <2>2 DEF IInv, Referring
      <4> QED BY <2>2, <3>1, <3>3, <4>1, <4>2 DEF Took
    <3> QED BY <3>1, <3>2, <3>3 DEF IInv, ReactionsKept
  <2> QED BY <2>5, <2>6, <2>7 DEF ReactionsKept
<1>2. CASE ~ Start(r)
  <2>1. arg' = arg /\ \A q \in Requests : pc[q] # "idle" => pc'[q] # "idle"
    BY <1>2, StepMoves
  <2>2. \A q \in Requests \ {r} : pc'[q] = pc[q]
    BY <1>0 DEF Frame, IInv, TypeOK
  <2>3. pc[r] \notin {"idle", "done", "rejected"}
    BY <1>2, StepFrame
  <2>4. \A q \in Requests : Referring(q)'
    BY <2>1 DEF IInv, Referring
  <2>5. ASSUME NEW q \in Requests, arg'[q].kind = "react", pc'[q] = "done"
        PROVE  SameReaction(q)' # {} \/ \E w \in Requests \ {q} : Took(w, q)'
    <3>0. arg[q].kind = "react"
      BY <2>1, <2>5
    <3>1. CASE q = r
      <4>1. r \in reactions'
        BY <1>2, <2>5, <3>0, <3>1, StepReacts
      <4> QED BY <2>1, <3>1, <4>1 DEF SameReaction
    <3>2. CASE q # r
      <4>1. pc[q] = "done"
        BY <2>2, <2>5, <3>2
      <4>2. ASSUME NEW x \in SameReaction(q), x \notin reactions' PROVE Took(r, q)'
        <5>1. CASE pc[r] = "delReactions" /\ arg[x].memo = arg[r].memo
          BY <2>1, <4>2, <5>1 DEF Took, SameReaction, IInv, Shape
        <5>2. CASE pc[r] = "reactDelete" /\ pc'[r] = "reactInsert" /\ x \in SameReaction(r)
          BY <2>1, <4>2, <5>2 DEF Took, SameReaction, IInv, Shape, ReactPcs
        <5>3. CASE pc[r] = "unreact" /\ x = arg[r].ref
          BY <2>1, <4>2, <5>3 DEF Took, SameReaction, IInv, Shape, Referring
        <5> QED BY <1>2, <4>2, <5>1, <5>2, <5>3, StepReacts DEF SameReaction
      <4>3. CASE SameReaction(q) # {}
        BY <2>1, <3>2, <4>2, <4>3 DEF SameReaction
      <4>4. ASSUME NEW w \in Requests \ {q}, Took(w, q)
            PROVE  Took(w, q)' \/ SameReaction(q)' # {}
        <5>1. CASE w # r \/ arg[w].kind # "react"
          BY <2>1, <2>2, <4>4, <5>1 DEF Took
        <5>2. CASE w = r /\ arg[w].kind = "react"
          <6>1. pc[r] = "reactInsert" /\ arg[r].who = arg[q].who /\ arg[r].memo = arg[q].memo
            BY <2>3, <4>4, <5>2 DEF Took
          <6>2. pc'[r] = "rejected" \/ r \in reactions'
            BY <1>2, <5>2, <6>1, StepReacts
          <6> QED BY <2>1, <5>2, <6>1, <6>2 DEF Took, SameReaction
        <5> QED BY <5>1, <5>2
      <4> QED BY <3>0, <3>2, <4>1, <4>3, <4>4 DEF IInv, ReactionsKept
    <3> QED BY <3>1, <3>2
  <2> QED BY <2>4, <2>5 DEF ReactionsKept
<1> QED BY <1>1, <1>2

LEMMA StepHangs ==
  ASSUME IInv, NEW r \in Requests, RequestStep(r)
  PROVE  Begun' /\ InboxTrue' /\ SharesHaveMemo'
<1>0. Frame(r) /\ (~ Start(r) => arg' = arg)
  BY StepFrame
<1>1. CASE Start(r)
  <2>1. PICK a, to : Opened(r, a, to)
    BY <1>1, StartOpens
  <2>2. pc[r] = "idle" /\ to # "idle" /\ pc' = [pc EXCEPT ![r] = to]
        /\ arg' = [arg EXCEPT ![r] = a]
        /\ UNCHANGED <<row, relations, reactions, shares, inbox, posted, condemned>>
    BY <2>1 DEF Opened, Begin, Go, tables
  <2>3. r \notin inbox \cup posted \cup shares \cup reactions
    BY <2>2 DEF IInv, Begun
  <2>4. \A q \in inbox \cup posted \cup shares \cup reactions : arg'[q] = arg[q] /\ pc'[q] = pc[q]
    BY <2>2, <2>3 DEF IInv, TypeOK
  <2>5. Begun'
    BY <2>2, <2>4 DEF IInv, Begun
  <2>6. InboxTrue'
    BY <2>2, <2>4 DEF IInv, InboxTrue, Hangs
  <2>7. SharesHaveMemo'
    BY <2>2, <2>4 DEF IInv, SharesHaveMemo, Exists
  <2> QED BY <2>5, <2>6, <2>7
<1>2. CASE ~ Start(r)
  <2>1. arg' = arg /\ pc[r] # "idle" /\ \A q \in Requests : pc[q] # "idle" => pc'[q] # "idle"
    BY <1>2, StepMoves
  <2>2. /\ inbox' = inbox \/ (inbox' = inbox \cup {r} /\ pc[r] = "notify")
        /\ posted' = posted \/ (posted' = posted \cup {r} /\ pc[r] = "webhook")
        /\ reactions' \subseteq reactions \/ (reactions' = reactions \cup {r} /\ pc[r] = "reactInsert")
        /\ \/ shares' \subseteq shares /\ ~ DeleteRow(r)
           \/ shares' = shares \cup {r} /\ pc[r] = "shareInsert" /\ Exists(arg[r].memo)
              /\ row' = row
           \/ DeleteRow(r)
    <3>1. CASE Lookup(r)
      BY <3>1, LookupTypes DEF tables, Lookup, FindCreator, FindInserted, FindParent, FindParentRow,
          FindParentUser, FindSender, FindReceiver, RereadMemo, FindPatched, FindDeleted,
          FindSource, FindReactor, FindShared, FindShareOwner, FindUnshared, Read, DeleteRow
    <3>2. CASE InsertMemo(r) \/ LinkParent(r) \/ Notify(r) \/ PostWebhook(r)
               \/ PatchMemo(r) \/ ArchiveMemo(r)
      BY <3>2 DEF InsertMemo, LinkParent, Notify, PostWebhook, PatchMemo, ArchiveMemo,
                  DeleteRow, tables
    <3>3. CASE DeleteReactions(r) \/ DeleteRelations(r) \/ DropRelations(r)
               \/ FindRelated(r) \/ InsertRelation(r) \/ Crash(r)
      BY <3>3 DEF DeleteReactions, DeleteRelations, DropRelations, FindRelated,
                  InsertRelation, Crash, DeleteRow, tables
    <3>4. CASE DeleteSameReaction(r) \/ InsertReaction(r) \/ DeleteReaction(r)
      BY <3>4 DEF DeleteSameReaction, InsertReaction, DeleteReaction, DeleteRow
    <3>5. CASE InsertShare(r) \/ DeleteShare(r)
      BY <3>5 DEF InsertShare, DeleteShare, DeleteRow
    <3>6. CASE DeleteRow(r)
      BY <3>6 DEF DeleteRow
    <3> QED BY <1>2, <3>1, <3>2, <3>3, <3>4, <3>5, <3>6 DEF RequestStep, Write
  <2>3. Begun'
    <3>1. shares' \subseteq shares \/ (shares' = shares \cup {r} /\ pc[r] = "shareInsert")
      BY <2>2 DEF DeleteRow
    <3> QED BY <2>1, <2>2, <3>1 DEF IInv, Begun, Shape, ReactPcs, SharePcs, TypeOK
  <2>4. InboxTrue'
    <3>1. ASSUME NEW q \in inbox' \cup posted'
          PROVE  /\ q \in Requests /\ arg[q].kind = "comment"
                 /\ arg[q].who # arg[q].owner
                 /\ q \in inbox' => arg[q].vis # "PRIVATE"
                 /\ Hangs(q)
      BY <2>2 DEF IInv, InboxTrue, TypeOK, Posting, Shape, CommentPcs, NotifyPcs
    <3> QED BY <2>1, <3>1, HangsKeeps DEF InboxTrue
  <2>5. SharesHaveMemo'
    <3>1. CASE DeleteRow(r)
      <4>1. \A s \in shares : arg[s].memo \in Memos
        BY DEF IInv, Begun, Shape, TypeOK
      <4>2. \A m \in Memos \ {arg[r].memo} : row'[m] = row[m]
        BY <3>1 DEF DeleteRow, IInv, TypeOK
      <4>3. \A s \in shares' : s \in shares /\ arg[s].memo # arg[r].memo
        BY <3>1 DEF DeleteRow
      <4> QED BY <2>1, <4>1, <4>2, <4>3 DEF SharesHaveMemo, Exists, IInv
    <3>2. CASE shares' = shares \cup {r} /\ Exists(arg[r].memo) /\ row' = row
      <4>1. \A s \in shares' : Exists(arg[s].memo)
        BY <3>2 DEF SharesHaveMemo, IInv
      <4> QED BY <2>1, <3>2, <4>1 DEF SharesHaveMemo, Exists
    <3>3. CASE shares' \subseteq shares /\ ~ DeleteRow(r)
      <4>1. \A m \in Memos : Exists(m) => Exists(m)'
        <5>1. CASE InsertMemo(r)
          BY <5>1, StepKeeps DEF InsertMemo, IInv, TypeOK, Exists, Known
        <5>2. CASE PatchMemo(r) \/ ArchiveMemo(r)
          BY <5>2, PatchKeepsRows
        <5>3. CASE ~ (InsertMemo(r) \/ PatchMemo(r) \/ ArchiveMemo(r))
          <6>1. row' = row
            BY <1>2, <3>3, <5>3, LookupTypes, OtherWriteTypes DEF RequestStep, tables
          <6> QED BY <6>1 DEF Exists
        <5> QED BY <5>1, <5>2, <5>3
      <4>2. \A s \in shares : arg[s].memo \in Memos
        BY DEF IInv, Begun, Shape, TypeOK
      <4> QED BY <2>1, <3>3, <4>1, <4>2 DEF SharesHaveMemo, IInv
    <3> QED BY <2>2, <3>1, <3>2, <3>3
  <2> QED BY <2>3, <2>4, <2>5
<1> QED BY <1>1, <1>2

-----------------------------------------------------------------------------
(* The inductive invariant, and the theorems.                                *)

LEMMA NextIInv == IInv /\ [Next]_vars => IInv'
<1> SUFFICES ASSUME IInv, [Next]_vars PROVE IInv'
  OBVIOUS
<1>1. ASSUME NEW r \in Requests, RequestStep(r) PROVE IInv'
  <2>1. \A q \in Requests : Shape(q)' /\ Known(q)' /\ Posting(q)'
    BY <1>1, OthersKeep, StartKeeps, LookupKeeps, WriteKeeps DEF RequestStep
  <2> QED BY <1>1, <2>1, StepTypes, StepHangs, StepReactions DEF IInv
<1>2. ASSUME NEW u \in Users, NEW s \in States, SetAccount(u, s) PROVE IInv'
  <2>1. account' \in [Users -> States]
        /\ UNCHANGED <<tables, posted, condemned, pc, arg, todo>>
    BY <1>2 DEF SetAccount, IInv, TypeOK
  <2>2. TypeOK'
    BY <2>1 DEF tables, IInv, TypeOK
  <2>3. \A q \in Requests : Shape(q)' /\ Known(q)' /\ Posting(q)'
    BY <2>1 DEF tables, IInv, Shape, Known, Posting, Hangs, Exists
  <2>4. Begun' /\ InboxTrue' /\ SharesHaveMemo'
    BY <2>1 DEF tables, IInv, Begun, InboxTrue, SharesHaveMemo, Hangs, Exists
  <2>5. ReactionsKept' /\ \A q \in Requests : Referring(q)'
    BY <2>1 DEF tables, IInv, ReactionsKept, Took, SameReaction, Referring
  <2> QED BY <2>2, <2>3, <2>4, <2>5 DEF IInv
<1>3. CASE UNCHANGED vars
  <2>1. TypeOK'
    BY <1>3 DEF vars, tables, IInv, TypeOK
  <2>2. \A q \in Requests : Shape(q)' /\ Known(q)' /\ Posting(q)'
    BY <1>3 DEF vars, tables, IInv, Shape, Known, Posting, Hangs, Exists
  <2>3. Begun' /\ InboxTrue' /\ SharesHaveMemo'
    BY <1>3 DEF vars, tables, IInv, Begun, InboxTrue, SharesHaveMemo, Hangs, Exists
  <2>4. ReactionsKept' /\ \A q \in Requests : Referring(q)'
    BY <1>3 DEF vars, tables, IInv, ReactionsKept, Took, SameReaction, Referring
  <2> QED BY <2>1, <2>2, <2>3, <2>4 DEF IInv
<1> QED BY <1>1, <1>2, <1>3 DEF Next

LEMMA Invariant == Spec => []IInv
BY InitIInv, NextIInv, PTL DEF Spec

\* The tables and the requests keep their types.
THEOREM TypeCorrect == Spec => []TypeOK
<1>1. IInv => TypeOK
  BY DEF IInv
<1> QED BY <1>1, Invariant, PTL

\* Every notification and webhook call is about a comment that somebody else
\* made and that hangs from the memo; who was notified of it was so of a comment
\* that was not private.
THEOREM NotificationsTrue == Spec => []InboxTrue
<1>1. IInv => InboxTrue
  BY DEF IInv
<1> QED BY <1>1, Invariant, PTL

\* A comment that was answered with 200 hangs from its memo.
THEOREM CommentsStayAttached == Spec => []CommentsHang
<1>1. IInv => CommentsHang
  BY DEF IInv, Posting, CommentsHang
<1> QED BY <1>1, Invariant, PTL

\* A share link always has its memo.
THEOREM SharesStayAlive == Spec => []SharesHaveMemo
<1>1. IInv => SharesHaveMemo
  BY DEF IInv
<1> QED BY <1>1, Invariant, PTL

\* A reaction that was answered with 200 is there until it is deleted, by its
\* name or with its memo, or the user's own repeat of the POST is under way or
\* has failed half-way.
THEOREM ReactionsStay == Spec => []ReactionsKept
<1>1. IInv => ReactionsKept
  BY DEF IInv
<1> QED BY <1>1, Invariant, PTL

\* No request brings a hard-deleted memo back.
THEOREM DeletedStayDeleted == Spec => DeletedForGood
<1>1. IInv /\ [Next]_vars => [\A m \in condemned : ~ Exists(m) => ~ Exists(m)']_vars
  <2> SUFFICES ASSUME IInv, [Next]_vars, NEW m \in condemned, ~ Exists(m)
               PROVE  ~ Exists(m)' \/ UNCHANGED vars
    OBVIOUS
  <2>0. m \in Memos
    BY DEF IInv, TypeOK
  <2>1. ASSUME NEW r \in Requests, RequestStep(r) PROVE ~ Exists(m)'
    <3>1. ~ (m = r /\ pc[r] = "insert")
      BY DEF IInv, Known
    <3> QED BY <2>0, <2>1, <3>1, StepKeeps
  <2>2. ASSUME NEW u \in Users, NEW s \in States, SetAccount(u, s) PROVE ~ Exists(m)'
    BY <2>2 DEF SetAccount, tables, Exists
  <2> QED BY <2>1, <2>2 DEF Next
<1> QED BY <1>1, Invariant, PTL DEF Spec, DeletedForGood
===============================================================================
