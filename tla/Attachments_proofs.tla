-------------------------- MODULE Attachments_proofs --------------------------
(***************************************************************************)
(* Attachments keeps its types, the content of its rows, its storages free *)
(* of orphans and the lists of its memos, for any users, memos, requests   *)
(* and lists, and any subset of the storages.                              *)
(***************************************************************************)
EXTENDS Attachments, Integers, TLAPS

PostPcs == {"pick", "put", "uploader", "findMemo", "insert"}
DeletePcs == {"find", "delPick", "delObject", "delRow"}
LinkPcs == {"linkMemo", "linkClear", "linkSet"}

\* What a request has, by where it is.
Shape(r) ==
  /\ pc[r] \in {"idle", "pick"} => store[r] = None
  /\ pc[r] = "idle" => arg[r].kind = "unused"
  /\ pc[r] \in PostPcs => /\ arg[r].kind \in Uploads
                          /\ arg[r].id \in Requests /\ arg[r].who \in Users
  /\ pc[r] = "put" => arg[r].kind = "post"
  /\ arg[r].kind \in Uploads => /\ pc[r] \in PostPcs \cup {"done", "rejected"}
                                /\ arg[r].id \in Requests
  /\ pc[r] \in {"put", "uploader", "findMemo", "insert", "delObject", "delRow"}
       => store[r] \in Backends
  /\ arg[r].kind \in Uploads /\ pc[r] = "done" => store[r] \in Backends
  /\ pc[r] \in DeletePcs \cup {"linkSet"} => todo[r] # <<>>
  /\ pc[r] \in {"delPick", "delObject", "delRow"} => found[r] \in Rows
  /\ pc[r] \in {"patchMemo", "patchRow"} => arg[r].id \in Requests
  /\ pc[r] \in LinkPcs => arg[r].kind = "link" /\ arg[r].memo \in Memos
  /\ pc[r] \in {"linkMemo", "linkClear"} => todo[r] = arg[r].list

Shapes == \A r \in Requests : Shape(r)

LEMMA InitShapes == Init => TypeOK /\ Shapes
<1> SUFFICES ASSUME Init PROVE TypeOK /\ Shapes
  OBVIOUS
<1>1. NoArg \in Args /\ NoArg.kind = "unused"
  BY DEF NoArg, Args, Kinds
<1>2. TypeOK
  <2>1. /\ setting \in Backends
        /\ file \in [Requests -> Rows \cup {None}]
        /\ object \in [Places -> Requests \cup {None}]
        /\ memo \subseteq Memos
    BY DEF Init
  <2>2. /\ pc \in [Requests -> Pcs]
        /\ arg \in [Requests -> Args]
        /\ todo \in [Requests -> Seq(Requests)]
    BY <1>1 DEF Init, Pcs
  <2>3. /\ store \in [Requests -> Backends \cup {None}]
        /\ found \in [Requests -> Rows \cup {None}]
        /\ link \in [Requests -> Memos \cup {None}]
        /\ unlinked \subseteq Requests \X Requests /\ switched \in BOOLEAN /\ calm \subseteq Requests
    BY DEF Init
  <2> QED BY <2>1, <2>2, <2>3 DEF TypeOK
<1>3. Shapes
  BY <1>1 DEF Init, Shapes, Shape, PostPcs, DeletePcs, LinkPcs, Uploads
<1> QED BY <1>2, <1>3

\* Where a request begins, and with what.
Opens(a, to) ==
  /\ a \in Args
  /\ to \in {"pick", "find", "done", "patchMemo", "patchRow", "linkMemo"}
  /\ a.kind # "unused"
  /\ (to = "pick") <=> (a.kind \in Uploads)
  /\ to = "pick" => a.id \in Requests /\ a.who \in Users
  /\ to = "find" => a.list # <<>>
  /\ to \in {"patchMemo", "patchRow"} => a.id \in Requests
  /\ to = "linkMemo" => a.kind = "link" /\ a.memo \in Memos

LEMMA ShortLists ==
  /\ <<>> \in Seq(Requests)
  /\ \A i \in Requests : <<i>> \in Seq(Requests) /\ <<i>> # <<>>
OBVIOUS

LEMMA StartOpens ==
  ASSUME TypeOK, NEW r \in Requests, Start(r)
  PROVE  \E a, to : Opens(a, to) /\ Begin(r, a, to)
<1>0. Lists \subseteq Seq(Requests)
  BY AttachmentsAssumption
<1>1. ASSUME NEW u \in Users, NEW i \in Requests, DeleteStart(r, u, i)
      PROVE  \E a, to : Opens(a, to) /\ Begin(r, a, to)
  <2> DEFINE a == [NoArg EXCEPT !.kind = "delete", !.who = u, !.list = <<i>>]
  <2>1. Begin(r, a, "find")
    BY <1>1 DEF DeleteStart
  <2>2. /\ a \in Args
        /\ a.kind = "delete" /\ a.list # <<>>
    BY ShortLists DEF NoArg, Args, Kinds
  <2>3. Opens(a, "find")
    BY <2>2 DEF Opens, Uploads
  <2> QED BY <2>1, <2>3
<1>2. ASSUME NEW u \in Users, NEW i \in Requests, NEW m \in Memos \cup {None},
             PatchStart(r, u, i, m)
      PROVE  \E a, to : Opens(a, to) /\ Begin(r, a, to)
  <2> DEFINE a == [NoArg EXCEPT !.kind = "patch", !.who = u, !.id = i, !.memo = m]
  <2> DEFINE to == IF m = None THEN "patchRow" ELSE "patchMemo"
  <2>1. Begin(r, a, to)
    BY <1>2 DEF PatchStart
  <2>2. /\ a \in Args
        /\ a.kind = "patch" /\ a.id = i
    BY ShortLists DEF NoArg, Args, Kinds
  <2>3. Opens(a, to)
    BY <2>2 DEF Opens, Uploads
  <2> QED BY <2>1, <2>3
<1>3. ASSUME NEW u \in Users, NEW i \in Requests, NEW m \in Memos \cup {None},
             NEW k \in Uploads, NEW n \in References \cup {None},
             PostStart(r, u, k, i, m, n)
      PROVE  \E a, to : Opens(a, to) /\ Begin(r, a, to)
  <2> DEFINE a == [NoArg EXCEPT !.kind = k, !.who = u, !.id = i, !.memo = m, !.ref = n]
  <2>1. Begin(r, a, "pick")
    BY <1>3 DEF PostStart
  <2>2. /\ a \in Args
        /\ a.kind = k /\ a.id = i /\ a.who = u
    BY ShortLists DEF NoArg, Args, Kinds, Uploads
  <2>3. Opens(a, "pick")
    BY <2>2 DEF Opens, Uploads
  <2> QED BY <2>1, <2>3
<1>4. ASSUME NEW u \in Users, NEW l \in Lists, BatchStart(r, u, l)
      PROVE  \E a, to : Opens(a, to) /\ Begin(r, a, to)
  <2> DEFINE a == [NoArg EXCEPT !.kind = "batch", !.who = u, !.list = l]
  <2> DEFINE to == IF l = <<>> THEN "done" ELSE "find"
  <2>1. Begin(r, a, to)
    BY <1>4 DEF BatchStart
  <2>2. /\ a \in Args
        /\ a.kind = "batch" /\ a.list = l
    BY <1>0 DEF NoArg, Args, Kinds
  <2>3. Opens(a, to)
    BY <2>2 DEF Opens, Uploads
  <2> QED BY <2>1, <2>3
<1>5. ASSUME NEW u \in Users, NEW l \in Lists, NEW m \in Memos, LinkStart(r, u, m, l)
      PROVE  \E a, to : Opens(a, to) /\ Begin(r, a, to)
  <2> DEFINE a == [NoArg EXCEPT !.kind = "link", !.who = u, !.memo = m, !.list = l]
  <2>1. Begin(r, a, "linkMemo")
    BY <1>5 DEF LinkStart
  <2>2. /\ a \in Args
        /\ a.kind = "link" /\ a.memo = m
    BY <1>0 DEF NoArg, Args, Kinds
  <2>3. Opens(a, "linkMemo")
    BY <2>2 DEF Opens, Uploads
  <2> QED BY <2>1, <2>3
<1>6. "post" \in Uploads /\ "external" \in Uploads /\ Links \subseteq References \cup {None}
  BY AttachmentsAssumption DEF Uploads
<1> QED BY <1>1, <1>2, <1>3, <1>4, <1>5, <1>6 DEF Start

-----------------------------------------------------------------------------
(* A request moves itself only.                                            *)

Frame(r) ==
  /\ pc' = [pc EXCEPT ![r] = pc'[r]]
  /\ arg' = [arg EXCEPT ![r] = arg'[r]]
  /\ store' = [store EXCEPT ![r] = store'[r]]
  /\ found' = [found EXCEPT ![r] = found'[r]]
  /\ link' = [link EXCEPT ![r] = link'[r]]
  /\ todo' = [todo EXCEPT ![r] = todo'[r]]

LEMMA StepFrame ==
  ASSUME TypeOK, NEW r \in Requests, RequestStep(r)
  PROVE  /\ Frame(r)
         /\ UNCHANGED <<setting, memo, switched>>
         /\ ~ Start(r) => arg' = arg /\ pc[r] \notin {"idle", "done", "rejected"}
<1> USE DEF TypeOK, Frame, Go, locals, history
<1>1. CASE Start(r)
  BY <1>1, StartOpens DEF Begin
<1>2. CASE Post(r)
  BY <1>2 DEF Post, PickStorage, PutObject, FindUploader, FindMemo, InsertAttachment
<1>3. CASE FindDeleted(r)
  BY <1>3 DEF FindDeleted
<1>4. CASE PickDeleted(r) \/ DeleteObject(r) \/ DeleteAttachment(r)
  BY <1>4 DEF PickDeleted, DeleteObject, DeleteAttachment
<1>5. CASE Relink(r) \/ Crash(r)
  BY <1>5 DEF Relink, FindPatchedMemo, PatchRow, FindLinkedMemo, ClearLinks, SetLink, Crash
<1> QED BY <1>1, <1>2, <1>3, <1>4, <1>5 DEF RequestStep, Delete

-----------------------------------------------------------------------------
(* Types and shapes.                                                       *)

LEMMA NextInList ==
  ASSUME NEW s \in Seq(Requests), s # <<>>
  PROVE  Head(s) \in Requests /\ Tail(s) \in Seq(Requests)
OBVIOUS

LEMMA LinkedType ==
  ASSUME TypeOK, NEW i \in Requests, NEW m \in Memos \cup {None}
  PROVE  Linked(i, m) \in [Requests -> Rows \cup {None}]
<1>1. CASE Exists(i)
  <2>1. file[i] \in Rows
    BY <1>1 DEF Exists, TypeOK
  <2>2. [file[i] EXCEPT !.memo = m] \in Rows
    BY <2>1 DEF Rows
  <2> QED BY <1>1, <2>2 DEF Linked, TypeOK
<1>2. CASE ~ Exists(i)
  BY <1>2 DEF Linked, TypeOK
<1> QED BY <1>1, <1>2

\* The shapes of the requests that do not move stay.
LEMMA OthersShape ==
  ASSUME TypeOK, Shapes, NEW r \in Requests, Frame(r), Shape(r)'
  PROVE  Shapes'
<1>1. ASSUME NEW q \in Requests \ {r} PROVE Shape(q)'
  <2>1. /\ pc'[q] = pc[q] /\ arg'[q] = arg[q] /\ store'[q] = store[q]
        /\ found'[q] = found[q] /\ todo'[q] = todo[q]
    BY DEF TypeOK, Frame
  <2>2. Shape(q)
    BY DEF Shapes
  <2> QED BY <2>1, <2>2 DEF Shape
<1> QED BY <1>1 DEF Shapes

LEMMA StartShape ==
  ASSUME TypeOK, Shapes, NEW r \in Requests, Start(r)
  PROVE  TypeOK' /\ Shape(r)'
<1>1. PICK a, to : Opens(a, to) /\ Begin(r, a, to)
  BY StartOpens
<1>2. to \in Pcs
  BY <1>1 DEF Opens, Pcs
<1>3. TypeOK'
  BY <1>1, <1>2 DEF Opens, Begin, Go, history, TypeOK, Args
<1>4. /\ pc'[r] = to /\ arg'[r] = a /\ todo'[r] = a.list
      /\ store'[r] = store[r] /\ pc[r] = "idle" /\ store[r] = None
  BY <1>1 DEF Begin, Go, TypeOK, Shapes, Shape
<1>5. Shape(r)'
  BY <1>1, <1>4 DEF Opens, Shape, PostPcs, DeletePcs, LinkPcs, Uploads
<1> QED BY <1>3, <1>5

LEMMA InsertedRow ==
  ASSUME TypeOK, Shapes, NEW r \in Requests, InsertAttachment(r), ~ Exists(arg[r].id)
  PROVE  \E n \in ReferencesOf(r) : \E row \in Rows :
           /\ row = [by |-> r, owner |-> arg[r].who, store |-> store[r],
                     kind |-> arg[r].kind, ref |-> n, memo |-> link[r]]
           /\ file' = [file EXCEPT ![arg[r].id] = row]
<1>1. /\ arg[r].id \in Requests /\ arg[r].who \in Users /\ store[r] \in Backends
      /\ arg[r].kind \in Uploads /\ arg[r] \in Args /\ link[r] \in Memos \cup {None}
  BY DEF InsertAttachment, Shapes, Shape, PostPcs, TypeOK
<1>2. PICK n \in ReferencesOf(r) :
        file' = [file EXCEPT ![arg[r].id] =
                   [by |-> r, owner |-> arg[r].who, store |-> store[r],
                    kind |-> arg[r].kind, ref |-> n, memo |-> link[r]]]
  BY DEF InsertAttachment
<1>3. n \in References \cup {None}
  BY <1>1, <1>2 DEF ReferencesOf, Returned, References, Forms, Args
<1>4. [by |-> r, owner |-> arg[r].who, store |-> store[r],
       kind |-> arg[r].kind, ref |-> n, memo |-> link[r]] \in Rows
  BY <1>1, <1>3 DEF Rows
<1> QED BY <1>2, <1>4

LEMMA PostShape ==
  ASSUME TypeOK, Shapes, NEW r \in Requests, Post(r)
  PROVE  TypeOK' /\ Shape(r)'
<1> USE DEF Go, locals, history
<1>0. Shape(r)
  BY DEF Shapes
<1>1. CASE PickStorage(r)
  <2>1. TypeOK'
    BY <1>1 DEF PickStorage, TypeOK, Pcs
  <2>2. Shape(r)'
    BY <1>0, <1>1 DEF PickStorage, Shape, PostPcs, DeletePcs, LinkPcs, Uploads, TypeOK
  <2> QED BY <2>1, <2>2
<1>2. CASE PutObject(r)
  <2>1. object' \in [Places -> Requests \cup {None}]
    BY <1>2 DEF PutObject, TypeOK
  <2>2. TypeOK'
    BY <1>2, <2>1 DEF PutObject, TypeOK, Pcs
  <2>3. Shape(r)'
    BY <1>0, <1>2 DEF PutObject, Shape, PostPcs, DeletePcs, LinkPcs, Uploads, TypeOK
  <2> QED BY <2>2, <2>3
<1>3. CASE FindUploader(r) \/ FindMemo(r)
  <2>1. TypeOK'
    BY <1>3 DEF FindUploader, FindMemo, TypeOK, Pcs
  <2>2. Shape(r)'
    BY <1>0, <1>3 DEF FindUploader, FindMemo, Shape, PostPcs, DeletePcs, LinkPcs, Uploads,
                      TypeOK
  <2> QED BY <2>1, <2>2
<1>4. CASE InsertAttachment(r)
  <2>2. file' \in [Requests -> Rows \cup {None}]
    <3>1. CASE Exists(arg[r].id)
      BY <1>4, <3>1 DEF InsertAttachment, TypeOK
    <3>2. CASE ~ Exists(arg[r].id)
      <4>1. PICK row \in Rows : file' = [file EXCEPT ![arg[r].id] = row]
        BY <1>4, <3>2, InsertedRow
      <4> QED BY <4>1 DEF TypeOK
    <3> QED BY <3>1, <3>2
  <2>3. calm' \subseteq Requests
    BY <1>4 DEF InsertAttachment, Cross, TypeOK
  <2>4. TypeOK'
    BY <1>4, <2>2, <2>3 DEF InsertAttachment, TypeOK, Pcs
  <2>5. Shape(r)'
    BY <1>0, <1>4 DEF InsertAttachment, Shape, PostPcs, DeletePcs, LinkPcs, Uploads, TypeOK
  <2> QED BY <2>4, <2>5
<1> QED BY <1>1, <1>2, <1>3, <1>4 DEF Post

LEMMA DeleteShape ==
  ASSUME TypeOK, Shapes, NEW r \in Requests, Delete(r)
  PROVE  TypeOK' /\ Shape(r)'
<1> USE DEF Go, locals, history
<1>0. Shape(r) /\ todo[r] \in Seq(Requests)
  BY DEF Shapes, TypeOK
<1>1. todo[r] # <<>>
  BY <1>0 DEF Delete, FindDeleted, PickDeleted, DeleteObject, DeleteAttachment, Shape,
              DeletePcs
<1>2. Head(todo[r]) \in Requests /\ Tail(todo[r]) \in Seq(Requests)
  BY <1>0, <1>1, NextInList
<1>3. arg[r].kind \notin Uploads
  BY <1>0 DEF Delete, FindDeleted, PickDeleted, DeleteObject, DeleteAttachment, Shape,
              PostPcs
<1>4. CASE FindDeleted(r)
  <2>1. /\ pc' = [pc EXCEPT ![r] = pc'[r]] /\ pc'[r] \in {"find", "done", "rejected", "delPick"}
        /\ pc'[r] = "find" => todo'[r] # <<>>
        /\ pc'[r] = "delPick" => todo'[r] = todo[r] /\ found'[r] \in Rows
        /\ todo' \in [Requests -> Seq(Requests)]
        /\ found' \in [Requests -> Rows \cup {None}]
    BY <1>2, <1>4 DEF FindDeleted, Following, Exists, TypeOK
  <2>2. UNCHANGED <<setting, file, object, memo, arg, store, link, history>>
    BY <1>4 DEF FindDeleted
  <2>3. TypeOK'
    BY <2>1, <2>2 DEF TypeOK, Pcs
  <2>4. Shape(r)'
    BY <1>1, <1>3, <2>1, <2>2 DEF Shape, PostPcs, DeletePcs, LinkPcs
  <2> QED BY <2>3, <2>4
<1>5. CASE PickDeleted(r)
  <2>1. TypeOK'
    BY <1>5 DEF PickDeleted, TypeOK, Pcs
  <2>2. Shape(r)'
    BY <1>0, <1>3, <1>5, AttachmentsAssumption
       DEF PickDeleted, Shape, PostPcs, DeletePcs, LinkPcs, TypeOK
  <2> QED BY <2>1, <2>2
<1>6. CASE DeleteObject(r)
  <2>0. found[r] \in Rows
    BY <1>0, <1>6 DEF DeleteObject, Shape
  <2>1. /\ object' \in [Places -> Requests \cup {None}]
        /\ unlinked' \subseteq Requests \X Requests
    <3>1. found[r].ref # None => found[r].ref[2] \in Requests
      BY <2>0 DEF Rows, References
    <3>2. object' \in [Places -> Requests \cup {None}]
      BY <1>6 DEF DeleteObject, TypeOK
    <3>3. unlinked' \subseteq Requests \X Requests
      <4>1. unlinked' = unlinked
              \/ (found[r].ref # None /\ unlinked' = unlinked \cup {<<Head(todo[r]), found[r].ref[2]>>})
        BY <1>6 DEF DeleteObject
      <4>2. unlinked \subseteq Requests \X Requests
        BY DEF TypeOK
      <4> QED BY <1>2, <3>1, <4>1, <4>2
    <3> QED BY <3>2, <3>3
  <2>2. TypeOK'
    BY <1>6, <2>1 DEF DeleteObject, TypeOK, Pcs
  <2>3. Shape(r)'
    BY <1>0, <1>3, <1>6 DEF DeleteObject, Shape, PostPcs, DeletePcs, LinkPcs, TypeOK
  <2> QED BY <2>2, <2>3
<1>7. CASE DeleteAttachment(r)
  <2>1. TypeOK'
    BY <1>2, <1>7 DEF DeleteAttachment, Following, TypeOK, Pcs
  <2>2. /\ pc'[r] \in {"find", "done"}
        /\ pc'[r] = "find" => todo'[r] # <<>>
        /\ arg' = arg
    BY <1>7 DEF DeleteAttachment, Following, TypeOK
  <2>3. Shape(r)'
    BY <1>3, <2>2 DEF Shape, PostPcs, DeletePcs, LinkPcs
  <2> QED BY <2>1, <2>3
<1> QED BY <1>4, <1>5, <1>6, <1>7 DEF Delete

LEMMA RelinkShape ==
  ASSUME TypeOK, Shapes, NEW r \in Requests, Relink(r) \/ Crash(r)
  PROVE  TypeOK' /\ Shape(r)'
<1> USE DEF Go, locals, history
<1>0. Shape(r)
  BY DEF Shapes
<1>1. CASE FindPatchedMemo(r) \/ FindLinkedMemo(r) \/ Crash(r)
  <2>1. TypeOK'
    BY <1>1 DEF FindPatchedMemo, FindLinkedMemo, Crash, TypeOK, Pcs
  <2>2. Shape(r)'
    BY <1>0, <1>1 DEF FindPatchedMemo, FindLinkedMemo, Crash, Shape, PostPcs, DeletePcs,
                      LinkPcs, Uploads, TypeOK
  <2> QED BY <2>1, <2>2
<1>2. CASE PatchRow(r)
  <2>1. file' \in [Requests -> Rows \cup {None}]
    BY <1>0, <1>2, LinkedType DEF PatchRow, Shape, TypeOK
  <2>2. TypeOK'
    BY <1>2, <2>1 DEF PatchRow, Cross, TypeOK, Pcs
  <2>3. Shape(r)'
    BY <1>0, <1>2 DEF PatchRow, Shape, PostPcs, DeletePcs, LinkPcs, Uploads, TypeOK
  <2> QED BY <2>2, <2>3
<1>3. CASE ClearLinks(r)
  <2>1. ASSUME NEW i \in Requests PROVE file'[i] \in Rows \cup {None}
    <3>1. CASE Exists(i) /\ file[i].memo = arg[r].memo
      <4>1. [file[i] EXCEPT !.memo = None] \in Rows
        BY <3>1 DEF Exists, Rows, TypeOK
      <4> QED BY <1>3, <3>1, <4>1 DEF ClearLinks
    <3>2. CASE ~ (Exists(i) /\ file[i].memo = arg[r].memo)
      BY <1>3, <3>2 DEF ClearLinks, TypeOK
    <3> QED BY <3>1, <3>2
  <2>2. file' \in [Requests -> Rows \cup {None}]
    BY <1>3, <2>1 DEF ClearLinks
  <2>3. TypeOK'
    BY <1>3, <2>2 DEF ClearLinks, TypeOK, Pcs
  <2>4. Shape(r)'
    BY <1>0, <1>3 DEF ClearLinks, Shape, PostPcs, DeletePcs, LinkPcs, Uploads, TypeOK
  <2> QED BY <2>3, <2>4
<1>4. CASE SetLink(r)
  <2>1. todo[r] \in Seq(Requests) /\ todo[r] # <<>> /\ arg[r].kind = "link"
        /\ arg[r].memo \in Memos
    BY <1>0, <1>4 DEF SetLink, Shape, LinkPcs, TypeOK
  <2>2. Head(todo[r]) \in Requests /\ Tail(todo[r]) \in Seq(Requests)
    BY <2>1, NextInList
  <2>3. file' \in [Requests -> Rows \cup {None}]
    BY <1>4, <2>1, <2>2, LinkedType DEF SetLink
  <2>4. TypeOK'
    BY <1>4, <2>2, <2>3 DEF SetLink, Following, Cross, TypeOK, Pcs
  <2>5. /\ pc'[r] \in {"linkSet", "done"}
        /\ pc'[r] = "linkSet" => todo'[r] # <<>>
        /\ arg' = arg
    BY <1>4 DEF SetLink, Following, TypeOK
  <2>6. Shape(r)'
    BY <2>1, <2>5 DEF Shape, PostPcs, DeletePcs, LinkPcs, Uploads
  <2> QED BY <2>4, <2>6
<1> QED BY <1>1, <1>2, <1>3, <1>4 DEF Relink

LEMMA NextShapes == TypeOK /\ Shapes /\ [Next]_vars => TypeOK' /\ Shapes'
<1> SUFFICES ASSUME TypeOK, Shapes, [Next]_vars PROVE TypeOK' /\ Shapes'
  OBVIOUS
<1>1. ASSUME NEW r \in Requests, RequestStep(r) PROVE TypeOK' /\ Shapes'
  <2>1. TypeOK' /\ Shape(r)'
    BY <1>1, StartShape, PostShape, DeleteShape, RelinkShape DEF RequestStep
  <2> QED BY <1>1, <2>1, StepFrame, OthersShape
<1>2. CASE World
  <2>1. /\ UNCHANGED <<file, object, pc, arg, locals, unlinked, calm>>
        /\ setting' \in Backends /\ memo' \subseteq Memos /\ switched' \in BOOLEAN
    BY <1>2, AttachmentsAssumption
       DEF World, SetStorage, Parsed, DeleteMemo, locals, history, TypeOK
  <2>2. TypeOK'
    BY <2>1 DEF locals, TypeOK
  <2>3. Shapes'
    BY <2>1 DEF locals, Shapes, Shape
  <2> QED BY <2>2, <2>3
<1>3. CASE UNCHANGED vars
  BY <1>3 DEF vars, locals, history, TypeOK, Shapes, Shape
<1> QED BY <1>1, <1>2, <1>3 DEF Next

LEMMA AlwaysShapes == Spec => [](TypeOK /\ Shapes)
BY InitShapes, NextShapes, PTL DEF Spec

\* No step of a request puts a value of another kind into a table or a local.
THEOREM TypeCorrect == Spec => []TypeOK
<1>1. TypeOK /\ Shapes => TypeOK
  OBVIOUS
<1> QED BY <1>1, AlwaysShapes, PTL

-----------------------------------------------------------------------------
(* A row says who uploaded it, and an upload that has put its object finds *)
(* it there.                                                               *)

Upload(q, i) == arg[q].kind \in Uploads /\ arg[q].id = i /\ store[q] # None

\* An upload keeps what it was asked, its storage, and the end it came to.
LEMMA UploadStays ==
  ASSUME TypeOK, Shapes, NEW r \in Requests, RequestStep(r),
         NEW q \in Requests, NEW i \in Requests, Upload(q, i)
  PROVE  /\ Upload(q, i)' /\ arg'[q] = arg[q] /\ store'[q] = store[q]
         /\ pc[q] = "done" => pc'[q] = "done"
<1>1. CASE q # r
  BY <1>1, StepFrame DEF Frame, Upload, TypeOK
<1>2. CASE q = r
  <2>1. pc[r] \in {"put", "uploader", "findMemo", "insert", "done", "rejected"}
    BY <1>2 DEF Upload, Shapes, Shape, PostPcs
  <2>2. ~ Start(r)
    BY <2>1, StartOpens DEF Begin
  <2>3. arg' = arg /\ pc[r] # "done"
    BY <2>2, StepFrame
  <2>4. store' = store
    BY <2>1, <2>2
       DEF RequestStep, Post, PickStorage, PutObject, FindUploader, FindMemo, InsertAttachment,
           Delete, FindDeleted, PickDeleted, DeleteObject, DeleteAttachment,
           Relink, FindPatchedMemo, PatchRow, FindLinkedMemo, ClearLinks, SetLink, Crash, locals
  <2> QED BY <1>2, <2>3, <2>4 DEF Upload
<1> QED BY <1>1, <1>2

RowTrue(i) ==
  Exists(i) => /\ Upload(file[i].by, i)
               /\ pc[file[i].by] = "done"
               /\ store[file[i].by] = file[i].store
               /\ file[i].kind = arg[file[i].by].kind
               /\ file[i].ref \in ReferencesOf(file[i].by)

\* Which rows a step writes, and that it writes no more of them than their link.
RowKept(i) ==
  Exists(i)' => /\ Exists(i)
                /\ file'[i].by = file[i].by /\ file'[i].store = file[i].store
                /\ file'[i].kind = file[i].kind /\ file'[i].ref = file[i].ref

LEMMA LinkedKeeps ==
  ASSUME TypeOK, NEW i \in Requests, NEW m \in Memos \cup {None}, file' = Linked(i, m)
  PROVE  \A j \in Requests : RowKept(j) /\ (Exists(j) <=> Exists(j)')
<1>1. CASE Exists(i)
  <2>1. file[i] \in Rows /\ file' = [file EXCEPT ![i].memo = m]
    BY <1>1 DEF Exists, Linked, TypeOK
  <2>2. file' = [file EXCEPT ![i] = [file[i] EXCEPT !.memo = m]]
    BY <2>1 DEF TypeOK
  <2>3. [file[i] EXCEPT !.memo = m] # None
    BY <2>1, AttachmentsAssumption DEF Rows
  <2>4. /\ file'[i].by = file[i].by /\ file'[i].store = file[i].store
        /\ file'[i].kind = file[i].kind /\ file'[i].ref = file[i].ref /\ Exists(i)'
    BY <2>1, <2>2, <2>3 DEF Rows, Exists, TypeOK
  <2>5. ASSUME NEW j \in Requests, j # i PROVE file'[j] = file[j]
    BY <2>2, <2>5 DEF TypeOK
  <2> QED BY <1>1, <2>4, <2>5 DEF RowKept, Exists
<1>2. CASE ~ Exists(i)
  BY <1>2 DEF Linked, RowKept, Exists
<1> QED BY <1>1, <1>2

LEMMA RowsWritten ==
  ASSUME TypeOK, Shapes, NEW r \in Requests, RequestStep(r), NEW i \in Requests
  PROVE  \/ RowKept(i)
         \/ /\ InsertAttachment(r) /\ i = arg[r].id /\ ~ Exists(i)
            /\ file' = [file EXCEPT ![i] = file'[i]]
            /\ file'[i].by = r /\ file'[i].store = store[r]
            /\ file'[i].kind = arg[r].kind /\ file'[i].ref \in ReferencesOf(r)
            /\ file'[i].memo = link[r]
            /\ pc'[r] = "done"
<1>0. Shape(r)
  BY DEF Shapes
<1>1. CASE file' = file
  BY <1>1 DEF RowKept, Exists
<1>2. CASE InsertAttachment(r)
  <2>1. arg[r].id \in Requests
    BY <1>0, <1>2 DEF InsertAttachment, Shape, PostPcs
  <2>2. CASE Exists(arg[r].id)
    BY <1>1, <1>2, <2>2 DEF InsertAttachment
  <2>3. CASE ~ Exists(arg[r].id)
    <3>1. PICK n \in ReferencesOf(r), row \in Rows :
            /\ row = [by |-> r, owner |-> arg[r].who, store |-> store[r],
                      kind |-> arg[r].kind, ref |-> n, memo |-> link[r]]
            /\ file' = [file EXCEPT ![arg[r].id] = row]
      BY <1>2, <2>3, InsertedRow
    <3>2. pc'[r] = "done"
      BY <1>2, <2>3 DEF InsertAttachment, Go, TypeOK
    <3>3. CASE i = arg[r].id
      <4>1. file'[i] = row
        BY <2>1, <3>1, <3>3 DEF TypeOK
      <4>2. file' = [file EXCEPT ![i] = file'[i]]
        BY <3>1, <3>3, <4>1
      <4> QED BY <1>2, <2>3, <3>1, <3>2, <3>3, <4>1, <4>2
    <3>4. CASE i # arg[r].id
      BY <2>1, <3>1, <3>4 DEF RowKept, Exists, TypeOK
    <3> QED BY <3>3, <3>4
  <2> QED BY <2>2, <2>3
<1>3. CASE DeleteAttachment(r)
  BY <1>3 DEF DeleteAttachment, RowKept, Exists, TypeOK
<1>4. CASE PatchRow(r)
  BY <1>0, <1>4, LinkedKeeps DEF PatchRow, Shape, TypeOK
<1>5. CASE SetLink(r)
  <2>1. Head(todo[r]) \in Requests /\ arg[r].memo \in Memos
    BY <1>0, <1>5, NextInList DEF SetLink, Shape, DeletePcs, LinkPcs, TypeOK
  <2> QED BY <1>5, <2>1, LinkedKeeps DEF SetLink
<1>6. CASE ClearLinks(r)
  <2>1. CASE Exists(i) /\ file[i].memo = arg[r].memo
    <3>1. file[i] \in Rows /\ file'[i] = [file[i] EXCEPT !.memo = None]
      BY <1>6, <2>1 DEF ClearLinks, Exists, TypeOK
    <3> QED BY <2>1, <3>1 DEF RowKept, Rows
  <2>2. CASE ~ (Exists(i) /\ file[i].memo = arg[r].memo)
    <3>1. file'[i] = file[i]
      BY <1>6, <2>2 DEF ClearLinks
    <3> QED BY <3>1 DEF RowKept, Exists
  <2> QED BY <2>1, <2>2
<1>7. CASE Start(r)
  BY <1>1, <1>7, StartOpens DEF Begin
<1> QED BY <1>1, <1>2, <1>3, <1>4, <1>5, <1>6, <1>7
        DEF RequestStep, Post, PickStorage, PutObject, FindUploader, FindMemo,
            Delete, FindDeleted, PickDeleted, DeleteObject,
            Relink, FindPatchedMemo, FindLinkedMemo, Crash

LEMMA RowsStayTrue ==
  ASSUME TypeOK, Shapes, \A i \in Requests : RowTrue(i), NEW r \in Requests, RequestStep(r)
  PROVE  \A i \in Requests : RowTrue(i)'
<1> SUFFICES ASSUME NEW i \in Requests, Exists(i)' PROVE RowTrue(i)'
  BY DEF RowTrue
<1>1. CASE RowKept(i)
  <2>1. Exists(i) /\ file'[i].by = file[i].by /\ file'[i].store = file[i].store
        /\ file'[i].kind = file[i].kind /\ file'[i].ref = file[i].ref
        /\ file[i].by \in Requests
    BY <1>1 DEF RowKept, Exists, Rows, TypeOK
  <2>2. RowTrue(i)
    OBVIOUS
  <2>3. /\ Upload(file[i].by, i)' /\ pc'[file[i].by] = "done"
        /\ arg'[file[i].by] = arg[file[i].by] /\ store'[file[i].by] = store[file[i].by]
    BY <2>1, <2>2, UploadStays DEF RowTrue
  <2> QED BY <2>1, <2>2, <2>3 DEF RowTrue, ReferencesOf
<1>2. CASE ~ RowKept(i)
  <2>1. /\ InsertAttachment(r) /\ i = arg[r].id
        /\ file'[i].by = r /\ file'[i].store = store[r]
        /\ file'[i].kind = arg[r].kind /\ pc'[r] = "done"
        /\ file'[i].ref \in ReferencesOf(r)
    BY <1>2, RowsWritten
  <2>2. Upload(r, i)
    BY <2>1, AttachmentsAssumption DEF InsertAttachment, Shapes, Shape, PostPcs, Upload
  <2>3. Upload(r, i)' /\ arg'[r] = arg[r] /\ store'[r] = store[r]
    BY <2>2, UploadStays
  <2> QED BY <2>1, <2>3 DEF RowTrue, ReferencesOf
<1> QED BY <1>1, <1>2

\* A delete has read a row that an upload made.
FoundTrue(r) ==
  pc[r] \in {"delPick", "delObject", "delRow"} =>
    /\ Upload(found[r].by, Head(todo[r])) /\ pc[found[r].by] = "done"
    /\ store[found[r].by] = found[r].store
    /\ found[r].kind = arg[found[r].by].kind
    /\ found[r].ref \in ReferencesOf(found[r].by)

LEMMA StartPc ==
  ASSUME TypeOK, NEW r \in Requests, Start(r)
  PROVE  /\ pc[r] = "idle"
         /\ pc'[r] \in {"pick", "find", "done", "patchMemo", "patchRow", "linkMemo"}
<1>1. PICK a, to : Opens(a, to) /\ Begin(r, a, to)
  BY StartOpens
<1>2. pc'[r] = to
  BY <1>1 DEF Begin, Go, TypeOK
<1> QED BY <1>1, <1>2 DEF Opens, Begin

LEMMA FoundStaysTrue ==
  ASSUME TypeOK, Shapes, \A i \in Requests : RowTrue(i), \A q \in Requests : FoundTrue(q),
         NEW r \in Requests, RequestStep(r), NEW q \in Requests
  PROVE  FoundTrue(q)'
<1> SUFFICES ASSUME pc'[q] \in {"delPick", "delObject", "delRow"} PROVE FoundTrue(q)'
  BY DEF FoundTrue
<1>1. CASE FindDeleted(r) /\ q = r
  <2>0. Head(todo[r]) \in Requests
    BY <1>1, NextInList DEF FindDeleted, Shapes, Shape, DeletePcs, TypeOK
  <2> PICK i \in Requests : Head(todo[r]) = i
    BY <2>0
  <2>1. Exists(i) /\ found'[r] = file[i] /\ todo'[r] = todo[r]
    BY <1>1 DEF FindDeleted, Following, Go, TypeOK
  <2>2. file[i].by \in Requests
    BY <2>1 DEF Exists, Rows, TypeOK
  <2> PICK w \in Requests : file[i].by = w
    BY <2>2
  <2>3. /\ Upload(w, i) /\ pc[w] = "done" /\ store[w] = file[i].store
        /\ file[i].kind = arg[w].kind /\ file[i].ref \in ReferencesOf(w)
    BY <2>1 DEF RowTrue
  <2>4. Upload(w, i)' /\ pc'[w] = "done" /\ arg'[w] = arg[w] /\ store'[w] = store[w]
    BY <2>3, UploadStays
  <2> QED BY <1>1, <2>1, <2>3, <2>4 DEF FoundTrue, ReferencesOf
<1>2. CASE ~ (FindDeleted(r) /\ q = r)
  <2>1. /\ pc[q] \in {"delPick", "delObject", "delRow"}
        /\ found'[q] = found[q] /\ todo'[q] = todo[q]
    <3>1. CASE q # r
      BY <3>1, StepFrame DEF Frame, TypeOK
    <3>2. CASE q = r /\ Start(r)
      BY <3>2, StartPc
    <3>3. CASE q = r /\ ~ Start(r)
      BY <1>2, <3>3
         DEF RequestStep, Post, PickStorage, PutObject, FindUploader, FindMemo,
             InsertAttachment, Delete, PickDeleted, DeleteObject, DeleteAttachment, Following,
             Relink, FindPatchedMemo, PatchRow, FindLinkedMemo, ClearLinks, SetLink, Crash,
             locals, Go, TypeOK
    <3> QED BY <3>1, <3>2, <3>3
  <2>2. found[q].by \in Requests /\ Head(todo[q]) \in Requests
    BY <2>1, NextInList DEF Shapes, Shape, DeletePcs, Rows, TypeOK
  <2> PICK w \in Requests, i \in Requests : found[q].by = w /\ Head(todo[q]) = i
    BY <2>2
  <2>3. /\ Upload(w, i) /\ pc[w] = "done" /\ store[w] = found[q].store
        /\ found[q].kind = arg[w].kind /\ found[q].ref \in ReferencesOf(w)
    BY <2>1 DEF FoundTrue
  <2>4. Upload(w, i)' /\ pc'[w] = "done" /\ arg'[w] = arg[w] /\ store'[w] = store[w]
    BY <2>3, UploadStays
  <2> QED BY <2>1, <2>3, <2>4 DEF FoundTrue, ReferencesOf
<1> QED BY <1>1, <1>2

Settled == {"uploader", "findMemo", "insert", "done"}

\* Another upload has reached its storage under the id of q.
Crossed(q) ==
  \E w \in Requests \ {q} :
    arg[w].kind = "post" /\ arg[w].id = arg[q].id /\ store[w] # None

Content(q) ==
  arg[q].kind = "post" /\ pc[q] \in Settled /\ store[q] # "DB" =>
    \/ Removed(arg[q].id)
    \/ object[<<store[q], arg[q].id>>] = q
    \/ object[<<store[q], arg[q].id>>] # None /\ Crossed(q)

\* Which objects a step writes.
LEMMA ObjectsWritten ==
  ASSUME TypeOK, Shapes, NEW r \in Requests, RequestStep(r),
         NEW s \in Backends, NEW i \in Requests
  PROVE  /\ unlinked \subseteq unlinked'
         /\ \/ object'[<<s, i>>] = object[<<s, i>>]
            \/ /\ PutObject(r) /\ object'[<<s, i>>] = r
               /\ arg[r].kind = "post" /\ arg[r].id = i
               /\ store[r] = s /\ s # "DB"
            \/ /\ DeleteObject(r) /\ object'[<<s, i>>] = None
               /\ \E f \in Forms : found[r].ref = <<f, i>>
               /\ <<Head(todo[r]), i>> \in unlinked'
<1>0. Shape(r)
  BY DEF Shapes
<1>1. CASE UNCHANGED <<object, unlinked>>
  BY <1>1
<1>2. CASE PutObject(r)
  <2>1. arg[r].kind = "post" /\ unlinked' = unlinked
    BY <1>0, <1>2 DEF PutObject, Shape, history
  <2>2. CASE store[r] = "DB"
    BY <1>2, <2>1, <2>2 DEF PutObject
  <2>3. CASE store[r] # "DB"
    <3>1. object' = [object EXCEPT ![<<store[r], arg[r].id>>] = r]
      BY <1>2, <2>3 DEF PutObject
    <3>2. <<s, i>> \in Places
      BY DEF Places
    <3>3. CASE <<store[r], arg[r].id>> = <<s, i>>
      BY <1>2, <2>1, <2>3, <3>1, <3>2, <3>3 DEF TypeOK
    <3>4. CASE <<store[r], arg[r].id>> # <<s, i>>
      BY <2>1, <3>1, <3>2, <3>4 DEF TypeOK
    <3> QED BY <3>3, <3>4
  <2> QED BY <2>2, <2>3
<1>3. CASE DeleteObject(r)
  <2> DEFINE ref == found[r].ref
             hit == /\ ref # None /\ Deletes(store[r], ref[1])
                    /\ object[<<store[r], ref[2]>>] # None
  <2>0. ref \in References \cup {None}
    BY <1>0, <1>3 DEF DeleteObject, Shape, Rows
  <2>1. CASE hit
    <3>1. /\ object' = [object EXCEPT ![<<store[r], ref[2]>>] = None]
          /\ unlinked' = unlinked \cup {<<Head(todo[r]), ref[2]>>}
      BY <1>3, <2>1 DEF DeleteObject
    <3>2. <<s, i>> \in Places
      BY DEF Places
    <3>3. CASE <<store[r], ref[2]>> = <<s, i>>
      <4>1. object'[<<s, i>>] = None
        BY <3>1, <3>2, <3>3 DEF TypeOK
      <4>2. \E f \in Forms : ref = <<f, i>>
        BY <2>0, <2>1, <3>3 DEF References
      <4> QED BY <1>3, <3>1, <3>3, <4>1, <4>2
    <3>4. CASE <<store[r], ref[2]>> # <<s, i>>
      BY <3>1, <3>2, <3>4 DEF TypeOK
    <3> QED BY <3>3, <3>4
  <2>2. CASE ~ hit
    BY <1>3, <2>2 DEF DeleteObject
  <2> QED BY <2>1, <2>2
<1>4. CASE Start(r)
  BY <1>1, <1>4, StartOpens DEF Begin, history
<1> QED BY <1>1, <1>2, <1>3, <1>4
        DEF RequestStep, Post, PickStorage, FindUploader, FindMemo, InsertAttachment,
            Delete, FindDeleted, PickDeleted, DeleteAttachment,
            Relink, FindPatchedMemo, PatchRow, FindLinkedMemo, ClearLinks, SetLink, Crash,
            locals, history

\* What has been removed once stays removed.
LEMMA RemovedStays ==
  ASSUME TypeOK, Shapes, NEW r \in Requests, RequestStep(r), NEW i \in Requests, Removed(i)
  PROVE  Removed(i)'
<1>1. \A s \in Backends : unlinked \subseteq unlinked'
  BY ObjectsWritten
<1>2. unlinked \subseteq unlinked'
  BY <1>1, AttachmentsAssumption
<1>3. CASE <<i, i>> \in unlinked
  BY <1>2, <1>3 DEF Removed
<1>4. ASSUME NEW q \in Requests, arg[q].kind = "external", <<arg[q].id, i>> \in unlinked,
             \E f \in Forms : arg[q].ref = <<f, i>>
      PROVE  Removed(i)'
  <2>1. pc[q] # "idle"
    BY <1>4 DEF Shapes, Shape
  <2>2. arg'[q] = arg[q]
    BY <2>1, StepFrame, StartPc DEF Frame, TypeOK
  <2> QED BY <1>2, <1>4, <2>2 DEF Removed
<1> QED BY <1>3, <1>4 DEF Removed

\* Only a delete of the row itself, or of an external link to it, removes an object.
LEMMA RemovedBy ==
  ASSUME TypeOK, Shapes, NEW r \in Requests, RequestStep(r), DeleteObject(r), FoundTrue(r),
         NEW i \in Requests, <<Head(todo[r]), i>> \in unlinked',
         \E f \in Forms : found[r].ref = <<f, i>>
  PROVE  Removed(i)'
<1>1. found[r].by \in Requests
  BY DEF DeleteObject, Shapes, Shape, Rows
<1> PICK w \in Requests : found[r].by = w
  BY <1>1
<1>2. /\ Upload(w, Head(todo[r])) /\ found[r].ref \in ReferencesOf(w)
  BY DEF FoundTrue, DeleteObject
<1>3. arg' = arg
  BY DEF DeleteObject
<1>4. CASE arg[w].kind = "external"
  <2>1. arg[w].ref = found[r].ref /\ arg[w].id = Head(todo[r])
    BY <1>2, <1>4 DEF ReferencesOf, Upload
  <2> QED BY <1>3, <1>4, <2>1 DEF Removed
<1>5. CASE arg[w].kind # "external"
  <2>1. /\ found[r].ref \in Returned(store[w], arg[w].id) /\ arg[w].id = Head(todo[r])
    BY <1>2, <1>5 DEF ReferencesOf, Upload
  <2>2. PICK f \in Forms : found[r].ref = <<f, i>>
    OBVIOUS
  <2>3. found[r].ref # None
    BY <2>2, AttachmentsAssumption DEF References
  <2>4. i = Head(todo[r])
    BY <2>1, <2>2, <2>3 DEF Returned
  <2> QED BY <2>4 DEF Removed
<1> QED BY <1>4, <1>5

\* How a request comes to have put its object.
LEMMA HowSettled ==
  ASSUME TypeOK, Shapes, NEW r \in Requests, RequestStep(r), NEW q \in Requests,
         arg'[q].kind = "post", pc'[q] \in Settled
  PROVE  /\ Upload(q, arg[q].id) /\ arg'[q] = arg[q] /\ store'[q] = store[q]
         /\ arg[q].id \in Requests /\ store[q] \in Backends
         /\ pc[q] \in Settled \/ (q = r /\ PutObject(r))
<1>0. Shape(q)
  BY DEF Shapes
<1>1. CASE q # r
  <2>1. pc'[q] = pc[q] /\ arg'[q] = arg[q] /\ store'[q] = store[q]
    BY <1>1, StepFrame DEF Frame, TypeOK
  <2> QED BY <1>0, <2>1, AttachmentsAssumption DEF Shape, PostPcs, Settled, Upload, Uploads
<1>2. CASE q = r /\ Start(r)
  <2>1. PICK a, to : Opens(a, to) /\ Begin(r, a, to)
    BY <1>2, StartOpens
  <2>2. arg'[r] = a /\ pc'[r] = to
    BY <2>1 DEF Begin, Go, TypeOK
  <2> QED BY <1>2, <2>1, <2>2 DEF Opens, Settled, Uploads
<1>3. CASE q = r /\ ~ Start(r)
  <2>1. arg' = arg /\ arg[r].kind = "post" /\ pc[r] \in PostPcs
    BY <1>0, <1>3, StepFrame DEF Shape, Uploads
  <2>2. CASE PickStorage(r)
    BY <1>3, <2>1, <2>2 DEF PickStorage, Settled, Go, TypeOK
  <2>3. CASE PutObject(r)
    BY <1>0, <1>3, <2>1, <2>3, AttachmentsAssumption
       DEF PutObject, Shape, PostPcs, Upload, Uploads, locals
  <2>4. CASE FindUploader(r) \/ FindMemo(r) \/ InsertAttachment(r)
    BY <1>0, <1>3, <2>1, <2>4, AttachmentsAssumption
       DEF FindUploader, FindMemo, InsertAttachment, Shape, PostPcs, Upload, Uploads, locals,
           Settled
  <2>5. CASE Crash(r)
    BY <1>3, <2>5 DEF Crash, Settled, Go, TypeOK
  <2> QED BY <1>3, <2>1, <2>2, <2>3, <2>4, <2>5
          DEF RequestStep, Post, PostPcs, Delete, FindDeleted, PickDeleted, DeleteObject,
              DeleteAttachment, Relink, FindPatchedMemo, PatchRow, FindLinkedMemo,
              ClearLinks, SetLink
<1> QED BY <1>1, <1>2, <1>3

LEMMA ContentKept ==
  ASSUME TypeOK, Shapes, \A q \in Requests : Content(q), \A q \in Requests : FoundTrue(q),
         NEW r \in Requests, RequestStep(r)
  PROVE  \A q \in Requests : Content(q)'
<1> SUFFICES ASSUME NEW q \in Requests,
                    arg'[q].kind = "post", pc'[q] \in Settled, store'[q] # "DB"
             PROVE  \/ Removed(arg[q].id)'
                    \/ object'[<<store'[q], arg'[q].id>>] = q
                    \/ object'[<<store'[q], arg'[q].id>>] # None /\ Crossed(q)'
  BY DEF Content
<1> DEFINE i == arg[q].id
           s == store[q]
<1>1. /\ arg'[q] = arg[q] /\ store'[q] = s /\ i \in Requests /\ s \in Backends
      /\ arg[q].kind = "post" /\ s # "DB"
      /\ pc[q] \in Settled \/ (q = r /\ PutObject(r))
  BY HowSettled
<1>2. CASE object'[<<s, i>>] = object[<<s, i>>]
  <2>1. CASE pc[q] \in Settled
    <3>1. Removed(i) \/ object[<<s, i>>] = q \/ (object[<<s, i>>] # None /\ Crossed(q))
      BY <1>1, <2>1 DEF Content
    <3>2. Removed(i) => Removed(i)'
      BY <1>1, RemovedStays
    <3>3. Crossed(q) => Crossed(q)'
      <4> SUFFICES ASSUME NEW w \in Requests \ {q},
                          arg[w].kind = "post", arg[w].id = i, store[w] # None
                   PROVE  Crossed(q)'
        BY DEF Crossed
      <4>1. Upload(w, i)
        BY DEF Upload, Uploads
      <4>2. Upload(w, i)' /\ arg'[w] = arg[w]
        BY <1>1, <4>1, UploadStays
      <4> QED BY <1>1, <4>2 DEF Crossed, Upload
    <3> QED BY <1>1, <1>2, <3>1, <3>2, <3>3
  <2>2. CASE q = r /\ PutObject(r)
    <3>1. object' = [object EXCEPT ![<<s, i>>] = q]
      BY <1>1, <2>2 DEF PutObject
    <3>2. <<s, i>> \in Places
      BY <1>1 DEF Places
    <3>3. object'[<<s, i>>] = q
      BY <3>1, <3>2 DEF TypeOK
    <3> QED BY <1>1, <3>3
  <2> QED BY <1>1, <2>1, <2>2
<1>3. CASE object'[<<s, i>>] # object[<<s, i>>]
  <2>1. CASE PutObject(r)
    <3>0. ~ DeleteObject(r)
      BY <2>1 DEF PutObject, DeleteObject
    <3>1. /\ object'[<<s, i>>] = r /\ arg[r].kind = "post" /\ arg[r].id = i /\ store[r] = s
      BY <1>1, <1>3, <3>0, ObjectsWritten
    <3>2. CASE r = q
      BY <1>1, <3>1, <3>2
    <3>3. CASE r # q
      <4>1. Upload(r, i)
        BY <1>1, <3>1, AttachmentsAssumption DEF Upload, Uploads
      <4>2. Upload(r, i)' /\ arg'[r] = arg[r]
        BY <1>1, <4>1, UploadStays
      <4>3. Crossed(q)'
        BY <1>1, <3>1, <3>3, <4>2 DEF Crossed, Upload
      <4> QED BY <1>1, <3>1, <4>3, AttachmentsAssumption
    <3> QED BY <3>2, <3>3
  <2>2. CASE ~ PutObject(r)
    <3>1. Removed(i)'
      BY <1>1, <1>3, <2>2, ObjectsWritten, RemovedBy
    <3> QED BY <1>1, <3>1
  <2> QED BY <2>1, <2>2
<1> QED BY <1>2, <1>3

CInv ==
  /\ TypeOK /\ Shapes
  /\ \A i \in Requests : RowTrue(i)
  /\ \A q \in Requests : Content(q) /\ FoundTrue(q)

LEMMA InitCInv == Init => CInv
<1> SUFFICES ASSUME Init PROVE CInv
  OBVIOUS
<1>1. TypeOK /\ Shapes
  BY InitShapes
<1> QED BY <1>1 DEF Init, CInv, RowTrue, Exists, Content, Settled, FoundTrue

LEMMA NextCInv == CInv /\ [Next]_vars => CInv'
<1> SUFFICES ASSUME CInv, [Next]_vars PROVE CInv'
  OBVIOUS
<1>0. TypeOK' /\ Shapes'
  BY NextShapes DEF CInv
<1>1. ASSUME NEW r \in Requests, RequestStep(r) PROVE CInv'
  BY <1>0, <1>1, RowsStayTrue, ContentKept, FoundStaysTrue DEF CInv
<1>2. CASE World \/ UNCHANGED vars
  <2>1. UNCHANGED <<file, object, pc, arg, store, found, todo, unlinked>>
    BY <1>2 DEF World, SetStorage, Parsed, DeleteMemo, vars, locals, history
  <2>2. \A i \in Requests : RowTrue(i)'
    BY <2>1 DEF CInv, RowTrue, Exists, Upload, ReferencesOf
  <2>3. \A q \in Requests : Content(q)'
    BY <2>1 DEF CInv, Content, Crossed, Removed
  <2>4. \A q \in Requests : FoundTrue(q)'
    BY <2>1 DEF CInv, FoundTrue, Upload, ReferencesOf
  <2> QED BY <1>0, <2>2, <2>3, <2>4 DEF CInv
<1> QED BY <1>1, <1>2 DEF Next

LEMMA AlwaysCInv == Spec => []CInv
BY InitCInv, NextCInv, PTL DEF Spec

\* While the setting names the storage of a row, GET /file serves the content
\* of the POST that made it, unless a client has uploaded another content under
\* the same attachmentId, or a delete of this attachment, or of an external link
\* that names its object, has removed it: no other row's delete reaches it.
THEOREM ContentIsServed == Spec => []FileServed
<1>1. CInv => FileServed
  <2> SUFFICES ASSUME CInv, NEW i \in Requests, Exists(i), file[i].kind = "post",
                      setting = file[i].store, setting \in Usable, ~ Removed(i)
               PROVE  Served(i) = file[i].by \/ (Reposted(i) /\ Served(i) # None)
    BY DEF FileServed
  <2> DEFINE q == file[i].by
  <2>1. file[i] \in Rows /\ q \in Requests /\ q # None
    BY AttachmentsAssumption DEF CInv, Exists, Rows, TypeOK
  <2>2. CASE setting = "DB"
    BY <2>1, <2>2 DEF Served
  <2>3. CASE setting # "DB"
    <3>1. /\ arg[q].kind = "post" /\ arg[q].id = i /\ pc[q] = "done"
          /\ store[q] = setting
      BY <2>1 DEF CInv, RowTrue, Upload
    <3>2. Served(i) = object[<<setting, i>>]
      BY <2>3 DEF Served, Reads
    <3>3. Served(i) = q \/ (Served(i) # None /\ Crossed(q))
      BY <2>1, <2>3, <3>1, <3>2 DEF CInv, Content, Settled
    <3>4. Crossed(q) => Reposted(i)
      BY <3>1 DEF Crossed, Reposted
    <3> QED BY <3>3, <3>4
  <2> QED BY <2>2, <2>3
<1> QED BY <1>1, AlwaysCInv, PTL

-----------------------------------------------------------------------------
(* Objects without rows.                                                   *)

\* Until the setting changes, all requests resolve the same storage.
OneStorage == switched \/ \A q \in Requests : store[q] \in {None, setting}

\* An object is that of an upload which named this place.
Held(s, i) ==
  object[<<s, i>>] # None =>
    /\ Upload(object[<<s, i>>], i) /\ store[object[<<s, i>>]] = s /\ s # "DB"
    /\ arg[object[<<s, i>>]].kind = "post"
    /\ pc[object[<<s, i>>]] \in Settled \cup {"rejected"}

\* The upload is done only when its row is there.
Owned(s, i) ==
  object[<<s, i>>] # None /\ pc[object[<<s, i>>]] = "done" =>
    \/ switched \/ Reused(i)
    \/ Exists(i) /\ file[i].by = object[<<s, i>>]

\* Before the row goes, its object is gone.
Emptied(r) ==
  pc[r] = "delRow" =>
    \/ switched \/ Reused(Head(todo[r]))
    \/ \A s \in Backends : object[<<s, Head(todo[r])>>] = None

OInv ==
  /\ CInv
  /\ OneStorage
  /\ \A s \in Backends, i \in Requests : Held(s, i) /\ Owned(s, i)
  /\ \A r \in Requests : Emptied(r)

LEMMA InitOInv == Init => OInv
<1> SUFFICES ASSUME Init PROVE OInv
  OBVIOUS
<1>1. CInv
  BY InitCInv
<1>2. ASSUME NEW s \in Backends, NEW i \in Requests PROVE object[<<s, i>>] = None
  BY DEF Init, Places
<1>3. OneStorage
  BY DEF Init, OneStorage
<1>4. \A r \in Requests : Emptied(r)
  BY DEF Init, Emptied
<1> QED BY <1>1, <1>2, <1>3, <1>4 DEF OInv, Held, Owned

LEMMA TwoUploads ==
  ASSUME NEW i \in Requests, NEW q \in Requests, NEW w \in Requests \ {q},
         Upload(q, i), Upload(w, i)
  PROVE  Reused(i)
BY DEF Upload, Reused

LEMMA ReusedStays ==
  ASSUME TypeOK, Shapes, NEW r \in Requests, RequestStep(r), NEW i \in Requests, Reused(i)
  PROVE  Reused(i)'
<1>1. PICK q \in Requests : \E w \in Requests \ {q} : Upload(q, i) /\ Upload(w, i)
  BY DEF Reused, Upload
<1>2. PICK w \in Requests \ {q} : Upload(q, i) /\ Upload(w, i)
  BY <1>1
<1>3. Upload(q, i)' /\ Upload(w, i)'
  BY <1>2, UploadStays
<1> QED BY <1>3 DEF Reused, Upload

LEMMA OneStorageStays ==
  ASSUME TypeOK, OneStorage, NEW r \in Requests, RequestStep(r)
  PROVE  OneStorage'
<1>1. UNCHANGED <<setting, switched>>
  BY StepFrame
<1>2. store' = store \/ store' = [store EXCEPT ![r] = setting]
  <2>1. CASE Start(r)
    BY <2>1, StartOpens DEF Begin
  <2> QED BY <2>1 DEF RequestStep, Post, PickStorage, PutObject, FindUploader, FindMemo,
         InsertAttachment, Delete, FindDeleted, PickDeleted, DeleteObject, DeleteAttachment,
         Relink, FindPatchedMemo, PatchRow, FindLinkedMemo, ClearLinks, SetLink, Crash, locals
<1> QED BY <1>1, <1>2 DEF OneStorage, TypeOK

\* Where an upload whose object is in place goes from there.
LEMMA SettledStays ==
  ASSUME TypeOK, Shapes, NEW r \in Requests, RequestStep(r), NEW q \in Requests,
         pc[q] \in Settled \cup {"rejected"}, arg[q].kind \in Uploads
  PROVE  /\ pc'[q] \in Settled \cup {"rejected"}
         /\ pc'[q] = "done" => pc[q] = "done" \/ (q = r /\ InsertAttachment(r) /\ ~ Exists(arg[r].id))
<1>1. CASE q # r
  BY <1>1, StepFrame DEF Frame, TypeOK
<1>2. CASE q = r
  <2>1. ~ Start(r) /\ pc[r] \in {"uploader", "findMemo", "insert"}
    BY <1>2, StepFrame, StartOpens DEF Begin, Settled
  <2> QED BY <1>2, <2>1
     DEF RequestStep, Post, PickStorage, PutObject, FindUploader, FindMemo, InsertAttachment,
         Delete, FindDeleted, PickDeleted, DeleteObject, DeleteAttachment,
         Relink, FindPatchedMemo, PatchRow, FindLinkedMemo, ClearLinks, SetLink, Crash,
         Settled, Go, TypeOK
<1> QED BY <1>1, <1>2

LEMMA HeldStays ==
  ASSUME OInv, NEW r \in Requests, RequestStep(r), NEW s \in Backends, NEW i \in Requests
  PROVE  Held(s, i)'
<1> USE DEF OInv, CInv
<1> SUFFICES ASSUME object'[<<s, i>>] # None PROVE Held(s, i)'
  BY DEF Held
<1>0. object'[<<s, i>>] \in Requests
  <2>1. <<s, i>> \in Places
    BY DEF Places
  <2>2. object[<<s, i>>] \in Requests \cup {None}
    BY <2>1 DEF TypeOK
  <2>3. object'[<<s, i>>] \in {object[<<s, i>>], r, None}
    BY ObjectsWritten
  <2> QED BY <2>2, <2>3
<1> PICK q \in Requests : object'[<<s, i>>] = q
  BY <1>0
<1>1. CASE q = object[<<s, i>>]
  <2>1. /\ Upload(q, i) /\ store[q] = s /\ s # "DB"
        /\ arg[q].kind = "post" /\ pc[q] \in Settled \cup {"rejected"}
    BY <1>1 DEF Held
  <2>3. Upload(q, i)' /\ arg'[q] = arg[q] /\ store'[q] = store[q]
    BY <2>1, UploadStays
  <2>4. pc'[q] \in Settled \cup {"rejected"}
    BY <2>1, SettledStays DEF Uploads
  <2> QED BY <1>1, <2>1, <2>3, <2>4 DEF Held
<1>2. CASE q # object[<<s, i>>]
  <2>1. /\ PutObject(r) /\ q = r /\ arg[r].kind = "post" /\ arg[r].id = i
        /\ store[r] = s /\ s # "DB"
    BY <1>2, ObjectsWritten
  <2>2. Upload(r, i)
    BY <2>1, AttachmentsAssumption DEF Upload, Uploads
  <2>3. Upload(r, i)' /\ arg'[r] = arg[r] /\ store'[r] = store[r]
    BY <2>2, UploadStays
  <2>4. pc'[r] = "uploader"
    BY <2>1 DEF PutObject, Go, TypeOK
  <2> QED BY <2>1, <2>3, <2>4 DEF Held, Settled
<1> QED BY <1>1, <1>2

LEMMA OwnedStays ==
  ASSUME OInv, NEW r \in Requests, RequestStep(r), NEW s \in Backends, NEW i \in Requests
  PROVE  Owned(s, i)'
<1> USE DEF OInv, CInv
<1>0. switched' = switched
  BY StepFrame
<1> SUFFICES ASSUME object'[<<s, i>>] # None, pc'[object'[<<s, i>>]] = "done",
                    ~ switched, ~ Reused(i)
             PROVE  Exists(i)' /\ file'[i].by = object'[<<s, i>>]
  BY <1>0, ReusedStays DEF Owned
<1>1. object'[<<s, i>>] = object[<<s, i>>]
  <2>1. ~ (PutObject(r) /\ object'[<<s, i>>] = r)
    BY DEF PutObject, Go, TypeOK
  <2> QED BY <2>1, ObjectsWritten
<1>2. <<s, i>> \in Places
  BY DEF Places
<1> PICK q \in Requests : object[<<s, i>>] = q
  BY <1>1, <1>2 DEF TypeOK
<1>3. /\ Upload(q, i) /\ store[q] = s /\ arg[q].kind = "post"
      /\ pc[q] \in Settled \cup {"rejected"} /\ pc'[q] = "done"
  BY <1>1 DEF Held
<1>4. CASE pc[q] = "done"
  <2>1. Exists(i) /\ file[i].by = q
    BY <1>1, <1>4 DEF Owned
  <2>2. CASE Exists(i)'
    BY <1>1, <2>1, <2>2, RowsWritten DEF RowKept
  <2>3. CASE ~ Exists(i)'
    <3>1. DeleteAttachment(r) /\ Head(todo[r]) = i
      <4>1. file' # file
        BY <2>1, <2>3 DEF Exists
      <4>2. ~ InsertAttachment(r)
        <5>1. CASE InsertAttachment(r) /\ Exists(arg[r].id)
          BY <4>1, <5>1 DEF InsertAttachment
        <5>2. CASE InsertAttachment(r) /\ ~ Exists(arg[r].id)
          BY <2>1, <2>3, <5>2 DEF InsertAttachment, Exists, TypeOK
        <5> QED BY <5>1, <5>2
      <4>3. ~ PatchRow(r)
        <5>1. PatchRow(r) => arg[r].id \in Requests /\ link[r] \in Memos \cup {None}
          BY DEF PatchRow, Shapes, Shape, TypeOK
        <5> QED BY <2>1, <2>3, <5>1, LinkedKeeps DEF PatchRow
      <4>4. ~ SetLink(r)
        <5>1. SetLink(r) => Head(todo[r]) \in Requests /\ arg[r].memo \in Memos
          BY NextInList DEF SetLink, Shapes, Shape, DeletePcs, LinkPcs, TypeOK
        <5> QED BY <2>1, <2>3, <5>1, LinkedKeeps DEF SetLink
      <4>5. ~ ClearLinks(r)
        <5>1. CASE ClearLinks(r)
          <6>1. file[i] \in Rows /\ file[i] # None
            BY <2>1 DEF Exists, TypeOK
          <6>2. [file[i] EXCEPT !.memo = None] # None
            BY <6>1, AttachmentsAssumption DEF Rows
          <6> QED BY <2>1, <2>3, <5>1, <6>1, <6>2 DEF ClearLinks, Exists
        <5> QED BY <5>1
      <4>6. ~ Start(r)
        BY <4>1, StartOpens DEF Begin
      <4>7. DeleteAttachment(r)
        BY <4>1, <4>2, <4>3, <4>4, <4>5, <4>6
           DEF RequestStep, Post, PickStorage, PutObject, FindUploader, FindMemo,
               Delete, FindDeleted, PickDeleted, DeleteObject,
               Relink, FindPatchedMemo, FindLinkedMemo, Crash
      <4> QED BY <2>1, <2>3, <4>7 DEF DeleteAttachment, Exists, TypeOK
    <3>2. object[<<s, i>>] = None
      BY <3>1 DEF DeleteAttachment, Emptied
    <3> QED BY <1>1, <3>2
  <2> QED BY <2>2, <2>3
<1>5. CASE pc[q] # "done"
  <2>1. q = r /\ InsertAttachment(r) /\ ~ Exists(i)
    BY <1>3, <1>5, SettledStays DEF Upload, Uploads
  <2>2. arg[r].id = i /\ file'[i].by = r /\ file'[i] # None
    <3>1. arg[r].id = i
      BY <1>3, <2>1 DEF Upload
    <3>2. PICK n \in ReferencesOf(r), row \in Rows :
            /\ row = [by |-> r, owner |-> arg[r].who, store |-> store[r],
                      kind |-> arg[r].kind, ref |-> n, memo |-> link[r]]
            /\ file' = [file EXCEPT ![arg[r].id] = row]
      BY <2>1, <3>1, InsertedRow
    <3>3. file'[i] = row /\ row # None
      BY <3>1, <3>2, AttachmentsAssumption DEF TypeOK
    <3> QED BY <3>1, <3>2, <3>3
  <2> QED BY <1>1, <2>1, <2>2 DEF Exists
<1> QED BY <1>4, <1>5

LEMMA StaysEmptied ==
  ASSUME OInv, NEW r \in Requests, RequestStep(r), NEW q \in Requests
  PROVE  Emptied(q)'
<1> USE DEF OInv, CInv
<1>0. switched' = switched
  BY StepFrame
<1> SUFFICES ASSUME pc'[q] = "delRow", ~ switched PROVE Emptied(q)'
  BY <1>0 DEF Emptied
<1>1. /\ todo'[q] = todo[q] /\ found'[q] = found[q]
      /\ pc[q] = "delRow" \/ (pc[q] = "delObject" /\ q = r /\ DeleteObject(r))
  <2>1. CASE q # r
    BY <2>1, StepFrame DEF Frame, TypeOK
  <2>2. CASE q = r /\ Start(r)
    BY <2>2, StartPc
  <2>3. CASE q = r /\ ~ Start(r)
    BY <2>3
       DEF RequestStep, Post, PickStorage, PutObject, FindUploader, FindMemo,
           InsertAttachment, Delete, FindDeleted, PickDeleted, DeleteObject, DeleteAttachment,
           Following, Relink, FindPatchedMemo, PatchRow, FindLinkedMemo, ClearLinks, SetLink,
           Crash, locals, Go, TypeOK
  <2> QED BY <2>1, <2>2, <2>3
<1>2. found[q] \in Rows /\ found[q].by \in Requests /\ Head(todo[q]) \in Requests
  BY <1>1, NextInList DEF Shapes, Shape, DeletePcs, Rows, TypeOK
<1> PICK w \in Requests, i \in Requests : found[q].by = w /\ Head(todo[q]) = i
  BY <1>2
<1>3. /\ Upload(w, i) /\ pc[w] = "done" /\ store[w] = found[q].store
      /\ found[q].kind = arg[w].kind /\ found[q].ref \in ReferencesOf(w)
  BY <1>1 DEF FoundTrue
<1> SUFFICES ASSUME ~ Reused(i), NEW s \in Backends, object'[<<s, i>>] # None PROVE FALSE
  BY <1>1, ReusedStays DEF Emptied
<1>4. <<s, i>> \in Places
  BY DEF Places
<1>5. CASE object'[<<s, i>>] # object[<<s, i>>]
  <2>1. PutObject(r) /\ arg[r].id = i /\ arg[r].kind = "post" /\ store[r] = s
    BY <1>5, ObjectsWritten
  <2>2. Upload(r, i) /\ r # w
    BY <1>3, <2>1, AttachmentsAssumption DEF PutObject, Upload, Uploads
  <2> QED BY <1>3, <2>2, TwoUploads
<1>6. CASE object'[<<s, i>>] = object[<<s, i>>]
  <2>1. object[<<s, i>>] \in Requests
    BY <1>4, <1>6 DEF TypeOK
  <2> PICK v \in Requests : object[<<s, i>>] = v
    BY <2>1
  <2>2. Upload(v, i) /\ store[v] = s /\ s # "DB" /\ arg[v].kind = "post"
    BY <1>6 DEF Held
  <2>3. v = w
    BY <1>3, <2>2, TwoUploads
  <2>4. pc[q] = "delObject" /\ q = r /\ DeleteObject(r)
    BY <1>1, <1>6 DEF Emptied
  <2>5. store[r] = setting /\ s = setting
    <3>1. store[r] # None /\ s # None
      BY <2>4, AttachmentsAssumption DEF Shapes, Shape
    <3> QED BY <2>2, <3>1 DEF OneStorage
  <2>6. found[r].ref \in Returned(s, i)
    BY <1>3, <2>2, <2>3, <2>4, <2>5 DEF ReferencesOf, Upload
  <2>7. PICK f \in Forms : found[r].ref = <<f, i>> /\ Deletes(s, f)
    BY <2>2, <2>6, AttachmentsAssumption DEF Returned, Deletes, Forms
  <2>8. <<f, i>> # None /\ object[<<s, i>>] # None
    BY <1>6, AttachmentsAssumption DEF References
  <2>9. object' = [object EXCEPT ![<<s, i>>] = None]
    BY <2>4, <2>5, <2>7, <2>8 DEF DeleteObject
  <2>10. object'[<<s, i>>] = None
    BY <1>4, <2>9 DEF TypeOK
  <2> QED BY <2>10
<1> QED BY <1>5, <1>6

LEMMA NextOInv == OInv /\ [Next]_vars => OInv'
<1> SUFFICES ASSUME OInv, [Next]_vars PROVE OInv'
  OBVIOUS
<1>0. CInv'
  BY NextCInv DEF OInv
<1>1. ASSUME NEW r \in Requests, RequestStep(r) PROVE OInv'
  <2>1. OneStorage'
    BY <1>1, OneStorageStays DEF OInv, CInv
  <2> QED BY <1>0, <1>1, <2>1, HeldStays, OwnedStays, StaysEmptied DEF OInv
<1>2. CASE World \/ UNCHANGED vars
  <2>1. /\ UNCHANGED <<file, object, pc, arg, store, found, todo>>
        /\ switched' \/ (switched' = switched /\ setting' = setting)
    BY <1>2 DEF World, SetStorage, Parsed, DeleteMemo, vars, locals, history
  <2>2. switched => switched'
    BY <1>2 DEF World, SetStorage, Parsed, DeleteMemo, vars, locals, history
  <2>3. \A s \in Backends, i \in Requests : Held(s, i)'
    BY <2>1 DEF OInv, Held, Upload
  <2>4. \A s \in Backends, i \in Requests : Owned(s, i)'
    BY <2>1, <2>2 DEF OInv, Owned, Reused, Exists
  <2>5. \A r \in Requests : Emptied(r)'
    BY <2>1, <2>2 DEF OInv, Emptied, Reused
  <2>6. OneStorage'
    BY <2>1, <2>2 DEF OInv, OneStorage
  <2> QED BY <1>0, <2>3, <2>4, <2>5, <2>6 DEF OInv
<1> QED BY <1>1, <1>2 DEF Next

LEMMA AlwaysOInv == Spec => []OInv
BY InitOInv, NextOInv, PTL DEF Spec

\* As long as the setting stays and no id is uploaded twice, an object without
\* a row is that of an upload under way or failed.
THEOREM NoStorageLeak == Spec => []NoOrphans
<1>1. OInv => NoOrphans
  <2> SUFFICES ASSUME OInv, NEW p \in Places, object[p] # None, ~ switched, ~ Reused(p[2])
               PROVE  \/ Exists(p[2]) /\ file[p[2]].store = p[1] /\ file[p[2]].kind = "post"
                      \/ /\ arg[object[p]].kind = "post" /\ arg[object[p]].id = p[2]
                         /\ store[object[p]] = p[1]
                         /\ pc[object[p]] \in {"uploader", "findMemo", "insert", "rejected"}
    BY DEF NoOrphans
  <2> PICK s \in Backends, i \in Requests : p = <<s, i>>
    BY DEF Places
  <2>1. Held(s, i) /\ Owned(s, i) /\ RowTrue(i)
    BY DEF OInv, CInv
  <2>2. /\ Upload(object[p], i) /\ store[object[p]] = s /\ arg[object[p]].kind = "post"
        /\ pc[object[p]] \in Settled \cup {"rejected"}
    BY <2>1 DEF Held
  <2>3. CASE pc[object[p]] = "done"
    BY <2>1, <2>2, <2>3 DEF Owned, RowTrue
  <2>4. CASE pc[object[p]] # "done"
    BY <2>2, <2>4 DEF Settled, Upload
  <2> QED BY <2>3, <2>4
<1> QED BY <1>1, AlwaysOInv, PTL

-----------------------------------------------------------------------------
(* The attachments of a memo.                                              *)

Left(q) == {todo[q][k] : k \in DOMAIN todo[q]}

\* Only listed attachments have the memo, and only those still to be handled
\* do not have it yet.
Linking(q) ==
  /\ arg[q].kind = "link" /\ arg[q].memo \in Memos
  /\ pc[q] \in {"linkSet", "done", "rejected"}
  /\ \A i \in Requests : Exists(i) /\ file[i].memo = arg[q].memo => i \in Listed(q)
  /\ pc[q] = "linkSet" =>
       /\ Left(q) \subseteq Listed(q)
       /\ \A i \in Listed(q) \ Left(q) : Exists(i) => file[i].memo = arg[q].memo
  /\ pc[q] = "done" =>
       \A i \in Listed(q) : Exists(i) => file[i].memo = arg[q].memo

LInv == TypeOK /\ Shapes /\ \A q \in calm : Linking(q)

LEMMA LeftOver ==
  ASSUME TypeOK, NEW q \in Requests, todo[q] # <<>>
  PROVE  Left(q) = {Head(todo[q])} \cup {Tail(todo[q])[k] : k \in DOMAIN Tail(todo[q])}
<1> DEFINE s == todo[q]
<1>1. s \in Seq(Requests) /\ s # <<>>
  BY DEF TypeOK
<1>2. /\ Len(s) \in Nat /\ Len(s) >= 1 /\ DOMAIN s = 1..Len(s) /\ Head(s) = s[1]
      /\ DOMAIN Tail(s) = 1..(Len(s) - 1)
      /\ \A k \in 1..(Len(s) - 1) : Tail(s)[k] = s[k + 1]
  BY <1>1
<1>3. ASSUME NEW k \in DOMAIN s PROVE s[k] = Head(s) \/ \E j \in DOMAIN Tail(s) : s[k] = Tail(s)[j]
  <2>1. CASE k = 1
    BY <1>2, <2>1
  <2>2. CASE k # 1
    <3>1. k - 1 \in 1..(Len(s) - 1) /\ (k - 1) + 1 = k
      BY <1>2, <2>2
    <3> QED BY <1>2, <3>1
  <2> QED BY <2>1, <2>2
<1>4. ASSUME NEW j \in DOMAIN Tail(s) PROVE \E k \in DOMAIN s : Tail(s)[j] = s[k]
  <2>1. j + 1 \in DOMAIN s
    BY <1>2
  <2> QED BY <1>2, <2>1
<1>5. \E k \in DOMAIN s : Head(s) = s[k]
  BY <1>2
<1> QED BY <1>3, <1>4, <1>5 DEF Left

\* How the link of a row that is there afterwards has come about.
LEMMA LinksWritten ==
  ASSUME TypeOK, Shapes, NEW r \in Requests, RequestStep(r), NEW i \in Requests, Exists(i)'
  PROVE  \/ Exists(i) /\ file'[i].memo = file[i].memo
         \/ /\ ClearLinks(r) /\ Exists(i) /\ file[i].memo = arg[r].memo
            /\ file'[i].memo = None
         \/ Cross(r, i, file'[i].memo)
<1>0. Shape(r)
  BY DEF Shapes
<1>1. CASE file' = file
  BY <1>1 DEF Exists
<1>2. CASE InsertAttachment(r)
  <2>1. arg[r].id \in Requests
    BY <1>0, <1>2 DEF InsertAttachment, Shape, PostPcs
  <2>2. CASE Exists(arg[r].id)
    BY <1>1, <1>2, <2>2 DEF InsertAttachment
  <2>3. CASE ~ Exists(arg[r].id) /\ i = arg[r].id
    <3>1. file'[i].memo = link[r]
      BY <1>0, <1>2, <2>1, <2>3, RowsWritten DEF RowKept
    <3>2. Cross(r, i, link[r])
      BY <1>2, <2>3 DEF InsertAttachment
    <3> QED BY <3>1, <3>2
  <2>4. CASE ~ Exists(arg[r].id) /\ i # arg[r].id
    BY <1>2, <2>1, <2>4 DEF InsertAttachment, Exists, TypeOK
  <2> QED BY <2>2, <2>3, <2>4
<1>3. CASE DeleteAttachment(r)
  BY <1>3 DEF DeleteAttachment, Exists, TypeOK
<1>4. ASSUME NEW j \in Requests, NEW m \in Memos \cup {None},
             file' = Linked(j, m), Cross(r, j, m)
      PROVE  Exists(i) /\ (file'[i].memo = file[i].memo \/ Cross(r, i, file'[i].memo))
  <2>1. CASE ~ Exists(j)
    BY <1>4, <2>1 DEF Linked, Exists
  <2>2. CASE Exists(j) /\ i # j
    <3>1. file'[i] = file[i]
      BY <1>4, <2>2 DEF Linked, TypeOK
    <3> QED BY <3>1 DEF Exists
  <2>3. CASE Exists(j) /\ i = j
    <3>1. file[i] \in Rows
      BY <2>3 DEF Exists, TypeOK
    <3>2. file' = [file EXCEPT ![i].memo = m]
      BY <1>4, <2>3 DEF Linked
    <3>3. file'[i] = [file[i] EXCEPT !.memo = m]
      BY <3>2 DEF TypeOK
    <3>4. file'[i].memo = m
      BY <3>1, <3>3 DEF Rows
    <3> QED BY <1>4, <2>3, <3>4
  <2> QED BY <2>1, <2>2, <2>3
<1>5. CASE PatchRow(r)
  <2>1. arg[r].id \in Requests /\ link[r] \in Memos \cup {None}
    BY <1>0, <1>5 DEF PatchRow, Shape, TypeOK
  <2>2. file' = Linked(arg[r].id, link[r]) /\ Cross(r, arg[r].id, link[r])
    BY <1>5 DEF PatchRow
  <2> QED BY <1>4, <2>1, <2>2
<1>6. CASE SetLink(r)
  <2>1. Head(todo[r]) \in Requests /\ arg[r].memo \in Memos
    BY <1>0, <1>6, NextInList DEF SetLink, Shape, DeletePcs, LinkPcs, TypeOK
  <2>2. file' = Linked(Head(todo[r]), arg[r].memo) /\ Cross(r, Head(todo[r]), arg[r].memo)
    BY <1>6 DEF SetLink
  <2> QED BY <1>4, <2>1, <2>2
<1>7. CASE ClearLinks(r)
  <2>1. CASE Exists(i) /\ file[i].memo = arg[r].memo
    <3>1. file[i] \in Rows /\ file'[i] = [file[i] EXCEPT !.memo = None]
      BY <1>7, <2>1 DEF ClearLinks, Exists, TypeOK
    <3> QED BY <1>7, <2>1, <3>1 DEF Rows
  <2>2. CASE ~ (Exists(i) /\ file[i].memo = arg[r].memo)
    <3>1. file'[i] = file[i]
      BY <1>7, <2>2 DEF ClearLinks
    <3> QED BY <3>1 DEF Exists
  <2> QED BY <2>1, <2>2
<1>8. CASE Start(r)
  BY <1>1, <1>8, StartOpens DEF Begin
<1> QED BY <1>1, <1>2, <1>3, <1>5, <1>6, <1>7, <1>8
        DEF RequestStep, Post, PickStorage, PutObject, FindUploader, FindMemo,
            Delete, FindDeleted, PickDeleted, DeleteObject,
            Relink, FindPatchedMemo, FindLinkedMemo, Crash

\* Who is calm after a step was calm before it, but for the one that clears.
LEMMA CalmWritten ==
  ASSUME TypeOK, NEW r \in Requests, RequestStep(r), NEW q \in calm'
  PROVE  q \in calm \/ (q = r /\ ClearLinks(r))
<1>1. CASE calm' = calm
  BY <1>1
<1>2. CASE Start(r)
  BY <1>1, <1>2, StartOpens DEF Begin, history
<1> QED BY <1>1, <1>2
        DEF RequestStep, Post, PickStorage, PutObject, FindUploader, FindMemo,
            InsertAttachment, Cross, Delete, FindDeleted, PickDeleted, DeleteObject,
            DeleteAttachment, Relink, FindPatchedMemo, PatchRow, FindLinkedMemo, ClearLinks,
            SetLink, Crash, history

\* Another request's step leaves what q has linked, or q is not calm any more.
LEMMA OthersLinking ==
  ASSUME LInv, NEW r \in Requests, RequestStep(r), NEW q \in calm', q # r
  PROVE  Linking(q)'
<1>1. TypeOK /\ Shapes /\ q \in calm /\ q \in Requests /\ Linking(q)
  BY CalmWritten DEF LInv, TypeOK
<1>2. pc'[q] = pc[q] /\ arg'[q] = arg[q] /\ todo'[q] = todo[q]
  BY <1>1, StepFrame DEF Frame, TypeOK
<1>3. Left(q)' = Left(q) /\ Listed(q)' = Listed(q)
  BY <1>2 DEF Left, Listed
<1> DEFINE m == arg[q].memo
<1>4. m \in Memos /\ m # None
  BY <1>1, AttachmentsAssumption DEF Linking
<1>5. ASSUME NEW i \in Requests, Exists(i)'
      PROVE  \/ Exists(i) /\ (file'[i].memo = m <=> file[i].memo = m)
             \/ i \notin Listed(q) /\ file'[i].memo # m
  <2>1. CASE Exists(i) /\ file'[i].memo = file[i].memo
    BY <2>1
  <2>2. CASE /\ ClearLinks(r) /\ Exists(i) /\ file[i].memo = arg[r].memo
             /\ file'[i].memo = None
    <3>1. arg[r].memo # m
      BY <1>1, <2>2 DEF ClearLinks
    <3> QED BY <1>4, <2>2, <3>1
  <2>3. CASE Cross(r, i, file'[i].memo)
    BY <1>1, <2>3 DEF Cross
  <2> QED BY <1>1, <1>5, <2>1, <2>2, <2>3, LinksWritten
<1>6. ASSUME NEW i \in Requests, Exists(i)', file'[i].memo = m PROVE i \in Listed(q)
  BY <1>1, <1>5, <1>6 DEF Linking
<1>7. ASSUME NEW i \in Listed(q), Exists(i)', i \in Requests, Exists(i) => file[i].memo = m
      PROVE  file'[i].memo = m
  BY <1>5, <1>7
<1>8. Listed(q) \subseteq Requests
  BY <1>1 DEF Listed, Args, TypeOK
<1> QED BY <1>1, <1>2, <1>3, <1>6, <1>7, <1>8 DEF Linking

LEMMA OwnLinking ==
  ASSUME LInv, NEW r \in Requests, RequestStep(r), r \in calm'
  PROVE  Linking(r)'
<1>0. TypeOK /\ Shapes /\ Shape(r)
  BY DEF LInv, Shapes
<1>1. Listed(r) \subseteq Requests
  BY <1>0 DEF Listed, Args, TypeOK
<1>2. CASE ClearLinks(r)
  <2>1. /\ arg[r].kind = "link" /\ arg[r].memo \in Memos /\ todo[r] = arg[r].list
        /\ arg[r].memo # None
    BY <1>0, <1>2, AttachmentsAssumption DEF ClearLinks, Shape, LinkPcs
  <2>2. /\ arg' = arg /\ todo' = todo
        /\ pc'[r] = IF todo[r] = <<>> THEN "done" ELSE "linkSet"
    BY <1>0, <1>2 DEF ClearLinks, Go, locals, TypeOK
  <2>3. Left(r) = Listed(r) /\ Left(r)' = Left(r) /\ Listed(r)' = Listed(r)
    BY <2>1, <2>2 DEF Left, Listed
  <2>4. ASSUME NEW i \in Requests, Exists(i)' PROVE file'[i].memo # arg[r].memo
    <3>1. CASE Exists(i) /\ file[i].memo = arg[r].memo
      <4>1. file[i] \in Rows /\ file'[i] = [file[i] EXCEPT !.memo = None]
        BY <1>0, <1>2, <3>1 DEF ClearLinks, Exists, TypeOK
      <4> QED BY <2>1, <4>1 DEF Rows
    <3>2. CASE ~ (Exists(i) /\ file[i].memo = arg[r].memo)
      <4>1. file'[i] = file[i]
        BY <1>2, <3>2 DEF ClearLinks
      <4> QED BY <2>4, <3>2, <4>1 DEF Exists
    <3> QED BY <3>1, <3>2
  <2>5. todo[r] = <<>> => Listed(r) = {}
    BY <2>1 DEF Listed
  <2> QED BY <2>1, <2>2, <2>3, <2>4, <2>5 DEF Linking
<1>3. CASE SetLink(r)
  <2>1. Linking(r)
    BY <1>0, <1>3, CalmWritten DEF LInv, SetLink, ClearLinks
  <2>2. todo[r] \in Seq(Requests) /\ todo[r] # <<>>
    BY <1>0, <1>3 DEF SetLink, Shape, TypeOK
  <2>3. Head(todo[r]) \in Requests
    BY <2>2
  <2> PICK j \in Requests : Head(todo[r]) = j
    BY <2>3
  <2> DEFINE m == arg[r].memo
  <2>4. /\ file' = Linked(j, m) /\ arg' = arg /\ todo'[r] = Tail(todo[r])
        /\ pc'[r] = IF Tail(todo[r]) = <<>> THEN "done" ELSE "linkSet"
        /\ pc[r] = "linkSet"
    BY <1>0, <1>3 DEF SetLink, Following, Go, TypeOK
  <2>5. Left(r)' = {Tail(todo[r])[k] : k \in DOMAIN Tail(todo[r])} /\ Listed(r)' = Listed(r)
    BY <2>4 DEF Left, Listed
  <2>6. Left(r) = {j} \cup Left(r)'
    BY <1>0, <2>2, <2>5, LeftOver
  <2>7. Tail(todo[r]) = <<>> => Left(r)' = {}
    BY <2>5
  <2>8. ASSUME NEW i \in Requests, Exists(i)'
        PROVE  Exists(i) /\ IF i = j THEN file'[i].memo = m ELSE file'[i].memo = file[i].memo
    <3>1. CASE ~ Exists(j)
      BY <2>4, <2>8, <3>1 DEF Linked, Exists
    <3>2. CASE Exists(j) /\ i # j
      <4>1. file'[i] = file[i]
        BY <1>0, <2>4, <3>2 DEF Linked, TypeOK
      <4> QED BY <2>8, <3>2, <4>1 DEF Exists
    <3>3. CASE Exists(j) /\ i = j
      <4>1. file[i] \in Rows
        BY <1>0, <3>3 DEF Exists, TypeOK
      <4>2. file' = [file EXCEPT ![i].memo = m]
        BY <2>4, <3>3 DEF Linked
      <4>3. file'[i] = [file[i] EXCEPT !.memo = m]
        BY <1>0, <4>2 DEF TypeOK
      <4> QED BY <3>3, <4>1, <4>3 DEF Rows
    <3> QED BY <3>1, <3>2, <3>3
  <2>9. /\ arg[r].kind = "link" /\ m \in Memos
        /\ \A i \in Requests : Exists(i) /\ file[i].memo = m => i \in Listed(r)
        /\ Left(r) \subseteq Listed(r)
        /\ \A i \in Listed(r) \ Left(r) : Exists(i) => file[i].memo = m
    BY <2>1, <2>4 DEF Linking
  <2>10. \A i \in Requests : Exists(i)' /\ file'[i].memo = m => i \in Listed(r)
    BY <2>6, <2>8, <2>9
  <2>11. \A i \in Listed(r) \ Left(r)' : Exists(i)' => file'[i].memo = m
    BY <1>1, <2>6, <2>8, <2>9
  <2> QED BY <2>4, <2>5, <2>6, <2>7, <2>9, <2>10, <2>11 DEF Linking
<1>4. CASE ~ ClearLinks(r) /\ ~ SetLink(r)
  <2>1. Linking(r)
    BY <1>0, <1>4, CalmWritten DEF LInv
  <2>2. Crash(r)
    BY <1>0, <1>4, <2>1, StartPc
       DEF Linking, RequestStep, Post, PickStorage, PutObject, FindUploader, FindMemo,
           InsertAttachment, Delete, FindDeleted, PickDeleted, DeleteObject, DeleteAttachment,
           Relink, FindPatchedMemo, PatchRow, FindLinkedMemo
  <2>3. UNCHANGED <<file, arg>> /\ pc'[r] = "rejected"
    BY <1>0, <2>2 DEF Crash, Go, TypeOK
  <2> QED BY <2>1, <2>3 DEF Linking, Listed, Exists
<1> QED BY <1>2, <1>3, <1>4

LEMMA NextLInv == LInv /\ [Next]_vars => LInv'
<1> SUFFICES ASSUME LInv, [Next]_vars PROVE LInv'
  OBVIOUS
<1>0. TypeOK' /\ Shapes'
  BY NextShapes DEF LInv
<1>1. ASSUME NEW r \in Requests, RequestStep(r) PROVE LInv'
  BY <1>0, <1>1, OthersLinking, OwnLinking DEF LInv
<1>2. CASE World \/ UNCHANGED vars
  <2>1. UNCHANGED <<file, pc, arg, todo, calm>>
    BY <1>2 DEF World, SetStorage, Parsed, DeleteMemo, vars, locals, history
  <2> QED BY <1>0, <2>1 DEF LInv, Linking, Listed, Left, Exists
<1> QED BY <1>1, <1>2 DEF Next

LEMMA AlwaysLInv == Spec => []LInv
<1>1. Init => LInv
  BY InitShapes DEF Init, LInv
<1> QED BY <1>1, NextLInv, PTL DEF Spec

\* A list of attachments that was set without a crossing request for the same
\* memo or attachment is what the memo has.
THEOREM ListsAreSet == Spec => []LinksAsAsked
<1>1. LInv => LinksAsAsked
  <2> SUFFICES ASSUME LInv, NEW r \in calm, pc[r] = "done", NEW i \in Requests, Exists(i)
               PROVE  file[i].memo = arg[r].memo <=> i \in Listed(r)
    BY DEF LinksAsAsked
  <2>1. Linking(r)
    BY DEF LInv
  <2> QED BY <2>1 DEF Linking
<1> QED BY <1>1, AlwaysLInv, PTL

===============================================================================
