------------------------------ MODULE Attachments ------------------------------
(***************************************************************************)
(* Attachments: a row of the database, and for every storage but DB an     *)
(* object beside it.  No transaction spans the two.  An upload puts the    *)
(* object and then inserts the row, a delete removes the object and then   *)
(* the row, and both ask the instance setting of the moment which storage  *)
(* that is.  A memo is linked to its attachments by clearing the column    *)
(* memo_id wherever it names the memo and setting it row by row.           *)
(*                                                                         *)
(* A request is a process, an action is one SQL statement or one storage   *)
(* operation with the computation up to the next one.  The uuid a POST     *)
(* makes is the request itself; a client may repeat the attachmentId of an *)
(* earlier POST (and then repeats the file name the key is made of).       *)
(***************************************************************************)
EXTENDS Sequences, FiniteSets

CONSTANTS Users,
          Admins,    \* the users whose access token says ADMIN
          Memos,     \* memos that exist before the behaviour starts
          Requests,  \* HTTP requests, each served at most once
          Sent,      \* the kinds of request the clients send
          Backends,  \* the storage types an administrator may set
          Usable,    \* those this runtime can resolve, the others throw
          Default,   \* defaultAttachmentStorageType of the runtime
          Lists,     \* the lists of attachments they send
          Links,     \* what the external links they send name
          None

\* "external" is a POST of an externalLink: a row without content, whose
\* reference is the link as the client wrote it.
Uploads == {"post", "external"}
Kinds == Uploads \cup {"unused", "delete", "batch", "patch", "link"}

\* A reference is a path below LOCAL's directory, a key, or an S3 URL of a key,
\* with the id it contains.  None refers to no object.
Forms == {"path", "key", "url"}
References == Forms \X Requests

Rows == [by    : Requests,         \* the POST whose content was stored
         owner : Users,
         store : Backends,         \* storage_type
         kind  : Uploads,
         ref   : References \cup {None},
         memo  : Memos \cup {None}]

\* An object is named by storage and by the id that its key contains.
Places == Backends \X Requests

ASSUME AttachmentsAssumption ==
  /\ Admins \subseteq Users
  /\ Sent \subseteq Kinds
  /\ Backends \subseteq {"DB", "LOCAL", "R2", "S3"}
  /\ Usable \subseteq Backends
  /\ Default \in Backends
  /\ Lists \subseteq Seq(Requests)
  /\ Links \subseteq References \cup {None}
  /\ None \notin Users \cup Memos \cup Requests \cup Rows \cup Backends \cup References

VARIABLES setting,   \* storageType of the STORAGE setting
          file,      \* table attachment, by id
          object,    \* what the storages hold: the POST that put the content
          memo,      \* the memos whose row exists
          pc, arg,   \* where each request is, and what it was asked
          store,     \* the storage the request resolved
          found,     \* the row it read
          link,      \* the memo it found for memo_id
          todo,      \* the attachments it has still to handle
          unlinked,  \* history: <<d, i>>, a delete of d removed an object of i
          switched,  \* history: the setting was changed
          calm       \* history: link requests that no other has crossed

locals == <<store, found, link, todo>>
history == <<unlinked, switched, calm>>
vars == <<setting, file, object, memo, pc, arg, locals, history>>

Pcs == {"idle", "pick", "put", "uploader", "findMemo", "insert",
        "find", "delPick", "delObject", "delRow",
        "patchMemo", "patchRow", "linkMemo", "linkClear", "linkSet",
        "done", "rejected"}

Args == [kind : Kinds,
         who  : Users \cup {None},
         id   : Requests \cup {None},   \* the attachment named or made
         memo : Memos \cup {None},      \* the memo named
         ref  : References \cup {None}, \* what the external link names
         list : Seq(Requests)]          \* the attachments listed

NoArg == [kind |-> "unused", who |-> None, id |-> None, memo |-> None, ref |-> None,
          list |-> <<>>]

TypeOK ==
  /\ setting \in Backends
  /\ file \in [Requests -> Rows \cup {None}]
  /\ object \in [Places -> Requests \cup {None}]
  /\ memo \subseteq Memos
  /\ pc \in [Requests -> Pcs]
  /\ arg \in [Requests -> Args]
  /\ store \in [Requests -> Backends \cup {None}]
  /\ found \in [Requests -> Rows \cup {None}]
  /\ link \in [Requests -> Memos \cup {None}]
  /\ todo \in [Requests -> Seq(Requests)]
  /\ unlinked \subseteq Requests \X Requests
  /\ switched \in BOOLEAN
  /\ calm \subseteq Requests

-----------------------------------------------------------------------------
Exists(i) == file[i] # None

MayEdit(i, u) == file[i].owner = u \/ u \in Admins

\* Mutant: S3 is given the URL itself for a key.
DeletesRaw(s, f) == <<s, f>> \in {<<"LOCAL", "path">>, <<"R2", "key">>, <<"S3", "key">>}

\* Whether delete(reference) under storage s removes the object that a reference
\* of form f names.  R2 and S3 build the same key, and only S3 turns a URL back
\* into it; DB removes nothing.
Deletes(s, f) == \/ s = "LOCAL" /\ f = "path"
                 \/ s = "R2" /\ f = "key"
                 \/ s = "S3" /\ f \in {"key", "url"}

\* The references put may return: S3's is the key when the URL cannot be signed.
Returned(s, i) == CASE s = "LOCAL" -> {<<"path", i>>}
                    [] s = "R2" -> {<<"key", i>>}
                    [] s = "S3" -> {<<"url", i>>, <<"key", i>>}
                    [] OTHER -> {None}

\* GET /file reads with the key kept in the payload instead.
Reads(s, t) == s # "DB" /\ (s = t \/ {s, t} = {"R2", "S3"})

\* What GET /file/attachments/{i} answers: the blob, or the object that the
\* storage of the moment has under the row's key.
Served(i) ==
  IF setting \notin Usable THEN None
  ELSE IF file[i].store = "DB" THEN file[i].by
  ELSE IF Reads(setting, file[i].store) THEN object[<<setting, i>>] ELSE None

Listed(q) == {arg[q].list[k] : k \in DOMAIN arg[q].list}

Go(r, to) == pc' = [pc EXCEPT ![r] = to]

Begin(r, a, to) ==
  /\ pc[r] = "idle" /\ a.kind \in Sent
  /\ arg' = [arg EXCEPT ![r] = a]
  /\ Go(r, to)
  /\ todo' = [todo EXCEPT ![r] = a.list]
  /\ UNCHANGED <<setting, file, object, memo, store, found, link, history>>

\* The row of i has been linked to m (or to none): the link requests that
\* listed i, or that set the attachments of m, are crossed.
Cross(r, i, m) ==
  calm' = {q \in calm : q = r \/ (i \notin Listed(q) /\ (arg[q].memo # m))}

Init ==
  /\ setting \in Backends
  /\ file = [i \in Requests |-> None]
  /\ object = [p \in Places |-> None]
  /\ memo = Memos
  /\ pc = [r \in Requests |-> "idle"]
  /\ arg = [r \in Requests |-> NoArg]
  /\ store = [r \in Requests |-> None]
  /\ found = [r \in Requests |-> None]
  /\ link = [r \in Requests |-> None]
  /\ todo = [r \in Requests |-> <<>>]
  /\ unlinked = {}
  /\ switched = FALSE
  /\ calm = {}

-----------------------------------------------------------------------------
(* POST /attachments                                                       *)

PostStart(r, u, k, i, m, n) ==
  /\ i = r \/ arg[i].kind \in Uploads
  /\ Begin(r, [NoArg EXCEPT !.kind = k, !.who = u, !.id = i, !.memo = m, !.ref = n],
           "pick")

\* resolveAttachmentStorage; AttachmentStorageConfigError is a 400.
PickStorage(r) ==
  /\ pc[r] = "pick"
  /\ IF setting \in Usable
     THEN /\ store' = [store EXCEPT ![r] = setting]
          /\ Go(r, IF arg[r].kind = "external" THEN "uploader" ELSE "put")
     ELSE Go(r, "rejected") /\ UNCHANGED store
  /\ UNCHANGED <<setting, file, object, memo, arg, found, link, todo, history>>

\* The same key again replaces the object.  DB keeps the content for the row.
PutObject(r) ==
  /\ pc[r] = "put"
  /\ object' = IF store[r] = "DB" THEN object
               ELSE [object EXCEPT ![<<store[r], arg[r].id>>] = r]
  /\ Go(r, "uploader")
  /\ UNCHANGED <<setting, file, memo, arg, locals, history>>

\* createAttachment throws when the account is no longer NORMAL.
FindUploader(r) ==
  /\ pc[r] = "uploader"
  /\ \/ Go(r, IF arg[r].memo = None THEN "insert" ELSE "findMemo")
     \/ Go(r, "rejected")
  /\ UNCHANGED <<setting, file, object, memo, arg, locals, history>>

FindMemo(r) ==
  /\ pc[r] = "findMemo"
  /\ link' = [link EXCEPT ![r] = IF arg[r].memo \in memo THEN arg[r].memo ELSE None]
  /\ Go(r, "insert")
  /\ UNCHANGED <<setting, file, object, memo, arg, store, found, todo, history>>

\* What the row of r refers to: the link, or what put returned.
ReferencesOf(r) == IF arg[r].kind = "external" THEN {arg[r].ref}
                   ELSE Returned(store[r], arg[r].id)

\* Mutant: the row takes its storage_type from the setting of the moment.
InsertAttachmentLate(r) ==
  /\ pc[r] = "insert"
  /\ IF Exists(arg[r].id)
     THEN Go(r, "rejected") /\ UNCHANGED file
     ELSE /\ \E n \in ReferencesOf(r) :
               file' = [file EXCEPT ![arg[r].id] = [by |-> r, owner |-> arg[r].who,
                          store |-> setting, kind |-> arg[r].kind, ref |-> n,
                          memo |-> link[r]]]
          /\ Go(r, "done")
  /\ UNCHANGED <<setting, object, memo, arg, locals, history>>

\* The uid is UNIQUE.  The answer, made from a SELECT of the new row, may fail.
InsertAttachment(r) ==
  LET i == arg[r].id IN
  /\ pc[r] = "insert"
  /\ IF Exists(i)
     THEN Go(r, "rejected") /\ UNCHANGED <<file, calm>>
     ELSE /\ Cross(r, i, link[r])
          /\ \E n \in ReferencesOf(r) :
               file' = [file EXCEPT ![i] = [by |-> r, owner |-> arg[r].who,
                          store |-> store[r], kind |-> arg[r].kind, ref |-> n,
                          memo |-> link[r]]]
          /\ Go(r, "done")
  /\ UNCHANGED <<setting, object, memo, arg, locals, unlinked, switched>>

-----------------------------------------------------------------------------
(* DELETE /attachments/{id} and POST /attachments:batchDelete              *)

DeleteStart(r, u, i) ==
  Begin(r, [NoArg EXCEPT !.kind = "delete", !.who = u, !.list = <<i>>], "find")

BatchStart(r, u, l) ==
  Begin(r, [NoArg EXCEPT !.kind = "batch", !.who = u, !.list = l],
        IF l = <<>> THEN "done" ELSE "find")

Following(r, to) == IF Tail(todo[r]) = <<>> THEN "done" ELSE to

\* Mutant: what is kept is the name, not the row.
FindDeletedName(r) ==
  /\ pc[r] = "find" /\ Exists(Head(todo[r]))
  /\ found' = [found EXCEPT ![r] = Head(todo[r])]
  /\ Go(r, "delPick")
  /\ UNCHANGED <<setting, file, object, memo, arg, store, link, todo, history>>

\* A single delete answers 404 for a missing row, a batch goes on to the next;
\* both stop at a row they may not touch.
FindDeleted(r) ==
  LET i == Head(todo[r]) IN
  /\ pc[r] = "find"
  /\ \/ /\ ~ Exists(i) /\ arg[r].kind = "batch"
        /\ todo' = [todo EXCEPT ![r] = Tail(@)]
        /\ Go(r, Following(r, "find"))
        /\ UNCHANGED found
     \/ /\ IF Exists(i) THEN ~ MayEdit(i, arg[r].who) ELSE arg[r].kind = "delete"
        /\ Go(r, "rejected")
        /\ UNCHANGED <<todo, found>>
     \/ /\ Exists(i) /\ MayEdit(i, arg[r].who)
        /\ found' = [found EXCEPT ![r] = file[i]]
        /\ Go(r, "delPick")
        /\ UNCHANGED todo
  /\ UNCHANGED <<setting, file, object, memo, arg, store, link, history>>

PickDeleted(r) ==
  /\ pc[r] = "delPick"
  /\ IF setting \in Usable
     THEN store' = [store EXCEPT ![r] = setting] /\ Go(r, "delObject")
     ELSE Go(r, "rejected") /\ UNCHANGED store
  /\ UNCHANGED <<setting, file, object, memo, arg, found, link, todo, history>>

\* The storage of the moment is given the reference, whoever wrote it: that of
\* an external row may name the object of another row.
DeleteObject(r) ==
  LET ref == found[r].ref
      hit == /\ ref # None /\ Deletes(store[r], ref[1])
             /\ object[<<store[r], ref[2]>>] # None
  IN
  /\ pc[r] = "delObject"
  /\ object' = IF hit THEN [object EXCEPT ![<<store[r], ref[2]>>] = None] ELSE object
  /\ unlinked' = IF hit THEN unlinked \cup {<<Head(todo[r]), ref[2]>>} ELSE unlinked
  /\ Go(r, "delRow")
  /\ UNCHANGED <<setting, file, memo, arg, locals, switched, calm>>

DeleteAttachment(r) ==
  /\ pc[r] = "delRow"
  /\ file' = [file EXCEPT ![Head(todo[r])] = None]
  /\ todo' = [todo EXCEPT ![r] = Tail(@)]
  /\ Go(r, Following(r, "find"))
  /\ UNCHANGED <<setting, object, memo, arg, store, found, link, history>>

-----------------------------------------------------------------------------
(* PATCH /attachments/{id}, for the path "memo", and setMemoAttachments,   *)
(* which POST /memos, PATCH /memos/{id} and PATCH /memos/{id}/attachments  *)
(* call after their own statements (Memos).                                *)

PatchStart(r, u, i, m) ==
  /\ Exists(i) /\ MayEdit(i, u)
  /\ Begin(r, [NoArg EXCEPT !.kind = "patch", !.who = u, !.id = i, !.memo = m],
           IF m = None THEN "patchRow" ELSE "patchMemo")

FindPatchedMemo(r) ==
  /\ pc[r] = "patchMemo"
  /\ link' = [link EXCEPT ![r] = IF arg[r].memo \in memo THEN arg[r].memo ELSE None]
  /\ Go(r, "patchRow")
  /\ UNCHANGED <<setting, file, object, memo, arg, store, found, todo, history>>

\* The row as it is linked to m; nothing to update when it is gone.
Linked(i, m) == IF Exists(i) THEN [file EXCEPT ![i].memo = m] ELSE file

PatchRow(r) ==
  /\ pc[r] = "patchRow"
  /\ file' = Linked(arg[r].id, link[r])
  /\ Cross(r, arg[r].id, link[r])
  /\ Go(r, IF Exists(arg[r].id) THEN "done" ELSE "rejected")
  /\ UNCHANGED <<setting, object, memo, arg, locals, unlinked, switched>>

LinkStart(r, u, m, l) ==
  /\ m \in memo
  /\ Begin(r, [NoArg EXCEPT !.kind = "link", !.who = u, !.memo = m, !.list = l],
           "linkMemo")

FindLinkedMemo(r) ==
  /\ pc[r] = "linkMemo"
  /\ Go(r, IF arg[r].memo \in memo THEN "linkClear" ELSE "done")
  /\ UNCHANGED <<setting, file, object, memo, arg, locals, history>>

\* Mutant: the listed attachments are added to those the memo has.
ClearLinksNever(r) ==
  /\ pc[r] = "linkClear"
  /\ calm' = {q \in calm : arg[q].memo # arg[r].memo} \cup {r}
  /\ Go(r, IF todo[r] = <<>> THEN "done" ELSE "linkSet")
  /\ UNCHANGED <<setting, file, object, memo, arg, locals, unlinked, switched>>

ClearLinks(r) ==
  /\ pc[r] = "linkClear"
  /\ file' = [i \in Requests |-> IF Exists(i) /\ file[i].memo = arg[r].memo
                                 THEN [file[i] EXCEPT !.memo = None] ELSE file[i]]
  /\ calm' = {q \in calm : arg[q].memo # arg[r].memo} \cup {r}
  /\ Go(r, IF todo[r] = <<>> THEN "done" ELSE "linkSet")
  /\ UNCHANGED <<setting, object, memo, arg, locals, unlinked, switched>>

SetLink(r) ==
  /\ pc[r] = "linkSet"
  /\ file' = Linked(Head(todo[r]), arg[r].memo)
  /\ Cross(r, Head(todo[r]), arg[r].memo)
  /\ todo' = [todo EXCEPT ![r] = Tail(@)]
  /\ Go(r, Following(r, "linkSet"))
  /\ UNCHANGED <<setting, object, memo, arg, store, found, link, unlinked, switched>>

-----------------------------------------------------------------------------
\* A statement or a storage operation fails, or the process exits.
Crash(r) ==
  /\ pc[r] \notin {"idle", "done", "rejected"}
  /\ Go(r, "rejected")
  /\ UNCHANGED <<setting, file, object, memo, arg, locals, history>>

\* parseInstanceStorageSetting, of what the PATCH stores for s: "DB" is none
\* of the names it knows (DATABASE, LOCAL, S3, R2).
Parsed(s) == IF s = "DB" THEN Default ELSE s

\* PATCH /instance/settings/STORAGE
SetStorage(s) ==
  /\ setting # Parsed(s)
  /\ setting' = Parsed(s) /\ switched' = TRUE
  /\ UNCHANGED <<file, object, memo, pc, arg, locals, unlinked, calm>>

\* hardDeleteMemo leaves memo_id as it is; the id is not used again.
DeleteMemo(m) ==
  /\ m \in memo
  /\ memo' = memo \ {m}
  /\ UNCHANGED <<setting, file, object, pc, arg, locals, history>>

Start(r) ==
  \E u \in Users :
    \/ \E i \in Requests :
         \/ DeleteStart(r, u, i)
         \/ \E m \in Memos \cup {None} :
              \/ PatchStart(r, u, i, m) \/ PostStart(r, u, "post", i, m, None)
              \/ \E n \in Links : PostStart(r, u, "external", i, m, n)
    \/ \E l \in Lists : BatchStart(r, u, l) \/ \E m \in Memos : LinkStart(r, u, m, l)

Post(r) == \/ PickStorage(r) \/ PutObject(r) \/ FindUploader(r) \/ FindMemo(r)
           \/ InsertAttachment(r)

Delete(r) == \/ FindDeleted(r) \/ PickDeleted(r) \/ DeleteObject(r)
             \/ DeleteAttachment(r)

Relink(r) == \/ FindPatchedMemo(r) \/ PatchRow(r) \/ FindLinkedMemo(r)
             \/ ClearLinks(r) \/ SetLink(r)

RequestStep(r) == Start(r) \/ Post(r) \/ Delete(r) \/ Relink(r) \/ Crash(r)

World == (\E s \in Backends : SetStorage(s)) \/ (\E m \in Memos : DeleteMemo(m))

Next == (\E r \in Requests : RequestStep(r)) \/ World

Spec == Init /\ [][Next]_vars

-----------------------------------------------------------------------------
\* Another POST has been given the id of the row and reached its storage.
Reposted(i) ==
  \E q \in Requests \ {file[i].by} : /\ arg[q].kind = "post" /\ arg[q].id = i
                                     /\ store[q] # None

\* A delete has removed the object of i: one of i itself, or one of a row whose
\* external link a client had made equal to the reference of i.
Removed(i) ==
  \/ <<i, i>> \in unlinked
  \/ \E q \in Requests : /\ arg[q].kind = "external" /\ <<arg[q].id, i>> \in unlinked
                         /\ \E f \in Forms : arg[q].ref = <<f, i>>

\* What was uploaded is served: while the setting names the storage of a row,
\* GET /file finds its object, and the content of the POST that made the row,
\* unless a client has put another content under the same attachmentId, or a
\* delete of this attachment or of an external link to its object has removed
\* it.  The code checks no external link, so the second kind of delete is the
\* only way for one row to lose another's file: no interleaving of uploads,
\* deletes, links and switches of the setting, and no crash, does it otherwise.
FileServed ==
  \A i \in Requests :
    Exists(i) /\ file[i].kind = "post" /\ setting = file[i].store /\ setting \in Usable =>
      \/ Removed(i)
      \/ Served(i) = file[i].by
      \/ Reposted(i) /\ Served(i) # None

\* Two uploads were given the same id.
Reused(i) ==
  \E q \in Requests : \E w \in Requests \ {q} : \A x \in {q, w} :
    arg[x].kind \in Uploads /\ arg[x].id = i /\ store[x] # None

\* No storage leak: as long as the setting stays, an object without a row
\* belongs to an upload that is under way or that has failed.  Only an id that
\* was uploaded twice can leak more: a delete that read the first row and is
\* overtaken by another delete and the second upload removes the second row.
NoOrphans ==
  \A p \in Places :
    object[p] # None =>
      \/ switched
      \/ Exists(p[2]) /\ file[p[2]].store = p[1] /\ file[p[2]].kind = "post"
      \/ LET q == object[p] IN
         /\ arg[q].kind = "post" /\ arg[q].id = p[2] /\ store[q] = p[1]
         /\ pc[q] \in {"uploader", "findMemo", "insert", "rejected"}
      \/ Reused(p[2])

\* PATCH of a memo's attachments is done as a whole or not at all: once it
\* has succeeded the memo has the listed attachments and no others, whatever
\* requests for other memos and attachments ran between its statements.
LinksAsAsked ==
  \A r \in calm : pc[r] = "done" =>
    \A i \in Requests : Exists(i) => (file[i].memo = arg[r].memo <=> i \in Listed(r))

\* What the administrator chooses is the storage: every type of the STORAGE
\* setting can be set.
ChoiceHolds == [][\A s \in Backends : SetStorage(s) => setting' = s]_vars

=============================================================================
