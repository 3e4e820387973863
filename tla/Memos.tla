-------------------------------- MODULE Memos --------------------------------
(***************************************************************************)
(* Memos, comments and what hangs from them: relations, reactions, share   *)
(* links and the inbox.                                                    *)
(*                                                                         *)
(* The tables refer to each other by id, but only memo_share has a foreign *)
(* key.  Creating a comment is a dozen SQL statements, deleting a memo is  *)
(* four, replacing the relations of a memo is one per relation, and no     *)
(* handler opens a transaction: a request is a process, an action is one   *)
(* statement with the computation up to the next one.                      *)
(*                                                                         *)
(* A request is used once.  The uuid it makes (of the memo, the reaction   *)
(* or the share it creates) is the request itself; a comment's memo and    *)
(* its inbox row are both named by the request that posts the comment.     *)
(* Users are their usernames: renames are the subject of Sessions.  The    *)
(* attachments that a POST or PATCH also links are in Attachments.         *)
(***************************************************************************)
EXTENDS Sequences, FiniteSets

CONSTANTS Users,
          Admins,    \* the users whose access token says ADMIN
          Seeds,     \* memos that exist before the behaviour starts
          SeedVis,   \* the visibility they may have
          Requests,  \* HTTP requests, each served at most once
          Sent,      \* the kinds of request the clients send
          Drafts,    \* visibility and state they give a new memo
          Patches,   \* those they set in a PATCH, None for one left alone
          Bodies,    \* relation lists they send
          None

Memos == Seeds \cup Requests
Types == {"REFERENCE", "COMMENT"}
Visibilities == {"PUBLIC", "PROTECTED", "PRIVATE"}
States == {"NORMAL", "ARCHIVED"}
Rows == [creator : Users, vis : Visibilities, state : States]

Kinds == {"unused", "create", "comment", "patch", "archive", "delete",
          "relate", "react", "unreact", "share", "unshare"}

ASSUME MemosAssumption ==
  /\ Admins \subseteq Users
  /\ Seeds \cap Requests = {}
  /\ None \notin Users \cup Memos \cup Rows
  /\ SeedVis \subseteq Visibilities
  /\ Sent \subseteq Kinds
  /\ Drafts \subseteq Visibilities \X States
  /\ Patches \subseteq (Visibilities \cup {None}) \X (States \cup {None})
  /\ Bodies \subseteq Seq(Memos \X Types)

VARIABLES row,        \* table memo: creator, visibility and row_status
          relations,  \* table memo_relation: UNIQUE <<memo, related, type>>
          reactions,  \* table reaction, each row named by the POST that made it
          shares,     \* table memo_share, likewise; FK to memo, ON DELETE CASCADE
          inbox,      \* table inbox: comments whose notification row exists
          posted,     \* comments announced to the receiver's webhooks
          account,    \* row_status of the users
          condemned,  \* history: memos whose relations a hard delete removed
          pc, arg,    \* where each request is, and what it was asked
          todo        \* the relations a request still has to insert

tables == <<row, relations, reactions, shares, inbox>>
vars == <<tables, posted, account, condemned, pc, arg, todo>>

NotifyPcs == {"parentRow", "parentUser", "sender", "receiver", "notify"}

Pcs == NotifyPcs \cup
       {"idle", "creator", "insert", "resolve", "parentId", "link", "reread",
        "webhook", "patchRead", "patchWrite", "archive", "delId",
        "delReactions", "delRelations", "delRow", "relResolve", "relDelete",
        "relFind", "relInsert", "reactUser", "reactDelete", "reactInsert",
        "unreact", "shareMemo", "shareOwner", "shareInsert", "unshareMemo",
        "unshare", "done", "rejected"}

Args == [kind  : Kinds,
         who   : Users \cup {None},     \* the authenticated user
         memo  : Memos \cup {None},     \* the memo in the path
         owner : Users \cup {None},     \* its creator, as read on entry
         vis   : Visibilities \cup {None},
         state : States \cup {None},
         body  : Bodies \cup {<<>>},
         ref   : Requests \cup {None}]  \* the reaction or share a DELETE names

NoArg == [kind |-> "unused", who |-> None, memo |-> None, owner |-> None,
          vis |-> None, state |-> None, body |-> <<>>, ref |-> None]

TypeOK ==
  /\ row \in [Memos -> Rows \cup {None}]
  /\ relations \subseteq Memos \X Memos \X Types
  /\ reactions \subseteq Requests
  /\ shares \subseteq Requests
  /\ inbox \subseteq Requests
  /\ posted \subseteq Requests
  /\ account \in [Users -> States]
  /\ condemned \subseteq Memos
  /\ pc \in [Requests -> Pcs]
  /\ arg \in [Requests -> Args]
  /\ todo \in [Requests -> Seq(Memos \X Types)]

-----------------------------------------------------------------------------
Exists(m) == row[m] # None

\* canViewMemo
CanView(m, u) == row[m].vis # "PRIVATE" \/ row[m].creator = u

\* The ownership test of every handler that changes a memo.
MayEdit(m, u) == Exists(m) /\ (row[m].creator = u \/ u \in Admins)

\* What parent_memo_id may read as: the LEFT JOINs give a row per COMMENT
\* relation, with a null parent when the related memo is gone, and the
\* handler takes one of them.
SeenAsComment(m) ==
  LET parents == {p \in Memos : <<m, p, "COMMENT">> \in relations}
  IN IF parents = {} THEN {FALSE} ELSE {Exists(p) : p \in parents}

\* The reaction rows equal to r's in the UNIQUE columns.
SameReaction(r) ==
  {q \in reactions : arg[q].who = arg[r].who /\ arg[q].memo = arg[r].memo}

\* The memo whose relations the request sets.
Source(r) == IF arg[r].kind = "create" THEN r ELSE arg[r].memo

Go(r, to) == pc' = [pc EXCEPT ![r] = to]

Begin(r, a, to) ==
  /\ pc[r] = "idle" /\ a.kind \in Sent
  /\ arg' = [arg EXCEPT ![r] = a]
  /\ Go(r, to)
  /\ UNCHANGED <<tables, posted, account, condemned, todo>>

\* A statement that only reads.
Read(r, at, to) ==
  /\ pc[r] = at
  /\ Go(r, to)
  /\ UNCHANGED <<tables, posted, account, condemned, arg, todo>>

Init ==
  /\ row \in [Memos -> Rows \cup {None}]
  /\ \A m \in Seeds : row[m] # None /\ row[m].state = "NORMAL" /\ row[m].vis \in SeedVis
  /\ \A r \in Requests : row[r] = None
  /\ relations = {} /\ reactions = {} /\ shares = {} /\ inbox = {}
  /\ posted = {} /\ condemned = {}
  /\ account = [u \in Users |-> "NORMAL"]
  /\ pc = [r \in Requests |-> "idle"]
  /\ arg = [r \in Requests |-> NoArg]
  /\ todo = [r \in Requests |-> <<>>]

-----------------------------------------------------------------------------
(* What each handler reads before it changes anything.                     *)

CreateStart(r, u, v, s, b) ==
  Begin(r, [NoArg EXCEPT !.kind = "create", !.who = u, !.vis = v,
                         !.state = s, !.body = b], "creator")

CommentStart(r, u, m, v, s) ==
  /\ Exists(m) /\ FALSE \in SeenAsComment(m) /\ CanView(m, u)
  /\ Begin(r, [NoArg EXCEPT !.kind = "comment", !.who = u, !.memo = m,
                 !.owner = row[m].creator, !.vis = v, !.state = s], "creator")

\* None stands for a field the update mask leaves out.
PatchStart(r, u, m, v, s) ==
  /\ MayEdit(m, u)
  /\ Begin(r, [NoArg EXCEPT !.kind = "patch", !.who = u, !.memo = m, !.vis = v,
                            !.state = s], "patchRead")

RemoveStart(r, u, m, force) ==
  /\ MayEdit(m, u)
  /\ Begin(r, [NoArg EXCEPT !.kind = IF force THEN "delete" ELSE "archive",
                            !.who = u, !.memo = m],
           IF force THEN "delId" ELSE "archive")

RelateStart(r, u, m, b) ==
  /\ MayEdit(m, u)
  /\ Begin(r, [NoArg EXCEPT !.kind = "relate", !.who = u, !.memo = m,
                            !.body = b], "relResolve")

ReactStart(r, u, m) ==
  /\ Exists(m) /\ CanView(m, u)
  /\ Begin(r, [NoArg EXCEPT !.kind = "react", !.who = u, !.memo = m], "reactUser")

UnreactStart(r, u, q) ==
  /\ q \in reactions /\ Exists(arg[q].memo)
  /\ arg[q].who = u \/ u \in Admins
  /\ Begin(r, [NoArg EXCEPT !.kind = "unreact", !.who = u, !.ref = q,
                            !.memo = arg[q].memo], "unreact")

ShareStart(r, u, m) ==
  /\ MayEdit(m, u)
  /\ Begin(r, [NoArg EXCEPT !.kind = "share", !.who = u, !.memo = m], "shareMemo")

\* The client knows the token from the answer to the POST.
UnshareStart(r, u, q) ==
  /\ arg[q].kind = "share" /\ pc[q] = "done" /\ MayEdit(arg[q].memo, u)
  /\ Begin(r, [NoArg EXCEPT !.kind = "unshare", !.who = u, !.ref = q,
                            !.memo = arg[q].memo], "unshareMemo")

-----------------------------------------------------------------------------
(* createMemo, for a memo and for a comment                                *)

FindCreator(r) ==
  Read(r, "creator", IF account[arg[r].who] = "NORMAL" THEN "insert" ELSE "rejected")

InsertMemo(r) ==
  /\ pc[r] = "insert"
  /\ row' = [row EXCEPT ![r] = [creator |-> arg[r].who, vis |-> arg[r].vis,
                                state |-> arg[r].state]]
  /\ Go(r, "resolve")
  /\ UNCHANGED <<relations, reactions, shares, inbox, posted, account,
                 condemned, arg, todo>>

FindInserted(r) ==
  Read(r, "resolve", IF ~ Exists(r) THEN "rejected"
                     ELSE IF arg[r].kind = "comment" THEN "parentId" ELSE "reread")

\* A parent that is gone is passed over: its later lookups find nothing.
FindParent(r) ==
  Read(r, "parentId", IF Exists(arg[r].memo) THEN "link" ELSE "reread")

\* Mutant: the comment relation is not inserted.
LinkParentNever(r) == Read(r, "link", "parentRow")

\* memo_relation has no foreign key; a duplicate row is a UNIQUE error.
LinkParent(r) ==
  LET link == <<r, arg[r].memo, "COMMENT">> IN
  /\ pc[r] = "link"
  /\ relations' = relations \cup {link}
  /\ Go(r, IF link \in relations THEN "rejected" ELSE "parentRow")
  /\ UNCHANGED <<row, reactions, shares, inbox, posted, account, condemned,
                 arg, todo>>

FindParentRow(r) ==
  Read(r, "parentRow", IF Exists(arg[r].memo) THEN "parentUser" ELSE "reread")

\* Mutant: a comment on one's own memo, or a private one, notifies as well.
FindParentUserAny(r) ==
  Read(r, "parentUser", IF account[arg[r].owner] = "NORMAL" THEN "sender" ELSE "reread")

FindParentUser(r) ==
  Read(r, "parentUser", IF /\ account[arg[r].owner] = "NORMAL"
                           /\ arg[r].who # arg[r].owner
                           /\ arg[r].vis # "PRIVATE"
                        THEN "sender" ELSE "reread")

\* Both lookups are made before they are tested; either may find nobody.
FindSender(r) ==
  Read(r, "sender", IF account[arg[r].who] = "NORMAL" THEN "receiver" ELSE "reread")

FindReceiver(r) ==
  Read(r, "receiver", IF account[arg[r].owner] = "NORMAL" THEN "notify" ELSE "reread")

Notify(r) ==
  /\ pc[r] = "notify"
  /\ inbox' = inbox \cup {r}
  /\ Go(r, "reread")
  /\ UNCHANGED <<row, relations, reactions, shares, posted, account, condemned,
                 arg, todo>>

\* The row as it is now decides about the webhooks, the parent as it was read
\* on entry about the receiver.
RereadMemo(r) ==
  Read(r, "reread",
       IF ~ Exists(r) THEN "rejected"
       ELSE IF arg[r].kind = "create"
            THEN IF arg[r].body = <<>> THEN "done" ELSE "relResolve"
            ELSE IF row[r].vis # "PRIVATE" /\ arg[r].who # arg[r].owner
                 THEN "webhook" ELSE "done")

\* dispatchMemoCommentWebhooks: listWebhooks of a NORMAL user, here one hook
\* each; a delivery that fails is ignored.
PostWebhook(r) ==
  /\ pc[r] = "webhook"
  /\ posted' = IF account[arg[r].owner] = "NORMAL" THEN posted \cup {r} ELSE posted
  /\ Go(r, "done")
  /\ UNCHANGED <<tables, account, condemned, arg, todo>>

-----------------------------------------------------------------------------
(* updateMemo and archiveMemo                                              *)

FindPatched(r) ==
  Read(r, "patchRead", IF Exists(arg[r].memo) THEN "patchWrite" ELSE "rejected")

\* Mutant: the UPDATE is an upsert.
PatchMemoUpsert(r) ==
  /\ pc[r] = "patchWrite"
  /\ row' = [row EXCEPT ![arg[r].memo] =
               [creator |-> IF @ = None THEN arg[r].who ELSE @.creator,
                vis     |-> IF arg[r].vis = None THEN "PRIVATE" ELSE arg[r].vis,
                state   |-> "NORMAL"]]
  /\ Go(r, "done")
  /\ UNCHANGED <<relations, reactions, shares, inbox, posted, account,
                 condemned, arg, todo>>

\* Mutant: fields outside the update mask are written as well.
PatchMemoAllFields(r) ==
  LET m == arg[r].memo IN
  /\ pc[r] = "patchWrite"
  /\ row' = IF Exists(m)
            THEN [row EXCEPT ![m].vis = arg[r].vis, ![m].state = arg[r].state]
            ELSE row
  /\ Go(r, IF Exists(m) THEN "done" ELSE "rejected")
  /\ UNCHANGED <<relations, reactions, shares, inbox, posted, account,
                 condemned, arg, todo>>

\* UPDATE memo ... WHERE uid = ?: nothing to update when the row is gone, and
\* the handler, which reads the memo again, then answers 404.
PatchMemo(r) ==
  LET m == arg[r].memo IN
  /\ pc[r] = "patchWrite"
  /\ row' = IF Exists(m)
            THEN [row EXCEPT
                   ![m].vis   = IF arg[r].vis = None THEN @ ELSE arg[r].vis,
                   ![m].state = IF arg[r].state = None THEN @ ELSE arg[r].state]
            ELSE row
  /\ Go(r, IF Exists(m) THEN "done" ELSE "rejected")
  /\ UNCHANGED <<relations, reactions, shares, inbox, posted, account,
                 condemned, arg, todo>>

ArchiveMemo(r) ==
  LET m == arg[r].memo IN
  /\ pc[r] = "archive"
  /\ row' = IF Exists(m) THEN [row EXCEPT ![m].state = "ARCHIVED"] ELSE row
  /\ Go(r, "done")
  /\ UNCHANGED <<relations, reactions, shares, inbox, posted, account,
                 condemned, arg, todo>>

-----------------------------------------------------------------------------
(* hardDeleteMemo                                                          *)

FindDeleted(r) ==
  Read(r, "delId", IF Exists(arg[r].memo) THEN "delReactions" ELSE "done")

DeleteReactions(r) ==
  /\ pc[r] = "delReactions"
  /\ reactions' = {q \in reactions : arg[q].memo # arg[r].memo}
  /\ Go(r, "delRelations")
  /\ UNCHANGED <<row, relations, shares, inbox, posted, account, condemned,
                 arg, todo>>

DeleteRelations(r) ==
  /\ pc[r] = "delRelations"
  /\ relations' = {e \in relations : arg[r].memo \notin {e[1], e[2]}}
  /\ condemned' = condemned \cup {arg[r].memo}
  /\ Go(r, "delRow")
  /\ UNCHANGED <<row, reactions, shares, inbox, posted, account, arg, todo>>

\* Mutant: foreign keys are not enforced, the shares stay.
DeleteRowOnly(r) ==
  /\ pc[r] = "delRow"
  /\ row' = [row EXCEPT ![arg[r].memo] = None]
  /\ Go(r, "done")
  /\ UNCHANGED <<relations, reactions, shares, inbox, posted, account,
                 condemned, arg, todo>>

DeleteRow(r) ==
  /\ pc[r] = "delRow"
  /\ row' = [row EXCEPT ![arg[r].memo] = None]
  /\ shares' = {s \in shares : arg[s].memo # arg[r].memo}
  /\ Go(r, "done")
  /\ UNCHANGED <<relations, reactions, inbox, posted, account, condemned,
                 arg, todo>>

-----------------------------------------------------------------------------
(* setMemoRelations                                                        *)

FindSource(r) ==
  Read(r, "relResolve", IF Exists(Source(r)) THEN "relDelete" ELSE "done")

\* Mutant: the DELETE takes the comment relation with it.
DropRelationsAll(r) ==
  /\ pc[r] = "relDelete"
  /\ relations' = {e \in relations : e[1] # Source(r)}
  /\ todo' = [todo EXCEPT ![r] = arg[r].body]
  /\ Go(r, IF arg[r].body = <<>> THEN "done" ELSE "relFind")
  /\ UNCHANGED <<row, reactions, shares, inbox, posted, account, condemned, arg>>

DropRelations(r) ==
  /\ pc[r] = "relDelete"
  /\ relations' = {e \in relations : e[1] # Source(r) \/ e[3] = "COMMENT"}
  /\ todo' = [todo EXCEPT ![r] = arg[r].body]
  /\ Go(r, IF arg[r].body = <<>> THEN "done" ELSE "relFind")
  /\ UNCHANGED <<row, reactions, shares, inbox, posted, account, condemned, arg>>

AfterPair(r) == IF Tail(todo[r]) = <<>> THEN "done" ELSE "relFind"

FindRelated(r) ==
  /\ pc[r] = "relFind"
  /\ IF Exists(Head(todo[r])[1])
     THEN Go(r, "relInsert") /\ UNCHANGED todo
     ELSE Go(r, AfterPair(r)) /\ todo' = [todo EXCEPT ![r] = Tail(@)]
  /\ UNCHANGED <<tables, posted, account, condemned, arg>>

InsertRelation(r) ==
  LET e == <<Source(r), Head(todo[r])[1], Head(todo[r])[2]>> IN
  /\ pc[r] = "relInsert"
  /\ relations' = relations \cup {e}
  /\ Go(r, IF e \in relations THEN "rejected" ELSE AfterPair(r))
  /\ todo' = [todo EXCEPT ![r] = Tail(@)]
  /\ UNCHANGED <<row, reactions, shares, inbox, posted, account, condemned, arg>>

-----------------------------------------------------------------------------
(* upsertReaction, deleteReaction, createShare and deleteShareByName       *)

FindReactor(r) ==
  Read(r, "reactUser",
       IF account[arg[r].who] = "NORMAL" THEN "reactDelete" ELSE "rejected")

\* Mutant: the upsert looks for the reaction of the memo, whoever made it.
DeleteSameReactionOfAny(r) ==
  /\ pc[r] = "reactDelete"
  /\ reactions' = {q \in reactions : arg[q].memo # arg[r].memo}
  /\ Go(r, "reactInsert")
  /\ UNCHANGED <<row, relations, shares, inbox, posted, account, condemned,
                 arg, todo>>

DeleteSameReaction(r) ==
  /\ pc[r] = "reactDelete"
  /\ reactions' = reactions \ SameReaction(r)
  /\ Go(r, "reactInsert")
  /\ UNCHANGED <<row, relations, shares, inbox, posted, account, condemned,
                 arg, todo>>

InsertReaction(r) ==
  /\ pc[r] = "reactInsert"
  /\ IF SameReaction(r) = {}
     THEN reactions' = reactions \cup {r} /\ Go(r, "done")
     ELSE Go(r, "rejected") /\ UNCHANGED reactions
  /\ UNCHANGED <<row, relations, shares, inbox, posted, account, condemned,
                 arg, todo>>

DeleteReaction(r) ==
  /\ pc[r] = "unreact"
  /\ reactions' = reactions \ {arg[r].ref}
  /\ Go(r, "done")
  /\ UNCHANGED <<row, relations, shares, inbox, posted, account, condemned,
                 arg, todo>>

FindShared(r) ==
  Read(r, "shareMemo", IF /\ Exists(arg[r].memo)
                          /\ row[arg[r].memo].state = "NORMAL"
                       THEN "shareOwner" ELSE "rejected")

\* mrow!.creator_id throws when the memo is gone.
FindShareOwner(r) ==
  Read(r, "shareOwner", IF Exists(arg[r].memo) THEN "shareInsert" ELSE "rejected")

InsertShare(r) ==
  /\ pc[r] = "shareInsert"
  /\ IF Exists(arg[r].memo)
     THEN shares' = shares \cup {r} /\ Go(r, "done")
     ELSE Go(r, "rejected") /\ UNCHANGED shares
  /\ UNCHANGED <<row, relations, reactions, inbox, posted, account, condemned,
                 arg, todo>>

FindUnshared(r) ==
  Read(r, "unshareMemo", IF Exists(arg[r].memo) THEN "unshare" ELSE "rejected")

DeleteShare(r) ==
  /\ pc[r] = "unshare"
  /\ shares' = shares \ {arg[r].ref}
  /\ Go(r, IF arg[r].ref \in shares THEN "done" ELSE "rejected")
  /\ UNCHANGED <<row, relations, reactions, inbox, posted, account, condemned,
                 arg, todo>>

-----------------------------------------------------------------------------
\* A statement fails (500) or the process exits: what was written stays.
Crash(r) ==
  /\ pc[r] \notin {"idle", "done", "rejected"}
  /\ Go(r, "rejected")
  /\ UNCHANGED <<tables, posted, account, condemned, arg, todo>>

SetAccount(u, s) ==
  /\ account[u] # s
  /\ account' = [account EXCEPT ![u] = s]
  /\ UNCHANGED <<tables, posted, condemned, pc, arg, todo>>

Start(r) ==
  \E u \in Users :
    \/ \E d \in Drafts :
         \/ \E b \in Bodies \cup {<<>>} : CreateStart(r, u, d[1], d[2], b)
         \/ \E m \in Memos : CommentStart(r, u, m, d[1], d[2])
    \/ \E m \in Memos :
         \/ \E d \in Patches : PatchStart(r, u, m, d[1], d[2])
         \/ \E force \in BOOLEAN : RemoveStart(r, u, m, force)
         \/ \E b \in Bodies \cup {<<>>} : RelateStart(r, u, m, b)
         \/ ReactStart(r, u, m)
         \/ ShareStart(r, u, m)
    \/ \E q \in Requests : UnreactStart(r, u, q) \/ UnshareStart(r, u, q)

Lookup(r) ==
  \/ FindCreator(r) \/ FindInserted(r) \/ FindParent(r) \/ FindParentRow(r)
  \/ FindParentUser(r) \/ FindSender(r) \/ FindReceiver(r) \/ RereadMemo(r)
  \/ FindPatched(r) \/ FindDeleted(r) \/ FindSource(r)
  \/ FindReactor(r) \/ FindShared(r) \/ FindShareOwner(r) \/ FindUnshared(r)

Write(r) ==
  \/ InsertMemo(r) \/ LinkParent(r) \/ Notify(r) \/ PostWebhook(r)
  \/ PatchMemo(r) \/ ArchiveMemo(r)
  \/ DeleteReactions(r) \/ DeleteRelations(r) \/ DeleteRow(r)
  \/ DropRelations(r) \/ FindRelated(r) \/ InsertRelation(r)
  \/ DeleteSameReaction(r) \/ InsertReaction(r) \/ DeleteReaction(r)
  \/ InsertShare(r) \/ DeleteShare(r)

RequestStep(r) == Start(r) \/ Lookup(r) \/ Write(r) \/ Crash(r)

Next == \/ \E r \in Requests : RequestStep(r)
        \/ \E u \in Users, s \in States : SetAccount(u, s)

Spec == Init /\ [][Next]_vars

-----------------------------------------------------------------------------
\* The comment posted by r hangs from its memo, unless a hard delete has begun
\* on one of the two.
Hangs(r) ==
  \/ <<r, arg[r].memo, "COMMENT">> \in relations
  \/ {r, arg[r].memo} \cap condemned # {}

\* Every notification and every webhook call comes from a comment by somebody
\* else than the receiver and leads to that comment under that memo; a private
\* comment notifies nobody, though one that is published in time is announced.
InboxTrue ==
  \A r \in inbox \cup posted : /\ arg[r].kind = "comment"
                               /\ arg[r].who # arg[r].owner
                               /\ r \in inbox => arg[r].vis # "PRIVATE"
                               /\ Hangs(r)

\* A comment whose POST succeeded hangs from its memo: neither relation edits
\* nor an interleaved request cut it off, only a hard delete of either memo.
CommentsHang ==
  \A r \in Requests : arg[r].kind = "comment" /\ pc[r] = "done" => Hangs(r)

\* A share link names a memo that exists, also when it was made during the
\* hard delete of that memo.
SharesHaveMemo == \A s \in shares : Exists(arg[s].memo)

\* What may have taken the reaction of r away.
Took(q, r) ==
  /\ arg[q].memo = arg[r].memo
  /\ \/ arg[q].kind = "delete"
     \/ arg[q].kind = "unreact" /\ arg[arg[q].ref].who = arg[r].who
     \/ /\ arg[q].kind = "react" /\ arg[q].who = arg[r].who
        /\ pc[q] \in {"reactInsert", "rejected"}

\* A reaction whose POST succeeded is there until somebody deletes it or the
\* memo; the only other way to lose it is the same user's own repeat of the
\* POST, failing between its DELETE and its INSERT.
ReactionsKept ==
  \A r \in Requests : arg[r].kind = "react" /\ pc[r] = "done" =>
    SameReaction(r) # {} \/ \E q \in Requests \ {r} : Took(q, r)

\* A hard-deleted memo stays deleted, whatever PATCH, archive, relation or
\* share request was already past its checks.
DeletedForGood ==
  [][\A m \in condemned : ~ Exists(m) => ~ Exists(m)']_vars

=============================================================================
