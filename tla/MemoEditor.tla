------------------------------ MODULE MemoEditor ------------------------------
(***************************************************************************)
(* The memo editor of the web client and its drafts.  Every tab of a       *)
(* browser may have an editor open: the one of the home page, one for a    *)
(* comment, or one that edits a memo.  What is typed in the first two is   *)
(* written to localStorage, which the tabs share: half a second after the  *)
(* last change (a timer), and at once when the page is hidden or left.     *)
(* Saving is a sequence of requests, during which the user goes on typing, *)
(* leaves the page, or loses it; a request fails with or without having    *)
(* been executed.                                                          *)
(*                                                                         *)
(* A text is the number of the change that made it, 0 is the blank text.   *)
(* Attachments, relations and the other metadata are left out; of what an  *)
(* edit sends, content and visibility stand for all fields.                *)
(***************************************************************************)
EXTENDS Naturals, FiniteSets

CONSTANTS Tabs,
          Mixes,       \* sets of editors that are opened together
          MaxChanges,  \* bound on the changes that users make
          None

DraftKinds == {"home", "comment"}   \* each with a key of its own
Kinds == DraftKinds \cup {"edit"}
Fields == {"content", "visibility"}
Texts == 0 .. MaxChanges

ASSUME EditorAssumption ==
  /\ Mixes \subseteq SUBSET Kinds
  /\ MaxChanges \in Nat
  /\ None \notin Texts /\ None \notin Kinds

VARIABLES kinds,      \* the editors of this behaviour
          draft,      \* localStorage, by key: a text, or None
          timer,      \* pendingSaves of each tab, by key
          page,       \* the editor open in each tab
          form,       \* the state of that editor, by field
          discarded,  \* discardedContentRef
          step,       \* where the save of each tab is
          job,        \* what it saves: the editor's kind, whether that editor
                      \* is still open, its state when the save began, and
                      \* the fields of the update mask
          memo,       \* the memo that edit editors edit, on the server
          posts,      \* how often each text was posted: never, once or more often
          changes,    \* how many changes were made so far
          told,       \* history: texts whose POST was answered
          unsure,     \* history: texts posted by a request that went unanswered
          shared,     \* history: drafts loaded while another editor had them
          left,       \* history, by key: the text that the last editor left
          crossed     \* history: fields changed by others since GET /memos

editor == <<page, form, discarded>>
save == <<step, job>>
server == <<memo, posts>>
history == <<told, unsure, shared, left, crossed>>
vars == <<kinds, draft, timer, editor, save, server, changes, history>>

NoForm == [f \in Fields |-> 0]
NoJob == [kind |-> None, open |-> FALSE, form |-> NoForm, mask |-> {}]

Steps == {"no", "get", "send", "sent", "after"}
Jobs == [kind : Kinds \cup {None}, open : BOOLEAN,
         form : [Fields -> Texts], mask : SUBSET Fields]

TypeOK ==
  /\ kinds \in Mixes
  /\ draft \in [DraftKinds -> (Texts \ {0}) \cup {None}]
  /\ timer \in [Tabs -> [DraftKinds -> Texts \cup {None}]]
  /\ page \in [Tabs -> kinds \cup {None}]
  /\ form \in [Tabs -> [Fields -> Texts]]
  /\ discarded \in [Tabs -> Texts \cup {None}]
  /\ step \in [Tabs -> Steps]
  /\ job \in [Tabs -> Jobs]
  /\ memo \in [Fields -> Texts]
  /\ posts \in [Texts -> 0 .. 2]
  /\ changes \in Texts
  /\ told \subseteq Texts /\ unsure \subseteq Texts /\ shared \subseteq Texts
  /\ left \in [DraftKinds -> Texts \cup {None}]
  /\ crossed \in [Tabs -> SUBSET Fields]

Init ==
  /\ kinds \in Mixes
  /\ draft = [k \in DraftKinds |-> None]
  /\ timer = [t \in Tabs |-> [k \in DraftKinds |-> None]]
  /\ page = [t \in Tabs |-> None]
  /\ form = [t \in Tabs |-> NoForm]
  /\ discarded = [t \in Tabs |-> None]
  /\ step = [t \in Tabs |-> "no"]
  /\ job = [t \in Tabs |-> NoJob]
  /\ memo = NoForm
  /\ posts = [n \in Texts |-> 0]
  /\ changes = 0
  /\ told = {} /\ unsure = {} /\ shared = {}
  /\ left = [k \in DraftKinds |-> None]
  /\ crossed = [t \in Tabs |-> {}]

-----------------------------------------------------------------------------
(* cacheService                                                            *)

\* Mutant: a blank text is stored like any other.
EntryBlank(n) == n

\* writeEntry: a blank text removes the entry.
Entry(n) == IF n = 0 THEN None ELSE n

SaveSoon(t, k, n) == timer' = [timer EXCEPT ![t][k] = n]

SaveNow(t, k, n) ==
  /\ timer' = [timer EXCEPT ![t][k] = None]
  /\ draft' = [draft EXCEPT ![k] = Entry(n)]

Clear(t, k) == SaveNow(t, k, 0)

\* Mutant: the pending save is cancelled, and nothing written instead.
FlushDraftCancels(t) ==
  /\ timer' = [timer EXCEPT ![t] = [k \in DraftKinds |-> IF k = page[t] THEN None ELSE @[k]]]
  /\ UNCHANGED draft

\* flushDraft, when the page is hidden and when the editor goes away.
FlushDraft(t) ==
  IF page[t] \in DraftKinds /\ discarded[t] # form[t]["content"]
  THEN SaveNow(t, page[t], form[t]["content"])
  ELSE UNCHANGED <<draft, timer>>

\* The timeout of save().
WriteEntry(t, k) ==
  /\ timer[t][k] # None
  /\ SaveNow(t, k, timer[t][k])
  /\ UNCHANGED <<editor, save, server, changes, history>>

Hide(t) ==
  /\ page[t] # None
  /\ FlushDraft(t)
  /\ UNCHANGED <<editor, save, server, changes, history>>

-----------------------------------------------------------------------------
(* The editor                                                              *)

\* Somebody else has the text n of the key k in hand: an editor or a save.
Elsewhere(t, k, n) ==
  \/ \E u \in Tabs \ {t} : page[u] = k /\ form[u]["content"] = n
  \/ \E u \in Tabs : /\ step[u] # "no" /\ job[u].kind = k
                     /\ job[u].form["content"] = n

\* useMemoInit, and the first run of the effects of useAutoSave.
OpenDraft(t, k) ==
  LET n == IF draft[k] = None THEN 0 ELSE draft[k] IN
  /\ page[t] = None /\ k \in kinds \cap DraftKinds
  /\ page' = [page EXCEPT ![t] = k]
  /\ form' = [form EXCEPT ![t] = [NoForm EXCEPT !["content"] = n]]
  /\ discarded' = [discarded EXCEPT ![t] = None]
  /\ SaveSoon(t, k, n)
  /\ shared' = IF n # 0 /\ Elsewhere(t, k, n) THEN shared \cup {n} ELSE shared
  /\ left' = [left EXCEPT ![k] = None]
  /\ UNCHANGED <<draft, save, server, changes, told, unsure, crossed>>

\* The client's copy of the memo grows stale as others write.
OpenMemo(t) ==
  /\ page[t] = None /\ "edit" \in kinds
  /\ page' = [page EXCEPT ![t] = "edit"]
  /\ form' = [form EXCEPT ![t] = memo]
  /\ discarded' = [discarded EXCEPT ![t] = None]
  /\ UNCHANGED <<draft, timer, save, server, changes, history>>

\* The content becomes n; the effects of useAutoSave follow.
Become(t, n) ==
  /\ form' = [form EXCEPT ![t]["content"] = n]
  /\ discarded' = [discarded EXCEPT ![t] = IF @ = n THEN @ ELSE None]
  /\ IF page[t] \in DraftKinds THEN SaveSoon(t, page[t], n) ELSE UNCHANGED timer

Type(t) ==
  /\ page[t] # None /\ changes < MaxChanges
  /\ Become(t, changes + 1)
  /\ changes' = changes + 1
  /\ UNCHANGED <<draft, page, save, server, history>>

Erase(t) ==
  /\ page[t] # None /\ form[t]["content"] # 0
  /\ Become(t, 0)
  /\ UNCHANGED <<draft, page, save, server, changes, history>>

\* Only an edit is followed beyond its text.
Choose(t) ==
  /\ page[t] = "edit" /\ changes < MaxChanges
  /\ form' = [form EXCEPT ![t]["visibility"] = changes + 1]
  /\ changes' = changes + 1
  /\ UNCHANGED <<draft, timer, page, discarded, save, server, history>>

\* The editor of t goes away and takes no save with it.
Gone(t) ==
  /\ page' = [page EXCEPT ![t] = None]
  /\ form' = [form EXCEPT ![t] = NoForm]
  /\ discarded' = [discarded EXCEPT ![t] = None]

\* Nobody else has an editor or a save of the key, nor a timer: one outlives
\* an editor that is left with the text it discarded.
Alone(t, k) == /\ \A u \in Tabs \ {t} : page[u] # k /\ timer[u][k] = None
               /\ \A u \in Tabs : step[u] # "no" => job[u].kind # k

\* The editor is unmounted: cancelled, or its page is left.  A save goes on.
Leave(t) ==
  LET k == page[t] IN
  /\ k # None
  /\ FlushDraft(t) /\ Gone(t)
  /\ job' = [job EXCEPT ![t].open = FALSE]
  /\ left' = IF k \in DraftKinds /\ form[t]["content"] # 0 /\ Alone(t, k)
             THEN [left EXCEPT ![k] = form[t]["content"]] ELSE left
  /\ UNCHANGED <<step, server, changes, told, unsure, shared, crossed>>

\* No save of t is under way any more.
Ended(t) ==
  /\ step' = [step EXCEPT ![t] = "no"]
  /\ job' = [job EXCEPT ![t] = NoJob]
  /\ crossed' = [crossed EXCEPT ![t] = {}]

\* What was posted and will not be answered.
Unanswered(t) ==
  unsure' = IF step[t] = "sent" /\ job[t].kind \in DraftKinds
            THEN unsure \cup {job[t].form["content"]} ELSE unsure

\* The tab is closed, after the pagehide that Hide stands for, or crashes.
EndTab(t) ==
  /\ page[t] # None \/ step[t] # "no" \/ \E k \in DraftKinds : timer[t][k] # None
  /\ timer' = [timer EXCEPT ![t] = [k \in DraftKinds |-> None]]
  /\ Gone(t) /\ Unanswered(t) /\ Ended(t)
  /\ UNCHANGED <<draft, server, changes, told, shared, left>>

-----------------------------------------------------------------------------
(* handleSave and memoService.save                                         *)

\* canSave; the state that is saved is that of the click.  A tab follows one
\* save at a time.
Save(t) ==
  /\ page[t] # None /\ step[t] = "no"
  /\ form[t]["content"] # 0
  /\ step' = [step EXCEPT ![t] = IF page[t] = "edit" THEN "get" ELSE "send"]
  /\ job' = [job EXCEPT ![t] = [kind |-> page[t], open |-> TRUE,
                                form |-> form[t], mask |-> {}]]
  /\ UNCHANGED <<draft, timer, editor, server, changes, history>>

\* Mutant: the mask forgets a field.
DifferenceOfContent(t) == {f \in {"content"} : job[t].form[f] # memo[f]}

\* buildUpdateMask, against the memo that has just been read.
Difference(t) == {f \in Fields : job[t].form[f] # memo[f]}

\* Without a difference there is nothing to update, and onCancel closes.
GetMemo(t) ==
  /\ step[t] = "get"
  /\ IF Difference(t) = {}
     THEN Ended(t) /\ IF job[t].open THEN Gone(t) ELSE UNCHANGED editor
     ELSE /\ step' = [step EXCEPT ![t] = "send"]
          /\ job' = [job EXCEPT ![t].mask = Difference(t)]
          /\ crossed' = [crossed EXCEPT ![t] = {}]
          /\ UNCHANGED editor
  /\ UNCHANGED <<draft, timer, server, changes, told, unsure, shared, left>>

\* The fields of m are written by t; the updates of the others are crossed.
Written(t, m) == crossed' = [u \in Tabs |-> IF u = t THEN crossed[u] ELSE crossed[u] \cup m]

UpdateMemo(t) ==
  /\ step[t] = "send" /\ job[t].kind = "edit"
  /\ memo' = [f \in Fields |-> IF f \in job[t].mask THEN job[t].form[f] ELSE memo[f]]
  /\ Written(t, job[t].mask)
  /\ step' = [step EXCEPT ![t] = "sent"]
  /\ UNCHANGED <<draft, timer, editor, job, posts, changes, told, unsure, shared, left>>

\* createMemo or createMemoComment
PostMemo(t) ==
  /\ step[t] = "send" /\ job[t].kind \in DraftKinds
  /\ posts' = [posts EXCEPT ![job[t].form["content"]] = IF @ = 0 THEN 1 ELSE 2]
  /\ step' = [step EXCEPT ![t] = "sent"]
  /\ UNCHANGED <<draft, timer, editor, job, memo, changes, history>>

\* Mutant: the draft is cleared, and the flushes that follow are not stopped.
AnsweredClears(t) ==
  /\ step[t] = "sent"
  /\ step' = [step EXCEPT ![t] = "after"]
  /\ IF job[t].kind \in DraftKinds
     THEN Clear(t, job[t].kind) /\ told' = told \cup {job[t].form["content"]}
     ELSE UNCHANGED <<draft, timer, told>>
  /\ UNCHANGED <<editor, job, server, changes, unsure, shared, left, crossed>>

\* discardDraft: what the editor holds at this moment is not flushed again.
Answered(t) ==
  /\ step[t] = "sent"
  /\ step' = [step EXCEPT ![t] = "after"]
  /\ discarded' = IF job[t].open
                  THEN [discarded EXCEPT ![t] = form[t]["content"]] ELSE discarded
  /\ IF job[t].kind \in DraftKinds
     THEN Clear(t, job[t].kind) /\ told' = told \cup {job[t].form["content"]}
     ELSE UNCHANGED <<draft, timer, told>>
  /\ UNCHANGED <<page, form, job, server, changes, unsure, shared, left, crossed>>

\* Mutant: the editor keeps its text.
FinishKeeps(t) ==
  /\ step[t] = "after"
  /\ Ended(t)
  /\ UNCHANGED <<draft, timer, editor, server, changes, told, unsure, shared, left>>

\* The queries are invalidated: the home editor is reset, the others are
\* closed by onConfirm (in the same rendering, so that the text is flushed
\* that has been typed since discardDraft).
Finish(t) ==
  /\ step[t] = "after"
  /\ Ended(t)
  /\ IF ~ job[t].open THEN UNCHANGED <<draft, timer, editor>>
     ELSE IF job[t].kind = "home" THEN Become(t, 0) /\ UNCHANGED <<draft, page>>
     ELSE FlushDraft(t) /\ Gone(t)
  /\ UNCHANGED <<server, changes, told, unsure, shared, left>>

\* A request fails, or its answer is lost; the editor keeps what it has.
Fail(t) ==
  /\ step[t] \in {"get", "send", "sent"}
  /\ Ended(t) /\ Unanswered(t)
  /\ UNCHANGED <<draft, timer, editor, server, changes, told, shared, left>>

\* Another client updates the memo.
Others(f) ==
  /\ changes < MaxChanges /\ "edit" \in kinds
  /\ changes' = changes + 1
  /\ memo' = [memo EXCEPT ![f] = changes + 1]
  /\ crossed' = [t \in Tabs |-> crossed[t] \cup {f}]
  /\ UNCHANGED <<draft, timer, editor, save, posts, told, unsure, shared, left>>

-----------------------------------------------------------------------------
User(t) == \/ OpenMemo(t) \/ Type(t) \/ Erase(t) \/ Choose(t) \/ Save(t)
           \/ Hide(t) \/ Leave(t) \/ EndTab(t)

Saving(t) == \/ GetMemo(t) \/ UpdateMemo(t) \/ PostMemo(t) \/ Answered(t)
             \/ Finish(t) \/ Fail(t)

Next == /\ \/ \E t \in Tabs : User(t) \/ Saving(t)
           \/ \E t \in Tabs, k \in DraftKinds : OpenDraft(t, k) \/ WriteEntry(t, k)
           \/ \E f \in Fields : Others(f)
        /\ UNCHANGED kinds

Spec == Init /\ [][Next]_vars

-----------------------------------------------------------------------------
\* What was posted does not come back as a draft: neither the timer nor a flush
\* during the rest of the save writes it again.  Only a second editor that had
\* loaded the draft can.
PostedIsGone ==
  \A k \in DraftKinds : draft[k] \in told => draft[k] \in shared

\* A text is posted once, unless a POST went unanswered and was repeated, or
\* two editors had it.
PostedOnce == \A n \in Texts : posts[n] > 1 => n \in unsure \cup shared

\* The text in an editor that is left without a save, when no other tab has
\* the same editor open, is the draft that the next editor finds.
DraftKept == \A k \in DraftKinds : left[k] # None => draft[k] = left[k]

\* An update makes the memo what the user saw on pressing save, but for the
\* fields that others have written since it read the memo.
SavedAsShown ==
  \A t \in Tabs : job[t].kind = "edit" /\ step[t] \in {"sent", "after"} =>
    \A f \in Fields \ crossed[t] : memo[f] = job[t].form[f]
=============================================================================
