------------------------- MODULE MemoEditor_proofs -------------------------
(***************************************************************************)
(* Proofs about MemoEditor: its type invariant, and its four properties:   *)
(* what was posted does not come back as a draft, nothing is posted twice  *)
(* unasked, the text that is left is kept, an edit saves what was shown.   *)
(***************************************************************************)
EXTENDS MemoEditor, Integers, TLAPS

Drafts == [DraftKinds -> (Texts \ {0}) \cup {None}]
Pending == [DraftKinds -> Texts \cup {None}]
Forms == [Fields -> Texts]

-----------------------------------------------------------------------------
(* Types.                                                                  *)

LEMMA TypeParts ==
  ASSUME kinds' \in Mixes, draft' \in Drafts, timer' \in [Tabs -> Pending],
         page' \in [Tabs -> kinds' \cup {None}], form' \in [Tabs -> Forms],
         discarded' \in [Tabs -> Texts \cup {None}], step' \in [Tabs -> Steps],
         job' \in [Tabs -> Jobs], memo' \in Forms, posts' \in [Texts -> 0 .. 2],
         changes' \in Texts, told' \subseteq Texts, unsure' \subseteq Texts,
         shared' \subseteq Texts, left' \in [DraftKinds -> Texts \cup {None}],
         crossed' \in [Tabs -> SUBSET Fields]
  PROVE  TypeOK'
BY DEF TypeOK, Drafts, Pending, Forms

LEMMA TypeNow ==
  ASSUME TypeOK
  PROVE  /\ kinds \in Mixes /\ draft \in Drafts /\ timer \in [Tabs -> Pending]
         /\ page \in [Tabs -> kinds \cup {None}] /\ form \in [Tabs -> Forms]
         /\ discarded \in [Tabs -> Texts \cup {None}] /\ step \in [Tabs -> Steps]
         /\ job \in [Tabs -> Jobs] /\ memo \in Forms /\ posts \in [Texts -> 0 .. 2]
         /\ changes \in Texts /\ told \subseteq Texts /\ unsure \subseteq Texts
         /\ shared \subseteq Texts /\ left \in [DraftKinds -> Texts \cup {None}]
         /\ crossed \in [Tabs -> SUBSET Fields]
BY DEF TypeOK, Drafts, Pending, Forms

LEMMA Sorts ==
  /\ 0 \in Texts /\ Texts \subseteq Nat /\ None \notin Texts /\ None \notin Kinds
  /\ DraftKinds \subseteq Kinds /\ "edit" \in Kinds /\ "edit" \notin DraftKinds
  /\ "content" \in Fields /\ "visibility" \in Fields
BY EditorAssumption DEF Texts, Kinds, DraftKinds, Fields

LEMMA Blanks ==
  /\ NoForm \in Forms /\ NoForm["content"] = 0
  /\ NoJob \in Jobs /\ NoJob.kind = None /\ NoJob.open = FALSE
BY Sorts DEF NoForm, NoJob, Forms, Jobs

LEMMA NextNumber ==
  ASSUME changes \in Texts, changes < MaxChanges
  PROVE  changes + 1 \in Texts
BY EditorAssumption DEF Texts

LEMMA JobParts ==
  ASSUME TypeOK, NEW t \in Tabs
  PROVE  /\ job[t] \in Jobs
         /\ job[t].kind \in Kinds \cup {None} /\ job[t].form \in Forms
         /\ job[t].mask \in SUBSET Fields /\ job[t].open \in BOOLEAN
         /\ job[t].form["content"] \in Texts /\ form[t]["content"] \in Texts
         /\ form[t] \in Forms
<1>1. job[t] \in Jobs /\ form[t] \in Forms
  BY TypeNow
<1> QED
  BY <1>1, Sorts DEF Jobs, Forms

(* Any page that is open is of one of the kinds.                           *)
LEMMA PageKinds ==
  ASSUME TypeOK, NEW t \in Tabs
  PROVE  page[t] \in Kinds \cup {None} /\ page[t] \in kinds \cup {None}
BY TypeNow, EditorAssumption

LEMMA ContentSet ==
  ASSUME NEW s \in Forms, NEW n \in Texts, NEW f \in Fields
  PROVE  [s EXCEPT ![f] = n] \in Forms /\ [s EXCEPT ![f] = n][f] = n
BY DEF Forms

(* cacheService, by what it does to the entries.                           *)
LEMMA SoonSets ==
  ASSUME timer \in [Tabs -> Pending], NEW t \in Tabs, NEW k \in DraftKinds, NEW n \in Texts,
         SaveSoon(t, k, n)
  PROVE  /\ timer' \in [Tabs -> Pending]
         /\ timer'[t][k] = n
         /\ \A u \in Tabs, l \in DraftKinds : u # t \/ l # k => timer'[u][l] = timer[u][l]
BY DEF SaveSoon, Pending

LEMMA NowSets ==
  ASSUME timer \in [Tabs -> Pending], draft \in Drafts,
         NEW t \in Tabs, NEW k \in DraftKinds, NEW n \in Texts, SaveNow(t, k, n)
  PROVE  /\ timer' \in [Tabs -> Pending] /\ draft' \in Drafts
         /\ timer'[t][k] = None
         /\ \A u \in Tabs, l \in DraftKinds : u # t \/ l # k => timer'[u][l] = timer[u][l]
         /\ draft'[k] = IF n = 0 THEN None ELSE n
         /\ \A l \in DraftKinds : l # k => draft'[l] = draft[l]
<1>1. timer' = [timer EXCEPT ![t][k] = None]
  BY DEF SaveNow
<1>2. draft' = [draft EXCEPT ![k] = Entry(n)] /\ Entry(n) \in (Texts \ {0}) \cup {None}
  BY DEF SaveNow, Entry
<1>3. /\ timer' \in [Tabs -> Pending] /\ timer'[t][k] = None
      /\ \A u \in Tabs, l \in DraftKinds : u # t \/ l # k => timer'[u][l] = timer[u][l]
  BY <1>1 DEF Pending
<1>4. /\ draft' \in Drafts /\ draft'[k] = Entry(n)
      /\ \A l \in DraftKinds : l # k => draft'[l] = draft[l]
  BY <1>2 DEF Drafts
<1> QED
  BY <1>3, <1>4 DEF Entry

(* A flush writes the text of the editor, or does nothing.                 *)
LEMMA FlushSets ==
  ASSUME TypeOK, NEW t \in Tabs, FlushDraft(t)
  PROVE  /\ timer' \in [Tabs -> Pending] /\ draft' \in Drafts
         /\ \/ UNCHANGED <<draft, timer>>
               /\ (page[t] \notin DraftKinds \/ discarded[t] = form[t]["content"])
            \/ /\ page[t] \in DraftKinds /\ discarded[t] # form[t]["content"]
               /\ timer'[t][page[t]] = None
               /\ \A u \in Tabs, l \in DraftKinds :
                    u # t \/ l # page[t] => timer'[u][l] = timer[u][l]
               /\ draft'[page[t]] = IF form[t]["content"] = 0 THEN None ELSE form[t]["content"]
               /\ \A l \in DraftKinds : l # page[t] => draft'[l] = draft[l]
<1>1. form[t]["content"] \in Texts /\ timer \in [Tabs -> Pending] /\ draft \in Drafts
  BY JobParts, TypeNow
<1>2. CASE page[t] \in DraftKinds /\ discarded[t] # form[t]["content"]
  <2>1. SaveNow(t, page[t], form[t]["content"])
    BY <1>2 DEF FlushDraft
  <2> QED BY <1>1, <1>2, <2>1, NowSets
<1>3. CASE ~(page[t] \in DraftKinds /\ discarded[t] # form[t]["content"])
  BY <1>1, <1>3 DEF FlushDraft
<1> QED
  BY <1>2, <1>3

LEMMA GoneSets ==
  ASSUME TypeOK, NEW t \in Tabs, Gone(t), UNCHANGED kinds
  PROVE  /\ page' \in [Tabs -> kinds' \cup {None}] /\ form' \in [Tabs -> Forms]
         /\ discarded' \in [Tabs -> Texts \cup {None}]
         /\ page'[t] = None
         /\ \A u \in Tabs \ {t} : /\ page'[u] = page[u] /\ form'[u] = form[u]
                                  /\ discarded'[u] = discarded[u]
BY TypeNow, Blanks DEF Gone

LEMMA EndedSets ==
  ASSUME TypeOK, NEW t \in Tabs, Ended(t)
  PROVE  /\ step' \in [Tabs -> Steps] /\ job' \in [Tabs -> Jobs]
         /\ crossed' \in [Tabs -> SUBSET Fields]
         /\ step'[t] = "no" /\ job'[t] = NoJob
         /\ \A u \in Tabs \ {t} : /\ step'[u] = step[u] /\ job'[u] = job[u]
                                  /\ crossed'[u] = crossed[u]
BY TypeNow, Blanks DEF Ended, Steps

LEMMA BecomeSets ==
  ASSUME TypeOK, NEW t \in Tabs, NEW n \in Texts, Become(t, n)
  PROVE  /\ form' \in [Tabs -> Forms] /\ discarded' \in [Tabs -> Texts \cup {None}]
         /\ timer' \in [Tabs -> Pending]
         /\ form'[t]["content"] = n
         /\ discarded'[t] = IF discarded[t] = n THEN n ELSE None
         /\ \A u \in Tabs \ {t} : form'[u] = form[u] /\ discarded'[u] = discarded[u]
         /\ page[t] \in DraftKinds =>
              /\ timer'[t][page[t]] = n
              /\ \A u \in Tabs, l \in DraftKinds :
                   u # t \/ l # page[t] => timer'[u][l] = timer[u][l]
         /\ page[t] \notin DraftKinds => UNCHANGED timer
<1>1. form[t] \in Forms /\ form \in [Tabs -> Forms] /\ timer \in [Tabs -> Pending]
  BY JobParts, TypeNow
<1>2. form' = [form EXCEPT ![t] = [form[t] EXCEPT !["content"] = n]]
  BY <1>1 DEF Become
<1>3. /\ form' \in [Tabs -> Forms] /\ form'[t]["content"] = n
      /\ \A u \in Tabs \ {t} : form'[u] = form[u]
  <2>1. [form[t] EXCEPT !["content"] = n] \in Forms /\ [form[t] EXCEPT !["content"] = n]["content"] = n
    BY <1>1, ContentSet, Sorts
  <2> QED BY <1>1, <1>2, <2>1
<1>4. /\ discarded' \in [Tabs -> Texts \cup {None}]
      /\ discarded'[t] = IF discarded[t] = n THEN n ELSE None
      /\ \A u \in Tabs \ {t} : discarded'[u] = discarded[u]
  BY TypeNow DEF Become
<1>5. CASE page[t] \in DraftKinds
  BY <1>1, <1>3, <1>4, <1>5, SoonSets DEF Become
<1>6. CASE page[t] \notin DraftKinds
  BY <1>1, <1>3, <1>4, <1>6 DEF Become
<1> QED
  BY <1>5, <1>6

LEMMA DraftSteps ==
  ASSUME TypeOK, UNCHANGED kinds, NEW t \in Tabs, NEW k \in DraftKinds,
         WriteEntry(t, k) \/ OpenDraft(t, k)
  PROVE  TypeOK'
<1>1. CASE WriteEntry(t, k)
  <2>1. timer[t][k] \in Texts /\ SaveNow(t, k, timer[t][k])
    BY <1>1, TypeNow DEF WriteEntry, Pending
  <2>2. timer' \in [Tabs -> Pending] /\ draft' \in Drafts
    BY <2>1, TypeNow, NowSets
  <2> QED BY <1>1, <2>2, TypeNow, TypeParts DEF WriteEntry, editor, save, server, history
<1>2. CASE OpenDraft(t, k)
  <2> DEFINE n == IF draft[k] = None THEN 0 ELSE draft[k]
  <2>1. n \in Texts
    BY TypeNow, Sorts DEF Drafts
  <2>2. SaveSoon(t, k, n) /\ page' = [page EXCEPT ![t] = k] /\ k \in kinds
    BY <1>2 DEF OpenDraft
  <2>3. /\ form' = [form EXCEPT ![t] = [NoForm EXCEPT !["content"] = n]]
        /\ shared' \subseteq shared \cup {n}
    BY <1>2 DEF OpenDraft
  <2> HIDE DEF n
  <2>4. timer' \in [Tabs -> Pending]
    BY <2>1, <2>2, TypeNow, SoonSets
  <2>5. [NoForm EXCEPT !["content"] = n] \in Forms
    BY <2>1, Blanks, ContentSet, Sorts
  <2>6. form' \in [Tabs -> Forms]
    BY <2>3, <2>5, TypeNow
  <2>7. /\ page' \in [Tabs -> kinds' \cup {None}]
        /\ discarded' \in [Tabs -> Texts \cup {None}]
        /\ left' \in [DraftKinds -> Texts \cup {None}]
    BY <1>2, <2>2, TypeNow DEF OpenDraft
  <2>8. UNCHANGED <<draft, step, job, memo, posts, changes, told, unsure, crossed>>
    BY <1>2 DEF OpenDraft, save, server
  <2> QED BY <2>1, <2>3, <2>4, <2>6, <2>7, <2>8, TypeNow, TypeParts
<1> QED
  BY <1>1, <1>2

LEMMA TypingSteps ==
  ASSUME TypeOK, UNCHANGED kinds, NEW t \in Tabs,
         OpenMemo(t) \/ Type(t) \/ Erase(t) \/ Choose(t)
  PROVE  TypeOK'
<1> USE DEF editor, save, server, history
<1>1. CASE OpenMemo(t)
  BY <1>1, TypeNow, TypeParts DEF OpenMemo
<1>2. CASE Type(t)
  <2>1. changes + 1 \in Texts
    BY <1>2, TypeNow, NextNumber DEF Type
  <2>2. /\ form' \in [Tabs -> Forms] /\ discarded' \in [Tabs -> Texts \cup {None}]
        /\ timer' \in [Tabs -> Pending]
    BY <1>2, <2>1, BecomeSets DEF Type
  <2> QED BY <1>2, <2>1, <2>2, TypeNow, TypeParts DEF Type
<1>3. CASE Erase(t)
  <2>1. /\ form' \in [Tabs -> Forms] /\ discarded' \in [Tabs -> Texts \cup {None}]
        /\ timer' \in [Tabs -> Pending]
    BY <1>3, Sorts, BecomeSets DEF Erase
  <2> QED BY <1>3, <2>1, TypeNow, TypeParts DEF Erase
<1>4. CASE Choose(t)
  <2>1. changes + 1 \in Texts
    BY <1>4, TypeNow, NextNumber DEF Choose
  <2>2. form' = [form EXCEPT ![t] = [form[t] EXCEPT !["visibility"] = changes + 1]]
    BY <1>4, TypeNow DEF Choose
  <2>3. [form[t] EXCEPT !["visibility"] = changes + 1] \in Forms
    BY <2>1, JobParts, ContentSet, Sorts
  <2> QED BY <1>4, <2>1, <2>2, <2>3, TypeNow, TypeParts DEF Choose
<1> QED
  BY <1>1, <1>2, <1>3, <1>4

LEMMA LeavingSteps ==
  ASSUME TypeOK, UNCHANGED kinds, NEW t \in Tabs,
         Hide(t) \/ Leave(t) \/ EndTab(t) \/ Save(t)
  PROVE  TypeOK'
<1> USE DEF editor, save, server, history
<1>1. CASE Hide(t)
  <2>1. timer' \in [Tabs -> Pending] /\ draft' \in Drafts
    BY <1>1, FlushSets DEF Hide
  <2> QED BY <1>1, <2>1, TypeNow, TypeParts DEF Hide
<1>2. CASE Leave(t)
  <2>1. timer' \in [Tabs -> Pending] /\ draft' \in Drafts
    BY <1>2, FlushSets DEF Leave
  <2>2. /\ page' \in [Tabs -> kinds' \cup {None}] /\ form' \in [Tabs -> Forms]
        /\ discarded' \in [Tabs -> Texts \cup {None}]
    BY <1>2, GoneSets DEF Leave
  <2>3. job' = [job EXCEPT ![t] = [job[t] EXCEPT !.open = FALSE]]
    BY <1>2, TypeNow DEF Leave
  <2>4. [job[t] EXCEPT !.open = FALSE] \in Jobs
    <3>1. job[t] \in Jobs
      BY JobParts
    <3> QED BY <3>1 DEF Jobs
  <2>5. left' \in [DraftKinds -> Texts \cup {None}]
    BY <1>2, JobParts, TypeNow DEF Leave
  <2> QED BY <1>2, <2>1, <2>2, <2>3, <2>4, <2>5, TypeNow, TypeParts DEF Leave
<1>3. CASE EndTab(t)
  <2>1. /\ page' \in [Tabs -> kinds' \cup {None}] /\ form' \in [Tabs -> Forms]
        /\ discarded' \in [Tabs -> Texts \cup {None}]
    BY <1>3, GoneSets DEF EndTab
  <2>2. /\ step' \in [Tabs -> Steps] /\ job' \in [Tabs -> Jobs]
        /\ crossed' \in [Tabs -> SUBSET Fields]
    BY <1>3, EndedSets DEF EndTab
  <2>3. timer' \in [Tabs -> Pending]
    BY <1>3, TypeNow DEF EndTab, Pending
  <2>4. unsure' \subseteq Texts
    BY <1>3, JobParts, TypeNow DEF EndTab, Unanswered
  <2> QED BY <1>3, <2>1, <2>2, <2>3, <2>4, TypeNow, TypeParts DEF EndTab
<1>4. CASE Save(t)
  <2> DEFINE r == [kind |-> page[t], open |-> TRUE, form |-> form[t], mask |-> {}]
  <2>1. r \in Jobs
    BY PageKinds, JobParts DEF Jobs, Forms
  <2>2. job' \in [Tabs -> Jobs]
    BY <1>4, <2>1, TypeNow DEF Save
  <2>3. step' \in [Tabs -> Steps]
    BY <1>4, TypeNow DEF Save, Steps
  <2> QED BY <1>4, <2>2, <2>3, TypeNow, TypeParts DEF Save
<1> QED
  BY <1>1, <1>2, <1>3, <1>4

LEMMA RequestSteps ==
  ASSUME TypeOK, UNCHANGED kinds, NEW t \in Tabs,
         GetMemo(t) \/ UpdateMemo(t) \/ PostMemo(t)
  PROVE  TypeOK'
<1> USE DEF editor, save, server, history
<1>1. CASE GetMemo(t)
  <2>1. CASE Difference(t) = {}
    <3>1. /\ step' \in [Tabs -> Steps] /\ job' \in [Tabs -> Jobs]
          /\ crossed' \in [Tabs -> SUBSET Fields]
      BY <1>1, <2>1, EndedSets DEF GetMemo
    <3>2. /\ page' \in [Tabs -> kinds' \cup {None}] /\ form' \in [Tabs -> Forms]
          /\ discarded' \in [Tabs -> Texts \cup {None}]
      BY <1>1, <2>1, GoneSets, TypeNow DEF GetMemo
    <3> QED BY <1>1, <3>1, <3>2, TypeNow, TypeParts DEF GetMemo
  <2>2. CASE Difference(t) # {}
    <3>1. job' = [job EXCEPT ![t] = [job[t] EXCEPT !.mask = Difference(t)]]
      BY <1>1, <2>2, TypeNow DEF GetMemo
    <3>2. [job[t] EXCEPT !.mask = Difference(t)] \in Jobs
      <4>1. job[t] \in Jobs /\ Difference(t) \in SUBSET Fields
        BY JobParts DEF Difference
      <4> QED BY <4>1 DEF Jobs
    <3>3. step' \in [Tabs -> Steps] /\ crossed' \in [Tabs -> SUBSET Fields]
      BY <1>1, <2>2, TypeNow DEF GetMemo, Steps
    <3> QED BY <1>1, <2>2, <3>1, <3>2, <3>3, TypeNow, TypeParts DEF GetMemo
  <2> QED BY <2>1, <2>2
<1>2. CASE UpdateMemo(t)
  <2>1. memo' \in Forms
    BY <1>2, JobParts, TypeNow DEF UpdateMemo, Forms
  <2>2. step' \in [Tabs -> Steps] /\ crossed' \in [Tabs -> SUBSET Fields]
    BY <1>2, JobParts, TypeNow DEF UpdateMemo, Written, Steps
  <2> QED BY <1>2, <2>1, <2>2, TypeNow, TypeParts DEF UpdateMemo
<1>3. CASE PostMemo(t)
  <2>1. posts' \in [Texts -> 0 .. 2]
    <3>1. PICK n : n = job[t].form["content"]
      OBVIOUS
    <3>2. n \in Texts /\ posts' = [posts EXCEPT ![n] = IF posts[n] = 0 THEN 1 ELSE 2]
      BY <1>3, <3>1, JobParts, TypeNow DEF PostMemo
    <3>3. (IF posts[n] = 0 THEN 1 ELSE 2) \in 0 .. 2
      OBVIOUS
    <3> QED BY <3>2, <3>3, TypeNow
  <2>2. step' \in [Tabs -> Steps]
    BY <1>3, TypeNow DEF PostMemo, Steps
  <2> QED BY <1>3, <2>1, <2>2, TypeNow, TypeParts DEF PostMemo
<1> QED
  BY <1>1, <1>2, <1>3

LEMMA AnswerSteps ==
  ASSUME TypeOK, UNCHANGED kinds, NEW t \in Tabs,
         Answered(t) \/ Finish(t) \/ Fail(t)
  PROVE  TypeOK'
<1> USE DEF editor, save, server, history
<1>1. CASE Answered(t)
  <2>1. discarded' \in [Tabs -> Texts \cup {None}]
    BY <1>1, JobParts, TypeNow DEF Answered
  <2>2. step' \in [Tabs -> Steps]
    BY <1>1, TypeNow DEF Answered, Steps
  <2>3. timer' \in [Tabs -> Pending] /\ draft' \in Drafts /\ told' \subseteq Texts
    <3>1. CASE job[t].kind \in DraftKinds
      <4>1. SaveNow(t, job[t].kind, 0) /\ told' = told \cup {job[t].form["content"]}
        BY <1>1, <3>1 DEF Answered, Clear
      <4> QED BY <3>1, <4>1, NowSets, JobParts, TypeNow, Sorts
    <3>2. CASE job[t].kind \notin DraftKinds
      BY <1>1, <3>2, TypeNow DEF Answered
    <3> QED BY <3>1, <3>2
  <2> QED BY <1>1, <2>1, <2>2, <2>3, TypeNow, TypeParts DEF Answered
<1>2. CASE Finish(t)
  <2>1. /\ step' \in [Tabs -> Steps] /\ job' \in [Tabs -> Jobs]
        /\ crossed' \in [Tabs -> SUBSET Fields]
    BY <1>2, EndedSets DEF Finish
  <2>2. /\ timer' \in [Tabs -> Pending] /\ draft' \in Drafts
        /\ page' \in [Tabs -> kinds' \cup {None}] /\ form' \in [Tabs -> Forms]
        /\ discarded' \in [Tabs -> Texts \cup {None}]
    <3>1. CASE ~job[t].open
      BY <1>2, <3>1, TypeNow DEF Finish
    <3>2. CASE job[t].open /\ job[t].kind = "home"
      BY <1>2, <3>2, BecomeSets, TypeNow, Sorts DEF Finish
    <3>3. CASE job[t].open /\ job[t].kind # "home"
      BY <1>2, <3>3, FlushSets, GoneSets DEF Finish
    <3> QED BY <3>1, <3>2, <3>3
  <2> QED BY <1>2, <2>1, <2>2, TypeNow, TypeParts DEF Finish
<1>3. CASE Fail(t)
  <2>1. /\ step' \in [Tabs -> Steps] /\ job' \in [Tabs -> Jobs]
        /\ crossed' \in [Tabs -> SUBSET Fields]
    BY <1>3, EndedSets DEF Fail
  <2>2. unsure' \subseteq Texts
    BY <1>3, JobParts, TypeNow DEF Fail, Unanswered
  <2> QED BY <1>3, <2>1, <2>2, TypeNow, TypeParts DEF Fail
<1> QED
  BY <1>1, <1>2, <1>3

LEMMA OthersTyped ==
  ASSUME TypeOK, UNCHANGED kinds, NEW f \in Fields, Others(f)
  PROVE  TypeOK'
<1>1. changes + 1 \in Texts
  BY TypeNow, NextNumber DEF Others
<1>2. memo' \in Forms
  BY <1>1, TypeNow, ContentSet DEF Others
<1>3. crossed' \in [Tabs -> SUBSET Fields]
  BY TypeNow DEF Others
<1> QED
  BY <1>1, <1>2, <1>3, TypeNow, TypeParts DEF Others, editor, save

LEMMA StepTyped ==
  ASSUME TypeOK, [Next]_vars
  PROVE  TypeOK'
<1>1. CASE UNCHANGED vars
  BY <1>1 DEF vars, editor, save, server, history, TypeOK
<1>2. CASE Next
  BY <1>2, DraftSteps, TypingSteps, LeavingSteps, RequestSteps, AnswerSteps, OthersTyped
     DEF Next, User, Saving
<1> QED
  BY <1>1, <1>2

LEMMA InitTyped == Init => TypeOK
BY Sorts, Blanks DEF Init, TypeOK, Forms, Steps

(* Whatever the tabs do, drafts, timers, editors and saves hold texts and  *)
(* only texts; no draft is blank.                                          *)
THEOREM TypeCorrect == Spec => []TypeOK
BY InitTyped, StepTyped, PTL DEF Spec

-----------------------------------------------------------------------------
(* What a step of one tab leaves alone.                                    *)

TabStep(t) == \/ User(t) \/ Saving(t)
              \/ \E k \in DraftKinds : OpenDraft(t, k) \/ WriteEntry(t, k)

LEMMA OtherTabs ==
  ASSUME TypeOK, UNCHANGED kinds, NEW t \in Tabs, TabStep(t), NEW u \in Tabs \ {t}
  PROVE  /\ page'[u] = page[u] /\ form'[u] = form[u] /\ discarded'[u] = discarded[u]
         /\ step'[u] = step[u] /\ job'[u] = job[u]
         /\ \A k \in DraftKinds : timer'[u][k] = timer[u][k]
<1> USE DEF editor, save
<1>1. CASE \E k \in DraftKinds : OpenDraft(t, k) \/ WriteEntry(t, k)
  <2>1. PICK k \in DraftKinds : OpenDraft(t, k) \/ WriteEntry(t, k)
    BY <1>1
  <2>2. CASE OpenDraft(t, k)
    <3>1. timer' = [timer EXCEPT ![t][k] = IF draft[k] = None THEN 0 ELSE draft[k]]
      BY <2>2 DEF OpenDraft, SaveSoon
    <3> QED BY <2>2, <3>1, TypeNow DEF OpenDraft, Pending
  <2>3. CASE WriteEntry(t, k)
    BY <2>3, TypeNow DEF WriteEntry, SaveNow, Pending
  <2> QED BY <2>1, <2>2, <2>3
<1>2. CASE OpenMemo(t) \/ Choose(t) \/ Save(t)
  BY <1>2, TypeNow DEF OpenMemo, Choose, Save
<1>3. CASE Type(t)
  <2>1. changes + 1 \in Texts /\ Become(t, changes + 1)
    BY <1>3, TypeNow, NextNumber DEF Type
  <2> QED BY <1>3, <2>1, BecomeSets DEF Type
<1>4. CASE Erase(t)
  BY <1>4, Sorts, BecomeSets DEF Erase
<1>5. CASE Hide(t)
  BY <1>5, FlushSets DEF Hide
<1>6. CASE Leave(t)
  BY <1>6, FlushSets, GoneSets, TypeNow DEF Leave
<1>7. CASE EndTab(t)
  BY <1>7, GoneSets, EndedSets, TypeNow DEF EndTab
<1>8. CASE GetMemo(t)
  BY <1>8, GoneSets, EndedSets, TypeNow DEF GetMemo
<1>9. CASE UpdateMemo(t) \/ PostMemo(t)
  BY <1>9, TypeNow DEF UpdateMemo, PostMemo
<1>10. CASE Answered(t)
  <2>1. \A k \in DraftKinds : timer'[u][k] = timer[u][k]
    <3>1. CASE job[t].kind \in DraftKinds
      BY <1>10, <3>1, NowSets, TypeNow, Sorts DEF Answered, Clear
    <3>2. CASE job[t].kind \notin DraftKinds
      BY <1>10, <3>2 DEF Answered
    <3> QED BY <3>1, <3>2
  <2> QED BY <1>10, <2>1, TypeNow DEF Answered
<1>11. CASE Finish(t)
  <2>1. step'[u] = step[u] /\ job'[u] = job[u]
    BY <1>11, EndedSets DEF Finish
  <2>2. CASE ~job[t].open
    BY <1>11, <2>1, <2>2 DEF Finish
  <2>3. CASE job[t].open /\ job[t].kind = "home"
    BY <1>11, <2>1, <2>3, BecomeSets, Sorts DEF Finish
  <2>4. CASE job[t].open /\ job[t].kind # "home"
    BY <1>11, <2>1, <2>4, FlushSets, GoneSets DEF Finish
  <2> QED BY <2>2, <2>3, <2>4
<1>12. CASE Fail(t)
  BY <1>12, EndedSets DEF Fail
<1> QED
  BY <1>1, <1>2, <1>3, <1>4, <1>5, <1>6, <1>7, <1>8, <1>9, <1>10, <1>11, <1>12
     DEF TabStep, User, Saving

(* What every step is.                                                     *)
LEMMA StepOfTab ==
  ASSUME Next
  PROVE  UNCHANGED kinds /\ ((\E t \in Tabs : TabStep(t)) \/ (\E f \in Fields : Others(f)))
BY DEF Next, TabStep

-----------------------------------------------------------------------------
(* Saves.                                                                  *)

JobRight(t) ==
  step[t] # "no" =>
    /\ job[t].form["content"] # 0 /\ job[t].kind # None
    /\ job[t].open => page[t] = job[t].kind
    /\ step[t] = "get" => job[t].kind = "edit"

(* The fields of an update that nobody crossed are the memo's already, or  *)
(* are on their way to it.                                                 *)
MaskRight(t) ==
  job[t].kind = "edit" =>
    \A f \in Fields \ crossed[t] :
      /\ step[t] = "send" => f \in job[t].mask \/ memo[f] = job[t].form[f]
      /\ step[t] \in {"sent", "after"} => memo[f] = job[t].form[f]

SavesInv == TypeOK /\ \A t \in Tabs : JobRight(t) /\ MaskRight(t)

(* A step that ends the save of t, or does not touch it.                   *)
LEMMA NoSave ==
  ASSUME NEW t \in Tabs, step'[t] = "no"
  PROVE  (JobRight(t) /\ MaskRight(t))'
BY DEF JobRight, MaskRight

LEMMA SameSave ==
  ASSUME NEW t \in Tabs, JobRight(t), MaskRight(t),
         step'[t] = step[t], job'[t].kind = job[t].kind, job'[t].form = job[t].form,
         job'[t].mask = job[t].mask, job'[t].open => job[t].open /\ page'[t] = page[t],
         crossed[t] \subseteq crossed'[t],
         \A f \in Fields \ crossed'[t] : memo'[f] = memo[f]
  PROVE  (JobRight(t) /\ MaskRight(t))'
BY DEF JobRight, MaskRight

LEMMA OthersSave ==
  ASSUME SavesInv, UNCHANGED kinds, NEW t \in Tabs, TabStep(t), NEW u \in Tabs \ {t}
  PROVE  (JobRight(u) /\ MaskRight(u))'
<1> USE DEF SavesInv
<1>1. /\ step'[u] = step[u] /\ job'[u] = job[u] /\ page'[u] = page[u]
  BY OtherTabs
<1>2. CASE UpdateMemo(t)
  <2>1. crossed'[u] = crossed[u] \cup job[t].mask
    BY <1>2 DEF UpdateMemo, Written
  <2>2. \A f \in Fields \ crossed'[u] : memo'[f] = memo[f]
    BY <1>2, <2>1 DEF UpdateMemo
  <2> QED BY <1>1, <2>1, <2>2, SameSave
<1>3. CASE ~UpdateMemo(t)
  <2>1. UNCHANGED memo
    BY <1>3 DEF TabStep, User, Saving, OpenDraft, WriteEntry, OpenMemo, Type, Erase, Choose, Save,
       Hide, Leave, EndTab, GetMemo, PostMemo, Answered, Finish, Fail, server
  <2>2. crossed'[u] = crossed[u]
    <3>1. CASE GetMemo(t) \/ Finish(t) \/ Fail(t) \/ EndTab(t)
      BY <3>1, EndedSets, TypeNow DEF GetMemo, Finish, Fail, EndTab
    <3>2. CASE ~(GetMemo(t) \/ Finish(t) \/ Fail(t) \/ EndTab(t))
      BY <1>3, <3>2 DEF TabStep, User, Saving, OpenDraft, WriteEntry, OpenMemo, Type, Erase, Choose,
         Save, Hide, Leave, PostMemo, Answered, history
    <3> QED BY <3>1, <3>2
  <2> QED BY <1>1, <2>1, <2>2, SameSave
<1> QED
  BY <1>2, <1>3

LEMMA OwnSave ==
  ASSUME SavesInv, UNCHANGED kinds, NEW t \in Tabs, TabStep(t)
  PROVE  (JobRight(t) /\ MaskRight(t))'
<1> USE DEF SavesInv, editor, save, server, history
<1>1. JobRight(t) /\ MaskRight(t)
  OBVIOUS
<1>2. CASE \E k \in DraftKinds : OpenDraft(t, k) \/ WriteEntry(t, k)
  <2>1. UNCHANGED <<memo, crossed, step, job>>
    BY <1>2 DEF OpenDraft, WriteEntry
  <2>2. job'[t].open /\ step[t] # "no" => page'[t] = page[t]
    <3>1. ASSUME NEW k \in DraftKinds, OpenDraft(t, k), step[t] # "no" PROVE ~job[t].open
      <4>1. page[t] = None /\ job[t].kind # None
        BY <1>1, <3>1 DEF OpenDraft, JobRight
      <4> QED BY <1>1, <3>1, <4>1 DEF JobRight
    <3>2. ASSUME NEW k \in DraftKinds, WriteEntry(t, k) PROVE page'[t] = page[t]
      BY <3>2 DEF WriteEntry
    <3> QED BY <1>2, <2>1, <3>1, <3>2
  <2> QED BY <1>1, <2>1, <2>2 DEF JobRight, MaskRight
<1>3. CASE Type(t) \/ Erase(t) \/ Choose(t) \/ Hide(t)
  BY <1>1, <1>3, SameSave DEF Type, Erase, Choose, Hide
<1>4. CASE OpenMemo(t)
  <2>1. step[t] # "no" => ~job[t].open
    BY <1>1, <1>4 DEF OpenMemo, JobRight
  <2> QED BY <1>1, <1>4, <2>1 DEF OpenMemo, JobRight, MaskRight
<1>5. CASE Save(t)
  <2>1. /\ step'[t] = IF page[t] = "edit" THEN "get" ELSE "send"
        /\ job'[t] = [kind |-> page[t], open |-> TRUE, form |-> form[t], mask |-> {}]
        /\ form[t]["content"] # 0 /\ page[t] # None /\ page'[t] = page[t]
    BY <1>5, TypeNow DEF Save
  <2> QED BY <2>1 DEF JobRight, MaskRight
<1>6. CASE Leave(t)
  <2>1. /\ job'[t].kind = job[t].kind /\ job'[t].form = job[t].form
        /\ job'[t].mask = job[t].mask /\ job'[t].open = FALSE
    <3>1. job[t] \in Jobs /\ job' = [job EXCEPT ![t] = [job[t] EXCEPT !.open = FALSE]]
      BY <1>6, JobParts, TypeNow DEF Leave
    <3> QED BY <3>1, TypeNow DEF Jobs
  <2> QED BY <1>1, <1>6, <2>1, SameSave DEF Leave
<1>7. CASE EndTab(t) \/ Finish(t) \/ Fail(t)
  BY <1>7, EndedSets, NoSave DEF EndTab, Finish, Fail
<1>8. CASE GetMemo(t)
  <2>1. CASE Difference(t) = {}
    BY <1>8, <2>1, EndedSets, NoSave DEF GetMemo
  <2>2. CASE Difference(t) # {}
    <3>1. job' = [job EXCEPT ![t] = [job[t] EXCEPT !.mask = Difference(t)]] /\ job[t] \in Jobs
      BY <1>8, <2>2, JobParts, TypeNow DEF GetMemo
    <3>2. /\ job'[t].kind = job[t].kind /\ job'[t].form = job[t].form
          /\ job'[t].mask = Difference(t) /\ job'[t].open = job[t].open
      BY <3>1, TypeNow DEF Jobs
    <3>3. step[t] = "get" /\ step'[t] = "send" /\ UNCHANGED <<page, memo>>
      BY <1>8, <2>2, TypeNow DEF GetMemo
    <3> QED BY <1>1, <3>2, <3>3 DEF JobRight, MaskRight, Difference
  <2> QED BY <2>1, <2>2
<1>9. CASE UpdateMemo(t)
  <2>1. /\ step[t] = "send" /\ step'[t] = "sent" /\ UNCHANGED <<job, page>>
        /\ crossed'[t] = crossed[t]
        /\ \A f \in Fields : memo'[f] = IF f \in job[t].mask THEN job[t].form[f] ELSE memo[f]
    BY <1>9, TypeNow DEF UpdateMemo, Written
  <2> QED BY <1>1, <2>1 DEF JobRight, MaskRight
<1>10. CASE PostMemo(t)
  <2>1. /\ step[t] = "send" /\ step'[t] = "sent" /\ UNCHANGED <<job, page>>
        /\ job[t].kind # "edit"
    BY <1>10, TypeNow, Sorts DEF PostMemo
  <2> QED BY <1>1, <2>1 DEF JobRight, MaskRight
<1>11. CASE Answered(t)
  <2>1. /\ step[t] = "sent" /\ step'[t] = "after" /\ UNCHANGED <<job, page, memo, crossed>>
    BY <1>11, TypeNow DEF Answered
  <2> QED BY <1>1, <2>1 DEF JobRight, MaskRight
<1> QED
  BY <1>2, <1>3, <1>4, <1>5, <1>6, <1>7, <1>8, <1>9, <1>10, <1>11 DEF TabStep, User, Saving

LEMMA StepSaves == SavesInv /\ [Next]_vars => SavesInv'
<1> SUFFICES ASSUME SavesInv, [Next]_vars PROVE SavesInv'
  OBVIOUS
<1>1. TypeOK'
  BY StepTyped DEF SavesInv
<1>2. ASSUME NEW u \in Tabs PROVE (JobRight(u) /\ MaskRight(u))'
  <2>1. CASE UNCHANGED vars
    BY <2>1 DEF vars, editor, save, server, history, SavesInv, JobRight, MaskRight
  <2>2. CASE Next /\ \E t \in Tabs : TabStep(t)
    BY <2>2, StepOfTab, OwnSave, OthersSave
  <2>3. CASE Next /\ \E f \in Fields : Others(f)
    <3>1. PICK f \in Fields : Others(f)
      BY <2>3
    <3>2. crossed'[u] = crossed[u] \cup {f} /\ \A g \in Fields \ {f} : memo'[g] = memo[g]
      BY <3>1, TypeNow DEF Others, SavesInv, Forms
    <3> QED BY <3>1, <3>2, SameSave DEF Others, SavesInv, editor, save
  <2> QED BY <2>1, <2>2, <2>3, StepOfTab
<1> QED
  BY <1>1, <1>2 DEF SavesInv

(* An edit saves what was shown: as long as its update has not been made,  *)
(* the mask has each field that differs, and whoever writes a field in     *)
(* between crosses it.                                                     *)
THEOREM EditsSaveTheShown == Spec => []SavedAsShown
<1>1. Init => SavesInv
  BY InitTyped DEF Init, SavesInv, JobRight, MaskRight
<1>2. SavesInv => SavedAsShown
  BY DEF SavesInv, MaskRight, SavedAsShown
<1> QED
  BY <1>1, <1>2, StepSaves, PTL DEF Spec

-----------------------------------------------------------------------------
(* The text that a change makes is nowhere yet.                            *)

Made == 0 .. changes

TabMade(t) ==
  /\ form[t]["content"] \in Made /\ discarded[t] \in Made \cup {None}
  /\ job[t].form["content"] \in Made
  /\ \A k \in DraftKinds : timer[t][k] \in Made \cup {None}

StoreMade ==
  /\ \A k \in DraftKinds : draft[k] \in Made \cup {None}
  /\ memo["content"] \in Made /\ told \subseteq Made

MadeInv == TypeOK /\ StoreMade /\ \A t \in Tabs : TabMade(t)

LEMMA MoreMade ==
  ASSUME TypeOK, Next
  PROVE  /\ changes' = changes \/ (changes < MaxChanges /\ changes' = changes + 1)
         /\ Made \subseteq Made' /\ 0 \in Made /\ changes' \in Made'
<1>1. changes' = changes \/ (changes < MaxChanges /\ changes' = changes + 1)
  BY DEF Next, User, Saving, OpenDraft, WriteEntry, OpenMemo, Type, Erase, Choose, Save, Hide,
     Leave, EndTab, GetMemo, UpdateMemo, PostMemo, Answered, Finish, Fail, Others
<1>2. changes \in Nat
  BY TypeNow, Sorts
<1> QED
  BY <1>1, <1>2 DEF Made

LEMMA OwnMade ==
  ASSUME MadeInv, Next, NEW t \in Tabs, TabStep(t)
  PROVE  TabMade(t)'
<1> USE DEF editor, save, server, history
<1>1. /\ TypeOK /\ TabMade(t) /\ StoreMade /\ UNCHANGED kinds
      /\ Made \subseteq Made' /\ 0 \in Made /\ changes' \in Made'
  BY MoreMade, StepOfTab DEF MadeInv
<1>2. CASE \E k \in DraftKinds : OpenDraft(t, k) \/ WriteEntry(t, k)
  <2>1. PICK k \in DraftKinds : OpenDraft(t, k) \/ WriteEntry(t, k)
    BY <1>2
  <2>2. CASE OpenDraft(t, k)
    <3>1. PICK n : n = IF draft[k] = None THEN 0 ELSE draft[k]
      OBVIOUS
    <3>2. n \in Texts /\ n \in Made
      <4>1. CASE draft[k] = None
        BY <1>1, <3>1, <4>1, Sorts
      <4>2. CASE draft[k] # None
        BY <1>1, <3>1, <4>2, TypeNow DEF Drafts, StoreMade
      <4> QED BY <4>1, <4>2
    <3>3. /\ SaveSoon(t, k, n) /\ form' = [form EXCEPT ![t] = [NoForm EXCEPT !["content"] = n]]
          /\ discarded' = [discarded EXCEPT ![t] = None] /\ UNCHANGED job
      BY <2>2, <3>1 DEF OpenDraft
    <3>4. form'[t]["content"] = n /\ discarded'[t] = None
      <4>1. [NoForm EXCEPT !["content"] = n]["content"] = n
        BY DEF NoForm, Fields
      <4> QED BY <1>1, <3>3, <4>1, TypeNow
    <3>5. \A l \in DraftKinds : timer'[t][l] = n \/ timer'[t][l] = timer[t][l]
      BY <1>1, <3>2, <3>3, TypeNow, SoonSets
    <3> QED BY <1>1, <3>2, <3>3, <3>4, <3>5 DEF TabMade
  <2>3. CASE WriteEntry(t, k)
    <3>1. \A l \in DraftKinds : timer'[t][l] = None \/ timer'[t][l] = timer[t][l]
      BY <1>1, <2>3, TypeNow DEF WriteEntry, SaveNow, Pending
    <3> QED BY <1>1, <2>3, <3>1 DEF WriteEntry, TabMade
  <2> QED BY <2>1, <2>2, <2>3
<1>3. CASE OpenMemo(t)
  <2>1. form'[t] = memo /\ discarded'[t] = None /\ UNCHANGED <<timer, job>>
    BY <1>1, <1>3, TypeNow DEF OpenMemo
  <2> QED BY <1>1, <2>1 DEF TabMade, StoreMade
<1>4. CASE Type(t) \/ Erase(t)
  <2>1. PICK n \in Texts : Become(t, n) /\ n \in Made' /\ UNCHANGED job
    BY <1>1, <1>4, TypeNow, NextNumber, Sorts DEF Type, Erase
  <2> QED BY <1>1, <2>1, BecomeSets DEF TabMade
<1>5. CASE Choose(t)
  <2>1. form' = [form EXCEPT ![t] = [form[t] EXCEPT !["visibility"] = changes + 1]]
    BY <1>1, <1>5, TypeNow DEF Choose
  <2>2. form'[t]["content"] = form[t]["content"]
    BY <1>1, <2>1, JobParts, TypeNow DEF Forms, Fields
  <2> QED BY <1>1, <1>5, <2>2 DEF Choose, TabMade
<1>6. CASE Save(t)
  <2>1. job'[t].form = form[t] /\ UNCHANGED <<form, discarded, timer>>
    BY <1>1, <1>6, TypeNow DEF Save
  <2> QED BY <1>1, <2>1 DEF TabMade
<1>7. CASE Hide(t)
  BY <1>1, <1>7, FlushSets DEF Hide, TabMade
<1>8. CASE Leave(t)
  <2>1. form'[t] = NoForm /\ discarded'[t] = None
    BY <1>1, <1>8, TypeNow DEF Leave, Gone
  <2>2. job'[t].form = job[t].form
    <3>1. job[t] \in Jobs /\ job' = [job EXCEPT ![t] = [job[t] EXCEPT !.open = FALSE]]
      BY <1>1, <1>8, JobParts, TypeNow DEF Leave
    <3> QED BY <1>1, <3>1, TypeNow DEF Jobs
  <2>3. \A l \in DraftKinds : timer'[t][l] = None \/ timer'[t][l] = timer[t][l]
    BY <1>1, <1>8, FlushSets DEF Leave
  <2> QED BY <1>1, <2>1, <2>2, <2>3, Blanks DEF TabMade
<1>9. CASE EndTab(t)
  <2>1. form'[t] = NoForm /\ discarded'[t] = None /\ job'[t] = NoJob
    BY <1>1, <1>9, TypeNow DEF EndTab, Gone, Ended
  <2>2. \A l \in DraftKinds : timer'[t][l] = None
    BY <1>1, <1>9, TypeNow DEF EndTab
  <2> QED BY <1>1, <2>1, <2>2, Blanks DEF TabMade, NoJob
<1>10. CASE GetMemo(t)
  <2>1. UNCHANGED timer
    BY <1>10 DEF GetMemo
  <2>2. /\ form'[t] = form[t] \/ form'[t] = NoForm
        /\ discarded'[t] = discarded[t] \/ discarded'[t] = None
    BY <1>1, <1>10, TypeNow DEF GetMemo, Gone
  <2>3. job'[t].form = job[t].form \/ job'[t] = NoJob
    <3>1. CASE Difference(t) = {}
      BY <1>1, <1>10, <3>1, EndedSets DEF GetMemo
    <3>2. CASE Difference(t) # {}
      <4>1. job[t] \in Jobs /\ job' = [job EXCEPT ![t] = [job[t] EXCEPT !.mask = Difference(t)]]
        BY <1>1, <1>10, <3>2, JobParts, TypeNow DEF GetMemo
      <4> QED BY <1>1, <4>1, TypeNow DEF Jobs
    <3> QED BY <3>1, <3>2
  <2> QED BY <1>1, <2>1, <2>2, <2>3, Blanks DEF TabMade, NoJob
<1>11. CASE UpdateMemo(t) \/ PostMemo(t)
  BY <1>1, <1>11 DEF UpdateMemo, PostMemo, TabMade
<1>12. CASE Answered(t)
  <2>1. /\ UNCHANGED <<form, job>>
        /\ discarded'[t] = discarded[t] \/ discarded'[t] = form[t]["content"]
    BY <1>1, <1>12, TypeNow DEF Answered
  <2>2. \A l \in DraftKinds : timer'[t][l] = None \/ timer'[t][l] = timer[t][l]
    BY <1>1, <1>12, TypeNow DEF Answered, Clear, SaveNow, Pending
  <2> QED BY <1>1, <2>1, <2>2 DEF TabMade
<1>13. CASE Finish(t)
  <2>1. job'[t] = NoJob
    BY <1>1, <1>13, EndedSets DEF Finish
  <2>2. CASE ~job[t].open
    BY <1>1, <1>13, <2>1, <2>2, Blanks DEF Finish, TabMade, NoJob
  <2>3. CASE job[t].open /\ job[t].kind = "home"
    <3>1. Become(t, 0)
      BY <1>13, <2>3 DEF Finish
    <3> QED BY <1>1, <2>1, <3>1, BecomeSets, Sorts, Blanks DEF TabMade, NoJob
  <2>4. CASE job[t].open /\ job[t].kind # "home"
    <3>1. form'[t] = NoForm /\ discarded'[t] = None
      BY <1>1, <1>13, <2>4, TypeNow DEF Finish, Gone
    <3>2. \A l \in DraftKinds : timer'[t][l] = None \/ timer'[t][l] = timer[t][l]
      BY <1>1, <1>13, <2>4, FlushSets DEF Finish
    <3> QED BY <1>1, <2>1, <3>1, <3>2, Blanks DEF TabMade, NoJob
  <2> QED BY <2>2, <2>3, <2>4
<1>14. CASE Fail(t)
  <2>1. job'[t] = NoJob /\ UNCHANGED <<form, discarded, timer>>
    BY <1>1, <1>14, EndedSets DEF Fail
  <2> QED BY <1>1, <2>1, Blanks DEF TabMade, NoJob
<1> QED
  BY <1>2, <1>3, <1>4, <1>5, <1>6, <1>7, <1>8, <1>9, <1>10, <1>11, <1>12, <1>13, <1>14
     DEF TabStep, User, Saving

(* What reaches the drafts, the memo and told was in the tab.              *)
LEMMA StoresMade ==
  ASSUME MadeInv, Next, NEW t \in Tabs, TabStep(t)
  PROVE  StoreMade'
<1> USE DEF editor, save, server, history
<1>1. /\ TypeOK /\ TabMade(t) /\ StoreMade /\ UNCHANGED kinds
      /\ Made \subseteq Made' /\ 0 \in Made
  BY MoreMade, StepOfTab DEF MadeInv
<1>2. \A l \in DraftKinds : draft'[l] \in Made \cup {None}
  <2>1. CASE \E k \in DraftKinds : WriteEntry(t, k)
    <3>1. PICK k \in DraftKinds : WriteEntry(t, k)
      BY <2>1
    <3>2. draft'[k] = Entry(timer[t][k]) /\ \A l \in DraftKinds : l # k => draft'[l] = draft[l]
      BY <1>1, <3>1, TypeNow DEF WriteEntry, SaveNow, Drafts
    <3> QED BY <1>1, <3>1, <3>2 DEF StoreMade, TabMade, Entry
  <2>2. CASE FlushDraft(t)
    BY <1>1, <2>2, FlushSets DEF StoreMade, TabMade
  <2>3. CASE Answered(t)
    <3>1. \A l \in DraftKinds : draft'[l] = draft[l] \/ draft'[l] = None
      BY <1>1, <2>3, TypeNow DEF Answered, Clear, SaveNow, Entry, Drafts
    <3> QED BY <1>1, <3>1 DEF StoreMade
  <2>4. CASE UNCHANGED draft
    BY <1>1, <2>4 DEF StoreMade
  <2> QED BY <2>1, <2>2, <2>3, <2>4 DEF TabStep, User, Saving, OpenDraft, OpenMemo, Type, Erase,
             Choose, Save, Hide, Leave, EndTab, GetMemo, UpdateMemo, PostMemo, Finish, Fail
<1>3. memo'["content"] = memo["content"] \/ memo'["content"] = job[t].form["content"]
  BY <1>1, TypeNow, Sorts DEF TabStep, User, Saving, OpenDraft, WriteEntry, OpenMemo, Type, Erase,
     Choose, Save, Hide, Leave, EndTab, GetMemo, UpdateMemo, PostMemo, Answered, Finish, Fail
<1>4. told' \subseteq told \cup {job[t].form["content"]}
  BY DEF TabStep, User, Saving, OpenDraft, WriteEntry, OpenMemo, Type, Erase,
     Choose, Save, Hide, Leave, EndTab, GetMemo, UpdateMemo, PostMemo, Answered, Finish, Fail
<1> QED
  BY <1>1, <1>2, <1>3, <1>4 DEF StoreMade, TabMade

LEMMA StepMade == MadeInv /\ [Next]_vars => MadeInv'
<1> SUFFICES ASSUME MadeInv, [Next]_vars PROVE MadeInv'
  OBVIOUS
<1>1. TypeOK'
  BY StepTyped DEF MadeInv
<1>2. CASE UNCHANGED vars
  BY <1>1, <1>2 DEF vars, editor, save, server, history, MadeInv, TabMade, StoreMade, Made
<1>3. CASE Next /\ \E t \in Tabs : TabStep(t)
  <2>1. PICK t \in Tabs : TabStep(t)
    BY <1>3
  <2>2. ASSUME NEW u \in Tabs \ {t} PROVE TabMade(u)'
    <3>1. /\ form'[u] = form[u] /\ discarded'[u] = discarded[u] /\ job'[u] = job[u]
          /\ \A k \in DraftKinds : timer'[u][k] = timer[u][k]
      BY <1>3, <2>1, StepOfTab, OtherTabs DEF MadeInv
    <3> QED BY <1>3, <3>1, MoreMade DEF MadeInv, TabMade
  <2> QED BY <1>1, <1>3, <2>1, <2>2, OwnMade, StoresMade DEF MadeInv
<1>4. CASE Next /\ \E f \in Fields : Others(f)
  <2>1. PICK f \in Fields : Others(f)
    BY <1>4
  <2>2. memo'["content"] = memo["content"] \/ memo'["content"] = changes'
    BY <2>1, TypeNow, Sorts DEF Others, MadeInv, Forms
  <2>3. StoreMade'
    BY <1>4, <2>1, <2>2, MoreMade DEF Others, MadeInv, StoreMade
  <2>4. \A u \in Tabs : TabMade(u)'
    BY <1>4, <2>1, MoreMade DEF Others, MadeInv, TabMade, editor, save
  <2> QED BY <1>1, <2>3, <2>4 DEF MadeInv
<1> QED
  BY <1>2, <1>3, <1>4, StepOfTab

LEMMA InitMade == Init => MadeInv
<1> SUFFICES ASSUME Init PROVE MadeInv
  OBVIOUS
<1>1. TypeOK /\ Made = {0}
  BY InitTyped DEF Init, Made
<1>2. StoreMade
  BY <1>1, Blanks DEF Init, StoreMade
<1>3. \A t \in Tabs : TabMade(t)
  BY <1>1, Blanks DEF Init, TabMade, NoJob
<1> QED
  BY <1>1, <1>2, <1>3 DEF MadeInv

(* What is typed differs from all that is there.                           *)
LEMMA NewText ==
  ASSUME MadeInv
  PROVE  changes + 1 \notin Made /\ changes + 1 # 0
<1>1. changes \in Nat
  BY TypeNow, Sorts DEF MadeInv
<1> QED
  BY <1>1 DEF Made

-----------------------------------------------------------------------------
(* The draft that is left.                                                 *)

(* What a flush leaves out is being saved, and was answered.               *)
Discards(t) ==
  page[t] \in DraftKinds /\ form[t]["content"] # 0 /\ discarded[t] = form[t]["content"]
    => step[t] = "after" /\ job[t].open

NotHeld(t, k) ==
  page[t] # k /\ timer[t][k] = None /\ (step[t] # "no" => job[t].kind # k)

LeftRight(k) ==
  left[k] # None => draft[k] = left[k] /\ \A u \in Tabs : NotHeld(u, k)

KeptInv == /\ SavesInv /\ MadeInv
           /\ \A t \in Tabs : Discards(t)
           /\ \A k \in DraftKinds : LeftRight(k)

LEMMA NoDiscard ==
  ASSUME TypeOK', NEW t \in Tabs, discarded'[t] = None
  PROVE  Discards(t)'
<1>1. form'[t]["content"] \in Texts
  BY Sorts DEF TypeOK
<1> QED
  BY <1>1, Sorts DEF Discards

LEMMA OwnDiscards ==
  ASSUME KeptInv, Next, NEW t \in Tabs, TabStep(t)
  PROVE  Discards(t)'
<1> USE DEF editor, save, server, history
<1>1. TypeOK /\ TypeOK' /\ Discards(t) /\ TabMade(t) /\ MadeInv /\ UNCHANGED kinds
  BY StepTyped, StepOfTab DEF KeptInv, SavesInv, MadeInv
<1>2. CASE \E k \in DraftKinds : OpenDraft(t, k) \/ WriteEntry(t, k)
  <2>1. CASE \E k \in DraftKinds : OpenDraft(t, k)
    BY <1>1, <2>1, TypeNow, NoDiscard DEF OpenDraft
  <2>2. CASE \E k \in DraftKinds : WriteEntry(t, k)
    BY <1>1, <2>2 DEF WriteEntry, Discards
  <2> QED BY <1>2, <2>1, <2>2
<1>3. CASE OpenMemo(t) \/ Leave(t) \/ EndTab(t)
  BY <1>1, <1>3, TypeNow, NoDiscard DEF OpenMemo, Leave, EndTab, Gone
<1>4. CASE Type(t)
  <2>1. PICK n \in Texts : n = changes + 1 /\ Become(t, n)
    BY <1>1, <1>4, TypeNow, NextNumber DEF Type
  <2>2. discarded[t] # n
    BY <1>1, <2>1, NewText, Sorts DEF TabMade
  <2> QED BY <1>1, <2>1, <2>2, BecomeSets, NoDiscard
<1>5. CASE Erase(t)
  BY <1>1, <1>5, BecomeSets, Sorts DEF Erase, Discards
<1>6. CASE Choose(t)
  BY <1>1, <1>6, Sorts DEF Choose, Discards
<1>7. CASE Hide(t) \/ Save(t) \/ UpdateMemo(t) \/ PostMemo(t)
  BY <1>1, <1>7 DEF Hide, Save, UpdateMemo, PostMemo, Discards
<1>8. CASE GetMemo(t)
  <2>1. CASE Gone(t)
    BY <1>1, <2>1, GoneSets, TypeNow, NoDiscard DEF Gone
  <2>2. CASE UNCHANGED editor
    BY <1>1, <1>8, <2>2 DEF GetMemo, Discards
  <2> QED BY <1>8, <2>1, <2>2 DEF GetMemo
<1>9. CASE Answered(t)
  <2>1. CASE job[t].open
    BY <1>1, <1>9, <2>1, TypeNow DEF Answered, Discards
  <2>2. CASE ~job[t].open
    BY <1>1, <1>9, <2>2 DEF Answered, Discards
  <2> QED BY <2>1, <2>2
<1>10. CASE Finish(t)
  <2>1. CASE ~job[t].open
    BY <1>1, <1>10, <2>1 DEF Finish, Discards
  <2>2. CASE job[t].open /\ job[t].kind = "home"
    BY <1>1, <1>10, <2>2, BecomeSets, Sorts DEF Finish, Discards
  <2>3. CASE job[t].open /\ job[t].kind # "home"
    BY <1>1, <1>10, <2>3, TypeNow, NoDiscard DEF Finish, Gone
  <2> QED BY <2>1, <2>2, <2>3
<1>11. CASE Fail(t)
  BY <1>1, <1>11 DEF Fail, Discards
<1> QED
  BY <1>2, <1>3, <1>4, <1>5, <1>6, <1>7, <1>8, <1>9, <1>10, <1>11 DEF TabStep, User, Saving

(* The last editor writes its text when it goes.                           *)
LEMMA LeftNow ==
  ASSUME KeptInv, Next, NEW t \in Tabs, Leave(t), NEW k \in DraftKinds,
         page[t] = k, form[t]["content"] # 0, Alone(t, k)
  PROVE  LeftRight(k)'
<1>1. TypeOK /\ Discards(t) /\ UNCHANGED kinds /\ TabStep(t)
  BY StepOfTab DEF KeptInv, MadeInv, TabStep, User
<1>2. discarded[t] # form[t]["content"]
  <2>1. SUFFICES ASSUME discarded[t] = form[t]["content"] PROVE FALSE
    OBVIOUS
  <2>2. step[t] = "after" /\ job[t].open
    BY <1>1, <2>1 DEF Discards
  <2>3. job[t].kind = k
    BY <2>2 DEF KeptInv, SavesInv, JobRight
  <2> QED BY <2>2, <2>3 DEF Alone
<1>3. draft'[k] = form[t]["content"] /\ timer'[t][k] = None
  BY <1>1, <1>2, FlushSets DEF Leave
<1>4. left'[k] = form[t]["content"] /\ page'[t] = None /\ step'[t] = step[t]
  BY <1>1, TypeNow DEF Leave, Gone
<1>5. job'[t].kind = job[t].kind
  <2>1. job[t] \in Jobs /\ job' = [job EXCEPT ![t] = [job[t] EXCEPT !.open = FALSE]]
    BY <1>1, JobParts, TypeNow DEF Leave
  <2> QED BY <1>1, <2>1, TypeNow DEF Jobs
<1>6. NotHeld(t, k)'
  BY <1>3, <1>4, <1>5, Sorts DEF NotHeld, Alone
<1>7. ASSUME NEW u \in Tabs \ {t} PROVE NotHeld(u, k)'
  BY <1>1, OtherTabs DEF NotHeld, Alone
<1> QED
  BY <1>3, <1>4, <1>6, <1>7 DEF LeftRight

(* Whoever writes a draft holds its text.                                  *)
LEMMA HeldBefore ==
  ASSUME TypeOK, NEW t \in Tabs, TabStep(t), NEW k \in DraftKinds, NotHeld(t, k),
         ~OpenDraft(t, k), UNCHANGED kinds, JobRight(t)
  PROVE  draft'[k] = draft[k] /\ NotHeld(t, k)'
<1> USE DEF editor, save, server, history
<1>1. CASE \E l \in DraftKinds : OpenDraft(t, l)
  <2>1. PICK l \in DraftKinds : l # k /\ OpenDraft(t, l)
    BY <1>1
  <2>2. timer' = [timer EXCEPT ![t][l] = IF draft[l] = None THEN 0 ELSE draft[l]]
    BY <2>1 DEF OpenDraft, SaveSoon
  <2> QED BY <2>1, <2>2, TypeNow DEF OpenDraft, NotHeld, Pending
<1>2. CASE \E l \in DraftKinds : WriteEntry(t, l)
  <2>1. PICK l \in DraftKinds : WriteEntry(t, l)
    BY <1>2
  <2>2. l # k
    BY <2>1 DEF WriteEntry, NotHeld
  <2> QED BY <2>1, <2>2, TypeNow DEF WriteEntry, SaveNow, NotHeld, Pending, Drafts
<1>3. CASE OpenMemo(t) \/ Choose(t)
  BY <1>3, TypeNow, Sorts DEF OpenMemo, Choose, NotHeld
<1>4. CASE Type(t) \/ Erase(t)
  <2>1. PICK n \in Texts : Become(t, n) /\ UNCHANGED <<draft, page, step, job>>
    BY <1>4, TypeNow, NextNumber, Sorts DEF Type, Erase
  <2>2. timer'[t][k] = timer[t][k]
    BY <2>1, BecomeSets DEF NotHeld
  <2> QED BY <2>1, <2>2 DEF NotHeld
<1>5. CASE Hide(t)
  BY <1>5, FlushSets DEF Hide, NotHeld
<1>6. CASE Save(t)
  BY <1>6, TypeNow DEF Save, NotHeld
<1>7. CASE Leave(t)
  <2>1. draft'[k] = draft[k] /\ timer'[t][k] = timer[t][k]
    BY <1>7, FlushSets DEF Leave, NotHeld
  <2>2. page'[t] = None /\ step'[t] = step[t]
    BY <1>7, TypeNow DEF Leave, Gone
  <2>3. job'[t].kind = job[t].kind
    <3>1. job[t] \in Jobs /\ job' = [job EXCEPT ![t] = [job[t] EXCEPT !.open = FALSE]]
      BY <1>7, JobParts, TypeNow DEF Leave
    <3> QED BY <3>1, TypeNow DEF Jobs
  <2> QED BY <2>1, <2>2, <2>3, Sorts DEF NotHeld
<1>8. CASE EndTab(t)
  BY <1>8, EndedSets, GoneSets, TypeNow, Sorts DEF EndTab, NotHeld
<1>9. CASE GetMemo(t)
  <2>1. UNCHANGED <<draft, timer>> /\ page'[t] \in {page[t], None}
    BY <1>9, GoneSets DEF GetMemo
  <2>2. step'[t] = "no" \/ (step[t] # "no" /\ job'[t].kind = job[t].kind)
    <3>1. CASE Difference(t) = {}
      BY <1>9, <3>1, EndedSets DEF GetMemo
    <3>2. CASE Difference(t) # {}
      <4>1. job[t] \in Jobs /\ job' = [job EXCEPT ![t] = [job[t] EXCEPT !.mask = Difference(t)]]
        BY <1>9, <3>2, JobParts, TypeNow DEF GetMemo
      <4> QED BY <1>9, <4>1, TypeNow DEF Jobs, GetMemo
    <3> QED BY <3>1, <3>2
  <2> QED BY <2>1, <2>2, Sorts DEF NotHeld
<1>10. CASE UpdateMemo(t) \/ PostMemo(t)
  BY <1>10, TypeNow DEF UpdateMemo, PostMemo, NotHeld
<1>11. CASE Answered(t)
  <2>1. UNCHANGED <<page, job>> /\ step[t] = "sent"
    BY <1>11 DEF Answered
  <2>2. draft'[k] = draft[k] /\ timer'[t][k] = timer[t][k]
    <3>1. CASE job[t].kind \in DraftKinds
      BY <1>11, <2>1, <3>1, NowSets, TypeNow, Sorts DEF Answered, Clear, NotHeld
    <3>2. CASE job[t].kind \notin DraftKinds
      BY <1>11, <3>2 DEF Answered
    <3> QED BY <3>1, <3>2
  <2> QED BY <2>1, <2>2 DEF NotHeld
<1>12. CASE Finish(t)
  <2>1. step'[t] = "no"
    BY <1>12, EndedSets DEF Finish
  <2>2. CASE ~job[t].open
    BY <1>12, <2>1, <2>2 DEF Finish, NotHeld
  <2>3. CASE job[t].open /\ job[t].kind = "home"
    BY <1>12, <2>1, <2>3, BecomeSets, Sorts DEF Finish, NotHeld
  <2>4. CASE job[t].open /\ job[t].kind # "home"
    BY <1>12, <2>1, <2>4, FlushSets, GoneSets, Sorts DEF Finish, NotHeld
  <2> QED BY <2>2, <2>3, <2>4
<1>13. CASE Fail(t)
  BY <1>13, EndedSets DEF Fail, NotHeld
<1> QED
  BY <1>1, <1>2, <1>3, <1>4, <1>5, <1>6, <1>7, <1>8, <1>9, <1>10, <1>11, <1>12, <1>13
     DEF TabStep, User, Saving

LEMMA StepLeft ==
  ASSUME KeptInv, Next, NEW t \in Tabs, TabStep(t), NEW k \in DraftKinds
  PROVE  LeftRight(k)'
<1> USE DEF editor, save, server, history
<1>1. /\ TypeOK /\ LeftRight(k) /\ UNCHANGED kinds /\ JobRight(t)
      /\ left \in [DraftKinds -> Texts \cup {None}]
  BY StepOfTab, TypeNow DEF KeptInv, MadeInv, SavesInv
<1>2. CASE Leave(t) /\ page[t] = k /\ form[t]["content"] # 0 /\ Alone(t, k)
  BY <1>2, LeftNow
<1>3. CASE OpenDraft(t, k)
  BY <1>1, <1>3 DEF OpenDraft, LeftRight
<1>4. CASE ~(Leave(t) /\ page[t] = k /\ form[t]["content"] # 0 /\ Alone(t, k)) /\ ~OpenDraft(t, k)
  <2>1. left'[k] = left[k]
    <3>1. CASE Leave(t)
      <4>1. PICK l : l = page[t]
        OBVIOUS
      <4>2. \/ left' = left
            \/ left' = [left EXCEPT ![l] = form[t]["content"]] /\ l # k
        BY <1>4, <3>1, <4>1 DEF Leave
      <4> QED BY <1>1, <4>2
    <3>2. CASE \E l \in DraftKinds : OpenDraft(t, l)
      BY <1>1, <1>4, <3>2 DEF OpenDraft
    <3>3. CASE UNCHANGED left
      BY <3>3
    <3> QED BY <3>1, <3>2, <3>3 DEF TabStep, User, Saving, WriteEntry, OpenMemo, Type, Erase,
               Choose, Save, Hide, EndTab, GetMemo, UpdateMemo, PostMemo, Answered, Finish, Fail
  <2>2. CASE left[k] # None
    <3>1. draft'[k] = draft[k] /\ NotHeld(t, k)'
      BY <1>1, <1>4, <2>2, HeldBefore DEF LeftRight
    <3>2. ASSUME NEW u \in Tabs \ {t} PROVE NotHeld(u, k)'
      BY <1>1, <2>2, OtherTabs DEF LeftRight, NotHeld
    <3> QED BY <1>1, <2>1, <2>2, <3>1, <3>2 DEF LeftRight
  <2> QED BY <2>1, <2>2 DEF LeftRight
<1> QED
  BY <1>2, <1>3, <1>4

LEMMA StepKept == KeptInv /\ [Next]_vars => KeptInv'
<1> SUFFICES ASSUME KeptInv, [Next]_vars PROVE KeptInv'
  OBVIOUS
<1>1. SavesInv' /\ MadeInv'
  BY StepSaves, StepMade DEF KeptInv
<1>2. CASE UNCHANGED vars
  BY <1>1, <1>2 DEF vars, editor, save, server, history, KeptInv, Discards, LeftRight, NotHeld
<1>3. CASE Next /\ \E t \in Tabs : TabStep(t)
  <2>1. PICK t \in Tabs : TabStep(t)
    BY <1>3
  <2>2. \A k \in DraftKinds : LeftRight(k)'
    BY <1>3, <2>1, StepLeft
  <2>3. ASSUME NEW u \in Tabs \ {t} PROVE Discards(u)'
    BY <1>3, <2>1, StepOfTab, OtherTabs DEF KeptInv, MadeInv, Discards
  <2> QED BY <1>1, <1>3, <2>1, <2>2, <2>3, OwnDiscards DEF KeptInv
<1>4. CASE \E f \in Fields : Others(f)
  BY <1>1, <1>4 DEF Others, editor, save, KeptInv, Discards, LeftRight, NotHeld
<1> QED
  BY <1>2, <1>3, <1>4, StepOfTab

(* The text of the last editor is the draft that the next one finds: a     *)
(* flush is only stopped while the save of that very editor is on its way, *)
(* and nobody writes a draft without holding an editor, a timer or a save  *)
(* of its key.                                                             *)
THEOREM LeftIsKept == Spec => []DraftKept
<1>1. Init => KeptInv
  <2> SUFFICES ASSUME Init PROVE KeptInv
    OBVIOUS
  <2>1. SavesInv /\ MadeInv
    BY InitTyped, InitMade DEF Init, SavesInv, JobRight, MaskRight
  <2> QED BY <2>1, Sorts DEF Init, KeptInv, Discards, LeftRight, DraftKinds
<1>2. KeptInv => DraftKept
  BY DEF KeptInv, LeftRight, DraftKept
<1> QED
  BY <1>1, <1>2, StepKept, PTL DEF Spec

-----------------------------------------------------------------------------
(* Who has a text.                                                         *)

Holds(t, k, n) == page[t] = k /\ form[t]["content"] = n
Saves(t, k, n) == step[t] # "no" /\ job[t].kind = k /\ job[t].form["content"] = n

(* A timer has the text of the editor, and one that a flush would write.   *)
TimerRight(t) ==
  \A k \in DraftKinds : timer[t][k] \notin {None, 0} =>
    Holds(t, k, timer[t][k]) /\ discarded[t] # timer[t][k]

(* A text that is not shared is in one tab: in its editor, in the save     *)
(* that this editor began, or in both; and under one key.                  *)
OneTab(n) ==
  \A t, u \in Tabs, k, l \in DraftKinds :
    /\ Holds(t, k, n) /\ Holds(u, l, n) => t = u
    /\ Holds(t, k, n) /\ Saves(u, l, n) => t = u /\ job[u].open
    /\ Saves(t, k, n) /\ Saves(u, l, n) => t = u

OneKey(n) ==
  \A k, l \in DraftKinds : draft[k] = n =>
    /\ draft[l] = n => l = k
    /\ \A t \in Tabs : Holds(t, l, n) \/ Saves(t, l, n) => l = k

(* Once its POST is answered it is no draft, and nothing will write it.    *)
AfterAnswer(n) ==
  n \in told => \A k \in DraftKinds :
    /\ draft[k] # n
    /\ \A t \in Tabs : /\ Holds(t, k, n) => discarded[t] = n
                       /\ Saves(t, k, n) => step[t] = "after"

Right(n) == OneTab(n) /\ OneKey(n) /\ AfterAnswer(n)

RightInv == /\ KeptInv
            /\ \A t \in Tabs : TimerRight(t)
            /\ \A n \in Texts \ {0} : n \notin shared => Right(n)

LEMMA RightParts ==
  ASSUME RightInv
  PROVE  /\ TypeOK /\ KeptInv /\ SavesInv /\ MadeInv
         /\ \A t \in Tabs : JobRight(t) /\ Discards(t) /\ TimerRight(t) /\ TabMade(t)
BY DEF RightInv, KeptInv, SavesInv, MadeInv

LEMMA NoTimer ==
  ASSUME RightInv, NEW t \in Tabs, page[t] \notin DraftKinds, NEW k \in DraftKinds
  PROVE  timer[t][k] \in {None, 0}
BY RightParts DEF TimerRight, Holds

LEMMA NoTimers ==
  ASSUME NEW t \in Tabs, \A k \in DraftKinds : timer'[t][k] \in {None, 0}
  PROVE  TimerRight(t)'
BY DEF TimerRight

LEMMA OwnTimer ==
  ASSUME RightInv, Next, NEW t \in Tabs, TabStep(t)
  PROVE  TimerRight(t)'
<1> USE DEF editor, save, server, history
<1>1. /\ TypeOK /\ TimerRight(t) /\ JobRight(t) /\ TabMade(t) /\ UNCHANGED kinds
      /\ MadeInv
  BY StepOfTab, RightParts
<1>2. CASE \E k \in DraftKinds : OpenDraft(t, k)
  <2>1. PICK k \in DraftKinds : OpenDraft(t, k)
    BY <1>2
  <2>2. PICK n : n = IF draft[k] = None THEN 0 ELSE draft[k]
    OBVIOUS
  <2>3. n \in Texts
    BY <1>1, <2>2, TypeNow, Sorts DEF Drafts
  <2>4. /\ SaveSoon(t, k, n) /\ form' = [form EXCEPT ![t] = [NoForm EXCEPT !["content"] = n]]
        /\ page' = [page EXCEPT ![t] = k] /\ discarded' = [discarded EXCEPT ![t] = None]
        /\ page[t] = None
    BY <2>1, <2>2 DEF OpenDraft
  <2>5. [NoForm EXCEPT !["content"] = n]["content"] = n
    BY DEF NoForm, Fields
  <2>6. Holds(t, k, n)' /\ discarded'[t] = None
    BY <1>1, <2>4, <2>5, TypeNow DEF Holds
  <2>7. timer'[t][k] = n /\ \A l \in DraftKinds : l # k => timer'[t][l] \in {None, 0}
    BY <1>1, <2>3, <2>4, SoonSets, TypeNow, NoTimer, Sorts
  <2> QED BY <2>3, <2>6, <2>7, Sorts DEF TimerRight, Holds
<1>3. CASE \E k \in DraftKinds : WriteEntry(t, k)
  <2>1. PICK k \in DraftKinds : WriteEntry(t, k)
    BY <1>3
  <2>2. \A l \in DraftKinds : timer'[t][l] = IF l = k THEN None ELSE timer[t][l]
    BY <1>1, <2>1, TypeNow DEF WriteEntry, SaveNow, Pending
  <2> QED BY <1>1, <2>1, <2>2 DEF WriteEntry, TimerRight, Holds
<1>4. CASE OpenMemo(t) \/ Choose(t)
  <2>1. page[t] \notin DraftKinds /\ UNCHANGED timer
    BY <1>4, Sorts DEF OpenMemo, Choose
  <2> QED BY <2>1, NoTimer, NoTimers
<1>5. CASE Type(t)
  <2>1. PICK n \in Texts : n = changes + 1 /\ Become(t, n) /\ UNCHANGED page
    BY <1>1, <1>5, TypeNow, NextNumber DEF Type
  <2>2. discarded'[t] = None /\ form'[t]["content"] = n
    BY <1>1, <2>1, BecomeSets, NewText, Sorts DEF TabMade
  <2>3. CASE page[t] \in DraftKinds
    <3>1. \A l \in DraftKinds : l # page[t] => timer'[t][l] \in {None, 0}
      BY <1>1, <2>1, <2>3, BecomeSets DEF TimerRight, Holds
    <3>2. timer'[t][page[t]] = n
      BY <1>1, <2>1, <2>3, BecomeSets
    <3> QED BY <2>1, <2>2, <3>1, <3>2, Sorts DEF TimerRight, Holds
  <2>4. CASE page[t] \notin DraftKinds
    <3>1. UNCHANGED timer
      BY <1>1, <2>1, <2>4, BecomeSets
    <3> QED BY <2>4, <3>1, NoTimer, NoTimers
  <2> QED BY <2>3, <2>4
<1>6. ASSUME Become(t, 0) PROVE TimerRight(t)'
  <2>1. CASE page[t] \in DraftKinds
    <3>1. \A l \in DraftKinds : l # page[t] => timer'[t][l] \in {None, 0}
      BY <1>1, <1>6, <2>1, BecomeSets, Sorts DEF TimerRight, Holds
    <3>2. timer'[t][page[t]] = 0
      BY <1>1, <1>6, <2>1, BecomeSets, Sorts
    <3> QED BY <3>1, <3>2, NoTimers
  <2>2. CASE page[t] \notin DraftKinds
    <3>1. UNCHANGED timer
      BY <1>1, <1>6, <2>2, BecomeSets, Sorts
    <3> QED BY <2>2, <3>1, NoTimer, NoTimers
  <2> QED BY <2>1, <2>2
<1>7. ASSUME FlushDraft(t) PROVE
        \/ \A k \in DraftKinds : timer'[t][k] \in {None, 0}
        \/ UNCHANGED timer /\ page[t] \in DraftKinds /\ discarded[t] = form[t]["content"]
  BY <1>1, <1>7, FlushSets, NoTimer DEF TimerRight, Holds
<1>8. ASSUME FlushDraft(t) PROVE \A k \in DraftKinds : timer'[t][k] \in {None, 0}
  BY <1>1, <1>7, <1>8 DEF TimerRight, Holds
<1>9. CASE Erase(t) \/ Hide(t) \/ Leave(t)
  BY <1>6, <1>8, <1>9, NoTimers DEF Erase, Hide, Leave
<1>10. CASE EndTab(t)
  BY <1>1, <1>10, TypeNow, NoTimers DEF EndTab
<1>11. CASE Save(t) \/ UpdateMemo(t) \/ PostMemo(t) \/ Fail(t)
  BY <1>1, <1>11 DEF Save, UpdateMemo, PostMemo, Fail, TimerRight, Holds
<1>12. CASE GetMemo(t)
  <2>1. CASE UNCHANGED editor
    BY <1>1, <1>12, <2>1 DEF GetMemo, TimerRight, Holds
  <2>2. CASE job[t].open
    <3>1. page[t] \notin DraftKinds /\ UNCHANGED timer
      BY <1>1, <1>12, <2>2, Sorts DEF GetMemo, JobRight
    <3> QED BY <3>1, NoTimer, NoTimers
  <2> QED BY <1>12, <2>1, <2>2 DEF GetMemo
<1>13. CASE Answered(t)
  <2>1. UNCHANGED <<page, form>>
    BY <1>13 DEF Answered
  <2>2. CASE job[t].open
    <3>1. page[t] = job[t].kind
      BY <1>1, <1>13, <2>2 DEF Answered, JobRight
    <3>2. CASE job[t].kind \in DraftKinds
      <4>1. SaveNow(t, page[t], 0)
        BY <1>13, <3>1, <3>2 DEF Answered, Clear
      <4>2. \A l \in DraftKinds : l # page[t] => timer[t][l] \in {None, 0}
        BY <1>1 DEF TimerRight, Holds
      <4>3. \A l \in DraftKinds : timer'[t][l] \in {None, 0}
        BY <1>1, <3>1, <3>2, <4>1, <4>2, NowSets, TypeNow, Sorts
      <4> QED BY <4>3, NoTimers
    <3>3. CASE job[t].kind \notin DraftKinds
      BY <1>13, <3>1, <3>3, NoTimer, NoTimers DEF Answered
    <3> QED BY <3>2, <3>3
  <2>3. CASE ~job[t].open
    <3>1. \A l \in DraftKinds : timer'[t][l] = None \/ timer'[t][l] = timer[t][l]
      BY <1>1, <1>13, TypeNow DEF Answered, Clear, SaveNow, Pending
    <3>2. UNCHANGED discarded
      BY <1>13, <2>3 DEF Answered
    <3> QED BY <1>1, <2>1, <3>1, <3>2 DEF TimerRight, Holds
  <2> QED BY <2>2, <2>3
<1>14. CASE Finish(t)
  <2>1. CASE ~job[t].open
    BY <1>1, <1>14, <2>1 DEF Finish, TimerRight, Holds
  <2>2. CASE job[t].open /\ job[t].kind = "home"
    BY <1>6, <1>14, <2>2 DEF Finish
  <2>3. CASE job[t].open /\ job[t].kind # "home"
    BY <1>8, <1>14, <2>3, NoTimers DEF Finish
  <2> QED BY <2>1, <2>2, <2>3
<1> QED
  BY <1>2, <1>3, <1>4, <1>5, <1>9, <1>10, <1>11, <1>12, <1>13, <1>14
     DEF TabStep, User, Saving

(* A step of t gives nobody a text he has not got, writes as a draft only  *)
(* what a flush may write, and forgets neither what was discarded nor that *)
(* a POST was answered.                                                    *)
Quiet(t, n) ==
  /\ \A k \in DraftKinds :
       /\ Holds(t, k, n)' =>
            /\ Holds(t, k, n)
            /\ discarded[t] = n => discarded'[t] = n
       /\ Saves(t, k, n)' =>
            /\ Saves(t, k, n)
            /\ step[t] = "after" => step'[t] = "after"
            /\ (job[t].open => job'[t].open) \/ \A l \in DraftKinds : ~Holds(t, l, n)'
       /\ draft'[k] = n => draft[k] = n \/ (Holds(t, k, n) /\ discarded[t] # n)
  /\ n \in told' => n \in told

LEMMA QuietRight ==
  ASSUME RightInv, Next, NEW t \in Tabs, TabStep(t), NEW n \in Texts \ {0}, n \notin shared,
         Quiet(t, n)
  PROVE  Right(n)'
<1>1. Right(n) /\ TypeOK /\ JobRight(t) /\ UNCHANGED kinds
  BY StepOfTab, RightParts DEF RightInv
<1>2. ASSUME NEW u \in Tabs \ {t}
      PROVE  /\ \A k \in DraftKinds : Holds(u, k, n)' <=> Holds(u, k, n)
             /\ \A k \in DraftKinds : Saves(u, k, n)' <=> Saves(u, k, n)
             /\ discarded'[u] = discarded[u] /\ step'[u] = step[u] /\ job'[u] = job[u]
  BY <1>1, OtherTabs DEF Holds, Saves
<1>3. \A u \in Tabs, k \in DraftKinds :
        /\ Holds(u, k, n)' => Holds(u, k, n)
        /\ Saves(u, k, n)' => Saves(u, k, n)
  BY <1>2 DEF Quiet, Holds, Saves
<1>4. OneTab(n)'
  <2>1. ASSUME NEW u \in Tabs, NEW v \in Tabs, NEW k \in DraftKinds, NEW l \in DraftKinds
        PROVE  (/\ Holds(u, k, n) /\ Holds(v, l, n) => u = v
                /\ Holds(u, k, n) /\ Saves(v, l, n) => u = v /\ job[v].open
                /\ Saves(u, k, n) /\ Saves(v, l, n) => u = v)'
    <3>1. /\ Holds(u, k, n)' /\ Holds(v, l, n)' => u = v
          /\ Saves(u, k, n)' /\ Saves(v, l, n)' => u = v
      BY <1>1, <1>3 DEF Right, OneTab
    <3>2. Holds(u, k, n)' /\ Saves(v, l, n)' => u = v /\ job[v].open
      BY <1>1, <1>3 DEF Right, OneTab
    <3>3. Holds(u, k, n)' /\ Saves(v, l, n)' => job'[v].open
      BY <1>2, <3>2 DEF Quiet, Holds, Saves
    <3> QED BY <3>1, <3>2, <3>3
  <2> QED BY <2>1 DEF OneTab
<1>5. OneKey(n)'
  <2>1. ASSUME NEW k \in DraftKinds, NEW l \in DraftKinds, draft'[k] = n
        PROVE  (draft'[l] = n => l = k) /\ \A u \in Tabs : Holds(u, l, n)' \/ Saves(u, l, n)' => l = k
    <3>1. CASE draft[k] = n
      <4>1. draft'[l] = n => l = k
        BY <1>1, <3>1 DEF Quiet, Right, OneKey
      <4> QED BY <1>1, <1>3, <3>1, <4>1 DEF Right, OneKey
    <3>2. CASE Holds(t, k, n)
      <4>1. draft'[l] = n => l = k
        BY <1>1, <3>2 DEF Quiet, Right, OneKey, Holds
      <4>2. ASSUME NEW u \in Tabs, Holds(u, l, n)' PROVE l = k
        BY <1>1, <1>3, <3>2, <4>2 DEF Right, OneTab, Holds
      <4>3. ASSUME NEW u \in Tabs, Saves(u, l, n)' PROVE l = k
        <5>1. Saves(u, l, n) /\ u = t /\ job[t].open
          BY <1>1, <1>3, <3>2, <4>3 DEF Right, OneTab
        <5> QED BY <1>1, <3>2, <5>1 DEF Saves, JobRight, Holds
      <4> QED BY <4>1, <4>2, <4>3
    <3> QED BY <2>1, <3>1, <3>2 DEF Quiet
  <2> QED BY <2>1 DEF OneKey
<1>6. AfterAnswer(n)'
  <2>1. SUFFICES ASSUME n \in told', NEW u \in Tabs, NEW k \in DraftKinds
                 PROVE  /\ draft'[k] # n
                        /\ Holds(u, k, n)' => discarded'[u] = n
                        /\ Saves(u, k, n)' => step'[u] = "after"
    BY DEF AfterAnswer
  <2>2. n \in told
    BY <2>1 DEF Quiet
  <2>3. draft'[k] # n
    BY <1>1, <2>2 DEF Right, AfterAnswer, Quiet
  <2>4. /\ Holds(u, k, n) => discarded[u] = n
        /\ Saves(u, k, n) => step[u] = "after"
    BY <1>1, <2>2 DEF Right, AfterAnswer
  <2>5. Holds(u, k, n)' => discarded'[u] = n
    BY <1>2, <1>3, <2>4 DEF Quiet, Holds, Saves
  <2>6. Saves(u, k, n)' => step'[u] = "after"
    BY <1>2, <1>3, <2>4 DEF Quiet, Holds, Saves
  <2> QED BY <2>3, <2>5, <2>6
<1> QED
  BY <1>4, <1>5, <1>6 DEF Right

(* A step after which the editor of t has not got n.                       *)
LEMMA NotHolding ==
  ASSUME NEW t \in Tabs, NEW n \in Texts \ {0},
         page'[t] \notin DraftKinds \/ form'[t]["content"] # n,
         \A k \in DraftKinds :
           /\ Saves(t, k, n)' => Saves(t, k, n) /\ (step[t] = "after" => step'[t] = "after")
           /\ draft'[k] = n => draft[k] = n \/ (Holds(t, k, n) /\ discarded[t] # n),
         n \in told' => n \in told
  PROVE  Quiet(t, n)
BY DEF Quiet, Holds

LEMMA FlushQuiet ==
  ASSUME TypeOK, NEW t \in Tabs, FlushDraft(t), NEW n \in Texts \ {0}, NEW k \in DraftKinds,
         draft'[k] = n
  PROVE  draft[k] = n \/ (Holds(t, k, n) /\ discarded[t] # n)
BY FlushSets, Sorts DEF Holds

LEMMA QuietTyping ==
  ASSUME RightInv, Next, NEW t \in Tabs, NEW n \in Texts \ {0},
         \/ \E k \in DraftKinds : WriteEntry(t, k)
         \/ OpenMemo(t) \/ (Type(t) /\ n # changes + 1) \/ Erase(t) \/ Choose(t)
  PROVE  Quiet(t, n)
<1> USE DEF editor, save, server, history
<1>1. TypeOK /\ TimerRight(t) /\ UNCHANGED kinds
  BY StepOfTab, RightParts
<1>2. CASE \E k \in DraftKinds : WriteEntry(t, k)
  <2>1. PICK k \in DraftKinds : WriteEntry(t, k)
    BY <1>2
  <2>2. draft'[k] = Entry(timer[t][k]) /\ \A l \in DraftKinds : l # k => draft'[l] = draft[l]
    BY <1>1, <2>1, TypeNow DEF WriteEntry, SaveNow, Drafts
  <2>3. draft'[k] = n => Holds(t, k, n) /\ discarded[t] # n
    BY <1>1, <2>1, <2>2, Sorts DEF WriteEntry, Entry, TimerRight
  <2> QED BY <2>1, <2>2, <2>3 DEF WriteEntry, Quiet, Holds, Saves
<1>3. CASE OpenMemo(t) \/ Choose(t)
  <2>1. page'[t] \notin DraftKinds /\ UNCHANGED <<draft, step, job, told>>
    BY <1>1, <1>3, TypeNow, Sorts DEF OpenMemo, Choose
  <2> QED BY <2>1, NotHolding DEF Saves
<1>4. CASE (Type(t) /\ n # changes + 1) \/ Erase(t)
  <2>1. PICK m \in Texts : m # n /\ Become(t, m)
    BY <1>1, <1>4, TypeNow, NextNumber, Sorts DEF Type, Erase
  <2>2. form'[t]["content"] # n /\ UNCHANGED <<draft, step, job, told>>
    BY <1>1, <1>4, <2>1, BecomeSets DEF Type, Erase
  <2> QED BY <2>2, NotHolding DEF Saves
<1> QED
  BY <1>2, <1>3, <1>4

LEMMA QuietLeaving ==
  ASSUME RightInv, Next, NEW t \in Tabs, NEW n \in Texts \ {0},
         Hide(t) \/ Leave(t) \/ EndTab(t) \/ Finish(t) \/ Fail(t)
  PROVE  Quiet(t, n)
<1> USE DEF editor, save, server, history
<1>1. TypeOK /\ TypeOK' /\ UNCHANGED kinds
  BY StepOfTab, RightParts, StepTyped
<1>2. CASE Hide(t)
  BY <1>1, <1>2, FlushQuiet DEF Hide, Quiet, Holds, Saves
<1>3. CASE Leave(t)
  <2>1. page'[t] \notin DraftKinds /\ UNCHANGED <<step, told>>
    BY <1>1, <1>3, GoneSets, Sorts DEF Leave
  <2>2. job'[t].kind = job[t].kind /\ job'[t].form = job[t].form
    <3>1. job[t] \in Jobs /\ job' = [job EXCEPT ![t] = [job[t] EXCEPT !.open = FALSE]]
      BY <1>1, <1>3, JobParts, TypeNow DEF Leave
    <3> QED BY <1>1, <3>1, TypeNow DEF Jobs
  <2>3. \A k \in DraftKinds : draft'[k] = n => draft[k] = n \/ (Holds(t, k, n) /\ discarded[t] # n)
    BY <1>1, <1>3, FlushQuiet DEF Leave
  <2> QED BY <2>1, <2>2, <2>3, NotHolding DEF Saves
<1>4. CASE EndTab(t)
  <2>1. page'[t] \notin DraftKinds /\ step'[t] = "no" /\ UNCHANGED <<draft, told>>
    BY <1>1, <1>4, GoneSets, EndedSets, Sorts DEF EndTab
  <2> QED BY <2>1, NotHolding DEF Saves
<1>5. CASE Finish(t)
  <2>1. step'[t] = "no" /\ UNCHANGED told
    BY <1>1, <1>5, EndedSets DEF Finish
  <2>2. CASE ~job[t].open
    BY <1>1, <1>5, <2>1, <2>2 DEF Finish, Quiet, Holds, Saves
  <2>3. CASE job[t].open /\ job[t].kind = "home"
    <3>1. form'[t]["content"] # n /\ UNCHANGED draft
      BY <1>1, <1>5, <2>3, BecomeSets, Sorts DEF Finish
    <3> QED BY <2>1, <3>1, NotHolding DEF Saves
  <2>4. CASE job[t].open /\ job[t].kind # "home"
    <3>1. page'[t] \notin DraftKinds /\ FlushDraft(t)
      BY <1>1, <1>5, <2>4, GoneSets, Sorts DEF Finish
    <3> QED BY <1>1, <2>1, <3>1, NotHolding, FlushQuiet DEF Saves
  <2> QED BY <2>2, <2>3, <2>4
<1>6. CASE Fail(t)
  <2>1. step'[t] = "no" /\ UNCHANGED <<draft, page, form, discarded, told>>
    BY <1>1, <1>6, EndedSets DEF Fail
  <2> QED BY <1>1, <2>1 DEF Quiet, Holds, Saves
<1> QED
  BY <1>2, <1>3, <1>4, <1>5, <1>6

LEMMA QuietSaving ==
  ASSUME RightInv, Next, NEW t \in Tabs, NEW n \in Texts \ {0},
         \/ GetMemo(t) \/ UpdateMemo(t) \/ PostMemo(t)
         \/ Answered(t) /\ (job[t].kind \in DraftKinds => job[t].form["content"] # n)
  PROVE  Quiet(t, n)
<1> USE DEF editor, save, server, history
<1>1. TypeOK /\ TypeOK' /\ JobRight(t) /\ UNCHANGED kinds
  BY StepOfTab, RightParts, StepTyped
<1>2. CASE GetMemo(t)
  <2>1. UNCHANGED <<draft, told>> /\ step[t] = "get"
    BY <1>2 DEF GetMemo
  <2>2. \A k \in DraftKinds : ~Saves(t, k, n)'
    <3>1. CASE Difference(t) = {}
      BY <1>1, <1>2, <3>1, EndedSets DEF GetMemo, Saves
    <3>2. CASE Difference(t) # {}
      <4>1. job[t] \in Jobs /\ job' = [job EXCEPT ![t] = [job[t] EXCEPT !.mask = Difference(t)]]
        BY <1>1, <1>2, <3>2, JobParts, TypeNow DEF GetMemo
      <4>2. job'[t].kind = "edit"
        BY <1>1, <2>1, <4>1, TypeNow DEF Jobs, JobRight
      <4> QED BY <4>2, Sorts DEF Saves
    <3> QED BY <3>1, <3>2
  <2>3. CASE Gone(t)
    <3>1. page'[t] \notin DraftKinds
      BY <1>1, <2>3, GoneSets, Sorts
    <3> QED BY <2>1, <2>2, <3>1, NotHolding
  <2>4. CASE UNCHANGED editor
    BY <2>1, <2>2, <2>4 DEF Quiet, Holds
  <2> QED BY <1>2, <2>3, <2>4 DEF GetMemo
<1>3. CASE UpdateMemo(t) \/ PostMemo(t)
  BY <1>1, <1>3 DEF UpdateMemo, PostMemo, Quiet, Holds, Saves
<1>4. CASE Answered(t) /\ (job[t].kind \in DraftKinds => job[t].form["content"] # n)
  <2>1. UNCHANGED <<page, form, job>>
    BY <1>4 DEF Answered
  <2>2. \A k \in DraftKinds : ~Saves(t, k, n)'
    BY <1>4, <2>1 DEF Saves
  <2>3. \A k \in DraftKinds : draft'[k] = n => draft[k] = n
    <3>1. CASE job[t].kind \in DraftKinds
      BY <1>1, <1>4, <3>1, NowSets, TypeNow, Sorts DEF Answered, Clear
    <3>2. CASE job[t].kind \notin DraftKinds
      BY <1>4, <3>2 DEF Answered
    <3> QED BY <3>1, <3>2
  <2>4. n \in told' => n \in told
    BY <1>4 DEF Answered
  <2>5. discarded'[t] = discarded[t] \/ discarded'[t] = form[t]["content"]
    BY <1>1, <1>4, TypeNow DEF Answered
  <2> QED BY <2>1, <2>2, <2>3, <2>4, <2>5 DEF Quiet, Holds
<1> QED
  BY <1>2, <1>3, <1>4

(* The text just typed is in this editor only.                             *)
LEMMA TypedRight ==
  ASSUME RightInv, Next, NEW t \in Tabs, Type(t), NEW n \in Texts \ {0}, n = changes + 1
  PROVE  Right(n)'
<1> USE DEF editor, save, server, history
<1>1. /\ TypeOK /\ UNCHANGED kinds /\ MadeInv /\ TabStep(t)
      /\ \A u \in Tabs : TabMade(u)
  BY StepOfTab, RightParts DEF TabStep, User
<1>2. /\ n \notin Made /\ n \notin told
      /\ \A k \in DraftKinds : draft[k] # n
      /\ \A u \in Tabs : form[u]["content"] # n /\ job[u].form["content"] # n
  BY <1>1, NewText, Sorts DEF MadeInv, StoreMade, TabMade
<1>3. UNCHANGED <<draft, step, job, told>>
  BY DEF Type
<1>4. ASSUME NEW u \in Tabs \ {t}, NEW k \in DraftKinds PROVE ~Holds(u, k, n)'
  BY <1>1, <1>2, OtherTabs DEF Holds
<1>5. ASSUME NEW u \in Tabs, NEW k \in DraftKinds PROVE ~Saves(u, k, n)'
  BY <1>2, <1>3 DEF Saves
<1>6. OneTab(n)'
  <2>1. ASSUME NEW u \in Tabs, NEW v \in Tabs, NEW k \in DraftKinds, NEW l \in DraftKinds
        PROVE  Holds(u, k, n)' /\ Holds(v, l, n)' => u = v
    BY <1>4
  <2> QED BY <1>5, <2>1 DEF OneTab
<1> QED
  BY <1>2, <1>3, <1>6 DEF Right, OneKey, AfterAnswer

(* A save takes the text of its editor.                                    *)
LEMMA SaveRight ==
  ASSUME RightInv, Next, NEW t \in Tabs, Save(t), NEW n \in Texts \ {0}, n \notin shared
  PROVE  Right(n)'
<1> USE DEF editor, save, server, history
<1>1. TypeOK /\ UNCHANGED kinds /\ Right(n) /\ Discards(t) /\ TabStep(t)
  BY StepOfTab, RightParts DEF RightInv, TabStep, User
<1>2. /\ UNCHANGED <<draft, page, form, discarded, told>> /\ step[t] = "no"
      /\ job' = [job EXCEPT ![t] = [kind |-> page[t], open |-> TRUE,
                                    form |-> form[t], mask |-> {}]]
  BY DEF Save
<1>3. job'[t] = [kind |-> page[t], open |-> TRUE, form |-> form[t], mask |-> {}]
  BY <1>1, <1>2, TypeNow
<1>4. \A k \in DraftKinds : Saves(t, k, n)' => Holds(t, k, n)
  BY <1>3 DEF Saves, Holds
<1>5. \A u \in Tabs, k \in DraftKinds : Holds(u, k, n)' <=> Holds(u, k, n)
  BY <1>2 DEF Holds
<1>6. ASSUME NEW u \in Tabs \ {t}
      PROVE  /\ \A k \in DraftKinds : Saves(u, k, n)' <=> Saves(u, k, n)
             /\ job'[u] = job[u] /\ step'[u] = step[u]
  BY <1>1, OtherTabs DEF Saves
<1>7. OneTab(n)'
  <2>1. ASSUME NEW u \in Tabs, NEW v \in Tabs, NEW k \in DraftKinds, NEW l \in DraftKinds
        PROVE  (/\ Holds(u, k, n) /\ Holds(v, l, n) => u = v
                /\ Holds(u, k, n) /\ Saves(v, l, n) => u = v /\ job[v].open
                /\ Saves(u, k, n) /\ Saves(v, l, n) => u = v)'
    <3>1. Holds(u, k, n)' /\ Holds(v, l, n)' => u = v
      BY <1>1, <1>5 DEF Right, OneTab
    <3>2. Holds(u, k, n)' /\ Saves(v, l, n)' => u = v /\ job'[v].open
      <4>1. CASE v = t
        <5>1. Saves(v, l, n)' => Holds(t, l, n)
          BY <1>4, <4>1
        <5> QED BY <1>1, <1>3, <1>5, <4>1, <5>1 DEF Right, OneTab
      <4>2. CASE v # t
        BY <1>1, <1>5, <1>6, <4>2 DEF Right, OneTab
      <4> QED BY <4>1, <4>2
    <3>3. Saves(u, k, n)' /\ Saves(v, l, n)' => u = v
      <4>1. CASE u = t /\ v # t
        BY <1>1, <1>4, <1>6, <4>1 DEF Right, OneTab
      <4>2. CASE u # t /\ v = t
        BY <1>1, <1>4, <1>6, <4>2 DEF Right, OneTab
      <4>3. CASE u # t /\ v # t
        BY <1>1, <1>6, <4>3 DEF Right, OneTab
      <4> QED BY <4>1, <4>2, <4>3
    <3> QED BY <3>1, <3>2, <3>3
  <2> QED BY <2>1 DEF OneTab
<1>8. \A u \in Tabs, k \in DraftKinds : Saves(u, k, n)' => Holds(u, k, n) \/ Saves(u, k, n)
  BY <1>4, <1>6 DEF Saves, Holds
<1>9. OneKey(n)'
  BY <1>1, <1>2, <1>5, <1>8 DEF Right, OneKey
<1>10. AfterAnswer(n)'
  <2>1. SUFFICES ASSUME n \in told', NEW u \in Tabs, NEW k \in DraftKinds
                 PROVE  /\ draft'[k] # n
                        /\ Holds(u, k, n)' => discarded'[u] = n
                        /\ Saves(u, k, n)' => step'[u] = "after"
    BY DEF AfterAnswer
  <2>2. draft'[k] # n /\ (Holds(u, k, n)' => discarded'[u] = n)
    BY <1>1, <1>2, <1>5, <2>1 DEF Right, AfterAnswer
  <2>3. CASE u = t
    <3>1. ~Holds(t, k, n)
      <4>1. SUFFICES ASSUME Holds(t, k, n) PROVE FALSE
        OBVIOUS
      <4>2. discarded[t] = n
        BY <1>1, <1>2, <2>1, <4>1 DEF Right, AfterAnswer
      <4> QED BY <1>1, <1>2, <4>1, <4>2 DEF Discards, Holds
    <3> QED BY <1>4, <2>2, <2>3, <3>1
  <2>4. CASE u # t
    BY <1>1, <1>2, <1>6, <2>1, <2>2, <2>4 DEF Right, AfterAnswer
  <2> QED BY <2>3, <2>4
<1> QED
  BY <1>7, <1>9, <1>10 DEF Right

(* An editor that is opened takes a draft that nobody else has, or makes   *)
(* it a shared one.                                                        *)
LEMMA OpenRight ==
  ASSUME RightInv, Next, NEW t \in Tabs, NEW k \in DraftKinds, OpenDraft(t, k),
         NEW n \in Texts \ {0}, n \notin shared'
  PROVE  Right(n)'
<1> USE DEF editor, save, server, history
<1>1. TypeOK /\ UNCHANGED kinds /\ TabStep(t) /\ JobRight(t) /\ n \notin shared
  BY StepOfTab, RightParts DEF TabStep, OpenDraft
<1>2. PICK m : m = IF draft[k] = None THEN 0 ELSE draft[k]
  OBVIOUS
<1>3. /\ form' = [form EXCEPT ![t] = [NoForm EXCEPT !["content"] = m]]
      /\ page' = [page EXCEPT ![t] = k] /\ page[t] = None
      /\ shared' = IF m # 0 /\ Elsewhere(t, k, m) THEN shared \cup {m} ELSE shared
      /\ UNCHANGED <<draft, step, job, told>>
  BY <1>2 DEF OpenDraft
<1>4. [NoForm EXCEPT !["content"] = m]["content"] = m
  BY DEF NoForm, Fields
<1>5. page'[t] = k /\ form'[t]["content"] = m
  BY <1>1, <1>3, <1>4, TypeNow
<1>6. CASE m # n
  <2>1. Quiet(t, n)
    BY <1>3, <1>5, <1>6, NotHolding DEF Saves
  <2> QED BY <1>1, <2>1, QuietRight
<1>7. CASE m = n
  <2>1. draft[k] = n /\ Right(n)
    BY <1>1, <1>2, <1>7 DEF RightInv
  <2>2. ASSUME NEW u \in Tabs, NEW l \in DraftKinds PROVE ~Holds(u, l, n) /\ ~Saves(u, l, n)
    <3>1. Holds(u, l, n) \/ Saves(u, l, n) => l = k
      BY <2>1 DEF Right, OneKey
    <3>2. ~Elsewhere(t, k, n)
      BY <1>3, <1>7
    <3> QED BY <1>3, <3>1, <3>2, Sorts DEF Elsewhere, Holds, Saves
  <2>3. ASSUME NEW u \in Tabs, NEW l \in DraftKinds
        PROVE  ~Saves(u, l, n)' /\ (Holds(u, l, n)' => u = t /\ l = k)
    <3>1. ~Saves(u, l, n)'
      BY <1>3, <2>2 DEF Saves
    <3>2. CASE u = t
      BY <1>5, <3>1, <3>2 DEF Holds
    <3>3. CASE u # t
      BY <1>1, <2>2, <3>1, <3>3, OtherTabs DEF Holds
    <3> QED BY <3>2, <3>3
  <2>4. OneTab(n)'
    <3>1. ASSUME NEW u \in Tabs, NEW v \in Tabs, NEW j \in DraftKinds, NEW l \in DraftKinds
          PROVE  Holds(u, j, n)' /\ Holds(v, l, n)' => u = v
      BY <2>3
    <3> QED BY <2>3, <3>1 DEF OneTab
  <2>5. n \notin told'
    BY <1>3, <2>1 DEF Right, AfterAnswer
  <2>6. OneKey(n)'
    BY <1>3, <2>1, <2>3 DEF Right, OneKey
  <2> QED BY <2>4, <2>5, <2>6 DEF Right, AfterAnswer
<1> QED
  BY <1>6, <1>7

(* The text of the POST that was answered.                                 *)
LEMMA AnsweredRight ==
  ASSUME RightInv, Next, NEW t \in Tabs, Answered(t), NEW n \in Texts \ {0}, n \notin shared,
         job[t].kind \in DraftKinds, job[t].form["content"] = n
  PROVE  Right(n)'
<1> USE DEF editor, save, server, history
<1>1. TypeOK /\ UNCHANGED kinds /\ TabStep(t) /\ Right(n) /\ JobRight(t)
  BY StepOfTab, RightParts DEF RightInv, TabStep, Saving
<1>2. /\ UNCHANGED <<page, form, job>> /\ step[t] = "sent" /\ step'[t] = "after"
      /\ job[t].open => discarded'[t] = form[t]["content"]
  BY <1>1, TypeNow DEF Answered
<1>3. Saves(t, job[t].kind, n)
  BY <1>2 DEF Saves
<1>4. ASSUME NEW u \in Tabs, NEW k \in DraftKinds
      PROVE  /\ Holds(u, k, n)' => Holds(u, k, n) /\ u = t /\ job[t].open
             /\ Saves(u, k, n)' => Saves(u, k, n) /\ u = t
  <2>1. Holds(u, k, n)' => Holds(u, k, n)
    BY <1>2 DEF Holds
  <2>2. Saves(u, k, n)' => Saves(u, k, n)
    <3>1. CASE u = t
      BY <1>2, <3>1 DEF Saves
    <3>2. CASE u # t
      BY <1>1, <3>2, OtherTabs DEF Saves
    <3> QED BY <3>1, <3>2
  <2> QED BY <1>1, <1>3, <2>1, <2>2 DEF Right, OneTab
<1>5. \A k \in DraftKinds : draft'[k] # n
  <2>1. \A k \in DraftKinds : draft[k] = n => k = job[t].kind
    BY <1>1, <1>3 DEF Right, OneKey
  <2>2. /\ draft'[job[t].kind] = None
        /\ \A k \in DraftKinds : k # job[t].kind => draft'[k] = draft[k]
    BY <1>1, NowSets, TypeNow, Sorts DEF Answered, Clear
  <2> QED BY <2>1, <2>2, Sorts
<1>6. OneTab(n)'
  <2>1. ASSUME NEW u \in Tabs, NEW v \in Tabs, NEW k \in DraftKinds, NEW l \in DraftKinds
        PROVE  (/\ Holds(u, k, n) /\ Holds(v, l, n) => u = v
                /\ Holds(u, k, n) /\ Saves(v, l, n) => u = v /\ job[v].open
                /\ Saves(u, k, n) /\ Saves(v, l, n) => u = v)'
    BY <1>2, <1>4
  <2> QED BY <2>1 DEF OneTab
<1>7. AfterAnswer(n)'
  <2>1. ASSUME NEW u \in Tabs, NEW k \in DraftKinds
        PROVE  /\ draft'[k] # n
               /\ Holds(u, k, n)' => discarded'[u] = n
               /\ Saves(u, k, n)' => step'[u] = "after"
    <3>1. Holds(u, k, n)' => discarded'[u] = n
      BY <1>2, <1>4 DEF Holds
    <3>2. Saves(u, k, n)' => step'[u] = "after"
      BY <1>2, <1>4
    <3> QED BY <1>5, <3>1, <3>2
  <2> QED BY <2>1 DEF AfterAnswer
<1> QED
  BY <1>5, <1>6, <1>7 DEF Right, OneKey

LEMMA TabRight ==
  ASSUME RightInv, Next, NEW t \in Tabs, TabStep(t), NEW n \in Texts \ {0}, n \notin shared'
  PROVE  Right(n)'
<1>1. n \notin shared
  BY DEF TabStep, User, Saving, OpenDraft, WriteEntry, OpenMemo, Type, Erase, Choose, Save,
     Hide, Leave, EndTab, GetMemo, UpdateMemo, PostMemo, Answered, Finish, Fail, history
<1>2. CASE \E k \in DraftKinds : OpenDraft(t, k)
  BY <1>2, OpenRight
<1>3. CASE Type(t) /\ n = changes + 1
  BY <1>3, TypedRight
<1>4. CASE Save(t)
  BY <1>1, <1>4, SaveRight
<1>5. CASE Answered(t) /\ job[t].kind \in DraftKinds /\ job[t].form["content"] = n
  BY <1>1, <1>5, AnsweredRight
<1>6. CASE ~(\E k \in DraftKinds : OpenDraft(t, k)) /\ ~(Type(t) /\ n = changes + 1) /\ ~Save(t)
           /\ ~(Answered(t) /\ job[t].kind \in DraftKinds /\ job[t].form["content"] = n)
  <2>1. Quiet(t, n)
    BY <1>6, QuietTyping, QuietLeaving, QuietSaving DEF TabStep, User, Saving
  <2> QED BY <1>1, <2>1, QuietRight
<1> QED
  BY <1>2, <1>3, <1>4, <1>5, <1>6

LEMMA StepRight == RightInv /\ [Next]_vars => RightInv'
<1> SUFFICES ASSUME RightInv, [Next]_vars PROVE RightInv'
  OBVIOUS
<1> USE DEF editor, save, server, history
<1>1. KeptInv'
  BY StepKept, RightParts
<1>2. CASE UNCHANGED vars
  <2>1. ASSUME NEW n \in Texts \ {0}, n \notin shared' PROVE Right(n)'
    BY <1>2, <2>1 DEF vars, RightInv, Right, OneTab, OneKey, AfterAnswer, Holds, Saves
  <2>2. \A t \in Tabs : TimerRight(t)'
    BY <1>2 DEF vars, RightInv, TimerRight, Holds
  <2> QED BY <1>1, <2>1, <2>2 DEF RightInv
<1>3. CASE Next /\ \E t \in Tabs : TabStep(t)
  <2>1. PICK t \in Tabs : TabStep(t)
    BY <1>3
  <2>2. ASSUME NEW u \in Tabs \ {t} PROVE TimerRight(u)'
    BY <1>3, <2>1, RightParts, StepOfTab, OtherTabs DEF TimerRight, Holds
  <2> QED BY <1>1, <1>3, <2>1, <2>2, OwnTimer, TabRight DEF RightInv
<1>4. CASE \E f \in Fields : Others(f)
  <2>1. ASSUME NEW n \in Texts \ {0}, n \notin shared' PROVE Right(n)'
    BY <1>4, <2>1 DEF Others, RightInv, Right, OneTab, OneKey, AfterAnswer, Holds, Saves
  <2>2. \A t \in Tabs : TimerRight(t)'
    BY <1>4 DEF Others, RightInv, TimerRight, Holds
  <2> QED BY <1>1, <2>1, <2>2 DEF RightInv
<1> QED
  BY <1>2, <1>3, <1>4, StepOfTab

LEMMA InitRight == Init => RightInv
<1> SUFFICES ASSUME Init PROVE RightInv
  OBVIOUS
<1>1. SavesInv /\ MadeInv
  BY InitTyped, InitMade DEF Init, SavesInv, JobRight, MaskRight
<1>2. KeptInv
  BY <1>1, Sorts DEF Init, KeptInv, Discards, LeftRight, DraftKinds
<1>3. \A t \in Tabs : TimerRight(t)
  BY DEF Init, TimerRight
<1>4. ASSUME NEW n \in Texts \ {0} PROVE Right(n)
  <2>1. \A t \in Tabs, k \in DraftKinds : ~Holds(t, k, n) /\ ~Saves(t, k, n)
    BY Sorts DEF Init, Holds, Saves
  <2>2. n \notin told /\ \A k \in DraftKinds : draft[k] # n
    BY Sorts DEF Init
  <2> QED BY <2>1, <2>2 DEF Right, OneTab, OneKey, AfterAnswer
<1> QED
  BY <1>2, <1>3, <1>4 DEF RightInv

(* What was posted does not come back as a draft, unless two editors had   *)
(* it: until the answer the text is in the tab that posts it and nowhere   *)
(* else, and with the answer this tab stops writing it.                    *)
THEOREM PostedStaysGone == Spec => []PostedIsGone
<1>1. RightInv => PostedIsGone
  <2> SUFFICES ASSUME RightInv, NEW k \in DraftKinds, draft[k] \in told, draft[k] \notin shared
               PROVE  FALSE
    BY DEF PostedIsGone
  <2>1. PICK n : n = draft[k]
    OBVIOUS
  <2>2. TypeOK /\ n \in Texts \ {0}
    BY <2>1, RightParts, TypeNow, Sorts DEF Drafts
  <2>3. Right(n)
    BY <2>1, <2>2 DEF RightInv
  <2> QED BY <2>1, <2>2, <2>3 DEF Right, AfterAnswer
<1> QED
  BY <1>1, InitRight, StepRight, PTL DEF Spec
-----------------------------------------------------------------------------
(* Posting once.                                                           *)

Sent(t, n) == step[t] = "sent" /\ \E k \in DraftKinds : Saves(t, k, n)

PostRight(n) ==
  /\ posts[n] > 0 =>
       n # 0 /\ (n \in unsure \cup shared \cup told \/ \E t \in Tabs : Sent(t, n))
  /\ posts[n] > 1 => n \in unsure \cup shared

PostInv == RightInv /\ \A n \in Texts : PostRight(n)

(* What is remembered of a text is not forgotten.                          *)
LEMMA Remembered ==
  ASSUME NEW t \in Tabs, TabStep(t)
  PROVE  unsure \subseteq unsure' /\ shared \subseteq shared' /\ told \subseteq told'
BY DEF TabStep, User, Saving, OpenDraft, WriteEntry, OpenMemo, Type, Erase, Choose, Save,
   Hide, Leave, EndTab, GetMemo, UpdateMemo, PostMemo, Answered, Finish, Fail, history, Unanswered

(* A POST that was sent is answered, goes unanswered, or is still under    *)
(* way.                                                                    *)
LEMMA SentStays ==
  ASSUME RightInv, Next, NEW t \in Tabs, TabStep(t), NEW n \in Texts, Sent(t, n)
  PROVE  Sent(t, n)' \/ n \in unsure' \/ n \in told'
<1> USE DEF editor, save, server, history
<1>1. TypeOK /\ UNCHANGED kinds
  BY StepOfTab, RightParts
<1>2. /\ step[t] = "sent" /\ job[t].kind \in DraftKinds /\ job[t].form["content"] = n
  BY DEF Sent, Saves
<1>3. CASE EndTab(t) \/ Fail(t)
  BY <1>2, <1>3 DEF EndTab, Fail, Unanswered
<1>4. CASE Answered(t)
  BY <1>2, <1>4 DEF Answered
<1>5. CASE ~(EndTab(t) \/ Fail(t) \/ Answered(t))
  <2>1. UNCHANGED step
    BY <1>2, <1>5 DEF TabStep, User, Saving, OpenDraft, WriteEntry, OpenMemo, Type, Erase, Choose,
       Save, Hide, Leave, GetMemo, UpdateMemo, PostMemo, Finish
  <2>2. job'[t].kind = job[t].kind /\ job'[t].form = job[t].form
    <3>1. CASE Leave(t)
      <4>1. job[t] \in Jobs /\ job' = [job EXCEPT ![t] = [job[t] EXCEPT !.open = FALSE]]
        BY <1>1, <3>1, JobParts, TypeNow DEF Leave
      <4> QED BY <1>1, <4>1, TypeNow DEF Jobs
    <3>2. CASE ~Leave(t)
      <4>1. UNCHANGED job
        BY <1>2, <1>5, <3>2 DEF TabStep, User, Saving, OpenDraft, WriteEntry, OpenMemo, Type,
           Erase, Choose, Save, Hide, GetMemo, UpdateMemo, PostMemo, Finish
      <4> QED BY <4>1
    <3> QED BY <3>1, <3>2
  <2> QED BY <1>2, <2>1, <2>2 DEF Sent, Saves
<1> QED
  BY <1>3, <1>4, <1>5

(* A text that is posted is new to the server, or somebody knows better.   *)
LEMMA PostNew ==
  ASSUME PostInv, Next, NEW t \in Tabs, PostMemo(t), NEW n \in Texts,
         job[t].form["content"] = n
  PROVE  PostRight(n)'
<1> USE DEF editor, save, server, history
<1>1. TypeOK /\ JobRight(t) /\ PostRight(n) /\ RightInv
  BY RightParts DEF PostInv
<1>2. /\ step[t] = "send" /\ step'[t] = "sent" /\ UNCHANGED <<job, unsure, shared, told>>
      /\ job[t].kind \in DraftKinds
  BY <1>1, TypeNow DEF PostMemo
<1>3. Saves(t, job[t].kind, n) /\ Sent(t, n)' /\ n # 0
  BY <1>1, <1>2 DEF Saves, Sent, JobRight
<1>4. posts' = [posts EXCEPT ![n] = IF posts[n] = 0 THEN 1 ELSE 2]
  BY DEF PostMemo
<1>5. posts'[n] = IF posts[n] = 0 THEN 1 ELSE 2
  BY <1>1, <1>4, TypeNow
<1>6. posts[n] > 0 => n \in unsure \cup shared
  <2>1. SUFFICES ASSUME posts[n] > 0, n \notin unsure, n \notin shared PROVE FALSE
    OBVIOUS
  <2>2. Right(n)
    BY <1>1, <1>3, <2>1 DEF RightInv
  <2>3. n \notin told
    BY <1>2, <1>3, <2>2 DEF Right, AfterAnswer
  <2>4. PICK u \in Tabs : Sent(u, n)
    BY <1>1, <2>1, <2>3 DEF PostRight
  <2>5. PICK k \in DraftKinds : Saves(u, k, n) /\ step[u] = "sent"
    BY <2>4 DEF Sent
  <2>6. u = t
    BY <1>2, <1>3, <2>2, <2>5 DEF Right, OneTab
  <2> QED BY <1>2, <2>5, <2>6
<1>7. posts[n] \in 0 .. 2
  BY <1>1, TypeNow
<1> QED
  BY <1>2, <1>3, <1>5, <1>6, <1>7 DEF PostRight

LEMMA StepPost == PostInv /\ [Next]_vars => PostInv'
<1> SUFFICES ASSUME PostInv, [Next]_vars PROVE PostInv'
  OBVIOUS
<1> USE DEF editor, save, server, history
<1>1. RightInv /\ RightInv'
  BY StepRight DEF PostInv
<1>2. ASSUME NEW n \in Texts PROVE PostRight(n)'
  <2>1. PostRight(n) /\ TypeOK
    BY <1>1, RightParts DEF PostInv
  <2>2. CASE UNCHANGED vars
    BY <2>1, <2>2 DEF vars, PostRight, Sent, Saves
  <2>3. CASE Next /\ \E t \in Tabs : TabStep(t)
    <3>1. PICK t \in Tabs : TabStep(t)
      BY <2>3
    <3>2. CASE PostMemo(t) /\ job[t].form["content"] = n
      BY <2>3, <3>2, PostNew
    <3>3. CASE ~(PostMemo(t) /\ job[t].form["content"] = n)
      <4>1. posts'[n] = posts[n]
        <5>1. CASE PostMemo(t)
          BY <2>1, <3>3, <5>1, TypeNow DEF PostMemo
        <5>2. CASE UNCHANGED posts
          BY <5>2
        <5> QED BY <3>1, <5>1, <5>2 DEF TabStep, User, Saving, OpenDraft, WriteEntry, OpenMemo,
                   Type, Erase, Choose, Save, Hide, Leave, EndTab, GetMemo, UpdateMemo, Answered,
                   Finish, Fail
      <4>2. ASSUME NEW u \in Tabs, Sent(u, n)
            PROVE  (\E v \in Tabs : Sent(v, n))' \/ n \in unsure' \/ n \in told'
        <5>1. CASE u = t
          BY <1>1, <2>3, <3>1, <4>2, <5>1, SentStays
        <5>2. CASE u # t
          <6>1. Sent(u, n)'
            BY <2>1, <2>3, <3>1, <4>2, <5>2, StepOfTab, OtherTabs DEF Sent, Saves
          <6> QED BY <6>1
        <5> QED BY <5>1, <5>2
      <4> QED BY <2>1, <3>1, <4>1, <4>2, Remembered DEF PostRight
    <3> QED BY <3>2, <3>3
  <2>4. CASE \E f \in Fields : Others(f)
    BY <2>1, <2>4 DEF Others, PostRight, Sent, Saves
  <2> QED BY <2>2, <2>3, <2>4, StepOfTab
<1> QED
  BY <1>1, <1>2 DEF PostInv

(* A text is posted once: the tab that posts it is the only one that has   *)
(* it, it does not press save again before the answer, and what was        *)
(* answered is not saved again.                                            *)
THEOREM PostsAreSingle == Spec => []PostedOnce
<1>1. Init => PostInv
  BY InitRight DEF Init, PostInv, PostRight
<1>2. PostInv => PostedOnce
  BY DEF PostInv, PostRight, PostedOnce
<1> QED
  BY <1>1, <1>2, StepPost, PTL DEF Spec
=============================================================================
