---------------------- MODULE SettingDocuments_proofs ----------------------
(***************************************************************************)
(* Proofs about SettingDocuments: its type invariant, that no call of a    *)
(* Node server writes back a copy that was overtaken, and that the Node    *)
(* handlers implement Documents.                                           *)
(***************************************************************************)
EXTENDS SettingDocuments, TLAPS

(* What a call may be depends on the document it is made on.               *)
CallRight(r) ==
  /\ call[r] # NoOne
  /\ call[r].op \in {"change", "look"} => kind \in {"shortcuts", "webhooks"}
  /\ kind \in {"general", "custom"} => call[r].op \in {"merge", "replace"}

(* The requests that are in the middle of a chain of microtasks on Node.   *)
InChain(r) == r \in Overtaken \/ (pc[r] = "reread" /\ call[r].op # "look")

(* What a Node handler knows when it reads the document again.             *)
RereadRight(r) ==
  \/ kind \in {"shortcuts", "webhooks"} /\ call[r].op = "look"
  \/ /\ kind \in {"shortcuts", "webhooks"} /\ call[r].op = "change"
     /\ r \notin taken <=> Refuses(call[r], Visible)
  \/ AnswersRow(call[r]) /\ r \in taken /\ (Hidden \/ row = "yes")

HandlerRight(r) ==
  /\ pc[r] # "idle" => CallRight(r)
  /\ pc[r] = "idle" => call[r] = NoOne
  /\ (answer[r] = "none") <=> (pc[r] # "end")
  /\ r \in taken => pc[r] \in {"reread", "end"}
  /\ pc[r] \in {"read", "write"} \/ r \in taken => call[r].op # "look"
  /\ pc[r] = "write" => ~Refuses(call[r], copy[r])
  /\ runtime = "node" /\ InChain(r) => turn = r
  /\ runtime = "node" /\ pc[r] = "reread" => RereadRight(r)

Handlers == \A r \in Requests: HandlerRight(r)

IInv == TypeOK /\ FreshUnlessLate /\ Handlers

-----------------------------------------------------------------------------
(* Operators.                                                              *)

(* A call is a record, of a kind its document knows.                       *)
LEMMA CallsTyped ==
  ASSUME NEW k \in Kinds, NEW r \in Requests, NEW a \in CallsOf(k, r)
  PROVE  /\ a \in AnyCall /\ a # NoOne
         /\ a.op \in {"change", "look"} => k \in {"shortcuts", "webhooks"}
         /\ k \in {"general", "custom"} => a.op \in {"merge", "replace"}
         /\ a.op = "look" => k = "shortcuts"
<1>0. r \in Keys /\ \A x \in Keys: {x} \in SUBSET Keys
  BY DEF Keys
<1>1. CASE a \in Additions(k, r)
  BY <1>0, <1>1, NoCall DEF Additions, Call, AnyCall
<1>2. CASE a \in Removals(k)
  BY <1>0, <1>2, NoCall DEF Removals, Call, AnyCall
<1>3. CASE a \in Changes(k)
  BY <1>0, <1>3, NoCall DEF Changes, Call, AnyCall, Kinds, UserKinds
<1>4. CASE a \in Settings(k)
  BY <1>0, <1>4, NoCall DEF Settings, Call, AnyCall
<1> QED
  BY <1>1, <1>2, <1>3, <1>4 DEF CallsOf

(* The content a call makes is a content.                                  *)
LEMMA AppliedTyped ==
  ASSUME NEW r \in Requests, NEW a \in AnyCall, NEW c \in Content
  PROVE  Applied(r, a, c) \in Content
<1>1. r \in Authors /\ NoOne \in Authors
  BY DEF Authors
<1>2. \A k \in Keys: c[k] \in Entry /\ c[k].secret \in Authors
  BY DEF Content, Entry
<1>3. \A k \in Keys: Written(r, a, c[k]) \in Entry
  BY <1>1, <1>2 DEF Written, Entry
<1>4. \A k \in Keys: Signed(r, a, k, c[k]) \in Entry
  BY <1>1, <1>3 DEF Signed, Entry
<1>5. Absent \in Entry
  BY <1>1 DEF Absent, Entry
<1> QED
  BY <1>2, <1>4, <1>5 DEF Applied, Content

(* A replacement does not depend on what it replaces.                      *)
LEMMA ReplacesBlindly ==
  ASSUME NEW r, NEW a, NEW c, NEW d, a.op = "replace"
  PROVE  Applied(r, a, c) = Applied(r, a, d)
<1>1. \A k \in Keys: Written(r, a, c[k]) = Written(r, a, d[k])
  BY DEF Written
<1>2. \A k \in Keys: Signed(r, a, k, c[k]) = Signed(r, a, k, d[k])
  BY <1>1 DEF Signed
<1> QED
  BY <1>2 DEF Applied

LEMMA EmptyTyped == Empty \in Content
  BY DEF Empty, Content, Absent, Entry, Authors

LEMMA VisibleTyped == TypeOK => Visible \in Content
  BY EmptyTyped DEF TypeOK, Visible

-----------------------------------------------------------------------------
(* Type correctness.                                                       *)

LEMMA TypeInit == Init => TypeOK
<1> SUFFICES ASSUME Init PROVE TypeOK
  OBVIOUS
<1>1. doc \in Content
  BY EmptyTyped DEF Init, StartContents, Content, Absent, Entry, Authors
<1> QED
  BY <1>1, EmptyTyped DEF Init, TypeOK, Points

LEMMA TypeNext == TypeOK /\ [Next]_vars => TypeOK'
<1> SUFFICES ASSUME TypeOK, [Next]_vars PROVE TypeOK'
  OBVIOUS
<1> USE DEF TypeOK
<1>1. ASSUME NEW r \in Requests, Begin(r) PROVE TypeOK'
  <2>1. PICK a \in CallsOf(kind, r): call' = [call EXCEPT ![r] = a]
                                     /\ pc' = [pc EXCEPT ![r] = First(a)]
    BY <1>1 DEF Begin
  <2>2. a \in AnyCall
    BY CallsTyped
  <2>3. First(a) \in Points
    BY DEF First, Points
  <2> QED
    BY <1>1, <2>1, <2>2, <2>3 DEF Begin
<1>2. ASSUME NEW r \in Requests, Read(r) PROVE TypeOK'
  BY <1>2, VisibleTyped DEF Read, Go, End, Points
<1>3. ASSUME NEW r \in Requests, Write(r) PROVE TypeOK'
  <2>1. call[r] \in AnyCall \/ Hidden \/ call[r] = NoOne
    OBVIOUS
  <2>2. CASE Hidden
    BY <1>3, <2>2, EmptyTyped DEF Write, Go, End, Points
  <2>3. CASE ~Hidden
    <3>1. doc' = Applied(r, call[r], copy[r]) /\ late' = late \cup (Overtaken \ {r})
          /\ row' = "yes"
      BY <1>3, <2>3 DEF Write
    <3>2. doc' \in Content
      <4>1. copy[r] \in Content
        OBVIOUS
      <4>2. \A k \in Keys: Applied(r, call[r], copy[r])[k] \in Entry
        <5>1. r \in Authors /\ NoOne \in Authors
          BY DEF Authors
        <5> DEFINE e(k) == copy[r][k]
        <5>2. \A k \in Keys: e(k) \in Entry /\ e(k).secret \in Authors
          BY <4>1 DEF Content, Entry
        <5>3. \A k \in Keys: Written(r, call[r], e(k)) \in Entry
          BY <5>1, <5>2 DEF Written, Entry
        <5>4. \A k \in Keys: Signed(r, call[r], k, e(k)) \in Entry
          BY <5>1, <5>3 DEF Signed, Entry
        <5>5. Absent \in Entry
          BY <5>1 DEF Absent, Entry
        <5> QED
          BY <5>2, <5>4, <5>5 DEF Applied
      <4> QED
        BY <3>1, <4>2 DEF Applied, Content
    <3>3. late' \subseteq Requests
      BY <3>1 DEF Overtaken
    <3> QED
      BY <1>3, <3>1, <3>2, <3>3, EmptyTyped DEF Write, Go, End, Points
  <2> QED
    BY <2>2, <2>3
<1>4. ASSUME NEW r \in Requests, Reread(r) PROVE TypeOK'
  BY <1>4 DEF Reread, Go, End, Points
<1>5. ASSUME NEW r \in Requests, Lose(r) PROVE TypeOK'
  BY <1>5 DEF Lose, Go, End, Points
<1>6. CASE Archive
  BY <1>6 DEF Archive, Overtaken
<1>7. CASE UNCHANGED vars
  BY <1>7 DEF vars
<1> QED
  BY <1>1, <1>2, <1>3, <1>4, <1>5, <1>6, <1>7 DEF Next

(* Every state of the setting handlers is one of the model's: documents    *)
(* hold entries, calls are calls, and the handlers stand at known points.  *)
THEOREM TypeCorrect == Spec => []TypeOK
  BY TypeInit, TypeNext, PTL DEF Spec

-----------------------------------------------------------------------------
(* The inductive invariant.                                                *)

Steps(r) == Begin(r) \/ Read(r) \/ Write(r) \/ Reread(r) \/ Lose(r)

LEMMA InitIInv == Init => IInv
<1> SUFFICES ASSUME Init PROVE IInv
  OBVIOUS
<1>1. TypeOK
  BY TypeInit
<1>2. FreshUnlessLate
  BY DEF Init, FreshUnlessLate, Overtaken
<1>3. Handlers
  BY DEF Init, Handlers, HandlerRight, InChain, Overtaken
<1> QED
  BY <1>1, <1>2, <1>3 DEF IInv

(* On Node nobody else is in the middle of a chain when r takes a step.    *)
LEMMA Alone ==
  ASSUME IInv, runtime = "node", NEW r \in Requests, MayRun(r),
         NEW q \in Requests, q # r
  PROVE  ~InChain(q)
  BY Apart DEF IInv, Handlers, HandlerRight, MayRun

(* A step of r leaves the other requests where they stand.                 *)
LEMMA Others ==
  ASSUME IInv, NEW r \in Requests, Steps(r), NEW q \in Requests, q # r
  PROVE  /\ pc'[q] = pc[q] /\ call'[q] = call[q] /\ answer'[q] = answer[q]
         /\ copy'[q] = copy[q]
         /\ q \in taken' <=> q \in taken
         /\ q \in Overtaken' <=> q \in Overtaken
         /\ InChain(q)' <=> InChain(q)
<1> USE DEF IInv, TypeOK
<1>0. kind' = kind
  BY DEF Steps, Begin, Read, Write, Reread, Lose
<1>1. /\ pc'[q] = pc[q] /\ call'[q] = call[q] /\ answer'[q] = answer[q]
      /\ copy'[q] = copy[q]
      /\ q \in taken' <=> q \in taken
  <2>1. CASE Begin(r)
    BY <2>1 DEF Begin
  <2>2. CASE Read(r)
    BY <2>2 DEF Read, Go, End
  <2>3. CASE Write(r)
    BY <2>3 DEF Write, Go, End
  <2>4. CASE Reread(r)
    BY <2>4 DEF Reread, Go, End
  <2>5. CASE Lose(r)
    BY <2>5 DEF Lose, Go, End
  <2> QED
    BY <2>1, <2>2, <2>3, <2>4, <2>5 DEF Steps
<1> QED
  BY <1>0, <1>1 DEF Overtaken, First, InChain

(* Where each step leads the request that takes it.                        *)
LEMMA Leads ==
  ASSUME IInv, NEW r \in Requests
  PROVE  /\ Begin(r) => \E a \in CallsOf(kind, r):
                           call'[r] = a /\ pc'[r] = First(a) /\ turn' = turn
         /\ Read(r) => /\ call'[r] = call[r] /\ copy'[r] = Visible
                       /\ \/ pc'[r] = "write" /\ ~Refuses(call[r], Visible) /\ answer'[r] = answer[r]
                          \/ pc'[r] = "reread" /\ Refuses(call[r], Visible)
                             /\ kind = "shortcuts" /\ call[r].op = "change" /\ answer'[r] = answer[r]
                          \/ pc'[r] = "end" /\ answer'[r] = "missing" /\ Refuses(call[r], Visible)
         /\ Write(r) => /\ call'[r] = call[r] /\ r \in taken'
                        /\ \/ pc'[r] = "reread" /\ Rereads(call[r]) /\ answer'[r] = answer[r]
                           \/ pc'[r] = "end" /\ answer'[r] = "ok" /\ ~Rereads(call[r])
         /\ Reread(r) => /\ call'[r] = call[r] /\ pc'[r] = "end"
                         /\ answer'[r] \in {"ok", "missing", "failed"}
         /\ Lose(r) => call'[r] = call[r] /\ pc'[r] = "end" /\ answer'[r] = "lost"
<1> USE DEF IInv, TypeOK
<1>1. ASSUME Begin(r)
      PROVE  \E a \in CallsOf(kind, r): call'[r] = a /\ pc'[r] = First(a) /\ turn' = turn
  BY <1>1 DEF Begin
<1>2. ASSUME Read(r)
      PROVE  /\ call'[r] = call[r] /\ copy'[r] = Visible
             /\ \/ pc'[r] = "write" /\ ~Refuses(call[r], Visible) /\ answer'[r] = answer[r]
                \/ pc'[r] = "reread" /\ Refuses(call[r], Visible)
                   /\ kind = "shortcuts" /\ call[r].op = "change" /\ answer'[r] = answer[r]
                \/ pc'[r] = "end" /\ answer'[r] = "missing" /\ Refuses(call[r], Visible)
  BY <1>2 DEF Read, Go, End
<1>3. ASSUME Write(r)
      PROVE  /\ call'[r] = call[r] /\ r \in taken'
             /\ \/ pc'[r] = "reread" /\ Rereads(call[r]) /\ answer'[r] = answer[r]
                \/ pc'[r] = "end" /\ answer'[r] = "ok" /\ ~Rereads(call[r])
  BY <1>3 DEF Write, Go, End
<1>4. ASSUME Reread(r)
      PROVE  /\ call'[r] = call[r] /\ pc'[r] = "end"
             /\ answer'[r] \in {"ok", "missing", "failed"}
  BY <1>4 DEF Reread, Go, End
<1>5. ASSUME Lose(r) PROVE call'[r] = call[r] /\ pc'[r] = "end" /\ answer'[r] = "lost"
  BY <1>5 DEF Lose, Go, End
<1> QED
  BY <1>1, <1>2, <1>3, <1>4, <1>5

(* What a step goes on to hold the turn for, on Node.                      *)
LEMMA Turns ==
  ASSUME IInv, NEW r \in Requests, runtime = "node",
         Read(r) \/ Write(r) \/ Reread(r) \/ Lose(r), pc'[r] # "end"
  PROVE  turn' = r
<1> USE DEF IInv, TypeOK
<1>1. ASSUME NEW p, Go(r, p) PROVE turn' = r
  <2>1. pc'[r] = p
    BY <1>1 DEF Go
  <2> QED
    BY <1>1, <2>1 DEF Go
<1> QED
  BY <1>1 DEF Read, Write, Reread, Lose, End

LEMMA OthersCopies ==
  ASSUME IInv, NEW r \in Requests, Steps(r)
  PROVE  \A q \in Overtaken': q # r => q \in Overtaken /\ copy'[q] = copy[q]
<1> SUFFICES ASSUME NEW q \in Overtaken', q # r
             PROVE  q \in Overtaken /\ copy'[q] = copy[q]
  OBVIOUS
<1>1. q \in Requests
  BY DEF Overtaken
<1> QED
  BY <1>1, Others

LEMMA FreshNext == IInv /\ [Next]_vars => FreshUnlessLate'
<1> SUFFICES ASSUME IInv, [Next]_vars PROVE FreshUnlessLate'
  OBVIOUS
<1>00. FreshUnlessLate
  BY DEF IInv
<1>0. runtime' = runtime /\ kind' = kind
  BY DEF Next, Begin, Read, Write, Reread, Lose, Archive, vars
<1>1. ASSUME NEW r \in Requests, Begin(r) PROVE FreshUnlessLate'
  <2>1. late' = late /\ Visible' = Visible
    BY <1>1 DEF Begin, Visible, Hidden
  <2>2. r \notin Overtaken'
    BY <1>1, <1>0, Leads DEF Overtaken, First
  <2> QED
    BY <1>00, <1>0, <1>1, <2>1, <2>2, OthersCopies DEF FreshUnlessLate, Steps
<1>2. ASSUME NEW r \in Requests, Read(r) PROVE FreshUnlessLate'
  <2>1. late' = late /\ Visible' = Visible
    BY <1>2 DEF Read, Visible, Hidden
  <2>2. copy'[r] = Visible
    BY <1>2, Leads
  <2> QED
    BY <1>00, <1>0, <1>2, <2>1, <2>2, OthersCopies DEF FreshUnlessLate, Steps
<1>3. ASSUME NEW r \in Requests, Write(r) PROVE FreshUnlessLate'
  <2>1. r \notin Overtaken'
    BY <1>3, Leads DEF Overtaken
  <2>2. CASE Hidden
    <3>1. late' = late /\ Visible' = Visible
      BY <1>3, <2>2 DEF Write, Visible, Hidden
    <3> QED
      BY <1>00, <1>0, <1>3, <2>1, <3>1, OthersCopies DEF FreshUnlessLate, Steps
  <2>3. CASE ~Hidden
    <3>1. late' = late \cup (Overtaken \ {r})
      BY <1>3, <2>3 DEF Write
    <3>2. ASSUME runtime = "node" PROVE late' = {}
      <4>1. MayRun(r)
        BY <1>3 DEF Write
      <4>2. Overtaken \subseteq {r}
        BY <3>2, <4>1, Alone DEF InChain, Overtaken
      <4> QED
        BY <1>00, <3>1, <3>2, <4>2 DEF FreshUnlessLate
    <3>3. Overtaken' \subseteq late'
      BY <1>3, <2>1, <3>1, OthersCopies DEF Steps
    <3> QED
      BY <1>0, <3>2, <3>3 DEF FreshUnlessLate
  <2> QED
    BY <2>2, <2>3
<1>4. ASSUME NEW r \in Requests, Reread(r) \/ Lose(r) PROVE FreshUnlessLate'
  <2>1. late' = late /\ Visible' = Visible
    BY <1>4 DEF Reread, Lose, Visible, Hidden
  <2>2. r \notin Overtaken'
    BY <1>4, Leads DEF Overtaken
  <2> QED
    BY <1>00, <1>0, <1>4, <2>1, <2>2, OthersCopies DEF FreshUnlessLate, Steps
<1>5. CASE Archive
  <2>1. Overtaken' = Overtaken /\ late' = late \cup Overtaken
    BY <1>5 DEF Archive, Overtaken, First
  <2>2. ASSUME runtime = "node" PROVE Overtaken = {}
    <3>1. turn = NoOne
      BY <1>5, <2>2 DEF Archive
    <3> QED
      BY <2>2, <3>1, Apart DEF IInv, Handlers, HandlerRight, InChain, Overtaken
  <2> QED
    BY <1>00, <1>0, <2>1, <2>2 DEF FreshUnlessLate
<1>6. CASE UNCHANGED vars
  BY <1>00, <1>6 DEF vars, FreshUnlessLate, Overtaken, First, Visible, Hidden
<1> QED
  BY <1>1, <1>2, <1>3, <1>4, <1>5, <1>6 DEF Next

LEMMA HandlersOthers ==
  ASSUME IInv, NEW r \in Requests, Steps(r), NEW q \in Requests, q # r
  PROVE  HandlerRight(q)'
<1>1. HandlerRight(q) /\ (runtime = "node" => ~InChain(q))
  BY Alone DEF IInv, Handlers, Steps, Begin, Read, Write, Reread, Lose
<1>2. kind' = kind /\ runtime' = runtime
  BY DEF Steps, Begin, Read, Write, Reread, Lose
<1>3. /\ pc'[q] = pc[q] /\ call'[q] = call[q] /\ answer'[q] = answer[q]
      /\ copy'[q] = copy[q]
      /\ q \in taken' <=> q \in taken
      /\ InChain(q)' <=> InChain(q)
  BY Others
<1>4. CallRight(q)' <=> CallRight(q)
  BY <1>2, <1>3 DEF CallRight
<1>5. Refuses(call[q], copy[q])' <=> Refuses(call[q], copy[q])
  BY <1>3 DEF Refuses, Has
<1>6. runtime = "node" /\ pc'[q] = "reread" => RereadRight(q)'
  BY <1>1, <1>2, <1>3 DEF HandlerRight, CallRight, InChain, RereadRight, AnswersRow
<1> QED
  BY <1>1, <1>2, <1>3, <1>4, <1>5, <1>6 DEF HandlerRight

LEMMA HandlersBegin ==
  ASSUME IInv, NEW r \in Requests, Begin(r)
  PROVE  HandlerRight(r)'
<1>0. HandlerRight(r) /\ kind' = kind /\ runtime' = runtime /\ kind \in Kinds
      /\ pc[r] = "idle" /\ answer' = answer /\ taken' = taken
  BY DEF IInv, TypeOK, Handlers, Begin
<1>1. PICK a \in CallsOf(kind, r): call'[r] = a /\ pc'[r] = First(a) /\ turn' = turn
  BY Leads
<1>2. /\ a # NoOne
      /\ a.op \in {"change", "look"} => kind \in {"shortcuts", "webhooks"}
      /\ kind \in {"general", "custom"} => a.op \in {"merge", "replace"}
  BY <1>0, CallsTyped
<1>3. First(a) # "idle" /\ First(a) # "end"
      /\ (First(a) = "reread" <=> a.op = "look")
      /\ (First(a) = "write" => a.op = "replace")
  BY DEF First
<1>4. r \notin Overtaken'
  BY <1>0, <1>1 DEF Overtaken, First
<1> QED
  BY <1>0, <1>1, <1>2, <1>3, <1>4
     DEF HandlerRight, CallRight, InChain, RereadRight, AnswersRow, Refuses

LEMMA HandlersRead ==
  ASSUME IInv, NEW r \in Requests, Read(r)
  PROVE  HandlerRight(r)'
<1>0. HandlerRight(r) /\ kind' = kind /\ runtime' = runtime /\ pc[r] = "read"
      /\ taken' = taken /\ doc' = doc /\ archived' = archived
  BY DEF IInv, Handlers, Read
<1>1. /\ call'[r] = call[r] /\ copy'[r] = Visible
      /\ \/ pc'[r] = "write" /\ ~Refuses(call[r], Visible) /\ answer'[r] = answer[r]
         \/ pc'[r] = "reread" /\ Refuses(call[r], Visible)
            /\ kind = "shortcuts" /\ call[r].op = "change" /\ answer'[r] = answer[r]
         \/ pc'[r] = "end" /\ answer'[r] = "missing" /\ Refuses(call[r], Visible)
  BY Leads
<1>2. Visible' = Visible
  BY <1>0 DEF Visible, Hidden
<1>3. runtime = "node" /\ pc'[r] # "end" => turn' = r
  BY Turns
<1>4. InChain(r)' => pc'[r] # "end"
  BY DEF InChain, Overtaken
<1> QED
  BY <1>0, <1>1, <1>2, <1>3, <1>4 DEF HandlerRight, CallRight, RereadRight

(* What was written is there to be read again.                             *)
LEMMA WrittenStands ==
  ASSUME IInv, NEW r \in Requests, Write(r), runtime = "node", call[r].op = "change"
  PROVE  ~Refuses(call[r], Visible')
<1>1. pc[r] = "write" /\ ~Refuses(call[r], copy[r]) /\ call[r] \in AnyCall
  BY DEF IInv, TypeOK, Handlers, HandlerRight, Write, CallRight
<1>2. CASE Hidden
  <2>1. Visible' = Visible
    BY <1>2 DEF Write, Visible, Hidden
  <2>2. r \in Overtaken /\ late = {}
    BY <1>1 DEF Overtaken, First, IInv, FreshUnlessLate
  <2>3. copy[r] = Visible
    BY <2>2 DEF IInv, FreshUnlessLate
  <2> QED
    BY <1>1, <2>1, <2>3
<1>3. CASE ~Hidden
  <2>1. Visible' = Applied(r, call[r], copy[r])
    BY <1>3 DEF Write, Visible, Hidden
  <2>2. \A k \in call[r].keys: k \in Keys
    BY <1>1 DEF AnyCall
  <2>3. \A k \in Keys: Signed(r, call[r], k, copy[r][k]).by = r
    BY DEF Signed, Written
  <2>4. \A k \in call[r].keys: Applied(r, call[r], copy[r])[k].by = r
    BY <2>2, <2>3 DEF Applied
  <2> QED
    BY <2>1, <2>4, Apart DEF Refuses, Has
<1> QED
  BY <1>2, <1>3

LEMMA HandlersWrite ==
  ASSUME IInv, NEW r \in Requests, Write(r)
  PROVE  HandlerRight(r)'
<1>0. HandlerRight(r) /\ kind' = kind /\ runtime' = runtime /\ pc[r] = "write"
      /\ archived' = archived
  BY DEF IInv, Handlers, Write
<1>1. /\ call'[r] = call[r] /\ r \in taken'
      /\ \/ pc'[r] = "reread" /\ Rereads(call[r]) /\ answer'[r] = answer[r]
         \/ pc'[r] = "end" /\ answer'[r] = "ok" /\ ~Rereads(call[r])
  BY Leads
<1>2. runtime = "node" /\ pc'[r] # "end" => turn' = r
  BY Turns
<1>3. ASSUME runtime = "node", pc'[r] = "reread" PROVE RereadRight(r)'
  <2>1. CASE AnswersRow(call[r])
    <3>1. Hidden' \/ row' = "yes"
      BY <1>0 DEF Write, Hidden
    <3> QED
      BY <1>0, <1>1, <2>1, <3>1 DEF RereadRight, AnswersRow
  <2>2. CASE ~AnswersRow(call[r])
    <3>1. call[r].op = "change"
      BY <1>1, <1>3, <2>2 DEF Rereads
    <3>2. ~Refuses(call[r], Visible')
      BY <1>3, <3>1, WrittenStands
    <3> QED
      BY <1>0, <1>1, <3>1, <3>2 DEF RereadRight, HandlerRight, CallRight
  <2> QED
    BY <2>1, <2>2
<1>4. InChain(r)' => pc'[r] # "end"
  BY DEF InChain, Overtaken
<1> QED
  BY <1>0, <1>1, <1>2, <1>3, <1>4 DEF HandlerRight, CallRight

LEMMA HandlersEnd ==
  ASSUME IInv, NEW r \in Requests, Reread(r) \/ Lose(r)
  PROVE  HandlerRight(r)'
<1>0. HandlerRight(r) /\ kind' = kind /\ pc[r] # "idle" /\ pc'[r] = "end"
      /\ call'[r] = call[r] /\ answer'[r] # "none" /\ taken' = taken
  BY Leads DEF IInv, Handlers, Reread, Lose
<1>1. ~InChain(r)'
  BY <1>0 DEF InChain, Overtaken
<1> QED
  BY <1>0, <1>1 DEF HandlerRight, CallRight

LEMMA HandlersNext == IInv /\ [Next]_vars => Handlers'
<1> SUFFICES ASSUME IInv, [Next]_vars, NEW q \in Requests PROVE HandlerRight(q)'
  BY DEF Handlers
<1>0. HandlerRight(q)
  BY DEF IInv, Handlers
<1>1. ASSUME NEW r \in Requests, Steps(r) PROVE HandlerRight(q)'
  <2>1. CASE q # r
    BY <1>1, <2>1, HandlersOthers
  <2>2. CASE q = r
    BY <1>1, <2>2, HandlersBegin, HandlersRead, HandlersWrite, HandlersEnd DEF Steps
  <2> QED
    BY <2>1, <2>2
<1>2. CASE Archive
  <2>1. UNCHANGED <<runtime, kind, call, taken, answer, pc, copy, turn>>
    BY <1>2 DEF Archive
  <2>2. InChain(q)' <=> InChain(q)
    BY <2>1 DEF InChain, Overtaken, First
  <2>3. runtime = "node" => ~InChain(q)
    BY <1>0, <1>2, Apart DEF Archive, HandlerRight
  <2>4. runtime = "node" /\ pc[q] = "reread" => RereadRight(q)'
    BY <1>0, <2>1, <2>3 DEF InChain, RereadRight, HandlerRight, CallRight
  <2> QED
    BY <1>0, <2>1, <2>2, <2>4 DEF HandlerRight, CallRight
<1>3. CASE UNCHANGED vars
  <2>1. InChain(q)' <=> InChain(q)
    BY <1>3 DEF vars, InChain, Overtaken, First
  <2>2. RereadRight(q)' <=> RereadRight(q)
    BY <1>3 DEF vars, RereadRight, AnswersRow, Visible, Hidden
  <2> QED
    BY <1>0, <1>3, <2>1, <2>2 DEF vars, HandlerRight, CallRight
<1> QED
  BY <1>1, <1>2, <1>3 DEF Next, Steps

LEMMA InductiveInvariant == Spec => []IInv
<1>1. IInv /\ [Next]_vars => IInv'
  BY TypeNext, FreshNext, HandlersNext DEF IInv
<1> QED
  BY InitIInv, <1>1, PTL DEF Spec

(* A call writes back what it read only while that still stands, unless it *)
(* was overtaken, and on a Node server no call ever is: the two statements *)
(* of a repository method run in one chain of microtasks.                  *)
THEOREM FreshCopies == Spec => []FreshUnlessLate
<1>1. IInv => FreshUnlessLate
  BY DEF IInv
<1> QED
  BY InductiveInvariant, <1>1, PTL

-----------------------------------------------------------------------------
(* The handlers of a Node server implement Documents.                      *)

(* The words of Documents mean what they mean here.                        *)
LEMMA SameWords ==
  /\ Abstract!Empty = Empty
  /\ Abstract!UserKinds = UserKinds
  /\ Abstract!Kinds = Kinds
  /\ Abstract!StartContents = StartContents
<1>1. Abstract!Keys = Keys /\ Abstract!Absent = Absent
  BY DEF Abstract!Keys, Keys, Abstract!Absent, Absent
<1>2. Abstract!Empty = Empty
  BY <1>1 DEF Abstract!Empty, Empty
<1>3. Abstract!UserKinds = UserKinds
  BY DEF Abstract!UserKinds, UserKinds
<1> QED
  BY <1>1, <1>2, <1>3 DEF Abstract!Kinds, Kinds, Abstract!StartContents, StartContents

LEMMA SameRefusals ==
  ASSUME NEW a, NEW c
  PROVE  Abstract!Refuses(a, c) <=> Refuses(a, c)
  BY DEF Abstract!Refuses, Refuses, Abstract!Has, Has

LEMMA SameResults ==
  ASSUME NEW r, NEW a, NEW c
  PROVE  Abstract!Applied(r, a, c) = Applied(r, a, c)
  BY DEF Abstract!Applied, Applied, Abstract!Signed, Signed, Abstract!Written, Written,
         Abstract!Keys, Keys, Abstract!Absent, Absent

LEMMA SameCalls ==
  ASSUME NEW k, NEW r
  PROVE  Abstract!CallsOf(k, r) = CallsOf(k, r)
<1>1. Abstract!Keys = Keys
  BY DEF Abstract!Keys, Keys
<1>2. \A op, ks, ss: Abstract!Call(op, ks, ss) = Call(op, ks, ss)
  BY DEF Abstract!Call, Call
<1>3. Abstract!Additions(k, r) = Additions(k, r)
  BY <1>2 DEF Abstract!Additions, Additions
<1>4. Abstract!Removals(k) = Removals(k)
  BY <1>1, <1>2 DEF Abstract!Removals, Removals, Abstract!Call, Call
<1>5. Abstract!Changes(k) = Changes(k)
  BY <1>1, <1>2 DEF Abstract!Changes, Changes, Abstract!Call, Call
<1>6. Abstract!Settings(k) = Settings(k)
  BY <1>1, <1>2 DEF Abstract!Settings, Settings, Abstract!Call, Call
<1> QED
  BY <1>3, <1>4, <1>5, <1>6 DEF Abstract!CallsOf, CallsOf

LEMMA NodeStarts == Init => Abstract!AInit
<1> SUFFICES ASSUME Init PROVE Abstract!AInit
  OBVIOUS
<1>1. Empty \in StartContents
  <2>1. [Empty EXCEPT ![Old] = Absent] = Empty
    BY DEF Empty, Keys
  <2> QED
    BY <2>1 DEF StartContents
<1> QED
  BY <1>1, SameWords DEF Init, Abstract!AInit, OnNode

(* The variables of Documents on a Node server are those of the handlers.  *)
LEMMA NodeVisible ==
  ASSUME runtime = "node"
  PROVE  /\ Abstract!Visible = Visible
         /\ Abstract!Hidden <=> Hidden
         /\ OnNode(archived, "no") = archived /\ OnNode(doc, Empty) = doc
         /\ OnNode(taken, {}) = taken
         /\ OnNode(call, [r \in Requests |-> NoOne]) = call
         /\ OnNode(answer, [r \in Requests |-> "none"]) = answer
  BY SameWords DEF OnNode, Abstract!Visible, Abstract!Hidden, Visible, Hidden

LEMMA NodeWaits ==
  ASSUME IInv, runtime = "node", NEW r \in Requests, pc[r] \notin {"idle", "end"}
  PROVE  Abstract!Waiting(r)
  BY NodeVisible DEF IInv, Handlers, HandlerRight, CallRight, Abstract!Waiting

LEMMA NodeBegins ==
  ASSUME IInv, runtime = "node", NEW r \in Requests, Begin(r)
  PROVE  Abstract!Ask(r)
<1>1. call[r] = NoOne
  BY DEF IInv, Handlers, HandlerRight, Begin
<1> QED
  BY <1>1, SameCalls DEF Begin, Abstract!Ask, OnNode

LEMMA NodeReads ==
  ASSUME IInv, runtime = "node", NEW r \in Requests, Read(r)
  PROVE  Abstract!Answer(r, "missing") \/ UNCHANGED Abstract!avars
<1>1. r \notin taken /\ pc[r] = "read"
  BY DEF IInv, Handlers, HandlerRight, Read
<1>2. UNCHANGED <<runtime, kind, archived, doc, call, taken>>
  BY DEF Read
<1>3. CASE UNCHANGED answer
  BY <1>2, <1>3 DEF Abstract!avars, OnNode
<1>4. CASE Refuses(call[r], Visible) /\ End(r, "missing")
  BY <1>1, <1>2, <1>4, NodeWaits, NodeVisible, SameRefusals DEF End, Abstract!Answer, OnNode
<1> QED
  BY <1>3, <1>4 DEF Read

LEMMA NodeWrites ==
  ASSUME IInv, runtime = "node", NEW r \in Requests, Write(r)
  PROVE  Abstract!Take(r)
<1>1. /\ pc[r] = "write" /\ r \notin taken /\ call[r].op # "look"
      /\ ~Refuses(call[r], copy[r])
  BY DEF IInv, Handlers, HandlerRight, Write
<1>2. r \in Overtaken => copy[r] = Visible
  BY DEF IInv, FreshUnlessLate
<1>3. r \notin Overtaken => call[r].op = "replace"
  BY <1>1 DEF Overtaken, First
<1>4. ~Refuses(call[r], Visible)
  BY <1>1, <1>2, <1>3 DEF Refuses
<1>5. Applied(r, call[r], copy[r]) = Applied(r, call[r], Visible)
  BY <1>2, <1>3, ReplacesBlindly
<1>6. /\ doc' = IF Hidden THEN doc ELSE Applied(r, call[r], Visible)
      /\ taken' = taken \cup {r}
      /\ answer' \in {answer, [answer EXCEPT ![r] = "ok"]}
      /\ UNCHANGED <<runtime, kind, archived, call>>
  BY <1>5 DEF Write, End
<1> QED
  BY <1>1, <1>4, <1>6, NodeWaits, NodeVisible, SameRefusals, SameResults DEF Abstract!Take, OnNode

LEMMA NodeRereads ==
  ASSUME IInv, runtime = "node", NEW r \in Requests, Reread(r)
  PROVE  \E v \in {"ok", "missing", "failed", "lost"}: Abstract!Answer(r, v)
<1>1. pc[r] = "reread" /\ RereadRight(r) /\ UNCHANGED <<runtime, kind, archived, doc, call, taken>>
  BY DEF IInv, Handlers, HandlerRight, Reread
<1>2. PICK v \in {"ok", "missing", "failed"}:
        /\ v = IF AnswersRow(call[r])
               THEN IF Hidden \/ row = "no" THEN "failed" ELSE "ok"
               ELSE IF Refuses(call[r], Visible) THEN "missing" ELSE "ok"
        /\ answer' = [answer EXCEPT ![r] = v]
  BY DEF Reread, End
<1>3. /\ v = "ok" => r \in taken \/ call[r].op = "look"
      /\ v = "missing" => r \notin taken /\ Refuses(call[r], Visible)
      /\ v = "failed" => Hidden
  <2>1. CASE AnswersRow(call[r])
    <3>1. call[r].op \notin {"look", "change"}
      BY <2>1 DEF IInv, Handlers, HandlerRight, CallRight, AnswersRow, Reread
    <3> QED
      BY <1>1, <1>2, <2>1, <3>1 DEF RereadRight
  <2>2. CASE ~AnswersRow(call[r]) /\ call[r].op = "change"
    BY <1>1, <1>2, <2>2 DEF RereadRight
  <2>3. CASE ~AnswersRow(call[r]) /\ call[r].op = "look"
    <3>1. r \notin taken
      BY <2>3 DEF IInv, Handlers, HandlerRight
    <3> QED
      BY <1>2, <2>3, <3>1
  <2> QED
    BY <1>1, <2>1, <2>2, <2>3 DEF RereadRight
<1> QED
  BY <1>1, <1>2, <1>3, NodeWaits, NodeVisible, SameRefusals DEF Abstract!Answer, OnNode

LEMMA NodeLoses ==
  ASSUME IInv, runtime = "node", NEW r \in Requests, Lose(r)
  PROVE  Abstract!Answer(r, "lost")
<1>1. pc[r] \notin {"idle", "end"} /\ answer' = [answer EXCEPT ![r] = "lost"]
      /\ UNCHANGED <<runtime, kind, archived, doc, call, taken>>
  BY DEF Lose, End
<1> QED
  BY <1>1, NodeWaits DEF Abstract!Answer, OnNode

LEMMA NodeSteps == IInv /\ [Next]_vars => [Abstract!ANext]_(Abstract!avars)
<1> SUFFICES ASSUME IInv, [Next]_vars
             PROVE  Abstract!ANext \/ UNCHANGED Abstract!avars
  OBVIOUS
<1>0. runtime' = runtime /\ kind' = kind
  BY DEF Next, Begin, Read, Write, Reread, Lose, Archive, vars
<1>1. CASE runtime # "node"
  BY <1>0, <1>1 DEF Abstract!avars, OnNode
<1>2. CASE runtime = "node"
  <2>1. ASSUME NEW r \in Requests, Begin(r) PROVE Abstract!ANext
    BY <1>2, <2>1, NodeBegins DEF Abstract!ANext
  <2>2. ASSUME NEW r \in Requests, Read(r)
        PROVE  Abstract!ANext \/ UNCHANGED Abstract!avars
    BY <1>2, <2>2, NodeReads DEF Abstract!ANext
  <2>3. ASSUME NEW r \in Requests, Write(r) PROVE Abstract!ANext
    BY <1>2, <2>3, NodeWrites DEF Abstract!ANext
  <2>4. ASSUME NEW r \in Requests, Reread(r) PROVE Abstract!ANext
    BY <1>2, <2>4, NodeRereads DEF Abstract!ANext
  <2>5. ASSUME NEW r \in Requests, Lose(r) PROVE Abstract!ANext
    BY <1>2, <2>5, NodeLoses DEF Abstract!ANext
  <2>6. CASE Archive
    BY <1>2, <2>6 DEF Archive, Abstract!ANext, Abstract!Archive, OnNode
  <2>7. CASE UNCHANGED vars
    BY <2>7 DEF vars, Abstract!avars, OnNode
  <2> QED
    BY <2>1, <2>2, <2>3, <2>4, <2>5, <2>6, <2>7 DEF Next
<1> QED
  BY <1>1, <1>2

(* On a Node server a call on a setting takes effect in one step on the    *)
(* content of that moment, and its answer says what it did, for any number *)
(* of requests, archived owners and lost requests.                         *)
THEOREM NodeRefines == Spec => NodeImplements
<1>1. Init => Abstract!AInit
  BY NodeStarts
<1>2. IInv /\ [Next]_vars => [Abstract!ANext]_(Abstract!avars)
  BY NodeSteps
<1> QED
  BY InductiveInvariant, <1>1, <1>2, PTL DEF Spec, NodeImplements, Abstract!ASpec

-----------------------------------------------------------------------------
(* What a call makes of a content keeps the secrets of the entries it      *)
(* keeps, when it is not a replacement.                                    *)
LEMMA AppliedKeepsSecrets ==
  ASSUME NEW r \in Requests, NEW a, NEW c, NEW k \in Keys,
         a.op # "replace", c[k].secret # NoOne, Has(Applied(r, a, c), k)
  PROVE  Applied(r, a, c)[k].secret # NoOne
<1>1. CASE k \in a.keys /\ a.op # "remove"
  <2>1. Applied(r, a, c)[k] = Signed(r, a, k, c[k])
    BY <1>1 DEF Applied
  <2>2. Signed(r, a, k, c[k]).secret = IF k \in a.sends THEN r ELSE c[k].secret
    BY DEF Signed, Written
  <2> QED
    BY <2>1, <2>2, Apart
<1>2. CASE k \in a.keys /\ a.op = "remove"
  BY <1>2 DEF Applied, Has, Absent
<1>3. CASE k \notin a.keys
  BY <1>3 DEF Applied, Has, Absent
<1> QED
  BY <1>1, <1>2, <1>3

(* A stored secret is lost only to the settings call that replaces the     *)
(* list, or to a call that was overtaken between its read and its write.   *)
THEOREM SecretsStay == Spec => SecretsKept
<1> DEFINE Lost(k) == doc[k].secret # NoOne /\ Has(doc', k) /\ doc'[k].secret = NoOne
           Blamed(r) == /\ pc[r] = "write" /\ pc'[r] # "write"
                        /\ call[r].op = "replace" \/ r \in late
<1>1. ASSUME IInv, [Next]_vars, NEW k \in Keys, Lost(k)
      PROVE  \E r \in Requests: Blamed(r)
  <2>1. doc' # doc
    BY <1>1
  <2>2. PICK r \in Requests: Write(r)
    BY <1>1, <2>1 DEF Next, Begin, Read, Reread, Lose, Archive, vars
  <2>3. /\ pc[r] = "write" /\ ~Hidden
        /\ doc' = Applied(r, call[r], copy[r])
        /\ pc'[r] # "write" /\ call[r].op # "look"
    BY <1>1, <2>1, <2>2, Leads DEF Write, IInv, Handlers, HandlerRight
  <2>4. CASE call[r].op # "replace" /\ r \notin late
    <3>1. r \in Overtaken
      BY <2>3, <2>4 DEF Overtaken, First
    <3>2. copy[r] = doc
      BY <1>1, <2>3, <2>4, <3>1 DEF IInv, FreshUnlessLate, Visible
    <3> QED
      BY <1>1, <2>3, <2>4, <3>2, AppliedKeepsSecrets
  <2> QED
    BY <2>3, <2>4
<1>2. IInv /\ [Next]_vars =>
        [\A k \in Keys: Lost(k) => \E r \in Requests: Blamed(r)]_vars
  BY <1>1
<1> QED
  BY InductiveInvariant, <1>2, PTL DEF Spec, SecretsKept
=============================================================================
