-------------------------- MODULE ClientToken_proofs --------------------------
(***************************************************************************)
(* The browser never loses a living session to its own refreshes, for any  *)
(* number of tabs, documents and requests.                                 *)
(***************************************************************************)
EXTENDS ClientToken, TLAPS

USE DEF CallStates

\* A fetch that has not come to send a refresh has none under its name, one
\* that has come so far has a document, and a sign-out that was let through
\* ended the sessions.
Unused(f) ==
  /\ pc[f] = "idle" => \A s \in Stages : call[<<f, s>>] = "free"
  /\ pc[f] = "init" => call[<<f, "pre">>] = "free"
  /\ pc[f] \notin {"retry", "done"} /\ ~ again[f] => call[<<f, "retry">>] = "free"
  /\ pc[f] # "idle" => tab[f] \in Tabs
  /\ pc[f] = "accepted" /\ kind[f] = "signout" => out

\* A cookie is one that has arrived, and an answer under way carries one the
\* server knows.
Cookies ==
  /\ jar \in Calls => call[jar] = "done"
  /\ \A d \in Calls : cookie[d] \in Calls => call[cookie[d]] = "done"
  /\ \A c \in Calls : call[c] = "answered" => c \in live \/ out

IInv == TypeOK /\ (\A f \in Fetches : Unused(f)) /\ Cookies /\ JarUsable

LEMMA InitIInv == Init => IInv
<1> SUFFICES ASSUME Init PROVE IInv
  OBVIOUS
<1>0. First \in Tokens /\ First \notin Calls
  <2>1. None \notin Fetches
    BY ClientAssumption
  <2>2. \A c \in Calls : c[1] \in Fetches
    BY DEF Calls
  <2>3. First[1] = None
    BY DEF First
  <2>4. First \notin Calls
    BY <2>1, <2>2, <2>3
  <2>5. First \in Tokens
    BY DEF Tokens
  <2> QED BY <2>4, <2>5
<1>1. TypeOK
  <2>1. /\ scene \in Scenes
        /\ mem \in [Tabs -> Tokens \cup {None}] /\ store \in Tokens \cup {None}
        /\ jar \in Tokens \cup {None} /\ live \subseteq Tokens
        /\ flight \in [Tabs -> Calls \cup {None}]
        /\ page \in [Tabs -> {"loading", "app", "guest"}]
    BY <1>0 DEF Init
  <2>2. chan \in [Tabs -> Seq(Tokens)] /\ age \in [Tokens -> Ages]
    BY DEF Init, Ages
  <2>3. /\ call \in [Calls -> CallStates]
        /\ cookie \in [Calls -> Tokens \cup {None}]
        /\ out \in BOOLEAN /\ broken \in BOOLEAN
    BY DEF Init
  <2>4. /\ kind \in [Fetches -> Kinds \cup {None}]
        /\ tab \in [Fetches -> Tabs \cup {None}]
        /\ pc \in [Fetches -> Waiting \cup {"idle", "sent", "accepted", "denied", "done"}]
        /\ tok \in [Fetches -> Tokens \cup {None}]
        /\ again \in [Fetches -> BOOLEAN]
    BY DEF Init
  <2> QED BY <2>1, <2>2, <2>3, <2>4 DEF TypeOK
<1>2. \A f \in Fetches : Unused(f)
  BY DEF Init, Unused, Calls, Stages
<1>3. Cookies /\ JarUsable
  BY <1>0, ClientAssumption DEF Init, Cookies, JarUsable, Tokens
<1> QED BY <1>1, <1>2, <1>3 DEF IInv

-----------------------------------------------------------------------------
(* What a step does to the cookies.                                          *)

\* It leaves them alone, or one call under a name not used before is sent.
Quiet == UNCHANGED <<jar, live, call, cookie, out>> /\ (broken => broken')

Sends(c) ==
  /\ call[c] = "free"
  /\ call' = [call EXCEPT ![c] = "sent"]
  /\ cookie' = [cookie EXCEPT ![c] = jar]
  /\ UNCHANGED <<jar, live, out, broken>>

LEMMA QuietKeeps == IInv /\ Quiet => Cookies' /\ JarUsable'
BY DEF IInv, Quiet, Cookies, JarUsable

LEMMA SendKeeps ==
  ASSUME IInv, NEW c \in Calls, Sends(c)
  PROVE  Cookies' /\ JarUsable'
BY DEF IInv, TypeOK, Sends, Cookies, JarUsable

\* An answered call is over for the browser, or was never heard of again.
LEMMA EndKeeps ==
  ASSUME IInv, NEW c \in Calls, call[c] = "refused", call' = [call EXCEPT ![c] = "done"],
         UNCHANGED <<jar, live, cookie, out, broken>>
  PROVE  Cookies' /\ JarUsable'
BY DEF IInv, TypeOK, Cookies, JarUsable

LEMMA ServerKeeps ==
  ASSUME IInv, NEW c \in Calls, Check(c) \/ Drop(c) \/ Issue(c) \/ Lose(c) \/ Abort(c)
  PROVE  Cookies' /\ JarUsable'
<1> USE DEF IInv, TypeOK, browser
<1>1. CASE Check(c)
  BY <1>1 DEF Check, Cookies, JarUsable
<1>2. CASE Drop(c)
  BY <1>2 DEF Drop, Cookies, JarUsable
<1>3. CASE Issue(c)
  BY <1>3 DEF Issue, Cookies, JarUsable
<1>4. CASE Lose(c)
  BY <1>4 DEF Lose, Cookies, JarUsable
<1>5. CASE Abort(c)
  BY <1>5 DEF Abort, Cookies, JarUsable
<1> QED BY <1>1, <1>2, <1>3, <1>4, <1>5

LEMMA ArriveKeeps ==
  ASSUME IInv, NEW c \in Calls, Arrive(c)
  PROVE  Cookies' /\ JarUsable'
<1>1. call[c] = "answered" /\ call' = [call EXCEPT ![c] = "done"] /\ jar' = c
      /\ UNCHANGED <<live, cookie, out, broken>>
  BY DEF Arrive
<1> QED BY <1>1 DEF IInv, TypeOK, Cookies, JarUsable

-----------------------------------------------------------------------------
(* Types                                                                     *)

LEMMA RefreshType ==
  ASSUME TypeOK, NEW t \in Tabs, NEW c \in Calls, Refresh(t, c)
  PROVE  /\ flight' \in [Tabs -> Calls \cup {None}]
         /\ call' \in [Calls -> CallStates]
         /\ cookie' \in [Calls -> Tokens \cup {None}]
BY DEF TypeOK, Refresh, calls

LEMMA StageCalls == \A f \in Fetches, s \in Stages : <<f, s>> \in Calls
BY DEF Calls

LEMMA CallTokens == Calls \subseteq Tokens
BY DEF Tokens

LEMMA StoredType == TypeOK => Stored \in Tokens \cup {None}
BY DEF TypeOK, Stored

LEMMA TokenType == \A t \in Tabs : TypeOK => Token(t) \in Tokens \cup {None}
BY StoredType DEF TypeOK, Token

LEMMA ClaimType ==
  ASSUME TypeOK, NEW f \in Fetches, NEW t \in Tabs, NEW k, Claim(f, t, k)
  PROVE  kind' \in [Fetches -> Kinds \cup {None}] /\ tab' \in [Fetches -> Tabs \cup {None}]
<1>1. scene.kinds \subseteq Kinds
  BY ClientAssumption DEF TypeOK
<1> QED BY <1>1 DEF TypeOK, Claim

LEMMA FetchType ==
  ASSUME TypeOK, UNCHANGED scene, NEW f \in Fetches, NEW t \in Tabs, NEW k, Fetch(f, t, k)
  PROVE  TypeOK'
<1>1. kind' \in [Fetches -> Kinds \cup {None}] /\ tab' \in [Fetches -> Tabs \cup {None}]
  BY ClaimType DEF Fetch
<1>2. mem' \in [Tabs -> Tokens \cup {None}]
  BY TokenType DEF Fetch, TypeOK
<1>3. CASE Send(f, t, Token(t))
  BY <1>1, <1>2, <1>3, TokenType DEF Fetch, TypeOK, Send, calls, Waiting
<1>4. CASE RefreshFirst(f, t, Token(t))
  <2>1. /\ flight' \in [Tabs -> Calls \cup {None}]
        /\ call' \in [Calls -> CallStates]
        /\ cookie' \in [Calls -> Tokens \cup {None}]
    BY <1>4, RefreshType, StageCalls DEF RefreshFirst, Stages
  <2>2. /\ pc' \in [Fetches -> Waiting \cup {"idle", "sent", "accepted", "denied", "done"}]
        /\ tok' \in [Fetches -> Tokens \cup {None}]
    BY <1>4, TokenType DEF RefreshFirst, TypeOK, Waiting
  <2> QED BY <1>1, <1>2, <2>1, <2>2 DEF Fetch, TypeOK
<1> QED BY <1>3, <1>4 DEF Fetch, RequestToken

LEMMA FocusType ==
  ASSUME TypeOK, UNCHANGED scene, NEW f \in Fetches, NEW t \in Tabs, Focus(f, t)
  PROVE  TypeOK'
<1>1. kind' \in [Fetches -> Kinds \cup {None}] /\ tab' \in [Fetches -> Tabs \cup {None}]
  BY ClaimType DEF Focus
<1>2. /\ flight' \in [Tabs -> Calls \cup {None}]
      /\ call' \in [Calls -> CallStates]
      /\ cookie' \in [Calls -> Tokens \cup {None}]
  BY RefreshType, StageCalls DEF Focus, Stages
<1>3. pc' \in [Fetches -> Waiting \cup {"idle", "sent", "accepted", "denied", "done"}]
  BY DEF Focus, TypeOK, Waiting
<1> QED BY <1>1, <1>2, <1>3 DEF Focus, TypeOK

LEMMA LoadType ==
  ASSUME TypeOK, UNCHANGED scene, NEW f \in Fetches, NEW t \in Tabs, Load(f, t)
  PROVE  TypeOK'
<1> DEFINE mine == IF Stored = None THEN "init"
                   ELSE IF age[Stored] = "fresh" THEN "sent" ELSE "pre"
<1>1. kind' \in [Fetches -> Kinds \cup {None}] /\ tab' \in [Fetches -> Tabs \cup {None}]
  BY ClaimType DEF Load
<1>2. pc' \in [Fetches -> Waiting \cup {"idle", "sent", "accepted", "denied", "done"}]
  BY DEF Load, TypeOK, Waiting
<1>3. mem' \in [Tabs -> Tokens \cup {None}] /\ tok' \in [Fetches -> Tokens \cup {None}]
  BY StoredType DEF Load, TypeOK
<1>4. /\ flight' \in [Tabs -> Calls \cup {None}]
      /\ call' \in [Calls -> CallStates]
      /\ cookie' \in [Calls -> Tokens \cup {None}]
  <2>1. CASE mine = "sent"
    BY <2>1 DEF Load, TypeOK, calls
  <2>2. CASE mine # "sent"
    <3>1. <<f, mine>> \in Calls
      BY <2>2, StageCalls DEF Stages
    <3>2. /\ flight' = [flight EXCEPT ![t] = <<f, mine>>]
          /\ call' = [call EXCEPT ![<<f, mine>>] = "sent"]
          /\ cookie' = [cookie EXCEPT ![<<f, mine>>] = jar]
      BY <2>2 DEF Load
    <3> HIDE DEF mine
    <3> QED BY <3>1, <3>2 DEF TypeOK
  <2> QED BY <2>1, <2>2
<1>5. chan' \in [Tabs -> Seq(Tokens)] /\ page' \in [Tabs -> {"loading", "app", "guest"}]
  BY DEF Load, TypeOK
<1> QED BY <1>1, <1>2, <1>3, <1>4, <1>5 DEF Load, TypeOK

LEMMA OthersType ==
  ASSUME TypeOK, UNCHANGED scene, NEW f \in Fetches,
         Accepted(f) \/ SignedOut(f) \/ DeniedAgain(f) \/ NoAnswer(f) \/ Serve(f),
         tab[f] \in Tabs
  PROVE  TypeOK'
<1> USE DEF TypeOK, calls, Clear, Redirect, browser, Waiting
<1>1. CASE Accepted(f)
  BY <1>1 DEF Accepted
<1>2. CASE SignedOut(f)
  BY <1>2 DEF SignedOut
<1>3. CASE DeniedAgain(f)
  BY <1>3 DEF DeniedAgain
<1>4. CASE NoAnswer(f)
  <2>1. CASE again[f] \/ kind[f] = "signout"
    <3>1. /\ Redirect(tab[f]) /\ broken' = TRUE
          /\ UNCHANGED <<chan, jar, age, live, call, cookie, kind, tab, tok, again, out>>
      BY <1>4, <2>1 DEF NoAnswer
    <3> QED BY <3>1
  <2>2. CASE ~ (again[f] \/ kind[f] = "signout") /\ kind[f] = "api"
    BY <1>4, <2>2 DEF NoAnswer
  <2>3. CASE ~ (again[f] \/ kind[f] = "signout") /\ kind[f] # "api"
    BY <1>4, <2>3 DEF NoAnswer
  <2> QED BY <2>1, <2>2, <2>3
<1>5. CASE Serve(f)
  BY <1>5 DEF Serve
<1> QED BY <1>1, <1>2, <1>3, <1>4, <1>5

LEMMA DeniedType ==
  ASSUME TypeOK, UNCHANGED scene, NEW f \in Fetches, Denied(f), tab[f] \in Tabs
  PROVE  TypeOK'
<1>1. /\ flight' \in [Tabs -> Calls \cup {None}]
      /\ call' \in [Calls -> CallStates]
      /\ cookie' \in [Calls -> Tokens \cup {None}]
  BY RefreshType, StageCalls DEF Denied, Stages
<1>2. pc' \in [Fetches -> Waiting \cup {"idle", "sent", "accepted", "denied", "done"}]
  BY DEF Denied, TypeOK, Waiting
<1> QED BY <1>1, <1>2 DEF Denied, TypeOK

LEMMA ServerType ==
  ASSUME TypeOK, UNCHANGED scene, NEW c \in Calls,
         Check(c) \/ Drop(c) \/ Issue(c) \/ Lose(c) \/ Abort(c)
  PROVE  TypeOK'
BY CallTokens DEF TypeOK, Check, Drop, Issue, Lose, Abort, browser, fetches

LEMMA AdoptType ==
  ASSUME TypeOK, UNCHANGED scene, NEW t \in Tabs, Adopt(t)
  PROVE  TypeOK'
<1>1. Head(chan[t]) \in Tokens /\ Tail(chan[t]) \in Seq(Tokens)
  BY DEF Adopt, TypeOK
<1> QED BY <1>1 DEF Adopt, TypeOK, calls, fetches

LEMMA GrowType ==
  ASSUME TypeOK, UNCHANGED scene, NEW g \in Tokens, Grow(g)
  PROVE  TypeOK'
BY DEF Grow, TypeOK, browser, calls, fetches, Ages

LEMMA ArriveType ==
  ASSUME TypeOK, UNCHANGED scene, NEW c \in Calls, Arrive(c)
  PROVE  TypeOK'
<1>0. c \in Tokens
  BY CallTokens
<1>1. call' \in [Calls -> CallStates]
      /\ jar' \in Tokens
  BY <1>0 DEF Arrive, TypeOK
<1>2. CASE flight[tab[c[1]]] # c
  BY <1>1, <1>2 DEF Arrive, TypeOK
<1>3. CASE flight[tab[c[1]]] = c
  <2> DEFINE t == tab[c[1]]
  <2>1. /\ mem' = [mem EXCEPT ![t] = c] /\ store' = c
        /\ flight' = [flight EXCEPT ![t] = None]
        /\ tok' = [f \in Fetches |-> IF f \in WaitingOn(t) THEN c ELSE tok[f]]
        /\ UNCHANGED <<page, age, live, cookie, kind, tab, out, broken>>
    BY <1>3 DEF Arrive
  <2>2. chan' = [u \in Tabs |-> IF u \in scene.tabs \ {t} THEN Append(chan[u], c) ELSE chan[u]]
    BY <1>3 DEF Arrive
  <2>3. pc' = [f \in Fetches |-> IF f \notin WaitingOn(t) THEN pc[f]
                        ELSE IF kind[f] = "focus" THEN "done" ELSE "sent"]
    BY <1>3 DEF Arrive
  <2>8. again' = [f \in Fetches |-> IF f \in WaitingOn(t) /\ pc[f] = "retry"
                                  THEN TRUE ELSE again[f]]
    BY <1>3 DEF Arrive
  <2> HIDE DEF t
  <2>4. chan' \in [Tabs -> Seq(Tokens)]
    <3>1. \A u \in Tabs : Append(chan[u], c) \in Seq(Tokens)
      BY <1>0 DEF TypeOK
    <3> QED BY <2>2, <3>1 DEF TypeOK
  <2>5. pc' \in [Fetches -> Waiting \cup {"idle", "sent", "accepted", "denied", "done"}]
    BY <2>3 DEF TypeOK
  <2>6. again' \in [Fetches -> BOOLEAN]
    <3>1. \A f \in Fetches : again[f] \in BOOLEAN
      BY DEF TypeOK
    <3> QED BY <2>8, <3>1
  <2>7. /\ tok' \in [Fetches -> Tokens \cup {None}]
        /\ mem' \in [Tabs -> Tokens \cup {None}] /\ store' \in Tokens
        /\ flight' \in [Tabs -> Calls \cup {None}]
    BY <1>0, <2>1 DEF TypeOK
  <2> QED BY <1>1, <2>1, <2>4, <2>5, <2>6, <2>7 DEF TypeOK
<1> QED BY <1>2, <1>3

-----------------------------------------------------------------------------
(* A refused refresh                                                         *)

\* A loading page looks once more, with or without a new refresh.
LoadsOn(c, f) ==
  /\ f \in WaitingOn(tab[c[1]]) /\ pc[f] = "init"
  /\ UNCHANGED store
  /\ tok' = [tok EXCEPT ![f] = Token(tab[c[1]])]
  /\ mem' = [mem EXCEPT ![tab[c[1]]] = Token(tab[c[1]])]
  /\ \/ page' = page
     \/ page' = [page EXCEPT ![tab[c[1]]] = "guest"]

SendsMore(c, f) ==
  /\ pc' = [pc EXCEPT ![f] = "pre"]
  /\ flight' = [flight EXCEPT ![tab[c[1]]] = <<f, "pre">>]
  /\ call' = [call EXCEPT ![c] = "done", ![<<f, "pre">>] = "sent"]
  /\ cookie' = [cookie EXCEPT ![<<f, "pre">>] = jar]

SendsNone(c, f) ==
  /\ \/ pc' = [pc EXCEPT ![f] = "sent"]
     \/ pc' = [pc EXCEPT ![f] = "done"]
  /\ flight' = [flight EXCEPT ![tab[c[1]]] = None]
  /\ call' = [call EXCEPT ![c] = "done"]
  /\ cookie' = cookie

LEMMA RefusedCases ==
  ASSUME NEW c \in Calls, Refused(c)
  PROVE  /\ call[c] = "refused"
         /\ UNCHANGED <<chan, jar, age, live, kind, tab, again, out, broken>>
         /\ \/ /\ call' = [call EXCEPT ![c] = "done"]
               /\ UNCHANGED <<mem, store, flight, page, pc, tok, cookie>>
            \/ /\ call' = [call EXCEPT ![c] = "done"]
               /\ Redirect(tab[c[1]]) /\ UNCHANGED <<tok, cookie>>
            \/ /\ call' = [call EXCEPT ![c] = "done"]
               /\ flight' = [flight EXCEPT ![tab[c[1]]] = None]
               /\ pc' = [f \in Fetches |-> IF f \notin WaitingOn(tab[c[1]]) THEN pc[f]
                                       ELSE IF kind[f] = "focus" THEN "done" ELSE "sent"]
               /\ UNCHANGED <<mem, store, page, tok, cookie>>
               /\ \A f \in WaitingOn(tab[c[1]]) : pc[f] # "retry"
            \/ \E f \in Fetches : LoadsOn(c, f) /\ (SendsMore(c, f) \/ SendsNone(c, f))
<1> DEFINE t == tab[c[1]]
           loading == {f \in WaitingOn(t) : pc[f] = "init"}
           after(a) == IF a = None THEN "done" ELSE IF age[a] = "fresh" THEN "sent" ELSE "pre"
<1>1. CASE \E f \in loading :
             LET a == Token(t)
                 new == <<f, "pre">>
             IN /\ mem' = [mem EXCEPT ![t] = a]
                /\ tok' = [tok EXCEPT ![f] = a]
                /\ pc' = [pc EXCEPT ![f] = after(a)]
                /\ page' = IF a = None THEN [page EXCEPT ![t] = "guest"] ELSE page
                /\ flight' = [flight EXCEPT ![t] = IF after(a) = "pre" THEN new ELSE None]
                /\ call' = IF after(a) = "pre"
                           THEN [call EXCEPT ![c] = "done", ![new] = "sent"]
                           ELSE [call EXCEPT ![c] = "done"]
                /\ cookie' = IF after(a) = "pre" THEN [cookie EXCEPT ![new] = jar] ELSE cookie
                /\ UNCHANGED store
  <2>1. PICK f \in loading :
             /\ mem' = [mem EXCEPT ![t] = Token(t)]
             /\ tok' = [tok EXCEPT ![f] = Token(t)]
             /\ pc' = [pc EXCEPT ![f] = after(Token(t))]
             /\ page' = IF Token(t) = None THEN [page EXCEPT ![t] = "guest"] ELSE page
             /\ flight' = [flight EXCEPT ![t] = IF after(Token(t)) = "pre"
                                                THEN <<f, "pre">> ELSE None]
             /\ call' = IF after(Token(t)) = "pre"
                        THEN [call EXCEPT ![c] = "done", ![<<f, "pre">>] = "sent"]
                        ELSE [call EXCEPT ![c] = "done"]
             /\ cookie' = IF after(Token(t)) = "pre"
                          THEN [cookie EXCEPT ![<<f, "pre">>] = jar] ELSE cookie
             /\ UNCHANGED store
    BY <1>1, Zenon
  <2>2. f \in Fetches /\ f \in WaitingOn(t) /\ pc[f] = "init"
    BY DEF WaitingOn, On
  <2>3. CASE after(Token(t)) = "pre"
    <3>1. LoadsOn(c, f) /\ SendsMore(c, f)
      BY <2>1, <2>2, <2>3 DEF LoadsOn, SendsMore
    <3> QED BY <2>2, <3>1 DEF Refused
  <2>4. CASE after(Token(t)) # "pre"
    <3>1. pc' = [pc EXCEPT ![f] = "sent"] \/ pc' = [pc EXCEPT ![f] = "done"]
      BY <2>1, <2>4
    <3>2. LoadsOn(c, f) /\ SendsNone(c, f)
      BY <2>1, <2>2, <2>4, <3>1 DEF LoadsOn, SendsNone
    <3> QED BY <2>2, <3>2 DEF Refused
  <2> QED BY <2>3, <2>4
<1> QED BY <1>1, Zenon DEF Refused, calls

LEMMA RefusedType ==
  ASSUME IInv, UNCHANGED scene, NEW c \in Calls, Refused(c)
  PROVE  TypeOK'
<1> DEFINE t == tab[c[1]]
           fixed == UNCHANGED <<scene, chan, jar, age, live, kind, tab, again, out, broken>>
<1>0. fixed /\ TypeOK
  BY RefusedCases DEF IInv
<1>1. CASE /\ call' = [call EXCEPT ![c] = "done"]
           /\ UNCHANGED <<mem, store, flight, page, pc, tok, cookie>>
  BY <1>0, <1>1 DEF TypeOK
<1>2. CASE call' = [call EXCEPT ![c] = "done"] /\ Redirect(t) /\ UNCHANGED <<tok, cookie>>
  BY <1>0, <1>2 DEF TypeOK, Redirect, Clear
<1>3. CASE /\ call' = [call EXCEPT ![c] = "done"]
           /\ flight' = [flight EXCEPT ![t] = None]
           /\ pc' = [f \in Fetches |-> IF f \notin WaitingOn(t) THEN pc[f]
                                   ELSE IF kind[f] = "focus" THEN "done" ELSE "sent"]
           /\ UNCHANGED <<mem, store, page, tok, cookie>>
           /\ \A f \in WaitingOn(t) : pc[f] # "retry"
  BY <1>0, <1>3 DEF TypeOK
<1>4. ASSUME NEW f \in Fetches, LoadsOn(c, f), SendsMore(c, f) \/ SendsNone(c, f)
      PROVE  TypeOK'
  <2>0. t \in Tabs
    BY <1>0, <1>4 DEF LoadsOn, WaitingOn, On, IInv, Unused
  <2>1. <<f, "pre">> \in Calls
    BY StageCalls DEF Stages
  <2>2. Token(t) \in Tokens \cup {None}
    BY <1>0, <2>0, TokenType
  <2>3. tok' \in [Fetches -> Tokens \cup {None}] /\ mem' \in [Tabs -> Tokens \cup {None}]
    BY <1>0, <1>4, <2>2 DEF LoadsOn, TypeOK
  <2>4. page' \in [Tabs -> {"loading", "app", "guest"}]
    BY <1>0, <1>4 DEF LoadsOn, TypeOK
  <2>5. pc' \in [Fetches -> Waiting \cup {"idle", "sent", "accepted", "denied", "done"}]
    <3>1. CASE SendsMore(c, f)
      BY <1>0, <3>1 DEF SendsMore, TypeOK, Waiting
    <3>2. CASE SendsNone(c, f)
      BY <1>0, <3>2 DEF SendsNone, TypeOK
    <3> QED BY <1>4, <3>1, <3>2
  <2>6. /\ flight' \in [Tabs -> Calls \cup {None}]
        /\ call' \in [Calls -> CallStates]
        /\ cookie' \in [Calls -> Tokens \cup {None}]
    <3>1. CASE SendsMore(c, f)
      <4>1. flight' \in [Tabs -> Calls \cup {None}]
        BY <1>0, <2>1, <3>1 DEF SendsMore, TypeOK
      <4>2. call' \in [Calls -> CallStates]
        BY <1>0, <2>1, <3>1 DEF SendsMore, TypeOK
      <4>3. cookie' \in [Calls -> Tokens \cup {None}]
        BY <1>0, <2>1, <3>1 DEF SendsMore, TypeOK
      <4> QED BY <4>1, <4>2, <4>3
    <3>2. CASE SendsNone(c, f)
      BY <1>0, <3>2 DEF SendsNone, TypeOK
    <3> QED BY <1>4, <3>1, <3>2
  <2> QED BY <1>0, <1>4, <2>3, <2>4, <2>5, <2>6 DEF LoadsOn, TypeOK
<1> QED BY <1>1, <1>2, <1>3, <1>4, RefusedCases, Zenon

-----------------------------------------------------------------------------
(* The order of a fetch's stages                                             *)

\* A fetch that stays where it is, or ends, keeps its order as long as the
\* calls under its name that were not used are left alone.
LEMMA StillUnused ==
  ASSUME NEW f \in Fetches, Unused(f),
         pc'[f] = pc[f] \/ (pc'[f] = "done" /\ tab[f] \in Tabs),
         tab'[f] = tab[f], kind'[f] = kind[f], again'[f] = again[f], out => out',
         \A s \in Stages : call[<<f, s>>] = "free" => call'[<<f, s>>] = "free"
  PROVE  Unused(f)'
BY DEF Unused, Stages

\* A call sent by one fetch is none of another's, nor of another stage.
LEMMA OtherCalls ==
  ASSUME TypeOK, NEW f \in Fetches, NEW s \in Stages,
         \/ call' = call
         \/ call' = [call EXCEPT ![<<f, s>>] = "sent"]
  PROVE  \A g \in Fetches, r \in Stages :
           g # f \/ r # s => call'[<<g, r>>] = call[<<g, r>>]
<1> TAKE g \in Fetches, r \in Stages
<1>1. <<g, r>> \in Calls
  BY StageCalls
<1>2. g # f \/ r # s => <<g, r>> # <<f, s>>
  OBVIOUS
<1> QED BY <1>1, <1>2 DEF TypeOK

LEMMA FetchUnused ==
  ASSUME IInv, NEW f \in Fetches, NEW t \in Tabs, NEW k, Fetch(f, t, k)
  PROVE  \A g \in Fetches : Unused(g)'
<1> SUFFICES ASSUME NEW g \in Fetches PROVE Unused(g)'
  OBVIOUS
<1>0. /\ Unused(g) /\ Unused(f) /\ TypeOK /\ pc[f] = "idle" /\ "pre" \in Stages
      /\ tab' = [tab EXCEPT ![f] = t] /\ kind' = [kind EXCEPT ![f] = k]
      /\ UNCHANGED <<again, out>>
  BY DEF IInv, Fetch, Claim, Stages
<1>1. /\ \/ pc' = [pc EXCEPT ![f] = "sent"]
         \/ pc' = [pc EXCEPT ![f] = "pre"]
      /\ call' = call \/ call' = [call EXCEPT ![<<f, "pre">>] = "sent"]
  BY DEF Fetch, RequestToken, Send, RefreshFirst, Refresh, calls
<1>2. \A h \in Fetches, r \in Stages :
        h # f \/ r # "pre" => call'[<<h, r>>] = call[<<h, r>>]
  BY <1>0, <1>1, OtherCalls
<1>3. CASE g = f
  BY <1>0, <1>1, <1>2, <1>3 DEF Unused, TypeOK, Stages
<1>4. CASE g # f
  BY <1>0, <1>1, <1>2, <1>4, StillUnused DEF TypeOK
<1> QED BY <1>3, <1>4

LEMMA FocusUnused ==
  ASSUME IInv, NEW f \in Fetches, NEW t \in Tabs, Focus(f, t)
  PROVE  \A g \in Fetches : Unused(g)'
<1> SUFFICES ASSUME NEW g \in Fetches PROVE Unused(g)'
  OBVIOUS
<1>0. /\ Unused(g) /\ Unused(f) /\ TypeOK /\ pc[f] = "idle" /\ "pre" \in Stages
      /\ tab' = [tab EXCEPT ![f] = t] /\ kind' = [kind EXCEPT ![f] = "focus"]
      /\ UNCHANGED <<again, out>>
  BY DEF IInv, Focus, Claim, Stages
<1>1. /\ pc' = [pc EXCEPT ![f] = "pre"]
      /\ call' = call \/ call' = [call EXCEPT ![<<f, "pre">>] = "sent"]
  BY DEF Focus, Refresh, calls
<1>2. \A h \in Fetches, r \in Stages :
        h # f \/ r # "pre" => call'[<<h, r>>] = call[<<h, r>>]
  BY <1>0, <1>1, OtherCalls
<1>3. CASE g = f
  BY <1>0, <1>1, <1>2, <1>3 DEF Unused, TypeOK, Stages
<1>4. CASE g # f
  BY <1>0, <1>1, <1>2, <1>4, StillUnused DEF TypeOK
<1> QED BY <1>3, <1>4

LEMMA LoadUnused ==
  ASSUME IInv, NEW f \in Fetches, NEW t \in Tabs, Load(f, t)
  PROVE  \A g \in Fetches : Unused(g)'
<1> SUFFICES ASSUME NEW g \in Fetches PROVE Unused(g)'
  OBVIOUS
<1> DEFINE mine == IF Stored = None THEN "init"
                   ELSE IF age[Stored] = "fresh" THEN "sent" ELSE "pre"
<1>0. /\ Unused(g) /\ Unused(f) /\ TypeOK /\ pc[f] = "idle"
      /\ tab' = [tab EXCEPT ![f] = t] /\ kind' = [kind EXCEPT ![f] = "load"]
      /\ UNCHANGED <<again, out>>
  BY DEF IInv, Load, Claim
<1>1. pc' = [h \in Fetches |-> IF h = f THEN mine
                              ELSE IF h \in On(t) THEN "done" ELSE pc[h]]
  BY DEF Load
<1>2. mine \in {"init", "sent", "pre"}
  OBVIOUS
<1>3. PICK s \in {"init", "pre"} :
        /\ call' = call \/ call' = [call EXCEPT ![<<f, s>>] = "sent"]
        /\ mine = "init" => s = "init"
  <2>1. CASE mine = "sent"
    BY <2>1 DEF Load, calls
  <2>2. CASE mine # "sent"
    BY <1>2, <2>2 DEF Load
  <2> QED BY <2>1, <2>2
<1> HIDE DEF mine
<1>4. \A h \in Fetches, r \in Stages :
        h # f \/ r # s => call'[<<h, r>>] = call[<<h, r>>]
  BY <1>0, <1>3, OtherCalls DEF Stages
<1>5. CASE g = f
  BY <1>0, <1>1, <1>2, <1>3, <1>4, <1>5 DEF Unused, TypeOK, Stages
<1>6. CASE g # f
  <2>1. pc'[g] = pc[g] \/ (pc'[g] = "done" /\ tab[g] \in Tabs)
    BY <1>1, <1>6 DEF On
  <2>2. /\ tab'[g] = tab[g] /\ kind'[g] = kind[g] /\ again'[g] = again[g]
        /\ \A r \in Stages : call'[<<g, r>>] = call[<<g, r>>]
    BY <1>0, <1>4, <1>6 DEF TypeOK
  <2> QED BY <1>0, <2>1, <2>2, StillUnused
<1> QED BY <1>5, <1>6

LEMMA DeniedUnused ==
  ASSUME IInv, NEW f \in Fetches, Denied(f)
  PROVE  \A g \in Fetches : Unused(g)'
<1> SUFFICES ASSUME NEW g \in Fetches PROVE Unused(g)'
  OBVIOUS
<1>0. /\ Unused(g) /\ Unused(f) /\ TypeOK /\ pc[f] = "denied" /\ "retry" \in Stages
      /\ UNCHANGED <<kind, tab, again, out>>
  BY DEF IInv, Denied, Stages
<1>1. /\ pc' = [pc EXCEPT ![f] = "retry"]
      /\ call' = call \/ call' = [call EXCEPT ![<<f, "retry">>] = "sent"]
  BY DEF Denied, Refresh, calls
<1>2. \A h \in Fetches, r \in Stages :
        h # f \/ r # "retry" => call'[<<h, r>>] = call[<<h, r>>]
  BY <1>0, <1>1, OtherCalls
<1>3. CASE g = f
  BY <1>0, <1>1, <1>2, <1>3 DEF Unused, TypeOK, Stages
<1>4. CASE g # f
  BY <1>0, <1>1, <1>2, <1>4, StillUnused DEF TypeOK
<1> QED BY <1>3, <1>4

\* What ends, and what the server does, sends nothing.
LEMMA EndsUnused ==
  ASSUME IInv, NEW f \in Fetches,
         Accepted(f) \/ SignedOut(f) \/ DeniedAgain(f) \/ NoAnswer(f)
  PROVE  \A g \in Fetches : Unused(g)'
<1> SUFFICES ASSUME NEW g \in Fetches PROVE Unused(g)'
  OBVIOUS
<1>0. Unused(g) /\ Unused(f) /\ TypeOK /\ pc[f] # "idle"
  BY DEF IInv, Accepted, SignedOut, DeniedAgain, NoAnswer
<1>1. UNCHANGED <<call, kind, tab, again, out>>
  BY DEF Accepted, SignedOut, DeniedAgain, NoAnswer, calls
<1>2. \/ pc' = [pc EXCEPT ![f] = "done"]
      \/ pc' = [h \in Fetches |-> IF h \in On(tab[f]) THEN "done" ELSE pc[h]]
  BY DEF Accepted, SignedOut, DeniedAgain, NoAnswer, Redirect
<1>3. pc'[g] = pc[g] \/ (pc'[g] = "done" /\ tab[g] \in Tabs)
  BY <1>0, <1>2 DEF On, Unused, TypeOK
<1> QED BY <1>0, <1>1, <1>3, StillUnused

LEMMA ServerUnused ==
  ASSUME IInv,
         \/ \E c \in Calls : Check(c) \/ Drop(c) \/ Issue(c) \/ Lose(c) \/ Abort(c)
         \/ \E t \in Tabs : Adopt(t)
         \/ \E g \in Tokens : Grow(g)
  PROVE  \A g \in Fetches : Unused(g)'
<1> SUFFICES ASSUME NEW g \in Fetches PROVE Unused(g)'
  OBVIOUS
<1>0. Unused(g) /\ TypeOK
  BY DEF IInv
<1>1. UNCHANGED <<pc, kind, tab, again, out>>
  BY DEF Check, Drop, Issue, Lose, Abort, Adopt, Grow, fetches
<1>2. \A d \in Calls : call[d] = "free" => call'[d] = "free"
  BY <1>0 DEF TypeOK, Check, Drop, Issue, Lose, Abort, Adopt, Grow, calls
<1> QED BY <1>0, <1>1, <1>2, StillUnused, StageCalls

LEMMA ServeUnused ==
  ASSUME IInv, NEW f \in Fetches, Serve(f)
  PROVE  \A g \in Fetches : Unused(g)'
<1> SUFFICES ASSUME NEW g \in Fetches PROVE Unused(g)'
  OBVIOUS
<1>0. /\ Unused(g) /\ Unused(f) /\ TypeOK /\ pc[f] = "sent"
      /\ UNCHANGED <<call, kind, tab, again>> /\ (out => out')
  BY DEF IInv, Serve, calls
<1>1. CASE g = f
  <2>1. \/ pc' = [pc EXCEPT ![f] = "denied"]
        \/ pc' = [pc EXCEPT ![f] = "accepted"] /\ (kind[f] = "signout" => out')
    BY DEF Serve
  <2> QED BY <1>0, <1>1, <2>1 DEF Unused, TypeOK
<1>2. CASE g # f
  <2>1. pc'[g] = pc[g]
    BY <1>0, <1>2 DEF Serve, TypeOK
  <2> QED BY <1>0, <2>1, StillUnused
<1> QED BY <1>1, <1>2

\* A wait that ends goes on with a request, or with nothing more to ask.
LEMMA WaitUnused ==
  ASSUME IInv, NEW c \in Calls, call[c] # "free", call' = [call EXCEPT ![c] = "done"],
         UNCHANGED <<kind, tab, out>>, NEW t,
         pc' = [f \in Fetches |-> IF f \notin WaitingOn(t) THEN pc[f]
                                 ELSE IF kind[f] = "focus" THEN "done" ELSE "sent"],
         \A f \in Fetches : again'[f] = again[f] \/ (f \in WaitingOn(t) /\ again'[f]),
         \A f \in WaitingOn(t) : pc[f] = "retry" => again'[f]
  PROVE  \A g \in Fetches : Unused(g)'
<1> SUFFICES ASSUME NEW g \in Fetches PROVE Unused(g)'
  OBVIOUS
<1>0. Unused(g) /\ TypeOK
  BY DEF IInv
<1>1. \A s \in Stages : call[<<g, s>>] = "free" => call'[<<g, s>>] = "free"
  BY <1>0, StageCalls DEF TypeOK
<1>2. CASE g \notin WaitingOn(t)
  BY <1>0, <1>1, <1>2, StillUnused
<1>3. CASE g \in WaitingOn(t)
  <2>1. pc[g] \in {"init", "pre", "retry"} /\ pc'[g] \in {"sent", "done"}
    BY <1>3 DEF WaitingOn, Waiting
  <2>2. tab'[g] \in Tabs
    BY <1>0, <2>1 DEF Unused
  <2>3. pc'[g] # "done" /\ ~ again'[g] => call'[<<g, "retry">>] = "free"
    BY <1>0, <1>1, <1>3, <2>1 DEF Unused, Stages
  <2> QED BY <2>1, <2>2, <2>3 DEF Unused
<1> QED BY <1>2, <1>3

LEMMA ArriveUnused ==
  ASSUME IInv, NEW c \in Calls, Arrive(c)
  PROVE  \A g \in Fetches : Unused(g)'
<1> DEFINE t == tab[c[1]]
<1>0. /\ call[c] = "answered" /\ call' = [call EXCEPT ![c] = "done"]
      /\ UNCHANGED <<kind, tab, out>> /\ TypeOK
  BY DEF Arrive, IInv
<1>1. CASE flight[t] # c
  <2>1. UNCHANGED <<pc, again>>
    BY <1>1 DEF Arrive
  <2> SUFFICES ASSUME NEW g \in Fetches PROVE Unused(g)'
    OBVIOUS
  <2>2. \A s \in Stages : call[<<g, s>>] = "free" => call'[<<g, s>>] = "free"
    BY <1>0, StageCalls DEF TypeOK
  <2> QED BY <1>0, <2>1, <2>2, StillUnused DEF IInv
<1>2. CASE flight[t] = c
  <2>1. pc' = [f \in Fetches |-> IF f \notin WaitingOn(t) THEN pc[f]
                                ELSE IF kind[f] = "focus" THEN "done" ELSE "sent"]
    BY <1>2 DEF Arrive
  <2>2. again' = [f \in Fetches |-> IF f \in WaitingOn(t) /\ pc[f] = "retry"
                                  THEN TRUE ELSE again[f]]
    BY <1>2 DEF Arrive
  <2>3. WaitingOn(t) \subseteq Fetches
    BY DEF WaitingOn, On
  <2> HIDE DEF t
  <2>4. /\ \A f \in Fetches : again'[f] = again[f] \/ (f \in WaitingOn(t) /\ again'[f])
        /\ \A f \in WaitingOn(t) : pc[f] = "retry" => again'[f]
    BY <2>2, <2>3
  <2>5. call[c] # "free"
    BY <1>0
  <2> QED BY <1>0, <2>1, <2>4, <2>5, WaitUnused
<1> QED BY <1>1, <1>2

LEMMA RefusedUnused ==
  ASSUME IInv, NEW c \in Calls, Refused(c)
  PROVE  \A g \in Fetches : Unused(g)'
<1> DEFINE t == tab[c[1]]
<1>0. /\ call[c] = "refused" /\ TypeOK
      /\ UNCHANGED <<kind, tab, again, out>>
  BY RefusedCases DEF IInv
<1>1. ASSUME call' = [call EXCEPT ![c] = "done"],
             \A h \in Fetches : pc'[h] = pc[h] \/ (pc'[h] = "done" /\ tab[h] \in Tabs)
      PROVE  \A g \in Fetches : Unused(g)'
  <2> SUFFICES ASSUME NEW g \in Fetches PROVE Unused(g)'
    OBVIOUS
  <2>1. \A s \in Stages : call[<<g, s>>] = "free" => call'[<<g, s>>] = "free"
    BY <1>0, <1>1, StageCalls DEF TypeOK
  <2> QED BY <1>0, <1>1, <2>1, StillUnused DEF IInv
<1>2. CASE /\ call' = [call EXCEPT ![c] = "done"]
           /\ UNCHANGED <<mem, store, flight, page, pc, tok, cookie>>
  BY <1>1, <1>2
<1>3. CASE call' = [call EXCEPT ![c] = "done"] /\ Redirect(t) /\ UNCHANGED <<tok, cookie>>
  <2>1. pc' = [h \in Fetches |-> IF h \in On(t) THEN "done" ELSE pc[h]]
    BY <1>3 DEF Redirect
  <2>2. PICK f \in Fetches, s \in Stages : c = <<f, s>>
    BY DEF Calls
  <2>3. t \in Tabs
    BY <1>0, <2>2 DEF IInv, Unused
  <2> HIDE DEF t
  <2>4. \A h \in Fetches : pc'[h] = pc[h] \/ (pc'[h] = "done" /\ tab[h] \in Tabs)
    BY <2>1, <2>3 DEF On
  <2> QED BY <1>1, <1>3, <2>4
<1>4. CASE /\ call' = [call EXCEPT ![c] = "done"]
           /\ flight' = [flight EXCEPT ![t] = None]
           /\ pc' = [f \in Fetches |-> IF f \notin WaitingOn(t) THEN pc[f]
                                   ELSE IF kind[f] = "focus" THEN "done" ELSE "sent"]
           /\ UNCHANGED <<mem, store, page, tok, cookie>>
           /\ \A f \in WaitingOn(t) : pc[f] # "retry"
  <2>1. call[c] # "free"
    BY <1>0
  <2>2. /\ \A f \in Fetches : again'[f] = again[f]
        /\ \A f \in WaitingOn(t) : pc[f] = "retry" => again'[f]
    BY <1>0, <1>4
  <2> HIDE DEF t
  <2> QED BY <1>0, <1>4, <2>1, <2>2, WaitUnused
<1>5. ASSUME NEW f \in Fetches, LoadsOn(c, f), SendsMore(c, f) \/ SendsNone(c, f)
      PROVE  \A g \in Fetches : Unused(g)'
  <2> SUFFICES ASSUME NEW g \in Fetches PROVE Unused(g)'
    OBVIOUS
  <2>0. /\ Unused(g) /\ Unused(f) /\ pc[f] = "init" /\ <<f, "pre">> \in Calls
        /\ \A s \in Stages : <<g, s>> \in Calls
    BY <1>5, StageCalls DEF IInv, LoadsOn, Stages
  <2>1. \A s \in Stages : call[<<g, s>>] = "free" /\ <<g, s>> # <<f, "pre">>
                           => call'[<<g, s>>] = "free"
    <3>1. CASE SendsMore(c, f)
      BY <1>0, <2>0, <3>1 DEF SendsMore, TypeOK
    <3>2. CASE SendsNone(c, f)
      BY <1>0, <2>0, <3>2 DEF SendsNone, TypeOK
    <3> QED BY <1>5, <3>1, <3>2
  <2>2. CASE g = f
    <3>1. pc'[f] \in {"pre", "sent", "done"}
      BY <1>0, <1>5 DEF SendsMore, SendsNone, TypeOK
    <3>2. <<f, "retry">> # <<f, "pre">>
      OBVIOUS
    <3>3. ~ again[f] => call'[<<f, "retry">>] = "free"
      BY <2>0, <2>1, <2>2, <3>2 DEF Unused, Stages
    <3>4. tab'[f] \in Tabs
      BY <1>0, <2>0 DEF Unused
    <3> QED BY <1>0, <2>2, <3>1, <3>3, <3>4 DEF Unused
  <2>3. CASE g # f
    <3>1. pc'[g] = pc[g]
      BY <1>0, <1>5, <2>3 DEF SendsMore, SendsNone, TypeOK
    <3>2. \A s \in Stages : <<g, s>> # <<f, "pre">>
      BY <2>3
    <3>3. \A s \in Stages : call[<<g, s>>] = "free" => call'[<<g, s>>] = "free"
      BY <2>1, <3>2
    <3> QED BY <1>0, <2>0, <3>1, <3>3, StillUnused
  <2> QED BY <2>2, <2>3
<1> QED BY <1>2, <1>3, <1>4, <1>5, RefusedCases, Zenon
-----------------------------------------------------------------------------
(* The cookies, action by action                                             *)

LEMMA RefreshKeeps ==
  ASSUME IInv, NEW t \in Tabs, NEW c \in Calls, Refresh(t, c), call[c] = "free",
         UNCHANGED <<jar, live, out, broken>>
  PROVE  Cookies' /\ JarUsable'
<1>1. Quiet \/ Sends(c)
  BY DEF Refresh, Quiet, Sends, calls
<1> QED BY <1>1, QuietKeeps, SendKeeps

LEMMA StartKeeps ==
  ASSUME IInv, NEW f \in Fetches, Start(f) \/ Denied(f)
  PROVE  Cookies' /\ JarUsable'
<1>0. /\ \A s \in Stages : <<f, s>> \in Calls
      /\ pc[f] = "idle" => \A s \in Stages : call[<<f, s>>] = "free"
      /\ Unused(f)
  BY StageCalls DEF IInv, Unused
<1>1. ASSUME NEW t \in Tabs, NEW k \in Kinds, Fetch(f, t, k)
      PROVE  Cookies' /\ JarUsable'
  <2>1. pc[f] = "idle" /\ UNCHANGED <<jar, live, out, broken>>
    BY <1>1 DEF Fetch, Claim
  <2>2. CASE Send(f, t, Token(t))
    BY <2>1, <2>2, QuietKeeps DEF Send, Quiet, calls
  <2>3. CASE RefreshFirst(f, t, Token(t))
    BY <1>0, <2>1, <2>3, RefreshKeeps DEF RefreshFirst, Stages
  <2> QED BY <1>1, <2>2, <2>3 DEF Fetch, RequestToken
<1>2. ASSUME NEW t \in Tabs, Focus(f, t)
      PROVE  Cookies' /\ JarUsable'
  BY <1>0, <1>2, RefreshKeeps DEF Focus, Claim, Stages
<1>3. ASSUME NEW t \in Tabs, Load(f, t)
      PROVE  Cookies' /\ JarUsable'
  <2> DEFINE mine == IF Stored = None THEN "init"
                     ELSE IF age[Stored] = "fresh" THEN "sent" ELSE "pre"
  <2>1. pc[f] = "idle" /\ UNCHANGED <<jar, live, out, broken>>
    BY <1>3 DEF Load, Claim
  <2>2. CASE mine = "sent"
    <3>1. Quiet
      BY <1>3, <2>1, <2>2 DEF Load, Quiet, calls
    <3> QED BY <3>1, QuietKeeps
  <2>3. CASE mine # "sent"
    <3>1. mine \in Stages
      BY <2>3 DEF Stages
    <3>2. /\ call' = [call EXCEPT ![<<f, mine>>] = "sent"]
          /\ cookie' = [cookie EXCEPT ![<<f, mine>>] = jar]
      BY <1>3, <2>3 DEF Load
    <3> HIDE DEF mine
    <3>3. Sends(<<f, mine>>)
      BY <1>0, <2>1, <3>1, <3>2 DEF Sends
    <3> QED BY <1>0, <3>1, <3>3, SendKeeps
  <2> QED BY <2>2, <2>3
<1>4. CASE Denied(f)
  <2>1. tab[f] \in Tabs /\ call[<<f, "retry">>] = "free"
    BY <1>0, <1>4 DEF Denied, Unused
  <2> QED BY <1>0, <1>4, <2>1, RefreshKeeps DEF Denied, Stages
<1> QED BY <1>1, <1>2, <1>3, <1>4 DEF Start

LEMMA AnswerKeeps ==
  ASSUME IInv, NEW f \in Fetches,
         Serve(f) \/ Accepted(f) \/ SignedOut(f) \/ DeniedAgain(f) \/ NoAnswer(f)
  PROVE  Cookies' /\ JarUsable'
<1>1. CASE Serve(f)
  BY <1>1 DEF IInv, Serve, Cookies, JarUsable, browser, calls
<1>2. CASE Accepted(f) \/ DeniedAgain(f) \/ NoAnswer(f)
  <2>1. Quiet
    BY <1>2 DEF Accepted, DeniedAgain, NoAnswer, Quiet, calls
  <2> QED BY <2>1, QuietKeeps
<1>3. CASE SignedOut(f)
  <2>1. out /\ jar' = None /\ None \notin Calls /\ UNCHANGED <<call, cookie, live, out>>
    BY <1>3, CallTokens, ClientAssumption DEF IInv, SignedOut, Unused, calls
  <2> QED BY <2>1 DEF IInv, Cookies, JarUsable
<1> QED BY <1>1, <1>2, <1>3

LEMMA RefusedKeeps ==
  ASSUME IInv, NEW c \in Calls, Refused(c)
  PROVE  Cookies' /\ JarUsable'
<1>0. call[c] = "refused" /\ UNCHANGED <<jar, live, out, broken>>
  BY RefusedCases
<1>1. CASE call' = [call EXCEPT ![c] = "done"] /\ UNCHANGED cookie
  BY <1>0, <1>1, EndKeeps
<1>2. ASSUME NEW f \in Fetches, LoadsOn(c, f), SendsMore(c, f)
      PROVE  Cookies' /\ JarUsable'
  <2> DEFINE d == <<f, "pre">>
  <2>1. d \in Calls /\ call[d] = "free"
    BY <1>2, StageCalls DEF IInv, LoadsOn, Unused, Stages
  <2>2. /\ call' = [call EXCEPT ![c] = "done", ![d] = "sent"]
        /\ cookie' = [cookie EXCEPT ![d] = jar]
    BY <1>2 DEF SendsMore
  <2> HIDE DEF d
  <2> QED BY <1>0, <2>1, <2>2 DEF IInv, TypeOK, Cookies, JarUsable
<1>3. CASE \E f \in Fetches : LoadsOn(c, f) /\ SendsNone(c, f)
  BY <1>1, <1>3 DEF SendsNone
<1> QED BY <1>1, <1>2, <1>3, RefusedCases

-----------------------------------------------------------------------------
LEMMA NextIInv == IInv /\ [Next]_vars => IInv'
<1> SUFFICES ASSUME IInv, [Next]_vars PROVE IInv'
  OBVIOUS
<1>0. TypeOK /\ UNCHANGED scene
  BY DEF IInv, Next, vars
<1>1. ASSUME NEW f \in Fetches, Start(f)
      PROVE  IInv'
  <2>1. TypeOK' /\ \A g \in Fetches : Unused(g)'
    BY <1>0, <1>1, FetchType, FocusType, LoadType, FetchUnused, FocusUnused, LoadUnused
       DEF Start
  <2> QED BY <1>1, <2>1, StartKeeps DEF IInv
<1>2. ASSUME NEW f \in Fetches, Answer(f) \/ NoAnswer(f)
      PROVE  IInv'
  <2>1. tab[f] \in Tabs
    BY <1>2 DEF IInv, Unused, Answer, Serve, Accepted, SignedOut, Denied, DeniedAgain, NoAnswer
  <2>2. TypeOK'
    BY <1>0, <1>2, <2>1, OthersType, DeniedType DEF Answer
  <2>3. \A g \in Fetches : Unused(g)'
    BY <1>2, EndsUnused, DeniedUnused, ServeUnused DEF Answer
  <2>4. Cookies' /\ JarUsable'
    BY <1>2, AnswerKeeps, StartKeeps DEF Answer
  <2> QED BY <2>2, <2>3, <2>4 DEF IInv
<1>3. ASSUME NEW c \in Calls,
             \/ Check(c) \/ Drop(c) \/ Issue(c) \/ Lose(c)
             \/ Arrive(c) \/ Abort(c) \/ Refused(c)
      PROVE  IInv'
  <2>1. TypeOK'
    BY <1>0, <1>3, ServerType, ArriveType, RefusedType
  <2>2. \A g \in Fetches : Unused(g)'
    BY <1>3, ServerUnused, ArriveUnused, RefusedUnused
  <2>3. Cookies' /\ JarUsable'
    BY <1>3, ServerKeeps, ArriveKeeps, RefusedKeeps
  <2> QED BY <2>1, <2>2, <2>3 DEF IInv
<1>4. ASSUME NEW t \in Tabs, Adopt(t)
      PROVE  IInv'
  <2>1. Quiet
    BY <1>4 DEF Adopt, Quiet, calls
  <2> QED BY <1>0, <1>4, <2>1, AdoptType, ServerUnused, QuietKeeps DEF IInv
<1>5. ASSUME NEW g \in Tokens, Grow(g)
      PROVE  IInv'
  <2>1. Quiet
    BY <1>0, <1>5 DEF Grow, Quiet, TypeOK, browser, calls
  <2> QED BY <1>0, <1>5, <2>1, GrowType, ServerUnused, QuietKeeps DEF IInv
<1>6. CASE UNCHANGED vars
  BY <1>6 DEF IInv, TypeOK, Unused, Cookies, JarUsable, vars, browser, calls, fetches
<1> QED BY <1>1, <1>2, <1>3, <1>4, <1>5, <1>6 DEF Next, Step

\* auth-state.ts, connect.ts, useTokenRefreshOnFocus.ts, AuthContext.tsx: every
\* token, promise and message of every tab is what the code takes it for.
THEOREM TypeCorrect == Spec => []TypeOK
<1>1. IInv => TypeOK
  BY DEF IInv
<1> QED BY InitIInv, NextIInv, <1>1, PTL DEF Spec

\* connect.ts, doRefreshAccessToken: until somebody signs out, or a request is
\* lost, the browser holds a cookie whose session the server stores, or the
\* refresh that spent it is about to bring the next one, or a navigation cut that
\* refresh off: refreshes that race never use each other's session up.
THEOREM SessionNeverLost == Spec => []JarUsable
<1>1. IInv => JarUsable
  BY DEF IInv
<1> QED BY InitIInv, NextIInv, <1>1, PTL DEF Spec

-----------------------------------------------------------------------------
(* One tab that is not loaded again                                          *)

Active == {"sent", "checked", "dropped", "answered"}

\* A fetch of that tab, whose second try has a token that is let through.
InHand(t, f) ==
  /\ pc[f] = "idle" => ~ again[f]
  /\ pc[f] # "idle" => tab[f] = t /\ kind[f] # "load"
  /\ pc[f] # "init"
  /\ again[f] /\ pc[f] = "sent" => tok[f] # None /\ age[tok[f]] # "expired"
  /\ again[f] => pc[f] # "denied"

\* A refresh is the only one of its moment, and has the cookie the server knows.
OnlyFlight(t, c) ==
  /\ call[c] # "refused"
  /\ call[c] \in Active => flight[t] = c
  /\ call[c] = "sent" => cookie[c] = jar /\ jar \in live
  /\ call[c] # "done" => age[c] = "fresh"

Served(t) ==
  /\ \A c \in Calls : OnlyFlight(t, c)
  /\ flight[t] = None => jar \in live

Settled(t) ==
  /\ \A u \in Tabs : page[u] = "app"
  /\ \A f \in Fetches : InHand(t, f)
  /\ Served(t)

SInv == \A t \in Tabs : Alone(t) /\ ~ out /\ ~ broken => Settled(t)

LEMMA InitSettled == Init => SInv
BY CallTokens DEF Init, SInv, Settled, Served, InHand, OnlyFlight, Active

LEMMA NoneIsNoCall == None \notin Calls /\ None \notin Tokens
BY ClientAssumption, CallTokens

\* What is sent is sent once, and nothing else is under way.
LEMMA RefreshServed ==
  ASSUME IInv, NEW t \in Tabs, NEW c \in Calls, Served(t), Refresh(t, c), call[c] = "free",
         UNCHANGED <<jar, live, age>>
  PROVE  Served(t)'
<1> USE DEF IInv, TypeOK, Served, OnlyFlight, Active
<1>1. CASE flight[t] # None
  BY <1>1 DEF Refresh, calls
<1>2. CASE flight[t] = None
  <2>1. /\ flight' = [flight EXCEPT ![t] = c]
        /\ call' = [call EXCEPT ![c] = "sent"]
        /\ cookie' = [cookie EXCEPT ![c] = jar]
    BY <1>2 DEF Refresh
  <2>2. flight'[t] = c /\ c # None
    BY <2>1, NoneIsNoCall
  <2>3. ASSUME NEW d \in Calls PROVE OnlyFlight(t, d)'
    <3>1. call[d] \notin Active
      BY <1>2, NoneIsNoCall
    <3>2. CASE d = c
      BY <1>2, <2>1, <2>2, <3>2
    <3>3. CASE d # c
      BY <2>1, <3>1, <3>3
    <3> QED BY <3>2, <3>3
  <2> QED BY <2>2, <2>3
<1> QED BY <1>1, <1>2

LEMMA UntouchedServed ==
  ASSUME NEW t \in Tabs, Served(t), UNCHANGED <<flight, jar, live, age, calls>>
  PROVE  Served(t)'
BY DEF Served, OnlyFlight, calls

LEMMA StartSettled ==
  ASSUME IInv, UNCHANGED scene, NEW t \in Tabs, Alone(t), Settled(t),
         NEW f \in Fetches, Start(f)
  PROVE  Settled(t)'
<1>0. /\ \A s \in Stages : <<f, s>> \in Calls
      /\ pc[f] = "idle" => \A s \in Stages : call[<<f, s>>] = "free"
      /\ TypeOK
  BY StageCalls DEF IInv, Unused
<1>1. ASSUME NEW u \in Tabs, NEW k \in Kinds, Fetch(f, u, k)
      PROVE  Settled(t)'
  <2>1. /\ pc[f] = "idle" /\ u = t /\ k # "load" /\ again[f] = FALSE
        /\ kind' = [kind EXCEPT ![f] = k] /\ tab' = [tab EXCEPT ![f] = u]
        /\ UNCHANGED <<page, jar, age, live, again>>
    BY <1>1 DEF Fetch, Claim, Alone, Settled, InHand
  <2>2. \/ pc' = [pc EXCEPT ![f] = "sent"]
        \/ pc' = [pc EXCEPT ![f] = "pre"]
    BY <1>1 DEF Fetch, RequestToken, Send, RefreshFirst
  <2>3. tok' = [tok EXCEPT ![f] = Token(u)]
    BY <1>1 DEF Fetch, RequestToken, Send, RefreshFirst
  <2>4. \A g \in Fetches : InHand(t, g)'
    BY <1>0, <2>1, <2>2, <2>3 DEF Settled, InHand, TypeOK
  <2>5. Served(t)'
    <3>1. CASE Send(f, u, Token(u))
      BY <2>1, <3>1, UntouchedServed DEF Send, Settled
    <3>2. CASE RefreshFirst(f, u, Token(u))
      BY <1>0, <2>1, <3>2, RefreshServed DEF RefreshFirst, Settled, Stages
    <3> QED BY <1>1, <3>1, <3>2 DEF Fetch, RequestToken
  <2> QED BY <2>1, <2>4, <2>5 DEF Settled
<1>2. ASSUME NEW u \in Tabs, Focus(f, u)
      PROVE  Settled(t)'
  <2>1. /\ pc[f] = "idle" /\ u = t /\ again[f] = FALSE
        /\ kind' = [kind EXCEPT ![f] = "focus"] /\ tab' = [tab EXCEPT ![f] = u]
        /\ pc' = [pc EXCEPT ![f] = "pre"]
        /\ UNCHANGED <<page, jar, age, live, again, tok>>
    BY <1>2 DEF Focus, Claim, Alone, Settled, InHand
  <2>2. \A g \in Fetches : InHand(t, g)'
    BY <1>0, <2>1 DEF Settled, InHand, TypeOK
  <2>3. Served(t)'
    BY <1>0, <1>2, <2>1, RefreshServed DEF Focus, Settled, Stages
  <2> QED BY <2>1, <2>2, <2>3 DEF Settled
<1>3. ASSUME NEW u \in Tabs, Load(f, u)
      PROVE  FALSE
  BY <1>3 DEF Load, Claim, Alone
<1> QED BY <1>1, <1>2, <1>3 DEF Start

\* Nobody is refused twice, so that nobody leaves the page.
LEMMA AnswerSettled ==
  ASSUME IInv, UNCHANGED scene, NEW t \in Tabs, Alone(t), Settled(t),
         NEW f \in Fetches, Answer(f) \/ NoAnswer(f), ~ out', ~ broken'
  PROVE  Settled(t)'
<1>0. TypeOK /\ Unused(f) /\ InHand(t, f)
  BY DEF IInv, Settled
<1>1. CASE Serve(f)
  <2>1. /\ pc[f] = "sent"
        /\ pc' = [pc EXCEPT ![f] = IF tok[f] # None /\ age[tok[f]] # "expired"
                                   THEN "accepted" ELSE "denied"]
        /\ UNCHANGED <<page, flight, jar, age, calls, kind, tab, tok, again>>
    BY <1>1 DEF Serve, browser
  <2>2. live' = live
    BY <1>1 DEF Serve
  <2>3. \A g \in Fetches : InHand(t, g)'
    BY <1>0, <2>1 DEF Settled, InHand, TypeOK
  <2> QED BY <2>1, <2>2, <2>3, UntouchedServed DEF Settled
<1>2. CASE Accepted(f)
  <2>1. /\ pc[f] = "accepted" /\ pc' = [pc EXCEPT ![f] = "done"]
        /\ UNCHANGED <<flight, jar, age, live, calls, kind, tab, tok, again>>
    BY <1>2 DEF Accepted
  <2>2. page' = page
    BY <1>0, <1>2 DEF Accepted, InHand
  <2>3. \A g \in Fetches : InHand(t, g)'
    BY <1>0, <2>1 DEF Settled, InHand, TypeOK
  <2> QED BY <2>1, <2>2, <2>3, UntouchedServed DEF Settled
<1>3. CASE SignedOut(f)
  BY <1>0, <1>3 DEF SignedOut, Unused
<1>4. CASE Denied(f)
  <2>1. /\ pc[f] = "denied" /\ tab[f] = t /\ ~ again[f]
        /\ pc' = [pc EXCEPT ![f] = "retry"]
        /\ Refresh(t, <<f, "retry">>)
        /\ UNCHANGED <<page, jar, age, live, kind, tab, tok, again>>
    BY <1>0, <1>4 DEF Denied, InHand
  <2>2. <<f, "retry">> \in Calls /\ call[<<f, "retry">>] = "free"
    BY <1>0, <2>1, StageCalls DEF Unused, Stages
  <2>3. \A g \in Fetches : InHand(t, g)'
    BY <1>0, <2>1 DEF Settled, InHand, TypeOK
  <2> QED BY <2>1, <2>2, <2>3, RefreshServed DEF Settled
<1>5. CASE DeniedAgain(f)
  BY <1>0, <1>5 DEF DeniedAgain, InHand
<1>6. CASE NoAnswer(f)
  BY <1>6 DEF NoAnswer
<1> QED BY <1>1, <1>2, <1>3, <1>4, <1>5, <1>6 DEF Answer

\* The server's part: the cookie it is sent is one it knows.
LEMMA ServerSettled ==
  ASSUME IInv, NEW t \in Tabs, Settled(t), NEW c \in Calls,
         Check(c) \/ Drop(c) \/ Issue(c) \/ Lose(c) \/ Abort(c), ~ broken'
  PROVE  Settled(t)'
<1>0. /\ TypeOK /\ OnlyFlight(t, c) /\ c # None
      /\ \A d \in Calls : OnlyFlight(t, d)
      /\ flight[t] = None => jar \in live
  BY NoneIsNoCall DEF IInv, Settled, Served
<1>1. UNCHANGED <<page, flight, jar, age, fetches>>
  BY DEF Check, Drop, Issue, Lose, Abort, browser
<1>2. \A f \in Fetches : InHand(t, f)'
  BY <1>1 DEF Settled, InHand, fetches
<1>3. CASE Check(c)
  <2>1. call' = [call EXCEPT ![c] = "checked"] /\ UNCHANGED <<live, cookie>>
    BY <1>0, <1>3 DEF Check, OnlyFlight
  <2>2. call[c] = "sent"
    BY <1>3 DEF Check
  <2> QED BY <1>0, <1>1, <1>2, <2>1, <2>2 DEF Settled, Served, OnlyFlight, Active, TypeOK
<1>4. CASE Drop(c)
  <2>1. /\ call[c] = "checked" /\ call' = [call EXCEPT ![c] = "dropped"]
        /\ UNCHANGED cookie /\ flight[t] = c
    BY <1>0, <1>4 DEF Drop, OnlyFlight, Active
  <2>2. \A d \in Calls : OnlyFlight(t, d)'
    BY <1>0, <1>1, <2>1 DEF OnlyFlight, Active, TypeOK
  <2> QED BY <1>0, <1>1, <1>2, <2>1, <2>2 DEF Settled, Served
<1>5. CASE Issue(c)
  <2>1. /\ call[c] = "dropped" /\ call' = [call EXCEPT ![c] = "answered"]
        /\ UNCHANGED cookie /\ live \subseteq live'
    BY <1>5 DEF Issue
  <2> QED BY <1>0, <1>1, <1>2, <2>1 DEF Settled, Served, OnlyFlight, Active, TypeOK
<1>6. CASE Lose(c)
  BY <1>6 DEF Lose
<1>7. CASE Abort(c)
  <2>1. flight[t] = c /\ call[c] = "answered" /\ flight[tab[c[1]]] # c
    BY <1>0, <1>7 DEF Abort, OnlyFlight, Active
  <2>2. PICK f \in Fetches, s \in Stages : c = <<f, s>>
    BY DEF Calls
  <2>3. pc[f] # "idle"
    BY <2>1, <2>2 DEF IInv, Unused
  <2> QED BY <2>1, <2>2, <2>3 DEF Settled, InHand
<1> QED BY <1>3, <1>4, <1>5, <1>6, <1>7

LEMMA ArriveSettled ==
  ASSUME IInv, NEW t \in Tabs, Settled(t), NEW c \in Calls, Arrive(c), ~ out
  PROVE  Settled(t)'
<1>0. /\ TypeOK /\ c # None /\ c \in Tokens /\ call[c] = "answered" /\ flight[t] = c
      /\ age[c] = "fresh" /\ c \in live
      /\ \A d \in Calls : OnlyFlight(t, d)
  BY NoneIsNoCall, CallTokens DEF IInv, Cookies, Arrive, Settled, Served, OnlyFlight, Active
<1>1. tab[c[1]] = t
  <2>1. PICK f \in Fetches, s \in Stages : c = <<f, s>>
    BY DEF Calls
  <2>2. pc[f] # "idle"
    BY <1>0, <2>1 DEF IInv, Unused
  <2> QED BY <2>1, <2>2 DEF Settled, InHand
<1>2. /\ call' = [call EXCEPT ![c] = "done"] /\ jar' = c
      /\ flight' = [flight EXCEPT ![t] = None]
      /\ UNCHANGED <<page, age, live, cookie, kind, tab>>
  BY <1>0, <1>1 DEF Arrive
<1>3. /\ pc' = [f \in Fetches |-> IF f \notin WaitingOn(t) THEN pc[f]
                                 ELSE IF kind[f] = "focus" THEN "done" ELSE "sent"]
      /\ tok' = [f \in Fetches |-> IF f \in WaitingOn(t) THEN c ELSE tok[f]]
      /\ again' = [f \in Fetches |-> IF f \in WaitingOn(t) /\ pc[f] = "retry"
                                     THEN TRUE ELSE again[f]]
  BY <1>0, <1>1 DEF Arrive
<1>4. ASSUME NEW f \in Fetches PROVE InHand(t, f)'
  <2>1. InHand(t, f)
    BY DEF Settled
  <2>2. CASE f \in WaitingOn(t)
    <3>1. pc[f] # "idle"
      BY <2>2 DEF WaitingOn, Waiting
    <3>2. pc'[f] \in {"done", "sent"} /\ tok'[f] = c
      BY <1>3, <2>2
    <3> QED BY <1>0, <1>2, <2>1, <3>1, <3>2 DEF InHand
  <2>3. CASE f \notin WaitingOn(t)
    BY <1>2, <1>3, <2>1, <2>3 DEF InHand
  <2> QED BY <2>2, <2>3
<1>5. ASSUME NEW d \in Calls PROVE OnlyFlight(t, d)'
  <2>1. CASE d = c
    BY <1>0, <1>2, <2>1 DEF OnlyFlight, Active, TypeOK
  <2>2. CASE d # c
    <3>1. call[d] \notin Active
      BY <1>0, <2>2 DEF OnlyFlight
    <3>2. call'[d] = call[d]
      BY <1>0, <1>2, <2>2 DEF TypeOK
    <3> QED BY <1>0, <1>2, <3>1, <3>2 DEF OnlyFlight, Active
  <2> QED BY <2>1, <2>2
<1> QED BY <1>0, <1>2, <1>4, <1>5 DEF Settled, Served

\* A token that expires on its way is a fault; only one that has arrived ages.
LEMMA GrowSettled ==
  ASSUME IInv, NEW t \in Tabs, Settled(t), NEW g \in Tokens, Grow(g), ~ broken'
  PROVE  Settled(t)'
<1>0. /\ TypeOK /\ age[g] # "expired" /\ (g \in Calls => call[g] = "done")
      /\ age' = [age EXCEPT ![g] = IF @ = "fresh" THEN "stale" ELSE "expired"]
      /\ UNCHANGED <<page, flight, jar, live, calls, kind, tab, pc, tok, again>>
  BY DEF IInv, Grow, browser, fetches
<1>1. ASSUME NEW f \in Fetches, pc[f] = "sent", tok[f] = g
      PROVE  age[g] = "fresh"
  BY <1>0, <1>1 DEF Grow, TypeOK, Ages
<1>2. ASSUME NEW f \in Fetches PROVE InHand(t, f)'
  <2>1. InHand(t, f) /\ tok[f] \in Tokens \cup {None}
    BY <1>0 DEF Settled, TypeOK
  <2>2. ASSUME again[f], pc[f] = "sent" PROVE tok[f] # None /\ age'[tok[f]] # "expired"
    <3>1. tok[f] \in Tokens /\ age[tok[f]] # "expired" /\ tok[f] # None
      BY <2>1, <2>2 DEF InHand
    <3>2. CASE tok[f] = g
      BY <1>0, <1>1, <2>2, <3>1, <3>2 DEF TypeOK
    <3>3. CASE tok[f] # g
      BY <1>0, <3>1, <3>3 DEF TypeOK
    <3> QED BY <3>2, <3>3
  <2> QED BY <1>0, <2>1, <2>2 DEF InHand
<1>3. \A c \in Calls : OnlyFlight(t, c)'
  BY <1>0, CallTokens DEF Settled, Served, OnlyFlight, TypeOK, calls
<1> QED BY <1>0, <1>2, <1>3 DEF Settled, Served

\* The history is never taken back.
LEMMA HistoryStays == Next => (out => out') /\ (broken => broken')
<1> SUFFICES ASSUME Next PROVE (out => out') /\ (broken => broken')
  OBVIOUS
<1>1. ASSUME NEW f \in Fetches, Start(f) \/ Answer(f) \/ NoAnswer(f)
      PROVE  (out => out') /\ (broken => broken')
  BY <1>1 DEF Start, Fetch, Focus, Load, Answer, Serve, Accepted, SignedOut, Denied,
              DeniedAgain, NoAnswer
<1>2. ASSUME NEW c \in Calls,
             \/ Check(c) \/ Drop(c) \/ Issue(c) \/ Lose(c)
             \/ Arrive(c) \/ Abort(c) \/ Refused(c)
      PROVE  (out => out') /\ (broken => broken')
  <2>1. CASE Refused(c)
    <3>1. UNCHANGED <<out, broken>>
      BY <2>1, RefusedCases
    <3> QED BY <3>1
  <2>2. CASE Lose(c)
    BY <2>2 DEF Lose
  <2>3. CASE Check(c) \/ Drop(c) \/ Issue(c) \/ Arrive(c) \/ Abort(c)
    <3>1. UNCHANGED <<out, broken>>
      BY <2>3 DEF Check, Drop, Issue, Arrive, Abort
    <3> QED BY <3>1
  <2> QED BY <1>2, <2>1, <2>2, <2>3
<1>3. ASSUME NEW t \in Tabs, Adopt(t)
      PROVE  (out => out') /\ (broken => broken')
  BY <1>3 DEF Adopt
<1>4. ASSUME NEW g \in Tokens, Grow(g)
      PROVE  (out => out') /\ (broken => broken')
  BY <1>4 DEF Grow
<1> QED BY <1>1, <1>2, <1>3, <1>4 DEF Next, Step

LEMMA NextSettled == IInv /\ SInv /\ [Next]_vars => SInv'
<1>1. ASSUME IInv, SInv, Next PROVE SInv'
  <2> SUFFICES ASSUME NEW t \in Tabs, Alone(t)', ~ out', ~ broken' PROVE Settled(t)'
    BY DEF SInv
  <2>0. UNCHANGED scene /\ Alone(t)
    BY <1>1 DEF Next, Alone
  <2>1. ~ out /\ ~ broken
    BY <1>1, HistoryStays
  <2>2. Settled(t)
    BY <1>1, <2>0, <2>1 DEF SInv
  <2>3. ASSUME NEW f \in Fetches, Start(f) \/ Answer(f) \/ NoAnswer(f) PROVE Settled(t)'
    BY <1>1, <2>0, <2>2, <2>3, StartSettled, AnswerSettled
  <2>4. ASSUME NEW c \in Calls,
             \/ Check(c) \/ Drop(c) \/ Issue(c) \/ Lose(c)
             \/ Arrive(c) \/ Abort(c) \/ Refused(c)
        PROVE  Settled(t)'
    <3>1. ~ Refused(c)
      BY <2>2 DEF Refused, Settled, Served, OnlyFlight
    <3> QED BY <1>1, <2>1, <2>2, <2>4, <3>1, ServerSettled, ArriveSettled
  <2>5. ASSUME NEW u \in Tabs, Adopt(u) PROVE Settled(t)'
    <3>1. UNCHANGED <<flight, page, jar, age, live, calls, kind, tab, pc, tok, again>>
      BY <2>5 DEF Adopt, fetches
    <3> QED BY <2>2, <3>1, UntouchedServed DEF Settled, InHand
  <2>6. ASSUME NEW g \in Tokens, Grow(g) PROVE Settled(t)'
    BY <1>1, <2>2, <2>6, GrowSettled
  <2> QED BY <1>1, <2>3, <2>4, <2>5, <2>6 DEF Next, Step
<1>2. ASSUME SInv, UNCHANGED vars PROVE SInv'
  BY <1>2 DEF SInv, Alone, Settled, Served, InHand, OnlyFlight, vars, browser, calls, fetches
<1> QED BY <1>1, <1>2

\* AuthContext.tsx, connect.ts (redirectOnAuthFailure): a user with one tab, who
\* does not reload it, is not sent to the sign-in page while nobody signs out and
\* no request is lost: every refresh succeeds, and every second try is let through.
THEOREM OneTabStaysIn == Spec => []StaysIn
<1>1. SInv => StaysIn
  BY DEF SInv, StaysIn, Settled
<1> QED BY InitIInv, NextIInv, InitSettled, NextSettled, <1>1, PTL DEF Spec
===============================================================================
