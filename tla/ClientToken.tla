----------------------------- MODULE ClientToken -----------------------------
(***************************************************************************)
(* The access token in the browser: what auth-state.ts keeps in memory, in *)
(* localStorage and sends over the BroadcastChannel, the refresh manager   *)
(* and apiFetch of connect.ts, and the callers that sign in from the       *)
(* cookie on page load, refresh on focus and sign out.                     *)
(*                                                                         *)
(* Tabs share the cookie jar and localStorage, and run one event at a      *)
(* time: an action is one event with all the promise continuations it      *)
(* releases.  A token is named by the call of /auth/refresh that issued    *)
(* it, its access and its refresh token alike.  The server is the Node one: *)
(* a repository call is one turn of its event loop, so that a refresh is   *)
(* its check of the stored session, its removal and the new session, with  *)
(* a signature awaited between them; Sessions has the statements one by    *)
(* one, as D1 may interleave them.  Pages are on routes that need a user.  *)
(***************************************************************************)
EXTENDS Sequences

CONSTANTS Tabs,
          Fetches,   \* events that use the token, each happening at most once
          Kinds,     \* what they may be
          Scenes,    \* which tabs are open, which kinds of events happen, and
                     \* whether requests and answers may be lost
          None

Stages == {"init", "pre", "retry"}
Calls == Fetches \X Stages     \* requests to /auth/refresh, by who sends them
First == <<None, "signin">>    \* the sign-in before the behaviour starts
Tokens == {First} \cup Calls
Ages == {"fresh", "stale", "expired"}

ASSUME ClientAssumption ==
  /\ None \notin Fetches \cup Tabs \cup Tokens
  /\ Kinds \subseteq {"api", "signout", "focus", "load"}
  /\ Scenes \subseteq [tabs: SUBSET Tabs, kinds: SUBSET Kinds, faults: BOOLEAN]

VARIABLES scene,    \* the scene of this behaviour
          mem,      \* accessToken of each tab
          store,    \* localStorage
          chan,     \* BroadcastChannel messages each tab has still to receive
          flight,   \* refreshPromise of each tab
          page,     \* the document of each tab: loading, signed in, or not
          jar,      \* the refresh cookie
          age,      \* access tokens: stale within the 30 s request buffer
          live,     \* server: refresh tokens with a stored session
          call, cookie,           \* state and cookie of each refresh request
          kind, tab, pc, tok, again,  \* the fetches
          out, broken    \* history: a sign-out reached the server; a fault

browser == <<mem, store, chan, flight, page, jar>>
calls == <<call, cookie>>
fetches == <<kind, tab, pc, tok, again>>
vars == <<scene, browser, age, live, calls, fetches, out, broken>>

Waiting == {"init", "pre", "retry"}
CallStates == {"free", "sent", "checked", "dropped", "answered", "refused", "done", "wasted"}

TypeOK ==
  /\ scene \in Scenes
  /\ mem \in [Tabs -> Tokens \cup {None}]
  /\ store \in Tokens \cup {None}
  /\ chan \in [Tabs -> Seq(Tokens)]
  /\ flight \in [Tabs -> Calls \cup {None}]
  /\ page \in [Tabs -> {"loading", "app", "guest"}]
  /\ jar \in Tokens \cup {None}
  /\ age \in [Tokens -> Ages]
  /\ live \subseteq Tokens
  /\ call \in [Calls -> CallStates]
  /\ cookie \in [Calls -> Tokens \cup {None}]
  /\ kind \in [Fetches -> Kinds \cup {None}]
  /\ tab \in [Fetches -> Tabs \cup {None}]
  /\ pc \in [Fetches -> Waiting \cup {"idle", "sent", "accepted", "denied", "done"}]
  /\ tok \in [Fetches -> Tokens \cup {None}]
  /\ again \in [Fetches -> BOOLEAN]
  /\ out \in BOOLEAN /\ broken \in BOOLEAN

Init ==
  /\ scene \in Scenes
  /\ mem = [t \in Tabs |-> IF t \in scene.tabs THEN First ELSE None] /\ store = First
  /\ chan = [t \in Tabs |-> <<>>]
  /\ flight = [t \in Tabs |-> None]
  /\ page = [t \in Tabs |-> "app"]
  /\ jar = First /\ live = {First}
  /\ age = [g \in Tokens |-> "fresh"]
  /\ call = [c \in Calls |-> "free"]
  /\ cookie = [c \in Calls |-> None]
  /\ kind = [f \in Fetches |-> None]
  /\ tab = [f \in Fetches |-> None]
  /\ pc = [f \in Fetches |-> "idle"]
  /\ tok = [f \in Fetches |-> None]
  /\ again = [f \in Fetches |-> FALSE]
  /\ out = FALSE /\ broken = FALSE

-----------------------------------------------------------------------------
\* localStorage, unless what it holds has expired.
Stored == IF store # None /\ age[store] # "expired" THEN store ELSE None

\* getAccessToken
Token(t) == IF mem[t] # None THEN mem[t] ELSE Stored

On(t) == {f \in Fetches : tab[f] = t}
WaitingOn(t) == {f \in On(t) : pc[f] \in Waiting}

\* Mutant: every caller sends a refresh of its own.
RefreshAlways(t, c) ==
  /\ flight' = [flight EXCEPT ![t] = c]
  /\ call' = [call EXCEPT ![c] = "sent"]
  /\ cookie' = [cookie EXCEPT ![c] = jar]

\* tokenRefreshManager.refresh: join the refresh of this tab, or send one.
Refresh(t, c) ==
  IF flight[t] # None
  THEN UNCHANGED <<flight, calls>>
  ELSE /\ flight' = [flight EXCEPT ![t] = c]
       /\ call' = [call EXCEPT ![c] = "sent"]
       /\ cookie' = [cookie EXCEPT ![c] = jar]

\* Mutant: what is kept is the header, not the token.
SendBearer(f, t, a) ==
  /\ pc' = [pc EXCEPT ![f] = "sent"]
  /\ tok' = [tok EXCEPT ![f] = <<"Bearer", a>>]
  /\ UNCHANGED <<flight, calls>>

\* Which way getRequestToken takes with the token it found.
Send(f, t, a) ==
  /\ pc' = [pc EXCEPT ![f] = "sent"]
  /\ tok' = [tok EXCEPT ![f] = a]
  /\ UNCHANGED <<flight, calls>>

RefreshFirst(f, t, a) ==
  /\ pc' = [pc EXCEPT ![f] = "pre"]
  /\ tok' = [tok EXCEPT ![f] = a]
  /\ Refresh(t, <<f, "pre">>)

RequestToken(f, t, a) ==
  IF (a = None /\ store = None) \/ (a # None /\ age[a] = "fresh")
  THEN Send(f, t, a) ELSE RefreshFirst(f, t, a)

Claim(f, t, k) ==
  /\ pc[f] = "idle" /\ t \in scene.tabs /\ k \in scene.kinds
  /\ kind' = [kind EXCEPT ![f] = k]
  /\ tab' = [tab EXCEPT ![f] = t]

-----------------------------------------------------------------------------
(* apiFetch and its callers                                                *)

Fetch(f, t, k) ==
  /\ page[t] = "app" /\ k \in {"api", "signout"}
  /\ Claim(f, t, k)
  /\ mem' = [mem EXCEPT ![t] = Token(t)]
  /\ RequestToken(f, t, Token(t))
  /\ UNCHANGED <<store, chan, page, jar, age, live, again, out, broken>>

\* useTokenRefreshOnFocus.  A fresh token may be within its two minutes.
Focus(f, t) ==
  /\ page[t] = "app" /\ (mem[t] # None \/ store # None)
  /\ Claim(f, t, "focus")
  /\ pc' = [pc EXCEPT ![f] = "pre"]
  /\ Refresh(t, <<f, "pre">>)
  /\ UNCHANGED <<mem, store, chan, page, jar, age, live, tok, again, out, broken>>

\* A new document: its module state starts empty and the fetches of the old one
\* are gone.  A refresh the old one sent goes on at the server, without anybody
\* who waits for it.
Load(f, t) ==
  /\ Claim(f, t, "load")
  /\ page' = [page EXCEPT ![t] = "loading"]
  /\ mem' = [mem EXCEPT ![t] = Stored]
  /\ chan' = [chan EXCEPT ![t] = <<>>]
  /\ tok' = [tok EXCEPT ![f] = Stored]
  /\ LET mine == IF Stored = None THEN "init"
                 ELSE IF age[Stored] = "fresh" THEN "sent" ELSE "pre"
         c == <<f, mine>>
     IN /\ pc' = [g \in Fetches |-> IF g = f THEN mine
                                    ELSE IF g \in On(t) THEN "done" ELSE pc[g]]
        /\ IF mine = "sent"
           THEN flight' = [flight EXCEPT ![t] = None] /\ UNCHANGED calls
           ELSE /\ flight' = [flight EXCEPT ![t] = c]
                /\ call' = [call EXCEPT ![c] = "sent"]
                /\ cookie' = [cookie EXCEPT ![c] = jar]
  /\ UNCHANGED <<store, jar, age, live, again, out, broken>>

\* clearAccessToken
Clear(t) == mem' = [mem EXCEPT ![t] = None] /\ store' = None

\* redirectOnAuthFailure: the document goes away, as in Load.
Redirect(t) ==
  /\ Clear(t)
  /\ page' = [page EXCEPT ![t] = "guest"]
  /\ flight' = [flight EXCEPT ![t] = None]
  /\ pc' = [g \in Fetches |-> IF g \in On(t) THEN "done" ELSE pc[g]]

\* The end of a fetch that was let through.
Accepted(f) ==
  /\ pc[f] = "accepted" /\ kind[f] \in {"api", "load"}
  /\ pc' = [pc EXCEPT ![f] = "done"]
  /\ page' = IF kind[f] = "load" THEN [page EXCEPT ![tab[f]] = "app"] ELSE page
  /\ UNCHANGED <<mem, store, chan, flight, jar, age, live, calls, kind, tab, tok,
                 again, out, broken>>

\* logout: the cookie goes with the answer, the token in the finally block,
\* the document right after.
SignedOut(f) ==
  /\ pc[f] = "accepted" /\ kind[f] = "signout"
  /\ jar' = None
  /\ Redirect(tab[f])
  /\ UNCHANGED <<chan, age, live, calls, kind, tab, tok, again, out, broken>>

\* A 401: refresh and try once more.
Denied(f) ==
  /\ pc[f] = "denied" /\ ~ again[f]
  /\ pc' = [pc EXCEPT ![f] = "retry"]
  /\ Refresh(tab[f], <<f, "retry">>)
  /\ UNCHANGED <<mem, store, chan, page, jar, age, live, kind, tab, tok, again,
                 out, broken>>

DeniedAgain(f) ==
  /\ pc[f] = "denied" /\ again[f]
  /\ Redirect(tab[f])
  /\ UNCHANGED <<chan, jar, age, live, calls, kind, tab, tok, again, out, broken>>

\* fetch throws: no answer.  The retry's catch redirects, so does a sign-out
\* that failed; initialize forgets the token.
NoAnswer(f) ==
  /\ scene.faults /\ broken' = TRUE
  /\ pc[f] \in {"sent", "accepted", "denied"}
  /\ IF again[f] \/ kind[f] = "signout" THEN Redirect(tab[f])
     ELSE /\ pc' = [pc EXCEPT ![f] = "done"]
          /\ IF kind[f] = "api" THEN UNCHANGED <<mem, store, page>>
             ELSE Clear(tab[f]) /\ page' = [page EXCEPT ![tab[f]] = "guest"]
          /\ UNCHANGED flight
  /\ UNCHANGED <<chan, jar, age, live, calls, kind, tab, tok, again, out>>

-----------------------------------------------------------------------------
(* The answer to a refresh                                                 *)

\* Mutant: only the fetch that sent the refresh goes on.
ArriveForOne(c) ==
  LET t == tab[c[1]] IN
  /\ call[c] = "answered" /\ call' = [call EXCEPT ![c] = "done"]
  /\ jar' = c
  /\ IF flight[t] # c THEN UNCHANGED <<mem, store, chan, flight, pc, tok, again>>
     ELSE /\ mem' = [mem EXCEPT ![t] = c] /\ store' = c /\ UNCHANGED chan
          /\ flight' = [flight EXCEPT ![t] = None]
          /\ pc' = [pc EXCEPT ![c[1]] = IF kind[c[1]] = "focus" THEN "done" ELSE "sent"]
          /\ tok' = [tok EXCEPT ![c[1]] = c]
          /\ again' = [again EXCEPT ![c[1]] = (pc[c[1]] = "retry")]
  /\ UNCHANGED <<page, age, live, cookie, kind, tab, out, broken>>

\* The cookie is the browser's; the token goes to the document that asked for
\* it, if it is still there, to localStorage and to the other tabs, and every
\* fetch that waits on the promise continues with it.
Arrive(c) ==
  LET t == tab[c[1]] IN
  /\ call[c] = "answered" /\ call' = [call EXCEPT ![c] = "done"]
  /\ jar' = c
  /\ IF flight[t] # c THEN UNCHANGED <<mem, store, chan, flight, pc, tok, again>>
     ELSE /\ mem' = [mem EXCEPT ![t] = c]
          /\ store' = c
          /\ chan' = [u \in Tabs |-> IF u \in scene.tabs \ {t} THEN Append(chan[u], c) ELSE chan[u]]
          /\ flight' = [flight EXCEPT ![t] = None]
          /\ pc' = [f \in Fetches |-> IF f \notin WaitingOn(t) THEN pc[f]
                                      ELSE IF kind[f] = "focus" THEN "done" ELSE "sent"]
          /\ tok' = [f \in Fetches |-> IF f \in WaitingOn(t) THEN c ELSE tok[f]]
          /\ again' = [f \in Fetches |-> IF f \in WaitingOn(t) /\ pc[f] = "retry"
                                         THEN TRUE ELSE again[f]]
  /\ UNCHANGED <<page, age, live, cookie, kind, tab, out, broken>>

\* The navigation that discarded the document aborted its fetch, which has no
\* keepalive: the server changed the session, the browser takes no new cookie.
Abort(c) ==
  /\ call[c] = "answered" /\ flight[tab[c[1]]] # c
  /\ call' = [call EXCEPT ![c] = "wasted"]
  /\ UNCHANGED <<browser, age, live, cookie, fetches, out, broken>>

\* Mutant: a refused refresh takes the cookie away.
RefusedClears(c) ==
  /\ call[c] = "refused" /\ call' = [call EXCEPT ![c] = "done"]
  /\ jar' = None
  /\ IF flight[tab[c[1]]] # c THEN UNCHANGED <<flight, pc>>
     ELSE /\ flight' = [flight EXCEPT ![tab[c[1]]] = None]
          /\ pc' = [f \in Fetches |-> IF f \in WaitingOn(tab[c[1]]) THEN "done" ELSE pc[f]]
  /\ UNCHANGED <<mem, store, chan, page, age, live, cookie, kind, tab, tok, again,
                 out, broken>>

\* No new token: a waiting request goes out with the one it had, a retry gives
\* up the page, and a loading page looks for a token once more.
Refused(c) ==
  LET t == tab[c[1]]
      loading == {f \in WaitingOn(t) : pc[f] = "init"}
      givesUp == \E f \in WaitingOn(t) : pc[f] = "retry"
  IN
  /\ call[c] = "refused"
  /\ \/ /\ flight[t] # c
        /\ call' = [call EXCEPT ![c] = "done"]
        /\ UNCHANGED <<mem, store, flight, page, pc, tok, cookie>>
     \/ /\ flight[t] = c /\ givesUp
        /\ call' = [call EXCEPT ![c] = "done"]
        /\ Redirect(t) /\ UNCHANGED <<tok, cookie>>
     \/ /\ flight[t] = c /\ ~ givesUp /\ loading = {}
        /\ call' = [call EXCEPT ![c] = "done"]
        /\ flight' = [flight EXCEPT ![t] = None]
        /\ pc' = [f \in Fetches |-> IF f \notin WaitingOn(t) THEN pc[f]
                                    ELSE IF kind[f] = "focus" THEN "done" ELSE "sent"]
        /\ UNCHANGED <<mem, store, page, tok, cookie>>
     \/ /\ flight[t] = c
        /\ \E f \in loading :
             LET a == Token(t)
                 new == <<f, "pre">>
                 after == IF a = None THEN "done"
                          ELSE IF age[a] = "fresh" THEN "sent" ELSE "pre"
             IN /\ mem' = [mem EXCEPT ![t] = a]
                /\ tok' = [tok EXCEPT ![f] = a]
                /\ pc' = [pc EXCEPT ![f] = after]
                /\ page' = IF a = None THEN [page EXCEPT ![t] = "guest"] ELSE page
                /\ flight' = [flight EXCEPT ![t] = IF after = "pre" THEN new ELSE None]
                /\ call' = IF after = "pre"
                           THEN [call EXCEPT ![c] = "done", ![new] = "sent"]
                           ELSE [call EXCEPT ![c] = "done"]
                /\ cookie' = IF after = "pre" THEN [cookie EXCEPT ![new] = jar] ELSE cookie
        /\ UNCHANGED store
  /\ UNCHANGED <<chan, jar, age, live, kind, tab, again, out, broken>>

\* Another tab's token is adopted, whatever this tab holds.
Adopt(t) ==
  /\ chan[t] # <<>>
  /\ mem' = [mem EXCEPT ![t] = Head(chan[t])]
  /\ chan' = [chan EXCEPT ![t] = Tail(@)]
  /\ UNCHANGED <<store, flight, page, jar, age, live, calls, fetches, out, broken>>

-----------------------------------------------------------------------------
(* The server and time                                                     *)

Serve(f) ==
  LET valid == tok[f] # None /\ age[tok[f]] # "expired" IN
  /\ pc[f] = "sent"
  /\ pc' = [pc EXCEPT ![f] = IF valid THEN "accepted" ELSE "denied"]
  /\ IF valid /\ kind[f] = "signout"
     THEN live' = {} /\ out' = TRUE
     ELSE UNCHANGED <<live, out>>
  /\ UNCHANGED <<browser, age, calls, kind, tab, tok, again, broken>>

Check(c) ==
  /\ call[c] = "sent"
  /\ call' = [call EXCEPT ![c] = IF cookie[c] \in live THEN "checked" ELSE "refused"]
  /\ UNCHANGED <<browser, age, live, cookie, fetches, out, broken>>

Drop(c) ==
  /\ call[c] = "checked"
  /\ live' = live \ {cookie[c]}
  /\ call' = [call EXCEPT ![c] = "dropped"]
  /\ UNCHANGED <<browser, age, cookie, fetches, out, broken>>

Issue(c) ==
  /\ call[c] = "dropped"
  /\ live' = live \cup {c}
  /\ call' = [call EXCEPT ![c] = "answered"]
  /\ UNCHANGED <<browser, age, cookie, fetches, out, broken>>

\* A failed request or a lost answer; what the server did, it did.
Lose(c) ==
  /\ scene.faults /\ broken' = TRUE
  /\ call[c] \in {"sent", "checked", "dropped", "answered"}
  /\ call' = [call EXCEPT ![c] = "refused"]
  /\ UNCHANGED <<browser, age, live, cookie, fetches, out>>

\* The tokens whose age somebody may still ask for.
Held == {store} \cup {mem[t] : t \in Tabs}
        \cup {tok[f] : f \in {h \in Fetches : pc[h] \in {"pre", "sent"}}}

\* A token lives 15 minutes, an answer takes less than the 30 s buffer: no
\* token grows stale on its way to the browser, and none that was fresh when
\* a request left expires before it is served, but for a fault.
Grow(g) ==
  LET late == age[g] = "stale" /\ \E f \in Fetches : pc[f] = "sent" /\ tok[f] = g IN
  /\ age[g] # "expired" /\ g \in Held
  /\ g \in Calls => call[g] = "done"
  /\ late => scene.faults
  /\ broken' = (broken \/ late)
  /\ age' = [age EXCEPT ![g] = IF @ = "fresh" THEN "stale" ELSE "expired"]
  /\ UNCHANGED <<browser, live, calls, fetches, out>>

Start(f) == \E t \in Tabs : \/ \E k \in Kinds : Fetch(f, t, k)
                            \/ Focus(f, t)
                            \/ Load(f, t)

Answer(f) == Serve(f) \/ Accepted(f) \/ SignedOut(f) \/ Denied(f) \/ DeniedAgain(f)

Step == \/ \E f \in Fetches : Start(f) \/ Answer(f) \/ NoAnswer(f)
        \/ \E c \in Calls : \/ Check(c) \/ Drop(c) \/ Issue(c) \/ Lose(c)
                            \/ Arrive(c) \/ Abort(c) \/ Refused(c)
        \/ \E t \in Tabs : Adopt(t)
        \/ \E g \in Tokens : Grow(g)

Next == Step /\ UNCHANGED scene

Spec == Init /\ [][Next]_vars

\* The server answers and the browser delivers what it is sent.
Fairness ==
  /\ \A f \in Fetches : WF_vars(Answer(f) /\ UNCHANGED scene)
  /\ \A c \in Calls : WF_vars(/\ Check(c) \/ Drop(c) \/ Issue(c) \/ Arrive(c) \/ Refused(c)
                              /\ UNCHANGED scene)

FairSpec == Spec /\ Fairness

-----------------------------------------------------------------------------
\* refresh of auth.ts and doRefreshAccessToken: the server knows the session of
\* the browser's cookie, unless that cookie was spent by a refresh whose answer
\* is on its way, or whose document a navigation discarded before the answer.
\* However many tabs refresh at once, nothing else loses the session.
JarUsable ==
  out \/ broken \/ jar \in live
  \/ \E c \in Calls : /\ cookie[c] = jar
                      /\ \/ call[c] \in {"dropped", "wasted"}
                         \/ call[c] = "answered" /\ c \in live

\* One tab, and no page is loaded in it again.
Alone(t) == scene.tabs = {t} /\ "load" \notin scene.kinds

\* connect.ts, redirectOnAuthFailure: nobody who has one tab, and does not reload
\* it, is sent to the sign-in page while the session lives.
StaysIn ==
  \A t \in Tabs : Alone(t) => \A u \in Tabs : page[u] = "guest" => out \/ broken

\* Every event that wants a token ends, however many share one refresh.
FetchEnds == \A f \in Fetches : pc[f] # "idle" ~> pc[f] = "done"
=============================================================================
