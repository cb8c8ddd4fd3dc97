------------------------------- MODULE Browser -------------------------------
(***************************************************************************)
(* The browser's side of a session, composed with Sessions: the tabs of    *)
(* src/frontend/js/api.js, auth.js and auth-guard.js.  The tabs share      *)
(* localStorage; each page keeps a cached access token and the promise of  *)
(* the refresh it has running.  A call is a request slot of Sessions.      *)
(***************************************************************************)
EXTENDS Sessions

CONSTANTS Tab, TabOf, NoReq,
          MaxClicks   \* bound: what the user does, calls, logins and page loads

ASSUME BrowserAssumption == TabOf \in [Req -> Tab] /\ NoReq \notin Req /\ MaxClicks \in Nat

VARIABLES page,       \* per tab: the login page, a page of the app, or leaving
          cached,     \* per tab: NexusAPI._token, 0 for null
          refreshing, \* per tab: the call whose refresh is NexusAPI._refreshing
          store,      \* localStorage: nexus_token and nexus_refresh, 0 for none
          call,       \* per call: kind, what it waits for, options._retry
          clicks,     \* what the user did so far
          raced,      \* history: a refresh was duplicated or abandoned
          signedOut   \* history: "no", or how the storage was last cleared

tabVars == <<page, cached, refreshing, store, call, clicks, raced, signedOut>>
vars == <<sessionVars, tabVars>>

Calls(t) == {c \in Req : TabOf[c] = t}
Waiting(t) == {c \in Calls(t) : call[c].at \in {"refreshing", "sharing"}}
NoCall == [kind |-> "api", at |-> "idle", retry |-> FALSE]
Free(c) == call[c].at = "idle" /\ srv[c].at \in Final

Click == clicks < MaxClicks /\ clicks' = clicks + 1

\* getToken: the cached token, else the stored one.
Token(t) == IF cached[t] # 0 THEN cached[t] ELSE store.token

\* Refreshes and logins in progress, but for the calls that end now: their
\* answer would still be stored.
StoresLater(ended) ==
  {c \in Req \ ended : \/ call[c].at = "refreshing"
                       \/ call[c].at = "sent" /\ call[c].kind = "login"}

\* request: sends the token it has, or none.
Send(c, kind) ==
  LET t == TabOf[c] IN
  /\ Free(c)
  /\ Click
  /\ page[t] = "app"
  /\ cached' = [cached EXCEPT ![t] = Token(t)]
  /\ call' = [call EXCEPT ![c] = [kind |-> kind, at |-> "sent", retry |-> FALSE]]
  /\ srv' = [srv EXCEPT ![c] = Request(kind, "auth", Token(t))]
  /\ UNCHANGED <<tokens, blacklist, expired, dead, reused, faults,
                 page, refreshing, store, raced, signedOut>>

\* The login form; the password check is in Accounts.
SendLogin(c) ==
  /\ Free(c)
  /\ Click
  /\ page[TabOf[c]] = "login"
  /\ \A d \in Calls(TabOf[c]) : call[d].at = "idle"   \* loginBtn.disabled
  /\ call' = [call EXCEPT ![c] = [kind |-> "login", at |-> "sent", retry |-> FALSE]]
  /\ srv' = [srv EXCEPT ![c] = Request("login", "create", 0)]
  /\ UNCHANGED <<tokens, blacklist, expired, dead, reused, faults,
                 page, cached, refreshing, store, raced, signedOut>>

\* setToken and nexus_refresh, written in one turn of the event loop.
StorePair(t, n) ==
  /\ store' = [token |-> n, refresh |-> n]
  /\ cached' = [cached EXCEPT ![t] = n]

\* Mutant of Cleared: clearToken forgets nexus_refresh.
ClearedTokenOnly == [token |-> 0, refresh |-> store.refresh]

Cleared == [token |-> 0, refresh |-> 0]

\* clearToken, then the page is left for index.html.
ClearAndLeave(t, ended) ==
  /\ store' = Cleared
  /\ cached' = [cached EXCEPT ![t] = 0]
  /\ page' = [page EXCEPT ![t] = "leaving"]
  /\ call' = [c \in Req |-> IF c \in ended THEN NoCall ELSE call[c]]
  /\ signedOut' = IF StoresLater(ended) = {} THEN "clean" ELSE "raced"

\* What the page does when a call is over: the logout button's handler clears
\* the tokens whether or not the request succeeded.
CallEnds(c) ==
  IF call[c].kind = "logout"
  THEN ClearAndLeave(TabOf[c], {c}) /\ UNCHANGED refreshing
  ELSE /\ call' = [call EXCEPT ![c] = NoCall]
       /\ UNCHANGED <<page, cached, refreshing, store, signedOut>>

\* A call is answered with success, or an error that is thrown to the page:
\* anything but a first 401.
Answered(c) ==
  /\ call[c].at = "sent"
  /\ \/ srv[c].at = "failed"
     \/ srv[c].at = "ok" /\ call[c].kind # "login"
     \/ srv[c].at = "refused" /\ call[c].retry
  /\ CallEnds(c)
  /\ srv' = [srv EXCEPT ![c] = Idle]
  /\ UNCHANGED <<tokens, blacklist, expired, dead, reused, faults, clicks, raced>>

LoggedIn(c) ==
  /\ call[c].at = "sent"
  /\ call[c].kind = "login"
  /\ srv[c].at = "ok"
  /\ StorePair(TabOf[c], srv[c].tok)
  /\ page' = [page EXCEPT ![TabOf[c]] = "leaving"]
  /\ call' = [call EXCEPT ![c] = NoCall]
  /\ srv' = [srv EXCEPT ![c] = Idle]
  /\ signedOut' = "no"
  /\ UNCHANGED <<tokens, blacklist, expired, dead, reused, faults, clicks, refreshing, raced>>

\* Another tab has a refresh in progress: it read the same stored token.
RefreshingElsewhere(t) == \E u \in Tab \ {t} : refreshing[u] # NoReq

\* Mutant of SharesRefresh: every 401 starts a refresh of its own.
NeverShares(t) == FALSE

SharesRefresh(t) == refreshing[t] # NoReq

\* A first 401: wait for the page's refresh, or start it, or give up.
TryRefresh(c) ==
  LET t == TabOf[c] IN
  /\ call[c].at = "sent"
  /\ srv[c].at = "refused"
  /\ ~call[c].retry
  /\ IF SharesRefresh(t)
     THEN /\ call' = [call EXCEPT ![c].at = "sharing"]
          /\ srv' = [srv EXCEPT ![c] = Idle]
          /\ UNCHANGED <<page, cached, refreshing, store, raced, signedOut>>
     ELSE IF store.refresh = 0
     THEN /\ ClearAndLeave(t, {c})
          /\ srv' = [srv EXCEPT ![c] = Idle]
          /\ UNCHANGED <<refreshing, raced>>
     ELSE /\ call' = [call EXCEPT ![c].at = "refreshing"]
          /\ refreshing' = [refreshing EXCEPT ![t] = c]
          /\ srv' = [srv EXCEPT ![c] = Request("refresh", "find", store.refresh)]
          /\ raced' = (raced \/ RefreshingElsewhere(t))
          /\ UNCHANGED <<page, cached, store, signedOut>>
  /\ UNCHANGED <<tokens, blacklist, expired, dead, reused, faults, clicks>>

\* Mutant of Resumed: the calls that shared the refresh are forgotten.
OnlyOwner(c) == {c}

Resumed(c) == Waiting(TabOf[c])

\* The refresh succeeded: store the pair and repeat every waiting request.
RefreshDone(c) ==
  LET t == TabOf[c] IN
  /\ call[c].at = "refreshing"
  /\ srv[c].at = "ok"
  /\ StorePair(t, srv[c].tok)
  /\ refreshing' = [refreshing EXCEPT ![t] = NoReq]
  /\ call' = [d \in Req |-> IF d \in Resumed(c)
                            THEN [call[d] EXCEPT !.at = "sent", !.retry = TRUE] ELSE call[d]]
  /\ srv' = [d \in Req |-> IF d \in Resumed(c)
                           THEN Request(call[d].kind, "auth", srv[c].tok) ELSE srv[d]]
  /\ UNCHANGED <<tokens, blacklist, expired, dead, reused, faults, clicks, page, raced, signedOut>>

\* It did not: every waiting request clears the tokens and leaves the page.
RefreshFailed(c) ==
  LET t == TabOf[c] IN
  /\ call[c].at = "refreshing"
  /\ srv[c].at \in {"refused", "failed"}
  /\ ClearAndLeave(t, Resumed(c))
  /\ refreshing' = [refreshing EXCEPT ![t] = NoReq]
  /\ srv' = [srv EXCEPT ![c] = Idle]
  /\ UNCHANGED <<tokens, blacklist, expired, dead, reused, faults, clicks, raced>>

\* The network fails under a request; the server may go on with it.
AnswerLost(c) ==
  LET t == TabOf[c] IN
  /\ faults < MaxFaults
  /\ faults' = faults + 1
  /\ \/ /\ call[c].at = "sent"
        /\ CallEnds(c)
        /\ UNCHANGED raced
     \/ /\ call[c].at = "refreshing"
        /\ ClearAndLeave(t, Resumed(c))
        /\ refreshing' = [refreshing EXCEPT ![t] = NoReq]
        /\ raced' = TRUE
  /\ UNCHANGED <<tokens, blacklist, expired, srv, dead, reused, clicks>>

\* A page is loaded: the script's state is new, the calls of the old page are
\* not heard any more, and the guard or the login page looks at the token.
Load(t) ==
  /\ \/ page[t] = "leaving" /\ UNCHANGED clicks
     \/ page[t] = "app" /\ Click
     \/ page[t] = "login" /\ store.token # 0 /\ Click
  /\ page' = [page EXCEPT ![t] = IF store.token = 0 THEN "login" ELSE "app"]
  /\ cached' = [cached EXCEPT ![t] = 0]
  /\ refreshing' = [refreshing EXCEPT ![t] = NoReq]
  /\ call' = [c \in Req |-> IF TabOf[c] = t THEN NoCall ELSE call[c]]
  /\ raced' = (raced \/ refreshing[t] # NoReq)
  /\ UNCHANGED <<sessionVars, store, signedOut>>

Init ==
  /\ SessionsInit
  /\ page = [t \in Tab |-> "login"]
  /\ cached = [t \in Tab |-> 0]
  /\ refreshing = [t \in Tab |-> NoReq]
  /\ store = [token |-> 0, refresh |-> 0]
  /\ call = [c \in Req |-> NoCall]
  /\ raced = FALSE
  /\ clicks = 0
  /\ signedOut = "no"

Server(c) == ServerStep(c) /\ UNCHANGED tabVars
Expire == \E a \in Pair : ExpireAccess(a) /\ UNCHANGED tabVars

Next ==
  \/ \E c \in Req :
       \/ \E kind \in {"api", "logout"} : Send(c, kind)
       \/ SendLogin(c)
       \/ Answered(c)
       \/ LoggedIn(c)
       \/ TryRefresh(c)
       \/ RefreshDone(c)
       \/ RefreshFailed(c)
       \/ AnswerLost(c)
       \/ Server(c)
  \/ \E t \in Tab : Load(t)
  \/ Expire

Spec == Init /\ [][Next]_vars
-----------------------------------------------------------------------------
TypeOK ==
  /\ SessionsTypeOK
  /\ page \in [Tab -> {"login", "app", "leaving"}]
  /\ cached \in [Tab -> 0..MaxTokens]
  /\ refreshing \in [Tab -> Req \cup {NoReq}]
  /\ store \in [token : 0..MaxTokens, refresh : 0..MaxTokens]
  /\ call \in [Req -> [kind : {"api", "logout", "login"}, retry : BOOLEAN,
                       at : {"idle", "sent", "refreshing", "sharing"}]]
  /\ raced \in BOOLEAN
  /\ clicks \in 0..MaxClicks
  /\ signedOut \in {"no", "clean", "raced"}

\* A page never makes the server revoke its family by itself: a living family
\* is revoked for a reuse only if two tabs refreshed with the same stored
\* token, or a page was left or lost its connection while it refreshed.
\* _tryRefresh shares one refresh among all calls that met 401, and the new
\* refresh token is stored before the next can start (api.js:31-61).
NoReuseByAccident == reused => raced

\* Once the tokens are cleared, by a logout or a refused refresh, no tab has a
\* session again before the next login, unless a refresh or a login was in
\* progress at that moment, whose answer writes localStorage again.
LogoutSticks == signedOut = "clean" => store = [token |-> 0, refresh |-> 0]

\* A call that waits for a refresh waits for one that is in progress, so
\* every caller of _tryRefresh is resumed.
SharedRefreshIsRunning ==
  \A t \in Tab : Waiting(t) # {} =>
    refreshing[t] \in Waiting(t) /\ call[refreshing[t]].at = "refreshing"
=============================================================================
