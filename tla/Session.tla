------------------------------ MODULE Session ------------------------------
(***************************************************************************)
(* The session of one user in the tabs of one browser, which share          *)
(* localStorage: src/frontend/src/api/axios.instance.ts, stores/auth.store  *)
(* and router/index.ts, with signIn, refreshTokens and logout of            *)
(* src/backend/src/modules/auth/auth.service.ts.  The two tokens that are   *)
(* issued together are named by the second in which that was: two pairs of  *)
(* one second are the same.                                                 *)
(***************************************************************************)
EXTENDS Integers, FiniteSets

CONSTANTS
    Tabs, Calls,              \* the tabs, and the calls each can have under way
    AccessLife, RefreshLife,  \* JWT_ACCESS_EXPIRATION, JWT_REFRESH_EXPIRATION
    MaxClock, MaxCalls,       \* bounds: seconds, calls under way in all tabs,
    MaxAbandoned              \* requests that go on without their tab

VARIABLES
    clock,       \* seconds
    hash,        \* users.refreshToken
    storage,     \* the tokens in localStorage
    calls,       \* the calls of a tab through axiosInstance
    refresh,     \* the refresh of a tab: isRefreshing, and where it stands
    signIn,      \* the sign in of a tab: not there, sent, or the tokens it gave
    abandoned,   \* the refreshes, sign ins and log outs that no tab waits for any more
                 \* and that the server may still finish
    raced,       \* history: refresh, log out and sign in overlapped in two tabs,
                 \* the session was taken over elsewhere, or a page was left in one
    thrown,      \* history: a refresh failed though its token had not expired
    broken,      \* history: a refresh, sign in or log out failed and was not refused
    loggedOut    \* history: the user logged out, and did not sign in again

sessionVars ==
    <<clock, hash, storage, calls, refresh, signIn, abandoned, raced, thrown, broken, loggedOut>>

NoToken == 0
NoCall  == [pc |-> "idle", token |-> NoToken, retry |-> FALSE, logout |-> FALSE]
NoSignIn == 0 - 1
Sent == 0
NoRefresh == [pc |-> "idle", token |-> NoToken, for |-> NoToken]

SessionInit ==
    /\ clock = 1 /\ hash = 1 /\ storage = 1
    /\ calls = [t \in Tabs |-> [c \in Calls |-> NoCall]]
    /\ refresh = [t \in Tabs |-> NoRefresh]
    /\ signIn = [t \in Tabs |-> NoSignIn] /\ abandoned = {}
    /\ raced = FALSE /\ thrown = FALSE /\ broken = FALSE /\ loggedOut = FALSE

LoggingOut(t) == \E c \in Calls : calls[t][c].logout

\* What changes the session, other than the refresh of tab t for its call c.
OthersUnderway(t, c) ==
    \/ \E u \in Tabs \ {t} : refresh[u] # NoRefresh
    \/ \E u \in Tabs, d \in Calls : calls[u][d].logout /\ <<u, d>> # <<t, c>>
    \/ \E u \in Tabs : signIn[u] # NoSignIn

Tick ==
    /\ clock < MaxClock
    /\ clock' = clock + 1
    /\ UNCHANGED <<hash, storage, calls, refresh, signIn, abandoned, raced, thrown, broken,
                   loggedOut>>

\* Requests go on without the tab; they do not, as when the server stops, if there
\* are too many.
Abandon(requests) ==
    abandoned' = abandoned \cup {r \in requests : Cardinality(abandoned) < MaxAbandoned}

RefreshOf(t) == {r \in {refresh[t]} : r.pc \in {"sent", "update"}}

SignInOf(t) ==
    {[pc |-> "signIn", token |-> NoToken, for |-> NoToken] : sent \in {signIn[t]} \cap {Sent}}

LogoutOf(t, c) ==
    {[pc |-> "logout", token |-> call.token, for |-> NoToken] :
        call \in {d \in {calls[t][c]} : d.logout /\ d.pc = "sent"}}

SetCall(t, c, call) == calls' = [calls EXCEPT ![t][c] = call]

-----------------------------------------------------------------------------
\* A call, with the token that localStorage has when it is sent.

Send(t, c, logout) ==
    /\ calls[t][c] = NoCall /\ signIn[t] = NoSignIn
    /\ Cardinality({p \in Tabs \X Calls : calls[p[1]][p[2]] # NoCall}) < MaxCalls
    /\ logout => storage # NoToken /\ ~LoggingOut(t)
    /\ SetCall(t, c, [pc |-> "sent", token |-> storage, retry |-> FALSE, logout |-> logout])
    /\ raced' = (raced \/ (logout /\ (refresh[t] # NoRefresh \/ OthersUnderway(t, c))))
    /\ UNCHANGED <<clock, hash, storage, refresh, signIn, abandoned, thrown, broken, loggedOut>>

\* AccessTokenGuard with JwtStrategy: is the token there, and has it not expired.
AccessTokenGuard(token) == token # NoToken /\ clock < token + AccessLife

\* The server answers a call; logout() forgets the refresh token.
Serve(t, c) ==
    LET call == calls[t][c]
        allowed == AccessTokenGuard(call.token)
    IN
    /\ call.pc = "sent"
    /\ SetCall(t, c, [call EXCEPT !.pc = IF allowed THEN "ok" ELSE "401"])
    /\ hash' = IF allowed /\ call.logout THEN NoToken ELSE hash
    /\ UNCHANGED <<clock, storage, refresh, signIn, abandoned, raced, thrown, broken, loggedOut>>

\* A logout that is over, however it went: auth.store forgets the tokens.
Settle(t, c) ==
    /\ SetCall(t, c, NoCall)
    /\ IF calls[t][c].logout
       THEN storage' = NoToken /\ loggedOut' = TRUE
       ELSE UNCHANGED <<storage, loggedOut>>
    /\ Abandon(LogoutOf(t, c))
    /\ broken' = (broken \/ LogoutOf(t, c) # {})
    /\ UNCHANGED <<clock, hash, refresh, signIn, raced, thrown>>

Answered(t, c) == calls[t][c].pc = "ok" /\ Settle(t, c)

\* The interceptor rejects a second 401, and every answer that is no 401 but an
\* error: here, that the connection broke.
Rejected(t, c) ==
    /\ \/ calls[t][c].pc = "401" /\ calls[t][c].retry
       \/ calls[t][c].pc \in {"sent", "ok"}
    /\ Settle(t, c)

\* The tab goes to /login, which loads the page anew.
ToLogin(t) ==
    /\ storage' = NoToken
    /\ calls' = [calls EXCEPT ![t] = [c \in Calls |-> NoCall]]
    /\ refresh' = [refresh EXCEPT ![t] = NoRefresh]
    /\ loggedOut' = (loggedOut \/ LoggingOut(t))

\* Mutant: whether a refresh is under way is not looked at.
AlwaysFree(t) == TRUE

NotRefreshing(t) == refresh[t] = NoRefresh

Queue(t, c) ==
    /\ calls[t][c].pc = "401" /\ ~calls[t][c].retry /\ ~NotRefreshing(t)
    /\ SetCall(t, c, [calls[t][c] EXCEPT !.pc = "queued"])
    /\ UNCHANGED <<clock, hash, storage, refresh, signIn, abandoned, raced, thrown, broken,
                   loggedOut>>

StartRefresh(t, c) ==
    /\ calls[t][c].pc = "401" /\ ~calls[t][c].retry /\ NotRefreshing(t)
    /\ \/ /\ storage = NoToken
          /\ ToLogin(t)
          /\ UNCHANGED raced
       \/ /\ storage # NoToken
          /\ SetCall(t, c, [calls[t][c] EXCEPT !.pc = "refreshing", !.retry = TRUE])
          /\ refresh' = [refresh EXCEPT ![t] = [pc |-> "sent", token |-> storage, for |-> NoToken]]
          /\ raced' = (raced \/ OthersUnderway(t, c))
          /\ UNCHANGED <<storage, loggedOut>>
    /\ UNCHANGED <<clock, hash, signIn, abandoned, thrown, broken>>

-----------------------------------------------------------------------------
\* refreshTokens of the server: the check and the new
\* tokens, then the UPDATE of the hash.

Expired(r) == clock >= r.token + RefreshLife

Allowed(r) == ~Expired(r) /\ hash = r.token

Checked(r) == [r EXCEPT !.pc = IF Allowed(r) THEN "update" ELSE "denied",
                        !.for = IF Allowed(r) THEN clock ELSE NoToken]

CheckRefresh(t) ==
    /\ refresh[t].pc = "sent"
    /\ refresh' = [refresh EXCEPT ![t] = Checked(refresh[t])]
    /\ thrown' = (thrown \/ ~(Allowed(refresh[t]) \/ Expired(refresh[t])))
    /\ UNCHANGED <<clock, hash, storage, calls, signIn, abandoned, raced, broken, loggedOut>>

UpdateHash(t) ==
    /\ refresh[t].pc = "update"
    /\ hash' = refresh[t].for
    /\ refresh' = [refresh EXCEPT ![t].pc = "done"]
    /\ UNCHANGED <<clock, storage, calls, signIn, abandoned, raced, thrown, broken, loggedOut>>

\* The server goes on with a request that nobody waits for, or never does.
LateRequest(r) ==
    /\ \/ /\ r.pc = "sent" /\ Allowed(r)
          /\ abandoned' = (abandoned \ {r}) \cup {Checked(r)}
          /\ UNCHANGED hash
       \/ /\ abandoned' = abandoned \ {r}
          /\ \/ r.pc = "update" /\ hash' = r.for
             \/ r.pc = "signIn" /\ hash' = clock
             \/ r.pc = "logout" /\ AccessTokenGuard(r.token) /\ hash' = NoToken
             \/ UNCHANGED hash
    /\ UNCHANGED <<clock, storage, calls, refresh, signIn, raced, thrown, broken, loggedOut>>

\* Mutant: those that wait are forgotten.
ResendFirst(t, token) ==
    [c \in Calls |-> IF calls[t][c].pc = "refreshing"
                     THEN [calls[t][c] EXCEPT !.pc = "sent", !.token = token]
                     ELSE calls[t][c]]

\* processQueue: what waited is sent again, like the call that began it.
Resend(t, token) ==
    [c \in Calls |-> IF calls[t][c].pc \in {"refreshing", "queued"}
                     THEN [calls[t][c] EXCEPT !.pc = "sent", !.token = token]
                     ELSE calls[t][c]]

Refreshed(t) ==
    /\ refresh[t].pc = "done"
    /\ storage' = refresh[t].for
    /\ calls' = [calls EXCEPT ![t] = Resend(t, refresh[t].for)]
    /\ refresh' = [refresh EXCEPT ![t] = NoRefresh]
    /\ UNCHANGED <<clock, hash, signIn, abandoned, raced, thrown, broken, loggedOut>>

\* The POST is refused, or fails in whatever other way at whatever moment: the
\* network, a 5xx, a stop of the server.  The page makes no difference.
RefreshFailed(t) ==
    /\ refresh[t] # NoRefresh
    /\ ToLogin(t) /\ Abandon(RefreshOf(t))
    /\ broken' = (broken \/ refresh[t].pc # "denied")
    /\ thrown' = (thrown \/ (refresh[t].pc # "denied" /\ ~Expired(refresh[t])))
    /\ UNCHANGED <<clock, hash, signIn, raced>>

-----------------------------------------------------------------------------
\* Sign in, and the pages

\* The guard of the router lets a user without a token only see /login.
AtLogin == storage = NoToken

\* A session that begins while nothing goes on from before is as good as the first.
SignIn(t) ==
    /\ AtLogin /\ signIn[t] = NoSignIn
    /\ signIn' = [signIn EXCEPT ![t] = Sent]
    /\ raced' = (raced \/ \E u \in Tabs : \/ refresh[u] # NoRefresh \/ LoggingOut(u)
                                          \/ signIn[u] # NoSignIn)
    /\ broken' = (broken /\ abandoned # {}) /\ thrown' = (thrown /\ abandoned # {})
    /\ UNCHANGED <<clock, hash, storage, calls, refresh, abandoned, loggedOut>>

\* signIn of the server, the password being right and the address verified.
ServeSignIn(t) ==
    /\ signIn[t] = Sent
    /\ signIn' = [signIn EXCEPT ![t] = clock]
    /\ hash' = clock
    /\ UNCHANGED <<clock, storage, calls, refresh, abandoned, raced, thrown, broken, loggedOut>>

SignedIn(t) ==
    /\ signIn[t] > Sent
    /\ storage' = signIn[t] /\ loggedOut' = FALSE
    /\ signIn' = [signIn EXCEPT ![t] = NoSignIn]
    /\ UNCHANGED <<clock, hash, calls, refresh, abandoned, raced, thrown, broken>>

\* It is refused, or its request fails in another way.
SignInFailed(t) ==
    /\ signIn[t] # NoSignIn
    /\ signIn' = [signIn EXCEPT ![t] = NoSignIn]
    /\ \/ UNCHANGED <<abandoned, broken>>
       \/ Abandon(SignInOf(t)) /\ broken' = (broken \/ SignInOf(t) # {})
    /\ UNCHANGED <<clock, hash, storage, calls, refresh, raced, thrown, loggedOut>>

\* The tab is loaded anew: it hears no answer, also not that to its refresh.
ReloadTab(t) ==
    /\ calls' = [calls EXCEPT ![t] = [c \in Calls |-> NoCall]]
    /\ refresh' = [refresh EXCEPT ![t] = NoRefresh]
    /\ signIn' = [signIn EXCEPT ![t] = NoSignIn]
    /\ Abandon(RefreshOf(t) \cup SignInOf(t) \cup UNION {LogoutOf(t, c) : c \in Calls})
    /\ raced' = (raced \/ refresh[t] # NoRefresh \/ LoggingOut(t) \/ signIn[t] = Sent)
    /\ UNCHANGED <<clock, hash, storage, thrown, broken, loggedOut>>

\* The user signs in or out in another browser: there is one hash for all.
Elsewhere ==
    /\ hash' \in {clock, NoToken} /\ raced' = TRUE
    /\ UNCHANGED <<clock, storage, calls, refresh, signIn, abandoned, thrown, broken, loggedOut>>

SessionNext ==
    \/ Tick \/ Elsewhere \/ \E r \in abandoned : LateRequest(r)
    \/ \E t \in Tabs, c \in Calls :
          \/ \E logout \in BOOLEAN : Send(t, c, logout)
          \/ Serve(t, c) \/ Answered(t, c) \/ Rejected(t, c)
          \/ Queue(t, c) \/ StartRefresh(t, c)
    \/ \E t \in Tabs :
          \/ CheckRefresh(t) \/ UpdateHash(t) \/ Refreshed(t) \/ RefreshFailed(t)
          \/ SignIn(t) \/ ServeSignIn(t) \/ SignedIn(t) \/ SignInFailed(t) \/ ReloadTab(t)

SessionSpec == SessionInit /\ [][SessionNext]_sessionVars

-----------------------------------------------------------------------------
\* Properties

\* However many calls of a tab find their token expired at once, the session
\* ends by itself only when its refresh token has expired, or because a request
\* failed without being refused: that for new tokens, or an earlier one that the
\* server finished late.  After a log out, even one that failed, no token is left.
\* Both fail when refreshes, log outs and sign ins of two tabs or browsers overlap,
\* or a page is left during one.
SessionKept ==
    ~raced => (thrown => broken) /\ (loggedOut => storage = NoToken)

\* A call that waits for the tokens waits for a refresh that is under way.
NoCallStranded ==
    \A t \in Tabs : (\E c \in Calls : calls[t][c].pc \in {"queued", "refreshing"}) =>
        refresh[t] # NoRefresh

=============================================================================
