------------------------------- MODULE Session -------------------------------
(***************************************************************************)
(* The customer's session on the phone: API calls in flight carry the      *)
(* access token, a 401 makes one of them refresh the pair while the others *)
(* wait in failedQueue, and the user module rotates the refresh token.     *)
(* JavaScript runs one callback at a time, so an action is the code        *)
(* between two awaits.  The app may be killed, an answer may come too      *)
(* late, tokens expire.                                                    *)
(***************************************************************************)
EXTENDS Naturals

CONSTANTS
    Calls,        \* API calls the app makes
    NoToken,
    MaxMishaps    \* bound on kills, late answers, expired tokens

ASSUME SessionAssumption == MaxMishaps \in Nat /\ NoToken \notin Nat

VARIABLES
    signedIn,      \* isAuthenticated of the store
    access,        \* the stored access token
    refresh,       \* the stored refresh token
    isRefreshing,
    apiCall,       \* where a call stands
    bearer,        \* the access token it carries
    retried,       \* its _retry mark
    stranded,      \* history: calls that queued while a refresh was given up
    post,          \* where the call's POST /auth/refresh stands, on the server
    posted,        \* the refresh token it carries
    issued,        \* the refresh token it was answered
    live,          \* refresh tokens that are stored, unrevoked and unexpired
    last,          \* the newest refresh token
    mishaps, blame \* blame: something happened that may end a session

storage     == <<signedIn, access, refresh>>
calls       == <<isRefreshing, apiCall, bearer, retried, stranded>>
server      == <<post, posted, issued, live, last>>
sessionVars == <<storage, calls, server, mishaps, blame>>

AccessTokens == {"fresh", "stale", "none"}
Settled      == {"ok", "failed"}

SessionTypeOK ==
    /\ signedIn \in BOOLEAN /\ isRefreshing \in BOOLEAN /\ blame \in BOOLEAN
    /\ access \in AccessTokens /\ bearer \in [Calls -> AccessTokens]
    /\ refresh \in Nat \cup {NoToken}
    /\ apiCall \in [Calls -> Settled \cup
          {"idle", "resent", "sent", "queued", "reading", "posting", "storing", "givingUp", "forbidden"}]
    /\ retried \in [Calls -> BOOLEAN] /\ stranded \subseteq Calls
    /\ post \in [Calls -> {"none", "sent", "verified", "granted", "refused"}]
    /\ posted \in [Calls -> Nat \cup {NoToken}] /\ issued \in [Calls -> Nat \cup {NoToken}]
    /\ live \subseteq 0..last /\ last \in Nat /\ mishaps \in 0..MaxMishaps

\* Signed in: verifyOtp has stored the first pair
SessionInit ==
    /\ signedIn = TRUE /\ access = "fresh" /\ refresh = 0
    /\ isRefreshing = FALSE
    /\ apiCall = [c \in Calls |-> "idle"]
    /\ bearer = [c \in Calls |-> "none"]
    /\ retried = [c \in Calls |-> FALSE]
    /\ stranded = {}
    /\ post = [c \in Calls |-> "none"]
    /\ posted = [c \in Calls |-> NoToken]
    /\ issued = [c \in Calls |-> NoToken]
    /\ live = {0} /\ last = 0
    /\ mishaps = 0 /\ blame = FALSE

MoveCall(c, to) == apiCall' = [apiCall EXCEPT ![c] = to]
Mishap     == mishaps < MaxMishaps /\ mishaps' = mishaps + 1
Waiting    == {c \in Calls : apiCall[c] = "queued"}

\* Mutant of ProcessQueue: a failed refresh leaves the queue alone
ProcessQueueOnSuccess(outcome, c, to) ==
    /\ apiCall' = [d \in Calls |-> IF d = c THEN to
                                ELSE IF d \in Waiting /\ outcome = "resent" THEN outcome ELSE apiCall[d]]
    /\ stranded' = stranded \ Waiting

\* The calls in failedQueue go on, or are rejected
ProcessQueue(outcome, c, to) ==
    /\ apiCall' = [d \in Calls |-> IF d = c THEN to ELSE IF d \in Waiting THEN outcome ELSE apiCall[d]]
    /\ stranded' = stranded \ Waiting

-----------------------------------------------------------------------------
\* The request interceptor
AttachToken(c) ==
    /\ apiCall[c] = "resent" \/ (apiCall[c] = "idle" /\ signedIn)
    /\ bearer' = [bearer EXCEPT ![c] = access] /\ MoveCall(c, "sent")
    /\ UNCHANGED <<storage, isRefreshing, retried, stranded, server, mishaps, blame>>

\* No answer is an error without a response
Answered(c) ==
    /\ apiCall[c] = "sent"
    /\ \/ bearer[c] = "fresh" /\ MoveCall(c, "ok")
       \/ MoveCall(c, "failed")
    /\ UNCHANGED <<storage, isRefreshing, bearer, retried, stranded, server, mishaps, blame>>

Forbidden(c) ==
    /\ apiCall[c] = "sent" /\ bearer[c] = "fresh"
    /\ MoveCall(c, "forbidden") /\ blame' = TRUE
    /\ UNCHANGED <<storage, isRefreshing, bearer, retried, stranded, server, mishaps>>

\* Mutant of Unauthorized: every call refreshes for itself
UnauthorizedAlone(c) ==
    /\ apiCall[c] = "sent" /\ bearer[c] # "fresh"
    /\ IF retried[c]
       THEN MoveCall(c, "failed") /\ UNCHANGED <<isRefreshing, retried, stranded>>
       ELSE /\ MoveCall(c, "reading") /\ isRefreshing' = TRUE
            /\ retried' = [retried EXCEPT ![c] = TRUE] /\ UNCHANGED stranded
    /\ UNCHANGED <<storage, bearer, server, mishaps, blame>>

\* A 401: the first one refreshes, the others wait for it
Unauthorized(c) ==
    /\ apiCall[c] = "sent" /\ bearer[c] # "fresh"
    /\ CASE retried[c] -> MoveCall(c, "failed") /\ UNCHANGED <<isRefreshing, retried, stranded>>
         [] ~retried[c] /\ isRefreshing ->
               /\ MoveCall(c, "queued") /\ UNCHANGED <<isRefreshing, retried>>
               /\ stranded' = IF \E d \in Calls : apiCall[d] = "givingUp" THEN stranded \cup {c} ELSE stranded
         [] ~retried[c] /\ ~isRefreshing ->
               /\ MoveCall(c, "reading") /\ isRefreshing' = TRUE
               /\ retried' = [retried EXCEPT ![c] = TRUE] /\ UNCHANGED stranded
    /\ UNCHANGED <<storage, bearer, server, mishaps, blame>>

-----------------------------------------------------------------------------
\* refreshAccessToken and what follows it
ReadRefreshToken(c) ==
    /\ apiCall[c] = "reading"
    /\ IF refresh = NoToken
       THEN ProcessQueue("failed", c, "givingUp") /\ UNCHANGED <<post, posted>>
       ELSE /\ MoveCall(c, "posting") /\ UNCHANGED stranded
            /\ post' = [post EXCEPT ![c] = "sent"]
            /\ posted' = [posted EXCEPT ![c] = refresh]
    /\ UNCHANGED <<storage, isRefreshing, bearer, retried, issued, live, last, mishaps, blame>>

StoreAccessToken(c) ==
    /\ apiCall[c] = "posting" /\ post[c] = "granted"
    /\ access' = "fresh" /\ MoveCall(c, "storing")
    /\ UNCHANGED <<signedIn, refresh, isRefreshing, bearer, retried, stranded, server, mishaps, blame>>

\* finally runs as soon as the call is sent again
StoreRefreshToken(c) ==
    /\ apiCall[c] = "storing"
    /\ refresh' = issued[c] /\ isRefreshing' = FALSE
    /\ ProcessQueue("resent", c, "resent")
    /\ UNCHANGED <<signedIn, access, bearer, retried, server, mishaps, blame>>

\* Refused, or the answer takes longer than API_TIMEOUT
RefreshFails(c) ==
    /\ apiCall[c] = "posting"
    /\ \/ post[c] = "refused" /\ UNCHANGED <<mishaps, blame>>
       \/ Mishap /\ blame' = TRUE
    /\ ProcessQueue("failed", c, "givingUp")
    /\ UNCHANGED <<storage, isRefreshing, bearer, retried, server>>

SignOut == signedIn' = FALSE /\ access' = "none" /\ refresh' = NoToken

\* logout is awaited before isRefreshing is reset; a 403 resets nothing
LogOut(c) ==
    /\ apiCall[c] \in {"givingUp", "forbidden"}
    /\ SignOut /\ MoveCall(c, "failed")
    /\ isRefreshing' = (isRefreshing /\ apiCall[c] = "forbidden")
    /\ UNCHANGED <<bearer, retried, stranded, server, mishaps, blame>>

\* The profile screen; the user module revokes no refresh token, none is sent
UserLogsOut ==
    /\ signedIn /\ SignOut /\ blame' = TRUE
    /\ UNCHANGED <<calls, server, mishaps>>

\* Memory is gone, bootstrap reads the storage
KillApp ==
    /\ Mishap
    /\ blame' = (blame \/ \E c \in Calls : apiCall[c] \in {"posting", "storing"})
    /\ signedIn' = (access # "none" /\ refresh # NoToken)
    /\ isRefreshing' = FALSE /\ stranded' = {}
    /\ apiCall' = [c \in Calls |-> IF apiCall[c] = "idle" THEN "idle" ELSE IF apiCall[c] = "ok" THEN "ok" ELSE "failed"]
    /\ UNCHANGED <<access, refresh, bearer, retried, server>>

-----------------------------------------------------------------------------
\* The user module, behind the proxy: refreshTokens reads, then rotates
VerifyRefreshToken(c) ==
    /\ post[c] = "sent"
    /\ post' = [post EXCEPT ![c] = IF posted[c] \in live THEN "verified" ELSE "refused"]
    /\ UNCHANGED <<storage, calls, posted, issued, live, last, mishaps, blame>>

RotateRefreshToken(c) ==
    /\ post[c] = "verified"
    /\ live' = (live \ {posted[c]}) \cup {last + 1} /\ last' = last + 1
    /\ issued' = [issued EXCEPT ![c] = last + 1]
    /\ post' = [post EXCEPT ![c] = "granted"]
    /\ UNCHANGED <<storage, calls, posted, mishaps, blame>>

\* Fifteen minutes, and seven days
AccessExpires ==
    /\ "fresh" \in {access} \cup {bearer[c] : c \in Calls}
    /\ access' = IF access = "fresh" THEN "stale" ELSE access
    /\ bearer' = [c \in Calls |-> IF bearer[c] = "fresh" THEN "stale" ELSE bearer[c]]
    /\ UNCHANGED <<signedIn, refresh, isRefreshing, apiCall, retried, stranded, server, mishaps, blame>>

RefreshExpires ==
    /\ Mishap /\ live # {} /\ live' = {} /\ blame' = TRUE
    /\ UNCHANGED <<storage, calls, post, posted, issued, last>>

-----------------------------------------------------------------------------
CallSteps(c) ==
    \/ AttachToken(c) \/ Answered(c) \/ Unauthorized(c) \/ ReadRefreshToken(c)
    \/ StoreAccessToken(c) \/ StoreRefreshToken(c) \/ RefreshFails(c) \/ LogOut(c)

ServerSteps(c) == VerifyRefreshToken(c) \/ RotateRefreshToken(c)

SessionNext ==
    \/ \E c \in Calls : CallSteps(c) \/ Forbidden(c) \/ ServerSteps(c)
    \/ UserLogsOut \/ KillApp \/ AccessExpires \/ RefreshExpires

SessionSpec == SessionInit /\ [][SessionNext]_sessionVars

-----------------------------------------------------------------------------
\* A session ends when the user ends it, a 403 does, or something went wrong:
\* calls that meet an expired access token side by side never end it, because
\* one of them refreshes and no token is presented twice.
SessionKept == signedIn \/ blame

\* Every call the app makes is answered or rejected, but for those that queued
\* while a failed refresh was logging the user out: nobody resolves them.
EveryCallSettles ==
    \A c \in Calls : apiCall[c] = "sent" ~> (apiCall[c] \in Settled \/ c \in stranded)
=============================================================================
