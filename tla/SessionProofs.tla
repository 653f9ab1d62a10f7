---------------------------- MODULE SessionProofs ----------------------------
(***************************************************************************)
(* A session ends only for a reason, for every set of calls and any number *)
(* of mishaps.                                                             *)
(***************************************************************************)
EXTENDS Session, TLAPS

Refreshing == {"reading", "posting", "storing"}

\* One call refreshes at a time, and none has given up
OneRefresher ==
    \A c \in Calls :
        /\ apiCall[c] \notin {"givingUp", "forbidden"}
        /\ apiCall[c] \in Refreshing => isRefreshing /\ \A d \in Calls \ {c} : apiCall[d] \notin Refreshing

\* Only the call that refreshes has an unanswered request at the server
OnePost == \A c \in Calls : post[c] \in {"sent", "verified"} => apiCall[c] = "posting"

\* The refresh token is live, or its successor is on the way
TokenIsLive ==
    /\ access # "none" /\ refresh # NoToken
    /\ (\A c \in Calls : apiCall[c] \notin {"posting", "storing"}) => refresh \in live
    /\ \A c \in Calls :
        /\ apiCall[c] = "posting" =>
              \/ post[c] \in {"sent", "verified"} /\ posted[c] = refresh /\ refresh \in live
              \/ post[c] = "granted" /\ issued[c] \in live
        /\ apiCall[c] = "storing" => issued[c] \in live

SessionInv ==
    /\ SessionTypeOK
    /\ SessionKept
    /\ ~ blame => OneRefresher /\ OnePost /\ TokenIsLive
-----------------------------------------------------------------------------
LEMMA InitSessionInv == SessionInit => SessionInv
<1> SUFFICES ASSUME SessionInit PROVE SessionInv
  OBVIOUS
<1>1. SessionTypeOK
  <2>1. mishaps \in 0..MaxMishaps /\ last \in Nat /\ live \subseteq 0..last
    BY SessionAssumption DEF SessionInit, SessionAssumption
  <2>2. signedIn \in BOOLEAN /\ isRefreshing \in BOOLEAN /\ blame \in BOOLEAN
    BY DEF SessionInit
  <2>3. retried \in [Calls -> BOOLEAN]
    BY DEF SessionInit
  <2> QED
    BY <2>1, <2>2, <2>3 DEF SessionInit, SessionTypeOK, AccessTokens, Settled
<1>2. SessionKept
  BY DEF SessionInit, SessionKept
<1>3. OneRefresher /\ OnePost /\ TokenIsLive
  BY SessionAssumption DEF SessionInit, OneRefresher, OnePost, TokenIsLive, Refreshing, SessionAssumption
<1> QED
  BY <1>1, <1>2, <1>3 DEF SessionInv

-----------------------------------------------------------------------------
\* The interceptors
LEMMA AttachStep ==
    ASSUME SessionInv, NEW c \in Calls, AttachToken(c)
    PROVE  SessionInv'
<1> USE SessionAssumption DEF SessionAssumption, SessionInv, storage, calls, server, MoveCall, Mishap, Waiting
<1>1. SessionTypeOK'
  <2>1. /\ signedIn' \in BOOLEAN /\ isRefreshing' \in BOOLEAN /\ blame' \in BOOLEAN
        /\ retried' \in [Calls -> BOOLEAN]
    BY DEF AttachToken, SessionTypeOK
  <2>2. apiCall' \in [Calls -> Settled \cup
          {"idle", "resent", "sent", "queued", "reading", "posting", "storing", "givingUp", "forbidden"}]
    BY DEF AttachToken, SessionTypeOK, Settled
  <2>3. access' \in AccessTokens /\ bearer' \in [Calls -> AccessTokens] /\ stranded' \subseteq Calls
    BY DEF AttachToken, SessionTypeOK, AccessTokens
  <2>4. post' \in [Calls -> {"none", "sent", "verified", "granted", "refused"}]
    BY DEF AttachToken, SessionTypeOK
  <2>5. /\ refresh' \in Nat \cup {NoToken}
        /\ posted' \in [Calls -> Nat \cup {NoToken}] /\ issued' \in [Calls -> Nat \cup {NoToken}]
    BY DEF AttachToken, SessionTypeOK
  <2>6. live' \subseteq 0..last' /\ last' \in Nat /\ mishaps' \in 0..MaxMishaps
    BY DEF AttachToken, SessionTypeOK
  <2> QED
    BY <2>1, <2>2, <2>3, <2>4, <2>5, <2>6 DEF SessionTypeOK
<1>2. SessionKept'
  BY DEF AttachToken, SessionTypeOK, SessionKept, OneRefresher, TokenIsLive
<1>3. ASSUME ~ blame' PROVE OneRefresher'
  BY <1>3 DEF AttachToken, SessionTypeOK, OneRefresher, OnePost, TokenIsLive, Refreshing, Settled
<1>4. ASSUME ~ blame' PROVE OnePost'
  BY <1>4 DEF AttachToken, SessionTypeOK, OneRefresher, OnePost, TokenIsLive, Refreshing
<1>5. ASSUME ~ blame' PROVE TokenIsLive'
  BY <1>5 DEF AttachToken, SessionTypeOK, OneRefresher, OnePost, TokenIsLive, Refreshing
<1> QED
  BY <1>1, <1>2, <1>3, <1>4, <1>5

LEMMA AnsweredStep ==
    ASSUME SessionInv, NEW c \in Calls, Answered(c)
    PROVE  SessionInv'
<1> USE SessionAssumption DEF SessionAssumption, SessionInv, storage, calls, server, MoveCall, Mishap, Waiting
<1>1. SessionTypeOK'
  <2>1. /\ signedIn' \in BOOLEAN /\ isRefreshing' \in BOOLEAN /\ blame' \in BOOLEAN
        /\ retried' \in [Calls -> BOOLEAN]
    BY DEF Answered, SessionTypeOK
  <2>2. apiCall' \in [Calls -> Settled \cup
          {"idle", "resent", "sent", "queued", "reading", "posting", "storing", "givingUp", "forbidden"}]
    BY DEF Answered, SessionTypeOK, Settled
  <2>3. access' \in AccessTokens /\ bearer' \in [Calls -> AccessTokens] /\ stranded' \subseteq Calls
    BY DEF Answered, SessionTypeOK, AccessTokens
  <2>4. post' \in [Calls -> {"none", "sent", "verified", "granted", "refused"}]
    BY DEF Answered, SessionTypeOK
  <2>5. /\ refresh' \in Nat \cup {NoToken}
        /\ posted' \in [Calls -> Nat \cup {NoToken}] /\ issued' \in [Calls -> Nat \cup {NoToken}]
    BY DEF Answered, SessionTypeOK
  <2>6. live' \subseteq 0..last' /\ last' \in Nat /\ mishaps' \in 0..MaxMishaps
    BY DEF Answered, SessionTypeOK
  <2> QED
    BY <2>1, <2>2, <2>3, <2>4, <2>5, <2>6 DEF SessionTypeOK
<1>2. SessionKept'
  BY DEF Answered, SessionTypeOK, SessionKept, OneRefresher, TokenIsLive
<1>3. ASSUME ~ blame' PROVE OneRefresher'
  BY <1>3 DEF Answered, SessionTypeOK, OneRefresher, OnePost, TokenIsLive, Refreshing, Settled
<1>4. ASSUME ~ blame' PROVE OnePost'
  BY <1>4 DEF Answered, SessionTypeOK, OneRefresher, OnePost, TokenIsLive, Refreshing
<1>5. ASSUME ~ blame' PROVE TokenIsLive'
  BY <1>5 DEF Answered, SessionTypeOK, OneRefresher, OnePost, TokenIsLive, Refreshing
<1> QED
  BY <1>1, <1>2, <1>3, <1>4, <1>5

LEMMA ForbiddenStep ==
    ASSUME SessionInv, NEW c \in Calls, Forbidden(c)
    PROVE  SessionInv'
<1> USE SessionAssumption DEF SessionAssumption, SessionInv, storage, calls, server, MoveCall, Mishap, Waiting
<1>1. SessionTypeOK'
  <2>1. /\ signedIn' \in BOOLEAN /\ isRefreshing' \in BOOLEAN /\ blame' \in BOOLEAN
        /\ retried' \in [Calls -> BOOLEAN]
    BY DEF Forbidden, SessionTypeOK
  <2>2. apiCall' \in [Calls -> Settled \cup
          {"idle", "resent", "sent", "queued", "reading", "posting", "storing", "givingUp", "forbidden"}]
    BY DEF Forbidden, SessionTypeOK, Settled
  <2>3. access' \in AccessTokens /\ bearer' \in [Calls -> AccessTokens] /\ stranded' \subseteq Calls
    BY DEF Forbidden, SessionTypeOK, AccessTokens
  <2>4. post' \in [Calls -> {"none", "sent", "verified", "granted", "refused"}]
    BY DEF Forbidden, SessionTypeOK
  <2>5. /\ refresh' \in Nat \cup {NoToken}
        /\ posted' \in [Calls -> Nat \cup {NoToken}] /\ issued' \in [Calls -> Nat \cup {NoToken}]
    BY DEF Forbidden, SessionTypeOK
  <2>6. live' \subseteq 0..last' /\ last' \in Nat /\ mishaps' \in 0..MaxMishaps
    BY DEF Forbidden, SessionTypeOK
  <2> QED
    BY <2>1, <2>2, <2>3, <2>4, <2>5, <2>6 DEF SessionTypeOK
<1>2. SessionKept'
  BY DEF Forbidden, SessionTypeOK, SessionKept, OneRefresher, TokenIsLive
<1>3. ASSUME ~ blame' PROVE OneRefresher'
  BY <1>3 DEF Forbidden, SessionTypeOK, OneRefresher, OnePost, TokenIsLive, Refreshing, Settled
<1>4. ASSUME ~ blame' PROVE OnePost'
  BY <1>4 DEF Forbidden, SessionTypeOK, OneRefresher, OnePost, TokenIsLive, Refreshing
<1>5. ASSUME ~ blame' PROVE TokenIsLive'
  BY <1>5 DEF Forbidden, SessionTypeOK, OneRefresher, OnePost, TokenIsLive, Refreshing
<1> QED
  BY <1>1, <1>2, <1>3, <1>4, <1>5

LEMMA UnauthorizedStep ==
    ASSUME SessionInv, NEW c \in Calls, Unauthorized(c)
    PROVE  SessionInv'
<1> USE SessionAssumption DEF SessionAssumption, SessionInv, storage, calls, server, MoveCall, Mishap, Waiting
<1>1. SessionTypeOK'
  <2>1. /\ signedIn' \in BOOLEAN /\ isRefreshing' \in BOOLEAN /\ blame' \in BOOLEAN
        /\ retried' \in [Calls -> BOOLEAN]
    BY DEF Unauthorized, SessionTypeOK
  <2>2. apiCall' \in [Calls -> Settled \cup
          {"idle", "resent", "sent", "queued", "reading", "posting", "storing", "givingUp", "forbidden"}]
    BY DEF Unauthorized, SessionTypeOK, Settled
  <2>3. access' \in AccessTokens /\ bearer' \in [Calls -> AccessTokens] /\ stranded' \subseteq Calls
    BY DEF Unauthorized, SessionTypeOK, AccessTokens
  <2>4. post' \in [Calls -> {"none", "sent", "verified", "granted", "refused"}]
    BY DEF Unauthorized, SessionTypeOK
  <2>5. /\ refresh' \in Nat \cup {NoToken}
        /\ posted' \in [Calls -> Nat \cup {NoToken}] /\ issued' \in [Calls -> Nat \cup {NoToken}]
    BY DEF Unauthorized, SessionTypeOK
  <2>6. live' \subseteq 0..last' /\ last' \in Nat /\ mishaps' \in 0..MaxMishaps
    BY DEF Unauthorized, SessionTypeOK
  <2> QED
    BY <2>1, <2>2, <2>3, <2>4, <2>5, <2>6 DEF SessionTypeOK
<1>2. SessionKept'
  BY DEF Unauthorized, SessionTypeOK, SessionKept, OneRefresher, TokenIsLive
<1>3. ASSUME ~ blame' PROVE OneRefresher'
  <2>1. apiCall'[c] \in {"failed", "queued"} \/ (apiCall'[c] = "reading" /\ ~ isRefreshing /\ isRefreshing')
    BY DEF Unauthorized, SessionTypeOK
  <2>2. \A d \in Calls \ {c} : apiCall'[d] = apiCall[d]
    BY DEF Unauthorized, SessionTypeOK
  <2>3. ~ blame /\ (isRefreshing => isRefreshing')
    BY <1>3 DEF Unauthorized
  <2>4. apiCall[c] = "sent"
    BY DEF Unauthorized
  <2> QED
    BY <2>1, <2>2, <2>3, <2>4 DEF OneRefresher, Refreshing
<1>4. ASSUME ~ blame' PROVE OnePost'
  <2>1. post' = post /\ ~ blame /\ apiCall[c] = "sent"
    BY <1>4 DEF Unauthorized
  <2>2. \A d \in Calls \ {c} : apiCall'[d] = apiCall[d]
    BY DEF Unauthorized, SessionTypeOK
  <2> QED
    BY <2>1, <2>2 DEF OnePost
<1>5. ASSUME ~ blame' PROVE TokenIsLive'
  <2>1. UNCHANGED <<access, refresh, live, post, posted, issued>> /\ ~ blame
    BY <1>5 DEF Unauthorized
  <2>2. apiCall'[c] \notin {"posting", "storing"} /\ apiCall[c] \notin {"posting", "storing"}
    BY DEF Unauthorized, SessionTypeOK
  <2>3. \A d \in Calls \ {c} : apiCall'[d] = apiCall[d]
    BY DEF Unauthorized, SessionTypeOK
  <2> QED
    BY <2>1, <2>2, <2>3 DEF TokenIsLive
<1> QED
  BY <1>1, <1>2, <1>3, <1>4, <1>5

-----------------------------------------------------------------------------
\* The refresh
LEMMA ReadStep ==
    ASSUME SessionInv, NEW c \in Calls, ReadRefreshToken(c)
    PROVE  SessionInv'
<1> USE SessionAssumption DEF SessionAssumption, SessionInv, storage, calls, server, MoveCall, Mishap, Waiting
<1>1. SessionTypeOK'
  <2>1. /\ signedIn' \in BOOLEAN /\ isRefreshing' \in BOOLEAN /\ blame' \in BOOLEAN
        /\ retried' \in [Calls -> BOOLEAN]
    BY DEF ReadRefreshToken, ProcessQueue, SessionTypeOK
  <2>2. apiCall' \in [Calls -> Settled \cup
          {"idle", "resent", "sent", "queued", "reading", "posting", "storing", "givingUp", "forbidden"}]
    BY DEF ReadRefreshToken, ProcessQueue, SessionTypeOK, Settled
  <2>3. access' \in AccessTokens /\ bearer' \in [Calls -> AccessTokens] /\ stranded' \subseteq Calls
    BY DEF ReadRefreshToken, ProcessQueue, SessionTypeOK, AccessTokens
  <2>4. post' \in [Calls -> {"none", "sent", "verified", "granted", "refused"}]
    BY DEF ReadRefreshToken, ProcessQueue, SessionTypeOK
  <2>5. /\ refresh' \in Nat \cup {NoToken}
        /\ posted' \in [Calls -> Nat \cup {NoToken}] /\ issued' \in [Calls -> Nat \cup {NoToken}]
    BY DEF ReadRefreshToken, ProcessQueue, SessionTypeOK
  <2>6. live' \subseteq 0..last' /\ last' \in Nat /\ mishaps' \in 0..MaxMishaps
    BY DEF ReadRefreshToken, ProcessQueue, SessionTypeOK
  <2> QED
    BY <2>1, <2>2, <2>3, <2>4, <2>5, <2>6 DEF SessionTypeOK
<1>2. SessionKept'
  BY DEF ReadRefreshToken, ProcessQueue, SessionTypeOK, SessionKept, OneRefresher, TokenIsLive
<1>3. ASSUME ~ blame' PROVE OneRefresher'
  BY <1>3 DEF ReadRefreshToken, ProcessQueue, SessionTypeOK, OneRefresher, OnePost, TokenIsLive, Refreshing, Settled
<1>4. ASSUME ~ blame' PROVE OnePost'
  BY <1>4 DEF ReadRefreshToken, ProcessQueue, SessionTypeOK, OneRefresher, OnePost, TokenIsLive, Refreshing
<1>5. ASSUME ~ blame' PROVE TokenIsLive'
  BY <1>5 DEF ReadRefreshToken, ProcessQueue, SessionTypeOK, OneRefresher, OnePost, TokenIsLive, Refreshing
<1> QED
  BY <1>1, <1>2, <1>3, <1>4, <1>5

LEMMA StoreAccessStep ==
    ASSUME SessionInv, NEW c \in Calls, StoreAccessToken(c)
    PROVE  SessionInv'
<1> USE SessionAssumption DEF SessionAssumption, SessionInv, storage, calls, server, MoveCall, Mishap, Waiting
<1>1. SessionTypeOK'
  <2>1. /\ signedIn' \in BOOLEAN /\ isRefreshing' \in BOOLEAN /\ blame' \in BOOLEAN
        /\ retried' \in [Calls -> BOOLEAN]
    BY DEF StoreAccessToken, SessionTypeOK
  <2>2. apiCall' \in [Calls -> Settled \cup
          {"idle", "resent", "sent", "queued", "reading", "posting", "storing", "givingUp", "forbidden"}]
    BY DEF StoreAccessToken, SessionTypeOK, Settled
  <2>3. access' \in AccessTokens /\ bearer' \in [Calls -> AccessTokens] /\ stranded' \subseteq Calls
    BY DEF StoreAccessToken, SessionTypeOK, AccessTokens
  <2>4. post' \in [Calls -> {"none", "sent", "verified", "granted", "refused"}]
    BY DEF StoreAccessToken, SessionTypeOK
  <2>5. /\ refresh' \in Nat \cup {NoToken}
        /\ posted' \in [Calls -> Nat \cup {NoToken}] /\ issued' \in [Calls -> Nat \cup {NoToken}]
    BY DEF StoreAccessToken, SessionTypeOK
  <2>6. live' \subseteq 0..last' /\ last' \in Nat /\ mishaps' \in 0..MaxMishaps
    BY DEF StoreAccessToken, SessionTypeOK
  <2> QED
    BY <2>1, <2>2, <2>3, <2>4, <2>5, <2>6 DEF SessionTypeOK
<1>2. SessionKept'
  BY DEF StoreAccessToken, SessionTypeOK, SessionKept, OneRefresher, TokenIsLive
<1>3. ASSUME ~ blame' PROVE OneRefresher'
  BY <1>3 DEF StoreAccessToken, SessionTypeOK, OneRefresher, OnePost, TokenIsLive, Refreshing, Settled
<1>4. ASSUME ~ blame' PROVE OnePost'
  BY <1>4 DEF StoreAccessToken, SessionTypeOK, OneRefresher, OnePost, TokenIsLive, Refreshing
<1>5. ASSUME ~ blame' PROVE TokenIsLive'
  BY <1>5 DEF StoreAccessToken, SessionTypeOK, OneRefresher, OnePost, TokenIsLive, Refreshing
<1> QED
  BY <1>1, <1>2, <1>3, <1>4, <1>5

LEMMA StoreRefreshStep ==
    ASSUME SessionInv, NEW c \in Calls, StoreRefreshToken(c)
    PROVE  SessionInv'
<1> USE SessionAssumption DEF SessionAssumption, SessionInv, storage, calls, server, MoveCall, Mishap, Waiting
<1>1. SessionTypeOK'
  <2>1. /\ signedIn' \in BOOLEAN /\ isRefreshing' \in BOOLEAN /\ blame' \in BOOLEAN
        /\ retried' \in [Calls -> BOOLEAN]
    BY DEF StoreRefreshToken, ProcessQueue, SessionTypeOK
  <2>2. apiCall' \in [Calls -> Settled \cup
          {"idle", "resent", "sent", "queued", "reading", "posting", "storing", "givingUp", "forbidden"}]
    BY DEF StoreRefreshToken, ProcessQueue, SessionTypeOK, Settled
  <2>3. access' \in AccessTokens /\ bearer' \in [Calls -> AccessTokens] /\ stranded' \subseteq Calls
    BY DEF StoreRefreshToken, ProcessQueue, SessionTypeOK, AccessTokens
  <2>4. post' \in [Calls -> {"none", "sent", "verified", "granted", "refused"}]
    BY DEF StoreRefreshToken, ProcessQueue, SessionTypeOK
  <2>5. /\ refresh' \in Nat \cup {NoToken}
        /\ posted' \in [Calls -> Nat \cup {NoToken}] /\ issued' \in [Calls -> Nat \cup {NoToken}]
    BY DEF StoreRefreshToken, ProcessQueue, SessionTypeOK
  <2>6. live' \subseteq 0..last' /\ last' \in Nat /\ mishaps' \in 0..MaxMishaps
    BY DEF StoreRefreshToken, ProcessQueue, SessionTypeOK
  <2> QED
    BY <2>1, <2>2, <2>3, <2>4, <2>5, <2>6 DEF SessionTypeOK
<1>2. SessionKept'
  BY DEF StoreRefreshToken, ProcessQueue, SessionTypeOK, SessionKept, OneRefresher, TokenIsLive
<1>3. ASSUME ~ blame' PROVE OneRefresher'
  BY <1>3 DEF StoreRefreshToken, ProcessQueue, SessionTypeOK, OneRefresher, OnePost, TokenIsLive, Refreshing, Settled
<1>4. ASSUME ~ blame' PROVE OnePost'
  BY <1>4 DEF StoreRefreshToken, ProcessQueue, SessionTypeOK, OneRefresher, OnePost, TokenIsLive, Refreshing
<1>5. ASSUME ~ blame' PROVE TokenIsLive'
  BY <1>5 DEF StoreRefreshToken, ProcessQueue, SessionTypeOK, OneRefresher, OnePost, TokenIsLive, Refreshing
<1> QED
  BY <1>1, <1>2, <1>3, <1>4, <1>5

LEMMA FailStep ==
    ASSUME SessionInv, NEW c \in Calls, RefreshFails(c)
    PROVE  SessionInv'
<1> USE SessionAssumption DEF SessionAssumption, SessionInv, storage, calls, server, MoveCall, Mishap, Waiting
<1>1. SessionTypeOK'
  <2>1. /\ signedIn' \in BOOLEAN /\ isRefreshing' \in BOOLEAN /\ blame' \in BOOLEAN
        /\ retried' \in [Calls -> BOOLEAN]
    BY DEF RefreshFails, ProcessQueue, SessionTypeOK
  <2>2. apiCall' \in [Calls -> Settled \cup
          {"idle", "resent", "sent", "queued", "reading", "posting", "storing", "givingUp", "forbidden"}]
    BY DEF RefreshFails, ProcessQueue, SessionTypeOK, Settled
  <2>3. access' \in AccessTokens /\ bearer' \in [Calls -> AccessTokens] /\ stranded' \subseteq Calls
    BY DEF RefreshFails, ProcessQueue, SessionTypeOK, AccessTokens
  <2>4. post' \in [Calls -> {"none", "sent", "verified", "granted", "refused"}]
    BY DEF RefreshFails, ProcessQueue, SessionTypeOK
  <2>5. /\ refresh' \in Nat \cup {NoToken}
        /\ posted' \in [Calls -> Nat \cup {NoToken}] /\ issued' \in [Calls -> Nat \cup {NoToken}]
    BY DEF RefreshFails, ProcessQueue, SessionTypeOK
  <2>6. live' \subseteq 0..last' /\ last' \in Nat /\ mishaps' \in 0..MaxMishaps
    BY DEF RefreshFails, ProcessQueue, SessionTypeOK
  <2> QED
    BY <2>1, <2>2, <2>3, <2>4, <2>5, <2>6 DEF SessionTypeOK
<1>2. SessionKept'
  BY DEF RefreshFails, ProcessQueue, SessionTypeOK, SessionKept, OneRefresher, TokenIsLive
<1>3. ASSUME ~ blame' PROVE OneRefresher'
  BY <1>3 DEF RefreshFails, ProcessQueue, SessionTypeOK, OneRefresher, OnePost, TokenIsLive, Refreshing, Settled
<1>4. ASSUME ~ blame' PROVE OnePost'
  BY <1>4 DEF RefreshFails, ProcessQueue, SessionTypeOK, OneRefresher, OnePost, TokenIsLive, Refreshing
<1>5. ASSUME ~ blame' PROVE TokenIsLive'
  BY <1>5 DEF RefreshFails, ProcessQueue, SessionTypeOK, OneRefresher, OnePost, TokenIsLive, Refreshing
<1> QED
  BY <1>1, <1>2, <1>3, <1>4, <1>5

LEMMA LogOutStep ==
    ASSUME SessionInv, NEW c \in Calls, LogOut(c)
    PROVE  SessionInv'
<1> USE SessionAssumption DEF SessionAssumption, SessionInv, storage, calls, server, MoveCall, Mishap, Waiting
<1>1. SessionTypeOK'
  <2>1. /\ signedIn' \in BOOLEAN /\ isRefreshing' \in BOOLEAN /\ blame' \in BOOLEAN
        /\ retried' \in [Calls -> BOOLEAN]
    BY DEF LogOut, SignOut, SessionTypeOK
  <2>2. apiCall' \in [Calls -> Settled \cup
          {"idle", "resent", "sent", "queued", "reading", "posting", "storing", "givingUp", "forbidden"}]
    BY DEF LogOut, SignOut, SessionTypeOK, Settled
  <2>3. access' \in AccessTokens /\ bearer' \in [Calls -> AccessTokens] /\ stranded' \subseteq Calls
    BY DEF LogOut, SignOut, SessionTypeOK, AccessTokens
  <2>4. post' \in [Calls -> {"none", "sent", "verified", "granted", "refused"}]
    BY DEF LogOut, SignOut, SessionTypeOK
  <2>5. /\ refresh' \in Nat \cup {NoToken}
        /\ posted' \in [Calls -> Nat \cup {NoToken}] /\ issued' \in [Calls -> Nat \cup {NoToken}]
    BY DEF LogOut, SignOut, SessionTypeOK
  <2>6. live' \subseteq 0..last' /\ last' \in Nat /\ mishaps' \in 0..MaxMishaps
    BY DEF LogOut, SignOut, SessionTypeOK
  <2> QED
    BY <2>1, <2>2, <2>3, <2>4, <2>5, <2>6 DEF SessionTypeOK
<1>2. SessionKept'
  BY DEF LogOut, SignOut, SessionTypeOK, SessionKept, OneRefresher, TokenIsLive
<1>3. ASSUME ~ blame' PROVE OneRefresher'
  BY <1>3 DEF LogOut, SignOut, SessionTypeOK, OneRefresher, OnePost, TokenIsLive, Refreshing, Settled
<1>4. ASSUME ~ blame' PROVE OnePost'
  BY <1>4 DEF LogOut, SignOut, SessionTypeOK, OneRefresher, OnePost, TokenIsLive, Refreshing
<1>5. ASSUME ~ blame' PROVE TokenIsLive'
  BY <1>5 DEF LogOut, SignOut, SessionTypeOK, OneRefresher, OnePost, TokenIsLive, Refreshing
<1> QED
  BY <1>1, <1>2, <1>3, <1>4, <1>5

-----------------------------------------------------------------------------
\* The user and the phone
LEMMA UserStep ==
    ASSUME SessionInv, UserLogsOut
    PROVE  SessionInv'
<1> USE SessionAssumption DEF SessionAssumption, SessionInv, storage, calls, server, MoveCall, Mishap, Waiting
<1>1. SessionTypeOK'
  <2>1. /\ signedIn' \in BOOLEAN /\ isRefreshing' \in BOOLEAN /\ blame' \in BOOLEAN
        /\ retried' \in [Calls -> BOOLEAN]
    BY DEF UserLogsOut, SignOut, SessionTypeOK
  <2>2. apiCall' \in [Calls -> Settled \cup
          {"idle", "resent", "sent", "queued", "reading", "posting", "storing", "givingUp", "forbidden"}]
    BY DEF UserLogsOut, SignOut, SessionTypeOK, Settled
  <2>3. access' \in AccessTokens /\ bearer' \in [Calls -> AccessTokens] /\ stranded' \subseteq Calls
    BY DEF UserLogsOut, SignOut, SessionTypeOK, AccessTokens
  <2>4. post' \in [Calls -> {"none", "sent", "verified", "granted", "refused"}]
    BY DEF UserLogsOut, SignOut, SessionTypeOK
  <2>5. /\ refresh' \in Nat \cup {NoToken}
        /\ posted' \in [Calls -> Nat \cup {NoToken}] /\ issued' \in [Calls -> Nat \cup {NoToken}]
    BY DEF UserLogsOut, SignOut, SessionTypeOK
  <2>6. live' \subseteq 0..last' /\ last' \in Nat /\ mishaps' \in 0..MaxMishaps
    BY DEF UserLogsOut, SignOut, SessionTypeOK
  <2> QED
    BY <2>1, <2>2, <2>3, <2>4, <2>5, <2>6 DEF SessionTypeOK
<1>2. SessionKept'
  BY DEF UserLogsOut, SignOut, SessionTypeOK, SessionKept, OneRefresher, TokenIsLive
<1>3. ASSUME ~ blame' PROVE OneRefresher'
  BY <1>3 DEF UserLogsOut, SignOut, SessionTypeOK, OneRefresher, OnePost, TokenIsLive, Refreshing, Settled
<1>4. ASSUME ~ blame' PROVE OnePost'
  BY <1>4 DEF UserLogsOut, SignOut, SessionTypeOK, OneRefresher, OnePost, TokenIsLive, Refreshing
<1>5. ASSUME ~ blame' PROVE TokenIsLive'
  BY <1>5 DEF UserLogsOut, SignOut, SessionTypeOK, OneRefresher, OnePost, TokenIsLive, Refreshing
<1> QED
  BY <1>1, <1>2, <1>3, <1>4, <1>5

LEMMA KillStep ==
    ASSUME SessionInv, KillApp
    PROVE  SessionInv'
<1> USE SessionAssumption DEF SessionAssumption, SessionInv, storage, calls, server, MoveCall, Mishap, Waiting
<1>1. SessionTypeOK'
  <2>1. /\ signedIn' \in BOOLEAN /\ isRefreshing' \in BOOLEAN /\ blame' \in BOOLEAN
        /\ retried' \in [Calls -> BOOLEAN]
    BY DEF KillApp, SessionTypeOK
  <2>2. apiCall' \in [Calls -> Settled \cup
          {"idle", "resent", "sent", "queued", "reading", "posting", "storing", "givingUp", "forbidden"}]
    BY DEF KillApp, SessionTypeOK, Settled
  <2>3. access' \in AccessTokens /\ bearer' \in [Calls -> AccessTokens] /\ stranded' \subseteq Calls
    BY DEF KillApp, SessionTypeOK, AccessTokens
  <2>4. post' \in [Calls -> {"none", "sent", "verified", "granted", "refused"}]
    BY DEF KillApp, SessionTypeOK
  <2>5. /\ refresh' \in Nat \cup {NoToken}
        /\ posted' \in [Calls -> Nat \cup {NoToken}] /\ issued' \in [Calls -> Nat \cup {NoToken}]
    BY DEF KillApp, SessionTypeOK
  <2>6. live' \subseteq 0..last' /\ last' \in Nat /\ mishaps' \in 0..MaxMishaps
    BY DEF KillApp, SessionTypeOK
  <2> QED
    BY <2>1, <2>2, <2>3, <2>4, <2>5, <2>6 DEF SessionTypeOK
<1>2. SessionKept'
  BY DEF KillApp, SessionTypeOK, SessionKept, OneRefresher, TokenIsLive
<1>3. ASSUME ~ blame' PROVE OneRefresher'
  BY <1>3 DEF KillApp, SessionTypeOK, OneRefresher, OnePost, TokenIsLive, Refreshing, Settled
<1>4. ASSUME ~ blame' PROVE OnePost'
  BY <1>4 DEF KillApp, SessionTypeOK, OneRefresher, OnePost, TokenIsLive, Refreshing
<1>5. ASSUME ~ blame' PROVE TokenIsLive'
  BY <1>5 DEF KillApp, SessionTypeOK, OneRefresher, OnePost, TokenIsLive, Refreshing
<1> QED
  BY <1>1, <1>2, <1>3, <1>4, <1>5

-----------------------------------------------------------------------------
\* The user module
LEMMA VerifyStep ==
    ASSUME SessionInv, NEW c \in Calls, VerifyRefreshToken(c)
    PROVE  SessionInv'
<1> USE SessionAssumption DEF SessionAssumption, SessionInv, storage, calls, server, MoveCall, Mishap, Waiting
<1>1. SessionTypeOK'
  <2>1. /\ signedIn' \in BOOLEAN /\ isRefreshing' \in BOOLEAN /\ blame' \in BOOLEAN
        /\ retried' \in [Calls -> BOOLEAN]
    BY DEF VerifyRefreshToken, SessionTypeOK
  <2>2. apiCall' \in [Calls -> Settled \cup
          {"idle", "resent", "sent", "queued", "reading", "posting", "storing", "givingUp", "forbidden"}]
    BY DEF VerifyRefreshToken, SessionTypeOK, Settled
  <2>3. access' \in AccessTokens /\ bearer' \in [Calls -> AccessTokens] /\ stranded' \subseteq Calls
    BY DEF VerifyRefreshToken, SessionTypeOK, AccessTokens
  <2>4. post' \in [Calls -> {"none", "sent", "verified", "granted", "refused"}]
    BY DEF VerifyRefreshToken, SessionTypeOK
  <2>5. /\ refresh' \in Nat \cup {NoToken}
        /\ posted' \in [Calls -> Nat \cup {NoToken}] /\ issued' \in [Calls -> Nat \cup {NoToken}]
    BY DEF VerifyRefreshToken, SessionTypeOK
  <2>6. live' \subseteq 0..last' /\ last' \in Nat /\ mishaps' \in 0..MaxMishaps
    BY DEF VerifyRefreshToken, SessionTypeOK
  <2> QED
    BY <2>1, <2>2, <2>3, <2>4, <2>5, <2>6 DEF SessionTypeOK
<1>2. SessionKept'
  BY DEF VerifyRefreshToken, SessionTypeOK, SessionKept, OneRefresher, TokenIsLive
<1>3. ASSUME ~ blame' PROVE OneRefresher'
  BY <1>3 DEF VerifyRefreshToken, SessionTypeOK, OneRefresher, OnePost, TokenIsLive, Refreshing, Settled
<1>4. ASSUME ~ blame' PROVE OnePost'
  BY <1>4 DEF VerifyRefreshToken, SessionTypeOK, OneRefresher, OnePost, TokenIsLive, Refreshing
<1>5. ASSUME ~ blame' PROVE TokenIsLive'
  BY <1>5 DEF VerifyRefreshToken, SessionTypeOK, OneRefresher, OnePost, TokenIsLive, Refreshing
<1> QED
  BY <1>1, <1>2, <1>3, <1>4, <1>5

LEMMA RotateStep ==
    ASSUME SessionInv, NEW c \in Calls, RotateRefreshToken(c)
    PROVE  SessionInv'
<1> USE SessionAssumption DEF SessionAssumption, SessionInv, storage, calls, server, MoveCall, Mishap, Waiting
<1>1. SessionTypeOK'
  <2>1. /\ signedIn' \in BOOLEAN /\ isRefreshing' \in BOOLEAN /\ blame' \in BOOLEAN
        /\ retried' \in [Calls -> BOOLEAN]
    BY DEF RotateRefreshToken, SessionTypeOK
  <2>2. apiCall' \in [Calls -> Settled \cup
          {"idle", "resent", "sent", "queued", "reading", "posting", "storing", "givingUp", "forbidden"}]
    BY DEF RotateRefreshToken, SessionTypeOK, Settled
  <2>3. access' \in AccessTokens /\ bearer' \in [Calls -> AccessTokens] /\ stranded' \subseteq Calls
    BY DEF RotateRefreshToken, SessionTypeOK, AccessTokens
  <2>4. post' \in [Calls -> {"none", "sent", "verified", "granted", "refused"}]
    BY DEF RotateRefreshToken, SessionTypeOK
  <2>5. /\ refresh' \in Nat \cup {NoToken}
        /\ posted' \in [Calls -> Nat \cup {NoToken}] /\ issued' \in [Calls -> Nat \cup {NoToken}]
    BY DEF RotateRefreshToken, SessionTypeOK
  <2>6. live' \subseteq 0..last' /\ last' \in Nat /\ mishaps' \in 0..MaxMishaps
    <3>1. last' = last + 1 /\ live' = (live \ {posted[c]}) \cup {last + 1} /\ mishaps' = mishaps
      BY DEF RotateRefreshToken
    <3>2. last \in Nat /\ live \subseteq 0..last /\ mishaps \in 0..MaxMishaps
      BY DEF SessionTypeOK
    <3>3. \A n \in 0..last : n \in 0..(last + 1)
      BY <3>2
    <3>4. last + 1 \in Nat /\ last + 1 \in 0..(last + 1)
      BY <3>2
    <3> QED
      BY <3>1, <3>2, <3>3, <3>4
  <2> QED
    BY <2>1, <2>2, <2>3, <2>4, <2>5, <2>6 DEF SessionTypeOK
<1>2. SessionKept'
  BY DEF RotateRefreshToken, SessionTypeOK, SessionKept, OneRefresher, TokenIsLive
<1>3. ASSUME ~ blame' PROVE OneRefresher'
  BY <1>3 DEF RotateRefreshToken, SessionTypeOK, OneRefresher, OnePost, TokenIsLive, Refreshing, Settled
<1>4. ASSUME ~ blame' PROVE OnePost'
  BY <1>4 DEF RotateRefreshToken, SessionTypeOK, OneRefresher, OnePost, TokenIsLive, Refreshing
<1>5. ASSUME ~ blame' PROVE TokenIsLive'
  BY <1>5 DEF RotateRefreshToken, SessionTypeOK, OneRefresher, OnePost, TokenIsLive, Refreshing
<1> QED
  BY <1>1, <1>2, <1>3, <1>4, <1>5

LEMMA AccessStep ==
    ASSUME SessionInv, AccessExpires
    PROVE  SessionInv'
<1> USE SessionAssumption DEF SessionAssumption, SessionInv, storage, calls, server, MoveCall, Mishap, Waiting
<1>1. SessionTypeOK'
  <2>1. /\ signedIn' \in BOOLEAN /\ isRefreshing' \in BOOLEAN /\ blame' \in BOOLEAN
        /\ retried' \in [Calls -> BOOLEAN]
    BY DEF AccessExpires, SessionTypeOK
  <2>2. apiCall' \in [Calls -> Settled \cup
          {"idle", "resent", "sent", "queued", "reading", "posting", "storing", "givingUp", "forbidden"}]
    BY DEF AccessExpires, SessionTypeOK, Settled
  <2>3. access' \in AccessTokens /\ bearer' \in [Calls -> AccessTokens] /\ stranded' \subseteq Calls
    BY DEF AccessExpires, SessionTypeOK, AccessTokens
  <2>4. post' \in [Calls -> {"none", "sent", "verified", "granted", "refused"}]
    BY DEF AccessExpires, SessionTypeOK
  <2>5. /\ refresh' \in Nat \cup {NoToken}
        /\ posted' \in [Calls -> Nat \cup {NoToken}] /\ issued' \in [Calls -> Nat \cup {NoToken}]
    BY DEF AccessExpires, SessionTypeOK
  <2>6. live' \subseteq 0..last' /\ last' \in Nat /\ mishaps' \in 0..MaxMishaps
    BY DEF AccessExpires, SessionTypeOK
  <2> QED
    BY <2>1, <2>2, <2>3, <2>4, <2>5, <2>6 DEF SessionTypeOK
<1>2. SessionKept'
  BY DEF AccessExpires, SessionTypeOK, SessionKept, OneRefresher, TokenIsLive
<1>3. ASSUME ~ blame' PROVE OneRefresher'
  BY <1>3 DEF AccessExpires, SessionTypeOK, OneRefresher, OnePost, TokenIsLive, Refreshing, Settled
<1>4. ASSUME ~ blame' PROVE OnePost'
  BY <1>4 DEF AccessExpires, SessionTypeOK, OneRefresher, OnePost, TokenIsLive, Refreshing
<1>5. ASSUME ~ blame' PROVE TokenIsLive'
  BY <1>5 DEF AccessExpires, SessionTypeOK, OneRefresher, OnePost, TokenIsLive, Refreshing
<1> QED
  BY <1>1, <1>2, <1>3, <1>4, <1>5

LEMMA ExpiryStep ==
    ASSUME SessionInv, RefreshExpires
    PROVE  SessionInv'
<1> USE SessionAssumption DEF SessionAssumption, SessionInv, storage, calls, server, MoveCall, Mishap, Waiting
<1>1. SessionTypeOK'
  <2>1. /\ signedIn' \in BOOLEAN /\ isRefreshing' \in BOOLEAN /\ blame' \in BOOLEAN
        /\ retried' \in [Calls -> BOOLEAN]
    BY DEF RefreshExpires, SessionTypeOK
  <2>2. apiCall' \in [Calls -> Settled \cup
          {"idle", "resent", "sent", "queued", "reading", "posting", "storing", "givingUp", "forbidden"}]
    BY DEF RefreshExpires, SessionTypeOK, Settled
  <2>3. access' \in AccessTokens /\ bearer' \in [Calls -> AccessTokens] /\ stranded' \subseteq Calls
    BY DEF RefreshExpires, SessionTypeOK, AccessTokens
  <2>4. post' \in [Calls -> {"none", "sent", "verified", "granted", "refused"}]
    BY DEF RefreshExpires, SessionTypeOK
  <2>5. /\ refresh' \in Nat \cup {NoToken}
        /\ posted' \in [Calls -> Nat \cup {NoToken}] /\ issued' \in [Calls -> Nat \cup {NoToken}]
    BY DEF RefreshExpires, SessionTypeOK
  <2>6. live' \subseteq 0..last' /\ last' \in Nat /\ mishaps' \in 0..MaxMishaps
    BY DEF RefreshExpires, SessionTypeOK
  <2> QED
    BY <2>1, <2>2, <2>3, <2>4, <2>5, <2>6 DEF SessionTypeOK
<1>2. SessionKept'
  BY DEF RefreshExpires, SessionTypeOK, SessionKept, OneRefresher, TokenIsLive
<1>3. ASSUME ~ blame' PROVE OneRefresher'
  BY <1>3 DEF RefreshExpires, SessionTypeOK, OneRefresher, OnePost, TokenIsLive, Refreshing, Settled
<1>4. ASSUME ~ blame' PROVE OnePost'
  BY <1>4 DEF RefreshExpires, SessionTypeOK, OneRefresher, OnePost, TokenIsLive, Refreshing
<1>5. ASSUME ~ blame' PROVE TokenIsLive'
  BY <1>5 DEF RefreshExpires, SessionTypeOK, OneRefresher, OnePost, TokenIsLive, Refreshing
<1> QED
  BY <1>1, <1>2, <1>3, <1>4, <1>5

LEMMA SessionStep == SessionInv /\ [SessionNext]_sessionVars => SessionInv'
<1> SUFFICES ASSUME SessionInv, [SessionNext]_sessionVars PROVE SessionInv'
  OBVIOUS
<1>1. ASSUME NEW c \in Calls, CallSteps(c) PROVE SessionInv'
  BY <1>1, AttachStep, AnsweredStep, UnauthorizedStep, ReadStep, StoreAccessStep, StoreRefreshStep,
     FailStep, LogOutStep DEF CallSteps
<1>2. ASSUME NEW c \in Calls, Forbidden(c) PROVE SessionInv'
  BY <1>2, ForbiddenStep
<1>3. ASSUME NEW c \in Calls, ServerSteps(c) PROVE SessionInv'
  BY <1>3, VerifyStep, RotateStep DEF ServerSteps
<1>4. CASE UserLogsOut \/ KillApp \/ AccessExpires \/ RefreshExpires
  BY <1>4, UserStep, KillStep, AccessStep, ExpiryStep
<1>5. CASE UNCHANGED sessionVars
  BY <1>5 DEF sessionVars, storage, calls, server, SessionInv, SessionTypeOK, SessionKept, OneRefresher, OnePost,
     TokenIsLive
<1> QED
  BY <1>1, <1>2, <1>3, <1>4, <1>5 DEF SessionNext
-----------------------------------------------------------------------------
\* The inductive invariant holds in every behaviour.
THEOREM SessionInvariance == SessionSpec => []SessionInv
  BY InitSessionInv, SessionStep, PTL DEF SessionSpec

\* Every variable keeps its type.
THEOREM SessionTypeCorrect == SessionSpec => []SessionTypeOK
<1>1. SessionInv => SessionTypeOK
  BY DEF SessionInv
<1> QED
  BY <1>1, SessionInvariance, PTL

\* However many calls meet an expired access token side by side, the refresh they
\* share never logs the user out by itself.
THEOREM SessionEndsForAReason == SessionSpec => []SessionKept
<1>1. SessionInv => SessionKept
  BY DEF SessionInv
<1> QED
  BY <1>1, SessionInvariance, PTL
=============================================================================
