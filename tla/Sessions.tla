------------------------------- MODULE Sessions -------------------------------
(***************************************************************************)
(* The refresh tokens and sessions of one user (src/services/              *)
(* auth.service.ts, session.ts, src/routes/auth.ts, admin.ts and           *)
(* src/middleware/auth.ts).                                                *)
(*                                                                         *)
(* A login or a refresh issues a pair: a refresh token and, for its access *)
(* token, a session; pairs are drawn from a fixed set and never reused.  A *)
(* refresh is four queries without a transaction, so refreshes, logouts    *)
(* and revocations of the same token interleave.  Expiry is a revocation   *)
(* that nobody asked for; verifying signatures and passwords is left out.  *)
(***************************************************************************)
EXTENDS Integers, FiniteSets

CONSTANTS
    Pairs,      \* what logins and refreshes issue
    Refreshes,  \* requests to POST /api/auth/refresh
    Logouts,    \* requests to POST /api/auth/logout
    NoPair

ASSUME SessionAssumption == NoPair \notin Pairs

VARIABLES
    refreshToken, \* of each pair: "none", "valid" or "revoked"
    session,      \* of each pair: "none", "valid" or "revoked"
    refreshing,   \* stage of each refresh, the token it got, the pair it issues
    loggingOut,   \* stage of each logout and its access token's pair
    issuedFrom,   \* history: the pairs whose token was exchanged for each pair
    overtaken,    \* history: pairs found by a refresh under way when their
                  \* token was revoked by another request
    closed        \* history: pairs whose valid token a logout has revoked with
                  \* no refresh of it under way

sessionVars == <<refreshToken, session, refreshing, loggingOut, issuedFrom, overtaken, closed>>

IdleRefresh == [at |-> "idle", from |-> NoPair, pair |-> NoPair]
IdleLogout == [at |-> "idle", pair |-> NoPair]

SessionInit ==
    /\ refreshToken = [p \in Pairs |-> "none"]
    /\ session = [p \in Pairs |-> "none"]
    /\ refreshing = [r \in Refreshes |-> IdleRefresh]
    /\ loggingOut = [l \in Logouts |-> IdleLogout]
    /\ issuedFrom = [p \in Pairs |-> NoPair]
    /\ overtaken = {} /\ closed = {}

Unissued(p) == /\ refreshToken[p] = "none" /\ session[p] = "none"
               /\ \A r \in Refreshes : refreshing[r].pair # p

\* Refreshes that have found the token of p valid and not yet revoked it.
Found(p) == {r \in Refreshes : refreshing[r].at = "found" /\ refreshing[r].from = p}

-----------------------------------------------------------------------------
\* Both rows in one transaction.
Login(p) ==
    /\ Unissued(p)
    /\ refreshToken' = [refreshToken EXCEPT ![p] = "valid"]
    /\ session' = [session EXCEPT ![p] = "valid"]
    /\ UNCHANGED <<refreshing, loggingOut, issuedFrom, overtaken, closed>>

\* Mutant of FindToken: revoked tokens are found too.
FindAnyToken(r, p) ==
    /\ refreshing[r].at = "idle"
    /\ refreshToken[p] # "none"
    /\ refreshing' = [refreshing EXCEPT ![r] = [at |-> "found", from |-> p, pair |-> NoPair]]
    /\ UNCHANGED <<refreshToken, session, loggingOut, issuedFrom, overtaken, closed>>

FindToken(r, p) ==
    /\ refreshing[r].at = "idle"
    /\ refreshToken[p] = "valid"
    /\ refreshing' = [refreshing EXCEPT ![r] = [at |-> "found", from |-> p, pair |-> NoPair]]
    /\ UNCHANGED <<refreshToken, session, loggingOut, issuedFrom, overtaken, closed>>

\* The old token is revoked, whatever became of it since it was found.
RevokeOld(r) ==
    LET p == refreshing[r].from
    IN  /\ refreshing[r].at = "found"
        /\ refreshToken' = [refreshToken EXCEPT ![p] = "revoked"]
        /\ refreshing' = [refreshing EXCEPT ![r].at = "revoked"]
        /\ overtaken' = IF Found(p) # {r} THEN overtaken \cup {p} ELSE overtaken
        /\ UNCHANGED <<session, loggingOut, issuedFrom, closed>>

\* recordSession for the new access token.
RecordSession(r, p) ==
    /\ refreshing[r].at = "revoked"
    /\ Unissued(p)
    /\ session' = [session EXCEPT ![p] = "valid"]
    /\ refreshing' = [refreshing EXCEPT ![r].at = "recorded", ![r].pair = p]
    /\ issuedFrom' = [issuedFrom EXCEPT ![p] = refreshing[r].from]
    /\ UNCHANGED <<refreshToken, loggingOut, overtaken, closed>>

\* The new refresh token, and the answer.
CreateToken(r) ==
    /\ refreshing[r].at = "recorded"
    /\ refreshToken' = [refreshToken EXCEPT ![refreshing[r].pair] = "valid"]
    /\ refreshing' = [refreshing EXCEPT ![r] = IdleRefresh]
    /\ UNCHANGED <<session, loggingOut, issuedFrom, overtaken, closed>>

\* A query fails: 401, and what was done stays done.
AbandonRefresh(r) ==
    /\ refreshing[r].at # "idle"
    /\ refreshing' = [refreshing EXCEPT ![r] = IdleRefresh]
    /\ UNCHANGED <<refreshToken, session, loggingOut, issuedFrom, overtaken, closed>>

-----------------------------------------------------------------------------
Revoked(token, p) == [token EXCEPT ![p] = "revoked"]
CloseToken(p) ==
    IF Found(p) # {} THEN overtaken' = overtaken \cup {p} /\ UNCHANGED closed
    ELSE /\ closed' = IF refreshToken[p] = "valid" THEN closed \cup {p} ELSE closed
         /\ UNCHANGED overtaken

\* POST /logout with the access token of q and, if it is in the body, the
\* refresh token of p.  The session is revoked even if that of the token fails.
RevokeRefresh(l, p, q) ==
    /\ loggingOut[l].at = "idle"
    /\ session[q] = "valid"
    /\ loggingOut' = [loggingOut EXCEPT ![l] = [at |-> "session", pair |-> q]]
    /\ \/ /\ refreshToken[p] # "none"
          /\ refreshToken' = Revoked(refreshToken, p)
          /\ CloseToken(p)
       \/ UNCHANGED <<refreshToken, overtaken, closed>>
    /\ UNCHANGED <<session, refreshing, issuedFrom>>

RevokeSession(l) ==
    /\ loggingOut[l].at = "session"
    /\ loggingOut' = [loggingOut EXCEPT ![l] = IdleLogout]
    /\ session' \in {session, Revoked(session, loggingOut[l].pair)}
    /\ UNCHANGED <<refreshToken, refreshing, issuedFrom, overtaken, closed>>

\* POST /logout-all and an administrator's revocation: the sessions, and no
\* refresh token.
RevokeAllUserSessions ==
    /\ session' = [p \in Pairs |-> IF session[p] = "valid" THEN "revoked" ELSE session[p]]
    /\ UNCHANGED <<refreshToken, refreshing, loggingOut, issuedFrom, overtaken, closed>>

SessionNext ==
    \/ \E p \in Pairs : Login(p)
    \/ \E r \in Refreshes :
         \/ \E p \in Pairs : FindToken(r, p) \/ RecordSession(r, p)
         \/ RevokeOld(r) \/ CreateToken(r) \/ AbandonRefresh(r)
    \/ \E l \in Logouts : (\E p, q \in Pairs : RevokeRefresh(l, p, q)) \/ RevokeSession(l)
    \/ RevokeAllUserSessions

SessionSpec == SessionInit /\ [][SessionNext]_sessionVars

Issue == {"none", "valid", "revoked"}
SessionTypeOK ==
    /\ refreshToken \in [Pairs -> Issue]
    /\ session \in [Pairs -> Issue]
    /\ refreshing \in [Refreshes -> [at : {"idle", "found", "revoked", "recorded"},
                                     from : Pairs \cup {NoPair}, pair : Pairs \cup {NoPair}]]
    /\ loggingOut \in [Logouts -> [at : {"idle", "session"}, pair : Pairs \cup {NoPair}]]
    /\ issuedFrom \in [Pairs -> Pairs \cup {NoPair}]
    /\ overtaken \subseteq Pairs /\ closed \subseteq Pairs

\* auth.service.ts, "no dual-valid window": a refresh token is exchanged once,
\* and not after a logout has revoked it, unless a refresh had found it valid
\* when another request revoked it.
ExchangedOnce ==
    \A p \in Pairs \ overtaken : \A s \in Pairs :
        issuedFrom[s] = p =>
            /\ refreshToken[p] = "revoked" /\ p \notin closed
            /\ \A t \in Pairs : issuedFrom[t] = p => t = s
=============================================================================
