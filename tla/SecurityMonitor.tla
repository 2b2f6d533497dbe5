---------------------------- MODULE SecurityMonitor ----------------------------
(***************************************************************************)
(* The monitor of suspicious requests (src/security/abuse-monitor.ts): the *)
(* sliding windows that it keeps for each client, its alerts with their    *)
(* cooldown, its rate limit, and the clean-up of clients who have gone     *)
(* quiet.                                                                  *)
(*                                                                         *)
(* A request is counted when it comes in and again, by its outcome, when   *)
(* its response has been sent; each is one synchronous handler.  The times *)
(* are those of the process's clock, which starts after the first cooldown *)
(* and does not go back.  A window is the set of its events, for it is     *)
(* filtered and counted and its order never asked for.                     *)
(***************************************************************************)
EXTENDS Naturals, FiniteSets, FiniteSetsExt

CONSTANTS
    Ips,
    RateWindow, RateMax,
    SuspiciousWindow, NotFoundMin, DistinctPathMin, BadRequestMin, VolumeMin,
    LoginWindow, LoginMin,
    Cooldown,
    CleanupEvery,   \* 200 in the code
    MaxEvents,      \* bound on the handlers that run
    LastTime        \* bound on the clock

ASSUME MonitorAssumption ==
    {RateWindow, SuspiciousWindow, LoginWindow, Cooldown, CleanupEvery} \subseteq Nat \ {0}

VARIABLES
    clock,
    ipStates,    \* of each client, or Unknown
    processed,   \* processedEvents
    refused,     \* rateLimitTriggers
    alerts,      \* suspiciousPatterns
    past,        \* history: all that has happened, numbered
    alerted      \* history: the alerts that an unlimited memory would have raised

monitorVars == <<clock, ipStates, processed, refused, alerts, past, alerted>>

Outcomes == {"ok", "missing1", "missing2", "bad", "login"}
Patterns == {"endpoint_scan", "high_volume", "repeated_bad_requests", "failed_login_burst"}
Unknown == [requests |-> {}, events |-> {}, logins |-> {},
            lastAlert |-> [p \in Patterns |-> 0], lastSeen |-> 0]

MonitorInit ==
    /\ clock = Cooldown
    /\ ipStates = [ip \in Ips |-> Unknown]
    /\ processed = 0 /\ refused = 0
    /\ alerts = [p \in Patterns |-> 0]
    /\ past = {} /\ alerted = {}

\* The events that lie in a window ending now.
Since(events, window) == {e \in events : e.ts + window >= clock}
Are(events, what) == {e \in events : e.what \in what}

PruneState(s) ==
    [s EXCEPT !.requests = Since(@, RateWindow),
              !.events = Since(@, SuspiciousWindow),
              !.logins = Since(@, LoginWindow)]

\* The patterns that these events of the window, and these failed logins, make.
SuspiciousPatterns(events, logins) ==
    LET missing == Are(events, {"missing1", "missing2"})
        paths == {e.what : e \in missing}
    IN  {p \in Patterns :
           \/ p = "high_volume" /\ Cardinality(events) >= VolumeMin
           \/ p = "endpoint_scan" /\ Cardinality(missing) >= NotFoundMin
              /\ Cardinality(paths) >= DistinctPathMin
           \/ p = "repeated_bad_requests"
              /\ Cardinality(Are(events, {"bad"})) >= BadRequestMin
           \/ p = "failed_login_burst" /\ Cardinality(logins) >= LoginMin}

Cool(patterns, last) == {p \in patterns : clock >= last[p] + Cooldown}

\* Mutant of StaleAfter: the cooldown of the alerts is not waited for.
StaleAfterWindows == Max({RateWindow, SuspiciousWindow, LoginWindow})

StaleAfter == Max({RateWindow, SuspiciousWindow, LoginWindow}) + Cooldown

\* Every so many events, the clients who have been quiet for long are forgotten.
CleanUp(states) ==
    [ip \in Ips |-> IF clock > states[ip].lastSeen + StaleAfter THEN Unknown
                    ELSE states[ip]]

Event(ip, what) == [ip |-> ip, n |-> Cardinality(past) + 1, ts |-> clock, what |-> what]

Happens(event) ==
    /\ Cardinality(past) < MaxEvents
    /\ past' = past \cup {event}

-----------------------------------------------------------------------------
Tick ==
    /\ clock < LastTime
    /\ clock' = clock + 1
    /\ UNCHANGED <<ipStates, processed, refused, alerts, past, alerted>>

\* securityRateLimitMiddleware; a request that is refused counts as well.
LimitRequest(ip) ==
    LET old == PruneState(ipStates[ip])
        event == Event(ip, "request")
        requests == old.requests \cup {event}
    IN  /\ Happens(event)
        /\ ipStates' = [ipStates EXCEPT ![ip] =
               [old EXCEPT !.requests = requests, !.lastSeen = clock]]
        /\ refused' = IF Cardinality(requests) > RateMax THEN refused + 1 ELSE refused
        /\ UNCHANGED <<clock, processed, alerts, alerted>>

\* What an unlimited memory raises for ip, now that this event has happened.
Remember(ip) ==
    LET all == {e \in past' : e.ip = ip /\ e.what \in Outcomes}
        due == {p \in SuspiciousPatterns(Since(all, SuspiciousWindow),
                                         Since(Are(all, {"login"}), LoginWindow)) :
                  \A a \in alerted :
                      a.ip = ip /\ a.pattern = p => clock >= a.ts + Cooldown}
    IN  alerted' = alerted \cup {[ip |-> ip, pattern |-> p, ts |-> clock] : p \in due}

\* securityMetricsMiddleware, once the response has been sent.
FinishRequest(ip, outcome) ==
    LET old == PruneState(ipStates[ip])
        event == Event(ip, outcome)
        events == old.events \cup {event}
        logins == IF outcome = "login" THEN old.logins \cup {event} ELSE old.logins
        raised == Cool(SuspiciousPatterns(events, logins), old.lastAlert)
        new == [ipStates EXCEPT ![ip] =
                  [old EXCEPT !.events = events, !.logins = logins, !.lastSeen = clock,
                              !.lastAlert = [p \in Patterns |->
                                  IF p \in raised THEN clock ELSE @[p]]]]
    IN  /\ Happens(event)
        /\ alerts' = [p \in Patterns |-> IF p \in raised THEN alerts[p] + 1 ELSE alerts[p]]
        /\ processed' = processed + 1
        /\ ipStates' = IF processed' % CleanupEvery = 0 THEN CleanUp(new) ELSE new
        /\ Remember(ip)
        /\ UNCHANGED <<clock, refused>>

\* getSecurityMetricsSnapshot prunes every client.
TakeSnapshot ==
    /\ ipStates' = [ip \in Ips |-> PruneState(ipStates[ip])]
    /\ UNCHANGED <<clock, processed, refused, alerts, past, alerted>>

MonitorNext ==
    \/ Tick \/ TakeSnapshot
    \/ \E ip \in Ips : \/ LimitRequest(ip)
                       \/ \E outcome \in Outcomes : FinishRequest(ip, outcome)

MonitorSpec == MonitorInit /\ [][MonitorNext]_monitorVars

MonitorTypeOK ==
    /\ clock \in Cooldown .. LastTime
    /\ processed \in 0 .. MaxEvents /\ refused \in 0 .. MaxEvents
    /\ alerts \in [Patterns -> Nat]
    /\ \A ip \in Ips : ipStates[ip].lastSeen \in 0 .. clock

\* The requests that were one too many for the window of their client when they came.
TooMany ==
    {e \in Are(past, {"request"}) :
        Cardinality({f \in Are(past, {"request"}) :
                        /\ f.ip = e.ip /\ f.n <= e.n
                        /\ f.ts + RateWindow >= e.ts}) > RateMax}

\* The windows are exact and forgetting changes nothing: as many alerts of each
\* pattern are raised, and as many requests refused, as if every event had been
\* kept; so no client is alerted about twice within the cooldown, whatever the
\* clean-up has removed in between.
ForgettingChangesNothing ==
    /\ \A p \in Patterns : alerts[p] = Cardinality({a \in alerted : a.pattern = p})
    /\ refused = Cardinality(TooMany)
=============================================================================
