---------------------------- MODULE SorobanSubmit ----------------------------
(***************************************************************************)
(* Submitting contract calls through a pool of RPC endpoints               *)
(* (SorobanRpcPool and submitTransaction, src/services/soroban.ts).        *)
(*                                                                         *)
(* A call tries the endpoints in the order of their health.  At each it    *)
(* reads the account's sequence number, builds a transaction on the next   *)
(* one and sends it, repeating the same transaction while answers are      *)
(* missing.  Network errors move the call to the next endpoint, where it   *)
(* builds another transaction; any answer to a send ties it to this one.   *)
(*                                                                         *)
(* The network is external: a transaction that reached it is applied when  *)
(* its sequence number is next, or expires; a send, and the answer to it,  *)
(* may be lost.  An endpoint's status is a function of its failures.       *)
(***************************************************************************)
EXTENDS Integers, Sequences

CONSTANTS
    Calls,
    Endpoints,         \* the configured URLs are 1 .. Endpoints
    FailureThreshold,
    SendAttempts       \* submitRetry.maxAttempts

ASSUME SubmitAssumption ==
    /\ Endpoints \in Nat \ {0}
    /\ FailureThreshold \in Nat \ {0}
    /\ SendAttempts \in Nat \ {0}

Urls == 1 .. Endpoints

VARIABLES
    failures,    \* consecutive failures of each endpoint
    probing,     \* endpoints with an unanswered probe
    call,        \* submitTransaction of each call
    mempool,     \* transactions on their way to the network or held by it
    applied,     \* transactions that took effect
    failedTxs,   \* transactions that only used up their sequence number
    sequence,    \* sequence number of the source account
    answered     \* history: transactions with an answered send

submitVars == <<failures, probing, call, mempool, applied, failedTxs, sequence, answered>>
network == <<mempool, applied, failedTxs, sequence>>

CallStages == {"idle", "not_requested", "not_configured",
               "building", "sending", "polling", "succeeded", "failed"}
Txs == [call : Calls, url : Urls, seq : Nat]

SubmitInit ==
    /\ failures = [u \in Urls |-> 0]
    /\ probing = {}
    /\ call = [c \in Calls |-> [at |-> "idle", url |-> 0, rest |-> <<>>, seq |-> 0, sends |-> 0]]
    /\ mempool = {} /\ applied = {} /\ failedTxs = {}
    /\ sequence = 0
    /\ answered = {}

Down(u) == failures[u] = FailureThreshold
Tx(c) == [call |-> c, url |-> call[c].url, seq |-> call[c].seq]

\* getOrderedUrls: healthy, then degraded, then down, each in configured order.
Health(u) == IF failures[u] = 0 THEN 0 ELSE IF Down(u) THEN 2 ELSE 1
Ordered(urls) ==
    \A i, j \in Urls : i < j =>
        \/ Health(urls[i]) < Health(urls[j])
        \/ Health(urls[i]) = Health(urls[j]) /\ urls[i] < urls[j]

\* The loop goes on to the next of urls that is available by then.
Advance(c, urls, unavailable) ==
    LET open == {i \in 1 .. Len(urls) : urls[i] \notin unavailable}
        i == CHOOSE i \in open : \A j \in open : i <= j
    IN  call' = [call EXCEPT ![c] =
            IF open = {} THEN [@ EXCEPT !.at = "failed"]
            ELSE [at |-> "building", url |-> urls[i], seq |-> 0, sends |-> 0,
                  rest |-> SubSeq(urls, i + 1, Len(urls))]]

RecordFailure(u) ==
    failures' = [failures EXCEPT ![u] = IF @ < FailureThreshold THEN @ + 1 ELSE @]

Abort(c) == call' = [call EXCEPT ![c].at = "failed"]

\* What the wrappers of submitTransaction answer: submitStake, submitCheckIn,
\* submitSlash, submitClaim, submitWithdraw and the payload builders catch every
\* error of it, whether or not a transaction is on its way.
Response(c) ==
    CASE call[c].at \in {"not_requested", "not_configured"} -> call[c].at
      [] call[c].at = "succeeded" -> "success"
      [] call[c].at = "failed" -> "error"
      [] OTHER -> "none"

\* Whether the service is configured does not change between calls.
Configured == \A c \in Calls : call[c].at # "not_configured"

\* A payload builder that is not asked to submit.
BuildOnly(c) ==
    /\ call[c].at = "idle"
    /\ call' = [call EXCEPT ![c].at = "not_requested"]
    /\ UNCHANGED <<failures, probing, network, answered>>

\* getSorobanConfig finds a setting missing.
NotConfigured(c) ==
    /\ call[c].at = "idle"
    /\ \A d \in Calls : call[d].at \in {"idle", "not_requested", "not_configured"}
    /\ call' = [call EXCEPT ![c].at = "not_configured"]
    /\ UNCHANGED <<failures, probing, network, answered>>

\* The default client has no submitStakeWithMemo.
NoSuchMethod(c) ==
    /\ call[c].at = "idle" /\ Configured
    /\ Abort(c)
    /\ UNCHANGED <<failures, probing, network, answered>>

Begin(c) ==
    /\ call[c].at = "idle" /\ Configured
    /\ \E urls \in [Urls -> Urls] :
          Ordered(urls) /\ Advance(c, urls, {u \in Urls : Down(u)})
    /\ UNCHANGED <<failures, probing, network, answered>>

\* A network error before any answer to a send: demote the endpoint, move on.
FailOver(c) ==
    /\ RecordFailure(call[c].url)
    /\ Advance(c, call[c].rest, {u \in Urls : failures'[u] = FailureThreshold})

\* getAccount, build and prepareTransaction.
Build(c) ==
    /\ call[c].at = "building"
    /\ \/ /\ call' = [call EXCEPT ![c].at = "sending", ![c].seq = sequence + 1]
          /\ UNCHANGED failures
       \/ FailOver(c)
       \/ Abort(c) /\ UNCHANGED failures
    /\ UNCHANGED <<probing, network, answered>>

\* A transaction whose sequence number is used up is refused.
Reaches(t) == t.seq > sequence

\* sendTransaction is answered: taken over, or put off (TRY_AGAIN_LATER).
SendAnswered(c) ==
    /\ call[c].at = "sending"
    /\ \/ Reaches(Tx(c)) /\ mempool' = mempool \cup {Tx(c)}
       \/ UNCHANGED mempool
    /\ call' = [call EXCEPT ![c].at = "polling"]
    /\ answered' = answered \cup {Tx(c)}
    /\ UNCHANGED <<failures, probing, applied, failedTxs, sequence>>

\* The answer is ERROR, also when an earlier send of it has been applied.
SendRefused(c) ==
    /\ call[c].at = "sending"
    /\ RecordFailure(call[c].url)
    /\ Abort(c)
    /\ answered' = answered \cup {Tx(c)}
    /\ UNCHANGED <<probing, network>>

\* No answer in time: the same transaction again, or another endpoint.
SendUnanswered(c) ==
    /\ call[c].at = "sending"
    /\ \/ Reaches(Tx(c)) /\ mempool' = mempool \cup {Tx(c)}
       \/ UNCHANGED mempool
    /\ \/ /\ call[c].sends + 1 < SendAttempts
          /\ call' = [call EXCEPT ![c].sends = @ + 1]
          /\ UNCHANGED failures
       \/ call[c].sends + 1 = SendAttempts /\ FailOver(c)
    /\ UNCHANGED <<probing, applied, failedTxs, sequence, answered>>

\* Another error of the client library.
SendThrows(c) ==
    /\ call[c].at = "sending"
    /\ Abort(c)
    /\ UNCHANGED <<failures, probing, network, answered>>

Confirm(c) ==
    /\ call[c].at = "polling"
    /\ Tx(c) \in applied
    /\ call' = [call EXCEPT ![c].at = "succeeded"]
    /\ failures' = [failures EXCEPT ![call[c].url] = 0]
    /\ UNCHANGED <<probing, network, answered>>

\* Mutant of PollFails: the call moves on to another endpoint.
PollFailsOver(c) ==
    /\ call[c].at = "polling"
    /\ FailOver(c)
    /\ UNCHANGED <<probing, network, answered>>

\* The transaction failed, is not found in time, or the poll fails.
PollFails(c) ==
    /\ call[c].at = "polling"
    /\ Abort(c)
    /\ UNCHANGED <<failures, probing, network, answered>>

\* _probeDownEndpoints: a health check of an endpoint that was down.
StartProbing(u) ==
    /\ Down(u)
    /\ u \notin probing
    /\ probing' = probing \cup {u}
    /\ UNCHANGED <<failures, call, network, answered>>

EndProbing(u) ==
    /\ u \in probing
    /\ probing' = probing \ {u}
    /\ failures' \in {failures, [failures EXCEPT ![u] = 0]}
    /\ UNCHANGED <<call, network, answered>>

-----------------------------------------------------------------------------
ApplyTx(t) ==
    /\ t.seq = sequence + 1
    /\ sequence' = t.seq
    /\ mempool' = mempool \ {t}
    /\ \/ applied' = applied \cup {t} /\ UNCHANGED failedTxs
       \/ failedTxs' = failedTxs \cup {t} /\ UNCHANGED applied
    /\ UNCHANGED <<failures, probing, call, answered>>

ExpireTx(t) ==
    /\ mempool' = mempool \ {t}
    /\ UNCHANGED <<failures, probing, call, applied, failedTxs, sequence, answered>>

SubmitNext ==
    \/ \E c \in Calls :
        \/ BuildOnly(c) \/ NotConfigured(c) \/ NoSuchMethod(c)
        \/ Begin(c) \/ Build(c)
        \/ SendAnswered(c) \/ SendRefused(c) \/ SendUnanswered(c) \/ SendThrows(c)
        \/ Confirm(c) \/ PollFails(c)
    \/ \E u \in Urls : StartProbing(u) \/ EndProbing(u)
    \/ \E t \in mempool : ApplyTx(t) \/ ExpireTx(t)

SubmitSpec == SubmitInit /\ [][SubmitNext]_submitVars

SubmitTypeOK ==
    /\ failures \in [Urls -> 0 .. FailureThreshold]
    /\ probing \subseteq Urls
    /\ call \in [Calls -> [at : CallStages, url : 0 .. Endpoints, rest : Seq(Urls),
                           seq : Nat, sends : 0 .. SendAttempts - 1]]
    /\ mempool \subseteq Txs /\ applied \subseteq Txs /\ failedTxs \subseteq Txs
    /\ sequence \in Nat
    /\ answered \subseteq Txs

\* soroban.ts:326: once a send is answered the call builds no other transaction.
\* So a call takes effect twice only through a transaction whose sends were
\* never answered, one reported successful has taken effect, and one reported
\* as not requested or not configured never will.
SubmittedOnce ==
    /\ \A t, u \in applied : t.call = u.call /\ t.seq < u.seq => t \notin answered
    /\ \A c \in Calls : Response(c) = "success" => Tx(c) \in applied
    /\ \A t \in mempool \cup applied :
          Response(t.call) \notin {"not_requested", "not_configured"}
=============================================================================
