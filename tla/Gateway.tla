-------------------------------- MODULE Gateway --------------------------------
(***************************************************************************)
(* create_gateway_app (src/tinyllm/serving/gateway.py): the lifespan       *)
(* around the backend supervisor, and the way of a chat request through    *)
(* rate limiter, semaphore and upstream call, streamed or not.             *)
(***************************************************************************)
EXTENDS BackendSupervisor, Sequences

CONSTANTS
    Requests,           \* the chat requests there can be at a time
    MaxConcurrency,     \* config.max_concurrency
    RateLimit,          \* config.requests_per_minute
    Minute,             \* the limiter's 60 seconds, in ticks of the clock
    MaxTime             \* bound: the last tick

ASSUME CapacityAssumption == MaxConcurrency \in Nat \ {0} /\ RateLimit \in Nat \ {0}
ASSUME ClockAssumption == Minute \in Nat \ {0} /\ MaxTime \in Nat

VARIABLES
    app,        \* where lifespan() is
    req,        \* by request: where its handler or its stream iterator is
    held,       \* by request: the stream filters hold back a partial frame
    slots,      \* the semaphore's value
    inflight,   \* the gauge metrics.inflight
    now,        \* the monotonic clock
    stamps,     \* the limiter's deque of timestamps
    admissions  \* history: when requests were admitted, one after the other

chatVars == <<req, held, slots, inflight>>
limiterVars == <<now, stamps, admissions>>
vars == <<supervisorVars, app, chatVars, limiterVars>>

NoChat == UNCHANGED <<chatVars, limiterVars>>
NoLifespan == UNCHANGED <<supervisorVars, app>>

InSlot == {"first", "second", "opened", "upstream", "sending", "flushing"}
Places == {"idle", "queued", "lost"} \cup InSlot

Init ==
    /\ SupervisorInit /\ app = "starting"
    /\ req = [r \in Requests |-> "idle"] /\ held = [r \in Requests |-> FALSE]
    /\ slots = MaxConcurrency /\ inflight = 0
    /\ now = 0 /\ stamps = <<>> /\ admissions = <<>>

-----------------------------------------------------------------------------
(* lifespan().                                                             *)

CallStart == app = "starting" /\ (Start \/ PreflightRejects) /\ UNCHANGED app /\ NoChat

\* supervisor.start() is over; agent_startup() may raise after it.
StartReturns ==
    /\ app = "starting" /\ starter \in {"ready", "failed"}
    /\ \/ starter = "ready" /\ app' = "serving"
       \/ app' = "failed"
    /\ UNCHANGED supervisorVars /\ NoChat

\* The server has stopped accepting and every response it has begun is over;
\* agent_shutdown() or backend.close() may raise before supervisor.stop().
BeginShutdown ==
    /\ app = "serving" /\ \A r \in Requests : req[r] \in {"idle", "lost"}
    /\ \/ app' = "stopping" /\ BeginStop /\ UNCHANGED starter
       \/ app' = "failed" /\ UNCHANGED supervisorVars
    /\ NoChat

ShutdownEnds ==
    /\ app = "stopping" /\ stopper \in {"done", "raised"}
    /\ app' = IF stopper = "done" THEN "ended" ELSE "failed"
    /\ UNCHANGED supervisorVars /\ NoChat

Supervise ==
    /\ app \in {"starting", "serving", "stopping"} /\ SupervisorStep
    /\ UNCHANGED app /\ NoChat

-----------------------------------------------------------------------------
(* authenticate() and the sliding window.                                  *)

\* The entries at the head of the deque that are not later than this.
Stale(t) == {i \in DOMAIN stamps : \A j \in 1..i : stamps[j] <= t}
After(t) == SubSeq(stamps, Cardinality(Stale(t)) + 1, Len(stamps))
\* Mutant: a window one tick too short.
FreshEarly == After(now - Minute + 1)
\* allow(): entries of now - 60 and before are dropped.
Fresh == After(now - Minute)
Allowed == Len(Fresh) < RateLimit

Admit ==
    /\ stamps' = Append(Fresh, now)
    /\ admissions' = Append(admissions, now)

\* GET /v1/models and /metrics pass the limiter as well; 429 otherwise.
OtherRequest ==
    /\ app = "serving"
    /\ \/ Allowed /\ Admit
       \/ ~Allowed /\ stamps' = Fresh /\ UNCHANGED admissions
    /\ UNCHANGED <<now, chatVars>> /\ NoLifespan

ChatRequest(r) ==
    /\ app = "serving" /\ req[r] = "idle" /\ Allowed /\ Admit
    /\ req' = [req EXCEPT ![r] = "queued"]
    /\ UNCHANGED <<now, held, slots, inflight>> /\ NoLifespan

Tick ==
    /\ now < MaxTime /\ now' = now + 1
    /\ UNCHANGED <<stamps, admissions, chatVars>> /\ NoLifespan

-----------------------------------------------------------------------------
(* chat().                                                                 *)

OnlyChat == NoLifespan /\ UNCHANGED limiterVars
Goes(r, place) == req' = [req EXCEPT ![r] = place]
\* The finally clauses: the gauge, the semaphore, the end of the request.
Release(r) ==
    /\ Goes(r, "idle") /\ held' = [held EXCEPT ![r] = FALSE]
    /\ slots' = slots + 1 /\ inflight' = inflight - 1

\* concurrency.acquire(), then backend.complete or a StreamingResponse.
Acquire(r) ==
    /\ req[r] = "queued" /\ slots > 0
    /\ slots' = slots - 1 /\ inflight' = inflight + 1
    /\ Goes(r, "first") \/ Goes(r, "opened")
    /\ UNCHANGED held /\ OnlyChat

\* Mutant: a finally clause around the acquisition that does not look at acquired.
QueueTimeoutReleases(r) ==
    /\ req[r] = "queued" /\ Goes(r, "idle")
    /\ slots' = slots + 1 /\ UNCHANGED <<held, inflight>> /\ OnlyChat
\* 503 queue_timeout.
QueueTimeout(r) ==
    /\ req[r] = "queued" /\ Goes(r, "idle")
    /\ UNCHANGED <<held, slots, inflight>> /\ OnlyChat

\* backend.complete: a transport error or 502..504 is tried once more.
Retry(r) ==
    /\ req[r] = "first" /\ Goes(r, "second")
    /\ UNCHANGED <<held, slots, inflight>> /\ OnlyChat
\* A body, or the error that is left.
CompleteEnds(r) ==
    /\ req[r] \in {"first", "second"} /\ Release(r) /\ OnlyChat

\* The body of the StreamingResponse is iterated for the first time.
StreamBegins(r) ==
    /\ req[r] = "opened" /\ Goes(r, "upstream")
    /\ UNCHANGED <<held, slots, inflight>> /\ OnlyChat

\* A chunk: the filters let something through, or keep all of it.
StreamChunk(r) ==
    /\ req[r] = "upstream"
    /\ \E h \in BOOLEAN, place \in {"upstream", "sending"} :
         held' = [held EXCEPT ![r] = h] /\ Goes(r, place)
    /\ UNCHANGED <<slots, inflight>> /\ OnlyChat
StreamSent(r) ==
    /\ req[r] = "sending" /\ Goes(r, "upstream")
    /\ UNCHANGED <<held, slots, inflight>> /\ OnlyChat

\* Upstream ends or fails: what the filters hold is yielded in the finally
\* clause, before the release.
StreamEnds(r) ==
    /\ req[r] = "upstream"
    /\ IF held[r] THEN Goes(r, "flushing") /\ UNCHANGED <<held, slots, inflight>>
                  ELSE Release(r)
    /\ OnlyChat
StreamFlushed(r) == req[r] = "flushing" /\ Release(r) /\ OnlyChat

\* The client has gone and the iterator is cancelled or closed.  With nothing
\* held back its finally clause runs to its end.  A yield in the finally
\* clause cuts it off before the release; one that never began has none.
CutOff(r) == req[r] \in {"opened", "flushing"} \/ held[r]
ClientLeaves(r) ==
    /\ req[r] \in {"opened", "upstream", "sending", "flushing"}
    /\ IF CutOff(r)
         THEN /\ Goes(r, "lost") /\ held' = [held EXCEPT ![r] = FALSE]
              /\ UNCHANGED <<slots, inflight>>
         ELSE Release(r)
    /\ OnlyChat

Chat(r) == \/ ChatRequest(r) \/ Acquire(r) \/ QueueTimeout(r) \/ Retry(r)
           \/ CompleteEnds(r) \/ StreamBegins(r) \/ StreamChunk(r)
           \/ StreamSent(r) \/ StreamEnds(r) \/ StreamFlushed(r)
           \/ ClientLeaves(r)

Lifespan == CallStart \/ StartReturns \/ BeginShutdown \/ ShutdownEnds
Next == \/ Lifespan \/ Supervise \/ OtherRequest \/ Tick
        \/ \E r \in Requests : Chat(r)

Spec == Init /\ [][Next]_vars

\* The event loop runs what is ready and every wait of the supervisor has a
\* timeout; nothing is assumed of the backend, the clients or the clock.
Fairness ==
    /\ WF_vars(CallStart) /\ WF_vars(StartReturns) /\ WF_vars(ShutdownEnds)
    /\ WF_vars(Supervise /\ (Stop \/ StartAborts \/ StartFails))
    /\ WF_vars(Supervise /\ \E w \in Waiters : HealthRead(w) \/ HealthFails(w))
FairSpec == Spec /\ Fairness

-----------------------------------------------------------------------------
(* Properties.                                                             *)

\* Every variable has its type.
TypeOK ==
    /\ SupervisorTypeOK
    /\ app \in {"starting", "serving", "stopping", "ended", "failed"}
    /\ req \in [Requests -> Places] /\ held \in [Requests -> BOOLEAN]
    /\ slots \in 0..MaxConcurrency /\ inflight \in 0..MaxConcurrency
    /\ now \in 0..MaxTime
    /\ stamps \in Seq(0..MaxTime) /\ Len(stamps) <= RateLimit
    /\ admissions \in Seq(0..MaxTime)

Holders == {r \in Requests : req[r] \in InSlot}

\* However requests end, no more than MaxConcurrency are upstream at a time.
AtMostMaxConcurrency == Cardinality(Holders) <= MaxConcurrency

\* In no minute, wherever it begins, are more than RateLimit requests admitted.
RateIsLimited ==
    \A i \in DOMAIN admissions : i + RateLimit <= Len(admissions) =>
        admissions[i + RateLimit] - admissions[i] >= Minute

\* A gateway that starts is serving or has failed sooner or later, and one that
\* stops ends, whatever the backend processes do.
LifespanGoesOn ==
    /\ app = "starting" ~> app \in {"serving", "failed"}
    /\ app = "stopping" ~> app \in {"ended", "failed"}

\* docs/m7_serving_contract.md: the semaphore limits the concurrency; the gauge
\* counts the current chat requests.  So a request that is over gives back its
\* slot and leaves the gauge.
InflightIsCurrent == inflight = Cardinality(Holders)
=============================================================================
