---------------------------- MODULE RewardRouter ----------------------------
(* verl/experimental/reward/router/naive_router.py: requests to the reward    *)
(* model go to the worker with the lowest count and are retried there; each   *)
(* request is a coroutine, and they interleave at every await.                *)
EXTENDS Integers, FiniteSets

CONSTANTS NumWorkers, Requests, MaxAttempts

ASSUME WorkersAssumption == NumWorkers \in Nat \ {0}
ASSUME RequestsAssumption == IsFiniteSet(Requests)
ASSUME AttemptsAssumption == MaxAttempts \in Nat \ {0}

RewardWorkers == 1..NumWorkers   \* worker_urls, in the order given

VARIABLES requestCounts,   \* request_counts of each worker
          pc,              \* of each request: idle, sending, delayed, done or failed
          worker,          \* the worker selected for it, 0 before
          attempt          \* attempts made before this one
routerVars == <<requestCounts, pc, worker, attempt>>

\* min(request_counts): the first of the lowest.
LeastCounted(w) ==
  \A v \in RewardWorkers :
    \/ requestCounts[w] < requestCounts[v]
    \/ requestCounts[w] = requestCounts[v] /\ w <= v

SelectWorker(r) ==
  /\ pc[r] = "idle"
  /\ \E w \in RewardWorkers :
       /\ LeastCounted(w)
       /\ requestCounts' = [requestCounts EXCEPT ![w] = @ + 1]
       /\ worker' = [worker EXCEPT ![r] = w]
  /\ pc' = [pc EXCEPT ![r] = "sending"]
  /\ UNCHANGED attempt

\* Counts never go below zero.
ReleaseWorker(w) ==
  requestCounts' = [requestCounts EXCEPT ![w] = IF @ > 0 THEN @ - 1 ELSE 0]

Answer(r) ==
  /\ pc[r] = "sending"
  /\ ReleaseWorker(worker[r])
  /\ pc' = [pc EXCEPT ![r] = "done"]
  /\ UNCHANGED <<worker, attempt>>

\* A timeout, a refused connection or an unexpected error: after the last attempt the
\* request fails, before it is sent again to the same worker.
\* Mutant: the worker is released before every retry.
Retry_Releases(r) ==
  /\ pc[r] = "sending"
  /\ ReleaseWorker(worker[r])
  /\ IF attempt[r] < MaxAttempts - 1
     THEN pc' = [pc EXCEPT ![r] = "delayed"]
     ELSE pc' = [pc EXCEPT ![r] = "failed"]
  /\ UNCHANGED <<worker, attempt>>

Retry(r) ==
  /\ pc[r] = "sending"
  /\ pc' = [pc EXCEPT ![r] = IF attempt[r] < MaxAttempts - 1 THEN "delayed" ELSE "failed"]
  /\ UNCHANGED <<requestCounts, worker, attempt>>

\* The delay before the next attempt is over.
SendAgain(r) ==
  /\ pc[r] = "delayed"
  /\ pc' = [pc EXCEPT ![r] = "sending"]
  /\ attempt' = [attempt EXCEPT ![r] = @ + 1]
  /\ UNCHANGED <<requestCounts, worker>>

\* An HTTP error status is raised at once.
RaiseHttpError(r) ==
  /\ pc[r] = "sending"
  /\ pc' = [pc EXCEPT ![r] = "failed"]
  /\ UNCHANGED <<requestCounts, worker, attempt>>

RouterInit ==
  /\ requestCounts = [w \in RewardWorkers |-> 0]
  /\ pc = [r \in Requests |-> "idle"]
  /\ worker = [r \in Requests |-> 0]
  /\ attempt = [r \in Requests |-> 0]

RouterNext == \E r \in Requests :
  SelectWorker(r) \/ Answer(r) \/ Retry(r) \/ SendAgain(r) \/ RaiseHttpError(r)

RouterSpec == RouterInit /\ [][RouterNext]_routerVars

-----------------------------------------------------------------------------
Held(w)   == {r \in Requests : worker[r] = w /\ pc[r] \in {"sending", "delayed"}}
Failed(w) == {r \in Requests : worker[r] = w /\ pc[r] = "failed"}

\* Counts are numbers, and a request makes at most MaxAttempts attempts.
RouterTypeOK ==
  /\ requestCounts \in [RewardWorkers -> Nat]
  /\ pc \in [Requests -> {"idle", "sending", "delayed", "done", "failed"}]
  /\ worker \in [Requests -> RewardWorkers \cup {0}]
  /\ attempt \in [Requests -> 0..(MaxAttempts - 1)]

\* The count a worker is ranked by is, at any interleaving of answers, retries and errors,
\* the requests it holds and those that ever failed on it: no retry counts twice, no answer
\* is lost in the clamp at zero, and only failures are never given back.
CountsExplained ==
  \A w \in RewardWorkers : requestCounts[w] = Cardinality(Held(w) \cup Failed(w))

=============================================================================
