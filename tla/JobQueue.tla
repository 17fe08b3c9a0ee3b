------------------------------ MODULE JobQueue ------------------------------
(***************************************************************************)
(* The match queue of the platform: the jobs and matches tables shared by  *)
(* the matchmaker (which creates jobs and re-queues stale ones) and by any *)
(* number of acb-worker processes (which pick, claim, execute and submit). *)
(*                                                                         *)
(* Every committed SQL statement or transaction is one step.  A job and    *)
(* its match are in bijection (each INSERT INTO jobs has its own INSERT    *)
(* INTO matches), so both tables are indexed by the job.                   *)
(*                                                                         *)
(* Two inputs come from the series tables: the set of matches the ordering *)
(* gate holds back, and the jobs a transaction cancels.  Here they are     *)
(* arbitrary; SeriesPlay supplies the real ones.                           *)
(***************************************************************************)
EXTENDS Naturals, FiniteSets

CONSTANTS
  Jobs,        \* job ids the matchmaker may create
  Workers,     \* worker ids (ACB_WORKER_ID)
  Results,     \* what a match may end with: a winning bot or a draw
  NoWorker,    \* SQL NULL in jobs.worker_id
  NoJob,       \* a worker between two poll cycles holds no job
  NoResult,    \* a matches row without result columns
  MapsLoaded,  \* TRUE iff the maps table has a selectable row for every format
  MaxFaults    \* bound on crashes, lost connections and failed executions

ASSUME QueueConstants ==
  /\ NoWorker \notin Workers
  /\ NoJob \notin Jobs
  /\ NoResult \notin Results
  /\ MapsLoaded \in BOOLEAN
  /\ MaxFaults \in Nat

VARIABLES
  status,     \* jobs.status ("absent": no row yet)
  owner,      \* jobs.worker_id
  createdAt,  \* jobs.created_at, as the rank of the creating transaction
  stale,      \* jobs whose claimed_at is older than StaleJobMinutes
  mapped,     \* jobs whose matches.map_id names a row of maps
  match,      \* matches.status
  result,     \* matches.winner, condition, scores_json, ...
  pc,         \* where each worker is in pollAndExecute
  task,       \* the job a worker holds in its local variable
  reaping,    \* staleJobs, the local list of tickStaleReaper
  now,        \* number of creating transactions so far
  faults      \* faults so far

rows    == <<status, owner, createdAt, stale, mapped, match, result, now>>
workers == <<pc, task>>
vars    == <<status, owner, createdAt, stale, mapped, match, result,
             pc, task, reaping, now, faults>>

JobStatus   == {"absent", "pending", "claimed", "completed", "failed", "cancelled"}
MatchStatus == {"absent", "pending", "running", "completed", "failed", "cancelled"}
WorkerPC    == {"idle", "found", "executing", "failing"}

-----------------------------------------------------------------------------

Init ==
  /\ status = [j \in Jobs |-> "absent"]
  /\ owner = [j \in Jobs |-> NoWorker]
  /\ createdAt = [j \in Jobs |-> 0]
  /\ stale = {}
  /\ mapped = {}
  /\ match = [j \in Jobs |-> "absent"]
  /\ result = [j \in Jobs |-> NoResult]
  /\ pc = [w \in Workers |-> "idle"]
  /\ task = [w \in Workers |-> NoJob]
  /\ reaping = {}
  /\ now = 0
  /\ faults = 0

-----------------------------------------------------------------------------
(* The matchmaker *)

\* Which of the new matches js get a row of maps: selectMapLRU falls back to an id
\* made from the seed when no map is eligible.
MapChoices(js) == IF MapsLoaded THEN {js} ELSE SUBSET js

\* One transaction inserts the rows of the matches js; those of ms have a map.
InsertJobs(js, ms) ==
  /\ js # {} /\ \A j \in js : status[j] = "absent"
  /\ ms \in MapChoices(js)
  /\ status' = [j \in Jobs |-> IF j \in js THEN "pending" ELSE status[j]]
  /\ match' = [j \in Jobs |-> IF j \in js THEN "pending" ELSE match[j]]
  /\ createdAt' = [j \in Jobs |-> IF j \in js THEN now + 1 ELSE createdAt[j]]
  /\ now' = now + 1
  /\ mapped' = mapped \union ms
  /\ UNCHANGED <<owner, stale, result, pc, task, reaping, faults>>

\* Time passes: a claim becomes older than the reaper's threshold.
ClaimAges(j) ==
  /\ status[j] = "claimed" /\ j \notin stale
  /\ stale' = stale \union {j}
  /\ UNCHANGED <<status, owner, createdAt, mapped, match, result,
                 pc, task, reaping, now, faults>>

\* Mutant: the SELECT looks for the wrong status.
ReaperSelectPending ==
  /\ reaping = {}
  /\ reaping' = {j \in Jobs : status[j] = "pending" /\ j \in stale}
  /\ reaping' # {}
  /\ UNCHANGED <<rows, workers, faults>>

\* The SELECT of tickStaleReaper.
ReaperSelect ==
  /\ reaping = {}
  /\ reaping' = {j \in Jobs : status[j] = "claimed" /\ j \in stale}
  /\ reaping' # {}
  /\ UNCHANGED <<rows, workers, faults>>

\* UPDATE jobs SET status = 'pending', worker_id = NULL, claimed_at = NULL.
Requeue(j) ==
  /\ status' = [status EXCEPT ![j] = "pending"]
  /\ owner' = [owner EXCEPT ![j] = NoWorker]
  /\ stale' = stale \ {j}

\* Mutant: the UPDATE does not check the status again.
ReapJobUnchecked(j) ==
  /\ j \in reaping
  /\ reaping' = reaping \ {j}
  /\ Requeue(j)
  /\ UNCHANGED <<createdAt, mapped, match, result, workers, now, faults>>

\* One UPDATE of its loop: it checks the status again, not the claim's age.
ReapJob(j) ==
  /\ j \in reaping
  /\ reaping' = reaping \ {j}
  /\ \/ status[j] = "claimed" /\ Requeue(j)
     \/ status[j] # "claimed" /\ UNCHANGED <<status, owner, stale>>
  /\ UNCHANGED <<createdAt, mapped, match, result, workers, now, faults>>

\* A statement of the matchmaker fails or its process restarts: it goes on with
\* the part rs of the reaper's list, without an UPDATE for the others.
MatchmakerFault(rs) ==
  /\ rs \subseteq reaping /\ faults < MaxFaults
  /\ reaping' = rs
  /\ faults' = faults + 1
  /\ UNCHANGED <<rows, workers>>

-----------------------------------------------------------------------------
(* A worker's poll cycle *)

\* pollAndExecute returns; its locals are gone.
EndCycle(w) ==
  /\ pc' = [pc EXCEPT ![w] = "idle"]
  /\ task' = [task EXCEPT ![w] = NoJob]

\* Rows a concurrent transaction of another worker may hold locked: its claim
\* of a job it found, or its submission of a job it executed.
Locked(w) ==
  {task[v] : v \in {u \in Workers \ {w} : pc[u] \in {"found", "executing"}}}

\* SELECT ... ORDER BY created_at LIMIT 1 FOR UPDATE SKIP LOCKED, outside any
\* transaction: the row lock ends with the statement.
GetNextJob(w, blocked) ==
  /\ pc[w] = "idle"
  /\ \E j \in Jobs :
       LET runnable(i) == status[i] = "pending" /\ i \notin blocked IN
       /\ runnable(j)
       /\ \A i \in Jobs :
            runnable(i) /\ createdAt[i] < createdAt[j] => i \in Locked(w)
       /\ task' = [task EXCEPT ![w] = j]
  /\ pc' = [pc EXCEPT ![w] = "found"]
  /\ UNCHANGED <<rows, reaping, faults>>

\* Mutant: the UPDATE of jobs has lost its AND status = 'pending'.
ClaimJobAnyway(w) ==
  LET j == task[w] IN
  /\ pc[w] = "found"
  /\ j \in mapped
  /\ status' = [status EXCEPT ![j] = "claimed"]
  /\ owner' = [owner EXCEPT ![j] = w]
  /\ stale' = stale \ {j}
  /\ match' = [match EXCEPT ![j] = "running"]
  /\ pc' = [pc EXCEPT ![w] = "executing"]
  /\ UNCHANGED <<createdAt, mapped, result, task, reaping, now, faults>>

\* Mutant: the match is not shown as running.
ClaimJobQuietly(w) ==
  LET j == task[w]  won == status[j] = "pending" IN
  /\ pc[w] = "found"
  /\ j \in mapped
  /\ status' = IF won THEN [status EXCEPT ![j] = "claimed"] ELSE status
  /\ owner' = IF won THEN [owner EXCEPT ![j] = w] ELSE owner
  /\ stale' = IF won THEN stale \ {j} ELSE stale
  /\ pc' = [pc EXCEPT ![w] = "executing"]
  /\ UNCHANGED <<createdAt, mapped, match, result, task, reaping, now, faults>>

\* The UPDATE of jobs is conditional on 'pending', but how many rows it changed
\* is not looked at; the UPDATE of matches is unconditional.
ClaimJob(w) ==
  LET j == task[w]  won == status[j] = "pending" IN
  /\ pc[w] = "found"
  /\ j \in mapped
  /\ status' = IF won THEN [status EXCEPT ![j] = "claimed"] ELSE status
  /\ owner' = IF won THEN [owner EXCEPT ![j] = w] ELSE owner
  /\ stale' = IF won THEN stale \ {j} ELSE stale
  /\ match' = [match EXCEPT ![j] = "running"]
  /\ pc' = [pc EXCEPT ![w] = "executing"]
  /\ UNCHANGED <<createdAt, mapped, result, task, reaping, now, faults>>

\* A statement of the claim fails: the transaction rolls back and the poll cycle
\* ends.  "failed to get map" is permanent, any other failure is a fault.
ClaimError(w) ==
  /\ pc[w] = "found"
  /\ task[w] \in mapped => faults < MaxFaults
  /\ faults' = IF task[w] \in mapped THEN faults + 1 ELSE faults
  /\ EndCycle(w)
  /\ UNCHANGED <<rows, reaping>>

\* Rows after a transaction that also cancels the still pending ones of js.
Cancelled(f, js) ==
  [j \in Jobs |-> IF j \in js /\ f[j] = "pending" THEN "cancelled" ELSE f[j]]

\* The submitting transaction: no condition on the job's status or worker.
SubmitMatchResult(w, r, js) ==
  LET j == task[w] IN
  /\ pc[w] = "executing"
  /\ status' = Cancelled([status EXCEPT ![j] = "completed"], js)
  /\ match' = Cancelled([match EXCEPT ![j] = "completed"], js)
  /\ result' = [result EXCEPT ![j] = r]
  /\ EndCycle(w)
  /\ UNCHANGED <<owner, createdAt, stale, mapped, reaping, now, faults>>

\* executeMatch returned an error: the first statement of FailJob.
FailJob(w) ==
  LET j == task[w] IN
  /\ pc[w] = "executing"
  /\ faults < MaxFaults
  /\ faults' = faults + 1
  /\ \/ /\ owner[j] = w /\ status[j] = "claimed"
        /\ status' = [status EXCEPT ![j] = "failed"]
        /\ pc' = [pc EXCEPT ![w] = "failing"]
        /\ UNCHANGED task
     \/ /\ ~(owner[j] = w /\ status[j] = "claimed")
        /\ EndCycle(w)
        /\ UNCHANGED status
  /\ UNCHANGED <<owner, createdAt, stale, mapped, match, result, reaping, now>>

\* The second statement of FailJob, in no transaction with the first.
FailMatch(w) ==
  /\ pc[w] = "failing"
  /\ match' = [match EXCEPT ![task[w]] = "failed"]
  /\ EndCycle(w)
  /\ UNCHANGED <<status, owner, createdAt, stale, mapped, result,
                 reaping, now, faults>>

\* The process dies, is shut down, or a statement fails: the poll cycle ends
\* where it was and nothing is undone in the database.
WorkerFault(w) ==
  /\ pc[w] # "idle" /\ faults < MaxFaults
  /\ EndCycle(w)
  /\ faults' = faults + 1
  /\ UNCHANGED <<rows, reaping>>

-----------------------------------------------------------------------------
(* Series maintenance: two statements, each on its own *)

CancelJobs(js) ==
  /\ status' = Cancelled(status, js)
  /\ UNCHANGED <<owner, createdAt, stale, mapped, match, result,
                 workers, reaping, now, faults>>

CancelMatches(js) ==
  /\ match' = Cancelled(match, js)
  /\ UNCHANGED <<status, owner, createdAt, stale, mapped, result,
                 workers, reaping, now, faults>>

-----------------------------------------------------------------------------

\* Steps that involve neither creation, the gate nor cancellation.
ReaperStep == \/ ReaperSelect
              \/ \E j \in reaping : MatchmakerFault(reaping \ {j})
              \/ \E j \in Jobs : ClaimAges(j) \/ ReapJob(j)
PlainWorkerStep(w) ==
  ClaimJob(w) \/ ClaimError(w) \/ FailJob(w) \/ FailMatch(w) \/ WorkerFault(w)

Next ==
  \/ \E js \in SUBSET Jobs : \E ms \in SUBSET js : InsertJobs(js, ms)
  \/ ReaperStep \/ MatchmakerFault({}) \/ MatchmakerFault(reaping)
  \/ \E w \in Workers :
       \/ PlainWorkerStep(w)
       \/ \E js \in SUBSET Jobs : GetNextJob(w, js)
       \/ \E r \in Results, js \in SUBSET Jobs : SubmitMatchResult(w, r, js)
  \/ \E js \in SUBSET Jobs : CancelJobs(js) \/ CancelMatches(js)

Spec == Init /\ [][Next]_vars

\* Matches outside any series: each has a transaction of its own (createMatch),
\* the gate never holds them back and nothing cancels them.
StandaloneNext ==
  \/ \E j \in Jobs : \E ms \in SUBSET {j} : InsertJobs({j}, ms)
  \/ ReaperStep \/ MatchmakerFault({})
  \/ \E w \in Workers :
       \/ PlainWorkerStep(w)
       \/ GetNextJob(w, {})
       \/ \E r \in Results : SubmitMatchResult(w, r, {})

\* Tickers keep firing, time passes, and a match that runs comes to an end.
QueueFairness ==
  /\ WF_vars(ReaperSelect)
  /\ \A j \in Jobs : WF_vars(ClaimAges(j)) /\ WF_vars(ReapJob(j))
  /\ \A w \in Workers :
       /\ WF_vars(GetNextJob(w, {}))
       /\ WF_vars(ClaimJob(w) \/ ClaimError(w))
       /\ WF_vars(\E r \in Results : SubmitMatchResult(w, r, {}))
       /\ WF_vars(FailMatch(w))

StandaloneSpec == Init /\ [][StandaloneNext]_vars /\ QueueFairness

-----------------------------------------------------------------------------
(* Properties *)

\* Every column and every local variable keeps its declared domain.
TypeOK ==
  /\ status \in [Jobs -> JobStatus]
  /\ owner \in [Jobs -> Workers \union {NoWorker}]
  /\ createdAt \in [Jobs -> Nat]
  /\ stale \subseteq Jobs
  /\ mapped \subseteq Jobs
  /\ match \in [Jobs -> MatchStatus]
  /\ result \in [Jobs -> Results \union {NoResult}]
  /\ pc \in [Workers -> WorkerPC]
  /\ task \in [Workers -> Jobs \union {NoJob}]
  /\ \A w \in Workers : pc[w] = "idle" <=> task[w] = NoJob
  /\ reaping \subseteq Jobs
  /\ now \in Nat
  /\ faults \in Nat

\* A job shows a worker exactly while someone is answerable for it: a queued job
\* has none, a claimed or failed one has one, and the owner of a failed job is
\* no longer playing it, whatever claims, reaps and duplicate claims came
\* before (worker_id guards in FailJob, NULL in tickStaleReaper).
OwnerAnswers ==
  \A j \in Jobs :
    /\ status[j] \in {"absent", "pending"} => owner[j] = NoWorker
    /\ status[j] \in {"claimed", "failed"} => owner[j] \in Workers
    /\ status[j] = "failed" =>
         ~ (pc[owner[j]] \in {"found", "executing"} /\ task[owner[j]] = j)

\* Results and completion go together: a completed job has a recorded result and
\* no other job has one, although a submission may come from a worker that has
\* lost its claim.
ResultIffCompleted ==
  \A j \in Jobs : result[j] # NoResult <=> status[j] = "completed"

\* A match that was declared over is never played again: its job is not back in
\* the queue, not claimed and not cancelled.
OverIsNotRequeued ==
  \A j \in Jobs :
    /\ match[j] = "completed" => status[j] = "completed"
    /\ match[j] = "failed" => status[j] \in {"failed", "completed"}

\* While a claim stands the match is shown as running, and no match a worker is
\* playing is shown as pending or cancelled: viewers see it and nobody can still
\* enter a prediction for it (the API's open-match feed lists pending matches).
PlayedIsVisible ==
  /\ \A j \in Jobs : status[j] = "claimed" => match[j] = "running"
  /\ \A w \in Workers :
       pc[w] \in {"executing", "failing"} =>
         match[task[w]] \in {"running", "completed", "failed"}

\* A job a worker holds has a row, and a worker between the two statements of
\* FailJob holds a job whose failure is recorded (a late result may already have
\* replaced it).
HeldJobs ==
  \A w \in Workers :
    /\ pc[w] # "idle" => status[task[w]] # "absent"
    /\ pc[w] = "failing" => status[task[w]] \in {"failed", "completed"}

\* A row of matches appears with its row of jobs.
RowsTogether == \A j \in Jobs : status[j] = "absent" <=> match[j] = "absent"

\* The inductive invariant of the queue.
QueueInv ==
  /\ TypeOK
  /\ OwnerAnswers
  /\ ResultIffCompleted
  /\ OverIsNotRequeued
  /\ PlayedIsVisible
  /\ HeldJobs
  /\ RowsTogether

\* Completion is final: no late FailJob, reaper, duplicate claim or cancellation
\* takes a completed job to another status or erases its result.
CompletionIsFinal ==
  [][\A j \in Jobs : status[j] = "completed" =>
       status'[j] = "completed" /\ result'[j] # NoResult]_vars

\* A match leaves 'pending' once: neither the reaper nor a retry re-opens it.
NeverReopened ==
  [][\A j \in Jobs : match[j] \notin {"absent", "pending"} =>
       match'[j] \notin {"absent", "pending"}]_vars

\* The life of a match as it can be read from the two tables.
PublicPhase(j) ==
  IF status[j] = "absent" THEN "none"
  ELSE IF status[j] \in {"pending", "claimed"} THEN "open"
  ELSE IF status[j] = "completed" THEN "decided" ELSE "closed"

Life == INSTANCE MatchLife WITH
  Matches <- Jobs, Verdicts <- Results, NoVerdict <- NoResult,
  phase <- [j \in Jobs |-> PublicPhase(j)],
  verdict <- result,
  bets <- {j \in Jobs : match[j] = "pending"}

\* Whatever claims, duplicate claims, late failures, reaps and cancellations do to
\* the tables, a match lives as MatchLife says: posted once, closed to predictions
\* once and before it is decided, never brought back after it was given up, and
\* never without its verdict again once it has one.
LivesAsPromised == Life!LifeSpec

\* Every queued match is settled, although workers die, lose their connection
\* or have their claim reaped while they play: the reaper brings abandoned jobs
\* back.
EveryJobSettles ==
  \A j \in Jobs : status[j] = "pending" ~> status[j] \in {"completed", "failed"}

\* No two workers play the same match at the same time.
SingleExecution ==
  \A v, w \in Workers :
    v # w /\ pc[v] = "executing" /\ pc[w] = "executing" => task[v] # task[w]

=============================================================================
