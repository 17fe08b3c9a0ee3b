--------------------------- MODULE JobQueueProofs ---------------------------
(***************************************************************************)
(* The queue's invariants for any number of jobs, workers, results and     *)
(* faults.  QueueInv is inductive: it adds to the four safety invariants   *)
(* the facts about what a worker in the middle of its poll cycle holds     *)
(* (HeldJobs, RowsTogether) without which none of them is preserved.       *)
(***************************************************************************)
EXTENDS JobQueue, TLAPS

\* The empty tables satisfy the invariant.
LEMMA QueueInit == Init => QueueInv
BY QueueConstants
   DEF Init, QueueInv, TypeOK, OwnerAnswers, ResultIffCompleted, OverIsNotRequeued,
       PlayedIsVisible, HeldJobs, RowsTogether, JobStatus, MatchStatus, WorkerPC

\* The matchmaker's and the reaper's statements preserve the invariant.
LEMMA MatchmakerSteps ==
  ASSUME QueueInv
  PROVE  /\ \A js \in SUBSET Jobs : \A ms \in SUBSET js : InsertJobs(js, ms) => QueueInv'
         /\ ReaperStep => QueueInv'
         /\ \A rs : MatchmakerFault(rs) => QueueInv'
<1> USE DEF QueueInv, OwnerAnswers, ResultIffCompleted, OverIsNotRequeued,
            PlayedIsVisible, HeldJobs, RowsTogether
<1>1. ASSUME NEW js \in SUBSET Jobs, NEW ms \in SUBSET js, InsertJobs(js, ms)
      PROVE  QueueInv'
  <2>1. TypeOK'
    BY <1>1 DEF InsertJobs, MapChoices, TypeOK, JobStatus, MatchStatus
  <2>2. (OwnerAnswers /\ ResultIffCompleted)'
    BY <1>1 DEF InsertJobs, MapChoices, TypeOK
  <2>3. (OverIsNotRequeued /\ PlayedIsVisible)'
    BY <1>1 DEF InsertJobs, MapChoices, TypeOK, WorkerPC
  <2>4. (HeldJobs /\ RowsTogether)'
    BY <1>1 DEF InsertJobs, MapChoices, TypeOK
  <2> QED BY <2>1, <2>2, <2>3, <2>4
<1>2. ASSUME NEW j \in Jobs, ClaimAges(j) PROVE QueueInv'
  BY <1>2 DEF ClaimAges, TypeOK
<1>3. CASE ReaperSelect
  BY <1>3 DEF ReaperSelect, TypeOK, rows, workers
<1>4. ASSUME NEW j \in Jobs, ReapJob(j) PROVE QueueInv'
  <2>1. TypeOK'
    BY <1>4 DEF ReapJob, Requeue, TypeOK, JobStatus, workers
  <2>2. (OwnerAnswers /\ ResultIffCompleted)'
    BY <1>4 DEF ReapJob, Requeue, TypeOK, workers
  <2>3. (OverIsNotRequeued /\ PlayedIsVisible)'
    BY <1>4 DEF ReapJob, Requeue, TypeOK, workers
  <2>4. (HeldJobs /\ RowsTogether)'
    BY <1>4 DEF ReapJob, Requeue, TypeOK, workers
  <2> QED BY <2>1, <2>2, <2>3, <2>4
<1>5. ASSUME NEW rs, MatchmakerFault(rs) PROVE QueueInv'
  BY <1>5 DEF MatchmakerFault, TypeOK, rows, workers
<1> QED BY <1>1, <1>2, <1>3, <1>4, <1>5 DEF ReaperStep

\* So do the steps of a worker.
LEMMA WorkerSteps ==
  ASSUME QueueInv, NEW w \in Workers
  PROVE  /\ PlainWorkerStep(w) => QueueInv'
         /\ \A js \in SUBSET Jobs : GetNextJob(w, js) => QueueInv'
         /\ \A r \in Results, js \in SUBSET Jobs : SubmitMatchResult(w, r, js) => QueueInv'
<1> USE QueueConstants
    DEF QueueInv, OwnerAnswers, ResultIffCompleted, OverIsNotRequeued,
        PlayedIsVisible, HeldJobs, RowsTogether
<1> DEFINE j == task[w]
<1>h. pc[w] # "idle" => j \in Jobs
  BY DEF TypeOK
<1>1. CASE ClaimJob(w)
  <2>1. TypeOK'
    BY <1>1, <1>h DEF ClaimJob, TypeOK, JobStatus, MatchStatus, WorkerPC
  <2>2. OwnerAnswers'
    BY <1>1, <1>h DEF ClaimJob, TypeOK
  <2>3. (ResultIffCompleted /\ OverIsNotRequeued /\ PlayedIsVisible)'
    BY <1>1, <1>h DEF ClaimJob, TypeOK
  <2>4. (HeldJobs /\ RowsTogether)'
    BY <1>1, <1>h DEF ClaimJob, TypeOK
  <2> QED BY <2>1, <2>2, <2>3, <2>4
<1>2. CASE ClaimError(w)
  BY <1>2, <1>h DEF ClaimError, EndCycle, TypeOK, WorkerPC, rows
<1>3. CASE FailJob(w)
  <2>1. TypeOK'
    BY <1>3, <1>h DEF FailJob, EndCycle, TypeOK, JobStatus, WorkerPC
  <2>2. (OwnerAnswers /\ ResultIffCompleted)'
    BY <1>3, <1>h DEF FailJob, EndCycle, TypeOK
  <2>3. (OverIsNotRequeued /\ PlayedIsVisible)'
    BY <1>3, <1>h DEF FailJob, EndCycle, TypeOK
  <2>4. (HeldJobs /\ RowsTogether)'
    BY <1>3, <1>h DEF FailJob, EndCycle, TypeOK
  <2> QED BY <2>1, <2>2, <2>3, <2>4
<1>4. CASE FailMatch(w)
  <2>1. TypeOK'
    BY <1>4, <1>h DEF FailMatch, EndCycle, TypeOK, MatchStatus, WorkerPC
  <2>2. (OwnerAnswers /\ ResultIffCompleted /\ OverIsNotRequeued)'
    BY <1>4, <1>h DEF FailMatch, EndCycle, TypeOK
  <2>3. (PlayedIsVisible /\ HeldJobs /\ RowsTogether)'
    BY <1>4, <1>h DEF FailMatch, EndCycle, TypeOK
  <2> QED BY <2>1, <2>2, <2>3
<1>5. CASE WorkerFault(w)
  BY <1>5 DEF WorkerFault, EndCycle, TypeOK, WorkerPC, rows
<1>6. ASSUME NEW js \in SUBSET Jobs, GetNextJob(w, js) PROVE QueueInv'
  <2>1. PICK i \in Jobs : status[i] = "pending" /\ task' = [task EXCEPT ![w] = i]
    BY <1>6 DEF GetNextJob
  <2>2. /\ pc[w] = "idle" /\ pc' = [pc EXCEPT ![w] = "found"]
        /\ UNCHANGED <<rows, reaping, faults>>
    BY <1>6 DEF GetNextJob
  <2> QED BY <2>1, <2>2 DEF TypeOK, WorkerPC, rows
<1>7. ASSUME NEW r \in Results, NEW js \in SUBSET Jobs, SubmitMatchResult(w, r, js)
      PROVE  QueueInv'
  <2> DEFINE s == [status EXCEPT ![j] = "completed"]
             m == [match EXCEPT ![j] = "completed"]
  <2>0. pc[w] = "executing" /\ j \in Jobs
    BY <1>7, <1>h DEF SubmitMatchResult
  <2>1. s \in [Jobs -> JobStatus] /\ m \in [Jobs -> MatchStatus]
    BY <2>0 DEF TypeOK, JobStatus, MatchStatus
  <2>2. /\ status' \in [Jobs -> JobStatus] /\ match' \in [Jobs -> MatchStatus]
        /\ \A i \in Jobs : \/ status'[i] = s[i]
                           \/ s[i] = "pending" /\ status'[i] = "cancelled"
        /\ \A i \in Jobs : \/ match'[i] = m[i]
                           \/ m[i] = "pending" /\ match'[i] = "cancelled"
    <3>1. status' = Cancelled(s, js) /\ match' = Cancelled(m, js)
      BY <1>7 DEF SubmitMatchResult
    <3> HIDE DEF s, m
    <3> QED BY <2>1, <3>1 DEF Cancelled, JobStatus, MatchStatus
  <2>3. /\ status'[j] = "completed" /\ match'[j] = "completed"
        /\ \A i \in Jobs \ {j} :
             /\ \/ status'[i] = status[i]
                \/ status[i] = "pending" /\ status'[i] = "cancelled"
             /\ \/ match'[i] = match[i]
                \/ match[i] = "pending" /\ match'[i] = "cancelled"
    BY <2>0, <2>2 DEF TypeOK
  <2>4. /\ result' = [result EXCEPT ![j] = r] /\ EndCycle(w)
        /\ UNCHANGED <<owner, createdAt, stale, mapped, reaping, now, faults>>
    BY <1>7 DEF SubmitMatchResult
  <2>5. TypeOK'
    BY <2>0, <2>2, <2>4 DEF TypeOK, EndCycle, WorkerPC
  <2>6. (OwnerAnswers /\ ResultIffCompleted)'
    BY <2>0, <2>3, <2>4 DEF TypeOK, EndCycle
  <2>7. (OverIsNotRequeued /\ PlayedIsVisible)'
    BY <2>0, <2>3, <2>4 DEF TypeOK, EndCycle
  <2>8. (HeldJobs /\ RowsTogether)'
    BY <2>0, <2>3, <2>4 DEF TypeOK, EndCycle
  <2> HIDE DEF s, m
  <2> QED BY <2>5, <2>6, <2>7, <2>8
<1> QED BY <1>1, <1>2, <1>3, <1>4, <1>5, <1>6, <1>7 DEF PlainWorkerStep

\* And so do the two cancelling statements of the series scheduler.
LEMMA CancelSteps ==
  ASSUME QueueInv, NEW js \in SUBSET Jobs, CancelJobs(js) \/ CancelMatches(js)
  PROVE  QueueInv'
<1> USE DEF QueueInv, OwnerAnswers, ResultIffCompleted, OverIsNotRequeued,
            PlayedIsVisible, HeldJobs, RowsTogether
<1>1. CASE CancelJobs(js)
  <2>1. /\ status' \in [Jobs -> JobStatus]
        /\ \A j \in Jobs : \/ status'[j] = status[j]
                           \/ status[j] = "pending" /\ status'[j] = "cancelled"
    BY <1>1 DEF CancelJobs, Cancelled, TypeOK, JobStatus
  <2>2. UNCHANGED <<owner, createdAt, stale, mapped, match, result,
                    pc, task, reaping, now, faults>>
    BY <1>1 DEF CancelJobs, workers
  <2> QED BY <2>1, <2>2 DEF TypeOK
<1>2. CASE CancelMatches(js)
  <2>1. /\ match' \in [Jobs -> MatchStatus]
        /\ \A j \in Jobs : \/ match'[j] = match[j]
                           \/ match[j] = "pending" /\ match'[j] = "cancelled"
    BY <1>2 DEF CancelMatches, Cancelled, TypeOK, MatchStatus
  <2>2. UNCHANGED <<status, owner, createdAt, stale, mapped, result,
                    pc, task, reaping, now, faults>>
    BY <1>2 DEF CancelMatches, workers
  <2> QED BY <2>1, <2>2 DEF TypeOK
<1> QED BY <1>1, <1>2

\* Every step of the queue preserves the invariant.
LEMMA QueueStep == QueueInv /\ [Next]_vars => QueueInv'
<1> SUFFICES ASSUME QueueInv, [Next]_vars PROVE QueueInv'
  OBVIOUS
<1>1. CASE UNCHANGED vars
  BY <1>1 DEF vars, QueueInv, TypeOK, OwnerAnswers, ResultIffCompleted,
              OverIsNotRequeued, PlayedIsVisible, HeldJobs, RowsTogether
<1>2. CASE Next
  BY <1>2, MatchmakerSteps, WorkerSteps, CancelSteps DEF Next
<1> QED BY <1>1, <1>2

\* The queue's invariant holds in every reachable state, for any number of jobs,
\* workers and faults (jobs/matches tables under ClaimJob, SubmitMatchResult,
\* FailJob, tickStaleReaper and the cancelling statements).
THEOREM QueueInvariant == Spec => []QueueInv
BY QueueInit, QueueStep, PTL DEF Spec

\* Columns and locals keep their domains.
THEOREM QueueTyped == Spec => []TypeOK
<1>1. QueueInv => TypeOK BY DEF QueueInv
<1> QED BY <1>1, QueueInvariant, PTL

\* A job has a worker exactly while someone answers for it.
THEOREM OwnersAnswer == Spec => []OwnerAnswers
<1>1. QueueInv => OwnerAnswers BY DEF QueueInv
<1> QED BY <1>1, QueueInvariant, PTL

\* A job is completed exactly when its result is recorded.
THEOREM ResultsAreComplete == Spec => []ResultIffCompleted
<1>1. QueueInv => ResultIffCompleted BY DEF QueueInv
<1> QED BY <1>1, QueueInvariant, PTL

\* A match declared over is never played again.
THEOREM OverStaysOutOfTheQueue == Spec => []OverIsNotRequeued
<1>1. QueueInv => OverIsNotRequeued BY DEF QueueInv
<1> QED BY <1>1, QueueInvariant, PTL

\* A match being played is shown as running or over, never as open.
THEOREM PlayIsVisible == Spec => []PlayedIsVisible
<1>1. QueueInv => PlayedIsVisible BY DEF QueueInv
<1> QED BY <1>1, QueueInvariant, PTL

\* What a single step does to a job: completed stays completed, and a match that
\* left 'pending' does not return to it.
OneWay(j) ==
  /\ status[j] = "completed" => status'[j] = "completed"
  /\ match[j] \notin {"absent", "pending"} => match'[j] \notin {"absent", "pending"}

\* No step of the queue goes the other way.
LEMMA OneWayStep ==
  ASSUME QueueInv, Next, NEW j \in Jobs
  PROVE  OneWay(j)
<1> USE DEF QueueInv, TypeOK, RowsTogether, OneWay
<1>1. CASE \E js \in SUBSET Jobs : \E ms \in SUBSET js : InsertJobs(js, ms)
  BY <1>1 DEF InsertJobs, MapChoices
<1>2. CASE ReaperStep \/ MatchmakerFault({}) \/ MatchmakerFault(reaping)
  BY <1>2 DEF ReaperStep, ReaperSelect, MatchmakerFault, ClaimAges, ReapJob, Requeue, rows
<1>3. ASSUME NEW w \in Workers, PlainWorkerStep(w) PROVE OneWay(j)
  <2>1. pc[w] # "idle" => task[w] \in Jobs
    OBVIOUS
  <2> QED BY <1>3, <2>1 DEF PlainWorkerStep, ClaimJob, ClaimError, FailJob, FailMatch,
                            WorkerFault, rows
<1>4. ASSUME NEW w \in Workers, NEW js \in SUBSET Jobs, GetNextJob(w, js)
      PROVE OneWay(j)
  BY <1>4 DEF GetNextJob, rows
<1>5. ASSUME NEW w \in Workers, NEW r \in Results, NEW js \in SUBSET Jobs,
             SubmitMatchResult(w, r, js)
      PROVE  OneWay(j)
  <2>1. pc[w] = "executing" /\ task[w] \in Jobs
    BY <1>5, QueueConstants DEF SubmitMatchResult
  <2> QED BY <1>5, <2>1 DEF SubmitMatchResult, Cancelled
<1>6. ASSUME NEW js \in SUBSET Jobs, CancelJobs(js) \/ CancelMatches(js)
      PROVE  OneWay(j)
  BY <1>6 DEF CancelJobs, CancelMatches, Cancelled
<1> QED BY <1>1, <1>2, <1>3, <1>4, <1>5, <1>6 DEF Next

\* No late failure, reaper, duplicate claim or cancellation undoes a completion.
THEOREM CompletionsAreFinal == Spec => CompletionIsFinal
<1>1. QueueInv /\ QueueInv' /\ [Next]_vars =>
        [\A j \in Jobs : status[j] = "completed" =>
           status'[j] = "completed" /\ result'[j] # NoResult]_vars
  BY OneWayStep DEF QueueInv, ResultIffCompleted, OneWay
<1> QED BY <1>1, QueueInvariant, PTL DEF Spec, CompletionIsFinal

\* A match that was claimed, finished or cancelled is never shown as open again.
THEOREM MatchesStayClosed == Spec => NeverReopened
<1>1. QueueInv /\ [Next]_vars =>
        [\A j \in Jobs : match[j] \notin {"absent", "pending"} =>
           match'[j] \notin {"absent", "pending"}]_vars
  BY OneWayStep DEF OneWay
<1> QED BY <1>1, QueueInvariant, PTL DEF Spec, NeverReopened

-----------------------------------------------------------------------------
(***************************************************************************)
(* The refinement: read through PublicPhase, the tables live as MatchLife  *)
(* says.  Every step of the queue is one step of a match's life or none.   *)
(***************************************************************************)

\* A step that leaves status, match and result alone is not seen.
LEMMA UnseenStep ==
  ASSUME UNCHANGED <<status, match, result>>
  PROVE  UNCHANGED Life!lifeVars
BY DEF Life!lifeVars, PublicPhase

\* The empty tables are a life's beginning.
LEMMA LifeBegins == Init => Life!LifeInit
BY DEF Init, Life!LifeInit, PublicPhase

\* What the steps of the matchmaker, the reaper and the scheduler's two
\* cancelling statements are in a match's life.
LEMMA MatchmakerLives ==
  ASSUME QueueInv
  PROVE  /\ \A js \in SUBSET Jobs : \A ms \in SUBSET js :
              InsertJobs(js, ms) => [Life!LifeNext]_(Life!lifeVars)
         /\ ReaperStep => [Life!LifeNext]_(Life!lifeVars)
         /\ \A rs : MatchmakerFault(rs) => [Life!LifeNext]_(Life!lifeVars)
         /\ \A js \in SUBSET Jobs :
              CancelJobs(js) \/ CancelMatches(js) => [Life!LifeNext]_(Life!lifeVars)
<1>1. ASSUME NEW js \in SUBSET Jobs, NEW ms \in SUBSET js, InsertJobs(js, ms)
      PROVE  Life!LifeNext
  <2>1. Life!Post(js)
    BY <1>1 DEF InsertJobs, Life!Post, PublicPhase, QueueInv, TypeOK
  <2> QED BY <2>1 DEF Life!LifeNext
<1>2. ASSUME NEW j \in Jobs, ReapJob(j) PROVE UNCHANGED Life!lifeVars
  BY <1>2 DEF ReapJob, Requeue, Life!lifeVars, PublicPhase, QueueInv, TypeOK
<1>3. ASSUME NEW j \in Jobs, ClaimAges(j) PROVE UNCHANGED Life!lifeVars
  BY <1>3, UnseenStep DEF ClaimAges
<1>4. ASSUME ReaperSelect PROVE UNCHANGED Life!lifeVars
  BY <1>4, UnseenStep DEF ReaperSelect, rows
<1>5. ASSUME NEW rs, MatchmakerFault(rs) PROVE UNCHANGED Life!lifeVars
  BY <1>5, UnseenStep DEF MatchmakerFault, rows
<1>6. ASSUME NEW js \in SUBSET Jobs, CancelJobs(js) PROVE Life!LifeNext
  <2> DEFINE ms == {j \in js : status[j] = "pending"}
  <2>1. Life!GiveUp(ms)
    BY <1>6 DEF CancelJobs, Cancelled, Life!GiveUp, Life!Closed, PublicPhase, QueueInv, TypeOK
  <2> QED BY <2>1 DEF Life!LifeNext
<1>7. ASSUME NEW js \in SUBSET Jobs, CancelMatches(js) PROVE Life!LifeNext
  <2>1. Life!CloseBets(js)
    BY <1>7 DEF CancelMatches, Cancelled, Life!CloseBets, PublicPhase, QueueInv, TypeOK
  <2> QED BY <2>1 DEF Life!LifeNext
<1> QED BY <1>1, <1>2, <1>3, <1>4, <1>5, <1>6, <1>7 DEF ReaperStep

\* What the steps of a worker are.
LEMMA WorkerLives ==
  ASSUME QueueInv, NEW w \in Workers
  PROVE  /\ PlainWorkerStep(w) => [Life!LifeNext]_(Life!lifeVars)
         /\ \A js \in SUBSET Jobs : GetNextJob(w, js) => [Life!LifeNext]_(Life!lifeVars)
         /\ \A r \in Results, js \in SUBSET Jobs :
              SubmitMatchResult(w, r, js) => [Life!LifeNext]_(Life!lifeVars)
<1> DEFINE j == task[w]
<1>h. pc[w] # "idle" => j \in Jobs
  BY QueueConstants DEF QueueInv, TypeOK
<1>1. ASSUME ClaimJob(w) PROVE Life!LifeNext
  <2>1. PICK ms \in SUBSET Jobs : ms = {j}
    BY <1>1, <1>h DEF ClaimJob
  <2>2. Life!CloseBets(ms)
    BY <1>1, <1>h, <2>1 DEF ClaimJob, Life!CloseBets, PublicPhase, QueueInv, TypeOK
  <2> QED BY <2>2 DEF Life!LifeNext
<1>2. ASSUME ClaimError(w) \/ WorkerFault(w) PROVE UNCHANGED Life!lifeVars
  BY <1>2, UnseenStep DEF ClaimError, WorkerFault, rows
<1>3. ASSUME FailJob(w) PROVE [Life!LifeNext]_(Life!lifeVars)
  <2>1. CASE owner[j] = w /\ status[j] = "claimed"
    <3>1. PICK ms \in SUBSET Jobs : ms = {j}
      BY <1>3, <1>h DEF FailJob
    <3>2. Life!GiveUp(ms)
      BY <1>3, <1>h, <2>1, <3>1
         DEF FailJob, Life!GiveUp, Life!Closed, PublicPhase, QueueInv, TypeOK
    <3> QED BY <3>2 DEF Life!LifeNext
  <2>2. CASE ~ (owner[j] = w /\ status[j] = "claimed")
    BY <1>3, <2>2, UnseenStep DEF FailJob
  <2> QED BY <2>1, <2>2
<1>4. ASSUME FailMatch(w) PROVE Life!LifeNext
  <2>1. PICK ms \in SUBSET Jobs : ms = {j}
    BY <1>4, <1>h DEF FailMatch
  <2>2. Life!CloseBets(ms)
    BY <1>4, <1>h, <2>1 DEF FailMatch, Life!CloseBets, PublicPhase, QueueInv, TypeOK
  <2> QED BY <2>2 DEF Life!LifeNext
<1>5. ASSUME NEW js \in SUBSET Jobs, GetNextJob(w, js) PROVE UNCHANGED Life!lifeVars
  BY <1>5, UnseenStep DEF GetNextJob, rows
<1>6. ASSUME NEW r \in Results, NEW js \in SUBSET Jobs, SubmitMatchResult(w, r, js)
      PROVE  Life!LifeNext
  <2> DEFINE given == {i \in js : status[i] = "pending" /\ i # j}
  <2>1. pc[w] = "executing" /\ j \in Jobs
    BY <1>6, <1>h DEF SubmitMatchResult
  <2>2. PublicPhase(j) # "none" /\ match[j] # "pending"
    BY <2>1 DEF QueueInv, TypeOK, HeldJobs, PlayedIsVisible, PublicPhase, JobStatus
  <2>3. Life!Decide(j, r, given, js)
    BY <1>6, <2>1, <2>2
       DEF SubmitMatchResult, Cancelled, Life!Decide, Life!Closed, PublicPhase, QueueInv, TypeOK
  <2> QED BY <2>1, <2>3 DEF Life!LifeNext
<1> QED BY <1>1, <1>2, <1>3, <1>4, <1>5, <1>6 DEF PlainWorkerStep

\* The queue implements the life of a match, for any number of matches, workers
\* and faults, and whatever the series tables hold back or cancel.
THEOREM QueueKeepsItsPromise == Spec => LivesAsPromised
<1>1. QueueInv /\ [Next]_vars => [Life!LifeNext]_(Life!lifeVars)
  <2> SUFFICES ASSUME QueueInv, [Next]_vars PROVE [Life!LifeNext]_(Life!lifeVars)
    OBVIOUS
  <2>1. CASE UNCHANGED vars
    BY <2>1, UnseenStep DEF vars
  <2>2. CASE Next
    BY <2>2, MatchmakerLives, WorkerLives DEF Next
  <2> QED BY <2>1, <2>2
<1> QED BY <1>1, LifeBegins, QueueInvariant, PTL DEF Spec, LivesAsPromised, Life!LifeSpec

=============================================================================
