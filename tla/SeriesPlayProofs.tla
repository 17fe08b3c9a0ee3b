-------------------------- MODULE SeriesPlayProofs --------------------------
(***************************************************************************)
(* A series of any length, with any number of workers and faults, and with *)
(* the cancelling statements accepted or not.  A series is a use of the    *)
(* queue (SeriesUsesQueue), so every theorem of JobQueueProofs holds in    *)
(* it; SeriesInv adds what ties the series tables to the queue's.          *)
(***************************************************************************)
EXTENDS SeriesPlay, JobQueueProofs, FiniteSetTheorems

\* The winner of a game and the result of its match are written by the same
\* transaction, so the two columns never differ.
GamesAreResults == gameWinner = result

\* No game exists before its series, and the scheduler works on a series that does.
SeriesFirst ==
  series = "none" => sched = "idle" /\ \A k \in Jobs : status[k] = "absent"

\* A series nobody closed is not decided.
OpenIsUndecided == series # "completed" => \A b \in Bots : wins[b] < Needed

\* The inductive invariant of a series.
SeriesInv ==
  /\ QueueInv
  /\ SeriesTypeOK
  /\ GamesAreResults
  /\ SeriesFirst
  /\ OpenIsUndecided
  /\ GateOrder
  /\ TallyCoversGames

\* A series needs at least one win, and its games are finitely many.
LEMMA SeriesArithmetic ==
  /\ Needed \in Nat /\ Needed >= 1
  /\ IsFiniteSet(Jobs)
<1>1. Format \in Nat /\ Format >= 1 /\ Jobs = 1..Format
  BY SeriesConstants
<1>2. Needed \in Nat /\ Needed >= 1
  BY <1>1 DEF Needed
<1>3. IsFiniteSet(Jobs)
  BY <1>1, FS_Interval
<1> QED BY <1>2, <1>3

\* Every step of a series is a step of the queue or leaves the queue alone.
LEMMA SeriesStepIsQueueStep == [SeriesNext]_allVars => [Next]_vars
<1> SUFFICES ASSUME SeriesNext PROVE [Next]_vars
  BY DEF allVars
<1>1. CASE CreateSeries \/ CreateSeriesGamesFails
  BY <1>1 DEF CreateSeries, CreateSeriesGamesFails
<1>2. CASE CreateSeriesGames
  BY <1>2 DEF CreateSeriesGames, Next
<1>3. CASE SchedulerStep
  <2>1. CASE FinalizeRead \/ FinalizeWrite \/ StuckRead \/ StuckTally \/ AbandonSeries
    BY <2>1 DEF FinalizeRead, FinalizeWrite, StuckRead, StuckTally, AbandonSeries, CloseSeries
  <2>2. CASE CancelJobsStep \/ CancelMatchesStep
    <3>1. Decided \in SUBSET Jobs
      BY DEF Decided
    <3> QED BY <2>2, <3>1 DEF CancelJobsStep, CancelMatchesStep, Next
  <2>3. CASE RetireJobsStep \/ RetireMatchesStep
    <3>1. Jobs \in SUBSET Jobs
      OBVIOUS
    <3> QED BY <2>3, <3>1 DEF RetireJobsStep, RetireMatchesStep, Next
  <2> QED BY <1>3, <2>1, <2>2, <2>3 DEF SchedulerStep
<1>4. CASE SchedulerError \/ MatchmakerRestart
  BY <1>4 DEF SchedulerError, MatchmakerRestart, Next
<1>5. CASE ReaperStep
  BY <1>5 DEF Next
<1>6. ASSUME NEW w \in Workers, PlainWorkerStep(w) PROVE Next
  BY <1>6 DEF Next
<1>7. ASSUME NEW w \in Workers, GetNextJob(w, Blocking) PROVE Next
  <2>1. Blocking \in SUBSET Jobs
    BY DEF Blocking
  <2> QED BY <1>7, <2>1 DEF Next
<1>8. ASSUME NEW w \in Workers, NEW r \in Results, SubmitGame(w, r) PROVE Next
  <2>1. PICK js \in SUBSET Jobs : SubmitMatchResult(w, r, js)
    <3>1. Leftover(Recorded(task[w], r)) \in SUBSET Jobs /\ {} \in SUBSET Jobs
      BY DEF Leftover
    <3> QED BY <1>8, <3>1 DEF SubmitGame
  <2> QED BY <2>1 DEF Next
<1> QED BY <1>1, <1>2, <1>3, <1>4, <1>5, <1>6, <1>7, <1>8 DEF SeriesNext

\* A series is played through the queue: what SeriesPlay does to the jobs and
\* matches tables is a behaviour of JobQueue.
THEOREM SeriesUsesQueue == SeriesSpec => Spec
<1>1. SeriesInit => Init BY DEF SeriesInit
<1> QED BY <1>1, SeriesStepIsQueueStep, PTL DEF SeriesSpec, Spec

\* The steps of the queue that are no submission, pick or insertion record no
\* result, create no row and give nobody a job.
LEMMA QuietQueueSteps ==
  ASSUME QueueInv,
         \/ ReaperStep \/ UNCHANGED vars
         \/ \E rs : MatchmakerFault(rs)
         \/ \E js \in SUBSET Jobs : CancelJobs(js) \/ CancelMatches(js)
         \/ \E w \in Workers : PlainWorkerStep(w)
  PROVE  /\ result' = result
         /\ \A k \in Jobs : status[k] = "absent" => status'[k] = "absent"
         /\ \A w \in Workers : pc'[w] # "idle" => pc[w] # "idle" /\ task'[w] = task[w]
<1> USE DEF QueueInv, TypeOK
<1>1. CASE ReaperStep \/ UNCHANGED vars \/ \E rs : MatchmakerFault(rs)
  BY <1>1 DEF ReaperStep, ReaperSelect, MatchmakerFault, ClaimAges, ReapJob, Requeue,
              rows, workers, vars
<1>2. CASE \E js \in SUBSET Jobs : CancelJobs(js) \/ CancelMatches(js)
  BY <1>2 DEF CancelJobs, CancelMatches, Cancelled, workers
<1>3. ASSUME NEW w \in Workers, PlainWorkerStep(w)
      PROVE  /\ result' = result
             /\ \A k \in Jobs : status[k] = "absent" => status'[k] = "absent"
             /\ \A v \in Workers : pc'[v] # "idle" => pc[v] # "idle" /\ task'[v] = task[v]
  BY <1>3 DEF PlainWorkerStep, ClaimJob, ClaimError, FailJob, FailMatch, WorkerFault,
              EndCycle, rows
<1> QED BY <1>1, <1>2, <1>3

\* The tables of a series before its creation satisfy the invariant.
LEMMA SeriesBegins == SeriesInit => SeriesInv
<1> SUFFICES ASSUME SeriesInit PROVE SeriesInv
  OBVIOUS
<1>1. QueueInv
  BY QueueInit DEF SeriesInit
<1>2. SeriesTypeOK
  BY SeriesConstants DEF SeriesInit, SeriesTypeOK, SchedPC, Bots
<1>3. GamesAreResults /\ SeriesFirst /\ GateOrder
  BY DEF SeriesInit, Init, GamesAreResults, SeriesFirst, GateOrder
<1>4. OpenIsUndecided
  BY SeriesArithmetic DEF SeriesInit, OpenIsUndecided
<1>5. TallyCoversGames
  <2> SUFFICES ASSUME NEW b \in Bots
               PROVE  Cardinality({k \in Jobs : gameWinner[k] = b}) <= wins[b]
    BY DEF TallyCoversGames
  <2>1. b # NoResult
    BY SeriesConstants, QueueConstants DEF Bots
  <2>2. {k \in Jobs : gameWinner[k] = b} = {}
    BY <2>1 DEF SeriesInit
  <2> QED BY <2>2, FS_EmptySet DEF SeriesInit
<1> QED BY <1>1, <1>2, <1>3, <1>4, <1>5 DEF SeriesInv

\* What the scheduler decides on is a bot or nobody.
LEMMA LeaderIsBot == Leader \in Bots \union {NoResult}
BY DEF Leader, Bots

\* Steps that leave the series tables to the queue preserve the invariant.
LEMMA QueueStepsOfSeries ==
  ASSUME SeriesInv, QueueInv', UNCHANGED seriesVars,
         \/ ReaperStep
         \/ \E w \in Workers : PlainWorkerStep(w) \/ GetNextJob(w, Blocking)
  PROVE  SeriesInv'
<1> USE DEF SeriesInv
<1>1. (SeriesTypeOK /\ OpenIsUndecided /\ TallyCoversGames)'
  BY DEF seriesVars, SeriesTypeOK, OpenIsUndecided, TallyCoversGames
<1>2. CASE ReaperStep \/ \E w \in Workers : PlainWorkerStep(w)
  <2>1. /\ result' = result
        /\ \A k \in Jobs : status[k] = "absent" => status'[k] = "absent"
        /\ \A w \in Workers : pc'[w] # "idle" => pc[w] # "idle" /\ task'[w] = task[w]
    BY <1>2, QuietQueueSteps
  <2>2. (GamesAreResults /\ SeriesFirst /\ GateOrder)'
    BY <2>1 DEF GamesAreResults, SeriesFirst, GateOrder, seriesVars
  <2> QED BY <1>1, <2>2
<1>3. ASSUME NEW w \in Workers, GetNextJob(w, Blocking) PROVE SeriesInv'
  <2>1. PICK j \in Jobs : j \notin Blocking /\ task' = [task EXCEPT ![w] = j]
    BY <1>3 DEF GetNextJob
  <2>2. pc' = [pc EXCEPT ![w] = "found"] /\ result' = result /\ status' = status
    BY <1>3 DEF GetNextJob, rows
  <2>3. series = "active" => \A i \in Jobs : i < j => gameWinner[i] # NoResult
    BY <2>1 DEF Blocking
  <2>4. GateOrder'
    BY <2>1, <2>2, <2>3 DEF GateOrder, seriesVars, QueueInv, TypeOK
  <2>5. (GamesAreResults /\ SeriesFirst)'
    BY <2>2 DEF GamesAreResults, SeriesFirst, seriesVars
  <2> QED BY <1>1, <2>4, <2>5
<1> QED BY <1>2, <1>3

\* Creating a series and its games preserves it: nobody holds a game yet.
LEMMA CreationSteps ==
  ASSUME SeriesInv, QueueInv',
         CreateSeries \/ CreateSeriesGames \/ CreateSeriesGamesFails
  PROVE  SeriesInv'
<1> USE DEF SeriesInv
<1>1. (SeriesTypeOK /\ OpenIsUndecided /\ TallyCoversGames)'
  BY DEF CreateSeries, CreateSeriesGames, CreateSeriesGamesFails,
         SeriesTypeOK, SchedPC, OpenIsUndecided, TallyCoversGames
<1>2. CASE CreateSeries
  <2>1. \A w \in Workers : pc[w] = "idle"
    BY <1>2 DEF CreateSeries, SeriesFirst, QueueInv, HeldJobs, TypeOK
  <2> QED BY <1>1, <1>2, <2>1
          DEF CreateSeries, vars, GamesAreResults, SeriesFirst, GateOrder
<1>3. CASE CreateSeriesGames
  BY <1>1, <1>3 DEF CreateSeriesGames, InsertJobs, GamesAreResults, SeriesFirst, GateOrder
<1>4. CASE CreateSeriesGamesFails
  BY <1>1, <1>4 DEF CreateSeriesGamesFails, vars, GamesAreResults, SeriesFirst, GateOrder
<1> QED BY <1>2, <1>3, <1>4

\* So do the statements of the scheduler, its errors and its restarts: they
\* change no game and never re-open a series.
LEMMA SchedulerSteps ==
  ASSUME SeriesInv, QueueInv', SchedulerStep \/ SchedulerError \/ MatchmakerRestart
  PROVE  SeriesInv'
<1> USE DEF SeriesInv
<1>1. /\ wins' = wins /\ bonus' = bonus /\ gameWinner' = gameWinner
      /\ series' \in {series, "completed"}
      /\ series # "none" \/ MatchmakerRestart
  BY DEF SchedulerStep, SchedulerError, MatchmakerRestart, FinalizeRead, FinalizeWrite,
         CancelJobsStep, CancelMatchesStep, StuckRead, StuckTally, AbandonSeries,
         RetireJobsStep, RetireMatchesStep, CloseSeries, Goto, SeriesFirst
<1>2. SeriesTypeOK'
  <2>1. champion' \in {champion, leader} /\ leader' \in {leader, Leader, NoResult}
    BY DEF SchedulerStep, SchedulerError, MatchmakerRestart, FinalizeRead, FinalizeWrite,
           CancelJobsStep, CancelMatchesStep, StuckRead, StuckTally, AbandonSeries,
           RetireJobsStep, RetireMatchesStep, CloseSeries
  <2>2. sched' \in SchedPC
    BY DEF SchedulerStep, SchedulerError, MatchmakerRestart, FinalizeRead, FinalizeWrite,
           CancelJobsStep, CancelMatchesStep, StuckRead, StuckTally, AbandonSeries,
           RetireJobsStep, RetireMatchesStep, Goto, SchedPC
  <2> QED BY <1>1, <2>1, <2>2, LeaderIsBot DEF SeriesTypeOK
<1>3. /\ result' = result
      /\ \A k \in Jobs : status[k] = "absent" => status'[k] = "absent"
      /\ \A w \in Workers : pc'[w] # "idle" => pc[w] # "idle" /\ task'[w] = task[w]
  <2>1. Decided \in SUBSET Jobs /\ Jobs \in SUBSET Jobs
    BY DEF Decided
  <2>2. \/ UNCHANGED vars
        \/ \E rs : MatchmakerFault(rs)
        \/ \E js \in SUBSET Jobs : CancelJobs(js) \/ CancelMatches(js)
    BY <2>1 DEF SchedulerStep, SchedulerError, MatchmakerRestart, FinalizeRead,
                FinalizeWrite, CancelJobsStep, CancelMatchesStep, StuckRead, StuckTally,
                AbandonSeries, RetireJobsStep, RetireMatchesStep, CloseSeries
  <2> QED BY <2>2, QuietQueueSteps
<1>4. (GamesAreResults /\ OpenIsUndecided /\ GateOrder /\ TallyCoversGames)'
  BY <1>1, <1>3 DEF GamesAreResults, OpenIsUndecided, GateOrder, TallyCoversGames
<1>5. SeriesFirst'
  <2>1. CASE series # "none"
    BY <1>1, <2>1 DEF SeriesFirst
  <2>2. CASE MatchmakerRestart
    BY <1>3, <2>2 DEF MatchmakerRestart, SeriesFirst
  <2> QED BY <1>1, <2>1, <2>2
<1> QED BY <1>2, <1>4, <1>5

\* The games won by a bot, a set that recording one more winner changes by one game.
Won(b, games) == {k \in Jobs : games[k] = b}

\* Recording r as the winner of game k adds at most one game to r's, and none to
\* any other bot's; exactly one when the game had no winner.
LEMMA WonAfterRecording ==
  ASSUME SeriesTypeOK, NEW k \in Jobs, NEW r \in Results, NEW b \in Bots
  PROVE  /\ Cardinality(Won(b, gameWinner)) \in Nat
         /\ Cardinality(Won(b, Recorded(k, r))) \in Nat
         /\ b = r => Cardinality(Won(b, Recorded(k, r))) <= Cardinality(Won(b, gameWinner)) + 1
         /\ b # r => Cardinality(Won(b, Recorded(k, r))) <= Cardinality(Won(b, gameWinner))
         /\ gameWinner[k] = NoResult =>
              Cardinality(Won(b, Recorded(k, r)))
                = IF b = r THEN Cardinality(Won(b, gameWinner)) + 1
                           ELSE Cardinality(Won(b, gameWinner))
<1> DEFINE old == Won(b, gameWinner)
           new == Won(b, Recorded(k, r))
<1>1. /\ IsFiniteSet(old) /\ IsFiniteSet(new)
      /\ Cardinality(old) \in Nat /\ Cardinality(new) \in Nat
  <2>1. old \subseteq Jobs /\ new \subseteq Jobs
    BY DEF Won
  <2> HIDE DEF old, new
  <2> QED BY <2>1, SeriesArithmetic, FS_Subset, FS_CardinalityType
<1>2. /\ b = r => new = old \union {k}
      /\ b # r => new = old \ {k}
  BY DEF Won, Recorded, SeriesTypeOK
<1>3. b # NoResult
  BY SeriesConstants, QueueConstants DEF Bots
<1>4. gameWinner[k] = NoResult => k \notin old
  BY <1>3 DEF Won
<1> HIDE DEF old, new
<1>5. /\ Cardinality(old \union {k}) = IF k \in old THEN Cardinality(old) ELSE Cardinality(old) + 1
      /\ Cardinality(old \ {k}) = IF k \in old THEN Cardinality(old) - 1 ELSE Cardinality(old)
  BY <1>1, FS_AddElement, FS_RemoveElement
<1>6. Cardinality(old \union {k}) <= Cardinality(old) + 1 /\ Cardinality(old \ {k}) <= Cardinality(old)
  BY <1>1, <1>5
<1>7. /\ b = r => Cardinality(new) <= Cardinality(old) + 1
      /\ b # r => Cardinality(new) <= Cardinality(old)
  BY <1>2, <1>6
<1>8. gameWinner[k] = NoResult =>
        Cardinality(new) = IF b = r THEN Cardinality(old) + 1 ELSE Cardinality(old)
  BY <1>2, <1>4, <1>5
<1> QED BY <1>1, <1>7, <1>8 DEF old, new

\* What a tally is after one more result.
LEMMA TallyAfter ==
  ASSUME SeriesTypeOK, NEW r \in Results
  PROVE  /\ Tally(r) \in [Bots -> Nat]
         /\ \A b \in Bots : Tally(r)[b] = IF b = r THEN wins[b] + 1 ELSE wins[b]
<1>1. r = Draw \/ r \in Bots
  BY SeriesConstants DEF Bots
<1>2. Draw \notin Bots
  BY SeriesConstants DEF Bots
<1>3. CASE r = Draw
  BY <1>2, <1>3 DEF Tally, SeriesTypeOK
<1>4. CASE r \in Bots
  BY <1>2, <1>4 DEF Tally, SeriesTypeOK
<1> QED BY <1>1, <1>3, <1>4

\* The submitting transaction preserves the invariant, even for a game that was
\* submitted before and for a series that is over.
LEMMA SubmissionStep ==
  ASSUME SeriesInv, QueueInv', NEW w \in Workers, NEW r \in Results, SubmitGame(w, r)
  PROVE  SeriesInv'
<1> USE DEF SeriesInv
<1> DEFINE k == task[w]
           tally == Tally(r)
           over == r # Draw /\ \E b \in Bots : tally[b] >= Needed
<1>1. pc[w] = "executing" /\ k \in Jobs
  BY QueueConstants DEF SubmitGame, SubmitMatchResult, QueueInv, TypeOK
<1>2. /\ gameWinner' = [gameWinner EXCEPT ![k] = r]
      /\ result' = [result EXCEPT ![k] = r]
      /\ EndCycle(w)
  BY DEF SubmitGame, SubmitMatchResult, Recorded
<1>3. /\ wins' = tally
      /\ series' = IF over THEN "completed" ELSE series
      /\ champion' \in {champion, BotA, BotB}
      /\ \/ bonus' = bonus
         \/ \E b \in Bots : bonus' = [bonus EXCEPT ![b] = @ + 1]
      /\ sched' = sched /\ leader' = leader
  BY DEF SubmitGame, Bots
<1>4. /\ tally \in [Bots -> Nat]
      /\ \A b \in Bots : tally[b] = IF b = r THEN wins[b] + 1 ELSE wins[b]
  BY TallyAfter
<1>5. SeriesTypeOK'
  <2>1. gameWinner' \in [Jobs -> Results \union {NoResult}]
    BY <1>1, <1>2 DEF SeriesTypeOK
  <2>2. bonus' \in [Bots -> Nat]
    BY <1>3 DEF SeriesTypeOK
  <2>3. wins' \in [Bots -> Nat]
    BY <1>3, <1>4
  <2>4. /\ series' \in {"none", "active", "completed"}
        /\ champion' \in Bots \union {NoResult}
        /\ sched' \in SchedPC /\ leader' \in Bots \union {NoResult}
    BY <1>3 DEF SeriesTypeOK, Bots
  <2> QED BY <2>1, <2>2, <2>3, <2>4 DEF SeriesTypeOK
<1>6. GamesAreResults'
  BY <1>2 DEF GamesAreResults
<1>7. series # "none"
  BY <1>1 DEF SeriesFirst, QueueInv, HeldJobs
<1>8. SeriesFirst'
  BY <1>3, <1>7 DEF SeriesFirst
<1>9. OpenIsUndecided'
  <2> SUFFICES ASSUME series' # "completed", NEW b \in Bots PROVE wins'[b] < Needed
    BY DEF OpenIsUndecided
  <2>1. ~ over /\ series # "completed"
    BY <1>3
  <2>2. CASE r = Draw
    <3>1. b # r
      BY <2>2, SeriesConstants DEF Bots
    <3> QED BY <1>3, <1>4, <2>1, <3>1 DEF OpenIsUndecided
  <2>3. CASE r # Draw
    <3>1. ~ (tally[b] >= Needed) /\ tally[b] \in Nat
      BY <1>4, <2>1, <2>3
    <3> HIDE DEF tally
    <3> QED BY <1>3, <3>1, SeriesArithmetic
  <2> QED BY <2>2, <2>3
<1>10. GateOrder'
  <2> SUFFICES ASSUME NEW v \in Workers, pc'[v] # "idle", series' = "active",
                      NEW i \in Jobs, i < task'[v]
               PROVE  gameWinner'[i] # NoResult
    BY DEF GateOrder
  <2>1. v # w /\ pc[v] # "idle" /\ task'[v] = task[v]
    BY <1>2 DEF EndCycle, QueueInv, TypeOK
  <2>2. gameWinner[i] # NoResult
    BY <1>3, <2>1 DEF GateOrder
  <2>3. r # NoResult
    BY QueueConstants
  <2> QED BY <1>2, <2>2, <2>3 DEF SeriesTypeOK
<1>11. TallyCoversGames'
  <2> SUFFICES ASSUME NEW b \in Bots PROVE Cardinality(Won(b, gameWinner')) <= wins'[b]
    BY DEF TallyCoversGames, Won
  <2>1. Cardinality(Won(b, gameWinner)) <= wins[b] /\ wins[b] \in Nat
    BY DEF TallyCoversGames, Won, SeriesTypeOK
  <2>2. gameWinner' = Recorded(k, r)
    BY <1>2 DEF Recorded
  <2>3. /\ Cardinality(Won(b, gameWinner)) \in Nat
        /\ Cardinality(Won(b, gameWinner')) \in Nat
        /\ b = r => Cardinality(Won(b, gameWinner')) <= Cardinality(Won(b, gameWinner)) + 1
        /\ b # r => Cardinality(Won(b, gameWinner')) <= Cardinality(Won(b, gameWinner))
    BY <1>1, <2>2, WonAfterRecording
  <2>4. wins'[b] = IF b = r THEN wins[b] + 1 ELSE wins[b]
    BY <1>3, <1>4
  <2> QED BY <2>1, <2>3, <2>4
<1> QED BY <1>5, <1>6, <1>8, <1>9, <1>10, <1>11

\* Every step of a series preserves its invariant.
LEMMA SeriesStep == SeriesInv /\ [SeriesNext]_allVars => SeriesInv'
<1> SUFFICES ASSUME SeriesInv, [SeriesNext]_allVars PROVE SeriesInv'
  OBVIOUS
<1>1. QueueInv'
  BY SeriesStepIsQueueStep, QueueStep DEF SeriesInv
<1>2. CASE UNCHANGED allVars
  BY <1>1, <1>2 DEF allVars, seriesVars, vars, SeriesInv, SeriesTypeOK, GamesAreResults,
                    SeriesFirst, OpenIsUndecided, GateOrder, TallyCoversGames
<1>3. CASE SeriesNext
  BY <1>1, <1>3, CreationSteps, SchedulerSteps, QueueStepsOfSeries, SubmissionStep
     DEF SeriesNext
<1> QED BY <1>2, <1>3

\* The invariant holds in every reachable state of a series.
THEOREM SeriesInvariant == SeriesSpec => []SeriesInv
BY SeriesBegins, SeriesStep, PTL DEF SeriesSpec

\* The scheduler's result pass and the threshold pass of its finalisation find no
\* work, for series of any length and any number of workers (updateSeriesResult
\* in the submitting transaction).
THEOREM NothingIsLeftToPropagate == SeriesSpec => []NothingToPropagate
<1>1. SeriesInv => NothingToPropagate
  <2> SUFFICES ASSUME SeriesInv PROVE NothingToPropagate
    OBVIOUS
  <2>1. UnrecordedGames = {}
    BY DEF SeriesInv, QueueInv, GamesAreResults, ResultIffCompleted, OverIsNotRequeued,
           UnrecordedGames
  <2>2. series = "active" => \A b \in Bots : wins[b] < Needed
    BY DEF SeriesInv, OpenIsUndecided
  <2> QED BY <2>1, <2>2 DEF NothingToPropagate
<1> QED BY <1>1, SeriesInvariant, PTL

\* Whoever holds a game of an active series, every earlier game has its result,
\* whatever claims were reaped and repeated meanwhile (seriesgate.Blocking).
THEOREM GamesGoInOrder == SeriesSpec => []GateOrder
<1>1. SeriesInv => GateOrder BY DEF SeriesInv
<1> QED BY <1>1, SeriesInvariant, PTL

\* No recorded win is missing from a_wins and b_wins, even if several workers
\* submit the same game.
THEOREM TallyCovers == SeriesSpec => []TallyCoversGames
<1>1. SeriesInv => TallyCoversGames BY DEF SeriesInv
<1> QED BY <1>1, SeriesInvariant, PTL

\* In a series, too, a completed game stays completed and a match lives as
\* MatchLife says: the gate and the cancellations are a use of the queue.
THEOREM SeriesKeepsQueuePromises == SeriesSpec => CompletionIsFinal /\ LivesAsPromised
BY SeriesUsesQueue, CompletionsAreFinal, QueueKeepsItsPromise, PTL

-----------------------------------------------------------------------------
(***************************************************************************)
(* Any number of workers, and the maintenance pass as deployed: its        *)
(* statement is rejected, so nothing abandons a series.  Then the books of *)
(* a series are exact as long as no game is held by two workers at once,   *)
(* for every format and any number of crashes, reaps and failures: games   *)
(* played twice are the only way they go wrong.                            *)
(* Neither hypothesis can be dropped: two workers that hold one game count *)
(* it twice, and a best-of-five that is abandoned while a game is claimed  *)
(* can be decided, and rewarded, twice.                                    *)
(***************************************************************************)

\* A database that rejects the cancelling statement.
Deployed == ~ SQLAccepted

\* A game somebody holds has no result yet.
HeldIsOpen == \A w \in Workers : pc[w] # "idle" => status[task[w]] # "completed"

\* In an active series a game is claimed only after all earlier ones were played.
ClaimsInOrder ==
  series = "active" =>
    \A j \in Jobs : status[j] = "claimed" =>
      \A i \in Jobs : i < j => gameWinner[i] # NoResult

\* Once a series is closed no game of it is in the queue or being played.
ClosedIsQuiet ==
  series = "completed" =>
    /\ \A j \in Jobs : status[j] \notin {"pending", "claimed"}
    /\ \A w \in Workers : pc[w] = "idle"

\* What the scheduler knows at each of the places it gets to.
SchedulerKnows ==
  /\ sched \in {"idle", "creating", "finalizing", "cancelJobs"}
  /\ sched = "creating" => series = "active" /\ \A k \in Jobs : status[k] = "absent"
  /\ sched = "finalizing" => \A k \in Jobs : gameWinner[k] # NoResult

\* The inductive invariant of a series whose games are played alone.
SoloInv ==
  /\ SeriesInv
  /\ HeldIsOpen
  /\ ClaimsInOrder
  /\ ClosedIsQuiet
  /\ SchedulerKnows
  /\ TallyMatchesGames
  /\ BonusOnce

\* The tables before the series is created satisfy it.
LEMMA SoloBegins == SeriesInit => SoloInv
<1> SUFFICES ASSUME SeriesInit PROVE SoloInv
  OBVIOUS
<1>1. SeriesInv
  BY SeriesBegins
<1>2. HeldIsOpen /\ ClaimsInOrder /\ ClosedIsQuiet /\ SchedulerKnows
  BY DEF SeriesInit, Init, HeldIsOpen, ClaimsInOrder, ClosedIsQuiet, SchedulerKnows
<1>3. TallyMatchesGames
  <2> SUFFICES ASSUME NEW b \in Bots
               PROVE  Cardinality({k \in Jobs : gameWinner[k] = b}) = wins[b]
    BY DEF TallyMatchesGames
  <2>1. b # NoResult
    BY SeriesConstants, QueueConstants DEF Bots
  <2>2. {k \in Jobs : gameWinner[k] = b} = {}
    BY <2>1 DEF SeriesInit
  <2> QED BY <2>2, FS_EmptySet DEF SeriesInit
<1>4. BonusOnce
  BY SeriesArithmetic DEF SeriesInit, BonusOnce
<1> QED BY <1>1, <1>2, <1>3, <1>4 DEF SoloInv

\* Steps that submit nothing: what they do to the rows and the worker.
LEMMA SoloQueueSteps ==
  ASSUME SoloInv, SeriesInv', UNCHANGED seriesVars,
         \/ ReaperStep
         \/ \E w \in Workers : PlainWorkerStep(w) \/ GetNextJob(w, Blocking)
  PROVE  SoloInv'
<1> USE DEF SoloInv
<1>0. (TallyMatchesGames /\ BonusOnce)'
  BY DEF seriesVars, TallyMatchesGames, BonusOnce
<1>t. TypeOK /\ HeldJobs /\ (TypeOK /\ HeldJobs)'
  BY DEF SeriesInv, QueueInv
<1>1. CASE ReaperStep
  <2>1. /\ \A k \in Jobs : \/ status'[k] = status[k]
                           \/ status[k] = "claimed" /\ status'[k] = "pending"
        /\ pc' = pc /\ task' = task
    <3>1. CASE ReaperSelect \/ \E j \in reaping : MatchmakerFault(reaping \ {j})
      BY <3>1 DEF ReaperSelect, MatchmakerFault, rows, workers
    <3>2. CASE \E j \in Jobs : ClaimAges(j)
      BY <3>2 DEF ClaimAges
    <3>3. ASSUME NEW j \in Jobs, ReapJob(j)
          PROVE  /\ \A k \in Jobs : \/ status'[k] = status[k]
                                    \/ status[k] = "claimed" /\ status'[k] = "pending"
                 /\ pc' = pc /\ task' = task
      BY <3>3, <1>t DEF ReapJob, Requeue, workers, TypeOK
    <3> QED BY <1>1, <3>1, <3>2, <3>3 DEF ReaperStep
  <2>2. HeldIsOpen'
    BY <1>t, <2>1, QueueConstants DEF HeldIsOpen, TypeOK
  <2>3. (ClaimsInOrder /\ ClosedIsQuiet /\ SchedulerKnows)'
    BY <2>1 DEF ClaimsInOrder, ClosedIsQuiet, SchedulerKnows, seriesVars
  <2> QED BY <1>0, <2>2, <2>3
<1>2. ASSUME NEW w \in Workers, PlainWorkerStep(w) PROVE SoloInv'
  <2>1. pc[w] # "idle" /\ task[w] \in Jobs /\ status[task[w]] \notin {"absent", "completed"}
    BY <1>2, <1>t, QueueConstants DEF PlainWorkerStep, ClaimJob, ClaimError, FailJob,
       FailMatch, WorkerFault, HeldIsOpen, HeldJobs, TypeOK
  <2>2. series # "completed" /\ sched # "creating"
    BY <2>1 DEF ClosedIsQuiet, SchedulerKnows
  <2>3. /\ \A k \in Jobs : \/ status'[k] = status[k]
                           \/ k = task[w] /\ status'[k] \in {"claimed", "failed"}
        /\ \A v \in Workers : pc'[v] # "idle" => pc[v] # "idle" /\ task'[v] = task[v]
    <3> USE <1>t, <2>1 DEF TypeOK
    <3>1. CASE ClaimJob(w)
      BY <3>1 DEF ClaimJob
    <3>2. CASE ClaimError(w) \/ WorkerFault(w) \/ FailMatch(w)
      BY <3>2 DEF ClaimError, WorkerFault, FailMatch, EndCycle, rows
    <3>3. CASE FailJob(w)
      BY <3>3 DEF FailJob, EndCycle
    <3> QED BY <1>2, <3>1, <3>2, <3>3 DEF PlainWorkerStep
  <2>4. HeldIsOpen'
    BY <1>t, <2>3, QueueConstants DEF HeldIsOpen, TypeOK
  <2>5. series = "active" => \A i \in Jobs : i < task[w] => gameWinner[i] # NoResult
    BY <2>1 DEF SeriesInv, GateOrder
  <2>6. ClaimsInOrder'
    BY <2>3, <2>5 DEF ClaimsInOrder, seriesVars
  <2>7. (ClosedIsQuiet /\ SchedulerKnows)'
    BY <2>2 DEF ClosedIsQuiet, SchedulerKnows, seriesVars
  <2> QED BY <1>0, <2>4, <2>6, <2>7
<1>3. ASSUME NEW w \in Workers, GetNextJob(w, Blocking) PROVE SoloInv'
  <2>1. PICK j \in Jobs : status[j] = "pending" /\ task' = [task EXCEPT ![w] = j]
    BY <1>3 DEF GetNextJob
  <2>2. pc' = [pc EXCEPT ![w] = "found"] /\ status' = status
    BY <1>3 DEF GetNextJob, rows
  <2>3. HeldIsOpen'
    BY <1>t, <2>1, <2>2 DEF HeldIsOpen, TypeOK
  <2>4. series # "completed"
    BY <2>1 DEF ClosedIsQuiet
  <2>5. (ClaimsInOrder /\ ClosedIsQuiet /\ SchedulerKnows)'
    BY <2>2, <2>4 DEF ClaimsInOrder, ClosedIsQuiet, SchedulerKnows, seriesVars
  <2> QED BY <1>0, <2>3, <2>5
<1> QED BY <1>1, <1>2, <1>3

\* The steps of the scheduler; it closes a series only when all games were played.
LEMMA SoloSchedulerSteps ==
  ASSUME SoloInv, SeriesInv', Deployed,
         \/ CreateSeries \/ CreateSeriesGames \/ CreateSeriesGamesFails
         \/ SchedulerStep \/ SchedulerError \/ MatchmakerRestart
  PROVE  SoloInv'
<1> USE DEF SoloInv
<1>t. TypeOK /\ HeldJobs
  BY DEF SeriesInv, QueueInv
<1>0. wins' = wins /\ bonus' = bonus /\ gameWinner' = gameWinner
  BY DEF CreateSeries, CreateSeriesGames, CreateSeriesGamesFails, SchedulerStep,
         SchedulerError, MatchmakerRestart, FinalizeRead, FinalizeWrite,
         CancelJobsStep, CancelMatchesStep, StuckRead, StuckTally, AbandonSeries,
         RetireJobsStep, RetireMatchesStep, CloseSeries
<1>1. TallyMatchesGames'
  BY <1>0 DEF TallyMatchesGames
<1>2. CASE CreateSeries
  <2>1. /\ \A k \in Jobs : status'[k] = "absent"
        /\ pc' = pc /\ task' = task /\ status' = status
        /\ series = "none" /\ series' = "active" /\ champion' = champion /\ sched' = "creating"
    BY <1>2 DEF CreateSeries, SeriesInv, SeriesFirst, vars
  <2>2. (HeldIsOpen /\ ClaimsInOrder /\ ClosedIsQuiet /\ SchedulerKnows)'
    BY <2>1 DEF HeldIsOpen, ClaimsInOrder, ClosedIsQuiet, SchedulerKnows
  <2>3. BonusOnce'
    BY <1>0, <2>1 DEF BonusOnce
  <2> QED BY <1>1, <2>2, <2>3
<1>3. CASE CreateSeriesGames
  <2>1. /\ \A k \in Jobs : status'[k] = "pending"
        /\ pc' = pc /\ task' = task
        /\ series = "active" /\ series' = series /\ champion' = champion /\ sched' = "idle"
    BY <1>3 DEF CreateSeriesGames, InsertJobs, SchedulerKnows
  <2>2. \A w \in Workers : pc[w] = "idle"
    BY <1>3, <1>t, QueueConstants DEF CreateSeriesGames, SchedulerKnows, HeldJobs, TypeOK
  <2>3. (HeldIsOpen /\ ClaimsInOrder /\ ClosedIsQuiet /\ SchedulerKnows)'
    BY <2>1, <2>2 DEF HeldIsOpen, ClaimsInOrder, ClosedIsQuiet, SchedulerKnows
  <2>4. BonusOnce'
    BY <1>0, <2>1 DEF BonusOnce
  <2> QED BY <1>1, <2>3, <2>4
<1>4. CASE FinalizeWrite
  <2>1. /\ status' = status /\ pc' = pc /\ task' = task /\ sched' = "cancelJobs"
        /\ series' = "completed" /\ champion' = IF series = "active" THEN leader ELSE champion
        /\ \A k \in Jobs : gameWinner[k] # NoResult
    BY <1>4 DEF FinalizeWrite, CloseSeries, Goto, vars, SchedulerKnows
  <2>2. \A k \in Jobs : status[k] = "completed"
    BY <2>1 DEF SeriesInv, QueueInv, GamesAreResults, ResultIffCompleted
  <2>3. \A w \in Workers : pc[w] = "idle"
    BY <1>t, <2>2, QueueConstants DEF HeldIsOpen, TypeOK
  <2>4. (HeldIsOpen /\ ClaimsInOrder /\ ClosedIsQuiet /\ SchedulerKnows)'
    BY <2>1, <2>2, <2>3 DEF HeldIsOpen, ClaimsInOrder, ClosedIsQuiet, SchedulerKnows
  <2>5. series = "active" => \A b \in Bots : ~ (wins[b] >= Needed)
    BY SeriesArithmetic DEF SeriesInv, OpenIsUndecided, SeriesTypeOK
  <2>6. series \in {"active", "completed"}
    BY <1>4 DEF FinalizeWrite, Goto, SeriesInv, SeriesFirst, SeriesTypeOK
  <2>7. BonusOnce'
    BY <1>0, <2>1, <2>5, <2>6 DEF BonusOnce
  <2> QED BY <1>1, <2>4, <2>7
<1>5. CASE \/ CreateSeriesGamesFails \/ FinalizeRead \/ CancelJobsStep
           \/ SchedulerError \/ MatchmakerRestart
  <2>1. /\ status' = status /\ pc' = pc /\ task' = task
        /\ series' = series /\ champion' = champion
    BY <1>5 DEF CreateSeriesGamesFails, FinalizeRead, CancelJobsStep, SchedulerError,
       MatchmakerRestart, MatchmakerFault, Deployed, rows, workers, vars
  <2>2. SchedulerKnows'
    BY <1>0, <1>5, <2>1 DEF CreateSeriesGamesFails, FinalizeRead, CancelJobsStep,
       SchedulerError, MatchmakerRestart, Deployed, SchedulerKnows, AllPlayed, Goto
  <2>3. (HeldIsOpen /\ ClaimsInOrder /\ ClosedIsQuiet /\ BonusOnce)'
    BY <1>0, <2>1 DEF HeldIsOpen, ClaimsInOrder, ClosedIsQuiet, BonusOnce
  <2> QED BY <1>1, <2>2, <2>3
<1>6. CASE \/ CancelMatchesStep \/ StuckRead \/ StuckTally \/ AbandonSeries
           \/ RetireJobsStep \/ RetireMatchesStep
  BY <1>6 DEF CancelMatchesStep, StuckRead, StuckTally, AbandonSeries, RetireJobsStep,
              RetireMatchesStep, Goto, SchedulerKnows
<1> QED BY <1>2, <1>3, <1>4, <1>5, <1>6 DEF SchedulerStep

\* The submitting transaction: it finds an active series, and if it decides it,
\* nothing of the series is left in the queue or in flight.
LEMMA SoloSubmission ==
  ASSUME SoloInv, SeriesInv', PlayedAlone,
         NEW w \in Workers, NEW r \in Results, SubmitGame(w, r)
  PROVE  SoloInv'
<1> USE DEF SoloInv
<1> DEFINE k == task[w]
           tally == Tally(r)
           over == r # Draw /\ \E b \in Bots : tally[b] >= Needed
           first == IF tally[BotA] >= Needed THEN BotA ELSE BotB
<1>t. TypeOK /\ SeriesTypeOK /\ HeldJobs /\ ResultIffCompleted /\ gameWinner = result
  BY DEF SeriesInv, QueueInv, GamesAreResults
<1>1. /\ pc[w] = "executing" /\ k \in Jobs
      /\ status[k] \notin {"absent", "completed"} /\ gameWinner[k] = NoResult
  BY <1>t, QueueConstants DEF SubmitGame, SubmitMatchResult, TypeOK, HeldIsOpen, HeldJobs,
     ResultIffCompleted
<1>2. series = "active" /\ sched # "creating"
  BY <1>1, <1>t DEF ClosedIsQuiet, SchedulerKnows, SeriesTypeOK, SeriesInv, SeriesFirst
<1>3. sched # "finalizing"
  BY <1>1 DEF SchedulerKnows
<1>4. /\ gameWinner' = [gameWinner EXCEPT ![k] = r]
      /\ wins' = tally
      /\ series' = IF over THEN "completed" ELSE series
      /\ champion' = IF over THEN first ELSE champion
      /\ bonus' = IF over THEN [bonus EXCEPT ![first] = @ + 1] ELSE bonus
      /\ sched' = sched
      /\ EndCycle(w)
  BY DEF SubmitGame, SubmitMatchResult, Recorded
<1>5. /\ status'[k] = "completed"
      /\ \A j \in Jobs \ {k} :
           \/ status'[j] = status[j]
           \/ status'[j] = "cancelled"
      /\ over => \A j \in Jobs \ {k} :
                   gameWinner[j] = NoResult => status'[j] # "pending"
  <2> DEFINE s == [status EXCEPT ![k] = "completed"]
             js == IF over THEN Leftover(Recorded(k, r)) ELSE {}
  <2>1. status' = Cancelled(s, js)
    BY DEF SubmitGame, SubmitMatchResult
  <2>2. s[k] = "completed" /\ \A j \in Jobs \ {k} : s[j] = status[j]
    BY <1>t, <1>1 DEF TypeOK
  <2>3. over => \A j \in Jobs \ {k} : gameWinner[j] = NoResult => j \in js
    BY <1>t DEF Leftover, Recorded, SeriesTypeOK
  <2> HIDE DEF s, js, over
  <2> QED BY <1>1, <2>1, <2>2, <2>3 DEF Cancelled
<1>6. \A v \in Workers : pc'[v] = "idle"
  <2> SUFFICES ASSUME NEW v \in Workers, v # w, pc[v] # "idle" PROVE FALSE
    BY <1>t, <1>4 DEF EndCycle, TypeOK
  <2>1. task[v] \in Jobs /\ task[v] # k
    BY <1>t, QueueConstants DEF PlayedAlone, HeldJobs, TypeOK
  <2>2. gameWinner[task[v]] = NoResult
    BY <1>t, <2>1, QueueConstants DEF HeldIsOpen, ResultIffCompleted, TypeOK
  <2>3. ~ (k < task[v]) /\ ~ (task[v] < k)
    BY <1>1, <1>2, <2>1, <2>2 DEF SeriesInv, GateOrder
  <2>4. k \in Nat /\ task[v] \in Nat
    BY <1>1, <2>1, SeriesConstants
  <2> QED BY <2>1, <2>3, <2>4
<1>7. HeldIsOpen'
  BY <1>6 DEF HeldIsOpen
<1>8. ClaimsInOrder'
  <2>1. r # NoResult
    BY QueueConstants
  <2>2. \A i \in Jobs : gameWinner[i] # NoResult => gameWinner'[i] # NoResult
    BY <1>t, <1>4, <2>1 DEF SeriesTypeOK
  <2>3. \A j \in Jobs : status'[j] = "claimed" => status[j] = "claimed"
    BY <1>5
  <2> QED BY <1>2, <2>2, <2>3 DEF ClaimsInOrder
<1>9. ClosedIsQuiet'
  <2> SUFFICES ASSUME series' = "completed", NEW j \in Jobs
               PROVE  status'[j] \notin {"pending", "claimed"}
    BY <1>6 DEF ClosedIsQuiet
  <2>0. over
    BY <1>2, <1>4
  <2>1. CASE j = k
    BY <1>5, <2>1
  <2>2. CASE j # k /\ gameWinner[j] # NoResult
    <3>1. status[j] = "completed"
      BY <1>t, <2>2 DEF ResultIffCompleted
    <3> QED BY <1>5, <2>2, <3>1
  <2>3. CASE j # k /\ gameWinner[j] = NoResult
    <3>1. j \in Nat /\ k \in Nat
      BY <1>1, SeriesConstants
    <3>2. ~ (j < k)
      BY <1>1, <1>2, <2>3 DEF SeriesInv, GateOrder
    <3>3. k < j
      BY <2>3, <3>1, <3>2
    <3>4. status[j] # "claimed"
      BY <1>1, <1>2, <3>3 DEF ClaimsInOrder
    <3> QED BY <1>5, <2>0, <2>3, <3>4
  <2> QED BY <2>1, <2>2, <2>3
<1>10. SchedulerKnows'
  BY <1>2, <1>3, <1>4 DEF SchedulerKnows
<1>11. /\ tally \in [Bots -> Nat]
       /\ \A b \in Bots : tally[b] = IF b = r THEN wins[b] + 1 ELSE wins[b]
  BY <1>t, TallyAfter
<1>12. TallyMatchesGames'
  <2> SUFFICES ASSUME NEW b \in Bots PROVE Cardinality(Won(b, gameWinner')) = wins'[b]
    BY DEF TallyMatchesGames, Won
  <2>1. Cardinality(Won(b, gameWinner)) = wins[b]
    BY DEF TallyMatchesGames, Won
  <2>2. gameWinner' = Recorded(k, r)
    BY <1>4 DEF Recorded
  <2>3. Cardinality(Won(b, gameWinner')) = IF b = r THEN wins[b] + 1 ELSE wins[b]
    BY <1>1, <1>t, <2>1, <2>2, WonAfterRecording
  <2> QED BY <1>4, <1>11, <2>3
<1>13. BonusOnce'
  <2>n. Needed \in Nat
    BY SeriesArithmetic
  <2>1. \A b \in Bots : wins[b] \in Nat /\ wins[b] < Needed
    BY <1>2, <1>t DEF SeriesInv, OpenIsUndecided, SeriesTypeOK
  <2>2. \A b \in Bots : bonus[b] = 0
    BY <1>2, <1>t DEF BonusOnce, SeriesTypeOK
  <2>3. CASE over
    <3>1. r \in Bots /\ tally[r] = wins[r] + 1
      BY <1>11, <2>3, SeriesConstants DEF Bots
    <3>2. \A b \in Bots \ {r} : ~ (tally[b] >= Needed)
      BY <1>11, <2>n, <2>1
    <3>3. tally[r] >= Needed /\ tally[r] = Needed
      BY <2>n, <2>1, <2>3, <3>1, <3>2
    <3>4. first = r
      BY <3>1, <3>2, <3>3 DEF Bots
    <3>5. bonus' = [bonus EXCEPT ![r] = @ + 1] /\ champion' = r /\ series' = "completed"
      BY <1>4, <2>3, <3>4
    <3>6. bonus'[r] = 1 /\ \A b \in Bots \ {r} : bonus'[b] = 0
      BY <1>t, <2>2, <3>1, <3>5 DEF SeriesTypeOK
    <3>7. wins'[r] = Needed
      BY <1>4, <3>3
    <3> HIDE DEF tally, over, first
    <3> QED BY <3>1, <3>5, <3>6, <3>7 DEF BonusOnce
  <2>4. CASE ~ over
    <3>1. \A b \in Bots : ~ (wins'[b] >= Needed)
      <4>1. CASE r = Draw
        <5>1. \A b \in Bots : b # r
          BY <4>1, SeriesConstants DEF Bots
        <5> QED BY <1>4, <1>11, <2>n, <2>1, <5>1
      <4>2. CASE r # Draw
        BY <1>4, <2>4, <4>2
      <4> QED BY <4>1, <4>2
    <3>2. \A b \in Bots : bonus'[b] = 0
      BY <1>4, <2>2, <2>4
    <3> QED BY <3>1, <3>2 DEF BonusOnce
  <2> QED BY <2>3, <2>4
<1> QED BY <1>7, <1>8, <1>9, <1>10, <1>12, <1>13

\* Every step preserves it.
LEMMA SoloStep ==
  ASSUME Deployed
  PROVE  SoloInv /\ PlayedAlone /\ [SeriesNext]_allVars => SoloInv'
<1> SUFFICES ASSUME SoloInv, PlayedAlone, [SeriesNext]_allVars PROVE SoloInv'
  OBVIOUS
<1>1. SeriesInv'
  BY SeriesStep DEF SoloInv
<1>2. CASE UNCHANGED allVars
  BY <1>1, <1>2 DEF allVars, seriesVars, vars, SoloInv, HeldIsOpen, ClaimsInOrder,
                    ClosedIsQuiet, SchedulerKnows, TallyMatchesGames, BonusOnce
<1>3. CASE SeriesNext
  BY <1>1, <1>3, SoloSchedulerSteps, SoloQueueSteps, SoloSubmission DEF SeriesNext
<1> QED BY <1>2, <1>3

\* Once a bonus was paid, no step changes the tally or the champion.
LEMMA DecidedStep ==
  ASSUME SoloInv, [SeriesNext]_allVars, NEW b \in Bots, bonus[b] > 0
  PROVE  wins' = wins /\ champion' = champion
<1>1. series = "completed"
  BY DEF SoloInv, BonusOnce
<1>2. ASSUME NEW w \in Workers, NEW r \in Results, SubmitGame(w, r) PROVE FALSE
  BY <1>1, <1>2 DEF SubmitGame, SubmitMatchResult, SoloInv, ClosedIsQuiet
<1>3. CASE SchedulerStep
  BY <1>1, <1>3 DEF SchedulerStep, FinalizeRead, FinalizeWrite, CancelJobsStep,
     CancelMatchesStep, StuckRead, StuckTally, AbandonSeries, RetireJobsStep,
     RetireMatchesStep, CloseSeries
<1>4. CASE UNCHANGED allVars
  BY <1>4 DEF allVars, seriesVars
<1>5. CASE \/ CreateSeries \/ CreateSeriesGames \/ CreateSeriesGamesFails
           \/ SchedulerError \/ MatchmakerRestart \/ UNCHANGED seriesVars
  BY <1>5 DEF CreateSeries, CreateSeriesGames, CreateSeriesGamesFails, SchedulerError,
     MatchmakerRestart, seriesVars
<1> QED BY <1>2, <1>3, <1>4, <1>5 DEF SeriesNext

\* With the maintenance pass as deployed (its SQL rejected) the books of a series
\* are exact as long as no game is held twice, for every format and any number of
\* workers: tally, bonus and champion agree with the games, however often workers
\* die or their claims are reaped (updateSeriesResult, tickStaleReaper).
THEOREM AccountsUnlessShared ==
  ASSUME Deployed
  PROVE  SeriesSpec /\ []PlayedAlone => []SeriesAccounts
<1>1. SoloInv /\ PlayedAlone /\ [SeriesNext]_allVars => SoloInv'
  BY SoloStep
<1>2. SoloInv => SeriesAccounts
  BY DEF SoloInv, SeriesInv, SeriesAccounts
<1> QED BY <1>1, <1>2, SoloBegins, PTL DEF SeriesSpec

\* Under the same hypotheses a series decided by wins is never rewritten
\* (updateSeriesResult cancels its leftover games in the same transaction).
THEOREM DecidedUnlessShared ==
  ASSUME Deployed
  PROVE  SeriesSpec /\ []PlayedAlone => DecidedStands
<1>1. SoloInv /\ PlayedAlone /\ [SeriesNext]_allVars => SoloInv'
  BY SoloStep
<1>2. SoloInv /\ [SeriesNext]_allVars =>
        [(\E b \in Bots : bonus[b] > 0) => wins' = wins /\ champion' = champion]_allVars
  BY DecidedStep
<1> QED BY <1>1, <1>2, SoloBegins, PTL DEF SeriesSpec, DecidedStands

=============================================================================
