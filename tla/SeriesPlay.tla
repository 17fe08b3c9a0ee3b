----------------------------- MODULE SeriesPlay -----------------------------
(***************************************************************************)
(* A best-of-N series played through the match queue: the series and       *)
(* series_games rows, the ordering gate that holds later games back, the   *)
(* series part of a worker's submitting transaction, and the maintenance   *)
(* pass of the matchmaker's series scheduler.                              *)
(*                                                                         *)
(* Game number k of the series is job k of the queue.  Rows of different   *)
(* series never meet in a statement, so one series is enough.              *)
(***************************************************************************)
EXTENDS JobQueue

CONSTANTS
  Format,      \* series.format: 3, 5 or 7 games
  BotA, BotB,  \* series.bot_a_id, series.bot_b_id
  Draw,        \* a game without winner: winner_id = '' (or 'draw')
  SQLAccepted  \* TRUE iff the database accepts the cancelling statements of
               \* cancelDecidedSeriesGames as they are written.  Their EXISTS
               \* (JOIN ... WHERE ...) has no SELECT, which PostgreSQL rejects:
               \* FALSE is the deployed behaviour, TRUE the written intention.

ASSUME SeriesConstants ==
  /\ Format \in Nat \ {0}
  /\ Jobs = 1..Format
  /\ Results = {BotA, BotB, Draw}
  /\ BotA # BotB /\ Draw \notin {BotA, BotB}
  /\ SQLAccepted \in BOOLEAN

VARIABLES
  series,      \* series.status ("none": no row yet)
  champion,    \* series.winner_id
  wins,        \* series.a_wins and b_wins
  gameWinner,  \* series_games.winner_id
  bonus,       \* how often the +10 mu of a series winner was added, per bot
  sched,       \* where the series scheduler is in its tick
  leader       \* the winner it decided on from what it read

seriesVars == <<series, champion, wins, gameWinner, bonus, sched, leader>>
allVars    == <<vars, seriesVars>>

Bots   == {BotA, BotB}
Needed == (Format + 1) \div 2
SchedPC == {"idle", "creating", "finalizing", "cancelJobs", "cancelMatches",
            "stuck", "tallying", "abandoning", "retireJobs", "retireMatches"}

SeriesInit ==
  /\ Init
  /\ series = "none" /\ champion = NoResult
  /\ wins = [b \in Bots |-> 0]
  /\ bonus = [b \in Bots |-> 0]
  /\ gameWinner = [k \in Jobs |-> NoResult]
  /\ sched = "idle" /\ leader = NoResult

-----------------------------------------------------------------------------
(* Creation *)

\* autoCreateSeries (likewise the featured and bracket passes) inserts the row,
\* then createSeriesGames inserts all games in a transaction of its own.
CreateSeries ==
  /\ sched = "idle" /\ series = "none"
  /\ series' = "active" /\ sched' = "creating"
  /\ UNCHANGED <<vars, champion, wins, gameWinner, bonus, leader>>

CreateSeriesGames ==
  /\ sched = "creating"
  /\ \E ms \in SUBSET Jobs : InsertJobs(Jobs, ms)
  /\ sched' = "idle"
  /\ UNCHANGED <<series, champion, wins, gameWinner, bonus, leader>>

\* An error ends the tick: "failed to create games for series ...".  The series
\* row stays and no later tick comes back to it.
CreateSeriesGamesFails ==
  /\ sched = "creating"
  /\ sched' = "idle"
  /\ UNCHANGED <<vars, series, champion, wins, gameWinner, bonus, leader>>

-----------------------------------------------------------------------------
(* The worker's side *)

\* Mutant: the gate lets the game after next start.
BlockingSkipsOne ==
  {k \in Jobs : series = "active" /\ \E i \in Jobs : i + 1 < k /\ gameWinner[i] = NoResult}

\* seriesgate.Blocking: a game of an active series waits for every earlier one.
Blocking ==
  {k \in Jobs : series = "active" /\ \E i \in Jobs : i < k /\ gameWinner[i] = NoResult}

\* Mutant: the winner is counted but not written to its game.
RecordedNot(k, r) == gameWinner

\* UPDATE series_games SET winner_id.
Recorded(k, r) == [gameWinner EXCEPT ![k] = r]

\* Mutants: b_wins is never incremented, or a draw counts for it.
TallyOfA(r) == IF r = BotA THEN [wins EXCEPT ![BotA] = @ + 1] ELSE wins
TallyWithDraws(r) == [wins EXCEPT ![IF r = BotA THEN BotA ELSE BotB] = @ + 1]

\* UPDATE series SET a_wins = a_wins + 1 (or b_wins).
Tally(r) == IF r = Draw THEN wins ELSE [wins EXCEPT ![r] = @ + 1]

\* Mutant: nothing is cancelled.
LeftoverKept(games) == {}

\* The games a decided series no longer needs.
Leftover(games) == {k \in Jobs : games[k] = NoResult}

\* updateSeriesResult, inside the transaction of SubmitMatchResult.  It asks
\* neither whether the game already had a winner nor whether the series is over.
SubmitGame(w, r) ==
  LET games == Recorded(task[w], r)
      tally == Tally(r)
      over  == r # Draw /\ \E b \in Bots : tally[b] >= Needed
      first == IF tally[BotA] >= Needed THEN BotA ELSE BotB
  IN /\ SubmitMatchResult(w, r, IF over THEN Leftover(games) ELSE {})
     /\ gameWinner' = games
     /\ wins' = tally
     /\ series' = IF over THEN "completed" ELSE series
     /\ champion' = IF over THEN first ELSE champion
     /\ bonus' = IF over THEN [bonus EXCEPT ![first] = @ + 1] ELSE bonus
     /\ UNCHANGED <<sched, leader>>

-----------------------------------------------------------------------------
(* The scheduler's tick: result pass, finalisation, maintenance pass *)

\* What the result pass (updateSeriesGameResults) would find to record.
UnrecordedGames ==
  {k \in Jobs : gameWinner[k] = NoResult /\ match[k] = "completed" /\ series = "active"}

\* Whoever leads, or NULL when level.
Leader ==
  CASE wins[BotA] > wins[BotB] -> BotA
    [] wins[BotB] > wins[BotA] -> BotB
    [] OTHER -> NoResult

AllPlayed ==
  /\ series = "active"
  /\ \E k \in Jobs : status[k] # "absent"
  /\ \A k \in Jobs : gameWinner[k] # NoResult

\* Mutant: a failed game does not count as stuck.
StuckCancelled ==
  /\ series = "active"
  /\ \E k \in Jobs : gameWinner[k] = NoResult /\ status[k] = "cancelled"

\* A game that will never be played.
Stuck ==
  /\ series = "active"
  /\ \E k \in Jobs : gameWinner[k] = NoResult /\ status[k] \in {"failed", "cancelled"}

Goto(from, to) == sched = from /\ sched' = to

\* The SELECT of finalizeCompletedSeries for series without a game left to play.
\* Its first pass and the result pass find nothing to do (NothingToPropagate).
FinalizeRead ==
  /\ sched = "idle" /\ series # "none"
  /\ sched' = IF AllPlayed THEN "finalizing" ELSE "cancelJobs"
  /\ leader' = IF AllPlayed THEN Leader ELSE leader
  /\ UNCHANGED <<vars, series, champion, wins, gameWinner, bonus>>

\* UPDATE series ... WHERE status = 'active'.
CloseSeries ==
  /\ series' = "completed"
  /\ champion' = IF series = "active" THEN leader ELSE champion
  /\ leader' = NoResult
  /\ UNCHANGED <<vars, wins, gameWinner, bonus>>

FinalizeWrite == Goto("finalizing", "cancelJobs") /\ CloseSeries

\* The series' games, once it is over.
Decided == {k \in Jobs : series = "completed"}

\* The first statement fails and the pass returns, or the game's job is retired.
CancelJobsStep ==
  /\ \/ /\ SQLAccepted
        /\ Goto("cancelJobs", "cancelMatches")
        /\ CancelJobs(Decided)
     \/ /\ ~ SQLAccepted
        /\ Goto("cancelJobs", "idle")
        /\ UNCHANGED vars
  /\ UNCHANGED <<series, champion, wins, gameWinner, bonus, leader>>

CancelMatchesStep ==
  /\ Goto("cancelMatches", "stuck")
  /\ CancelMatches(Decided)
  /\ UNCHANGED <<series, champion, wins, gameWinner, bonus, leader>>

StuckRead ==
  /\ Goto("stuck", IF Stuck THEN "tallying" ELSE "idle")
  /\ UNCHANGED <<vars, series, champion, wins, gameWinner, bonus, leader>>

\* SELECT a_wins, b_wins of the series found stuck, in a statement of its own.
StuckTally ==
  /\ Goto("tallying", "abandoning")
  /\ leader' = Leader
  /\ UNCHANGED <<vars, series, champion, wins, gameWinner, bonus>>

AbandonSeries == Goto("abandoning", "retireJobs") /\ CloseSeries

RetireJobsStep ==
  /\ Goto("retireJobs", "retireMatches")
  /\ CancelJobs(Jobs)
  /\ UNCHANGED <<series, champion, wins, gameWinner, bonus, leader>>

RetireMatchesStep ==
  /\ Goto("retireMatches", "idle")
  /\ CancelMatches(Jobs)
  /\ UNCHANGED <<series, champion, wins, gameWinner, bonus, leader>>

SchedulerStep ==
  \/ FinalizeRead \/ FinalizeWrite
  \/ CancelJobsStep \/ CancelMatchesStep
  \/ StuckRead \/ StuckTally \/ AbandonSeries \/ RetireJobsStep \/ RetireMatchesStep

\* A statement of the tick fails.  A failed finalisation is logged and the tick
\* goes on, as it does when the abandoned series' jobs cannot be retired; any
\* other failure is the end of the pass, or of its work on this series.
SchedulerError ==
  /\ sched \notin {"idle", "creating"}
  /\ MatchmakerFault(reaping)
  /\ sched' = CASE sched = "finalizing" -> "cancelJobs"
                [] sched = "retireJobs" -> "retireMatches"
                [] OTHER -> "idle"
  /\ leader' = NoResult
  /\ UNCHANGED <<series, champion, wins, gameWinner, bonus>>

\* The matchmaker restarts wherever it is in its tick.
MatchmakerRestart ==
  /\ MatchmakerFault({})
  /\ sched' = "idle" /\ leader' = NoResult
  /\ UNCHANGED <<series, champion, wins, gameWinner, bonus>>

-----------------------------------------------------------------------------

SeriesNext ==
  \/ CreateSeries \/ CreateSeriesGames \/ CreateSeriesGamesFails
  \/ SchedulerStep \/ SchedulerError \/ MatchmakerRestart
  \/ ReaperStep /\ UNCHANGED seriesVars
  \/ \E w \in Workers :
       \/ PlainWorkerStep(w) /\ UNCHANGED seriesVars
       \/ GetNextJob(w, Blocking) /\ UNCHANGED seriesVars
       \/ \E r \in Results : SubmitGame(w, r)

SeriesSpec == SeriesInit /\ [][SeriesNext]_allVars

\* Tickers keep firing, time passes, and a match that runs comes to an end.
SeriesFairness ==
  /\ WF_allVars(CreateSeriesGames)
  /\ WF_allVars(SchedulerStep)
  /\ WF_allVars(ReaperSelect /\ UNCHANGED seriesVars)
  /\ \A j \in Jobs :
       /\ WF_allVars(ClaimAges(j) /\ UNCHANGED seriesVars)
       /\ WF_allVars(ReapJob(j) /\ UNCHANGED seriesVars)
  /\ \A w \in Workers :
       /\ WF_allVars(GetNextJob(w, Blocking) /\ UNCHANGED seriesVars)
       /\ WF_allVars((ClaimJob(w) \/ ClaimError(w) \/ FailMatch(w)) /\ UNCHANGED seriesVars)
       /\ WF_allVars(\E r \in Results : SubmitGame(w, r))

FairSeriesSpec == SeriesSpec /\ SeriesFairness

\* No game is held by two workers at once.  Two that select a game before either
\* has claimed it, or one whose claim was reaped while it plays, break this.
PlayedAlone ==
  \A v, w \in Workers : v # w /\ pc[v] # "idle" => task[v] # task[w]

-----------------------------------------------------------------------------
(* Properties *)

\* Every column of the series tables keeps its declared domain.
SeriesTypeOK ==
  /\ series \in {"none", "active", "completed"}
  /\ champion \in Bots \union {NoResult}
  /\ wins \in [Bots -> Nat]
  /\ bonus \in [Bots -> Nat]
  /\ gameWinner \in [Jobs -> Results \union {NoResult}]
  /\ sched \in SchedPC
  /\ leader \in Bots \union {NoResult}

\* The scheduler's result pass and the threshold pass of its finalisation never
\* find work: a worker's transaction records the winner of a game, and closes a
\* decided series, together with the result itself, so no game is counted by
\* both the worker and the matchmaker.
NothingToPropagate ==
  /\ UnrecordedGames = {}
  /\ series = "active" => \A b \in Bots : wins[b] < Needed

\* The ordering gate: whoever holds game k, every earlier game has its result,
\* or the series is over (a game left in the queue of a finished series).
GateOrder ==
  \A w \in Workers :
    pc[w] # "idle" /\ series = "active" =>
      \A i \in Jobs : i < task[w] => gameWinner[i] # NoResult

\* No recorded win is missing from the tally, even if several workers submitted
\* the same game.
TallyCoversGames ==
  \A b \in Bots : Cardinality({k \in Jobs : gameWinner[k] = b}) <= wins[b]

\* The tally says exactly what the games say.
TallyMatchesGames ==
  \A b \in Bots : Cardinality({k \in Jobs : gameWinner[k] = b}) = wins[b]

\* A series that was decided by wins is not rewritten: its leftover games are
\* retired in the transaction that decides it, and nothing is in flight then.
DecidedStands ==
  [][(\E b \in Bots : bonus[b] > 0) => wins' = wins /\ champion' = champion]_allVars

\* The winner of a decided series gets its bonus once, nobody else gets one, and
\* every decided series has as many wins as its format asks for.
BonusOnce ==
  /\ \A b \in Bots : bonus[b] > 0 =>
       bonus[b] = 1 /\ champion = b /\ wins[b] = Needed /\ series = "completed"
  /\ (\E b \in Bots : wins[b] >= Needed) => bonus[champion] = 1

\* The books of a series: every column keeps its domain, and tally, bonus and
\* champion agree with the games.
SeriesAccounts == SeriesTypeOK /\ TallyMatchesGames /\ BonusOnce

\* A series that got its games comes to an end, and its games leave the queue.
SeriesEnds ==
  (\A k \in Jobs : status[k] # "absent") ~>
    series = "completed" /\ \A k \in Jobs : status[k] \notin {"pending", "claimed"}

=============================================================================
