------------------------------- MODULE Verdicts -------------------------------
(***************************************************************************)
(* What the result of a match does to the rest of the database: ratings    *)
(* and their history, predictions and the predictors' statistics           *)
(* (cmd/acb-worker: ClaimJob, SubmitMatchResult, recalcRatings), in any    *)
(* interleaving with predictions arriving at the API (handlePredict) and   *)
(* with the end of a season.                                               *)
(*                                                                         *)
(* A rating is abstracted to the set of rating events it was computed from *)
(* (a match, with the bonus of the series it decides, or a decay), named   *)
(* by the order of their commits: the Glicko-2 update is a function of the *)
(* rating before and the match.  All matches are between the same bots, so *)
(* every pair of them conflicts.                                           *)
(* JobQueue shows which executions of a job can overlap; here a worker may *)
(* pick any job that is pending, as GetNextJob does.                       *)
(***************************************************************************)
EXTENDS Integers, Sequences, FiniteSets

CONSTANTS
  VMatches,     \* predictable matches that have been created
  VBots,        \* the bots that play them
  VWorkers,
  Predictors,
  MaxDisturbances \* bound: stale jobs put back, seasons ended, runs of -mode recalc-ratings

ASSUME VerdictsConstants ==
  /\ MaxDisturbances \in Nat
  /\ "draw" \notin VBots
  /\ VMatches \cap {"decay", "reset", "replay"} = {}

VARIABLES
  job,       \* jobs.status of the match's job
  mstate,    \* matches.status
  completedAt, \* matches.completed_at: the rating event of the last result (0: none)
  held,      \* per worker: the job picked or claimed, with the ratings read and when
  ratings,   \* bots.rating_*
  log,       \* history: every write of ratings, in the order of commits, with how
             \* much of the history its writer had read
  picks,     \* predictions: <<predictor, match>> -> [bot, correct, season]
  asking,    \* per predictor: handlePredict between its checks and its INSERT
  stats,     \* predictor_stats
  season,    \* seasons ended so far
  recalc,    \* recalcRatings: matches read, or where it is
  disturbances \* requeues, season ends and recalculations so far

verdictVars == <<job, mstate, completedAt, held, ratings, log, picks, asking, stats, season,
                 recalc, disturbances>>
ratingTable == <<ratings, log>>
predictionTables == <<picks, asking, stats>>

NoHold == [step |-> "idle"]
NoAsk == [match |-> "none"]
NewStats == [right |-> 0, wrong |-> 0, streak |-> 0, best |-> 0]

VerdictsInit ==
  /\ job = [m \in VMatches |-> "pending"] /\ mstate = [m \in VMatches |-> "pending"]
  /\ completedAt = [m \in VMatches |-> 0] /\ held = [w \in VWorkers |-> NoHold]
  /\ ratings = [b \in VBots |-> {}] /\ log = <<>>
  /\ picks = <<>> /\ asking = [p \in Predictors |-> NoAsk]
  /\ stats = [p \in Predictors |-> NewStats] /\ season = 0
  /\ recalc = [step |-> "idle"]
  /\ disturbances = 0

Disturb == disturbances < MaxDisturbances /\ disturbances' = disturbances + 1

\* One more write of ratings, by a writer who has read the first `seen` of them;
\* `done` are the matches that were completed when a recalculation read.
Entry(event, seen, done) == [event |-> event, seen |-> seen, done |-> done]
Log(event, seen, done) == log' = Append(log, Entry(event, seen, done))
ThisWrite == Len(log) + 1

(***************************************************************************)
(* The worker.                                                             *)
(***************************************************************************)
PickJob(w, m) ==
  /\ held[w] = NoHold /\ job[m] = "pending"
  /\ held' = [held EXCEPT ![w] = [step |-> "found", match |-> m]]
  /\ UNCHANGED <<job, mstate, completedAt, ratingTable, predictionTables, season, recalc, disturbances>>

\* ClaimJob: the guard on the job's status is not looked at, the match is set
\* running whatever it is, and the participants' ratings are read.
ClaimRatings(w) ==
  LET m == held[w].match IN
  /\ held[w].step = "found"
  /\ job' = [job EXCEPT ![m] = IF @ = "pending" THEN "claimed" ELSE @]
  /\ mstate' = [mstate EXCEPT ![m] = "running"]
  /\ held' = [held EXCEPT ![w] = [step |-> "claimed", match |-> m, read |-> ratings,
                                  at |-> Len(log)]]
  /\ UNCHANGED <<completedAt, ratingTable, predictionTables, season, recalc, disturbances>>

\* ComputeRatingUpdates: each participant's rating before, and this match.
ComputeRatingUpdates(read, event) == [b \in VBots |-> read[b] \cup {event}]

\* Mutant: every prediction of the match is resolved again.
UnresolvedAll(m) == {k \in DOMAIN picks : k[2] = m}

\* WHERE match_id = $2 AND correct IS NULL
Unresolved(m) == {k \in DOMAIN picks : k[2] = m /\ picks[k].correct = "null"}

\* UPDATE predictions ... RETURNING; no prediction of a draw is correct.
ResolvePredictions(m, w) ==
  [k \in DOMAIN picks |-> IF k \in Unresolved(m)
     THEN [picks[k] EXCEPT !.correct = IF picks[k].bot = w THEN "true" ELSE "false", !.season = season]
     ELSE picks[k]]

UpsertPredictorStats(s, right) ==
  IF right THEN [s EXCEPT !.right = @ + 1, !.streak = @ + 1,
                          !.best = IF @ > s.streak + 1 THEN @ ELSE s.streak + 1]
  ELSE [s EXCEPT !.wrong = @ + 1, !.streak = 0]

\* SubmitMatchResult, one transaction: job, match, ratings and their history,
\* predictions (the series and the crash strikes are in SeriesPlay and Matchmaking).
SubmitVerdict(w, winner) ==
  LET m == held[w].match IN
  /\ held[w].step = "claimed"
  /\ job' = [job EXCEPT ![m] = "completed"] /\ mstate' = [mstate EXCEPT ![m] = "completed"]
  /\ completedAt' = [completedAt EXCEPT ![m] = ThisWrite]
  /\ ratings' = ComputeRatingUpdates(held[w].read, ThisWrite)
  /\ Log(m, held[w].at, {})
  /\ picks' = ResolvePredictions(m, winner)
  /\ stats' = [p \in Predictors |-> IF <<p, m>> \in Unresolved(m)
                 THEN UpsertPredictorStats(stats[p], picks[<<p, m>>].bot = winner) ELSE stats[p]]
  /\ held' = [held EXCEPT ![w] = NoHold]
  /\ UNCHANGED <<asking, season, recalc, disturbances>>

\* FailJob, for a claim that is still this worker's.
FailVerdict(w) ==
  /\ held[w].step = "claimed" /\ job[held[w].match] = "claimed"
  /\ job' = [job EXCEPT ![held[w].match] = "failed"]
  /\ mstate' = [mstate EXCEPT ![held[w].match] = "failed"]
  /\ held' = [held EXCEPT ![w] = NoHold]
  /\ UNCHANGED <<completedAt, ratingTable, predictionTables, season, recalc, disturbances>>

\* The stale reaper puts a claimed job back while its worker goes on.
RequeueStale(m) ==
  /\ job[m] = "claimed" /\ Disturb
  /\ job' = [job EXCEPT ![m] = "pending"]
  /\ UNCHANGED <<mstate, completedAt, held, ratingTable, predictionTables, season, recalc>>

(***************************************************************************)
(* Predictions.                                                            *)
(***************************************************************************)
PredictCheck(p, m, b) ==
  /\ asking[p] = NoAsk /\ mstate[m] = "pending"
  /\ asking' = [asking EXCEPT ![p] = [match |-> m, bot |-> b]]
  /\ UNCHANGED <<job, mstate, completedAt, held, ratingTable, picks, stats, season, recalc, disturbances>>

\* INSERT ... ON CONFLICT DO UPDATE SET predicted_bot: a second pick leaves
\* `correct` as it is.
PredictInsert(p) ==
  LET k == <<p, asking[p].match>> IN
  /\ asking[p] # NoAsk
  /\ picks' = [x \in DOMAIN picks \cup {k} |->
                 IF x # k THEN picks[x]
                 ELSE IF k \in DOMAIN picks THEN [picks[k] EXCEPT !.bot = asking[p].bot]
                 ELSE [bot |-> asking[p].bot, correct |-> "null", season |-> season]]
  /\ asking' = [asking EXCEPT ![p] = NoAsk]
  /\ UNCHANGED <<job, mstate, completedAt, held, ratingTable, stats, season, recalc, disturbances>>

(***************************************************************************)
(* Seasons and recalculation.                                              *)
(***************************************************************************)

\* The part of processSeasonEnd that touches these tables.
DecayAndReset ==
  /\ Disturb /\ season' = season + 1
  /\ ratings' = [b \in VBots |-> ratings[b] \cup {ThisWrite}]
  /\ Log("decay", Len(log), {})
  /\ stats' = [p \in Predictors |-> NewStats]
  /\ UNCHANGED <<job, mstate, completedAt, held, picks, asking, recalc>>

\* recalcRatings begins by resetting every rating to the default.
RecalcReset ==
  /\ recalc.step = "idle" /\ Disturb
  /\ ratings' = [b \in VBots |-> {}]
  /\ Log("reset", Len(log), {})
  /\ recalc' = [step |-> "reset"]
  /\ UNCHANGED <<job, mstate, completedAt, held, predictionTables, season>>

CompletedNow == {m \in VMatches : mstate[m] = "completed"}

\* Mutant: the newest completed match is not read.
GetAllCompletedMatchesOld ==
  {completedAt[m] : m \in {x \in CompletedNow :
                             \E y \in CompletedNow : completedAt[x] < completedAt[y]}}

\* WHERE status = 'completed' ORDER BY completed_at: a match that is being played
\* a second time is left out, and of two executions only the last is there.
GetAllCompletedMatches == {completedAt[m] : m \in CompletedNow}

\* Without a completed match the ratings stay at the defaults.
RecalcRead ==
  /\ recalc.step = "reset"
  /\ recalc' = IF CompletedNow = {} THEN [step |-> "idle"]
               ELSE [step |-> "read", rows |-> GetAllCompletedMatches, done |-> CompletedNow,
                     at |-> Len(log)]
  /\ UNCHANGED <<job, mstate, completedAt, held, ratingTable, predictionTables, season, disturbances>>

\* UpdateAllRatings, in one transaction: the matches read, replayed from the
\* defaults.  The decays are in no table and are not replayed.
RecalcWrite ==
  /\ recalc.step = "read"
  /\ ratings' = [b \in VBots |-> recalc.rows]
  /\ Log("replay", recalc.at, recalc.done)
  /\ recalc' = [step |-> "idle"]
  /\ UNCHANGED <<job, mstate, completedAt, held, predictionTables, season, disturbances>>

\* A query or the write fails, or the process ends: the defaults stay.
RecalcStops ==
  /\ recalc.step # "idle"
  /\ recalc' = [step |-> "idle"]
  /\ UNCHANGED <<job, mstate, completedAt, held, ratingTable, predictionTables, season, disturbances>>

VerdictsNext ==
  \/ \E w \in VWorkers :
       \/ \E m \in VMatches : PickJob(w, m)
       \/ ClaimRatings(w)
       \/ \E winner \in VBots \cup {"draw"} : SubmitVerdict(w, winner)
       \/ FailVerdict(w)
  \/ \E m \in VMatches : RequeueStale(m)
  \/ \E p \in Predictors :
       \/ \E m \in VMatches, b \in VBots : PredictCheck(p, m, b)
       \/ PredictInsert(p)
  \/ DecayAndReset
  \/ RecalcReset \/ RecalcRead \/ RecalcWrite \/ RecalcStops

VerdictsSpec == VerdictsInit /\ [][VerdictsNext]_verdictVars

(***************************************************************************)
(* Properties.                                                             *)
(***************************************************************************)

\* A predictor's statistics are exactly the predictions resolved since the
\* last season end: no execution of a match that runs twice, and no late pick,
\* is counted twice or lost (resolvePredictions, upsertPredictorStats).
StatsExact ==
  \A p \in Predictors :
    LET counted(c) == Cardinality({k \in DOMAIN picks : /\ k[1] = p
                                                       /\ picks[k].correct = c
                                                       /\ picks[k].season = season})
    IN /\ stats[p].right = counted("true") /\ stats[p].wrong = counted("false")
       /\ stats[p].streak <= stats[p].best /\ stats[p].best <= stats[p].right

RatingEvents == VMatches \cup {"decay"}
Rewrites == {"reset", "replay"}

\* In the first n entries of l: a write after entry e had not read e.
Overtaken(l, e, n) == \E k \in e + 1 .. n : l[k].seen < e

\* In the first n entries of l: no recalculation wrote after entry e.
NoRewriteSince(l, e, n) == \A k \in e + 1 .. n : l[k].event \notin Rewrites

\* Of the first n entries of l, e is the last result of match m.
LastResult(l, m, e, n) == l[e].event = m /\ \A k \in e + 1 .. n : l[k].event # m

\* What a rating computed from the events s can lack after the writes l[1 .. n].
LosesOnlyToOverlap(l, s, n) ==
  /\ \A e \in 1 .. n : l[e].event \in RatingEvents /\ NoRewriteSince(l, e, n)
                        => e \in s \/ Overtaken(l, e, n)
  /\ \A r \in 1 .. n : l[r].event = "replay" /\ NoRewriteSince(l, r, n) =>
       \A m \in l[r].done :
         Overtaken(l, r, n) \/ \E e \in s : e \in 1 .. l[r].seen /\ LastResult(l, m, e, l[r].seen)

\* Since the last recalculation no result and no decay is lost from a rating, but
\* to a later write whose writer had read before it; and a recalculation that was
\* written restores the last result of every match that was completed when it
\* read, unless a writer had read before it: claims, recalculations, decays and
\* second executions overlap at will, and the recalculation may stop half way
\* (computeRatingUpdates, recalcRatings).
RatingsLoseOnlyToOverlap == \A b \in VBots : LosesOnlyToOverlap(log, ratings[b], Len(log))
=============================================================================
