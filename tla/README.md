# Verification of AI Code Battle

TLA+ models of AI Code Battle: the queue that carries matches from the matchmaker
to the workers, the series, seasons and ratings built on it, the rules of a turn
and the way a match asks its bots for orders, the strategies of the built-in bots,
the life of maps, replays and commentary, bot accounts, and the two batch
processes (evolver and index builder). TLC checks the models on small instances;
TLAPS proves every safety property the passing runs check for every value of the
constants: of the queue (with the refinement of its abstract specification), the
series built on it, the rules of a turn, the failure policy, ratings, predictions,
replays and feeds, accounts and limits, pairing, bracket and featured series, the
strategies, the maps and their pool, and the evolver. What must happen in the end is
model-checked only.

## 1. The system

| Part | Source | State | Operations |
|---|---|---|---|
| Matchmaker | `cmd/acb-matchmaker` | PostgreSQL rows; locals of each ticker | `tickMatchmaker`, `tickStaleReaper`, `tickHealthChecker`, `tickSeriesScheduler`, `tickSeasonReset`, `tickFeaturedSeries`, `tickFairnessAudit` |
| Worker | `cmd/acb-worker` | job in hand; objects in B2 and R2 | `GetNextJob`, `ClaimJob`, `executeMatch`, `uploadReplay`, `SubmitMatchResult`, `FailJob`, live feeds, `recalcRatings` |
| Series gate | `internal/seriesgate` | - | the SQL condition that holds later games back |
| Engine | `engine/turn.go`, `game.go`, `grid.go` | `GameState` | eight phases of `ExecuteTurn`, win conditions |
| Match runner | `engine/match.go` | `failureStreak`, `inactive`, the turn in progress | `Run`, `getMovesFromBots`, `markInactive`, map loading |
| HTTP bot | `engine/bot_http.go` | `crashed`, `failCount`, `generation`, `lastDebug` | `GetMoves`, `recordFailure`, `recordSuccess` |
| Built-in bots | `engine/bot_strategies*.go`, `cmd/acb-wasm/strategies` | what a bot remembers between turns | `GetMoves` of 28 strategies |
| API | `cmd/acb-api`, `ratelimit` | PostgreSQL rows; token buckets | registration, keys, predictions, votes, feedback, enrichment requests, replays |
| Evolver | `cmd/acb-evolver` | programs and bots tables, git repository, cluster, grid | generation cycle, promotion, retirement, cross-pollination |
| Map tools | `cmd/acb-mapgen`, `acb-map-evolver`, `acb-maps-loader` | maps table | generate, breed, check, load |
| Enrichment | `cmd/acb-enrichment` | commentary objects, `enriched` column | candidate query, budget, semaphore, four calls a match |
| Index builder | `cmd/acb-index-builder` | output directory, deployed site | sync, merge, generate, bundle, deploy |
| Web front end, other bots | `web`, `bots`, `starters` | - | presentation; participants |

The processes share the database and the object stores and nothing else. Each
statement or transaction they commit is atomic; everything between two statements
interleaves. A worker that dies leaves its claim behind, and the reaper re-queues
claims by age alone, so it also re-queues the claim of a worker that is merely
slow. Inside a worker a match is one goroutine per polled bot and turn, each with
a second one for the HTTP call, which outlives the turn's timer.

What is hard: the same match in the hands of two workers; a late result after a
reap; ratings, predictions, strikes and feeds updated from what was read earlier;
multi-step operations (promotion, season end, audit, site build) that stop half
way; orders addressed by tile when players share one; an answer that arrives
turns later. `PROJECT.json` lists these hazards with their lines.

## 2. Modules

| Module | Models | Property that carries it |
|---|---|---|
| `MatchLife` | abstract: what a match is to anyone outside the queue | - |
| `JobQueue` | `jobs` and `matches` under workers, reaper and faults | `QueueInv`, `LivesAsPromised`, `EveryJobSettles` |
| `SeriesPlay` | a best-of-N series on top of `JobQueue` | `SeriesAccounts`, `DecidedStands`, `SeriesEnds`, `GateOrder` |
| `GameTurn` | the rules of a turn and the turn loop | `BoardIsSound`, `ScoreLedger`, `OutcomeJustified` |
| `BotTurns` | deadlines, late calls, failure policy | `CrashIsEarned`, `InactiveOnce`, `TurnsSettle` |
| `Verdicts` | ratings, predictions and statistics around claim and submission | `StatsExact`, `RatingsLoseOnlyToOverlap` |
| `Matchmaking` | who plays whom, strikes and cooldown | `NoBotStarves` |
| `Accounts` | registration, keys, health checker | `RevocationStands`, `HealthConverges` |
| `Limits` | one token bucket | `RateIsBounded` |
| `Championship` | season end and bracket | `BracketIsTree`, `ChampionshipsFinish` |
| `Featured` | the Friday series | `FeaturedAreDisjoint` |
| `Community` | votes, feedback, spam filter | `UpvotesEarned` |
| `MapPool` | audit, prune, rotation; extends `Community` for the votes | `PruneIsMonthly`, `DislikedMapsAreDecided` |
| `MapForge` | generation, evolution, loading of maps | `MapsAreSound` |
| `Replays` | the two stores, the feeds, what the API serves | `ReplayIsServed`, `FeedsExactWhenSerial` |
| `Commentary` | the enrichment service | `InterestingIsEnriched` |
| `Evolution` | the evolver with its two retirers, beside the health checker and the API | `ActiveIsDeployed`, `DriftIsBounded`, `NicheImproves` |
| `SiteBuild` | the index builder | `LatestIsPublished`, `TornSitesHeal` |
| `Strategies`, `BrowserBots` | the strategies of the engine and of the browser | `NoOrdersMeet` |
| `JobQueueProofs`, `SeriesPlayProofs`, `BotTurnsProofs`, `GameTurnProofs` | proofs about the module of that name | section 4 |
| `ResultsProofs` | proofs about `Verdicts` and `Replays` | section 4 |
| `CompetitionProofs` | proofs about `Championship`, `Matchmaking`, `Featured`, `Strategies` and `BrowserBots` | section 4 |
| `ApiProofs` | proofs about `Accounts`, `Limits`, `Community`, `MapPool` and `MapForge` | section 4 |
| `BatchProofs` | proofs about `Evolution` | section 4 |
| `MCSeriesPlay`, `MCGameTurn`, `MCBotTurns` | symmetry sets and boards | - |
| `MCPlatform`, `MCPlatformLive` | one run each over several modules, one part a behaviour; bounds and fairness of the parts | - |

Definitions marked "Mutant" are deliberately wrong variants of the definition
they precede, used to see that a property notices.

### JobQueue and MatchLife

One action per SQL statement or transaction. `status`, `owner`, `createdAt`,
`stale` are the columns of `jobs` (`stale`: `claimed_at` is older than the
threshold); `match` and `result` those of `matches`; `pc` and `task` are the
worker's place and local variable in `pollAndExecute`; `reaping` is the reaper's
local list. `GetNextJob` may skip rows that another worker may hold locked (SKIP
LOCKED); `ClaimJob` changes the job only if it is pending, but the match and the
worker always, as in the code. `FailJob` and `FailMatch` are the two statements
of `FailJob`. `WorkerFault` ends a poll cycle anywhere; `MatchmakerFault` loses
part of the reaper's list. Two inputs come from the series tables: the games the
gate blocks and the jobs a transaction cancels. `Spec` leaves them arbitrary;
`StandaloneSpec` is the queue of matches outside any series.

`MatchLife` knows nothing of jobs, claims and workers: matches are posted, closed
to predictions, given up, or decided; a decision comes after predictions have
closed, it may be replaced by that of another execution, and nothing is ever
taken back. The mapping is `PublicPhase` (with the results, and the matches still
'pending' as the ones that take predictions); `LivesAsPromised` is
`MatchLife`'s specification under it.

### SeriesPlay

Extends JobQueue and is built from its actions: game k is job k of one series
(rows of different series never meet in a statement). `SubmitGame` is
`SubmitMatchResult` with the `updateSeriesResult` of the same transaction;
`Blocking` is the gate; the scheduler's steps follow the statements of
`finalizeCompletedSeries` and `cancelDecidedSeriesGames` one by one, and
`SchedulerError` and `MatchmakerRestart` interrupt them. The result pass and the
threshold pass are not actions: `NothingToPropagate` shows that they never find a
row. `SQLAccepted` is FALSE for the code as written, since PostgreSQL rejects
`EXISTS (JOIN ...)`; TRUE shows what the pass would do.

### GameTurn, BotTurns

In GameTurn `gs` holds the `GameState`, `result` the `MatchResult`. Each phase is
an operator from states to states, named after its method; `RunTurn` is one round
of the loop of `Run`. `Orders` are all that `validateMoves` lets through;
`SubmitMoves` follows `findBotAtPosition` and `SubmitMove` and leaves the
iteration order of the Go map of players open. `botCount >= 0.8*total` is written
`5*botCount >= 4*total`.

BotTurns has the runner's variables (`outcome`, `streak`, `inactive`, `events`)
and the bots' (`generation`, `failCount`, `crashed`, `lastDebug`) with the
outstanding `calls`. Each section under HTTPBot's mutex is a step; `missed` is a
history variable: how many turns in a row the bot really failed. `LateStart` says
whether a call's goroutine may be delayed past its own turn's deadline.

### Around the queue

* **Verdicts** looks at the same rows as JobQueue for what JobQueue leaves out.
  A rating is the set of results and decays it contains, so a lost update is a
  missing element. `log` is the history of all writes in the order of their commits,
  each with how much of it its writer had read (`seen`): it is nobody's input and is
  never rewritten. A recalculation replays the last result of every match whose row
  says completed when it reads. The bonus of a decided series (+10) is part of the
  event of its last game.
* **Matchmaking** keeps the created fixtures in order; ratings are the distance of
  two bots in the ladder, ties are left open.
* **Accounts** splits every handler at its statements; `Deliver` may lose the
  answer; `revived` records rows the health checker wrote after a revocation.
* **Championship** keeps the series rows of the brackets of several seasons; a series
  is won by its better seed, by the other within `MaxUpsets`, ends without winner, or
  never ends. Seasons may overlap.
* **Featured**, **Community**, **MapPool** follow the statements of their handlers
  and tickers. Calendar and age are actions; engagement is a number per map.
* **Replays**: a store maps a match to the execution whose replay it holds;
  the feeds are a sequence and a set; the transfers of two workers interleave. A
  worker outside `B2Workers` has no B2 client: it uploads nothing, since the caller
  tests for the client (`worker/main.go:258`) before it calls `uploadReplay`.
* **Commentary**: what makes a match interesting is computed from a profile
  (turns, score difference, upset, crossings); the query returns the `WindowSize`
  newest completed rows without commentary, interesting or not; each goroutine of a
  cycle is a place per match.

### MapForge, Strategies, BrowserBots

MapForge generates, breeds and checks maps for two players on a square torus (4x4 in the
run, with one node a sector): noise is any set of unprotected tiles, the cellular
automaton, symmetrisation, corridor carving, truncation, crossover, flips, energy shift
(within a block of `MaxShift`, a little more than the code's steps of one to three
reach) and smoothing are operators, and each check stands where the code has it. Boards
are set up from a stored map or by the fallback on top of what a failed load left.

A strategy's `GetMoves` is a loop over its units; each unit takes the first rung
that yields a direction. A rung is the set of directions the code may return
(ties in Go's map order, random steps and circular means are sets: a circular
mean is any tile near its group), `??` falls through to the next rung. `view` is
a turn's request; one opponent stands for all, a missing distance is `Far`,
weighted scores are scaled to integers. `memory` is what a bot keeps between
turns. The browser's copies share the operators of the engine's where the code is
the same.

### Evolution, SiteBuild

Evolution takes the evolver's cycle statement by statement: seeding, parents,
generation with retries, validation stages, arena, gate, promotion (source,
workflow, deployment, row, link), retirement by the cycle's own policy and by the
ticker at the same time, cross-pollination. Fitness is one of two levels, the
arena's games are tallies. The evolver's rating query is rejected by PostgreSQL,
so the policy never retires in the deployed code; `PolicySQLAccepted = TRUE`
lets it, a superset of what happens. `Others` are the other writers of `bots.status`:
the health checker, which writes back what it read before its probe, and revocation
in the API. `foreign` remembers whom they moved into or out of 'retired'.

SiteBuild follows `runBuildCycle`: the image's digest, the extracted directory,
the output directory and the deployed site are records of which build their page,
scripts and data come from and which matches their index lists. Extraction and copy
go through the files in the order of their paths (`assets/`, `data/`, `index.html`)
and may stop at any of them. A copy truncates its destination first and goes over all
files again every cycle, so it can cut a page or script that was whole, and it puts
the web build's placeholders over the generated data until the next generation.

## 3. Runs

| Run | Bounds | Shows |
|---|---|---|
| `queue` | 2 jobs, 3 workers, 2 faults | queue invariant, refinement of `MatchLife`, every match is settled |
| `queue_single` | 2 workers, no fault | **violated**: two workers execute one match |
| `series_safety` | best of 3, 2 workers, 1 fault, maps may be missing, SQL as deployed | gate order, nothing to propagate, no win lost |
| `series_maintained` | best of 3, 1 worker, 2 faults, `SQLAccepted` | exact books, a decided series stands, every series ends |
| `series_wedged` | best of 3, 1 worker, 1 fault, SQL as deployed | **violated**: one failed game blocks the series for ever |
| `turn_rules` | 3x5 torus, 3 cores, 2 nodes, 1 wall, storm, 4 turns | counters, ledger, storm, results |
| `turn_orders` | as `turn_rules` | **violated**: an order moves another player's unit |
| `bots_policy` | 2 bots, threshold 2, 2 matches of 2 turns, late starts | inactivity once, not asked again |
| `bots_exact` | 2 bots, threshold 3, 5 turns, no late start | crash is earned, the bot's guard follows the streak, telemetry of its turn; every turn settles |
| `evolver` | 2 islands, 3 programs, 2 opponents, 2 faults | fleet deployed, tables agree, niches improve |
| `platform` | see `MCPlatform.cfg`: 2 matches, bots and workers for predictions and for ratings (2 requeues, season ends or recalculations), 4 bots and 4 fixtures for pairing, 2 maps, 3 readers, 5-bot ladder, 3 workers for replays, 28 strategies on a 3x24 torus over 2 turns and 8 views | safety of ten parts |
| `platform_live` | see `MCPlatformLive.cfg`: 1 name, 2 clients, 3 keys; 1 map; 2 seasons with an upset or a fault; 4 matches to comment on (close, upset, drawn, dull), 2 rows a query, 2 an hour, 1 at a time; 2 images, 2 matches, 2 cycles a life; 1 fault each | revocation stands, brackets are trees; health converges, voted-down maps are decided, the scheduler loses no championship, an interesting match in reach is commented on, matches come to be listed, a torn site heals |

The modules of `platform` and of `platform_live` share no variable, so their
interleavings add nothing: a behaviour picks one part at the start and the others
stay where they begin. The state counts add up, and one run answers what ten would.
Where a module has two halves that do not meet, they are two parts: predictions without
recalculations and ratings without predictions in `Verdicts`, the requests nothing reads
and the enrichment in `Commentary`, the bundled replays and the rest in `SiteBuild`.
Further bounds of a part stand beside it in the module: votes condemn one of the two
maps, the last map of a pool is a bred one, an hour only goes by for a match with
commentary (the only matches the budget counts), a bracket meets an upset or a fault.

Why the bounds are enough. A conflict over a job needs two workers, and a third to
finish it meanwhile; two jobs give a queue an order. A fault can hit a worker, its
replacement or the reaper, so two are allowed. A best of three has a decided series
with a game left over and a drawn one without winner. On the board players meet, share
tiles, raze, collect, contest and spawn within the turns allowed. Threshold 3 with
five turns lets a streak break and build up again. A lost update needs two workers
with one bot in common. With four bots and formats of two and three a bot can be
passed over in every way before it is the oldest. Two seasons let the feeders of one
bracket be confused with the other's. Three programs give a champion, a challenger and
a retiree. Two rows a query let two newer matches push an interesting one out. Two
entries in `MaxDisturbances` let a recalculation meet a stale writer, a season end or
a second execution. The distances of the strategies' code (2 to 100 squared) fit on a
board 24 long. Names starting with `Max`, and `CyclesPerLife`, are the bounds in
guards.

With two workers a match may be played twice and is then counted twice, so
`SeriesAccounts` and `DecidedStands` cannot hold of every run. `series_maintained`
checks them with one worker; the theorems `AccountsUnlessShared` and
`DecidedUnlessShared` prove them for any number of workers of the runs in which no game
is held by two at once (`PlayedAlone`, a condition on behaviours and not on the
deployment). `TallyCoversGames` is what remains without it, a lower bound. Likewise
`FeedsExactWhenSerial` says nothing of runs in which two workers publish at once:
there entries do get lost.

CHECK_DEADLOCK is off because the models stop: all matches played, the turn limit
or a bound reached.

Fairness. Tickers fire again and again and time passes; workers poll for ever; a match
has a turn limit and each turn a deadline, so execution ends. In BotTurns the timer,
the runner's goroutines and the beginning of each call are fair: no bot has to answer.
In `platform_live` fair are the health checker's steps (its probes have a timeout),
the audit, the season ticker and the series scheduler (while nothing says that a
series ends: `series_wedged` shows that it need not), the enrichment loop with its
calls, the passing of hours, and the builder's loop, which the deployment restarts.
Faults, votes, requests, flips of an endpoint and everything of the evolver are not
fair; faults are bounded.

`ChampionshipsFinish` and `InterestingIsEnriched` except runs in which from some time
on a named obstacle is always there: a series of the bracket that is unfinished or has
no winner, or another season's waiting semifinal (`Hindered`); newer rows that fill
the query, or a drawn one that makes it fail. Both obstacles are the code's, see
section 6; what the properties say is that there is no other.

## 4. Proofs

`JobQueueProofs` (any Jobs, Workers, Results, faults): `QueueInv` is inductive.
The promises alone are not: that a failed match has no job in the queue needs
`HeldJobs` (a worker between the two statements of `FailJob` holds a job already
marked failed, or completed since by a late submission) and `RowsTogether` (no
match without its job). The lemmas follow the actors: `MatchmakerSteps`,
`WorkerSteps`, `CancelSteps`, one step per action. The conjuncts (types, owners,
results, visibility) are theorems of their own; `CompletionIsFinal` and
`NeverReopened` are action properties from `OneWayStep`.

`QueueKeepsItsPromise` is the refinement `Spec => LivesAsPromised`. `LifeBegins`
maps the initial states; `UnseenStep` says that a step that changes neither
matches nor results is a stutter; `MatchmakerLives` and `WorkerLives` map each
action to the step of `MatchLife` it is: creating jobs posts, claiming closes the
predictions, failing and cancelling give up, submitting decides. The invariant is
needed where the code does not look: a submission is a legal decision only
because a match that is being played is no longer shown as open
(`PlayedIsVisible`).

`SeriesPlayProofs` (any length of series, any workers and faults, with the
maintenance SQL accepted or not): `SeriesUsesQueue` shows that every step of a
series is a step of the queue, so the queue's theorems carry over
(`SeriesKeepsQueuePromises`). `SeriesInv` adds to `QueueInv` that a game's winner is
its match's result (`GamesAreResults`), that nothing moves before the series exists
(`SeriesFirst`) and that an open series is undecided (`OpenIsUndecided`). From it
follow `NothingToPropagate`, `GateOrder` and `TallyCoversGames`. The exact books
(`SeriesAccounts`, `DecidedStands`) are proved of every behaviour with
`[]PlayedAlone` (no game is held by two workers at once, of however many there are),
with the SQL of the maintenance pass rejected, as it is. `SoloInv` says that a game
somebody holds has no result yet, that claims follow the order of the games, and that
nothing is in flight once a series is closed. Neither hypothesis can be dropped. A
game held by two is counted twice; and with a working maintenance pass a best of five
(not a best of three, which is why `series_maintained` passes) can be decided twice,
see section 6.

`BotTurnsProofs` (any Players, Threshold, MaxTurns). `MarksInv` holds for any number
of matches on one runner and calls that begin at any time: `InactiveOnce` and
`InactiveNotAsked` need nothing else. The sharper
`TurnInv` holds for one match whose calls begin before their deadline. `CallsInv`
says that of the calls in flight only the one of the current turn can carry the
current generation, and only while the runner waits for it or has timed out on it;
`CountInv` ties the runner's streak to the turns really missed, and the bot's count
to the streak plus the failure still `Due`. From it follow `CrashIsEarned`,
`GuardFollowsRunner` and, with what `lastDebug` may hold, `DebugOfThisTurn`. Both
assumptions are needed: on a reused runner the bot's crash is carried into the next
match, and with late starts a delayed call takes the generation away from the current
one.

`GameTurnProofs` (any board, number of players, units, cores and nodes, any orders).
The game state is not small: `Board` says that the counts a phase keeps by hand
(`botCount`, living units) agree with the units on the board, and there is one lemma
for each phase of `ExecuteTurn` (`MovesBoard`, `CombatBoard`, `CapturesBoard`,
`CollectionBoard`, `SpawnsBoard`, `EnergyTickBoard`, `ZoneBoard`) that says what it
leaves alone and what it pays (`Ledger`); `TurnPhases` composes them. The scores are
sums over players, for which the library has no theorems: `SumDefined`, `SumUnique`
and `SumStep` characterise the sum, `SumAdd` and `SumOfPoint` say what a payment does
to it, all from a smallest set that would violate them (`SmallestSet`). `Sound` adds
what the results need: a running count of dominance belongs to one player only
(`OneRuns`), a unit outside the storm has just spawned (`Sheltered`), and a match that
goes on has two players left (`Justified`); `WinConditionsBoard` then follows
`checkWinConditions` exit by exit. The assumption that every player has a core on the
map is what `loadPreGeneratedMap` and `generateMap` see to (`ReadyBoards`), and it is
needed: without one a player is out before the first turn.

`ResultsProofs`. `RatingsInv`: what a claim holds lacks no more than the ratings did
when it read them (`ReadsAreSound`), `completed_at` names a match's last result
(`CompletionsAreLast`), and a recalculation holds the last result of every match that
was completed (`RecalcReadIsSound`). An ordinary write adds one event to what it had
read (`AddingLoses`), and whatever was committed since is, by definition, overtaken; a
recalculation begins a new account (`RewritingLoses`). No overlap is excluded.
`StatsInv` relates each predictor's row to the set of picks it has counted; a submission
resolves exactly the picks that are still open, so the second execution of a match finds
none. `ReplaysInv`: a URL in a worker's hands, or reported, is in the archive, whichever
workers have a B2 client. `FeedsInv` follows one worker through download, extension and
upload of tail and deltas (`FeedsOfOne`), and says what two of them cannot have in hand
at once unless `disturbed` (`FeedsOfTwo`).

`CompetitionProofs`. `BracketInv`: seasons are drawn in order, a place is drawn once,
a semifinal's players come from its own quarter of the bracket and each was fed by
the winner of its feeder, wherever the ticker stopped. `WaitingInv` carries
`NoBotStarves`: the bots that have `Overtaking` a waiting bot, i.e. played since it
last played or became eligible, number at least the matches it was passed over in.
Each such match was seeded by the bot with the oldest last match, which cannot have
overtaken before, and has then; there are only NumBots - 1 others. `FeaturedInv`: the
pairs a tick has still to insert share no bot with one another nor with the series
that exist. That `PairUp` yields such pairs is shown round by round of its scan
(`PairRivalsApart`), with places on the ladder instead of bots; eight bots for four
series, the code's own minimum, are what keeps the fill-up loop out of it. `OrdersInv`
(`BotsSpec`: any board, views and memories): the destination of every order is
claimed, and no two orders share one (`Separate`). The lemmas go bot by bot; the
raider's hunt, a loop inside one step, keeps it round by round (`RoundKeepsSeparate`).

`ApiProofs`. `AccountsInv` needs that no secret is stored or told before it is generated
(`SecretsAreIssued`), so that the one a revocation writes is known to nobody. The bound
of the limiter uses the potential `Paid` (what was admitted until now, plus the tokens
left, is paid for by burst and refill since any earlier tick), with `MaxAge >= Burst`: a
bucket is dropped only when it would be full. `UpvotesEarned` counts the requests
between the two statements of an upvote. `PruneIsMonthly` needs that a prune that is due
takes at least one map, which is what the next audit looks for. `MapsStaySound` (a
square board of any size, any margins and thresholds): `SoundMap` is what every row of
the pool and every parent satisfies. The breadth-first search is shown to compute the
least set closed under steps onto open tiles (`ReachIsRegion`); as steps can be taken
back (`BesideBothWays`), a connected first core makes the second one connected
(`OneRegion`), although `CheckConnectivity` looks at the first only. A mutation spares
the nodes it has moved because smoothing can only take walls away, which needs that a
crossover's walls and the flips are whole orbits of the half turn (`Turned`,
`SmoothingTakes`), even though both parents may have lost their symmetry to truncation.
The maps of acb-mapgen are never validated; they have energy enough because each sector
draws at least as many nodes (`NodesPerSector`: ten, or seven) as a core has to reach,
and every open tile is reached.

`BatchProofs`. `EvolverInv`: which rows, files and deployments the candidate has at each
step of its promotion (`CandidateInv`, `DeployInv`) and what the lists of the two
retirers may still name (`ListsInv`: never the candidate in hand; a bot whose retirement
has begun is not active). `NicheInv`: from the gate to the link the candidate stays
fitter than every linked champion of its niche, because others are only unlinked
meanwhile. `DriftInv`: outside the heads of the two lists each step of the evolver
changes both tables or none (a health write or a revocation changes one, for a bot that
is then `foreign`); a failed statement leaves one bot half way, a restart at most two.

The assumptions on constants are the named `ASSUME`s of the modules
(`QueueConstants`, `SeriesConstants`, `TurnConstants`, `VerdictsConstants`,
`ReplaysConstants`, `ChampionshipConstants`, `MatchmakingConstants`,
`AccountsConstants`, `LimitsConstants`, `MapPoolAssumption`, `EvolutionConstants`,
`GameConstants`, `FeaturedAssumption`, `StrategiesAssumption`,
`MapForgeAssumption`); TLC evaluates them in the runs. The bounds on faults, time
and matches are arbitrary naturals in the proofs.

The library's induction theorems cannot be instantiated by the installed provers.
Where a definition is recursive (the sums of the ledger, the scan of the ladder, the
raider's hunt, the search for reachable tiles) the proofs take a least counterexample
instead (`LeastNat`, from the well-foundedness of the naturals), and first show that
some function satisfies the recursion at all.

Only model-checked: the nine temporal properties under fairness (`EveryJobSettles`,
`SeriesEnds`, `TurnsSettle`, `HealthConverges`, `ChampionshipsFinish`,
`InterestingIsEnriched`, `DislikedMapsAreDecided`, `LatestIsPublished`,
`TornSitesHeal`), which are out of the prover's reach. `Commentary` and `SiteBuild`
therefore have runs and no theorem.

## 5. Plan

1. An abstract ladder (a set of results) that Verdicts implements while nothing
   overlaps.
2. A module that composes BotTurns and GameTurn: what an inactive bot's units do.

## 6. What the models show about the code

Runs with a counterexample; `PROJECT.json` quotes the line each contradicts.

* Two workers play the same match without any fault (`queue_single`).
* The series maintenance pass never runs: a failed game wedges its series
  (`series_wedged`).
* An order may move an enemy unit on a shared tile (`turn_orders`).

Met while modelling, without a run of their own. Paths are below `src/`.

Queue, series, engine:

* a match created when no map was eligible gets a map id that is in no table
  (`cmd/acb-matchmaker/tickers.go:345`), `ClaimJob` rolls back
  (`cmd/acb-worker/db.go:212`), and its job stays at the head of the queue for ever;
* the second result of a match played twice is counted into its series, even a
  finished one; a series whose games could not be inserted stays active without
  games; with a working maintenance pass a game may be claimed between the statement
  that abandons a series and the one that retires its games, and a best of five can
  then be decided twice: game 1 fails, the series is abandoned while game 2 is
  claimed by a worker that dies, games 3 to 5 are won and pay the bonus, game 2 is
  reaped, won and pays it again;
* "Highest score wins, ties broken by energy collected, then bots alive"
  (`engine/turn.go:554`; `engine/types.go:280` and `docs/plan/plan.md:431` and `441` say
  the same), but `findWinnerByScore` compares `Player.Energy`, which spawning spends: of
  two players with the same score the one that collected more and spawned with it may
  lose. `OutcomeJustified` says what the code does;
* which of two orders for a shared tile stands depends on Go's map iteration;
  self-collision is not fatal when an enemy arrives on the tile too; a player with
  cores but no unit is eliminated;
* `Run` calls `ClearTurnState` before the visible states are built
  (`engine/match.go:173`), so no request shows a death ("visible for one turn",
  `engine/game.go:297`);
* a bot's crash survives into the next match of a reused runner; an inactive bot
  keeps its last telemetry in later frames;
* the worker gives the engine a map's width as rows and its height as columns
  (`cmd/acb-worker/main.go:345`); the engine ignores a stored map's energy nodes.

Ratings, predictions, accounts, limits:

* a bot in two concurrent matches loses one rating update; a submission claimed
  before a season end overwrites the decay (both are the `Overtaken` of
  `RatingsLoseOnlyToOverlap`); the recalculation drops every decay and series bonus
  that came before it, and a stop after its reset leaves default ratings;
* a pick changed after the match was resolved keeps the old verdict; one inserted
  after completion is never resolved;
* several errors of the submitting transaction are logged "but continue", which
  PostgreSQL does not allow inside a transaction;
* a health probe begun before a revocation writes the bot back into service
  (`tickers.go:545`), although `handleRevokeKey` "permanently retires the bot";
  a rotated key whose answer is lost locks the owner out;
* a limiter of 5 an hour admits 10 in one hour (burst plus refill), and
  `Retry-After` is always 0 (`ratelimit/ratelimit.go:137`);
* the API's job result endpoint cuts the wrong path segment and always answers 400
  (`cmd/acb-api/server.go:472`).

Seasons, maps, community:

* the decided semifinals of all seasons without a final are ordered by position alone
  and only the first two are looked at (`series_season.go:1015`): one season's semifinal
  may keep another season's final from being made, for ever;
* "Maps with >20 net negative votes are force-retired regardless of engagement"
  (`docs/plan/plan.md:3782`, likewise `map_fairness.go:156`), but only active maps and
  maps on probation are looked at: a map voted down may become classic before the next
  audit, or after one whose statement failed, and then stays in play
  (`tickers.go:323`). `DislikedMapsAreDecided` therefore says decided, not retired;
* any automatic best-of-7 series of a season passes for its bracket
  (`series_season.go:1041`); a stop between commit and bracket leaves a season
  without one; a series of a bracket that never ends (`series_wedged`) holds up its
  season;
* the fill-up loop of the featured series is unreachable with eight bots; a stop
  between inserts leaves fewer than four;
* the season rotation's `retired_at` suppresses that month's prune; every audit
  promotes five more classic maps ("Top 5 all-time maps", `docs/plan/plan.md:3839`);
  draws count against a map's fairness;
* truncating walls breaks a map's 180 degree symmetry (`docs/plan/plan.md:520`;
  `acb-map-evolver/main.go:1255`, `acb-mapgen/main.go:350`); the energy shift deletes
  the image at its unwrapped position (`main.go:673`); maps from the loader carry no
  dimensions, and breeding from one divides by zero (`main.go:555`).

Replays, commentary, site:

* "Returns error only if both uploads fail; a B2-only failure is logged but not fatal"
  (`worker/main.go:555`), but `uploadReplay` fails when B2 fails and R2 does not
  (`main.go:587`), and the match is submitted without a URL;
* a cycle whose database query fails deploys the placeholders of the web build in place
  of generated data: `verifyMergedOutput` (`acb-index-builder/deploy.go:104`) looks only
  whether the directory is there;
* a stored replay is overwritten by a second execution (keyed by match,
  `worker/main.go:513`, called immutable in `docs/plan/plan.md:189`); a worker without
  B2 client uploads to R2 neither (`main.go:258`), so the branch of `uploadReplay` for
  it (`main.go:592`) is for no caller; the URL given to `SubmitMatchResult` is not
  stored;
* two workers lose entries of the live feeds, any failed download restarts them
  empty, and nothing resets the deltas;
* nothing consumes the enrichment queue or updates a request's status: a requested
  match that is not interesting is never commented on, although
  `acb-api/server.go:2305` relies on it; the query takes the 100 newest rows without
  commentary, and those that are not interesting never leave it, so an interesting
  match behind them is never commented on (`store.go:112`); one drawn row among them
  fails the whole query (`store.go:128`); a match is marked enriched although its upload
  failed (`generator.go:165`);
* a copy that fails leaves a page or script cut in half over a good one
  (`acb-index-builder/sitebuild.go:258`), and it is deployed; the next cycles heal it;
* without a recent match the exempt ones are not bundled either
  (`acb-index-builder/main.go:284`); a builder that restarts before `DeployInterval`
  cycles never deploys.

Evolver and bots:

* the low-rating query is always rejected (`promoter.go:1048`), so the policy never
  retires; between `SetBotID` and `SetBotNameAndSecret` the ticker retires a bot
  without removing its deployment; a failed `UnsetPromoted` leaves a retired bot as
  champion, a failed `SetPromoted` an active bot without program; a partial
  `SeedPopulation` is never completed; a stop between pollination and
  `SaveCrossPollState` repeats the migration; a health write begun before a retirement
  puts the retired bot back into service, and a revocation in the API leaves its
  program linked and its deployment running (`foreign`, whom `ActiveIsDeployed` and
  `DriftIsBounded` except);
* the gatherer never fills its set of used energy; rusher, siege and assassin do not
  forget razed cores; the raider's reset at four engagements is unreachable; the
  swarm's "prevents self-collision" (`bot_strategies.go:905`) does not hold, nor do
  the strategies outside `Claiming` avoid ordering two units onto one tile; a claiming
  bot's unit may still be ordered onto one that stays where it is (`NoOrdersMeet` is
  about orders only).

## 7. Not modelled

Glicko-2 and win probability (floating point), replay recording (it appends what
happened), HTTP signing and decoding, what a player is shown (the players of
GameTurn order anything), the content of index files, blog, cards and narrative
(read-only formatting of rows), prompts and texts of the language models, the
exporter, metrics and tiers, the local runner and the browser shell, the web front
end and the bots in other languages.
