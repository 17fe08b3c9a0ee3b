------------------------------ MODULE Evolution ------------------------------
(***************************************************************************)
(* The bot evolver (cmd/acb-evolver): one loop that breeds a candidate,    *)
(* validates it, plays it in an arena, passes it through the promotion     *)
(* gate and deploys it; a retirement ticker that runs beside the loop; and *)
(* the migration of programs between islands.                              *)
(*                                                                         *)
(* A program is a row of `programs`; its bot is the row of `bots` named    *)
(* acb-evo-<id>.  Code is abstracted to the set of demands it meets,       *)
(* fitness to a level (scaled by ten, a migrant keeps nine tenths), the    *)
(* behaviour vector to its cell in the MAP-Elites grid.                    *)
(***************************************************************************)
EXTENDS Integers, Sequences, FiniteSets, FiniteSetsExt

CONSTANTS
  NumIslands,         \* islands 1..NumIslands, in the order of AllIslands
  MaxPrograms,        \* bound: programs ever created
  MaxRetries,         \* RunConfig.MaxRetries
  Niches,             \* cells of the grid that can occur
  FitLevels,          \* fitness levels an arena can give
  Opponents,          \* bots the arena draws on
  Rounds,             \* matches against each of them
  PopCap,             \* RunConfig.PopCap
  Interval,           \* generationInterval
  PolicySQLAccepted,  \* FALSE: queryConsecutiveLowRating as it is written
  MaxFaults           \* bound: failed statements, commands and crashes

Islands == 1..NumIslands
Ids == 1..MaxPrograms

ASSUME EvolutionConstants ==
  /\ NumIslands \in Nat \ {0} /\ MaxPrograms \in Nat /\ MaxRetries \in Nat
  /\ PopCap \in Nat /\ Interval \in Nat \ {0} /\ MaxFaults \in Nat
  /\ Rounds \in Nat \ {0} /\ FitLevels \subseteq Nat /\ PolicySQLAccepted \in BOOLEAN

VARIABLES
  programs,  \* the programs table: id -> row, for the rows that exist
  lastId,    \* the sequence behind programs.id
  bots,      \* id -> status of its row in bots, for the rows that exist
  rating,    \* id -> display rating: 1 below RatingThreshold now or for the last week (and
             \* then below all others), else 2; bots of one level stand in any order
  repo,      \* ids whose source is in the bot repository
  workflows, \* ids whose deployment workflow is running
  cluster,   \* ids with an available deployment
  pc,        \* where the loop is
  cycle,     \* locals of runCycle
  todo,      \* per retirer: bots EnforcePolicy still has to retire
  rstep,     \* per retirer: the statement of RetireBot that is next
  prevGens,  \* last generation of each island that was checked, in memory
  saved,     \* the same in crosspoll_state
  migrating, \* boundaries still to be pollinated in this check
  lastIsland,\* islandIdx of the loop
  faults,    \* faults so far
  blind,     \* history: ids whose gate or fitness update met a failed statement
  probed,    \* bots the matchmaker's health checker has read and not yet written
  foreign    \* history: ids whose bots row somebody else moved into or out of 'retired'

tables == <<programs, lastId, bots>>
world == <<repo, workflows, cluster>>
retirement == <<todo, rstep>>
pollination == <<prevGens, saved, migrating>>
vars == <<programs, lastId, bots, rating, repo, workflows, cluster, pc, cycle, todo, rstep,
          prevGens, saved, migrating, lastIsland, faults, blind, probed, foreign>>

NoCycle ==
  [island |-> 1, retry |-> 0, id |-> 0, gen |-> 0, code |-> {}, fit |-> 0, verdict |-> FALSE]
Retirers == {"cycle", "ticker"}

Rows == DOMAIN programs
On(i) == {p \in Rows : programs[p].island = i}
MaxGen(i) == IF On(i) = {} THEN 0 ELSE Max({programs[p].gen : p \in On(i)})
Linked == {p \in Rows : programs[p].promoted /\ programs[p].bot}
Active == {p \in DOMAIN bots : bots[p] = "active"}

Fault == faults < MaxFaults /\ faults' = faults + 1

Demands == {"compiles", "endpoints", "builds", "healthy", "rejectsForged", "answersTurns",
            "validMoves"}

\* The code blocks of a model's answer: none, or code that meets some demands.
ExtractCandidates == {{}} \cup {Demands} \cup {Demands \ {d} : d \in Demands}

\* The best of the candidates by a score over words in the code, refined once
\* more when that succeeds: any of the answers, or none when every call failed.
Ensemble == ExtractCandidates

(***************************************************************************)
(* Validation: three stages, the first failure ends it.                    *)
(***************************************************************************)

CheckSyntax(code) == "compiles" \in code

CheckSchema(code) == "endpoints" \in code

\* The sandbox: build, start, wait for /health, refuse tampered requests,
\* answer the smoke turns with well-formed moves.
BuildBot(code) == "builds" \in code
WaitForHealth(code) == "healthy" \in code
VerifyAuthRejections(code) == "rejectsForged" \in code
SendTurnRequest(code) == "answersTurns" \in code
ValidateMoveResponse(code) == "validMoves" \in code
RunSmokeTest(code) == /\ BuildBot(code) /\ WaitForHealth(code)
                      /\ VerifyAuthRejections(code)
                      /\ SendTurnRequest(code) /\ ValidateMoveResponse(code)

Validate(code) == CheckSyntax(code) /\ CheckSchema(code) /\ RunSmokeTest(code)

(***************************************************************************)
(* The gate.  A tally gives for each opponent the matches won and played   *)
(* without error.                                                          *)
(***************************************************************************)
Tallies == [Opponents -> {t \in (0..Rounds) \X (0..Rounds) : t[1] <= t[2]}]
Sum(t, k) == MapThenSumSet(LAMBDA o : t[o][k], Opponents)

\* The worst opponent's win rate is at least one half; no matches count as one half.
ComputeNash(t) == \A o \in Opponents : 2 * t[o][1] >= t[o][2]

\* Wilson's lower bound (z = 1.96) of w wins in n is at least 0.40, squared out.
WinRate(w, n) == /\ n > 0
                 /\ 10 * w >= 4 * n
                 /\ 10000 * (10 * w - 4 * n) * (10 * w - 4 * n) >= 921984 * n

\* Mutant: a candidate as fit as the champion takes the cell too.
TryPlaceTies(grid, niche, fit) ==
  \A p \in grid : programs[p].niche = niche => fit >= programs[p].fit

\* TryPlace: the cell is empty or every champion in it is less fit.
TryPlace(grid, niche, fit) == \A p \in grid : programs[p].niche = niche => fit > programs[p].fit

Evaluate(t, grid, niche, fit) ==
  ComputeNash(t) /\ WinRate(Sum(t, 1), Sum(t, 2)) /\ TryPlace(grid, niche, fit)

\* A first guess of the behaviour from words in the code: any cell.
EstimateBehavior == Niches

(***************************************************************************)
(* The store.                                                              *)
(***************************************************************************)
Create(row) == /\ lastId < MaxPrograms
               /\ lastId' = lastId + 1
               /\ programs' = [p \in Rows \cup {lastId + 1} |-> IF p \in Rows THEN programs[p] ELSE row]

Delete(p) == programs' = [q \in Rows \ {p} |-> programs[q]]

Row(island, gen, fit, niche) ==
  [island |-> island, gen |-> gen, fit |-> fit, niche |-> niche,
   promoted |-> FALSE, bot |-> FALSE, named |-> FALSE]

Init ==
  /\ programs = <<>> /\ lastId = 0 /\ bots = <<>> /\ rating = [p \in Ids |-> 2]
  /\ repo = {} /\ workflows = {} /\ cluster = {} /\ pc = "boot" /\ cycle = NoCycle
  /\ todo = [r \in Retirers |-> <<>>] /\ rstep = [r \in Retirers |-> "status"]
  /\ prevGens = [i \in Islands |-> 0] /\ saved = [i \in Islands |-> 0]
  /\ migrating = {} /\ lastIsland = 0 /\ faults = 0 /\ blind = {}
  /\ probed = {} /\ foreign = {}

\* One seed per island, only into an empty table; an error ends the process.
SeedPopulation ==
  /\ pc = "boot"
  /\ \/ Rows # {} /\ pc' = "idle" /\ UNCHANGED <<tables, faults>>
     \/ /\ Rows = {} /\ NumIslands <= MaxPrograms
        /\ \E niche \in Niches, k \in 0..NumIslands :
             /\ programs' = [p \in 1..k |-> Row(p, 0, 0, niche)]
             /\ lastId' = k
             /\ \/ k = NumIslands /\ pc' = "idle" /\ UNCHANGED faults
                \/ k < NumIslands /\ Fault /\ UNCHANGED pc
        /\ UNCHANGED bots
  /\ UNCHANGED <<rating, world, cycle, retirement, pollination, lastIsland, blind, probed,
                 foreign>>

(***************************************************************************)
(* One cycle of the loop.                                                  *)
(***************************************************************************)

\* Round robin: the interval between cycles exceeds an island's cooldown.
SelectNextIsland == (lastIsland % NumIslands) + 1

StartCycle ==
  /\ pc = "idle"
  /\ lastId < MaxPrograms
  /\ LET i == SelectNextIsland IN
       /\ lastIsland' = i
       /\ cycle' = [NoCycle EXCEPT !.island = i, !.gen = MaxGen(i) + 1]
       /\ pc' = IF On(i) = {} THEN "check" ELSE "generate"
  /\ UNCHANGED <<tables, rating, world, retirement, pollination, faults, blind, probed, foreign>>

\* The ensemble gives no candidate, or one whose row is inserted.
Generate ==
  /\ pc = "generate"
  /\ \/ /\ {} \in Ensemble
        /\ pc' = IF cycle.retry < MaxRetries THEN "generate" ELSE "check"
        /\ cycle' = [cycle EXCEPT !.retry = @ + 1]
        /\ UNCHANGED tables
     \/ \E code \in Ensemble \ {{}}, niche \in EstimateBehavior :
          /\ Create(Row(cycle.island, cycle.gen, 0, niche))
          /\ cycle' = [cycle EXCEPT !.id = lastId + 1, !.code = code]
          /\ pc' = "validate"
          /\ UNCHANGED bots
  /\ UNCHANGED <<rating, world, retirement, pollination, lastIsland, faults, blind, probed,
                 foreign>>

\* A candidate that fails is deleted (an error of the DELETE is ignored).
ValidateCandidate ==
  /\ pc = "validate"
  /\ \/ /\ Validate(cycle.code)
        /\ pc' = "arena"
        /\ UNCHANGED <<programs, cycle, faults>>
     \/ /\ ~Validate(cycle.code)
        /\ cycle' = [cycle EXCEPT !.retry = @ + 1, !.id = 0]
        /\ pc' = IF cycle.retry < MaxRetries THEN "generate" ELSE "check"
        /\ \/ Delete(cycle.id) /\ UNCHANGED faults
           \/ Fault /\ UNCHANGED programs
  /\ UNCHANGED <<lastId, bots, rating, world, retirement, pollination, lastIsland, blind,
                 probed, foreign>>

\* The arena; its result is written to the row and put through the gate.  An
\* error of UpdateFitness or ListPromoted is ignored: the row keeps its
\* estimates, the grid is empty.
Arena ==
  /\ pc = "arena"
  /\ \E t \in Tallies, niche \in Niches, fit \in FitLevels, ok \in BOOLEAN :
       /\ programs' = IF ok THEN [programs EXCEPT ![cycle.id].fit = fit, ![cycle.id].niche = niche]
                      ELSE programs
       /\ IF ok THEN UNCHANGED <<faults, blind, probed, foreign>>
          ELSE Fault /\ blind' = blind \cup {cycle.id}
       /\ pc' = IF Evaluate(t, IF ok THEN Linked ELSE {}, niche, fit) THEN "source" ELSE "check"
       /\ cycle' = [cycle EXCEPT !.fit = fit]
  /\ UNCHANGED <<lastId, bots, rating, world, retirement, pollination, lastIsland, probed,
                 foreign>>

\* The candidate does not start or there is no opponent: it is deleted.
ArenaError ==
  /\ pc = "arena"
  /\ Delete(cycle.id)
  /\ pc' = "check"
  /\ UNCHANGED <<lastId, bots, rating, world, cycle, retirement, pollination, lastIsland,
                 faults, blind, probed, foreign>>

(***************************************************************************)
(* Promote: source, deployment, bot row, three updates of the program.     *)
(* An error of any step leaves what the earlier ones did.                  *)
(***************************************************************************)
PromoteSource ==
  /\ pc = "source"
  /\ repo' = repo \cup {cycle.id}
  /\ pc' = "trigger"
  /\ UNCHANGED <<tables, rating, workflows, cluster, cycle, retirement, pollination, lastIsland,
                 faults, blind, probed, foreign>>

TriggerArgoWorkflow ==
  /\ pc = "trigger"
  /\ workflows' = workflows \cup {cycle.id}
  /\ pc' = "workflow"
  /\ UNCHANGED <<tables, rating, repo, cluster, cycle, retirement, pollination, lastIsland,
                 faults, blind, probed, foreign>>

\* The workflow ends, with or without a deployment; nobody may be waiting any more.
WorkflowEnds(p) ==
  /\ p \in workflows
  /\ workflows' = workflows \ {p}
  /\ \/ cluster' = cluster \cup {p}
     \/ UNCHANGED cluster
  /\ UNCHANGED <<tables, rating, repo, pc, cycle, retirement, pollination, lastIsland, faults,
                 blind, probed, foreign>>

\* Succeeded; or failed, or thirty minutes are over.
WaitForWorkflow ==
  /\ pc = "workflow"
  /\ \/ cycle.id \notin workflows /\ pc' = "ready"
     \/ pc' = "check"
  /\ UNCHANGED <<tables, rating, world, cycle, retirement, pollination, lastIsland, faults,
                 blind, probed, foreign>>

\* Mutant: the rollout is taken for granted.
WaitForDeploymentNot ==
  /\ pc = "ready" /\ pc' = "row"
  /\ UNCHANGED <<tables, rating, world, cycle, retirement, pollination, lastIsland, faults,
                 blind, probed, foreign>>

WaitForDeployment ==
  /\ pc = "ready"
  /\ \/ cycle.id \in cluster /\ pc' = "row"
     \/ cycle.id \notin cluster /\ pc' = "check"
  /\ UNCHANGED <<tables, rating, world, cycle, retirement, pollination, lastIsland, faults,
                 blind, probed, foreign>>

PromoteRow ==
  /\ pc = "row"
  /\ bots' = [p \in DOMAIN bots \cup {cycle.id} |-> IF p = cycle.id THEN "active" ELSE bots[p]]
  /\ pc' = "promoted"
  /\ UNCHANGED <<programs, lastId, rating, world, cycle, retirement, pollination, lastIsland,
                 faults, blind, probed, foreign>>

PromoteProgram ==
  /\ \/ pc = "promoted" /\ programs' = [programs EXCEPT ![cycle.id].promoted = TRUE] /\ pc' = "link"
     \/ pc = "link" /\ programs' = [programs EXCEPT ![cycle.id].bot = TRUE] /\ pc' = "name"
     \/ pc = "name" /\ programs' = [programs EXCEPT ![cycle.id].named = TRUE] /\ pc' = "policy"
  /\ UNCHANGED <<lastId, bots, rating, world, cycle, retirement, pollination, lastIsland,
                 faults, blind, probed, foreign>>

PromoteError ==
  /\ pc \in {"source", "trigger", "row", "promoted", "link", "name"}
  /\ Fault
  /\ pc' = "check"
  /\ \/ pc = "source" /\ repo' = repo \cup {cycle.id} /\ UNCHANGED workflows
     \/ pc = "trigger" /\ workflows' = workflows \cup {cycle.id} /\ UNCHANGED repo
     \/ UNCHANGED <<repo, workflows>>
  /\ UNCHANGED <<tables, rating, cluster, cycle, retirement, pollination, lastIsland, blind,
                 probed, foreign>>

(***************************************************************************)
(* Retirement, by the loop after a promotion and by the ticker.            *)
(***************************************************************************)
Fleet == {p \in Linked : bots[p] = "active"}

\* The fleet by ascending display rating.
Ranked == {s \in [1..Cardinality(Fleet) -> Fleet] :
             /\ \A i, j \in DOMAIN s : i < j => s[i] # s[j] /\ rating[s[i]] <= rating[s[j]]}

\* Whom EnforcePolicy retires: a week below the threshold, below it now, or
\* the weakest while more than PopCap remain.  The loop goes by ascending
\* rating, so those it passes over come last: the list is a beginning of s,
\* and at its i-th bot Len(s) - i + 1 remain.
RetireList(s) ==
  LET doomed == {i \in 1..Len(s) : rating[s[i]] <= 1 \/ i <= Len(s) - PopCap}
  IN  [i \in 1..Cardinality(doomed) |-> [id |-> s[i], named |-> programs[s[i]].named]]

\* The first query fails as it is written: is_below is no column of its source.
EnforcePolicy(r) ==
  /\ todo[r] = <<>>
  /\ r = "cycle" => pc = "policy"
  /\ \E s \in Ranked :
       todo' = [todo EXCEPT ![r] = IF PolicySQLAccepted THEN RetireList(s) ELSE <<>>]
  /\ pc' = IF r = "ticker" THEN pc ELSE IF todo'[r] = <<>> THEN "check" ELSE "retire"
  /\ UNCHANGED <<tables, rating, world, cycle, rstep, pollination, lastIsland, faults, blind,
                 probed, foreign>>

\* RetireBot, statement by statement; git and manifest errors are only logged.
At(r, step) == todo[r] # <<>> /\ rstep[r] = step
To(r, step) == rstep' = [rstep EXCEPT ![r] = step] /\ UNCHANGED <<todo, pc>>

RetireStatus(r) ==
  /\ At(r, "status")
  /\ bots' = [bots EXCEPT ![Head(todo[r]).id] = "retired"]
  /\ To(r, IF Head(todo[r]).named THEN "source" ELSE "unset")
  /\ UNCHANGED <<programs, repo, cluster, faults>>

GitRemove(r) ==
  /\ At(r, "source")
  /\ \/ repo' = repo \ {Head(todo[r]).id} /\ UNCHANGED faults
     \/ Fault /\ UNCHANGED repo
  /\ To(r, "manifest")
  /\ UNCHANGED <<programs, bots, cluster>>

RemoveK8sManifests(r) ==
  /\ At(r, "manifest")
  /\ \/ cluster' = cluster \ {Head(todo[r]).id} /\ UNCHANGED faults
     \/ Fault /\ UNCHANGED cluster
  /\ To(r, "unset")
  /\ UNCHANGED <<programs, bots, repo>>

\* Mutant: the program of a retired bot stays promoted.
UnsetPromotedNot(r) ==
  /\ At(r, "unset")
  /\ rstep' = [rstep EXCEPT ![r] = "status"]
  /\ todo' = [todo EXCEPT ![r] = Tail(@)]
  /\ pc' = IF r = "cycle" /\ Len(todo[r]) = 1 THEN "check" ELSE pc
  /\ UNCHANGED <<programs, bots, repo, cluster, faults>>

UnsetPromoted(r) ==
  /\ At(r, "unset")
  /\ programs' = [programs EXCEPT ![Head(todo[r]).id].promoted = FALSE, ![Head(todo[r]).id].bot = FALSE]
  /\ rstep' = [rstep EXCEPT ![r] = "status"]
  /\ todo' = [todo EXCEPT ![r] = Tail(@)]
  /\ pc' = IF r = "cycle" /\ Len(todo[r]) = 1 THEN "check" ELSE pc
  /\ UNCHANGED <<bots, repo, cluster, faults>>

RetireBot(r) ==
  /\ RetireStatus(r) \/ GitRemove(r) \/ RemoveK8sManifests(r) \/ UnsetPromoted(r)
  /\ UNCHANGED <<lastId, rating, workflows, cycle, pollination, lastIsland, blind, probed,
                 foreign>>

\* A failed UPDATE ends the enforcement: the rest of the list is dropped.
RetireError(r) ==
  /\ todo[r] # <<>> /\ rstep[r] \in {"status", "unset"}
  /\ Fault
  /\ todo' = [todo EXCEPT ![r] = <<>>]
  /\ rstep' = [rstep EXCEPT ![r] = "status"]
  /\ pc' = IF r = "cycle" THEN "check" ELSE pc
  /\ UNCHANGED <<tables, rating, world, cycle, pollination, lastIsland, blind, probed, foreign>>

\* Matches played elsewhere move the display rating of an active bot.
RatingChanges(p) ==
  /\ p \in Active
  /\ \E x \in 1..2 : rating' = [rating EXCEPT ![p] = x]
  /\ UNCHANGED <<tables, world, pc, cycle, retirement, pollination, lastIsland, faults, blind,
                 probed, foreign>>

(***************************************************************************)
(* Migration: every Interval generations an island's best program is       *)
(* copied to another one.                                                  *)
(***************************************************************************)
Boundaries(i) == {b \in 1..MaxGen(i) : b % Interval = 0 /\ b > prevGens[i]}

\* MaxGenerationByIsland is read once for the whole check.
CheckAndPollinate ==
  /\ pc = "check"
  /\ migrating' = {m \in Islands \X (1..MaxPrograms) : m[2] \in Boundaries(m[1])}
  /\ prevGens' = [i \in Islands |-> MaxGen(i)]
  /\ pc' = "migrate"
  /\ cycle' = NoCycle
  /\ UNCHANGED <<tables, rating, world, retirement, saved, lastIsland, faults, blind, probed,
                 foreign>>

PollinateIsland ==
  /\ pc = "migrate" /\ migrating # {}
  /\ LET m == CHOOSE x \in migrating : \A y \in migrating :
                x[1] < y[1] \/ (x[1] = y[1] /\ x[2] <= y[2])
     IN /\ migrating' = migrating \ {m}
        /\ \/ \E top \in On(m[1]), i \in Islands \ {m[1]} :
                /\ \A q \in On(m[1]) : programs[q].fit <= programs[top].fit
                /\ Create(Row(i, programs[top].gen, (programs[top].fit * 9) \div 10, programs[top].niche))
                /\ UNCHANGED faults
           \/ (Fault \/ (lastId = MaxPrograms /\ UNCHANGED faults)) /\ UNCHANGED <<programs,
                                                                                   lastId>>
  /\ UNCHANGED <<bots, rating, world, pc, cycle, retirement, prevGens, saved, lastIsland, blind,
                 probed, foreign>>

SaveCrossPollState ==
  /\ pc = "migrate" /\ migrating = {}
  /\ \/ saved' = prevGens /\ UNCHANGED faults
     \/ Fault /\ UNCHANGED saved
  /\ pc' = "idle"
  /\ UNCHANGED <<tables, rating, world, cycle, retirement, prevGens, migrating, lastIsland,
                 blind, probed, foreign>>

\* The process dies anywhere; what it kept in memory is gone.
Restart ==
  /\ Fault
  /\ pc' = "boot" /\ cycle' = NoCycle
  /\ todo' = [r \in Retirers |-> <<>>] /\ rstep' = [r \in Retirers |-> "status"]
  /\ prevGens' = saved /\ migrating' = {} /\ lastIsland' = 0
  /\ UNCHANGED <<tables, rating, world, saved, blind, probed, foreign>>

Cycle == \/ SeedPopulation \/ StartCycle \/ Generate \/ ValidateCandidate
         \/ Arena \/ ArenaError \/ PromoteSource \/ TriggerArgoWorkflow
         \/ WaitForWorkflow \/ WaitForDeployment \/ PromoteRow \/ PromoteProgram \/ PromoteError
         \/ CheckAndPollinate \/ PollinateIsland \/ SaveCrossPollState

Retirement(r) == EnforcePolicy(r) \/ RetireBot(r) \/ RetireError(r)

(***************************************************************************)
(* Others who write bots.status: the matchmaker's health checker and the   *)
(* API.                                                                    *)
(***************************************************************************)

\* Bots in service, paused ('inactive') ones included, whose row nobody but the
\* evolver moved into or out of 'retired'.
Own == {p \in DOMAIN bots : bots[p] # "retired"} \ foreign

\* tickHealthChecker reads the rows to probe.
HealthQuery ==
  /\ probed = {}
  /\ probed' = {p \in DOMAIN bots : bots[p] \in {"active", "inactive"}}
  /\ probed' # {}
  /\ UNCHANGED <<tables, rating, world, pc, cycle, retirement, pollination, lastIsland, faults,
                 blind, foreign>>

\* After the probe it writes nothing, or a status: the one it read before, or the
\* one the probe asks for.  It does not look whether the bot was retired meanwhile.
HealthWrite(p) ==
  /\ p \in probed \cap DOMAIN bots
  /\ probed' = probed \ {p}
  /\ \/ UNCHANGED <<bots, foreign>>
     \/ /\ \E s \in {"active", "inactive"} : bots' = [bots EXCEPT ![p] = s]
        /\ foreign' = IF bots[p] = "retired" THEN foreign \cup {p} ELSE foreign
  /\ UNCHANGED <<programs, lastId, rating, world, pc, cycle, retirement, pollination,
                 lastIsland, faults, blind>>

\* Revocation, or rotation with retire, of a bot's credential in the API.
RevokedInApi(p) ==
  /\ p \in DOMAIN bots /\ bots[p] # "retired"
  /\ bots' = [bots EXCEPT ![p] = "retired"]
  /\ foreign' = foreign \cup {p}
  /\ UNCHANGED <<programs, lastId, rating, world, pc, cycle, retirement, pollination,
                 lastIsland, faults, blind, probed>>

Others == HealthQuery \/ \E p \in Ids : HealthWrite(p) \/ RevokedInApi(p)

Next == \/ Cycle \/ Restart \/ Others
        \/ \E r \in Retirers : Retirement(r)
        \/ \E p \in Ids : RatingChanges(p) \/ WorkflowEnds(p)

Spec == Init /\ [][Next]_vars

(***************************************************************************)
(* Properties.                                                             *)
(***************************************************************************)

\* A bot that is in service is really there: its source is in the repository
\* and its deployment runs, whatever step of a promotion or a retirement failed,
\* and whichever retirer works beside the loop.  Out of the evolver's hands are
\* bots the health checker put back, writing after their retirement what it had
\* read before (and those the API retired).
ActiveIsDeployed == Own \subseteq repo \cap cluster

\* Programs a retirer has still to take down, and the one being linked.
Listed(r) == {todo[r][k].id : k \in DOMAIN todo[r]}
InFlight == Listed("cycle") \cup Listed("ticker") \cup (IF pc \in {"promoted", "link"} THEN {cycle.id} ELSE {})

\* The bots table and the programs table name the same fleet, except for the
\* bot being promoted and those being retired, for at most two per fault (the
\* links are separate statements on both sides), and for the bots that others
\* retired or put back: the API and the health checker leave programs alone.
DriftIsBounded == Cardinality(SymDiff(Own, Linked \ foreign) \ InFlight) <= 2 * faults

\* Two deployed champions of one niche never have the same fitness: the later
\* one had to beat the earlier.  Programs whose gate met a failed statement
\* are exempt, since the code ignores those errors.
NicheImproves ==
  \A p, q \in Linked \ blind :
    p # q /\ programs[p].niche = programs[q].niche => programs[p].fit # programs[q].fit

==============================================================================
