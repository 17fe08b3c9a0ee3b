------------------------------ MODULE MapPool ------------------------------
(***************************************************************************)
(* The pool of maps: the matchmaker's hourly audit                         *)
(* (map_fairness.go), the rotation at the end of a season                  *)
(* (series_season.go) and the engagement the workers record (db.go), with  *)
(* the votes of Community.                                                 *)
(*                                                                         *)
(* The audit is five statements one after another, an error in one only    *)
(* logged; games, votes and the rotation run between them.  The maps are   *)
(* those for two players; the other sizes go through the same statements.  *)
(***************************************************************************)
EXTENDS Community

CONSTANTS
    PoolWorkers,      \* workers that play on the maps
    WallDensity,      \* per map
    CreatedAt,        \* per map: the order in which they were made
    FairnessMinGames, \* games before a map is judged (80)
    DislikedBy,       \* net votes against a map beyond which it is retired (20)
    PruneMin,         \* fewest active maps that are pruned (10)
    ClassicTopN,      \* maps made classic by one audit (5)
    MaxPlays,         \* bound: games played
    MaxPoolFaults     \* bound: audit statements that fail

ASSUME MapPoolAssumption ==
    /\ IsFiniteSet(PoolMaps)
    /\ {FairnessMinGames, PruneMin, ClassicTopN} \subseteq Nat \ {0}
    /\ {DislikedBy, MaxPlays, MaxPoolFaults, MaxUpvoteFaults, MinLength} \subseteq Nat

VARIABLES
    mapStatus,    \* maps.status
    engagement,   \* maps.engagement: 0, 1 for less than 0.3, 2
    aged,         \* maps older than three months
    playing,      \* per worker: its game, NoPlay between games
    plays,        \* games begun
    won,          \* per map: completed games, and those won by the first and the second slot
    fairness,     \* map_fairness: the same, as the audit last stored it
    retiredNow,   \* maps whose retired_at lies in this month
    firstDay,     \* whether it is the first of the month
    prunes,       \* prunes that took a map this month
    audit,        \* the next statement of the audit, or "idle"
    poolFaults

poolVars == <<mapStatus, engagement, aged, playing, plays, won, fairness, retiredNow,
              firstDay, prunes, audit, poolFaults>>
games == <<engagement, playing, plays, won>>
calendar == <<aged, firstDay>>

NoPlay == [on |-> "none", read |-> 0, written |-> FALSE]
NoGames == [games |-> 0, first |-> 0, second |-> 0]

MapPoolInit ==
    /\ CommunityInit
    /\ mapStatus = [m \in PoolMaps |-> "active"]
    /\ engagement = [m \in PoolMaps |-> 0]
    /\ aged = {}
    /\ playing = [w \in PoolWorkers |-> NoPlay]
    /\ plays = 0
    /\ won = [m \in PoolMaps |-> NoGames]
    /\ fairness = [m \in PoolMaps |-> NoGames]
    /\ retiredNow = {}
    /\ firstDay = FALSE
    /\ prunes = 0
    /\ audit = "idle"
    /\ poolFaults = 0

In(statuses) == {m \in PoolMaps : mapStatus[m] \in statuses}

-----------------------------------------------------------------------------
(***************************************************************************)
(* Games.  A series takes its map by the game's number; a game without one *)
(* is played on a grid of its own and leaves the pool alone.               *)
(***************************************************************************)
SelectSeriesMap(n) ==
    LET pool == In({"active", "classic"})
        Top(Rank(_)) == {m \in pool : \A o \in pool : Rank(o) <= Rank(m)}
    IN  CASE n = 1 -> Top(LAMBDA m : engagement[m])
          [] n = 2 -> Top(LAMBDA m : WallDensity[m])
          [] n = 3 -> Top(LAMBDA m : -WallDensity[m])
          [] n = 4 -> Top(LAMBDA m : CreatedAt[m])
          [] OTHER -> pool

\* The engagement row is read here and written, from that reading, below.
Play(w, n) ==
    /\ playing[w] = NoPlay
    /\ plays < MaxPlays
    /\ \E m \in SelectSeriesMap(n) :
        playing' = [playing EXCEPT ![w] = [on |-> m, read |-> engagement[m], written |-> FALSE]]
    /\ plays' = plays + 1
    /\ UNCHANGED <<engagement, won, mapStatus, fairness, retiredNow, calendar, prunes, audit,
                   poolFaults, communityVars>>

\* A mean lies between the old one and the score, and is 0 only if both are.
UpdateMapEngagement(w) ==
    /\ playing[w] # NoPlay
    /\ ~playing[w].written
    /\ \E score \in 0 .. 2 :
        LET read == playing[w].read
        IN  \E mean \in Min({read, score}) .. Max({read, score}) :
                /\ mean = 0 => read = 0 /\ score = 0
                /\ engagement' = [engagement EXCEPT ![playing[w].on] = mean]
    /\ playing' = [playing EXCEPT ![w].written = TRUE]
    /\ UNCHANGED <<plays, won, mapStatus, fairness, retiredNow, calendar, prunes, audit,
                   poolFaults, communityVars>>

CompleteGame(w, winner) ==
    /\ playing[w] # NoPlay
    /\ playing[w].written
    /\ won' = [won EXCEPT ![playing[w].on] =
                 [games |-> @.games + 1,
                  first |-> @.first + (IF winner = 0 THEN 1 ELSE 0),
                  second |-> @.second + (IF winner = 1 THEN 1 ELSE 0)]]
    /\ playing' = [playing EXCEPT ![w] = NoPlay]
    /\ UNCHANGED <<plays, engagement, mapStatus, fairness, retiredNow, calendar, prunes, audit,
                   poolFaults, communityVars>>

-----------------------------------------------------------------------------
(***************************************************************************)
(* The audit.                                                              *)
(***************************************************************************)
TickFairnessAudit ==
    /\ audit = "idle"
    /\ audit' = "stats"
    /\ UNCHANGED <<games, mapStatus, fairness, retiredNow, calendar, prunes, poolFaults,
                   communityVars>>

\* One statement done or failed, the next is due.
Step(here, next) ==
    /\ audit = here
    /\ audit' = next
    /\ UNCHANGED <<games, calendar, communityVars>>

StepFails(here, next) ==
    /\ poolFaults < MaxPoolFaults
    /\ poolFaults' = poolFaults + 1
    /\ Step(here, next)
    /\ UNCHANGED <<mapStatus, fairness, retiredNow, prunes>>

\* The rows are upserted one by one; a failing one is skipped.
UpdateMapFairnessStats ==
    \E stored \in SUBSET {m \in In({"active", "probation"}) : won[m].games > 0} :
        /\ stored # {m \in In({"active", "probation"}) : won[m].games > 0} =>
               poolFaults < MaxPoolFaults
        /\ Step("stats", "flag")
        /\ fairness' = [m \in PoolMaps |-> IF m \in stored THEN won[m] ELSE fairness[m]]
        /\ poolFaults' = IF stored = {m \in In({"active", "probation"}) : won[m].games > 0}
                           THEN poolFaults ELSE poolFaults + 1
        /\ UNCHANGED <<mapStatus, retiredNow, prunes>>

\* |wins / games - 1/2| > 0.10
Unfair(row) ==
    /\ row.games >= FairnessMinGames
    /\ \E wins \in {row.first, row.second} :
        \/ 10 * wins - 5 * row.games > row.games
        \/ 5 * row.games - 10 * wins > row.games

Set(ms, status) == [m \in PoolMaps |-> IF m \in ms THEN status ELSE mapStatus[m]]

FlagUnfairMaps ==
    /\ Step("flag", "retire")
    /\ mapStatus' = Set({m \in In({"active"}) : Unfair(fairness[m])}, "probation")
    /\ UNCHANGED <<fairness, retiredNow, prunes, poolFaults>>

\* Mutant: a map on probation is no longer retired.
DislikedActive == {m \in In({"active"}) : NetVotes(m) < -DislikedBy}
Disliked == {m \in In({"active", "probation"}) : NetVotes(m) < -DislikedBy}

RetireDislikedMaps ==
    /\ Step("retire", "prune")
    /\ mapStatus' = Set(Disliked, "retired")
    /\ retiredNow' = retiredNow \union Disliked
    /\ UNCHANGED <<fairness, prunes, poolFaults>>

\* Mutant: the prune does not look for maps retired this month.
PruneDueDaily == firstDay
PruneDue == firstDay /\ retiredNow = {}

\* A tenth of the active maps, rounded up, those of least engagement.
LowestEngagement ==
    LET active == In({"active"})
        n == (Cardinality(active) + 9) \div 10
    IN  {ms \in kSubset(n, active) :
            \A m \in ms, o \in active \ ms : engagement[m] <= engagement[o]}

PruneLowEngagementMaps ==
    /\ Step("prune", "classic")
    /\ IF PruneDue /\ Cardinality(In({"active"})) >= PruneMin
         THEN \E ms \in LowestEngagement :
                /\ mapStatus' = Set(ms, "retired")
                /\ retiredNow' = retiredNow \union ms
                /\ prunes' = prunes + 1
         ELSE UNCHANGED <<mapStatus, retiredNow, prunes>>
    /\ UNCHANGED <<fairness, poolFaults>>

PromoteClassicMaps ==
    /\ Step("classic", "idle")
    /\ LET eligible == {m \in In({"active"}) : engagement[m] > 0 /\ m \in aged}
       IN  \E ms \in kSubset(Min({ClassicTopN, Cardinality(eligible)}), eligible) :
            /\ \A m \in ms, o \in eligible \ ms : engagement[o] <= engagement[m]
            /\ mapStatus' = Set(ms, "classic")
    /\ UNCHANGED <<fairness, retiredNow, prunes, poolFaults>>

AuditStep ==
    \/ UpdateMapFairnessStats \/ StepFails("stats", "flag")
    \/ FlagUnfairMaps \/ StepFails("flag", "retire")
    \/ RetireDislikedMaps \/ StepFails("retire", "prune")
    \/ PruneLowEngagementMaps \/ StepFails("prune", "classic")
    \/ PromoteClassicMaps \/ StepFails("classic", "idle")

-----------------------------------------------------------------------------
\* The end of a season: old maps of little engagement become classic, with a
\* retired_at that the monthly prune takes for one of its own.
RotateMapPool ==
    LET ms == {m \in In({"active"}) : m \in aged /\ engagement[m] < 2}
    IN  /\ ms # {}
        /\ mapStatus' = Set(ms, "classic")
        /\ retiredNow' = retiredNow \union ms
        /\ UNCHANGED <<games, fairness, calendar, prunes, audit, poolFaults, communityVars>>

MonthBegins ==
    /\ ~firstDay
    /\ firstDay' = TRUE
    /\ retiredNow' = {}
    /\ prunes' = 0
    /\ UNCHANGED <<games, mapStatus, fairness, aged, audit, poolFaults, communityVars>>

FirstDayPasses ==
    /\ firstDay
    /\ firstDay' = FALSE
    /\ UNCHANGED <<games, mapStatus, fairness, retiredNow, aged, prunes, audit, poolFaults,
                   communityVars>>

MapAges(m) ==
    /\ m \notin aged
    /\ aged' = aged \union {m}
    /\ UNCHANGED <<games, mapStatus, fairness, retiredNow, firstDay, prunes, audit, poolFaults,
                   communityVars>>

MapPoolNext ==
    \/ \E w \in PoolWorkers, n \in 1 .. 5 : Play(w, n)
    \/ \E w \in PoolWorkers : UpdateMapEngagement(w)
    \/ \E w \in PoolWorkers, winner \in {-1, 0, 1} : CompleteGame(w, winner)
    \/ TickFairnessAudit
    \/ AuditStep
    \/ RotateMapPool
    \/ MonthBegins
    \/ FirstDayPasses
    \/ \E m \in PoolMaps : MapAges(m)
    \/ VotesNext /\ UNCHANGED poolVars

MapPoolSpec == MapPoolInit /\ [][MapPoolNext]_<<poolVars, communityVars>>

-----------------------------------------------------------------------------
(***************************************************************************)
(* Properties.                                                             *)
(***************************************************************************)
\* However many audits the first of a month sees, the low-engagement prune
\* takes maps at most once that month, whatever games, votes and season ends do
\* in between: pruneLowEngagementMaps finds its earlier run in retired_at.
PruneIsMonthly == prunes <= 1

VotedDown(m) == NetVotes(m) < -DislikedBy

\* No voted-down map stays active or on probation, although audits interleave with
\* votes, games and season ends and any single statement of an audit may fail: it
\* is retired, or has become classic, which votes no longer reach and which is
\* still played.
DislikedMapsAreDecided ==
    \A m \in PoolMaps :
        mapStatus[m] \in {"active", "probation"} /\ VotedDown(m)
            ~> mapStatus[m] \in {"classic", "retired"} \/ ~VotedDown(m)

=============================================================================
