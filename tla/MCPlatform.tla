----------------------------- MODULE MCPlatform -----------------------------
(***************************************************************************)
(* The safety properties of the parts of the platform around the queue and *)
(* the engine.  The parts share no state, so a behaviour is one of one     *)
(* part, picked at the start, while the others stay where they begin.      *)
(***************************************************************************)
EXTENDS Limits, Verdicts, Matchmaking, MapPool, MapForge, Featured, Replays, BrowserBots, TLC

VARIABLE part

all == <<limitVars, verdictVars, matchmakingVars, poolVars, communityVars, forgeVars,
         featuredVars, replayVars, strategyVars, part>>

Init ==
    /\ part \in {"limits", "verdicts", "matchmaking", "pool", "feedback", "forge", "featured",
                 "replays", "ratings", "strategies"}
    /\ LimitsInit
    /\ VerdictsInit
    /\ MatchmakingInit
    /\ MapPoolInit
    /\ MapForgeInit
    /\ FeaturedInit
    /\ ReplaysInit
    /\ StrategiesInit
    /\ part = "strategies" \/ (strategy = "farmer" /\ view = CHOOSE v \in Views : TRUE)

LimitsPart ==
    /\ part = "limits" /\ LimitsNext
    /\ UNCHANGED <<verdictVars, matchmakingVars, poolVars, communityVars, forgeVars,
                   featuredVars, replayVars, strategyVars, part>>
\* Predictions and ratings meet only in the matches: predictions without recalculations
\* and ratings, with one disturbance more, without predictions.
VerdictsPart ==
    /\ part \in {"verdicts", "ratings"} /\ VerdictsNext
    /\ part = "verdicts" => disturbances' <= 1 /\ UNCHANGED recalc
    /\ part = "ratings" => UNCHANGED asking
    /\ UNCHANGED <<limitVars, matchmakingVars, poolVars, communityVars, forgeVars,
                   featuredVars, replayVars, strategyVars, part>>
MatchmakingPart ==
    /\ part = "matchmaking" /\ MatchmakingNext
    /\ UNCHANGED <<limitVars, verdictVars, poolVars, communityVars, forgeVars, featuredVars,
                   replayVars, strategyVars, part>>
\* Votes condemn one map; the other one is there to be pruned.
PoolPart ==
    /\ part = "pool" /\ MapPoolNext
    /\ UNCHANGED votes["m2"]
    /\ UNCHANGED <<limitVars, verdictVars, matchmakingVars, forgeVars, featuredVars,
                   replayVars, strategyVars, part>>
FeedbackPart ==
    /\ part = "feedback" /\ FeedbackNext
    /\ UNCHANGED <<limitVars, verdictVars, matchmakingVars, poolVars, forgeVars, featuredVars,
                   replayVars, strategyVars, part>>
\* The last map is a bred one.
ForgePart ==
    /\ part = "forge" /\ MapForgeNext
    /\ evolver = "idle" => Cardinality(pool') < MaxPool
    /\ UNCHANGED <<limitVars, verdictVars, matchmakingVars, poolVars, communityVars,
                   featuredVars, replayVars, strategyVars, part>>
FeaturedPart ==
    /\ part = "featured" /\ FeaturedNext
    /\ UNCHANGED <<limitVars, verdictVars, matchmakingVars, poolVars, communityVars, forgeVars,
                   replayVars, strategyVars, part>>
ReplaysPart ==
    /\ part = "replays" /\ ReplaysNext
    /\ UNCHANGED <<limitVars, verdictVars, matchmakingVars, poolVars, communityVars, forgeVars,
                   featuredVars, strategyVars, part>>
StrategiesPart ==
    /\ part = "strategies" /\ (StrategiesNext \/ BrowserNext)
    /\ UNCHANGED <<limitVars, verdictVars, matchmakingVars, poolVars, communityVars, forgeVars,
                   featuredVars, replayVars, part>>

Next == LimitsPart \/ VerdictsPart \/ MatchmakingPart \/ PoolPart \/ FeedbackPart \/ ForgePart
            \/ FeaturedPart \/ ReplaysPart \/ StrategiesPart

Spec == Init /\ [][Next]_all

-----------------------------------------------------------------------------
\* Constants of the instance.
Ladder == <<"a", "b", "c", "d", "e">>
Spots == {<<0, 0>>}
Density == "m1" :> 1 @@ "m2" :> 2
Created == "m1" :> 2 @@ "m2" :> 1
Folding == "a" :> "a" @@ "A" :> "a" @@ "4" :> "a" @@ " " :> " "
SomeBodies == {<<"a", "a">>, <<"4">>, <<"A", " ", "a", "a">>}
SomeTerms == {<<"4", "A">>}

\* Every built-in bot and every browser bot answers two requests on a 3 x 24
\* torus, long enough for the thresholds of the code (distances 2 to 100).
Calmed == [active |-> FALSE, center |-> <<1, 12>>, radius |-> 9]
Storm == [active |-> TRUE, center |-> <<1, 12>>, radius |-> 9]

\* Three units in a corner of the camp, two in the middle of the board.
Squads == {<<<<1, 3>>, <<1, 4>>, <<2, 3>>>>, <<<<0, 11>>, <<0, 13>>>>}

\* An empty board, a lone enemy near the camp, two enemies and a razed core, the
\* storm with a core in sight, a siege in the storm.
Scenes == {
  [foe |-> <<>>, energy |-> {<<1, 5>>}, walls |-> {<<0, 3>>},
   rivals |-> {}, ruins |-> {}, zone |-> Calmed],
  [foe |-> <<<<1, 6>>>>, energy |-> {}, walls |-> {<<2, 4>>, <<0, 4>>},
   rivals |-> {<<1, 7>>}, ruins |-> {}, zone |-> Calmed],
  [foe |-> <<<<0, 14>>, <<2, 20>>>>, energy |-> {<<1, 5>>, <<1, 12>>}, walls |-> {},
   rivals |-> {}, ruins |-> {<<1, 7>>}, zone |-> Storm],
  [foe |-> <<<<0, 2>>>>, energy |-> {<<0, 12>>}, walls |-> {<<1, 11>>},
   rivals |-> {<<2, 13>>}, ruins |-> {}, zone |-> Storm]}

AllViews == {[mine |-> m, foe |-> s.foe, energy |-> s.energy, walls |-> s.walls, cores |-> {<<1, 2>>},
              rivals |-> s.rivals, ruins |-> s.ruins, zone |-> s.zone] : m \in Squads, s \in Scenes}

AllBots == EngineBots \cup {"b_gatherer", "b_rusher", "b_guardian", "b_swarm", "b_hunter", "b_farmer",
             "b_opportunist", "b_siege", "b_economist", "b_assassin", "b_phalanx", "b_zone_driver"}
AllLapses == {1, 40}

=============================================================================
