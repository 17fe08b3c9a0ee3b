--------------------------- MODULE MCPlatformLive ---------------------------
(***************************************************************************)
(* What must happen in the end: the health checker, the championship       *)
(* bracket, the enrichment service, the map pool audit and the index       *)
(* builder.  As in MCPlatform a behaviour is one of one part, and only     *)
(* that part's loops are fair.                                             *)
(***************************************************************************)
EXTENDS Accounts, Championship, Commentary, MapPool, SiteBuild, TLC

VARIABLE part

all == <<accountVars, bracketVars, commentaryVars, poolVars, communityVars, siteVars, part>>

Init ==
    /\ part \in {"accounts", "bracket", "requests", "commentary", "pool", "site", "bundle"}
    /\ AccountsInit /\ (part = "accounts" \/ up = Names)
    /\ BracketInit
    /\ CommentaryInit
    /\ MapPoolInit
    /\ SiteInit /\ (part \in {"site", "bundle"} \/ image = Min(Images))

AccountsPart ==
    /\ part = "accounts" /\ AccountsNext
    /\ UNCHANGED <<bracketVars, commentaryVars, poolVars, communityVars, siteVars, part>>
BracketPart ==
    /\ part = "bracket" /\ BracketNext
    /\ upsets' + blows' <= 1   \* bound: an upset or a fault
    /\ UNCHANGED <<accountVars, commentaryVars, poolVars, communityVars, siteVars, part>>
\* Nothing reads a request for commentary, so the requests are a part of their own.
\* The hour only matters to matches with commentary.
CommentaryPart ==
    /\ part \in {"requests", "commentary"} /\ CommentaryNext
    /\ part = "commentary" =>
        UNCHANGED asking /\ \A m \in EMatches : rows'[m].old => rows'[m].commented
    /\ part = "requests" => ~cycling' /\ {m \in EMatches : rows'[m].nth > 0} \subseteq Asked
    /\ UNCHANGED <<accountVars, bracketVars, poolVars, communityVars, siteVars, part>>
PoolPart ==
    /\ part = "pool" /\ MapPoolNext
    /\ UNCHANGED <<accountVars, bracketVars, commentaryVars, siteVars, part>>
\* Nor do the bundled replays matter to the rest of the builder.
SitePart ==
    /\ part \in {"site", "bundle"} /\ SiteNext
    /\ part = "site" => UNCHANGED curated /\ recent' = 1 .. completed'
    /\ part = "bundle" => UNCHANGED image /\ completed' <= 1
    /\ UNCHANGED <<accountVars, bracketVars, commentaryVars, poolVars, communityVars, part>>
Next == AccountsPart \/ BracketPart \/ CommentaryPart \/ PoolPart \/ SitePart

\* What goes on for ever: the health checker, whose probes have a timeout, the season
\* ticker and the series scheduler, the enrichment service, whose calls return, and
\* the clock, the hourly audit, the builder, which the deployment restarts when it
\* exits.  No series has to end, no fault, vote or request to happen.
Loops ==
    /\ WF_accountVars(/\ part = "accounts"
                      /\ HealthSelect \/ HealthWrite \/ \E n \in Names : HealthProbe(n))
    /\ WF_bracketVars(part = "bracket" /\ (CreateQuarterfinal \/ AutoStartSeason))
    /\ WF_bracketVars(part = "bracket" /\ Advance)
    /\ WF_commentaryVars(/\ part = "commentary"
                         /\ \/ RunCycle \/ EndEnrichment
                            \/ \E m \in EMatches :
                                \/ Acquire(m) \/ FetchReplay(m) \/ GenerateCommentary(m)
                                \/ UploadCommentary(m) \/ MarkEnriched(m))
    /\ WF_commentaryVars(part = "commentary" /\ \E m \in EMatches : rows[m].commented /\ HourPasses(m))
    /\ WF_<<poolVars, communityVars>>(part = "pool" /\ (TickFairnessAudit \/ AuditStep))
    /\ WF_siteVars(part \in {"site", "bundle"} /\ BuilderStep)

Spec == Init /\ [][Next]_all /\ Loops

-----------------------------------------------------------------------------
\* Constants of the instance.
Density == "m1" :> 1
Created == "m1" :> 1
Folding == "a" :> "a"
SomeBodies == {<<"a">>}
SomeTerms == {<<"a", "a">>}
Profiles ==
    "close" :> [turns |-> 120, diff |-> 1, upset |-> FALSE, drawn |-> FALSE]
    @@ "upset" :> [turns |-> 400, diff |-> 30, upset |-> TRUE, drawn |-> FALSE]
    @@ "drawn" :> [turns |-> 500, diff |-> 40, upset |-> FALSE, drawn |-> TRUE]
    @@ "dull" :> [turns |-> 500, diff |-> 40, upset |-> FALSE, drawn |-> FALSE]

=============================================================================
