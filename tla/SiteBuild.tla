----------------------------- MODULE SiteBuild -----------------------------
(***************************************************************************)
(* The index builder (cmd/acb-index-builder): one process that, cycle by   *)
(* phase, merges the newest web build into its output directory, writes    *)
(* the index of matches there, fetches replays for it and, every few       *)
(* cycles, deploys the directory.                                          *)
(*                                                                         *)
(* Every outward call may fail and is mostly only logged.  The process     *)
(* exits after some hours and starts again with an empty disk.  A web      *)
(* build is its scripts, the placeholders it carries for the generated     *)
(* data, and its page; matches are numbered by completion.                 *)
(***************************************************************************)
EXTENDS Integers, FiniteSets, FiniteSetsExt

CONSTANTS
    Images,           \* web builds in the registry, numbered from 1; 0 is the baked-in one
    IndexLimit,       \* matches the index lists (1000)
    DeployInterval,   \* cycles from one deployment to the next (6)
    CyclesPerLife,    \* cycles before the process exits (16)
    MaxCompleted,     \* bound: matches completed
    MaxBuildFaults    \* bound: failing calls and restarts

ASSUME SiteBuildAssumption ==
    /\ Images \subseteq Nat \ {0}
    /\ {IndexLimit, DeployInterval, CyclesPerLife} \subseteq Nat \ {0}
    /\ CyclesPerLife >= DeployInterval
    /\ {MaxCompleted, MaxBuildFaults} \subseteq Nat

VARIABLES
    completed,     \* matches completed
    recent,        \* those completed in the last 24 hours
    curated,       \* those of playlists and running series
    image,         \* the build the registry's tag points to
    digest,        \* .site-build-digest: the build last extracted
    extracted,     \* the staging directory
    output,        \* the output directory
    site,          \* what was deployed
    phase,         \* where the cycle is
    cycles,        \* cycles of this process
    buildFaults

siteVars == <<completed, recent, curated, image, digest, extracted, output, site, phase, cycles,
              buildFaults>>
outside == <<completed, recent, curated, image>>

NoBuild == -1
Cut == -2     \* a page whose copy stopped half way

\* How far a web build's files got, in the order of their paths: assets/,
\* data/, index.html.
ScriptsCut == 1
ScriptsWhole == 2
DataToo == 3
PageCut == 4
Whole == 5

\* A directory to copy from: a build, as far as it was extracted.
NoDir == [build |-> NoBuild, upto |-> 0]
BakedIn == [build |-> 0, upto |-> Whole]
Empty == [page |-> NoBuild, scripts |-> {}, leaderboard |-> NoBuild, index |-> {}, replays |-> {}]

SiteInit ==
    /\ completed = 0
    /\ recent = {}
    /\ curated = {}
    /\ image \in Images
    /\ digest = NoBuild
    /\ extracted = NoDir
    /\ output = Empty
    /\ site = Empty
    /\ phase = "merge"
    /\ cycles = 1
    /\ buildFaults = 0

\* A call that fails uses up a fault.
Outcome(ok) ==
    /\ ok \/ buildFaults < MaxBuildFaults
    /\ buildFaults' = IF ok THEN buildFaults ELSE buildFaults + 1

-----------------------------------------------------------------------------
(***************************************************************************)
(* The web build.                                                          *)
(***************************************************************************)
FallbackWebDir(dir) == IF dir # NoDir THEN dir ELSE BakedIn

\* Every file is copied again, over what is there: os.Create empties a file
\* before it is filled.  A copy that fails stops at any file.
CopyWebAssets(build, to, upto) ==
    [to EXCEPT
       !.scripts = CASE upto = 0 -> @
                     [] upto = ScriptsCut -> @ \ {build}
                     [] OTHER -> @ \union {build},
       !.leaderboard = IF upto >= DataToo THEN NoBuild ELSE @,
       !.index = IF upto >= DataToo THEN {} ELSE @,
       !.page = CASE upto < PageCut -> @
                  [] upto = PageCut -> Cut
                  [] OTHER -> build]

\* All but data/ and the digest.
CleanStaleWebAssets == [output EXCEPT !.page = NoBuild, !.scripts = {}]

\* craneExport empties the staging directory first and extracts the archive,
\* whose files are in the order of their paths as well; the last one may be cut.
PartlyExtracted == {NoDir} \union {[build |-> image, upto |-> k] : k \in 0 .. PageCut}

\* What syncSiteBuild may leave: the staging directory, the digest, the
\* directory to copy from, and whether it is a new build.
SyncSiteBuild(ok) ==
    IF ok
      THEN IF digest = image
             THEN {[stage |-> extracted, digest |-> digest, from |-> extracted, changed |-> FALSE]}
             ELSE LET whole == [build |-> image, upto |-> Whole]
                  IN  {[stage |-> whole, digest |-> image, from |-> whole, changed |-> TRUE]}
      ELSE {[stage |-> extracted, digest |-> digest, from |-> FallbackWebDir(extracted),
             changed |-> FALSE]}
           \union
           {[stage |-> dir, digest |-> digest, from |-> FallbackWebDir(dir), changed |-> FALSE] :
                dir \in IF digest = image THEN {} ELSE PartlyExtracted}

MergeWebAssets(synced, upto) ==
    /\ phase = "merge"
    /\ \E sync \in SyncSiteBuild(synced) :
        /\ upto <= sync.from.upto
        /\ Outcome(synced /\ upto = sync.from.upto)
        /\ extracted' = sync.stage
        /\ digest' = sync.digest
        /\ output' = LET merged == IF sync.changed THEN CleanStaleWebAssets ELSE output
                     IN  CopyWebAssets(sync.from.build, merged, upto)
    /\ phase' = "index"
    /\ UNCHANGED <<outside, site, cycles>>

-----------------------------------------------------------------------------
(***************************************************************************)
(* The index and the replays.                                              *)
(***************************************************************************)
\* Mutant: the oldest matches are listed.
FetchMatchesOldest == 1 .. Min({completed, IndexLimit})
\* ORDER BY completed_at DESC LIMIT.
FetchMatches == Max({1, completed - IndexLimit + 1}) .. completed

\* An error before anything is written, or after the leaderboard, ends the
\* cycle; the files written until then stay.
GenerateAllIndexes(upto) ==
    /\ phase = "index"
    /\ Outcome(upto = "all")
    /\ output' = [output EXCEPT
         !.leaderboard = IF upto = "nothing" THEN @ ELSE completed,
         !.index = IF upto = "all" THEN FetchMatches ELSE @]
    /\ phase' = IF upto = "all" THEN "bundle" ELSE "deploy"
    /\ UNCHANGED <<outside, digest, extracted, site, cycles>>

\* Without a recent match the curated ones are not looked at either.
MatchesToBundle == IF recent = {} THEN {} ELSE recent \union curated

\* A replay that cannot be fetched is skipped.
BundleWarmAssets(fetched) ==
    /\ phase = "bundle"
    /\ fetched \subseteq MatchesToBundle
    /\ Outcome(fetched = MatchesToBundle)
    /\ output' = [output EXCEPT !.replays = @ \union fetched]
    /\ phase' = "deploy"
    /\ UNCHANGED <<outside, digest, extracted, site, cycles>>

-----------------------------------------------------------------------------
(***************************************************************************)
(* Deployment, and the process.                                            *)
(***************************************************************************)
\* There is an index.html, cut or not; the data directory is made at the start
\* of the cycle, and a missing leaderboard is only logged.
VerifyMergedOutput == output.page # NoBuild

DeployToPages(ok) ==
    /\ phase = "deploy"
    /\ Outcome(ok)
    /\ site' = IF /\ cycles % DeployInterval = 0
                  /\ VerifyMergedOutput
                  /\ ok
                 THEN output ELSE site
    /\ phase' = "sleep"
    /\ UNCHANGED <<outside, digest, extracted, output, cycles>>

NextCycle ==
    /\ phase = "sleep"
    /\ cycles < CyclesPerLife
    /\ cycles' = cycles + 1
    /\ phase' = "merge"
    /\ UNCHANGED <<outside, digest, extracted, output, site, buildFaults>>

\* Mutant: the disk outlives the process.
RestartedOnSameDisk ==
    /\ phase' = "merge"
    /\ cycles' = 1
    /\ UNCHANGED <<outside, digest, extracted, output, site>>
\* Every start of the container is on an empty disk.
Restarted ==
    /\ digest' = NoBuild
    /\ extracted' = NoDir
    /\ output' = Empty
    /\ phase' = "merge"
    /\ cycles' = 1
    /\ UNCHANGED <<outside, site>>

MaxLifetimeReached ==
    /\ phase = "sleep"
    /\ cycles = CyclesPerLife
    /\ Restarted
    /\ UNCHANGED buildFaults

BuilderCrashes ==
    /\ buildFaults < MaxBuildFaults
    /\ buildFaults' = buildFaults + 1
    /\ Restarted

MatchCompletes ==
    /\ completed < MaxCompleted
    /\ completed' = completed + 1
    /\ recent' = recent \union {completed + 1}
    /\ curated' \in {curated, curated \union {completed + 1}}
    /\ UNCHANGED <<image, digest, extracted, output, site, phase, cycles, buildFaults>>

MatchAges ==
    /\ recent # {}
    /\ recent' = recent \ {Min(recent)}
    /\ UNCHANGED <<completed, curated, image, digest, extracted, output, site, phase, cycles,
                   buildFaults>>

\* A new build is pushed, or the tag goes back to an older one.
ImageMoves ==
    /\ image' \in Images \ {image}
    /\ UNCHANGED <<completed, recent, curated, digest, extracted, output, site, phase, cycles,
                   buildFaults>>

BuilderStep ==
    \/ \E synced \in BOOLEAN, upto \in 0 .. Whole : MergeWebAssets(synced, upto)
    \/ \E upto \in {"nothing", "leaderboard", "all"} : GenerateAllIndexes(upto)
    \/ \E fetched \in SUBSET MatchesToBundle : BundleWarmAssets(fetched)
    \/ \E ok \in BOOLEAN : DeployToPages(ok)
    \/ NextCycle
    \/ MaxLifetimeReached

SiteNext ==
    \/ BuilderStep
    \/ BuilderCrashes
    \/ MatchCompletes
    \/ MatchAges
    \/ ImageMoves

SiteSpec == SiteInit /\ [][SiteNext]_siteVars

-----------------------------------------------------------------------------
(***************************************************************************)
(* Properties.                                                             *)
(***************************************************************************)
\* A site that was deployed with a page or a script cut in half, or with a page
\* that misses its scripts, comes to be replaced by one that works: a partly
\* extracted build does not pass for a whole one for longer than the process
\* lives, whatever the registry's tag does meanwhile (syncSiteBuild, craneExport,
\* copyFile, verifyMergedOutput).
SiteWorks == site = Empty \/ site.page \in site.scripts
TornSitesHeal == ~SiteWorks ~> SiteWorks

\* A completed match comes to be listed on the deployed site, or IndexLimit
\* newer ones are, although cycles fail half way, the process restarts with an
\* empty disk and only every DeployInterval-th cycle is deployed.
LatestIsPublished ==
    \A n \in 1 .. MaxCompleted : completed >= n ~> \E listed \in site.index : listed >= n

=============================================================================
