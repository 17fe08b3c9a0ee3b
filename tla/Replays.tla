------------------------------ MODULE Replays ------------------------------
(***************************************************************************)
(* What a worker publishes around the result it submits (cmd/acb-worker):  *)
(* the replay in the archive B2 and the cache R2 before it, the feeds      *)
(* live-tail.json and live-delta.json after it, and how the API            *)
(* (cmd/acb-api) serves the replay.                                        *)
(*                                                                         *)
(* A feed is downloaded, extended and uploaded without a lock, and a match *)
(* whose claim went stale is played a second time by another worker.       *)
(***************************************************************************)
EXTENDS Integers, Sequences, FiniteSets, FiniteSetsExt

CONSTANTS
    RMatches,          \* matches
    RWorkers,          \* workers; an execution is named after its worker
    B2Workers,         \* those with a B2 client (its configuration is optional)
    TailLength,        \* entries of live-tail.json (50)
    B2Public,          \* whether ACB_B2_ENDPOINT is set on the API server
    MaxReplayFaults    \* bound: failing transfers and stale claims

\* "nobody" is not the name of a worker; a feed of no entries is possible.
ASSUME ReplaysConstants ==
    /\ "nobody" \notin RWorkers
    /\ B2Workers \subseteq RWorkers
    /\ TailLength \in Nat

VARIABLES
    claimedBy,    \* per match: whose claim the job row shows
    hands,        \* per worker: the match it executes, how far it is, and what it holds
    archive,      \* per match: the execution whose replay is in B2
    cache,        \* per match: the execution whose replay is in R2
    recorded,     \* per match: the execution whose result is recorded
    reported,     \* matches recorded by a worker whose uploadReplay returned no error
    liveTail,     \* live-tail.json
    liveDelta,    \* live-delta.json: the submissions folded into it
    submitted,    \* submissions, in order
    disturbed,    \* whether feed updates overlapped or a transfer of one failed
    replayFaults

replayVars == <<claimedBy, hands, archive, cache, recorded, reported, liveTail, liveDelta,
                submitted, disturbed, replayFaults>>
storage == <<archive, cache>>
feeds == <<liveTail, liveDelta>>
rowsOf == <<claimedBy, recorded, reported, submitted>>

NoExec == "nobody"
EmptyHands == [match |-> "none", at |-> "idle", url |-> FALSE, tail |-> <<>>, delta |-> {}]

ReplaysInit ==
    /\ claimedBy = [m \in RMatches |-> NoExec]
    /\ hands = [w \in RWorkers |-> EmptyHands]
    /\ archive = [m \in RMatches |-> NoExec]
    /\ cache = [m \in RMatches |-> NoExec]
    /\ recorded = [m \in RMatches |-> NoExec]
    /\ reported = {}
    /\ liveTail = <<>>
    /\ liveDelta = {}
    /\ submitted = <<>>
    /\ disturbed = FALSE
    /\ replayFaults = 0

\* An outward call may fail.
Transfer(ok) ==
    /\ ok \/ replayFaults < MaxReplayFaults
    /\ replayFaults' = IF ok THEN replayFaults ELSE replayFaults + 1

At(w, place) == hands[w].at = place

-----------------------------------------------------------------------------
\* uploadReplay is called by a worker with a B2 client only: without one nothing
\* is uploaded, to R2 neither, and the result is submitted without a URL.
PlayMatch(w, m) ==
    /\ At(w, "idle")
    /\ claimedBy[m] = NoExec
    /\ recorded[m] # w
    /\ claimedBy' = [claimedBy EXCEPT ![m] = w]
    /\ hands' = [hands EXCEPT ![w] = [EmptyHands EXCEPT !.match = m,
                                        !.at = IF w \in B2Workers THEN "b2" ELSE "submit"]]
    /\ UNCHANGED <<storage, feeds, recorded, reported, submitted, disturbed, replayFaults>>

\* The reaper gives the job of a silent worker back; the worker plays on.
ClaimGoesStale(m) ==
    /\ claimedBy[m] # NoExec
    /\ recorded[m] = NoExec
    /\ replayFaults < MaxReplayFaults
    /\ replayFaults' = replayFaults + 1
    /\ claimedBy' = [claimedBy EXCEPT ![m] = NoExec]
    /\ UNCHANGED <<hands, storage, feeds, recorded, reported, submitted, disturbed>>

\* The key is the match's id: a second execution overwrites the first.
UploadToB2(w, ok) ==
    /\ At(w, "b2")
    /\ Transfer(ok)
    /\ archive' = IF ok THEN [archive EXCEPT ![hands[w].match] = w] ELSE archive
    /\ hands' = [hands EXCEPT ![w].at = "r2", ![w].url = ok]
    /\ UNCHANGED <<rowsOf, cache, feeds, disturbed>>

\* Mutant: either upload makes a URL.
ReplayURLEither(b2, r2) == b2 \/ r2
\* With a B2 client, only the upload to B2 makes one; the URL without a B2 client
\* at the end of uploadReplay is for no caller.
ReplayURLFrom(b2, r2) == b2

UploadToR2(w, ok) ==
    /\ At(w, "r2")
    /\ Transfer(ok)
    /\ cache' = IF ok THEN [cache EXCEPT ![hands[w].match] = w] ELSE cache
    /\ hands' = [hands EXCEPT ![w].at = "submit", ![w].url = ReplayURLFrom(@, ok)]
    /\ UNCHANGED <<rowsOf, archive, feeds, disturbed>>

\* The submission names neither claim nor status, and does not store the URL.
SubmitWithReplay(w) ==
    LET m == hands[w].match
    IN  /\ At(w, "submit")
        /\ recorded' = [recorded EXCEPT ![m] = w]
        /\ reported' = IF hands[w].url THEN reported \union {m} ELSE reported \ {m}
        /\ submitted' = Append(submitted, m)
        /\ hands' = [hands EXCEPT ![w].at = "tail"]
        /\ UNCHANGED <<claimedBy, storage, feeds, disturbed, replayFaults>>

-----------------------------------------------------------------------------
(***************************************************************************)
(* The feeds.                                                              *)
(***************************************************************************)
Publishing(w) == hands[w].at \in {"tail", "tail_put", "delta", "delta_put"}
Overlaps(w) == \E v \in RWorkers \ {w} : Publishing(v) \/ At(v, "submit")

\* A failed download starts the feed afresh.
DownloadTail(w, ok) ==
    /\ At(w, "tail")
    /\ Transfer(ok)
    /\ hands' = [hands EXCEPT ![w].at = "tail_put", ![w].tail = IF ok THEN liveTail ELSE <<>>]
    /\ disturbed' = (disturbed \/ ~ok \/ Overlaps(w))
    /\ UNCHANGED <<rowsOf, storage, feeds>>

\* Mutant: the oldest entries are kept when the feed is full.
ExtendTailLast(tail, m) ==
    IF Len(tail) >= TailLength THEN tail ELSE <<m>> \o tail
\* The newest entry first, at most TailLength of them.
ExtendTail(tail, m) == SubSeq(<<m>> \o tail, 1, Min({TailLength, Len(tail) + 1}))

UploadTail(w, ok) ==
    /\ At(w, "tail_put")
    /\ Transfer(ok)
    /\ liveTail' = IF ok THEN ExtendTail(hands[w].tail, hands[w].match) ELSE liveTail
    /\ hands' = [hands EXCEPT ![w].at = "delta", ![w].tail = <<>>]
    /\ disturbed' = (disturbed \/ ~ok)
    /\ UNCHANGED <<rowsOf, storage, liveDelta>>

DownloadDelta(w, ok) ==
    /\ At(w, "delta")
    /\ Transfer(ok)
    /\ hands' = [hands EXCEPT ![w].at = "delta_put", ![w].delta = IF ok THEN liveDelta ELSE {}]
    /\ disturbed' = (disturbed \/ ~ok \/ Overlaps(w))
    /\ UNCHANGED <<rowsOf, storage, feeds>>

\* Rating changes of further matches are added to those already in the feed.
MergeLiveDeltas(delta, m) == delta \union {m}

UploadDelta(w, ok) ==
    /\ At(w, "delta_put")
    /\ Transfer(ok)
    /\ liveDelta' = IF ok THEN MergeLiveDeltas(hands[w].delta, hands[w].match) ELSE liveDelta
    /\ hands' = [hands EXCEPT ![w] = EmptyHands]
    /\ disturbed' = (disturbed \/ ~ok)
    /\ UNCHANGED <<rowsOf, storage, liveTail>>

ReplaysNext ==
    \/ \E w \in RWorkers, m \in RMatches : PlayMatch(w, m)
    \/ \E m \in RMatches : ClaimGoesStale(m)
    \/ \E w \in RWorkers, ok \in BOOLEAN :
        \/ UploadToB2(w, ok)
        \/ UploadToR2(w, ok)
        \/ DownloadTail(w, ok)
        \/ UploadTail(w, ok)
        \/ DownloadDelta(w, ok)
        \/ UploadDelta(w, ok)
    \/ \E w \in RWorkers : SubmitWithReplay(w)

ReplaysSpec == ReplaysInit /\ [][ReplaysNext]_replayVars

-----------------------------------------------------------------------------
(***************************************************************************)
(* The API: R2 first, the public B2 endpoint if there is one.              *)
(***************************************************************************)
FetchReplayFromR2(m, reachable) == IF reachable THEN cache[m] ELSE NoExec
FetchReplayFromB2(m) == IF B2Public THEN archive[m] ELSE NoExec

HandleGetReplay(m, r2Reachable) ==
    IF FetchReplayFromR2(m, r2Reachable) # NoExec THEN FetchReplayFromR2(m, r2Reachable)
    ELSE FetchReplayFromB2(m)

-----------------------------------------------------------------------------
(***************************************************************************)
(* Properties.                                                             *)
(***************************************************************************)
\* A match whose worker saw uploadReplay succeed has a replay the API can serve,
\* with R2 up or down, whichever uploads of whichever execution failed: a URL is
\* returned only for the archive that handleGetReplay falls back to.  Workers
\* without B2 play and submit the same matches.
ReplayIsServed ==
    \A m \in reported, r2Reachable \in BOOLEAN :
        B2Public => HandleGetReplay(m, r2Reachable) # NoExec

\* While no two workers publish at once and no transfer fails, the tail is the
\* last TailLength submissions, newest first, and the deltas cover every one:
\* what updateLiveTail and updateLiveDelta lose, they lose to those.
FeedsExactWhenSerial ==
    (~disturbed /\ \A w \in RWorkers : ~Publishing(w)) =>
        /\ liveTail = [i \in 1 .. Min({TailLength, Len(submitted)}) |->
                          submitted[Len(submitted) + 1 - i]]
        /\ liveDelta = {submitted[i] : i \in DOMAIN submitted}

=============================================================================
