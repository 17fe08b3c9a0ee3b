----------------------------- MODULE Commentary -----------------------------
(***************************************************************************)
(* Commentary on finished matches: owners ask for it through the API       *)
(* (cmd/acb-api), and one enrichment process (cmd/acb-enrichment) selects  *)
(* matches, asks a language model, uploads the text and marks the match.   *)
(*                                                                         *)
(* A request is answered in two steps: the handler reads, then inserts in  *)
(* a transaction of its own.  A cycle of the service runs one goroutine    *)
(* per selected match under a semaphore; every outward call may fail.      *)
(* Requests are written and queued, and nothing reads them.                *)
(***************************************************************************)
EXTENDS Integers, FiniteSets, FiniteSetsExt

CONSTANTS
    EMatches,         \* matches
    Owners,           \* bots whose owners ask for commentary
    Asked,            \* bound: matches they ask about
    Profile,          \* per match: turns, score difference, upset, drawn
    MinTurnCount,     \* turns of a match worth a comment (100)
    WindowSize,       \* rows the candidates query returns at most (100)
    MinCrossings,     \* estimated lead changes that make one interesting (3)
    MaxPerHour,       \* enrichments per hour (20)
    MaxConcurrent,    \* goroutines that talk to the model at once (3)
    MaxEnrichFaults   \* bound: failing calls and crashes

ASSUME CommentaryAssumption ==
    /\ {MinTurnCount, WindowSize, MinCrossings, MaxPerHour, MaxConcurrent} \subseteq Nat \ {0}
    /\ Asked \subseteq EMatches
    /\ MaxEnrichFaults \in Nat
    /\ \A m \in EMatches : /\ {Profile[m].turns, Profile[m].diff} \subseteq Nat
                           /\ {Profile[m].upset, Profile[m].drawn} \subseteq BOOLEAN

VARIABLES
    rows,      \* match rows: completed as which one (0: not yet), over an hour ago, commented
    requests,  \* enrichment_requests, all of them "pending"
    queued,    \* acb:enrichment:queue
    asking,    \* per owner: the match whose request passed the checks, or NoAsk
    jobs,      \* per match: where its goroutine is, "none" outside a cycle
    texts,     \* per match: the objects in storage
    cycling,   \* whether a cycle runs
    enrichFaults

commentaryVars == <<rows, requests, queued, asking, jobs, texts, cycling, enrichFaults>>

NoAsk == "no_ask"

-----------------------------------------------------------------------------
(***************************************************************************)
(* Selection.                                                              *)
(***************************************************************************)
\* A guess at the lead changes from the final score and the length.
CalculateCrossings(m) ==
    IF Profile[m].diff < 5 THEN Min({5, Profile[m].turns \div 100})
    ELSE IF Profile[m].diff < 20 THEN Min({3, Profile[m].turns \div 150})
    ELSE 0

IsCloseFinish(m) == Profile[m].diff <= 2

Interesting(m) == CalculateCrossings(m) >= MinCrossings \/ Profile[m].upset \/ IsCloseFinish(m)

Done(m) == rows[m].nth > 0

\* Completed matches without commentary, the uninteresting ones among them for ever.
Pending == {m \in EMatches : Done(m) /\ ~rows[m].commented /\ Profile[m].turns >= MinTurnCount}

\* The rows the query returns, the newest.  A drawn match has no winner: scanning
\* the NULL into an integer fails the whole query.
Candidates ==
    {m \in Pending : Cardinality({n \in Pending : rows[n].nth > rows[m].nth}) < WindowSize}
FindCandidates == {m \in Candidates : Interesting(m)}
QueryFails == \E m \in Candidates : Profile[m].drawn

PriorityScore(m) ==
    (IF Profile[m].upset THEN 1000 ELSE 0) + (IF IsCloseFinish(m) THEN 500 ELSE 0)
    + 50 * CalculateCrossings(m) + (IF Profile[m].turns < 300 THEN 20 ELSE 0)

\* Commented matches that finished within the hour, not matches commented within it.
GetEnrichmentCount == Cardinality({m \in EMatches : rows[m].commented /\ ~rows[m].old})
Remaining == MaxPerHour - GetEnrichmentCount

\* The choices a descending sort by priority and a cut allow.
Selections ==
    {S \in SUBSET FindCandidates :
        /\ Cardinality(S) = Min({Remaining, Cardinality(FindCandidates)})
        /\ \A s \in S, t \in FindCandidates \ S : PriorityScore(s) >= PriorityScore(t)}

-----------------------------------------------------------------------------
CommentaryInit ==
    /\ rows = [m \in EMatches |-> [nth |-> 0, old |-> FALSE, commented |-> FALSE]]
    /\ requests = {}
    /\ queued = {}
    /\ asking = [o \in Owners |-> NoAsk]
    /\ jobs = [m \in EMatches |-> "none"]
    /\ texts = [m \in EMatches |-> {}]
    /\ cycling = FALSE
    /\ enrichFaults = 0

Faulty == enrichFaults < MaxEnrichFaults /\ enrichFaults' = enrichFaults + 1

\* External: the match completes, and an hour goes by.
Complete(m) ==
    /\ ~Done(m)
    /\ rows' = [rows EXCEPT ![m].nth = Cardinality({n \in EMatches : Done(n)}) + 1]
    /\ UNCHANGED <<requests, queued, asking, jobs, texts, cycling, enrichFaults>>

HourPasses(m) ==
    /\ Done(m) /\ ~rows[m].old
    /\ rows' = [rows EXCEPT ![m].old = TRUE]
    /\ UNCHANGED <<requests, queued, asking, jobs, texts, cycling, enrichFaults>>

\* A request for a match that is not completed is refused; one for a match that has
\* a request is answered with that request.
CheckRequest(o, m) ==
    /\ asking[o] = NoAsk
    /\ Done(m)
    /\ \A r \in requests : r.match # m
    /\ asking' = [asking EXCEPT ![o] = m]
    /\ UNCHANGED <<rows, requests, queued, jobs, texts, cycling, enrichFaults>>

\* The row and the match's mark are one transaction; a failing push is logged.  An
\* owner has one request in flight.
InsertRequest(o) ==
    LET m == asking[o]
    IN  /\ m # NoAsk
        /\ asking' = [asking EXCEPT ![o] = NoAsk]
        /\ \/ /\ requests' = requests \cup {[match |-> m, bot |-> o]}
              /\ \/ queued' = queued \cup {m} /\ UNCHANGED enrichFaults
                 \/ Faulty /\ UNCHANGED queued
           \/ Faulty /\ UNCHANGED <<requests, queued>>
        /\ UNCHANGED <<rows, jobs, texts, cycling>>

\* Select and launch: no cycle starts when the hour's budget is spent, the query
\* fails or nothing qualifies.
RunCycle ==
    /\ ~cycling
    /\ Remaining > 0 /\ ~QueryFails /\ FindCandidates # {}
    /\ \E S \in Selections : jobs' = [m \in EMatches |-> IF m \in S THEN "ready" ELSE "none"]
    /\ cycling' = TRUE
    /\ UNCHANGED <<rows, requests, queued, asking, texts, enrichFaults>>

HoldingAlsoOver == {m \in EMatches : jobs[m] \notin {"none", "ready"}}
Holding == {m \in EMatches : jobs[m] \in {"fetch", "ask", "json", "markdown", "mark"}}

Acquire(m) ==
    /\ jobs[m] = "ready"
    /\ Cardinality(Holding) < MaxConcurrent
    /\ jobs' = [jobs EXCEPT ![m] = "fetch"]
    /\ UNCHANGED <<rows, requests, queued, asking, texts, cycling, enrichFaults>>

\* The stages of enrichOne: fetch the replay, ask the model; a failure ends it.
FetchReplay(m) ==
    /\ jobs[m] = "fetch"
    /\ \/ jobs' = [jobs EXCEPT ![m] = "ask"] /\ UNCHANGED enrichFaults
       \/ jobs' = [jobs EXCEPT ![m] = "over"] /\ Faulty
    /\ UNCHANGED <<rows, requests, queued, asking, texts, cycling>>

GenerateCommentary(m) ==
    /\ jobs[m] = "ask"
    /\ \/ jobs' = [jobs EXCEPT ![m] = "json"] /\ UNCHANGED enrichFaults
       \/ jobs' = [jobs EXCEPT ![m] = "over"] /\ Faulty
    /\ UNCHANGED <<rows, requests, queued, asking, texts, cycling>>

\* Two uploads; a failing one skips the rest and is ignored.
UploadCommentary(m) ==
    /\ jobs[m] \in {"json", "markdown"}
    /\ \/ /\ texts' = [texts EXCEPT ![m] = @ \cup {jobs[m]}]
          /\ jobs' = [jobs EXCEPT ![m] = IF @ = "json" THEN "markdown" ELSE "mark"]
          /\ UNCHANGED enrichFaults
       \/ jobs' = [jobs EXCEPT ![m] = "mark"] /\ Faulty /\ UNCHANGED texts
    /\ UNCHANGED <<rows, requests, queued, asking, cycling>>

MarkEnriched(m) ==
    /\ jobs[m] = "mark"
    /\ jobs' = [jobs EXCEPT ![m] = "over"]
    /\ \/ rows' = [rows EXCEPT ![m].commented = TRUE] /\ UNCHANGED enrichFaults
       \/ Faulty /\ UNCHANGED rows
    /\ UNCHANGED <<requests, queued, asking, texts, cycling>>

EndEnrichment ==
    /\ cycling
    /\ \A m \in EMatches : jobs[m] \in {"none", "over"}
    /\ jobs' = [m \in EMatches |-> "none"]
    /\ cycling' = FALSE
    /\ UNCHANGED <<rows, requests, queued, asking, texts, enrichFaults>>

\* The process is killed, or the cycle's deadline cancels every call in flight.
CycleLost ==
    /\ cycling
    /\ Faulty
    /\ jobs' = [m \in EMatches |-> "none"]
    /\ cycling' = FALSE
    /\ UNCHANGED <<rows, requests, queued, asking, texts>>

CommentaryNext ==
    \/ \E m \in EMatches :
        \/ Complete(m) \/ HourPasses(m)
        \/ Acquire(m) \/ FetchReplay(m) \/ GenerateCommentary(m) \/ UploadCommentary(m) \/ MarkEnriched(m)
    \/ \E o \in Owners, m \in Asked : CheckRequest(o, m)
    \/ \E o \in Owners : InsertRequest(o)
    \/ RunCycle \/ EndEnrichment \/ CycleLost

-----------------------------------------------------------------------------

\* An interesting match is commented on in the end, through the hourly budget, the
\* semaphore, failing calls and lost cycles, unless from some time on newer matches
\* keep it out of the query's rows or a drawn one among them makes the query fail.
InterestingIsEnriched ==
    \A m \in {x \in EMatches : Profile[x].turns >= MinTurnCount /\ Interesting(x)} :
        \/ Done(m) ~> rows[m].commented
        \/ <>[](QueryFails \/ m \notin Candidates)

=============================================================================
