----------------------------- MODULE Community -----------------------------
(***************************************************************************)
(* What viewers write through the API (cmd/acb-api): votes on maps,        *)
(* feedback on replays behind the spam filter, and upvotes of feedback.    *)
(*                                                                         *)
(* An upvote is two statements, the voter's row and the counter, so other  *)
(* requests run between them and the second may fail alone.  Clients       *)
(* repeat a request whose answer they lost.                                *)
(***************************************************************************)
EXTENDS Integers, Sequences, FiniteSets, FiniteSetsExt

CONSTANTS
    PoolMaps,         \* maps viewers vote on
    Voters,           \* voter_id of votes on maps
    Readers,          \* voter_id of upvotes
    Feedbacks,        \* feedback_id
    Bodies,           \* texts of feedback, sequences of characters
    BlockedTerms,     \* the block list, likewise
    CharFold,         \* the printable characters and what each is normalised to
    Alphanumeric,     \* characters that continue a word
    MinLength,        \* shortest text accepted (10)
    MaxUpvoteFaults   \* bound: counter updates that fail

VARIABLES
    votes,         \* map_votes: per map and voter -1, 1, or 0 for no row
    feedback,      \* replay_feedback: the upvotes counter, NoFeedback without a row
    voted,         \* feedback_upvotes: the voters of each feedback
    upvoting,      \* requests between the voter's row and the counter
    upvoteFaults

communityVars == <<votes, feedback, voted, upvoting, upvoteFaults>>

NoFeedback == -1

CommunityInit ==
    /\ votes = [m \in PoolMaps |-> [v \in Voters |-> 0]]
    /\ feedback = [f \in Feedbacks |-> NoFeedback]
    /\ voted = [f \in Feedbacks |-> {}]
    /\ upvoting = {}
    /\ upvoteFaults = 0

-----------------------------------------------------------------------------
(***************************************************************************)
(* The spam filter.                                                        *)
(***************************************************************************)
\* Unprintable characters are dropped, look-alikes and capitals folded.
Normalize(text) ==
    LET printable == SelectSeq(text, LAMBDA ch : ch \in DOMAIN CharFold)
    IN  [i \in DOMAIN printable |-> CharFold[printable[i]]]

\* The word occurs with no letter or digit on either side.
ContainsWord(text, word) ==
    \E i \in 1 .. Len(text) - Len(word) + 1 :
        LET next == i + Len(word)
        IN  /\ SubSeq(text, i, next - 1) = word
            /\ i = 1 \/ text[i - 1] \notin Alphanumeric
            /\ next > Len(text) \/ text[next] \notin Alphanumeric

\* Terms are normalised once, and one that vanishes is not kept.
Terms == {Normalize(term) : term \in BlockedTerms} \ {<<>>}

Check(body) ==
    /\ Len(body) >= MinLength
    /\ \A term \in Terms : ~ContainsWord(Normalize(body), term)

-----------------------------------------------------------------------------
(***************************************************************************)
(* The handlers.                                                           *)
(***************************************************************************)
\* A vote replaces the voter's earlier vote on that map.
HandleMapVote(m, v, vote) ==
    /\ votes' = [votes EXCEPT ![m][v] = vote]
    /\ UNCHANGED <<feedback, voted, upvoting, upvoteFaults>>

HandleCreateFeedback(f, body) ==
    /\ feedback[f] = NoFeedback
    /\ Check(body)
    /\ feedback' = [feedback EXCEPT ![f] = 0]
    /\ UNCHANGED <<votes, voted, upvoting, upvoteFaults>>

\* Mutant: a repeated upvote is taken for a new one.
UpvoteIsNewAlways(f, v) == TRUE
\* INSERT ... ON CONFLICT DO NOTHING RETURNING: a row only for a first upvote.
UpvoteIsNew(f, v) == v \notin voted[f]

InsertUpvote(f, v) ==
    /\ feedback[f] # NoFeedback
    /\ <<f, v>> \notin upvoting
    /\ UpvoteIsNew(f, v)
    /\ voted' = [voted EXCEPT ![f] = @ \union {v}]
    /\ upvoting' = upvoting \union {<<f, v>>}
    /\ UNCHANGED <<votes, feedback, upvoteFaults>>

\* The answer is "upvoted" whether or not the counter moved.
CountUpvote(f, v) ==
    /\ <<f, v>> \in upvoting
    /\ upvoting' = upvoting \ {<<f, v>>}
    /\ \/ /\ feedback' = [feedback EXCEPT ![f] = @ + 1]
          /\ UNCHANGED upvoteFaults
       \/ /\ upvoteFaults < MaxUpvoteFaults
          /\ upvoteFaults' = upvoteFaults + 1
          /\ UNCHANGED feedback
    /\ UNCHANGED <<votes, voted>>

VotesNext == \E m \in PoolMaps, v \in Voters, vote \in {-1, 1} : HandleMapVote(m, v, vote)

FeedbackNext ==
    \/ \E f \in Feedbacks, body \in Bodies : HandleCreateFeedback(f, body)
    \/ \E f \in Feedbacks, v \in Readers : InsertUpvote(f, v) \/ CountUpvote(f, v)

CommunitySpec == CommunityInit /\ [][VotesNext \/ FeedbackNext]_communityVars

\* SUM(vote) of a map.
NetVotes(m) == MapThenSumSet(LAMBDA v : votes[m][v], Voters)

-----------------------------------------------------------------------------
(***************************************************************************)
(* Properties.                                                             *)
(***************************************************************************)
\* A feedback shows no more upvotes than distinct voters gave it, however often
\* a client repeats its request and however handleFeedbackUpvote's two
\* statements interleave; what it shows short of them is in flight or lost to a
\* failed update.
UpvotesEarned ==
    \A f \in Feedbacks :
        feedback[f] # NoFeedback =>
            LET missing == Cardinality(voted[f]) - feedback[f]
                pending == Cardinality({u \in upvoting : u[1] = f})
            IN  pending <= missing /\ missing <= pending + upvoteFaults

=============================================================================
