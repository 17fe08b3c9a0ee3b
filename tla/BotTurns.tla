------------------------------ MODULE BotTurns ------------------------------
(***************************************************************************)
(* How a match asks its bots for orders: MatchRunner's per-turn deadline   *)
(* and failure policy (getMovesFromBots, recordFailedTurn, markInactive)   *)
(* on one side, HTTPBot with its own failure guard on the other.           *)
(*                                                                         *)
(* Every polled turn starts a call of its own.  A call that misses the     *)
(* deadline goes on in its goroutine and may finish in any later turn, or  *)
(* in a later match of the same runner.  HTTPBot's fields are guarded by   *)
(* its mutex, so each locked section is one step; an answer that comes in  *)
(* time is recorded by the bot and received by the runner in one step,     *)
(* which loses nothing because the deadline and the bot's record touch     *)
(* different fields.                                                       *)
(***************************************************************************)
EXTENDS Naturals, FiniteSets

CONSTANTS
  Players,     \* the bots of the match
  Threshold,   \* BotInactiveAfterFailures: 10
  MaxTurns,    \* Config.MaxTurns
  MaxMatches,  \* bound on how often Run is called on one runner
  LateStart    \* TRUE iff a call's goroutine may begin after its turn's deadline

ASSUME TurnConstants ==
  /\ Threshold \in Nat \ {0}
  /\ MaxTurns \in Nat /\ MaxMatches \in Nat
  /\ LateStart \in BOOLEAN

VARIABLES
  matches,     \* calls of Run so far
  turn,        \* turns begun in all matches so far; it identifies the calls
  started,     \* the turn count when this match began
  outcome,     \* where the runner is with each player in the current turn
  streak,      \* mr.failureStreak
  inactive,    \* mr.inactive
  events,      \* bot_inactive events of this match
  generation,  \* HTTPBot.generation
  failCount,   \* HTTPBot.failCount
  crashed,     \* HTTPBot.crashed
  lastDebug,   \* the turn HTTPBot.lastDebug belongs to, 0 when nil
  calls,       \* calls not yet returned: [turn, gen], gen 0 before the request
  missed       \* history: the player's latest run of failed turns in this match

runner == <<matches, turn, started, outcome, streak, inactive, events, missed>>
bots   == <<generation, failCount, crashed, lastDebug, calls>>
vars   == <<matches, turn, started, outcome, streak, inactive, events, missed,
            generation, failCount, crashed, lastDebug, calls>>

\* "settled": the runner has dealt with the player's outcome of this turn.
Outcomes == {"waiting", "moves", "error", "timeout", "settled"}

Init ==
  /\ matches = 1 /\ turn = 0 /\ started = 0
  /\ outcome = [p \in Players |-> "settled"]
  /\ streak = [p \in Players |-> 0]
  /\ inactive = [p \in Players |-> FALSE]
  /\ events = [p \in Players |-> 0]
  /\ generation = [p \in Players |-> 0]
  /\ failCount = [p \in Players |-> 0]
  /\ crashed = [p \in Players |-> FALSE]
  /\ lastDebug = [p \in Players |-> 0]
  /\ calls = [p \in Players |-> {}]
  /\ missed = [p \in Players |-> 0]

-----------------------------------------------------------------------------
(* The runner *)

Settled == \A p \in Players : outcome[p] = "settled"

\* The loop of Run goes round: every player that is not inactive is polled, in
\* goroutines of its own.
StartTurn ==
  /\ Settled /\ turn - started < MaxTurns
  /\ turn' = turn + 1
  /\ outcome' = [p \in Players |-> IF inactive[p] THEN "settled" ELSE "waiting"]
  /\ calls' = [p \in Players |->
                 IF inactive[p] THEN calls[p]
                 ELSE calls[p] \union {[turn |-> turn + 1, gen |-> 0]}]
  /\ UNCHANGED <<matches, started, streak, inactive, events, missed,
                 generation, failCount, crashed, lastDebug>>

\* Mutant: a player is timed out only after a call of its has come back.
DeadlineAfterCalls(p) ==
  /\ outcome[p] = "waiting" /\ calls[p] = {}
  /\ outcome' = [outcome EXCEPT ![p] = "timeout"]
  /\ UNCHANGED <<matches, turn, started, streak, inactive, events, missed, bots>>

\* The turn's timer fires before the answer is there.
Deadline(p) ==
  /\ outcome[p] = "waiting"
  /\ LateStart \/ [turn |-> turn, gen |-> 0] \notin calls[p]
  /\ outcome' = [outcome EXCEPT ![p] = "timeout"]
  /\ UNCHANGED <<matches, turn, started, streak, inactive, events, missed, bots>>

\* Mutants: the streak is not raised to the threshold, or the bot is not told.
MarkInactiveLowStreak(p, count) ==
  /\ streak' = [streak EXCEPT ![p] = count]
  /\ inactive' = [inactive EXCEPT ![p] = TRUE]
  /\ crashed' = [crashed EXCEPT ![p] = TRUE]
  /\ events' = [events EXCEPT ![p] = @ + 1]

MarkInactiveUntold(p, count) ==
  /\ streak' = [streak EXCEPT ![p] = IF count < Threshold THEN Threshold ELSE count]
  /\ inactive' = [inactive EXCEPT ![p] = TRUE]
  /\ UNCHANGED crashed
  /\ events' = [events EXCEPT ![p] = @ + 1]

\* markInactive, unless it was done before.
MarkInactive(p, count) ==
  /\ streak' = [streak EXCEPT ![p] = IF count < Threshold THEN Threshold ELSE count]
  /\ inactive' = [inactive EXCEPT ![p] = TRUE]
  /\ crashed' = [crashed EXCEPT ![p] = TRUE]
  /\ events' = [events EXCEPT ![p] = @ + 1]

\* recordFailedTurn.
RecordFailedTurn(p) ==
  /\ outcome[p] \in {"error", "timeout"}
  /\ missed' = [missed EXCEPT ![p] = @ + 1]
  /\ \/ streak[p] + 1 >= Threshold /\ MarkInactive(p, streak[p] + 1)
     \/ /\ streak[p] + 1 < Threshold
        /\ streak' = [streak EXCEPT ![p] = @ + 1]
        /\ UNCHANGED <<inactive, crashed, events>>

\* Mutant: an answer does not end the streak.
RecordAnswerKeepsStreak(p) ==
  /\ outcome[p] = "moves"
  /\ missed' = [missed EXCEPT ![p] = 0]
  /\ \/ crashed[p] /\ MarkInactive(p, streak[p])
     \/ ~ crashed[p] /\ UNCHANGED <<streak, inactive, crashed, events>>

\* An answer in time, from a bot that its own guard may have marked.
RecordAnswer(p) ==
  /\ outcome[p] = "moves"
  /\ missed' = [missed EXCEPT ![p] = 0]
  /\ \/ crashed[p] /\ MarkInactive(p, streak[p])
     \/ /\ ~ crashed[p]
        /\ streak' = [streak EXCEPT ![p] = 0]
        /\ UNCHANGED <<inactive, crashed, events>>

\* The runner takes the player's outcome from the channel, after wg.Wait.
Settle(p) ==
  /\ \A q \in Players : outcome[q] # "waiting"
  /\ RecordFailedTurn(p) \/ RecordAnswer(p)
  /\ outcome' = [outcome EXCEPT ![p] = "settled"]
  /\ UNCHANGED <<matches, turn, started, generation, failCount, lastDebug, calls>>

\* Run is called again on the same runner and the same bots: it resets its own
\* policy state.  A match may end after any turn.
RunAgain ==
  /\ Settled /\ turn > started /\ matches < MaxMatches
  /\ matches' = matches + 1 /\ started' = turn
  /\ streak' = [p \in Players |-> 0]
  /\ inactive' = [p \in Players |-> FALSE]
  /\ events' = [p \in Players |-> 0]
  /\ missed' = [p \in Players |-> 0]
  /\ UNCHANGED <<turn, outcome, bots>>

-----------------------------------------------------------------------------
(* A call of HTTPBot.GetMoves *)

\* The call is over; its channel has a reader only before its turn's deadline.
Return(p, c, o) ==
  outcome' = IF c.turn = turn /\ outcome[p] = "waiting"
             THEN [outcome EXCEPT ![p] = o] ELSE outcome

\* Mutant: the telemetry of the turn before is not cleared.
GetMovesKeepsDebug(p, c) ==
  /\ c \in calls[p] /\ c.gen = 0
  /\ \/ /\ crashed[p]
        /\ calls' = [calls EXCEPT ![p] = @ \ {c}]
        /\ Return(p, c, "moves")
        /\ UNCHANGED generation
     \/ /\ ~ crashed[p]
        /\ generation' = [generation EXCEPT ![p] = @ + 1]
        /\ calls' = [calls EXCEPT ![p] = (@ \ {c}) \union
                       {[turn |-> c.turn, gen |-> generation[p] + 1]}]
        /\ UNCHANGED outcome
  /\ UNCHANGED <<matches, turn, started, streak, inactive, events, missed,
                 failCount, crashed, lastDebug>>

\* The first locked section.  A crashed bot is not asked: no moves, no error.
GetMoves(p, c) ==
  /\ c \in calls[p] /\ c.gen = 0
  /\ \/ /\ crashed[p]
        /\ calls' = [calls EXCEPT ![p] = @ \ {c}]
        /\ Return(p, c, "moves")
        /\ UNCHANGED <<generation, lastDebug>>
     \/ /\ ~ crashed[p]
        /\ generation' = [generation EXCEPT ![p] = @ + 1]
        /\ lastDebug' = [lastDebug EXCEPT ![p] = 0]
        /\ calls' = [calls EXCEPT ![p] = (@ \ {c}) \union
                       {[turn |-> c.turn, gen |-> generation[p] + 1]}]
        /\ UNCHANGED outcome
  /\ UNCHANGED <<matches, turn, started, streak, inactive, events, missed,
                 failCount, crashed>>

\* Mutant: the bot listens to calls of earlier turns.
CurrentOfAnyTurn(p, c) == ~ crashed[p]

\* Whether the bot still listens to a call (recordFailure, recordSuccess).
Current(p, c) == c.gen = generation[p] /\ ~ crashed[p]

\* Transport error, bad status, bad signature or bad schema.
CallFails(p, c) ==
  /\ c \in calls[p] /\ c.gen # 0
  /\ calls' = [calls EXCEPT ![p] = @ \ {c}]
  /\ Return(p, c, "error")
  /\ failCount' = IF Current(p, c) THEN [failCount EXCEPT ![p] = @ + 1] ELSE failCount
  /\ crashed' = [crashed EXCEPT ![p] = @ \/ failCount'[p] >= Threshold]
  /\ UNCHANGED <<matches, turn, started, streak, inactive, events, missed,
                 generation, lastDebug>>

\* The bot's failure count after an answer it listens to.
Forgiven(n) == 0

\* A valid answer; debug telemetry is optional.
CallSucceeds(p, c, debug) ==
  /\ c \in calls[p] /\ c.gen # 0
  /\ calls' = [calls EXCEPT ![p] = @ \ {c}]
  /\ Return(p, c, "moves")
  /\ failCount' = IF Current(p, c) THEN [failCount EXCEPT ![p] = Forgiven(@)] ELSE failCount
  /\ lastDebug' = IF Current(p, c) /\ debug THEN [lastDebug EXCEPT ![p] = c.turn]
                                            ELSE lastDebug
  /\ UNCHANGED <<matches, turn, started, streak, inactive, events, missed,
                 generation, crashed>>

-----------------------------------------------------------------------------

CallStep(p) ==
  \E c \in calls[p] :
    \/ GetMoves(p, c)
    \/ CallFails(p, c)
    \/ \E debug \in BOOLEAN : CallSucceeds(p, c, debug)

Next ==
  \/ StartTurn \/ RunAgain
  \/ \E p \in Players : Deadline(p) \/ Settle(p) \/ CallStep(p)

Spec == Init /\ [][Next]_vars

\* Timers fire, and the runner's own goroutines go on: every call begins.  No bot
\* ever has to answer.
Fairness ==
  /\ WF_vars(StartTurn)
  /\ \A p \in Players : WF_vars(Deadline(p)) /\ WF_vars(Settle(p))
                          /\ WF_vars(\E c \in calls[p] : GetMoves(p, c))

FairSpec == Spec /\ Fairness

-----------------------------------------------------------------------------
(* Properties *)

\* Every field keeps its type.
TypeOK ==
  /\ matches \in Nat /\ turn \in Nat /\ started \in Nat /\ started <= turn
  /\ outcome \in [Players -> Outcomes]
  /\ streak \in [Players -> Nat]
  /\ inactive \in [Players -> BOOLEAN]
  /\ events \in [Players -> Nat]
  /\ generation \in [Players -> Nat]
  /\ failCount \in [Players -> Nat]
  /\ crashed \in [Players -> BOOLEAN]
  /\ lastDebug \in [Players -> Nat]
  /\ calls \in [Players -> SUBSET [turn : Nat, gen : Nat]]
  /\ missed \in [Players -> Nat]

\* A bot is inactive exactly when its streak stands at the threshold, and then
\* the replay has one bot_inactive event for it, whichever of the runner and the
\* bot's own guard came first.
InactiveOnce ==
  \A p \in Players :
    /\ streak[p] <= Threshold
    /\ inactive[p] <=> streak[p] = Threshold
    /\ events[p] = IF inactive[p] THEN 1 ELSE 0

\* "It sends no further requests to that bot": once a bot is inactive not even a
\* call that was waiting to begin sends a request (each request takes a new
\* generation).
InactiveNotAsked == [][\A p \in Players : inactive[p] => generation'[p] = generation[p]]_vars

\* What result.Crashed reports, and the crash strike that follows from it, is
\* earned: after every turn a bot counts as crashed exactly if it has failed its
\* last Threshold turns of this match in a row.
CrashIsEarned ==
  Settled => \A p \in Players : (inactive[p] \/ crashed[p]) <=> missed[p] >= Threshold

\* HTTPBot's guard never runs ahead of the runner's count by more than the
\* failure of the turn in progress: calls of earlier turns that fail late, in any
\* number and any order, do not add up to a bot that is removed although it
\* answers (recordFailure, recordFailedTurn).
GuardFollowsRunner ==
  \A p \in Players :
    failCount[p] <= streak[p] + IF outcome[p] \in {"error", "timeout"} THEN 1 ELSE 0

\* The debug telemetry recorded with a turn is from that turn, as long as the bot
\* is polled.
DebugOfThisTurn ==
  Settled => \A p \in Players : ~ inactive[p] => lastDebug[p] \in {0, turn}

\* Every turn is settled although bots may never answer.
TurnsSettle == \A p \in Players : outcome[p] = "waiting" ~> outcome[p] = "settled"

=============================================================================
