--------------------------- MODULE BotTurnsProofs ---------------------------
(***************************************************************************)
(* The failure policy of BotTurns is exact in one match whose calls begin  *)
(* before their deadline, for every threshold, number of bots and number   *)
(* of turns: a bot is taken for crashed exactly after Threshold failed     *)
(* turns in a row.                                                         *)
(*                                                                         *)
(* The two counters disagree while a call is late.  What makes the         *)
(* invariant inductive is that a late call of the current generation       *)
(* stands for a failed turn the runner has counted already and the bot has *)
(* not: it is the one failure by which failCount may still grow.           *)
(***************************************************************************)
EXTENDS BotTurns, TLAPS

\* A call that has not begun, and a call the bot would still listen to.
Fresh(p) == \E c \in calls[p] : c.gen = 0
Open(p)  == \E c \in calls[p] : c.gen = generation[p] /\ c.gen # 0

\* Failures the runner has counted, or will count if the turn fails.
Due(p) ==
  IF outcome[p] \in {"error", "timeout"} \/ (outcome[p] = "waiting" /\ ~ Fresh(p))
  THEN missed[p] + 1 ELSE missed[p]

CallsInv(p) ==
  /\ \A c \in calls[p] :
       /\ c.gen <= generation[p] /\ c.turn <= turn
       /\ c.gen = 0 => c.turn = turn /\ outcome[p] = "waiting"
  /\ \A c, d \in calls[p] : c.gen = d.gen \/ c.turn = d.turn => c = d
  /\ outcome[p] = "waiting" =>
       \E c \in calls[p] : c.turn = turn /\ c.gen \in {0, generation[p]}

CountInv(p) ==
  /\ failCount[p] <= Due(p)
  /\ Open(p) => failCount[p] + 1 <= Due(p)
  /\ outcome[p] = "moves" => failCount[p] = 0 /\ ~ Open(p)
  /\ streak[p] = missed[p]
  /\ inactive[p] <=> missed[p] >= Threshold
  /\ outcome[p] # "settled" => ~ inactive[p]
  /\ crashed[p] => inactive[p] \/ failCount[p] >= Threshold

\* The inductive invariant.
TurnInv ==
  /\ TypeOK
  /\ matches = 1
  /\ \A p \in Players : CallsInv(p) /\ CountInv(p)

-----------------------------------------------------------------------------

\* The state a match begins with satisfies the invariant.
LEMMA TurnInit == Init => TurnInv
  BY TurnConstants DEF Init, TurnInv, TypeOK, Outcomes, CallsInv, CountInv, Fresh, Open, Due

\* A step keeps every field in its type.
LEMMA TypeStep == TypeOK /\ [Next]_vars => TypeOK'
<1> SUFFICES ASSUME TypeOK, [Next]_vars PROVE TypeOK'
  OBVIOUS
<1> USE TurnConstants DEF TypeOK, Outcomes
<1>1. CASE StartTurn
  BY <1>1 DEF StartTurn
<1>2. CASE RunAgain
  BY <1>2 DEF RunAgain, bots
<1>3. ASSUME NEW p \in Players, Deadline(p) PROVE TypeOK'
  BY <1>3 DEF Deadline, bots
<1>4. ASSUME NEW p \in Players, Settle(p) PROVE TypeOK'
  <2>0. ASSUME NEW n \in Nat, MarkInactive(p, n)
        PROVE  /\ streak' \in [Players -> Nat] /\ events' \in [Players -> Nat]
               /\ inactive' \in [Players -> BOOLEAN] /\ crashed' \in [Players -> BOOLEAN]
    BY <2>0 DEF MarkInactive
  <2>1. CASE RecordFailedTurn(p)
    <3>1. streak[p] + 1 \in Nat
      OBVIOUS
    <3> QED
      BY <1>4, <2>0, <2>1, <3>1 DEF Settle, RecordFailedTurn
  <2>2. CASE RecordAnswer(p)
    <3>1. streak[p] \in Nat
      OBVIOUS
    <3> QED
      BY <1>4, <2>0, <2>2, <3>1 DEF Settle, RecordAnswer
  <2> QED
    BY <1>4, <2>1, <2>2 DEF Settle
<1>5. ASSUME NEW p \in Players, NEW c \in calls[p], GetMoves(p, c) PROVE TypeOK'
  BY <1>5 DEF GetMoves, Return
<1>6. ASSUME NEW p \in Players, NEW c \in calls[p], CallFails(p, c) PROVE TypeOK'
  BY <1>6 DEF CallFails, Return, Current
<1>7. ASSUME NEW p \in Players, NEW c \in calls[p], NEW debug \in BOOLEAN,
             CallSucceeds(p, c, debug)
      PROVE TypeOK'
  BY <1>7 DEF CallSucceeds, Forgiven, Return, Current
<1>8. CASE UNCHANGED vars
  BY <1>8 DEF vars
<1> QED
  BY <1>1, <1>2, <1>3, <1>4, <1>5, <1>6, <1>7, <1>8 DEF Next, CallStep

\* A step that touches neither a player's fields nor the turn preserves what the
\* invariant says of that player.
LEMMA Frame ==
  ASSUME NEW q \in Players, CallsInv(q), CountInv(q),
         turn' = turn, outcome'[q] = outcome[q], streak'[q] = streak[q],
         inactive'[q] = inactive[q], generation'[q] = generation[q],
         failCount'[q] = failCount[q], crashed'[q] = crashed[q],
         calls'[q] = calls[q], missed'[q] = missed[q]
  PROVE  CallsInv(q)' /\ CountInv(q)'
  BY DEF CallsInv, CountInv, Fresh, Open, Due

\* The steps of the runner preserve the invariant.
LEMMA RunnerSteps ==
  ASSUME ~ LateStart, MaxMatches = 1, TurnInv, TypeOK',
         StartTurn \/ RunAgain \/ \E p \in Players : Deadline(p) \/ Settle(p)
  PROVE  TurnInv'
<1> USE TurnConstants
<1>1. CASE StartTurn
  <2> SUFFICES ASSUME NEW q \in Players PROVE CallsInv(q)' /\ CountInv(q)'
    BY <1>1 DEF TurnInv, StartTurn
  <2>0. outcome[q] = "settled" /\ \A c \in calls[q] : c.gen # 0
    BY <1>1 DEF StartTurn, Settled, TurnInv, CallsInv
  <2>1. CASE inactive[q]
    BY <1>1, <2>0, <2>1 DEF StartTurn, TurnInv, TypeOK, CallsInv, CountInv, Fresh, Open, Due
  <2>2. CASE ~ inactive[q]
    <3>1. /\ outcome'[q] = "waiting" /\ turn' = turn + 1
          /\ calls'[q] = calls[q] \union {[turn |-> turn + 1, gen |-> 0]}
      BY <1>1, <2>2 DEF StartTurn, TurnInv, TypeOK
    <3> DEFINE f == [turn |-> turn + 1, gen |-> 0]
    <3>0. /\ turn \in Nat /\ generation[q] \in Nat /\ generation'[q] = generation[q]
          /\ f.turn = turn + 1 /\ f.gen = 0
          /\ \A c \in calls[q] : /\ c.gen \in Nat /\ c.turn \in Nat
                                 /\ c.gen <= generation[q] /\ c.turn <= turn
          /\ \A c, d \in calls[q] : c.gen = d.gen \/ c.turn = d.turn => c = d
      BY <1>1 DEF StartTurn, TurnInv, TypeOK, CallsInv
    <3> HIDE DEF f
    <3>2. CallsInv(q)'
      <4>1. \A c \in calls'[q] :
              /\ c.gen <= generation[q] /\ c.turn <= turn + 1
              /\ c.gen = 0 => c.turn = turn + 1
        BY <2>0, <3>0, <3>1 DEF f
      <4>2. \A c, d \in calls'[q] : c.gen = d.gen \/ c.turn = d.turn => c = d
        <5>1. \A c \in calls[q] : c.gen # f.gen /\ c.turn # f.turn
          BY <2>0, <3>0
        <5>2. calls'[q] = calls[q] \union {f}
          BY <3>1 DEF f
        <5> QED
          BY <3>0, <5>1, <5>2
      <4>3. f \in calls'[q]
        BY <3>1 DEF f
      <4> QED
        BY <3>0, <3>1, <4>1, <4>2, <4>3 DEF CallsInv
    <3>3. Fresh(q)' /\ (Open(q)' <=> Open(q)) /\ Due(q)' = Due(q)
      <4>1. calls'[q] = calls[q] \union {f} /\ missed'[q] = missed[q]
        BY <1>1, <3>1 DEF StartTurn, f
      <4>2. Fresh(q)' /\ (Open(q)' <=> Open(q))
        BY <3>0, <4>1 DEF Fresh, Open
      <4> QED
        BY <2>0, <3>1, <4>1, <4>2 DEF Due
    <3> QED
      BY <1>1, <2>2, <3>1, <3>2, <3>3 DEF StartTurn, TurnInv, TypeOK, CountInv
  <2> QED
    BY <2>1, <2>2
<1>2. CASE RunAgain
  BY <1>2 DEF RunAgain, TurnInv
<1>3. ASSUME NEW p \in Players, Deadline(p) PROVE TurnInv'
  <2>1. ASSUME NEW q \in Players, q # p PROVE CallsInv(q)' /\ CountInv(q)'
    BY <1>3, <2>1, Frame DEF Deadline, TurnInv, TypeOK, bots
  <2>2. ~ Fresh(p)
    BY <1>3 DEF Deadline, TurnInv, TypeOK, CallsInv, Fresh
  <2>3. CallsInv(p)'
    BY <1>3, <2>2 DEF Deadline, TurnInv, TypeOK, CallsInv, Fresh, bots
  <2>4. CountInv(p)'
    BY <1>3, <2>2 DEF Deadline, TurnInv, TypeOK, CountInv, Fresh, Open, Due, bots
  <2> QED
    BY <1>3, <2>1, <2>3, <2>4 DEF TurnInv, Deadline
<1>4. ASSUME NEW p \in Players, Settle(p) PROVE TurnInv'
  <2>1. ASSUME NEW q \in Players, q # p PROVE CallsInv(q)' /\ CountInv(q)'
    BY <1>4, <2>1, Frame
       DEF Settle, RecordFailedTurn, RecordAnswer, MarkInactive, TurnInv, TypeOK
  <2>2. CallsInv(p)' /\ outcome'[p] = "settled" /\ (Open(p)' <=> Open(p)) /\ Due(p)' = missed'[p]
    BY <1>4 DEF Settle, RecordFailedTurn, RecordAnswer, TurnInv, TypeOK, CallsInv, Open, Due
  <2>3. CountInv(p)'
    <3>1. CASE RecordFailedTurn(p)
      <4>1. Due(p) = missed'[p] /\ missed'[p] = missed[p] + 1
        BY <1>4, <3>1 DEF RecordFailedTurn, TurnInv, TypeOK, Due
      <4>2. ~ inactive[p] /\ missed[p] < Threshold
        BY <3>1 DEF RecordFailedTurn, TurnInv, TypeOK, CountInv
      <4> QED
        BY <1>4, <3>1, <2>2, <4>1, <4>2
           DEF Settle, RecordFailedTurn, MarkInactive, TurnInv, TypeOK, CountInv
    <3>2. CASE RecordAnswer(p)
      <4>1. failCount[p] = 0 /\ ~ Open(p) /\ ~ inactive[p] /\ ~ crashed[p]
        BY <3>2 DEF RecordAnswer, TurnInv, TypeOK, CountInv
      <4> QED
        BY <1>4, <3>2, <2>2, <4>1
           DEF Settle, RecordAnswer, TurnInv, TypeOK, CountInv
    <3> QED
      BY <1>4, <3>1, <3>2 DEF Settle
  <2> QED
    BY <1>4, <2>1, <2>2, <2>3 DEF TurnInv, Settle
<1> QED
  BY <1>1, <1>2, <1>3, <1>4

\* What a call that has sent its request means for its player: if the runner still
\* waits for it, the bot still listens to it and no other call is about to begin.
LEMMA SentCall ==
  ASSUME TurnInv, NEW p \in Players, NEW c \in calls[p], c.gen # 0,
         c.turn = turn, outcome[p] = "waiting"
  PROVE  c.gen = generation[p] /\ ~ crashed[p] /\ ~ Fresh(p) /\ Open(p)
<1> USE TurnConstants DEF TurnInv, TypeOK
<1>1. c.gen = generation[p] /\ ~ Fresh(p)
  BY DEF CallsInv, Fresh
<1>2. Open(p)
  BY <1>1 DEF Open
<1>3. failCount[p] < Threshold
  BY <1>1, <1>2 DEF CountInv, Due
<1> QED
  BY <1>1, <1>2, <1>3 DEF CountInv

\* When a call that has sent its request is over, the other calls of its player are
\* as before, and none of them is of the same generation.
LEMMA CallLeaves ==
  ASSUME TurnInv, NEW p \in Players, NEW c \in calls[p], c.gen # 0,
         calls' = [calls EXCEPT ![p] = @ \ {c}],
         turn' = turn, generation' = generation,
         outcome'[p] = outcome[p] \/ (outcome[p] = "waiting" /\ c.turn = turn),
         outcome'[p] = "waiting" => outcome[p] = "waiting" /\ c.turn # turn
  PROVE  /\ CallsInv(p)'
         /\ c.gen = generation[p] => ~ Open(p)'
         /\ Open(p)' => Open(p)
         /\ outcome'[p] = outcome[p] => (Fresh(p)' <=> Fresh(p))
<1> USE DEF TurnInv, TypeOK
<1>1. calls'[p] = calls[p] \ {c}
  OBVIOUS
<1>2. CallsInv(p)
  OBVIOUS
<1>3. c.gen = generation[p] => ~ Open(p)'
  BY <1>1, <1>2 DEF CallsInv, Open
<1>4. (Open(p)' => Open(p)) /\ (Fresh(p)' <=> Fresh(p))
  BY <1>1 DEF Open, Fresh
<1>5. \A d \in calls'[p] :
        /\ d.gen <= generation[p] /\ d.turn <= turn
        /\ d.gen = 0 => d.turn = turn /\ outcome'[p] = "waiting"
  BY <1>1, <1>2 DEF CallsInv
<1>6. \A d, e \in calls'[p] : d.gen = e.gen \/ d.turn = e.turn => d = e
  BY <1>1, <1>2 DEF CallsInv
<1>7. outcome'[p] = "waiting" =>
        \E d \in calls'[p] : d.turn = turn /\ d.gen \in {0, generation[p]}
  BY <1>1, <1>2 DEF CallsInv
<1> QED
  BY <1>3, <1>4, <1>5, <1>6, <1>7 DEF CallsInv

\* The steps of a call preserve the invariant.
LEMMA CallSteps ==
  ASSUME TurnInv, TypeOK', NEW p \in Players, NEW c \in calls[p],
         \/ GetMoves(p, c) \/ CallFails(p, c)
         \/ \E debug \in BOOLEAN : CallSucceeds(p, c, debug)
  PROVE  TurnInv'
<1> USE TurnConstants
<1>0. /\ turn' = turn /\ matches' = matches /\ streak' = streak
      /\ inactive' = inactive /\ missed' = missed
  BY DEF GetMoves, CallFails, CallSucceeds, Forgiven
<1>1. ASSUME NEW q \in Players, q # p PROVE CallsInv(q)' /\ CountInv(q)'
  BY <1>0, <1>1, Frame
     DEF GetMoves, CallFails, CallSucceeds, Forgiven, Return, TurnInv, TypeOK
<1>2. CASE GetMoves(p, c)
  <2> DEFINE d == [turn |-> c.turn, gen |-> generation[p] + 1]
  <2>1. c.gen = 0 /\ c.turn = turn /\ outcome[p] = "waiting" /\ Fresh(p) /\ ~ crashed[p]
    <3>1. c.gen = 0 /\ c.turn = turn /\ outcome[p] = "waiting" /\ Fresh(p)
      BY <1>2 DEF GetMoves, TurnInv, CallsInv, Fresh
    <3>2. failCount[p] < Threshold /\ ~ inactive[p]
      BY <3>1 DEF TurnInv, TypeOK, CountInv, Due
    <3> QED
      BY <3>1, <3>2 DEF TurnInv, TypeOK, CountInv
  <2>2. /\ calls'[p] = (calls[p] \ {c}) \union {d} /\ outcome' = outcome
        /\ generation'[p] = generation[p] + 1 /\ failCount' = failCount /\ crashed' = crashed
    BY <1>2, <2>1 DEF GetMoves, TurnInv, TypeOK
  <2>3. d.turn = turn /\ d.gen = generation[p] + 1 /\ d \in calls'[p]
    BY <2>1, <2>2
  <2>4. /\ generation[p] \in Nat /\ turn \in Nat
        /\ \A e \in calls[p] : /\ e.gen \in Nat /\ e.turn \in Nat
                               /\ e.gen <= generation[p] /\ e.turn <= turn
                               /\ e # c => e.gen # 0 /\ e.turn # turn
        /\ \A e, f \in calls[p] : e.gen = f.gen \/ e.turn = f.turn => e = f
    BY <2>1 DEF TurnInv, TypeOK, CallsInv
  <2> HIDE DEF d
  <2>5. CallsInv(p)'
    <3>1. \A e \in calls'[p] :
            /\ e.gen <= generation'[p] /\ e.turn <= turn
            /\ e.gen = 0 => e.turn = turn /\ outcome'[p] = "waiting"
      BY <2>2, <2>3, <2>4
    <3>2. \A e, f \in calls'[p] : e.gen = f.gen \/ e.turn = f.turn => e = f
      <4>1. \A e \in calls[p] \ {c} : e.gen # d.gen /\ e.turn # d.turn
        BY <2>3, <2>4
      <4> QED
        BY <2>2, <2>4, <4>1
    <3> QED
      BY <1>0, <2>2, <2>3, <3>1, <3>2 DEF CallsInv
  <2>6. ~ Fresh(p)' /\ Open(p)'
    BY <2>2, <2>3, <2>4 DEF Fresh, Open
  <2>7. CountInv(p)'
    BY <1>0, <2>1, <2>2, <2>6 DEF TurnInv, TypeOK, CountInv, Due
  <2> QED
    BY <1>0, <1>1, <2>5, <2>7 DEF TurnInv
<1>3. CASE CallFails(p, c)
  <2>1. /\ CallsInv(p)' /\ (c.gen = generation[p] => ~ Open(p)') /\ (Open(p)' => Open(p))
        /\ outcome'[p] = outcome[p] => (Fresh(p)' <=> Fresh(p))
    BY <1>0, <1>3, CallLeaves DEF CallFails, Return, TurnInv, TypeOK
  <2>2. Due(p)' = Due(p) /\ (outcome'[p] = "moves" => outcome[p] = "moves")
                        /\ (outcome'[p] # "settled" => outcome[p] # "settled")
    <3>1. CASE c.turn = turn /\ outcome[p] = "waiting"
      <4>1. ~ Fresh(p) /\ outcome'[p] = "error"
        BY <1>3, <3>1, SentCall DEF CallFails, Return, TurnInv, TypeOK
      <4> QED
        BY <1>0, <3>1, <4>1 DEF Due
    <3>2. CASE ~ (c.turn = turn /\ outcome[p] = "waiting")
      <4>1. outcome' = outcome
        BY <1>3, <3>2 DEF CallFails, Return
      <4> QED
        BY <1>0, <2>1, <4>1 DEF Due
    <3> QED
      BY <3>1, <3>2
  <2>3. CASE Current(p, c)
    <3>1. Open(p) /\ ~ Open(p)' /\ failCount'[p] = failCount[p] + 1
      BY <1>3, <2>1, <2>3 DEF CallFails, Current, Open, TurnInv, TypeOK
    <3>2. failCount[p] + 1 <= Due(p) /\ outcome[p] # "moves"
      BY <3>1 DEF TurnInv, CountInv
    <3>3. crashed'[p] => inactive'[p] \/ failCount'[p] >= Threshold
      BY <1>0, <1>3, <2>3 DEF CallFails, Current, TurnInv, TypeOK
    <3> QED
      BY <1>0, <1>1, <2>1, <2>2, <3>1, <3>2, <3>3 DEF TurnInv, TypeOK, CountInv
  <2>4. CASE ~ Current(p, c)
    <3>1. failCount' = failCount
      BY <1>3, <2>4 DEF CallFails
    <3>2. crashed'[p] => inactive'[p] \/ failCount'[p] >= Threshold
      BY <1>0, <1>3, <3>1 DEF CallFails, TurnInv, TypeOK, CountInv
    <3> QED
      BY <1>0, <1>1, <2>1, <2>2, <3>1, <3>2 DEF TurnInv, TypeOK, CountInv
  <2> QED
    BY <2>3, <2>4
<1>4. ASSUME NEW debug \in BOOLEAN, CallSucceeds(p, c, debug) PROVE TurnInv'
  <2>1. /\ CallsInv(p)' /\ (c.gen = generation[p] => ~ Open(p)') /\ (Open(p)' => Open(p))
        /\ outcome'[p] = outcome[p] => (Fresh(p)' <=> Fresh(p))
    BY <1>0, <1>4, CallLeaves DEF CallSucceeds, Forgiven, Return, TurnInv, TypeOK
  <2>2. CASE c.turn = turn /\ outcome[p] = "waiting"
    <3>1. failCount'[p] = 0 /\ ~ Open(p)' /\ outcome'[p] = "moves" /\ crashed' = crashed
      BY <1>4, <2>1, <2>2, SentCall DEF CallSucceeds, Forgiven, Current, Return, TurnInv, TypeOK
    <3>2. ~ crashed[p] /\ ~ inactive[p] /\ Due(p)' = missed[p]
      BY <1>0, <1>4, <2>2, <3>1, SentCall DEF CallSucceeds, Forgiven, TurnInv, CountInv, Due
    <3> QED
      BY <1>0, <1>1, <2>1, <3>1, <3>2 DEF TurnInv, TypeOK, CountInv
  <2>3. CASE ~ (c.turn = turn /\ outcome[p] = "waiting")
    <3>1. outcome' = outcome /\ Due(p)' = Due(p) /\ crashed' = crashed
      BY <1>0, <1>4, <2>1, <2>3 DEF CallSucceeds, Forgiven, Return, Due
    <3>2. failCount'[p] = failCount[p] \/ (failCount'[p] = 0 /\ ~ Open(p)' /\ ~ crashed[p])
      BY <1>4, <2>1 DEF CallSucceeds, Forgiven, Current, TurnInv, TypeOK
    <3>3. Due(p) \in Nat
      BY DEF Due, TurnInv, TypeOK
    <3> QED
      BY <1>0, <1>1, <2>1, <3>1, <3>2, <3>3 DEF TurnInv, TypeOK, CountInv
  <2> QED
    BY <2>2, <2>3
<1> QED
  BY <1>2, <1>3, <1>4

-----------------------------------------------------------------------------
(* Theorems *)

\* Every step of a match preserves the invariant.
LEMMA TurnStep ==
  ASSUME ~ LateStart, MaxMatches = 1, TurnInv, [Next]_vars PROVE TurnInv'
<1>1. TypeOK'
  BY TypeStep DEF TurnInv
<1>2. CASE UNCHANGED vars
  BY <1>1, <1>2 DEF vars, TurnInv, CallsInv, CountInv, Fresh, Open, Due
<1>3. CASE Next
  BY <1>1, <1>3, RunnerSteps, CallSteps DEF Next, CallStep
<1> QED
  BY <1>2, <1>3

\* In one match whose calls begin before their deadline, what MatchRunner and
\* HTTPBot count stays consistent however late the answers are.
THEOREM PolicyInvariant ==
  ASSUME ~ LateStart, MaxMatches = 1 PROVE Spec => []TurnInv
<1>1. Init => TurnInv
  BY TurnInit
<1>2. TurnInv /\ [Next]_vars => TurnInv'
  BY TurnStep
<1> QED
  BY <1>1, <1>2, PTL DEF Spec

\* result.Crashed and the inactivity of a bot are earned by Threshold failed turns
\* in a row, for every threshold: the bot's own guard (recordFailure) never marks
\* a bot the runner (recordFailedTurn) would not have marked.
THEOREM CrashesAreEarned ==
  ASSUME ~ LateStart, MaxMatches = 1 PROVE Spec => []CrashIsEarned
<1>1. TurnInv => CrashIsEarned
  BY TurnConstants DEF TurnInv, TypeOK, CrashIsEarned, Settled, CountInv, Due
<1> QED
  BY <1>1, PolicyInvariant, PTL

\* HTTPBot's failCount is at most the runner's streak, plus the failure of the turn
\* in progress.
THEOREM GuardNeverLeads ==
  ASSUME ~ LateStart, MaxMatches = 1 PROVE Spec => []GuardFollowsRunner
<1>1. TurnInv => GuardFollowsRunner
  <2> SUFFICES ASSUME TurnInv, NEW p \in Players
               PROVE  failCount[p] <=
                        streak[p] + IF outcome[p] \in {"error", "timeout"} THEN 1 ELSE 0
    BY DEF GuardFollowsRunner
  <2>1. CASE outcome[p] = "waiting" /\ ~ Fresh(p)
    <3>1. Open(p)
      BY <2>1 DEF TurnInv, TypeOK, CallsInv, Fresh, Open
    <3> QED
      BY <2>1, <3>1 DEF TurnInv, TypeOK, CountInv, Due
  <2>2. CASE ~ (outcome[p] = "waiting" /\ ~ Fresh(p))
    BY <2>2 DEF TurnInv, TypeOK, CountInv, Due
  <2> QED
    BY <2>1, <2>2
<1> QED
  BY <1>1, PolicyInvariant, PTL

-----------------------------------------------------------------------------
(* What holds in every match, however late a call begins *)

\* A bot that is inactive was told so, and is not polled.
MarkedOnce(p) ==
  /\ streak[p] <= Threshold
  /\ inactive[p] <=> streak[p] = Threshold
  /\ events[p] = IF inactive[p] THEN 1 ELSE 0
  /\ outcome[p] # "settled" => ~ inactive[p]
  /\ inactive[p] => crashed[p]

\* The inductive invariant for any number of matches.
MarksInv == TypeOK /\ \A p \in Players : MarkedOnce(p)

\* No bot is marked at first.
LEMMA MarksInit == Init => MarksInv
  BY TurnConstants DEF Init, MarksInv, TypeOK, Outcomes, MarkedOnce

\* Settling a turn marks a bot that was not marked, at the threshold.
LEMMA SettleMarks ==
  ASSUME MarksInv, TypeOK', NEW p \in Players, Settle(p)
  PROVE  MarksInv'
<1> USE TurnConstants DEF MarksInv, TypeOK
<1>1. ASSUME NEW q \in Players, q # p PROVE MarkedOnce(q)'
  BY <1>1 DEF Settle, RecordFailedTurn, RecordAnswer, MarkInactive, MarkedOnce
<1>2. outcome[p] # "settled" /\ outcome'[p] = "settled"
  BY DEF Settle, RecordFailedTurn, RecordAnswer
<1>3. ~ inactive[p] /\ streak[p] < Threshold /\ events[p] = 0
  BY <1>2 DEF MarkedOnce
<1>4. ASSUME NEW n \in Nat, n <= Threshold, MarkInactive(p, n) PROVE MarkedOnce(p)'
  <2>1. streak'[p] = Threshold /\ inactive'[p] = TRUE /\ crashed'[p] = TRUE /\ events'[p] = 1
    BY <1>3, <1>4 DEF MarkInactive
  <2> QED BY <1>2, <2>1 DEF MarkedOnce
<1>5. CASE RecordFailedTurn(p)
  <2>1. streak[p] + 1 \in Nat /\ streak[p] + 1 <= Threshold
    BY <1>3
  <2>2. ASSUME streak[p] + 1 < Threshold, streak' = [streak EXCEPT ![p] = @ + 1],
               UNCHANGED <<inactive, crashed, events>>
        PROVE  MarkedOnce(p)'
    <3>1. streak'[p] = streak[p] + 1
      BY <2>2
    <3> QED BY <1>2, <1>3, <2>2, <3>1 DEF MarkedOnce
  <2> QED BY <1>1, <1>4, <1>5, <2>1, <2>2 DEF RecordFailedTurn
<1>6. CASE RecordAnswer(p)
  <2>1. streak[p] \in Nat /\ streak[p] <= Threshold
    BY <1>3
  <2>2. ASSUME streak' = [streak EXCEPT ![p] = 0], UNCHANGED <<inactive, crashed, events>>
        PROVE  MarkedOnce(p)'
    <3>1. streak'[p] = 0
      BY <2>2
    <3> QED BY <1>2, <1>3, <2>2, <3>1 DEF MarkedOnce
  <2> QED BY <1>1, <1>4, <1>6, <2>1, <2>2 DEF RecordAnswer
<1> QED BY <1>5, <1>6 DEF Settle

\* Every step keeps it.
LEMMA MarksStep == MarksInv /\ [Next]_vars => MarksInv'
<1> SUFFICES ASSUME MarksInv, [Next]_vars PROVE MarksInv'
  OBVIOUS
<1> USE TurnConstants DEF MarksInv
<1>0. TypeOK'
  BY TypeStep
<1>1. CASE StartTurn
  BY <1>0, <1>1 DEF StartTurn, MarkedOnce, Settled
<1>2. CASE RunAgain
  BY <1>0, <1>2 DEF RunAgain, bots, MarkedOnce, Settled
<1>3. ASSUME NEW p \in Players, Deadline(p) PROVE MarksInv'
  BY <1>0, <1>3 DEF Deadline, bots, MarkedOnce, TypeOK
<1>4. ASSUME NEW p \in Players, Settle(p) PROVE MarksInv'
  BY <1>0, <1>4, SettleMarks
<1>5. ASSUME NEW p \in Players, CallStep(p) PROVE MarksInv'
  <2>1. UNCHANGED <<streak, inactive, events>>
    BY <1>5 DEF CallStep, GetMoves, CallFails, CallSucceeds
  <2>2. \A q \in Players : crashed[q] => crashed'[q]
    BY <1>5 DEF CallStep, GetMoves, CallFails, CallSucceeds, TypeOK
  <2>3. \A q \in Players : outcome'[q] # "settled" => outcome[q] # "settled"
    BY <1>5 DEF CallStep, GetMoves, CallFails, CallSucceeds, Return, TypeOK
  <2> QED BY <1>0, <2>1, <2>2, <2>3 DEF MarkedOnce
<1>6. CASE UNCHANGED vars
  BY <1>0, <1>6 DEF vars, MarkedOnce
<1> QED BY <1>1, <1>2, <1>3, <1>4, <1>5, <1>6 DEF Next

\* The invariant holds in every match, also with calls that begin late.
THEOREM MarksInvariant == Spec => []MarksInv
  BY MarksInit, MarksStep, PTL DEF Spec

\* A bot is marked inactive once per match, with one bot_inactive event, whichever
\* of recordFailedTurn and HTTPBot's own guard came first.
THEOREM MarkedInactiveOnce == Spec => []InactiveOnce
<1>1. MarksInv => InactiveOnce
  BY DEF MarksInv, MarkedOnce, InactiveOnce
<1> QED BY <1>1, MarksInvariant, PTL

\* An inactive bot is sent no request, not even by a call that was waiting to
\* begin: markInactive has set the flag GetMoves looks at first.
THEOREM InactiveBotsLeftAlone == Spec => InactiveNotAsked
<1>1. MarksInv /\ [Next]_vars => [\A p \in Players : inactive[p] => generation'[p] = generation[p]]_vars
  <2> SUFFICES ASSUME MarksInv, Next, NEW p \in Players, inactive[p]
               PROVE  generation'[p] = generation[p]
    BY DEF vars
  <2>1. crashed[p]
    BY DEF MarksInv, MarkedOnce
  <2>2. ASSUME NEW q \in Players, CallStep(q) PROVE generation'[p] = generation[p]
    BY <2>1, <2>2 DEF CallStep, GetMoves, CallFails, CallSucceeds, MarksInv, TypeOK
  <2>3. ASSUME NEW q \in Players, Deadline(q) \/ Settle(q) PROVE generation'[p] = generation[p]
    BY <2>3 DEF Deadline, Settle, bots
  <2>4. CASE StartTurn \/ RunAgain
    BY <2>4 DEF StartTurn, RunAgain, bots
  <2> QED BY <2>2, <2>3, <2>4 DEF Next
<1> QED BY <1>1, MarksInvariant, PTL DEF Spec, InactiveNotAsked

-----------------------------------------------------------------------------
(* The debug telemetry, again in one match whose calls begin in time *)

\* Once this turn's request is sent, the call the bot listens to is this turn's,
\* and the telemetry of earlier turns is gone.
Telemetry(p) ==
  ~ inactive[p] /\ ~ Fresh(p) =>
    /\ lastDebug[p] \in {0, turn}
    /\ \A c \in calls[p] : c.gen = generation[p] /\ c.gen # 0 => c.turn = turn

\* The steps of a call keep it.
LEMMA CallKeepsTelemetry ==
  ASSUME TurnInv, NEW p \in Players, Telemetry(p), NEW c \in calls[p],
         \/ GetMoves(p, c) \/ CallFails(p, c)
         \/ \E debug \in BOOLEAN : CallSucceeds(p, c, debug)
  PROVE  Telemetry(p)'
<1> USE TurnConstants DEF TurnInv, TypeOK
<1> SUFFICES ASSUME ~ inactive'[p], ~ Fresh(p)'
             PROVE  /\ lastDebug'[p] \in {0, turn'}
                    /\ \A d \in calls'[p] : d.gen = generation'[p] /\ d.gen # 0 => d.turn = turn'
  BY DEF Telemetry
<1>0. ~ inactive[p] /\ turn' = turn
  BY DEF GetMoves, CallFails, CallSucceeds
<1>1. CASE GetMoves(p, c)
  <2>1. c.gen = 0 /\ c.turn = turn /\ outcome[p] = "waiting" /\ Fresh(p)
    BY <1>1 DEF GetMoves, CallsInv, Fresh
  <2>2. ~ crashed[p]
    <3>1. missed[p] < Threshold
      BY <1>0 DEF CountInv
    <3>2. failCount[p] <= missed[p]
      BY <2>1 DEF CountInv, Due
    <3> QED BY <1>0, <3>1, <3>2 DEF CountInv
  <2>3. /\ generation'[p] = generation[p] + 1 /\ lastDebug'[p] = 0
        /\ calls'[p] = (calls[p] \ {c}) \union {[turn |-> c.turn, gen |-> generation[p] + 1]}
    BY <1>1, <2>2 DEF GetMoves
  <2>4. \A d \in calls[p] : d.gen # generation[p] + 1
    BY DEF CallsInv
  <2> QED BY <1>0, <2>1, <2>3, <2>4
<1>2. CASE CallFails(p, c) \/ \E debug \in BOOLEAN : CallSucceeds(p, c, debug)
  <2>1. /\ c.gen # 0 /\ calls'[p] = calls[p] \ {c} /\ generation' = generation
        /\ lastDebug'[p] = lastDebug[p] \/ (Current(p, c) /\ lastDebug'[p] = c.turn)
    BY <1>2 DEF CallFails, CallSucceeds
  <2>2. ~ Fresh(p)
    BY <2>1 DEF Fresh
  <2> QED BY <1>0, <2>1, <2>2 DEF Telemetry, Current
<1> QED BY <1>1, <1>2

\* Every step of a match keeps it.
LEMMA TelemetryStep ==
  ASSUME ~ LateStart, MaxMatches = 1, TurnInv, \A p \in Players : Telemetry(p), [Next]_vars
  PROVE  \A p \in Players : Telemetry(p)'
<1> TAKE p \in Players
<1> USE TurnConstants DEF TurnInv, TypeOK
<1>1. CASE StartTurn
  <2>1. CASE inactive[p]
    BY <1>1, <2>1 DEF StartTurn, Telemetry
  <2>2. CASE ~ inactive[p]
    <3>1. [turn |-> turn + 1, gen |-> 0] \in calls'[p]
      BY <1>1, <2>2 DEF StartTurn
    <3>2. Fresh(p)'
      BY <3>1 DEF Fresh
    <3> QED BY <3>2 DEF Telemetry
  <2> QED BY <2>1, <2>2
<1>2. CASE RunAgain
  BY <1>2 DEF RunAgain
<1>3. ASSUME NEW q \in Players, Deadline(q) PROVE Telemetry(p)'
  BY <1>3 DEF Deadline, bots, Telemetry, Fresh
<1>4. ASSUME NEW q \in Players, Settle(q) PROVE Telemetry(p)'
  <2>1. UNCHANGED <<turn, generation, lastDebug, calls>>
    BY <1>4 DEF Settle
  <2>2. ~ inactive'[p] => ~ inactive[p]
    BY <1>4 DEF Settle, RecordFailedTurn, RecordAnswer, MarkInactive
  <2> QED BY <2>1, <2>2 DEF Telemetry, Fresh
<1>5. ASSUME NEW q \in Players, CallStep(q) PROVE Telemetry(p)'
  <2>1. CASE q = p
    BY <1>5, <2>1, CallKeepsTelemetry DEF CallStep
  <2>2. CASE q # p
    <3>1. /\ turn' = turn /\ inactive' = inactive /\ generation'[p] = generation[p]
          /\ lastDebug'[p] = lastDebug[p] /\ calls'[p] = calls[p]
      BY <1>5, <2>2 DEF CallStep, GetMoves, CallFails, CallSucceeds
    <3> QED BY <3>1 DEF Telemetry, Fresh
  <2> QED BY <2>1, <2>2
<1>6. CASE UNCHANGED vars
  BY <1>6 DEF vars, Telemetry, Fresh
<1> QED BY <1>1, <1>2, <1>3, <1>4, <1>5, <1>6 DEF Next

\* The debug telemetry recorded with a turn is that turn's or none, however late
\* the answers of earlier turns come in (GetMoves clears lastDebug, recordSuccess
\* ignores an older generation).
THEOREM DebugIsOfThisTurn ==
  ASSUME ~ LateStart, MaxMatches = 1 PROVE Spec => []DebugOfThisTurn
<1> DEFINE AllTelemetry == \A p \in Players : Telemetry(p)
<1>1. Init => AllTelemetry
  BY DEF Init, Telemetry
<1>2. TurnInv /\ AllTelemetry /\ [Next]_vars => AllTelemetry'
  BY TelemetryStep
<1>3. TurnInv /\ AllTelemetry => DebugOfThisTurn
  BY DEF TurnInv, CallsInv, Telemetry, DebugOfThisTurn, Settled, Fresh
<1> QED BY <1>1, <1>2, <1>3, PolicyInvariant, PTL DEF Spec

=============================================================================
