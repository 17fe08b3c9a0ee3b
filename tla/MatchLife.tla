----------------------------- MODULE MatchLife -----------------------------
(***************************************************************************)
(* What the platform promises about its matches, whoever plays them and    *)
(* however often: a match is posted once, predictions on it close once, it *)
(* is given up or decided, and a verdict may be replaced by that of        *)
(* another execution but never withdrawn.  JobQueue implements this.       *)
(***************************************************************************)
CONSTANTS
  Matches,
  Verdicts,
  NoVerdict

VARIABLES
  phase,    \* none, open (to be played), closed (given up), decided
  verdict,  \* how it was decided
  bets      \* matches that take predictions

lifeVars == <<phase, verdict, bets>>

LifeInit ==
  /\ phase = [m \in Matches |-> "none"]
  /\ verdict = [m \in Matches |-> NoVerdict]
  /\ bets = {}

\* The given ones of the open matches are closed.
Closed(p, given) ==
  [m \in Matches |-> IF m \in given /\ p[m] = "open" THEN "closed" ELSE p[m]]

Post(ms) ==
  /\ \A m \in ms : phase[m] = "none"
  /\ phase' = [m \in Matches |-> IF m \in ms THEN "open" ELSE phase[m]]
  /\ bets' = bets \union ms
  /\ UNCHANGED verdict

CloseBets(ms) ==
  /\ bets' = bets \ ms
  /\ UNCHANGED <<phase, verdict>>

\* Open matches are given up, while they wait or after predictions closed.
GiveUp(ms) ==
  /\ phase' = Closed(phase, ms)
  /\ UNCHANGED <<verdict, bets>>

\* A match is decided, for the first time or again, after predictions on it have
\* closed; others may be given up and closed to predictions with it.
Decide(m, v, given, shut) ==
  /\ phase[m] # "none" /\ m \notin bets
  /\ phase' = Closed([phase EXCEPT ![m] = "decided"], given)
  /\ verdict' = [verdict EXCEPT ![m] = v]
  /\ bets' = bets \ shut

LifeNext ==
  \/ \E ms \in SUBSET Matches : Post(ms) \/ CloseBets(ms) \/ GiveUp(ms)
  \/ \E m \in Matches, v \in Verdicts, given, shut \in SUBSET Matches :
       Decide(m, v, given, shut)

LifeSpec == LifeInit /\ [][LifeNext]_lifeVars

=============================================================================
