----------------------------- MODULE Championship -----------------------------
(***************************************************************************)
(* Seasons and their championship brackets                                 *)
(* (cmd/acb-matchmaker/series_season.go): the season-reset ticker closes a *)
(* season, seeds eight bots into four quarterfinals and starts the next    *)
(* season; the series scheduler, a ticker of its own, turns finished       *)
(* rounds into semifinals and a final.  How a single series is played is   *)
(* in SeriesPlay; here it ends with a winner, without one, or never.       *)
(***************************************************************************)
EXTENDS Integers, Sequences, FiniteSets

CONSTANTS
  MaxSeasons,        \* bound: seasons
  MaxUpsets,         \* bound: series won by bot_b
  MaxBracketFaults   \* bound: failed statements, crashes, series without winner

ASSUME ChampionshipConstants == {MaxSeasons, MaxUpsets, MaxBracketFaults} \subseteq Nat

VARIABLES
  current,   \* the season with status 'active', 0 when there is none
  begun,     \* seasons begun so far
  closing,   \* createChampionshipBracket: [season, next], or NoBracket
  series,    \* bracket series: set of [season, round, pos, a, b, winner, games]
  sevens,    \* seasons with a best-of-7 series made by autoCreateSeries
  upsets,    \* series won by bot_b
  blows      \* faults so far

bracketVars == <<current, begun, closing, series, sevens, upsets, blows>>

NoBracket == [season |-> 0]
Seeds == 1..8
Unfinished == 0   \* winner_id IS NULL, status 'active'
NoWinner == 9     \* winner_id IS NULL, status 'completed' or 'abandoned'

BracketInit ==
  /\ current = 1 /\ begun = 1 /\ closing = NoBracket /\ series = {}
  /\ sevens = {} /\ upsets = 0 /\ blows = 0

Blow == blows < MaxBracketFaults /\ blows' = blows + 1

Of(s, round) == {x \in series : x.season = s /\ x.round = round}
At(s, round, p) == {x \in Of(s, round) : x.pos = p}

\* Mutant: only a series won by bot_a is seen as decided.
DecidedForA(x) == x.winner = x.a

\* status = 'completed' AND winner_id IS NOT NULL
Decided(x) == x.winner \in Seeds

\* A series row and, in a transaction of its own, its games.  The row may not
\* be inserted, or be left without games; the callers only log either error.
InsertSeries(s, round, p, a, b) ==
  LET new(g) == [season |-> s, round |-> round, pos |-> p, a |-> a, b |-> b,
                 winner |-> Unfinished, games |-> g]
  IN \/ series' = series \cup {new(TRUE)} /\ UNCHANGED blows
     \/ Blow /\ series' = series \cup {new(FALSE)}
     \/ Blow /\ series' = series

(***************************************************************************)
(* The season-reset ticker.                                                *)
(***************************************************************************)

\* autoCreateSeries gives close bots a best-of-7 of the running season.
AutoCreateSeven ==
  /\ current # 0 /\ sevens' = sevens \cup {current}
  /\ UNCHANGED <<current, begun, closing, series, upsets, blows>>

\* The transaction of processSeasonEnd, then the first two queries of
\* createChampionshipBracket: any best-of-7 series of the season counts as the
\* bracket, and fewer than eight active bots make none.
ProcessSeasonEnd ==
  /\ current # 0 /\ closing = NoBracket
  /\ closing' = IF current \in sevens \/ \E x \in series : x.season = current
                THEN NoBracket ELSE [season |-> current, next |-> 0]
  /\ current' = 0
  /\ UNCHANGED <<begun, series, sevens, upsets, blows>>

TooFewBots ==
  /\ closing # NoBracket /\ closing.next = 0 /\ Blow /\ closing' = NoBracket
  /\ UNCHANGED <<current, begun, series, sevens, upsets>>

\* Quarterfinal p: 1 v 8, 4 v 5, 3 v 6, 2 v 7.
Matchup(p) == <<<<1, 8>>, <<4, 5>>, <<3, 6>>, <<2, 7>>>>[p + 1]

CreateQuarterfinal ==
  LET p == closing.next IN
  /\ closing # NoBracket
  /\ InsertSeries(closing.season, "quarterfinal", p, Matchup(p)[1], Matchup(p)[2])
  /\ closing' = IF p = 3 THEN NoBracket ELSE [closing EXCEPT !.next = p + 1]
  /\ UNCHANGED <<current, begun, sevens, upsets>>

\* autoStartSeason, at the end of a tick, when no season is active.
AutoStartSeason ==
  /\ current = 0 /\ closing = NoBracket /\ begun < MaxSeasons
  /\ current' = begun + 1 /\ begun' = begun + 1
  /\ UNCHANGED <<closing, series, sevens, upsets, blows>>

\* The matchmaker stops while it creates the bracket; the season is closed
\* already and nothing comes back to it.
StopWhileSeeding ==
  /\ closing # NoBracket /\ Blow /\ closing' = NoBracket
  /\ UNCHANGED <<current, begun, series, sevens, upsets>>

(***************************************************************************)
(* The series themselves, and the scheduler that builds the next round.    *)
(***************************************************************************)
Won(x, b) == series' = (series \ {x}) \cup {[x EXCEPT !.winner = b]}

SeriesEnds(x) ==
  /\ x.winner = Unfinished /\ x.games
  /\ \/ Won(x, x.a) /\ UNCHANGED <<upsets, blows>>
     \/ upsets < MaxUpsets /\ upsets' = upsets + 1 /\ Won(x, x.b) /\ UNCHANGED blows
     \/ Blow /\ Won(x, NoWinner) /\ UNCHANGED upsets
  /\ UNCHANGED <<current, begun, closing, sevens>>

\* Mutant: a semifinal is made from any two decided quarterfinals of its half
\* of the bracket, whatever their season.
FeedersAnySeason(s, p) == {x \in series : x.round = "quarterfinal" /\ Decided(x) /\ x.pos \div 2 = p}

\* The decided quarterfinals of half p that have no semifinal yet.
Feeders(s, p) == {x \in Of(s, "quarterfinal") : Decided(x) /\ x.pos \div 2 = p}

\* First part of advanceChampionshipBracket: winners in the order of position.
AdvanceToSemifinal(s, p) ==
  /\ At(s, "semifinal", p) = {}
  /\ \E x, y \in Feeders(s, p) : /\ x.pos < y.pos
                                 /\ InsertSeries(s, "semifinal", p, x.winner, y.winner)
  /\ UNCHANGED <<current, begun, closing, sevens, upsets>>

SameSeason(x, y) == x.season = y.season

\* Second part: of all decided semifinals of seasons without a final, ordered by
\* position alone, only the first two are looked at.
AdvanceToFinal ==
  LET ready == {x \in series : x.round = "semifinal" /\ Decided(x) /\ Of(x.season, "final") = {}}
      first(c) == {x \in c : \A y \in c : x.pos <= y.pos}
  IN /\ \E x \in first(ready) : \E y \in first(ready \ {x}) :
          SameSeason(x, y) /\ InsertSeries(x.season, "final", 0, x.winner, y.winner)
     /\ UNCHANGED <<current, begun, closing, sevens, upsets>>

Advance == \/ \E s \in 1..begun, p \in 0..1 : AdvanceToSemifinal(s, p)
           \/ AdvanceToFinal

BracketNext ==
  \/ AutoCreateSeven \/ ProcessSeasonEnd \/ TooFewBots \/ CreateQuarterfinal
  \/ AutoStartSeason \/ StopWhileSeeding
  \/ \E x \in series : SeriesEnds(x)
  \/ Advance

BracketSpec == BracketInit /\ [][BracketNext]_bracketVars

(***************************************************************************)
(* Properties.                                                             *)
(***************************************************************************)

\* A bracket is a tree: one series per place of a season, and whoever plays a
\* semifinal or the final has won the two series that lead to it; the two best
\* seeds cannot meet before the final.
BracketIsTree ==
  /\ \A x, y \in series : x.season = y.season /\ x.round = y.round /\ x.pos = y.pos => x = y
  /\ \A x \in series :
       LET feeders == CASE x.round = "semifinal" ->
                             {y \in Of(x.season, "quarterfinal") : y.pos \div 2 = x.pos}
                        [] x.round = "final" -> Of(x.season, "semifinal")
                        [] OTHER -> {}
       IN x.round # "quarterfinal" => {x.a, x.b} = {y.winner : y \in feeders}
  /\ \A x \in series : {x.a, x.b} = {1, 2} => x.round = "final"

\* What can keep a drawn bracket from its final: a series that is still played
\* (it may be for ever, see SeriesPlay), is missing or has no winner, or another
\* season's semifinal that waits for its neighbour, ahead of this season's.
Hindered(s) ==
  \/ Cardinality(Of(s, "quarterfinal")) < 4
  \/ \E x \in series : x.season = s /\ x.winner \notin Seeds
  \/ \E x \in series : /\ x.season # s /\ x.round = "semifinal" /\ x.winner \in Seeds
                      /\ Of(x.season, "final") = {}

\* A season whose quarterfinals were drawn gets its final, unless from some time
\* on one of these obstacles is always there: the scheduler itself loses no
\* bracket, in whatever order the series of two seasons end and whichever
\* statement fails (advanceChampionshipBracket).
ChampionshipsFinish ==
  \A s \in 1..MaxSeasons :
    \/ Of(s, "quarterfinal") # {} ~> Of(s, "final") # {}
    \/ <>[]Hindered(s)
=============================================================================
