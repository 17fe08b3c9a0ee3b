-------------------------- MODULE CompetitionProofs --------------------------
(***************************************************************************)
(* Proofs about who plays whom and how the built-in bots play: a           *)
(* championship bracket is a tree, for any number of seasons, upsets and   *)
(* faults, and whether or not brackets overlap (Championship); the pairing *)
(* tick passes nobody over for ever, for any number of bots, formats and   *)
(* maps (Matchmaking); no bot is in two featured series of a Friday, for   *)
(* any ladder and match history (Featured); and the bots that claim tiles  *)
(* never order two units onto one (Strategies and BrowserBots).            *)
(***************************************************************************)
EXTENDS Championship, Matchmaking, Featured, BrowserBots, FiniteSetTheorems, SequenceTheorems,
        WellFoundedInduction, TLAPS

Rounds == {"quarterfinal", "semifinal", "final"}
SeriesRows == [season : Nat, round : Rounds, pos : 0..3, a : Seeds, b : Seeds,
               winner : 0..9, games : BOOLEAN]

\* The seeds of each half of the bracket.
Half(p) == IF p = 0 THEN {1, 8, 4, 5} ELSE {3, 6, 2, 7}

BracketTypeOK ==
  /\ begun \in Nat \ {0} /\ current \in {0, begun}
  /\ \/ closing = NoBracket
     \/ closing \in [season : {begun}, next : 0..3] /\ current = 0
  /\ series \subseteq SeriesRows

\* A season has no series while it runs, and while its bracket is drawn only
\* the quarterfinals before the next one.
SeasonsInOrder ==
  \A x \in series :
    /\ x.season \in 1..begun
    /\ current # 0 => x.season # current
    /\ closing # NoBracket /\ x.season = closing.season /\ x.round = "quarterfinal" => x.pos < closing.next

\* One series per place of a season.
PlacesAreUnique ==
  \A x, y \in series : x.season = y.season /\ x.round = y.round /\ x.pos = y.pos => x = y

\* Who can play where, and who can win.
PlayersFit ==
  \A x \in series :
    /\ x.round = "quarterfinal" => x.a = Matchup(x.pos)[1] /\ x.b = Matchup(x.pos)[2]
    /\ x.round = "semifinal" => x.pos \in 0..1 /\ x.a \in Half(x.pos) /\ x.b \in Half(x.pos)
    /\ x.round = "final" => x.pos = 0
    /\ Decided(x) => x.winner \in {x.a, x.b}

\* y and z are the decided series of the round before, at places p and p + 1, whose
\* winners play x.
FedBy(x, round, p, y, z) ==
  /\ y.season = x.season /\ y.round = round /\ y.pos = p /\ Decided(y) /\ x.a = y.winner
  /\ z.season = x.season /\ z.round = round /\ z.pos = p + 1 /\ Decided(z) /\ x.b = z.winner

Fed(x) ==
  /\ x.round = "semifinal" => \E y, z \in series : FedBy(x, "quarterfinal", 2 * x.pos, y, z)
  /\ x.round = "final" => \E y, z \in series : FedBy(x, "semifinal", 0, y, z)

\* The inductive invariant of the brackets.
BracketInv ==
  /\ BracketTypeOK
  /\ SeasonsInOrder
  /\ PlacesAreUnique
  /\ PlayersFit
  /\ \A x \in series : Fed(x)

\* The first season runs and no series is drawn.
LEMMA BracketBegins == BracketInit => BracketInv
  BY DEF BracketInit, BracketInv, BracketTypeOK, SeasonsInOrder, PlacesAreUnique, PlayersFit, NoBracket

\* The pairs of the quarterfinals are seeds of their half of the bracket.
LEMMA MatchupsSplit ==
  \A p \in 0..3 : /\ Matchup(p)[1] \in Half(p \div 2) /\ Matchup(p)[2] \in Half(p \div 2)
                  /\ Matchup(p)[1] \in Seeds /\ Matchup(p)[2] \in Seeds
  BY DEF Matchup, Half, Seeds

\* The invariant makes every bracket a tree.
LEMMA TreeFromInvariant == BracketInv => BracketIsTree
<1> SUFFICES ASSUME BracketInv PROVE BracketIsTree
  OBVIOUS
<1>1. \A x \in series : x \in SeriesRows /\ Fed(x)
  BY DEF BracketInv, BracketTypeOK
<1>2. ASSUME NEW x \in series, x.round = "semifinal"
      PROVE  {x.a, x.b} = {y.winner : y \in {q \in Of(x.season, "quarterfinal") : q.pos \div 2 = x.pos}}
  <2>1. PICK y \in series, z \in series : FedBy(x, "quarterfinal", 2 * x.pos, y, z)
    BY <1>1, <1>2 DEF Fed
  <2>2. x.pos \in 0..1
    BY <1>2 DEF BracketInv, PlayersFit
  <2>3. y.pos \div 2 = x.pos /\ z.pos \div 2 = x.pos
    BY <2>1, <2>2 DEF FedBy
  <2>4. ASSUME NEW q \in series, q.season = x.season, q.round = "quarterfinal", q.pos \div 2 = x.pos
        PROVE  q = y \/ q = z
    <3>1. q.pos \in 0..3
      BY <1>1 DEF SeriesRows
    <3>2. q.pos = 2 * x.pos \/ q.pos = 2 * x.pos + 1
      BY <2>2, <2>4, <3>1
    <3> QED BY <2>1, <2>4, <3>2 DEF FedBy, BracketInv, PlacesAreUnique
  <2>5. {q \in Of(x.season, "quarterfinal") : q.pos \div 2 = x.pos} = {y, z}
    BY <2>1, <2>3, <2>4 DEF Of, FedBy
  <2> QED BY <2>1, <2>5 DEF FedBy
<1>3. ASSUME NEW x \in series, x.round = "final"
      PROVE  {x.a, x.b} = {y.winner : y \in Of(x.season, "semifinal")}
  <2>1. PICK y \in series, z \in series : FedBy(x, "semifinal", 0, y, z)
    BY <1>1, <1>3 DEF Fed
  <2>2. ASSUME NEW q \in series, q.season = x.season, q.round = "semifinal"
        PROVE  q = y \/ q = z
    <3>1. q.pos = 0 \/ q.pos = 1
      BY <2>2 DEF BracketInv, PlayersFit
    <3> QED BY <2>1, <2>2, <3>1 DEF FedBy, BracketInv, PlacesAreUnique
  <2>3. Of(x.season, "semifinal") = {y, z}
    BY <2>1, <2>2 DEF Of, FedBy
  <2> QED BY <2>1, <2>3 DEF FedBy
<1>4. ASSUME NEW x \in series, {x.a, x.b} = {1, 2} PROVE x.round = "final"
  <2>1. x.round \in Rounds /\ x.pos \in 0..3
    BY <1>1 DEF SeriesRows
  <2>2. x.round # "quarterfinal"
    BY <1>4, <2>1 DEF BracketInv, PlayersFit, Matchup
  <2>3. x.round # "semifinal"
    BY <1>4 DEF BracketInv, PlayersFit, Half
  <2> QED BY <2>1, <2>2, <2>3 DEF Rounds
<1>5. PlacesAreUnique
  BY DEF BracketInv
<1>6. \A x \in series : x.round \in Rounds
  BY <1>1 DEF SeriesRows
<1> QED BY <1>2, <1>3, <1>4, <1>5, <1>6 DEF BracketIsTree, PlacesAreUnique, Rounds

\* The part of the invariant that is about the series alone.
SeriesInv == series \subseteq SeriesRows /\ PlacesAreUnique /\ PlayersFit /\ \A x \in series : Fed(x)

\* Drawing a series at a free place, for players who fit it and won their way
\* to it, keeps that part, whether the insertion succeeds, loses its games or fails.
LEMMA DrawKeepsSeries ==
  ASSUME SeriesInv,
         NEW s \in Nat, NEW round \in Rounds, NEW p \in 0..3, NEW a \in Seeds, NEW b \in Seeds,
         InsertSeries(s, round, p, a, b),
         \A x \in series : ~(x.season = s /\ x.round = round /\ x.pos = p),
         round = "quarterfinal" => a = Matchup(p)[1] /\ b = Matchup(p)[2],
         round = "semifinal" => p \in 0..1 /\ a \in Half(p) /\ b \in Half(p),
         round = "final" => p = 0,
         NEW before, NEW q,
         round = "semifinal" => before = "quarterfinal" /\ q = 2 * p,
         round = "final" => before = "semifinal" /\ q = 0,
         round # "quarterfinal" =>
           \E y, z \in series :
             /\ y.season = s /\ y.round = before /\ y.pos = q /\ Decided(y) /\ a = y.winner
             /\ z.season = s /\ z.round = before /\ z.pos = q + 1 /\ Decided(z) /\ b = z.winner
  PROVE  /\ SeriesInv'
         /\ \A x \in series' : x \in series \/ (x.season = s /\ x.round = round /\ x.pos = p)
<1> USE DEF SeriesInv
<1>1. CASE series' = series
  BY <1>1 DEF PlacesAreUnique, PlayersFit, Fed
<1>2. ASSUME NEW g \in BOOLEAN, NEW n,
             n = [season |-> s, round |-> round, pos |-> p, a |-> a, b |-> b,
                  winner |-> Unfinished, games |-> g],
             series' = series \cup {n}
      PROVE  /\ SeriesInv'
             /\ \A x \in series' : x \in series \/ (x.season = s /\ x.round = round /\ x.pos = p)
  <2>1. /\ n \in SeriesRows /\ n.season = s /\ n.round = round /\ n.pos = p /\ n.a = a /\ n.b = b
        /\ ~Decided(n)
    BY <1>2 DEF SeriesRows, Unfinished, Decided, Seeds
  <2>2. PlacesAreUnique'
    BY <1>2, <2>1 DEF PlacesAreUnique
  <2>3. PlayersFit'
    BY <1>2, <2>1 DEF PlayersFit
  <2>4. ASSUME NEW x \in series PROVE Fed(x)'
    <3>1. Fed(x) /\ series \subseteq series'
      BY <1>2
    <3> QED BY <3>1 DEF Fed
  <2>5. Fed(n)'
    <3>1. CASE round = "quarterfinal"
      BY <2>1, <3>1 DEF Fed
    <3>2. CASE round = "semifinal"
      <4>1. PICK y \in series, z \in series : FedBy(n, "quarterfinal", 2 * n.pos, y, z)
        BY <2>1, <3>2 DEF FedBy
      <4>2. y \in series' /\ z \in series'
        BY <1>2
      <4> QED BY <2>1, <3>2, <4>1, <4>2 DEF Fed
    <3>3. CASE round = "final"
      <4>1. PICK y \in series, z \in series : FedBy(n, "semifinal", 0, y, z)
        BY <2>1, <3>3 DEF FedBy
      <4>2. y \in series' /\ z \in series'
        BY <1>2
      <4> QED BY <2>1, <3>3, <4>1, <4>2 DEF Fed
    <3> QED BY <3>1, <3>2, <3>3 DEF Rounds
  <2>6. \A x \in series' : Fed(x)'
    BY <1>2, <2>4, <2>5
  <2> QED BY <1>2, <2>1, <2>2, <2>3, <2>6
<1> QED BY <1>1, <1>2 DEF InsertSeries

\* The end of a series gives it a winner among its players or none, once.
LEMMA EndKeepsSeries ==
  ASSUME SeriesInv, NEW x \in series, SeriesEnds(x)
  PROVE  /\ SeriesInv'
         /\ \A y \in series' : \E o \in series : y.season = o.season /\ y.round = o.round /\ y.pos = o.pos
<1> USE DEF SeriesInv
<1>1. PICK b \in {x.a, x.b, NoWinner} : series' = (series \ {x}) \cup {[x EXCEPT !.winner = b]}
  BY DEF SeriesEnds, Won
<1>2. PICK n : n = [x EXCEPT !.winner = b]
  OBVIOUS
<1>3. x \in SeriesRows /\ ~Decided(x)
  BY DEF SeriesEnds, Decided, Unfinished, Seeds
<1>4. b \in 0..9
  BY <1>3 DEF SeriesRows, Seeds, NoWinner
<1>5. /\ n.season = x.season /\ n.round = x.round /\ n.pos = x.pos /\ n.a = x.a /\ n.b = x.b
      /\ n.winner = b
  BY <1>2, <1>3 DEF SeriesRows
<1>6. n \in SeriesRows
  BY <1>2, <1>3, <1>4 DEF SeriesRows
<1>7. series' = (series \ {x}) \cup {n}
  BY <1>1, <1>2
<1>8. PlacesAreUnique'
  BY <1>5, <1>7 DEF PlacesAreUnique
<1>9. PlayersFit'
  <2>1. Decided(n) => n.winner \in {n.a, n.b}
    BY <1>5 DEF Decided, NoWinner, Seeds
  <2> QED BY <1>5, <1>7, <2>1 DEF PlayersFit
<1>10. ASSUME NEW y \in series' PROVE Fed(y)'
  <2>1. PICK o \in series : /\ o.season = y.season /\ o.round = y.round /\ o.pos = y.pos
                            /\ o.a = y.a /\ o.b = y.b
    BY <1>5, <1>7
  <2>2. Fed(o)
    OBVIOUS
  <2>3. ASSUME y.round = "semifinal"
        PROVE  \E u, v \in series' : FedBy(y, "quarterfinal", 2 * y.pos, u, v)
    <3>1. PICK u \in series, v \in series : FedBy(o, "quarterfinal", 2 * o.pos, u, v)
      BY <2>1, <2>2, <2>3 DEF Fed
    <3>2. u \in series' /\ v \in series'
      BY <1>3, <1>7, <3>1 DEF FedBy
    <3> QED BY <2>1, <3>1, <3>2 DEF FedBy
  <2>4. ASSUME y.round = "final"
        PROVE  \E u, v \in series' : FedBy(y, "semifinal", 0, u, v)
    <3>1. PICK u \in series, v \in series : FedBy(o, "semifinal", 0, u, v)
      BY <2>1, <2>2, <2>4 DEF Fed
    <3>2. u \in series' /\ v \in series'
      BY <1>3, <1>7, <3>1 DEF FedBy
    <3> QED BY <2>1, <3>1, <3>2 DEF FedBy
  <2> QED BY <2>3, <2>4 DEF Fed
<1>11. series' \subseteq SeriesRows
  BY <1>6, <1>7
<1> QED BY <1>5, <1>7, <1>8, <1>9, <1>10, <1>11

\* The season-reset ticker's steps that draw nothing.
LEMMA TickKeepsBracket ==
  ASSUME BracketInv,
         AutoCreateSeven \/ ProcessSeasonEnd \/ TooFewBots \/ AutoStartSeason \/ StopWhileSeeding
  PROVE  BracketInv'
<1>1. series' = series
  BY DEF AutoCreateSeven, ProcessSeasonEnd, TooFewBots, AutoStartSeason, StopWhileSeeding
<1>2. (series \subseteq SeriesRows /\ PlacesAreUnique /\ PlayersFit /\ \A x \in series : Fed(x))'
  BY <1>1 DEF BracketInv, BracketTypeOK, PlacesAreUnique, PlayersFit, Fed
<1>3. \A x \in series : x.season \in 1..begun /\ x.season \in Nat
  BY DEF BracketInv, SeasonsInOrder
<1>4. BracketTypeOK' /\ SeasonsInOrder'
  <2>1. CASE AutoCreateSeven
    BY <1>1, <2>1 DEF AutoCreateSeven, BracketInv, BracketTypeOK, SeasonsInOrder
  <2>2. CASE ProcessSeasonEnd
    <3>1. /\ current # 0 /\ current = begun /\ current' = 0 /\ begun' = begun
          /\ closing' = NoBracket \/ closing' = [season |-> begun, next |-> 0]
      BY <2>2 DEF ProcessSeasonEnd, BracketInv, BracketTypeOK
    <3>2. BracketTypeOK'
      BY <1>1, <3>1 DEF BracketInv, BracketTypeOK
    <3>3. \A x \in series : x.season # begun
      BY <3>1 DEF BracketInv, SeasonsInOrder
    <3> QED BY <1>1, <1>3, <3>1, <3>2, <3>3 DEF SeasonsInOrder
  <2>3. CASE TooFewBots \/ StopWhileSeeding
    BY <1>1, <2>3 DEF TooFewBots, StopWhileSeeding, BracketInv, BracketTypeOK, SeasonsInOrder
  <2>4. CASE AutoStartSeason
    <3>1. /\ closing' = NoBracket /\ begun' = begun + 1 /\ current' = begun + 1 /\ begun \in Nat
      BY <2>4 DEF AutoStartSeason, BracketInv, BracketTypeOK
    <3>2. BracketTypeOK'
      BY <1>1, <3>1 DEF BracketInv, BracketTypeOK
    <3> QED BY <1>1, <1>3, <3>1, <3>2 DEF SeasonsInOrder
  <2> QED BY <2>1, <2>2, <2>3, <2>4
<1> QED BY <1>2, <1>4 DEF BracketInv

\* Drawing the next quarterfinal.
LEMMA QuarterfinalKeepsBracket ==
  ASSUME BracketInv, CreateQuarterfinal
  PROVE  BracketInv'
<1>1. PICK p \in 0..3 : p = closing.next
  BY DEF CreateQuarterfinal, BracketInv, BracketTypeOK
<1>2. /\ closing # NoBracket /\ closing.season = begun /\ begun \in Nat /\ current = 0
      /\ closing \in [season : {begun}, next : 0..3]
      /\ InsertSeries(begun, "quarterfinal", p, Matchup(p)[1], Matchup(p)[2])
      /\ closing' = IF p = 3 THEN NoBracket ELSE [closing EXCEPT !.next = p + 1]
      /\ UNCHANGED <<current, begun>>
  BY <1>1 DEF CreateQuarterfinal, BracketInv, BracketTypeOK
<1>3. \A x \in series : ~(x.season = begun /\ x.round = "quarterfinal" /\ x.pos = p)
  BY <1>1, <1>2 DEF BracketInv, SeasonsInOrder
<1>4. SeriesInv /\ Matchup(p)[1] \in Seeds /\ Matchup(p)[2] \in Seeds
  BY MatchupsSplit DEF SeriesInv, BracketInv, BracketTypeOK
<1>5. /\ SeriesInv'
      /\ \A x \in series' : x \in series \/ (x.season = begun /\ x.round = "quarterfinal" /\ x.pos = p)
  BY <1>2, <1>3, <1>4, DrawKeepsSeries DEF Rounds
<1>6. closing' = NoBracket \/ (closing' \in [season : {begun}, next : 0..3] /\ closing'.next = p + 1)
  BY <1>2
<1>7. BracketTypeOK'
  BY <1>2, <1>5, <1>6 DEF BracketInv, BracketTypeOK, SeriesInv
<1>8. SeasonsInOrder'
  <2> SUFFICES ASSUME NEW x \in series'
               PROVE  /\ x.season \in 1..begun
                      /\ closing' # NoBracket /\ x.season = closing'.season /\ x.round = "quarterfinal"
                           => x.pos < closing'.next
    BY <1>2 DEF SeasonsInOrder
  <2>1. CASE x \in series
    <3>1. x.season \in 1..begun
      BY <2>1 DEF BracketInv, SeasonsInOrder
    <3>2. x.season = begun /\ x.round = "quarterfinal" => x.pos < p /\ x.pos \in 0..3
      BY <1>1, <1>2, <1>4, <2>1 DEF BracketInv, SeasonsInOrder, SeriesInv, SeriesRows
    <3> QED BY <1>6, <3>1, <3>2
  <2>2. CASE x.season = begun /\ x.round = "quarterfinal" /\ x.pos = p
    <3>1. begun >= 1
      BY DEF BracketInv, BracketTypeOK
    <3> QED BY <1>2, <1>6, <2>2, <3>1
  <2> QED BY <1>5, <2>1, <2>2
<1> QED BY <1>5, <1>7, <1>8 DEF BracketInv, SeriesInv

\* A later round is drawn from the decided series of the one before.
LEMMA AdvanceKeepsBracket ==
  ASSUME BracketInv, Advance
  PROVE  BracketInv'
<1>0. UNCHANGED <<current, begun, closing>> /\ begun \in Nat
  BY DEF Advance, AdvanceToSemifinal, AdvanceToFinal, BracketInv, BracketTypeOK
<1>1. SeriesInv /\ \A x \in series : x \in SeriesRows
  BY DEF SeriesInv, BracketInv, BracketTypeOK
\* What the new series is.
<1>2. \E y \in series : \E round \in {"semifinal", "final"}, p \in 0..3 :
        /\ SeriesInv'
        /\ \A x \in series' : x \in series \/ (x.season = y.season /\ x.round = round /\ x.pos = p)
  <2>1. ASSUME NEW s \in 1..begun, NEW p \in 0..1, AdvanceToSemifinal(s, p)
        PROVE  \E y \in series :
                 /\ SeriesInv'
                 /\ \A x \in series' : x \in series \/ (x.season = y.season /\ x.round = "semifinal" /\ x.pos = p)
    <3>1. PICK y \in Feeders(s, p), z \in Feeders(s, p) :
            y.pos < z.pos /\ InsertSeries(s, "semifinal", p, y.winner, z.winner)
      BY <2>1 DEF AdvanceToSemifinal
    <3>2. /\ y \in series /\ y.season = s /\ y.round = "quarterfinal" /\ Decided(y) /\ y.pos \div 2 = p
          /\ z \in series /\ z.season = s /\ z.round = "quarterfinal" /\ Decided(z) /\ z.pos \div 2 = p
      BY <3>1 DEF Feeders, Of
    <3>3. y.pos \in 0..3 /\ z.pos \in 0..3
      BY <1>1, <3>2 DEF SeriesRows
    <3>4. y.pos = 2 * p /\ z.pos = 2 * p + 1
      BY <3>1, <3>2, <3>3
    <3>5. y.winner \in Half(p) /\ z.winner \in Half(p)
      <4>1. y.winner \in {Matchup(y.pos)[1], Matchup(y.pos)[2]} /\ z.winner \in {Matchup(z.pos)[1], Matchup(z.pos)[2]}
        BY <3>2 DEF BracketInv, PlayersFit
      <4> QED BY <3>2, <3>3, <4>1, MatchupsSplit
    <3>6. y.winner \in Seeds /\ z.winner \in Seeds
      BY <3>2 DEF Decided
    <3>7. \A x \in series : ~(x.season = s /\ x.round = "semifinal" /\ x.pos = p)
      BY <2>1 DEF AdvanceToSemifinal, At, Of
    <3>8. s \in Nat /\ p \in 0..3 /\ "semifinal" \in Rounds
      BY <1>0 DEF Rounds
    <3>9. /\ SeriesInv'
          /\ \A x \in series' : x \in series \/ (x.season = s /\ x.round = "semifinal" /\ x.pos = p)
      BY <1>1, <3>1, <3>2, <3>4, <3>5, <3>6, <3>7, <3>8, DrawKeepsSeries
    <3> QED BY <3>2, <3>9
  <2>2. ASSUME AdvanceToFinal
        PROVE  \E y \in series :
                 /\ SeriesInv'
                 /\ \A x \in series' : x \in series \/ (x.season = y.season /\ x.round = "final" /\ x.pos = 0)
    <3>1. PICK y \in series, z \in series :
            /\ y # z /\ y.season = z.season /\ y.pos <= z.pos
            /\ y.round = "semifinal" /\ Decided(y) /\ z.round = "semifinal" /\ Decided(z)
            /\ Of(y.season, "final") = {}
            /\ InsertSeries(y.season, "final", 0, y.winner, z.winner)
      BY <2>2 DEF AdvanceToFinal, SameSeason
    <3>2. y.pos \in 0..1 /\ z.pos \in 0..1 /\ y.pos # z.pos
      BY <3>1 DEF BracketInv, PlayersFit, PlacesAreUnique
    <3>3. y.pos = 0 /\ z.pos = 0 + 1
      BY <3>1, <3>2
    <3>4. y.winner \in Seeds /\ z.winner \in Seeds /\ y.season \in Nat
      BY <1>1, <3>1 DEF Decided, SeriesRows
    <3>5. \A x \in series : ~(x.season = y.season /\ x.round = "final" /\ x.pos = 0)
      BY <3>1 DEF Of
    <3>6. 0 \in 0..3 /\ "final" \in Rounds
      BY DEF Rounds
    <3>7. /\ SeriesInv'
          /\ \A x \in series' : x \in series \/ (x.season = y.season /\ x.round = "final" /\ x.pos = 0)
      BY <1>1, <3>1, <3>3, <3>4, <3>5, <3>6, DrawKeepsSeries
    <3> QED BY <3>7
  <2> QED BY <2>1, <2>2 DEF Advance
<1>3. SeasonsInOrder'
  <2>1. PICK y \in series, round \in {"semifinal", "final"}, p \in 0..3 :
          \A x \in series' : x \in series \/ (x.season = y.season /\ x.round = round /\ x.pos = p)
    BY <1>2
  <2> QED BY <1>0, <2>1 DEF BracketInv, SeasonsInOrder
<1>4. BracketTypeOK'
  BY <1>0, <1>2 DEF BracketInv, BracketTypeOK, SeriesInv
<1> QED BY <1>2, <1>3, <1>4 DEF BracketInv, SeriesInv

\* Every step keeps the invariant.
LEMMA BracketStep == BracketInv /\ [BracketNext]_bracketVars => BracketInv'
<1> SUFFICES ASSUME BracketInv, [BracketNext]_bracketVars PROVE BracketInv'
  OBVIOUS
<1>1. ASSUME NEW x \in series, SeriesEnds(x) PROVE BracketInv'
  <2>1. SeriesInv
    BY DEF SeriesInv, BracketInv, BracketTypeOK
  <2>2. /\ SeriesInv'
        /\ \A y \in series' : \E o \in series : y.season = o.season /\ y.round = o.round /\ y.pos = o.pos
    BY <1>1, <2>1, EndKeepsSeries
  <2>3. UNCHANGED <<current, begun, closing>>
    BY <1>1 DEF SeriesEnds
  <2>4. SeasonsInOrder'
    BY <2>2, <2>3 DEF BracketInv, SeasonsInOrder
  <2> QED BY <2>2, <2>3, <2>4 DEF BracketInv, BracketTypeOK, SeriesInv
<1>2. CASE UNCHANGED bracketVars
  BY <1>2 DEF bracketVars, BracketInv, BracketTypeOK, SeasonsInOrder, PlacesAreUnique, PlayersFit, Fed
<1>3. CASE BracketNext
  BY <1>1, <1>3, TickKeepsBracket, QuarterfinalKeepsBracket, AdvanceKeepsBracket DEF BracketNext
<1> QED BY <1>2, <1>3

\* Whatever fails while rounds are drawn and however many brackets are open, a
\* season has one series per place, played by the winners of the two that lead
\* to it, and the best two seeds meet only in the final
\* (createChampionshipBracket, advanceChampionshipBracket).
THEOREM BracketsAreTrees == BracketSpec => []BracketIsTree
  BY BracketBegins, BracketStep, TreeFromInvariant, PTL DEF BracketSpec

(***************************************************************************)
(* Least and greatest elements, from the well-foundedness of Nat.          *)
(***************************************************************************)
LEMMA LeastNat ==
  ASSUME NEW S, S \subseteq Nat, S # {}
  PROVE  \E x \in S : \A y \in S : x <= y
  <1>1. PICK x \in S : \A y \in S : ~(<<y, x>> \in OpToRel(<, Nat))
    BY NatLessThanWellFounded, WFMin
  <1>2. ASSUME NEW y \in S PROVE ~(y < x)
    BY <1>1, <1>2 DEF OpToRel
  <1> QED BY <1>2

\* A finite set of naturals that is not empty has a greatest member.
LEMMA GreatestNat ==
  ASSUME NEW n \in Nat, NEW S, S \subseteq 1..n, S # {}
  PROVE  \E x \in S : \A y \in S : x >= y
  <1>1. PICK T : T = {n - s : s \in S}
    OBVIOUS
  <1>2. T \subseteq Nat /\ T # {}
    <2>1. \A s \in S : n - s \in Nat
      OBVIOUS
    <2> QED BY <1>1, <2>1
  <1>3. PICK t \in T : \A u \in T : t <= u
    BY <1>2, LeastNat
  <1>4. PICK x \in S : t = n - x
    BY <1>1
  <1>5. ASSUME NEW y \in S PROVE x >= y
    <2>1. n - y \in T
      BY <1>1
    <2>2. n - x <= n - y
      BY <1>3, <1>4, <2>1
    <2> QED BY <2>2
  <1> QED BY <1>5

\* The smallest of those whose value is least.
LEMMA FirstOf ==
  ASSUME NEW S, S \subseteq Nat, S # {}, NEW f \in [S -> Nat]
  PROVE  \E b \in S : \A c \in S : f[b] < f[c] \/ (f[c] = f[b] /\ b <= c)
  <1>1. PICK V : V = {f[c] : c \in S}
    OBVIOUS
  <1>2. V \subseteq Nat /\ V # {}
    BY <1>1
  <1>3. PICK v \in V : \A w \in V : v <= w
    BY <1>2, LeastNat
  <1>4. PICK T : T = {c \in S : f[c] = v}
    OBVIOUS
  <1>5. T \subseteq Nat /\ T # {}
    BY <1>1, <1>4
  <1>6. PICK b \in T : \A c \in T : b <= c
    BY <1>5, LeastNat
  <1>7. ASSUME NEW c \in S PROVE f[b] < f[c] \/ (f[c] = f[b] /\ b <= c)
    <2>1. f[b] = v /\ f[b] <= f[c] /\ f[b] \in Nat /\ f[c] \in Nat
      BY <1>1, <1>3, <1>4
    <2>2. f[c] = v => b <= c
      BY <1>4, <1>6
    <2> QED BY <2>1, <2>2
  <1> QED BY <1>4, <1>7

(***************************************************************************)
(* The pairing tick.                                                       *)
(***************************************************************************)
\* The other bots that have played since b last played or became eligible.
Overtaking(b) ==
  {c \in Field \ {b} : \E i \in Entered(c) : i > since[b]}

\* Every match a bot is passed over in has a seed that had not overtaken it
\* before, and has then.
WaitingInv ==
  /\ fixtures \in Seq([bots : Seq(Field), map : Nat \X Nat])
  /\ since \in [Field -> Nat]
  /\ cooling \subseteq Field
  /\ \A b \in Field : /\ since[b] <= Len(fixtures)
                      /\ \A i \in Entered(b) : i <= since[b]
  /\ \A b \in Field \ cooling : Len(fixtures) - since[b] <= Cardinality(Overtaking(b))

\* A bot is entered in finitely many fixtures.
LEMMA EnteredIsFinite ==
  ASSUME WaitingInv, NEW b
  PROVE  Entered(b) \subseteq 1..Len(fixtures) /\ IsFiniteSet(Entered(b)) /\ Len(fixtures) \in Nat
  <1>1. Len(fixtures) \in Nat /\ DOMAIN fixtures = 1..Len(fixtures)
    BY DEF WaitingInv
  <1>2. Entered(b) \subseteq 1..Len(fixtures)
    BY <1>1 DEF Entered
  <1>3. IsFiniteSet(1..Len(fixtures))
    BY <1>1, FS_Interval
  <1> QED BY <1>1, <1>2, <1>3, FS_Subset

\* The last match of a bot is the latest fixture it is entered in.
LEMMA LastMatchIsLast ==
  ASSUME WaitingInv, NEW b \in Field
  PROVE  /\ LastMatchAt(b) \in Nat /\ LastMatchAt(b) <= since[b]
         /\ \A i \in Entered(b) : i <= LastMatchAt(b)
  <1>1. since[b] \in Nat /\ \A i \in Entered(b) : i <= since[b]
    BY DEF WaitingInv
  <1>2. PICK n \in Nat : n = Len(fixtures) /\ Entered(b) \subseteq 1..n
    BY EnteredIsFinite
  <1>3. CASE Entered(b) = {}
    BY <1>1, <1>3 DEF LastMatchAt
  <1>4. CASE Entered(b) # {}
    <2>1. LastMatchAt(b) = CHOOSE x \in Entered(b) : \A y \in Entered(b) : x >= y
      BY <1>4 DEF LastMatchAt, Max
    <2>2. \E x \in Entered(b) : \A y \in Entered(b) : x >= y
      BY <1>2, <1>4, GreatestNat
    <2>3. LastMatchAt(b) \in Entered(b) /\ \A y \in Entered(b) : LastMatchAt(b) >= y
      BY <2>1, <2>2
    <2> QED BY <1>1, <1>2, <2>3
  <1> QED BY <1>3, <1>4

\* The seed has waited longest.
LEMMA SeedWaitedLongest ==
  ASSUME WaitingInv, NEW cs, cs \subseteq Field, cs # {}
  PROVE  Seed(cs) \in cs /\ \A c \in cs : LastMatchAt(Seed(cs)) <= LastMatchAt(c)
  <1>1. cs \subseteq Nat
    BY MatchmakingConstants DEF Field
  <1>2. PICK f : f = [c \in cs |-> LastMatchAt(c)]
    OBVIOUS
  <1>3. f \in [cs -> Nat] /\ \A c \in cs : f[c] = LastMatchAt(c)
    BY <1>2, LastMatchIsLast
  <1>4. \E b \in cs : \A c \in cs : f[b] < f[c] \/ (f[c] = f[b] /\ b <= c)
    BY <1>1, <1>3, FirstOf
  <1>5. \E b \in cs : \A c \in cs :
          LastMatchAt(b) < LastMatchAt(c) \/ (LastMatchAt(c) = LastMatchAt(b) /\ b <= c)
    BY <1>3, <1>4
  <1>6. /\ Seed(cs) \in cs
        /\ \A c \in cs : \/ LastMatchAt(Seed(cs)) < LastMatchAt(c)
                         \/ LastMatchAt(c) = LastMatchAt(Seed(cs)) /\ Seed(cs) <= c
    BY <1>5 DEF Seed
  <1>7. \A c \in cs : LastMatchAt(c) \in Nat
    BY LastMatchIsLast
  <1> QED BY <1>6, <1>7

\* The least played format is one of the formats.
LEMMA FormatIsPlayable ==
  ASSUME WaitingInv, NEW seed, NEW cs, Cardinality(cs) >= 2
  PROVE  LeastPlayedFormat(seed, cs) \in Formats
  <1> DEFINE count(n) == Cardinality({i \in Entered(seed) : Len(fixtures[i].bots) = n})
             fits == {n \in Formats : n <= Cardinality(cs)}
  <1>1. fits \subseteq Nat /\ fits # {}
    BY MatchmakingConstants
  <1>2. PICK f : f = [n \in fits |-> count(n)]
    OBVIOUS
  <1>3. \A n \in fits : count(n) \in Nat
    <2> TAKE n \in fits
    <2>1. PICK S : S = {i \in Entered(seed) : Len(fixtures[i].bots) = n}
      OBVIOUS
    <2>2. S \subseteq Entered(seed) /\ IsFiniteSet(Entered(seed))
      BY <2>1, EnteredIsFinite
    <2>3. Cardinality(S) \in Nat
      BY <2>2, FS_Subset, FS_CardinalityType
    <2> QED BY <2>1, <2>3
  <1>4. LeastPlayedFormat(seed, cs) =
          CHOOSE n \in fits : \A k \in fits : count(n) < count(k) \/ (count(n) = count(k) /\ n <= k)
    BY DEF LeastPlayedFormat
  <1> HIDE DEF count, fits
  <1>5. f \in [fits -> Nat] /\ \A n \in fits : f[n] = count(n)
    BY <1>2, <1>3
  <1>6. \E n \in fits : \A k \in fits : f[n] < f[k] \/ (f[k] = f[n] /\ n <= k)
    BY <1>1, <1>5, FirstOf
  <1>7. \E n \in fits : \A k \in fits : count(n) < count(k) \/ (count(n) = count(k) /\ n <= k)
    BY <1>5, <1>6
  <1>8. LeastPlayedFormat(seed, cs) \in fits
    BY <1>4, <1>7
  <1> QED BY <1>8 DEF fits

\* A tick appends one match, with the seed among its players.
LEMMA TickAppends ==
  ASSUME WaitingInv, TickMatchmaker
  PROVE  \E c \in [bots : Seq(Field), map : Nat \X Nat] :
           /\ fixtures' = Append(fixtures, c)
           /\ Seed(QueryEligibleCandidates) \in PlayersOf(c)
           /\ PlayersOf(c) \subseteq Field
           /\ since' = [b \in Field |-> IF b \in PlayersOf(c) THEN Len(fixtures) + 1 ELSE since[b]]
           /\ Seed(QueryEligibleCandidates) \in QueryEligibleCandidates
  <1>1. PICK cs : cs = QueryEligibleCandidates
    OBVIOUS
  <1>2. PICK seed : seed = Seed(cs)
    OBVIOUS
  <1>3. PICK n : n = LeastPlayedFormat(seed, cs)
    OBVIOUS
  <1>4. PICK opponents \in SelectOpponents(seed, cs \ {seed}, n - 1), x \in SelectMapLRU(n) :
          fixtures' = Append(fixtures, [bots |-> <<seed>> \o opponents, map |-> x])
    BY <1>1, <1>2, <1>3 DEF TickMatchmaker
  <1>5. Cardinality(cs) >= 2 /\ cs \subseteq Field
    BY <1>1 DEF TickMatchmaker, QueryEligibleCandidates
  <1>6. cs # {}
    <2>1. Cardinality({}) = 0
      BY FS_EmptySet
    <2> QED BY <1>5, <2>1
  <1>7. seed \in cs
    BY <1>2, <1>5, <1>6, SeedWaitedLongest
  <1>8. n \in Nat \ {0}
    BY <1>3, <1>5, FormatIsPlayable, MatchmakingConstants
  <1>9. opponents \in [1..n - 1 -> cs \ {seed}]
    BY <1>4 DEF SelectOpponents
  <1>10. opponents \in Seq(Field)
    BY <1>5, <1>8, <1>9
  <1>11. PICK lineup : lineup = <<seed>> \o opponents
    OBVIOUS
  <1>12. lineup \in Seq(Field) /\ 1 \in DOMAIN lineup /\ lineup[1] = seed
    BY <1>5, <1>7, <1>10, <1>11
  <1>13. x \in Nat \X Nat
    BY <1>4, <1>8, MatchmakingConstants DEF SelectMapLRU, Maps
  <1>14. PICK c : c = [bots |-> lineup, map |-> x]
    OBVIOUS
  <1>15. c \in [bots : Seq(Field), map : Nat \X Nat] /\ c.bots = lineup
    BY <1>12, <1>13, <1>14
  <1>16. seed \in PlayersOf(c)
    BY <1>12, <1>15 DEF PlayersOf, Range
  <1>17. PlayersOf(c) \subseteq Field
    BY <1>12, <1>15 DEF PlayersOf, Range
  <1>18. fixtures' = Append(fixtures, c)
    BY <1>4, <1>11, <1>14
  <1>19. Len(fixtures') = Len(fixtures) + 1 /\ fixtures'[Len(fixtures')] = c
    BY <1>15, <1>18 DEF WaitingInv
  <1>20. since' = [b \in Field |-> IF b \in PlayersOf(c) THEN Len(fixtures) + 1 ELSE since[b]]
    <2>1. since' = [b \in Field |-> IF b \in PlayersOf(fixtures'[Len(fixtures')])
                                    THEN Len(fixtures') ELSE since[b]]
      BY DEF TickMatchmaker
    <2> QED BY <1>19, <2>1
  <1> QED BY <1>1, <1>2, <1>7, <1>15, <1>16, <1>17, <1>18, <1>20

\* A match that is made keeps the waiting times accounted for.
LEMMA TickKeepsWaiting ==
  ASSUME WaitingInv, TickMatchmaker
  PROVE  WaitingInv'
  <1>1. PICK c \in [bots : Seq(Field), map : Nat \X Nat] :
           /\ fixtures' = Append(fixtures, c)
           /\ Seed(QueryEligibleCandidates) \in PlayersOf(c)
           /\ PlayersOf(c) \subseteq Field
           /\ since' = [b \in Field |-> IF b \in PlayersOf(c) THEN Len(fixtures) + 1 ELSE since[b]]
           /\ Seed(QueryEligibleCandidates) \in QueryEligibleCandidates
    BY TickAppends
  <1>2. PICK seed : seed = Seed(QueryEligibleCandidates)
    OBVIOUS
  <1>3. PICK n \in Nat : n = Len(fixtures)
    BY DEF WaitingInv
  <1>4. cooling' = cooling
    BY DEF TickMatchmaker
  <1>5. /\ fixtures' \in Seq([bots : Seq(Field), map : Nat \X Nat])
        /\ Len(fixtures') = n + 1 /\ DOMAIN fixtures' = 1..n + 1 /\ DOMAIN fixtures = 1..n
        /\ fixtures'[n + 1] = c /\ \A i \in 1..n : fixtures'[i] = fixtures[i]
    BY <1>1, <1>3 DEF WaitingInv
  <1>6. \A b : /\ Entered(b)' = Entered(b) \cup (IF b \in PlayersOf(c) THEN {n + 1} ELSE {})
               /\ Entered(b) \subseteq 1..n
    <2> TAKE b
    <2>1. Entered(b)' = {i \in 1..n + 1 : b \in PlayersOf(fixtures'[i])}
      BY <1>5 DEF Entered
    <2>2. Entered(b) = {i \in 1..n : b \in PlayersOf(fixtures[i])}
      BY <1>5 DEF Entered
    <2>3. 1..n + 1 = (1..n) \cup {n + 1} /\ n + 1 \notin 1..n
      OBVIOUS
    <2>4. \A i \in 1..n : b \in PlayersOf(fixtures'[i]) <=> b \in PlayersOf(fixtures[i])
      BY <1>5
    <2> QED BY <1>5, <2>1, <2>2, <2>3, <2>4
  <1>7. /\ since' \in [Field -> Nat]
        /\ \A b \in Field : since'[b] = IF b \in PlayersOf(c) THEN n + 1 ELSE since[b]
    BY <1>1, <1>3 DEF WaitingInv
  <1>8. \A b \in Field : since'[b] <= n + 1 /\ \A i \in Entered(b)' : i <= since'[b]
    <2> TAKE b \in Field
    <2>1. since[b] \in Nat /\ since[b] <= n /\ \A i \in Entered(b) : i <= since[b]
      BY <1>3 DEF WaitingInv
    <2>2. CASE b \in PlayersOf(c)
      BY <1>6, <1>7, <2>1, <2>2
    <2>3. CASE b \notin PlayersOf(c)
      BY <1>6, <1>7, <2>1, <2>3
    <2> QED BY <2>2, <2>3
  <1>9. ASSUME NEW b \in Field \ cooling
        PROVE  Len(fixtures') - since'[b] <= Cardinality(Overtaking(b)')
    <2>0. PICK m : m = Len(fixtures') /\ m = n + 1
      BY <1>5
    <2>1. PICK new : new = Overtaking(b)'
      OBVIOUS
    <2>2. IsFiniteSet(Field)
      <3>1. NumBots \in Int /\ 1 \in Int
        BY MatchmakingConstants
      <3> QED BY <3>1, FS_Interval DEF Field
    <2>3. new \subseteq Field
      BY <2>1 DEF Overtaking
    <2>4. IsFiniteSet(new) /\ Cardinality(new) \in Nat
      BY <2>2, <2>3, FS_Subset, FS_CardinalityType
    <2>5. CASE b \in PlayersOf(c)
      BY <1>7, <2>0, <2>1, <2>4, <2>5
    <2>6. CASE b \notin PlayersOf(c)
      <3>1. PICK old : old = Overtaking(b)
        OBVIOUS
      <3>2. since'[b] = since[b] /\ since[b] \in Nat /\ since[b] <= n
        BY <1>3, <1>7, <2>6 DEF WaitingInv
      <3>3. seed \in Field /\ seed # b /\ seed \in PlayersOf(c)
        BY <1>1, <1>2, <2>6 DEF QueryEligibleCandidates
      <3>4. seed \notin old
        <4>1. b \in QueryEligibleCandidates /\ QueryEligibleCandidates \subseteq Field
          BY <1>9 DEF QueryEligibleCandidates
        <4>2. LastMatchAt(seed) <= LastMatchAt(b)
          BY <1>2, <4>1, SeedWaitedLongest
        <4>3. LastMatchAt(b) \in Nat /\ LastMatchAt(b) <= since[b]
          BY LastMatchIsLast
        <4>4. LastMatchAt(seed) \in Nat /\ \A i \in Entered(seed) : i <= LastMatchAt(seed)
          BY <3>3, LastMatchIsLast
        <4>5. \A i \in Entered(seed) : i \in Nat
          BY <1>6
        <4>6. \A i \in Entered(seed) : ~(i > since[b])
          BY <3>2, <4>2, <4>3, <4>4, <4>5
        <4> QED BY <3>1, <4>6 DEF Overtaking
      <3>5. old \cup {seed} \subseteq new
        <4>1. seed \in new
          <5>1. n + 1 \in Entered(seed)' /\ n + 1 > since'[b]
            BY <1>6, <3>2, <3>3
          <5> QED BY <2>1, <3>3, <5>1 DEF Overtaking
        <4>2. old \subseteq new
          BY <1>6, <2>1, <3>1, <3>2 DEF Overtaking
        <4> QED BY <4>1, <4>2
      <3>6. IsFiniteSet(old) /\ Cardinality(old) \in Nat
        BY <2>4, <3>5, FS_Subset, FS_CardinalityType
      <3>7. Cardinality(old \cup {seed}) = Cardinality(old) + 1 /\ IsFiniteSet(old \cup {seed})
        BY <3>4, <3>6, FS_AddElement
      <3>8. Cardinality(old \cup {seed}) <= Cardinality(new)
        BY <2>4, <3>5, FS_Subset
      <3>9. n - since[b] <= Cardinality(old)
        BY <1>3, <1>9, <3>1 DEF WaitingInv
      <3> QED BY <2>0, <2>1, <2>4, <3>2, <3>6, <3>7, <3>8, <3>9
    <2> QED BY <2>5, <2>6
  <1>10. (\A b \in Field \ cooling : Len(fixtures) - since[b] <= Cardinality(Overtaking(b)))'
    BY <1>4, <1>9
  <1>11. (\A b \in Field : since[b] <= Len(fixtures) /\ \A i \in Entered(b) : i <= since[b])'
    BY <1>5, <1>8
  <1>12. cooling \subseteq Field
    BY DEF WaitingInv
  <1> QED BY <1>4, <1>5, <1>7, <1>10, <1>11, <1>12 DEF WaitingInv

\* Results move no match and only lengthen the list of cooldowns.
LEMMA ResultsKeepWaiting ==
  ASSUME WaitingInv, UNCHANGED <<fixtures, since>>, cooling \subseteq cooling', cooling' \subseteq Field
  PROVE  WaitingInv'
  <1>1. \A b : Entered(b)' = Entered(b)
    BY DEF Entered
  <1>2. \A b : Overtaking(b)' = Overtaking(b)
    BY <1>1 DEF Overtaking
  <1>3. ASSUME NEW b \in Field \ cooling'
        PROVE  Len(fixtures') - since'[b] <= Cardinality(Overtaking(b)')
    BY <1>2, <1>3 DEF WaitingInv
  <1>4. (\A b \in Field \ cooling : Len(fixtures) - since[b] <= Cardinality(Overtaking(b)))'
    BY <1>3
  <1>5. (\A b \in Field : since[b] <= Len(fixtures) /\ \A i \in Entered(b) : i <= since[b])'
    BY <1>1 DEF WaitingInv
  <1> QED BY <1>4, <1>5 DEF WaitingInv

\* A bot whose cooldown passes waits from now on; the others wait as before.
LEMMA CooldownKeepsWaiting ==
  ASSUME WaitingInv, NEW a \in Field, CooldownPasses(a)
  PROVE  WaitingInv'
  <1>1. PICK n \in Nat : n = Len(fixtures)
    BY DEF WaitingInv
  <1>2. fixtures' = fixtures /\ cooling' = cooling \ {a} /\ since' = [since EXCEPT ![a] = n]
    BY <1>1 DEF CooldownPasses
  <1>3. since' \in [Field -> Nat] /\ since'[a] = n /\ \A b \in Field \ {a} : since'[b] = since[b]
    BY <1>2 DEF WaitingInv
  <1>4. \A b : Entered(b)' = Entered(b)
    BY <1>2 DEF Entered
  <1>5. \A i \in Entered(a) : i <= n
    BY <1>1, EnteredIsFinite
  <1>6. \A b \in Field : since'[b] <= n /\ \A i \in Entered(b)' : i <= since'[b]
    <2> TAKE b \in Field
    <2>1. CASE b = a
      BY <1>3, <1>4, <1>5, <2>1
    <2>2. CASE b # a
      BY <1>1, <1>3, <1>4, <2>2 DEF WaitingInv
    <2> QED BY <2>1, <2>2
  <1>7. ASSUME NEW b \in Field \ cooling'
        PROVE  Len(fixtures') - since'[b] <= Cardinality(Overtaking(b)')
    <2>1. PICK new : new = Overtaking(b)'
      OBVIOUS
    <2>2. IsFiniteSet(Field)
      <3>1. NumBots \in Int /\ 1 \in Int
        BY MatchmakingConstants
      <3> QED BY <3>1, FS_Interval DEF Field
    <2>3. new \subseteq Field
      BY <2>1 DEF Overtaking
    <2>4. IsFiniteSet(new) /\ Cardinality(new) \in Nat
      BY <2>2, <2>3, FS_Subset, FS_CardinalityType
    <2>5. CASE b = a
      BY <1>1, <1>2, <1>3, <2>1, <2>4, <2>5
    <2>6. CASE b # a
      <3>1. b \in Field \ cooling /\ since'[b] = since[b]
        BY <1>2, <1>3, <1>7, <2>6
      <3>2. new = Overtaking(b)
        BY <1>4, <2>1, <3>1 DEF Overtaking
      <3>3. Len(fixtures) - since[b] <= Cardinality(new)
        BY <3>1, <3>2 DEF WaitingInv
      <3> QED BY <1>2, <2>1, <3>1, <3>3
    <2> QED BY <2>5, <2>6
  <1>8. (\A b \in Field \ cooling : Len(fixtures) - since[b] <= Cardinality(Overtaking(b)))'
    BY <1>7
  <1>9. (\A b \in Field : since[b] <= Len(fixtures) /\ \A i \in Entered(b) : i <= since[b])'
    BY <1>1, <1>2, <1>6
  <1> QED BY <1>2, <1>3, <1>8, <1>9 DEF WaitingInv

\* Nobody has waited at the start.
LEMMA WaitingInitially ==
  ASSUME MatchmakingInit
  PROVE  WaitingInv
  <1>1. fixtures = <<>> /\ Len(fixtures) = 0 /\ DOMAIN fixtures = {}
    BY DEF MatchmakingInit
  <1>2. since \in [Field -> Nat] /\ \A b \in Field : since[b] = 0
    BY DEF MatchmakingInit
  <1>3. \A b : Entered(b) = {}
    BY <1>1 DEF Entered
  <1>4. \A b : Overtaking(b) = {}
    BY <1>3 DEF Overtaking
  <1>5. Cardinality({}) = 0
    BY FS_EmptySet
  <1>6. ASSUME NEW b \in Field
        PROVE  Len(fixtures) - since[b] <= Cardinality(Overtaking(b))
    <2>1. Cardinality(Overtaking(b)) = 0
      BY <1>4, <1>5
    <2> QED BY <1>1, <1>2, <2>1
  <1>7. fixtures \in Seq([bots : Seq(Field), map : Nat \X Nat]) /\ cooling = {}
    BY <1>1 DEF MatchmakingInit
  <1> QED BY <1>1, <1>2, <1>3, <1>6, <1>7 DEF WaitingInv

\* The invariant bounds how long a bot waits: fewer bots overtake it than there are.
LEMMA WaitingIsBounded ==
  ASSUME WaitingInv
  PROVE  NoBotStarves
  <1> SUFFICES ASSUME NEW b \in Field \ cooling
               PROVE  Len(fixtures) - since[b] < NumBots
    BY DEF NoBotStarves, QueryEligibleCandidates
  <1>1. NumBots \in Nat /\ 1 <= NumBots
    BY MatchmakingConstants
  <1>2. IsFiniteSet(Field) /\ Cardinality(Field) = NumBots
    <2>1. NumBots \in Int /\ 1 \in Int
      BY <1>1
    <2> QED BY <1>1, <2>1, FS_Interval DEF Field
  <1>3. IsFiniteSet(Field \ {b}) /\ Cardinality(Field \ {b}) = NumBots - 1
    BY <1>2, FS_RemoveElement
  <1>4. PICK ahead : ahead = Overtaking(b)
    OBVIOUS
  <1>5. ahead \subseteq Field \ {b}
    <2>1. \A i \in Entered(b) : ~(i > since[b])
      <3>1. since[b] \in Nat /\ \A i \in Entered(b) : i <= since[b]
        BY DEF WaitingInv
      <3>2. \A i \in Entered(b) : i \in Nat
        BY EnteredIsFinite
      <3> QED BY <3>1, <3>2
    <2> QED BY <1>4, <2>1 DEF Overtaking
  <1>6. Cardinality(ahead) \in Nat /\ Cardinality(ahead) <= NumBots - 1
    BY <1>3, <1>5, FS_Subset, FS_CardinalityType
  <1>7. Len(fixtures) - since[b] <= Cardinality(ahead)
    BY <1>4 DEF WaitingInv
  <1>8. Len(fixtures) \in Nat /\ since[b] \in Nat
    BY DEF WaitingInv
  <1> QED BY <1>1, <1>6, <1>7, <1>8

\* An eligible bot is passed over by fewer than NumBots matches in a row, for
\* every number of bots, formats, maps and strikes and however ratings, draws
\* and crashes fall: tickMatchmaker always seeds the match with the bot whose
\* last match is oldest, so each match that passes a bot over is seeded by a
\* bot that had not yet overtaken it.
THEOREM NobodyStarves == MatchmakingSpec => []NoBotStarves
  <1>1. MatchmakingInit => WaitingInv
    BY WaitingInitially
  <1>2. WaitingInv /\ [MatchmakingNext]_matchmakingVars => WaitingInv'
    <2> SUFFICES ASSUME WaitingInv, [MatchmakingNext]_matchmakingVars
                 PROVE  WaitingInv'
      OBVIOUS
    <2>1. cooling \subseteq Field
      BY DEF WaitingInv
    <2>2. CASE TickMatchmaker
      BY <2>2, TickKeepsWaiting
    <2>3. ASSUME NEW i \in DOMAIN fixtures, NEW crashed, UpdateCrashStrikes(i, crashed)
          PROVE  WaitingInv'
      <3>1. PlayersOf(fixtures[i]) \subseteq Field
        <4>1. PICK lineup : lineup = fixtures[i].bots
          OBVIOUS
        <4>2. lineup \in Seq(Field)
          <5>1. PICK R : R = [bots : Seq(Field), map : Nat \X Nat]
            OBVIOUS
          <5>2. fixtures \in Seq(R)
            BY <5>1 DEF WaitingInv
          <5>3. i \in 1..Len(fixtures)
            BY <2>3, <5>2
          <5>4. fixtures[i] \in R
            BY <5>2, <5>3
          <5> QED BY <4>1, <5>1, <5>4
        <4> QED BY <4>1, <4>2 DEF PlayersOf, Range
      <3>2. cooling \subseteq cooling' /\ cooling' \subseteq Field /\ UNCHANGED <<fixtures, since>>
        BY <2>1, <2>3, <3>1 DEF UpdateCrashStrikes
      <3> QED BY <3>2, ResultsKeepWaiting
    <2>4. ASSUME NEW i \in DOMAIN fixtures, SubmitWithoutStrikes(i)
          PROVE  WaitingInv'
      BY <2>1, <2>4, ResultsKeepWaiting DEF SubmitWithoutStrikes
    <2>5. ASSUME NEW b \in Field, CooldownPasses(b)
          PROVE  WaitingInv'
      BY <2>5, CooldownKeepsWaiting
    <2>6. CASE UNCHANGED matchmakingVars
      BY <2>1, <2>6, ResultsKeepWaiting DEF matchmakingVars
    <2> QED BY <2>2, <2>3, <2>4, <2>5, <2>6 DEF MatchmakingNext
  <1>3. WaitingInv => NoBotStarves
    BY WaitingIsBounded
  <1> QED BY <1>1, <1>2, <1>3, PTL DEF MatchmakingSpec

-----------------------------------------------------------------------------
(***************************************************************************)
(* The featured series.                                                    *)
(***************************************************************************)
\* Pairs of two bots, no bot in two of them.
Couple(c) == \E a, b : a # b /\ c = {a, b}
Couples(q) ==
  /\ \A k \in DOMAIN q : Couple(q[k])
  /\ \A k, l \in DOMAIN q : k # l => q[k] \cap q[l] = {}

\* Nobody is listed twice.
Distinct(s) == \A i, j \in DOMAIN s : i # j => s[i] # s[j]

\* The least of a set of places is one of them.
LEMMA MinIsMember ==
  ASSUME NEW S, S \subseteq Nat, S # {}
  PROVE  Min(S) \in S /\ \A y \in S : Min(S) <= y
  <1>1. \E x \in S : \A y \in S : x <= y
    BY LeastNat
  <1> QED BY <1>1 DEF Min

\* A set of places on the ladder is finite.
LEMMA PlacesAreFinite ==
  ASSUME NEW n \in Nat, NEW P, P \subseteq 1 .. n
  PROVE  IsFiniteSet(P) /\ Cardinality(P) \in Nat
  <1>1. IsFiniteSet(1 .. n)
    BY FS_Interval
  <1>2. IsFiniteSet(P)
    BY <1>1, FS_Subset
  <1> QED BY <1>2, FS_CardinalityType

\* Every place from the first to the last of a set of places is taken by one of them.
LEMMA EveryRankIsTaken ==
  ASSUME NEW n \in Nat, NEW P, P \subseteq 1 .. n, NEW k \in 1 .. Cardinality(P)
  PROVE  PlaceOf(P, k) \in P /\ Cardinality({j \in P : j <= PlaceOf(P, k)}) = k
  <1> DEFINE Upto(i) == {j \in P : j <= i}
             rank == [i \in P |-> Cardinality(Upto(i))]
  <1>1. IsFiniteSet(P) /\ Cardinality(P) \in Nat
    BY PlacesAreFinite
  <1>2. ASSUME NEW i \in P PROVE IsFiniteSet(Upto(i)) /\ Cardinality(Upto(i)) \in 1 .. Cardinality(P)
    <2>1. IsFiniteSet(Upto(i)) /\ Cardinality(Upto(i)) <= Cardinality(P)
      BY <1>1, FS_Subset
    <2>2. Cardinality(Upto(i)) \in Nat
      BY <2>1, FS_CardinalityType
    <2>3. i \in Upto(i)
      OBVIOUS
    <2>4. Cardinality(Upto(i)) # 0
      BY <2>1, <2>3, FS_EmptySet
    <2> HIDE DEF Upto
    <2> QED BY <1>1, <2>1, <2>2, <2>4
  <1>3. ASSUME NEW i \in P, NEW l \in P, i < l PROVE rank[i] # rank[l]
    <2>0. \A j \in P : j <= i => j <= l
      BY <1>3
    <2>1. Upto(i) \in SUBSET Upto(l)
      BY <2>0
    <2>2. l \in Upto(l) /\ l \notin Upto(i)
      BY <1>3
    <2>3. IsFiniteSet(Upto(l))
      BY <1>2
    <2>4. Cardinality(Upto(l)) # Cardinality(Upto(i))
      BY <2>1, <2>2, <2>3, FS_Subset
    <2> QED BY <2>4
  <1>4. rank \in Injection(P, 1 .. Cardinality(P))
    <2>1. rank \in [P -> 1 .. Cardinality(P)]
      BY <1>2
    <2>2. \A i, l \in P : i # l => i < l \/ l < i
      OBVIOUS
    <2>3. \A i, l \in P : i # l => rank[i] # rank[l]
      <3> HIDE DEF rank
      <3> QED BY <1>3, <2>2
    <2> HIDE DEF rank
    <2> QED BY <2>1, <2>3 DEF Injection, IsInjective
  <1>5. IsFiniteSet(1 .. Cardinality(P)) /\ Cardinality(1 .. Cardinality(P)) = Cardinality(P)
    BY <1>1, FS_Interval
  <1>6. rank \in Surjection(P, 1 .. Cardinality(P))
    <2> HIDE DEF rank
    <2> QED BY <1>4, <1>5, FS_Injection
  <1>7. PICK i \in P : rank[i] = k
    <2> HIDE DEF rank
    <2> QED BY <1>6 DEF Surjection
  <1>8. \E l \in P : Cardinality({j \in P : j <= l}) = k
    BY <1>7
  <1> QED BY <1>8 DEF PlaceOf

\* The list of some places of a list without repetitions.
LEMMA InOrderIsDistinct ==
  ASSUME NEW B, NEW s \in Seq(B), Distinct(s), NEW P, P \subseteq DOMAIN s
  PROVE  /\ IsFiniteSet(P) /\ Cardinality(P) \in Nat
         /\ InOrder(s, P) \in Seq({s[i] : i \in P})
         /\ Len(InOrder(s, P)) = Cardinality(P)
         /\ Distinct(InOrder(s, P))
  <1>1. PICK n \in Nat : n = Len(s) /\ DOMAIN s = 1 .. n
    OBVIOUS
  <1>2. IsFiniteSet(P) /\ Cardinality(P) \in Nat
    BY <1>1, PlacesAreFinite
  <1>3. PICK m \in Nat : m = Cardinality(P)
    BY <1>2
  <1>4. ASSUME NEW k \in 1 .. m
        PROVE  PlaceOf(P, k) \in P /\ Cardinality({j \in P : j <= PlaceOf(P, k)}) = k
    <2>1. P \subseteq 1 .. n /\ k \in 1 .. Cardinality(P)
      BY <1>1, <1>3
    <2> QED BY <2>1, EveryRankIsTaken
  <1>5. ASSUME NEW k \in 1 .. m, NEW l \in 1 .. m, k # l PROVE PlaceOf(P, k) # PlaceOf(P, l)
    BY <1>4, <1>5
  <1>6. PICK q : q = [k \in 1 .. m |-> s[PlaceOf(P, k)]]
    OBVIOUS
  <1>7. q \in [1 .. m -> {s[i] : i \in P}]
    BY <1>4, <1>6
  <1>8. q \in Seq({s[i] : i \in P}) /\ Len(q) = m /\ DOMAIN q = 1 .. m
    BY <1>7
  <1>9. Distinct(q)
    <2> SUFFICES ASSUME NEW k \in 1 .. m, NEW l \in 1 .. m, k # l PROVE q[k] # q[l]
      BY <1>8 DEF Distinct
    <2>1. PICK a \in DOMAIN s : a = PlaceOf(P, k)
      BY <1>4
    <2>2. PICK b \in DOMAIN s : b = PlaceOf(P, l)
      BY <1>4
    <2>3. a # b
      BY <1>5, <2>1, <2>2
    <2>4. s[a] # s[b]
      BY <2>3 DEF Distinct
    <2> QED BY <1>6, <2>1, <2>2, <2>4
  <1>10. InOrder(s, P) = q
    <2>1. InOrder(s, P) = [k \in 1 .. Cardinality(P) |-> s[PlaceOf(P, k)]]
      BY DEF InOrder
    <2> QED BY <1>3, <1>6, <2>1
  <1> QED BY <1>2, <1>3, <1>8, <1>9, <1>10

\* The pairs made so far and the places they take.
Rivals(bots, r) ==
  /\ r.taken \subseteq 1 .. Len(bots)
  /\ r.pairs \in Seq(SUBSET {bots[i] : i \in r.taken})
  /\ Len(r.pairs) <= SeriesPerWeek
  /\ Cardinality(r.taken) = 2 * Len(r.pairs)
  /\ Couples(r.pairs)

\* A couple of new bots can be added to couples.
LEMMA AppendCouple ==
  ASSUME NEW B, NEW q \in Seq(SUBSET B), Couples(q), NEW c, Couple(c), c \cap B = {}
  PROVE  /\ Append(q, c) \in Seq(SUBSET (B \cup c))
         /\ Len(Append(q, c)) = Len(q) + 1
         /\ Couples(Append(q, c))
  <1>1. PICK S : S = SUBSET (B \cup c)
    OBVIOUS
  <1>2. q \in Seq(S) /\ c \in S
    BY <1>1
  <1>3. PICK r : r = Append(q, c)
    OBVIOUS
  <1>4. /\ r \in Seq(S) /\ Len(q) \in Nat /\ Len(r) = Len(q) + 1 /\ DOMAIN q = 1 .. Len(q)
        /\ DOMAIN r = 1 .. Len(q) + 1 /\ r[Len(q) + 1] = c /\ \A k \in 1 .. Len(q) : r[k] = q[k]
    BY <1>2, <1>3
  <1>5. \A k \in 1 .. Len(q) : q[k] \cap c = {}
    <2>1. \A k \in 1 .. Len(q) : q[k] \in SUBSET B
      OBVIOUS
    <2> QED BY <2>1
  <1>6. \A k \in DOMAIN r : k \in 1 .. Len(q) \/ k = Len(q) + 1
    BY <1>4
  <1>7. \A k \in DOMAIN r : Couple(r[k])
    BY <1>4, <1>6 DEF Couples
  <1>8. \A k, l \in DOMAIN r : k # l => r[k] \cap r[l] = {}
    <2> SUFFICES ASSUME NEW k \in DOMAIN r, NEW l \in DOMAIN r, k # l PROVE r[k] \cap r[l] = {}
      OBVIOUS
    <2>1. CASE k \in 1 .. Len(q) /\ l \in 1 .. Len(q)
      BY <1>4, <2>1 DEF Couples
    <2>2. CASE k \in 1 .. Len(q) /\ l = Len(q) + 1
      BY <1>4, <1>5, <2>2
    <2>3. CASE k = Len(q) + 1 /\ l \in 1 .. Len(q)
      BY <1>4, <1>5, <2>3
    <2> QED BY <1>6, <2>1, <2>2, <2>3
  <1>9. Couples(r)
    BY <1>7, <1>8 DEF Couples
  <1> QED BY <1>1, <1>3, <1>4, <1>9

\* One bot of the ladder.
LEMMA RivalKeepsPairs ==
  ASSUME NEW B, NEW bots \in Seq(B), Distinct(bots), NEW met, NEW r, Rivals(bots, r),
         NEW i \in 1 .. Len(bots) - 1
  PROVE  Rivals(bots, PairRival(bots, met, r, i))
  <1> DEFINE partners == {j \in i + 1 .. Len(bots) : j \notin r.taken /\ {bots[i], bots[j]} \in met}
  <1>1. CASE Len(r.pairs) >= SeriesPerWeek \/ i \in r.taken \/ partners = {}
    <2>1. PairRival(bots, met, r, i) = r
      BY <1>1 DEF PairRival
    <2> QED BY <2>1
  <1>2. CASE ~(Len(r.pairs) >= SeriesPerWeek \/ i \in r.taken \/ partners = {})
    <2>1. PICK n \in Nat : n = Len(bots) /\ DOMAIN bots = 1 .. n
      OBVIOUS
    <2>2. partners \subseteq Nat /\ partners # {} /\ \A k \in partners : k \in 1 .. n /\ k # i /\ k \notin r.taken
      <3>1. i \in 1 .. n
        BY <2>1
      <3>2. \A k \in i + 1 .. n : k \in Nat /\ k \in 1 .. n /\ k # i
        BY <3>1
      <3>3. \A k \in partners : k \in i + 1 .. n /\ k \notin r.taken
        BY <2>1
      <3>4. partners # {}
        BY <1>2
      <3> HIDE DEF partners
      <3> QED BY <3>2, <3>3, <3>4
    <2>3. PICK j : j = Min(partners) /\ j \in partners
      <3> HIDE DEF partners
      <3> QED BY <2>2, MinIsMember
    <2>4. i \in 1 .. n /\ j \in 1 .. n /\ i # j /\ i \notin r.taken /\ j \notin r.taken
      <3>1. i \in 1 .. n
        BY <2>1
      <3> HIDE DEF partners
      <3>2. j \in 1 .. n /\ i # j /\ j \notin r.taken
        BY <2>2, <2>3
      <3> QED BY <1>2, <3>1, <3>2
    <2>5. PICK a, b : a = bots[i] /\ b = bots[j]
      OBVIOUS
    <2>6. PICK A : A = {bots[k] : k \in r.taken}
      OBVIOUS
    <2>7. PICK q, t : q = r.pairs /\ t = r.taken
      OBVIOUS
    <2>8. PICK h : h = PairRival(bots, met, r, i)
      OBVIOUS
    <2>9. h.pairs = Append(q, {a, b}) /\ h.taken = t \cup {i, j}
      <3> HIDE DEF partners
      <3>1. h = [pairs |-> Append(r.pairs, {bots[i], bots[Min(partners)]}),
                 taken |-> r.taken \union {i, Min(partners)}]
        BY <1>2, <2>8 DEF PairRival, partners
      <3> QED BY <2>3, <2>5, <2>7, <3>1
    <2>10. /\ t \subseteq 1 .. n /\ q \in Seq(SUBSET A) /\ Couples(q) /\ Len(q) < SeriesPerWeek
           /\ Cardinality(t) = 2 * Len(q)
      <3>1. q \in Seq(SUBSET A) /\ Couples(q) /\ t \subseteq 1 .. n /\ Cardinality(t) = 2 * Len(q)
        BY <2>1, <2>6, <2>7 DEF Rivals
      <3> QED BY <1>2, <2>7, <3>1, FeaturedAssumption
    <2>11. a # b /\ a \notin A /\ b \notin A
      BY <2>1, <2>4, <2>5, <2>6, <2>7, <2>10 DEF Distinct
    <2>12. /\ h.pairs \in Seq(SUBSET (A \cup {a, b})) /\ Len(h.pairs) = Len(q) + 1 /\ Couples(h.pairs)
      <3>1. PICK c : c = {a, b}
        OBVIOUS
      <3>2. Couple(c) /\ c \cap A = {}
        BY <2>11, <3>1 DEF Couple
      <3>3. h.pairs = Append(q, c)
        BY <2>9, <3>1
      <3>4. /\ h.pairs \in Seq(SUBSET (A \cup c)) /\ Len(h.pairs) = Len(q) + 1 /\ Couples(h.pairs)
        <4>1. q \in Seq(SUBSET A) /\ Couples(q)
          BY <2>10
        <4>2. /\ Append(q, c) \in Seq(SUBSET (A \cup c)) /\ Len(Append(q, c)) = Len(q) + 1
              /\ Couples(Append(q, c))
          BY <3>2, <4>1, AppendCouple
        <4> QED BY <3>3, <4>2
      <3> QED BY <3>1, <3>4
    <2>13. {bots[k] : k \in h.taken} = A \cup {a, b}
      BY <2>5, <2>6, <2>7, <2>9
    <2>14. h.taken \subseteq 1 .. n
      BY <2>4, <2>9, <2>10
    <2>15. Cardinality(h.taken) = Cardinality(t) + 2
      <3>1. IsFiniteSet(t) /\ Cardinality(t) \in Nat
        BY <2>10, PlacesAreFinite
      <3>2. IsFiniteSet(t \cup {i}) /\ Cardinality(t \cup {i}) = Cardinality(t) + 1
        BY <2>4, <2>7, <3>1, FS_AddElement
      <3>3. j \notin t \cup {i}
        BY <2>4, <2>7
      <3>4. Cardinality((t \cup {i}) \cup {j}) = Cardinality(t) + 1 + 1
        BY <3>2, <3>3, FS_AddElement
      <3>5. h.taken = (t \cup {i}) \cup {j}
        BY <2>9
      <3> QED BY <3>1, <3>4, <3>5
    <2>16. Len(h.pairs) <= SeriesPerWeek /\ Cardinality(h.taken) = 2 * Len(h.pairs)
      <3>1. Len(q) \in Nat
        BY <2>10
      <3> QED BY <2>10, <2>12, <2>15, <3>1, FeaturedAssumption
    <2>17. Rivals(bots, h)
      BY <2>1, <2>12, <2>13, <2>14, <2>16 DEF Rivals
    <2> QED BY <2>8, <2>17
  <1> QED BY <1>1, <1>2

\* The walk down the ladder: its recursion is defined, and its pairs stay apart.
LEMMA PairRivalsApart ==
  ASSUME NEW B, NEW bots \in Seq(B), Distinct(bots), Len(bots) >= 1, NEW met
  PROVE  Rivals(bots, PairRivals(bots, met))
  <1> DEFINE start == [pairs |-> <<>>, taken |-> {}]
             step(f, i) == IF i = 0 THEN start ELSE PairRival(bots, met, f[i - 1], i)
             Sol(f, n) == f = [i \in 0 .. n |-> step(f, i)]
             Bad == {n \in Nat : ~ \E f : Sol(f, n)}
  <1>0. Rivals(bots, start)
    <2>1. Cardinality({}) = 0
      BY FS_EmptySet
    <2>2. PICK e : e = <<>>
      OBVIOUS
    <2>3. e \in Seq(SUBSET {bots[i] : i \in {}}) /\ Len(e) = 0 /\ DOMAIN e = {}
      BY <2>2
    <2>4. start.pairs = e /\ start.taken = {}
      BY <2>2
    <2> HIDE DEF start
    <2> QED BY <2>1, <2>3, <2>4, FeaturedAssumption DEF Rivals, Couples
  <1> HIDE DEF start
  <1>1. ASSUME NEW n \in Bad, \A m \in Bad : n <= m PROVE FALSE
    <2>1. CASE n = 0
      <3>1. Sol([i \in 0 .. 0 |-> start], 0)
        <4>1. \A i \in 0 .. 0 : i = 0
          OBVIOUS
        <4> QED BY <4>1
      <3> QED BY <2>1, <3>1
    <2>2. CASE n # 0
      <3>1. n \in Nat /\ n - 1 \in Nat
        BY <2>2
      <3>2. n - 1 \notin Bad
        <4> HIDE DEF Bad
        <4>1. ~ (n <= n - 1)
          BY <3>1
        <4> QED BY <1>1, <4>1
      <3>3. PICK f : Sol(f, n - 1)
        BY <3>1, <3>2
      <3>4. PICK h : h = [i \in 0 .. n |-> IF i < n THEN f[i] ELSE PairRival(bots, met, f[n - 1], n)]
        OBVIOUS
      <3>5. ASSUME NEW i \in 0 .. n PROVE h[i] = step(h, i)
        <4>1. CASE i < n
          <5>1. i \in 0 .. n - 1
            BY <3>1, <4>1
          <5>2. h[i] = f[i] /\ f[i] = step(f, i)
            BY <3>3, <3>4, <4>1, <5>1
          <5>3. i # 0 => h[i - 1] = f[i - 1]
            <6>1. i # 0 => i - 1 \in 0 .. n /\ i - 1 < n
              BY <3>1, <4>1
            <6> QED BY <3>4, <6>1
          <5> QED BY <5>2, <5>3
        <4>2. CASE i = n
          <5>1. h[n] = PairRival(bots, met, f[n - 1], n)
            BY <3>1, <3>4
          <5>2. h[n - 1] = f[n - 1]
            BY <3>1, <3>4
          <5> QED BY <2>2, <4>2, <5>1, <5>2
        <4> QED BY <3>1, <4>1, <4>2
      <3>6. Sol(h, n)
        <4>1. h = [i \in 0 .. n |-> h[i]]
          BY <3>4
        <4> HIDE DEF step
        <4> QED BY <3>5, <4>1
      <3> QED BY <3>6
    <2> QED BY <2>1, <2>2
  <1>2. PICK last \in Nat : last = Len(bots) - 1
    OBVIOUS
  <1>3. PICK scan : scan = CHOOSE f : Sol(f, last)
    OBVIOUS
  <1>4. Sol(scan, last)
    <2>1. Bad \subseteq Nat
      OBVIOUS
    <2>2. Bad = {}
      <3> HIDE DEF Bad
      <3> QED BY <1>1, <2>1, LeastNat
    <2> HIDE DEF Sol
    <2>3. \E f : Sol(f, last)
      BY <2>2
    <2> QED BY <1>3, <2>3
  <1>5. PairRivals(bots, met) = scan[last]
    BY <1>2, <1>3 DEF PairRivals, start
  <1> DEFINE Worse == {i \in 0 .. last : ~ Rivals(bots, scan[i])}
  <1>6. ASSUME NEW i \in Worse, \A j \in Worse : i <= j PROVE FALSE
    <2>1. i \in 0 .. last /\ scan[i] = step(scan, i)
      BY <1>4
    <2>2. CASE i = 0
      BY <1>0, <2>1, <2>2
    <2>3. CASE i # 0
      <3>1. i - 1 \in 0 .. last /\ ~ (i <= i - 1) /\ i \in 1 .. Len(bots) - 1
        BY <1>2, <2>1, <2>3
      <3>2. Rivals(bots, scan[i - 1])
        BY <1>6, <3>1
      <3>3. Rivals(bots, PairRival(bots, met, scan[i - 1], i))
        BY <3>1, <3>2, RivalKeepsPairs
      <3> QED BY <2>1, <2>3, <3>3
    <2> QED BY <2>2, <2>3
  <1>7. Worse = {}
    <2>1. Worse \subseteq Nat
      OBVIOUS
    <2> HIDE DEF Worse
    <2> QED BY <1>6, <2>1, LeastNat
  <1>8. last \in 0 .. last
    OBVIOUS
  <1> QED BY <1>5, <1>7, <1>8

\* The smaller of two naturals.
LEMMA SmallerOfTwo ==
  ASSUME NEW a \in Int, NEW b \in Int
  PROVE  /\ Min({a, b}) = IF a <= b THEN a ELSE b
         /\ Max({a, b}) = IF a <= b THEN b ELSE a
  BY DEF Min, Max

\* Two lists of pairs without a bot in common.
Apart(A, C) == A \cap C = {}
Pairings(A, q) == q \in Seq(SUBSET A) /\ Couples(q)

\* Couples of different bots can be put one after the other.
LEMMA ConcatCouples ==
  ASSUME NEW A, NEW C, Apart(A, C), NEW p, NEW q, Pairings(A, p), Pairings(C, q)
  PROVE  Len(p \o q) = Len(p) + Len(q) /\ Pairings(A \cup C, p \o q)
  <1>0. PICK r : r = p \o q
    OBVIOUS
  <1>1. PICK S : S = SUBSET (A \cup C)
    OBVIOUS
  <1>2. p \in Seq(SUBSET A) /\ q \in Seq(SUBSET C) /\ Couples(p) /\ Couples(q)
    BY DEF Pairings
  <1>3. p \in Seq(S) /\ q \in Seq(S)
    BY <1>1, <1>2
  <1>4. PICK m \in Nat, n \in Nat : m = Len(p) /\ n = Len(q) /\ DOMAIN p = 1 .. m /\ DOMAIN q = 1 .. n
    BY <1>2
  <1>5. r \in Seq(S) /\ Len(r) = m + n /\ \A i \in 1 .. m + n : r[i] = IF i <= m THEN p[i] ELSE q[i - m]
    BY <1>0, <1>3, <1>4, ConcatProperties
  <1>6. DOMAIN r = 1 .. m + n
    BY <1>5
  <1>7. ASSUME NEW i \in 1 .. m + n
        PROVE  (i \in 1 .. m /\ r[i] = p[i]) \/ (i - m \in 1 .. n /\ r[i] = q[i - m])
    BY <1>5
  <1>8. \A i \in DOMAIN r : Couple(r[i])
    BY <1>2, <1>4, <1>6, <1>7 DEF Couples
  <1>9. ASSUME NEW i \in 1 .. m, NEW j \in 1 .. n PROVE p[i] \cap q[j] = {}
    <2>1. p[i] \in SUBSET A /\ q[j] \in SUBSET C
      BY <1>2, <1>4
    <2> QED BY <2>1 DEF Apart
  <1>10. \A i, j \in DOMAIN r : i # j => r[i] \cap r[j] = {}
    <2> SUFFICES ASSUME NEW i \in 1 .. m + n, NEW j \in 1 .. m + n, i # j PROVE r[i] \cap r[j] = {}
      BY <1>6
    <2>1. CASE i \in 1 .. m /\ r[i] = p[i] /\ j \in 1 .. m /\ r[j] = p[j]
      BY <1>2, <1>4, <2>1 DEF Couples
    <2>2. CASE i \in 1 .. m /\ r[i] = p[i] /\ j - m \in 1 .. n /\ r[j] = q[j - m]
      BY <1>9, <2>2
    <2>3. CASE i - m \in 1 .. n /\ r[i] = q[i - m] /\ j \in 1 .. m /\ r[j] = p[j]
      <3>1. r[j] \cap r[i] = {}
        BY <1>9, <2>3
      <3> QED BY <3>1
    <2>4. CASE i - m \in 1 .. n /\ r[i] = q[i - m] /\ j - m \in 1 .. n /\ r[j] = q[j - m]
      <3>1. i - m # j - m
        OBVIOUS
      <3> QED BY <1>2, <1>4, <2>4, <3>1 DEF Couples
    <2> QED BY <1>7, <2>1, <2>2, <2>3, <2>4
  <1>11. Couples(r)
    BY <1>8, <1>10 DEF Couples
  <1>12. Pairings(A \cup C, r)
    BY <1>1, <1>5, <1>11 DEF Pairings
  <1> QED BY <1>0, <1>4, <1>5, <1>12

\* Neighbours of a list without repetitions.
LEMMA NeighboursAreCouples ==
  ASSUME NEW L, NEW left \in Seq(L), Distinct(left), NEW m \in Nat, 2 * m <= Len(left)
  PROVE  LET adjacent == [k \in 1 .. m |-> {left[2 * k - 1], left[2 * k]}]
         IN  adjacent \in Seq(SUBSET L) /\ Len(adjacent) = m /\ Couples(adjacent)
  <1>1. PICK n \in Nat : n = Len(left) /\ DOMAIN left = 1 .. n /\ 2 * m <= n
    OBVIOUS
  <1>2. PICK q : q = [k \in 1 .. m |-> {left[2 * k - 1], left[2 * k]}]
    OBVIOUS
  <1>3. ASSUME NEW k \in 1 .. m PROVE 2 * k - 1 \in 1 .. n /\ 2 * k \in 1 .. n /\ 2 * k - 1 # 2 * k
    BY <1>1
  <1>4. ASSUME NEW k \in 1 .. m PROVE q[k] \in SUBSET L
    <2>1. left[2 * k - 1] \in L /\ left[2 * k] \in L
      BY <1>1, <1>3
    <2> QED BY <1>2, <2>1
  <1>5. q \in Seq(SUBSET L) /\ Len(q) = m /\ DOMAIN q = 1 .. m
    <2>1. q \in [1 .. m -> SUBSET L]
      BY <1>2, <1>4
    <2> QED BY <2>1
  <1>6. ASSUME NEW k \in 1 .. m PROVE Couple(q[k])
    <2>1. left[2 * k - 1] # left[2 * k]
      BY <1>1, <1>3 DEF Distinct
    <2>2. q[k] = {left[2 * k - 1], left[2 * k]}
      BY <1>2
    <2> QED BY <2>1, <2>2 DEF Couple
  <1>7. ASSUME NEW k \in 1 .. m, NEW l \in 1 .. m, k # l PROVE q[k] \cap q[l] = {}
    <2>1. PICK a \in 1 .. n, b \in 1 .. n, c \in 1 .. n, d \in 1 .. n :
            a = 2 * k - 1 /\ b = 2 * k /\ c = 2 * l - 1 /\ d = 2 * l
      BY <1>3
    <2>2. a # c /\ a # d /\ b # c /\ b # d
      BY <1>7, <2>1
    <2>3. left[a] # left[c] /\ left[a] # left[d] /\ left[b] # left[c] /\ left[b] # left[d]
      BY <1>1, <2>2 DEF Distinct
    <2>4. q[k] = {left[a], left[b]} /\ q[l] = {left[c], left[d]}
      BY <1>2, <2>1
    <2> QED BY <2>3, <2>4
  <1>8. Couples(q)
    BY <1>5, <1>6, <1>7 DEF Couples
  <1> QED BY <1>2, <1>5, <1>8

\* The whole pairing: with at least two bots a series it makes them all without the
\* loop that reuses bots.
LEMMA PairUpIsDisjoint ==
  ASSUME NEW B, NEW bots \in Seq(B), Distinct(bots), Len(bots) >= 2 * SeriesPerWeek, NEW met
  PROVE  /\ PairUp(bots, met) \in Seq(SUBSET {bots[i] : i \in DOMAIN bots})
         /\ Len(PairUp(bots, met)) = SeriesPerWeek
         /\ Couples(PairUp(bots, met))
  <1>1. PICK n \in Nat : n = Len(bots) /\ DOMAIN bots = 1 .. n /\ n >= 2 * SeriesPerWeek /\ n >= 1
    BY FeaturedAssumption
  <1>2. PICK rivals : rivals = PairRivals(bots, met)
    OBVIOUS
  <1>3. Rivals(bots, rivals)
    BY <1>1, <1>2, PairRivalsApart
  <1>4. PICK p, t : p = rivals.pairs /\ t = rivals.taken
    OBVIOUS
  <1>5. PICK A : A = {bots[i] : i \in t}
    OBVIOUS
  <1>6. /\ t \subseteq 1 .. n /\ p \in Seq(SUBSET A) /\ Len(p) \in Nat /\ Len(p) <= SeriesPerWeek
        /\ Cardinality(t) = 2 * Len(p) /\ Couples(p)
    BY <1>1, <1>3, <1>4, <1>5 DEF Rivals
  <1>7. PICK P : P = DOMAIN bots \ t
    OBVIOUS
  <1>8. PICK L : L = {bots[i] : i \in P}
    OBVIOUS
  <1>9. PICK left : left = InOrder(bots, P)
    OBVIOUS
  <1>10. left \in Seq(L) /\ Len(left) = Cardinality(P) /\ Distinct(left) /\ Len(left) \in Nat
    <2>1. P \subseteq DOMAIN bots
      BY <1>7
    <2> QED BY <1>8, <1>9, <2>1, InOrderIsDistinct
  <1>11. Len(left) = n - 2 * Len(p)
    <2>1. IsFiniteSet(t) /\ IsFiniteSet(P) /\ Cardinality(P) \in Nat
      BY <1>1, <1>6, <1>7, PlacesAreFinite
    <2>2. t \cap P = {} /\ t \cup P = 1 .. n
      BY <1>1, <1>6, <1>7
    <2>3. Cardinality(1 .. n) = Cardinality(t) + Cardinality(P) - Cardinality({})
      BY <2>1, <2>2, FS_Union
    <2>4. Cardinality(1 .. n) = n /\ Cardinality({}) = 0
      <3>1. PICK one \in Int : one = 1
        OBVIOUS
      <3>2. Cardinality(one .. n) = IF one > n THEN 0 ELSE n - one + 1
        BY FS_Interval
      <3> QED BY <1>1, <3>1, <3>2, FS_EmptySet
    <2> QED BY <1>6, <1>10, <2>1, <2>3, <2>4
  <1>12. PICK room \in Nat : room = SeriesPerWeek - Len(p)
    BY <1>6, FeaturedAssumption
  <1>13. 2 * room <= Len(left)
    BY <1>1, <1>6, <1>11, <1>12, FeaturedAssumption
  <1>14. Min({room, Len(left) \div 2}) = room
    <2>1. Len(left) \div 2 \in Int /\ room <= Len(left) \div 2
      BY <1>10, <1>13
    <2> QED BY <2>1, SmallerOfTwo
  <1>15. PICK adjacent : adjacent = [k \in 1 .. room |-> {left[2 * k - 1], left[2 * k]}]
    OBVIOUS
  <1>16. adjacent \in Seq(SUBSET L) /\ Len(adjacent) = room /\ Couples(adjacent)
    BY <1>10, <1>13, <1>15, NeighboursAreCouples
  <1>17. Apart(A, L)
    BY <1>1, <1>5, <1>6, <1>7, <1>8 DEF Distinct, Apart
  <1>18. PICK paired : paired = p \o adjacent
    OBVIOUS
  <1>19. paired \in Seq(SUBSET (A \cup L)) /\ Len(paired) = Len(p) + Len(adjacent) /\ Couples(paired)
    <2>1. Pairings(A, p) /\ Pairings(L, adjacent)
      BY <1>6, <1>16 DEF Pairings
    <2>2. Len(p \o adjacent) = Len(p) + Len(adjacent) /\ Pairings(A \cup L, p \o adjacent)
      BY <1>17, <2>1, ConcatCouples
    <2> QED BY <1>18, <2>2 DEF Pairings
  <1>20. Len(paired) = SeriesPerWeek
    BY <1>6, <1>12, <1>16, <1>19, FeaturedAssumption
  <1>21. A \cup L = {bots[i] : i \in DOMAIN bots}
    BY <1>1, <1>5, <1>6, <1>7, <1>8
  <1>22. Max({0, Min({SeriesPerWeek, Len(left) - 1}) - Len(paired)}) = 0
    <2>1. PICK x \in Int : x = Min({SeriesPerWeek, Len(left) - 1}) /\ x <= SeriesPerWeek
      <3>1. Len(left) - 1 \in Int /\ SeriesPerWeek \in Int
        BY <1>10, FeaturedAssumption
      <3> QED BY <3>1, SmallerOfTwo
    <2>2. PICK y \in Int : y = x - Len(paired) /\ y <= 0
      BY <1>20, <2>1, FeaturedAssumption
    <2>3. Max({0, y}) = 0
      <3>1. PICK zero \in Int : zero = 0
        OBVIOUS
      <3>2. Max({zero, y}) = IF zero <= y THEN y ELSE zero
        BY SmallerOfTwo
      <3> QED BY <2>2, <3>1, <3>2
    <2> QED BY <2>1, <2>2, <2>3
  <1>23. PICK filled : filled = [k \in 1 .. Max({0, Min({SeriesPerWeek, Len(left) - 1}) - Len(paired)}) |->
                                   {left[Len(paired) + k], left[Len(paired) + k + 1]}]
    OBVIOUS
  <1>24. filled = <<>>
    <2>1. 1 .. 0 = {}
      OBVIOUS
    <2>2. filled \in [1 .. 0 -> {}]
      BY <1>22, <1>23, <2>1
    <2>3. filled \in Seq({}) /\ Len(filled) = 0
      BY <2>2
    <2> QED BY <2>3, EmptySeq
  <1>25. PairUp(bots, met) = paired \o filled
    BY <1>2, <1>4, <1>7, <1>9, <1>12, <1>14, <1>15, <1>18, <1>23 DEF PairUp
  <1>26. PairUp(bots, met) = paired
    BY <1>19, <1>24, <1>25, ConcatEmptySeq
  <1> QED BY <1>19, <1>20, <1>21, <1>26

\* The bots of this Friday's series.
Booked == UNION {s.bots : s \in featured}

\* The inductive invariant: the pairs still to be inserted share no bot with one
\* another nor with the series that exist, and there is room for all of them.
FeaturedInv ==
  /\ IsFiniteSet(featured) /\ IsFiniteSet(Booked)
  /\ Cardinality(Booked) = 2 * Cardinality(featured)
  /\ toInsert \in Seq(SUBSET UNION {toInsert[k] : k \in DOMAIN toInsert})
  /\ Couples(toInsert)
  /\ \A k \in DOMAIN toInsert : toInsert[k] \cap Booked = {}
  /\ Cardinality(featured) + Len(toInsert) <= SeriesPerWeek

\* Before the first series nobody is booked.
LEMMA NothingBooked == featured = {} => /\ IsFiniteSet(featured) /\ IsFiniteSet(Booked) /\ Booked = {}
                                        /\ Cardinality(featured) = 0 /\ Cardinality(Booked) = 0
  <1> SUFFICES ASSUME featured = {} PROVE /\ IsFiniteSet(featured) /\ IsFiniteSet(Booked) /\ Booked = {}
                                          /\ Cardinality(featured) = 0 /\ Cardinality(Booked) = 0
    OBVIOUS
  <1>1. Booked = {}
    BY DEF Booked
  <1> QED BY <1>1, FS_EmptySet

\* An empty list holds couples.
LEMMA NothingToInsert ==
  ASSUME NEW q, q = <<>>
  PROVE  q \in Seq(SUBSET UNION {q[k] : k \in DOMAIN q}) /\ Couples(q) /\ Len(q) = 0 /\ DOMAIN q = {}
  BY DEF Couples

\* A week without series satisfies the invariant.
LEMMA FeaturedInitially == FeaturedInit => FeaturedInv
  <1> SUFFICES ASSUME FeaturedInit PROVE FeaturedInv
    OBVIOUS
  <1>1. featured = {} /\ toInsert = <<>>
    BY DEF FeaturedInit
  <1>2. /\ toInsert \in Seq(SUBSET UNION {toInsert[k] : k \in DOMAIN toInsert}) /\ Couples(toInsert)
        /\ Len(toInsert) = 0 /\ DOMAIN toInsert = {}
    BY <1>1, NothingToInsert
  <1>3. /\ IsFiniteSet(featured) /\ IsFiniteSet(Booked)
        /\ Cardinality(featured) = 0 /\ Cardinality(Booked) = 0
    BY <1>1, NothingBooked
  <1>4. Cardinality(featured) + Len(toInsert) <= SeriesPerWeek /\ Cardinality(Booked) = 2 * Cardinality(featured)
    BY <1>2, <1>3, FeaturedAssumption
  <1> QED BY <1>2, <1>3, <1>4 DEF FeaturedInv

\* A new Friday begins without series.
LEMMA EveningKeeps == FeaturedInv /\ FridayEvening => FeaturedInv'
  <1> SUFFICES ASSUME FeaturedInv, FridayEvening PROVE FeaturedInv'
    OBVIOUS
  <1>1. featured' = {} /\ toInsert' = <<>>
    BY DEF FridayEvening
  <1>2. /\ IsFiniteSet(featured') /\ IsFiniteSet(Booked') /\ Booked' = {}
        /\ Cardinality(featured') = 0 /\ Cardinality(Booked') = 0
    BY <1>1, FS_EmptySet DEF Booked
  <1>3. /\ toInsert' \in Seq(SUBSET UNION {toInsert'[k] : k \in DOMAIN toInsert'}) /\ Couples(toInsert')
        /\ Len(toInsert') = 0 /\ DOMAIN toInsert' = {}
    BY <1>1, NothingToInsert
  <1>4. /\ Cardinality(featured') + Len(toInsert') <= SeriesPerWeek
        /\ Cardinality(Booked') = 2 * Cardinality(featured')
    BY <1>2, <1>3, FeaturedAssumption
  <1> QED BY <1>2, <1>3, <1>4 DEF FeaturedInv

\* The pairs a tick draws up are couples, and nobody is booked yet.
LEMMA TickKeeps == FeaturedInv /\ TickFeaturedSeries => FeaturedInv'
  <1> SUFFICES ASSUME FeaturedInv, TickFeaturedSeries PROVE FeaturedInv'
    OBVIOUS
  <1>1. PICK up \in SUBSET DOMAIN TopBots :
          /\ EnoughBots(InOrder(TopBots, up))
          /\ \E met \in SUBSET kSubset(2, {TopBots[i] : i \in up}) : toInsert' = PairUp(InOrder(TopBots, up), met)
    BY DEF TickFeaturedSeries
  <1>2. PICK met : toInsert' = PairUp(InOrder(TopBots, up), met)
    BY <1>1
  <1>3. PICK bots : bots = InOrder(TopBots, up)
    OBVIOUS
  <1>4. featured = {} /\ featured' = {}
    BY DEF TickFeaturedSeries
  <1>5. bots \in Seq({TopBots[i] : i \in up}) /\ Distinct(bots) /\ Len(bots) >= 2 * SeriesPerWeek
    <2>1. PICK B : B = {TopBots[i] : i \in DOMAIN TopBots} /\ TopBots \in Seq(B)
      BY FeaturedAssumption
    <2>2. Distinct(TopBots)
      BY FeaturedAssumption DEF Distinct
    <2>3. bots \in Seq({TopBots[i] : i \in up}) /\ Distinct(bots)
      BY <1>3, <2>1, <2>2, InOrderIsDistinct
    <2>4. Len(bots) \in Nat /\ Len(bots) >= MinFeaturedBots
      BY <1>1, <1>3, <2>3 DEF EnoughBots
    <2> QED BY <2>3, <2>4, FeaturedAssumption
  <1>6. PICK q, D : q = PairUp(bots, met) /\ D = {bots[i] : i \in DOMAIN bots}
    OBVIOUS
  <1>7. q \in Seq(SUBSET D) /\ Len(q) = SeriesPerWeek /\ Couples(q)
    BY <1>5, <1>6, PairUpIsDisjoint
  <1>8. toInsert' = q
    BY <1>2, <1>3, <1>6
  <1>9. q \in Seq(SUBSET UNION {q[k] : k \in DOMAIN q})
    <2>1. Len(q) \in Nat /\ DOMAIN q = 1 .. Len(q) /\ q = [k \in 1 .. Len(q) |-> q[k]]
      BY <1>7
    <2>2. \A k \in DOMAIN q : q[k] \in SUBSET UNION {q[l] : l \in DOMAIN q}
      OBVIOUS
    <2>3. q \in [1 .. Len(q) -> SUBSET UNION {q[l] : l \in DOMAIN q}]
      BY <2>1, <2>2
    <2> QED BY <2>1, <2>3
  <1>10. /\ IsFiniteSet(featured') /\ IsFiniteSet(Booked') /\ Booked' = {}
         /\ Cardinality(featured') = 0 /\ Cardinality(Booked') = 0
    BY <1>4, FS_EmptySet DEF Booked
  <1> QED BY <1>7, <1>8, <1>9, <1>10, FeaturedAssumption DEF FeaturedInv

\* Inserting a series books the bots of the first pair of the list.
LEMMA InsertKeeps ==
  FeaturedInv /\ (\E inserted, withGames \in BOOLEAN : InsertFeaturedSeries(inserted, withGames)) => FeaturedInv'
  <1> SUFFICES ASSUME FeaturedInv, NEW inserted \in BOOLEAN, NEW withGames \in BOOLEAN,
                      InsertFeaturedSeries(inserted, withGames)
               PROVE  FeaturedInv'
    OBVIOUS
  <1>1. PICK S : S = SUBSET UNION {toInsert[k] : k \in DOMAIN toInsert} /\ toInsert \in Seq(S)
    BY DEF FeaturedInv
  <1>2. PICK q, t, h : q = toInsert /\ t = Tail(q) /\ h = Head(q) /\ q \in Seq(S) /\ q # <<>>
    BY <1>1 DEF InsertFeaturedSeries
  <1>3. PICK n \in Nat : n = Len(q) /\ n >= 1 /\ DOMAIN q = 1 .. n
    BY <1>2
  <1>4. /\ t \in Seq(S) /\ Len(t) = n - 1 /\ DOMAIN t = 1 .. n - 1 /\ \A i \in 1 .. n - 1 : t[i] = q[i + 1]
        /\ h = q[1]
    BY <1>2, <1>3, HeadTailProperties
  <1>5. toInsert' = t
    BY <1>2 DEF InsertFeaturedSeries
  <1>6. /\ \A k \in 1 .. n : Couple(q[k]) /\ q[k] \cap Booked = {}
        /\ \A k, l \in 1 .. n : k # l => q[k] \cap q[l] = {}
    BY <1>2, <1>3 DEF FeaturedInv, Couples
  <1>7. Couples(t) /\ \A k \in 1 .. n - 1 : t[k] \cap Booked = {} /\ t[k] \cap h = {}
    <2>1. \A k \in 1 .. n - 1 : k + 1 \in 1 .. n /\ k + 1 # 1 /\ t[k] = q[k + 1]
      BY <1>4
    <2>2. 1 \in 1 .. n
      BY <1>3
    <2>3. \A k \in 1 .. n - 1 : Couple(t[k]) /\ t[k] \cap Booked = {} /\ t[k] \cap h = {}
      BY <1>4, <1>6, <2>1, <2>2
    <2>4. \A k, l \in 1 .. n - 1 : k # l => t[k] \cap t[l] = {}
      <3>1. \A k, l \in 1 .. n - 1 : k # l => k + 1 # l + 1
        OBVIOUS
      <3> QED BY <1>6, <2>1, <3>1
    <2> QED BY <1>4, <2>3, <2>4 DEF Couples
  <1>8. t \in Seq(SUBSET UNION {t[k] : k \in DOMAIN t})
    <2>1. \A k \in DOMAIN t : t[k] \in SUBSET UNION {t[l] : l \in DOMAIN t}
      OBVIOUS
    <2>2. t = [k \in 1 .. n - 1 |-> t[k]] /\ n - 1 \in Nat
      BY <1>3, <1>4
    <2>3. t \in [1 .. n - 1 -> SUBSET UNION {t[l] : l \in DOMAIN t}]
      BY <1>4, <2>1, <2>2
    <2> QED BY <2>2, <2>3
  <1>9. /\ IsFiniteSet(featured) /\ IsFiniteSet(Booked) /\ Cardinality(featured) \in Nat
        /\ Cardinality(Booked) = 2 * Cardinality(featured) /\ Cardinality(featured) + n <= SeriesPerWeek
    <2>1. /\ IsFiniteSet(featured) /\ IsFiniteSet(Booked)
          /\ Cardinality(Booked) = 2 * Cardinality(featured)
          /\ Cardinality(featured) + n <= SeriesPerWeek
      BY <1>2, <1>3 DEF FeaturedInv
    <2> QED BY <2>1, FS_CardinalityType
  <1>10. CASE ~inserted
    <2>1. featured' = featured
      BY <1>10 DEF InsertFeaturedSeries
    <2>2. Booked' = Booked
      BY <2>1 DEF Booked
    <2>3. Cardinality(featured) + Len(t) <= SeriesPerWeek
      BY <1>3, <1>4, <1>9, FeaturedAssumption
    <2>4. \A k \in DOMAIN t : t[k] \cap Booked = {}
      BY <1>4, <1>7
    <2> QED BY <1>5, <1>7, <1>8, <1>9, <2>1, <2>2, <2>3, <2>4 DEF FeaturedInv
  <1>11. CASE inserted
    <2>1. PICK row : row = [bots |-> h, games |-> withGames]
      OBVIOUS
    <2>2. featured' = featured \cup {row} /\ row.bots = h
      BY <1>2, <1>11, <2>1 DEF InsertFeaturedSeries
    <2>3. Booked' = Booked \cup h
      BY <2>2 DEF Booked
    <2>4. 1 \in 1 .. n
      BY <1>3
    <2>5. PICK a, b : a # b /\ h = {a, b}
      <3>1. Couple(h)
        BY <1>4, <1>6, <2>4
      <3> QED BY <3>1 DEF Couple
    <2>6. a \notin Booked /\ b \notin Booked
      BY <1>4, <1>6, <2>4, <2>5
    <2>7. row \notin featured
      BY <2>2, <2>5, <2>6 DEF Booked
    <2>8. IsFiniteSet(featured') /\ Cardinality(featured') = Cardinality(featured) + 1
      BY <1>9, <2>2, <2>7, FS_AddElement
    <2>9. IsFiniteSet(Booked \cup {a}) /\ Cardinality(Booked \cup {a}) = Cardinality(Booked) + 1
      BY <1>9, <2>6, FS_AddElement
    <2>10. b \notin Booked \cup {a} /\ Booked' = (Booked \cup {a}) \cup {b}
      BY <2>3, <2>5, <2>6
    <2>11. IsFiniteSet(Booked') /\ Cardinality(Booked') = Cardinality(Booked \cup {a}) + 1
      BY <2>9, <2>10, FS_AddElement
    <2>12. Cardinality(Booked') = 2 * Cardinality(featured')
      BY <1>9, <2>8, <2>9, <2>11
    <2>13. Cardinality(featured') + Len(t) <= SeriesPerWeek
      BY <1>3, <1>4, <1>9, <2>8, FeaturedAssumption
    <2>14. \A k \in DOMAIN t : t[k] \cap Booked' = {}
      BY <1>4, <1>7, <2>3
    <2> QED BY <1>5, <1>7, <1>8, <2>8, <2>11, <2>12, <2>13, <2>14 DEF FeaturedInv
  <1> QED BY <1>10, <1>11

\* A stop forgets the list.
LEMMA StopKeeps == FeaturedInv /\ StopWhileInserting => FeaturedInv'
  <1> SUFFICES ASSUME FeaturedInv, StopWhileInserting PROVE FeaturedInv'
    OBVIOUS
  <1>1. featured' = featured /\ toInsert' = <<>>
    BY DEF StopWhileInserting
  <1>2. Booked' = Booked
    BY <1>1 DEF Booked
  <1>3. PICK n \in Nat : n = Len(toInsert)
    BY DEF FeaturedInv
  <1>4. Cardinality(featured) \in Nat /\ Cardinality(featured) + n <= SeriesPerWeek
    BY <1>3, FS_CardinalityType DEF FeaturedInv
  <1>5. Cardinality(featured) + 0 <= SeriesPerWeek
    BY <1>4, FeaturedAssumption
  <1> QED BY <1>1, <1>2, <1>5, NothingToInsert DEF FeaturedInv

\* Every step of the featured series keeps the invariant.
LEMMA FeaturedStep == FeaturedInv /\ [FeaturedNext]_featuredVars => FeaturedInv'
  <1> SUFFICES ASSUME FeaturedInv, [FeaturedNext]_featuredVars PROVE FeaturedInv'
    OBVIOUS
  <1>1. CASE UNCHANGED featuredVars \/ EveningEnds
    <2>1. featured' = featured /\ toInsert' = toInsert
      BY <1>1 DEF EveningEnds, featuredVars
    <2>2. Booked' = Booked
      BY <2>1 DEF Booked
    <2> QED BY <2>1, <2>2 DEF FeaturedInv
  <1> QED BY <1>1, EveningKeeps, TickKeeps, InsertKeeps, StopKeeps DEF FeaturedNext

\* No bot is in two featured series of a Friday and there are never more than planned,
\* for any ladder, any match history, any number of series and any failures.
THEOREM FeaturedNeverOverlap == FeaturedSpec => []FeaturedAreDisjoint
  <1>1. FeaturedInv => FeaturedAreDisjoint
    <2> SUFFICES ASSUME FeaturedInv PROVE FeaturedAreDisjoint
      OBVIOUS
    <2>1. PICK n \in Nat, m \in Nat : n = Len(toInsert) /\ m = Cardinality(featured)
      BY FS_CardinalityType DEF FeaturedInv
    <2>2. m + n <= SeriesPerWeek
      BY <2>1 DEF FeaturedInv
    <2>3. Cardinality(featured) <= SeriesPerWeek
      BY <2>1, <2>2, FeaturedAssumption
    <2> QED BY <2>3 DEF FeaturedInv, FeaturedAreDisjoint, Booked
  <1> QED BY <1>1, FeaturedInitially, FeaturedStep, PTL DEF FeaturedSpec

-----------------------------------------------------------------------------
(***************************************************************************)
(* The built-in bots.                                                      *)
(***************************************************************************)
\* The orders given so far are a list, lead to different tiles, and every tile they
\* lead to is claimed.
Separate(o, c) ==
  /\ o \in Seq(ToSet(o))
  /\ \A i \in DOMAIN o : Destination(o[i]) \in c
  /\ \A i, j \in DOMAIN o : i # j => Destination(o[i]) # Destination(o[j])

\* The inductive invariant: nothing is ordered before a bot has looked.
OrdersInv ==
  /\ view \in Views
  /\ phase = "look" => orders = <<>> /\ claimed = {} /\ targets = <<>>
  /\ strategy \in Claiming => Separate(orders, claimed)

\* An order to a tile nobody has claimed, which is claimed with it.
LEMMA AppendKeepsSeparate ==
  ASSUME NEW o, NEW c, NEW u, NEW d, Separate(o, c), SimulateMove(u, d) \notin c
  PROVE  Separate(Append(o, <<u, d>>), c \cup {SimulateMove(u, d)})
  <1>1. PICK S : S = ToSet(o) \cup {<<u, d>>}
    OBVIOUS
  <1>2. o \in Seq(S) /\ <<u, d>> \in S
    <2>1. o \in Seq(ToSet(o))
      BY DEF Separate
    <2>2. ToSet(o) \subseteq S
      BY <1>1
    <2> QED BY <1>1, <2>1, <2>2
  <1>3. PICK q : q = Append(o, <<u, d>>)
    OBVIOUS
  <1>4. /\ q \in Seq(S) /\ Len(o) \in Nat /\ DOMAIN o = 1..Len(o) /\ DOMAIN q = 1..Len(o) + 1
        /\ q[Len(o) + 1] = <<u, d>> /\ \A i \in 1..Len(o) : q[i] = o[i]
    BY <1>2, <1>3
  <1>5. Destination(<<u, d>>) = SimulateMove(u, d)
    BY DEF Destination
  <1>6. q \in Seq(ToSet(q))
    BY <1>4 DEF ToSet
  <1>7. \A i \in 1..Len(o) : Destination(q[i]) \in c
    BY <1>4 DEF Separate
  <1>8. \A i, j \in 1..Len(o) : i # j => Destination(q[i]) # Destination(q[j])
    BY <1>4 DEF Separate
  <1>9. \A i \in DOMAIN q : i \in 1..Len(o) \/ i = Len(o) + 1
    BY <1>4
  <1>10. \A i \in DOMAIN q : Destination(q[i]) \in c \cup {SimulateMove(u, d)}
    BY <1>4, <1>5, <1>7, <1>9
  <1>11. \A i, j \in DOMAIN q : i # j => Destination(q[i]) # Destination(q[j])
    BY <1>4, <1>5, <1>7, <1>8, <1>9
  <1> QED BY <1>3, <1>6, <1>10, <1>11 DEF Separate

\* A longer list of claimed tiles changes nothing.
LEMMA ClaimKeepsSeparate ==
  ASSUME NEW o, NEW c, NEW t, Separate(o, c)
  PROVE  Separate(o, c \cup {t})
  BY DEF Separate

\* No order, no meeting.
LEMMA EmptyIsSeparate == \A c : Separate(<<>>, c)
  <1>1. DOMAIN <<>> = {} /\ <<>> \in Seq({})
    OBVIOUS
  <1>2. ToSet(<<>>) = {}
    BY <1>1 DEF ToSet
  <1> QED BY <1>1, <1>2 DEF Separate

\* The closing lines of the claiming loops.
LEMMA CommitKeepsSeparate ==
  ASSUME NEW u, NEW d, NEW closed, Separate(orders, claimed), Commit(u, d, closed)
  PROVE  Separate(orders', claimed')
  <1>1. CASE d = None \/ SimulateMove(u, d) \in claimed \cup closed
    <2>1. orders' = orders /\ claimed' = claimed \cup {u}
      BY <1>1 DEF Commit
    <2>2. Separate(orders, claimed \cup {u})
      BY ClaimKeepsSeparate
    <2> QED BY <2>1, <2>2
  <1>2. CASE ~(d = None \/ SimulateMove(u, d) \in claimed \cup closed)
    <2>1. orders' = Append(orders, <<u, d>>) /\ claimed' = claimed \cup {SimulateMove(u, d)}
      BY <1>2 DEF Commit
    <2>2. Separate(Append(orders, <<u, d>>), claimed \cup {SimulateMove(u, d)})
      BY <1>2, AppendKeepsSeparate
    <2> QED BY <2>1, <2>2
  <1> QED BY <1>1, <1>2

\* What a raider's round has decided so far.
RoundState(acc) ==
  /\ acc = [orders |-> acc.orders, claimed |-> acc.claimed, assigned |-> acc.assigned,
            engaged |-> acc.engaged, done |-> acc.done]
  /\ Separate(acc.orders, acc.claimed)

\* A raider before one enemy.
LEMMA ConsiderKeepsSeparate ==
  ASSUME NEW prey, NEW acc, NEW u, RoundState(acc)
  PROVE  RoundState(RaiderConsider(prey, acc, u))
  <1> DEFINE zone == GetZoneEscapeDirection(u)
             turns == IF u \in DOMAIN acc.engaged THEN acc.engaged[u] ELSE 0
             dir == IF zone # None THEN zone
                    ELSE IF Distance2(u, prey) >= 400 THEN None
                    ELSE IF turns >= 2 THEN FleeDirection(u, {prey})
                    ELSE MoveToward(u, prey, view.walls \cup acc.claimed)
             dest == SimulateMove(u, dir)
             engaged == IF zone # None \/ Distance2(u, prey) >= 400 \/ turns \in {2, 3} THEN acc.engaged
                        ELSE (u :> IF turns >= 4 THEN 0 ELSE turns + 1) @@ acc.engaged
  <1>1. PICK n : n = RaiderConsider(prey, acc, u)
    OBVIOUS
  <1>2. n = IF acc.done \/ u \in acc.assigned THEN acc
            ELSE IF dir = None \/ dest \in acc.claimed THEN [acc EXCEPT !.engaged = engaged]
            ELSE [orders |-> Append(acc.orders, <<u, dir>>), claimed |-> acc.claimed \cup {dest},
                  assigned |-> acc.assigned \cup {u}, engaged |-> engaged, done |-> zone = None]
    BY <1>1 DEF RaiderConsider
  <1> HIDE DEF dest, engaged, dir, turns, zone
  <1>3. PICK o, c, a, g, b : acc = [orders |-> o, claimed |-> c, assigned |-> a, engaged |-> g, done |-> b]
    BY DEF RoundState
  <1>4. Separate(o, c)
    BY <1>3 DEF RoundState
  <1>5. CASE acc.done \/ u \in acc.assigned
    BY <1>1, <1>2, <1>5
  <1>6. CASE ~(acc.done \/ u \in acc.assigned) /\ (dir = None \/ dest \in acc.claimed)
    <2>1. n = [orders |-> o, claimed |-> c, assigned |-> a, engaged |-> engaged, done |-> b]
      BY <1>2, <1>3, <1>6
    <2> QED BY <1>1, <1>4, <2>1 DEF RoundState
  <1>7. CASE ~(acc.done \/ u \in acc.assigned) /\ ~(dir = None \/ dest \in acc.claimed)
    <2>1. n = [orders |-> Append(o, <<u, dir>>), claimed |-> c \cup {dest}, assigned |-> a \cup {u},
               engaged |-> engaged, done |-> zone = None]
      BY <1>2, <1>3, <1>7
    <2>2. dest \notin c
      BY <1>3, <1>7
    <2>3. Separate(Append(o, <<u, dir>>), c \cup {dest})
      BY <1>4, <2>2, AppendKeepsSeparate DEF dest
    <2> QED BY <1>1, <2>1, <2>3 DEF RoundState
  <1> QED BY <1>5, <1>6, <1>7

\* The round of a raider: the recursion over its units is defined, and no unit of it
\* breaks what the ones before established.
LEMMA RoundKeepsSeparate ==
  ASSUME NEW prey, Len(view.mine) \in Nat, Separate(orders, claimed)
  PROVE  RoundState(RaiderRound(prey))
  <1> DEFINE start == [orders |-> orders, claimed |-> claimed, assigned |-> assigned,
                       engaged |-> memory.engaged, done |-> FALSE]
             step(f, i) == IF i = 0 THEN start ELSE RaiderConsider(prey, f[i - 1], view.mine[i])
             Sol(f, n) == f = [i \in 0 .. n |-> step(f, i)]
             Bad == {n \in Nat : ~ \E f : Sol(f, n)}
  <1>0. RoundState(start)
    BY DEF RoundState
  <1> HIDE DEF start
  <1>1. ASSUME NEW n \in Bad, \A m \in Bad : n <= m PROVE FALSE
    <2>1. CASE n = 0
      <3>1. Sol([i \in 0 .. 0 |-> start], 0)
        <4>1. \A i \in 0 .. 0 : i = 0
          OBVIOUS
        <4> QED BY <4>1
      <3> QED BY <2>1, <3>1
    <2>2. CASE n # 0
      <3>1. n \in Nat /\ n - 1 \in Nat
        BY <2>2
      <3>2. n - 1 \notin Bad
        <4> HIDE DEF Bad
        <4>1. ~ (n <= n - 1)
          BY <3>1
        <4> QED BY <1>1, <4>1
      <3>3. PICK f : Sol(f, n - 1)
        BY <3>1, <3>2
      <3>4. PICK h : h = [i \in 0 .. n |-> IF i < n THEN f[i] ELSE RaiderConsider(prey, f[n - 1], view.mine[n])]
        OBVIOUS
      <3>5. ASSUME NEW i \in 0 .. n PROVE h[i] = step(h, i)
        <4>1. CASE i < n
          <5>1. i \in 0 .. n - 1
            BY <3>1, <4>1
          <5>2. h[i] = f[i] /\ f[i] = step(f, i)
            BY <3>3, <3>4, <4>1, <5>1
          <5>3. i # 0 => h[i - 1] = f[i - 1]
            <6>1. i # 0 => i - 1 \in 0 .. n /\ i - 1 < n
              BY <3>1, <4>1
            <6> QED BY <3>4, <6>1
          <5> QED BY <5>2, <5>3
        <4>2. CASE i = n
          <5>1. h[n] = RaiderConsider(prey, f[n - 1], view.mine[n])
            BY <3>1, <3>4
          <5>2. h[n - 1] = f[n - 1]
            BY <3>1, <3>4
          <5> QED BY <2>2, <4>2, <5>1, <5>2
        <4> QED BY <3>1, <4>1, <4>2
      <3>6. Sol(h, n)
        <4>1. h = [i \in 0 .. n |-> h[i]]
          BY <3>4
        <4> HIDE DEF step
        <4> QED BY <3>5, <4>1
      <3> QED BY <3>6
    <2> QED BY <2>1, <2>2
  <1>2. PICK units \in Nat : units = Len(view.mine)
    OBVIOUS
  <1>3. PICK round : round = CHOOSE f : Sol(f, units)
    OBVIOUS
  <1>4. Sol(round, units)
    <2>1. Bad \subseteq Nat
      OBVIOUS
    <2>2. Bad = {}
      <3> HIDE DEF Bad
      <3> QED BY <1>1, <2>1, LeastNat
    <2> HIDE DEF Sol
    <2>3. \E f : Sol(f, units)
      BY <2>2
    <2> QED BY <1>3, <2>3
  <1>5. RaiderRound(prey) = round[units]
    BY <1>2, <1>3 DEF RaiderRound, start
  <1> DEFINE Worse == {i \in 0 .. units : ~ RoundState(round[i])}
  <1>6. ASSUME NEW i \in Worse, \A j \in Worse : i <= j PROVE FALSE
    <2>1. i \in 0 .. units /\ round[i] = step(round, i)
      BY <1>4
    <2>2. CASE i = 0
      BY <1>0, <2>1, <2>2
    <2>3. CASE i # 0
      <3>1. i - 1 \in 0 .. units /\ ~ (i <= i - 1)
        BY <2>1, <2>3
      <3>2. RoundState(round[i - 1])
        BY <1>6, <3>1
      <3>3. RoundState(RaiderConsider(prey, round[i - 1], view.mine[i]))
        BY <3>2, ConsiderKeepsSeparate
      <3> QED BY <2>1, <2>3, <3>3
    <2> QED BY <2>2, <2>3
  <1>7. Worse = {}
    <2>1. Worse \subseteq Nat
      OBVIOUS
    <2> HIDE DEF Worse
    <2> QED BY <1>6, <2>1, LeastNat
  <1>8. units \in 0 .. units
    OBVIOUS
  <1> QED BY <1>5, <1>7, <1>8

-----------------------------------------------------------------------------
\* What every round of a loop leaves alone.
LEMMA LoopFrame ==
  ASSUME NEW s, Loop(s)
  PROVE  /\ strategy = s /\ phase = "loop" /\ targets = <<>>
         /\ UNCHANGED <<strategy, view, phase, targets>>
  BY DEF Loop

\* A step of a bot that claims nothing says nothing about those that do.
LEMMA OthersKeepInv ==
  ASSUME OrdersInv, strategy \notin Claiming, UNCHANGED <<strategy, view, phase>>, phase = "loop"
  PROVE  OrdersInv'
  BY DEF OrdersInv, Claiming

\* A step of a bot that claims.
LEMMA ClaimsKeepInv ==
  ASSUME OrdersInv, UNCHANGED <<strategy, view, phase>>, phase = "loop",
         strategy \in Claiming => Separate(orders', claimed')
  PROVE  OrdersInv'
  BY DEF OrdersInv, Claiming

\* A bot that has not been asked has ordered nothing.
LEMMA OrdersInitially == StrategiesInit => OrdersInv
  BY EmptyIsSeparate DEF StrategiesInit, OrdersInv

\* A request clears the orders and claims of the turn before.
LEMMA RequestKeepsInv == OrdersInv /\ Request => OrdersInv'
  <1> SUFFICES ASSUME OrdersInv, Request PROVE OrdersInv'
    OBVIOUS
  <1>1. view' \in Views /\ orders' = <<>> /\ claimed' = {} /\ targets' = <<>>
    BY DEF Request
  <1>2. Separate(orders', claimed')
    BY <1>1, EmptyIsSeparate
  <1> QED BY <1>1, <1>2 DEF OrdersInv

\* Looking at the board orders nothing.
LEMMA GetMovesKeepsInv == OrdersInv /\ (GetMoves \/ BrowserGetMoves) => OrdersInv'
  <1> SUFFICES ASSUME OrdersInv, GetMoves \/ BrowserGetMoves PROVE OrdersInv'
    OBVIOUS
  <1>1. phase = "look" /\ phase' = "loop" /\ orders' = orders /\ view' = view
    BY DEF GetMoves, BrowserGetMoves
  <1>2. orders' = <<>>
    BY <1>1 DEF OrdersInv
  <1>3. Separate(orders', claimed')
    BY <1>2, EmptyIsSeparate
  <1> QED BY <1>1, <1>3 DEF OrdersInv

\* The raider claims in its hunts what it respects in its loop.
LEMMA RaiderKeepsInv == OrdersInv /\ (RaiderAssign \/ Raider) => OrdersInv'
  <1> SUFFICES ASSUME OrdersInv, RaiderAssign \/ Raider PROVE OrdersInv'
    OBVIOUS
  <1>1. CASE RaiderAssign
    <2>1. strategy = "raider" /\ targets # <<>> /\ UNCHANGED <<strategy, view, phase>>
      BY <1>1 DEF RaiderAssign
    <2>2. Separate(orders, claimed) /\ view \in Views
      BY <2>1 DEF OrdersInv, Claiming
    <2>3. RoundState(RaiderRound(Head(targets)))
      BY <2>2, StrategiesAssumption, RoundKeepsSeparate
    <2>4. orders' = RaiderRound(Head(targets)).orders /\ claimed' = RaiderRound(Head(targets)).claimed
      BY <1>1 DEF RaiderAssign
    <2>5. Separate(orders', claimed')
      BY <2>3, <2>4 DEF RoundState
    <2> QED BY <2>1, <2>5 DEF OrdersInv
  <1>2. CASE Raider
    <2>1. Loop("raider")
      BY <1>2 DEF Raider
    <2>2. strategy = "raider" /\ phase = "loop" /\ UNCHANGED <<strategy, view, phase>>
      BY <2>1, LoopFrame
    <2>3. Separate(orders, claimed)
      BY <2>2 DEF OrdersInv, Claiming
    <2>4. CASE UNCHANGED <<orders, claimed>>
      BY <2>2, <2>3, <2>4, ClaimsKeepInv
    <2>5. CASE \E d : Commit(Head(queue), d, {})
      BY <2>2, <2>3, <2>5, CommitKeepsSeparate, ClaimsKeepInv
    <2> QED BY <1>2, <2>4, <2>5 DEF Raider
  <1> QED BY <1>1, <1>2

\* The loops that end in Commit.
LEMMA CommittersKeepInv ==
  ASSUME OrdersInv, phase = "loop", UNCHANGED <<strategy, view, phase>>, strategy \in Claiming,
         NEW u, \E d : \E closed : Commit(u, d, closed)
  PROVE  OrdersInv'
  <1>1. PICK d, closed : Commit(u, d, closed)
    OBVIOUS
  <1>2. Separate(orders, claimed)
    BY DEF OrdersInv
  <1>3. Separate(orders', claimed')
    BY <1>1, <1>2, CommitKeepsSeparate
  <1> QED BY <1>3, ClaimsKeepInv

\* The other claiming bots order by Commit, which looks at the claims.
LEMMA ClaimersKeepInv ==
  ASSUME OrdersInv,
         \/ Defender \/ Scout \/ Farmer \/ Pacifist \/ Phalanx \/ Nomad \/ Opportunist \/ Assassin
         \/ Kamikaze \/ BrowserFarmer \/ BrowserOpportunist \/ BrowserPhalanx
  PROVE  OrdersInv'
  <1>1. CASE Defender
    <2>1. Loop("defender") /\ \E d : \E closed : Commit(Head(queue), d, closed)
      BY <1>1 DEF Defender
    <2> QED BY <2>1, LoopFrame, CommittersKeepInv DEF Claiming
  <1>2. CASE Scout
    <2>1. Loop("scout") /\ \E d : \E closed : Commit(Head(queue), d, closed)
      BY <1>2 DEF Scout
    <2> QED BY <2>1, LoopFrame, CommittersKeepInv DEF Claiming
  <1>3. CASE Farmer
    <2>1. Loop("farmer") /\ \E d : \E closed : Commit(Head(queue), d, closed)
      BY <1>3 DEF Farmer
    <2> QED BY <2>1, LoopFrame, CommittersKeepInv DEF Claiming
  <1>4. CASE Pacifist
    <2>1. Loop("pacifist") /\ \E d : \E closed : Commit(Head(queue), d, closed)
      BY <1>4 DEF Pacifist
    <2> QED BY <2>1, LoopFrame, CommittersKeepInv DEF Claiming
  <1>5. CASE Phalanx
    <2>1. Loop("phalanx") /\ \E d : \E closed : Commit(Head(queue), d, closed)
      BY <1>5 DEF Phalanx
    <2> QED BY <2>1, LoopFrame, CommittersKeepInv DEF Claiming
  <1>6. CASE Nomad
    <2>1. Loop("nomad") /\ \E d : \E closed : Commit(Head(queue), d, closed)
      BY <1>6 DEF Nomad
    <2> QED BY <2>1, LoopFrame, CommittersKeepInv DEF Claiming
  <1>7. CASE Opportunist
    <2>1. Loop("opportunist") /\ \E d : \E closed : Commit(Head(queue), d, closed)
      BY <1>7 DEF Opportunist
    <2> QED BY <2>1, LoopFrame, CommittersKeepInv DEF Claiming
  <1>8. CASE Assassin
    <2>1. Loop("assassin") /\ \E d : \E closed : Commit(Head(queue), d, closed)
      BY <1>8 DEF Assassin
    <2> QED BY <2>1, LoopFrame, CommittersKeepInv DEF Claiming
  <1>9. CASE Kamikaze
    <2>1. Loop("kamikaze") /\ \E d : \E closed : Commit(Head(queue), d, closed)
      BY <1>9 DEF Kamikaze
    <2> QED BY <2>1, LoopFrame, CommittersKeepInv DEF Claiming
  <1>10. CASE BrowserFarmer
    <2>1. Loop("b_farmer") /\ \E d : \E closed : Commit(Head(queue), d, closed)
      BY <1>10 DEF BrowserFarmer
    <2> QED BY <2>1, LoopFrame, CommittersKeepInv DEF Claiming
  <1>11. CASE BrowserOpportunist
    <2>1. Loop("b_opportunist") /\ \E d : \E closed : Commit(Head(queue), d, closed)
      BY <1>11 DEF BrowserOpportunist
    <2> QED BY <2>1, LoopFrame, CommittersKeepInv DEF Claiming
  <1>12. CASE BrowserPhalanx
    <2>1. Loop("b_phalanx") /\ \E d : \E closed : Commit(Head(queue), d, closed)
      BY <1>12 DEF BrowserPhalanx
    <2> QED BY <2>1, LoopFrame, CommittersKeepInv DEF Claiming
  <1> QED BY <1>1, <1>2, <1>3, <1>4, <1>5, <1>6, <1>7, <1>8, <1>9, <1>10, <1>11, <1>12

\* The bots that claim nothing are not promised anything.
LEMMA FreeBotsKeepInv ==
  ASSUME OrdersInv,
         \/ Gatherer \/ Rusher \/ Guardian \/ Swarm \/ Hunter \/ Siege \/ BrowserSiege \/ BrowserAssassin
         \/ BrowserGatherer \/ BrowserRusher \/ BrowserGuardian \/ BrowserSwarm \/ BrowserHunter \/ ZoneDriver
  PROVE  OrdersInv'
  <1>1. CASE Gatherer
    <2>1. Loop("gatherer")
      BY <1>1 DEF Gatherer
    <2> QED BY <2>1, LoopFrame, OthersKeepInv DEF Claiming
  <1>2. CASE Rusher
    <2>1. Loop("rusher")
      BY <1>2 DEF Rusher
    <2> QED BY <2>1, LoopFrame, OthersKeepInv DEF Claiming
  <1>3. CASE Guardian
    <2>1. Loop("guardian")
      BY <1>3 DEF Guardian
    <2> QED BY <2>1, LoopFrame, OthersKeepInv DEF Claiming
  <1>4. CASE Swarm
    <2>1. Loop("swarm")
      BY <1>4 DEF Swarm
    <2> QED BY <2>1, LoopFrame, OthersKeepInv DEF Claiming
  <1>5. CASE Hunter
    <2>1. Loop("hunter")
      BY <1>5 DEF Hunter
    <2> QED BY <2>1, LoopFrame, OthersKeepInv DEF Claiming
  <1>6. CASE Siege
    <2>1. Loop("siege")
      BY <1>6 DEF Siege
    <2> QED BY <2>1, LoopFrame, OthersKeepInv DEF Claiming
  <1>7. CASE BrowserSiege
    <2>1. Loop("b_siege")
      BY <1>7 DEF BrowserSiege
    <2> QED BY <2>1, LoopFrame, OthersKeepInv DEF Claiming
  <1>8. CASE BrowserAssassin
    <2>1. Loop("b_assassin")
      BY <1>8 DEF BrowserAssassin
    <2> QED BY <2>1, LoopFrame, OthersKeepInv DEF Claiming
  <1>9. CASE BrowserGatherer
    <2>1. Loop("b_gatherer")
      BY <1>9 DEF BrowserGatherer, Simple
    <2> QED BY <2>1, LoopFrame, OthersKeepInv DEF Claiming
  <1>10. CASE BrowserRusher
    <2>1. Loop("b_rusher")
      BY <1>10 DEF BrowserRusher, Simple
    <2> QED BY <2>1, LoopFrame, OthersKeepInv DEF Claiming
  <1>11. CASE BrowserGuardian
    <2>1. Loop("b_guardian")
      BY <1>11 DEF BrowserGuardian, Simple
    <2> QED BY <2>1, LoopFrame, OthersKeepInv DEF Claiming
  <1>12. CASE BrowserSwarm
    <2>1. Loop("b_swarm")
      BY <1>12 DEF BrowserSwarm, Simple
    <2> QED BY <2>1, LoopFrame, OthersKeepInv DEF Claiming
  <1>13. CASE BrowserHunter
    <2>1. Loop("b_hunter")
      BY <1>13 DEF BrowserHunter, Simple
    <2> QED BY <2>1, LoopFrame, OthersKeepInv DEF Claiming
  <1>14. CASE ZoneDriver
    <2>1. Loop("b_zone_driver")
      BY <1>14 DEF ZoneDriver, Simple
    <2> QED BY <2>1, LoopFrame, OthersKeepInv DEF Claiming
  <1> QED BY <1>1, <1>2, <1>3, <1>4, <1>5, <1>6, <1>7, <1>8, <1>9, <1>10, <1>11, <1>12, <1>13, <1>14

\* The steps outside the loop over the units.
LEMMA AssignersKeepInv ==
  ASSUME OrdersInv, HunterAssign \/ SiegeAssign \/ BrowserSiegeLockout \/ Economist
  PROVE  OrdersInv'
  <1>1. CASE HunterAssign
    BY <1>1 DEF HunterAssign, OrdersInv, Claiming
  <1>2. CASE SiegeAssign
    BY <1>2 DEF SiegeAssign, OrdersInv, Claiming
  <1>3. CASE BrowserSiegeLockout
    BY <1>3 DEF BrowserSiegeLockout, OrdersInv, Claiming
  <1>4. CASE Economist
    BY <1>4 DEF Economist, OrdersInv, Claiming
  <1> QED BY <1>1, <1>2, <1>3, <1>4

\* Every step of every bot keeps the invariant.
LEMMA OrdersStep == OrdersInv /\ [StrategiesNext \/ BrowserNext]_strategyVars => OrdersInv'
  <1> SUFFICES ASSUME OrdersInv, [StrategiesNext \/ BrowserNext]_strategyVars PROVE OrdersInv'
    OBVIOUS
  <1>1. CASE UNCHANGED strategyVars
    BY <1>1 DEF OrdersInv, strategyVars
  <1>2. CASE StrategiesNext
    BY <1>2, RequestKeepsInv, GetMovesKeepsInv, RaiderKeepsInv, ClaimersKeepInv, FreeBotsKeepInv,
       AssignersKeepInv DEF StrategiesNext
  <1>3. CASE BrowserNext
    BY <1>3, GetMovesKeepsInv, ClaimersKeepInv, FreeBotsKeepInv, AssignersKeepInv DEF BrowserNext
  <1> QED BY <1>1, <1>2, <1>3

\* The bots that claim their tiles never order two units onto one, on any board, with
\* any number of units and turns, whatever they are shown.
THEOREM OrdersNeverMeet == BotsSpec => []NoOrdersMeet
  <1>1. OrdersInv => NoOrdersMeet
    BY DEF OrdersInv, NoOrdersMeet, Separate
  <1> QED BY <1>1, OrdersInitially, OrdersStep, PTL DEF BotsSpec

=============================================================================
