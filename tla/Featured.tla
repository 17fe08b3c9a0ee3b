------------------------------ MODULE Featured ------------------------------
(***************************************************************************)
(* The featured series of a Friday evening (tickFeaturedSeries in          *)
(* cmd/acb-matchmaker/series_season.go).  The ticker fires many times in   *)
(* the hour; the first tick that finds none pairs the top bots and inserts *)
(* the series one by one, each row and its games in transactions of their  *)
(* own, and the process may stop between two of them.                      *)
(***************************************************************************)
EXTENDS Integers, Sequences, FiniteSets, FiniteSetsExt

CONSTANTS
    TopBots,            \* the bots of the ladder, by rating
    SeriesPerWeek,      \* series of one Friday (4)
    MinFeaturedBots,    \* fewest bots to choose from (8)
    MaxFeaturedFaults   \* bound: failing statements and stops

ASSUME FeaturedAssumption ==
    /\ SeriesPerWeek \in Nat \ {0} /\ MaxFeaturedFaults \in Nat
    /\ MinFeaturedBots \in Nat /\ MinFeaturedBots >= 2 * SeriesPerWeek
    /\ TopBots \in Seq({TopBots[i] : i \in DOMAIN TopBots})
    /\ \A i, j \in DOMAIN TopBots : i # j => TopBots[i] # TopBots[j]

VARIABLES
    window,         \* whether it is Friday between 20:00 and 21:00 UTC
    featured,       \* this Friday's series: its two bots and whether its games exist
    toInsert,       \* pairs the running tick has still to insert
    featuredFaults

featuredVars == <<window, featured, toInsert, featuredFaults>>

FeaturedInit ==
    /\ window = FALSE
    /\ featured = {}
    /\ toInsert = <<>>
    /\ featuredFaults = 0

-----------------------------------------------------------------------------
(***************************************************************************)
(* The pairing.  bots is the ladder the query returned and met the pairs   *)
(* that shared at least three matches.                                     *)
(***************************************************************************)
\* The members of a list at these places, in their order.
PlaceOf(places, k) == CHOOSE i \in places : Cardinality({j \in places : j <= i}) = k
InOrder(s, places) == [k \in 1 .. Cardinality(places) |-> s[PlaceOf(places, k)]]

\* Going down the ladder, each bot not yet taken is paired with the first bot
\* below it, not yet taken, that it has met.
PairRival(bots, met, sofar, i) ==
    LET partners == {j \in i + 1 .. Len(bots) :
                        j \notin sofar.taken /\ {bots[i], bots[j]} \in met}
    IN  IF \/ Len(sofar.pairs) >= SeriesPerWeek
           \/ i \in sofar.taken
           \/ partners = {}
          THEN sofar
          ELSE [pairs |-> Append(sofar.pairs, {bots[i], bots[Min(partners)]}),
                taken |-> sofar.taken \union {i, Min(partners)}]

PairRivals(bots, met) ==
    LET scan[i \in 0 .. Len(bots) - 1] ==
            IF i = 0 THEN [pairs |-> <<>>, taken |-> {}]
            ELSE PairRival(bots, met, scan[i - 1], i)
    IN  scan[Len(bots) - 1]

\* The bots left over are paired with their neighbour; if that is not enough,
\* with the next one whether or not it has a partner.
PairUp(bots, met) ==
    LET rivals == PairRivals(bots, met)
        left == InOrder(bots, DOMAIN bots \ rivals.taken)
        room == SeriesPerWeek - Len(rivals.pairs)
        adjacent == [k \in 1 .. Min({room, Len(left) \div 2}) |-> {left[2 * k - 1], left[2 * k]}]
        paired == rivals.pairs \o adjacent
        n == Len(paired)
        filled == [k \in 1 .. Max({0, Min({SeriesPerWeek, Len(left) - 1}) - n}) |->
                      {left[n + k], left[n + k + 1]}]
    IN  paired \o filled

-----------------------------------------------------------------------------
FridayEvening ==
    /\ ~window
    /\ toInsert = <<>>
    /\ window' = TRUE
    /\ featured' = {}
    /\ UNCHANGED <<toInsert, featuredFaults>>

\* Inserts begun within the hour are finished after it.
EveningEnds ==
    /\ window
    /\ window' = FALSE
    /\ UNCHANGED <<featured, toInsert, featuredFaults>>

\* Mutant: any number of bots will do.
EnoughBotsAny(bots) == bots # <<>>
EnoughBots(bots) == Len(bots) >= MinFeaturedBots

\* The active bots that are not cooling down, and whom each has met, are
\* whatever the tables say at that moment.
TickFeaturedSeries ==
    /\ window
    /\ toInsert = <<>>
    /\ featured = {}
    /\ \E up \in SUBSET DOMAIN TopBots :
        LET bots == InOrder(TopBots, up)
        IN  /\ EnoughBots(bots)
            /\ \E met \in SUBSET kSubset(2, {TopBots[i] : i \in up}) : toInsert' = PairUp(bots, met)
    /\ UNCHANGED <<window, featured, featuredFaults>>

\* A failing insert skips the pair, failing games leave a series without any.
InsertFeaturedSeries(inserted, withGames) ==
    /\ toInsert # <<>>
    /\ toInsert' = Tail(toInsert)
    /\ featured' = IF inserted THEN featured \union {[bots |-> Head(toInsert), games |-> withGames]}
                               ELSE featured
    /\ (inserted /\ withGames) \/ featuredFaults < MaxFeaturedFaults
    /\ featuredFaults' = IF inserted /\ withGames THEN featuredFaults ELSE featuredFaults + 1
    /\ UNCHANGED window

StopWhileInserting ==
    /\ toInsert # <<>>
    /\ featuredFaults < MaxFeaturedFaults
    /\ featuredFaults' = featuredFaults + 1
    /\ toInsert' = <<>>
    /\ UNCHANGED <<window, featured>>

FeaturedNext ==
    \/ FridayEvening
    \/ EveningEnds
    \/ TickFeaturedSeries
    \/ \E inserted, withGames \in BOOLEAN : InsertFeaturedSeries(inserted, withGames)
    \/ StopWhileInserting

FeaturedSpec == FeaturedInit /\ [][FeaturedNext]_featuredVars

-----------------------------------------------------------------------------
(***************************************************************************)
(* Properties.                                                             *)
(***************************************************************************)
\* No bot plays two featured series of one Friday and there are never more
\* than announced, whatever the ladder and the match history are, and although
\* the hourly window ticks again after failed inserts and restarts: the fill-up
\* loop of tickFeaturedSeries, which reuses bots, is never needed.
FeaturedAreDisjoint ==
    LET rows == {s.bots : s \in featured}
    IN  /\ Cardinality(featured) <= SeriesPerWeek
        /\ Cardinality(UNION rows) = 2 * Cardinality(featured)

=============================================================================
