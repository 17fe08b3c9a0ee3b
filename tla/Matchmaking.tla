----------------------------- MODULE Matchmaking -----------------------------
(***************************************************************************)
(* The matchmaker's pairing tick (cmd/acb-matchmaker/tickers.go) and the   *)
(* crash strikes that keep a bot out of it (updateCrashStrikes in          *)
(* cmd/acb-worker/db.go).  Each tick takes the bot that has waited longest *)
(* as the seed, the format the seed has played least, the opponents it has *)
(* not met for longest among those near it in rating, and the map of that  *)
(* format that was used least recently.                                    *)
(*                                                                         *)
(* Created matches form a sequence; a timestamp is a position in it.       *)
(***************************************************************************)
EXTENDS Integers, Sequences, FiniteSets, FiniteSetsExt

CONSTANTS
  NumBots,         \* bots 1..NumBots; the number orders bot_id and rating_mu
  Formats,         \* player counts: 2, 3, 4 and 6 in the code
  MapsOf,          \* number of selectable maps of each format
  Near,            \* nearest bots considered with probability 0.8: 16 in the code
  StrikeLimit,     \* MaxCrashStrikes
  MaxCreated,      \* bound: matches created
  MaxCrashes       \* bound: crashes of one result

ASSUME MatchmakingConstants ==
  /\ {NumBots, StrikeLimit, Near, MapsOf} \subseteq Nat \ {0} /\ {MaxCreated, MaxCrashes} \subseteq Nat
  /\ IsFiniteSet(Formats) /\ Formats \subseteq Nat \ {0} /\ 2 \in Formats

Field == 1..NumBots

VARIABLES
  fixtures,   \* matches: sequence of [bots, map], the seed first in bots
  lastUsed,  \* map_scores.last_used_at: <<format, map>> -> time of the match
  played,    \* matches whose result was submitted
  strikes,   \* bots.crash_strikes
  cooling,   \* bots with cooldown_until in the future
  since      \* history: bot -> matches created when it last became eligible

matchmakingVars == <<fixtures, lastUsed, played, strikes, cooling, since>>

Maps(n) == {n} \X (1..MapsOf)
PlayersOf(c) == Range(c.bots)
Entered(b) == {i \in DOMAIN fixtures : b \in PlayersOf(fixtures[i])}

MatchmakingInit ==
  /\ fixtures = <<>> /\ lastUsed = [x \in UNION {Maps(n) : n \in Formats} |-> 0]
  /\ played = {} /\ strikes = [b \in Field |-> 0] /\ cooling = {} /\ since = [b \in Field |-> 0]

\* Active bots whose cooldown is over (the health checker's part is in Accounts).
QueryEligibleCandidates == Field \ cooling

LastMatchAt(b) == IF Entered(b) = {} THEN 0 ELSE Max(Entered(b))

\* Mutant: the comparison of the last matches is turned round.
SeedLatest(cs) == CHOOSE b \in cs : \A c \in cs :
  LastMatchAt(c) < LastMatchAt(b) \/ (LastMatchAt(c) = LastMatchAt(b) /\ b <= c)

\* The candidate with the oldest last match, the smallest id on a tie.
Seed(cs) == CHOOSE b \in cs : \A c \in cs :
  LastMatchAt(b) < LastMatchAt(c) \/ (LastMatchAt(c) = LastMatchAt(b) /\ b <= c)

\* The format the seed has played least, the smaller one on a tie, among those
\* with enough candidates.
LeastPlayedFormat(seed, cs) ==
  LET count(n) == Cardinality({i \in Entered(seed) : Len(fixtures[i].bots) = n})
      fits == {n \in Formats : n <= Cardinality(cs)}
  IN CHOOSE n \in fits : \A k \in fits : count(n) < count(k) \/ (count(n) = count(k) /\ n <= k)

\* Time of the last match of both, 0 when they never met.
QueryPairingTimes(seed, b) ==
  LET both == Entered(seed) \cap Entered(b) IN IF both = {} THEN 0 ELSE Max(both)

\* The bots of rem within the Near closest to the seed in rating; a tie at the
\* border may go either way.
NearestTo(seed, rem) ==
  LET dist(b) == IF b > seed THEN b - seed ELSE seed - b
      size == IF Near < Cardinality(rem) THEN Near ELSE Cardinality(rem)
  IN {s \in SUBSET rem : Cardinality(s) = size /\ \A b \in s, c \in rem \ s : dist(b) <= dist(c)}

\* Never met first, then the longest ago; among equals the one with the fewest
\* games, then the nearest: the scan keeps the first it met.
BestCandidates(seed, eligible) ==
  LET before(b, c) == \/ QueryPairingTimes(seed, b) < QueryPairingTimes(seed, c)
                      \/ /\ QueryPairingTimes(seed, b) = QueryPairingTimes(seed, c)
                         /\ Cardinality(Entered(b)) < Cardinality(Entered(c))
  IN {b \in eligible : \A c \in eligible : ~before(c, b)}

\* The possible lists of n opponents drawn one after the other.
SelectOpponents(seed, pool, n) ==
  {drawn \in [1..n -> pool] :
     \A k \in 1..n :
       LET rem == pool \ {drawn[j] : j \in 1..k - 1} IN
       \E eligible \in NearestTo(seed, rem) \cup {rem} : drawn[k] \in BestCandidates(seed, eligible)}

\* The selectable maps of the format whose last use is oldest.
SelectMapLRU(n) == {x \in Maps(n) : \A y \in Maps(n) : lastUsed[x] <= lastUsed[y]}

\* tickMatchmaker and createMatch: the match is appended, its map marked used.
\* The statement that marks the map may fail without notice.
TickMatchmaker ==
  LET cs == QueryEligibleCandidates
      seed == Seed(cs)
      n == LeastPlayedFormat(seed, cs)
  IN /\ Len(fixtures) < MaxCreated /\ Cardinality(cs) >= 2
     /\ \E opponents \in SelectOpponents(seed, cs \ {seed}, n - 1), x \in SelectMapLRU(n) :
          /\ fixtures' = Append(fixtures, [bots |-> <<seed>> \o opponents, map |-> x])
          /\ lastUsed' = [lastUsed EXCEPT ![x] = Len(fixtures) + 1]
     /\ since' = [b \in Field |-> IF b \in PlayersOf(fixtures'[Len(fixtures')])
                                  THEN Len(fixtures') ELSE since[b]]
     /\ UNCHANGED <<played, strikes, cooling>>

\* CASE WHEN crash_strikes + 1 >= MaxCrashStrikes THEN a cooldown
StruckOut(n) == n + 1 >= StrikeLimit

\* A submission flags the bots that crashed; strikes are counted from the rows
\* of the moment, the strikes of the other participants are reset.
UpdateCrashStrikes(i, crashed) ==
  /\ i \in DOMAIN fixtures \ played /\ crashed \subseteq PlayersOf(fixtures[i])
  /\ Cardinality(crashed) <= MaxCrashes
  /\ played' = played \cup {i}
  /\ strikes' = [b \in Field |-> IF b \notin PlayersOf(fixtures[i]) THEN strikes[b]
                                 ELSE IF b \notin crashed THEN 0
                                 ELSE IF strikes[b] < StrikeLimit THEN strikes[b] + 1 ELSE strikes[b]]
  /\ cooling' = cooling \cup {b \in crashed : StruckOut(strikes[b])}
  /\ UNCHANGED <<fixtures, lastUsed, since>>

\* A match that ran out ("stalemate", "turns") leaves the strikes alone.
SubmitWithoutStrikes(i) ==
  /\ i \in DOMAIN fixtures \ played /\ played' = played \cup {i}
  /\ UNCHANGED <<fixtures, lastUsed, strikes, cooling, since>>

CooldownPasses(b) ==
  /\ b \in cooling /\ cooling' = cooling \ {b}
  /\ since' = [since EXCEPT ![b] = Len(fixtures)]
  /\ UNCHANGED <<fixtures, lastUsed, played, strikes>>

MatchmakingNext ==
  \/ TickMatchmaker
  \/ \E i \in DOMAIN fixtures : \/ \E crashed \in SUBSET PlayersOf(fixtures[i]) : UpdateCrashStrikes(i, crashed)
                               \/ SubmitWithoutStrikes(i)
  \/ \E b \in Field : CooldownPasses(b)

MatchmakingSpec == MatchmakingInit /\ [][MatchmakingNext]_matchmakingVars

(***************************************************************************)
(* Properties.                                                             *)
(***************************************************************************)

\* No eligible bot is passed over for more than NumBots - 1 matches in a row,
\* however the formats, ratings and pairings fall (tickMatchmaker's seed).
NoBotStarves == \A b \in QueryEligibleCandidates : Len(fixtures) - since[b] < NumBots

=============================================================================
