----------------------------- MODULE BrowserBots ----------------------------
(* The opponents of the browser sandbox (cmd/acb-wasm/strategies): a second     *)
(* implementation of the archetypes, with its own searches and its own rules     *)
(* for sharing tiles.  The torus, the request loop and the notation are those of *)
(* Strategies; enemies belong to one opponent.                                    *)
EXTENDS Strategies

Wide == Rows * Cols
AbsGap(a, b) == Gap(a[1], b[1], Rows) + Gap(a[2], b[2], Cols)   \* torManhattan
Near2(S, p, r2) == Cardinality({s \in S : Distance2(s, p) <= r2})

BfsDir(u, goal, open) ==
  LET step == FirstStep(u, {goal}, open, open, Wide) IN IF step = "lost" THEN None ELSE step

\* Directions to the nearest of S by search.
Seek(u, S, open) == {IF t = NoTile THEN None ELSE BfsDir(u, t, open) : t \in Nearest(u, S)}

\* The direction whose tile is nearest to any target; walls are not looked at.
TowardNearest(u, S) == IF S = {} THEN None ELSE Best([d \in Dirs |-> -DistToSet(SimulateMove(u, d), S)])

FleeDir(u) ==
  IF DistToSet(u, Foe) > AttackRadius2 + 4 THEN None
  ELSE Best([d \in Dirs |-> DistToSet(SimulateMove(u, d), Foe)])

Simple(s, rungs(_)) == Loop(s) /\ Plain /\ LET u == Head(queue) IN \E d \in rungs(u) : Give(u, d)

GathererRungs(u) == {FleeDir(u)} ?? {TowardNearest(u, view.energy)} ?? Dirs
RusherRungs(u) == {TowardNearest(u, IF view.rivals # {} THEN view.rivals ELSE Foe)} ?? Dirs
GuardianRungs(u) ==
  {TowardNearest(u, IF DistToSet(u, Foe) <= AttackRadius2 + 4 THEN Foe ELSE view.cores)} ?? Dirs
SwarmRungs(u) ==
  {Best([d \in Dirs |-> MapThenSumSet(LAMBDA o : Distance2(SimulateMove(u, d), o), Mine)])}
HunterRungs(u) == {TowardNearest(u, IF Foe # {} THEN Foe ELSE view.energy)} ?? Dirs

-----------------------------------------------------------------------------
\* Farmer

Contested == {e \in view.energy : DistToSet(e, Foe) <= 2}

FarmerShouldFlee(u) ==
  LET enemies == Near2(Foe, u, AttackRadius2) IN
  enemies > 0 /\ Near2(Mine \ {u}, u, AttackRadius2) < enemies

MaximizeMinDist(u) ==
  Best([d \in Ways(u, view.walls \cup Foe) |-> DistToSet(SimulateMove(u, d), Foe)])

SpreadFromBots(u) == Best([d \in Ways(u, claimed) |-> DistToSet(SimulateMove(u, d), Mine)])

\* The units nearest to safe energy choose first; the exchange sort leaves ties open.
FarmerOrder ==
  LET Score(u) == DistToSet(u, view.energy \ Contested) IN
  {q \in SetToSeqs(Mine) : \A i, j \in DOMAIN q : i < j => Score(q[i]) <= Score(q[j])}

BrowserFarmer ==
  /\ Loop("b_farmer") /\ UNCHANGED assigned
  /\ LET u == Head(queue)
         flight == When(FarmerShouldFlee(u), {MaximizeMinDist(u)})
         otherwise == IF u \in view.energy THEN {None}
                      ELSE Seek(u, view.energy, Open)
                             ?? When(DistToSet(u, view.cores) > 4, Seek(u, view.cores, Open))
                             ?? {SpreadFromBots(u)}
     IN \E e \in IF None \in flight THEN Nearest(u, view.energy \ (Contested \cup used)) ELSE {NoTile} :
        \E d \in flight ?? (IF e = NoTile THEN {None} ELSE {BfsDir(u, e, Open)}) ?? otherwise :
          Commit(u, d, {}) /\ used' = used \cup ({e} \ {NoTile})

-----------------------------------------------------------------------------
\* Opportunist

\* oppScoreTargets and oppAssignAttackers: the weakest enemies first, each with the
\* nearest free units, two or one more than its company.
OppAssignAttackers ==
  LET Index(u) == CHOOSE i \in DOMAIN view.mine : view.mine[i] = u
      Assign(acc, e) ==
        LET free == {u \in Mine \ DOMAIN acc : Distance2(u, e) <= 50}
            Before(v, u) == \/ Distance2(v, e) < Distance2(u, e)
                            \/ Distance2(v, e) = Distance2(u, e) /\ Index(v) < Index(u)
            want == Max({2, Nearby(Foe, e) + 1})
        IN IF Nearby(Mine, e) < Nearby(Foe, e) THEN acc
           ELSE [u \in {v \in free : Cardinality({w \in free : Before(w, v)}) < want} |-> e] @@ acc
  IN FoldLeft(Assign, <<>>, SortSeq(view.foe, LAMBDA a, b : Weaker(a, b)))

OppShouldFlee(u) == LET n == Near2(Foe, u, 9) IN n > 0 /\ Near2(Mine \ {u}, u, 9) < n

OppRetreatMove(u) ==
  LET Score(p) == MapThenSumSet(LAMBDA m : IF p = m THEN 0 ELSE 100 \div AbsGap(p, m), Mine \ {u})
                  + MapThenSumSet(LAMBDA e : Distance2(p, e), Foe)
  IN Best([d \in Ways(u, view.walls \cup Foe) |-> Score(SimulateMove(u, d))])

OppEnergyMove(u) == Seek(u, {e \in view.energy \ claimed : Distance2(u, e) <= 100}, Open)

OppEconomyOrPatrol(u) ==
  OppEnergyMove(u)
    ?? When(DistToSet(u, view.cores) > 64 /\ view.cores # {}, Seek(u, view.cores, Open))
    ?? {Best([d \in Ways(u, claimed) |-> MapThenSumSet(LAMBDA c : Distance2(SimulateMove(u, d), c), claimed)])}

BrowserOpportunist ==
  /\ Loop("b_opportunist") /\ Plain
  /\ LET u == Head(queue)  prey == OppAssignAttackers IN
     \E d \in IF u \in DOMAIN prey THEN {BfsDir(u, prey[u], Open \cup {prey[u]})}
              ELSE IF OppShouldFlee(u) THEN {OppRetreatMove(u)} ?? OppEnergyMove(u)
              ELSE OppEconomyOrPatrol(u) : Commit(u, d, {})

-----------------------------------------------------------------------------
\* Siege.  claimed is the map occupied, which starts with the bot's own tiles.

Barred == view.walls \cup Foe \cup claimed

\* siegeAssignLockout: greedy pairs of a free unit and a free tile around a visible core.
SiegeAssignLockout ==
  LET slots == (UNION {GetAllNeighbors(c) : c \in view.rivals}) \ (view.walls \cup Foe \cup Mine)
      Before(a, b) == a[1] < b[1] \/ (a[1] = b[1] /\ a[2] < b[2])
      Pair(acc, n) ==
        LET free == {i \in DOMAIN view.mine : \A p \in acc : p[1] # view.mine[i]}
            open == {t \in slots : \A p \in acc : p[2] # t}
            near == Min({Distance2(view.mine[i], t) : i \in free, t \in open})
            i == Min({j \in free : \E t \in open : Distance2(view.mine[j], t) = near})
            ties == {t \in open : Distance2(view.mine[i], t) = near}
        IN IF free = {} \/ open = {} THEN acc
           ELSE acc \cup {<<view.mine[i], CHOOSE t \in ties : \A o \in ties \ {t} : Before(t, o)>>}
  IN FoldLeft(Pair, {}, view.mine)

SiegeStepToward(u, t) == MoveToward(u, t, Barred)

\* One entry of the lockout map, in map order: the unit steps if a tile is free.
BrowserSiegeLockout ==
  /\ strategy = "b_siege" /\ targets # <<>>
  /\ LET u == Head(targets)[1]  d == SiegeStepToward(u, Head(targets)[2]) IN
     IF d = None THEN UNCHANGED <<orders, claimed, assigned>>
     ELSE /\ orders' = Append(orders, <<u, d>>)
          /\ claimed' = claimed \cup {SimulateMove(u, d)} /\ assigned' = assigned \cup {u}
  /\ targets' = Tail(targets)
  /\ UNCHANGED <<strategy, view, turn, asked, phase, queue, used, memory>>

SiegeFleeDir(u) == Best([d \in Ways(u, view.walls) |-> Distance2(SimulateMove(u, d), FlatMean(Foe))])
SiegeShouldFlee(u) == FarmerShouldFlee(u)

SiegeNearestEnergyDir(u) ==
  LET open == Board \ Barred
      step == FirstStep(u, view.energy \ used, open, open, 21)
  IN IF step = "lost" THEN None ELSE step

BrowserSiege ==
  /\ Loop("b_siege") /\ UNCHANGED assigned
  /\ LET u == Head(queue)
         edge == view.zone.active /\ Distance2(u, view.zone.center) >= view.zone.radius ^ 2 - 9
         urgent == When(edge, {SiegeStepToward(u, view.zone.center)})
                     ?? When(SiegeShouldFlee(u), {SiegeFleeDir(u)})
         food == First({d \in Ways(u, Barred) : SimulateMove(u, d) \in view.energy \ used})
     IN IF u \in assigned THEN UNCHANGED <<orders, claimed, used>>
        ELSE \E d \in urgent ?? {food} ?? {SiegeNearestEnergyDir(u)}
                        ?? {Toward(u, c, Barred) : c \in Nearest(u, view.rivals)} :
               /\ orders' = IF d = None THEN orders ELSE Append(orders, <<u, d>>)
               /\ claimed' = claimed \cup {SimulateMove(u, d)}
               /\ used' = IF None \in urgent /\ d = food /\ d # None THEN used \cup {SimulateMove(u, d)} ELSE used

-----------------------------------------------------------------------------
\* Economist: one step for the whole answer.  contests remembers who stands by what.

KeptContests == [u \in {v \in DOMAIN memory.contests \cap Mine : memory.contests[v] \in view.energy}
                   |-> memory.contests[u]]

\* Priorities as fractions: the energy an enemy can reach comes first.
EconomistPriority(e, free) ==
  LET mine == DistToSet(e, free)
      enemy == IF Foe = {} THEN Distance2(e, Middle) ELSE DistToSet(e, Foe)
      reach == IF Foe = {} THEN enemy < 100 ELSE enemy <= 64
  IN IF reach THEN <<10000, enemy + mine + 1>> ELSE <<IF enemy < 100 THEN 1000 ELSE 100, mine + 1>>

TowardDir(u, t) == MoveToward(u, t, {})

EconomistAnswer(kept, ranked) ==
  LET Send(acc, u, e) == IF Distance2(u, e) <= 2 THEN acc ELSE Append(acc, <<u, TowardDir(u, e)>>)
      held == FoldLeft(LAMBDA acc, u : IF u \in DOMAIN kept THEN Send(acc, u, kept[u]) ELSE acc, <<>>, view.mine)
      Take(acc, e) ==
        LET free == SelectSeq(view.mine, LAMBDA u : u \notin DOMAIN acc.contests)
            near == SelectSeq(free, LAMBDA u : Distance2(u, e) = DistToSet(e, ToSet(free)))
        IN IF free = <<>> THEN acc
           ELSE [contests |-> (Head(near) :> e) @@ acc.contests, orders |-> Send(acc.orders, Head(near), e)]
      sent == FoldLeft(Take, [contests |-> kept, orders |-> held], ranked)
      idle == SelectSeq(view.mine, LAMBDA u : u \notin DOMAIN sent.contests)
  IN [contests |-> sent.contests,
      orders |-> sent.orders \o [i \in DOMAIN idle |-> <<idle[i], TowardDir(idle[i], Middle)>>]]

Economist ==
  /\ strategy = "b_economist" /\ phase = "loop" /\ queue # <<>>
  /\ LET kept == KeptContests
         P == [e \in view.energy |-> EconomistPriority(e, Mine \ DOMAIN kept)]
     IN \E ranked \in SetToSeqs(view.energy) :
          /\ \A i, j \in DOMAIN ranked : i < j =>
               P[ranked[i]][1] * P[ranked[j]][2] >= P[ranked[j]][1] * P[ranked[i]][2]
          /\ orders' = EconomistAnswer(kept, ranked).orders
          /\ memory' = [memory EXCEPT !.contests = EconomistAnswer(kept, ranked).contests]
  /\ queue' = <<>>
  /\ UNCHANGED <<strategy, view, turn, asked, phase, targets, claimed, used, assigned>>

-----------------------------------------------------------------------------
\* Assassin, Phalanx, Zone Driver

ClosestStepDir(u, t, closed) == Best([d \in Ways(u, closed) |-> -AbsGap(SimulateMove(u, d), t)])

Scatter(i) == <<IF i % 3 = 0 THEN Rows \div 2 ELSE Rows - 1, IF i % 2 = 0 THEN Cols - 1 ELSE 0>>

\* claimed matters only where the search finds no way.
AssassinBFSDir(u, goal) ==
  IF u = goal THEN {None} ELSE {BfsDir(u, goal, Board \ view.walls)} ?? {ClosestStepDir(u, goal, Closed)}

BrowserAssassin ==
  /\ Loop("b_assassin") /\ Plain
  /\ LET u == Head(queue) IN
     \E d \in IF memory.target = NoTile
                THEN {ClosestStepDir(u, Scatter(Len(view.mine) - Len(queue)), view.walls)}
                ELSE AssassinBFSDir(u, memory.target) :
       /\ orders' = IF d = None THEN orders ELSE Append(orders, <<u, d>>)
       /\ claimed' = IF d = None \/ memory.target = NoTile THEN claimed ELSE claimed \cup {SimulateMove(u, d)}

\* A ring is walked from (n, 0), so it lies below and right of the centre it is meant for.
HexRing(n) ==
  LET turns == <<<<1, 0>>, <<0, 1>>, <<-1, 1>>, <<-1, 0>>, <<0, -1>>, <<1, -1>>>>
      Walk(acc, k) ==
        LET q == acc.q  r == acc.r  d == turns[((k - 1) \div n) + 1] IN
        [q |-> q + d[1], r |-> r + d[2], out |-> Append(acc.out, <<r, q + r \div 2>>)]
  IN FoldLeft(Walk, [q |-> n, r |-> 0, out |-> <<>>], [k \in 1 .. 6 * n |-> k]).out

\* The first rings are enough for squads of at most nineteen.
PhxFormationSlots(c, count) ==
  LET offsets == <<<<0, 0>>>> \o HexRing(1) \o HexRing(2) IN
  [i \in 1 .. count |-> <<(c[1] + offsets[i][1]) % Rows, (c[2] + offsets[i][2]) % Cols>>]

PhxAssignSlots(slots) ==
  LET Take(acc, u) ==
        LET free == DOMAIN slots \ acc.used
            best == CHOOSE i \in free : \A j \in free :
                      \/ Distance2(u, slots[i]) < Distance2(u, slots[j])
                      \/ Distance2(u, slots[i]) = Distance2(u, slots[j]) /\ i <= j
        IN [used |-> acc.used \cup {best}, slot |-> (u :> slots[best]) @@ acc.slot]
  IN FoldLeft(Take, [used |-> {}, slot |-> <<>>], view.mine).slot

\* Scores in tenths; every enemy in range counts.
PhxScoredDir(u, slot, target, c, rallying) ==
  LET Gain(p, t) == Distance2(u, t) - Distance2(p, t)
      Score(p) == 80 * Gain(p, slot) + 24 * Gain(p, c) + (IF rallying THEN 200 ELSE 100) * Gain(p, target)
                  + (IF rallying THEN 0 ELSE 500 * Near2(Foe, p, AttackRadius2))
  IN Best([d \in Ways(u, Closed \cup Foe) |-> Score(SimulateMove(u, d))])

BrowserPhalanx ==
  /\ Loop("b_phalanx") /\ Plain
  /\ LET u == Head(queue)
         c == memory.target
         rallying == MapThenSumSet(LAMBDA m : Distance2(m, c), Mine) > 9 * Len(view.mine)
         slot == PhxAssignSlots(PhxFormationSlots(c, Len(view.mine)))[u]
     IN \E t \in IF rallying THEN {c} ELSE CircularMean(Foe) :
          Commit(u, PhxScoredDir(u, slot, t, c, rallying), {})

\* A tenth of a rounding: 0.7 of the way from the last centroid.
SmoothCentroid(prev, now) ==
  LET Round(x) == IF x >= 0 THEN (x + 5) \div 10 ELSE -((5 - x) \div 10) IN
  <<(Round(10 * prev[1] + 7 * Signed(now[1], prev[1], Rows)) + Rows) % Rows,
    (Round(10 * prev[2] + 7 * Signed(now[2], prev[2], Cols)) + Cols) % Cols>>

OutsideZone(u) == Distance2(u, view.zone.center) > (view.zone.radius - 1) ^ 2

ZdRetreatDir(u) ==
  LET c == view.zone.center IN
  Best([d \in {e \in Ways(u, view.walls) : Distance2(SimulateMove(u, e), c) < Distance2(u, c)}
          |-> -Distance2(SimulateMove(u, d), c)])

ZdKillBand ==
  {e \in Foe : LET d2 == Distance2(e, view.zone.center) IN
                 d2 >= Max({0, view.zone.radius - 2}) ^ 2 /\ d2 <= view.zone.radius ^ 2}

\* The tile one step from the enemy toward the centre; lengths in hundredths.
ZdBlockEscapeDir(u, e) ==
  LET dr == view.zone.center[1] - e[1]  dc == view.zone.center[2] - e[2]
      n2 == 10000 * (dr ^ 2 + dc ^ 2)
      len == CHOOSE k \in 0 .. 100 * (Rows + Cols) : k ^ 2 <= n2 /\ (k + 1) ^ 2 > n2
      Off(p) == len * ((e[1] - p[1]) ^ 2 + (e[2] - p[2]) ^ 2) + 200 * ((e[1] - p[1]) * dr + (e[2] - p[2]) * dc)
  IN IF len = 0 THEN None ELSE Best([d \in Ways(u, view.walls) |-> -Off(SimulateMove(u, d))])

ZdAdvancePressureDir(u) ==
  LET c == view.zone.center
      inner == Max({0, view.zone.radius - 3}) ^ 2
  IN Aim(u, Foe, view.walls)
       ?? When(Distance2(u, c) < inner, {Best([d \in Ways(u, view.walls) |-> Distance2(SimulateMove(u, d), c)])})

ZdDefensiveFallback(u) == {Toward(u, e, view.walls \cup Foe) : e \in Nearest(u, Foe)}

ZoneDriverRungs(u) ==
  IF ~view.zone.active THEN ZdDefensiveFallback(u)
  ELSE When(OutsideZone(u), {ZdRetreatDir(u)})
         ?? {IF e = NoTile THEN None ELSE ZdBlockEscapeDir(u, e) : e \in Nearest(u, ZdKillBand)}
         ?? ZdAdvancePressureDir(u) ?? {"N"}

-----------------------------------------------------------------------------
\* The head of each GetMoves; a new match id clears what was remembered.
BrowserRemember(old) ==
  CASE strategy = "b_assassin" ->
         LET known == (old.known \cup view.rivals) \ view.ruins IN
         {[old EXCEPT !.known = known, !.target = t] : t \in Nearest(FlatMean(Mine), known)}
    [] strategy = "b_phalanx" ->
         {[old EXCEPT !.target = IF old.target = NoTile THEN c ELSE SmoothCentroid(old.target, c)] :
            c \in CircularMean(Mine)}
    [] OTHER -> {old}

BrowserGetMoves ==
  /\ phase = "look" /\ strategy \notin EngineBots
  /\ \E old \in {memory, NoMemory} : memory' \in BrowserRemember(old)
  /\ queue' \in IF strategy = "b_farmer" THEN FarmerOrder ELSE {view.mine}
  /\ targets' \in IF strategy = "b_siege" THEN SetToSeqs(SiegeAssignLockout) ELSE {<<>>}
  /\ claimed' = IF strategy = "b_siege" THEN Mine ELSE {}
  /\ phase' = "loop"
  /\ UNCHANGED <<strategy, view, turn, asked, used, assigned, orders>>

BrowserGatherer == Simple("b_gatherer", GathererRungs)
BrowserRusher == Simple("b_rusher", RusherRungs)
BrowserGuardian == Simple("b_guardian", GuardianRungs)
BrowserSwarm == Simple("b_swarm", SwarmRungs)
BrowserHunter == Simple("b_hunter", HunterRungs)
ZoneDriver == Simple("b_zone_driver", ZoneDriverRungs)

BrowserNext ==
  \/ BrowserGetMoves
  \/ BrowserGatherer \/ BrowserRusher \/ BrowserGuardian \/ BrowserSwarm \/ BrowserHunter
  \/ BrowserFarmer \/ BrowserOpportunist \/ BrowserSiegeLockout \/ BrowserSiege \/ Economist
  \/ BrowserAssassin \/ BrowserPhalanx \/ ZoneDriver

\* One bot of either kind, asked again and again.
BotsSpec == StrategiesInit /\ [][StrategiesNext \/ BrowserNext]_strategyVars

=============================================================================
