----------------------------- MODULE Strategies -----------------------------
(* The built-in bots of the engine (engine/bot_strategies.go and               *)
(* bot_strategies_phase13.go): what one bot orders in a turn from what it sees. *)
(* A turn is a sequence of steps, one per unit in the order the loop of GetMoves *)
(* takes them, because the units share what the loop has already decided: the    *)
(* tiles claimed, the energy taken, the units assigned to a target.  Go's map     *)
(* order and the bots' random numbers are nondeterministic choices.  Scores with  *)
(* halves are doubled, so they stay integers; a mean of angles is any tile close  *)
(* to the group, because its rounding decides nothing the properties speak about. *)
EXTENDS Integers, Sequences, FiniteSets, FiniteSetsExt, SequencesExt, TLC

CONSTANTS
  Rows, Cols, AttackRadius2, VisionRadius2,   \* the engine's Config
  Views,         \* the states a bot may be shown
  Lapses,        \* turns between two requests with a living unit
  Playing,       \* the strategies checked
  MaxTurns       \* bound: requests answered

ASSUME StrategiesAssumption ==
  /\ Rows \in Nat \ {0} /\ Cols \in Nat \ {0} /\ AttackRadius2 \in Nat /\ VisionRadius2 \in Nat
  /\ \A v \in Views : Len(v.mine) \in Nat

VARIABLES
  strategy,   \* the bot that is asked
  view,       \* the VisibleState it was sent: [mine, foe, energy, walls, cores, rivals, ruins, zone]
  turn,       \* state.Turn
  asked,      \* requests so far
  phase,      \* "look" at a request, then "loop" over the units
  queue,      \* its units the loop has not reached
  targets,    \* enemies still to be hunted (Hunter, Raider), rounds of pairing left (Siege)
  claimed, used, assigned,   \* the maps of the same names
  orders,     \* the moves appended so far: <<unit, direction>>
  memory      \* what the bot keeps between turns

strategyVars == <<strategy, view, turn, asked, phase, queue, targets, claimed, used, assigned, orders, memory>>

Rank == [N |-> 1, E |-> 2, S |-> 3, W |-> 4]
Dirs == DOMAIN Rank
None == "stay"
NoTile == <<-1, -1>>
Far == 100000   \* stands for "none": beyond every squared distance
Board == (0 .. Rows - 1) \X (0 .. Cols - 1)
Middle == <<Rows \div 2, Cols \div 2>>
Mine == ToSet(view.mine)
Foe == ToSet(view.foe)

-----------------------------------------------------------------------------
\* The torus

Delta(d) == [N |-> <<-1, 0>>, E |-> <<0, 1>>, S |-> <<1, 0>>, W |-> <<0, -1>>, stay |-> <<0, 0>>][d]

SimulateMove(p, d) == <<(p[1] + Delta(d)[1] + Rows) % Rows, (p[2] + Delta(d)[2] + Cols) % Cols>>

Gap(a, b, n) == LET d == IF a > b THEN a - b ELSE b - a IN IF d > n \div 2 THEN n - d ELSE d

Distance2(a, b) == Gap(a[1], b[1], Rows) ^ 2 + Gap(a[2], b[2], Cols) ^ 2

DistToSet(p, S) == IF S = {} THEN Far ELSE Min({Distance2(p, t) : t \in S})

\* The remainder of Go, which keeps the sign of the dividend.
GoMod(a, n) == IF a >= 0 THEN a % n ELSE -((-a) % n)

Ways(p, closed) == {d \in Dirs : SimulateMove(p, d) \notin closed}

\* The loops over N, E, S, W that keep a strictly better score: the first of the best.
Best(score) ==
  IF DOMAIN score = {} THEN None
  ELSE CHOOSE d \in DOMAIN score : \A e \in DOMAIN score :
         score[d] > score[e] \/ (score[d] = score[e] /\ Rank[d] <= Rank[e])

First(D) == Best([d \in D |-> 0])

MoveToward(from, to, closed) ==
  Best([d \in Ways(from, closed) |-> -Distance2(SimulateMove(from, d), to)])

\* Candidates of a loop over a map that keeps the nearest.
Nearest(p, S) == IF S = {} THEN {NoTile} ELSE {t \in S : Distance2(p, t) = DistToSet(p, S)}

\* Directions toward the nearest of S; "stay" when there is nothing to go to.
Toward(p, t, closed) == IF t = NoTile THEN None ELSE MoveToward(p, t, closed)
Aim(p, S, closed) == {Toward(p, t, closed) : t \in Nearest(p, S)}

\* if dir == DirNone { ... }: what B offers where A offers nothing.
A ?? B == (A \ {None}) \cup (IF None \in A THEN B ELSE {})
When(c, A) == IF c THEN A ELSE {None}

\* Breadth-first search: the first direction of the path found, "stay" on a goal,
\* "lost" when no goal is within limit steps.
FirstStep(start, goals, open, through, limit) ==
  LET Widen(acc, n) ==
        IF start \in acc.near \/ acc.more = {} THEN acc
        ELSE LET more == {p \in (through \cup {start}) \ acc.near :
                            \E d \in Dirs : SimulateMove(p, d) \in acc.near \cap open}
             IN [near |-> acc.near \cup more, inner |-> acc.near, more |-> more]
      found == FoldLeft(Widen, [near |-> goals, inner |-> {}, more |-> goals], [n \in 1 .. limit |-> n])
  IN IF start \in goals THEN None
     ELSE IF start \notin found.near THEN "lost"
     ELSE First({d \in Dirs : SimulateMove(start, d) \in found.inner \cap open})

Centred(x, n, S, i) ==
  \A m \in S : Gap(x, m[i], n) <= 1 + Max({Gap(a[i], b[i], n) : a, b \in S})

\* A tile the mean of the angles of S may be rounded to.
CircularMean(S) ==
  IF S = {} THEN {Middle} ELSE {c \in Board : Centred(c[1], Rows, S, 1) /\ Centred(c[2], Cols, S, 2)}

-----------------------------------------------------------------------------
\* Shared judgements

Signed(a, b, n) == LET d == a - b IN IF d > n \div 2 THEN d - n ELSE IF d < -(n \div 2) THEN d + n ELSE d
ZoneDist2(p) == Signed(p[1], view.zone.center[1], Rows) ^ 2 + Signed(p[2], view.zone.center[2], Cols) ^ 2

GetZoneEscapeDirection(p) ==
  IF ~view.zone.active \/ ZoneDist2(p) < view.zone.radius ^ 2 - 25 THEN None
  ELSE Best([d \in {e \in Ways(p, view.walls) : ZoneDist2(SimulateMove(p, e)) < ZoneDist2(p)}
               |-> -ZoneDist2(SimulateMove(p, d))])

Zone(u) == {GetZoneEscapeDirection(u)}

ShouldFleeFromEnemies(p) == DistToSet(p, Foe) <= AttackRadius2 + 9
IsInDanger(p) == DistToSet(p, Foe) <= AttackRadius2
FleeDirection(p, S) == Best([d \in Ways(p, view.walls) |-> DistToSet(SimulateMove(p, d), S)])

IsNearEnemy(p) == \E d \in Dirs : SimulateMove(p, d) \in Foe
Calm == {p \in Board : ~IsNearEnemy(p)}

FindIsolatedEnemies ==
  SelectSeq(view.foe, LAMBDA e : DistToSet(e, Foe \ {e}) >= 16 \/ Len(view.foe) = 1)

\* sortBotsByEnemyDist: sort.Slice leaves the order of equals open.
SortBotsByEnemyDist ==
  {q \in SetToSeqs(Mine) : \A i, j \in DOMAIN q : i < j => DistToSet(q[i], Foe) <= DistToSet(q[j], Foe)}

-----------------------------------------------------------------------------
\* Committing a unit

\* moves = append(moves, ...) when there is a direction.
Give(u, d) ==
  /\ orders' = IF d = None THEN orders ELSE Append(orders, <<u, d>>)
  /\ claimed' = claimed

\* Variant of Commit that does not look whether the destination is taken.
CommitAnyway(u, d, closed) ==
  /\ orders' = Append(orders, <<u, d>>)
  /\ claimed' = claimed \cup {SimulateMove(u, d)}

\* The closing lines of the phase 13 loops: a unit whose destination is taken holds.
Commit(u, d, closed) ==
  LET dest == SimulateMove(u, d) IN
  IF d = None \/ dest \in claimed \cup closed
    THEN orders' = orders /\ claimed' = claimed \cup {u}
    ELSE orders' = Append(orders, <<u, d>>) /\ claimed' = claimed \cup {dest}

\* One round of a loop over myBots for strategy s.
Loop(s) ==
  /\ strategy = s /\ phase = "loop" /\ targets = <<>> /\ queue # <<>>
  /\ queue' = Tail(queue)
  /\ UNCHANGED <<strategy, view, turn, asked, phase, targets, memory>>

Plain == UNCHANGED <<used, assigned>>

-----------------------------------------------------------------------------
\* bot_strategies.go

\* The centre of the enemies is the integer mean of their coordinates, not of the torus.
FlatMean(S) == IF S = {} THEN <<0, 0>>
               ELSE <<MapThenSumSet(LAMBDA p : p[1], S) \div Cardinality(S),
                      MapThenSumSet(LAMBDA p : p[2], S) \div Cardinality(S)>>

GetFleeDirection(u) ==
  LET away == Best([d \in Ways(u, view.walls) |-> Distance2(SimulateMove(u, d), FlatMean(Foe))])
  IN IF away = None THEN "N" ELSE away

FindNearestEnergy(u, limit) == FirstStep(u, view.energy, Board \ view.walls, Calm, limit)

\* The random part of the score, below 2, is worth less than 4 once doubled.
GathererExplore(u) ==
  LET D == {d \in Ways(u, view.walls) : SimulateMove(u, d) \in Calm}
      score == [d \in D |-> 10 * (Distance2(u, Middle) - Distance2(SimulateMove(u, d), Middle))
                  + MapThenSumSet(LAMBDA o : Distance2(SimulateMove(u, d), o), Mine \ {u})]
  IN IF D = {} THEN {None} ELSE {d \in D : \A e \in D : score[d] + 4 > score[e]}

\* GathererBot.computeBotMove: nothing ever enters usedEnergy.
Gatherer ==
  /\ Loop("gatherer") /\ Plain
  /\ LET u == Head(queue)
         step == FindNearestEnergy(u, Rows * Cols) IN
     \E d \in Zone(u) ?? When(DistToSet(u, Foe) <= AttackRadius2 + 4, {GetFleeDirection(u)})
                      ?? When(step # "lost", {step}) ?? GathererExplore(u) : Give(u, d)

RushTargets == IF memory.known = {} THEN {Middle} ELSE memory.known

FindBestMove(u) ==
  LET open == Board \ (view.walls \cup Foe)
      step == FirstStep(u, RushTargets, open, open, Rows * Cols)
      way == First(Ways(u, view.walls \cup Foe))
  IN IF step # "lost" THEN step ELSE IF way # None THEN way ELSE "N"

\* Before the storm: the first free direction, or an energy tile nearer to the middle.
RusherOpening(u) ==
  LET W == Ways(u, view.walls \cup Foe)
      Food == {d \in W : SimulateMove(u, d) \in view.energy \ used}
      Flat(p) == (p[1] - Middle[1]) ^ 2 + (p[2] - Middle[2]) ^ 2
  IN Best([d \in Food \cup ({First(W)} \ {None}) |-> -Flat(SimulateMove(u, d))])

Rusher ==
  /\ Loop("rusher") /\ UNCHANGED assigned
  /\ LET u == Head(queue)
         food == First({d \in Ways(u, view.walls) : SimulateMove(u, d) \in view.energy \ used})
         d == IF GetZoneEscapeDirection(u) # None THEN GetZoneEscapeDirection(u)
              ELSE IF ~view.zone.active THEN RusherOpening(u)
              ELSE IF Len(view.mine) <= 2 /\ food # None THEN food
              ELSE FindBestMove(u)
         eats == \/ ~view.zone.active
                 \/ GetZoneEscapeDirection(u) = None /\ Len(view.mine) <= 2 /\ food # None
     IN /\ Give(u, d)
        /\ used' = IF eats /\ d # None THEN used \cup ({SimulateMove(u, d)} \cap view.energy) ELSE used

\* Guardian and Hunter mark the energy they go for, even when no direction is open.
Guardian ==
  /\ Loop("guardian") /\ UNCHANGED assigned
  /\ LET u == Head(queue)
         duty == Zone(u) ?? When(DistToSet(u, Foe) <= 50, Aim(u, Foe, view.walls))
                         ?? When(DistToSet(u, view.cores) > 25, Aim(u, view.cores, view.walls))
         home == None \in duty /\ DistToSet(u, view.cores) <= 100
     IN \E e \in IF home THEN Nearest(u, view.energy \ used) ELSE {NoTile} :
        \E d \in duty ?? {Toward(u, e, view.walls)} :
          Give(u, d) /\ used' = used \cup ({e} \ {NoTile})

MaintainsCohesion(p, u) == \E o \in Mine \ {u} : Distance2(p, o) <= 9

\* Doubled scores of a formation: toward the target, near the centre, in range, on energy.
FormationScore(u, d, centre, target, food) ==
  LET p == SimulateMove(u, d) IN
  20 * (Distance2(u, target) - Distance2(p, target)) - Distance2(p, centre)
    + (IF IsInDanger(p) THEN 100 ELSE 0) + (IF p \in food THEN 30 ELSE 0)

SwarmMove(u) ==
  LET D == {d \in Ways(u, view.walls \cup Foe \cup claimed \cup (Mine \ {u})) :
              MaintainsCohesion(SimulateMove(u, d), u)}
  IN {Best([d \in D |-> FormationScore(u, d, c, t, view.energy)]) :
        c \in CircularMean(Mine), t \in CircularMean(Foe)}

\* Thousandths of a point; a swarm of one or two neither claims nor avoids its partner.
SoloMove(u) ==
  LET Pull(p, S, w) == MapThenSumSet(LAMBDA t : IF Distance2(p, t) < Distance2(u, t)
                                                THEN (w * 1000) \div (Distance2(p, t) + 1) ELSE 0, S)
      Score(p) == (IF p \in view.energy THEN 120000 ELSE 0) + Pull(p, view.energy, 25) + Pull(p, Foe, 40)
                  + 35000 * Cardinality({e \in Foe : Distance2(p, e) <= AttackRadius2})
  IN {Best([d \in Ways(u, view.walls \cup Foe) |-> Score(SimulateMove(u, d))])}

Swarm ==
  /\ Loop("swarm") /\ Plain
  /\ LET u == Head(queue) IN
     \E d \in Zone(u) ?? (IF Len(view.mine) <= 2 THEN SoloMove(u) ELSE SwarmMove(u)) :
       /\ orders' = IF d = None THEN orders ELSE Append(orders, <<u, d>>)
       /\ claimed' = claimed \cup {SimulateMove(u, d)}

\* lastPos points at currentPos itself, so the predicted step is always zero;
\* the wrap at 60 is a constant of the code.
PredictPosition(e) == <<(e[1] + 60) % 60, (e[2] + 60) % 60>>

\* One isolated enemy: units in the storm's reach leave it, then two hunters go.
HunterAssign ==
  /\ strategy = "hunter" /\ targets # <<>>
  /\ LET prey == Head(targets)
         Consider(acc, u) ==
           IF u \in acc.assigned \/ acc.hunters >= 2 THEN acc
           ELSE LET zone == GetZoneEscapeDirection(u)
                    dir == IF zone # None THEN zone
                           ELSE IF Distance2(u, prey) < 400 THEN MoveToward(u, PredictPosition(prey), view.walls)
                           ELSE None
                IN IF dir = None THEN acc
                   ELSE [orders |-> Append(acc.orders, <<u, dir>>), assigned |-> acc.assigned \cup {u},
                         hunters |-> acc.hunters + (IF zone = None THEN 1 ELSE 0)]
         end == FoldLeft(Consider, [orders |-> orders, assigned |-> assigned, hunters |-> 0], view.mine)
     IN orders' = end.orders /\ assigned' = end.assigned
  /\ targets' = Tail(targets)
  /\ UNCHANGED <<strategy, view, turn, asked, phase, queue, claimed, used, memory>>

Hunter ==
  /\ Loop("hunter") /\ UNCHANGED assigned
  /\ LET u == Head(queue) IN
     IF u \in assigned THEN UNCHANGED <<orders, claimed, used>>
     ELSE IF GetZoneEscapeDirection(u) # None THEN Give(u, GetZoneEscapeDirection(u)) /\ UNCHANGED used
     ELSE \E e \in Nearest(u, view.energy \ used) :
          \E d \in {Toward(u, e, view.walls)} ?? {MoveToward(u, Middle, view.walls)} :
            Give(u, d) /\ used' = used \cup ({e} \ {NoTile})

GetAllNeighbors(p) ==
  {<<(p[1] + dr + Rows) % Rows, (p[2] + dc + Cols) % Cols>> : dr \in -1 .. 1, dc \in -1 .. 1} \ {p}

\* The free tiles around the enemy cores seen now or ever.
LockoutTargets(known) ==
  (UNION {GetAllNeighbors(c) : c \in known})
    \ (view.walls \cup Foe \cup view.cores \cup view.rivals \cup view.ruins)

Foraging(known) == (Len(view.mine) < 3 /\ ~view.zone.active) \/ LockoutTargets(known) = {}

Open == Board \ (view.walls \cup Foe)

\* SiegeBot.getDirectionToward: along the longer axis, walls or not.
AlongAxis(from, to) ==
  LET dr == Signed(to[1], from[1], Rows)  dc == Signed(to[2], from[2], Cols) IN
  IF dr ^ 2 > dc ^ 2 THEN (IF dr > 0 THEN "S" ELSE "N") ELSE (IF dc > 0 THEN "E" ELSE "W")

FindPath(u, t) ==
  LET step == FirstStep(u, {t}, Open, Open, 30) IN IF step = "lost" THEN AlongAxis(u, t) ELSE step

SiegeExplore(u) ==
  LET calm == First({d \in Ways(u, view.walls) : SimulateMove(u, d) \in Calm})
  IN {IF calm = None THEN "N" ELSE calm}

ForageStep(u) == LET step == FindNearestEnergy(u, 20) IN When(step # "lost", {step})

\* Energy at most two tiles away; the fallback of findPath counts as a path of one.
Snack(u) ==
  {FindPath(u, e) : e \in {f \in view.energy : /\ Distance2(u, f) <= 2
                             /\ \/ FirstStep(u, {f}, Open, Open, 2) # "lost"
                                \/ FirstStep(u, {f}, Open, Open, 30) = "lost"}}

IsCoreFullySieged(c) == 2 * Cardinality(GetAllNeighbors(c) \cap used) >= Cardinality(GetAllNeighbors(c))

Rush(u) == {FindPath(u, c) : c \in {k \in memory.known : IsCoreFullySieged(k)}}

GetForageMove(u) ==
  ForageStep(u) ?? {FindPath(u, c) : c \in Nearest(u, memory.known)} ?? SiegeExplore(u)

OrStay(A) == IF A \ {None} = {} THEN {None} ELSE A \ {None}

\* One round of the greedy pairing: the closest pair of a free unit and a free tile.
SiegeAssign ==
  /\ strategy = "siege" /\ targets # <<>>
  /\ LET free == {i \in DOMAIN view.mine : view.mine[i] \notin assigned}
         posts == LockoutTargets(memory.known) \ used
         near == Min({Distance2(view.mine[i], t) : i \in free, t \in posts})
         i == Min({j \in free : \E t \in posts : Distance2(view.mine[j], t) = near})
         u == view.mine[i]
     IN \E t \in {p \in posts : Distance2(u, p) = near} :
          /\ Give(u, FindPath(u, t))
          /\ assigned' = assigned \cup {u}
          /\ used' = used \cup {t}
          /\ targets' = IF posts = {t} THEN <<>> ELSE Tail(targets)
  /\ UNCHANGED <<strategy, view, turn, asked, phase, queue, memory>>

Siege ==
  /\ Loop("siege") /\ Plain
  /\ LET u == Head(queue) IN
     \E d \in IF Foraging(memory.known) THEN Zone(u) ?? ForageStep(u) ?? SiegeExplore(u)
              ELSE IF u \in assigned THEN {None}
              ELSE Zone(u) ?? OrStay(Snack(u)) ?? OrStay(Rush(u)) ?? GetForageMove(u) : Give(u, d)

-----------------------------------------------------------------------------
\* bot_strategies_phase13.go

\* moveToward avoids the tiles claimed by the units before.
Closed == view.walls \cup claimed

Defender ==
  /\ Loop("defender") /\ Plain
  /\ LET u == Head(queue) IN
     \E d \in Zone(u) ?? When(DistToSet(u, Foe) <= 50, Aim(u, Foe, Closed))
                      ?? When(DistToSet(u, view.cores) > 25, Aim(u, view.cores, Closed))
                      ?? Aim(u, view.energy, Closed) ?? Aim(u, view.cores, Closed) ?? Dirs : Commit(u, d, {})

Ray(u, d, n) == <<GoMod(u[1] + Delta(d)[1] * n + Rows, Rows), GoMod(u[2] + Delta(d)[2] * n + Cols, Cols)>>

\* Staleness of the eight tiles ahead; a direction into a wall or a claimed tile is out.
BestExploreDir(u) ==
  LET Stale(t) == IF t \in view.walls THEN 0
                  ELSE IF t \in DOMAIN memory.seen THEN turn - memory.seen[t] ELSE turn + 1
  IN Best([d \in Ways(u, Closed) |-> MapThenSumSet(LAMBDA n : Stale(Ray(u, d, n)), 1 .. 8)])

Unclaimed(u, A) == {IF SimulateMove(u, d) \in claimed THEN None ELSE d : d \in A}

Scout ==
  /\ Loop("scout") /\ Plain
  /\ LET u == Head(queue) IN
     \E d \in Unclaimed(u, Zone(u)) ?? When(ShouldFleeFromEnemies(u), Unclaimed(u, {FleeDirection(u, Foe)}))
                ?? {BestExploreDir(u)} ?? Dirs : Commit(u, d, {})

Farmer ==
  /\ Loop("farmer") /\ UNCHANGED assigned
  /\ LET u == Head(queue)
         urgent == Zone(u) ?? When(ShouldFleeFromEnemies(u), {FleeDirection(u, Foe)})
     IN \E e \in IF None \in urgent THEN Nearest(u, view.energy \ used) ELSE {NoTile} :
        \E d \in urgent ?? {Toward(u, e, Closed)}
                   ?? When(DistToSet(u, view.cores) > 9, Aim(u, view.cores, Closed)) ?? Dirs :
          Commit(u, d, view.walls) /\ used' = used \cup ({e} \ {NoTile})

Pacifist ==
  /\ Loop("pacifist") /\ Plain
  /\ LET u == Head(queue)
         Score(p) == (IF Foe = {} THEN 0 ELSE 10 * DistToSet(p, Foe))
                     + (IF IsInDanger(u) /\ view.cores # {}
                        THEN 15 * (DistToSet(u, view.cores) - DistToSet(p, view.cores)) ELSE 0)
     IN \E d \in Zone(u) ?? {Best([e \in Ways(u, Closed \cup Foe) |-> Score(SimulateMove(u, e))])} :
          Commit(u, d, view.walls)

Phalanx ==
  /\ Loop("phalanx") /\ Plain
  /\ LET u == Head(queue) IN
     \E d \in Zone(u) ?? {Best([e \in Ways(u, Closed \cup Foe) |-> FormationScore(u, e, c, t, {})]) :
                            c \in CircularMean(Mine), t \in CircularMean(Foe)} : Commit(u, d, view.walls)

Engaged(u) == IF u \in DOMAIN memory.engaged THEN memory.engaged[u] ELSE 0

\* One unit before an isolated enemy: the storm first, then the raid.  The count of a
\* tile stops at two, so the reset at four is never reached.
RaiderConsider(prey, acc, u) ==
  LET zone == GetZoneEscapeDirection(u)
      turns == IF u \in DOMAIN acc.engaged THEN acc.engaged[u] ELSE 0
      dir == IF zone # None THEN zone
             ELSE IF Distance2(u, prey) >= 400 THEN None
             ELSE IF turns >= 2 THEN FleeDirection(u, {prey})
             ELSE MoveToward(u, prey, view.walls \cup acc.claimed)
      dest == SimulateMove(u, dir)
      engaged == IF zone # None \/ Distance2(u, prey) >= 400 \/ turns \in {2, 3} THEN acc.engaged
                 ELSE (u :> IF turns >= 4 THEN 0 ELSE turns + 1) @@ acc.engaged
  IN IF acc.done \/ u \in acc.assigned THEN acc
     ELSE IF dir = None \/ dest \in acc.claimed THEN [acc EXCEPT !.engaged = engaged]
     ELSE [orders |-> Append(acc.orders, <<u, dir>>), claimed |-> acc.claimed \cup {dest},
           assigned |-> acc.assigned \cup {u}, engaged |-> engaged, done |-> zone = None]

\* The round over the units for one enemy, up to the first that raids it.
RaiderRound(prey) ==
  LET round[i \in 0 .. Len(view.mine)] ==
        IF i = 0 THEN [orders |-> orders, claimed |-> claimed, assigned |-> assigned,
                       engaged |-> memory.engaged, done |-> FALSE]
        ELSE RaiderConsider(prey, round[i - 1], view.mine[i])
  IN round[Len(view.mine)]

RaiderAssign ==
  /\ strategy = "raider" /\ targets # <<>>
  /\ LET end == RaiderRound(Head(targets))
     IN /\ orders' = end.orders /\ claimed' = end.claimed /\ assigned' = end.assigned
        /\ memory' = [memory EXCEPT !.engaged = end.engaged]
  /\ targets' = Tail(targets)
  /\ UNCHANGED <<strategy, view, turn, asked, phase, queue, used>>

Raider ==
  /\ Loop("raider") /\ Plain
  /\ LET u == Head(queue) IN
     IF u \in assigned THEN UNCHANGED <<orders, claimed>>
     ELSE \E d \in Zone(u) ?? Aim(u, view.energy, Closed) ?? {MoveToward(u, Middle, Closed)} ?? Dirs :
            Commit(u, d, {})

PickNomadTarget(c) ==
  {<<Rows \div 5, Cols \div 5>>, <<Rows \div 5, (4 * Cols) \div 5>>, <<(4 * Rows) \div 5, Cols \div 5>>,
   <<(4 * Rows) \div 5, (4 * Cols) \div 5>>, <<(c[1] + Rows \div 2) % Rows, (c[2] + Cols \div 2) % Cols>>,
   <<0, Cols \div 2>>, <<Rows - 1, Cols \div 2>>, <<Rows \div 2, 0>>, <<Rows \div 2, Cols - 1>>}

\* The group's destination: chosen anew ten turns after arrival or forty after the choice.
NomadPlan(m, c) ==
  LET stale == \/ m.target = NoTile
               \/ m.arrived /\ turn - m.arriveTurn >= 10
               \/ ~m.arrived /\ turn - m.targetTurn >= 40
      radius == (Min({Rows, Cols}) * 15) \div 100
      plans == IF stale THEN {[m EXCEPT !.target = t, !.targetTurn = turn, !.arrived = FALSE] : t \in PickNomadTarget(c)}
               ELSE {m}
  IN {IF ~p.arrived /\ Distance2(c, p.target) <= radius ^ 2
        THEN [p EXCEPT !.arrived = TRUE, !.arriveTurn = turn] ELSE p : p \in plans}

Nomad ==
  /\ Loop("nomad") /\ Plain
  /\ LET u == Head(queue) IN
     \E d \in Zone(u) ?? When(ShouldFleeFromEnemies(u), {FleeDirection(u, Foe)})
                ?? When(memory.nomad.arrived /\ DistToSet(u, Foe) <= AttackRadius2 * 4, Aim(u, Foe, Closed))
                ?? {MoveToward(u, memory.nomad.target, Closed)} ?? Dirs : Commit(u, d, view.walls)

Nearby(S, p) == Cardinality({s \in S : Distance2(s, p) <= 25})

\* Isolation over support; the scores are squared, so they stay rational.
Isolation(e) == IF Foe = {e} THEN 100 ELSE DistToSet(e, Foe \ {e})
Weaker(a, b) == Isolation(a) * Nearby(Foe, b) ^ 2 > Isolation(b) * Nearby(Foe, a) ^ 2

\* The weakest enemy among those the bot's units match in number; the first of equals.
OpportunistTarget ==
  LET Weak == SelectSeq(view.foe, LAMBDA e : Nearby(Mine, e) >= Nearby(Foe, e))
      Keep(best, e) == IF best = NoTile \/ Weaker(e, best) THEN e ELSE best
  IN FoldLeft(Keep, NoTile, Weak)

\* The nearest ally of a unit is the unit itself, whose set holds it.
Opportunist ==
  /\ Loop("opportunist") /\ Plain
  /\ LET u == Head(queue) IN
     \E d \in Zone(u) ?? {Toward(u, OpportunistTarget, Closed)}
                ?? When(ShouldFleeFromEnemies(u), Aim(u, Mine, Closed))
                ?? Aim(u, view.energy, Closed) ?? Aim(u, view.cores, Closed) ?? Dirs : Commit(u, d, view.walls)

Assassin ==
  /\ Loop("assassin") /\ Plain
  /\ LET u == Head(queue)
         Opposite == <<Rows - u[1], Cols - u[2]>>
     IN \E d \in Zone(u) ?? {Toward(u, memory.target, Closed)} ?? {MoveToward(u, Opposite, Closed)} ?? Dirs :
          Commit(u, d, {})

Kamikaze ==
  /\ Loop("kamikaze") /\ Plain
  /\ LET u == Head(queue)
         Score(p, e) ==
           (IF e # NoTile
              THEN 50 * (Distance2(u, e) - Distance2(p, e)) - 100 * Distance2(p, e)
                   + (IF Distance2(p, e) <= AttackRadius2 THEN 200 ELSE 0)
              ELSE IF view.rivals # {} THEN -100 * DistToSet(p, view.rivals) ELSE 0)
           + (IF p \in view.energy THEN 5 ELSE 0)
     IN \E d \in Zone(u) ?? {Best([w \in Ways(u, Closed) |-> Score(SimulateMove(u, w), e)]) : e \in Nearest(u, Foe)} :
          Commit(u, d, view.walls)

-----------------------------------------------------------------------------
\* The head of GetMoves: what is remembered, in which order the units are taken.

InSight(u) == {<<GoMod(u[1] + d[1] + Rows, Rows), GoMod(u[2] + d[2] + Cols, Cols)>> :
                 d \in {e \in (-8 .. 8) \X (-8 .. 8) : e[1] ^ 2 + e[2] ^ 2 <= VisionRadius2}}

EngineBots == {"gatherer", "rusher", "guardian", "swarm", "hunter", "siege", "defender", "scout", "farmer",
               "pacifist", "phalanx", "raider", "nomad", "opportunist", "assassin", "kamikaze"}

NoMemory == [known |-> {}, target |-> NoTile, engaged |-> <<>>, seen |-> <<>>, contests |-> <<>>,
             nomad |-> [target |-> NoTile, targetTurn |-> 0, arrived |-> FALSE, arriveTurn |-> 0]]

Remember ==
  LET known == memory.known \cup view.rivals IN
  CASE strategy \in {"rusher", "siege"} -> {[memory EXCEPT !.known = known]}
    [] strategy = "assassin" ->
         {[memory EXCEPT !.known = known, !.target = t] : t \in UNION {Nearest(c, known) : c \in CircularMean(Mine)}}
    [] strategy = "scout" ->
         {[memory EXCEPT !.seen = [t \in UNION {InSight(u) : u \in Mine} |-> turn] @@ memory.seen]}
    [] strategy = "nomad" ->
         {[memory EXCEPT !.nomad = p] : p \in UNION {NomadPlan(memory.nomad, c) : c \in CircularMean(Mine)}}
    [] OTHER -> {memory}

\* The head of GetMoves.  The units come in the order of the state, sorted by two bots.
GetMoves ==
  /\ phase = "look" /\ strategy \in EngineBots
  /\ memory' \in Remember
  /\ queue' \in IF strategy \in {"pacifist", "kamikaze"} THEN SortBotsByEnemyDist ELSE {view.mine}
  /\ targets' = CASE strategy \in {"hunter", "raider"} -> FindIsolatedEnemies
                  [] strategy = "siege" /\ ~Foraging(memory'.known) -> view.mine
                  [] OTHER -> <<>>
  /\ phase' = "loop"
  /\ UNCHANGED <<strategy, view, turn, asked, claimed, used, assigned, orders>>

\* The engine's next request; a bot without a living unit returns before it looks.
Request ==
  /\ phase = "loop" /\ queue = <<>> /\ targets = <<>> /\ asked < MaxTurns
  /\ \E v \in Views, lapse \in Lapses : view' = v /\ turn' = turn + lapse
  /\ asked' = asked + 1 /\ phase' = "look"
  /\ claimed' = {} /\ used' = {} /\ assigned' = {} /\ orders' = <<>>
  /\ UNCHANGED <<strategy, queue, targets, memory>>

StrategiesInit ==
  /\ strategy \in Playing /\ view \in Views /\ turn = 0 /\ asked = 1 /\ phase = "look"
  /\ queue = <<>> /\ targets = <<>> /\ claimed = {} /\ used = {} /\ assigned = {} /\ orders = <<>>
  /\ memory = NoMemory

StrategiesNext ==
  \/ Request \/ GetMoves
  \/ Gatherer \/ Rusher \/ Guardian \/ Swarm \/ HunterAssign \/ Hunter \/ SiegeAssign \/ Siege
  \/ Defender \/ Scout \/ Farmer \/ Pacifist \/ Phalanx \/ RaiderAssign \/ Raider \/ Nomad
  \/ Opportunist \/ Assassin \/ Kamikaze

-----------------------------------------------------------------------------
\* Properties

Destination(o) == SimulateMove(o[1], o[2])
Claiming == {"defender", "scout", "farmer", "pacifist", "phalanx", "raider", "nomad", "opportunist",
             "assassin", "kamikaze", "b_farmer", "b_opportunist", "b_phalanx"}

\* The bots that claim destinations (all of phase 13, three of the browser's) never
\* order two of their units onto one tile, where both would die, whatever rung of the
\* ladder each order comes from: storm, flight, hunt, energy or the random direction.
NoOrdersMeet ==
  strategy \in Claiming =>
    \A i, j \in DOMAIN orders : i # j => Destination(orders[i]) # Destination(orders[j])
=============================================================================
