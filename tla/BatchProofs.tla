----------------------------- MODULE BatchProofs -----------------------------
(***************************************************************************)
(* Proofs about the evolver, for any number of programs, islands and       *)
(* faults: its fleet, tables and niches stay in order.                     *)
(***************************************************************************)
EXTENDS Evolution, FiniteSetTheorems, SequenceTheorems, TLAPS

(***************************************************************************)
(* The evolver: its inductive invariant, in named parts.                   *)
(***************************************************************************)
BeforeRow == {"validate", "arena", "source", "trigger", "workflow", "ready", "row"}
BeforeLink == BeforeRow \cup {"promoted", "link"}

\* The programs table: ids come from the sequence; the first seed is never
\* deleted, so the table is not seeded a second time.
StoreInv ==
  /\ lastId \in Nat
  /\ Rows \subseteq 1..lastId
  /\ \A p \in Rows : /\ {"fit", "niche", "promoted", "bot", "named"} \subseteq DOMAIN programs[p]
                     /\ programs[p].fit \in Nat
                     /\ programs[p].promoted \in BOOLEAN
                     /\ programs[p].bot \in BOOLEAN
                     /\ programs[p].named \in BOOLEAN
  /\ 1 \in Rows \/ (Rows = {} /\ lastId = 0)
  /\ pc # "boot" => 1 \in Rows

\* The candidate in hand: it has a row of its own, no bot row until PromoteRow
\* and no link until PromoteProgram.
CandidateInv ==
  /\ "id" \in DOMAIN cycle
  /\ pc \in BeforeLink \cup {"name"} => cycle.id \in Rows \ {1}
  /\ pc \in BeforeLink => ~programs[cycle.id].bot
  /\ pc \in BeforeRow => cycle.id \notin DOMAIN bots
  /\ pc \in {"promoted", "link"} => cycle.id \in Own \cup foreign
  /\ pc = "link" => programs[cycle.id].promoted

\* The fleet: a program linked to a bot has a bot row.
FleetInv ==
  /\ DOMAIN bots \subseteq 1..lastId
  /\ Linked \subseteq DOMAIN bots
  /\ foreign \subseteq DOMAIN bots

\* The lists of the two retirers: they hold bots that were linked, never the
\* candidate in hand; a bot whose retirement has begun is not active.
ListsInv ==
  /\ todo \in [Retirers -> Seq([id : Nat, named : BOOLEAN])]
  /\ rstep \in [Retirers -> {"status", "source", "manifest", "unset"}]
  /\ \A r \in Retirers :
       /\ todo[r] = <<>> => rstep[r] = "status"
       /\ \A k \in 1..Len(todo[r]) :
            /\ todo[r][k].id \in DOMAIN bots
            /\ pc \in {"promoted", "link"} => todo[r][k].id # cycle.id
       /\ todo[r] # <<>> /\ rstep[r] # "status" => Head(todo[r]).id \notin Own
  /\ todo["cycle"] # <<>> => pc = "retire"

\* The bot repository and the cluster follow the promotion step by step.
DeployInv ==
  /\ ActiveIsDeployed
  /\ pc \in {"trigger", "workflow", "ready", "row"} => cycle.id \in repo
  /\ pc = "row" => cycle.id \in cluster

EvolverInv == StoreInv /\ CandidateInv /\ FleetInv /\ ListsInv /\ DeployInv

Gated == {"source", "trigger", "workflow", "ready", "row", "promoted", "link"}

\* From the gate to the link the candidate stays fitter than the champions of
\* its niche: others are unlinked meanwhile, none is linked.
NicheInv ==
  /\ NicheImproves
  /\ pc \in Gated /\ cycle.id \notin blind
     => \A q \in Linked : programs[q].niche = programs[cycle.id].niche
                            => programs[cycle.id].fit > programs[q].fit

\* Where the two tables may differ without any fault: a bot between the first
\* and the last statement of its retirement, or of its promotion.
HeadOf(r) == IF todo[r] # <<>> /\ rstep[r] # "status" THEN {todo[r][1].id} ELSE {}
Excused == HeadOf("cycle") \cup HeadOf("ticker")
             \cup (IF pc \in {"promoted", "link"} THEN {cycle.id} ELSE {})
Drift == SymDiff(Own, Linked \ foreign) \ Excused
DriftInv ==
  /\ faults \in Nat
  /\ IsFiniteSet(Drift)
  /\ Cardinality(Drift) <= 2 * faults

(***************************************************************************)
(* Steps that leave the tables and the lists alone.                        *)
(***************************************************************************)
Kept == <<programs, lastId, bots, foreign, todo, rstep>>

\* A step that leaves the stored rows and lists alone keeps what is said of them.
LEMMA KeptParts ==
  ASSUME EvolverInv, UNCHANGED Kept
  PROVE  /\ Rows' = Rows /\ Linked' = Linked /\ Own' = Own
         /\ FleetInv'
         /\ (pc # "boot" \/ pc' = "boot" \/ 1 \in Rows) => StoreInv'
         /\ /\ pc' \in {"promoted", "link"} => pc \in {"promoted", "link"} /\ cycle' = cycle
            /\ todo["cycle"] # <<>> => pc' = "retire"
            => ListsInv'
  <1> USE DEF Kept
  <1>1. Rows' = Rows /\ Linked' = Linked /\ Own' = Own
    BY DEF Rows, Linked, Own
  <1>2. FleetInv'
    BY <1>1 DEF EvolverInv, FleetInv
  <1>3. ASSUME pc # "boot" \/ pc' = "boot" \/ 1 \in Rows PROVE StoreInv'
    BY <1>1, <1>3 DEF EvolverInv, StoreInv
  <1>4. ASSUME pc' \in {"promoted", "link"} => pc \in {"promoted", "link"} /\ cycle' = cycle,
               todo["cycle"] # <<>> => pc' = "retire"
        PROVE  ListsInv'
    BY <1>1, <1>4 DEF EvolverInv, ListsInv
  <1> QED BY <1>1, <1>2, <1>3, <1>4

\* The loop goes on to its next place and drops the candidate, if it has one.
LEMMA DroppedKeeps ==
  ASSUME EvolverInv, UNCHANGED Kept, UNCHANGED cluster, repo \subseteq repo',
         "id" \in DOMAIN cycle',
         pc' \notin BeforeLink \cup {"name", "retire"},
         pc \notin {"boot", "retire"} \/ (pc = "boot" /\ Rows # {})
  PROVE  EvolverInv' /\ Linked' = Linked /\ Own' = Own
  <1> USE DEF BeforeLink, BeforeRow
  <1>1. 1 \in Rows /\ todo["cycle"] = <<>>
    BY DEF EvolverInv, StoreInv, ListsInv
  <1>2. Linked' = Linked /\ Own' = Own /\ FleetInv' /\ StoreInv' /\ ListsInv'
    BY <1>1, KeptParts
  <1>3. CandidateInv'
    BY DEF CandidateInv
  <1>4. DeployInv'
    BY <1>2 DEF EvolverInv, DeployInv, ActiveIsDeployed
  <1> QED BY <1>2, <1>3, <1>4 DEF EvolverInv

\* The loop goes one place on with the same candidate.
LEMMA MovedOnKeeps ==
  ASSUME EvolverInv, UNCHANGED Kept, UNCHANGED cycle, repo \subseteq repo', cluster \subseteq cluster',
         \/ pc' = pc
         \/ pc = "validate" /\ pc' = "arena"
         \/ pc = "source" /\ pc' = "trigger" /\ cycle.id \in repo'
         \/ pc = "trigger" /\ pc' = "workflow"
         \/ pc = "workflow" /\ pc' = "ready"
         \/ pc = "ready" /\ pc' = "row" /\ cycle.id \in cluster
  PROVE  EvolverInv' /\ Linked' = Linked /\ Own' = Own
  <1> USE DEF BeforeLink, BeforeRow
  <1>1. todo["cycle"] # <<>> => pc' = "retire"
    BY DEF EvolverInv, ListsInv
  <1>2. Rows' = Rows /\ Linked' = Linked /\ Own' = Own /\ FleetInv' /\ StoreInv' /\ ListsInv'
    BY <1>1, KeptParts
  <1>3. CandidateInv'
    BY <1>2 DEF EvolverInv, CandidateInv, Kept
  <1>4. DeployInv'
    BY <1>2 DEF EvolverInv, DeployInv, ActiveIsDeployed
  <1> QED BY <1>2, <1>3, <1>4 DEF EvolverInv

(***************************************************************************)
(* Rows come and go; links stay.                                           *)
(***************************************************************************)
LEMMA CreateKeepsLinks ==
  ASSUME EvolverInv, 1 \in Rows, UNCHANGED <<bots, foreign>>,
         NEW i, NEW gen, NEW fit \in Nat, NEW niche, Create(Row(i, gen, fit, niche))
  PROVE  /\ lastId' = lastId + 1
         /\ Rows' = Rows \cup {lastId + 1}
         /\ lastId + 1 \notin Rows \cup DOMAIN bots \cup {1}
         /\ \A p \in Rows : programs'[p] = programs[p]
         /\ ~programs'[lastId + 1].bot
         /\ Linked' = Linked /\ Own' = Own
         /\ StoreInv' /\ FleetInv'
  <1> DEFINE row == Row(i, gen, fit, niche)
  <1>0. lastId \in Nat /\ lastId # 0 /\ lastId + 1 \notin Rows \cup DOMAIN bots \cup {1}
    BY DEF EvolverInv, StoreInv, FleetInv
  <1>1. /\ lastId' = lastId + 1
        /\ programs' = [p \in Rows \cup {lastId + 1} |-> IF p \in Rows THEN programs[p] ELSE row]
    BY DEF Create
  <1>2. /\ DOMAIN row = {"island", "gen", "fit", "niche", "promoted", "bot", "named"}
        /\ row.fit = fit /\ row.promoted = FALSE /\ row.bot = FALSE /\ row.named = FALSE
    BY DEF Row
  <1> HIDE DEF row
  <1>3. Rows' = Rows \cup {lastId + 1}
    BY <1>1 DEF Rows
  <1>4. \A p \in Rows : programs'[p] = programs[p]
    BY <1>1
  <1>5. programs'[lastId + 1] = row
    BY <1>0, <1>1
  <1>6. Linked' = Linked
    BY <1>2, <1>3, <1>4, <1>5 DEF Linked
  <1>7. Own' = Own
    BY DEF Own
  <1>8. StoreInv'
    <2>1. \A p \in Rows' : /\ {"fit", "niche", "promoted", "bot", "named"} \subseteq DOMAIN programs'[p]
                           /\ programs'[p].fit \in Nat
                           /\ programs'[p].promoted \in BOOLEAN
                           /\ programs'[p].bot \in BOOLEAN
                           /\ programs'[p].named \in BOOLEAN
      BY <1>2, <1>3, <1>4, <1>5 DEF EvolverInv, StoreInv
    <2>2. Rows' \subseteq 1..lastId' /\ lastId' \in Nat
      BY <1>0, <1>1, <1>3 DEF EvolverInv, StoreInv
    <2>3. 1 \in Rows'
      BY <1>3
    <2> QED BY <2>1, <2>2, <2>3 DEF StoreInv
  <1>9. FleetInv'
    BY <1>0, <1>1, <1>6 DEF EvolverInv, FleetInv
  <1> QED BY <1>0, <1>1, <1>2, <1>3, <1>4, <1>5, <1>6, <1>7, <1>8, <1>9

\* Deleting an unlinked program leaves the links alone.
LEMMA DeleteKeepsLinks ==
  ASSUME EvolverInv, pc \in {"validate", "arena"}, Delete(cycle.id), UNCHANGED <<lastId, bots, foreign>>
  PROVE  /\ Rows' = Rows \ {cycle.id}
         /\ \A p \in Rows' : programs'[p] = programs[p]
         /\ Linked' = Linked /\ Own' = Own
         /\ StoreInv' /\ FleetInv'
  <1>1. cycle.id \in Rows \ {1} /\ ~programs[cycle.id].bot
    BY DEF EvolverInv, CandidateInv, BeforeLink, BeforeRow
  <1>2. Rows' = Rows \ {cycle.id} /\ \A p \in Rows' : programs'[p] = programs[p]
    BY DEF Delete, Rows
  <1>3. Linked' = Linked
    BY <1>1, <1>2 DEF Linked
  <1>4. Own' = Own
    BY DEF Own
  <1>5. 1 \in Rows
    BY DEF EvolverInv, StoreInv
  <1>6. StoreInv'
    BY <1>1, <1>2, <1>5 DEF EvolverInv, StoreInv
  <1>7. FleetInv'
    BY <1>3 DEF EvolverInv, FleetInv
  <1> QED BY <1>2, <1>3, <1>4, <1>6, <1>7

\* With the lists untouched, and nobody being promoted in the new state.
LEMMA IdleListsKept ==
  ASSUME EvolverInv, UNCHANGED <<todo, rstep>>, DOMAIN bots \subseteq DOMAIN bots', Own' \subseteq Own,
         pc' \notin {"promoted", "link"}, pc' = "retire" <=> pc = "retire"
  PROVE  ListsInv'
  BY DEF EvolverInv, ListsInv

(***************************************************************************)
(* The loop up to the promotion.                                           *)
(***************************************************************************)
SameFleet ==
  /\ Linked' = Linked /\ Own' = Own /\ foreign' = foreign
  /\ \A p \in Linked : programs'[p].fit = programs[p].fit /\ programs'[p].niche = programs[p].niche

\* Seeding the islands keeps the invariant.
LEMMA SeedKeeps ==
  ASSUME EvolverInv, SeedPopulation
  PROVE  EvolverInv' /\ SameFleet
  <1> USE DEF BeforeLink, BeforeRow
  <1>1. CASE Rows # {} /\ pc' = "idle" /\ UNCHANGED <<tables, faults>>
    <2>1. UNCHANGED Kept /\ cluster' = cluster /\ repo' = repo /\ cycle' = cycle /\ pc = "boot"
      BY <1>1 DEF SeedPopulation, tables, Kept, retirement, world
    <2>2. "id" \in DOMAIN cycle'
      BY <2>1 DEF EvolverInv, CandidateInv
    <2>3. EvolverInv' /\ Linked' = Linked /\ Own' = Own
      BY <1>1, <2>1, <2>2, DroppedKeeps
    <2> QED BY <2>1, <2>3 DEF SameFleet, Kept
  <1>2. ASSUME Rows = {}, NEW niche, NEW k \in 0..NumIslands,
               programs' = [p \in 1..k |-> Row(p, 0, 0, niche)], lastId' = k,
               (k = NumIslands /\ pc' = "idle") \/ pc' = pc, UNCHANGED <<bots, foreign>>
        PROVE  EvolverInv' /\ SameFleet
    <2>0. pc = "boot" /\ pc' \in {"boot", "idle"} /\ UNCHANGED <<repo, cluster, cycle, todo, rstep>>
      BY <1>2 DEF SeedPopulation, retirement, world
    <2>1. Rows' = 1..k /\ k \in Nat
      BY <1>2, EvolutionConstants DEF Rows
    <2>2. \A p \in Rows' :
            /\ DOMAIN programs'[p] = {"island", "gen", "fit", "niche", "promoted", "bot", "named"}
            /\ programs'[p].fit = 0 /\ programs'[p].promoted = FALSE
            /\ programs'[p].bot = FALSE /\ programs'[p].named = FALSE
      BY <1>2, <2>1 DEF Row
    <2>3. Linked = {} /\ Linked' = {} /\ Own' = Own
      BY <1>2, <2>2 DEF Linked, Own
    <2>4. DOMAIN bots = {}
      <3>1. lastId = 0 /\ DOMAIN bots \subseteq 1..lastId
        BY <1>2 DEF EvolverInv, StoreInv, FleetInv
      <3>2. 1..0 = {}
        OBVIOUS
      <3> QED BY <3>1, <3>2
    <2>5. StoreInv'
      <3>1. pc' # "boot" => k # 0
        BY <1>2, <2>0, EvolutionConstants
      <3>2. 1 \in Rows' \/ (Rows' = {} /\ lastId' = 0)
        BY <1>2, <2>1
      <3>3. k # 0 => 1 \in Rows'
        BY <2>1
      <3>4. Rows' \subseteq 1..lastId' /\ lastId' \in Nat
        BY <1>2, <2>1
      <3>5. \A p \in Rows' : /\ {"fit", "niche", "promoted", "bot", "named"} \subseteq DOMAIN programs'[p]
                             /\ programs'[p].fit \in Nat
                             /\ programs'[p].promoted \in BOOLEAN
                             /\ programs'[p].bot \in BOOLEAN
                             /\ programs'[p].named \in BOOLEAN
        <4> SUFFICES ASSUME NEW p \in Rows'
                     PROVE  /\ {"fit", "niche", "promoted", "bot", "named"} \subseteq DOMAIN programs'[p]
                            /\ programs'[p].fit \in Nat
                            /\ programs'[p].promoted \in BOOLEAN
                            /\ programs'[p].bot \in BOOLEAN
                            /\ programs'[p].named \in BOOLEAN
          OBVIOUS
        <4>1. {"fit", "niche", "promoted", "bot", "named"} \subseteq DOMAIN programs'[p]
          BY <2>2
        <4>2. programs'[p].fit \in Nat
          BY <2>2
        <4>3. /\ programs'[p].promoted \in BOOLEAN
              /\ programs'[p].bot \in BOOLEAN
              /\ programs'[p].named \in BOOLEAN
          BY <2>2, Zenon
        <4> QED BY <4>1, <4>2, <4>3
      <3> QED BY <3>1, <3>2, <3>3, <3>4, <3>5 DEF StoreInv
    <2>6. FleetInv'
      BY <1>2, <2>3, <2>4 DEF EvolverInv, FleetInv
    <2>7. ListsInv'
      BY <1>2, <2>0, <2>3, IdleListsKept
    <2>8. CandidateInv'
      BY <2>0 DEF EvolverInv, CandidateInv
    <2>9. DeployInv'
      BY <2>0, <2>3 DEF EvolverInv, DeployInv, ActiveIsDeployed
    <2> QED BY <1>2, <2>3, <2>5, <2>6, <2>7, <2>8, <2>9 DEF EvolverInv, SameFleet
  <1> QED BY <1>1, <1>2 DEF SeedPopulation, Fault

\* The start of a cycle keeps it.
LEMMA StartKeeps ==
  ASSUME EvolverInv, StartCycle
  PROVE  EvolverInv' /\ SameFleet
  <1>1. /\ UNCHANGED Kept /\ cluster' = cluster /\ repo' = repo /\ pc = "idle"
        /\ pc' \in {"check", "generate"} /\ "id" \in DOMAIN cycle'
    BY DEF StartCycle, tables, Kept, retirement, world, NoCycle
  <1>2. EvolverInv' /\ Linked' = Linked /\ Own' = Own
    BY <1>1, DroppedKeeps DEF BeforeLink, BeforeRow
  <1> QED BY <1>1, <1>2 DEF SameFleet, Kept

\* Generating a candidate keeps it.
LEMMA GenerateKeeps ==
  ASSUME EvolverInv, Generate
  PROVE  EvolverInv' /\ SameFleet
  <1> USE DEF BeforeLink, BeforeRow
  <1>0. pc = "generate" /\ UNCHANGED <<repo, cluster, todo, rstep, bots, foreign>>
    BY DEF Generate, retirement, world, tables
  <1>1. CASE /\ pc' \in {"generate", "check"}
             /\ cycle' = [cycle EXCEPT !.retry = @ + 1]
             /\ UNCHANGED tables
    <2>1. UNCHANGED Kept /\ "id" \in DOMAIN cycle'
      BY <1>0, <1>1 DEF tables, Kept, EvolverInv, CandidateInv
    <2>2. EvolverInv' /\ Linked' = Linked /\ Own' = Own
      BY <1>0, <1>1, <2>1, DroppedKeeps
    <2> QED BY <2>1, <2>2 DEF SameFleet, Kept
  <1>2. ASSUME NEW niche, NEW code, Create(Row(cycle.island, cycle.gen, 0, niche)),
               cycle' = [cycle EXCEPT !.id = lastId + 1, !.code = code], pc' = "validate"
        PROVE  EvolverInv' /\ SameFleet
    <2>1. 1 \in Rows
      BY <1>0 DEF EvolverInv, StoreInv
    <2>2. /\ Rows' = Rows \cup {lastId + 1}
          /\ lastId + 1 \notin Rows \cup DOMAIN bots \cup {1}
          /\ \A p \in Rows : programs'[p] = programs[p]
          /\ ~programs'[lastId + 1].bot
          /\ Linked' = Linked /\ Own' = Own
          /\ StoreInv' /\ FleetInv'
      BY <1>0, <1>2, <2>1, CreateKeepsLinks
    <2>3. "id" \in DOMAIN cycle' /\ cycle'.id = lastId + 1
      BY <1>2 DEF EvolverInv, CandidateInv
    <2>4. CandidateInv'
      BY <1>0, <1>2, <2>2, <2>3 DEF CandidateInv
    <2>5. ListsInv'
      BY <1>0, <1>2, <2>2, IdleListsKept
    <2>6. DeployInv'
      BY <1>0, <1>2, <2>2 DEF EvolverInv, DeployInv, ActiveIsDeployed
    <2>7. SameFleet
      BY <1>2, <2>2 DEF SameFleet, Linked, Generate
    <2> QED BY <2>2, <2>4, <2>5, <2>6, <2>7 DEF EvolverInv
  <1> QED BY <1>1, <1>2 DEF Generate

\* Deleting a candidate that was dropped keeps it.
LEMMA DeletedKeeps ==
  ASSUME EvolverInv, pc \in {"validate", "arena"}, Delete(cycle.id), UNCHANGED <<lastId, bots, foreign, world, retirement>>,
         pc' \in {"generate", "check"}, "id" \in DOMAIN cycle'
  PROVE  EvolverInv' /\ SameFleet
  <1> USE DEF BeforeLink, BeforeRow
  <1>1. /\ Rows' = Rows \ {cycle.id}
        /\ \A p \in Rows' : programs'[p] = programs[p]
        /\ Linked' = Linked /\ Own' = Own
        /\ StoreInv' /\ FleetInv'
    BY DeleteKeepsLinks
  <1>2. ListsInv'
    BY <1>1, IdleListsKept DEF retirement
  <1>3. CandidateInv'
    BY DEF CandidateInv
  <1>4. DeployInv'
    BY <1>1 DEF EvolverInv, DeployInv, ActiveIsDeployed, world
  <1>5. SameFleet
    BY <1>1 DEF SameFleet, Linked
  <1> QED BY <1>1, <1>2, <1>3, <1>4, <1>5 DEF EvolverInv

\* Validating a candidate keeps it.
LEMMA ValidateKeeps ==
  ASSUME EvolverInv, ValidateCandidate
  PROVE  EvolverInv' /\ SameFleet
  <1>0. pc = "validate" /\ UNCHANGED <<lastId, bots, foreign, world, retirement>>
    BY DEF ValidateCandidate
  <1>1. CASE pc' = "arena" /\ UNCHANGED <<programs, cycle, faults>>
    <2>1. UNCHANGED Kept
      BY <1>0, <1>1 DEF Kept, retirement
    <2>2. EvolverInv' /\ Linked' = Linked /\ Own' = Own
      BY <1>0, <1>1, <2>1, MovedOnKeeps DEF world
    <2> QED BY <1>1, <2>1, <2>2 DEF SameFleet, Kept
  <1>2. ASSUME cycle' = [cycle EXCEPT !.retry = @ + 1, !.id = 0], pc' \in {"generate", "check"}
        PROVE  "id" \in DOMAIN cycle'
    BY <1>2 DEF EvolverInv, CandidateInv
  <1>3. CASE /\ cycle' = [cycle EXCEPT !.retry = @ + 1, !.id = 0]
             /\ pc' \in {"generate", "check"}
             /\ Delete(cycle.id)
    BY <1>0, <1>2, <1>3, DeletedKeeps
  <1>4. CASE /\ cycle' = [cycle EXCEPT !.retry = @ + 1, !.id = 0]
             /\ pc' \in {"generate", "check"}
             /\ UNCHANGED programs
    <2>1. UNCHANGED Kept
      BY <1>0, <1>4 DEF Kept, retirement
    <2>2. EvolverInv' /\ Linked' = Linked /\ Own' = Own
      BY <1>0, <1>2, <1>4, <2>1, DroppedKeeps DEF world, BeforeLink, BeforeRow
    <2> QED BY <1>4, <2>1, <2>2 DEF SameFleet, Kept
  <1> QED BY <1>1, <1>3, <1>4 DEF ValidateCandidate

\* An arena that fails keeps it.
LEMMA ArenaErrorKeeps ==
  ASSUME EvolverInv, ArenaError
  PROVE  EvolverInv' /\ SameFleet
  <1>1. "id" \in DOMAIN cycle'
    BY DEF ArenaError, EvolverInv, CandidateInv
  <1> QED BY <1>1, DeletedKeeps DEF ArenaError

\* The arena writes the candidate's own row only.
LEMMA ArenaRow ==
  ASSUME EvolverInv, pc = "arena", NEW fit \in FitLevels, NEW niche,
         programs' = [programs EXCEPT ![cycle.id].fit = fit, ![cycle.id].niche = niche],
         UNCHANGED <<lastId, bots, foreign>>, pc' # "boot"
  PROVE  /\ Rows' = Rows
         /\ \A p \in Rows \ {cycle.id} : programs'[p] = programs[p]
         /\ programs'[cycle.id].fit = fit /\ programs'[cycle.id].niche = niche
         /\ ~programs'[cycle.id].bot
         /\ Linked' = Linked /\ Own' = Own
         /\ StoreInv' /\ FleetInv'
  <1>1. cycle.id \in Rows \ {1} /\ ~programs[cycle.id].bot /\ 1 \in Rows
    BY DEF EvolverInv, CandidateInv, StoreInv, BeforeLink, BeforeRow
  <1>2. Rows' = Rows /\ \A p \in Rows \ {cycle.id} : programs'[p] = programs[p]
    BY DEF Rows
  <1>3. PICK old : old = programs[cycle.id]
    OBVIOUS
  <1>4. {"fit", "niche", "promoted", "bot", "named"} \subseteq DOMAIN old
    BY <1>1, <1>3 DEF EvolverInv, StoreInv
  <1>5. programs'[cycle.id] = [[old EXCEPT !.fit = fit] EXCEPT !.niche = niche]
    BY <1>1, <1>3 DEF Rows
  <1>6. PICK new : new = [[old EXCEPT !.fit = fit] EXCEPT !.niche = niche]
    OBVIOUS
  <1>7. /\ DOMAIN new = DOMAIN old
        /\ new.fit = fit /\ new.niche = niche
        /\ new.promoted = old.promoted /\ new.bot = old.bot /\ new.named = old.named
    BY <1>4, <1>6
  <1>8. programs'[cycle.id] = new
    BY <1>5, <1>6
  <1>9. ~programs'[cycle.id].bot
    BY <1>1, <1>3, <1>7, <1>8
  <1>10. Linked' = Linked
    BY <1>1, <1>2, <1>9 DEF Linked
  <1>11. Own' = Own
    BY DEF Own
  <1>12. StoreInv'
    <2>1. fit \in Nat
      BY EvolutionConstants
    <2>2. \A p \in Rows : /\ {"fit", "niche", "promoted", "bot", "named"} \subseteq DOMAIN programs'[p]
                          /\ programs'[p].fit \in Nat
                          /\ programs'[p].promoted \in BOOLEAN
                          /\ programs'[p].bot \in BOOLEAN
                          /\ programs'[p].named \in BOOLEAN
      <3> TAKE p \in Rows
      <3>1. CASE p # cycle.id
        BY <1>2, <3>1 DEF EvolverInv, StoreInv
      <3>2. CASE p = cycle.id
        <4>1. /\ old.promoted \in BOOLEAN /\ old.bot \in BOOLEAN /\ old.named \in BOOLEAN
          BY <1>1, <1>3 DEF EvolverInv, StoreInv
        <4> QED BY <1>4, <1>7, <1>8, <2>1, <3>2, <4>1
      <3> QED BY <3>1, <3>2
    <2> QED BY <1>1, <1>2, <2>2 DEF EvolverInv, StoreInv
  <1>13. FleetInv'
    BY <1>10 DEF EvolverInv, FleetInv
  <1> QED BY <1>2, <1>7, <1>8, <1>9, <1>10, <1>11, <1>12, <1>13

\* An arena that ends keeps it.
LEMMA ArenaKeeps ==
  ASSUME EvolverInv, Arena
  PROVE  EvolverInv' /\ SameFleet
  <1> USE DEF BeforeLink, BeforeRow
  <1>1. PICK fit \in FitLevels, niche \in Niches, ok \in BOOLEAN :
          /\ programs' = IF ok THEN [programs EXCEPT ![cycle.id].fit = fit, ![cycle.id].niche = niche]
                         ELSE programs
          /\ pc' \in {"source", "check"}
          /\ cycle' = [cycle EXCEPT !.fit = fit]
    BY DEF Arena
  <1>2. pc = "arena" /\ UNCHANGED <<lastId, bots, foreign, world, retirement>>
    BY DEF Arena
  <1>3. "id" \in DOMAIN cycle' /\ cycle'.id = cycle.id
    BY <1>1 DEF EvolverInv, CandidateInv
  <1>4. /\ Rows' = Rows
        /\ \A p \in Rows \ {cycle.id} : programs'[p] = programs[p]
        /\ ~programs'[cycle.id].bot
        /\ Linked' = Linked /\ Own' = Own
        /\ StoreInv' /\ FleetInv'
    <2>1. CASE ok
      BY <1>1, <1>2, <2>1, ArenaRow
    <2>2. CASE ~ok
      <3>1. UNCHANGED Kept
        BY <1>1, <1>2, <2>2 DEF Kept, retirement
      <3>2. ~programs[cycle.id].bot
        BY <1>2 DEF EvolverInv, CandidateInv
      <3> QED BY <1>1, <1>2, <2>2, <3>1, <3>2, KeptParts
    <2> QED BY <2>1, <2>2
  <1>5. cycle.id \in Rows \ {1} /\ cycle.id \notin DOMAIN bots
    BY <1>2 DEF EvolverInv, CandidateInv
  <1>6. CandidateInv'
    BY <1>1, <1>2, <1>3, <1>4, <1>5 DEF CandidateInv
  <1>7. ListsInv'
    BY <1>1, <1>2, <1>4, IdleListsKept DEF retirement
  <1>8. DeployInv'
    BY <1>1, <1>2, <1>4 DEF EvolverInv, DeployInv, ActiveIsDeployed, world
  <1>9. SameFleet
    <2>1. \A p \in Linked : p \in Rows \ {cycle.id}
      BY <1>5 DEF EvolverInv, FleetInv, Linked
    <2> QED BY <1>4, <2>1 DEF SameFleet, Arena
  <1> QED BY <1>4, <1>6, <1>7, <1>8, <1>9 DEF EvolverInv

\* Source, workflow, deployment, up to the bot's row.
LEMMA DeploymentKeeps ==
  ASSUME EvolverInv,
         PromoteSource \/ TriggerArgoWorkflow \/ WaitForWorkflow \/ WaitForDeployment
  PROVE  EvolverInv' /\ SameFleet
  <1>1. UNCHANGED Kept /\ cycle' = cycle /\ cluster' = cluster /\ repo \subseteq repo' /\ programs' = programs
    BY DEF PromoteSource, TriggerArgoWorkflow, WaitForWorkflow, WaitForDeployment, Kept, tables,
           retirement, world
  <1>2. CASE pc' = "check"
    <2>1. pc \in {"workflow", "ready"} /\ "id" \in DOMAIN cycle'
      BY <1>1, <1>2 DEF PromoteSource, TriggerArgoWorkflow, WaitForWorkflow, WaitForDeployment,
                        EvolverInv, CandidateInv
    <2> QED BY <1>1, <1>2, <2>1, DroppedKeeps DEF BeforeLink, BeforeRow, SameFleet, Kept
  <1>3. CASE pc' # "check"
    <2>1. \/ pc = "source" /\ pc' = "trigger" /\ cycle.id \in repo'
          \/ pc = "trigger" /\ pc' = "workflow"
          \/ pc = "workflow" /\ pc' = "ready"
          \/ pc = "ready" /\ pc' = "row" /\ cycle.id \in cluster
      BY <1>3 DEF PromoteSource, TriggerArgoWorkflow, WaitForWorkflow, WaitForDeployment
    <2> QED BY <1>1, <2>1, MovedOnKeeps DEF SameFleet, Kept
  <1> QED BY <1>2, <1>3

\* A promotion that stops half way keeps it.
LEMMA PromoteErrorKeeps ==
  ASSUME EvolverInv, PromoteError
  PROVE  EvolverInv' /\ SameFleet
  <1>1. /\ UNCHANGED Kept /\ cycle' = cycle /\ cluster' = cluster /\ repo \subseteq repo'
        /\ programs' = programs /\ pc' = "check" /\ pc \notin {"boot", "retire"}
    BY DEF PromoteError, Kept, tables, retirement
  <1>2. "id" \in DOMAIN cycle'
    BY <1>1 DEF EvolverInv, CandidateInv
  <1> QED BY <1>1, <1>2, DroppedKeeps DEF BeforeLink, BeforeRow, SameFleet, Kept

\* Migration creates rows and links none.
LEMMA PollinationKeeps ==
  ASSUME EvolverInv, CheckAndPollinate \/ PollinateIsland \/ SaveCrossPollState
  PROVE  EvolverInv' /\ SameFleet
  <1> USE DEF BeforeLink, BeforeRow
  <1>1. CASE CheckAndPollinate \/ SaveCrossPollState
    <2>1. /\ UNCHANGED Kept /\ UNCHANGED world /\ programs' = programs
          /\ pc' \in {"migrate", "idle"} /\ pc \in {"check", "migrate"}
      BY <1>1 DEF CheckAndPollinate, SaveCrossPollState, Kept, tables, retirement
    <2>2. "id" \in DOMAIN cycle'
      BY <1>1 DEF CheckAndPollinate, SaveCrossPollState, NoCycle, EvolverInv, CandidateInv
    <2> QED BY <2>1, <2>2, DroppedKeeps DEF SameFleet, Kept, world
  <1>2. CASE PollinateIsland
    <2>0. pc = "migrate" /\ pc' = pc /\ UNCHANGED <<bots, foreign, world, cycle, retirement>>
      BY <1>2 DEF PollinateIsland
    <2>1. CASE UNCHANGED <<programs, lastId>>
      <3>1. UNCHANGED Kept
        BY <2>0, <2>1 DEF Kept, retirement
      <3> QED BY <2>0, <2>1, <3>1, MovedOnKeeps DEF SameFleet, Kept, world
    <2>2. ASSUME NEW top \in Rows, NEW i,
                 Create(Row(i, programs[top].gen, (programs[top].fit * 9) \div 10, programs[top].niche))
          PROVE  EvolverInv' /\ SameFleet
      <3>1. PICK fit : fit = (programs[top].fit * 9) \div 10
        OBVIOUS
      <3>2. programs[top].fit \in Nat /\ 1 \in Rows
        BY <2>0 DEF EvolverInv, StoreInv
      <3>3. fit \in Nat
        BY <3>1, <3>2
      <3>4. /\ \A p \in Rows : programs'[p] = programs[p]
            /\ Linked' = Linked /\ Own' = Own
            /\ StoreInv' /\ FleetInv'
        BY <2>0, <2>2, <3>1, <3>2, <3>3, CreateKeepsLinks
      <3>5. ListsInv'
        BY <2>0, <3>4, IdleListsKept DEF retirement
      <3>6. CandidateInv'
        BY <2>0 DEF EvolverInv, CandidateInv
      <3>7. DeployInv'
        BY <2>0, <3>4 DEF EvolverInv, DeployInv, ActiveIsDeployed, world
      <3>8. SameFleet
        BY <2>0, <3>4 DEF SameFleet, Linked
      <3> QED BY <3>4, <3>5, <3>6, <3>7, <3>8 DEF EvolverInv
    <2> QED BY <1>2, <2>1, <2>2 DEF PollinateIsland, On
  <1> QED BY <1>1, <1>2

(***************************************************************************)
(* The bot's row and the links.                                            *)
(***************************************************************************)
LEMMA PromoteRowKeeps ==
  ASSUME EvolverInv, PromoteRow
  PROVE  EvolverInv' /\ Linked' = Linked /\ Own' = Own \cup {cycle.id} /\ foreign' = foreign
  <1> USE DEF BeforeLink, BeforeRow
  <1>0. /\ pc = "row" /\ pc' = "promoted"
        /\ UNCHANGED <<programs, lastId, foreign, repo, cluster, cycle, todo, rstep>>
        /\ bots' = [p \in DOMAIN bots \cup {cycle.id} |-> IF p = cycle.id THEN "active" ELSE bots[p]]
    BY DEF PromoteRow, world, retirement
  <1>1. /\ cycle.id \in Rows \ {1} /\ ~programs[cycle.id].bot /\ cycle.id \notin DOMAIN bots
        /\ cycle.id \in repo \cap cluster
    BY <1>0 DEF EvolverInv, CandidateInv, DeployInv
  <1>2. /\ DOMAIN bots' = DOMAIN bots \cup {cycle.id}
        /\ bots'[cycle.id] = "active"
        /\ \A p \in DOMAIN bots : bots'[p] = bots[p]
    BY <1>0, <1>1
  <1>3. Own' = Own \cup {cycle.id}
    <2>1. cycle.id \notin foreign
      BY <1>1 DEF EvolverInv, FleetInv
    <2> QED BY <1>0, <1>2, <2>1 DEF Own
  <1>4. Rows' = Rows /\ Linked' = Linked
    BY <1>0 DEF Rows, Linked
  <1>5. StoreInv'
    BY <1>0, <1>4 DEF EvolverInv, StoreInv
  <1>6. FleetInv'
    BY <1>0, <1>1, <1>2, <1>4 DEF EvolverInv, FleetInv, StoreInv
  <1>7. CandidateInv'
    BY <1>0, <1>1, <1>3, <1>4 DEF EvolverInv, CandidateInv
  <1>8. ListsInv'
    <2>1. \A r \in Retirers : \A k \in 1..Len(todo[r]) : todo[r][k].id \in DOMAIN bots \ {cycle.id}
      BY <1>1 DEF EvolverInv, ListsInv
    <2>2. \A r \in Retirers : todo[r] # <<>> => Head(todo[r]).id = todo[r][1].id /\ 1 \in 1..Len(todo[r])
      BY DEF EvolverInv, ListsInv
    <2>3. \A r \in Retirers : todo[r] # <<>> /\ rstep[r] # "status" => Head(todo[r]).id \notin Own'
      BY <1>3, <2>1, <2>2 DEF EvolverInv, ListsInv
    <2>4. todo["cycle"] = <<>>
      BY <1>0 DEF EvolverInv, ListsInv
    <2> QED BY <1>0, <1>2, <2>1, <2>3, <2>4 DEF EvolverInv, ListsInv
  <1>9. DeployInv'
    BY <1>0, <1>1, <1>3 DEF EvolverInv, DeployInv, ActiveIsDeployed
  <1> QED BY <1>0, <1>3, <1>4, <1>5, <1>6, <1>7, <1>8, <1>9 DEF EvolverInv

\* One flag of a row is written.
LEMMA FlagWritten ==
  ASSUME EvolverInv, NEW id \in Rows, NEW flag \in {"promoted", "bot", "named"}, NEW v \in BOOLEAN,
         programs' = [programs EXCEPT ![id] = [@ EXCEPT ![flag] = v]]
  PROVE  /\ Rows' = Rows
         /\ \A p \in Rows \ {id} : programs'[p] = programs[p]
         /\ DOMAIN programs'[id] = DOMAIN programs[id]
         /\ \A f \in {"fit", "niche", "promoted", "bot", "named"} :
              programs'[id][f] = IF f = flag THEN v ELSE programs[id][f]
  <1>1. PICK old : old = programs[id]
    OBVIOUS
  <1>2. {"fit", "niche", "promoted", "bot", "named"} \subseteq DOMAIN old
    BY <1>1 DEF EvolverInv, StoreInv
  <1>3. PICK new : new = [old EXCEPT ![flag] = v]
    OBVIOUS
  <1>4. /\ DOMAIN new = DOMAIN old
        /\ \A f \in DOMAIN old : new[f] = IF f = flag THEN v ELSE old[f]
    BY <1>3
  <1>5. programs'[id] = new
    BY <1>1, <1>3 DEF Rows
  <1>6. Rows' = Rows /\ \A p \in Rows \ {id} : programs'[p] = programs[p]
    BY DEF Rows
  <1> QED BY <1>1, <1>2, <1>4, <1>5, <1>6

\* Setting or clearing a flag of a program keeps the program's row well formed.
LEMMA FlagKeepsStore ==
  ASSUME EvolverInv, NEW id \in Rows, NEW flag \in {"promoted", "bot", "named"}, NEW v \in BOOLEAN,
         programs' = [programs EXCEPT ![id] = [@ EXCEPT ![flag] = v]],
         lastId' = lastId, pc # "boot"
  PROVE  StoreInv'
  <1>1. /\ Rows' = Rows
        /\ \A p \in Rows \ {id} : programs'[p] = programs[p]
        /\ DOMAIN programs'[id] = DOMAIN programs[id]
        /\ \A f \in {"fit", "niche", "promoted", "bot", "named"} :
             programs'[id][f] = IF f = flag THEN v ELSE programs[id][f]
    BY FlagWritten
  <1>2. \A p \in Rows : /\ {"fit", "niche", "promoted", "bot", "named"} \subseteq DOMAIN programs'[p]
                        /\ programs'[p].fit \in Nat
                        /\ programs'[p].promoted \in BOOLEAN
                        /\ programs'[p].bot \in BOOLEAN
                        /\ programs'[p].named \in BOOLEAN
    <2> TAKE p \in Rows
    <2>1. CASE p # id
      BY <1>1, <2>1 DEF EvolverInv, StoreInv
    <2>2. CASE p = id
      <3>1. /\ {"fit", "niche", "promoted", "bot", "named"} \subseteq DOMAIN programs[id]
            /\ programs[id].fit \in Nat
            /\ programs[id].promoted \in BOOLEAN
            /\ programs[id].bot \in BOOLEAN
            /\ programs[id].named \in BOOLEAN
        BY DEF EvolverInv, StoreInv
      <3>2. programs'[id].fit = programs[id].fit
        BY <1>1
      <3>3. programs'[id].promoted \in BOOLEAN
        BY <1>1, <3>1
      <3>4. programs'[id].bot \in BOOLEAN
        BY <1>1, <3>1
      <3>5. programs'[id].named \in BOOLEAN
        BY <1>1, <3>1
      <3> QED BY <1>1, <2>2, <3>1, <3>2, <3>3, <3>4, <3>5
    <2> QED BY <2>1, <2>2
  <1>3. 1 \in Rows
    BY DEF EvolverInv, StoreInv
  <1> QED BY <1>1, <1>2, <1>3 DEF EvolverInv, StoreInv

\* The three updates of the program: the second one links it.
LEMMA PromoteProgramKeeps ==
  ASSUME EvolverInv, PromoteProgram
  PROVE  /\ EvolverInv' /\ Own' = Own /\ foreign' = foreign
         /\ Linked' = IF pc = "link" THEN Linked \cup {cycle.id} ELSE Linked
         /\ \A p \in Rows : programs'[p].fit = programs[p].fit /\ programs'[p].niche = programs[p].niche
  <1> USE DEF BeforeLink, BeforeRow
  <1>0. UNCHANGED <<lastId, bots, foreign, repo, cluster, cycle, todo, rstep>>
    BY DEF PromoteProgram, world, retirement
  <1>1. PICK flag \in {"promoted", "bot", "named"} :
          /\ programs' = [programs EXCEPT ![cycle.id] = [@ EXCEPT ![flag] = TRUE]]
          /\ \/ flag = "promoted" /\ pc = "promoted" /\ pc' = "link"
             \/ flag = "bot" /\ pc = "link" /\ pc' = "name"
             \/ flag = "named" /\ pc = "name" /\ pc' = "policy"
    BY DEF PromoteProgram
  <1>2. PICK id : id = cycle.id
    OBVIOUS
  <1>3. id \in Rows \ {1}
    BY <1>1, <1>2 DEF EvolverInv, CandidateInv
  <1>4. /\ Rows' = Rows
        /\ \A p \in Rows \ {id} : programs'[p] = programs[p]
        /\ DOMAIN programs'[id] = DOMAIN programs[id]
        /\ \A f \in {"fit", "niche", "promoted", "bot", "named"} :
             programs'[id][f] = IF f = flag THEN TRUE ELSE programs[id][f]
    BY <1>1, <1>2, <1>3, FlagWritten
  <1>5. StoreInv'
    BY <1>0, <1>1, <1>2, <1>3, FlagKeepsStore
  <1>6. Own' = Own
    BY <1>0 DEF Own
  <1>7. /\ programs'[id].fit = programs[id].fit /\ programs'[id].niche = programs[id].niche
        /\ programs'[id].promoted = IF flag = "promoted" THEN TRUE ELSE programs[id].promoted
        /\ programs'[id].bot = IF flag = "bot" THEN TRUE ELSE programs[id].bot
    BY <1>4
  <1>8. Linked' = IF pc = "link" THEN Linked \cup {cycle.id} ELSE Linked
    <2>1. CASE pc = "promoted"
      <3>1. ~programs[id].bot /\ ~programs'[id].bot
        BY <1>1, <1>2, <1>7, <2>1 DEF EvolverInv, CandidateInv
      <3> QED BY <1>3, <1>4, <2>1, <3>1 DEF Linked
    <2>2. CASE pc = "link"
      <3>1. programs'[id].promoted /\ programs'[id].bot
        BY <1>1, <1>2, <1>7, <2>2 DEF EvolverInv, CandidateInv
      <3> QED BY <1>2, <1>3, <1>4, <2>2, <3>1 DEF Linked
    <2>3. CASE pc = "name"
      <3>1. programs'[id].promoted = programs[id].promoted /\ programs'[id].bot = programs[id].bot
        BY <1>1, <1>7, <2>3
      <3> QED BY <1>3, <1>4, <2>3, <3>1 DEF Linked
    <2> QED BY <1>1, <2>1, <2>2, <2>3
  <1>9. FleetInv'
    <2>1. pc = "link" => cycle.id \in DOMAIN bots
      BY DEF EvolverInv, CandidateInv, FleetInv, Own
    <2> QED BY <1>0, <1>8, <2>1 DEF EvolverInv, FleetInv
  <1>10. CandidateInv'
    <2>1. pc' = "link" => programs'[id].promoted /\ ~programs'[id].bot
      BY <1>1, <1>2, <1>7 DEF EvolverInv, CandidateInv
    <2> QED BY <1>0, <1>1, <1>2, <1>3, <1>4, <1>6, <2>1 DEF EvolverInv, CandidateInv
  <1>11. ListsInv'
    <2>1. todo["cycle"] = <<>>
      BY <1>1 DEF EvolverInv, ListsInv
    <2> QED BY <1>0, <1>1, <1>6, <2>1 DEF EvolverInv, ListsInv
  <1>12. DeployInv'
    BY <1>0, <1>1, <1>6 DEF EvolverInv, DeployInv, ActiveIsDeployed
  <1> QED BY <1>0, <1>2, <1>4, <1>5, <1>6, <1>7, <1>8, <1>9, <1>10, <1>11, <1>12 DEF EvolverInv

(***************************************************************************)
(* Retirement.                                                             *)
(***************************************************************************)
\* EnforcePolicy lists bots of the fleet.
LEMMA ListIsOfFleet ==
  ASSUME EvolverInv, NEW s \in Ranked
  PROVE  /\ RetireList(s) \in Seq([id : Nat, named : BOOLEAN])
         /\ \A k \in 1..Len(RetireList(s)) : RetireList(s)[k].id \in Fleet
  <1>1. IsFiniteSet(Fleet)
    <2>1. Fleet \subseteq 1..lastId /\ lastId \in Nat
      BY DEF Fleet, Linked, EvolverInv, StoreInv
    <2>2. PICK ids : ids = 1..lastId /\ IsFiniteSet(ids)
      BY <2>1, FS_Interval
    <2> QED BY <2>1, <2>2, FS_Subset
  <1>2. PICK n \in Nat : n = Cardinality(Fleet)
    BY <1>1, FS_CardinalityType
  <1>3. s \in [1..n -> Fleet]
    BY <1>2 DEF Ranked
  <1>4. s \in Seq(Fleet) /\ Len(s) = n
    BY <1>2, <1>3
  <1> DEFINE doomed == {i \in 1..Len(s) : rating[s[i]] <= 1 \/ i <= Len(s) - PopCap}
  <1>5. PICK m \in Nat : m = Cardinality(doomed) /\ m <= n
    <2>1. doomed \subseteq 1..n
      BY <1>4
    <2>2. IsFiniteSet(1..n) /\ Cardinality(1..n) = n
      BY FS_Interval
    <2> HIDE DEF doomed
    <2>3. IsFiniteSet(doomed) /\ Cardinality(doomed) <= n
      BY <2>1, <2>2, FS_Subset
    <2> QED BY <2>3, FS_CardinalityType
  <1>6. RetireList(s) = [i \in 1..m |-> [id |-> s[i], named |-> programs[s[i]].named]]
    BY <1>5 DEF RetireList
  <1> HIDE DEF doomed
  <1>7. \A i \in 1..m : /\ s[i] \in Fleet
                        /\ [id |-> s[i], named |-> programs[s[i]].named] \in [id : Nat, named : BOOLEAN]
    <2> TAKE i \in 1..m
    <2>1. s[i] \in Fleet
      BY <1>3, <1>5
    <2>2. s[i] \in Rows /\ Rows \subseteq Nat
      BY <2>1 DEF Fleet, Linked, EvolverInv, StoreInv
    <2>3. programs[s[i]].named \in BOOLEAN
      BY <2>2 DEF EvolverInv, StoreInv
    <2> QED BY <2>1, <2>2, <2>3
  <1>8. PICK L : L = RetireList(s)
    OBVIOUS
  <1>9. L \in Seq([id : Nat, named : BOOLEAN]) /\ Len(L) = m
    BY <1>6, <1>7, <1>8
  <1>10. \A k \in 1..m : L[k].id = s[k]
    BY <1>6, <1>8
  <1> QED BY <1>7, <1>8, <1>9, <1>10

\* Listing the bots to retire keeps it.
LEMMA EnforceKeeps ==
  ASSUME EvolverInv, NEW r \in Retirers, EnforcePolicy(r)
  PROVE  EvolverInv' /\ SameFleet
  <1> USE DEF BeforeLink, BeforeRow
  <1>0. /\ todo[r] = <<>> /\ UNCHANGED <<programs, lastId, bots, foreign, repo, cluster, cycle, rstep>>
        /\ r = "cycle" => pc = "policy"
    BY DEF EnforcePolicy, tables, world
  <1>1. PICK L : /\ todo' = [todo EXCEPT ![r] = L]
                 /\ L \in Seq([id : Nat, named : BOOLEAN])
                 /\ \A k \in 1..Len(L) : L[k].id \in Fleet
    <2>1. PICK s \in Ranked : todo' = [todo EXCEPT ![r] = IF PolicySQLAccepted THEN RetireList(s) ELSE <<>>]
      BY DEF EnforcePolicy
    <2>2. CASE PolicySQLAccepted
      BY <2>1, <2>2, ListIsOfFleet
    <2>3. CASE ~PolicySQLAccepted
      <3>1. /\ <<>> \in Seq([id : Nat, named : BOOLEAN])
            /\ \A k \in 1..Len(<<>>) : <<>>[k].id \in Fleet
        OBVIOUS
      <3> QED BY <2>1, <2>3, <3>1
    <2> QED BY <2>2, <2>3
  <1>2. /\ todo' \in [Retirers -> Seq([id : Nat, named : BOOLEAN])]
        /\ todo'[r] = L /\ \A q \in Retirers \ {r} : todo'[q] = todo[q]
    BY <1>1 DEF EvolverInv, ListsInv
  <1>3. pc' = IF r = "ticker" THEN pc ELSE IF L = <<>> THEN "check" ELSE "retire"
    BY <1>2 DEF EnforcePolicy
  <1>4. pc' = pc \/ (pc = "policy" /\ pc' \in {"check", "retire"})
    BY <1>0, <1>3 DEF Retirers
  <1>5. Rows' = Rows /\ Linked' = Linked /\ Own' = Own /\ SameFleet
    BY <1>0 DEF Rows, Linked, Own, SameFleet
  <1>6. StoreInv' /\ FleetInv' /\ CandidateInv' /\ DeployInv'
    <2>1. StoreInv'
      BY <1>0, <1>4, <1>5 DEF EvolverInv, StoreInv
    <2>2. FleetInv' /\ DeployInv'
      BY <1>0, <1>4, <1>5 DEF EvolverInv, FleetInv, DeployInv, ActiveIsDeployed
    <2>3. CandidateInv'
      BY <1>0, <1>4, <1>5 DEF EvolverInv, CandidateInv
    <2> QED BY <2>1, <2>2, <2>3
  <1>7. ListsInv'
    <2>1. rstep[r] = "status"
      BY <1>0 DEF EvolverInv, ListsInv
    <2>2. \A k \in 1..Len(L) : L[k].id \in DOMAIN bots /\ (pc \in {"promoted", "link"} => L[k].id # cycle.id)
      BY <1>1 DEF Fleet, Linked, EvolverInv, FleetInv, CandidateInv
    <2>3. todo'["cycle"] # <<>> => pc' = "retire"
      BY <1>0, <1>2, <1>3 DEF Retirers, EvolverInv, ListsInv
    <2>4. ASSUME NEW q \in Retirers
          PROVE  /\ todo'[q] = <<>> => rstep'[q] = "status"
                 /\ \A k \in 1..Len(todo'[q]) :
                      /\ todo'[q][k].id \in DOMAIN bots'
                      /\ pc' \in {"promoted", "link"} => todo'[q][k].id # cycle'.id
                 /\ todo'[q] # <<>> /\ rstep'[q] # "status" => Head(todo'[q]).id \notin Own'
      <3>1. CASE q = r
        BY <1>0, <1>2, <1>4, <2>1, <2>2, <3>1
      <3>2. CASE q # r
        <4>0. \A k \in 1..Len(todo[q]) :
                todo[q][k].id \in DOMAIN bots /\ (pc \in {"promoted", "link"} => todo[q][k].id # cycle.id)
          BY DEF EvolverInv, ListsInv
        <4>1. /\ todo[q] = <<>> => rstep[q] = "status"
              /\ todo[q] # <<>> /\ rstep[q] # "status" => Head(todo[q]).id \notin Own
          BY DEF EvolverInv, ListsInv
        <4>2. todo'[q] = todo[q] /\ rstep'[q] = rstep[q]
          BY <1>0, <1>2, <3>2
        <4>3. pc' \in {"promoted", "link"} => pc' = pc
          BY <1>4
        <4>4. todo'[q] = <<>> => rstep'[q] = "status"
          BY <4>1, <4>2
        <4>5. ASSUME NEW k \in 1..Len(todo'[q])
             PROVE  /\ todo'[q][k].id \in DOMAIN bots'
                    /\ pc' \in {"promoted", "link"} => todo'[q][k].id # cycle'.id
          <5>1. bots' = bots /\ cycle' = cycle
            BY <1>0
          <5>2. PICK id : id = todo[q][k].id /\ id = todo'[q][k].id
            BY <4>2
          <5>3. id \in DOMAIN bots /\ (pc \in {"promoted", "link"} => id # cycle.id)
            <6>1. k \in 1..Len(todo[q])
              BY <4>2, <4>5
            <6>2. todo[q][k].id \in DOMAIN bots /\ (pc \in {"promoted", "link"} => todo[q][k].id # cycle.id)
              BY <4>0, <6>1, Zenon
            <6> QED BY <5>2, <6>2
          <5> QED BY <4>3, <5>1, <5>2, <5>3
        <4>6. todo'[q] # <<>> /\ rstep'[q] # "status" => Head(todo'[q]).id \notin Own'
          <5>1. PICK T : T = todo[q] /\ T = todo'[q]
            BY <4>2
          <5>2. T # <<>> /\ rstep[q] # "status" => Head(T).id \notin Own
            BY <4>1, <5>1
          <5> QED BY <1>5, <4>2, <5>1, <5>2
        <4> QED BY <4>4, <4>5, <4>6
      <3> QED BY <3>1, <3>2
    <2>5. rstep' \in [Retirers -> {"status", "source", "manifest", "unset"}]
      BY <1>0 DEF EvolverInv, ListsInv
    <2> QED BY <1>2, <2>3, <2>4, <2>5 DEF ListsInv
  <1> QED BY <1>5, <1>6, <1>7 DEF EvolverInv

\* What holds of the head of a list that is not empty.
LEMMA HeadOfList ==
  ASSUME EvolverInv, NEW r \in Retirers, todo[r] # <<>>
  PROVE  /\ Head(todo[r]) = todo[r][1] /\ 1 \in 1..Len(todo[r])
         /\ todo[r][1].id \in DOMAIN bots
         /\ pc \in BeforeRow \cup {"promoted", "link"} => todo[r][1].id # cycle.id
         /\ r = "cycle" => pc = "retire"
  <1>1. todo[r] \in Seq([id : Nat, named : BOOLEAN])
    BY DEF EvolverInv, ListsInv
  <1>2. Head(todo[r]) = todo[r][1] /\ 1 \in 1..Len(todo[r])
    BY <1>1
  <1>3. /\ todo[r][1].id \in DOMAIN bots
        /\ pc \in {"promoted", "link"} => todo[r][1].id # cycle.id
    BY <1>2 DEF EvolverInv, ListsInv
  <1>4. pc \in BeforeRow => cycle.id \notin DOMAIN bots
    BY DEF EvolverInv, CandidateInv
  <1>5. r = "cycle" => pc = "retire"
    BY DEF EvolverInv, ListsInv
  <1> QED BY <1>2, <1>3, <1>4, <1>5

\* Writing the status of a retired bot takes it, and nobody else, out of service.
LEMMA StatusKeeps ==
  ASSUME EvolverInv, NEW r \in Retirers, RetireStatus(r),
         UNCHANGED <<lastId, rating, workflows, cycle, pollination, lastIsland, blind, probed, foreign>>
  PROVE  EvolverInv' /\ Linked' = Linked /\ Own' = Own \ {todo[r][1].id} /\ programs' = programs
  <1> USE DEF BeforeLink, BeforeRow
  <1>0. /\ todo[r] # <<>> /\ rstep[r] = "status" /\ UNCHANGED <<programs, lastId, repo, cluster, cycle, todo, pc>>
        /\ bots' = [bots EXCEPT ![Head(todo[r]).id] = "retired"]
    BY DEF RetireStatus, At, To
  <1>1. PICK step \in {"source", "unset"} : rstep' = [rstep EXCEPT ![r] = step]
    BY DEF RetireStatus, To
  <1>2. PICK h : h = todo[r][1].id
    OBVIOUS
  <1>3. /\ Head(todo[r]).id = h /\ h \in DOMAIN bots
        /\ pc \in BeforeRow \cup {"promoted", "link"} => h # cycle.id
    BY <1>0, <1>2, HeadOfList
  <1>4. DOMAIN bots' = DOMAIN bots /\ bots'[h] = "retired" /\ \A p \in DOMAIN bots \ {h} : bots'[p] = bots[p]
    BY <1>0, <1>3
  <1>5. Own' = Own \ {h}
    BY <1>3, <1>4 DEF Own
  <1>6. Rows' = Rows /\ Linked' = Linked
    BY <1>0 DEF Rows, Linked
  <1>7. StoreInv' /\ FleetInv'
    BY <1>0, <1>4, <1>6 DEF EvolverInv, StoreInv, FleetInv
  <1>8. CandidateInv'
    BY <1>0, <1>3, <1>4, <1>5, <1>6 DEF EvolverInv, CandidateInv
  <1>9. DeployInv'
    BY <1>0, <1>5 DEF EvolverInv, DeployInv, ActiveIsDeployed
  <1>10. ListsInv'
    <2>1. /\ rstep' \in [Retirers -> {"status", "source", "manifest", "unset"}]
          /\ \A q \in Retirers \ {r} : rstep'[q] = rstep[q]
          /\ rstep'[r] # "status"
      BY <1>1 DEF EvolverInv, ListsInv
    <2>2. Head(todo[r]).id \notin Own'
      BY <1>3, <1>5
    <2>3. ASSUME NEW q \in Retirers
          PROVE  /\ todo'[q] = <<>> => rstep'[q] = "status"
                 /\ \A k \in 1..Len(todo'[q]) :
                      /\ todo'[q][k].id \in DOMAIN bots'
                      /\ pc' \in {"promoted", "link"} => todo'[q][k].id # cycle'.id
                 /\ todo'[q] # <<>> /\ rstep'[q] # "status" => Head(todo'[q]).id \notin Own'
      <3>1. CASE q = r
        BY <1>0, <1>4, <2>2, <3>1 DEF EvolverInv, ListsInv
      <3>2. CASE q # r
        BY <1>0, <1>4, <1>5, <2>1, <3>2 DEF EvolverInv, ListsInv
      <3> QED BY <3>1, <3>2
    <2> QED BY <1>0, <2>1, <2>3 DEF EvolverInv, ListsInv
  <1> QED BY <1>0, <1>2, <1>5, <1>6, <1>7, <1>8, <1>9, <1>10 DEF EvolverInv

\* The source and the manifests are taken away from a bot that is not active,
\* and the one being promoted is another.
LEMMA RemovalKeeps ==
  ASSUME EvolverInv, NEW r \in Retirers, GitRemove(r) \/ RemoveK8sManifests(r),
         UNCHANGED <<lastId, rating, workflows, cycle, pollination, lastIsland, blind, probed, foreign>>
  PROVE  /\ EvolverInv' /\ SameFleet
         /\ todo' = todo /\ rstep'[r] # "status" /\ rstep[r] # "status"
         /\ \A q \in Retirers \ {r} : rstep'[q] = rstep[q]
  <1> USE DEF BeforeLink, BeforeRow
  <1>0. /\ todo[r] # <<>> /\ rstep[r] # "status"
        /\ UNCHANGED <<programs, lastId, bots, foreign, cycle, todo, pc>>
    BY DEF GitRemove, RemoveK8sManifests, At, To
  <1>1. PICK step \in {"manifest", "unset"} : rstep' = [rstep EXCEPT ![r] = step]
    BY DEF GitRemove, RemoveK8sManifests, To
  <1>2. PICK h : h = todo[r][1].id
    OBVIOUS
  <1>3. Head(todo[r]).id = h
    BY <1>0, <1>2, HeadOfList
  <1>4. h \notin Own
    BY <1>0, <1>3, HeadOfList DEF EvolverInv, ListsInv
  <1>5. repo \ {h} \subseteq repo' /\ cluster \ {h} \subseteq cluster'
    BY <1>3, HeadOfList, <1>0, <1>2 DEF GitRemove, RemoveK8sManifests
  <1>6. Rows' = Rows /\ Linked' = Linked /\ Own' = Own /\ SameFleet
    BY <1>0 DEF Rows, Linked, Own, SameFleet
  <1>7. StoreInv' /\ FleetInv'
    BY <1>0, <1>6 DEF EvolverInv, StoreInv, FleetInv
  <1>8. CandidateInv'
    BY <1>0, <1>6 DEF EvolverInv, CandidateInv
  <1>9. DeployInv'
    <2>1. pc \in {"trigger", "workflow", "ready", "row"} => h # cycle.id
      BY <1>0, <1>2, HeadOfList
    <2> QED BY <1>0, <1>4, <1>5, <1>6, <2>1 DEF EvolverInv, DeployInv, ActiveIsDeployed
  <1>10. /\ rstep' \in [Retirers -> {"status", "source", "manifest", "unset"}]
         /\ \A q \in Retirers \ {r} : rstep'[q] = rstep[q]
         /\ rstep'[r] # "status"
    BY <1>1 DEF EvolverInv, ListsInv
  <1>11. ListsInv'
    BY <1>0, <1>6, <1>10 DEF EvolverInv, ListsInv
  <1> QED BY <1>0, <1>6, <1>7, <1>8, <1>9, <1>10, <1>11 DEF EvolverInv

\* The list gets shorter, or is dropped: what is left was on it, and the
\* retirement of the next bot has not begun.
LEMMA ShorterListKept ==
  ASSUME EvolverInv, NEW r \in Retirers, NEW L \in Seq([id : Nat, named : BOOLEAN]),
         \A k \in 1..Len(L) : \E j \in 1..Len(todo[r]) : L[k] = todo[r][j],
         todo' = [todo EXCEPT ![r] = L], rstep' = [rstep EXCEPT ![r] = "status"],
         pc' = IF r = "cycle" /\ L = <<>> THEN "check" ELSE pc,
         r = "cycle" => pc = "retire",
         UNCHANGED <<bots, foreign, cycle>>
  PROVE  ListsInv'
  <1>1. /\ todo' \in [Retirers -> Seq([id : Nat, named : BOOLEAN])]
        /\ todo'[r] = L /\ \A q \in Retirers \ {r} : todo'[q] = todo[q]
        /\ rstep' \in [Retirers -> {"status", "source", "manifest", "unset"}]
        /\ rstep'[r] = "status" /\ \A q \in Retirers \ {r} : rstep'[q] = rstep[q]
    BY DEF EvolverInv, ListsInv
  <1>2. Own' = Own
    BY DEF Own
  <1>3. pc' \in {"promoted", "link"} => pc' = pc
    OBVIOUS
  <1>4. ASSUME NEW q \in Retirers
        PROVE  /\ todo'[q] = <<>> => rstep'[q] = "status"
               /\ \A k \in 1..Len(todo'[q]) :
                    /\ todo'[q][k].id \in DOMAIN bots'
                    /\ pc' \in {"promoted", "link"} => todo'[q][k].id # cycle'.id
               /\ todo'[q] # <<>> /\ rstep'[q] # "status" => Head(todo'[q]).id \notin Own'
    <2>1. CASE q = r
      <3>1. \A k \in 1..Len(L) : /\ L[k].id \in DOMAIN bots
                                 /\ pc \in {"promoted", "link"} => L[k].id # cycle.id
        BY DEF EvolverInv, ListsInv
      <3> QED BY <1>1, <1>3, <2>1, <3>1
    <2>2. CASE q # r
      <3>0. \A k \in 1..Len(todo[q]) :
              todo[q][k].id \in DOMAIN bots /\ (pc \in {"promoted", "link"} => todo[q][k].id # cycle.id)
        BY DEF EvolverInv, ListsInv
      <3>1. /\ todo[q] = <<>> => rstep[q] = "status"
            /\ todo[q] # <<>> /\ rstep[q] # "status" => Head(todo[q]).id \notin Own
        BY DEF EvolverInv, ListsInv
      <3>2. todo'[q] = todo[q] /\ rstep'[q] = rstep[q]
        BY <1>1, <2>2
      <3>3. pc' \in {"promoted", "link"} => pc' = pc
        BY <1>3
      <3>4. todo'[q] = <<>> => rstep'[q] = "status"
        BY <3>1, <3>2
      <3>5. ASSUME NEW k \in 1..Len(todo'[q])
           PROVE  /\ todo'[q][k].id \in DOMAIN bots'
                  /\ pc' \in {"promoted", "link"} => todo'[q][k].id # cycle'.id
        <4>1. bots' = bots /\ cycle' = cycle
          OBVIOUS
        <4>2. PICK id : id = todo[q][k].id /\ id = todo'[q][k].id
          BY <3>2
        <4>3. id \in DOMAIN bots /\ (pc \in {"promoted", "link"} => id # cycle.id)
          <5>1. k \in 1..Len(todo[q])
            BY <3>2, <3>5
          <5>2. todo[q][k].id \in DOMAIN bots /\ (pc \in {"promoted", "link"} => todo[q][k].id # cycle.id)
            BY <3>0, <5>1, Zenon
          <5> QED BY <4>2, <5>2
        <4> QED BY <3>3, <4>1, <4>2, <4>3
      <3>6. todo'[q] # <<>> /\ rstep'[q] # "status" => Head(todo'[q]).id \notin Own'
        <4>1. PICK T : T = todo[q] /\ T = todo'[q]
          BY <3>2
        <4>2. T # <<>> /\ rstep[q] # "status" => Head(T).id \notin Own
          BY <3>1, <4>1
        <4> QED BY <1>2, <3>2, <4>1, <4>2
      <3> QED BY <3>4, <3>5, <3>6
    <2> QED BY <2>1, <2>2
  <1>5. todo'["cycle"] # <<>> => pc' = "retire"
    BY <1>1 DEF Retirers, EvolverInv, ListsInv
  <1> QED BY <1>1, <1>4, <1>5 DEF ListsInv

\* Clearing the link of a retired bot keeps it.
LEMMA UnsetKeeps ==
  ASSUME EvolverInv, NEW r \in Retirers, UnsetPromoted(r),
         UNCHANGED <<lastId, rating, workflows, cycle, pollination, lastIsland, blind, probed, foreign>>
  PROVE  /\ EvolverInv' /\ Linked' = Linked \ {todo[r][1].id} /\ Own' = Own
         /\ \A p \in Linked' : programs'[p] = programs[p]
         /\ pc \in BeforeLink => programs'[cycle.id] = programs[cycle.id]
         /\ pc' = pc \/ (pc = "retire" /\ pc' = "check")
  <1> USE DEF BeforeLink, BeforeRow
  <1>0. /\ todo[r] # <<>> /\ rstep[r] = "unset" /\ UNCHANGED <<lastId, bots, foreign, repo, cluster, cycle>>
        /\ rstep' = [rstep EXCEPT ![r] = "status"] /\ todo' = [todo EXCEPT ![r] = Tail(@)]
        /\ pc' = IF r = "cycle" /\ Len(todo[r]) = 1 THEN "check" ELSE pc
    BY DEF UnsetPromoted, At
  <1>1. PICK h : h = todo[r][1].id
    OBVIOUS
  <1>2. /\ Head(todo[r]).id = h /\ 1 \in 1..Len(todo[r])
        /\ pc \in BeforeRow \cup {"promoted", "link"} => h # cycle.id
        /\ r = "cycle" => pc = "retire"
    BY <1>0, <1>1, HeadOfList
  <1>3. programs' = [[programs EXCEPT ![h].promoted = FALSE] EXCEPT ![h].bot = FALSE]
    BY <1>2 DEF UnsetPromoted
  <1>4. Rows' = Rows /\ \A p \in Rows \ {h} : programs'[p] = programs[p]
    BY <1>3 DEF Rows
  <1>5. ASSUME h \in Rows
        PROVE  /\ DOMAIN programs'[h] = DOMAIN programs[h]
               /\ programs'[h].fit = programs[h].fit /\ programs'[h].named = programs[h].named
               /\ programs'[h].promoted = FALSE /\ programs'[h].bot = FALSE
    <2>1. PICK old : old = programs[h]
      OBVIOUS
    <2>2. {"fit", "niche", "promoted", "bot", "named"} \subseteq DOMAIN old
      BY <1>5, <2>1 DEF EvolverInv, StoreInv
    <2>3. PICK new : new = [[old EXCEPT !.promoted = FALSE] EXCEPT !.bot = FALSE]
      OBVIOUS
    <2>4. programs'[h] = new
      BY <1>3, <1>5, <2>1, <2>3 DEF Rows
    <2> QED BY <2>1, <2>2, <2>3, <2>4
  <1>6. Linked' = Linked \ {h}
    BY <1>4, <1>5 DEF Linked
  <1>7. Own' = Own
    BY <1>0 DEF Own
  <1>8. pc' = pc \/ (pc = "retire" /\ pc' = "check")
    BY <1>0, <1>2
  <1>9. StoreInv'
    <2>1. \A p \in Rows : /\ {"fit", "niche", "promoted", "bot", "named"} \subseteq DOMAIN programs'[p]
                          /\ programs'[p].fit \in Nat
                          /\ programs'[p].promoted \in BOOLEAN
                          /\ programs'[p].bot \in BOOLEAN
                          /\ programs'[p].named \in BOOLEAN
      <3> TAKE p \in Rows
      <3>1. CASE p # h
        BY <1>4, <3>1 DEF EvolverInv, StoreInv
      <3>2. CASE p = h
        <4>1. /\ {"fit", "niche", "promoted", "bot", "named"} \subseteq DOMAIN programs[h]
              /\ programs[h].fit \in Nat /\ programs[h].named \in BOOLEAN
          BY <3>2 DEF EvolverInv, StoreInv
        <4>2. programs'[h].promoted \in BOOLEAN /\ programs'[h].bot \in BOOLEAN
          BY <1>5, <3>2
        <4> QED BY <1>5, <3>2, <4>1, <4>2
      <3> QED BY <3>1, <3>2
    <2> QED BY <1>0, <1>4, <1>8, <2>1 DEF EvolverInv, StoreInv
  <1>10. FleetInv'
    BY <1>0, <1>6 DEF EvolverInv, FleetInv
  <1>11. pc \in BeforeLink => programs'[cycle.id] = programs[cycle.id]
    BY <1>2, <1>4 DEF EvolverInv, CandidateInv
  <1>12. CandidateInv'
    BY <1>0, <1>4, <1>7, <1>8, <1>11 DEF EvolverInv, CandidateInv
  <1>13. DeployInv'
    BY <1>0, <1>7, <1>8 DEF EvolverInv, DeployInv, ActiveIsDeployed
  <1>14. ListsInv'
    <2>1. todo[r] \in Seq([id : Nat, named : BOOLEAN]) /\ Len(todo[r]) > 0
      BY <1>0 DEF EvolverInv, ListsInv
    <2>2. PICK L : L = Tail(todo[r])
      OBVIOUS
    <2>3. L \in Seq([id : Nat, named : BOOLEAN]) /\ Len(L) = Len(todo[r]) - 1
      BY <2>1, <2>2
    <2>4. L = <<>> <=> Len(todo[r]) = 1
      <3>1. Len(todo[r]) \in Nat
        BY <2>1
      <3>2. L = <<>> <=> Len(L) = 0
        BY <2>3, EmptySeq
      <3> QED BY <2>3, <3>1, <3>2
    <2>5. \A k \in 1..Len(L) : k + 1 \in 1..Len(todo[r]) /\ L[k] = todo[r][k + 1]
      BY <2>1, <2>2
    <2>6. \A k \in 1..Len(L) : \E j \in 1..Len(todo[r]) : L[k] = todo[r][j]
      BY <2>5
    <2>7. todo' = [todo EXCEPT ![r] = L]
      BY <1>0, <2>2 DEF EvolverInv, ListsInv
    <2>8. pc' = IF r = "cycle" /\ L = <<>> THEN "check" ELSE pc
      BY <1>0, <2>4
    <2> QED BY <1>0, <1>2, <2>3, <2>6, <2>7, <2>8, ShorterListKept
  <1> QED BY <1>1, <1>4, <1>6, <1>7, <1>8, <1>9, <1>10, <1>11, <1>12, <1>13, <1>14 DEF EvolverInv, Linked

\* A retirement that stops half way keeps it.
LEMMA RetireErrorKeeps ==
  ASSUME EvolverInv, NEW r \in Retirers, RetireError(r)
  PROVE  EvolverInv' /\ SameFleet /\ (pc' = pc \/ (pc = "retire" /\ pc' = "check"))
  <1> USE DEF BeforeLink, BeforeRow
  <1>0. /\ todo[r] # <<>> /\ UNCHANGED <<programs, lastId, bots, foreign, repo, cluster, cycle>>
        /\ rstep' = [rstep EXCEPT ![r] = "status"] /\ todo' = [todo EXCEPT ![r] = <<>>]
        /\ pc' = IF r = "cycle" THEN "check" ELSE pc
    BY DEF RetireError, tables, world
  <1>1. r = "cycle" => pc = "retire"
    BY <1>0, HeadOfList
  <1>2. pc' = pc \/ (pc = "retire" /\ pc' = "check")
    BY <1>0, <1>1
  <1>3. Rows' = Rows /\ Linked' = Linked /\ Own' = Own /\ SameFleet
    BY <1>0 DEF Rows, Linked, Own, SameFleet
  <1>4. StoreInv' /\ FleetInv'
    BY <1>0, <1>2, <1>3 DEF EvolverInv, StoreInv, FleetInv
  <1>5. CandidateInv'
    BY <1>0, <1>2, <1>3 DEF EvolverInv, CandidateInv
  <1>6. DeployInv'
    BY <1>0, <1>2, <1>3 DEF EvolverInv, DeployInv, ActiveIsDeployed
  <1>7. ListsInv'
    <2>1. PICK L : L = <<>>
      OBVIOUS
    <2>2. L \in Seq([id : Nat, named : BOOLEAN]) /\ Len(L) = 0
      BY <2>1
    <2>3. \A k \in 1..Len(L) : \E j \in 1..Len(todo[r]) : L[k] = todo[r][j]
      BY <2>2
    <2> QED BY <1>0, <1>1, <2>1, <2>2, <2>3, ShorterListKept
  <1> QED BY <1>2, <1>3, <1>4, <1>5, <1>6, <1>7 DEF EvolverInv

\* A restart of the evolver keeps it.
LEMMA RestartKeeps ==
  ASSUME EvolverInv, Restart
  PROVE  EvolverInv' /\ SameFleet
  <1> USE DEF BeforeLink, BeforeRow
  <1>0. /\ UNCHANGED <<programs, lastId, bots, foreign, repo, cluster>> /\ pc' = "boot"
        /\ "id" \in DOMAIN cycle'
        /\ todo' = [r \in Retirers |-> <<>>] /\ rstep' = [r \in Retirers |-> "status"]
    BY DEF Restart, tables, world, NoCycle
  <1>1. Rows' = Rows /\ Linked' = Linked /\ Own' = Own /\ SameFleet
    BY <1>0 DEF Rows, Linked, Own, SameFleet
  <1>2. StoreInv' /\ FleetInv'
    BY <1>0, <1>1 DEF EvolverInv, StoreInv, FleetInv
  <1>3. CandidateInv' /\ DeployInv'
    BY <1>0, <1>1 DEF EvolverInv, CandidateInv, DeployInv, ActiveIsDeployed
  <1>4. ListsInv'
    <2>1. \A r \in Retirers : todo'[r] = <<>> /\ rstep'[r] = "status"
      BY <1>0
    <2>2. /\ todo' \in [Retirers -> Seq([id : Nat, named : BOOLEAN])]
          /\ rstep' \in [Retirers -> {"status", "source", "manifest", "unset"}]
      BY <1>0
    <2>3. Len(<<>>) = 0 /\ "cycle" \in Retirers
      BY DEF Retirers
    <2> QED BY <2>1, <2>2, <2>3 DEF ListsInv
  <1> QED BY <1>1, <1>2, <1>3, <1>4 DEF EvolverInv

\* What happens outside: ratings move, workflows end.
LEMMA OutsideKeeps ==
  ASSUME EvolverInv, NEW p \in Ids, RatingChanges(p) \/ WorkflowEnds(p)
  PROVE  EvolverInv' /\ SameFleet
  <1>1. /\ UNCHANGED Kept /\ UNCHANGED <<programs, cycle, pc>> /\ repo \subseteq repo' /\ cluster \subseteq cluster'
    BY DEF RatingChanges, WorkflowEnds, Kept, tables, world, retirement
  <1> QED BY <1>1, MovedOnKeeps DEF SameFleet, Kept

\* The health checker and the API change rows of bots that exist, and what they
\* move into or out of 'retired' is no longer counted as the evolver's own.
LEMMA OthersKeep ==
  ASSUME EvolverInv, Others
  PROVE  EvolverInv' /\ Linked' = Linked /\ foreign \subseteq foreign'
         /\ UNCHANGED <<programs, pc, cycle, todo, rstep, faults, blind>>
         /\ Own' = Own \ foreign'
  <1> USE DEF BeforeLink, BeforeRow
  <1>0. UNCHANGED <<programs, lastId, repo, cluster, pc, cycle, todo, rstep, faults, blind>>
    BY DEF Others, HealthQuery, HealthWrite, RevokedInApi, tables, world, retirement
  <1>1. /\ foreign \subseteq foreign' /\ foreign' \subseteq DOMAIN bots
        /\ DOMAIN bots' = DOMAIN bots /\ Own' = Own \ foreign'
    <2>1. CASE HealthQuery
      BY <2>1 DEF HealthQuery, tables, Own, EvolverInv, FleetInv
    <2>2. ASSUME NEW p \in Ids, HealthWrite(p), bots' # bots
          PROVE  /\ foreign \subseteq foreign' /\ foreign' \subseteq DOMAIN bots
                 /\ DOMAIN bots' = DOMAIN bots /\ Own' = Own \ foreign'
      <3>1. PICK st \in {"active", "inactive"} : bots' = [bots EXCEPT ![p] = st]
        BY <2>2 DEF HealthWrite
      <3>2. foreign' = IF bots[p] = "retired" THEN foreign \cup {p} ELSE foreign
        BY <2>2 DEF HealthWrite
      <3>3. p \in DOMAIN bots
        BY <2>2 DEF HealthWrite
      <3>4. /\ DOMAIN bots' = DOMAIN bots /\ bots'[p] # "retired"
            /\ \A q \in DOMAIN bots \ {p} : bots'[q] = bots[q]
        BY <3>1, <3>3
      <3> QED BY <3>2, <3>3, <3>4 DEF Own, EvolverInv, FleetInv
    <2>3. ASSUME NEW p \in Ids, RevokedInApi(p)
          PROVE  /\ foreign \subseteq foreign' /\ foreign' \subseteq DOMAIN bots
                 /\ DOMAIN bots' = DOMAIN bots /\ Own' = Own \ foreign'
      <3>1. /\ p \in DOMAIN bots /\ foreign' = foreign \cup {p}
            /\ bots' = [bots EXCEPT ![p] = "retired"]
        BY <2>3 DEF RevokedInApi
      <3>2. /\ DOMAIN bots' = DOMAIN bots
            /\ \A q \in DOMAIN bots \ {p} : bots'[q] = bots[q]
        BY <3>1
      <3> QED BY <3>1, <3>2 DEF Own, EvolverInv, FleetInv
    <2>4. ASSUME NEW p \in Ids, HealthWrite(p), bots' = bots
          PROVE  /\ foreign \subseteq foreign' /\ foreign' \subseteq DOMAIN bots
                 /\ DOMAIN bots' = DOMAIN bots /\ Own' = Own \ foreign'
      <3>1. p \in DOMAIN bots /\ (foreign' = foreign \/ foreign' = foreign \cup {p})
        BY <2>4 DEF HealthWrite
      <3>2. CASE foreign' = foreign
        BY <2>4, <3>2 DEF Own, EvolverInv, FleetInv
      <3>3. CASE foreign' = foreign \cup {p}
        BY <2>4, <3>1, <3>3 DEF Own, EvolverInv, FleetInv
      <3> QED BY <3>1, <3>2, <3>3
    <2> QED BY <2>1, <2>2, <2>3, <2>4 DEF Others
  <1>2. Rows' = Rows /\ Linked' = Linked
    BY <1>0 DEF Rows, Linked
  <1>3. StoreInv' /\ FleetInv'
    BY <1>0, <1>1, <1>2 DEF EvolverInv, StoreInv, FleetInv
  <1>4. CandidateInv'
    BY <1>0, <1>1, <1>2 DEF EvolverInv, CandidateInv
  <1>5. ListsInv'
    BY <1>0, <1>1 DEF EvolverInv, ListsInv
  <1>6. DeployInv'
    BY <1>0, <1>1 DEF EvolverInv, DeployInv, ActiveIsDeployed
  <1> QED BY <1>0, <1>1, <1>2, <1>3, <1>4, <1>5, <1>6 DEF EvolverInv

\* Every step of the evolver keeps the invariant.
LEMMA EvolverInvStep == EvolverInv /\ [Next]_vars => EvolverInv'
  <1> SUFFICES ASSUME EvolverInv, [Next]_vars PROVE EvolverInv'
    OBVIOUS
  <1>1. CASE Cycle
    BY <1>1, SeedKeeps, StartKeeps, GenerateKeeps, ValidateKeeps, ArenaKeeps, ArenaErrorKeeps,
       DeploymentKeeps, PromoteRowKeeps, PromoteProgramKeeps, PromoteErrorKeeps, PollinationKeeps
       DEF Cycle
  <1>2. CASE Restart
    BY <1>2, RestartKeeps
  <1>3. ASSUME NEW r \in Retirers, Retirement(r) PROVE EvolverInv'
    BY <1>3, EnforceKeeps, StatusKeeps, RemovalKeeps, UnsetKeeps, RetireErrorKeeps
       DEF Retirement, RetireBot
  <1>4. ASSUME NEW p \in Ids, RatingChanges(p) \/ WorkflowEnds(p) PROVE EvolverInv'
    BY <1>4, OutsideKeeps
  <1>5. CASE UNCHANGED vars
    <2>1. /\ UNCHANGED Kept /\ UNCHANGED <<cycle, pc>> /\ repo \subseteq repo' /\ cluster \subseteq cluster'
      BY <1>5 DEF vars, Kept
    <2> QED BY <2>1, MovedOnKeeps
  <1>6. CASE Others
    BY <1>6, OthersKeep
  <1> QED BY <1>1, <1>2, <1>3, <1>4, <1>5, <1>6 DEF Next

\* An empty evolver satisfies the invariant.
LEMMA EvolverInvInit == Init => EvolverInv
  <1> SUFFICES ASSUME Init PROVE EvolverInv
    OBVIOUS
  <1>0. DOMAIN programs = {} /\ DOMAIN bots = {}
    BY DEF Init
  <1>1. Rows = {} /\ Linked = {} /\ Own = {}
    BY <1>0 DEF Rows, Linked, Own
  <1>2. StoreInv
    BY <1>1 DEF Init, StoreInv
  <1>3. FleetInv
    BY <1>0, <1>1 DEF Init, FleetInv
  <1>4. CandidateInv /\ DeployInv
    BY <1>1 DEF Init, CandidateInv, DeployInv, ActiveIsDeployed, BeforeLink, BeforeRow, NoCycle
  <1>5. ListsInv
    <2>1. \A r \in Retirers : todo[r] = <<>> /\ rstep[r] = "status"
      BY DEF Init
    <2>2. /\ todo \in [Retirers -> Seq([id : Nat, named : BOOLEAN])]
          /\ rstep \in [Retirers -> {"status", "source", "manifest", "unset"}]
      BY DEF Init
    <2>3. Len(<<>>) = 0 /\ "cycle" \in Retirers
      BY DEF Retirers
    <2> QED BY <2>1, <2>2, <2>3 DEF ListsInv
  <1> QED BY <1>2, <1>3, <1>4, <1>5 DEF EvolverInv

\* The evolver's invariant holds for any number of programs, islands, retries
\* and faults, and for any rating query.
THEOREM EvolverInvariant == Spec => []EvolverInv
  BY EvolverInvInit, EvolverInvStep, PTL DEF Spec

\* A bot that is in service has its source and its deployment, whatever step
\* of a promotion or a retirement fails and however the two retirers and the
\* loop interleave.
THEOREM ActiveBotsAreDeployed == Spec => []ActiveIsDeployed
  <1>1. EvolverInv => ActiveIsDeployed
    BY DEF EvolverInv, DeployInv
  <1> QED BY <1>1, EvolverInvariant, PTL

(***************************************************************************)
(* Niches.                                                                 *)
(***************************************************************************)
\* Steps that link nobody and change neither a champion nor the candidate.
LEMMA NicheShrinks ==
  ASSUME NicheInv, Linked' \subseteq Linked, blind \subseteq blind',
         \A p \in Linked' : programs'[p].fit = programs[p].fit /\ programs'[p].niche = programs[p].niche,
         pc' \in Gated =>
           /\ pc \in Gated /\ cycle' = cycle
           /\ programs'[cycle.id].fit = programs[cycle.id].fit
           /\ programs'[cycle.id].niche = programs[cycle.id].niche
  PROVE  NicheInv'
  BY DEF NicheInv, NicheImproves

\* The gate lets only fitter candidates pass.
LEMMA ArenaNiche ==
  ASSUME EvolverInv, NicheInv, Arena
  PROVE  NicheInv'
  <1>1. PICK t \in Tallies, niche \in Niches, fit \in FitLevels, ok \in BOOLEAN :
          /\ programs' = IF ok THEN [programs EXCEPT ![cycle.id].fit = fit, ![cycle.id].niche = niche]
                         ELSE programs
          /\ IF ok THEN UNCHANGED <<faults, blind>> ELSE Fault /\ blind' = blind \cup {cycle.id}
          /\ pc' = IF Evaluate(t, IF ok THEN Linked ELSE {}, niche, fit) THEN "source" ELSE "check"
          /\ cycle' = [cycle EXCEPT !.fit = fit]
    BY DEF Arena
  <1>2. SameFleet
    BY ArenaKeeps
  <1>3. cycle'.id = cycle.id
    BY <1>1 DEF EvolverInv, CandidateInv
  <1>4. blind \subseteq blind'
    BY <1>1
  <1>5. NicheImproves'
    BY <1>2, <1>4 DEF SameFleet, NicheInv, NicheImproves
  <1>6. ASSUME pc' \in Gated, cycle'.id \notin blind', NEW q \in Linked',
               programs'[q].niche = programs'[cycle'.id].niche
        PROVE  programs'[cycle'.id].fit > programs'[q].fit
    <2>1. ok
      BY <1>1, <1>3, <1>6
    <2>2. TryPlace(Linked, niche, fit)
      BY <1>1, <1>6, <2>1 DEF Evaluate, Gated
    <2>3. programs'[cycle.id].fit = fit /\ programs'[cycle.id].niche = niche
      <3>1. pc = "arena" /\ UNCHANGED <<lastId, bots, foreign>> /\ pc' # "boot"
        BY <1>1 DEF Arena
      <3> QED BY <1>1, <2>1, <3>1, ArenaRow
    <2>4. q \in Linked /\ programs'[q].fit = programs[q].fit /\ programs'[q].niche = programs[q].niche
      BY <1>2, <1>6 DEF SameFleet
    <2> QED BY <1>3, <1>6, <2>2, <2>3, <2>4 DEF TryPlace
  <1> QED BY <1>5, <1>6 DEF NicheInv

\* Linking the candidate adds the fittest of its niche.
LEMMA PromoteProgramNiche ==
  ASSUME EvolverInv, NicheInv, PromoteProgram
  PROVE  NicheInv'
  <1>1. /\ Linked' = IF pc = "link" THEN Linked \cup {cycle.id} ELSE Linked
        /\ \A p \in Rows : programs'[p].fit = programs[p].fit /\ programs'[p].niche = programs[p].niche
    BY PromoteProgramKeeps
  <1>2. UNCHANGED <<cycle, blind>> /\ pc \in {"promoted", "link", "name"}
    BY DEF PromoteProgram
  <1>3. cycle.id \in Rows /\ Linked \subseteq Rows
    BY <1>2 DEF EvolverInv, CandidateInv, BeforeLink, Linked
  <1>4. CASE pc # "link"
    <2>1. pc' \in Gated => pc \in Gated
      BY <1>2, <1>4 DEF PromoteProgram, Gated
    <2> QED BY <1>1, <1>2, <1>3, <1>4, <2>1, NicheShrinks
  <1>5. CASE pc = "link"
    <2>1. pc' = "name"
      BY <1>5 DEF PromoteProgram
    <2>2. \A p \in Rows : programs[p].fit \in Nat
      BY DEF EvolverInv, StoreInv
    <2>3. ASSUME NEW q \in Linked, cycle.id \notin blind, programs[q].niche = programs[cycle.id].niche
          PROVE  programs[q].fit # programs[cycle.id].fit
      <3>1. programs[cycle.id].fit > programs[q].fit
        BY <1>5, <2>3 DEF NicheInv, Gated
      <3>2. programs[cycle.id].fit \in Nat /\ programs[q].fit \in Nat
        BY <1>3, <2>2
      <3> QED BY <3>1, <3>2
    <2>4. NicheImproves'
      <3> SUFFICES ASSUME NEW p \in Linked' \ blind', NEW q \in Linked' \ blind',
                          p # q, programs'[p].niche = programs'[q].niche
                   PROVE  programs'[p].fit # programs'[q].fit
        BY DEF NicheImproves
      <3>1. /\ p \in Linked \cup {cycle.id} /\ q \in Linked \cup {cycle.id}
            /\ p \notin blind /\ q \notin blind
            /\ programs[p].niche = programs[q].niche
            /\ programs'[p].fit = programs[p].fit /\ programs'[q].fit = programs[q].fit
        BY <1>1, <1>2, <1>3, <1>5
      <3>2. CASE p \in Linked /\ q \in Linked
        BY <3>1, <3>2 DEF NicheInv, NicheImproves
      <3>3. CASE p = cycle.id /\ q \in Linked
        BY <2>3, <3>1, <3>3
      <3>4. CASE q = cycle.id /\ p \in Linked
        BY <2>3, <3>1, <3>4
      <3> QED BY <3>1, <3>2, <3>3, <3>4
    <2> QED BY <2>1, <2>4 DEF NicheInv, Gated
  <1> QED BY <1>4, <1>5

\* Every step of a cycle keeps the invariant; only PromoteProgram links.
LEMMA CycleNiche ==
  ASSUME EvolverInv, NicheInv, Cycle
  PROVE  NicheInv'
  <1> USE DEF Gated
  <1>1. CASE \/ SeedPopulation \/ StartCycle \/ Generate \/ ValidateCandidate \/ ArenaError
             \/ CheckAndPollinate \/ PollinateIsland \/ SaveCrossPollState \/ PromoteError
    <2>1. SameFleet
      BY <1>1, SeedKeeps, StartKeeps, GenerateKeeps, ValidateKeeps, ArenaErrorKeeps, PollinationKeeps,
         PromoteErrorKeeps
    <2>2. pc' \notin Gated
      BY <1>1 DEF SeedPopulation, StartCycle, Generate, ValidateCandidate, ArenaError, CheckAndPollinate,
                  PollinateIsland, SaveCrossPollState, PromoteError
    <2>3. blind' = blind
      BY <1>1 DEF SeedPopulation, StartCycle, Generate, ValidateCandidate, ArenaError, CheckAndPollinate,
                  PollinateIsland, SaveCrossPollState, PromoteError
    <2> QED BY <2>1, <2>2, <2>3, NicheShrinks DEF SameFleet
  <1>2. CASE PromoteSource \/ TriggerArgoWorkflow \/ WaitForWorkflow \/ WaitForDeployment
    <2>1. SameFleet
      BY <1>2, DeploymentKeeps
    <2>2. UNCHANGED <<programs, cycle, blind>> /\ pc \in Gated
      BY <1>2 DEF PromoteSource, TriggerArgoWorkflow, WaitForWorkflow, WaitForDeployment, tables
    <2> QED BY <2>1, <2>2, NicheShrinks DEF SameFleet
  <1>3. CASE PromoteRow
    <2>1. Linked' = Linked /\ UNCHANGED <<programs, cycle, blind>> /\ pc \in Gated
      BY <1>3, PromoteRowKeeps DEF PromoteRow
    <2> QED BY <2>1, NicheShrinks
  <1> QED BY <1>1, <1>2, <1>3, ArenaNiche, PromoteProgramNiche DEF Cycle

\* A retirement only unlinks.
LEMMA RetirementNiche ==
  ASSUME EvolverInv, NicheInv, NEW r \in Retirers, Retirement(r)
  PROVE  NicheInv'
  <1> USE DEF Gated
  <1>1. CASE EnforcePolicy(r) \/ RetireError(r)
    <2>1. SameFleet
      BY <1>1, EnforceKeeps, RetireErrorKeeps
    <2>2. UNCHANGED <<programs, cycle, blind>>
      BY <1>1 DEF EnforcePolicy, RetireError, tables
    <2>3. pc' = pc \/ pc' \in {"check", "retire"}
      BY <1>1 DEF EnforcePolicy, RetireError
    <2> QED BY <2>1, <2>2, <2>3, NicheShrinks DEF SameFleet
  <1>2. CASE RetireBot(r)
    <2>0. UNCHANGED <<cycle, blind>> /\ UNCHANGED <<lastId, rating, workflows, cycle, pollination, lastIsland, blind, probed, foreign>>
      BY <1>2 DEF RetireBot
    <2>1. CASE RetireStatus(r)
      <3>1. Linked' = Linked /\ programs' = programs
        BY <2>0, <2>1, StatusKeeps
      <3>2. pc' = pc
        BY <2>1 DEF RetireStatus, To
      <3> QED BY <2>0, <3>1, <3>2, NicheShrinks
    <2>2. CASE GitRemove(r) \/ RemoveK8sManifests(r)
      <3>1. SameFleet
        BY <2>0, <2>2, RemovalKeeps
      <3>2. pc' = pc /\ programs' = programs
        BY <2>2 DEF GitRemove, RemoveK8sManifests, To
      <3> QED BY <2>0, <3>1, <3>2, NicheShrinks DEF SameFleet
    <2>3. CASE UnsetPromoted(r)
      <3>1. /\ Linked' \subseteq Linked
            /\ \A p \in Linked' : programs'[p] = programs[p]
            /\ pc \in BeforeLink => programs'[cycle.id] = programs[cycle.id]
            /\ pc' = pc \/ (pc = "retire" /\ pc' = "check")
        BY <2>0, <2>3, UnsetKeeps
      <3>2. Gated \subseteq BeforeLink
        BY DEF BeforeLink, BeforeRow
      <3> QED BY <2>0, <3>1, <3>2, NicheShrinks
    <2> QED BY <1>2, <2>1, <2>2, <2>3 DEF RetireBot
  <1> QED BY <1>1, <1>2 DEF Retirement

\* Every step of the evolver keeps the champions of a niche apart.
LEMMA NicheInvStep == EvolverInv /\ NicheInv /\ [Next]_vars => NicheInv'
  <1> SUFFICES ASSUME EvolverInv, NicheInv, [Next]_vars PROVE NicheInv'
    OBVIOUS
  <1>1. CASE Restart
    <2>1. SameFleet
      BY <1>1, RestartKeeps
    <2>2. pc' \notin Gated /\ blind' = blind
      BY <1>1 DEF Restart, Gated
    <2> QED BY <2>1, <2>2, NicheShrinks DEF SameFleet
  <1>2. ASSUME NEW p \in Ids, RatingChanges(p) \/ WorkflowEnds(p) PROVE NicheInv'
    <2>1. SameFleet
      BY <1>2, OutsideKeeps
    <2>2. UNCHANGED <<programs, pc, cycle, blind>>
      BY <1>2 DEF RatingChanges, WorkflowEnds, tables
    <2> QED BY <2>1, <2>2, NicheShrinks DEF SameFleet
  <1>3. CASE UNCHANGED vars
    <2>1. UNCHANGED <<programs, pc, cycle, blind>> /\ Linked' = Linked
      BY <1>3 DEF vars, Linked, Rows
    <2> QED BY <2>1, NicheShrinks
  <1>4. CASE Others
    <2>1. UNCHANGED <<programs, pc, cycle, blind>> /\ Linked' = Linked
      BY <1>4, OthersKeep
    <2> QED BY <2>1, NicheShrinks
  <1> QED BY <1>1, <1>2, <1>3, <1>4, CycleNiche, RetirementNiche DEF Next

\* Two deployed champions of a niche never have the same fitness: from the
\* gate to the link nobody else is linked, so the candidate still beats every
\* champion it meets, however long its deployment takes.
THEOREM NichesImprove == Spec => []NicheImproves
  <1>1. Init => NicheInv
    <2> SUFFICES ASSUME Init PROVE NicheInv
      OBVIOUS
    <2>1. Linked = {}
      BY DEF Init, Linked, Rows
    <2> QED BY <2>1 DEF Init, NicheInv, NicheImproves, Gated
  <1>2. NicheInv => NicheImproves
    BY DEF NicheInv
  <1> QED BY <1>1, <1>2, NicheInvStep, EvolverInvariant, PTL DEF Spec

(***************************************************************************)
(* The two tables.                                                         *)
(***************************************************************************)
LEMMA FreeStep ==
  ASSUME DriftInv, Drift' \subseteq Drift, faults' \in {faults, faults + 1}
  PROVE  DriftInv'
  <1>1. PICK new : new = Drift'
    OBVIOUS
  <1>2. PICK old : old = Drift
    OBVIOUS
  <1>3. IsFiniteSet(old) /\ Cardinality(old) <= 2 * faults /\ faults \in Nat /\ new \subseteq old
    BY <1>1, <1>2 DEF DriftInv
  <1>4. IsFiniteSet(new) /\ Cardinality(new) <= Cardinality(old)
    BY <1>3, FS_Subset
  <1>5. Cardinality(new) \in Nat /\ Cardinality(old) \in Nat
    BY <1>3, <1>4, FS_CardinalityType
  <1>6. Cardinality(new) <= 2 * faults' /\ faults' \in Nat
    BY <1>3, <1>4, <1>5
  <1> QED BY <1>1, <1>4, <1>6 DEF DriftInv

\* A set grows by at most one when one member is added.
LEMMA OneMore ==
  ASSUME NEW S, NEW x, IsFiniteSet(S)
  PROVE  IsFiniteSet(S \cup {x}) /\ Cardinality(S \cup {x}) <= Cardinality(S) + 1
  <1>1. Cardinality(S) \in Nat
    BY FS_CardinalityType
  <1>2. PICK n \in Nat : n = Cardinality(S)
    BY <1>1
  <1>3. IsFiniteSet(S \cup {x}) /\ Cardinality(S \cup {x}) \in {n, n + 1}
    BY <1>2, FS_AddElement
  <1> QED BY <1>2, <1>3

\* A step that pays for the bots it leaves half way keeps the bound.
LEMMA PaidStep ==
  ASSUME DriftInv, NEW a, NEW b, Drift' \subseteq Drift \cup {a, b}, faults' = faults + 1
  PROVE  DriftInv'
  <1>1. PICK new : new = Drift'
    OBVIOUS
  <1>2. PICK old : old = Drift
    OBVIOUS
  <1>3. /\ IsFiniteSet(old) /\ Cardinality(old) <= 2 * faults /\ faults \in Nat
        /\ new \subseteq (old \cup {a}) \cup {b}
    BY <1>1, <1>2 DEF DriftInv
  <1>4. PICK one : one = old \cup {a} /\ IsFiniteSet(one) /\ Cardinality(one) <= Cardinality(old) + 1
    BY <1>3, OneMore
  <1>5. PICK two : two = one \cup {b} /\ IsFiniteSet(two) /\ Cardinality(two) <= Cardinality(one) + 1
    BY <1>4, OneMore
  <1>6. IsFiniteSet(new) /\ Cardinality(new) <= Cardinality(two)
    BY <1>3, <1>4, <1>5, FS_Subset
  <1>7. /\ Cardinality(new) \in Nat /\ Cardinality(old) \in Nat
        /\ Cardinality(one) \in Nat /\ Cardinality(two) \in Nat
    BY <1>3, <1>4, <1>5, <1>6, FS_CardinalityType
  <1>8. Cardinality(new) <= 2 * faults' /\ faults' \in Nat
    BY <1>3, <1>4, <1>5, <1>6, <1>7
  <1> QED BY <1>1, <1>6, <1>8 DEF DriftInv

\* Steps of the loop that touch neither the fleet nor the lists.
LEMMA SameFleetDrift ==
  ASSUME DriftInv, SameFleet, UNCHANGED <<todo, rstep>>, faults' \in {faults, faults + 1},
         pc \in {"promoted", "link"} => pc' \in {"promoted", "link"} /\ cycle' = cycle
  PROVE  DriftInv'
  <1>1. HeadOf("cycle")' = HeadOf("cycle") /\ HeadOf("ticker")' = HeadOf("ticker")
    BY DEF HeadOf
  <1>2. Excused \subseteq Excused'
    BY <1>1 DEF Excused
  <1>3. Drift' \subseteq Drift
    BY <1>2 DEF Drift, SymDiff, SameFleet
  <1> QED BY <1>3, FreeStep

\* The steps of a cycle pay for what they leave half way.
LEMMA CycleDrift ==
  ASSUME EvolverInv, DriftInv, Cycle
  PROVE  DriftInv'
  <1>0. faults \in Nat
    BY DEF DriftInv
  <1>1. CASE \/ SeedPopulation \/ StartCycle \/ Generate \/ ValidateCandidate \/ Arena \/ ArenaError
             \/ PromoteSource \/ TriggerArgoWorkflow \/ WaitForWorkflow \/ WaitForDeployment
             \/ CheckAndPollinate \/ PollinateIsland \/ SaveCrossPollState
    <2>1. SameFleet
      BY <1>1, SeedKeeps, StartKeeps, GenerateKeeps, ValidateKeeps, ArenaKeeps, ArenaErrorKeeps,
         PollinationKeeps, DeploymentKeeps
    <2>2. UNCHANGED <<todo, rstep>>
      BY <1>1 DEF SeedPopulation, StartCycle, Generate, ValidateCandidate, Arena, ArenaError, PromoteSource,
                  TriggerArgoWorkflow, WaitForWorkflow, WaitForDeployment, CheckAndPollinate,
                  PollinateIsland, SaveCrossPollState, retirement
    <2>3. pc \notin {"promoted", "link"}
      BY <1>1 DEF SeedPopulation, StartCycle, Generate, ValidateCandidate, Arena, ArenaError, PromoteSource,
                  TriggerArgoWorkflow, WaitForWorkflow, WaitForDeployment, CheckAndPollinate,
                  PollinateIsland, SaveCrossPollState
    <2>4. faults' \in {faults, faults + 1}
      BY <1>1 DEF SeedPopulation, StartCycle, Generate, ValidateCandidate, Arena, ArenaError, PromoteSource,
                  TriggerArgoWorkflow, WaitForWorkflow, WaitForDeployment, CheckAndPollinate,
                  PollinateIsland, SaveCrossPollState, Fault
    <2> QED BY <2>1, <2>2, <2>3, <2>4, SameFleetDrift
  <1>2. CASE PromoteRow
    <2>1. Linked' = Linked /\ Own' = Own \cup {cycle.id} /\ foreign' = foreign
      BY <1>2, PromoteRowKeeps
    <2>2. UNCHANGED <<todo, rstep, cycle, faults>> /\ pc = "row" /\ pc' = "promoted"
      BY <1>2 DEF PromoteRow, retirement
    <2>3. HeadOf("cycle")' = HeadOf("cycle") /\ HeadOf("ticker")' = HeadOf("ticker")
      BY <2>2 DEF HeadOf
    <2>4. Excused' = Excused \cup {cycle.id}
      BY <2>2, <2>3 DEF Excused
    <2>5. Drift' \subseteq Drift
      BY <2>1, <2>4 DEF Drift, SymDiff
    <2> QED BY <2>2, <2>5, FreeStep
  <1>3. CASE PromoteProgram
    <2>1. /\ Own' = Own /\ foreign' = foreign
          /\ Linked' = IF pc = "link" THEN Linked \cup {cycle.id} ELSE Linked
      BY <1>3, PromoteProgramKeeps
    <2>2. /\ UNCHANGED <<todo, rstep, cycle, faults>>
          /\ \/ pc = "promoted" /\ pc' = "link"
             \/ pc = "link" /\ pc' = "name"
             \/ pc = "name" /\ pc' = "policy"
      BY <1>3 DEF PromoteProgram, retirement
    <2>3. HeadOf("cycle")' = HeadOf("cycle") /\ HeadOf("ticker")' = HeadOf("ticker")
      BY <2>2 DEF HeadOf
    <2>4. pc = "link" => cycle.id \in Own \cup foreign
      BY DEF EvolverInv, CandidateInv
    <2>5. Drift' \subseteq Drift
      <3>1. CASE pc = "link"
        <4>1. Excused \subseteq Excused' \cup {cycle.id}
          BY <2>3, <3>1 DEF Excused
        <4>2. cycle.id \in Own' \cup foreign' /\ cycle.id \in Linked'
          BY <2>1, <2>4, <3>1
        <4>3. Linked' = Linked \cup {cycle.id}
          BY <2>1, <3>1
        <4>4. foreign' = foreign /\ Own' = Own
          BY <2>1
        <4>5. Own \cap foreign = {}
          BY DEF Own
        <4> QED BY <4>1, <4>2, <4>3, <4>4, <4>5 DEF Drift, SymDiff
      <3>2. CASE pc # "link"
        <4>1. Excused \subseteq Excused'
          BY <2>2, <2>3, <3>2 DEF Excused
        <4> QED BY <2>1, <3>2, <4>1 DEF Drift, SymDiff
      <3> QED BY <3>1, <3>2
    <2> QED BY <2>2, <2>5, FreeStep
  <1>4. CASE PromoteError
    <2>1. SameFleet
      BY <1>4, PromoteErrorKeeps
    <2>2. UNCHANGED <<todo, rstep>> /\ faults' = faults + 1
      BY <1>4 DEF PromoteError, retirement, Fault
    <2>3. HeadOf("cycle")' = HeadOf("cycle") /\ HeadOf("ticker")' = HeadOf("ticker")
      BY <2>2 DEF HeadOf
    <2>4. Excused \subseteq Excused' \cup {cycle.id}
      BY <2>3 DEF Excused
    <2>5. Drift' \subseteq Drift \cup {cycle.id, cycle.id}
      BY <2>1, <2>4 DEF Drift, SymDiff, SameFleet
    <2> QED BY <2>2, <2>5, PaidStep
  <1> QED BY <1>1, <1>2, <1>3, <1>4 DEF Cycle

\* So do those of a retirement.
LEMMA RetirementDrift ==
  ASSUME EvolverInv, DriftInv, NEW r \in Retirers, Retirement(r)
  PROVE  DriftInv'
  <1> USE DEF Retirers
  <1>0. /\ faults \in Nat
        /\ todo \in [Retirers -> Seq([id : Nat, named : BOOLEAN])]
        /\ rstep \in [Retirers -> {"status", "source", "manifest", "unset"}]
    BY DEF DriftInv, EvolverInv, ListsInv
  <1>1. CASE EnforcePolicy(r)
    <2>1. SameFleet
      BY <1>1, EnforceKeeps
    <2>2. /\ todo[r] = <<>> /\ UNCHANGED <<rstep, cycle, faults>>
          /\ \A q \in Retirers \ {r} : todo'[q] = todo[q]
          /\ pc \in {"promoted", "link"} => pc' = pc
      BY <1>0, <1>1 DEF EnforcePolicy
    <2>3. \A q \in Retirers : HeadOf(q) \subseteq HeadOf(q)'
      BY <2>2 DEF HeadOf
    <2>4. Excused \subseteq Excused'
      BY <2>2, <2>3 DEF Excused
    <2>5. Drift' \subseteq Drift
      BY <2>1, <2>4 DEF Drift, SymDiff, SameFleet
    <2> QED BY <2>2, <2>5, FreeStep
  <1>2. CASE RetireError(r)
    <2>1. SameFleet /\ (pc' = pc \/ (pc = "retire" /\ pc' = "check"))
      BY <1>2, RetireErrorKeeps
    <2>2. /\ UNCHANGED cycle /\ faults' = faults + 1
          /\ \A q \in Retirers \ {r} : todo'[q] = todo[q] /\ rstep'[q] = rstep[q]
      BY <1>0, <1>2 DEF RetireError, Fault
    <2>3. PICK h : h = todo[r][1].id
      OBVIOUS
    <2>4. \A q \in Retirers : HeadOf(q) \subseteq HeadOf(q)' \cup {h}
      BY <2>2, <2>3 DEF HeadOf
    <2>5. Excused \subseteq Excused' \cup {h}
      BY <2>1, <2>2, <2>4 DEF Excused
    <2>6. Drift' \subseteq Drift \cup {h, h}
      BY <2>1, <2>5 DEF Drift, SymDiff, SameFleet
    <2> QED BY <2>2, <2>6, PaidStep
  <1>3. CASE RetireBot(r)
    <2>0. /\ UNCHANGED <<lastId, rating, workflows, cycle, pollination, lastIsland, blind, probed, foreign>>
          /\ UNCHANGED cycle /\ faults' \in {faults, faults + 1}
      BY <1>3 DEF RetireBot, RetireStatus, GitRemove, RemoveK8sManifests, UnsetPromoted, Fault
    <2>1. CASE RetireStatus(r)
      <3>1. PICK h : h = todo[r][1].id
        OBVIOUS
      <3>2. Linked' = Linked /\ Own' = Own \ {h}
        BY <2>0, <2>1, <3>1, StatusKeeps
      <3>3. /\ todo[r] # <<>> /\ rstep[r] = "status" /\ UNCHANGED <<todo, pc>>
            /\ rstep'[r] # "status" /\ \A q \in Retirers \ {r} : rstep'[q] = rstep[q]
        BY <1>0, <2>1 DEF RetireStatus, At, To
      <3>4. HeadOf(r)' = {h} /\ \A q \in Retirers : HeadOf(q) \subseteq HeadOf(q)'
        BY <3>1, <3>3 DEF HeadOf
      <3>5. Excused \cup {h} \subseteq Excused'
        BY <2>0, <3>3, <3>4 DEF Excused
      <3>6. Drift' \subseteq Drift
        BY <2>0, <3>2, <3>5 DEF Drift, SymDiff
      <3> QED BY <2>0, <3>6, FreeStep
    <2>2. CASE GitRemove(r) \/ RemoveK8sManifests(r)
      <3>1. /\ SameFleet
            /\ todo' = todo /\ rstep'[r] # "status" /\ rstep[r] # "status"
            /\ \A q \in Retirers \ {r} : rstep'[q] = rstep[q]
        BY <2>0, <2>2, RemovalKeeps
      <3>2. pc' = pc
        BY <2>2 DEF GitRemove, RemoveK8sManifests, To
      <3>3. \A q \in Retirers : HeadOf(q) \subseteq HeadOf(q)'
        BY <3>1 DEF HeadOf
      <3>4. Excused \subseteq Excused'
        BY <2>0, <3>2, <3>3 DEF Excused
      <3>5. Drift' \subseteq Drift
        BY <3>1, <3>4 DEF Drift, SymDiff, SameFleet
      <3> QED BY <2>0, <3>5, FreeStep
    <2>3. CASE UnsetPromoted(r)
      <3>1. PICK h : h = todo[r][1].id
        OBVIOUS
      <3>2. /\ Linked' = Linked \ {h} /\ Own' = Own
            /\ pc' = pc \/ (pc = "retire" /\ pc' = "check")
        BY <2>0, <2>3, <3>1, UnsetKeeps
      <3>3. /\ todo[r] # <<>> /\ rstep[r] = "unset"
            /\ \A q \in Retirers \ {r} : todo'[q] = todo[q] /\ rstep'[q] = rstep[q]
        BY <1>0, <2>3 DEF UnsetPromoted, At
      <3>4. h \notin Own
        BY <3>1, <3>3, HeadOfList DEF EvolverInv, ListsInv
      <3>5. \A q \in Retirers : HeadOf(q) \subseteq HeadOf(q)' \cup {h}
        BY <3>1, <3>3 DEF HeadOf
      <3>6. Excused \subseteq Excused' \cup {h}
        BY <2>0, <3>2, <3>5 DEF Excused
      <3>7. Drift' \subseteq Drift
        BY <2>0, <3>2, <3>4, <3>6 DEF Drift, SymDiff
      <3> QED BY <2>0, <3>7, FreeStep
    <2> QED BY <1>3, <2>1, <2>2, <2>3 DEF RetireBot
  <1> QED BY <1>1, <1>2, <1>3 DEF Retirement

\* A restart forgets the bots in hand: a list of each retirer, or the promotion
\* and the ticker's list, since the loop does one thing at a time.
LEMMA RestartDrift ==
  ASSUME EvolverInv, DriftInv, Restart
  PROVE  DriftInv'
  <1>1. SameFleet
    BY RestartKeeps
  <1>2. PICK a, b : Excused \subseteq {a, b}
    <2>1. CASE todo["cycle"] # <<>>
      <3>1. pc = "retire"
        BY <2>1 DEF EvolverInv, ListsInv
      <3>2. Excused \subseteq {todo["cycle"][1].id, todo["ticker"][1].id}
        BY <3>1 DEF Excused, HeadOf
      <3> QED BY <3>2
    <2>2. CASE todo["cycle"] = <<>>
      <3>1. Excused \subseteq {cycle.id, todo["ticker"][1].id}
        BY <2>2 DEF Excused, HeadOf
      <3> QED BY <3>1
    <2> QED BY <2>1, <2>2
  <1>3. Drift' \subseteq Drift \cup {a, b}
    BY <1>1, <1>2 DEF Drift, SymDiff, SameFleet
  <1>4. faults' = faults + 1
    BY DEF Restart, Fault
  <1> QED BY <1>3, <1>4, PaidStep

\* Every step of the evolver keeps the tables as close as the faults allow.
LEMMA DriftInvStep == EvolverInv /\ DriftInv /\ [Next]_vars => DriftInv'
  <1> SUFFICES ASSUME EvolverInv, DriftInv, [Next]_vars PROVE DriftInv'
    OBVIOUS
  <1>1. ASSUME NEW p \in Ids, RatingChanges(p) \/ WorkflowEnds(p) PROVE DriftInv'
    <2>1. SameFleet
      BY <1>1, OutsideKeeps
    <2>2. UNCHANGED <<todo, rstep, pc, cycle, faults>>
      BY <1>1 DEF RatingChanges, WorkflowEnds, retirement
    <2> QED BY <2>1, <2>2, SameFleetDrift
  <1>2. CASE UNCHANGED vars
    <2>1. UNCHANGED <<todo, rstep, pc, cycle, faults>> /\ SameFleet
      BY <1>2 DEF vars, SameFleet, Linked, Own, Rows
    <2> QED BY <2>1, SameFleetDrift
  <1>3. CASE Others
    <2>1. /\ Linked' = Linked /\ foreign \subseteq foreign' /\ Own' = Own \ foreign'
          /\ UNCHANGED <<pc, cycle, todo, rstep, faults>>
      BY <1>3, OthersKeep
    <2>2. HeadOf("cycle")' = HeadOf("cycle") /\ HeadOf("ticker")' = HeadOf("ticker")
      BY <2>1 DEF HeadOf
    <2>3. Excused' = Excused
      BY <2>1, <2>2 DEF Excused
    <2>4. Drift' \subseteq Drift
      BY <2>1, <2>3 DEF Drift, SymDiff
    <2>5. faults' \in {faults, faults + 1}
      BY <2>1
    <2> QED BY <2>4, <2>5, FreeStep
  <1> QED BY <1>1, <1>2, <1>3, CycleDrift, RetirementDrift, RestartDrift DEF Next

\* The two tables name the same fleet up to the bots in hand, those that others
\* retired or put back, and at most two per fault, for any number of programs and faults: a failed statement leaves
\* one bot half way, a restart two.
THEOREM TablesAgree == Spec => []DriftIsBounded
  <1>1. Init => DriftInv
    <2> SUFFICES ASSUME Init PROVE DriftInv
      OBVIOUS
    <2>1. Linked = {} /\ Own = {}
      BY DEF Init, Linked, Own, Rows
    <2>2. Drift = {}
      BY <2>1 DEF Drift, SymDiff
    <2>3. IsFiniteSet({}) /\ Cardinality({}) = 0
      BY FS_EmptySet
    <2>4. faults = 0
      BY DEF Init
    <2>5. Cardinality(Drift) <= 2 * faults
      BY <2>2, <2>3, <2>4
    <2> QED BY <2>2, <2>3, <2>4, <2>5 DEF DriftInv
  <1>2. EvolverInv /\ DriftInv => DriftIsBounded
    <2> SUFFICES ASSUME EvolverInv, DriftInv PROVE DriftIsBounded
      OBVIOUS
    <2>1. \A r \in Retirers : HeadOf(r) \subseteq InFlight
      <3> SUFFICES ASSUME NEW r \in Retirers, todo[r] # <<>>, rstep[r] # "status"
                   PROVE  todo[r][1].id \in InFlight
        BY DEF HeadOf
      <3>1. 1 \in DOMAIN todo[r]
        BY DEF EvolverInv, ListsInv
      <3>2. todo[r][1].id \in Listed(r)
        BY <3>1 DEF Listed
      <3> QED BY <3>2 DEF InFlight, Retirers
    <2>2. Excused \subseteq InFlight
      <3>1. HeadOf("cycle") \subseteq InFlight /\ HeadOf("ticker") \subseteq InFlight
        BY <2>1 DEF Retirers
      <3>2. pc \in {"promoted", "link"} => cycle.id \in InFlight
        BY DEF InFlight
      <3> QED BY <3>1, <3>2 DEF Excused
    <2>3. PICK S : S = SymDiff(Own, Linked \ foreign) \ InFlight
      OBVIOUS
    <2>4. PICK D : D = Drift
      OBVIOUS
    <2>5. S \subseteq D
      BY <2>2, <2>3, <2>4 DEF Drift
    <2>6. IsFiniteSet(D) /\ Cardinality(D) <= 2 * faults /\ faults \in Nat
      BY <2>4 DEF DriftInv
    <2>7. IsFiniteSet(S) /\ Cardinality(S) <= Cardinality(D)
      BY <2>5, <2>6, FS_Subset
    <2>8. Cardinality(S) \in Nat /\ Cardinality(D) \in Nat
      BY <2>6, <2>7, FS_CardinalityType
    <2>9. Cardinality(S) <= 2 * faults
      BY <2>6, <2>7, <2>8
    <2> QED BY <2>3, <2>9 DEF DriftIsBounded
  <1> QED BY <1>1, <1>2, DriftInvStep, EvolverInvariant, PTL DEF Spec

=============================================================================
