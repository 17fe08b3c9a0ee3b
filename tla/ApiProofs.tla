----------------------------- MODULE ApiProofs -----------------------------
(***************************************************************************)
(* What callers can do through the API, for any number of them: that a     *)
(* revocation stands against requests already under way, how many requests *)
(* a token bucket lets through, what an upvote counter shows, and how      *)
(* often the audit prunes the map pool that is voted on; and that the maps *)
(* which reach that pool can be played.                                    *)
(***************************************************************************)
EXTENDS Accounts, Limits, MapPool, MapForge, FiniteSetTheorems, WellFoundedInduction, TLAPS

-----------------------------------------------------------------------------
(***************************************************************************)
(* A revocation stands, for any number of bots, API requests and           *)
(* credentials.  What a stale request may still write was read before the  *)
(* revocation; the invariant therefore says what the requests in flight    *)
(* and the health checker hold, and that no credential is used twice.      *)
(***************************************************************************)

BotStatus == {"none", "active", "inactive", "retired"}
BotRow == [status : BotStatus, fails : Nat, secret : Nat, debug : BOOLEAN]
Seen == [status : {"active", "inactive"}, fails : Nat]
RegisterRequest == [kind : {"register"}, name : Names, step : {"probe", "insert"}]
RotateRequest == [kind : {"rotate"}, name : Names, retire : BOOLEAN]
PatchRequest == [kind : {"patch"}, name : Names, debug : BOOLEAN]
Probe == [name : Names, healthy : BOOLEAN, seen : Seen]

\* The bots table, the handlers' locals and the health checker's locals keep
\* their domains.
AccountsTypeOK ==
  /\ row \in [Names -> BotRow]
  /\ req \in [Clients -> {Idle} \union RegisterRequest \union RotateRequest \union PatchRequest]
  /\ issued \in Nat /\ mishaps \in Nat
  /\ told \subseteq Names \X Nat
  /\ revoked \subseteq Names /\ revived \subseteq Names
  /\ DOMAIN snap \subseteq Names /\ \A n \in DOMAIN snap : snap[n] \in Seen
  /\ probe \in {NoProbe} \union Probe

\* No credential is stored or delivered before it is generated, so a new one is
\* in nobody's hands and in no other row.
SecretsAreIssued ==
  /\ \A n \in Names : row[n].secret <= issued
  /\ \A n \in Names, s \in Nat : <<n, s>> \in told => s <= issued

\* The inductive invariant of the accounts.
AccountsInv == AccountsTypeOK /\ SecretsAreIssued /\ RevocationStands

\* An empty bots table satisfies the invariant.
LEMMA AccountsBegin == AccountsInit => AccountsInv
BY DEF AccountsInit, AccountsInv, AccountsTypeOK, SecretsAreIssued, RevocationStands,
       BotRow, BotStatus, NoRow

\* A row with a new credential and a new status is a row.
LEMMA RowUpdate ==
  ASSUME NEW r \in BotRow, NEW x \in Nat, NEW st \in BotStatus
  PROVE  [r EXCEPT !.secret = x, !.status = st] \in BotRow
BY DEF BotRow

\* The statements that only read, and the lost requests, preserve it.
LEMMA ReadingSteps ==
  ASSUME AccountsInv,
         \/ \E c \in Clients :
              \/ \E n \in Names : RegisterSelect(c, n)
              \/ ValidateBotEndpoint(c)
              \/ \E n \in Names, s \in Nat, retire \in BOOLEAN : RotateSelect(c, n, s, retire)
              \/ \E n \in Names, s \in Nat, debug \in BOOLEAN : PatchSelect(c, n, s, debug)
              \/ AbandonRequest(c)
         \/ \E n \in Names : EndpointFlips(n)
  PROVE  AccountsInv'
<1> USE DEF AccountsInv
<1>1. /\ UNCHANGED <<row, issued, told, revoked, revived, snap, probe>>
      /\ mishaps' \in {mishaps, mishaps + 1}
  BY DEF RegisterSelect, ValidateBotEndpoint, RotateSelect, PatchSelect, AbandonRequest,
         EndpointFlips, Mishap, registry, checker
<1>2. (SecretsAreIssued /\ RevocationStands)'
  BY <1>1 DEF SecretsAreIssued, RevocationStands
<1> DEFINE Requests == {Idle} \union RegisterRequest \union RotateRequest \union PatchRequest
<1>3. req' \in [Clients -> Requests]
  <2> USE DEF AccountsTypeOK
  <2>1. ASSUME NEW c \in Clients, NEW n \in Names, RegisterSelect(c, n)
        PROVE  req' \in [Clients -> Requests]
    BY <2>1 DEF RegisterSelect, Begin, RegisterRequest
  <2>2. ASSUME NEW c \in Clients, ValidateBotEndpoint(c)
        PROVE  req' \in [Clients -> Requests]
    <3>1. req[c] \in RegisterRequest
      BY <2>2 DEF ValidateBotEndpoint, Idle, RegisterRequest, RotateRequest, PatchRequest
    <3>2. [req[c] EXCEPT !.step = "insert"] \in RegisterRequest
      BY <3>1 DEF RegisterRequest
    <3>3. \/ req' = [req EXCEPT ![c] = [req[c] EXCEPT !.step = "insert"]]
          \/ req' = [req EXCEPT ![c] = Idle]
      BY <2>2 DEF ValidateBotEndpoint, Finish
    <3> QED BY <3>2, <3>3
  <2>3. ASSUME NEW c \in Clients, NEW n \in Names, NEW s \in Nat, NEW f \in BOOLEAN,
               RotateSelect(c, n, s, f) \/ PatchSelect(c, n, s, f)
        PROVE  req' \in [Clients -> Requests]
    BY <2>3 DEF RotateSelect, PatchSelect, Begin, RotateRequest, PatchRequest
  <2>4. ASSUME NEW c \in Clients, AbandonRequest(c) PROVE req' \in [Clients -> Requests]
    BY <2>4 DEF AbandonRequest, Finish
  <2>5. ASSUME NEW n \in Names, EndpointFlips(n) PROVE req' \in [Clients -> Requests]
    BY <2>5 DEF EndpointFlips
  <2> HIDE DEF Requests
  <2> QED BY <2>1, <2>2, <2>3, <2>4, <2>5
<1>4. AccountsTypeOK'
  BY <1>1, <1>3 DEF AccountsTypeOK
<1> QED BY <1>2, <1>4

\* A registration writes only a name without row, and tells a fresh credential.
LEMMA RegistrationStep ==
  ASSUME AccountsInv, NEW c \in Clients, RegisterInsert(c)
  PROVE  AccountsInv'
<1> USE DEF AccountsInv
<1> DEFINE n == req[c].name
           new == [status |-> "active", fails |-> 0, secret |-> issued', debug |-> FALSE]
<1>1. n \in Names
  BY DEF RegisterInsert, AccountsTypeOK, Idle, RegisterRequest, RotateRequest, PatchRequest
<1>2. /\ issued' = issued + 1 /\ issued \in Nat
      /\ req' = [req EXCEPT ![c] = Idle]
      /\ UNCHANGED <<revoked, revived, snap, probe>>
  BY DEF RegisterInsert, GenerateSecret, Finish, checker, AccountsTypeOK
<1>3. \/ UNCHANGED <<row, told, mishaps>>
      \/ /\ row[n].status = "none"
         /\ row' = [row EXCEPT ![n] = new]
         /\ told' \in {told, told \cup {<<n, issued'>>}}
         /\ mishaps' \in {mishaps, mishaps + 1}
  BY DEF RegisterInsert, InsertBot, Deliver, Mishap
<1>4. row' \in [Names -> BotRow]
  <2>1. new \in BotRow
    BY <1>2 DEF BotRow, BotStatus
  <2> HIDE DEF new, n
  <2> QED BY <1>1, <1>3, <2>1 DEF AccountsTypeOK
<1>5. told' \subseteq Names \X Nat
  BY <1>1, <1>2, <1>3 DEF AccountsTypeOK
<1>6. AccountsTypeOK'
  BY <1>2, <1>3, <1>4, <1>5 DEF AccountsTypeOK
<1>7. \A m \in Names : row[m].secret \in Nat /\ row[m].secret <= issued
  BY DEF AccountsTypeOK, BotRow, SecretsAreIssued
<1>8. SecretsAreIssued'
  <2>1. \A m \in Names : row'[m].secret <= issued'
    BY <1>1, <1>2, <1>3, <1>7 DEF AccountsTypeOK
  <2>2. \A m \in Names, s \in Nat : <<m, s>> \in told' => s <= issued'
    BY <1>2, <1>3 DEF SecretsAreIssued
  <2> QED BY <2>1, <2>2 DEF SecretsAreIssued
<1>9. RevocationStands'
  <2> SUFFICES ASSUME NEW m \in revoked \ revived
               PROVE  row'[m].status = "retired" /\ <<m, row'[m].secret>> \notin told'
    BY <1>2 DEF RevocationStands
  <2>1. m \in Names /\ row[m].status = "retired" /\ <<m, row[m].secret>> \notin told
    BY DEF RevocationStands, AccountsTypeOK
  <2>2. row'[m] = row[m]
    BY <1>1, <1>3, <2>1 DEF AccountsTypeOK
  <2>3. row[m].secret # issued'
    BY <1>2, <1>7, <2>1
  <2> QED BY <1>3, <2>1, <2>2, <2>3
<1> QED BY <1>6, <1>8, <1>9

\* A rotation that passed its checks before the revocation writes nothing after
\* it: the UPDATE looks at the status again.
LEMMA RotationStep ==
  ASSUME AccountsInv, NEW c \in Clients, RotateUpdate(c)
  PROVE  AccountsInv'
<1> USE DEF AccountsInv
<1> DEFINE n == req[c].name
<1>1. n \in Names /\ req[c].retire \in BOOLEAN
  BY DEF RotateUpdate, AccountsTypeOK, Idle, RegisterRequest, RotateRequest, PatchRequest
<1>2. /\ issued' = issued + 1 /\ issued \in Nat
      /\ req' = [req EXCEPT ![c] = Idle]
      /\ UNCHANGED <<revoked, revived, snap, probe>>
  BY DEF RotateUpdate, GenerateSecret, Finish, checker, registry, AccountsTypeOK
<1>3. \/ UNCHANGED <<row, told, mishaps>>
      \/ /\ row[n].status # "retired"
         /\ \E st \in {row[n].status, "retired"} :
              row' = [row EXCEPT ![n] = [row[n] EXCEPT !.secret = issued', !.status = st]]
         /\ told' \in {told, told \cup {<<n, issued'>>}}
         /\ mishaps' \in {mishaps, mishaps + 1}
  BY DEF RotateUpdate, RotateTarget, Deliver, Mishap, AccountsTypeOK
<1>4. row' \in [Names -> BotRow]
  <2>1. \A st \in {row[n].status, "retired"} :
          [row[n] EXCEPT !.secret = issued', !.status = st] \in BotRow
    <3>1. row[n] \in BotRow /\ row[n].status \in BotStatus /\ issued' \in Nat
      BY <1>1, <1>2 DEF AccountsTypeOK, BotRow
    <3> QED BY <3>1, RowUpdate DEF BotStatus
  <2> HIDE DEF n
  <2> QED BY <1>1, <1>3, <2>1 DEF AccountsTypeOK
<1>5. told' \subseteq Names \X Nat
  BY <1>1, <1>2, <1>3 DEF AccountsTypeOK
<1>6. AccountsTypeOK'
  BY <1>2, <1>3, <1>4, <1>5 DEF AccountsTypeOK
<1>7. \A m \in Names : row[m].secret \in Nat /\ row[m].secret <= issued
  BY DEF AccountsTypeOK, BotRow, SecretsAreIssued
<1>8. \A m \in Names : m = n => row'[m] = row[m] \/ row'[m].secret = issued'
  BY <1>1, <1>3 DEF AccountsTypeOK, BotRow
<1>9. \A m \in Names : m # n => row'[m] = row[m]
  BY <1>3 DEF AccountsTypeOK
<1>10. SecretsAreIssued'
  <2>1. \A m \in Names : row'[m].secret <= issued'
    BY <1>2, <1>7, <1>8, <1>9
  <2>2. \A m \in Names, s \in Nat : <<m, s>> \in told' => s <= issued'
    BY <1>2, <1>3 DEF SecretsAreIssued
  <2> QED BY <2>1, <2>2 DEF SecretsAreIssued
<1>11. RevocationStands'
  <2> SUFFICES ASSUME NEW m \in revoked \ revived
               PROVE  row'[m].status = "retired" /\ <<m, row'[m].secret>> \notin told'
    BY <1>2 DEF RevocationStands
  <2>1. m \in Names /\ row[m].status = "retired" /\ <<m, row[m].secret>> \notin told
    BY DEF RevocationStands, AccountsTypeOK
  <2>2. row'[m] = row[m]
    BY <1>3, <1>9, <2>1
  <2>3. row[m].secret # issued'
    BY <1>2, <1>7, <2>1
  <2> QED BY <1>3, <2>1, <2>2, <2>3
<1> QED BY <1>6, <1>10, <1>11

\* A revocation retires the bot under a credential that is in no answer.
LEMMA RevokingStep ==
  ASSUME AccountsInv, NEW c \in Clients, NEW n \in Names, NEW s \in Nat, RevokeKey(c, n, s)
  PROVE  AccountsInv'
<1> USE DEF AccountsInv
<1> DEFINE new == [row[n] EXCEPT !.secret = issued', !.status = "retired"]
<1>1. /\ issued' = issued + 1 /\ issued \in Nat
      /\ revoked' = revoked \cup {n} /\ revived' = revived \ {n}
      /\ UNCHANGED <<req, told, snap, probe, mishaps>>
  BY DEF RevokeKey, GenerateSecret, checker, AccountsTypeOK
<1>2. row' = [row EXCEPT ![n] = new]
  BY DEF RevokeKey, AccountsTypeOK
<1>3. new \in BotRow /\ new.secret = issued' /\ new.status = "retired"
  <2>1. row[n] \in BotRow /\ issued' \in Nat
    BY <1>1 DEF AccountsTypeOK
  <2>2. new.secret = issued' /\ new.status = "retired"
    BY <2>1 DEF BotRow
  <2>3. new \in BotRow
    BY <2>1 DEF BotRow, BotStatus
  <2> QED BY <2>2, <2>3
<1> HIDE DEF new
<1>4. /\ row' \in [Names -> BotRow] /\ row'[n] = new
      /\ \A m \in Names : m # n => row'[m] = row[m]
  BY <1>2, <1>3 DEF AccountsTypeOK
<1>5. AccountsTypeOK'
  BY <1>1, <1>4 DEF AccountsTypeOK
<1>6. \A m \in Names : row[m].secret \in Nat /\ row[m].secret <= issued
  BY DEF AccountsTypeOK, BotRow, SecretsAreIssued
<1>7. SecretsAreIssued'
  BY <1>1, <1>3, <1>4, <1>6 DEF SecretsAreIssued
<1>8. <<n, issued'>> \notin told
  BY <1>1 DEF SecretsAreIssued
<1>9. RevocationStands'
  BY <1>1, <1>3, <1>4, <1>8 DEF RevocationStands, AccountsTypeOK
<1> QED BY <1>5, <1>7, <1>9

\* A patch writes the debug flag alone, whatever the status.
LEMMA PatchStep ==
  ASSUME AccountsInv, NEW c \in Clients, PatchUpdate(c)
  PROVE  AccountsInv'
<1> USE DEF AccountsInv
<1> DEFINE n == req[c].name
           new == [row[n] EXCEPT !.debug = req[c].debug]
<1>1. n \in Names /\ req[c].debug \in BOOLEAN
  BY DEF PatchUpdate, AccountsTypeOK, Idle, RegisterRequest, RotateRequest, PatchRequest
<1>2. /\ req' = [req EXCEPT ![c] = Idle]
      /\ UNCHANGED <<issued, told, revoked, revived, snap, probe, mishaps>>
  BY DEF PatchUpdate, Finish, checker, registry
<1>3. row' = [row EXCEPT ![n] = new]
  BY <1>1 DEF PatchUpdate, AccountsTypeOK
<1>4. new \in BotRow /\ new.secret = row[n].secret /\ new.status = row[n].status
  BY <1>1 DEF AccountsTypeOK, BotRow
<1> HIDE DEF new, n
<1>5. /\ row' \in [Names -> BotRow]
      /\ \A m \in Names : row'[m].secret = row[m].secret /\ row'[m].status = row[m].status
  BY <1>1, <1>3, <1>4 DEF AccountsTypeOK
<1>6. AccountsTypeOK'
  BY <1>2, <1>5 DEF AccountsTypeOK
<1>7. (SecretsAreIssued /\ RevocationStands)'
  BY <1>2, <1>5 DEF SecretsAreIssued, RevocationStands, AccountsTypeOK
<1> QED BY <1>6, <1>7

\* The health checker writes rows it read earlier; a write to a retired row is
\* what puts its name among the revived.
LEMMA CheckerSteps ==
  ASSUME AccountsInv, HealthSelect \/ (\E n \in Names : HealthProbe(n)) \/ HealthWrite
  PROVE  AccountsInv'
<1> USE DEF AccountsInv
<1>1. CASE HealthSelect
  <2>1. /\ UNCHANGED <<row, req, issued, told, revoked, revived, probe, mishaps>>
        /\ DOMAIN snap' \subseteq Names
    BY <1>1 DEF HealthSelect, registry
  <2>2. \A m \in DOMAIN snap' : snap'[m] \in Seen
    BY <1>1 DEF HealthSelect, AccountsTypeOK, BotRow, Seen
  <2> QED BY <2>1, <2>2 DEF AccountsTypeOK, SecretsAreIssued, RevocationStands
<1>2. ASSUME NEW n \in Names, HealthProbe(n) PROVE AccountsInv'
  <2>1. /\ UNCHANGED <<row, req, issued, told, revoked, revived, mishaps>>
        /\ DOMAIN snap' \subseteq Names /\ \A m \in DOMAIN snap' : snap'[m] \in Seen
    BY <1>2 DEF HealthProbe, registry, AccountsTypeOK
  <2>2. probe' \in Probe
    BY <1>2 DEF HealthProbe, AccountsTypeOK, Probe
  <2> QED BY <2>1, <2>2 DEF AccountsTypeOK, SecretsAreIssued, RevocationStands
<1>3. CASE HealthWrite
  <2> DEFINE m == probe.name
             v == HealthVerdict(probe.seen, probe.healthy)
             new == [row[m] EXCEPT !.status = v.status, !.fails = v.fails]
  <2>1. /\ m \in Names /\ probe.seen \in Seen /\ probe.healthy \in BOOLEAN
        /\ UNCHANGED <<req, issued, told, revoked, snap>> /\ probe' = NoProbe
    BY <1>3 DEF HealthWrite, AccountsTypeOK, Probe
  <2>2. v \in Seen
    BY <2>1, AccountsConstants DEF HealthVerdict, Seen
  <2>3. \/ UNCHANGED <<row, revived>> /\ mishaps' \in {mishaps, mishaps + 1}
        \/ /\ row' = [row EXCEPT ![m] = new] /\ mishaps' = mishaps
           /\ revived' = IF row[m].status = "retired" THEN revived \cup {m} ELSE revived
    BY <1>3, <2>1 DEF HealthWrite, Mishap, AccountsTypeOK
  <2>4. new \in BotRow /\ new.secret = row[m].secret
    <3> HIDE DEF v
    <3> QED BY <2>1, <2>2 DEF AccountsTypeOK, BotRow, BotStatus, Seen
  <2> HIDE DEF new, v, m
  <2>5. /\ row' \in [Names -> BotRow]
        /\ \A k \in Names : row'[k].secret = row[k].secret
        /\ \A k \in Names : k # m => row'[k] = row[k]
    BY <2>1, <2>3, <2>4 DEF AccountsTypeOK
  <2>6. AccountsTypeOK'
    BY <2>1, <2>3, <2>5 DEF AccountsTypeOK
  <2>7. SecretsAreIssued'
    BY <2>1, <2>5 DEF SecretsAreIssued
  <2>8. RevocationStands'
    BY <2>1, <2>3, <2>5 DEF RevocationStands, AccountsTypeOK
  <2> QED BY <2>6, <2>7, <2>8
<1> QED BY <1>1, <1>2, <1>3

\* Every step preserves the invariant.
LEMMA AccountsStep == AccountsInv /\ [AccountsNext]_accountVars => AccountsInv'
<1> SUFFICES ASSUME AccountsInv, [AccountsNext]_accountVars PROVE AccountsInv'
  OBVIOUS
<1>1. CASE UNCHANGED accountVars
  BY <1>1 DEF accountVars, AccountsInv, AccountsTypeOK, SecretsAreIssued, RevocationStands
<1>2. 1..issued \subseteq Nat
  BY DEF AccountsInv, AccountsTypeOK
<1>3. CASE AccountsNext
  BY <1>2, <1>3, ReadingSteps, RegistrationStep, RotationStep, RevokingStep, PatchStep,
     CheckerSteps DEF AccountsNext
<1> QED BY <1>1, <1>3

\* A revocation stands for any number of bots, requests and credentials, through
\* every rotation and patch that had passed its checks before it; only a health
\* probe begun before it can bring the bot back (handleRevokeKey, handleRotateKey,
\* handleBotPatch, tickHealthChecker).
THEOREM RevocationsStand == AccountsSpec => []RevocationStands
<1>1. AccountsInv => RevocationStands BY DEF AccountsInv
<1> QED BY <1>1, AccountsBegin, AccountsStep, PTL DEF AccountsSpec

-----------------------------------------------------------------------------
(***************************************************************************)
(* Rate limits.  Cost, Burst and the ages are arbitrary.                   *)
(***************************************************************************)

\* The tokens a request would find now; a missing bucket is a full one.
Available ==
  IF bucket = <<>> THEN Burst
  ELSE IF bucket[1].tokens + clock - bucket[1].last > Burst THEN Burst
  ELSE bucket[1].tokens + clock - bucket[1].last

\* Clock, bucket and history keep their domains; the history never falls, and is
\* flat from the present on.
LimitsTypeOK ==
  /\ clock \in 0..MaxTime
  /\ bucket # <<>> => bucket[1].tokens \in 0..Burst /\ bucket[1].last \in 0..clock
  /\ admitted \in [0..MaxTime -> Nat]
  /\ \A t \in 0..MaxTime : t >= clock => admitted[t] = admitted[clock]

\* What was admitted since any tick, together with what is still available, is
\* paid for by one burst and the refill since then.
Paid ==
  \A from \in 0..clock : Cost * Admitted(from, clock) + Available <= Burst + clock - from

\* The inductive invariant of a bucket.
LimitsInv == LimitsTypeOK /\ Paid /\ RateIsBounded

\* A fresh limiter has admitted nothing.
LEMMA LimitsBegin == LimitsInit => LimitsInv
<1> SUFFICES ASSUME LimitsInit PROVE LimitsInv
  OBVIOUS
<1>0. MaxTime \in Nat /\ Burst \in Nat /\ Cost \in Nat
  BY LimitsConstants
<1>1. LimitsTypeOK
  BY <1>0 DEF LimitsInit, LimitsTypeOK
<1>2. \A t \in 0..MaxTime : admitted[t] = 0
  BY DEF LimitsInit
<1>3. Paid
  BY <1>0, <1>2 DEF LimitsInit, Paid, Admitted, Available
<1>4. RateIsBounded
  BY <1>0, <1>2 DEF LimitsInit, RateIsBounded, Admitted
<1> QED BY <1>1, <1>3, <1>4 DEF LimitsInv

\* A tick adds at most one token and makes every window one tick longer.
LEMMA TickStep == LimitsInv /\ Tick => LimitsInv'
<1> SUFFICES ASSUME LimitsInv, Tick PROVE LimitsInv'
  OBVIOUS
<1>0. MaxTime \in Nat /\ Burst \in Nat /\ Cost \in Nat
  BY LimitsConstants
<1>1. /\ clock \in 0..MaxTime /\ clock < MaxTime /\ clock' = clock + 1
      /\ bucket' = bucket /\ admitted' = admitted
      /\ admitted \in [0..MaxTime -> Nat]
      /\ \A t \in 0..MaxTime : t >= clock => admitted[t] = admitted[clock]
  BY <1>0 DEF Tick, LimitsInv, LimitsTypeOK
<1>2. LimitsTypeOK'
  <2>1. \A t \in 0..MaxTime : t >= clock' => admitted'[t] = admitted'[clock']
    BY <1>0, <1>1
  <2> QED BY <1>0, <1>1, <2>1 DEF LimitsInv, LimitsTypeOK
<1>3. Available' <= Available + 1 /\ Available' <= Burst /\ Available \in Nat /\ Available' \in Nat
  <2>1. CASE bucket = <<>>
    BY <1>0, <1>1, <2>1 DEF Available
  <2>2. CASE bucket # <<>>
    <3>1. bucket[1].tokens \in 0..Burst /\ bucket[1].last \in 0..clock
      BY <2>2 DEF LimitsInv, LimitsTypeOK
    <3>2. PICK tokens \in 0..Burst, last \in 0..clock : tokens = bucket[1].tokens /\ last = bucket[1].last
      BY <3>1
    <3>3. PICK now \in Nat : now = clock
      BY <1>0, <1>1
    <3>4. PICK x \in Nat : x = tokens + now - last
      BY <1>0, <3>3
    <3>5. tokens + (now + 1) - last = x + 1
      BY <1>0, <3>3, <3>4
    <3>6. Available = IF x > Burst THEN Burst ELSE x
      BY <2>2, <3>2, <3>3, <3>4 DEF Available
    <3>7. Available' = IF x + 1 > Burst THEN Burst ELSE x + 1
      <4>1. clock' = now + 1 /\ bucket' = bucket
        BY <1>1, <3>3
      <4> QED BY <2>2, <3>2, <3>5, <4>1 DEF Available
    <3> QED BY <1>0, <3>6, <3>7
  <2> QED BY <2>1, <2>2
<1>4. Paid'
  <2> SUFFICES ASSUME NEW from \in 0..clock'
               PROVE  Cost * Admitted(from, clock)' + Available' <= Burst + clock' - from
    BY <1>1 DEF Paid, Admitted
  <2>1. CASE from \in 0..clock
    <3>1. Admitted(from, clock)' = Admitted(from, clock)
      BY <1>0, <1>1, <2>1 DEF Admitted
    <3>2. Admitted(from, clock) \in Int
      BY <1>0, <1>1, <2>1 DEF Admitted
    <3>3. Cost * Admitted(from, clock) + Available <= Burst + clock - from
      BY <2>1 DEF LimitsInv, Paid
    <3>4. Cost * Admitted(from, clock) \in Int
      BY <1>0, <3>2
    <3> QED BY <1>0, <1>1, <1>3, <2>1, <3>1, <3>3, <3>4
  <2>2. CASE from = clock + 1
    <3>1. Admitted(from, clock)' = 0
      BY <1>0, <1>1, <2>2 DEF Admitted
    <3> QED BY <1>0, <1>1, <1>3, <2>2, <3>1
  <2> QED BY <1>0, <1>1, <2>1, <2>2
<1>5. RateIsBounded'
  <2> SUFFICES ASSUME NEW from \in 0..clock', NEW to \in 0..clock', from <= to
               PROVE  Cost * Admitted(from, to) <= Burst + to - from
    BY <1>1 DEF RateIsBounded, Admitted
  <2>1. CASE to \in 0..clock
    BY <1>0, <1>1, <2>1 DEF LimitsInv, RateIsBounded
  <2>2. CASE to = clock'
    <3>1. Admitted(from, to) = Admitted(from, clock)' /\ Admitted(from, to) \in Int
      BY <1>0, <1>1, <2>2 DEF Admitted
    <3>2. Cost * Admitted(from, to) \in Int
      BY <1>0, <3>1
    <3>3. Cost * Admitted(from, to) + Available' <= Burst + clock' - from
      BY <1>4, <3>1 DEF Paid
    <3> QED BY <1>0, <1>1, <1>3, <2>2, <3>2, <3>3
  <2> QED BY <1>0, <1>1, <2>1, <2>2
<1> QED BY <1>2, <1>4, <1>5 DEF LimitsInv

\* An admitted request takes its cost out of what is available, a refused one
\* changes nothing that counts.
LEMMA AllowStep == LimitsInv /\ AllowN => LimitsInv'
<1> SUFFICES ASSUME LimitsInv, AllowN PROVE LimitsInv'
  OBVIOUS
<1>0. MaxTime \in Nat /\ Burst \in Nat /\ Burst >= 1 /\ Cost \in Nat /\ Cost >= 1
  BY LimitsConstants
<1>1. /\ clock \in 0..MaxTime /\ clock' = clock
      /\ admitted \in [0..MaxTime -> Nat]
      /\ \A t \in 0..MaxTime : t >= clock => admitted[t] = admitted[clock]
      /\ bucket # <<>> => bucket[1].tokens \in 0..Burst /\ bucket[1].last \in 0..clock
  BY DEF AllowN, LimitsInv, LimitsTypeOK
<1> DEFINE b == Refilled(IF bucket = <<>> THEN NewBucket ELSE bucket[1])
           ok == b.tokens >= Cost
<1>2. b = [tokens |-> Available, last |-> clock] /\ Available \in 0..Burst
  <2>1. CASE bucket = <<>>
    BY <1>0, <1>1, <2>1 DEF Refilled, NewBucket, Available
  <2>2. CASE bucket # <<>>
    <3>1. PICK tokens \in 0..Burst, last \in 0..clock : tokens = bucket[1].tokens /\ last = bucket[1].last
      BY <1>1, <2>2
    <3>2. PICK x \in Nat : x = tokens + clock - last
      BY <1>0, <1>1
    <3>3. Available = IF x > Burst THEN Burst ELSE x
      BY <2>2, <3>1, <3>2 DEF Available
    <3>4. b = [tokens |-> IF x > Burst THEN Burst ELSE x, last |-> clock]
      BY <2>2, <3>1, <3>2 DEF Refilled
    <3> HIDE DEF b
    <3> QED BY <1>0, <3>3, <3>4
  <2> QED BY <2>1, <2>2
<1>3. /\ bucket' = <<IF ok THEN [b EXCEPT !.tokens = @ - Cost] ELSE b>>
      /\ admitted' = IF ok THEN [t \in 0..MaxTime |-> IF t < clock THEN admitted[t] ELSE admitted[t] + 1]
                           ELSE admitted
  BY DEF AllowN
<1>4. ok <=> Available >= Cost
  BY <1>2
<1>5. bucket' # <<>> /\ bucket'[1] = [tokens |-> IF ok THEN Available - Cost ELSE Available, last |-> clock]
  BY <1>2, <1>3
<1> HIDE DEF b, ok
<1>6. bucket'[1].tokens = (IF ok THEN Available - Cost ELSE Available) /\ bucket'[1].last = clock
  BY <1>5
<1>7. Available' = IF ok THEN Available - Cost ELSE Available
  BY <1>0, <1>1, <1>2, <1>4, <1>5, <1>6 DEF Available
<1>8. /\ admitted' \in [0..MaxTime -> Nat]
      /\ \A t \in 0..MaxTime : admitted'[t] = IF ok /\ t >= clock THEN admitted[t] + 1 ELSE admitted[t]
  BY <1>0, <1>1, <1>3
<1>9. LimitsTypeOK'
  <2>1. bucket'[1].tokens \in 0..Burst /\ bucket'[1].last \in 0..clock'
    BY <1>0, <1>1, <1>2, <1>4, <1>6
  <2>2. \A t \in 0..MaxTime : t >= clock' => admitted'[t] = admitted'[clock']
    BY <1>0, <1>1, <1>8
  <2> QED BY <1>1, <1>8, <2>1, <2>2 DEF LimitsTypeOK
<1>10. \A from \in 0..clock, to \in 0..clock :
         /\ Admitted(from, to) \in Int
         /\ from <= to =>
              Admitted(from, to)' = IF ok /\ to = clock THEN Admitted(from, to) + 1 ELSE Admitted(from, to)
  BY <1>0, <1>1, <1>8, SMTT(30) DEF Admitted
<1>11. \A from \in 0..clock :
         Cost * Admitted(from, clock)' + Available' = Cost * Admitted(from, clock) + Available
  <2> SUFFICES ASSUME NEW from \in 0..clock
               PROVE  Cost * Admitted(from, clock)' + Available' = Cost * Admitted(from, clock) + Available
    OBVIOUS
  <2>1. PICK a \in Int : a = Admitted(from, clock)
    BY <1>0, <1>1, <1>10
  <2>2. Admitted(from, clock)' = IF ok THEN a + 1 ELSE a
    BY <1>1, <1>10, <2>1
  <2>3. Cost * (a + 1) = Cost * a + Cost
    BY <1>0
  <2>4. Cost * a \in Int
    BY <1>0
  <2>5. Available \in Int
    BY <1>0, <1>2
  <2> QED BY <1>0, <1>7, <2>1, <2>2, <2>3, <2>4, <2>5
<1>12. Paid'
  BY <1>1, <1>11 DEF Paid, LimitsInv
<1>13. RateIsBounded'
  <2> SUFFICES ASSUME NEW from \in 0..clock, NEW to \in 0..clock, from <= to
               PROVE  Cost * Admitted(from, to)' <= Burst + to - from
    BY <1>1 DEF RateIsBounded
  <2>1. CASE to # clock
    BY <1>10, <2>1 DEF LimitsInv, RateIsBounded
  <2>2. CASE to = clock
    <3>1. Cost * Admitted(from, clock) + Available <= Burst + clock - from
      BY DEF LimitsInv, Paid
    <3>2. PICK c \in Int : c = Cost * Admitted(from, clock)'
      <4>1. Admitted(from, clock)' \in Int
        BY <1>1, <1>10, <2>2
      <4> QED BY <1>0, <4>1
    <3>3. c + Available' <= Burst + clock - from
      BY <1>11, <3>1, <3>2
    <3>4. Available' \in Nat
      BY <1>0, <1>2, <1>4, <1>7
    <3> QED BY <1>0, <1>1, <2>2, <3>2, <3>3, <3>4
  <2> QED BY <2>1, <2>2
<1> QED BY <1>9, <1>12, <1>13 DEF LimitsInv

\* A bucket old enough to be dropped was full.
LEMMA CleanupStep == LimitsInv /\ Cleanup => LimitsInv'
<1> SUFFICES ASSUME LimitsInv, Cleanup PROVE LimitsInv'
  OBVIOUS
<1>0. Burst \in Nat /\ MaxAge \in Nat /\ MaxAge >= Burst /\ MaxTime \in Nat
  BY LimitsConstants
<1>1. /\ bucket # <<>> /\ bucket[1].last < clock - MaxAge
      /\ bucket' = <<>> /\ clock' = clock /\ admitted' = admitted
      /\ clock \in 0..MaxTime
      /\ bucket[1].tokens \in 0..Burst /\ bucket[1].last \in 0..clock
  BY DEF Cleanup, LimitsInv, LimitsTypeOK
<1>2. Available' = Available
  BY <1>0, <1>1 DEF Available
<1>3. LimitsTypeOK'
  BY <1>1 DEF LimitsInv, LimitsTypeOK
<1>4. (Paid /\ RateIsBounded)'
  BY <1>1, <1>2 DEF LimitsInv, Paid, RateIsBounded, Admitted
<1> QED BY <1>3, <1>4 DEF LimitsInv

\* Over every window of time a key gets at most one burst and the refill of the
\* window through, for every burst, cost and rate, also when Cleanup drops its
\* bucket in between.  That the bucket is at least as old as its refill takes
\* (MaxAge >= Burst) is what main.go's cleanup age guarantees.
THEOREM RatesAreBounded == LimitsSpec => []RateIsBounded
<1>1. LimitsInv /\ [LimitsNext]_limitVars => LimitsInv'
  <2>1. LimitsInv /\ UNCHANGED limitVars => LimitsInv'
    BY DEF limitVars, LimitsInv, LimitsTypeOK, Paid, RateIsBounded, Admitted, Available
  <2> QED BY <2>1, TickStep, AllowStep, CleanupStep DEF LimitsNext
<1>2. LimitsInv => RateIsBounded
  BY DEF LimitsInv
<1> QED BY <1>1, <1>2, LimitsBegin, PTL DEF LimitsSpec

-----------------------------------------------------------------------------
(***************************************************************************)
(* Upvotes.  Any number of viewers, feedbacks and lost counter updates.    *)
(***************************************************************************)

\* The upvotes of f between their two statements.
InFlight(f, requests) == {u \in requests : u[1] = f}

\* The tables keep their domains, and only finitely many upvotes were made.
CommunityTypeOK ==
  /\ feedback \in [Feedbacks -> Nat \union {NoFeedback}]
  /\ voted \in [Feedbacks -> SUBSET Readers]
  /\ \A f \in Feedbacks : IsFiniteSet(voted[f])
  /\ upvoting \subseteq Feedbacks \X Readers /\ IsFiniteSet(upvoting)
  /\ upvoteFaults \in Nat

\* An upvote in flight has its row, and only a feedback that exists has upvotes.
UpvotesHaveRows ==
  /\ \A f \in Feedbacks, v \in Readers : <<f, v>> \in upvoting => v \in voted[f]
  /\ \A f \in Feedbacks : feedback[f] = NoFeedback => voted[f] = {}

\* The inductive invariant of the upvotes.
CommunityInv == CommunityTypeOK /\ UpvotesHaveRows /\ UpvotesEarned

\* Empty tables satisfy it.
LEMMA CommunityBegins == CommunityInit => CommunityInv
BY FS_EmptySet DEF CommunityInit, CommunityInv, CommunityTypeOK, UpvotesHaveRows,
   UpvotesEarned, NoFeedback

\* The requests in flight are finitely many, and a request more or less is one
\* more or less for its feedback alone.
LEMMA InFlightCounts ==
  ASSUME CommunityTypeOK, NEW f \in Feedbacks, NEW g \in Feedbacks, NEW v \in Readers
  PROVE  /\ IsFiniteSet(InFlight(g, upvoting)) /\ Cardinality(InFlight(g, upvoting)) \in Nat
         /\ <<f, v>> \notin upvoting =>
              Cardinality(InFlight(g, upvoting \union {<<f, v>>}))
                = Cardinality(InFlight(g, upvoting)) + (IF g = f THEN 1 ELSE 0)
         /\ <<f, v>> \in upvoting =>
              Cardinality(InFlight(g, upvoting \ {<<f, v>>}))
                = Cardinality(InFlight(g, upvoting)) - (IF g = f THEN 1 ELSE 0)
<1> DEFINE now == InFlight(g, upvoting)
           one == <<f, v>>
<1>1. IsFiniteSet(now) /\ Cardinality(now) \in Nat
  <2>1. now \subseteq upvoting
    BY DEF InFlight
  <2> QED BY <2>1, FS_Subset, FS_CardinalityType DEF CommunityTypeOK
<1>2. CASE g = f
  <2>1. /\ InFlight(g, upvoting \union {one}) = now \union {one}
        /\ InFlight(g, upvoting \ {one}) = now \ {one}
        /\ one \in upvoting <=> one \in now
    BY <1>2 DEF InFlight
  <2> HIDE DEF now, one
  <2>2. /\ one \notin now => Cardinality(now \union {one}) = Cardinality(now) + 1
        /\ one \in now => Cardinality(now \ {one}) = Cardinality(now) - 1
    BY <1>1, FS_AddElement, FS_RemoveElement
  <2> QED BY <1>1, <1>2, <2>1, <2>2 DEF now, one
<1>3. CASE g # f
  <2>1. /\ InFlight(g, upvoting \union {one}) = now
        /\ InFlight(g, upvoting \ {one}) = now
    BY <1>3 DEF InFlight
  <2> QED BY <1>1, <1>3, <2>1
<1> QED BY <1>2, <1>3, <1>1

\* The two statements of an upvote.
LEMMA UpvoteSteps ==
  ASSUME CommunityInv, NEW f \in Feedbacks, NEW v \in Readers,
         InsertUpvote(f, v) \/ CountUpvote(f, v)
  PROVE  CommunityInv'
<1> USE DEF CommunityInv
<1> DEFINE one == <<f, v>>
<1>0. /\ \A g \in Feedbacks : Cardinality(InFlight(g, upvoting)) \in Nat
      /\ \A g \in Feedbacks : Cardinality(voted[g]) \in Nat
  BY InFlightCounts, FS_CardinalityType DEF CommunityTypeOK
<1>1. CASE InsertUpvote(f, v)
  <2>1. /\ feedback[f] # NoFeedback /\ v \notin voted[f] /\ one \notin upvoting
        /\ voted' = [voted EXCEPT ![f] = @ \union {v}]
        /\ upvoting' = upvoting \union {one}
        /\ feedback' = feedback /\ upvoteFaults' = upvoteFaults
    BY <1>1 DEF InsertUpvote, UpvoteIsNew
  <2>2. /\ IsFiniteSet(voted[f] \union {v})
        /\ Cardinality(voted[f] \union {v}) = Cardinality(voted[f]) + 1
    BY <2>1, FS_AddElement DEF CommunityTypeOK
  <2>3. IsFiniteSet(upvoting')
    BY <2>1, FS_AddElement DEF CommunityTypeOK
  <2>4. CommunityTypeOK'
    BY <2>1, <2>2, <2>3 DEF CommunityTypeOK
  <2>5. UpvotesHaveRows'
    BY <2>1 DEF UpvotesHaveRows, CommunityTypeOK
  <2>6. ASSUME NEW g \in Feedbacks, feedback'[g] # NoFeedback
        PROVE  LET missing == Cardinality(voted'[g]) - feedback'[g]
                   pending == Cardinality(InFlight(g, upvoting'))
               IN  pending <= missing /\ missing <= pending + upvoteFaults'
    <3>1. Cardinality(InFlight(g, upvoting'))
            = Cardinality(InFlight(g, upvoting)) + (IF g = f THEN 1 ELSE 0)
      BY <2>1, InFlightCounts
    <3>2. Cardinality(voted'[g]) = Cardinality(voted[g]) + (IF g = f THEN 1 ELSE 0)
      BY <1>0, <2>1, <2>2 DEF CommunityTypeOK
    <3>3. /\ Cardinality(InFlight(g, upvoting)) <= Cardinality(voted[g]) - feedback[g]
          /\ Cardinality(voted[g]) - feedback[g] <= Cardinality(InFlight(g, upvoting)) + upvoteFaults
      BY <2>1, <2>6 DEF UpvotesEarned, InFlight
    <3>4. feedback[g] \in Nat /\ feedback'[g] = feedback[g] /\ upvoteFaults \in Nat
      BY <2>1, <2>6 DEF CommunityTypeOK
    <3> QED BY <1>0, <2>1, <3>1, <3>2, <3>3, <3>4
  <2> QED BY <2>4, <2>5, <2>6 DEF UpvotesEarned, InFlight
<1>2. CASE CountUpvote(f, v)
  <2>1. /\ one \in upvoting /\ upvoting' = upvoting \ {one} /\ voted' = voted
        /\ \/ feedback' = [feedback EXCEPT ![f] = @ + 1] /\ upvoteFaults' = upvoteFaults
           \/ feedback' = feedback /\ upvoteFaults' = upvoteFaults + 1
    BY <1>2 DEF CountUpvote
  <2>2. feedback[f] \in Nat
    BY <2>1 DEF UpvotesHaveRows, CommunityTypeOK
  <2>3. IsFiniteSet(upvoting')
    BY <2>1, FS_Subset DEF CommunityTypeOK
  <2>4. CommunityTypeOK'
    BY <2>1, <2>2, <2>3 DEF CommunityTypeOK
  <2>5. UpvotesHaveRows'
    BY <2>1, <2>2 DEF UpvotesHaveRows, CommunityTypeOK, NoFeedback
  <2>6. ASSUME NEW g \in Feedbacks, feedback'[g] # NoFeedback
        PROVE  LET missing == Cardinality(voted'[g]) - feedback'[g]
                   pending == Cardinality(InFlight(g, upvoting'))
               IN  pending <= missing /\ missing <= pending + upvoteFaults'
    <3>1. Cardinality(InFlight(g, upvoting'))
            = Cardinality(InFlight(g, upvoting)) - (IF g = f THEN 1 ELSE 0)
      BY <2>1, InFlightCounts
    <3>2. feedback[g] # NoFeedback
      BY <2>1, <2>2, <2>6 DEF CommunityTypeOK, NoFeedback
    <3>3. /\ Cardinality(InFlight(g, upvoting)) <= Cardinality(voted[g]) - feedback[g]
          /\ Cardinality(voted[g]) - feedback[g] <= Cardinality(InFlight(g, upvoting)) + upvoteFaults
      BY <3>2 DEF UpvotesEarned, InFlight
    <3>4. feedback[g] \in Nat /\ upvoteFaults \in Nat
      BY <3>2 DEF CommunityTypeOK
    <3>5. \/ upvoteFaults' = upvoteFaults /\ feedback'[g] = feedback[g] + (IF g = f THEN 1 ELSE 0)
          \/ upvoteFaults' = upvoteFaults + 1 /\ feedback'[g] = feedback[g]
      BY <2>1, <3>4 DEF CommunityTypeOK
    <3> QED BY <1>0, <2>1, <3>1, <3>3, <3>4, <3>5
  <2> QED BY <2>4, <2>5, <2>6 DEF UpvotesEarned, InFlight
<1> QED BY <1>1, <1>2

\* A feedback that is created has no upvotes and none in flight.
LEMMA FeedbackStep ==
  ASSUME CommunityInv, NEW f \in Feedbacks, NEW body, HandleCreateFeedback(f, body)
  PROVE  CommunityInv'
<1> USE DEF CommunityInv
<1>1. /\ feedback[f] = NoFeedback /\ feedback' = [feedback EXCEPT ![f] = 0]
      /\ UNCHANGED <<voted, upvoting, upvoteFaults>>
  BY DEF HandleCreateFeedback
<1>2. voted[f] = {} /\ InFlight(f, upvoting) = {}
  BY <1>1 DEF UpvotesHaveRows, CommunityTypeOK, InFlight
<1>3. (CommunityTypeOK /\ UpvotesHaveRows)'
  BY <1>1 DEF CommunityTypeOK, UpvotesHaveRows, NoFeedback
<1>4. UpvotesEarned'
  <2> SUFFICES ASSUME NEW g \in Feedbacks, feedback'[g] # NoFeedback
               PROVE  /\ Cardinality(InFlight(g, upvoting')) <= Cardinality(voted'[g]) - feedback'[g]
                      /\ Cardinality(voted'[g]) - feedback'[g]
                           <= Cardinality(InFlight(g, upvoting')) + upvoteFaults'
    BY DEF UpvotesEarned, InFlight
  <2>1. CASE g = f
    <3>1. PICK all : all = Cardinality(voted'[g]) /\ all = 0
      BY <1>1, <1>2, <2>1, FS_EmptySet
    <3>2. PICK open : open = Cardinality(InFlight(g, upvoting')) /\ open = 0
      BY <1>1, <1>2, <2>1, FS_EmptySet
    <3>3. PICK shown : shown = feedback'[g] /\ shown = 0
      BY <1>1, <2>1 DEF CommunityTypeOK
    <3>4. PICK lost \in Nat : lost = upvoteFaults'
      BY <1>1 DEF CommunityTypeOK
    <3>5. 0 <= 0 - 0 /\ 0 - 0 <= 0 + lost
      BY lost \in Nat
    <3> QED BY <3>1, <3>2, <3>3, <3>4, <3>5
  <2>2. CASE g # f
    <3>1. feedback'[g] = feedback[g] /\ voted'[g] = voted[g] /\ InFlight(g, upvoting') = InFlight(g, upvoting)
      BY <1>1, <2>2 DEF CommunityTypeOK
    <3>2. /\ Cardinality(InFlight(g, upvoting)) <= Cardinality(voted[g]) - feedback[g]
          /\ Cardinality(voted[g]) - feedback[g] <= Cardinality(InFlight(g, upvoting)) + upvoteFaults
      BY <3>1 DEF UpvotesEarned, InFlight
    <3> QED BY <1>1, <3>1, <3>2
  <2> QED BY <2>1, <2>2
<1> QED BY <1>3, <1>4

\* A counter never shows more upvotes than distinct voters gave, and what it shows
\* less is in flight or was lost to a failed update (handleFeedbackUpvote), for
\* any number of viewers and repeated requests.
THEOREM UpvotesAreEarned == CommunitySpec => []UpvotesEarned
<1>1. CommunityInv /\ [VotesNext \/ FeedbackNext]_communityVars => CommunityInv'
  <2> SUFFICES ASSUME CommunityInv, [VotesNext \/ FeedbackNext]_communityVars
               PROVE  CommunityInv'
    OBVIOUS
  <2>1. CASE VotesNext \/ UNCHANGED communityVars
    <3>1. UNCHANGED <<feedback, voted, upvoting, upvoteFaults>>
      BY <2>1 DEF VotesNext, HandleMapVote, communityVars
    <3> QED BY <3>1 DEF CommunityInv, CommunityTypeOK, UpvotesHaveRows, UpvotesEarned
  <2>2. CASE FeedbackNext
    BY <2>2, FeedbackStep, UpvoteSteps DEF FeedbackNext
  <2> QED BY <2>1, <2>2
<1>2. CommunityInv => UpvotesEarned
  BY DEF CommunityInv
<1> QED BY <1>1, <1>2, CommunityBegins, PTL DEF CommunitySpec

-----------------------------------------------------------------------------
(***************************************************************************)
(* The monthly prune.                                                      *)
(***************************************************************************)

\* A prune leaves a mark of this month, which is what the next one looks for.
PruneInv ==
  /\ prunes \in Nat /\ prunes <= 1
  /\ prunes = 1 => retiredNow # {}

\* A prune that is due takes at least one map.
LEMMA PruneTakesMaps ==
  ASSUME Cardinality(In({"active"})) >= PruneMin
  PROVE  {} \notin LowestEngagement
<1> DEFINE c == Cardinality(In({"active"}))
<1>1. c \in Nat
  <2>1. In({"active"}) \subseteq PoolMaps
    BY DEF In
  <2> QED BY <2>1, MapPoolAssumption, FS_Subset, FS_CardinalityType
<1>2. c >= 1
  BY <1>1, MapPoolAssumption
<1> HIDE DEF c
<1>3. (c + 9) \div 10 # 0
  BY <1>1, <1>2
<1> QED BY <1>3, FS_EmptySet DEF c, LowestEngagement, kSubset

\* However many audits the first of a month sees, at most one prunes, for any
\* pool and whatever the votes, games and season ends in between
\* (pruneLowEngagementMaps).
THEOREM PrunesAreMonthly == MapPoolSpec => []PruneIsMonthly
<1>1. MapPoolInit => PruneInv
  BY DEF MapPoolInit, PruneInv
<1>2. PruneInv /\ [MapPoolNext]_<<poolVars, communityVars>> => PruneInv'
  <2> SUFFICES ASSUME PruneInv, [MapPoolNext]_<<poolVars, communityVars>> PROVE PruneInv'
    OBVIOUS
  <2>1. CASE MonthBegins
    BY <2>1 DEF MonthBegins, PruneInv
  <2>2. CASE PruneLowEngagementMaps
    <3>1. CASE PruneDue /\ Cardinality(In({"active"})) >= PruneMin
      <4>1. PICK ms \in LowestEngagement : retiredNow' = retiredNow \union ms /\ prunes' = prunes + 1
        BY <2>2, <3>1 DEF PruneLowEngagementMaps
      <4>2. ms # {} /\ prunes = 0
        BY <3>1, PruneTakesMaps DEF PruneDue, PruneInv
      <4> QED BY <4>1, <4>2 DEF PruneInv
    <3>2. CASE ~ (PruneDue /\ Cardinality(In({"active"})) >= PruneMin)
      BY <2>2, <3>2 DEF PruneLowEngagementMaps, PruneInv
    <3> QED BY <3>1, <3>2
  <2>3. CASE RotateMapPool \/ RetireDislikedMaps
    BY <2>3 DEF RotateMapPool, RetireDislikedMaps, PruneInv
  <2>4. CASE \/ \E w \in PoolWorkers, n \in 1..5 : Play(w, n)
             \/ \E w \in PoolWorkers : UpdateMapEngagement(w)
             \/ \E w \in PoolWorkers, winner \in {-1, 0, 1} : CompleteGame(w, winner)
             \/ TickFairnessAudit \/ FirstDayPasses \/ \E m \in PoolMaps : MapAges(m)
             \/ VotesNext /\ UNCHANGED poolVars
             \/ UNCHANGED <<poolVars, communityVars>>
    BY <2>4 DEF Play, UpdateMapEngagement, CompleteGame, TickFairnessAudit, FirstDayPasses,
                MapAges, poolVars, PruneInv
  <2>5. CASE UpdateMapFairnessStats \/ FlagUnfairMaps \/ PromoteClassicMaps
    BY <2>5 DEF UpdateMapFairnessStats, FlagUnfairMaps, PromoteClassicMaps, PruneInv
  <2>6. ASSUME NEW here, NEW next, StepFails(here, next) PROVE PruneInv'
    BY <2>6 DEF StepFails, PruneInv
  <2> QED BY <2>1, <2>2, <2>3, <2>4, <2>5, <2>6 DEF MapPoolNext, AuditStep
<1>3. PruneInv => PruneIsMonthly
  BY DEF PruneInv, PruneIsMonthly
<1> QED BY <1>1, <1>2, <1>3, PTL DEF MapPoolSpec

-----------------------------------------------------------------------------
(***************************************************************************)
(* Where boards come from, for a square board of any size.  The search for *)
(* reachable tiles is shown to compute the least set closed under steps    *)
(* onto open tiles, which makes one connected core speak for both.         *)
(***************************************************************************)
\* A set of naturals has a least member.
LEMMA LeastNat ==
  ASSUME NEW S, S \subseteq Nat, S # {}
  PROVE  \E x \in S : \A y \in S : x <= y
  <1>1. PICK x \in S : \A y \in S : ~(<<y, x>> \in OpToRel(<, Nat))
    BY NatLessThanWellFounded, WFMin
  <1>2. ASSUME NEW y \in S PROVE ~(y < x)
    BY <1>1, <1>2 DEF OpToRel
  <1> QED BY <1>2

\* Coordinates of the torus.
LEMMA WrapFacts ==
  ASSUME NEW N \in Nat \ {0}
  PROVE  /\ \A x \in Int : x % N \in 0 .. N - 1
         /\ \A x \in 0 .. N - 1 : x % N = x
         /\ N % N = 0
         /\ (-1) % N = N - 1
  <1>1. \A x \in Int : x % N \in 0 .. N - 1
    OBVIOUS
  <1>2. \A x \in 0 .. N - 1 : x % N = x
    OBVIOUS
  <1>3. N % N = 0
    OBVIOUS
  <1>4. (-1) % N = N - 1
    OBVIOUS
  <1> QED BY <1>1, <1>2, <1>3, <1>4

\* One step along a coordinate and one back.
LEMMA StepAndBack ==
  ASSUME NEW N \in Nat \ {0}, NEW x \in 0 .. N - 1
  PROVE  /\ (((x + 1) % N) - 1) % N = x
         /\ (((x - 1) % N) + 1) % N = x
  <1>1. /\ \A y \in Int : y % N \in 0 .. N - 1
        /\ \A y \in 0 .. N - 1 : y % N = y
        /\ N % N = 0
        /\ (-1) % N = N - 1
    BY WrapFacts
  <1>2. (((x + 1) % N) - 1) % N = x
    <2>1. CASE x + 1 \in 0 .. N - 1
      <3>1. (x + 1) % N = x + 1
        BY <1>1, <2>1
      <3>2. x + 1 - 1 = x /\ x % N = x
        BY <1>1
      <3> QED BY <3>1, <3>2
    <2>2. CASE x + 1 = N
      <3>1. (x + 1) % N = 0
        BY <1>1, <2>2
      <3>2. 0 - 1 = -1 /\ N - 1 = x
        BY <2>2
      <3> QED BY <1>1, <3>1, <3>2
    <2> QED BY <2>1, <2>2
  <1>3. (((x - 1) % N) + 1) % N = x
    <2>1. CASE x - 1 \in 0 .. N - 1
      <3>1. (x - 1) % N = x - 1
        BY <1>1, <2>1
      <3>2. x - 1 + 1 = x /\ x % N = x
        BY <1>1
      <3> QED BY <3>1, <3>2
    <2>2. CASE x = 0
      <3>1. (x - 1) % N = N - 1
        BY <1>1, <2>2
      <3>2. N - 1 + 1 = N /\ N % N = x
        BY <1>1, <2>2
      <3> QED BY <3>1, <3>2
    <2> QED BY <2>1, <2>2
  <1> QED BY <1>2, <1>3

\* A tile is a pair of coordinates; wrapping gives tiles and leaves them alone.
LEMMA TileFacts ==
  /\ Side \in Nat \ {0} /\ Center \in Int /\ Center \in 0 .. Side - 1 /\ 2 * Center \in {Side, Side - 1}
  /\ \A r, c \in Int : Wrap(r, c) \in Tiles
  /\ \A t \in Tiles : /\ t = <<t[1], t[2]>> /\ t[1] \in 0 .. Side - 1 /\ t[2] \in 0 .. Side - 1
                      /\ t[1] \in Int /\ t[2] \in Int /\ Wrap(t[1], t[2]) = t
  /\ IsFiniteSet(Tiles)
  <1>1. Side \in Nat \ {0}
    BY MapForgeAssumption
  <1>2. Center \in Int /\ Center \in 0 .. Side - 1 /\ 2 * Center \in {Side, Side - 1}
    BY <1>1 DEF Center
  <1>3. /\ \A x \in Int : x % Side \in 0 .. Side - 1
        /\ \A x \in 0 .. Side - 1 : x % Side = x
    BY <1>1, WrapFacts
  <1>4. \A r, c \in Int : Wrap(r, c) \in Tiles
    BY <1>3 DEF Wrap, Tiles
  <1>5. ASSUME NEW t \in Tiles
        PROVE  /\ t = <<t[1], t[2]>> /\ t[1] \in 0 .. Side - 1 /\ t[2] \in 0 .. Side - 1
               /\ t[1] \in Int /\ t[2] \in Int /\ Wrap(t[1], t[2]) = t
    <2>1. t = <<t[1], t[2]>> /\ t[1] \in 0 .. Side - 1 /\ t[2] \in 0 .. Side - 1
      BY DEF Tiles
    <2>2. Wrap(t[1], t[2]) = <<t[1], t[2]>>
      BY <1>3, <2>1 DEF Wrap
    <2>3. t[1] \in Int /\ t[2] \in Int
      BY <1>1, <2>1
    <2> QED BY <2>1, <2>2, <2>3
  <1>6. IsFiniteSet(Tiles)
    <2>1. IsFiniteSet(0 .. Side - 1)
      BY <1>1, FS_Interval
    <2> QED BY <2>1, FS_Product DEF Tiles
  <1> QED BY <1>1, <1>2, <1>4, <1>5, <1>6

\* A tile lies beside the tiles that lie beside it.
LEMMA BesideBothWays ==
  /\ \A t \in Tiles : Beside[t] \subseteq Tiles
  /\ \A t \in Tiles : \A u \in Beside[t] : t \in Beside[u]
  <1>1. ASSUME NEW t \in Tiles
        PROVE  /\ Beside[t] = {Wrap(t[1] + 1, t[2]), Wrap(t[1] - 1, t[2]), Wrap(t[1], t[2] + 1), Wrap(t[1], t[2] - 1)}
               /\ t = <<t[1], t[2]>> /\ t[1] \in 0 .. Side - 1 /\ t[2] \in 0 .. Side - 1
               /\ t[1] \in Int /\ t[2] \in Int
    BY TileFacts DEF Beside
  <1>2. ASSUME NEW t \in Tiles PROVE Beside[t] \subseteq Tiles
    <2>1. t[1] + 1 \in Int /\ t[1] - 1 \in Int /\ t[2] + 1 \in Int /\ t[2] - 1 \in Int
      BY <1>1
    <2>2. /\ Wrap(t[1] + 1, t[2]) \in Tiles /\ Wrap(t[1] - 1, t[2]) \in Tiles
          /\ Wrap(t[1], t[2] + 1) \in Tiles /\ Wrap(t[1], t[2] - 1) \in Tiles
      <3>1. t[1] \in Int /\ t[2] \in Int
        BY <1>1
      <3> QED BY <2>1, <3>1, TileFacts, Zenon
    <2> QED BY <1>1, <2>2, Zenon
  <1>3. ASSUME NEW t \in Tiles, NEW u \in Beside[t] PROVE t \in Beside[u]
    <2>0. u \in Tiles
      BY <1>2
    <2>1. /\ (((t[1] + 1) % Side) - 1) % Side = t[1] /\ (((t[1] - 1) % Side) + 1) % Side = t[1]
          /\ (((t[2] + 1) % Side) - 1) % Side = t[2] /\ (((t[2] - 1) % Side) + 1) % Side = t[2]
          /\ t[1] % Side = t[1] /\ t[2] % Side = t[2]
      BY <1>1, StepAndBack, WrapFacts, TileFacts
    <2>2. Beside[u] = {Wrap(u[1] + 1, u[2]), Wrap(u[1] - 1, u[2]), Wrap(u[1], u[2] + 1), Wrap(u[1], u[2] - 1)}
      BY <1>1, <2>0
    <2>3. CASE u = Wrap(t[1] + 1, t[2])
      <3>1. u[1] = (t[1] + 1) % Side /\ u[2] = t[2]
        BY <2>1, <2>3 DEF Wrap
      <3>2. Wrap(u[1] - 1, u[2]) = <<t[1], t[2]>>
        BY <2>1, <3>1, Zenon DEF Wrap
      <3> QED BY <1>1, <2>2, <3>2, Zenon
    <2>4. CASE u = Wrap(t[1] - 1, t[2])
      <3>1. u[1] = (t[1] - 1) % Side /\ u[2] = t[2]
        BY <2>1, <2>4 DEF Wrap
      <3>2. Wrap(u[1] + 1, u[2]) = <<t[1], t[2]>>
        BY <2>1, <3>1, Zenon DEF Wrap
      <3> QED BY <1>1, <2>2, <3>2, Zenon
    <2>5. CASE u = Wrap(t[1], t[2] + 1)
      <3>1. u[2] = (t[2] + 1) % Side /\ u[1] = t[1]
        BY <2>1, <2>5 DEF Wrap
      <3>2. Wrap(u[1], u[2] - 1) = <<t[1], t[2]>>
        BY <2>1, <3>1, Zenon DEF Wrap
      <3> QED BY <1>1, <2>2, <3>2, Zenon
    <2>6. CASE u = Wrap(t[1], t[2] - 1)
      <3>1. u[2] = (t[2] - 1) % Side /\ u[1] = t[1]
        BY <2>1, <2>6 DEF Wrap
      <3>2. Wrap(u[1], u[2] + 1) = <<t[1], t[2]>>
        BY <2>1, <3>1, Zenon DEF Wrap
      <3> QED BY <1>1, <2>2, <3>2, Zenon
    <2> QED BY <1>1, <2>3, <2>4, <2>5, <2>6
  <1> QED BY <1>2, <1>3

\* What the breadth-first search leaves is closed under steps onto open tiles.
Closed(walls, S) == \A t \in S : Beside[t] \ walls \subseteq S

\* The tiles no closed set around a start can leave out.
Region(walls, seen) ==
  {x \in Tiles : \A S \in SUBSET Tiles : seen \subseteq S /\ Closed(walls, S) => x \in S}

\* One round of the search.
Grow(walls, seen) == seen \cup ((UNION {Beside[t] : t \in seen}) \ walls)

\* What a round adds.
LEMMA GrowMembers ==
  ASSUME NEW walls, NEW seen, NEW x
  PROVE  x \in Grow(walls, seen) <=> x \in seen \/ (x \notin walls /\ \E t \in seen : x \in Beside[t])
  <1> DEFINE steps == UNION {Beside[t] : t \in seen}
  <1>1. x \in steps <=> \E t \in seen : x \in Beside[t]
    BY Zenon
  <1>2. Grow(walls, seen) = seen \cup (steps \ walls)
    BY Zenon DEF Grow
  <1> HIDE DEF steps
  <1> QED BY <1>1, <1>2

\* A round stays on the board and stops on a closed set; the region of a set is the
\* region of its next round, and a closed set is its own.
LEMMA GrowFacts ==
  ASSUME NEW walls, NEW seen \in SUBSET Tiles
  PROVE  /\ Grow(walls, seen) \in SUBSET Tiles /\ seen \subseteq Grow(walls, seen)
         /\ Region(walls, seen) = IF Grow(walls, seen) = seen THEN seen
                                  ELSE Region(walls, Grow(walls, seen))
  <1>1. Grow(walls, seen) \in SUBSET Tiles /\ seen \subseteq Grow(walls, seen)
    <2>1. ASSUME NEW x \in Grow(walls, seen) PROVE x \in Tiles
      BY GrowMembers, BesideBothWays
    <2>2. ASSUME NEW x \in seen PROVE x \in Grow(walls, seen)
      BY GrowMembers
    <2> QED BY <2>1, <2>2
  <1>2. CASE Grow(walls, seen) = seen
    <2>1. Closed(walls, seen)
      BY <1>2, GrowMembers DEF Closed
    <2> QED BY <1>2, <2>1 DEF Region
  <1>3. ASSUME NEW S \in SUBSET Tiles, Closed(walls, S)
        PROVE  seen \subseteq S <=> Grow(walls, seen) \subseteq S
    <2>1. ASSUME seen \subseteq S PROVE Grow(walls, seen) \subseteq S
      <3>1. ASSUME NEW x \in Grow(walls, seen), x \notin seen PROVE x \in S
        <4>1. PICK t \in seen : x \in Beside[t] /\ x \notin walls
          BY <3>1, GrowMembers
        <4>2. t \in S
          BY <2>1
        <4> QED BY <1>3, <4>1, <4>2 DEF Closed
      <3> QED BY <2>1, <3>1
    <2> QED BY <1>1, <2>1
  <1>4. Region(walls, seen) = Region(walls, Grow(walls, seen))
    BY <1>3 DEF Region
  <1> QED BY <1>1, <1>2, <1>4

\* The search computes the region: a set on which it does not, with the fewest tiles
\* left to see, has a next round with fewer.
LEMMA ReachIsRegion ==
  ASSUME NEW walls, NEW start \in Tiles
  PROVE  Reach(walls, start) = Region(walls, {start})
  <1> DEFINE Body(f, seen) == IF Grow(walls, seen) = seen THEN seen ELSE f[Grow(walls, seen)]
             Sol(f) == f = [seen \in SUBSET Tiles |-> Body(f, seen)]
             region == [seen \in SUBSET Tiles |-> Region(walls, seen)]
             visit == CHOOSE f : Sol(f)
  <1>1. Sol(region)
    <2>1. ASSUME NEW seen \in SUBSET Tiles PROVE region[seen] = Body(region, seen)
      <3>1. Grow(walls, seen) \in SUBSET Tiles
        BY GrowFacts
      <3>2. region[Grow(walls, seen)] = Region(walls, Grow(walls, seen)) /\ region[seen] = Region(walls, seen)
        BY <3>1
      <3> HIDE DEF region
      <3> QED BY <3>2, GrowFacts
    <2>2. region = [seen \in SUBSET Tiles |-> region[seen]]
      OBVIOUS
    <2> HIDE DEF region, Body
    <2> QED BY <2>1, <2>2, Zenon
  <1>2. Sol(visit)
    BY <1>1, Zenon
  <1>3. Reach(walls, start) = visit[{start}]
    BY Zenon DEF Reach, Grow
  <1> HIDE DEF visit, region
  <1>4. ASSUME NEW seen \in SUBSET Tiles PROVE visit[seen] = Body(visit, seen)
    BY <1>2, <1>4
  <1> HIDE DEF Sol
  <1> DEFINE Bad == {seen \in SUBSET Tiles : visit[seen] # Region(walls, seen)}
             Left(seen) == Cardinality(Tiles \ seen)
             Sizes == {Left(seen) : seen \in Bad}
  <1>5. Bad = {}
    <2> SUFFICES ASSUME Bad # {} PROVE FALSE
      OBVIOUS
    <2>1. \A seen : IsFiniteSet(Tiles \ seen) /\ Left(seen) \in Nat
      BY TileFacts, FS_Subset, FS_CardinalityType
    <2>2. Sizes \subseteq Nat /\ Sizes # {}
      BY <2>1
    <2>3. PICK k \in Sizes : \A j \in Sizes : k <= j
      BY <2>2, LeastNat
    <2>4. PICK seen \in Bad : k = Left(seen)
      OBVIOUS
    <2> DEFINE next == Grow(walls, seen)
    <2>5. /\ next \in SUBSET Tiles /\ seen \subseteq next /\ seen \in SUBSET Tiles
          /\ Region(walls, seen) = IF next = seen THEN seen ELSE Region(walls, next)
      BY GrowFacts
    <2>6. visit[seen] = IF next = seen THEN seen ELSE visit[next]
      BY <1>4
    <2>7. next # seen /\ next \in Bad
      BY <2>5, <2>6
    <2>8. Left(next) < Left(seen)
      <3>1. Tiles \ next \subseteq Tiles \ seen /\ Tiles \ next # Tiles \ seen
        BY <2>5, <2>7
      <3> HIDE DEF next
      <3>2. /\ Left(next) <= Left(seen)
            /\ Left(seen) = Left(next) => Tiles \ seen = Tiles \ next
        BY <2>1, <3>1, FS_Subset
      <3>3. Left(next) \in Nat /\ Left(seen) \in Nat
        BY <2>1
      <3> HIDE DEF Left
      <3> QED BY <3>1, <3>2, <3>3
    <2>9. Left(next) \in Sizes
      BY <2>7
    <2>10. Left(next) \in Nat /\ Left(seen) \in Nat
      BY <2>1
    <2> HIDE DEF Sizes, Left, next
    <2> QED BY <2>3, <2>4, <2>8, <2>9, <2>10
  <1>6. {start} \in SUBSET Tiles
    OBVIOUS
  <1> QED BY <1>3, <1>5, <1>6

\* What is reached from a tile is closed, holds the tile, is on the board, and but for
\* the tile itself is open.
LEMMA RegionFacts ==
  ASSUME NEW walls, NEW start \in Tiles
  PROVE  /\ start \in Reach(walls, start)
         /\ Reach(walls, start) \subseteq Tiles
         /\ Closed(walls, Reach(walls, start))
         /\ \A S \in SUBSET Tiles : start \in S /\ Closed(walls, S) => Reach(walls, start) \subseteq S
  <1>1. Reach(walls, start) = Region(walls, {start})
    BY ReachIsRegion
  <1>2. Closed(walls, Region(walls, {start}))
    <2> SUFFICES ASSUME NEW t \in Region(walls, {start}), NEW u \in Beside[t] \ walls
                 PROVE  u \in Region(walls, {start})
      BY DEF Closed
    <2>1. t \in Tiles /\ u \in Tiles
      BY BesideBothWays DEF Region
    <2>2. ASSUME NEW S \in SUBSET Tiles, {start} \subseteq S, Closed(walls, S) PROVE u \in S
      <3>1. t \in S
        BY <2>2 DEF Region
      <3> QED BY <2>2, <3>1 DEF Closed
    <2> QED BY <2>1, <2>2 DEF Region
  <1> QED BY <1>1, <1>2 DEF Region

\* Reaching every open tile does not depend on the open tile one starts from: what a
\* second one leaves out would be closed, as steps can be taken back.
LEMMA OneRegion ==
  ASSUME NEW walls, NEW a \in Tiles \ walls, NEW b \in Tiles \ walls,
         Reach(walls, a) = Tiles \ walls
  PROVE  Reach(walls, b) = Tiles \ walls
  <1> DEFINE R == Reach(walls, b)
             rest == (Tiles \ walls) \ R
  <1>1. b \in R /\ R \subseteq Tiles /\ Closed(walls, R)
    BY RegionFacts
  <1>2. R \subseteq Tiles \ walls
    <2>1. Closed(walls, Tiles \ walls)
      BY BesideBothWays DEF Closed
    <2> QED BY <2>1, RegionFacts
  <1>3. Closed(walls, rest)
    <2> SUFFICES ASSUME NEW t \in rest, NEW u \in Beside[t] \ walls
                 PROVE  u \in rest
      BY DEF Closed
    <2>1. t \in Tiles /\ t \notin walls /\ t \notin R /\ u \in Tiles /\ t \in Beside[u]
      BY BesideBothWays
    <2>2. u \notin R
      BY <1>1, <2>1 DEF Closed
    <2> QED BY <2>1, <2>2
  <1>4. a \notin rest
    <2>1. ASSUME a \in rest PROVE FALSE
      <3>1. Tiles \ walls \subseteq rest
        BY <1>3, <2>1, RegionFacts
      <3> QED BY <1>1, <3>1
    <2> QED BY <2>1
  <1>5. Tiles \ walls \subseteq R
    <2>1. a \in R
      BY <1>4
    <2> QED BY <1>1, <2>1, RegionFacts
  <1> QED BY <1>2, <1>5

\* Turning a coordinate about the centre twice gives it back.
LEMMA TurnTwice ==
  ASSUME NEW N \in Nat \ {0}, NEW a \in {N, N - 1}, NEW x \in 0 .. N - 1
  PROVE  (a - ((a - x) % N)) % N = x
  <1>1. /\ \A y \in 0 .. N - 1 : y % N = y
        /\ N % N = 0
    BY WrapFacts
  <1>2. CASE a - x \in 0 .. N - 1
    <2>1. (a - x) % N = a - x
      BY <1>1, <1>2
    <2>2. a - (a - x) = x /\ x % N = x
      BY <1>1
    <2> QED BY <2>1, <2>2
  <1>3. CASE a = N /\ x = 0
    <2>1. a - x = N /\ a - 0 = N
      BY <1>3
    <2>2. (a - x) % N = 0
      BY <1>1, <2>1
    <2> QED BY <1>1, <1>3, <2>1, <2>2
  <1> QED BY <1>2, <1>3

\* The half turn maps tiles to tiles and is its own inverse.
LEMMA ImageFacts ==
  ASSUME NEW t \in Tiles
  PROVE  Image(t) \in Tiles /\ Image(Image(t)) = t
  <1> DEFINE a == 2 * Center
  <1>1. /\ Side \in Nat \ {0} /\ a \in {Side, Side - 1} /\ a \in Int
        /\ t = <<t[1], t[2]>> /\ t[1] \in 0 .. Side - 1 /\ t[2] \in 0 .. Side - 1
        /\ t[1] \in Int /\ t[2] \in Int
    BY TileFacts
  <1>2. (a - ((a - t[1]) % Side)) % Side = t[1] /\ (a - ((a - t[2]) % Side)) % Side = t[2]
    BY <1>1, TurnTwice
  <1>3. Image(t) = <<(a - t[1]) % Side, (a - t[2]) % Side>>
    BY DEF Image, Wrap
  <1>4. Image(t) \in Tiles
    <2>1. a - t[1] \in Int /\ a - t[2] \in Int
      BY <1>1
    <2> QED BY <2>1, TileFacts DEF Image
  <1>5. Image(Image(t)) = <<(a - ((a - t[1]) % Side)) % Side, (a - ((a - t[2]) % Side)) % Side>>
    <2> HIDE DEF a
    <2>1. PICK x, y : x = (a - t[1]) % Side /\ y = (a - t[2]) % Side
      OBVIOUS
    <2>2. Image(t) = <<x, y>>
      BY <1>3, <2>1
    <2>3. Image(<<x, y>>) = <<(a - x) % Side, (a - y) % Side>>
      BY DEF Image, Wrap, a
    <2>4. Image(Image(t)) = <<(a - x) % Side, (a - y) % Side>>
      BY <2>2, <2>3, Zenon
    <2> QED BY <2>1, <2>4
  <1> QED BY <1>1, <1>2, <1>4, <1>5

\* The margin of a set of tiles lies on the board and holds the set.
LEMMA MarginFacts ==
  ASSUME NEW k \in Nat
  PROVE  /\ \A t \in Tiles : t \in Block(t, k) /\ Block(t, k) \subseteq Tiles
         /\ \A S \in SUBSET Tiles : S \subseteq Around(S, k)
  <1>1. ASSUME NEW t \in Tiles PROVE t \in Block(t, k) /\ Block(t, k) \subseteq Tiles
    <2>1. t[1] \in Int /\ t[2] \in Int /\ Wrap(t[1], t[2]) = t
      BY TileFacts
    <2>2. PICK d : d = <<0, 0>>
      OBVIOUS
    <2>3. d \in (-k..k) \X (-k..k) /\ t[1] + d[1] = t[1] /\ t[2] + d[2] = t[2]
      BY <2>1, <2>2
    <2>4. Wrap(t[1] + d[1], t[2] + d[2]) = t
      BY <2>1, <2>3, Zenon
    <2>5. t \in Block(t, k)
      BY <2>3, <2>4, Zenon DEF Block
    <2>6. ASSUME NEW e \in (-k..k) \X (-k..k) PROVE Wrap(t[1] + e[1], t[2] + e[2]) \in Tiles
      <3>1. t[1] + e[1] \in Int /\ t[2] + e[2] \in Int
        BY <2>1
      <3> QED BY <3>1, TileFacts
    <2> QED BY <2>5, <2>6 DEF Block
  <1>2. ASSUME NEW S \in SUBSET Tiles, NEW t \in S PROVE t \in Around(S, k)
    <2>1. t \in Block(t, k)
      BY <1>1
    <2> QED BY <2>1, Zenon DEF Around
  <1> QED BY <1>1, <1>2

\* Sets of tiles the half turn maps to themselves.
Turned(S) == S \subseteq Tiles /\ \A t \in S : Image(t) \in S

\* Orbits are such sets; taking whole orbits from one or adding them leaves one.
LEMMA OrbitsAreTurned ==
  /\ \A S \in SUBSET Tiles : Turned(Orbits(S)) /\ S \subseteq Orbits(S)
  /\ \A S, T : Turned(S) /\ Turned(T) => Turned(S \ T) /\ Turned(S \cup T)
  <1>1. ASSUME NEW S \in SUBSET Tiles PROVE Turned(Orbits(S)) /\ S \subseteq Orbits(S)
    <2>1. ASSUME NEW t PROVE t \in Orbits(S) <=> t \in S \/ \E s \in S : t = Image(s)
      BY Zenon DEF Orbits
    <2>2. ASSUME NEW t \in Orbits(S) PROVE t \in Tiles /\ Image(t) \in Orbits(S)
      <3>1. CASE t \in S
        BY <2>1, <3>1, ImageFacts
      <3>2. ASSUME NEW s \in S, t = Image(s) PROVE t \in Tiles /\ Image(t) \in Orbits(S)
        BY <2>1, <3>2, ImageFacts
      <3> QED BY <2>1, <2>2, <3>1, <3>2
    <2> QED BY <2>1, <2>2 DEF Turned
  <1>2. ASSUME NEW S, NEW T, Turned(S), Turned(T) PROVE Turned(S \ T)
    <2>1. ASSUME NEW t \in S \ T PROVE Image(t) \in S \ T
      <3>1. t \in Tiles /\ Image(t) \in S /\ Image(Image(t)) = t
        BY <1>2, ImageFacts DEF Turned
      <3>2. Image(t) \notin T
        BY <1>2, <3>1 DEF Turned
      <3> QED BY <3>1, <3>2
    <2> QED BY <1>2, <2>1 DEF Turned
  <1>3. ASSUME NEW S, NEW T, Turned(S), Turned(T) PROVE Turned(S \cup T)
    BY <1>3 DEF Turned
  <1> QED BY <1>1, <1>2, <1>3

\* Smoothing a symmetric set of walls only takes walls away, all on protected tiles.
LEMMA SmoothingTakes ==
  ASSUME NEW walls, Turned(walls), NEW protected
  PROVE  SmoothWalls(walls, protected) \subseteq walls \ protected
BY DEF SmoothWalls, Orbits, Turned

\* The rows of the maps table.
MapRecords == [walls : SUBSET Tiles, cores : {StartCores}, nodes : SUBSET Tiles, whole : BOOLEAN]

\* A row with no wall on a core or a node, whose open tiles are one region in which
\* there are nodes enough.
SoundMap(m) ==
  /\ m \in MapRecords
  /\ m.walls \cap (CoreTiles(m) \cup m.nodes) = {}
  /\ Reach(m.walls, StartCores[0]) = Tiles \ m.walls
  /\ Reach(m.walls, StartCores[1]) = Tiles \ m.walls
  /\ \A p \in Players : Cardinality(Reach(m.walls, m.cores[p]) \cap m.nodes) >= MinReach

\* The two cores of every row.
LEMMA CoreFacts ==
  /\ StartCores[0] \in Tiles /\ StartCores[1] \in Tiles /\ DOMAIN StartCores = Players
  /\ \A m \in MapRecords : /\ m.cores = StartCores /\ DOMAIN m.cores = Players
                           /\ CoreTiles(m) = {StartCores[p] : p \in Players}
                           /\ \A p \in Players : m.cores[p] \in CoreTiles(m)
                           /\ StartCores[0] \in CoreTiles(m) /\ StartCores[1] \in CoreTiles(m)
  <1>1. Center \in Int /\ CoreOffset \in Int
    BY TileFacts, MapForgeAssumption
  <1>2. ASSUME NEW p \in Players PROVE StartCores[p] \in Tiles
    <2>1. StartCores[p] = Wrap(Center + (1 - 2 * p) * CoreOffset, Center)
      BY DEF StartCores
    <2>2. Center + (1 - 2 * p) * CoreOffset \in Int
      <3>1. CASE p = 0
        <4>1. (1 - 2 * p) = 1 /\ 1 * CoreOffset = CoreOffset
          BY <1>1, <3>1
        <4> QED BY <1>1, <4>1
      <3>2. CASE p = 1
        <4>1. (1 - 2 * p) = -1 /\ (-1) * CoreOffset \in Int
          BY <1>1, <3>2
        <4> QED BY <1>1, <4>1
      <3> QED BY <3>1, <3>2 DEF Players
    <2> QED BY <1>1, <2>1, <2>2, TileFacts
  <1>3. DOMAIN StartCores = Players /\ 0 \in Players /\ 1 \in Players
    BY DEF StartCores, Players
  <1>4. ASSUME NEW m \in MapRecords
        PROVE  /\ m.cores = StartCores /\ DOMAIN m.cores = Players
               /\ CoreTiles(m) = {StartCores[p] : p \in Players}
    <2>1. m.cores = StartCores
      BY DEF MapRecords
    <2> QED BY <1>3, <2>1, Zenon DEF CoreTiles
  <1>5. ASSUME NEW m \in MapRecords, NEW p \in Players
        PROVE  m.cores[p] \in CoreTiles(m) /\ StartCores[p] \in CoreTiles(m)
    BY <1>4, Zenon
  <1> QED BY <1>2, <1>3, <1>4, <1>5

\* A row whose walls spare cores and nodes is sound once the first core is connected
\* to every open tile and the nodes are enough in number or in reach.
LEMMA ConnectedIsSound ==
  ASSUME NEW m \in MapRecords, m.walls \cap (CoreTiles(m) \cup m.nodes) = {}, CheckConnectivity(m),
         \/ \A p \in Players : CountReachableEnergyNodes(m, m.cores[p]) >= MinReach
         \/ Cardinality(m.nodes) >= MinReach
  PROVE  SoundMap(m)
  <1>1. /\ m.cores = StartCores
        /\ StartCores[0] \in Tiles \ m.walls /\ StartCores[1] \in Tiles \ m.walls
    BY CoreFacts
  <1>2. Reach(m.walls, StartCores[0]) = Tiles \ m.walls
    BY <1>1 DEF CheckConnectivity
  <1>3. Reach(m.walls, StartCores[1]) = Tiles \ m.walls
    BY <1>1, <1>2, OneRegion
  <1>4. ASSUME NEW p \in Players PROVE Cardinality(Reach(m.walls, m.cores[p]) \cap m.nodes) >= MinReach
    <2>1. CASE \A q \in Players : CountReachableEnergyNodes(m, m.cores[q]) >= MinReach
      BY <2>1 DEF CountReachableEnergyNodes
    <2>2. CASE Cardinality(m.nodes) >= MinReach
      <3>1. Reach(m.walls, m.cores[p]) = Tiles \ m.walls
        BY <1>1, <1>2, <1>3 DEF Players
      <3>2. m.nodes \subseteq Tiles
        BY DEF MapRecords
      <3>3. (Tiles \ m.walls) \cap m.nodes = m.nodes
        BY <3>2
      <3> QED BY <2>2, <3>1, <3>3
    <2> QED BY <2>1, <2>2
  <1> QED BY <1>2, <1>3, <1>4 DEF SoundMap

\* The nodes a generator draws lie on the board and are at least those of one sector.
LEMMA NodeFacts ==
  ASSUME NEW nodes \in NodeSets
  PROVE  nodes \subseteq Tiles /\ Cardinality(nodes) >= MinReach
  <1> DEFINE spots == {Wrap(Center + d[1], Center + d[2]) : d \in NodeSpots} \ {StartCores[p] : p \in Players}
  <1>1. PICK drawn \in kSubset(NodesPerSector, spots) : nodes = Orbits(drawn)
    BY Zenon DEF NodeSets
  <1>2. ASSUME NEW d \in NodeSpots PROVE Wrap(Center + d[1], Center + d[2]) \in Tiles
    <2>1. d[1] \in Int /\ d[2] \in Int /\ Center \in Int
      <3>1. Side \in Nat /\ Center \in Int
        BY TileFacts
      <3>2. d \in (-Side..Side) \X (0..Side)
        BY MapForgeAssumption
      <3> QED BY <3>1, <3>2
    <2>2. Center + d[1] \in Int /\ Center + d[2] \in Int
      BY <2>1
    <2> QED BY <2>2, TileFacts
  <1>3. spots \subseteq Tiles
    BY <1>2
  <1> HIDE DEF spots
  <1>4. drawn \subseteq Tiles /\ Cardinality(drawn) = NodesPerSector
    BY <1>1, <1>3 DEF kSubset
  <1>5. nodes \subseteq Tiles /\ drawn \subseteq nodes
    BY <1>1, <1>4, OrbitsAreTurned DEF Turned
  <1>6. IsFiniteSet(nodes) /\ Cardinality(nodes) \in Nat
    BY <1>5, TileFacts, FS_Subset, FS_CardinalityType
  <1>7. Cardinality(drawn) <= Cardinality(nodes)
    BY <1>5, <1>6, FS_Subset
  <1>8. MinReach \in Nat /\ NodesPerSector \in Nat /\ MinReach <= NodesPerSector
    BY MapForgeAssumption
  <1> QED BY <1>4, <1>5, <1>6, <1>7, <1>8

\* A draft protects the cores and its nodes.
LEMMA DraftFacts ==
  ASSUME NEW d \in Drafts
  PROVE  /\ d.nodes \subseteq Tiles /\ Cardinality(d.nodes) >= MinReach
         /\ d.nodes \subseteq d.protected
         /\ {StartCores[p] : p \in Players} \subseteq d.protected
  <1> DEFINE cores == {StartCores[p] : p \in Players}
             guard(n) == Around(cores, CoreClear) \cup Around(n, NodeClear)
  <1>1. PICK nodes \in NodeSets :
          d \in {[grid |-> g, protected |-> guard(nodes), nodes |-> nodes] : g \in Automaton(guard(nodes))}
    BY Zenon DEF Drafts
  <1>2. d.nodes = nodes /\ d.protected = guard(nodes)
    <2> HIDE DEF guard
    <2> QED BY <1>1
  <1>3. nodes \subseteq Tiles /\ Cardinality(nodes) >= MinReach
    BY NodeFacts
  <1>4. cores \subseteq Tiles
    BY CoreFacts DEF Players
  <1>5. CoreClear \in Nat /\ NodeClear \in Nat
    BY MapForgeAssumption
  <1> HIDE DEF cores
  <1>6. cores \subseteq Around(cores, CoreClear) /\ nodes \subseteq Around(nodes, NodeClear)
    BY <1>3, <1>4, <1>5, MarginFacts
  <1>7. nodes \subseteq guard(nodes) /\ cores \subseteq guard(nodes)
    BY <1>6
  <1> HIDE DEF guard
  <1>8. cores \subseteq d.protected /\ d.nodes \subseteq d.protected
    BY <1>2, <1>7
  <1> QED BY <1>2, <1>3, <1>8 DEF cores

\* A cut list of walls holds walls of the list.
LEMMA CutTakes ==
  ASSUME NEW walls, NEW w \in CutTo(walls)
  PROVE  w \subseteq walls
BY DEF CutTo, kSubset

\* Walls off the protected tiles of a draft spare its cores and nodes.
LEMMA DraftIsClear ==
  ASSUME NEW d \in Drafts, NEW w, w \subseteq Tiles \ d.protected,
         NEW m, m = MapRow(w, StartCores, d.nodes, TRUE)
  PROVE  /\ m \in MapRecords /\ m.whole = TRUE
         /\ m.walls \cap (CoreTiles(m) \cup m.nodes) = {}
         /\ Cardinality(m.nodes) >= MinReach
  <1>1. /\ d.nodes \subseteq Tiles /\ Cardinality(d.nodes) >= MinReach
        /\ d.nodes \subseteq d.protected
        /\ {StartCores[p] : p \in Players} \subseteq d.protected
    BY DraftFacts
  <1>2. m.walls = w /\ m.cores = StartCores /\ m.nodes = d.nodes /\ m.whole = TRUE
    BY DEF MapRow
  <1>3. m \in MapRecords
    BY <1>1 DEF MapRow, MapRecords
  <1>4. CoreTiles(m) = {StartCores[p] : p \in Players}
    BY <1>3, CoreFacts
  <1>5. CoreTiles(m) \subseteq d.protected
    BY <1>1, <1>4
  <1> QED BY <1>1, <1>2, <1>3, <1>5

\* What acb-mapgen writes is sound, and so is the row the loader makes of it.
LEMMA LoadedIsSound ==
  ASSUME NEW m \in MapgenMaps
  PROVE  SoundMap([m EXCEPT !.whole = FALSE])
  <1>1. CheckConnectivity(m) /\ \E d \in Drafts : \E w \in CutTo(SymmetrizeFresh(d.grid, d.protected)) :
                                   m = MapRow(w, StartCores, d.nodes, TRUE)
    BY Zenon DEF MapgenMaps
  <1>2. PICK d \in Drafts : \E w \in CutTo(SymmetrizeFresh(d.grid, d.protected)) :
                                   m = MapRow(w, StartCores, d.nodes, TRUE)
    BY <1>1
  <1>3. PICK w \in CutTo(SymmetrizeFresh(d.grid, d.protected)) : m = MapRow(w, StartCores, d.nodes, TRUE)
    BY <1>2
  <1>4. SymmetrizeFresh(d.grid, d.protected) \subseteq Tiles \ d.protected
    BY DEF SymmetrizeFresh
  <1>5. w \subseteq Tiles \ d.protected
    BY <1>3, <1>4, CutTakes
  <1>6. /\ m \in MapRecords /\ m.whole = TRUE
        /\ m.walls \cap (CoreTiles(m) \cup m.nodes) = {}
        /\ Cardinality(m.nodes) >= MinReach
    BY <1>3, <1>5, DraftIsClear
  <1>7. PICK n : n = [m EXCEPT !.whole = FALSE]
    OBVIOUS
  <1>8. n \in MapRecords /\ n.walls = m.walls /\ n.cores = m.cores /\ n.nodes = m.nodes
    BY <1>6, <1>7 DEF MapRecords
  <1>9. CoreTiles(n) = CoreTiles(m) /\ CheckConnectivity(n)
    BY <1>1, <1>8 DEF CoreTiles, CheckConnectivity
  <1>10. SoundMap(n)
    <2>1. n.walls \cap (CoreTiles(n) \cup n.nodes) = {} /\ Cardinality(n.nodes) >= MinReach
      BY <1>6, <1>8, <1>9
    <2> QED BY <1>8, <1>9, <2>1, ConnectedIsSound
  <1> QED BY <1>7, <1>10

\* So is what the evolver seeds.
LEMMA SeedIsSound ==
  ASSUME NEW m \in SeedMaps
  PROVE  SoundMap(m)
  <1> DEFINE carved(d) == (SymmetrizeInPlace(d.grid, d.protected)
                             \ UNION {CarveCorridor(StartCores[p]) : p \in Players})
                           \ Block(<<Center, Center>>, CenterClear)
  <1>1. Validate(m, TargetWalls) /\ \E d \in Drafts : \E w \in CutTo(carved(d)) :
                                   m = MapRow(w, StartCores, d.nodes, TRUE)
    BY Zenon DEF SeedMaps
  <1>2. PICK d \in Drafts : \E w \in CutTo(carved(d)) : m = MapRow(w, StartCores, d.nodes, TRUE)
    BY <1>1
  <1>3. PICK w \in CutTo(carved(d)) : m = MapRow(w, StartCores, d.nodes, TRUE)
    BY <1>2
  <1>4. carved(d) \subseteq SymmetrizeInPlace(d.grid, d.protected)
    OBVIOUS
  <1>5. SymmetrizeInPlace(d.grid, d.protected) \subseteq Tiles \ d.protected
    BY DEF SymmetrizeInPlace
  <1> HIDE DEF carved
  <1>6. w \subseteq Tiles \ d.protected
    BY <1>3, <1>4, <1>5, CutTakes
  <1>7. m \in MapRecords /\ m.walls \cap (CoreTiles(m) \cup m.nodes) = {} /\ Cardinality(m.nodes) >= MinReach
    BY <1>3, <1>6, DraftIsClear
  <1>8. CheckConnectivity(m)
    BY <1>1 DEF Validate
  <1> QED BY <1>7, <1>8, ConnectedIsSound

\* A crossover is a row with symmetric walls.
LEMMA CrossoverFacts ==
  ASSUME NEW p \in MapRecords, NEW q \in MapRecords, NEW c \in Crossovers(p, q)
  PROVE  c \in MapRecords /\ Turned(c.walls)
  <1> DEFINE sector == {t \in Tiles : InSector0(t)}
             common == (p.walls \cap q.walls) \cap sector
             either == ((p.walls \cup q.walls) \ (p.walls \cap q.walls)) \cap sector
  <1>1. PICK w \in SUBSET either, n \in SUBSET (q.nodes \ p.nodes) :
          c = MapRow(Orbits(common \cup w), p.cores, p.nodes \cup n, TRUE)
    <2> DEFINE child(w, n) == MapRow(Orbits(common \cup w), p.cores, p.nodes \cup n, TRUE)
               W == SUBSET either
               M == SUBSET (q.nodes \ p.nodes)
    <2>1. Crossovers(p, q) = {child(w, n) : w \in W, n \in M}
      BY DEF Crossovers
    <2> HIDE DEF child, W, M
    <2>2. PICK w \in W, n \in M : c = child(w, n)
      BY <2>1
    <2> QED BY <2>2 DEF child, W, M
  <1>2. common \cup w \in SUBSET Tiles
    <2>1. common \subseteq sector /\ either \subseteq sector /\ sector \subseteq Tiles
      OBVIOUS
    <2> HIDE DEF common, either, sector
    <2> QED BY <1>1, <2>1
  <1>3. p.nodes \subseteq Tiles /\ q.nodes \subseteq Tiles /\ p.cores = StartCores
    BY DEF MapRecords
  <1> HIDE DEF common, either, sector
  <1>4. Turned(Orbits(common \cup w))
    BY <1>2, OrbitsAreTurned
  <1>5. PICK walls : walls = Orbits(common \cup w)
    OBVIOUS
  <1>6. PICK nodes : nodes = p.nodes \cup n
    OBVIOUS
  <1>7. c = MapRow(walls, StartCores, nodes, TRUE) /\ Turned(walls) /\ walls \subseteq Tiles /\ nodes \subseteq Tiles
    BY <1>1, <1>3, <1>4, <1>5, <1>6 DEF Turned
  <1> QED BY <1>7 DEF MapRow, MapRecords

\* A mutation flips whole orbits, moves a node where no wall stands, and clears the
\* walls off the cores and off the nodes it had.
LEMMA MutationFacts ==
  ASSUME NEW c \in MapRecords, Turned(c.walls), NEW m \in Mutations(c)
  PROVE  m \in MapRecords /\ m.walls \cap (CoreTiles(m) \cup m.nodes) = {}
  <1> DEFINE free == {t \in Tiles \ Protected(c) : InSector0(t)}
  <1>1. PICK flips \in UNION {kSubset(k, free) : k \in 0 .. MaxFlips} :
          m \in {[c EXCEPT !.walls = SmoothWalls(FlipWalls(c, flips), Protected(c)), !.nodes = n] :
                   n \in ShiftedNodes(c, FlipWalls(c, flips))}
    BY Zenon DEF Mutations
  <1>2. flips \subseteq Tiles
    <2>1. PICK k \in 0 .. MaxFlips : flips \in kSubset(k, free)
      BY Zenon
    <2> QED BY <2>1 DEF kSubset
  <1>3. PICK flipped : flipped = FlipWalls(c, flips)
    OBVIOUS
  <1>4. PICK n \in ShiftedNodes(c, flipped) :
          m = [c EXCEPT !.walls = SmoothWalls(flipped, Protected(c)), !.nodes = n]
    BY <1>1, <1>3, Zenon
  <1>5. Turned(flipped)
    <2>1. PICK off, on : off = flips \cap c.walls /\ on = flips \ c.walls
      OBVIOUS
    <2>2. off \in SUBSET Tiles /\ on \in SUBSET Tiles
      BY <1>2, <2>1
    <2>3. Turned(Orbits(off)) /\ Turned(Orbits(on))
      BY <2>2, OrbitsAreTurned
    <2>4. Turned((c.walls \ Orbits(off)) \cup Orbits(on))
      BY <2>3, OrbitsAreTurned
    <2>5. flipped = (c.walls \ Orbits(off)) \cup Orbits(on)
      BY <1>3, <2>1 DEF FlipWalls
    <2> QED BY <2>4, <2>5
  <1>6. PICK walls : walls = SmoothWalls(flipped, Protected(c))
    OBVIOUS
  <1>7. walls \subseteq flipped \ Protected(c) /\ walls \subseteq Tiles
    BY <1>5, <1>6, SmoothingTakes DEF Turned
  <1>8. c.nodes \subseteq Tiles /\ c.cores = StartCores /\ CoreTiles(c) = {StartCores[p] : p \in Players}
    BY CoreFacts DEF MapRecords
  <1>9. CoreTiles(c) \subseteq Protected(c) /\ c.nodes \subseteq Protected(c)
    <2>1. CoreTiles(c) \subseteq Tiles
      BY <1>8, CoreFacts DEF Players
    <2>2. CoreTiles(c) \subseteq Around(CoreTiles(c), CoreClear)
      BY <2>1, MarginFacts, MapForgeAssumption
    <2> QED BY <2>2 DEF Protected
  <1>10. n \subseteq Tiles /\ walls \cap n = {}
    <2>1. CASE n = c.nodes
      BY <1>7, <1>8, <1>9, <2>1
    <2>2. ASSUME NEW t \in c.nodes, NEW new \in Block(t, MaxShift),
                 n = (c.nodes \ {t, <<2 * Center - t[1], 2 * Center - t[2]>>}) \cup (Orbit(new) \ flipped)
          PROVE  n \subseteq Tiles /\ walls \cap n = {}
      <3>1. t \in Tiles
        BY <1>8
      <3>2. MaxShift \in Nat
        BY MapForgeAssumption
      <3>3. new \in Tiles
        BY <2>2, <3>1, <3>2, MarginFacts
      <3>4. Orbit(new) \subseteq Tiles
        BY <3>3, ImageFacts DEF Orbit
      <3>5. n \subseteq c.nodes \cup (Orbit(new) \ flipped)
        BY <2>2
      <3> QED BY <1>7, <1>8, <1>9, <3>4, <3>5
    <2>3. n = c.nodes \/ \E t \in c.nodes : \E new \in Block(t, MaxShift) :
            n = (c.nodes \ {t, <<2 * Center - t[1], 2 * Center - t[2]>>}) \cup (Orbit(new) \ flipped)
      BY <1>4, Zenon DEF ShiftedNodes
    <2> QED BY <2>1, <2>2, <2>3
  <1>11. m = [c EXCEPT !.walls = walls, !.nodes = n]
    BY <1>4, <1>6
  <1>12. m \in MapRecords /\ m.walls = walls /\ m.nodes = n
    BY <1>7, <1>10, <1>11 DEF MapRecords
  <1>13. CoreTiles(m) = CoreTiles(c)
    BY <1>8, <1>12, CoreFacts
  <1> QED BY <1>7, <1>9, <1>10, <1>12, <1>13

\* What the evolver breeds from two sound maps is sound once it is validated.
LEMMA BredIsSound ==
  ASSUME NEW p, SoundMap(p), NEW q, SoundMap(q), NEW c \in Crossovers(p, q), NEW m \in Mutations(c),
         Validate(m, Cardinality(m.walls))
  PROVE  SoundMap(m)
  <1>1. c \in MapRecords /\ Turned(c.walls)
    BY CrossoverFacts DEF SoundMap
  <1>2. m \in MapRecords /\ m.walls \cap (CoreTiles(m) \cup m.nodes) = {}
    BY <1>1, MutationFacts
  <1>3. CheckConnectivity(m) /\ \A r \in Players : CountReachableEnergyNodes(m, m.cores[r]) >= MinReach
    BY <1>2, CoreFacts DEF Validate
  <1> QED BY <1>2, <1>3, ConnectedIsSound

\* The pool and the parents read from it are sound.
MapForgeInv == \A m \in pool \cup parents : SoundMap(m)

\* An empty pool is sound.
LEMMA MapForgeBegins == MapForgeInit => MapForgeInv
BY DEF MapForgeInit, MapForgeInv

\* Loading, seeding and breeding each add one sound map.
LEMMA MapForgeStep == MapForgeInv /\ [MapForgeNext]_forgeVars => MapForgeInv'
  <1> SUFFICES ASSUME MapForgeInv, [MapForgeNext]_forgeVars PROVE MapForgeInv'
    OBVIOUS
  <1>1. CASE UNCHANGED forgeVars
    BY <1>1 DEF forgeVars, MapForgeInv
  <1>2. CASE LoadMapFile
    <2>1. PICK m \in MapgenMaps : pool' = pool \cup {[m EXCEPT !.whole = FALSE]}
      BY <1>2 DEF LoadMapFile, SaveMap
    <2>2. SoundMap([m EXCEPT !.whole = FALSE]) /\ parents' = parents
      BY <1>2, LoadedIsSound DEF LoadMapFile
    <2> QED BY <2>1, <2>2 DEF MapForgeInv
  <1>3. CASE SeedIfEmpty
    <2>1. PICK m \in SeedMaps : pool' = pool \cup {m}
      BY <1>3 DEF SeedIfEmpty, SaveMap
    <2>2. SoundMap(m) /\ parents' = parents
      BY <1>3, SeedIsSound DEF SeedIfEmpty
    <2> QED BY <2>1, <2>2 DEF MapForgeInv
  <1>4. CASE SelectParents
    BY <1>4 DEF SelectParents, MapForgeInv
  <1>5. CASE BreedPanics
    BY <1>5 DEF BreedPanics, MapForgeInv
  <1>6. CASE Breed
    <2>1. PICK pair \in ParentPairs(parents) : \E c \in Crossovers(pair[1], pair[2]) : \E m \in Mutations(c) :
            Validate(m, Cardinality(m.walls)) /\ SaveMap(m)
      BY <1>6 DEF Breed
    <2>2. PICK c \in Crossovers(pair[1], pair[2]) : \E m \in Mutations(c) :
            Validate(m, Cardinality(m.walls)) /\ SaveMap(m)
      BY <2>1
    <2>2a. PICK m \in Mutations(c) : Validate(m, Cardinality(m.walls)) /\ SaveMap(m)
      BY <2>2
    <2>3. SoundMap(pair[1]) /\ SoundMap(pair[2])
      BY DEF ParentPairs, MapForgeInv
    <2>4. SoundMap(m)
      BY <2>2a, <2>3, BredIsSound
    <2>5. parents' = parents /\ pool' = pool \cup {m}
      BY <1>6, <2>2a DEF Breed, SaveMap
    <2> QED BY <2>4, <2>5 DEF MapForgeInv
  <1>7. CASE EndEvolution
    BY <1>7 DEF EndEvolution, MapForgeInv
  <1> QED BY <1>1, <1>2, <1>3, <1>4, <1>5, <1>6, <1>7 DEF MapForgeNext

\* Loading a map with players missing leaves each one that is there a core and a unit.
LEMMA BoardIsReady ==
  ASSUME NEW m \in MapRecords, NEW b \in StartBoards(m)
  PROVE  /\ \A p \in Players : \E c \in b.cores : c[1] = p
         /\ b.units = b.cores
         /\ \A c \in b.cores : c[2] \notin b.walls
  <1> DEFINE cut(missing) == [m EXCEPT !.cores = [p \in (DOMAIN m.cores) \ missing |-> m.cores[p]]]
             homes == {<<p, StartCores[p]>> : p \in Players}
             tiles == {c[2] : c \in homes}
             boards(l) == IF l.loaded THEN {l}
                          ELSE {GenerateOnto(l, energy, walls) :
                                  energy \in PlaceEnergyNodes, walls \in {{}} \cup {{t} : t \in Tiles}}
  <1>1. PICK missing \in SUBSET Players : b \in boards(LoadPreGeneratedMap(cut(missing)))
    <2>1. StartBoards(m) = UNION {boards(LoadPreGeneratedMap(cut(missing))) : missing \in SUBSET Players}
      BY DEF StartBoards
    <2> HIDE DEF boards, cut
    <2> QED BY <2>1, Zenon
  <1>2. PICK here, left : here = Players \ missing /\ left = cut(missing)
    OBVIOUS
  <1>3. left.walls = m.walls /\ left.cores = [p \in here |-> StartCores[p]] /\ DOMAIN left.cores = here
    <2>1. m.cores = StartCores /\ DOMAIN m.cores = Players
      BY CoreFacts
    <2>2. PICK kept : kept = [p \in (DOMAIN m.cores) \ missing |-> m.cores[p]]
      OBVIOUS
    <2>3. kept = [p \in here |-> StartCores[p]]
      BY <1>2, <2>1, <2>2
    <2>4. left = [m EXCEPT !.cores = kept]
      BY <1>2, <2>2
    <2>5. left.walls = m.walls /\ left.cores = kept
      BY <2>4 DEF MapRecords
    <2> QED BY <2>3, <2>5
  <1>4. \A p \in here : left.cores[p] = StartCores[p]
    BY <1>3
  <1>5. here \cap Players = here /\ here \subseteq Players
    BY <1>2
  <1>6. PICK loaded : loaded = LoadPreGeneratedMap(left)
    OBVIOUS
  <1>6a. b \in boards(loaded)
    <2> HIDE DEF boards, cut
    <2>1. loaded = LoadPreGeneratedMap(cut(missing))
      BY <1>2, <1>6
    <2> QED BY <1>1, <2>1
  <1>7. loaded = [walls |-> m.walls \ {StartCores[p] : p \in here},
                  cores |-> {<<p, StartCores[p]>> : p \in here},
                  units |-> {<<p, StartCores[p]>> : p \in here}, loaded |-> here = Players]
    <2>1. {left.cores[p] : p \in here} = {StartCores[p] : p \in here}
      BY <1>4
    <2>2. {<<p, left.cores[p]>> : p \in here} = {<<p, StartCores[p]>> : p \in here}
      BY <1>4
    <2>3. DOMAIN left.cores \cap Players = here
      BY <1>3, <1>5
    <2> QED BY <1>3, <1>6, <2>1, <2>2, <2>3, Zenon DEF LoadPreGeneratedMap
  <1>8. /\ \A p \in Players : \E c \in homes : c[1] = p
        /\ \A c \in homes : c[2] \in tiles
    <2>1. ASSUME NEW p \in Players PROVE \E c \in homes : c[1] = p
      <3>1. PICK c : c = <<p, StartCores[p]>>
        OBVIOUS
      <3>2. c \in homes /\ c[1] = p
        BY <3>1
      <3> QED BY <3>2
    <2> QED BY <2>1
  <1>9. CASE here = Players
    <2>1. loaded.loaded
      BY <1>7, <1>9
    <2>1a. b = loaded
      BY <1>6a, <2>1
    <2>2. b.cores = homes /\ b.units = homes /\ b.walls = m.walls \ {StartCores[p] : p \in Players}
      BY <1>7, <1>9, <2>1a
    <2>3. \A c \in homes : c[2] \notin b.walls
      BY <2>2
    <2> HIDE DEF homes
    <2> QED BY <1>8, <2>2, <2>3
  <1>10. CASE here # Players
    <2>1. ~loaded.loaded
      BY <1>7, <1>10
    <2>2. PICK energy \in PlaceEnergyNodes, walls \in {{}} \cup {{t} : t \in Tiles} :
            b = GenerateOnto(loaded, energy, walls)
      BY <1>6a, <2>1
    <2>3. loaded.cores \cup homes = homes /\ loaded.units \cup homes = homes
      BY <1>5, <1>7
    <2>4. PICK cored : cored = [loaded EXCEPT !.cores = @ \cup homes, !.units = @ \cup homes,
                                              !.walls = @ \ tiles]
      OBVIOUS
    <2>5. b = PlaceWalls(cored, energy, walls)
      BY <2>2, <2>4, Zenon DEF GenerateOnto
    <2> HIDE DEF homes, tiles
    <2>6. /\ cored.cores = homes /\ cored.units = homes /\ cored.walls = loaded.walls \ tiles
          /\ DOMAIN cored = {"walls", "cores", "units", "loaded"}
      BY <1>7, <2>3, <2>4
    <2>7. PICK taken : taken = {c[2] : c \in cored.cores} \cup energy
      OBVIOUS
    <2>8. PICK more : more = UNION {Orbit(t) \ taken : t \in walls \ taken}
      OBVIOUS
    <2>9. b = [cored EXCEPT !.walls = @ \cup more]
      BY <2>5, <2>7, <2>8, Zenon DEF PlaceWalls
    <2>10. b.cores = homes /\ b.units = homes /\ b.walls = (loaded.walls \ tiles) \cup more
      BY <2>6, <2>9
    <2>11. tiles \subseteq taken
      BY <2>6, <2>7 DEF tiles
    <2>12. more \cap taken = {}
      BY <2>8
    <2>13. \A c \in homes : c[2] \notin b.walls
      BY <1>8, <2>10, <2>11, <2>12
    <2> QED BY <1>8, <2>10, <2>13
  <1> QED BY <1>9, <1>10

\* Every map the pool ever holds can be played, and every board the match runner
\* makes of one is ready to play on, for a square board of any size with any margins,
\* corridors and thresholds, however many maps are loaded, seeded and bred.
THEOREM MapsStaySound == MapForgeSpec => []MapsAreSound
  <1>1. MapForgeInv => MapsAreSound
    <2> SUFFICES ASSUME MapForgeInv PROVE MapsAreSound
      OBVIOUS
    <2>1. ASSUME NEW m \in pool
          PROVE  /\ m.walls \cap (CoreTiles(m) \cup m.nodes) = {}
                 /\ \E t \in Tiles \ m.walls : Reach(m.walls, t) = Tiles \ m.walls
                 /\ \A p \in Players : Cardinality(Reach(m.walls, m.cores[p]) \cap m.nodes) >= MinReach
      <3>1. SoundMap(m)
        BY DEF MapForgeInv
      <3>2. StartCores[0] \in Tiles \ m.walls
        BY <3>1, CoreFacts DEF SoundMap
      <3> QED BY <3>1, <3>2 DEF SoundMap
    <2>2. PlayableMaps
      BY <2>1 DEF PlayableMaps
    <2>3. ReadyBoards
      BY BoardIsReady DEF ReadyBoards, MapForgeInv, SoundMap
    <2> QED BY <2>2, <2>3 DEF MapsAreSound
  <1> QED BY <1>1, MapForgeBegins, MapForgeStep, PTL DEF MapForgeSpec

=============================================================================
