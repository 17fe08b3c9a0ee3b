------------------------------- MODULE Accounts -------------------------------
(***************************************************************************)
(* Bot accounts: the API handlers that register a bot, rotate or revoke    *)
(* its credential and patch its settings (cmd/acb-api/server.go), running  *)
(* in any interleaving with the matchmaker's health checker                *)
(* (cmd/acb-matchmaker/tickers.go), which reads a snapshot of the bots and *)
(* writes one row per HTTP probe.                                          *)
(*                                                                         *)
(* A credential is the number under which it was generated; encryption at  *)
(* rest is a bijection on credentials that fails only when the key does.   *)
(***************************************************************************)
EXTENDS Integers, FiniteSets

CONSTANTS
  Names,          \* valid bot names; a name stands for its row's bot_id too
  Clients,        \* API requests in flight at a time
  MaxSecrets,     \* bound: credentials ever generated
  MaxConsecFails, \* Config.MaxConsecFails
  MaxAccountFaults \* bound: failed statements and lost answers

ASSUME AccountsConstants ==
  /\ IsFiniteSet(Names) /\ MaxSecrets \in Nat
  /\ MaxConsecFails \in Nat \ {0} /\ MaxAccountFaults \in Nat

VARIABLES
  row,      \* the bots table: name -> [status, fails, secret, debug]
  up,       \* names whose endpoint answers /health with 200
  req,      \* per client: the handler's locals between two of its statements
  issued,   \* credentials generated so far
  told,     \* <<name, credential>> pairs delivered in an answer
  revoked,  \* history: names whose credential was revoked
  revived,  \* history: names the health checker wrote while they were retired
  snap,     \* health checker: name -> [status, fails] still to be probed
  probe,    \* health checker: the probe whose result is not written yet
  mishaps   \* faults so far

accountVars == <<row, up, req, issued, told, revoked, revived, snap, probe, mishaps>>
registry == <<revoked, revived>>
checker == <<snap, probe>>

Idle == [kind |-> "none"]
NoRow == [status |-> "none", fails |-> 0, secret |-> 0, debug |-> FALSE]
NoProbe == [name |-> "none"]

AccountsInit ==
  /\ row = [n \in Names |-> NoRow] /\ up \in SUBSET Names
  /\ req = [c \in Clients |-> Idle] /\ issued = 0
  /\ told = {} /\ revoked = {} /\ revived = {}
  /\ snap = <<>> /\ probe = NoProbe /\ mishaps = 0

Mishap == mishaps < MaxAccountFaults /\ mishaps' = mishaps + 1
Begin(c, r) == req[c] = Idle /\ req' = [req EXCEPT ![c] = r]
Finish(c) == req' = [req EXCEPT ![c] = Idle]

\* A fresh credential (generateSecret, then encryptSecret under the stored key).
GenerateSecret == issued < MaxSecrets /\ issued' = issued + 1

\* The answer reaches the client, or is lost with the connection after the
\* statement was executed.
Deliver(n, s) == \/ told' = told \cup {<<n, s>>} /\ mishaps' = mishaps
                 \/ Mishap /\ told' = told

(***************************************************************************)
(* Registration: SELECT by name, probe the endpoint, INSERT.               *)
(***************************************************************************)
RegisterSelect(c, n) ==
  /\ row[n].status = "none"
  /\ Begin(c, [kind |-> "register", name |-> n, step |-> "probe"])
  /\ UNCHANGED <<row, up, issued, told, registry, checker, mishaps>>

\* GET <endpoint>/health must answer 200; redirects are not followed.
ValidateBotEndpoint(c) ==
  /\ req[c].kind = "register" /\ req[c].step = "probe"
  /\ IF req[c].name \in up THEN req' = [req EXCEPT ![c].step = "insert"] ELSE Finish(c)
  /\ UNCHANGED <<row, up, issued, told, registry, checker, mishaps>>

\* INSERT ... ON CONFLICT (name) DO NOTHING; no row inserted is answered 409.
InsertBot(c, n) ==
  IF row[n].status = "none"
  THEN /\ row' = [row EXCEPT ![n] = [status |-> "active", fails |-> 0, secret |-> issued', debug |-> FALSE]]
       /\ Deliver(n, issued')
  ELSE UNCHANGED <<row, told, mishaps>>

RegisterInsert(c) ==
  /\ req[c].kind = "register" /\ req[c].step = "insert"
  /\ GenerateSecret /\ InsertBot(c, req[c].name) /\ Finish(c)
  /\ UNCHANGED <<up, revoked, revived, checker>>

(***************************************************************************)
(* Credentials.  The client supplies a pair it was told.                   *)
(***************************************************************************)
StoredSecretMatches(n, s) == row[n].status # "none" /\ row[n].secret = s

\* SELECT shared_secret, status; the checks of the handler.
RotateSelect(c, n, s, retire) ==
  /\ <<n, s>> \in told /\ StoredSecretMatches(n, s) /\ row[n].status # "retired"
  /\ Begin(c, [kind |-> "rotate", name |-> n, retire |-> retire])
  /\ UNCHANGED <<row, up, issued, told, registry, checker, mishaps>>

\* Mutant: UPDATE bots SET shared_secret = $1 WHERE bot_id = $2, the status
\* having been checked by the SELECT.
RotateTargetAny(n) == TRUE

\* WHERE bot_id = $2 AND status <> 'retired'
RotateTarget(n) == row[n].status # "retired"

RotateUpdate(c) ==
  LET n == req[c].name IN
  /\ req[c].kind = "rotate" /\ GenerateSecret /\ Finish(c)
  /\ IF RotateTarget(n)
     THEN /\ row' = [row EXCEPT ![n].secret = issued',
                                ![n].status = IF req[c].retire THEN "retired" ELSE @]
          /\ IF req[c].retire THEN UNCHANGED <<told, mishaps>> ELSE Deliver(n, issued')
     ELSE UNCHANGED <<row, told, mishaps>>
  /\ UNCHANGED <<up, registry, checker>>

\* One transaction over the row locked FOR UPDATE: the new credential is
\* never delivered.
RevokeKey(c, n, s) ==
  /\ req[c] = Idle
  /\ <<n, s>> \in told /\ StoredSecretMatches(n, s) /\ row[n].status # "retired"
  /\ GenerateSecret
  /\ row' = [row EXCEPT ![n].secret = issued', ![n].status = "retired"]
  /\ revoked' = revoked \cup {n} /\ revived' = revived \ {n}
  /\ UNCHANGED <<up, req, told, checker, mishaps>>

\* handleBotPatch asks only for a matching credential, whatever the status.
PatchSelect(c, n, s, debug) ==
  /\ <<n, s>> \in told /\ StoredSecretMatches(n, s)
  /\ Begin(c, [kind |-> "patch", name |-> n, debug |-> debug])
  /\ UNCHANGED <<row, up, issued, told, registry, checker, mishaps>>

PatchUpdate(c) ==
  /\ req[c].kind = "patch" /\ Finish(c)
  /\ row' = [row EXCEPT ![req[c].name].debug = req[c].debug]
  /\ UNCHANGED <<up, issued, told, registry, checker, mishaps>>

\* A statement fails or the request's context ends between two statements.
AbandonRequest(c) ==
  /\ req[c] # Idle /\ Mishap /\ Finish(c)
  /\ UNCHANGED <<row, up, issued, told, registry, checker>>

(***************************************************************************)
(* The health checker.                                                     *)
(***************************************************************************)
HealthSelect ==
  /\ DOMAIN snap = {} /\ probe = NoProbe
  /\ snap' = [n \in {m \in Names : row[m].status \in {"active", "inactive"}}
                |-> [status |-> row[n].status, fails |-> row[n].fails]]
  /\ UNCHANGED <<row, up, req, issued, told, registry, probe, mishaps>>

\* GET <endpoint>/health of one row of the snapshot.
HealthProbe(n) ==
  /\ n \in DOMAIN snap /\ probe = NoProbe
  /\ probe' = [name |-> n, healthy |-> n \in up, seen |-> snap[n]]
  /\ snap' = [m \in DOMAIN snap \ {n} |-> snap[m]]
  /\ UNCHANGED <<row, up, req, issued, told, registry, mishaps>>

\* Mutant: only an inactive bot is reset, so old failures are never forgiven
\* and a recovered bot is not promoted back.
HealthVerdictStuck(seen, healthy) ==
  LET fails == IF seen.fails >= MaxConsecFails THEN seen.fails ELSE seen.fails + 1
  IN IF healthy THEN seen
     ELSE [status |-> IF fails >= MaxConsecFails THEN "inactive" ELSE seen.status, fails |-> fails]

\* What is written after a probe, from what the snapshot said.  A count at the
\* threshold stands for every count above it.
HealthVerdict(seen, healthy) ==
  LET fails == IF seen.fails >= MaxConsecFails THEN seen.fails ELSE seen.fails + 1
  IN IF healthy THEN [status |-> "active", fails |-> 0]
     ELSE [status |-> IF fails >= MaxConsecFails THEN "inactive" ELSE seen.status, fails |-> fails]

\* UPDATE ... WHERE bot_id = $n, without a look at the present status; the
\* error of the statement is ignored.  An active bot that had no failures and
\* is healthy is not written; an unhealthy one always is.
HealthWrite ==
  LET n == probe.name
      v == HealthVerdict(probe.seen, probe.healthy)
      writes == ~probe.healthy \/ v # probe.seen
  IN /\ probe # NoProbe /\ probe' = NoProbe
     /\ \/ /\ writes
           /\ row' = [row EXCEPT ![n].status = v.status, ![n].fails = v.fails]
           /\ revived' = IF row[n].status = "retired" THEN revived \cup {n} ELSE revived
           /\ mishaps' = mishaps
        \/ ~writes /\ UNCHANGED <<row, revived, mishaps>>
        \/ writes /\ Mishap /\ UNCHANGED <<row, revived>>
     /\ UNCHANGED <<up, req, issued, told, revoked, snap>>

\* The bot's own endpoint comes and goes.
EndpointFlips(n) ==
  /\ up' = IF n \in up THEN up \ {n} ELSE up \cup {n}
  /\ UNCHANGED <<row, req, issued, told, registry, checker, mishaps>>

AccountsNext ==
  \/ \E c \in Clients :
       \/ \E n \in Names : RegisterSelect(c, n)
       \/ ValidateBotEndpoint(c)
       \/ RegisterInsert(c)
       \/ \E n \in Names, s \in 1..issued, retire \in BOOLEAN : RotateSelect(c, n, s, retire)
       \/ RotateUpdate(c)
       \/ \E n \in Names, s \in 1..issued : RevokeKey(c, n, s)
       \/ \E n \in Names, s \in 1..issued, debug \in BOOLEAN : PatchSelect(c, n, s, debug)
       \/ PatchUpdate(c)
       \/ AbandonRequest(c)
  \/ HealthSelect
  \/ \E n \in Names : HealthProbe(n)
  \/ HealthWrite
  \/ \E n \in Names : EndpointFlips(n)

AccountsSpec == AccountsInit /\ [][AccountsNext]_accountVars

(***************************************************************************)
(* Properties.                                                             *)
(***************************************************************************)

\* A revoked bot stays retired under a credential nobody was told, through
\* rotations and patches that had passed their checks before the revocation,
\* as long as the health checker did not write its row (handleRevokeKey
\* "permanently retires the bot").  The exception is real: a probe begun before
\* the revocation puts the bot back into service (tickers.go:545).
RevocationStands ==
  \A n \in revoked \ revived : row[n].status = "retired" /\ <<n, row[n].secret>> \notin told

\* A bot in service whose endpoint settles is in the end what its endpoint is:
\* active when it answers, inactive when it does not (tickHealthChecker).
HealthConverges ==
  \A n \in Names :
    /\ <>[](n \in up) => <>[](row[n].status # "inactive")
    /\ <>[](n \notin up) => <>[](row[n].status # "active")
=============================================================================
