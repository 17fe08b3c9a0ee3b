-------------------------------- MODULE Limits --------------------------------
(***************************************************************************)
(* The token buckets in front of the public API handlers                   *)
(* (ratelimit/ratelimit.go, with the hourly Cleanup of cmd/acb-api/main.go)*)
(* Each call runs under the bucket's mutex, so a call is one step.         *)
(*                                                                         *)
(* Tokens are counted in units such that one tick refills one unit and a   *)
(* request costs Cost of them.                                             *)
(***************************************************************************)
EXTENDS Integers

CONSTANTS
  Burst,        \* Limiter.max, in units
  Cost,         \* units of one token
  MaxAge,       \* argument of Cleanup: Burst ticks for every limiter of main.go
  MaxTime       \* bound: ticks

ASSUME LimitsConstants ==
  /\ {Burst, Cost} \subseteq Nat \ {0} /\ {MaxAge, MaxTime} \subseteq Nat
  /\ MaxAge >= Burst

VARIABLES
  clock,     \* now, in ticks
  bucket,    \* the bucket of one key: <<>> when there is none, else <<[tokens, last]>>
  admitted   \* history: tick -> requests admitted up to the end of that tick

limitVars == <<clock, bucket, admitted>>

LimitsInit ==
  /\ clock = 0 /\ bucket = <<>> /\ admitted = [t \in 0..MaxTime |-> 0]

Tick == clock < MaxTime /\ clock' = clock + 1 /\ UNCHANGED <<bucket, admitted>>

NewBucket == [tokens |-> Burst, last |-> clock]

\* Mutant: the refill is credited and lastTime stays, so it is credited again.
RefilledTwice(b) ==
  [b EXCEPT !.tokens = IF b.tokens + clock - b.last > Burst THEN Burst ELSE b.tokens + clock - b.last]

\* The refill since the last call, capped.
Refilled(b) ==
  [tokens |-> IF b.tokens + clock - b.last > Burst THEN Burst ELSE b.tokens + clock - b.last,
   last |-> clock]

\* Limiter.AllowN(key, 1) under Middleware: a refused request changes the
\* bucket's clock and nothing else.
AllowN ==
  LET b == Refilled(IF bucket = <<>> THEN NewBucket ELSE bucket[1])
      ok == b.tokens >= Cost
  IN /\ bucket' = <<IF ok THEN [b EXCEPT !.tokens = @ - Cost] ELSE b>>
     /\ admitted' = IF ok THEN [t \in 0..MaxTime |-> IF t < clock THEN admitted[t] ELSE admitted[t] + 1]
                         ELSE admitted
     /\ UNCHANGED clock

\* Buckets not called for longer than MaxAge are dropped.
Cleanup ==
  /\ bucket # <<>> /\ bucket[1].last < clock - MaxAge
  /\ bucket' = <<>>
  /\ UNCHANGED <<clock, admitted>>

LimitsNext == Tick \/ AllowN \/ Cleanup

LimitsSpec == LimitsInit /\ [][LimitsNext]_limitVars

\* Requests admitted in the ticks from..to.
Admitted(from, to) == admitted[to] - (IF from = 0 THEN 0 ELSE admitted[from - 1])

\* Over every window the requests admitted are paid for by one burst and the
\* refill of the window, also when the bucket was dropped and made anew in
\* between (AllowN, Cleanup).
RateIsBounded ==
  \A from \in 0..clock, to \in 0..clock :
    from <= to => Cost * Admitted(from, to) <= Burst + to - from
=============================================================================
