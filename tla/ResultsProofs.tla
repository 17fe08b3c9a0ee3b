--------------------------- MODULE ResultsProofs ---------------------------
(***************************************************************************)
(* Proofs about what follows the result of a match: the ratings and the    *)
(* predictors' statistics (Verdicts), and the replays and live feeds a     *)
(* worker publishes (Replays).                                             *)
(***************************************************************************)
EXTENDS Verdicts, Replays, FiniteSetTheorems, TLAPS

(***************************************************************************)
(* Ratings.                                                                *)
(***************************************************************************)
\* The writes of ratings so far.
LogEntries == [event : RatingEvents \cup Rewrites, seen : Nat, done : SUBSET VMatches]

\* What a worker holds: nothing, a job it found, or a claim with what it read.
HoldStates ==
  {NoHold} \cup [step : {"found"}, match : VMatches]
    \cup [step : {"claimed"}, match : VMatches, read : [VBots -> SUBSET Nat], at : Nat]

HoldsTypeOK == held \in [VWorkers -> HoldStates]

\* A writer has read a part of the history that ends before its write.
SeenEarlier(l) == \A i \in 1 .. Len(l) : l[i].seen < i

\* What a claim has read lacks no more than the ratings did when it read them.
ReadsAreSound ==
  \A w \in VWorkers : held[w].step = "claimed" =>
    /\ held[w].at <= Len(log)
    /\ \A b \in VBots : LosesOnlyToOverlap(log, held[w].read[b], held[w].at)

\* completed_at names the last result of a match.
CompletionsAreLast ==
  /\ completedAt \in [VMatches -> Nat]
  /\ \A m \in VMatches :
       /\ mstate[m] = "completed" => completedAt[m] # 0
       /\ completedAt[m] # 0 => completedAt[m] \in 1 .. Len(log)
                                /\ LastResult(log, m, completedAt[m], Len(log))

\* What a recalculation has read holds the last result of every match that was
\* completed.
RecalcReadIsSound ==
  recalc.step = "read" =>
    /\ recalc.at \in Nat /\ recalc.at <= Len(log) /\ recalc.done \subseteq VMatches
    /\ recalc.rows \subseteq Nat
    /\ \A m \in recalc.done : \E e \in recalc.rows : e \in 1 .. recalc.at
                                                     /\ LastResult(log, m, e, recalc.at)

\* The inductive invariant of the ratings.
RatingsInv ==
  /\ HoldsTypeOK
  /\ log \in Seq(LogEntries) /\ SeenEarlier(log)
  /\ mstate \in [VMatches -> {"pending", "running", "completed", "failed"}]
  /\ ratings \in [VBots -> SUBSET Nat]
  /\ ReadsAreSound
  /\ CompletionsAreLast
  /\ RecalcReadIsSound
  /\ RatingsLoseOnlyToOverlap

\* Nothing is held and nothing was played at first.
LEMMA RatingsBegin == VerdictsInit => RatingsInv
<1> SUFFICES ASSUME VerdictsInit PROVE RatingsInv
  OBVIOUS
<1>1. held = [w \in VWorkers |-> NoHold] /\ \A w \in VWorkers : held[w].step = "idle"
  BY DEF VerdictsInit, NoHold
<1>2. log = <<>> /\ Len(log) = 0 /\ log \in Seq(LogEntries) /\ SeenEarlier(log)
  BY DEF VerdictsInit, SeenEarlier
<1>3. HoldsTypeOK /\ ReadsAreSound
  BY <1>1 DEF HoldsTypeOK, HoldStates, ReadsAreSound
<1>4. CompletionsAreLast /\ RecalcReadIsSound
  BY DEF VerdictsInit, CompletionsAreLast, RecalcReadIsSound
<1>5. /\ mstate \in [VMatches -> {"pending", "running", "completed", "failed"}]
      /\ ratings \in [VBots -> SUBSET Nat]
  BY DEF VerdictsInit
<1>6. RatingsLoseOnlyToOverlap
  BY <1>2 DEF RatingsLoseOnlyToOverlap, LosesOnlyToOverlap
<1> QED BY <1>2, <1>3, <1>4, <1>5, <1>6 DEF RatingsInv


\* What is so of the first n writes stays so when another is appended.
LEMMA LastStays ==
  ASSUME NEW l \in Seq(LogEntries), NEW x \in LogEntries, NEW n \in Nat, n <= Len(l),
         NEW m, NEW e \in 1 .. n
  PROVE  LastResult(Append(l, x), m, e, n) <=> LastResult(l, m, e, n)
<1>1. \A i \in 1 .. n : Append(l, x)[i] = l[i]
  OBVIOUS
<1> QED BY <1>1 DEF LastResult

\* And so does what a rating lacks.
LEMMA LossesStay ==
  ASSUME NEW l \in Seq(LogEntries), NEW x \in LogEntries, NEW n \in Nat, n <= Len(l), NEW s,
         SeenEarlier(l), LosesOnlyToOverlap(l, s, n)
  PROVE  LosesOnlyToOverlap(Append(l, x), s, n)
<1> DEFINE k == Append(l, x)
<1>1. \A i \in 1 .. n : k[i] = l[i] /\ l[i].seen \in Nat /\ l[i].seen < i
  <2> SUFFICES ASSUME NEW i \in 1 .. n PROVE k[i] = l[i] /\ l[i].seen \in Nat /\ l[i].seen < i
    OBVIOUS
  <2>1. i \in 1 .. Len(l) /\ l[i] \in LogEntries /\ k[i] = l[i]
    OBVIOUS
  <2> QED BY <2>1 DEF SeenEarlier, LogEntries
<1>2. ASSUME NEW e \in 1 .. n
      PROVE  (Overtaken(k, e, n) <=> Overtaken(l, e, n))
             /\ (NoRewriteSince(k, e, n) <=> NoRewriteSince(l, e, n))
  BY <1>1 DEF Overtaken, NoRewriteSince
<1>3. ASSUME NEW r \in 1 .. n, k[r].event = "replay", NoRewriteSince(k, r, n), NEW m \in k[r].done
      PROVE  Overtaken(k, r, n) \/ \E e \in s : e \in 1 .. k[r].seen
                                               /\ LastResult(k, m, e, k[r].seen)
  <2> DEFINE j == l[r].seen
  <2>1. k[r] = l[r] /\ j \in Nat /\ j <= Len(l)
    BY <1>1
  <2>2. Overtaken(l, r, n) \/ \E e \in s : e \in 1 .. j /\ LastResult(l, m, e, j)
    BY <1>2, <1>3, <2>1 DEF LosesOnlyToOverlap
  <2>3. \A e \in 1 .. j : LastResult(k, m, e, j) <=> LastResult(l, m, e, j)
    BY <2>1, LastStays
  <2> QED BY <1>2, <2>1, <2>2, <2>3
<1> HIDE DEF k
<1>4. \A e \in 1 .. n : k[e].event \in RatingEvents /\ NoRewriteSince(k, e, n)
                          => e \in s \/ Overtaken(k, e, n)
  BY <1>1, <1>2 DEF LosesOnlyToOverlap
<1>5. LosesOnlyToOverlap(k, s, n)
  BY <1>3, <1>4 DEF LosesOnlyToOverlap
<1> QED BY <1>5 DEF k

\* A result or a decay that is added to what was read after the first n writes
\* loses what was written since, and nothing else.
LEMMA AddingLoses ==
  ASSUME NEW l \in Seq(LogEntries), NEW n \in Nat, n <= Len(l), NEW s, SeenEarlier(l),
         LosesOnlyToOverlap(l, s, n), NEW x \in LogEntries, x.event \in RatingEvents, x.seen = n
  PROVE  LosesOnlyToOverlap(Append(l, x), s \cup {Len(l) + 1}, Len(l) + 1)
<1> DEFINE k == Append(l, x)
           N == Len(l) + 1
<1>1. LosesOnlyToOverlap(k, s, n)
  BY LossesStay
<1>2. k[N] = x /\ N \in Nat /\ n < N
  OBVIOUS
<1>3. \A r \in 1 .. N : r > n /\ r # N => Overtaken(k, r, N)
  <2> HIDE DEF k
  <2> QED BY <1>2 DEF Overtaken
<1> HIDE DEF k, N
<1>4. \A r \in 1 .. n : /\ Overtaken(k, r, n) => Overtaken(k, r, N)
                        /\ NoRewriteSince(k, r, N) => NoRewriteSince(k, r, n)
  BY <1>2 DEF Overtaken, NoRewriteSince
<1>5. ASSUME NEW e \in 1 .. N, k[e].event \in RatingEvents, NoRewriteSince(k, e, N)
      PROVE  e \in s \cup {N} \/ Overtaken(k, e, N)
  <2>1. CASE e \in 1 .. n
    BY <1>1, <1>4, <1>5, <2>1 DEF LosesOnlyToOverlap
  <2>2. CASE e = N
    BY <2>2
  <2>3. CASE e > n /\ e # N
    BY <1>3, <2>3
  <2> QED BY <1>2, <2>1, <2>2, <2>3
<1>6. ASSUME NEW r \in 1 .. N, k[r].event = "replay", NoRewriteSince(k, r, N), NEW m \in k[r].done
      PROVE  Overtaken(k, r, N) \/ \E e \in s \cup {N} : e \in 1 .. k[r].seen
                                                        /\ LastResult(k, m, e, k[r].seen)
  <2>1. CASE r \in 1 .. n
    BY <1>1, <1>4, <1>6, <2>1 DEF LosesOnlyToOverlap
  <2>2. r # N
    BY <1>2, <1>6, VerdictsConstants DEF RatingEvents
  <2>3. CASE r > n
    BY <1>3, <2>2, <2>3
  <2> QED BY <1>2, <2>1, <2>3
<1>7. LosesOnlyToOverlap(k, s \cup {N}, N)
  BY <1>5, <1>6 DEF LosesOnlyToOverlap
<1> QED BY <1>7 DEF k, N

\* A reset loses everything, as it should, and a replay restores what it has read.
LEMMA RewritingLoses ==
  ASSUME NEW l \in Seq(LogEntries), NEW x \in LogEntries, x.event \in Rewrites, NEW s,
         x.event = "replay" => \A m \in x.done : \E e \in s : e \in 1 .. x.seen
                                                   /\ LastResult(l, m, e, x.seen),
         x.seen <= Len(l)
  PROVE  LosesOnlyToOverlap(Append(l, x), s, Len(l) + 1)
<1> DEFINE k == Append(l, x)
           N == Len(l) + 1
<1>1. k[N] = x /\ N \in Nat /\ x.seen \in Nat
  BY DEF LogEntries
<1>2. \A m : \A e \in 1 .. x.seen : LastResult(k, m, e, x.seen) <=> LastResult(l, m, e, x.seen)
  BY <1>1, LastStays
<1> HIDE DEF k, N
<1>3. ASSUME NEW e \in 1 .. N, NoRewriteSince(k, e, N) PROVE e = N
  BY <1>1, <1>3 DEF NoRewriteSince
<1>4. x.event \notin RatingEvents
  BY VerdictsConstants DEF RatingEvents, Rewrites
<1>5. \A e \in 1 .. N : k[e].event \in RatingEvents /\ NoRewriteSince(k, e, N)
                          => e \in s \/ Overtaken(k, e, N)
  BY <1>1, <1>3, <1>4
<1>6. ASSUME NEW r \in 1 .. N, k[r].event = "replay", NoRewriteSince(k, r, N), NEW m \in k[r].done
      PROVE  \E e \in s : e \in 1 .. k[r].seen /\ LastResult(k, m, e, k[r].seen)
  <2>1. r = N /\ k[r] = x
    BY <1>1, <1>3, <1>6
  <2> QED BY <1>2, <1>6, <2>1
<1>7. LosesOnlyToOverlap(k, s, N)
  BY <1>5, <1>6 DEF LosesOnlyToOverlap
<1> QED BY <1>7 DEF k, N

\* A write appended to the history: what claims and recalculations have read, and
\* the completions of other matches, are as sound as they were.
LEMMA AppendKeepsReads ==
  ASSUME RatingsInv, NEW x \in LogEntries, log' = Append(log, x), x.seen <= Len(log)
  PROVE  /\ log' \in Seq(LogEntries) /\ SeenEarlier(log') /\ Len(log') = Len(log) + 1
         /\ \A w \in VWorkers : held[w].step = "claimed" =>
              /\ held[w].at <= Len(log')
              /\ \A b \in VBots : LosesOnlyToOverlap(log', held[w].read[b], held[w].at)
         /\ recalc' = recalc => RecalcReadIsSound'
         /\ \A m \in VMatches : completedAt[m] # 0 /\ x.event # m =>
              completedAt[m] \in 1 .. Len(log') /\ LastResult(log', m, completedAt[m], Len(log'))
<1> USE DEF RatingsInv
<1>1. /\ log' \in Seq(LogEntries) /\ Len(log') = Len(log) + 1 /\ Len(log) \in Nat
      /\ log'[Len(log) + 1] = x /\ \A i \in 1 .. Len(log) : log'[i] = log[i]
  OBVIOUS
<1>2. SeenEarlier(log')
  <2> SUFFICES ASSUME NEW i \in 1 .. Len(log') PROVE log'[i].seen < i
    BY DEF SeenEarlier
  <2>1. CASE i = Len(log) + 1
    BY <1>1, <2>1 DEF LogEntries
  <2>2. CASE i # Len(log) + 1
    BY <1>1, <2>2 DEF SeenEarlier
  <2> QED BY <2>1, <2>2
<1>3. ASSUME NEW w \in VWorkers, held[w].step = "claimed"
      PROVE  /\ held[w].at <= Len(log')
             /\ \A b \in VBots : LosesOnlyToOverlap(log', held[w].read[b], held[w].at)
  <2>1. held[w].at \in Nat /\ held[w].at <= Len(log)
    BY <1>3 DEF ReadsAreSound, HoldsTypeOK, HoldStates, NoHold
  <2>2. \A b \in VBots : LosesOnlyToOverlap(log, held[w].read[b], held[w].at)
    BY <1>3 DEF ReadsAreSound
  <2> QED BY <1>1, <2>1, <2>2, LossesStay
<1>4. ASSUME recalc' = recalc PROVE RecalcReadIsSound'
  <2> SUFFICES ASSUME recalc.step = "read", NEW m \in recalc.done
               PROVE  \E e \in recalc.rows : e \in 1 .. recalc.at /\ LastResult(log', m, e, recalc.at)
    BY <1>1, <1>4 DEF RecalcReadIsSound
  <2>1. recalc.at \in Nat /\ recalc.at <= Len(log)
    BY DEF RecalcReadIsSound
  <2>2. PICK e \in recalc.rows : e \in 1 .. recalc.at /\ LastResult(log, m, e, recalc.at)
    BY DEF RecalcReadIsSound
  <2>3. LastResult(log', m, e, recalc.at)
    BY <1>1, <2>1, <2>2, LastStays
  <2> QED BY <2>2, <2>3
<1>5. ASSUME NEW m \in VMatches, completedAt[m] # 0, x.event # m
      PROVE  completedAt[m] \in 1 .. Len(log')
             /\ LastResult(log', m, completedAt[m], Len(log'))
  <2>1. completedAt[m] \in 1 .. Len(log) /\ LastResult(log, m, completedAt[m], Len(log))
    BY <1>5 DEF CompletionsAreLast
  <2>2. LastResult(log', m, completedAt[m], Len(log))
    BY <1>1, <2>1, LastStays
  <2> QED BY <1>1, <1>5, <2>1, <2>2 DEF LastResult
<1> QED BY <1>1, <1>2, <1>3, <1>4, <1>5

\* What a worker does keeps the invariant: a submission extends what its claim
\* has read.
LEMMA WorkerKeepsRatings ==
  ASSUME RatingsInv, NEW w \in VWorkers
  PROVE  /\ \A m \in VMatches : PickJob(w, m) => RatingsInv'
         /\ ClaimRatings(w) => RatingsInv'
         /\ \A winner : SubmitVerdict(w, winner) => RatingsInv'
         /\ FailVerdict(w) => RatingsInv'
<1> USE DEF RatingsInv
<1>1. ASSUME NEW m \in VMatches, PickJob(w, m) PROVE RatingsInv'
  BY <1>1 DEF PickJob, HoldsTypeOK, HoldStates, ReadsAreSound, CompletionsAreLast,
              RecalcReadIsSound, RatingsLoseOnlyToOverlap, ratingTable
<1>2. ASSUME ClaimRatings(w) PROVE RatingsInv'
  <2>1. held[w].match \in VMatches
    BY <1>2 DEF ClaimRatings, HoldsTypeOK, HoldStates, NoHold
  <2>2. UNCHANGED <<log, ratings, completedAt, recalc>>
    BY <1>2 DEF ClaimRatings, ratingTable
  <2>3. HoldsTypeOK' /\ mstate' \in [VMatches -> {"pending", "running", "completed", "failed"}]
    BY <1>2, <2>1 DEF ClaimRatings, HoldsTypeOK, HoldStates
  <2>4. CompletionsAreLast'
    BY <1>2, <2>1, <2>2 DEF ClaimRatings, CompletionsAreLast
  <2>5. ReadsAreSound'
    BY <1>2, <2>2 DEF ClaimRatings, HoldsTypeOK, ReadsAreSound, RatingsLoseOnlyToOverlap
  <2> QED BY <2>2, <2>3, <2>4, <2>5 DEF RecalcReadIsSound, RatingsLoseOnlyToOverlap
<1>3. ASSUME NEW winner, SubmitVerdict(w, winner) PROVE RatingsInv'
  <2> DEFINE m == held[w].match
             x == Entry(m, held[w].at, {})
  <2>1. m \in VMatches /\ held[w].at \in Nat /\ held[w].read \in [VBots -> SUBSET Nat]
    BY <1>3 DEF SubmitVerdict, HoldsTypeOK, HoldStates, NoHold
  <2>2. /\ held[w].at <= Len(log)
        /\ \A b \in VBots : LosesOnlyToOverlap(log, held[w].read[b], held[w].at)
    BY <1>3 DEF SubmitVerdict, ReadsAreSound
  <2>3. log' = Append(log, x) /\ recalc' = recalc /\ held' = [held EXCEPT ![w] = NoHold]
    BY <1>3 DEF SubmitVerdict, Log
  <2>4. x \in LogEntries /\ x.event = m /\ x.seen = held[w].at
    BY <2>1 DEF Entry, LogEntries, RatingEvents
  <2> HIDE DEF x
  <2>5. /\ log' \in Seq(LogEntries) /\ SeenEarlier(log') /\ Len(log') = Len(log) + 1
        /\ RecalcReadIsSound'
        /\ \A v \in VWorkers : held[v].step = "claimed" =>
             /\ held[v].at <= Len(log')
             /\ \A b \in VBots : LosesOnlyToOverlap(log', held[v].read[b], held[v].at)
        /\ \A n \in VMatches : completedAt[n] # 0 /\ n # m =>
             completedAt[n] \in 1 .. Len(log') /\ LastResult(log', n, completedAt[n], Len(log'))
    BY <2>2, <2>3, <2>4, AppendKeepsReads
  <2>6. HoldsTypeOK'
    BY <2>3 DEF HoldsTypeOK, HoldStates
  <2>7. ReadsAreSound'
    BY <2>3, <2>5 DEF ReadsAreSound, HoldsTypeOK, NoHold
  <2>8. /\ mstate' = [mstate EXCEPT ![m] = "completed"]
        /\ completedAt' = [completedAt EXCEPT ![m] = Len(log) + 1]
        /\ ratings' = [b \in VBots |-> held[w].read[b] \cup {Len(log) + 1}]
    BY <1>3 DEF SubmitVerdict, ThisWrite, ComputeRatingUpdates
  <2> HIDE DEF m
  <2>9. log'[Len(log) + 1] = x /\ LastResult(log', m, Len(log) + 1, Len(log) + 1)
    BY <2>3, <2>4 DEF LastResult
  <2>10. mstate' \in [VMatches -> {"pending", "running", "completed", "failed"}]
         /\ completedAt' \in [VMatches -> Nat]
    BY <2>1, <2>8 DEF CompletionsAreLast
  <2>11. CompletionsAreLast'
    BY <2>1, <2>5, <2>8, <2>9, <2>10 DEF CompletionsAreLast
  <2>12. ratings' \in [VBots -> SUBSET Nat]
    BY <2>1, <2>8
  <2>13. RatingsLoseOnlyToOverlap'
    <3> SUFFICES ASSUME NEW b \in VBots PROVE LosesOnlyToOverlap(log', ratings'[b], Len(log'))
      BY DEF RatingsLoseOnlyToOverlap
    <3>1. x.event \in RatingEvents
      BY <2>1, <2>4 DEF RatingEvents
    <3>2. LosesOnlyToOverlap(Append(log, x), held[w].read[b] \cup {Len(log) + 1}, Len(log) + 1)
      BY <2>1, <2>2, <2>4, <3>1, AddingLoses
    <3> QED BY <2>3, <2>5, <2>8, <3>2
  <2> QED BY <2>5, <2>6, <2>7, <2>10, <2>11, <2>12, <2>13
<1>4. ASSUME FailVerdict(w) PROVE RatingsInv'
  <2>1. held[w].match \in VMatches
    BY <1>4 DEF FailVerdict, HoldsTypeOK, HoldStates, NoHold
  <2>2. UNCHANGED <<log, ratings, completedAt, recalc>>
    BY <1>4 DEF FailVerdict, ratingTable
  <2> QED BY <1>4, <2>1, <2>2 DEF FailVerdict, HoldsTypeOK, HoldStates, ReadsAreSound,
             CompletionsAreLast, RecalcReadIsSound, RatingsLoseOnlyToOverlap, NoHold
<1> QED BY <1>1, <1>2, <1>3, <1>4

\* A write by another than a worker keeps it, if what it leaves in the ratings lacks
\* no more than it may.
LEMMA OtherWriteKeepsRatings ==
  ASSUME RatingsInv, NEW x \in LogEntries, log' = Append(log, x), x.seen <= Len(log),
         x.event \notin VMatches, UNCHANGED <<mstate, completedAt, held>>, RecalcReadIsSound',
         ratings' \in [VBots -> SUBSET Nat],
         \A b \in VBots : LosesOnlyToOverlap(log', ratings'[b], Len(log) + 1)
  PROVE  RatingsInv'
<1> USE DEF RatingsInv
<1>1. /\ log' \in Seq(LogEntries) /\ SeenEarlier(log') /\ Len(log') = Len(log) + 1
      /\ \A w \in VWorkers : held[w].step = "claimed" =>
           /\ held[w].at <= Len(log')
           /\ \A b \in VBots : LosesOnlyToOverlap(log', held[w].read[b], held[w].at)
      /\ \A m \in VMatches : completedAt[m] # 0 =>
           completedAt[m] \in 1 .. Len(log') /\ LastResult(log', m, completedAt[m], Len(log'))
  BY AppendKeepsReads
<1>2. HoldsTypeOK' /\ ReadsAreSound'
  BY <1>1 DEF HoldsTypeOK, ReadsAreSound
<1>3. CompletionsAreLast'
  BY <1>1 DEF CompletionsAreLast
<1>4. RatingsLoseOnlyToOverlap'
  BY <1>1 DEF RatingsLoseOnlyToOverlap
<1> QED BY <1>1, <1>2, <1>3, <1>4

\* The end of a season and each step of a recalculation keep it.
LEMMA WritersKeepRatings ==
  ASSUME RatingsInv, DecayAndReset \/ RecalcReset \/ RecalcRead \/ RecalcWrite \/ RecalcStops
  PROVE  RatingsInv'
<1>1. CASE DecayAndReset
  <2> DEFINE x == Entry("decay", Len(log), {})
  <2>1. /\ log' = Append(log, x) /\ UNCHANGED <<mstate, completedAt, held, recalc>>
        /\ ratings' = [b \in VBots |-> ratings[b] \cup {Len(log) + 1}]
    BY <1>1 DEF DecayAndReset, Log, ThisWrite
  <2>2. log \in Seq(LogEntries) /\ SeenEarlier(log) /\ ratings \in [VBots -> SUBSET Nat]
    BY DEF RatingsInv
  <2>3. x \in LogEntries /\ x.event \in RatingEvents /\ x.event \notin VMatches /\ x.seen = Len(log)
    BY <2>2, VerdictsConstants DEF Entry, LogEntries, RatingEvents
  <2> HIDE DEF x
  <2>4. RecalcReadIsSound'
    BY <2>1, <2>2, <2>3, AppendKeepsReads
  <2>5. \A b \in VBots : LosesOnlyToOverlap(log', ratings'[b], Len(log) + 1)
    BY <2>1, <2>2, <2>3, AddingLoses DEF RatingsInv, RatingsLoseOnlyToOverlap
  <2>6. ratings' \in [VBots -> SUBSET Nat]
    BY <2>1, <2>2
  <2> QED BY <2>1, <2>2, <2>3, <2>4, <2>5, <2>6, OtherWriteKeepsRatings
<1>2. CASE RecalcReset
  <2> DEFINE x == Entry("reset", Len(log), {})
  <2>1. /\ log' = Append(log, x) /\ UNCHANGED <<mstate, completedAt, held>>
        /\ ratings' = [b \in VBots |-> {}] /\ recalc'.step = "reset"
    BY <1>2 DEF RecalcReset, Log
  <2>2. log \in Seq(LogEntries)
    BY DEF RatingsInv
  <2>3. x \in LogEntries /\ x.event = "reset" /\ x.event \notin VMatches /\ x.seen = Len(log)
    BY <2>2, VerdictsConstants DEF Entry, LogEntries, Rewrites
  <2> HIDE DEF x
  <2>4. RecalcReadIsSound'
    BY <2>1 DEF RecalcReadIsSound
  <2>5. \A b \in VBots : LosesOnlyToOverlap(log', ratings'[b], Len(log) + 1)
    BY <2>1, <2>2, <2>3, RewritingLoses DEF Rewrites
  <2>6. ratings' \in [VBots -> SUBSET Nat]
    BY <2>1
  <2> QED BY <2>1, <2>2, <2>3, <2>4, <2>5, <2>6, OtherWriteKeepsRatings
<1>3. CASE RecalcRead
  <2>1. UNCHANGED <<log, ratings, mstate, completedAt, held>>
    BY <1>3 DEF RecalcRead, ratingTable
  <2>2. RecalcReadIsSound'
    <3> SUFFICES ASSUME recalc'.step = "read" PROVE RecalcReadIsSound'
      BY DEF RecalcReadIsSound
    <3>1. recalc' = [step |-> "read", rows |-> GetAllCompletedMatches, done |-> CompletedNow,
                     at |-> Len(log)]
      BY <1>3 DEF RecalcRead
    <3>2. \A m \in CompletedNow : /\ m \in VMatches /\ completedAt[m] \in 1 .. Len(log)
                                  /\ LastResult(log, m, completedAt[m], Len(log))
      BY DEF RatingsInv, CompletionsAreLast, CompletedNow
    <3>3. GetAllCompletedMatches \subseteq Nat /\ CompletedNow \subseteq VMatches /\ Len(log) \in Nat
      BY <3>2 DEF RatingsInv, CompletionsAreLast, GetAllCompletedMatches, CompletedNow
    <3>4. \A m \in CompletedNow : completedAt[m] \in GetAllCompletedMatches
      BY DEF GetAllCompletedMatches
    <3> QED BY <2>1, <3>1, <3>2, <3>3, <3>4 DEF RecalcReadIsSound
  <2> QED BY <2>1, <2>2 DEF RatingsInv, HoldsTypeOK, ReadsAreSound, CompletionsAreLast,
                            RatingsLoseOnlyToOverlap
<1>4. CASE RecalcWrite
  <2> DEFINE x == Entry("replay", recalc.at, recalc.done)
  <2>1. /\ log' = Append(log, x) /\ UNCHANGED <<mstate, completedAt, held>>
        /\ ratings' = [b \in VBots |-> recalc.rows] /\ recalc'.step = "idle"
    BY <1>4 DEF RecalcWrite, Log
  <2>2. /\ recalc.at \in Nat /\ recalc.at <= Len(log) /\ recalc.done \subseteq VMatches
        /\ recalc.rows \subseteq Nat
        /\ \A m \in recalc.done : \E e \in recalc.rows : e \in 1 .. recalc.at
                                                         /\ LastResult(log, m, e, recalc.at)
        /\ log \in Seq(LogEntries)
    BY <1>4 DEF RecalcWrite, RatingsInv, RecalcReadIsSound
  <2>3. /\ x \in LogEntries /\ x.event \in Rewrites /\ x.event \notin VMatches
        /\ x.seen = recalc.at /\ x.done = recalc.done
    BY <2>2, VerdictsConstants DEF Entry, LogEntries, Rewrites
  <2> HIDE DEF x
  <2>4. RecalcReadIsSound'
    BY <2>1 DEF RecalcReadIsSound
  <2>5. LosesOnlyToOverlap(Append(log, x), recalc.rows, Len(log) + 1)
    BY <2>2, <2>3, RewritingLoses
  <2>6. ratings' \in [VBots -> SUBSET Nat]
        /\ \A b \in VBots : LosesOnlyToOverlap(log', ratings'[b], Len(log) + 1)
    BY <2>1, <2>2, <2>5
  <2> QED BY <2>1, <2>2, <2>3, <2>4, <2>6, OtherWriteKeepsRatings
<1>5. CASE RecalcStops
  <2>1. UNCHANGED <<log, ratings, mstate, completedAt, held>> /\ recalc'.step = "idle"
    BY <1>5 DEF RecalcStops, ratingTable
  <2> QED BY <2>1 DEF RatingsInv, HoldsTypeOK, ReadsAreSound, CompletionsAreLast,
                      RecalcReadIsSound, RatingsLoseOnlyToOverlap
<1> QED BY <1>1, <1>2, <1>3, <1>4, <1>5

\* Every step of the verdicts keeps it.
LEMMA RatingsStep == RatingsInv /\ [VerdictsNext]_verdictVars => RatingsInv'
<1> SUFFICES ASSUME RatingsInv, [VerdictsNext]_verdictVars PROVE RatingsInv'
  OBVIOUS
<1> DEFINE Untouched == UNCHANGED <<held, ratings, log, mstate, completedAt, recalc>>
<1>1. ASSUME Untouched PROVE RatingsInv'
  BY <1>1 DEF RatingsInv, HoldsTypeOK, ReadsAreSound, CompletionsAreLast, RecalcReadIsSound,
              RatingsLoseOnlyToOverlap
<1>2. ASSUME NEW m \in VMatches, RequeueStale(m) PROVE Untouched
  BY <1>2 DEF RequeueStale, ratingTable
<1>3. ASSUME NEW p \in Predictors, NEW m \in VMatches, NEW b \in VBots, PredictCheck(p, m, b)
      PROVE  Untouched
  BY <1>3 DEF PredictCheck, ratingTable
<1>4. ASSUME NEW p \in Predictors, PredictInsert(p) PROVE Untouched
  BY <1>4 DEF PredictInsert, ratingTable
<1>5. CASE UNCHANGED verdictVars
  BY <1>1, <1>5 DEF verdictVars, ratingTable
<1>6. CASE VerdictsNext
  BY <1>1, <1>2, <1>3, <1>4, <1>6, WorkerKeepsRatings, WritersKeepRatings DEF VerdictsNext
<1> QED BY <1>5, <1>6

\* Since the last recalculation a rating lacks no result and no decay but those a
\* writer that had read before them wrote over, and a recalculation restores every
\* match that was completed when it read (ClaimJob, SubmitMatchResult, recalcRatings,
\* processSeasonEnd), whatever overlaps.
THEOREM RatingsLoseOnlyOverlapped == VerdictsSpec => []RatingsLoseOnlyToOverlap
<1>1. RatingsInv => RatingsLoseOnlyToOverlap
  BY DEF RatingsInv
<1> QED BY <1>1, RatingsBegin, RatingsStep, PTL DEF VerdictsSpec

(***************************************************************************)
(* Predictions and the predictors' statistics.                             *)
(***************************************************************************)
PickTable ==
  /\ IsFiniteSet(DOMAIN picks) /\ DOMAIN picks \subseteq Predictors \X VMatches
  /\ \A k \in DOMAIN picks :
       /\ DOMAIN picks[k] = {"bot", "correct", "season"}
       /\ picks[k].correct \in {"null", "true", "false"}
       /\ picks[k].season \in Nat /\ picks[k].season <= season
StatRows == [right : Nat, wrong : Nat, streak : Nat, best : Nat]
StatTable == stats \in [Predictors -> StatRows]
Asks == asking \in [Predictors -> {NoAsk} \union [match : VMatches, bot : VBots]]

\* The predictions of p resolved to c in this season.
Counted(p, c) == {k \in DOMAIN picks : /\ k[1] = p
                                       /\ picks[k].correct = c
                                       /\ picks[k].season = season}

\* The invariant of one predictor's row.
RowExact(p) ==
  /\ stats[p].right = Cardinality(Counted(p, "true"))
  /\ stats[p].wrong = Cardinality(Counted(p, "false"))
  /\ stats[p].streak <= stats[p].best /\ stats[p].best <= stats[p].right

\* The inductive invariant of the statistics: no prediction is resolved in a
\* season that has not begun, which is what the reset at a season's end needs.
StatsInv ==
  /\ RatingsInv
  /\ season \in Nat
  /\ PickTable /\ StatTable /\ Asks
  /\ StatsExact

\* The property is the invariant of every row.
LEMMA StatsByRow == StatsExact <=> \A p \in Predictors : RowExact(p)
  BY DEF StatsExact, RowExact, Counted

\* The tables are empty at first.
LEMMA StatsBegin == VerdictsInit => StatsInv
<1> SUFFICES ASSUME VerdictsInit PROVE StatsInv
  OBVIOUS
<1>1. picks = <<>> /\ DOMAIN picks = {} /\ season = 0 /\ stats = [p \in Predictors |-> NewStats]
      /\ asking = [p \in Predictors |-> NoAsk]
  BY DEF VerdictsInit
<1>2. PickTable /\ StatTable /\ Asks
  BY <1>1, FS_EmptySet DEF PickTable, StatTable, StatRows, Asks, NewStats
<1>3. ASSUME NEW p \in Predictors PROVE RowExact(p)
  <2>1. Counted(p, "true") = {} /\ Counted(p, "false") = {}
    BY <1>1 DEF Counted
  <2>2. stats[p] = [right |-> 0, wrong |-> 0, streak |-> 0, best |-> 0]
    BY <1>1 DEF NewStats
  <2> QED BY <2>1, <2>2, FS_EmptySet DEF RowExact
<1> QED BY <1>1, <1>2, <1>3, RatingsBegin, StatsByRow DEF StatsInv

\* What upsertPredictorStats does to a row for a right and for a wrong prediction.
LEMMA UpsertsRight ==
  ASSUME NEW s \in StatRows, NEW t, t = UpsertPredictorStats(s, TRUE)
  PROVE  /\ t \in StatRows
         /\ t.right = s.right + 1 /\ t.wrong = s.wrong /\ t.streak = s.streak + 1
         /\ t.best = IF s.best > s.streak + 1 THEN s.best ELSE s.streak + 1
<1> DEFINE best == IF s.best > s.streak + 1 THEN s.best ELSE s.streak + 1
<1>1. best \in Nat /\ s.right + 1 \in Nat /\ s.streak + 1 \in Nat
  BY DEF StatRows
<1>2. t = [s EXCEPT !.right = s.right + 1, !.streak = s.streak + 1, !.best = best]
  BY DEF UpsertPredictorStats
<1> HIDE DEF best
<1>3. t \in StatRows
  BY <1>1, <1>2 DEF StatRows
<1> QED BY <1>2, <1>3 DEF StatRows, best

\* A wrong pick ends the streak.
LEMMA UpsertsWrong ==
  ASSUME NEW s \in StatRows, NEW t, t = UpsertPredictorStats(s, FALSE)
  PROVE  /\ t \in StatRows
         /\ t.right = s.right /\ t.wrong = s.wrong + 1 /\ t.streak = 0 /\ t.best = s.best
<1>1. s.wrong + 1 \in Nat
  BY DEF StatRows
<1>2. t = [s EXCEPT !.wrong = s.wrong + 1, !.streak = 0]
  BY DEF UpsertPredictorStats
<1>3. t \in StatRows
  <2>1. [s EXCEPT !.wrong = s.wrong + 1, !.streak = 0] \in StatRows
    BY <1>1 DEF StatRows
  <2> QED BY <1>2, <2>1
<1> QED BY <1>2, <1>3 DEF StatRows

\* A result resolves at most one prediction per predictor, and only one that
\* was unresolved.
LEMMA ResolutionCounts ==
  ASSUME PickTable, StatTable, season \in Nat, NEW m \in VMatches, NEW winner,
         picks' = ResolvePredictions(m, winner), season' = season,
         stats' = [p \in Predictors |-> IF <<p, m>> \in Unresolved(m)
                     THEN UpsertPredictorStats(stats[p], picks[<<p, m>>].bot = winner)
                     ELSE stats[p]],
         NEW p \in Predictors, RowExact(p)
  PROVE  RowExact(p)' /\ stats'[p] \in StatRows
<1> DEFINE k == <<p, m>>
<1>1. picks' = [x \in DOMAIN picks |-> IF x \in Unresolved(m)
                 THEN [picks[x] EXCEPT !.correct = IF picks[x].bot = winner THEN "true" ELSE "false",
                                       !.season = season]
                 ELSE picks[x]]
  BY DEF ResolvePredictions
<1>2. ASSUME NEW x \in DOMAIN picks, x[1] = p, x # k PROVE picks'[x] = picks[x]
  <2>1. x = <<x[1], x[2]>>
    BY DEF PickTable
  <2>2. x \notin Unresolved(m)
    BY <1>2, <2>1 DEF Unresolved
  <2> QED BY <1>1, <2>2
<1>3. stats[p] \in StatRows
  BY DEF StatTable
<1>4. CASE k \notin Unresolved(m)
  <2>1. \A x \in DOMAIN picks : x[1] = p => picks'[x] = picks[x]
    BY <1>1, <1>2, <1>4
  <2>2. Counted(p, "true")' = Counted(p, "true") /\ Counted(p, "false")' = Counted(p, "false")
    BY <1>1, <2>1 DEF Counted
  <2>3. stats'[p] = stats[p]
    BY <1>4
  <2> QED BY <1>3, <2>2, <2>3 DEF RowExact
<1>5. CASE k \in Unresolved(m)
  <2>1. k \in DOMAIN picks /\ picks[k].correct = "null" /\ k[1] = p
    BY <1>5 DEF Unresolved
  <2>2. DOMAIN picks[k] = {"bot", "correct", "season"}
    BY <2>1 DEF PickTable
  <2>3. picks'[k] = [picks[k] EXCEPT !.correct = IF picks[k].bot = winner THEN "true" ELSE "false",
                                     !.season = season]
    BY <1>1, <1>5, <2>1
  <2>4. /\ picks'[k].correct = (IF picks[k].bot = winner THEN "true" ELSE "false")
        /\ picks'[k].season = season
    BY <2>2, <2>3
  <2>5. stats'[p] = UpsertPredictorStats(stats[p], picks[k].bot = winner)
    BY <1>5
  <2>6. \A c : k \notin Counted(p, c) \/ c = "null"
    BY <2>1 DEF Counted
  <2>7. IsFiniteSet(Counted(p, "true")) /\ IsFiniteSet(Counted(p, "false"))
    BY FS_Subset DEF Counted, PickTable
  <2> HIDE DEF k
  <2>8. CASE picks[k].bot = winner
    <3>1. Counted(p, "true")' = Counted(p, "true") \union {k}
      BY <1>1, <1>2, <2>1, <2>4, <2>8 DEF Counted
    <3>2. Counted(p, "false")' = Counted(p, "false")
      BY <1>1, <1>2, <2>1, <2>4, <2>8 DEF Counted
    <3>3. Cardinality(Counted(p, "true")') = Cardinality(Counted(p, "true")) + 1
      BY <2>6, <2>7, <3>1, FS_AddElement
    <3>4. /\ stats'[p].right = stats[p].right + 1 /\ stats'[p].wrong = stats[p].wrong
          /\ stats'[p].streak = stats[p].streak + 1
          /\ stats'[p].best = (IF stats[p].best > stats[p].streak + 1 THEN stats[p].best
                               ELSE stats[p].streak + 1)
          /\ stats'[p] \in StatRows
      <4>1. stats'[p] = UpsertPredictorStats(stats[p], TRUE)
        BY <2>5, <2>8 DEF UpsertPredictorStats
      <4> QED BY <1>3, <4>1, UpsertsRight
    <3> QED BY <1>3, <3>2, <3>3, <3>4 DEF RowExact, StatRows
  <2>9. CASE picks[k].bot # winner
    <3>1. Counted(p, "false")' = Counted(p, "false") \union {k}
      BY <1>1, <1>2, <2>1, <2>4, <2>9 DEF Counted
    <3>2. Counted(p, "true")' = Counted(p, "true")
      BY <1>1, <1>2, <2>1, <2>4, <2>9 DEF Counted
    <3>3. Cardinality(Counted(p, "false")') = Cardinality(Counted(p, "false")) + 1
      BY <2>6, <2>7, <3>1, FS_AddElement
    <3>4. /\ stats'[p].right = stats[p].right /\ stats'[p].wrong = stats[p].wrong + 1
          /\ stats'[p].streak = 0 /\ stats'[p].best = stats[p].best
          /\ stats'[p] \in StatRows
      <4>1. stats'[p] = UpsertPredictorStats(stats[p], FALSE)
        BY <2>5, <2>9 DEF UpsertPredictorStats
      <4> QED BY <1>3, <4>1, UpsertsWrong
    <3> QED BY <1>3, <3>2, <3>3, <3>4 DEF RowExact, StatRows
  <2> QED BY <2>8, <2>9
<1> QED BY <1>4, <1>5

\* A submission resolves predictions and counts them.
LEMMA SubmitKeepsStats ==
  ASSUME StatsInv, NEW w \in VWorkers, NEW winner, SubmitVerdict(w, winner)
  PROVE  (PickTable /\ StatTable /\ Asks /\ StatsExact /\ season \in Nat)'
<1> USE DEF StatsInv
<1> DEFINE m == held[w].match
<1>1. m \in VMatches
  BY DEF RatingsInv, HoldsTypeOK, HoldStates, NoHold, SubmitVerdict
<1>2. /\ picks' = ResolvePredictions(m, winner) /\ season' = season /\ asking' = asking
      /\ stats' = [p \in Predictors |-> IF <<p, m>> \in Unresolved(m)
                     THEN UpsertPredictorStats(stats[p], picks[<<p, m>>].bot = winner)
                     ELSE stats[p]]
  BY DEF SubmitVerdict
<1> HIDE DEF m
<1>3. ASSUME NEW p \in Predictors
      PROVE  RowExact(p)' /\ stats'[p] \in StatRows
  BY <1>1, <1>2, ResolutionCounts, StatsByRow
<1>4. PickTable'
  <2>1. DOMAIN picks' = DOMAIN picks
    BY <1>2 DEF ResolvePredictions
  <2>2. ASSUME NEW k \in DOMAIN picks
        PROVE  /\ DOMAIN picks'[k] = {"bot", "correct", "season"}
               /\ picks'[k].correct \in {"null", "true", "false"}
               /\ picks'[k].season \in Nat /\ picks'[k].season <= season
    <3>1. CASE k \in Unresolved(m)
      <4>1. picks'[k] = [picks[k] EXCEPT !.correct = IF picks[k].bot = winner THEN "true" ELSE "false",
                                         !.season = season]
        BY <1>2, <3>1 DEF ResolvePredictions
      <4>2. DOMAIN picks[k] = {"bot", "correct", "season"}
        BY DEF PickTable
      <4> QED BY <4>1, <4>2
    <3>2. CASE k \notin Unresolved(m)
      BY <1>2, <3>2 DEF ResolvePredictions, PickTable
    <3> QED BY <3>1, <3>2
  <2> QED BY <1>2, <2>1, <2>2 DEF PickTable
<1>5. StatTable'
  BY <1>2, <1>3 DEF StatTable
<1>6. StatsExact'
  <2>1. \A p \in Predictors : RowExact(p)'
    BY <1>3
  <2> QED BY <2>1 DEF StatsExact, RowExact, Counted
<1> QED BY <1>2, <1>4, <1>5, <1>6 DEF Asks

\* A season's end starts every row afresh, and no prediction is resolved in
\* the season that begins.
LEMMA SeasonKeepsStats ==
  ASSUME StatsInv, DecayAndReset
  PROVE  (PickTable /\ StatTable /\ Asks /\ StatsExact /\ season \in Nat)'
<1> USE DEF StatsInv
<1>1. /\ season' = season + 1 /\ stats' = [p \in Predictors |-> NewStats]
      /\ picks' = picks /\ asking' = asking
  BY DEF DecayAndReset
<1>2. season \in Nat
  OBVIOUS
<1>3. PickTable'
  BY <1>1, <1>2 DEF PickTable
<1>4. StatTable'
  BY <1>1 DEF StatTable, StatRows, NewStats
<1>5. ASSUME NEW p \in Predictors PROVE RowExact(p)'
  <2>1. Counted(p, "true")' = {} /\ Counted(p, "false")' = {}
    BY <1>1, <1>2 DEF Counted, PickTable
  <2>2. stats'[p] = [right |-> 0, wrong |-> 0, streak |-> 0, best |-> 0]
    BY <1>1 DEF NewStats
  <2> QED BY <2>1, <2>2, FS_EmptySet DEF RowExact
<1>6. StatsExact'
  <2>1. \A p \in Predictors : RowExact(p)'
    BY <1>5
  <2> QED BY <2>1 DEF StatsExact, RowExact, Counted
<1> QED BY <1>1, <1>2, <1>3, <1>4, <1>6 DEF Asks

\* A pick that arrives late leaves what is resolved as it is.
LEMMA InsertKeepsStats ==
  ASSUME StatsInv, NEW q \in Predictors, PredictInsert(q)
  PROVE  (PickTable /\ StatTable /\ Asks /\ StatsExact /\ season \in Nat)'
<1> USE DEF StatsInv
<1> DEFINE k == <<q, asking[q].match>>
<1>1. asking[q].match \in VMatches
  BY DEF PredictInsert, Asks
<1>2. /\ picks' = [x \in DOMAIN picks \cup {k} |->
                     IF x # k THEN picks[x]
                     ELSE IF k \in DOMAIN picks THEN [picks[k] EXCEPT !.bot = asking[q].bot]
                     ELSE [bot |-> asking[q].bot, correct |-> "null", season |-> season]]
      /\ asking' = [asking EXCEPT ![q] = NoAsk]
      /\ UNCHANGED <<stats, season>>
  BY DEF PredictInsert
<1>3. k \in Predictors \X VMatches
  BY <1>1
<1> HIDE DEF k
<1>4. DOMAIN picks' = DOMAIN picks \cup {k}
  BY <1>2
<1>5. ASSUME NEW x \in DOMAIN picks
      PROVE  /\ DOMAIN picks'[x] = {"bot", "correct", "season"}
             /\ picks'[x].correct = picks[x].correct /\ picks'[x].season = picks[x].season
  <2>1. DOMAIN picks[x] = {"bot", "correct", "season"}
    BY DEF PickTable
  <2>2. picks'[x] = picks[x] \/ picks'[x] = [picks[x] EXCEPT !.bot = asking[q].bot]
    BY <1>2
  <2> QED BY <2>1, <2>2
<1>6. k \notin DOMAIN picks => picks'[k] = [bot |-> asking[q].bot, correct |-> "null", season |-> season]
  BY <1>2
<1>7. PickTable'
  <2>1. IsFiniteSet(DOMAIN picks')
    BY <1>4, FS_AddElement DEF PickTable
  <2>2. ASSUME NEW x \in DOMAIN picks'
        PROVE  /\ DOMAIN picks'[x] = {"bot", "correct", "season"}
               /\ picks'[x].correct \in {"null", "true", "false"}
               /\ picks'[x].season \in Nat /\ picks'[x].season <= season
    BY <1>4, <1>5, <1>6 DEF PickTable
  <2> QED BY <1>2, <1>3, <1>4, <2>1, <2>2 DEF PickTable
<1>8. ASSUME NEW p \in Predictors PROVE RowExact(p)'
  <2>1. Counted(p, "true")' = Counted(p, "true") /\ Counted(p, "false")' = Counted(p, "false")
    BY <1>2, <1>4, <1>5, <1>6 DEF Counted
  <2>2. RowExact(p)
    BY StatsByRow
  <2> QED BY <1>2, <2>1, <2>2 DEF RowExact
<1>9. StatsExact'
  <2>1. \A p \in Predictors : RowExact(p)'
    BY <1>8
  <2> QED BY <2>1 DEF StatsExact, RowExact, Counted
<1> QED BY <1>2, <1>7, <1>9 DEF Asks, StatTable

\* Every step of the verdicts keeps the statistics' invariant.
LEMMA StatsStep == StatsInv /\ [VerdictsNext]_verdictVars => StatsInv'
<1> SUFFICES ASSUME StatsInv, [VerdictsNext]_verdictVars PROVE StatsInv'
  OBVIOUS
<1> DEFINE Kept == (PickTable /\ StatTable /\ Asks /\ StatsExact /\ season \in Nat)'
<1>1. Kept => StatsInv'
  BY RatingsStep DEF StatsInv
<1>2. ASSUME UNCHANGED <<picks, stats, season>>, Asks' PROVE Kept
  BY <1>2 DEF StatsInv, PickTable, StatTable, StatsExact
<1>3. ASSUME UNCHANGED <<picks, stats, season, asking>> PROVE Kept
  BY <1>2, <1>3 DEF StatsInv, Asks
<1>4. ASSUME NEW w \in VWorkers, NEW m \in VMatches, PickJob(w, m) PROVE Kept
  BY <1>3, <1>4 DEF PickJob, predictionTables
<1>5. ASSUME NEW w \in VWorkers, ClaimRatings(w) \/ FailVerdict(w) PROVE Kept
  BY <1>3, <1>5 DEF ClaimRatings, FailVerdict, predictionTables
<1>6. ASSUME NEW m \in VMatches, RequeueStale(m) PROVE Kept
  BY <1>3, <1>6 DEF RequeueStale, predictionTables
<1>7. ASSUME NEW p \in Predictors, NEW m \in VMatches, NEW b \in VBots, PredictCheck(p, m, b)
      PROVE  Kept
  BY <1>2, <1>7 DEF PredictCheck, Asks, StatsInv
<1>8. ASSUME RecalcReset \/ RecalcRead \/ RecalcWrite \/ RecalcStops PROVE Kept
  BY <1>3, <1>8 DEF RecalcReset, RecalcRead, RecalcWrite, RecalcStops, predictionTables
<1>9. CASE UNCHANGED verdictVars
  BY <1>1, <1>3, <1>9 DEF verdictVars
<1>10. CASE VerdictsNext
  BY <1>1, <1>4, <1>5, <1>6, <1>7, <1>8, <1>10, SubmitKeepsStats, SeasonKeepsStats,
     InsertKeepsStats DEF VerdictsNext
<1> QED BY <1>9, <1>10

\* A predictor's statistics are exactly the predictions resolved this season,
\* with any number of workers playing a match again and picks arriving late
\* (resolvePredictions, upsertPredictorStats, handlePredict).
THEOREM StatsAreExact == VerdictsSpec => []StatsExact
<1>1. StatsInv => StatsExact
  BY DEF StatsInv
<1> QED BY <1>1, StatsBegin, StatsStep, PTL DEF VerdictsSpec

(***************************************************************************)
(* Replays.                                                                *)
(***************************************************************************)
HandFields == {"match", "at", "url", "tail", "delta"}
HandsTypeOK ==
  /\ hands = [w \in RWorkers |-> hands[w]]
  /\ \A w \in RWorkers :
       /\ DOMAIN hands[w] = HandFields /\ hands[w].url \in BOOLEAN
       /\ hands[w].at # "idle" => hands[w].match \in RMatches

\* Worker w moves to a place of the publication, keeping its match; the other
\* workers' hands are untouched.
Moves(w, at, url, tail, delta) ==
  /\ hands' = [v \in RWorkers |-> hands'[v]]
  /\ \A v \in RWorkers \ {w} : hands'[v] = hands[v]
  /\ DOMAIN hands'[w] = HandFields
  /\ hands'[w].match = hands[w].match /\ hands'[w].at = at /\ hands'[w].url = url
  /\ hands'[w].tail = tail /\ hands'[w].delta = delta

\* What every step of a publication does to the worker's hands.
LEMMA StepsMove ==
  ASSUME HandsTypeOK, NEW w \in RWorkers, NEW ok \in BOOLEAN
  PROVE  /\ UploadToB2(w, ok) => Moves(w, "r2", ok, hands[w].tail, hands[w].delta)
         /\ UploadToR2(w, ok) => Moves(w, "submit", hands[w].url, hands[w].tail, hands[w].delta)
         /\ SubmitWithReplay(w) => Moves(w, "tail", hands[w].url, hands[w].tail, hands[w].delta)
         /\ DownloadTail(w, ok) => Moves(w, "tail_put", hands[w].url,
                                         IF ok THEN liveTail ELSE <<>>, hands[w].delta)
         /\ UploadTail(w, ok) => Moves(w, "delta", hands[w].url, <<>>, hands[w].delta)
         /\ DownloadDelta(w, ok) => Moves(w, "delta_put", hands[w].url, hands[w].tail,
                                          IF ok THEN liveDelta ELSE {})
<1>1. hands = [v \in RWorkers |-> hands[v]] /\ DOMAIN hands[w] = HandFields
  BY DEF HandsTypeOK
<1>2. ASSUME UploadToB2(w, ok) PROVE Moves(w, "r2", ok, hands[w].tail, hands[w].delta)
  <2>1. hands' = [hands EXCEPT ![w].at = "r2", ![w].url = ok]
    BY <1>2 DEF UploadToB2
  <2> QED BY <1>1, <2>1 DEF Moves, HandFields
<1>3. ASSUME UploadToR2(w, ok)
      PROVE  Moves(w, "submit", hands[w].url, hands[w].tail, hands[w].delta)
  <2>1. hands' = [hands EXCEPT ![w].at = "submit", ![w].url = @]
    BY <1>3 DEF UploadToR2, ReplayURLFrom
  <2> QED BY <1>1, <2>1 DEF Moves, HandFields
<1>4. ASSUME SubmitWithReplay(w)
      PROVE  Moves(w, "tail", hands[w].url, hands[w].tail, hands[w].delta)
  <2>1. hands' = [hands EXCEPT ![w].at = "tail"]
    BY <1>4 DEF SubmitWithReplay
  <2> QED BY <1>1, <2>1 DEF Moves, HandFields
<1>5. ASSUME DownloadTail(w, ok)
      PROVE  Moves(w, "tail_put", hands[w].url, IF ok THEN liveTail ELSE <<>>, hands[w].delta)
  <2> DEFINE t == IF ok THEN liveTail ELSE <<>>
  <2>1. hands' = [hands EXCEPT ![w].at = "tail_put", ![w].tail = t]
    BY <1>5 DEF DownloadTail
  <2> HIDE DEF t
  <2>2. Moves(w, "tail_put", hands[w].url, t, hands[w].delta)
    BY <1>1, <2>1 DEF Moves, HandFields
  <2> QED BY <2>2 DEF t
<1>6. ASSUME UploadTail(w, ok) PROVE Moves(w, "delta", hands[w].url, <<>>, hands[w].delta)
  <2>1. hands' = [hands EXCEPT ![w].at = "delta", ![w].tail = <<>>]
    BY <1>6 DEF UploadTail
  <2> QED BY <1>1, <2>1 DEF Moves, HandFields
<1>7. ASSUME DownloadDelta(w, ok)
      PROVE  Moves(w, "delta_put", hands[w].url, hands[w].tail, IF ok THEN liveDelta ELSE {})
  <2> DEFINE d == IF ok THEN liveDelta ELSE {}
  <2>1. hands' = [hands EXCEPT ![w].at = "delta_put", ![w].delta = d]
    BY <1>7 DEF DownloadDelta
  <2> HIDE DEF d
  <2>2. Moves(w, "delta_put", hands[w].url, hands[w].tail, d)
    BY <1>1, <2>1 DEF Moves, HandFields
  <2> QED BY <2>2 DEF d
<1> QED BY <1>2, <1>3, <1>4, <1>5, <1>6, <1>7

\* A worker that holds a URL, and a match recorded with one, have their replay
\* in the archive.
URLsAreArchived ==
  /\ archive \in [RMatches -> RWorkers \union {NoExec}]
  /\ \A w \in RWorkers :
       hands[w].at # "idle" /\ hands[w].url => archive[hands[w].match] # NoExec
  /\ reported \subseteq {m \in RMatches : archive[m] # NoExec}

\* The inductive invariant of the replays.
ReplaysInv == HandsTypeOK /\ URLsAreArchived

\* Hands and archive are empty at first.
LEMMA ReplaysBegin == ReplaysInit => ReplaysInv
<1> SUFFICES ASSUME ReplaysInit PROVE ReplaysInv
  OBVIOUS
<1>1. hands = [w \in RWorkers |-> EmptyHands] /\ archive = [m \in RMatches |-> NoExec] /\ reported = {}
  BY DEF ReplaysInit
<1>2. DOMAIN EmptyHands = HandFields /\ EmptyHands.at = "idle" /\ EmptyHands.url = FALSE
  BY DEF EmptyHands, HandFields
<1>3. \A w \in RWorkers : hands[w] = EmptyHands
  BY <1>1
<1>4. HandsTypeOK
  BY <1>1, <1>2, <1>3 DEF HandsTypeOK
<1>5. URLsAreArchived
  BY <1>1, <1>2, <1>3 DEF URLsAreArchived
<1> QED BY <1>4, <1>5 DEF ReplaysInv

\* A step that moves a worker on without a new URL keeps the invariant when it
\* leaves archive and reported alone.
LEMMA MoveKeepsReplays ==
  ASSUME ReplaysInv, NEW w \in RWorkers, NEW at, NEW tail, NEW delta,
         Moves(w, at, hands[w].url, tail, delta), hands[w].at # "idle",
         UNCHANGED <<archive, reported>>
  PROVE  ReplaysInv'
  BY DEF ReplaysInv, HandsTypeOK, URLsAreArchived, Moves

\* Every step keeps it: the URL comes from the upload to the archive, and an
\* entry of the archive is overwritten but never removed.
LEMMA ReplaysStep == ReplaysInv /\ [ReplaysNext]_replayVars => ReplaysInv'
<1> SUFFICES ASSUME ReplaysInv, [ReplaysNext]_replayVars PROVE ReplaysInv'
  OBVIOUS
<1> USE DEF ReplaysInv
<1>1. ASSUME NEW w \in RWorkers, NEW m \in RMatches, PlayMatch(w, m) PROVE ReplaysInv'
  <2> DEFINE place == IF w \in B2Workers THEN "b2" ELSE "submit"
             new == [EmptyHands EXCEPT !.match = m, !.at = place]
  <2>1. new.match = m /\ new.at # "idle" /\ new.url = FALSE /\ DOMAIN new = HandFields
    BY DEF EmptyHands, HandFields
  <2>2. hands' = [hands EXCEPT ![w] = new] /\ UNCHANGED <<archive, reported>>
    BY <1>1 DEF PlayMatch, storage
  <2> HIDE DEF new
  <2> QED BY <2>1, <2>2 DEF HandsTypeOK, URLsAreArchived
<1>2. ASSUME NEW m \in RMatches, ClaimGoesStale(m) PROVE ReplaysInv'
  BY <1>2 DEF ClaimGoesStale, HandsTypeOK, URLsAreArchived, storage
<1>3. ASSUME NEW w \in RWorkers, NEW ok \in BOOLEAN, UploadToB2(w, ok) PROVE ReplaysInv'
  <2>1. Moves(w, "r2", ok, hands[w].tail, hands[w].delta)
    BY <1>3, StepsMove
  <2>2. hands[w].at = "b2" /\ hands[w].match \in RMatches /\ reported' = reported
    BY <1>3 DEF UploadToB2, At, HandsTypeOK, rowsOf
  <2>3. archive' = IF ok THEN [archive EXCEPT ![hands[w].match] = w] ELSE archive
    BY <1>3 DEF UploadToB2
  <2>4. \A m \in RMatches : archive'[m] # NoExec <=> archive[m] # NoExec \/ (ok /\ m = hands[w].match)
    BY <2>2, <2>3, ReplaysConstants DEF URLsAreArchived, NoExec
  <2>5. archive' \in [RMatches -> RWorkers \union {NoExec}]
    BY <2>2, <2>3 DEF URLsAreArchived
  <2> QED BY <2>1, <2>2, <2>4, <2>5 DEF HandsTypeOK, URLsAreArchived, Moves
<1>4. ASSUME NEW w \in RWorkers, NEW ok \in BOOLEAN, UploadToR2(w, ok) PROVE ReplaysInv'
  BY <1>4, StepsMove, MoveKeepsReplays DEF UploadToR2, At, rowsOf
<1>5. ASSUME NEW w \in RWorkers, SubmitWithReplay(w) PROVE ReplaysInv'
  <2>1. Moves(w, "tail", hands[w].url, hands[w].tail, hands[w].delta)
    BY <1>5, StepsMove
  <2>2. /\ hands[w].at # "idle" /\ archive' = archive /\ hands[w].match \in RMatches
        /\ reported' = IF hands[w].url THEN reported \union {hands[w].match}
                       ELSE reported \ {hands[w].match}
    BY <1>5 DEF SubmitWithReplay, At, storage, HandsTypeOK
  <2> QED BY <2>1, <2>2 DEF HandsTypeOK, URLsAreArchived, Moves
<1>6. ASSUME NEW w \in RWorkers, NEW ok \in BOOLEAN, DownloadTail(w, ok) PROVE ReplaysInv'
  BY <1>6, StepsMove, MoveKeepsReplays DEF DownloadTail, At, rowsOf, storage
<1>7. ASSUME NEW w \in RWorkers, NEW ok \in BOOLEAN, UploadTail(w, ok) PROVE ReplaysInv'
  BY <1>7, StepsMove, MoveKeepsReplays DEF UploadTail, At, rowsOf, storage
<1>8. ASSUME NEW w \in RWorkers, NEW ok \in BOOLEAN, DownloadDelta(w, ok) PROVE ReplaysInv'
  BY <1>8, StepsMove, MoveKeepsReplays DEF DownloadDelta, At, rowsOf, storage
<1>9. ASSUME NEW w \in RWorkers, NEW ok \in BOOLEAN, UploadDelta(w, ok) PROVE ReplaysInv'
  <2>1. hands' = [hands EXCEPT ![w] = EmptyHands] /\ UNCHANGED <<archive, reported>>
    BY <1>9 DEF UploadDelta, storage, rowsOf
  <2> QED BY <2>1 DEF HandsTypeOK, URLsAreArchived, EmptyHands, HandFields
<1>10. CASE UNCHANGED replayVars
  BY <1>10 DEF replayVars, HandsTypeOK, URLsAreArchived
<1>11. CASE ReplaysNext
  BY <1>1, <1>2, <1>3, <1>4, <1>5, <1>6, <1>7, <1>8, <1>9, <1>11 DEF ReplaysNext
<1> QED BY <1>10, <1>11

\* A match recorded with a replay URL has a replay the API serves, however many
\* executions of it overlap, whichever workers have a B2 client and whichever
\* transfers fail (uploadReplay, handleGetReplay).
THEOREM ReplaysAreServed == ReplaysSpec => []ReplayIsServed
<1>1. ReplaysInv => ReplayIsServed
  <2> SUFFICES ASSUME ReplaysInv, NEW m \in reported, NEW r2Reachable \in BOOLEAN, B2Public
               PROVE  HandleGetReplay(m, r2Reachable) # NoExec
    BY DEF ReplayIsServed
  <2>1. archive[m] # NoExec
    BY DEF ReplaysInv, URLsAreArchived
  <2> QED BY <2>1 DEF HandleGetReplay, FetchReplayFromB2
<1> QED BY <1>1, ReplaysBegin, ReplaysStep, PTL DEF ReplaysSpec

(***************************************************************************)
(* The live feeds.                                                         *)
(***************************************************************************)
\* What the feeds are after the first k submissions.
TailOf(k) == [i \in 1 .. Min({TailLength, k}) |-> submitted[k + 1 - i]]
DeltaOf(k) == {submitted[i] : i \in 1 .. k}

\* Workers that have downloaded a feed and are not done.
Active(w) == hands[w].at \in {"tail_put", "delta", "delta_put"}
Quiet(ws) == \A v \in RWorkers \ ws : ~Publishing(v)

\* The feeds while nobody publishes.
FeedsAtRest == Quiet({}) => liveTail = TailOf(Len(submitted)) /\ liveDelta = DeltaOf(Len(submitted))

\* The feeds while w alone publishes: the last submission is its own, and missing
\* from the feed it has not uploaded yet.
FeedsOfOne(w) ==
  Publishing(w) /\ Quiet({w}) =>
    LET n == Len(submitted)
    IN  /\ n >= 1 /\ hands[w].match = submitted[n]
        /\ hands[w].at \in {"tail", "tail_put"} => liveTail = TailOf(n - 1)
        /\ hands[w].at \in {"delta", "delta_put"} => liveTail = TailOf(n)
        /\ liveDelta = DeltaOf(n - 1)
        /\ hands[w].at = "tail_put" => hands[w].tail = liveTail
        /\ hands[w].at = "delta_put" => hands[w].delta = liveDelta

\* The one overlap that is harmless: v has submitted and downloads nothing before
\* w has uploaded its last feed.
FeedsOfTwo(w, v) ==
  w # v /\ At(w, "delta_put") /\ At(v, "tail") /\ Quiet({w, v}) =>
    LET n == Len(submitted)
    IN  /\ n >= 2 /\ hands[w].match = submitted[n - 1] /\ hands[v].match = submitted[n]
        /\ liveTail = TailOf(n - 1)
        /\ liveDelta = DeltaOf(n - 2) /\ hands[w].delta = liveDelta

\* The inductive invariant of the feeds.  Any other overlap has set disturbed,
\* or must set it before all workers have published.
FeedsTypeOK == submitted \in Seq(RMatches) /\ disturbed \in BOOLEAN
FeedsFollow ==
  /\ \A w, v \in RWorkers : Active(w) /\ Active(v) => w = v
  /\ FeedsAtRest
  /\ \A w \in RWorkers : FeedsOfOne(w)
  /\ \A w, v \in RWorkers : FeedsOfTwo(w, v)
FeedsInv == HandsTypeOK /\ FeedsTypeOK /\ (disturbed \/ FeedsFollow)

\* The smaller of two numbers.
LEMMA MinOfTwo ==
  ASSUME NEW a \in Nat, NEW b \in Nat
  PROVE  Min({a, b}) = IF a <= b THEN a ELSE b
<1>1. \E x \in {a, b} : \A y \in {a, b} : x <= y
  <2>1. CASE a <= b
    BY <2>1
  <2>2. CASE b <= a
    BY <2>2
  <2> QED BY <2>1, <2>2
<1>2. Min({a, b}) \in {a, b} /\ \A y \in {a, b} : Min({a, b}) <= y
  BY <1>1 DEF Min
<1> QED BY <1>2

\* The feeds of k submissions do not depend on later ones.
LEMMA FeedsOfPrefix ==
  ASSUME submitted \in Seq(RMatches), NEW m, submitted' = Append(submitted, m), m \in RMatches,
         NEW k \in 0 .. Len(submitted)
  PROVE  TailOf(k)' = TailOf(k) /\ DeltaOf(k)' = DeltaOf(k)
<1>1. \A i \in 1 .. k : submitted'[i] = submitted[i]
  OBVIOUS
<1>2. Min({TailLength, k}) \in 0 .. k
  BY MinOfTwo, ReplaysConstants
<1> DEFINE n == Min({TailLength, k})
<1> HIDE DEF n
<1>3. n \in 0 .. k
  BY <1>2 DEF n
<1>4. \A i \in 1 .. n : submitted'[k + 1 - i] = submitted[k + 1 - i]
  <2> TAKE i \in 1 .. n
  <2>1. k + 1 - i \in 1 .. k
    BY <1>3
  <2> QED BY <1>1, <2>1
<1>5. TailOf(k)' = TailOf(k)
  BY <1>4 DEF TailOf, n
<1>6. DeltaOf(k)' = DeltaOf(k)
  BY <1>1 DEF DeltaOf
<1> QED BY <1>5, <1>6

\* Extending the tail of k submissions with the next one gives that of k + 1,
\* and the same of the deltas.
LEMMA FeedsExtend ==
  ASSUME submitted \in Seq(RMatches), NEW k \in Nat, k + 1 <= Len(submitted)
  PROVE  /\ ExtendTail(TailOf(k), submitted[k + 1]) = TailOf(k + 1)
         /\ MergeLiveDeltas(DeltaOf(k), submitted[k + 1]) = DeltaOf(k + 1)
<1> DEFINE t == TailOf(k)
           m == submitted[k + 1]
           n == Min({TailLength, k})
           e == Min({TailLength, n + 1})
<1>1. TailLength \in Nat
  BY ReplaysConstants
<1>2. n \in Nat /\ n = IF TailLength <= k THEN TailLength ELSE k
  BY <1>1, MinOfTwo
<1>3. e = IF TailLength <= n + 1 THEN TailLength ELSE n + 1
  <2> HIDE DEF n
  <2> QED BY <1>1, <1>2, MinOfTwo
<1>4. e = Min({TailLength, k + 1})
  <2>1. Min({TailLength, k + 1}) = IF TailLength <= k + 1 THEN TailLength ELSE k + 1
    BY <1>1, MinOfTwo
  <2> HIDE DEF n, e
  <2> QED BY <1>1, <1>2, <1>3, <2>1
<1>5. t \in Seq(RMatches) /\ Len(t) = n /\ \A i \in 1 .. n : t[i] = submitted[k + 1 - i]
  <2> HIDE DEF n
  <2>1. t = [i \in 1 .. n |-> submitted[k + 1 - i]]
    BY DEF TailOf, n
  <2>2. \A i \in 1 .. n : submitted[k + 1 - i] \in RMatches
    <3> TAKE i \in 1 .. n
    <3>1. k + 1 - i \in 1 .. Len(submitted)
      BY <1>1, <1>2
    <3> QED BY <3>1
  <2> HIDE DEF t
  <2> QED BY <1>2, <2>1, <2>2
<1>6. m \in RMatches
  OBVIOUS
<1> HIDE DEF t, m, n, e
<1>7. ExtendTail(t, m) = SubSeq(<<m>> \o t, 1, e)
  BY <1>5 DEF ExtendTail, e
<1>8. <<m>> \o t \in Seq(RMatches) /\ Len(<<m>> \o t) = n + 1
      /\ \A i \in 1 .. n + 1 : (<<m>> \o t)[i] = IF i = 1 THEN m ELSE t[i - 1]
  BY <1>2, <1>5, <1>6
<1>9. e \in 0 .. n + 1
  BY <1>1, <1>2, <1>3
<1>10. ExtendTail(t, m) = [i \in 1 .. e |-> (<<m>> \o t)[i]]
  BY <1>2, <1>7, <1>8, <1>9
<1>11. \A i \in 1 .. e : (<<m>> \o t)[i] = submitted[k + 1 + 1 - i]
  <2> TAKE i \in 1 .. e
  <2>1. CASE i = 1
    BY <1>2, <1>8, <1>9, <2>1 DEF m
  <2>2. CASE i # 1
    <3>1. i - 1 \in 1 .. n /\ i \in 1 .. n + 1
      BY <1>2, <1>9, <2>2
    <3>2. t[i - 1] = submitted[k + 1 - (i - 1)]
      BY <1>5, <3>1
    <3> QED BY <1>8, <2>2, <3>1, <3>2
  <2> QED BY <2>1, <2>2
<1>12. ExtendTail(t, m) = TailOf(k + 1)
  BY <1>4, <1>10, <1>11 DEF TailOf
<1>13. MergeLiveDeltas(DeltaOf(k), m) = DeltaOf(k + 1)
  <2>1. 1 .. k + 1 = (1 .. k) \union {k + 1}
    OBVIOUS
  <2> QED BY <2>1 DEF MergeLiveDeltas, DeltaOf, m
<1> QED BY <1>12, <1>13 DEF t, m

\* Nothing is submitted or published at first.
LEMMA FeedsBegin == ReplaysInit => FeedsInv
<1> SUFFICES ASSUME ReplaysInit PROVE FeedsInv
  OBVIOUS
<1>1. HandsTypeOK
  BY ReplaysBegin DEF ReplaysInv
<1>2. \A w \in RWorkers : hands[w].at = "idle"
  BY DEF ReplaysInit, EmptyHands
<1>3. submitted = <<>> /\ liveTail = <<>> /\ liveDelta = {} /\ disturbed = FALSE
  BY DEF ReplaysInit
<1>4. FeedsAtRest
  <2>1. Len(submitted) = 0 /\ Min({TailLength, 0}) = 0
    BY <1>3, MinOfTwo, ReplaysConstants
  <2>2. TailOf(0) = <<>> /\ DeltaOf(0) = {}
    <3>1. TailOf(0) = [i \in 1 .. 0 |-> submitted[0 + 1 - i]]
      BY <2>1 DEF TailOf
    <3> DEFINE t == TailOf(0)
    <3>2. t \in Seq(RMatches) /\ Len(t) = 0
      <4>1. PICK n \in Nat : n = 0
        OBVIOUS
      <4>2. t = [i \in 1 .. n |-> submitted[0 + 1 - i]] /\ \A i \in 1 .. n : submitted[0 + 1 - i] \in RMatches
        BY <3>1, <4>1
      <4> HIDE DEF t
      <4> QED BY <4>1, <4>2
    <3>3. DeltaOf(0) = {}
      BY DEF DeltaOf
    <3> HIDE DEF t
    <3>4. t = <<>>
      BY <3>2
    <3> QED BY <3>3, <3>4 DEF t
  <2> QED BY <1>3, <2>1, <2>2 DEF FeedsAtRest
<1>5. FeedsFollow
  BY <1>2, <1>4 DEF FeedsFollow, FeedsOfOne, FeedsOfTwo, Active, Publishing, At
<1>6. submitted \in Seq(RMatches)
  BY <1>3
<1>7. FeedsTypeOK
  BY <1>3, <1>6 DEF FeedsTypeOK
<1> QED BY <1>1, <1>5, <1>7 DEF FeedsInv

\* Steps before the submission touch neither feeds nor publishing workers.
LEMMA FeedsUntouched ==
  ASSUME FeedsFollow, UNCHANGED <<liveTail, liveDelta, submitted>>,
         \A v \in RWorkers : \/ hands'[v] = hands[v]
                             \/ ~Publishing(v) /\ hands'[v].at \in {"b2", "r2", "submit"}
  PROVE  FeedsFollow'
<1>1. \A v \in RWorkers : Publishing(v)' <=> Publishing(v)
  BY DEF Publishing
<1>2. \A v \in RWorkers : Publishing(v) => hands'[v] = hands[v]
  BY DEF Publishing
<1>3. \A k : TailOf(k)' = TailOf(k) /\ DeltaOf(k)' = DeltaOf(k)
  BY DEF TailOf, DeltaOf
<1>4. \A ws : Quiet(ws)' <=> Quiet(ws)
  BY <1>1 DEF Quiet
<1>5. (\A w, v \in RWorkers : Active(w) /\ Active(v) => w = v)'
  <2> SUFFICES ASSUME NEW w \in RWorkers, NEW v \in RWorkers, Active(w)', Active(v)'
               PROVE  w = v
    OBVIOUS
  <2>1. Active(w) /\ Active(v)
    BY DEF Active
  <2> QED BY <2>1 DEF FeedsFollow
<1>6. FeedsAtRest'
  BY <1>3, <1>4 DEF FeedsAtRest, FeedsFollow
<1>7. ASSUME NEW w \in RWorkers PROVE FeedsOfOne(w)'
  <2>1. FeedsOfOne(w)
    BY DEF FeedsFollow
  <2> QED BY <1>1, <1>2, <1>3, <1>4, <2>1 DEF FeedsOfOne
<1>8. ASSUME NEW w \in RWorkers, NEW v \in RWorkers PROVE FeedsOfTwo(w, v)'
  <2>1. FeedsOfTwo(w, v)
    BY DEF FeedsFollow
  <2>2. At(w, "delta_put")' /\ At(v, "tail")' =>
          /\ hands'[w] = hands[w] /\ hands'[v] = hands[v]
          /\ At(w, "delta_put") /\ At(v, "tail")
    BY <1>1, <1>2 DEF At, Publishing
  <2> QED BY <1>3, <1>4, <2>1, <2>2 DEF FeedsOfTwo
<1> QED BY <1>5, <1>6, <1>7, <1>8 DEF FeedsFollow

\* The submission: with nobody publishing it opens a publication, and next to a
\* worker about to upload its last feed it is the harmless overlap.
LEMMA SubmitKeepsFeeds ==
  ASSUME HandsTypeOK, FeedsTypeOK, FeedsFollow, NEW w \in RWorkers, SubmitWithReplay(w)
  PROVE  FeedsFollow'
<1>0. PICK n \in Nat : n = Len(submitted)
  BY DEF FeedsTypeOK
<1>1. Moves(w, "tail", hands[w].url, hands[w].tail, hands[w].delta) /\ At(w, "submit")
  BY StepsMove DEF SubmitWithReplay
<1>2. /\ submitted' = Append(submitted, hands[w].match) /\ UNCHANGED <<liveTail, liveDelta>>
      /\ hands[w].match \in RMatches
  BY DEF SubmitWithReplay, feeds, HandsTypeOK, At
<1>3. n \in Nat /\ Len(submitted') = n + 1 /\ submitted'[n + 1] = hands[w].match
      /\ \A i \in 1 .. n : submitted'[i] = submitted[i]
  BY <1>0, <1>2 DEF FeedsTypeOK
<1>4. \A k \in 0 .. n : TailOf(k)' = TailOf(k) /\ DeltaOf(k)' = DeltaOf(k)
  BY <1>0, <1>2, FeedsOfPrefix DEF FeedsTypeOK
<1>5. /\ hands'[w].at = "tail" /\ hands'[w].match = hands[w].match
      /\ \A v \in RWorkers \ {w} : hands'[v] = hands[v]
  BY <1>1 DEF Moves
<1>6. Publishing(w)' /\ ~Publishing(w) /\ \A v \in RWorkers \ {w} : Publishing(v)' <=> Publishing(v)
  BY <1>1, <1>5 DEF Publishing, At
<1>7. (\A u, v \in RWorkers : Active(u) /\ Active(v) => u = v)'
  <2>1. \A v \in RWorkers : Active(v)' => Active(v)
    BY <1>5 DEF Active
  <2> QED BY <2>1 DEF FeedsFollow
<1>8. FeedsAtRest'
  BY <1>6 DEF FeedsAtRest, Quiet
<1>9. ASSUME NEW u \in RWorkers PROVE FeedsOfOne(u)'
  <2> SUFFICES ASSUME Publishing(u)', Quiet({u})' PROVE FeedsOfOne(u)'
    BY DEF FeedsOfOne
  <2>1. u = w
    BY <1>6 DEF Quiet
  <2>2. Quiet({})
    BY <1>6, <2>1 DEF Quiet
  <2>3. liveTail = TailOf(n) /\ liveDelta = DeltaOf(n)
    BY <1>0, <2>2 DEF FeedsFollow, FeedsAtRest
  <2>4. liveTail' = TailOf(n)' /\ liveDelta' = DeltaOf(n)'
    BY <1>2, <1>3, <1>4, <2>3
  <2>5. Len(submitted') - 1 = n /\ Len(submitted') >= 1
    BY <1>3
  <2> QED BY <1>3, <1>5, <2>1, <2>4, <2>5 DEF FeedsOfOne
<1>10. ASSUME NEW u \in RWorkers, NEW v \in RWorkers PROVE FeedsOfTwo(u, v)'
  <2> SUFFICES ASSUME u # v, At(u, "delta_put")', At(v, "tail")', Quiet({u, v})'
               PROVE  FeedsOfTwo(u, v)'
    BY DEF FeedsOfTwo
  <2>1. v = w
    BY <1>5, <1>6 DEF Quiet, At
  <2>2. hands'[u] = hands[u] /\ hands[u].at = "delta_put" /\ Publishing(u) /\ Quiet({u})
    BY <1>5, <1>6, <2>1 DEF Quiet, At, Publishing
  <2>3. /\ n >= 1 /\ hands[u].match = submitted[n] /\ liveTail = TailOf(n)
        /\ liveDelta = DeltaOf(n - 1) /\ hands[u].delta = liveDelta
    BY <1>0, <2>2 DEF FeedsFollow, FeedsOfOne
  <2>4. liveTail' = TailOf(n)' /\ liveDelta' = DeltaOf(n - 1)'
    BY <1>2, <1>3, <1>4, <2>3
  <2>5. Len(submitted') - 1 = n /\ Len(submitted') - 2 = n - 1 /\ Len(submitted') >= 2
    BY <1>3, <2>3
  <2>6. hands'[u].match = submitted'[n]
    BY <1>3, <2>2, <2>3
  <2> QED BY <1>2, <1>3, <1>5, <2>1, <2>2, <2>3, <2>4, <2>5, <2>6 DEF FeedsOfTwo
<1> QED BY <1>7, <1>8, <1>9, <1>10 DEF FeedsFollow

\* A download that overlaps nobody, and the upload of the tail.
LEMMA TransfersKeepFeeds ==
  ASSUME HandsTypeOK, FeedsTypeOK, FeedsFollow, NEW w \in RWorkers, NEW ok \in BOOLEAN, ~disturbed'
  PROVE  /\ DownloadTail(w, ok) => FeedsFollow'
         /\ UploadTail(w, ok) => FeedsFollow'
         /\ DownloadDelta(w, ok) => FeedsFollow'
<1>0. PICK n \in Nat : n = Len(submitted)
  BY DEF FeedsTypeOK
\* Where the worker is alone, what it holds decides.
<1>1. ASSUME Publishing(w), NEW at \in {"tail_put", "delta", "delta_put"}, NEW tail, NEW delta,
             Moves(w, at, hands[w].url, tail, delta), submitted' = submitted,
             Quiet({w}) \/ (Active(w) /\ at # "delta_put"),
             Quiet({w}) => /\ n >= 1 /\ hands[w].match = submitted[n]
                           /\ at = "tail_put" => liveTail' = TailOf(n - 1) /\ tail = liveTail'
                           /\ at \in {"delta", "delta_put"} => liveTail' = TailOf(n)
                           /\ liveDelta' = DeltaOf(n - 1)
                           /\ at = "delta_put" => delta = liveDelta'
      PROVE  FeedsFollow'
  <2>1. /\ hands'[w].at = at /\ hands'[w].match = hands[w].match
        /\ hands'[w].tail = tail /\ hands'[w].delta = delta
        /\ \A v \in RWorkers \ {w} : hands'[v] = hands[v]
    BY <1>1 DEF Moves
  <2>2. \A v \in RWorkers : Publishing(v)' <=> Publishing(v)
    BY <1>1, <2>1 DEF Publishing
  <2>3. \A ws : Quiet(ws)' <=> Quiet(ws)
    BY <2>2 DEF Quiet
  <2>4. \A k : TailOf(k)' = TailOf(k) /\ DeltaOf(k)' = DeltaOf(k)
    BY <1>1 DEF TailOf, DeltaOf
  <2>5. (\A u, v \in RWorkers : Active(u) /\ Active(v) => u = v)'
    <3> SUFFICES ASSUME NEW u \in RWorkers, NEW v \in RWorkers, Active(u)', Active(v)' PROVE u = v
      OBVIOUS
    <3>1. CASE Quiet({w})
      BY <2>2, <3>1 DEF Quiet, Active, Publishing
    <3>2. CASE Active(w)
      <4>1. Active(u) /\ Active(v)
        BY <2>1, <3>2 DEF Active
      <4> QED BY <4>1 DEF FeedsFollow
    <3> QED BY <1>1, <3>1, <3>2
  <2>6. FeedsAtRest'
    BY <1>1, <2>2 DEF FeedsAtRest, Quiet
  <2>7. ASSUME NEW u \in RWorkers PROVE FeedsOfOne(u)'
    <3> SUFFICES ASSUME Publishing(u)', Quiet({u})' PROVE FeedsOfOne(u)'
      BY DEF FeedsOfOne
    <3>1. u = w /\ Quiet({w})
      BY <1>1, <2>2, <2>3 DEF Quiet
    <3>2. Len(submitted') = n /\ Len(submitted') - 1 = n - 1 /\ n >= 1 /\ hands'[w].match = submitted'[n]
      BY <1>0, <1>1, <2>1, <3>1
    <3> QED BY <1>1, <2>1, <2>4, <3>1, <3>2 DEF FeedsOfOne
  <2>8. ASSUME NEW u \in RWorkers, NEW v \in RWorkers PROVE FeedsOfTwo(u, v)'
    <3> SUFFICES ASSUME u # v, At(u, "delta_put")', At(v, "tail")', Quiet({u, v})' PROVE FALSE
      BY DEF FeedsOfTwo
    <3>1. Publishing(u) /\ Publishing(v)
      BY <2>2 DEF At, Publishing
    <3>2. w = u \/ w = v
      BY <1>1, <2>3 DEF Quiet
    <3>3. w = u /\ at = "delta_put"
      BY <1>1, <2>1, <3>2 DEF At
    <3> QED BY <1>1, <3>1, <3>3 DEF Quiet
  <2> QED BY <2>5, <2>6, <2>7, <2>8 DEF FeedsFollow
\* The facts about w alone before the step.
<1>2. Publishing(w) /\ Quiet({w}) =>
        /\ n >= 1 /\ hands[w].match = submitted[n]
        /\ hands[w].at \in {"tail", "tail_put"} => liveTail = TailOf(n - 1)
        /\ hands[w].at \in {"delta", "delta_put"} => liveTail = TailOf(n)
        /\ liveDelta = DeltaOf(n - 1)
        /\ hands[w].at = "tail_put" => hands[w].tail = liveTail
  BY <1>0 DEF FeedsFollow, FeedsOfOne
<1>3. ~Overlaps(w) => Quiet({w})
  BY DEF Overlaps, Quiet
<1>4. ASSUME DownloadTail(w, ok) PROVE FeedsFollow'
  <2>1. ok /\ Quiet({w}) /\ hands[w].at = "tail"
    BY <1>3, <1>4 DEF DownloadTail, At
  <2>2. UNCHANGED <<submitted, liveTail, liveDelta>> /\ Publishing(w)
    BY <1>4, <2>1 DEF DownloadTail, rowsOf, feeds, Publishing
  <2>3. Moves(w, "tail_put", hands[w].url, liveTail, hands[w].delta)
    BY <1>4, <2>1, StepsMove
  <2> QED BY <1>1, <1>2, <2>1, <2>2, <2>3
<1>5. ASSUME UploadTail(w, ok) PROVE FeedsFollow'
  <2>1. ok /\ hands[w].at = "tail_put" /\ Publishing(w) /\ Active(w)
    BY <1>5 DEF UploadTail, At, Publishing, Active
  <2>2. UNCHANGED <<submitted, liveDelta>> /\ liveTail' = ExtendTail(hands[w].tail, hands[w].match)
    BY <1>5, <2>1 DEF UploadTail, rowsOf
  <2>3. Moves(w, "delta", hands[w].url, <<>>, hands[w].delta)
    BY <1>5, StepsMove
  <2>4. Quiet({w}) => liveTail' = TailOf(n)
    <3> SUFFICES ASSUME Quiet({w}) PROVE liveTail' = TailOf(n)
      OBVIOUS
    <3>1. n >= 1 /\ hands[w].tail = TailOf(n - 1) /\ hands[w].match = submitted[n]
      BY <1>2, <2>1
    <3>2. n - 1 \in Nat /\ (n - 1) + 1 = n
      BY <3>1
    <3>3. ExtendTail(TailOf(n - 1), submitted[(n - 1) + 1]) = TailOf((n - 1) + 1)
      BY <1>0, <3>2, FeedsExtend DEF FeedsTypeOK
    <3> QED BY <2>2, <3>1, <3>2, <3>3
  <2> QED BY <1>1, <1>2, <2>1, <2>2, <2>3, <2>4
<1>6. ASSUME DownloadDelta(w, ok) PROVE FeedsFollow'
  <2>1. ok /\ Quiet({w}) /\ hands[w].at = "delta"
    BY <1>3, <1>6 DEF DownloadDelta, At
  <2>2. UNCHANGED <<submitted, liveTail, liveDelta>> /\ Publishing(w)
    BY <1>6, <2>1 DEF DownloadDelta, rowsOf, feeds, Publishing
  <2>3. Moves(w, "delta_put", hands[w].url, hands[w].tail, liveDelta)
    BY <1>6, <2>1, StepsMove
  <2> QED BY <1>1, <1>2, <2>1, <2>2, <2>3
<1> QED BY <1>4, <1>5, <1>6

\* The last upload of a publication: alone it brings both feeds to rest, in the
\* harmless overlap it leaves the other worker alone.
LEMMA UploadDeltaKeepsFeeds ==
  ASSUME HandsTypeOK, FeedsTypeOK, FeedsFollow, NEW w \in RWorkers, NEW ok \in BOOLEAN, ~disturbed',
         UploadDelta(w, ok)
  PROVE  FeedsFollow'
<1>0. PICK n \in Nat : n = Len(submitted)
  BY DEF FeedsTypeOK
<1>1. /\ ok /\ hands[w].at = "delta_put" /\ UNCHANGED <<submitted, liveTail>>
      /\ liveDelta' = MergeLiveDeltas(hands[w].delta, hands[w].match)
      /\ hands' = [hands EXCEPT ![w] = EmptyHands]
  BY DEF UploadDelta, At, rowsOf
<1>2. hands'[w].at = "idle" /\ \A v \in RWorkers \ {w} : hands'[v] = hands[v]
  BY <1>1 DEF HandsTypeOK, EmptyHands
<1>3. Publishing(w) /\ Active(w) /\ ~Publishing(w)'
      /\ \A v \in RWorkers \ {w} : Publishing(v)' <=> Publishing(v)
  BY <1>1, <1>2 DEF Publishing, Active
<1>4. \A k : TailOf(k)' = TailOf(k) /\ DeltaOf(k)' = DeltaOf(k)
  BY <1>1 DEF TailOf, DeltaOf
<1>5. ASSUME NEW v \in RWorkers, v # w PROVE ~Active(v) /\ ~Active(v)'
  BY <1>2, <1>3, <1>5 DEF FeedsFollow, Active
<1>6. (\A u, v \in RWorkers : Active(u) /\ Active(v) => u = v)'
  BY <1>2, <1>5 DEF Active
<1>7. FeedsAtRest'
  <2> SUFFICES ASSUME Quiet({})' PROVE liveTail' = TailOf(n)' /\ liveDelta' = DeltaOf(n)'
    BY <1>0, <1>1 DEF FeedsAtRest
  <2>1. Quiet({w})
    BY <1>3 DEF Quiet
  <2>2. /\ n >= 1 /\ hands[w].match = submitted[n] /\ liveTail = TailOf(n)
        /\ hands[w].delta = DeltaOf(n - 1)
    BY <1>0, <1>1, <1>3, <2>1 DEF FeedsFollow, FeedsOfOne
  <2>3. n - 1 \in Nat /\ (n - 1) + 1 = n
    BY <2>2
  <2>4. MergeLiveDeltas(DeltaOf(n - 1), submitted[(n - 1) + 1]) = DeltaOf((n - 1) + 1)
    BY <1>0, <2>3, FeedsExtend DEF FeedsTypeOK
  <2> QED BY <1>1, <1>4, <2>2, <2>3, <2>4
<1>8. ASSUME NEW u \in RWorkers PROVE FeedsOfOne(u)'
  <2> SUFFICES ASSUME Publishing(u)', Quiet({u})' PROVE FeedsOfOne(u)'
    BY DEF FeedsOfOne
  <2>1. u # w /\ hands'[u] = hands[u]
    BY <1>2, <1>3
  <2>2. hands[u].at = "tail"
    BY <1>3, <1>5, <2>1 DEF Active, Publishing
  <2>3. Quiet({w, u})
    BY <1>3 DEF Quiet
  <2>4. /\ n >= 2 /\ hands[w].match = submitted[n - 1] /\ hands[u].match = submitted[n]
        /\ liveTail = TailOf(n - 1) /\ hands[w].delta = DeltaOf(n - 2)
    BY <1>0, <1>1, <2>1, <2>2, <2>3 DEF FeedsFollow, FeedsOfTwo, At
  <2>5. n - 2 \in Nat /\ (n - 2) + 1 = n - 1
    BY <2>4
  <2>6. MergeLiveDeltas(DeltaOf(n - 2), submitted[(n - 2) + 1]) = DeltaOf((n - 2) + 1)
    BY <1>0, <2>5, FeedsExtend DEF FeedsTypeOK
  <2>7. liveDelta' = DeltaOf(n - 1)' /\ liveTail' = TailOf(n - 1)'
    BY <1>1, <1>4, <2>4, <2>5, <2>6
  <2>8. Len(submitted') = n /\ n >= 1 /\ hands'[u].match = submitted'[n]
    BY <1>0, <1>1, <2>1, <2>4
  <2> QED BY <2>1, <2>2, <2>7, <2>8 DEF FeedsOfOne
<1>9. ASSUME NEW u \in RWorkers, NEW v \in RWorkers PROVE FeedsOfTwo(u, v)'
  BY <1>2, <1>5 DEF FeedsOfTwo, At, Active
<1> QED BY <1>6, <1>7, <1>8, <1>9 DEF FeedsFollow

\* Every step keeps the invariant of the feeds.
LEMMA FeedsStep ==
  ReplaysInv /\ FeedsInv /\ [ReplaysNext]_replayVars => FeedsInv'
<1> SUFFICES ASSUME ReplaysInv, FeedsInv, [ReplaysNext]_replayVars PROVE FeedsInv'
  OBVIOUS
<1>1. HandsTypeOK /\ HandsTypeOK'
  BY ReplaysStep DEF ReplaysInv
<1>2. disturbed \in BOOLEAN /\ submitted \in Seq(RMatches)
  BY DEF FeedsInv, FeedsTypeOK
<1> DEFINE Kept == FeedsTypeOK' /\ (disturbed => disturbed') /\ (~disturbed' => FeedsFollow')
<1>3. Kept => FeedsInv'
  BY <1>1 DEF FeedsInv, FeedsTypeOK
<1>4. ASSUME UNCHANGED <<liveTail, liveDelta, submitted, disturbed>>,
             \A v \in RWorkers : \/ hands'[v] = hands[v]
                                 \/ ~Publishing(v) /\ hands'[v].at \in {"b2", "r2", "submit"}
      PROVE  Kept
  BY <1>2, <1>4, FeedsUntouched DEF FeedsInv, FeedsTypeOK
<1>5. ASSUME NEW w \in RWorkers, NEW m \in RMatches, PlayMatch(w, m) PROVE Kept
  <2>1. /\ hands[w].at = "idle" /\ UNCHANGED <<liveTail, liveDelta, submitted, disturbed>>
        /\ hands' = [hands EXCEPT ![w] = [EmptyHands EXCEPT !.match = m,
                                             !.at = IF w \in B2Workers THEN "b2" ELSE "submit"]]
    BY <1>5 DEF PlayMatch, At, feeds
  <2>2. hands'[w].at \in {"b2", "submit"} /\ \A v \in RWorkers \ {w} : hands'[v] = hands[v]
    BY <1>1, <2>1 DEF HandsTypeOK, EmptyHands
  <2>3. ~Publishing(w)
    BY <2>1 DEF Publishing
  <2> QED BY <1>4, <2>1, <2>2, <2>3
<1>6. ASSUME NEW m \in RMatches, ClaimGoesStale(m) PROVE Kept
  BY <1>4, <1>6 DEF ClaimGoesStale, feeds
<1>7. ASSUME NEW w \in RWorkers, NEW ok \in BOOLEAN, UploadToB2(w, ok) \/ UploadToR2(w, ok)
      PROVE  Kept
  <2>1. UNCHANGED <<liveTail, liveDelta, submitted, disturbed>> /\ ~Publishing(w)
    BY <1>7 DEF UploadToB2, UploadToR2, feeds, rowsOf, At, Publishing
  <2>2. \E at \in {"r2", "submit"}, url \in BOOLEAN : Moves(w, at, url, hands[w].tail, hands[w].delta)
    BY <1>1, <1>7, StepsMove DEF HandsTypeOK
  <2>3. hands'[w].at \in {"r2", "submit"} /\ \A v \in RWorkers \ {w} : hands'[v] = hands[v]
    BY <2>2 DEF Moves
  <2> QED BY <1>4, <2>1, <2>3
<1>8. ASSUME NEW w \in RWorkers, SubmitWithReplay(w) PROVE Kept
  <2>1. disturbed' = disturbed /\ submitted' = Append(submitted, hands[w].match)
        /\ hands[w].match \in RMatches
    BY <1>1, <1>8 DEF SubmitWithReplay, HandsTypeOK, At
  <2>2. submitted' \in Seq(RMatches)
    BY <1>2, <2>1
  <2>3. ~disturbed' => FeedsFollow'
    BY <1>1, <1>8, <2>1, SubmitKeepsFeeds DEF FeedsInv
  <2> QED BY <1>2, <2>1, <2>2, <2>3 DEF FeedsTypeOK
<1>9. ASSUME NEW w \in RWorkers, NEW ok \in BOOLEAN,
             DownloadTail(w, ok) \/ UploadTail(w, ok) \/ DownloadDelta(w, ok) \/ UploadDelta(w, ok)
      PROVE  Kept
  <2>1. submitted' = submitted
    BY <1>9 DEF DownloadTail, UploadTail, DownloadDelta, UploadDelta, rowsOf
  <2>2. disturbed' \in BOOLEAN /\ (disturbed => disturbed')
    BY <1>2, <1>9 DEF DownloadTail, UploadTail, DownloadDelta, UploadDelta
  <2>3. ~disturbed' => FeedsFollow'
    BY <1>1, <1>9, <2>2, TransfersKeepFeeds, UploadDeltaKeepsFeeds DEF FeedsInv
  <2> QED BY <1>2, <2>1, <2>2, <2>3 DEF FeedsTypeOK
<1>10. CASE UNCHANGED replayVars
  BY <1>3, <1>4, <1>10 DEF replayVars
<1>11. CASE ReplaysNext
  BY <1>3, <1>5, <1>6, <1>7, <1>8, <1>9, <1>11 DEF ReplaysNext
<1> QED BY <1>10, <1>11

\* For any number of workers and submissions: unless feed updates overlapped or
\* a transfer failed, the tail is the newest submissions and the deltas are all
\* of them (updateLiveTail, updateLiveDelta).
THEOREM FeedsAreExact == ReplaysSpec => []FeedsExactWhenSerial
<1>1. FeedsInv => FeedsExactWhenSerial
  <2> SUFFICES ASSUME FeedsInv, ~disturbed, \A w \in RWorkers : ~Publishing(w)
               PROVE  /\ liveTail = TailOf(Len(submitted)) /\ liveDelta = DeltaOf(Len(submitted))
                      /\ DOMAIN submitted = 1 .. Len(submitted)
    BY DEF FeedsExactWhenSerial, TailOf, DeltaOf
  <2>1. Quiet({})
    BY DEF Quiet
  <2> QED BY <2>1 DEF FeedsInv, FeedsTypeOK, FeedsFollow, FeedsAtRest
<1> QED BY <1>1, ReplaysBegin, ReplaysStep, FeedsBegin, FeedsStep, PTL DEF ReplaysSpec

=============================================================================
