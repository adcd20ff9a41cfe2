---------------------------- MODULE LeaseProofs -----------------------------
(***************************************************************************)
(* How much slack the heartbeat has, for every TTL, period, delay and clock *)
(* offset.                                                                 *)
(***************************************************************************)
EXTENDS Lease, TLAPS

\* Two periods, two calls and the clocks' offset fit in the TTL.  With the
\* code's Interval = TTL / 3 that leaves a third of the TTL for the calls and
\* the clocks.
Slack ==
  \A r, s \in Runs : 2 * Interval + 2 * MaxDelay + Skew[s] - Skew[r] < TTL

\* A live run's ticker is at most one call late.
Punctual(r) == now <= beat[r] + MaxDelay

\* What a run that has missed no renewal, or one, can rely on: the row names
\* it, and the expiry is no further back than its last renewal, or a renewal of
\* advance's executed late, puts it.
Kept(r) ==
  /\ holder = r
  /\ beat[r] - Interval <= now \/ beat[r] - Interval <= since[r]
  /\ misses[r] \in {0, 1}
  /\ misses[r] = 0 => expires >= beat[r] - Interval - MaxDelay + Skew[r] + TTL
  /\ misses[r] = 1 => expires >= beat[r] - 2 * Interval - MaxDelay + Skew[r] + TTL

KeptIfRegular(r) == misses[r] <= 1 => Kept(r)

AllKept ==
  \A r \in Runs : mode[r] = "holding" => Punctual(r) /\ KeptIfRegular(r)
-----------------------------------------------------------------------------
(* Types. *)

\* The types of the constants, in one place.
LEMMA ConstantsTyped ==
  /\ Interval \in Nat /\ Interval > 0 /\ TTL \in Nat /\ MaxDelay \in Nat
  /\ MaxMisses \in Nat /\ Skew \in [Runs -> Int] /\ NoRun \notin Runs
BY IntervalAssumption, LeaseConstantsAssumption

\* Every step keeps the variables' types.
LEMMA StepTyped ==
  ASSUME TypeOK, [Next]_vars
  PROVE  TypeOK'
<1>1. CASE Tick
  BY <1>1 DEF TypeOK, Tick
<1>2. ASSUME NEW r \in Runs, Acquire(r)
      PROVE  TypeOK'
  <2>1. PICK issued \in (now - MaxDelay)..now :
          /\ issued >= 0
          /\ holder' = r
          /\ expires' = Clock(r, issued) + TTL
          /\ \E answered \in now..(issued + MaxDelay) :
               /\ since' = [since EXCEPT ![r] = answered]
               /\ beat' = [beat EXCEPT ![r] = answered + Interval]
    BY <1>2 DEF Acquire
  <2>2. PICK answered \in now..(issued + MaxDelay) :
          /\ since' = [since EXCEPT ![r] = answered]
          /\ beat' = [beat EXCEPT ![r] = answered + Interval]
    BY <2>1
  <2>3. now \in Nat /\ issued \in Int /\ answered \in Nat /\ answered + Interval \in Nat
    BY ConstantsTyped DEF TypeOK
  <2>4. expires' \in Int
    BY <2>1, <2>3, ConstantsTyped DEF Clock
  <2>5. mode' \in [Runs -> Modes] /\ misses' \in [Runs -> Nat] /\ now' = now
    BY <1>2 DEF Acquire, TypeOK, Modes
  <2>6. since' \in [Runs -> Nat] /\ beat' \in [Runs -> Nat]
    BY <2>2, <2>3 DEF TypeOK
  <2>7. holder' \in Runs /\ holder' # NoRun
    BY <2>1, ConstantsTyped
  <2> QED
    BY <2>3, <2>4, <2>5, <2>6, <2>7 DEF TypeOK
<1>3. ASSUME NEW r \in Runs, Renew(r)
      PROVE  TypeOK'
  <2>1. Clock(r, beat[r]) + TTL \in Int /\ beat[r] + Interval \in Nat
    BY ConstantsTyped DEF TypeOK, Clock
  <2> QED
    BY <1>3, <2>1, ConstantsTyped DEF Renew, NextBeat, TypeOK
<1>4. ASSUME NEW r \in Runs, LoseLease(r) \/ Die(r)
      PROVE  TypeOK'
  BY <1>4 DEF LoseLease, Die, TypeOK, Modes
<1>5. ASSUME NEW r \in Runs, MissRenewal(r)
      PROVE  TypeOK'
  <2>1. beat[r] + Interval \in Nat /\ misses[r] + 1 \in Nat
    BY ConstantsTyped DEF TypeOK
  <2> QED
    BY <1>5, <2>1 DEF MissRenewal, NextBeat, TypeOK
<1>6. ASSUME NEW r \in Runs, RenewBeforeStep(r)
      PROVE  TypeOK'
  <2>1. PICK issued \in (now - MaxDelay)..now : expires' = Clock(r, issued) + TTL
    BY <1>6 DEF RenewBeforeStep
  <2>2. expires' \in Int
    BY <2>1, ConstantsTyped DEF TypeOK, Clock
  <2> QED
    BY <1>6, <2>2, ConstantsTyped DEF RenewBeforeStep, TypeOK
<1>7. ASSUME NEW r \in Runs, Release(r)
      PROVE  TypeOK'
  BY <1>7 DEF Release, TypeOK, Modes
<1>8. CASE UNCHANGED vars
  BY <1>8 DEF vars, TypeOK
<1> QED
  BY <1>1, <1>2, <1>3, <1>4, <1>5, <1>6, <1>7, <1>8 DEF Next

\* The variables keep their types.
THEOREM LeaseTyped == Spec => []TypeOK
<1>1. Init => TypeOK
  BY DEF Init, TypeOK, Modes
<1>2. TypeOK /\ [Next]_vars => TypeOK'
  BY StepTyped
<1> QED
  BY <1>1, <1>2, PTL DEF Spec
-----------------------------------------------------------------------------
(* A dead run. *)

\* A run that dies blocks the cluster no longer than the TTL: no statement of
\* the lease writes an expiry further away than that.
THEOREM DeathBlocksAtMostTTL == Spec => []BlockedAtMostTTL
<1>1. Init => BlockedAtMostTTL
  BY DEF Init, BlockedAtMostTTL
<1>2. TypeOK /\ BlockedAtMostTTL /\ [Next]_vars => BlockedAtMostTTL'
  <2> SUFFICES ASSUME TypeOK, BlockedAtMostTTL, [Next]_vars
               PROVE  BlockedAtMostTTL'
    OBVIOUS
  <2>1. CASE Tick
    <3>1. holder # NoRun => Skew[holder] \in Int
      BY ConstantsTyped DEF TypeOK
    <3> QED
      BY <2>1, <3>1, ConstantsTyped DEF Tick, TypeOK, BlockedAtMostTTL, Clock
  <2>2. ASSUME NEW r \in Runs, Acquire(r) \/ RenewBeforeStep(r)
        PROVE  BlockedAtMostTTL'
    <3>1. PICK issued \in (now - MaxDelay)..now :
            holder' = r /\ now' = now /\ expires' = Clock(r, issued) + TTL
      BY <2>2 DEF Acquire, RenewBeforeStep
    <3> QED
      BY <3>1, ConstantsTyped DEF TypeOK, BlockedAtMostTTL, Clock
  <2>3. ASSUME NEW r \in Runs, Renew(r)
        PROVE  BlockedAtMostTTL'
    <3>1. /\ now' = now /\ holder' = r /\ beat[r] <= now
          /\ expires' = beat[r] + Skew[r] + TTL
      BY <2>3 DEF Renew, Due, Clock
    <3> QED
      BY <3>1, ConstantsTyped DEF TypeOK, BlockedAtMostTTL, Clock
  <2>4. ASSUME NEW r \in Runs, LoseLease(r) \/ MissRenewal(r) \/ Die(r)
        PROVE  BlockedAtMostTTL'
    BY <2>4 DEF LoseLease, MissRenewal, Die, BlockedAtMostTTL, Clock
  <2>5. ASSUME NEW r \in Runs, Release(r)
        PROVE  BlockedAtMostTTL'
    BY <2>5 DEF Release, BlockedAtMostTTL, Clock
  <2>6. CASE UNCHANGED vars
    BY <2>6 DEF vars, BlockedAtMostTTL, Clock
  <2> QED
    BY <2>1, <2>2, <2>3, <2>4, <2>5, <2>6 DEF Next
<1> QED
  BY <1>1, <1>2, LeaseTyped, PTL DEF Spec
-----------------------------------------------------------------------------
(* A live run. *)

\* While it is kept, a lease is expired by nobody's clock, however late the
\* statement that would take it was issued.
LEMMA KeptIsUnexpired ==
  ASSUME TypeOK, Slack, NEW r \in Runs, Punctual(r), Kept(r),
         NEW s \in Runs, NEW issued \in Int, issued <= now
  PROVE  ~Expired(Clock(s, issued))
<1>1. 2 * Interval + 2 * MaxDelay + Skew[s] - Skew[r] < TTL
  BY DEF Slack
<1>2. expires >= beat[r] - 2 * Interval - MaxDelay + Skew[r] + TTL
  BY ConstantsTyped DEF Kept, TypeOK
<1> QED
  BY <1>1, <1>2, ConstantsTyped DEF Punctual, TypeOK, Expired, Clock

\* What another run does leaves a kept lease alone.
LEMMA OthersKeepIt ==
  ASSUME TypeOK, AllKept, Slack,
         NEW r \in Runs, mode[r] = "holding",
         NEW s \in Runs, s # r,
         \/ Acquire(s) \/ Renew(s) \/ LoseLease(s) \/ MissRenewal(s)
         \/ RenewBeforeStep(s) \/ Release(s) \/ Die(s)
  PROVE  (Punctual(r) /\ KeptIfRegular(r))'
<1>1. /\ UNCHANGED now
      /\ beat'[r] = beat[r] /\ misses'[r] = misses[r] /\ since'[r] = since[r]
  BY DEF Acquire, Renew, LoseLease, MissRenewal, RenewBeforeStep, NextBeat,
         Release, Die, TypeOK
<1>2. Punctual(r)'
  BY <1>1 DEF AllKept, Punctual
<1>3. ASSUME misses[r] <= 1
      PROVE  Kept(r)'
  <2>1. Punctual(r) /\ Kept(r) /\ holder = r /\ r # NoRun
    BY <1>3, ConstantsTyped DEF AllKept, KeptIfRegular, Kept
  <2>2. ~Acquire(s)
    <3> SUFFICES ASSUME NEW issued \in (now - MaxDelay)..now,
                        holder = NoRun \/ Expired(Clock(s, issued)) \/ holder = s
                 PROVE  FALSE
      BY DEF Acquire
    <3>1. issued \in Int /\ issued <= now
      BY ConstantsTyped DEF TypeOK
    <3> QED
      BY <2>1, <3>1, KeptIsUnexpired
  <2>3. ~Renew(s) /\ ~RenewBeforeStep(s)
    BY <2>1 DEF Renew, RenewBeforeStep
  <2>4. UNCHANGED <<holder, expires>>
    BY <2>1, <2>2, <2>3 DEF LoseLease, MissRenewal, Release, Die
  <2> QED
    BY <1>1, <2>1, <2>4 DEF Kept
<1> QED
  BY <1>1, <1>2, <1>3 DEF KeptIfRegular

\* A run that acquires a lease keeps it, however long the answer took.
LEMMA AcquireKeeps ==
  ASSUME TypeOK, NEW r \in Runs, Acquire(r)
  PROVE  Punctual(r)' /\ Kept(r)'
<1>1. PICK issued \in (now - MaxDelay)..now :
        /\ holder' = r
        /\ expires' = Clock(r, issued) + TTL
        /\ \E answered \in now..(issued + MaxDelay) :
             /\ since' = [since EXCEPT ![r] = answered]
             /\ beat' = [beat EXCEPT ![r] = answered + Interval]
  BY DEF Acquire
<1>2. PICK answered \in now..(issued + MaxDelay) :
        /\ since' = [since EXCEPT ![r] = answered]
        /\ beat' = [beat EXCEPT ![r] = answered + Interval]
  BY <1>1
<1>3. now' = now /\ misses'[r] = 0
  BY DEF Acquire, TypeOK
<1>4. since'[r] = answered /\ beat'[r] = answered + Interval
  BY <1>2 DEF TypeOK
<1>5. expires' = issued + Skew[r] + TTL
  BY <1>1 DEF Clock
<1>6. /\ issued \in Int /\ now \in Int /\ answered \in Int /\ Skew[r] \in Int
      /\ now <= answered /\ answered <= issued + MaxDelay
  BY ConstantsTyped DEF TypeOK
<1>7. /\ now' <= beat'[r] + MaxDelay
      /\ beat'[r] - Interval <= since'[r]
      /\ expires' >= beat'[r] - Interval - MaxDelay + Skew[r] + TTL
  BY <1>3, <1>4, <1>5, <1>6, ConstantsTyped
<1>8. misses'[r] \in {0, 1} /\ ~(misses'[r] = 1)
  BY <1>3
<1> QED
  BY <1>1, <1>7, <1>8 DEF Punctual, Kept

\* The heartbeat's renewal secures the lease anew, whatever was missed before.
LEMMA RenewKeeps ==
  ASSUME TypeOK, NEW r \in Runs, Punctual(r), Renew(r)
  PROVE  Punctual(r)' /\ Kept(r)'
<1>1. /\ now' = now /\ holder' = r /\ since' = since
      /\ expires' = Clock(r, beat[r]) + TTL
      /\ beat'[r] = beat[r] + Interval /\ misses'[r] = 0 /\ now >= beat[r]
  BY DEF Renew, NextBeat, Due, TypeOK
<1> QED
  BY <1>1, ConstantsTyped DEF TypeOK, Punctual, Kept, Clock

\* advance's renewal takes the expiry no further back than the last beat.
LEMMA RenewBeforeStepKeeps ==
  ASSUME TypeOK, NEW r \in Runs, Kept(r), RenewBeforeStep(r)
  PROVE  Kept(r)'
<1>1. PICK issued \in (now - MaxDelay)..now :
        issued >= since[r] /\ expires' = Clock(r, issued) + TTL
  BY DEF RenewBeforeStep
<1>2. UNCHANGED <<now, holder, since, beat, misses>>
  BY DEF RenewBeforeStep
<1>3. issued >= beat[r] - Interval - MaxDelay
  BY <1>1, ConstantsTyped DEF TypeOK, Kept
<1> QED
  BY <1>1, <1>2, <1>3, ConstantsTyped DEF TypeOK, Kept, Clock

\* Missing one renewal keeps the lease too; what comes after a second one is
\* nobody's promise.
LEMMA MissKeeps ==
  ASSUME TypeOK, NEW r \in Runs, Punctual(r), KeptIfRegular(r), MissRenewal(r)
  PROVE  Punctual(r)' /\ KeptIfRegular(r)'
<1>1. /\ UNCHANGED <<now, holder, expires, since>>
      /\ misses'[r] = misses[r] + 1 /\ beat'[r] = beat[r] + Interval
      /\ now >= beat[r]
  BY DEF MissRenewal, NextBeat, Due, TypeOK
<1>2. Punctual(r)'
  BY <1>1, ConstantsTyped DEF TypeOK, Punctual
<1>3. CASE misses[r] = 0
  <2>1. Kept(r)
    BY <1>3 DEF KeptIfRegular
  <2> QED
    BY <1>1, <1>2, <1>3, <2>1, ConstantsTyped DEF TypeOK, Kept, KeptIfRegular
<1>4. CASE misses[r] # 0
  BY <1>1, <1>2, <1>4 DEF TypeOK, KeptIfRegular
<1> QED
  BY <1>3, <1>4

\* AllKept is inductive.
LEMMA StepKeepsAll ==
  ASSUME TypeOK, AllKept, Slack, [Next]_vars
  PROVE  AllKept'
<1> SUFFICES ASSUME NEW r \in Runs, mode'[r] = "holding"
             PROVE  Punctual(r)' /\ KeptIfRegular(r)'
  BY DEF AllKept
<1>1. CASE Tick
  <2>1. mode[r] = "holding" /\ Punctual(r) /\ KeptIfRegular(r)
    BY <1>1 DEF Tick, AllKept
  <2>2. now' = now + 1 /\ now < beat[r] + MaxDelay
    BY <1>1, <2>1 DEF Tick
  <2> QED
    BY <1>1, <2>1, <2>2, ConstantsTyped DEF Tick, Punctual, KeptIfRegular, Kept, TypeOK
<1>2. ASSUME NEW s \in Runs,
             \/ Acquire(s) \/ Renew(s) \/ LoseLease(s) \/ MissRenewal(s)
             \/ RenewBeforeStep(s) \/ Release(s) \/ Die(s)
      PROVE  Punctual(r)' /\ KeptIfRegular(r)'
  <2>1. CASE s = r
    <3>1. ~LoseLease(r) /\ ~Release(r) /\ ~Die(r)
      BY DEF LoseLease, Release, Die, TypeOK
    <3>2. CASE Acquire(r)
      BY <3>2, AcquireKeeps DEF KeptIfRegular
    <3>3. ASSUME Renew(r) \/ RenewBeforeStep(r) \/ MissRenewal(r)
          PROVE  Punctual(r) /\ KeptIfRegular(r)
      BY <3>3 DEF Renew, RenewBeforeStep, MissRenewal, Due, AllKept
    <3>4. CASE Renew(r)
      BY <3>3, <3>4, RenewKeeps DEF KeptIfRegular
    <3>5. CASE MissRenewal(r)
      BY <3>3, <3>5, MissKeeps
    <3>6. CASE RenewBeforeStep(r)
      <4>1. UNCHANGED <<now, beat, misses>>
        BY <3>6 DEF RenewBeforeStep
      <4> QED
        BY <3>3, <3>6, <4>1, RenewBeforeStepKeeps DEF Punctual, KeptIfRegular
    <3> QED
      BY <1>2, <2>1, <3>1, <3>2, <3>4, <3>5, <3>6
  <2>2. CASE s # r
    <3>1. mode[r] = "holding"
      BY <1>2, <2>2 DEF Acquire, Renew, LoseLease, MissRenewal, RenewBeforeStep,
                        Release, Die, TypeOK
    <3> QED
      BY <1>2, <2>2, <3>1, OthersKeepIt
  <2> QED
    BY <2>1, <2>2
<1>3. CASE UNCHANGED vars
  BY <1>3 DEF vars, AllKept, Punctual, KeptIfRegular, Kept
<1> QED
  BY <1>1, <1>2, <1>3 DEF Next

\* The heartbeat keeps the lease: with the slack above, nobody takes the
\* cluster from a live run that has missed one renewal in a row at most,
\* however long its step takes.
THEOREM HeartbeatHolds == Slack /\ Spec => []HeartbeatKeepsLease
<1>1. Init => AllKept
  BY DEF Init, AllKept
<1>2. Slack /\ TypeOK /\ AllKept /\ [Next]_vars => AllKept'
  BY StepKeepsAll
<1>3. Slack /\ [Next]_vars => Slack'
  BY DEF Slack
<1>4. AllKept => HeartbeatKeepsLease
  BY DEF AllKept, KeptIfRegular, Kept, HeartbeatKeepsLease
<1> QED
  BY <1>1, <1>2, <1>3, <1>4, LeaseTyped, PTL DEF Spec
=============================================================================
