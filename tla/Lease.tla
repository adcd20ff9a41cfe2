------------------------------- MODULE Lease --------------------------------
(***************************************************************************)
(* The lease of one cluster in time: who holds it, when it expires, and the *)
(* heartbeat of internal/orchestrator/lease.go that keeps it.  Orchestrator *)
(* leaves time out and says only whether a lease may lapse under a live run *)
(* (its constant Lapses); this module is about when that can happen.        *)
(*                                                                         *)
(* `now' is real time.  Each run reads its own clock, Skew[r] away from it: *)
(* lease_expires_at is computed by the client that writes it, before the    *)
(* first attempt, and compared by the client that wants the lease.          *)
(***************************************************************************)
EXTENDS Integers

CONSTANTS
  Runs,       \* the lease holder identities
  NoRun,      \* lease_holder IS NULL
  TTL,        \* leaseTTL
  Interval,   \* the heartbeat's period, leaseTTL / leaseRenewalDivisor
  MaxDelay,   \* how long a registry call takes at most, its retries included
  Skew,       \* each run's clock, as an offset from real time
  MaxMisses,  \* bound: consecutive renewals of a run that fail
  MaxTime     \* bound on `now'

ASSUME IntervalAssumption == Interval \in Nat \ {0}

ASSUME LeaseConstantsAssumption ==
  /\ NoRun \notin Runs
  /\ TTL \in Nat
  /\ MaxDelay \in Nat
  /\ Skew \in [Runs -> Int]
  /\ MaxMisses \in Nat
  /\ MaxTime \in Nat

VARIABLES
  now,      \* real time
  holder,   \* lease_holder
  expires,  \* lease_expires_at, 0 when NULL
  mode,     \* what each run is doing
  since,    \* when each run was told that it has the lease, in real time
  beat,     \* when its ticker fires next
  misses    \* each run's consecutive failed renewals

vars == <<now, holder, expires, mode, since, beat, misses>>

Modes == {"idle", "holding", "lost", "over"}

\* Every variable keeps its type, and the two lease columns are NULL together.
TypeOK ==
  /\ now \in Nat
  /\ holder \in Runs \cup {NoRun}
  /\ expires \in Int
  /\ holder = NoRun => expires = 0
  /\ mode \in [Runs -> Modes]
  /\ since \in [Runs -> Nat]
  /\ beat \in [Runs -> Nat]
  /\ misses \in [Runs -> Nat]

Init ==
  /\ now = 0
  /\ holder = NoRun
  /\ expires = 0
  /\ mode = [r \in Runs |-> "idle"]
  /\ since = [r \in Runs |-> 0]
  /\ beat = [r \in Runs |-> 0]
  /\ misses = [r \in Runs |-> 0]

\* A run's clock at a real time.
Clock(r, t) == t + Skew[r]

\* Lease.Expired: !now.Before(ExpiresAt).
Expired(clock) == expires <= clock

\* AcquireLease, issued at one time, executed now and answered at a third.
Acquire(r) ==
  /\ mode[r] = "idle"
  /\ \E issued \in (now - MaxDelay)..now :
       /\ issued >= 0
       /\ holder = NoRun \/ Expired(Clock(r, issued)) \/ holder = r
       /\ holder' = r
       /\ expires' = Clock(r, issued) + TTL
       /\ \E answered \in now..(issued + MaxDelay) :
            /\ since' = [since EXCEPT ![r] = answered]
            /\ beat' = [beat EXCEPT ![r] = answered + Interval]
  /\ mode' = [mode EXCEPT ![r] = "holding"]
  /\ misses' = [misses EXCEPT ![r] = 0]
  /\ UNCHANGED now

\* The ticker fires: a renewal is issued at the time it was due, and executed
\* by now.  A call answered within MaxDelay < Interval makes no tick late.
Due(r) == mode[r] = "holding" /\ now >= beat[r]

\* Mutant of NextBeat: the period is twice as long.
NextBeatLate(r) == beat' = [beat EXCEPT ![r] = @ + 2 * Interval]

NextBeat(r) == beat' = [beat EXCEPT ![r] = @ + Interval]

\* Mutant of Renew: the expiry is moved on from where it was.
RenewFromExpiry(r) ==
  /\ Due(r)
  /\ holder = r
  /\ expires' = expires + TTL
  /\ misses' = [misses EXCEPT ![r] = 0]
  /\ NextBeat(r)
  /\ UNCHANGED <<now, holder, mode, since>>

Renew(r) ==
  /\ Due(r)
  /\ holder = r
  /\ expires' = Clock(r, beat[r]) + TTL
  /\ misses' = [misses EXCEPT ![r] = 0]
  /\ NextBeat(r)
  /\ UNCHANGED <<now, holder, mode, since>>

\* ErrLeaseLost: the row names another run, and runCtx is cancelled.
LoseLease(r) ==
  /\ Due(r)
  /\ holder # r
  /\ mode' = [mode EXCEPT ![r] = "lost"]
  /\ UNCHANGED <<now, holder, expires, since, beat, misses>>

\* Any other error is logged, and the next tick tries again.
MissRenewal(r) ==
  /\ Due(r)
  /\ misses[r] < MaxMisses
  /\ misses' = [misses EXCEPT ![r] = @ + 1]
  /\ NextBeat(r)
  /\ UNCHANGED <<now, holder, expires, mode, since>>

\* advance's own RenewLease, before a step: beside the heartbeat, not part of
\* its count.  It may be executed after a heartbeat issued later, and then
\* takes the expiry back.
RenewBeforeStep(r) ==
  /\ mode[r] = "holding"
  /\ holder = r
  /\ \E issued \in (now - MaxDelay)..now :
       /\ issued >= since[r]
       /\ expires' = Clock(r, issued) + TTL
  /\ UNCHANGED <<now, holder, mode, since, beat, misses>>

\* The run is done and frees the cluster; or it dies, and does not.
Release(r) ==
  /\ mode[r] \in {"holding", "lost"}
  /\ mode' = [mode EXCEPT ![r] = "over"]
  /\ IF holder = r THEN holder' = NoRun /\ expires' = 0
                   ELSE UNCHANGED <<holder, expires>>
  /\ UNCHANGED <<now, since, beat, misses>>

Die(r) ==
  /\ mode[r] \in {"holding", "lost"}
  /\ mode' = [mode EXCEPT ![r] = "over"]
  /\ UNCHANGED <<now, holder, expires, since, beat, misses>>

\* Time passes; a renewal is answered, or has failed, within MaxDelay.
Tick ==
  /\ now < MaxTime
  /\ \A r \in Runs : mode[r] = "holding" => now < beat[r] + MaxDelay
  /\ now' = now + 1
  /\ UNCHANGED <<holder, expires, mode, since, beat, misses>>

Next ==
  \/ Tick
  \/ \E r \in Runs :
       \/ Acquire(r) \/ Renew(r) \/ LoseLease(r) \/ MissRenewal(r)
       \/ RenewBeforeStep(r) \/ Release(r) \/ Die(r)

Spec == Init /\ [][Next]_vars
-----------------------------------------------------------------------------
\* The heartbeat keeps the lease (keepLeaseAlive): nobody takes the cluster
\* from a live run that has missed one renewal in a row at most, however long
\* its step.
HeartbeatKeepsLease ==
  \A r \in Runs : mode[r] = "holding" /\ misses[r] <= 1 => holder = r

\* A run that dies blocks the cluster for the TTL at most (DefaultLeaseTTL),
\* by its own clock.
BlockedAtMostTTL ==
  holder # NoRun => expires <= Clock(holder, now) + TTL
=============================================================================
