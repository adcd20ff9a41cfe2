------------------------- MODULE OrchestratorProofs -------------------------
(***************************************************************************)
(* Theorems about Orchestrator, for every set of runs, every bound and      *)
(* every choice of faults the constants allow.                              *)
(***************************************************************************)
EXTENDS Orchestrator, TLAPS
-----------------------------------------------------------------------------
(* What the registry's statements return. *)

\* Every statement of registry/postgres.go leaves a well-formed row.
LEMMA StatementsTyped ==
  ASSUME NEW w \in Row, NEW h \in Holders, NEW e \in Record, NEW to \in PhaseOrder
  PROVE  /\ AfterInsert(w) \in Row
         /\ AfterDelete(w) \in Row
         /\ AfterUpdate(w, e, to) \in Row
         /\ AfterAcquire(w, h) \in Row
         /\ AfterRenew(w, h) \in Row
         /\ AfterRelease(w, h) \in Row
         /\ AfterLapse(w) \in Row
         /\ Read(w) \in Record
<1>1. "pending" \in PhaseOrder
  BY DEF PhaseOrder, LivePhases
<1>2. NewRow(w) \in Row
  BY <1>1 DEF NewRow, Row
<1>3. AfterInsert(w) \in Row
  BY <1>2 DEF AfterInsert
<1>4. AfterDelete(w) \in Row
  BY DEF AfterDelete, Row
<1>5. AfterUpdate(w, e, to) \in Row
  <2>1. w.version + 1 \in Nat
    BY DEF Row
  <2> QED
    BY <2>1 DEF AfterUpdate, Row
<1>6. AfterAcquire(w, h) \in Row /\ AfterRenew(w, h) \in Row
  BY DEF AfterAcquire, AfterRenew, Row
<1>7. AfterRelease(w, h) \in Row /\ AfterLapse(w) \in Row
  BY DEF AfterRelease, AfterLapse, Row
<1>8. Read(w) \in Record
  BY DEF Read, Row, Record
<1> QED
  BY <1>3, <1>4, <1>5, <1>6, <1>7, <1>8

\* The phase a run asks UpdatePhase for is one the registry knows.
LEMMA TargetTyped ==
  ASSUME NEW r \in Runs
  PROVE  Target(r) \in PhaseOrder
<1>1. ASSUME NEW p PROVE NextPhase(p) \in PhaseOrder
  BY DEF NextPhase, PhaseOrder, LivePhases
<1> QED
  BY <1>1 DEF Target, PhaseOrder

\* Whatever statement is in flight, the row stays well-formed.
LEMMA InFlightTyped ==
  ASSUME TypeOK, NEW r \in Runs
  PROVE  InFlight(r) \in Row /\ Outcomes(r) \subseteq Row
<1>1. row \in Row /\ rec[r] \in Record /\ r \in Holders
  BY RunsAssumption DEF TypeOK
<1>2. Target(r) \in PhaseOrder
  BY TargetTyped
<1>3. InFlight(r) \in Row
  BY <1>1, <1>2, StatementsTyped DEF InFlight
<1> QED
  BY <1>1, <1>3 DEF Outcomes

\* Where calls, stages and errors lead is always a place.
LEMMA PlacesTyped ==
  ASSUME NEW p
  PROVE  /\ FirstStage(p) \in Places
         /\ AfterStage(p) \in Places
         /\ OnError(p) \in Places
         /\ ApplyFrom(p) \in Places
         /\ DeleteFrom(p) \in Places
BY DEF FirstStage, AfterStage, OnError, ApplyFrom, DeleteFrom, Places, Calls,
       Claiming, Reviving, Releasing, Recording, Stages, Building, Tearing, Ended

\* Going to a place keeps pc and tries typed.
LEMMA GotoTyped ==
  ASSUME TypeOK, NEW r \in Runs, NEW p \in Places, Goto(r, p)
  PROVE  pc' \in [Runs -> Places] /\ tries' \in [Runs -> 1..Attempts]
<1>1. 1 \in 1..Attempts
  BY RunsAssumption
<1> QED
  BY <1>1 DEF TypeOK, Goto
-----------------------------------------------------------------------------
(* Type correctness. *)

LEMMA TypeInit == Init => TypeOK
<1> SUFFICES ASSUME Init PROVE TypeOK
  OBVIOUS
<1>1. EmptyRow \in Row
  BY DEF EmptyRow, Row
<1>2. row \in Row
  <2>1. CASE row = EmptyRow
    BY <1>1, <2>1
  <2>2. CASE \E old \in Leftovers :
               row = OldRow(old)
    <3>1. PICK old \in Leftovers :
            row = OldRow(old)
      BY <2>2
    <3>2. old.phase \in PhaseOrder
      BY LeftoversAssumption
    <3> QED
      BY <3>1, <3>2 DEF EmptyRow, OldRow, Row
  <2> QED
    BY <2>1, <2>2 DEF Init
<1>3. cloud \in SUBSET Resources
  BY LeftoversAssumption DEF Init
<1>4. pc \in [Runs -> Places] /\ rec \in [Runs -> Record]
  BY DEF Init, Places, Calls, Claiming, NoRecord, Record
<1>5. tries \in [Runs -> 1..Attempts] /\ lost \in 0..MaxLost
  <2>1. 1 \in 1..Attempts /\ 0 \in 0..MaxLost
    BY RunsAssumption
  <2> QED
    BY <2>1 DEF Init
<1> QED
  BY <1>2, <1>3, <1>4, <1>5 DEF TypeOK, Init

LEMMA TypeClaim ==
  ASSUME TypeOK, NEW r \in Runs, Claim(r)
  PROVE  TypeOK'
<1>1. row \in Row /\ r \in Holders /\ rec[r] \in Record /\ Target(r) \in PhaseOrder
  BY RunsAssumption, TargetTyped DEF TypeOK
<1>2. /\ AfterInsert(row) \in Row
      /\ AfterAcquire(row, r) \in Row
      /\ AfterDelete(row) \in Row
  BY <1>1, StatementsTyped
<1>3. row' \in Row /\ UNCHANGED <<cloud, rec, lost, stopped>>
  BY <1>1, <1>2 DEF Claim, GetRecord, CreateRecord, CheckCreated, GetAgain,
     ReviveAcquire, ReviveGet, ReviveDelete, ReviveCreate, ReviveCheckCreated,
     AcquireLease
<1>4. PICK p \in Places : Goto(r, p)
  <2>1. Claiming \cup Reviving \cup Releasing \cup Recording \cup Ended \subseteq Places
    BY DEF Places, Calls
  <2> QED
    BY <2>1 DEF Claim, GetRecord, CreateRecord, CheckCreated, GetAgain,
       ReviveAcquire, ReviveGet, ReviveDelete, ReviveCreate, ReviveCheckCreated,
       AcquireLease, Claiming, Reviving, Releasing, Recording, Ended
<1> QED
  BY <1>3, <1>4, GotoTyped DEF TypeOK

LEMMA TypeWalk ==
  ASSUME TypeOK, NEW r \in Runs, Walk(r)
  PROVE  TypeOK'
<1>1. row \in Row /\ r \in Holders /\ rec[r] \in Record
  BY RunsAssumption DEF TypeOK
<1>2. Target(r) \in PhaseOrder
  BY TargetTyped
<1>3. /\ AfterRenew(row, r) \in Row
      /\ AfterUpdate(row, rec[r], Target(r)) \in Row
      /\ AfterDelete(row) \in Row
      /\ AfterRelease(row, r) \in Row
      /\ Read(row) \in Record
  BY <1>1, <1>2, StatementsTyped
<1>4. row' \in Row /\ UNCHANGED <<cloud, lost, stopped>>
  BY <1>1, <1>3 DEF Walk, Reread, RenewBeforeStep, RecordPhase, CheckRecorded,
     ForgetRecord, ReleaseLease
<1>5. Read(row') \in Record
  BY <1>4 DEF Read, Row, Record
<1>6. rec' \in [Runs -> Record]
  BY <1>3, <1>5 DEF TypeOK, Walk, Reread, RenewBeforeStep, RecordPhase,
     CheckRecorded, Recorded, ForgetRecord, ReleaseLease
<1>7. PICK p \in Places : Goto(r, p)
  <2>1. {"releaseErr", "releaseOk", "recordCheck"} \subseteq Places
    BY DEF Places, Calls, Releasing, Recording
  <2> QED
    BY <2>1, PlacesTyped DEF Walk, Reread, RenewBeforeStep, RecordPhase,
       CheckRecorded, Recorded, ForgetRecord, ReleaseLease
<1> QED
  BY <1>4, <1>6, <1>7, GotoTyped DEF TypeOK

LEMMA TypeStage ==
  ASSUME TypeOK, NEW r \in Runs, StageLands(r) \/ Answered(r)
  PROVE  TypeOK'
<1>1. CASE StageLands(r)
  <2>1. Adds(pc[r]) \subseteq Resources
    BY DEF Adds, Resources
  <2> QED
    BY <1>1, <2>1 DEF StageLands, TypeOK
<1>2. CASE Answered(r)
  <2>1. UNCHANGED <<row, cloud, rec, lost, stopped>>
    BY <1>2 DEF Answered, StageReturns, StageFails
  <2>2. PICK p \in Places : Goto(r, p)
    <3>1. "releaseErr" \in Places
      BY DEF Places, Calls, Releasing
    <3> QED
      BY <1>2, <3>1, PlacesTyped DEF Answered, StageReturns, StageFails
  <2> QED
    BY <2>1, <2>2, GotoTyped DEF TypeOK
<1> QED
  BY <1>1, <1>2

LEMMA TypeFaults ==
  ASSUME TypeOK, NEW r \in Runs, Abort(r) \/ Faults(r)
  PROVE  TypeOK'
<1>1. Outcomes(r) \subseteq Row /\ row \in Row
  BY InFlightTyped DEF TypeOK
<1>2. AfterRenew(row, r) \in Row
  BY <1>1 DEF AfterRenew, Row
<1>3. row' \in Row /\ UNCHANGED <<cloud, rec>>
  BY <1>1, <1>2 DEF Abort, Faults, LoseCall, Heartbeat, Interrupt, Crash
<1>4. stopped' \in SUBSET Runs
  BY DEF TypeOK, Abort, Faults, LoseCall, Heartbeat, Interrupt, Crash
<1>5. lost' \in 0..MaxLost
  <2>1. lost \in 0..MaxLost /\ MaxLost \in Nat
    BY RunsAssumption DEF TypeOK
  <2>2. lost' = lost \/ (lost < MaxLost /\ lost' = lost + 1)
    BY DEF Abort, Faults, LoseCall, Heartbeat, Interrupt, Crash
  <2> QED
    BY <2>1, <2>2
<1>6. pc' \in [Runs -> Places] /\ tries' \in [Runs -> 1..Attempts]
  <2>1. CASE \E p \in Places : Goto(r, p)
    BY <2>1, GotoTyped
  <2>2. CASE MayRetry(r) /\ tries' = [tries EXCEPT ![r] = @ + 1] /\ UNCHANGED pc
    <3>1. tries[r] \in 1..Attempts /\ Attempts \in Nat /\ tries[r] < Attempts
      BY <2>2, RunsAssumption DEF TypeOK, MayRetry
    <3>2. tries[r] + 1 \in 1..Attempts
      BY <3>1
    <3> QED
      BY <2>2, <3>2 DEF TypeOK
  <2>3. CASE UNCHANGED <<pc, tries>>
    BY <2>3 DEF TypeOK
  <2>4. "crashed" \in Places
    BY DEF Places, Ended
  <2> QED
    BY <2>1, <2>2, <2>3, <2>4, PlacesTyped
    DEF Abort, Faults, LoseCall, Heartbeat, Interrupt, Crash
<1> QED
  BY <1>3, <1>4, <1>5, <1>6 DEF TypeOK

LEMMA TypeNext == TypeOK /\ [Next]_vars => TypeOK'
<1> SUFFICES ASSUME TypeOK, [Next]_vars PROVE TypeOK'
  OBVIOUS
<1>1. ASSUME NEW r \in Runs, Progress(r) \/ StageLands(r) \/ Faults(r)
      PROVE  TypeOK'
  BY <1>1, TypeClaim, TypeWalk, TypeStage, TypeFaults DEF Progress
<1>2. CASE Lapse
  BY <1>2 DEF Lapse, AfterLapse, TypeOK, Row
<1>3. CASE UNCHANGED vars
  BY <1>3 DEF vars, TypeOK
<1> QED
  BY <1>1, <1>2, <1>3 DEF Next, AllOver

\* Every variable keeps its type: in particular no call is tried more often
\* than the retry policy allows.
THEOREM TypeCorrect == Spec => []TypeOK
<1>1. Init => TypeOK
  BY TypeInit
<1>2. TypeOK /\ [Next]_vars => TypeOK'
  BY TypeNext
<1> QED
  BY <1>1, <1>2, PTL DEF Spec
-----------------------------------------------------------------------------
(* What a step of one run can do to the row and to the other runs. *)

\* A step of run r leaves the row as it was, as r's statement in flight makes
\* it, or with r's lease renewed; it does not touch another run.
LEMMA StepShape ==
  ASSUME TypeOK, NEW r \in Runs, Progress(r) \/ StageLands(r) \/ Faults(r)
  PROVE  /\ row' \in Outcomes(r) \cup {AfterRenew(row, r)}
         /\ stopped' \in {stopped, stopped \cup {r}}
         /\ \A s \in Runs \ {r} : pc'[s] = pc[s] /\ rec'[s] = rec[s]
<1>1. row' \in Outcomes(r) \cup {AfterRenew(row, r)}
  <2>1. CASE Claim(r)
    BY <2>1 DEF Claim, GetRecord, CreateRecord, CheckCreated, GetAgain,
       ReviveAcquire, ReviveGet, ReviveDelete, ReviveCreate, ReviveCheckCreated,
       AcquireLease, At, Outcomes, InFlight, Releasing
  <2>2. CASE Walk(r)
    <3>1. CASE ReleaseLease(r)
      BY <3>1 DEF ReleaseLease, Outcomes, InFlight, Listening, Releasing
    <3>2. CASE Walk(r) /\ ~ReleaseLease(r)
      BY <3>2 DEF Walk, Reread, RenewBeforeStep, RecordPhase, CheckRecorded,
         ForgetRecord, At, Outcomes, InFlight, Releasing
    <3> QED
      BY <2>2, <3>1, <3>2
  <2>3. CASE Answered(r) \/ Abort(r) \/ StageLands(r)
    BY <2>3 DEF Answered, StageReturns, StageFails, Abort, StageLands, Outcomes
  <2>4. CASE Faults(r)
    BY <2>4 DEF Faults, LoseCall, Heartbeat, Interrupt, Crash
  <2> QED
    BY <2>1, <2>2, <2>3, <2>4 DEF Progress
<1>2. stopped' \in {stopped, stopped \cup {r}}
  BY DEF Progress, Claim, GetRecord, CreateRecord, CheckCreated, GetAgain,
     ReviveAcquire, ReviveGet, ReviveDelete, ReviveCreate, ReviveCheckCreated,
     AcquireLease, Walk, Reread, RenewBeforeStep, RecordPhase, CheckRecorded,
     ForgetRecord, ReleaseLease, Answered, StageReturns, StageFails, Abort,
     StageLands, Faults, LoseCall, Heartbeat, Interrupt, Crash
<1>3. (\E p : pc' = [pc EXCEPT ![r] = p]) \/ pc' = pc
  BY DEF Progress, Claim, GetRecord, CreateRecord, CheckCreated, GetAgain,
     ReviveAcquire, ReviveGet, ReviveDelete, ReviveCreate, ReviveCheckCreated,
     AcquireLease, Walk, Reread, RenewBeforeStep, RecordPhase, CheckRecorded,
     Recorded, ForgetRecord, ReleaseLease, Answered, StageReturns, StageFails,
     Abort, StageLands, Faults, LoseCall, Heartbeat, Interrupt, Crash, Goto
<1>4. (\E e : rec' = [rec EXCEPT ![r] = e]) \/ rec' = rec
  BY DEF Progress, Claim, GetRecord, CreateRecord, CheckCreated, GetAgain,
     ReviveAcquire, ReviveGet, ReviveDelete, ReviveCreate, ReviveCheckCreated,
     AcquireLease, Walk, Reread, RenewBeforeStep, RecordPhase, CheckRecorded,
     Recorded, ForgetRecord, ReleaseLease, Answered, StageReturns, StageFails,
     Abort, StageLands, Faults, LoseCall, Heartbeat, Interrupt, Crash
<1>5. \A s \in Runs \ {r} : pc'[s] = pc[s]
  BY <1>3 DEF TypeOK
<1>6. \A s \in Runs \ {r} : rec'[s] = rec[s]
  BY <1>4 DEF TypeOK
<1> QED
  BY <1>1, <1>2, <1>5, <1>6
-----------------------------------------------------------------------------
(* Phase moves, whatever happens to leases and calls. *)

\* The places from which a run goes on to write a phase.
Advancing ==
  {"renew", "ensureNetwork", "createCluster", "seedRepo", "installArgoCD",
   "commitApps", "noop", "record", "recordCheck"}

\* A run on its way to writing a phase left a live one, and an apply's has a
\* successor: ApplyFrom and DeleteFrom refused the others.
AdvancesLive ==
  \A r \in Runs :
    pc[r] \in Advancing =>
      /\ rec[r].phase \in LivePhases
      /\ r \in Applies => rec[r].phase # "ready"

\* What UpdatePhase is asked for from there is legal, and never out of teardown.
LEMMA TargetLegal ==
  ASSUME NEW r \in Runs, rec[r].phase \in LivePhases,
         r \in Applies => rec[r].phase # "ready"
  PROVE  CanTransition(rec[r].phase, Target(r))
<1>1. Target(r) \in PhaseOrder
  BY TargetTyped
<1>2. CASE r \in Deletes
  BY <1>1, <1>2 DEF Target, CanTransition, Terminal, PhaseOrder, LivePhases
<1>3. CASE r \notin Deletes
  <2>1. r \in Applies
    BY <1>3 DEF Runs
  <2> QED
    BY <1>1, <1>3, <2>1 DEF Target, CanTransition, HasNext, Terminal, PhaseOrder, LivePhases
<1> QED
  BY <1>2, <1>3

\* The record a run walks on with, if it walks on to another write.
LEMMA WalksOnLive ==
  ASSUME NEW r \in Runs, NEW p \in PhaseOrder
  PROVE  /\ ApplyFrom(p) \in Advancing => p \in LivePhases \ {"ready"}
         /\ DeleteFrom(p) \in Advancing => p \in LivePhases
BY DEF ApplyFrom, DeleteFrom, Advancing, PhaseOrder, LivePhases

\* Reading or writing the row w, a run sets out to advance a live phase only.
LEMMA RecordedLive ==
  ASSUME TypeOK, NEW r \in Runs, NEW w, w.phase \in PhaseOrder, Recorded(r, w)
  PROVE  pc'[r] \in Advancing =>
           /\ rec'[r].phase \in LivePhases
           /\ r \in Applies => rec'[r].phase # "ready"
<1>1. rec'[r].phase = w.phase
  BY DEF Recorded, Read, TypeOK
<1>2. pc'[r] = IF r \in Applies THEN ApplyFrom(w.phase) ELSE DeleteFrom(w.phase)
  BY DEF Recorded, Goto, TypeOK
<1> QED
  BY <1>1, <1>2, WalksOnLive

LEMMA AdvancesLiveStep ==
  ASSUME TypeOK, AdvancesLive, NEW r \in Runs,
         Progress(r) \/ StageLands(r) \/ Faults(r)
  PROVE  AdvancesLive'
<1> DEFINE Live(s) == pc[s] \in Advancing =>
                        /\ rec[s].phase \in LivePhases
                        /\ s \in Applies => rec[s].phase # "ready"
<1>1. \A s \in Runs \ {r} : Live(s)'
  BY StepShape DEF AdvancesLive
<1>2. Live(r)
  BY DEF AdvancesLive
<1>3. Live(r)'
  <2>1. CASE Claim(r)
    <3>1. pc'[r] \in Claiming \cup Reviving \cup Releasing \cup {"reread", "failed"}
      BY <2>1 DEF Claim, GetRecord, CreateRecord, CheckCreated, GetAgain,
         ReviveAcquire, ReviveGet, ReviveDelete, ReviveCreate, ReviveCheckCreated,
         AcquireLease, Goto, TypeOK, Claiming, Reviving, Releasing
    <3> QED
      BY <3>1 DEF Claiming, Reviving, Releasing, Advancing
  <2>2. CASE Reread(r)
    <3>1. CASE ~Exists(row)
      BY <2>2, <3>1 DEF Reread, Goto, TypeOK, Advancing
    <3>2. CASE Exists(row)
      <4>1. row.phase \in PhaseOrder
        BY <3>2 DEF Exists, TypeOK, Row
      <4>2. Recorded(r, row)
        BY <2>2, <3>2 DEF Reread, Recorded, Goto
      <4> QED
        BY <4>1, <4>2, RecordedLive
    <3> QED
      BY <3>1, <3>2
  <2>3. CASE RenewBeforeStep(r)
    BY <2>3, <1>2 DEF RenewBeforeStep, At, Goto, TypeOK, Advancing
  <2>4. CASE RecordPhase(r)
    <3>1. CASE Matches(row, rec[r])
      <4>1. row'.phase \in PhaseOrder
        BY <2>4, <3>1, TargetTyped DEF RecordPhase, AfterUpdate, TypeOK, Row
      <4> QED
        BY <2>4, <3>1, <4>1, RecordedLive DEF RecordPhase
    <3>2. CASE ~Matches(row, rec[r])
      BY <2>4, <3>2, <1>2 DEF RecordPhase, At, Goto, TypeOK, Advancing
    <3> QED
      BY <3>1, <3>2
  <2>5. CASE CheckRecorded(r)
    <3>1. CASE LooksLikeOurUpdate(row, rec[r], Target(r))
      <4>1. row.phase \in PhaseOrder
        BY <3>1, TargetTyped DEF LooksLikeOurUpdate
      <4> QED
        BY <2>5, <3>1, <4>1, RecordedLive DEF CheckRecorded
    <3>2. CASE ~LooksLikeOurUpdate(row, rec[r], Target(r))
      BY <2>5, <3>2 DEF CheckRecorded, Goto, TypeOK, Advancing
    <3> QED
      BY <3>1, <3>2
  <2>6. CASE ForgetRecord(r) \/ ReleaseLease(r) \/ Abort(r) \/ Crash(r)
    BY <2>6 DEF ForgetRecord, ReleaseLease, Abort, Crash, OnError, Goto, TypeOK,
       Advancing
  <2>7. CASE StageReturns(r)
    BY <2>7, <1>2 DEF StageReturns, AfterStage, Goto, TypeOK, Advancing, Stages,
       Building, Tearing
  <2>8. CASE StageFails(r)
    BY <2>8 DEF StageFails, Goto, TypeOK, Advancing
  <2>9. CASE StageLands(r) \/ Heartbeat(r) \/ Interrupt(r)
    BY <2>9, <1>2 DEF StageLands, Heartbeat, Interrupt
  <2>10. CASE LoseCall(r)
    BY <2>10, <1>2 DEF LoseCall, OnError, Goto, TypeOK, Advancing
  <2> QED
    BY <2>1, <2>2, <2>3, <2>4, <2>5, <2>6, <2>7, <2>8, <2>9, <2>10
    DEF Progress, Walk, Answered, Faults
<1> QED
  BY <1>1, <1>3 DEF AdvancesLive

LEMMA AdvancesLiveNext == TypeOK /\ AdvancesLive /\ [Next]_vars => AdvancesLive'
<1> SUFFICES ASSUME TypeOK, AdvancesLive, [Next]_vars PROVE AdvancesLive'
  OBVIOUS
<1>1. ASSUME NEW r \in Runs, Progress(r) \/ StageLands(r) \/ Faults(r)
      PROVE  AdvancesLive'
  BY <1>1, AdvancesLiveStep
<1>2. CASE Lapse \/ UNCHANGED vars
  BY <1>2 DEF Lapse, vars, AdvancesLive
<1> QED
  BY <1>1, <1>2 DEF Next, AllOver

LEMMA AdvancesLiveInvariant == Spec => []AdvancesLive
<1>1. Init => AdvancesLive
  BY DEF Init, AdvancesLive, Advancing
<1>2. TypeOK /\ AdvancesLive /\ [Next]_vars => AdvancesLive'
  BY AdvancesLiveNext
<1> QED
  BY <1>1, <1>2, TypeCorrect, PTL DEF Spec

\* A statement that changes the phase of an existing row removes the row, or is
\* the update of a run that matched it.
LEMMA PhaseChange ==
  ASSUME TypeOK, [Next]_vars, Exists(row), row'.phase # row.phase
  PROVE  \/ ~Exists(row')
         \/ \E r \in Runs :
              /\ pc[r] = "record"
              /\ Matches(row, rec[r])
              /\ row' = AfterUpdate(row, rec[r], Target(r))
<1>1. ~Lapse /\ ~UNCHANGED vars
  BY DEF Lapse, AfterLapse, vars, TypeOK, Row
<1>2. PICK r \in Runs : Progress(r) \/ StageLands(r) \/ Faults(r)
  BY <1>1 DEF Next, AllOver
<1>3. row' \in {row, InFlight(r), AfterRenew(row, r)}
  BY <1>2, StepShape DEF Outcomes
<1>4. row'.phase = row.phase \/ row' = InFlight(r)
  BY <1>3 DEF AfterRenew, TypeOK, Row
<1>5. /\ AfterInsert(row).phase = row.phase
      /\ AfterAcquire(row, r).phase = row.phase
      /\ AfterRenew(row, r).phase = row.phase
      /\ AfterRelease(row, r).phase = row.phase
      /\ ~Exists(AfterDelete(row))
  BY DEF AfterInsert, AfterAcquire, AfterRenew, AfterRelease, AfterDelete,
     Exists, TypeOK, Row
<1>6. ~Exists(row') \/ (pc[r] = "record" /\ row' = AfterUpdate(row, rec[r], Target(r)))
  BY <1>4, <1>5 DEF InFlight, Releasing
<1>7. AfterUpdate(row, rec[r], Target(r)) # row => Matches(row, rec[r])
  BY DEF AfterUpdate
<1> QED
  BY <1>6, <1>7

\* Whatever is lost, lapses or crashes: within one incarnation of its record, a
\* cluster's phase only makes legal transitions, each with a new version.
THEOREM PhaseMovesLegal == Spec => LegalMoves
<1>1. TypeOK /\ AdvancesLive /\ [Next]_vars => LegalMove
  <2> SUFFICES ASSUME TypeOK, AdvancesLive, [Next]_vars,
                      Exists(row), Exists(row'), row'.phase # row.phase
               PROVE  CanTransition(row.phase, row'.phase) /\ row'.version = row.version + 1
    BY DEF LegalMove
  <2>1. PICK r \in Runs : /\ pc[r] = "record"
                          /\ Matches(row, rec[r])
                          /\ row' = AfterUpdate(row, rec[r], Target(r))
    BY PhaseChange
  <2>2. row'.phase = Target(r) /\ row'.version = row.version + 1 /\ row.phase = rec[r].phase
    BY <2>1 DEF AfterUpdate, Matches, TypeOK, Row
  <2>3. CanTransition(rec[r].phase, Target(r))
    BY <2>1, TargetLegal DEF AdvancesLive, Advancing
  <2> QED
    BY <2>2, <2>3
<1> QED
  BY <1>1, TypeCorrect, AdvancesLiveInvariant, PTL DEF Spec, LegalMoves

\* Whatever is lost, lapses or crashes: a teardown that started is never
\* undone; its record can only be removed.
THEOREM TeardownIsOneWay == Spec => DecommissioningIsOneWay
<1>1. TypeOK /\ AdvancesLive /\ [Next]_vars => OneWay
  <2> SUFFICES ASSUME TypeOK, AdvancesLive, [Next]_vars,
                      row.phase = "decommissioning", row'.phase # "decommissioning",
                      Exists(row')
               PROVE  FALSE
    BY DEF OneWay
  <2>1. Exists(row)
    BY DEF Exists, Absent
  <2>2. PICK r \in Runs : pc[r] = "record" /\ Matches(row, rec[r])
    BY <2>1, PhaseChange
  <2> QED
    BY <2>2 DEF Matches, AdvancesLive, Advancing, LivePhases
<1> QED
  BY <1>1, TypeCorrect, AdvancesLiveInvariant, PTL DEF Spec, DecommissioningIsOneWay
-----------------------------------------------------------------------------
(* The lease excludes, as long as it does not lapse under a live run and no  *)
(* DELETE is executed twice.                                                 *)

Deletions == {"revDelete", "forget"}

\* What the exclusion needs of the world.
LeaseAssumptions == ~Lapses /\ Lossy \cap Deletions = {}

\* The runs that count on their lease.  One cancelled in a DELETE does not: the
\* row may be gone, and it only has to notice.
Relies(r) ==
  /\ pc[r] \in Leased \cup {"revGet", "revDelete"}
  /\ r \in stopped => pc[r] \notin Deletions

Secured(w, r) == Exists(w) /\ w.holder = r /\ w.live

LeaseInv == \A r \in Runs : Relies(r) => Secured(row, r)

\* The statements of the holder keep its lease.
LEMMA OwnStatements ==
  ASSUME NEW w \in Row, NEW r \in Runs, NEW e \in Record, NEW to \in PhaseOrder
  PROVE  /\ Acquirable(w, r) => Secured(AfterAcquire(w, r), r)
         /\ Renewable(w, r) => Secured(AfterRenew(w, r), r)
         /\ Secured(w, r) => /\ Renewable(w, r)
                             /\ Secured(AfterUpdate(w, e, to), r)
                             /\ AfterInsert(w) = w
<1>1. to # Absent
  BY DEF PhaseOrder, LivePhases, Absent
<1>2. Secured(w, r) => Secured(AfterUpdate(w, e, to), r)
  BY <1>1 DEF Secured, AfterUpdate, Exists, Row
<1> QED
  BY <1>2 DEF Secured, Acquirable, AfterAcquire, Renewable, AfterRenew,
     AfterInsert, Exists, Row

\* Nobody else's statement touches a row whose lease is held.
LEMMA OthersStatements ==
  ASSUME NEW w \in Row, NEW r \in Runs, NEW s \in Runs \ {r}, Secured(w, s)
  PROVE  /\ AfterInsert(w) = w
         /\ AfterAcquire(w, r) = w
         /\ AfterRenew(w, r) = w
         /\ AfterRelease(w, r) = w
<1>1. s # NoHolder
  BY NoHolderAssumption, RunsAssumption
<1> QED
  BY <1>1 DEF Secured, AfterInsert, AfterAcquire, AfterRenew, AfterRelease,
     Acquirable, Renewable

\* Only a run that relies on its lease deletes the row or moves its phase.
LEMMA MoversRely ==
  ASSUME NEW r \in Runs, Listening(r), pc[r] \in {"record", "forget", "revDelete"}
  PROVE  Relies(r)
BY DEF Relies, Listening, Deletions, Leased, Recording, Releasing

\* So a run that relies on its lease finds the row unchanged by other runs.
LEMMA OthersLeaveRow ==
  ASSUME TypeOK, LeaseInv, NEW r \in Runs, NEW s \in Runs \ {r}, Relies(s),
         Progress(r) \/ StageLands(r) \/ Faults(r)
  PROVE  row' = row
<1>1. row \in Row /\ Secured(row, s)
  BY DEF TypeOK, LeaseInv
<1>2. ~Secured(row, r)
  BY <1>1 DEF Secured
<1>3. Listening(r) => pc[r] \notin {"record", "forget", "revDelete"}
  BY <1>2, MoversRely DEF LeaseInv
<1>4. Listening(r) => InFlight(r) = row
  BY <1>1, <1>3, OthersStatements DEF InFlight
<1>5. Outcomes(r) = {row} /\ AfterRenew(row, r) = row
  BY <1>1, <1>4, OthersStatements DEF Outcomes
<1> QED
  BY <1>5, StepShape

\* A run's own step leaves it relying on its lease only if it has it.
LEMMA OwnLease ==
  ASSUME TypeOK, LeaseInv, LeaseAssumptions, NEW r \in Runs,
         Progress(r) \/ StageLands(r) \/ Faults(r), Relies(r)'
  PROVE  Secured(row', r)
<1>1. row \in Row /\ rec[r] \in Record /\ Target(r) \in PhaseOrder
  BY TargetTyped DEF TypeOK
<1>2. Relies(r) => Secured(row, r)
  BY DEF LeaseInv
<1>3. pc'[r] \in Leased \cup {"revGet", "revDelete"}
  BY DEF Relies
<1>4. CASE Claim(r)
  <2>1. CASE ReviveAcquire(r) \/ AcquireLease(r)
    <3>1. Acquirable(row, r)
      BY <2>1, <1>3 DEF ReviveAcquire, AcquireLease, Goto, TypeOK, Leased,
         Recording, Stages, Building, Tearing
    <3> QED
      BY <2>1, <3>1, <1>1, OwnStatements DEF ReviveAcquire, AcquireLease
  <2>2. CASE ReviveGet(r)
    <3>1. Relies(r)
      BY <2>2 DEF ReviveGet, At, Relies, Deletions
    <3> QED
      BY <2>2, <3>1, <1>2 DEF ReviveGet
  <2>3. CASE Claim(r) /\ ~(ReviveAcquire(r) \/ AcquireLease(r) \/ ReviveGet(r))
    <3>1. pc'[r] \notin Leased \cup {"revGet", "revDelete"}
      BY <2>3 DEF Claim, GetRecord, CreateRecord, CheckCreated, GetAgain,
         ReviveDelete, ReviveCreate, ReviveCheckCreated, Goto, TypeOK, Leased,
         Recording, Stages, Building, Tearing
    <3> QED
      BY <3>1, <1>3
  <2> QED
    BY <1>4, <2>1, <2>2, <2>3
<1>5. CASE Reread(r) \/ CheckRecorded(r)
  <2>1. Relies(r) /\ row' = row
    BY <1>5 DEF Reread, CheckRecorded, At, Listening, Relies, Deletions, Leased,
       Recording, Releasing
  <2> QED
    BY <2>1, <1>2
<1>6. CASE RenewBeforeStep(r)
  <2>1. Renewable(row, r)
    BY <1>6, <1>3 DEF RenewBeforeStep, Goto, TypeOK, Leased, Recording, Stages,
       Building, Tearing
  <2> QED
    BY <1>6, <2>1, <1>1, OwnStatements DEF RenewBeforeStep
<1>7. CASE RecordPhase(r)
  <2>1. Relies(r) /\ row' = AfterUpdate(row, rec[r], Target(r))
    BY <1>7, MoversRely DEF RecordPhase, At
  <2> QED
    BY <2>1, <1>1, <1>2, OwnStatements
<1>8. CASE ForgetRecord(r) \/ ReleaseLease(r) \/ Abort(r) \/ Crash(r) \/ StageFails(r)
  <2>1. pc'[r] \notin Leased \cup {"revGet", "revDelete"}
    BY <1>8 DEF ForgetRecord, ReleaseLease, Abort, Crash, StageFails, OnError,
       Goto, TypeOK, Leased, Recording, Stages, Building, Tearing
  <2> QED
    BY <2>1, <1>3
<1>9. CASE StageReturns(r) \/ StageLands(r)
  <2>1. Relies(r) /\ row' = row
    BY <1>9 DEF StageReturns, StageLands, Relies, Leased
  <2> QED
    BY <2>1, <1>2
<1>10. CASE LoseCall(r)
  <2>1. ~(pc'[r] = OnError(pc[r]) /\ pc'[r] # pc[r])
    BY <1>3 DEF OnError, Leased, Recording, Stages, Building, Tearing
  <2>2. pc'[r] = pc[r]
    BY <1>10, <2>1 DEF LoseCall, Goto, TypeOK
  <2>3. Relies(r) /\ pc[r] \notin Deletions /\ pc[r] \notin Claiming \cup Releasing
    BY <1>10, <1>3, <2>2 DEF LoseCall, Relies, LeaseAssumptions, Deletions, Leased,
       Recording, Stages, Building, Tearing, Claiming, Releasing
  <2>4. row' \in {row, AfterRenew(row, r), AfterUpdate(row, rec[r], Target(r))}
    BY <1>10, <1>3, <2>2, <2>3 DEF LoseCall, Outcomes, InFlight, Deletions, Claiming, Leased,
       Recording, Stages, Building, Tearing
  <2> QED
    BY <2>3, <2>4, <1>1, <1>2, OwnStatements
<1>11. CASE Heartbeat(r)
  <2>1. pc[r] \in Leased /\ r \notin stopped
    BY <1>11 DEF Heartbeat
  <2>2. Renewable(row, r)
    BY <2>1, <1>1, <1>2, OwnStatements DEF Relies
  <2> QED
    BY <1>11, <2>2, <1>1, OwnStatements DEF Heartbeat
<1>12. CASE Interrupt(r)
  <2>1. pc[r] \notin Deletions /\ pc'[r] = pc[r]
    BY <1>12 DEF Interrupt, Relies, TypeOK
  <2>2. Relies(r)
    BY <2>1, <1>3 DEF Relies
  <2>3. row' \in {row, AfterRenew(row, r), AfterUpdate(row, rec[r], Target(r))}
    BY <1>12, <1>3, <2>1 DEF Interrupt, Outcomes, InFlight, Deletions, Leased,
       Recording, Stages, Building, Tearing, Releasing
  <2> QED
    BY <2>2, <2>3, <1>1, <1>2, OwnStatements
<1> QED
  BY <1>4, <1>5, <1>6, <1>7, <1>8, <1>9, <1>10, <1>11, <1>12
  DEF Progress, Walk, Answered, Faults

LEMMA LeaseInvNext ==
  TypeOK /\ LeaseInv /\ LeaseAssumptions /\ [Next]_vars => LeaseInv'
<1> SUFFICES ASSUME TypeOK, LeaseInv, LeaseAssumptions, [Next]_vars
             PROVE  LeaseInv'
  OBVIOUS
<1>1. ASSUME NEW r \in Runs, Progress(r) \/ StageLands(r) \/ Faults(r)
      PROVE  LeaseInv'
  <2>1. ASSUME NEW s \in Runs \ {r}, Relies(s)'
        PROVE  Secured(row', s)
    <3>1. Relies(s)
      BY <1>1, <2>1, StepShape DEF Relies
    <3>2. row' = row
      BY <1>1, <3>1, OthersLeaveRow
    <3> QED
      BY <3>1, <3>2 DEF LeaseInv
  <2> QED
    BY <1>1, <2>1, OwnLease DEF LeaseInv
<1>2. CASE Lapse
  <2>1. row.holder \in Runs /\ pc[row.holder] \in Ended
    BY <1>2 DEF Lapse, LeaseAssumptions
  <2>2. ASSUME NEW s \in Runs, Relies(s) PROVE FALSE
    <3>1. row.holder = s
      BY <2>2 DEF LeaseInv, Secured
    <3> QED
      BY <2>1, <2>2, <3>1 DEF Relies, Ended, Leased, Recording, Stages, Building, Tearing
  <2>3. \A s \in Runs : Relies(s)' = Relies(s)
    BY <1>2 DEF Lapse, Relies
  <2> QED
    BY <2>2, <2>3 DEF LeaseInv
<1>3. CASE UNCHANGED vars
  BY <1>3 DEF vars, LeaseInv, Relies
<1> QED
  BY <1>1, <1>2, <1>3 DEF Next, AllOver

LEMMA LeaseInvariant == LeaseAssumptions /\ Spec => []LeaseInv
<1>1. Init => LeaseInv
  BY DEF Init, LeaseInv, Relies, Leased, Recording, Stages, Building, Tearing
<1>2. TypeOK /\ LeaseInv /\ LeaseAssumptions /\ [Next]_vars => LeaseInv'
  BY LeaseInvNext
<1>3. LeaseAssumptions /\ [Next]_vars => LeaseAssumptions'
  BY DEF LeaseAssumptions, Deletions
<1> QED
  BY <1>1, <1>2, <1>3, TypeCorrect, PTL DEF Spec

\* Two runs are never at work on the cluster at the same time.
THEOREM Exclusion == LeaseAssumptions /\ Spec => []WorkExclusive
<1>1. LeaseInv => WorkExclusive
  <2> SUFFICES ASSUME LeaseInv, NEW r \in Runs, NEW s \in Runs,
                      pc[r] \in Stages, pc[s] \in Stages
               PROVE  r = s
    BY DEF WorkExclusive
  <2>1. Relies(r) /\ Relies(s)
    BY DEF Relies, Leased, Deletions, Stages, Building, Tearing
  <2> QED
    BY <2>1 DEF LeaseInv, Secured
<1> QED
  BY <1>1, LeaseInvariant, PTL

\* A phase moves, and a record goes, only in the call of the run that holds
\* the record's unexpired lease.
THEOREM MovesAreTheHolders == LeaseAssumptions /\ Spec => OnlyHolderMoves
<1>1. TypeOK /\ LeaseInv /\ [Next]_vars => MovedByHolder
  <2> SUFFICES ASSUME TypeOK, LeaseInv, [Next]_vars, Exists(row), row'.phase # row.phase
               PROVE  \E r \in Runs : /\ row.holder = r /\ row.live
                                      /\ pc[r] \in {"record", "forget", "revDelete"}
    BY DEF MovedByHolder
  <2>1. ~Lapse /\ ~UNCHANGED vars
    BY DEF Lapse, AfterLapse, vars, TypeOK, Row
  <2>2. PICK r \in Runs : Progress(r) \/ StageLands(r) \/ Faults(r)
    BY <2>1 DEF Next, AllOver
  <2>3. row' \in Outcomes(r) \cup {AfterRenew(row, r)}
    BY <2>2, StepShape
  <2>4. Listening(r) /\ row' = InFlight(r)
    BY <2>3 DEF Outcomes, AfterRenew, TypeOK, Row
  <2>5. pc[r] \in {"record", "forget", "revDelete"}
    BY <2>4 DEF InFlight, AfterInsert, AfterAcquire, AfterRenew, AfterRelease,
       TypeOK, Row
  <2>6. Relies(r)
    BY <2>4, <2>5, MoversRely
  <2> QED
    BY <2>5, <2>6 DEF LeaseInv, Secured
<1> QED
  BY <1>1, LeaseInvariant, TypeCorrect, PTL DEF Spec, OnlyHolderMoves
-----------------------------------------------------------------------------
(* The re-read under the lease leaves no room for a stale record. *)

Working == Stages \cup {"renew"}

LEMMA WorkersRely == \A r \in Runs : pc[r] \in Working => Relies(r)
BY DEF Working, Relies, Leased, Recording, Stages, Building, Tearing, Deletions

\* Renewing a lease changes nothing a record carries.
LEMMA RenewKeepsRecord ==
  ASSUME NEW w \in Row, NEW r
  PROVE  Read(AfterRenew(w, r)) = Read(w)
BY DEF Read, AfterRenew, Row

LEMMA CurrentStep ==
  ASSUME TypeOK, LeaseInv, WorkerIsCurrent, NEW r \in Runs,
         Progress(r) \/ StageLands(r) \/ Faults(r), pc'[r] \in Working
  PROVE  rec'[r] = Read(row')
<1>1. row \in Row /\ Read(AfterRenew(row, r)) = Read(row)
  BY RenewKeepsRecord DEF TypeOK
<1>2. pc[r] \in Working => rec[r] = Read(row)
  BY DEF WorkerIsCurrent, Working
<1>3. CASE Claim(r)
  BY <1>3 DEF Claim, GetRecord, CreateRecord, CheckCreated, GetAgain,
     ReviveAcquire, ReviveGet, ReviveDelete, ReviveCreate, ReviveCheckCreated,
     AcquireLease, Goto, TypeOK, Working, Stages, Building, Tearing
<1>4. CASE Reread(r)
  BY <1>4 DEF Reread, TypeOK
<1>5. CASE RecordPhase(r) \/ CheckRecorded(r)
  BY <1>5 DEF RecordPhase, CheckRecorded, Recorded, Goto, TypeOK, Working,
     Stages, Building, Tearing
<1>6. CASE RenewBeforeStep(r)
  <2>1. pc[r] \in Working
    BY <1>6 DEF RenewBeforeStep, At, Working
  <2> QED
    BY <1>6, <2>1, <1>1, <1>2 DEF RenewBeforeStep
<1>7. CASE ForgetRecord(r) \/ ReleaseLease(r) \/ Abort(r) \/ Crash(r) \/ StageFails(r)
  BY <1>7 DEF ForgetRecord, ReleaseLease, Abort, Crash, StageFails, OnError,
     Goto, TypeOK, Working, Stages, Building, Tearing
<1>8. CASE StageReturns(r) \/ StageLands(r)
  BY <1>8, <1>2 DEF StageReturns, StageLands, Working
<1>9. CASE LoseCall(r)
  <2>1. pc[r] \in Working /\ rec'[r] = rec[r]
    BY <1>9 DEF LoseCall, OnError, Goto, TypeOK, Working, Stages, Building, Tearing
  <2>2. row' \in {row, AfterRenew(row, r)}
    BY <1>9, <2>1 DEF LoseCall, Outcomes, InFlight, Working, Stages, Building,
       Tearing, Releasing
  <2> QED
    BY <2>1, <2>2, <1>1, <1>2
<1>10. CASE Heartbeat(r) \/ Interrupt(r)
  <2>1. pc[r] \in Working /\ rec'[r] = rec[r]
    BY <1>10 DEF Heartbeat, Interrupt, TypeOK
  <2>2. row' \in {row, AfterRenew(row, r)}
    BY <1>10, <2>1 DEF Heartbeat, Interrupt, Outcomes, InFlight, Working, Stages,
       Building, Tearing, Releasing
  <2> QED
    BY <2>1, <2>2, <1>1, <1>2
<1> QED
  BY <1>3, <1>4, <1>5, <1>6, <1>7, <1>8, <1>9, <1>10
  DEF Progress, Walk, Answered, Faults

LEMMA CurrentNext ==
  TypeOK /\ LeaseInv /\ WorkerIsCurrent /\ [Next]_vars => WorkerIsCurrent'
<1> SUFFICES ASSUME TypeOK, LeaseInv, WorkerIsCurrent, [Next]_vars
             PROVE  WorkerIsCurrent'
  OBVIOUS
<1>1. ASSUME NEW r \in Runs, Progress(r) \/ StageLands(r) \/ Faults(r)
      PROVE  WorkerIsCurrent'
  <2>1. ASSUME NEW s \in Runs \ {r}, pc'[s] \in Working
        PROVE  rec'[s] = Read(row')
    <3>1. pc[s] \in Working /\ rec'[s] = rec[s]
      BY <1>1, <2>1, StepShape
    <3>2. row' = row
      BY <1>1, <3>1, WorkersRely, OthersLeaveRow
    <3> QED
      BY <3>1, <3>2 DEF WorkerIsCurrent, Working
  <2> QED
    BY <1>1, <2>1, CurrentStep DEF WorkerIsCurrent, Working
<1>2. CASE Lapse
  <2>1. Read(row') = Read(row)
    BY <1>2 DEF Lapse, AfterLapse, Read, TypeOK, Row
  <2> QED
    BY <1>2, <2>1 DEF Lapse, WorkerIsCurrent
<1>3. CASE UNCHANGED vars
  BY <1>3 DEF vars, WorkerIsCurrent, Read
<1> QED
  BY <1>1, <1>2, <1>3 DEF Next, AllOver

\* While a run works, the record it goes by is the record in the registry.
THEOREM Currency == LeaseAssumptions /\ Spec => []WorkerIsCurrent
<1>1. Init => WorkerIsCurrent
  BY DEF Init, WorkerIsCurrent, Stages, Building, Tearing
<1>2. TypeOK /\ LeaseInv /\ WorkerIsCurrent /\ [Next]_vars => WorkerIsCurrent'
  BY CurrentNext
<1> QED
  BY <1>1, <1>2, TypeCorrect, LeaseInvariant, PTL DEF Spec
-----------------------------------------------------------------------------
(* Every way out gives the lease back. *)

\* Where a run may be while the row names it as the holder.
Holding == Leased \cup Releasing \cup {"revGet", "revDelete", "crashed"}

\* The places before a run has read the record under its lease.
Unread == Claiming \cup Reviving \cup {"revRelease", "revReleaseGo", "reread"}

HolderPlaced ==
  /\ ~Exists(row) => row.holder = NoHolder
  /\ \A r \in Runs : pc[r] \in Unread => rec[r] = NoRecord
  /\ \A r \in Runs :
       lost = 0 /\ row.holder = r => pc[r] \in Holding \/ KeptByInterrupt(r)

\* What the statements do to the holder.
LEMMA StatementsHolder ==
  ASSUME NEW w \in Row, NEW h \in Holders, NEW e \in Record, NEW to \in PhaseOrder,
         ~Exists(w) => w.holder = NoHolder
  PROVE  /\ AfterInsert(w).holder = w.holder
         /\ AfterRenew(w, h).holder = w.holder
         /\ AfterUpdate(w, e, to).holder = w.holder
         /\ AfterDelete(w).holder = NoHolder
         /\ AfterAcquire(w, h).holder \in {w.holder, h}
         /\ ~Acquirable(w, h) => AfterAcquire(w, h).holder = w.holder /\ w.holder # h
         /\ AfterRelease(w, h).holder \in {w.holder, NoHolder} \ {h}
<1>1. h # NoHolder
  BY NoHolderAssumption
<1>2. AfterInsert(w).holder = w.holder
  BY DEF AfterInsert, NewRow
<1>3. AfterRenew(w, h).holder = w.holder /\ AfterUpdate(w, e, to).holder = w.holder
  BY DEF AfterRenew, AfterUpdate, Row
<1>4. AfterDelete(w).holder = NoHolder
  BY DEF AfterDelete, Row
<1>5. /\ AfterAcquire(w, h).holder \in {w.holder, h}
      /\ ~Acquirable(w, h) => AfterAcquire(w, h).holder = w.holder /\ w.holder # h
  BY <1>1 DEF AfterAcquire, Acquirable, Row
<1>6. AfterRelease(w, h).holder \in {w.holder, NoHolder} \ {h}
  BY <1>1 DEF AfterRelease, Renewable, Row
<1> QED
  BY <1>2, <1>3, <1>4, <1>5, <1>6

\* No statement leaves a holder on a row that is gone.
LEMMA GoneIsFree ==
  ASSUME NEW w \in Row, NEW h \in Holders, NEW e \in Record, NEW to \in PhaseOrder,
         ~Exists(w) => w.holder = NoHolder,
         NEW v \in {w, AfterInsert(w), AfterRenew(w, h), AfterUpdate(w, e, to),
                    AfterDelete(w), AfterAcquire(w, h), AfterRelease(w, h)}
  PROVE  ~Exists(v) => v.holder = NoHolder
<1>1. Exists(w) => Exists(AfterUpdate(w, e, to))
  BY DEF AfterUpdate, Exists, Row, PhaseOrder, LivePhases, Absent
<1>2. ~Exists(w) => AfterUpdate(w, e, to) = w
  BY DEF AfterUpdate, Matches
<1>3. /\ ~Exists(AfterInsert(w)) => AfterInsert(w).holder = NoHolder
      /\ ~Exists(AfterDelete(w)) => AfterDelete(w).holder = NoHolder
  BY StatementsHolder DEF AfterInsert
<1>4. /\ ~Exists(AfterRenew(w, h)) => AfterRenew(w, h).holder = NoHolder
      /\ ~Exists(AfterAcquire(w, h)) => AfterAcquire(w, h).holder = NoHolder
      /\ ~Exists(AfterRelease(w, h)) => AfterRelease(w, h).holder = NoHolder
  BY DEF AfterRenew, AfterAcquire, AfterRelease, Renewable, Acquirable, Exists, Row
<1> QED
  BY <1>1, <1>2, <1>3, <1>4

\* A run has no record before it reads one under the lease.
LEMMA UnreadStep ==
  ASSUME TypeOK, HolderPlaced, NEW r \in Runs,
         Progress(r) \/ StageLands(r) \/ Faults(r), pc'[r] \in Unread
  PROVE  rec'[r] = NoRecord
<1>1. pc[r] \in Unread => rec[r] = NoRecord
  BY DEF HolderPlaced
<1>2. CASE Claim(r)
  <2>1. pc[r] \in Unread /\ rec' = rec
    BY <1>2 DEF Claim, GetRecord, CreateRecord, CheckCreated, GetAgain,
       ReviveAcquire, ReviveGet, ReviveDelete, ReviveCreate, ReviveCheckCreated,
       AcquireLease, At, Unread, Claiming, Reviving
  <2> QED
    BY <1>1, <2>1
<1>3. CASE Reread(r) \/ RecordPhase(r) \/ CheckRecorded(r) \/ RenewBeforeStep(r)
  BY <1>3 DEF Reread, RecordPhase, CheckRecorded, RenewBeforeStep, Recorded, Goto,
     TypeOK, ApplyFrom, DeleteFrom, FirstStage, Unread, Claiming, Reviving
<1>4. CASE ForgetRecord(r) \/ StageReturns(r) \/ StageFails(r) \/ Crash(r)
  BY <1>4 DEF ForgetRecord, StageReturns, StageFails, Crash, Goto, TypeOK,
     AfterStage, Unread, Claiming, Reviving
<1>5. CASE ReleaseLease(r) \/ Abort(r) \/ LoseCall(r)
  <2>1. OnError(pc[r]) \in Unread => pc[r] \in Unread
    BY DEF OnError, Unread, Claiming, Reviving, Leased, Recording, Stages,
       Building, Tearing
  <2>2. pc[r] \in Unread /\ rec' = rec
    BY <1>5, <2>1 DEF ReleaseLease, Abort, LoseCall, Goto, TypeOK
  <2> QED
    BY <1>1, <2>2
<1>6. CASE StageLands(r) \/ Heartbeat(r) \/ Interrupt(r)
  BY <1>1, <1>6 DEF StageLands, Heartbeat, Interrupt
<1> QED
  BY <1>2, <1>3, <1>4, <1>5, <1>6 DEF Progress, Walk, Answered, Faults

\* A run whose context is cancelled reads nothing any more.
LEMMA KeptStaysKept ==
  ASSUME TypeOK, NEW r \in Runs, KeptByInterrupt(r),
         Progress(r) \/ StageLands(r) \/ Faults(r)
  PROVE  KeptByInterrupt(r)'
<1>1. r \in stopped'
  BY StepShape DEF KeptByInterrupt
<1>2. ~Reread(r) /\ ~RecordPhase(r) /\ ~CheckRecorded(r)
  BY DEF KeptByInterrupt, Reread, RecordPhase, CheckRecorded, At, Listening, Releasing
<1>3. rec' = rec
  BY <1>2 DEF Progress, Claim, GetRecord, CreateRecord, CheckCreated, GetAgain,
     ReviveAcquire, ReviveGet, ReviveDelete, ReviveCreate, ReviveCheckCreated,
     AcquireLease, Walk, RenewBeforeStep, ForgetRecord, ReleaseLease, Answered,
     StageReturns, StageFails, Abort, StageLands, Faults, LoseCall, Heartbeat,
     Interrupt, Crash
<1> QED
  BY <1>1, <1>3 DEF KeptByInterrupt

\* A run's own step leaves it the holder only at a place it will release from.
LEMMA OwnHolding ==
  ASSUME TypeOK, HolderPlaced, NEW r \in Runs,
         Progress(r) \/ StageLands(r) \/ Faults(r), lost' = 0, row'.holder = r
  PROVE  pc'[r] \in Holding \/ KeptByInterrupt(r)'
<1>1. /\ row \in Row /\ r \in Holders /\ rec[r] \in Record /\ Target(r) \in PhaseOrder
      /\ ~Exists(row) => row.holder = NoHolder
      /\ r # NoHolder
  BY RunsAssumption, NoHolderAssumption, TargetTyped DEF TypeOK, HolderPlaced
<1>2. lost = 0 /\ ~LoseCall(r)
  BY RunsAssumption DEF TypeOK, Progress, Claim, GetRecord, CreateRecord, CheckCreated,
     GetAgain, ReviveAcquire, ReviveGet, ReviveDelete, ReviveCreate, ReviveCheckCreated,
     AcquireLease, Walk, Reread, RenewBeforeStep, RecordPhase, CheckRecorded,
     ForgetRecord, ReleaseLease, Answered, StageReturns, StageFails, Abort,
     StageLands, Faults, LoseCall, Heartbeat, Interrupt, Crash
<1> SUFFICES ASSUME ~KeptByInterrupt(r) PROVE pc'[r] \in Holding \/ KeptByInterrupt(r)'
  BY KeptStaysKept
<1>3. row.holder = r => pc[r] \in Holding
  BY <1>2 DEF HolderPlaced
<1>4. CASE ReviveAcquire(r) \/ AcquireLease(r)
  <2>1. Acquirable(row, r)
    BY <1>1, <1>3, <1>4, StatementsHolder DEF ReviveAcquire, AcquireLease
  <2> QED
    BY <1>4, <2>1 DEF ReviveAcquire, AcquireLease, Goto, TypeOK, Holding, Leased, Recording
<1>5. CASE ReviveGet(r)
  BY <1>5 DEF ReviveGet, Goto, TypeOK, Holding, Releasing
<1>6. CASE ReviveDelete(r) \/ ForgetRecord(r) \/ ReleaseLease(r)
  BY <1>1, <1>6, StatementsHolder DEF ReviveDelete, ForgetRecord, ReleaseLease
<1>7. CASE GetRecord(r) \/ CreateRecord(r) \/ CheckCreated(r) \/ GetAgain(r)
           \/ ReviveCreate(r) \/ ReviveCheckCreated(r)
  <2>1. row'.holder = row.holder
    BY <1>1, <1>7, StatementsHolder DEF GetRecord, CreateRecord, CheckCreated,
       GetAgain, ReviveCreate, ReviveCheckCreated
  <2>2. pc[r] \notin Holding
    BY <1>7 DEF GetRecord, CreateRecord, CheckCreated, GetAgain, ReviveCreate,
       ReviveCheckCreated, At, Holding, Leased, Recording, Stages, Building, Tearing,
       Releasing
  <2> QED
    BY <1>3, <2>1, <2>2
<1>8. CASE Reread(r) \/ RenewBeforeStep(r) \/ RecordPhase(r) \/ CheckRecorded(r)
           \/ StageReturns(r) \/ StageFails(r)
  BY <1>8 DEF Reread, RenewBeforeStep, RecordPhase, CheckRecorded, Recorded, StageReturns,
     StageFails, Goto, TypeOK, ApplyFrom, DeleteFrom, FirstStage, AfterStage,
     Holding, Leased, Recording, Stages, Building, Tearing, Releasing
<1>9. CASE Abort(r)
  <2>1. row.holder = r /\ pc[r] \in Holding \ {"crashed"} /\ pc[r] \notin Releasing
    BY <1>3, <1>9 DEF Abort, Ended
  <2> QED
    BY <1>9, <2>1 DEF Abort, OnError, Goto, TypeOK, Holding, Leased, Recording,
       Stages, Building, Tearing, Releasing
<1>10. CASE StageLands(r) \/ Heartbeat(r)
  <2>1. pc'[r] = pc[r] /\ pc[r] \in Leased
    BY <1>10 DEF StageLands, Heartbeat, Leased
  <2> QED
    BY <2>1 DEF Holding
<1>11. CASE Interrupt(r)
  <2>1. /\ pc' = pc /\ rec' = rec /\ r \in stopped' /\ row' \in {row, InFlight(r)}
        /\ pc[r] \notin Ended
    BY <1>11 DEF Interrupt, Outcomes
  <2>2. CASE row.holder = r
    BY <1>3, <2>1, <2>2
  <2>3. CASE pc[r] \in Leased \cup {"revGet", "revDelete"}
    BY <2>1, <2>3 DEF Holding
  <2>4. CASE row.holder # r /\ pc[r] \notin Leased \cup {"revGet", "revDelete"}
    <3>1. pc[r] \in {"acquire", "revAcquire"}
      BY <1>1, <1>11, <2>1, <2>4, StatementsHolder
      DEF InFlight, Interrupt, Leased, Recording
    <3>2. rec[r] = NoRecord
      BY <3>1 DEF HolderPlaced, Unread, Claiming, Reviving
    <3> QED
      BY <2>1, <3>2 DEF KeptByInterrupt
  <2> QED
    BY <2>2, <2>3, <2>4
<1>12. CASE Crash(r)
  BY <1>12 DEF Crash, Goto, TypeOK, Holding
<1> QED
  BY <1>2, <1>4, <1>5, <1>6, <1>7, <1>8, <1>9, <1>10, <1>11, <1>12
  DEF Progress, Claim, Walk, Answered, Faults

LEMMA HolderPlacedStep ==
  ASSUME TypeOK, HolderPlaced, NEW r \in Runs,
         Progress(r) \/ StageLands(r) \/ Faults(r)
  PROVE  HolderPlaced'
<1>1. /\ row \in Row /\ r \in Holders /\ rec[r] \in Record /\ Target(r) \in PhaseOrder
      /\ ~Exists(row) => row.holder = NoHolder
  BY RunsAssumption, TargetTyped DEF TypeOK, HolderPlaced
<1>2. row' \in {row, AfterInsert(row), AfterRenew(row, r),
                AfterUpdate(row, rec[r], Target(r)), AfterDelete(row),
                AfterAcquire(row, r), AfterRelease(row, r)}
  BY StepShape DEF Outcomes, InFlight
<1>3. row'.holder \in {row.holder, r, NoHolder}
  BY <1>1, <1>2, StatementsHolder
<1>4. ~Exists(row') => row'.holder = NoHolder
  BY <1>1, <1>2, GoneIsFree
<1>5. ASSUME NEW s \in Runs, pc'[s] \in Unread PROVE rec'[s] = NoRecord
  BY <1>5, UnreadStep, StepShape DEF HolderPlaced
<1>6. ASSUME NEW s \in Runs, lost' = 0, row'.holder = s
      PROVE  pc'[s] \in Holding \/ KeptByInterrupt(s)'
  <2>1. CASE s = r
    BY <1>6, <2>1, OwnHolding
  <2>2. CASE s # r
    <3>1. row.holder = s
      BY <1>3, <1>6, <2>2, NoHolderAssumption, RunsAssumption
    <3>2. lost = 0
      BY <1>6, RunsAssumption DEF TypeOK, Progress, Claim, GetRecord, CreateRecord,
         CheckCreated, GetAgain, ReviveAcquire, ReviveGet, ReviveDelete, ReviveCreate,
         ReviveCheckCreated, AcquireLease, Walk, Reread, RenewBeforeStep, RecordPhase,
         CheckRecorded, ForgetRecord, ReleaseLease, Answered, StageReturns, StageFails,
         Abort, StageLands, Faults, LoseCall, Heartbeat, Interrupt, Crash
    <3>3. pc[s] \in Holding \/ KeptByInterrupt(s)
      BY <3>1, <3>2 DEF HolderPlaced
    <3> QED
      BY <2>2, <3>3, StepShape DEF KeptByInterrupt
  <2> QED
    BY <2>1, <2>2
<1> QED
  BY <1>4, <1>5, <1>6 DEF HolderPlaced, KeptByInterrupt

LEMMA HolderPlacedInvariant == Spec => []HolderPlaced
<1>1. Init => HolderPlaced
  <2> SUFFICES ASSUME Init PROVE HolderPlaced
    OBVIOUS
  <2>1. \A old : EmptyRow.holder = NoHolder /\ OldRow(old).holder = NoHolder
    BY DEF EmptyRow, OldRow
  <2>2. row.holder = NoHolder
    BY <2>1 DEF Init
  <2> QED
    BY <2>2, NoHolderAssumption, RunsAssumption DEF Init, HolderPlaced
<1>2. TypeOK /\ HolderPlaced /\ [Next]_vars => HolderPlaced'
  <2> SUFFICES ASSUME TypeOK, HolderPlaced, [Next]_vars PROVE HolderPlaced'
    OBVIOUS
  <2>1. ASSUME NEW r \in Runs, Progress(r) \/ StageLands(r) \/ Faults(r)
        PROVE  HolderPlaced'
    BY <2>1, HolderPlacedStep
  <2>2. CASE Lapse
    <3>1. row'.holder = row.holder /\ (Exists(row') <=> Exists(row))
      BY <2>2 DEF Lapse, AfterLapse, Exists, TypeOK, Row
    <3> QED
      BY <2>2, <3>1 DEF Lapse, HolderPlaced, KeptByInterrupt
  <2>3. CASE UNCHANGED vars
    BY <2>3 DEF vars, HolderPlaced, KeptByInterrupt, Exists
  <2> QED
    BY <2>1, <2>2, <2>3 DEF Next, AllOver
<1> QED
  BY <1>1, <1>2, TypeCorrect, PTL DEF Spec

\* Whoever races, fails, lapses, is interrupted or killed: a run that returned has
\* given its lease back, unless a lost call or Ctrl-C took it in the act of
\* taking it (o.release, reregister).
THEOREM LeaseReturned == Spec => []LeaseGivenBack
<1>1. HolderPlaced => LeaseGivenBack
  BY DEF HolderPlaced, LeaseGivenBack, Holding, Leased, Recording, Stages, Building,
     Tearing, Releasing
<1> QED
  BY <1>1, HolderPlacedInvariant, PTL
-----------------------------------------------------------------------------
(* A record is only ever written over the row it was read from. *)

\* Until it ends, a run that relies on its lease keeps the row it read.
SameEpoch ==
  \A r \in Runs :
    Relies(r) /\ pc[r] \in Leased \ {"reread"} => rec[r].epoch = row.epoch

\* The statements of a run under its lease leave the incarnation alone.
LEMMA StatementsEpoch ==
  ASSUME NEW w \in Row, NEW r, NEW e, NEW to
  PROVE  AfterRenew(w, r).epoch = w.epoch /\ AfterUpdate(w, e, to).epoch = w.epoch
BY DEF AfterRenew, AfterUpdate, Row

LEMMA OwnEpoch ==
  ASSUME TypeOK, LeaseInv, LeaseAssumptions, SameEpoch, NEW r \in Runs,
         Progress(r) \/ StageLands(r) \/ Faults(r),
         Relies(r)', pc'[r] \in Leased \ {"reread"}
  PROVE  rec'[r].epoch = row'.epoch
<1>1. /\ row \in Row
      /\ AfterRenew(row, r).epoch = row.epoch
      /\ AfterUpdate(row, rec[r], Target(r)).epoch = row.epoch
  BY StatementsEpoch DEF TypeOK
<1>2. Relies(r) /\ pc[r] \in Leased \ {"reread"} => rec[r].epoch = row.epoch
  BY DEF SameEpoch
<1>3. CASE Claim(r)
  BY <1>3 DEF Claim, GetRecord, CreateRecord, CheckCreated, GetAgain,
     ReviveAcquire, ReviveGet, ReviveDelete, ReviveCreate, ReviveCheckCreated,
     AcquireLease, Goto, TypeOK, Leased, Recording, Stages, Building, Tearing
<1>4. CASE Reread(r) \/ RecordPhase(r) \/ CheckRecorded(r)
  <2>1. CASE Reread(r)
    BY <2>1 DEF Reread, Read, TypeOK
  <2>2. CASE \E w \in {row, row'} : w.epoch = row'.epoch /\ Recorded(r, w)
    BY <2>2 DEF Recorded, Read, TypeOK
  <2>3. CASE RecordPhase(r) /\ ~Matches(row, rec[r])
    <3>1. Relies(r) /\ pc[r] \in Leased \ {"reread"}
      BY <2>3 DEF RecordPhase, At, Listening, Relies, Leased, Recording, Releasing,
         Deletions
    <3> QED
      BY <1>2, <2>3, <3>1 DEF RecordPhase, AfterUpdate
  <2>4. CASE CheckRecorded(r) /\ ~LooksLikeOurUpdate(row, rec[r], Target(r))
    BY <2>4 DEF CheckRecorded, Goto, TypeOK, Leased, Recording, Stages, Building, Tearing
  <2> QED
    BY <1>4, <2>1, <2>2, <2>3, <2>4 DEF RecordPhase, CheckRecorded
<1>5. CASE RenewBeforeStep(r)
  <2>1. Relies(r) /\ pc[r] \in Leased \ {"reread"}
    BY <1>5 DEF RenewBeforeStep, At, Relies, Leased, Recording, Deletions
  <2> QED
    BY <1>1, <1>2, <1>5, <2>1 DEF RenewBeforeStep
<1>6. CASE ForgetRecord(r) \/ ReleaseLease(r) \/ Abort(r) \/ Crash(r) \/ StageFails(r)
  BY <1>6 DEF ForgetRecord, ReleaseLease, Abort, Crash, StageFails, OnError,
     Goto, TypeOK, Leased, Recording, Stages, Building, Tearing
<1>7. CASE StageReturns(r) \/ StageLands(r)
  <2>1. Relies(r) /\ pc[r] \in Leased \ {"reread"}
    BY <1>7 DEF StageReturns, StageLands, Relies, Leased, Recording, Stages, Building,
       Tearing
  <2> QED
    BY <1>2, <1>7, <2>1 DEF StageReturns, StageLands
<1>8. CASE LoseCall(r) \/ Heartbeat(r) \/ Interrupt(r)
  <2>1. pc'[r] = pc[r] /\ rec' = rec
    BY <1>8 DEF LoseCall, Heartbeat, Interrupt, OnError, Goto, TypeOK, Leased,
       Recording, Stages, Building, Tearing
  <2>2. Relies(r) /\ pc[r] \in Leased \ {"reread"}
    BY <1>8, <2>1 DEF Relies, LoseCall, Heartbeat, Interrupt
  <2>3. pc[r] # "forget" \/ row' = AfterRenew(row, r)
    BY <1>8, <2>1 DEF LoseCall, Heartbeat, Interrupt, Relies, LeaseAssumptions,
       Deletions
  <2>4. row' \in {row, AfterRenew(row, r), AfterUpdate(row, rec[r], Target(r))}
    BY <1>8, <2>2, <2>3 DEF LoseCall, Heartbeat, Interrupt, Outcomes, InFlight, Leased,
       Recording, Stages, Building, Tearing, Releasing
  <2> QED
    BY <1>1, <1>2, <2>1, <2>2, <2>4
<1> QED
  BY <1>3, <1>4, <1>5, <1>6, <1>7, <1>8 DEF Progress, Walk, Answered, Faults

LEMMA SameEpochInvariant == LeaseAssumptions /\ Spec => []SameEpoch
<1>1. Init => SameEpoch
  BY DEF Init, SameEpoch, Leased, Recording, Stages, Building, Tearing
<1>2. TypeOK /\ LeaseInv /\ LeaseAssumptions /\ SameEpoch /\ [Next]_vars => SameEpoch'
  <2> SUFFICES ASSUME TypeOK, LeaseInv, LeaseAssumptions, SameEpoch, [Next]_vars
               PROVE  SameEpoch'
    OBVIOUS
  <2>1. ASSUME NEW r \in Runs, Progress(r) \/ StageLands(r) \/ Faults(r)
        PROVE  SameEpoch'
    <3>1. ASSUME NEW s \in Runs \ {r}, Relies(s)', pc'[s] \in Leased \ {"reread"}
          PROVE  rec'[s].epoch = row'.epoch
      <4>1. pc[s] = pc'[s] /\ rec[s] = rec'[s] /\ Relies(s)
        BY <2>1, <3>1, StepShape DEF Relies
      <4>2. row' = row
        BY <2>1, <4>1, OthersLeaveRow
      <4> QED
        BY <3>1, <4>1, <4>2 DEF SameEpoch
    <3> QED
      BY <2>1, <3>1, OwnEpoch DEF SameEpoch
  <2>2. CASE Lapse
    BY <2>2 DEF Lapse, AfterLapse, SameEpoch, Relies, TypeOK, Row
  <2>3. CASE UNCHANGED vars
    BY <2>3 DEF vars, SameEpoch, Relies
  <2> QED
    BY <2>1, <2>2, <2>3 DEF Next, AllOver
<1>3. LeaseAssumptions /\ [Next]_vars => LeaseAssumptions'
  BY DEF LeaseAssumptions, Deletions
<1> QED
  BY <1>1, <1>2, <1>3, TypeCorrect, LeaseInvariant, PTL DEF Spec

\* Although versions start again at 1 with every new record of an ID, nothing is
\* written over a later cluster's row, as long as the lease excludes.
THEOREM NoStaleWrites == LeaseAssumptions /\ Spec => StaleWritesRejected
<1>1. TypeOK /\ LeaseInv /\ SameEpoch /\ [Next]_vars => WriteNotStale
  <2> SUFFICES ASSUME TypeOK, LeaseInv, SameEpoch, [Next]_vars,
                      Exists(row), Exists(row'), row'.phase # row.phase
               PROVE  \E r \in Runs : pc[r] = "record" /\ rec[r].epoch = row.epoch
    BY DEF WriteNotStale
  <2>1. ~Lapse /\ ~UNCHANGED vars
    BY DEF Lapse, AfterLapse, vars, TypeOK, Row
  <2>2. PICK r \in Runs : Progress(r) \/ StageLands(r) \/ Faults(r)
    BY <2>1 DEF Next, AllOver
  <2>3. Listening(r) /\ row' = InFlight(r)
    BY <2>2, StepShape DEF Outcomes, AfterRenew, TypeOK, Row
  <2>4. pc[r] = "record"
    BY <2>3 DEF InFlight, AfterInsert, AfterAcquire, AfterRenew, AfterRelease,
       AfterDelete, Exists, TypeOK, Row
  <2>5. Relies(r) /\ pc[r] \in Leased \ {"reread"}
    BY <2>3, <2>4, MoversRely DEF Leased, Recording
  <2> QED
    BY <2>4, <2>5 DEF SameEpoch
<1> QED
  BY <1>1, TypeCorrect, LeaseInvariant, SameEpochInvariant, PTL
  DEF Spec, StaleWritesRejected
=============================================================================
