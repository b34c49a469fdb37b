------------------------ MODULE OperationJournalProofs ------------------------
(***************************************************************************)
(* Proofs about OperationJournal for every bound on attempts, spawns,      *)
(* reopenings and commands.                                                *)
(***************************************************************************)
EXTENDS OperationJournal, SequenceTheorems, TLAPS

-----------------------------------------------------------------------------
(* Steps, names and the records with nothing in them. *)

ReviewStep == <<"REVIEW", 0>>
CorrectionStep == <<"CORRECTION", 0>>
ClosureStep == <<"CLOSURE", 0>>

\* A step is a role and a slot, and only an implementation has more than one.
LEMMA StepFacts ==
    /\ ReviewStep \in Steps /\ CorrectionStep \in Steps /\ ClosureStep \in Steps
    /\ NoStep \notin Steps
    /\ \A s \in Steps :
          /\ s[1] \in Roles
          /\ s[1] = "REVIEW" => s = ReviewStep
          /\ s[1] = "CORRECTION" => s = CorrectionStep
          /\ s[1] = "CLOSURE" => s = ClosureStep
<1>1. \A r \in Roles : \A n \in Slots(r) : <<r, n>> \in Steps
  BY DEF Steps
<1>2. 0 \in Slots("REVIEW") /\ 0 \in Slots("CORRECTION") /\ 0 \in Slots("CLOSURE")
  BY DEF Slots
<1>3. \A s \in Steps : \E r \in Roles : \E n \in Slots(r) : s = <<r, n>>
  BY DEF Steps
<1>4. NoStep \notin Steps
  BY <1>3 DEF NoStep, Roles
<1>5. ASSUME NEW s \in Steps
      PROVE  /\ s[1] \in Roles
             /\ s[1] = "REVIEW" => s = ReviewStep
             /\ s[1] = "CORRECTION" => s = CorrectionStep
             /\ s[1] = "CLOSURE" => s = ClosureStep
  <2>1. PICK r \in Roles : \E n \in Slots(r) : s = <<r, n>>
    BY <1>3
  <2>4. PICK n \in Slots(r) : s = <<r, n>>
    BY <2>1
  <2>2. r # "IMPLEMENTATION" => n = 0
    BY <2>4 DEF Slots
  <2>3. s[1] = r
    BY <2>4
  <2> QED BY <2>4, <2>2, <2>3 DEF ReviewStep, CorrectionStep, ClosureStep
<1> QED BY <1>1, <1>2, <1>4, <1>5 DEF Roles, ReviewStep, CorrectionStep, ClosureStep

\* The step of a role is one of the plan's steps, of that role.
LEMMA ProviderStep ==
    ASSUME TypeOK, NEW role \in Roles
    PROVE  provider_step(role) \in Steps /\ provider_step(role)[1] = role
<1>1. record.reopenings \in 0 .. MaxReopenings
  BY DEF TypeOK, RunRecords
<1>2. (IF role = "IMPLEMENTATION" THEN record.reopenings ELSE 0) \in Slots(role)
  BY <1>1, CommandAssumption DEF Slots
<1> QED BY <1>2 DEF provider_step, Steps

\* Two artifacts of one name are of one fact, of one operation and, unless they
\* belong to the operation as a whole, of one attempt.
LEMMA PathFacts ==
    ASSUME NEW s \in Steps, NEW n \in 0 .. MaxOperationAttempts, NEW fact \in Facts
    PROVE  /\ Path(s, n, fact) \in Paths
           /\ Path(s, n, fact)[1] = s /\ Path(s, n, fact)[3] = fact
           /\ fact \notin {"request", "applied"} => Path(s, n, fact)[2] = n
           /\ fact \in {"request", "applied"} => Path(s, n, fact) = Path(s, 0, fact)
BY AttemptAssumption DEF Path, Paths

\* The fields of a command record with no command.
LEMMA IdleFields ==
    /\ Idle \in ProcRecords
    /\ Idle.pc = "idle" /\ Idle.step = NoStep /\ Idle.fact = "request"
    /\ Idle.attempt = 0 /\ Idle.tries = 0 /\ Idle.results = 0
    /\ Idle.refused = FALSE /\ Idle.raw = FALSE /\ Idle.outcome = "none" /\ Idle.then = "idle"
BY AttemptAssumption DEF Idle, ProcRecords, Pcs, Facts, Contents, Absent

\* The record of an attempt that was only intended, and of an operation that was only
\* requested or is unknown.
LEMMA NewRecords ==
    /\ \A content \in Contents :
          /\ NewAttempt(content) \in AttemptRecords
          /\ NewOperation(content) \in OperationRecords
          /\ NewOperation(content).request = content
          /\ NewOperation(content).attempts = <<>>
          /\ NewOperation(content).persisted = "none"
          /\ NewOperation(content).applied = FALSE
    /\ NoOperation \in OperationRecords
    /\ NoOperation.persisted = "no request" /\ NoOperation.attempts = <<>>
    /\ NoOperation.applied = FALSE
<1>1. <<>> \in Seq(AttemptRecords) /\ Absent \in Contents
  BY EmptySeq DEF Contents
<1>2. ASSUME NEW content \in Contents PROVE NewAttempt(content) \in AttemptRecords
  BY <1>1 DEF NewAttempt, AttemptRecords
<1>3. ASSUME NEW content \in Contents
      PROVE  /\ NewOperation(content) \in OperationRecords
             /\ NewOperation(content).request = content
             /\ NewOperation(content).attempts = <<>>
             /\ NewOperation(content).persisted = "none"
             /\ NewOperation(content).applied = FALSE
  BY <1>1 DEF NewOperation, OperationRecords, Sources
<1>4. /\ NoOperation \in OperationRecords
      /\ NoOperation.persisted = "no request" /\ NoOperation.attempts = <<>>
      /\ NoOperation.applied = FALSE
  BY <1>1 DEF NoOperation, NewOperation, OperationRecords, Sources
<1> QED BY <1>2, <1>3, <1>4

\* Each role has one invoking state.
LEMMA OriginValues ==
    \A r \in Roles : Origin[r] \in Invoking /\ RoleOf(Origin[r]) = r
<1>1. /\ Origin["IMPLEMENTATION"] = "IMPLEMENTING" /\ Origin["REVIEW"] = "REVIEWING"
      /\ Origin["CORRECTION"] = "CORRECTING" /\ Origin["CLOSURE"] = "CLOSURE_VERIFYING"
  BY DEF Origin, Roles
<1> QED BY <1>1 DEF RoleOf, Invoking, Roles

\* What invokes a provider is one of four states, each of one role.
LEMMA InvokingStates ==
    /\ Invoking = {"IMPLEMENTING", "REVIEWING", "CORRECTING", "CLOSURE_VERIFYING"}
    /\ Invoking \subseteq States
    /\ \A state \in Invoking : RoleOf(state) \in Roles /\ Origin[RoleOf(state)] = state
<1>1. /\ Origin["IMPLEMENTATION"] = "IMPLEMENTING" /\ Origin["REVIEW"] = "REVIEWING"
      /\ Origin["CORRECTION"] = "CORRECTING" /\ Origin["CLOSURE"] = "CLOSURE_VERIFYING"
  BY DEF Origin, Roles
<1>2. Invoking = {"IMPLEMENTING", "REVIEWING", "CORRECTING", "CLOSURE_VERIFYING"}
  BY <1>1 DEF Invoking, Roles
<1>3. \A state \in Invoking : RoleOf(state) \in Roles /\ Origin[RoleOf(state)] = state
  BY <1>2, OriginValues DEF Invoking
<1>4. Invoking \subseteq States
  BY <1>2 DEF States, Live
<1> QED BY <1>2, <1>3, <1>4

-----------------------------------------------------------------------------
(* What a step can change. *)

\* The operations of the record change when a fact is recorded or a declared change is
\* appended, and never otherwise: a change that is an event of its own moves the run only.
LEMMA OperationsChange ==
    ASSUME [Next]_vars
    PROVE  RecordEvent \/ AppendConstituent \/ operations' = operations

<1>1. CASE OpenTorn
  BY <1>1 DEF OpenTorn, Issue
<1>2. CASE Resume
  BY <1>2 DEF Resume, Opens, Issue, At
<1>3. CASE ReopenMilestone
  BY <1>3 DEF ReopenMilestone, Recover, Declare, MoveTo, Update, Change, Opens, Issue, At,
     Raise
<1>4. CASE ReconcileMilestone
  BY <1>4 DEF ReconcileMilestone, Recover, Declare, MoveTo, Update, Change, Opens, Issue,
     At, Raise
<1>5. CASE RevalidateCorrection
  BY <1>5 DEF RevalidateCorrection, Recover, Declare, MoveTo, Update, Change, Opens, Issue,
     At, Raise
<1>6. CASE Abort
  BY <1>6 DEF Abort, Opens, Issue, At
<1>7. CASE Drive
  BY <1>7 DEF Drive, Commit, Declare, Folded, MoveTo, Update, Change, At, Publish, Raise,
     durable
<1>8. CASE EnterWait
  BY <1>8 DEF EnterWait, Commit, Declare, Folded, MoveTo, Update, Change, At, Raise
<1>9. CASE PublishRow
  BY <1>9 DEF PublishRow, Commit, Declare, Folded, MoveTo, Update, Change, Raise
<1>10. CASE BeforeSpawn
  BY <1>10 DEF BeforeSpawn, Publish, Raise, durable
<1>11. CASE ProviderRefused
  BY <1>11 DEF ProviderRefused, Commit, Declare, Folded, MoveTo, Update, Change, At, Raise
<1>12. CASE SpawnEntry
  BY <1>12 DEF SpawnEntry, Publish, Raise, durable
<1>13. CASE ProcessReturns
  BY <1>13 DEF ProcessReturns, Publish, durable
<1>14. CASE Settle
  BY <1>14 DEF Settle, Commit, Declare, Folded, MoveTo, Update, Change, Raise
<1>15. CASE Retry
  BY <1>15 DEF Retry, Commit, Declare, Folded, MoveTo, Update, Change, At, Raise
<1>16. CASE Judge
  BY <1>16 DEF Judge, Publish, durable
<1>17. CASE Accept
  BY <1>17 DEF Accept, Dispose, CanPersist, Persist, Commit, Declare, Folded, MoveTo,
     Update, Change, At, Raise, durable
<1>18. CASE Reject
  BY <1>18 DEF Reject, Dispose, CanPersist, Persist, Commit, Declare, Folded, MoveTo,
     Update, Change, At, Raise, durable
<1>19. CASE LeaveUndecided
  BY <1>19 DEF LeaveUndecided, Commit, Declare, Folded, MoveTo, Update, Change, At, Raise
<1>20. CASE AppendConstituent
  BY <1>20
<1>21. CASE WriteApplied
  BY <1>21 DEF WriteApplied
<1>22. CASE PublishArtifact
  BY <1>22 DEF PublishArtifact, Raise
<1>23. CASE RecordEvent
  BY <1>23
<1>24. CASE Crash
  BY <1>24 DEF Crash, durable
<1>25. CASE UNCHANGED vars
  BY <1>25 DEF vars, durable
<1> QED
  BY <1>1, <1>2, <1>3, <1>4, <1>5, <1>6, <1>7, <1>8, <1>9, <1>10, <1>11, <1>12, <1>13,
     <1>14, <1>15, <1>16, <1>17, <1>18, <1>19, <1>20, <1>21, <1>22, <1>23, <1>24, <1>25 DEF
     Next


\* Processes are created at the spawn entry and return to the command that waits.
LEMMA ProcessesChange ==
    ASSUME [Next]_vars
    PROVE  SpawnEntry \/ ProcessReturns \/ processes' = processes

<1>1. CASE OpenTorn
  BY <1>1 DEF OpenTorn, Issue
<1>2. CASE Resume
  BY <1>2 DEF Resume, Opens, Issue, At
<1>3. CASE ReopenMilestone
  BY <1>3 DEF ReopenMilestone, Recover, Declare, MoveTo, Update, Change, Opens, Issue, At,
     Raise
<1>4. CASE ReconcileMilestone
  BY <1>4 DEF ReconcileMilestone, Recover, Declare, MoveTo, Update, Change, Opens, Issue,
     At, Raise
<1>5. CASE RevalidateCorrection
  BY <1>5 DEF RevalidateCorrection, Recover, Declare, MoveTo, Update, Change, Opens, Issue,
     At, Raise
<1>6. CASE Abort
  BY <1>6 DEF Abort, Opens, Issue, At
<1>7. CASE Drive
  BY <1>7 DEF Drive, Commit, Declare, Folded, MoveTo, Update, Change, At, Publish, Raise,
     durable
<1>8. CASE EnterWait
  BY <1>8 DEF EnterWait, Commit, Declare, Folded, MoveTo, Update, Change, At, Raise
<1>9. CASE PublishRow
  BY <1>9 DEF PublishRow, Commit, Declare, Folded, MoveTo, Update, Change, Raise
<1>10. CASE BeforeSpawn
  BY <1>10 DEF BeforeSpawn, Publish, Raise, durable
<1>11. CASE ProviderRefused
  BY <1>11 DEF ProviderRefused, Commit, Declare, Folded, MoveTo, Update, Change, At, Raise
<1>12. CASE SpawnEntry
  BY <1>12
<1>13. CASE ProcessReturns
  BY <1>13
<1>14. CASE Settle
  BY <1>14 DEF Settle, Commit, Declare, Folded, MoveTo, Update, Change, Raise
<1>15. CASE Retry
  BY <1>15 DEF Retry, Commit, Declare, Folded, MoveTo, Update, Change, At, Raise
<1>16. CASE Judge
  BY <1>16 DEF Judge, Publish, durable
<1>17. CASE Accept
  BY <1>17 DEF Accept, Dispose, CanPersist, Persist, Commit, Declare, Folded, MoveTo,
     Update, Change, At, Raise, durable
<1>18. CASE Reject
  BY <1>18 DEF Reject, Dispose, CanPersist, Persist, Commit, Declare, Folded, MoveTo,
     Update, Change, At, Raise, durable
<1>19. CASE LeaveUndecided
  BY <1>19 DEF LeaveUndecided, Commit, Declare, Folded, MoveTo, Update, Change, At, Raise
<1>20. CASE AppendConstituent
  BY <1>20 DEF AppendConstituent, Folded, AfterConstituent
<1>21. CASE WriteApplied
  BY <1>21 DEF WriteApplied
<1>22. CASE PublishArtifact
  BY <1>22 DEF PublishArtifact, Raise
<1>23. CASE RecordEvent
  BY <1>23 DEF RecordEvent, AfterFact, Raise
<1>24. CASE Crash
  BY <1>24 DEF Crash, durable
<1>25. CASE UNCHANGED vars
  BY <1>25 DEF vars, durable
<1> QED
  BY <1>1, <1>2, <1>3, <1>4, <1>5, <1>6, <1>7, <1>8, <1>9, <1>10, <1>11, <1>12, <1>13,
     <1>14, <1>15, <1>16, <1>17, <1>18, <1>19, <1>20, <1>21, <1>22, <1>23, <1>24, <1>25 DEF
     Next


\* An artifact is written by its publication, after its transition, or when a command
\* opens the run.
LEMMA ArtifactsChange ==
    ASSUME [Next]_vars
    PROVE  \/ PublishArtifact \/ WriteApplied
           \/ artifacts' = artifacts
           \/ /\ artifacts' = Reopened /\ proc.pc = "idle"
              /\ operations' = operations
              /\ proc'.pc # "idle" => mutation = <<>>

<1>1. CASE OpenTorn
  BY <1>1 DEF OpenTorn, Issue
<1>2. CASE Resume
  BY <1>2, IdleFields DEF Resume, Opens, Issue, At
<1>3. CASE ReopenMilestone
  BY <1>3, IdleFields DEF ReopenMilestone, Recover, Declare, MoveTo, Update, Change, Opens,
     Issue, At, Raise
<1>4. CASE ReconcileMilestone
  BY <1>4, IdleFields DEF ReconcileMilestone, Recover, Declare, MoveTo, Update, Change,
     Opens, Issue, At, Raise
<1>5. CASE RevalidateCorrection
  BY <1>5, IdleFields DEF RevalidateCorrection, Recover, Declare, MoveTo, Update, Change,
     Opens, Issue, At, Raise
<1>6. CASE Abort
  BY <1>6 DEF Abort, Opens, Issue, At
<1>7. CASE Drive
  BY <1>7, IdleFields DEF Drive, Commit, Declare, Folded, MoveTo, Update, Change, At,
     Publish, Raise, durable
<1>8. CASE EnterWait
  BY <1>8, IdleFields DEF EnterWait, Commit, Declare, Folded, MoveTo, Update, Change, At,
     Raise
<1>9. CASE PublishRow
  BY <1>9, IdleFields DEF PublishRow, Commit, Declare, Folded, MoveTo, Update, Change, Raise
<1>10. CASE BeforeSpawn
  BY <1>10, IdleFields DEF BeforeSpawn, Publish, Raise, durable
<1>11. CASE ProviderRefused
  BY <1>11, IdleFields DEF ProviderRefused, Commit, Declare, Folded, MoveTo, Update, Change,
     At, Raise
<1>12. CASE SpawnEntry
  BY <1>12, IdleFields DEF SpawnEntry, Publish, Raise, durable
<1>13. CASE ProcessReturns
  BY <1>13 DEF ProcessReturns, Publish, durable
<1>14. CASE Settle
  BY <1>14, IdleFields DEF Settle, Commit, Declare, Folded, MoveTo, Update, Change, Raise
<1>15. CASE Retry
  BY <1>15, IdleFields DEF Retry, Commit, Declare, Folded, MoveTo, Update, Change, At, Raise
<1>16. CASE Judge
  BY <1>16 DEF Judge, Publish, durable
<1>17. CASE Accept
  BY <1>17, IdleFields DEF Accept, Dispose, CanPersist, Persist, Commit, Declare, Folded,
     MoveTo, Update, Change, At, Raise, durable
<1>18. CASE Reject
  BY <1>18, IdleFields DEF Reject, Dispose, CanPersist, Persist, Commit, Declare, Folded,
     MoveTo, Update, Change, At, Raise, durable
<1>19. CASE LeaveUndecided
  BY <1>19, IdleFields DEF LeaveUndecided, Commit, Declare, Folded, MoveTo, Update, Change,
     At, Raise
<1>20. CASE AppendConstituent
  BY <1>20 DEF AppendConstituent, Folded, AfterConstituent
<1>21. CASE WriteApplied
  BY <1>21
<1>22. CASE PublishArtifact
  BY <1>22
<1>23. CASE RecordEvent
  BY <1>23, IdleFields DEF RecordEvent, AfterFact, Raise
<1>24. CASE Crash
  BY <1>24, IdleFields DEF Crash, durable
<1>25. CASE UNCHANGED vars
  BY <1>25 DEF vars, durable
<1> QED
  BY <1>1, <1>2, <1>3, <1>4, <1>5, <1>6, <1>7, <1>8, <1>9, <1>10, <1>11, <1>12, <1>13,
     <1>14, <1>15, <1>16, <1>17, <1>18, <1>19, <1>20, <1>21, <1>22, <1>23, <1>24, <1>25 DEF
     Next

-----------------------------------------------------------------------------
(* The inductive invariant. *)

\* A fact of the set is being published or recorded.
Writing(facts) == proc.pc \in {"publish", "record"} /\ proc.fact \in facts

\* Where a command is, or goes on once the declared changes are appended.
Place == IF proc.pc = "emit" THEN proc.then ELSE proc.pc
Invocation == {"boundary", "row", "before_spawn", "entry", "running", "settle", "retry",
               "judge", "decide"}

IsMove(c, s) == c.kind = "move" /\ c.step = s
Settles(c) == \/ c.disposition = "REJECTED" /\ c.source # "none"
              \/ c.disposition = "ACCEPTED" /\ c.source = "VALIDATION"

\* The transition of a result follows its persistence.
Persisting ==
    /\ Len(mutation) = 2 /\ proc.step \in Steps
    /\ mutation[1].kind = "persist" /\ mutation[1].step = proc.step
    /\ CanPersist(proc.step, mutation[1].disposition, mutation[1].source)
    /\ Settles(mutation[1])
    /\ IsMove(mutation[2], proc.step)
Persisted ==
    /\ Len(mutation) = 1 /\ proc.step \in Steps /\ IsMove(mutation[1], proc.step)
    /\ operations[proc.step].persisted \in {"ACCEPTED", "REJECTED"}
Updating == Len(mutation) = 2 /\ mutation[1].kind = "update" /\ IsMove(mutation[2], NoStep)
Updated == Len(mutation) = 1 /\ IsMove(mutation[1], NoStep)

\* What an open declaration still lacks, and who works on it.
MutationFits ==
    /\ mutation # <<>> => proc.pc \in {"emit", "idle"}
    /\ proc.pc = "emit" =>
          /\ proc.then \in {"idle", "drive", "row", "judge", "retry"}
          /\ Updating \/ Updated \/ Persisting \/ Persisted
          /\ Persisting \/ Persisted => proc.then \in {"idle", "drive"}
    /\ proc.pc = "applied" => proc.step \in Steps /\ proc.then \in {"idle", "drive"}

\* An invocation is of an operation, a fact is written with its content, those of an
\* attempt under its number, and recorded when its artifact is there.
PlaceFits ==
    /\ Place \in Invocation \/ Writing(Facts) => proc.step \in Steps
    /\ Writing(Facts) => proc.fact # "applied" /\ proc.content # Absent
    /\ proc.pc \in {"entry", "running"} \/ proc.raw \/ Writing(Facts \ {"request"}) =>
          proc.attempt > 0
    /\ proc.pc = "record" =>
          artifacts[Path(proc.step, proc.attempt, proc.fact)] = proc.content

\* What the dispatch knows of its result: nothing before it is received, and then no
\* refusal.
ResultFits ==
    /\ ~(proc.raw /\ proc.refused)
    /\ proc.raw \/ Writing({"raw"}) => proc.outcome \in Verdicts
    /\ \/ Place \in {"boundary", "row", "before_spawn", "entry", "retry", "running"}
       \/ Writing(Facts \ {"validated"})
       => ~proc.raw
    /\ \/ proc.pc \in {"entry", "running"}
       \/ Writing({"intent", "receipt", "pre-spawn", "raw"})
       => ~proc.refused
    /\ Writing({"validated"}) => proc.raw

\* The facts of an attempt are a ladder: a receipt or a refusal, a result only after a
\* receipt, a verdict exactly with the validation of a result.
OnLadder(a) ==
    /\ a.receipt # Absent => a.refused = Absent
    /\ a.raw # Absent => a.receipt # Absent
    /\ a.validated # Absent => a.raw # Absent
    /\ a.verdict = NoVerdict <=> a.validated = Absent
Ladder ==
    \A s \in Steps :
        /\ Known(s) => operations[s].persisted # "no request" /\ operations[s].request # Absent
        /\ \A n \in DOMAIN Attempts(s) : OnLadder(Attempts(s)[n])

\* The last attempt is intended and nothing else is known of it.
Intended(s) ==
    /\ Known(s) /\ operations[s].persisted = "none" /\ Attempts(s) # <<>>
    /\ Last(s).receipt = Absent /\ Last(s).refused = Absent

\* A command creates a process only for the last attempt, while it is intended and has
\* none, and waits for the process of the attempt it works on.
DispatchFits ==
    /\ proc.pc = "entry" \/ Writing({"pre-spawn"}) =>
          /\ Intended(proc.step) /\ proc.attempt = Len(Attempts(proc.step))
          /\ \A p \in processes : p.step # proc.step
    /\ proc.pc = "running" \/ Writing({"receipt", "raw"}) =>
          \E p \in processes : p.step = proc.step /\ p.attempt = proc.attempt
    /\ proc.pc = "running" \/ Writing({"raw"}) =>
          /\ operations[proc.step].persisted = "none" /\ Attempts(proc.step) # <<>>
          /\ Last(proc.step).raw = Absent

\* What is or will be taken for valid was answered by a process of the operation.
Answered(s) == \E p \in processes : p.step = s /\ p.result = "answer"
AnswersFit ==
    /\ proc.outcome = "VALID" => Answered(proc.step)
    /\ \A s \in Steps : Attempts(s) # <<>> /\ Last(s).verdict = "VALID" => Answered(s)
    /\ \A s \in Steps : Accepted(s) => Answered(s)

\* Every digest the chain binds is of an artifact that is there.
Bound(s, n, fact, digest) == digest # Absent => artifacts[Path(s, n, fact)] = digest
BoundAttempt(s, n, a) ==
    /\ Bound(s, n, "intent", a.intent) /\ Bound(s, n, "receipt", a.receipt)
    /\ Bound(s, n, "pre-spawn", a.refused) /\ Bound(s, n, "raw", a.raw)
    /\ Bound(s, n, "validated", a.validated)
ArtifactsFit ==
    \A s \in Steps :
        /\ Known(s) => artifacts[Path(s, 0, "request")] = operations[s].request
        /\ \A n \in DOMAIN Attempts(s) : BoundAttempt(s, n, Attempts(s)[n])

\* The one applied receipt that may be missing is that of the transition just made.
ReceiptsFit ==
    /\ proc.pc \notin {"idle", "applied"} => Unapplied = {}
    /\ proc.pc = "applied" => Unapplied \subseteq {proc.step}

\* There is a correction only after an accepted review.
Corrects(r) == r.state \in {"NEEDS_CORRECTION", "CORRECTING"} \/ r.row.role = "CORRECTION"
CorrectionFits ==
    /\ Corrects(record) \/ proc.step = CorrectionStep \/ Accepted(CorrectionStep) =>
          Accepted(ReviewStep)
    /\ proc.pc = "emit" => \A i \in DOMAIN mutation :
          Corrects(mutation[i].after) =>
              \/ Accepted(ReviewStep)
              \/ Persisting /\ mutation[1].disposition = "ACCEPTED" /\ proc.step = ReviewStep

\* The run waits for its approval by the transition of an accepted ruling, which ends
\* the command, and a review ends there only while no correction is accepted.
Ruling ==
    /\ proc.step \in {ReviewStep, ClosureStep} /\ proc.then = "idle"
    /\ \/ Persisting /\ mutation[1].disposition = "ACCEPTED"
       \/ /\ Persisted /\ Accepted(proc.step)
          /\ proc.step = ReviewStep => ~Accepted(CorrectionStep)
GateFits ==
    /\ proc.pc = "emit" => \A i \in DOMAIN mutation :
          mutation[i].after.state = Ready => IsMove(mutation[i], proc.step) /\ Ruling
    /\ record.state = Ready =>
          /\ proc.pc \in {"idle", "applied"} /\ (proc.pc = "applied" => proc.then = "idle")
          /\ \E s \in {ReviewStep, ClosureStep} : Accepted(s) /\ operations[s].applied
          /\ Accepted(CorrectionStep) => Accepted(ClosureStep)

Inv ==
    /\ TypeOK /\ MutationFits /\ PlaceFits /\ ResultFits /\ Ladder
    /\ OneProcessPerOperation /\ DispatchFits /\ AnswersFit
    /\ ArtifactsFit /\ ReceiptsFit /\ CorrectionFits /\ GateFits

-----------------------------------------------------------------------------
(* Types. *)

\* The state of a run as its record has it.
LEMMA RecordTyped ==
    ASSUME TypeOK
    PROVE  /\ record \in RunRecords
           /\ record.state \in States /\ record.row.role \in Roles
           /\ \A state \in States : At(state) \in RunRecords
           /\ \A n \in Nat : [record EXCEPT !.results = n] \in RunRecords
           /\ \A status \in {"pending", "failed", "done"} : \A role \in Roles :
                  [record EXCEPT !.row = Row(role, status)] \in RunRecords
BY DEF TypeOK, RunRecords, At, Row

\* Changes of a typed record are typed.
LEMMA ChangeTyped ==
    /\ \A after \in RunRecords : Update(after) \in Changes
    /\ \A after \in RunRecords : \A s \in Steps \union {NoStep} : MoveTo(after, s) \in Changes
    /\ \A after \in RunRecords : \A s \in Steps :
          \A d \in {"ACCEPTED", "REJECTED"} : \A source \in Sources :
             Persist(after, s, d, source) \in Changes
BY DEF Update, MoveTo, Persist, Change, Changes, Sources

\* The next declared change, and what is left after it.
LEMMA NextChange ==
    ASSUME TypeOK, mutation # <<>>
    PROVE  /\ mutation[1] \in Changes /\ mutation[1].after \in RunRecords
           /\ Tail(mutation) \in Seq(Changes)
           /\ Len(mutation) \in Nat \ {0} /\ Len(Tail(mutation)) = Len(mutation) - 1
           /\ \A i \in 1 .. Len(Tail(mutation)) : Tail(mutation)[i] = mutation[i + 1]
<1>1. mutation \in Seq(Changes)
  BY DEF TypeOK
<1>2. Len(mutation) \in Nat \ {0}
  BY <1>1
<1>3. mutation[1] \in Changes
  BY <1>1, <1>2
<1> QED
  BY <1>1, <1>2, <1>3 DEF Changes

\* The fields of a command.
LEMMA ProcTyped ==
    ASSUME TypeOK
    PROVE  /\ proc \in ProcRecords
           /\ proc.pc \in Pcs /\ proc.then \in Pcs /\ proc.fact \in Facts
           /\ proc.content \in Contents /\ proc.attempt \in 0 .. MaxOperationAttempts
           /\ proc.tries \in Nat /\ proc.results \in Nat
           /\ proc.refused \in BOOLEAN /\ proc.raw \in BOOLEAN
           /\ proc.outcome \in Verdicts \union {"none", "refused"}
           /\ commands \in Nat
BY DEF TypeOK, ProcRecords

\* The attempts of an operation and the last of them.
LEMMA AttemptsTyped ==
    ASSUME TypeOK, NEW s \in Steps
    PROVE  /\ operations[s] \in OperationRecords
           /\ Attempts(s) \in Seq(AttemptRecords)
           /\ Len(Attempts(s)) \in 0 .. MaxOperationAttempts
           /\ DOMAIN Attempts(s) = 1 .. Len(Attempts(s))
           /\ \A n \in DOMAIN Attempts(s) : Attempts(s)[n] \in AttemptRecords
           /\ Attempts(s) # <<>> =>
                 /\ Len(Attempts(s)) \in DOMAIN Attempts(s)
                 /\ Len(Attempts(s)) > 0
                 /\ Last(s) \in AttemptRecords
           /\ Attempts(s) = <<>> => Len(Attempts(s)) = 0
<1>1. operations[s] \in OperationRecords
  BY DEF TypeOK
<1>2. Attempts(s) \in Seq(AttemptRecords)
  BY <1>1 DEF OperationRecords, Attempts
<1>3. Len(Attempts(s)) \in 0 .. MaxOperationAttempts
  BY <1>2, AttemptAssumption DEF TypeOK
<1> QED
  BY <1>1, <1>2, <1>3 DEF Last

\* The states a record is moved to.
LEMMA MoveStates ==
    /\ Live \subseteq States /\ Human \in States /\ Ready \in States
    /\ {"MILESTONE_FAILED", "REVIEWING", "NEEDS_CORRECTION", "CORRECTING", "PROVIDER_WAIT",
        "PROVIDER_RETRY_PENDING", "FOCUSED_VERIFYING", "CLOSURE_VERIFYING", "IMPLEMENTING",
        "ABORTED"} \subseteq States
    /\ \A role \in Roles : Origin[role] \in States
    /\ \A role \in Roles : AcceptedStates(role) \subseteq States
    /\ \A role \in Roles : FailedState(role) \in States
<1>1. /\ Live \subseteq States /\ Human \in States /\ Ready \in States
      /\ {"MILESTONE_FAILED", "REVIEWING", "NEEDS_CORRECTION", "CORRECTING", "PROVIDER_WAIT",
          "PROVIDER_RETRY_PENDING", "FOCUSED_VERIFYING", "CLOSURE_VERIFYING", "IMPLEMENTING",
          "ABORTED"} \subseteq States
  BY InvokingStates DEF States, Live, Excursion
<1>2. \A role \in Roles : Origin[role] \in States
  BY OriginValues, InvokingStates
<1>3. \A role \in Roles : AcceptedStates(role) \subseteq States
  BY <1>1 DEF AcceptedStates, ClosureStates, Roles
<1>4. \A role \in Roles : FailedState(role) \in States
  BY <1>1 DEF FailedState
<1> QED BY <1>1, <1>2, <1>3, <1>4


\* The folded record keeps its type.
LEMMA RecordTypeNext ==
    ASSUME Inv, Next
    PROVE  record' \in RunRecords
<1>a. TypeOK /\ MutationFits /\ PlaceFits
  BY DEF Inv
<1>b. /\ record \in RunRecords /\ record.state \in States /\ record.row.role \in Roles
      /\ \A state \in States : At(state) \in RunRecords
      /\ \A n \in Nat : [record EXCEPT !.results = n] \in RunRecords
      /\ \A status \in {"pending", "failed", "done"} : \A role \in Roles :
             [record EXCEPT !.row = Row(role, status)] \in RunRecords
  BY <1>a, RecordTyped
<1>c. proc.step \in Steps => proc.step[1] \in Roles
  BY StepFacts
<1>d. Place \in Invocation => proc.step \in Steps
  BY <1>a DEF PlaceFits

<1>1. CASE OpenTorn
  BY <1>1, <1>a, <1>b, <1>c, <1>d, MoveStates DEF OpenTorn, Issue
<1>2. CASE Resume
  BY <1>2, <1>a, <1>b, <1>c, <1>d, MoveStates DEF Resume, Opens, Issue
<1>3. CASE ReopenMilestone
  BY <1>3, <1>a, <1>b, <1>c, <1>d, MoveStates DEF ReopenMilestone, Recover, Declare, MoveTo,
     Update, Change, Opens, Issue, Raise
<1>4. CASE ReconcileMilestone
  BY <1>4, <1>a, <1>b, <1>c, <1>d, MoveStates DEF ReconcileMilestone, Recover, Declare,
     MoveTo, Update, Change, Opens, Issue, Raise
<1>5. CASE RevalidateCorrection
  BY <1>5, <1>a, <1>b, <1>c, <1>d, MoveStates DEF RevalidateCorrection, Recover, Declare,
     MoveTo, Update, Change, Opens, Issue, Raise
<1>6. CASE Abort
  BY <1>6, <1>a, <1>b, <1>c, <1>d, MoveStates DEF Abort, Opens, Issue
<1>7. CASE Drive
  BY <1>7, <1>a, <1>b, <1>c, <1>d, MoveStates DEF Drive, Commit, Declare, Folded, MoveTo,
     Update, Change, Publish, Raise, durable
<1>8. CASE EnterWait
  BY <1>8, <1>a, <1>b, <1>c, <1>d, MoveStates DEF EnterWait, Commit, Declare, Folded,
     MoveTo, Update, Change, Raise
<1>9. CASE PublishRow
  BY <1>9, <1>a, <1>b, <1>c, <1>d, MoveStates DEF PublishRow, Commit, Declare, Folded,
     MoveTo, Update, Change, Raise, Place, Invocation
<1>10. CASE BeforeSpawn
  BY <1>10, <1>a, <1>b, <1>c, <1>d, MoveStates DEF BeforeSpawn, Publish, Raise, durable
<1>11. CASE ProviderRefused
  BY <1>11, <1>a, <1>b, <1>c, <1>d, MoveStates DEF ProviderRefused, Commit, Declare, Folded,
     MoveTo, Update, Change, Raise, Place, Invocation
<1>12. CASE SpawnEntry
  BY <1>12, <1>a, <1>b, <1>c, <1>d, MoveStates DEF SpawnEntry, Publish, Raise, durable
<1>13. CASE ProcessReturns
  BY <1>13, <1>a, <1>b, <1>c, <1>d, MoveStates DEF ProcessReturns, Publish, durable
<1>14. CASE Settle
  BY <1>14, <1>a, <1>b, <1>c, <1>d, MoveStates DEF Settle, Commit, Declare, Folded, MoveTo,
     Update, Change, Raise
<1>15. CASE Retry
  BY <1>15, <1>a, <1>b, <1>c, <1>d, MoveStates DEF Retry, Commit, Declare, Folded, MoveTo,
     Update, Change, Raise, Place, Invocation
<1>16. CASE Judge
  BY <1>16, <1>a, <1>b, <1>c, <1>d, MoveStates DEF Judge, Publish, durable
<1>17. CASE Accept
  BY <1>17, <1>a, <1>b, <1>c, <1>d, MoveStates DEF Accept, Dispose, CanPersist, Persist,
     Commit, Declare, Folded, MoveTo, Update, Change, Raise, durable
<1>18. CASE Reject
  BY <1>18, <1>a, <1>b, <1>c, <1>d, MoveStates DEF Reject, Dispose, CanPersist, Persist,
     Commit, Declare, Folded, MoveTo, Update, Change, Raise, durable
<1>19. CASE LeaveUndecided
  BY <1>19, <1>a, <1>b, <1>c, <1>d, MoveStates DEF LeaveUndecided, Commit, Declare, Folded,
     MoveTo, Update, Change, Raise
<1>20. CASE AppendConstituent
  <2>1. mutation # <<>>
    BY <1>20, <1>a DEF AppendConstituent, MutationFits, Updating, Updated, Persisting, Persisted
  <2> QED BY <1>20, <2>1, <1>a, NextChange DEF AppendConstituent, Folded
<1>21. CASE WriteApplied
  BY <1>21, <1>a, <1>b, <1>c, <1>d, MoveStates DEF WriteApplied
<1>22. CASE PublishArtifact
  BY <1>22, <1>a, <1>b, <1>c, <1>d, MoveStates DEF PublishArtifact, Raise
<1>23. CASE RecordEvent
  BY <1>23, <1>a, <1>b, <1>c, <1>d, MoveStates DEF RecordEvent, AfterFact, Raise
<1>24. CASE Crash
  BY <1>24, <1>a, <1>b, <1>c, <1>d, MoveStates DEF Crash, durable
<1> QED
  BY <1>1, <1>2, <1>3, <1>4, <1>5, <1>6, <1>7, <1>8, <1>9, <1>10, <1>11, <1>12, <1>13,
     <1>14, <1>15, <1>16, <1>17, <1>18, <1>19, <1>20, <1>21, <1>22, <1>23, <1>24 DEF Next

\* What an open declaration lacks keeps its type.
LEMMA MutationTypeNext ==
    ASSUME Inv, Next
    PROVE  mutation' \in Seq(Changes)
<1>a. TypeOK /\ MutationFits /\ PlaceFits
  BY DEF Inv
<1>b. /\ record \in RunRecords /\ record.state \in States /\ record.row.role \in Roles
      /\ \A state \in States : At(state) \in RunRecords
      /\ \A n \in Nat : [record EXCEPT !.results = n] \in RunRecords
      /\ \A status \in {"pending", "failed", "done"} : \A role \in Roles :
             [record EXCEPT !.row = Row(role, status)] \in RunRecords
  BY <1>a, RecordTyped
<1>c. proc.step \in Steps => proc.step[1] \in Roles
  BY StepFacts
<1>d. Place \in Invocation => proc.step \in Steps
  BY <1>a DEF PlaceFits
<1>e. mutation \in Seq(Changes)
  BY <1>a DEF TypeOK
<1>f. /\ \A x, y \in RunRecords : <<Update(x), MoveTo(y, NoStep)>> \in Seq(Changes)
      /\ \A x, y \in RunRecords : \A s \in Steps : \A d \in {"ACCEPTED", "REJECTED"} :
            \A source \in Sources : <<Persist(x, s, d, source), MoveTo(y, s)>> \in Seq(Changes)
  <2>1. \A c, d \in Changes : <<c, d>> \in Seq(Changes)
    OBVIOUS
  <2> QED BY <2>1, ChangeTyped
<1>g. \A x \in RunRecords : \A state \in States : [x EXCEPT !.state = state] \in RunRecords
  BY DEF RunRecords

<1>1. CASE OpenTorn
  BY <1>1, <1>e DEF OpenTorn, Issue
<1>2. CASE Resume
  BY <1>2, <1>e DEF Resume, Opens, Issue
<1>3. CASE ReopenMilestone
  <2>2. /\ record.reopenings + 1 \in 0 .. MaxReopenings
        /\ At("IMPLEMENTING").reopenings = record.reopenings
    BY <1>3, <1>b, CommandAssumption DEF ReopenMilestone, RunRecords, At
  <2>3. \A x \in RunRecords : \A n \in 0 .. MaxReopenings :
           [x EXCEPT !.reopenings = n] \in RunRecords
    BY DEF RunRecords
  <2>1. [At("IMPLEMENTING") EXCEPT !.reopenings = @ + 1] \in RunRecords
    BY <2>2, <2>3, <1>b, MoveStates
  <2> QED
    BY <1>3, <2>1, <1>b, <1>e, <1>f, MoveStates DEF ReopenMilestone, Opens, Issue, Recover, Declare
<1>4. CASE ReconcileMilestone
  BY <1>4, <1>b, <1>e, <1>f, MoveStates DEF ReconcileMilestone, Opens, Issue, Recover, Declare
<1>5. CASE RevalidateCorrection
  BY <1>5, <1>b, <1>e, <1>f, MoveStates DEF RevalidateCorrection, Opens, Issue, Recover, Declare
<1>6. CASE Abort
  BY <1>6, <1>e DEF Abort, Opens, Issue
<1>7. CASE Drive
  <2>1. record.results + 1 \in Nat
    BY <1>b DEF RunRecords
  <2>2. [record EXCEPT !.results = @ + 1] \in RunRecords
    BY <2>1, <1>b
  <2>3. [At(Human) EXCEPT !.results = @ + 1] \in RunRecords
    BY <2>1, <1>b, MoveStates DEF At, RunRecords
  <2>4. \A completed \in BOOLEAN : \A state \in States :
           /\ [record EXCEPT !.results = @ + 1, !.completed = completed] \in RunRecords
           /\ [[record EXCEPT !.results = @ + 1, !.completed = completed] EXCEPT !.state = state]
                \in RunRecords
    BY <2>1, <1>b DEF RunRecords
  <2>5. CASE record.state = "FOCUSED_VERIFYING"
    <3>1. PICK state \in {"MILESTONE_FAILED", Human, "REVIEWING"} :
             LET after == [record EXCEPT !.results = @ + 1,
                                         !.completed = state # "MILESTONE_FAILED"]
             IN Commit(<<Update(after), MoveTo([after EXCEPT !.state = state], NoStep)>>,
                       IF state = "REVIEWING" THEN "drive" ELSE "idle", Idle)
      BY <1>7, <2>5, InvokingStates DEF Drive
    <3>2. state \in States /\ (state # "MILESTONE_FAILED") \in BOOLEAN
      BY MoveStates
    <3> DEFINE after == [record EXCEPT !.results = @ + 1,
                                       !.completed = state # "MILESTONE_FAILED"]
               to == [after EXCEPT !.state = state]
    <3>3. after \in RunRecords /\ to \in RunRecords
      BY <2>4, <3>2
    <3>4. Commit(<<Update(after), MoveTo(to, NoStep)>>,
                 IF state = "REVIEWING" THEN "drive" ELSE "idle", Idle)
      BY <3>1
    <3> HIDE DEF after, to
    <3>5. mutation' \in {mutation, <<Update(after), MoveTo(to, NoStep)>>}
      BY <3>4 DEF Commit, Declare
    <3> QED BY <3>3, <3>5, <1>e, <1>f
  <2>6. CASE record.state # "FOCUSED_VERIFYING"
    BY <1>7, <2>2, <2>3, <2>6, <1>e, <1>f DEF Drive, Commit, Declare, Folded, Publish, durable
  <2> QED BY <2>5, <2>6
<1>8. CASE EnterWait
  <2>1. [record EXCEPT !.results = proc.results] \in RunRecords
    BY <1>a, <1>b, ProcTyped
  <2>2. [[record EXCEPT !.results = proc.results] EXCEPT !.state = "PROVIDER_WAIT"] \in RunRecords
    BY <2>1, <1>g, MoveStates
  <2> QED
    BY <1>8, <2>1, <2>2, <1>e, <1>f DEF EnterWait, Commit, Declare, Folded
<1>9. CASE PublishRow
  BY <1>9, <1>e DEF PublishRow, Commit, Declare, Folded, Raise
<1>10. CASE BeforeSpawn
  BY <1>10, <1>e DEF BeforeSpawn, Publish, Raise, durable
<1>11. CASE ProviderRefused
  BY <1>11, <1>e DEF ProviderRefused, Commit, Declare, Folded, Raise
<1>12. CASE SpawnEntry
  BY <1>12, <1>e DEF SpawnEntry, Publish, Raise, durable
<1>13. CASE ProcessReturns
  BY <1>13, <1>e DEF ProcessReturns, Publish, durable
<1>14. CASE Settle
  <2>1. [record EXCEPT !.row = CompletedRow] \in RunRecords
    BY <1>14, <1>b, <1>c, <1>d DEF Settle, CompletedRow, Place, Invocation
  <2>2. \A state \in States :
           [[record EXCEPT !.row = CompletedRow] EXCEPT !.state = state] \in RunRecords
    BY <2>1, <1>g
  <2>3. proc.step[1] \in Roles
    BY <1>14, <1>c, <1>d DEF Settle, Place, Invocation
  <2> DEFINE after == [record EXCEPT !.row = CompletedRow]
             Changed(state) == <<Update(after), MoveTo([after EXCEPT !.state = state], NoStep)>>
  <2>4. mutation' \in {mutation, Changed("PROVIDER_RETRY_PENDING"), Changed(Origin[proc.step[1]])}
    <3>1. \/ Commit(Changed("PROVIDER_RETRY_PENDING"), "retry", [proc EXCEPT !.tries = @ + 1])
          \/ Commit(Changed(Origin[proc.step[1]]), "judge", proc)
      BY <1>14 DEF Settle
    <3> QED BY <3>1 DEF Commit, Declare
  <2> QED BY <2>1, <2>2, <2>3, <2>4, <1>e, <1>f, MoveStates
<1>15. CASE Retry
  BY <1>15, <1>e DEF Retry, Commit, Declare, Folded, Raise
<1>16. CASE Judge
  BY <1>16, <1>e DEF Judge, Publish, durable
<1>17. CASE Accept
  <2>1. proc.step \in Steps /\ proc.step[1] \in Roles
    BY <1>17, <1>c, <1>d DEF Accept, Place, Invocation
  <2>2. "VALIDATION" \in Sources
    BY DEF Sources
  <2>3. PICK state \in AcceptedStates(proc.step[1]) : Dispose("ACCEPTED", "VALIDATION", state)
    BY <1>17 DEF Accept
  <2>4. state \in States
    BY <2>1, MoveStates
  <2>5. mutation' \in {mutation, <<Persist(record, proc.step, "ACCEPTED", "VALIDATION"),
                                   MoveTo(At(state), proc.step)>>}
    BY <2>3 DEF Dispose, Commit, Declare, durable
  <2> QED BY <2>1, <2>2, <2>4, <2>5, <1>b, <1>e, <1>f
<1>18. CASE Reject
  <2>1. proc.step \in Steps /\ proc.step[1] \in Roles
    BY <1>18, <1>c, <1>d DEF Reject, Place, Invocation
  <2>2. RejectionSource \in Sources
    BY <1>a, ProcTyped DEF RejectionSource, Sources
  <2> DEFINE state == FailedState(proc.step[1])
  <2>3. Dispose("REJECTED", RejectionSource, state)
    BY <1>18 DEF Reject
  <2>4. state \in States
    BY <2>1, MoveStates
  <2> HIDE DEF state
  <2>5. mutation' \in {mutation, <<Persist(record, proc.step, "REJECTED", RejectionSource),
                                   MoveTo(At(state), proc.step)>>}
    BY <2>3 DEF Dispose, Commit, Declare, durable
  <2> QED BY <2>1, <2>2, <2>4, <2>5, <1>b, <1>e, <1>f
<1>19. CASE LeaveUndecided
  BY <1>19, <1>e DEF LeaveUndecided, Commit, Declare, Folded, Raise
<1>20. CASE AppendConstituent
  <2>1. mutation # <<>>
    BY <1>20, <1>a DEF AppendConstituent, MutationFits, Updating, Updated, Persisting, Persisted
  <2> QED BY <1>20, <2>1, <1>a, NextChange DEF AppendConstituent
<1>21. CASE WriteApplied
  BY <1>21, <1>e DEF WriteApplied
<1>22. CASE PublishArtifact
  BY <1>22, <1>e DEF PublishArtifact, Raise
<1>23. CASE RecordEvent
  BY <1>23, <1>e DEF RecordEvent, AfterFact, Raise
<1>24. CASE Crash
  BY <1>24, <1>e DEF Crash, durable
<1> QED
  BY <1>1, <1>2, <1>3, <1>4, <1>5, <1>6, <1>7, <1>8, <1>9, <1>10, <1>11, <1>12, <1>13,
     <1>14, <1>15, <1>16, <1>17, <1>18, <1>19, <1>20, <1>21, <1>22, <1>23, <1>24 DEF Next

\* The number of commands is bounded.
LEMMA CommandsNext ==
    ASSUME Inv, Next
    PROVE  commands' \in 0 .. MaxCommands
<1>a. commands \in 0 .. MaxCommands /\ commands \in Nat
  BY CommandAssumption DEF Inv, TypeOK
<1>1. ASSUME Issue PROVE commands' \in 0 .. MaxCommands
  BY <1>1, <1>a, CommandAssumption DEF Issue
<1>2. Issue \/ commands' = commands
  BY DEF Next, OpenTorn, Resume, ReopenMilestone, ReconcileMilestone, RevalidateCorrection, Abort,
         Opens, Drive, EnterWait, PublishRow, BeforeSpawn, ProviderRefused, SpawnEntry,
         ProcessReturns, Settle, Retry, Judge, Accept, Reject, LeaveUndecided, AppendConstituent,
         WriteApplied, PublishArtifact, RecordEvent, Crash
<1> QED BY <1>1, <1>2, <1>a

\* A command keeps its type.
LEMMA ProcTypeNext ==
    ASSUME Inv, Next
    PROVE  proc' \in ProcRecords
<1>a. TypeOK /\ MutationFits /\ PlaceFits
  BY DEF Inv
<1>b. proc \in ProcRecords /\ commands \in Nat
  BY <1>a, CommandAssumption DEF TypeOK
<1>g. record.results \in Nat /\ record.results + 1 \in Nat
  BY <1>a DEF TypeOK, RunRecords

<1>1. CASE OpenTorn
  BY <1>1, <1>b DEF OpenTorn, ProcRecords, Pcs, Facts, Contents, Verdicts, Issue
<1>2. CASE Resume
  BY <1>2, IdleFields, <1>b DEF Resume, ProcRecords, Pcs, Facts, Contents, Verdicts, Opens,
     Issue
<1>3. CASE ReopenMilestone
  <2>1. proc' \in {Idle, [Idle EXCEPT !.pc = "emit", !.then = "idle"]}
    BY <1>3 DEF ReopenMilestone, Opens, Issue, Recover, Declare, Raise
  <2>51. [Idle EXCEPT !.pc = "emit", !.then = "idle"] \in ProcRecords
    BY IdleFields DEF ProcRecords, Pcs
  <2> QED BY <2>1, <2>51, <1>b, IdleFields
<1>4. CASE ReconcileMilestone
  <2>1. proc' \in {Idle, [Idle EXCEPT !.pc = "emit", !.then = "idle"]}
    BY <1>4 DEF ReconcileMilestone, Opens, Issue, Recover, Declare, Raise
  <2>51. [Idle EXCEPT !.pc = "emit", !.then = "idle"] \in ProcRecords
    BY IdleFields DEF ProcRecords, Pcs
  <2> QED BY <2>1, <2>51, <1>b, IdleFields
<1>5. CASE RevalidateCorrection
  <2>1. proc' \in {Idle, [Idle EXCEPT !.pc = "emit", !.then = "idle"]}
    BY <1>5 DEF RevalidateCorrection, Opens, Issue, Recover, Declare, Raise
  <2>51. [Idle EXCEPT !.pc = "emit", !.then = "idle"] \in ProcRecords
    BY IdleFields DEF ProcRecords, Pcs
  <2> QED BY <2>1, <2>51, <1>b, IdleFields
<1>6. CASE Abort
  BY <1>6, <1>b DEF Abort, ProcRecords, Pcs, Facts, Contents, Verdicts, Opens, Issue
<1>7. CASE Drive
  <2>1. ASSUME NEW role \in Roles, NEW results \in Nat,
               Publish("request", results,
                       [Idle EXCEPT !.step = provider_step(role), !.results = results])
        PROVE  proc' \in ProcRecords
    BY <2>1, <1>a, IdleFields, ProviderStep DEF Publish, ProcRecords, Pcs, Facts, Contents
  <2>2. "CLOSURE" \in Roles
    BY DEF Roles
  <2>3. record.state \in Invoking => RoleOf(record.state) \in Roles
    BY InvokingStates
  <2>4. (IF RoleOf(record.state) = "IMPLEMENTATION" THEN 0 ELSE record.results) \in Nat
    BY <1>g
  <2>5. ASSUME NEW pc \in {"idle", "drive"},
               \/ proc' = [Idle EXCEPT !.pc = pc]
               \/ proc' = [Idle EXCEPT !.pc = "emit", !.then = pc]
               \/ proc' = Idle
        PROVE  proc' \in ProcRecords
    BY <2>5, IdleFields DEF ProcRecords, Pcs
  <2>6. \/ \E pc \in {"idle", "drive"} :
              \/ proc' = [Idle EXCEPT !.pc = pc]
              \/ proc' = [Idle EXCEPT !.pc = "emit", !.then = pc]
              \/ proc' = Idle
        \/ record.state \in Invoking /\ Publish("request",
              IF RoleOf(record.state) = "IMPLEMENTATION" THEN 0 ELSE record.results,
              [Idle EXCEPT !.step = provider_step(RoleOf(record.state)),
                           !.results = IF RoleOf(record.state) = "IMPLEMENTATION" THEN 0
                                       ELSE record.results])
        \/ Publish("request", record.results + 1,
                   [Idle EXCEPT !.step = provider_step("CLOSURE"), !.results = record.results + 1])
    BY <1>7 DEF Drive, Commit, Declare, Raise
  <2> QED BY <2>1, <2>2, <2>3, <2>4, <2>5, <2>6, <1>g
<1>8. CASE EnterWait
  <2>1. proc' \in {Idle, [Idle EXCEPT !.pc = "idle"], [proc EXCEPT !.pc = "row"],
                   [proc EXCEPT !.pc = "emit", !.then = "row"]}
    BY <1>8 DEF EnterWait, Commit, Declare, Raise
  <2>51. [Idle EXCEPT !.pc = "idle"] \in ProcRecords
    BY IdleFields DEF ProcRecords, Pcs
  <2>52. [proc EXCEPT !.pc = "row"] \in ProcRecords
    BY <1>b DEF ProcRecords, Pcs
  <2>53. [proc EXCEPT !.pc = "emit", !.then = "row"] \in ProcRecords
    BY <1>b DEF ProcRecords, Pcs
  <2> QED BY <2>1, <2>51, <2>52, <2>53, <1>b, IdleFields
<1>9. CASE PublishRow
  BY <1>9, IdleFields, <1>b DEF PublishRow, ProcRecords, Pcs, Facts, Contents, Verdicts,
     Commit, Declare, Raise
<1>10. CASE BeforeSpawn
  <2>1. proc.step \in Steps
    BY <1>10, <1>a DEF BeforeSpawn, PlaceFits, Place, Invocation
  <2>2. InBound(Len(Attempts(proc.step)) + 1) =>
           Len(Attempts(proc.step)) + 1 \in 0 .. MaxOperationAttempts
    BY <1>a, <2>1, AttemptsTyped, AttemptAssumption DEF InBound
  <2> DEFINE attempt == Len(Attempts(proc.step)) + 1
             next == [proc EXCEPT !.attempt = attempt, !.refused = FALSE, !.raw = FALSE]
  <2>3. \/ proc' = Idle
        \/ InBound(attempt) /\ proc' = [next EXCEPT !.pc = "publish", !.fact = "intent",
                                                    !.content = commands]
    BY <1>10 DEF BeforeSpawn, Publish, Raise
  <2>4. InBound(attempt) => next \in ProcRecords
    <3> HIDE DEF attempt
    <3> QED BY <2>2, <1>b DEF ProcRecords, attempt
  <2> HIDE DEF next
  <2>5. InBound(attempt) =>
           [next EXCEPT !.pc = "publish", !.fact = "intent", !.content = commands] \in ProcRecords
    BY <2>4, <1>b DEF ProcRecords, Pcs, Facts, Contents
  <2> QED BY <2>3, <2>5, IdleFields
<1>11. CASE ProviderRefused
  <2> DEFINE next == [proc EXCEPT !.outcome = "refused"]
  <2>1. next \in ProcRecords
    BY <1>b DEF ProcRecords, Verdicts
  <2>2. proc' \in {Idle, [next EXCEPT !.pc = "judge"], [next EXCEPT !.pc = "emit", !.then = "judge"]}
    BY <1>11 DEF ProviderRefused, Commit, Declare, Raise
  <2> HIDE DEF next
  <2>51. [next EXCEPT !.pc = "judge"] \in ProcRecords
    BY <2>1 DEF ProcRecords, Pcs
  <2>52. [next EXCEPT !.pc = "emit", !.then = "judge"] \in ProcRecords
    BY <2>1 DEF ProcRecords, Pcs
  <2> QED BY <2>2, <2>51, <2>52, <1>b, IdleFields
<1>12. CASE SpawnEntry
  <2> DEFINE next == [proc EXCEPT !.outcome = "EXECUTION_FAILED"]
  <2>1. next \in ProcRecords
    BY <1>b DEF ProcRecords, Verdicts
  <2>2. proc' \in {Idle,
                   [proc EXCEPT !.pc = "publish", !.fact = "receipt", !.content = commands],
                   [next EXCEPT !.pc = "publish", !.fact = "pre-spawn", !.content = commands]}
    BY <1>12 DEF SpawnEntry, Publish, Raise
  <2> HIDE DEF next
  <2>51. [proc EXCEPT !.pc = "publish", !.fact = "receipt", !.content = commands] \in ProcRecords
    BY <1>b DEF ProcRecords, Pcs, Facts, Contents
  <2>52. [next EXCEPT !.pc = "publish", !.fact = "pre-spawn", !.content = commands] \in ProcRecords
    BY <2>1, <1>b DEF ProcRecords, Pcs, Facts, Contents
  <2> QED BY <2>2, <2>51, <2>52, <1>b, IdleFields
<1>13. CASE ProcessReturns
  <2>1. \A result \in Results : Verdict(result) \in Verdicts
    BY DEF Verdict, Results, Verdicts
  <2> QED BY <1>13, <2>1, <1>b DEF ProcessReturns, Publish, ProcRecords, Pcs, Facts, Contents
<1>14. CASE Settle
  <2> DEFINE next == [proc EXCEPT !.tries = @ + 1]
  <2>1. next \in ProcRecords
    BY <1>b DEF ProcRecords, Verdicts
  <2>2. proc' \in {Idle, [next EXCEPT !.pc = "retry"], [next EXCEPT !.pc = "emit", !.then = "retry"],
                   [proc EXCEPT !.pc = "judge"], [proc EXCEPT !.pc = "emit", !.then = "judge"]}
    BY <1>14 DEF Settle, Commit, Declare, Raise
  <2> HIDE DEF next
  <2>51. [next EXCEPT !.pc = "retry"] \in ProcRecords
    BY <2>1 DEF ProcRecords, Pcs
  <2>52. [next EXCEPT !.pc = "emit", !.then = "retry"] \in ProcRecords
    BY <2>1 DEF ProcRecords, Pcs
  <2>53. [proc EXCEPT !.pc = "judge"] \in ProcRecords
    BY <1>b DEF ProcRecords, Pcs
  <2>54. [proc EXCEPT !.pc = "emit", !.then = "judge"] \in ProcRecords
    BY <1>b DEF ProcRecords, Pcs
  <2> QED BY <2>2, <2>51, <2>52, <2>53, <2>54, <1>b, IdleFields
<1>15. CASE Retry
  BY <1>15, IdleFields, <1>b DEF Retry, ProcRecords, Pcs, Facts, Contents, Verdicts, Commit,
     Declare, Raise
<1>16. CASE Judge
  <2>1. proc' \in {[proc EXCEPT !.pc = "publish", !.fact = "validated", !.content = commands],
                   [proc EXCEPT !.pc = "decide"]}
    BY <1>16 DEF Judge, Publish
  <2>51. [proc EXCEPT !.pc = "publish", !.fact = "validated", !.content = commands] \in ProcRecords
    BY <1>b DEF ProcRecords, Pcs, Facts, Contents
  <2>52. [proc EXCEPT !.pc = "decide"] \in ProcRecords
    BY <1>b DEF ProcRecords, Pcs
  <2> QED BY <2>1, <2>51, <2>52, <1>b, IdleFields
<1>17. CASE Accept
  <2>1. proc.step \in Steps
    BY <1>17, <1>a DEF Accept, PlaceFits, Place, Invocation
  <2>2. PICK state : Dispose("ACCEPTED", "VALIDATION", state)
    BY <1>17 DEF Accept
  <2>3. [Idle EXCEPT !.step = proc.step] \in ProcRecords
    BY <2>1, IdleFields DEF ProcRecords
  <2> DEFINE idle == [Idle EXCEPT !.step = proc.step]
  <2>4. proc' \in {proc, Idle, [idle EXCEPT !.pc = "drive"], [idle EXCEPT !.pc = "idle"],
                   [idle EXCEPT !.pc = "emit", !.then = "drive"],
                   [idle EXCEPT !.pc = "emit", !.then = "idle"]}
    BY <2>2 DEF Dispose, Commit, Declare, Raise, durable
  <2>5. idle \in ProcRecords
    BY <2>3
  <2> HIDE DEF idle
  <2>6. [idle EXCEPT !.pc = "drive"] \in ProcRecords /\ [idle EXCEPT !.pc = "idle"] \in ProcRecords
    BY <2>5 DEF ProcRecords, Pcs
  <2>7. /\ [idle EXCEPT !.pc = "emit", !.then = "drive"] \in ProcRecords
        /\ [idle EXCEPT !.pc = "emit", !.then = "idle"] \in ProcRecords
    BY <2>5 DEF ProcRecords, Pcs
  <2> QED BY <2>4, <2>6, <2>7, <1>b, IdleFields
<1>18. CASE Reject
  <2>1. proc.step \in Steps
    BY <1>18, <1>a DEF Reject, PlaceFits, Place, Invocation
  <2>2. PICK state : Dispose("REJECTED", RejectionSource, state)
    BY <1>18 DEF Reject
  <2>3. [Idle EXCEPT !.step = proc.step] \in ProcRecords
    BY <2>1, IdleFields DEF ProcRecords
  <2> DEFINE idle == [Idle EXCEPT !.step = proc.step]
  <2>4. proc' \in {proc, Idle, [idle EXCEPT !.pc = "drive"], [idle EXCEPT !.pc = "idle"],
                   [idle EXCEPT !.pc = "emit", !.then = "drive"],
                   [idle EXCEPT !.pc = "emit", !.then = "idle"]}
    BY <2>2 DEF Dispose, Commit, Declare, Raise, durable
  <2>5. idle \in ProcRecords
    BY <2>3
  <2> HIDE DEF idle
  <2>6. [idle EXCEPT !.pc = "drive"] \in ProcRecords /\ [idle EXCEPT !.pc = "idle"] \in ProcRecords
    BY <2>5 DEF ProcRecords, Pcs
  <2>7. /\ [idle EXCEPT !.pc = "emit", !.then = "drive"] \in ProcRecords
        /\ [idle EXCEPT !.pc = "emit", !.then = "idle"] \in ProcRecords
    BY <2>5 DEF ProcRecords, Pcs
  <2> QED BY <2>4, <2>6, <2>7, <1>b, IdleFields
<1>19. CASE LeaveUndecided
  BY <1>19, IdleFields, <1>b DEF LeaveUndecided, ProcRecords, Pcs, Facts, Contents,
     Verdicts, Commit, Declare, Raise
<1>20. CASE AppendConstituent
  <2>1. AfterConstituent(mutation[1]) \in Pcs
    BY <1>b DEF AfterConstituent, ProcRecords, Pcs
  <2>2. PICK pc \in Pcs :
           proc' = [proc EXCEPT !.pc = pc,
                                !.then = IF pc \in {"emit", "applied"} THEN @ ELSE "idle"]
    BY <1>20, <2>1 DEF AppendConstituent
  <2> QED BY <2>2, <1>b DEF ProcRecords, Pcs
<1>21. CASE WriteApplied
  BY <1>21, IdleFields, <1>b DEF WriteApplied, ProcRecords, Pcs, Facts, Contents, Verdicts
<1>22. CASE PublishArtifact
  BY <1>22, IdleFields, <1>b DEF PublishArtifact, ProcRecords, Pcs, Facts, Contents,
     Verdicts, Raise
<1>23. CASE RecordEvent
  <2>1. proc.fact # "applied"
    BY <1>23, <1>a, <1>b DEF RecordEvent, PlaceFits, Writing, ProcRecords
  <2>2. AfterFact(proc.fact) \in ProcRecords
    BY <1>b, <2>1 DEF AfterFact, ProcRecords, Facts, Pcs
  <2> QED BY <1>23, <2>2, <1>b, IdleFields DEF RecordEvent, Raise
<1>24. CASE Crash
  BY <1>24, IdleFields, <1>b DEF Crash, ProcRecords, Pcs, Facts, Contents, Verdicts, durable
<1> QED
  BY <1>1, <1>2, <1>3, <1>4, <1>5, <1>6, <1>7, <1>8, <1>9, <1>10, <1>11, <1>12, <1>13,
     <1>14, <1>15, <1>16, <1>17, <1>18, <1>19, <1>20, <1>21, <1>22, <1>23, <1>24 DEF Next

-----------------------------------------------------------------------------
(* What recording a fact and appending a change do to the operations. *)

\* The contents of an artifact that is written is a number.
LEMMA ContentTyped ==
    ASSUME Inv, Writing(Facts)
    PROVE  /\ proc.content \in Nat /\ proc.content # Absent /\ proc.step \in Steps
           /\ proc.fact \in Facts \ {"applied"} /\ proc.attempt \in 0 .. MaxOperationAttempts
BY ProcTyped DEF Inv, PlaceFits, Contents, Absent, Writing

\* A recorded fact is of the operation worked on, and leaves every other as it is.
LEMMA RecordedStep ==
    ASSUME Inv, RecordEvent, operations' # operations
    PROVE  /\ proc.step \in Steps /\ proc' = AfterFact(proc.fact) /\ Writing(Facts)
           /\ Admits(proc.step, proc.attempt, proc.fact, proc.content)
           /\ \A t \in Steps : t # proc.step => operations'[t] = operations[t]
           /\ operations' \in [Steps -> {operations'[t] : t \in Steps}]
           /\ proc.fact = "request" =>
                 ~Known(proc.step) /\ operations'[proc.step] = NewOperation(proc.content)
           /\ proc.fact # "request" =>
                 /\ Known(proc.step) /\ operations[proc.step].persisted = "none"
                 /\ operations'[proc.step] =
                      [operations[proc.step] EXCEPT !.attempts = operations'[proc.step].attempts]
<1>1. Writing(Facts)
  BY ProcTyped DEF RecordEvent, Writing, Inv
<1>2. /\ proc.step \in Steps /\ proc.fact \in Facts \ {"applied"}
  BY <1>1, ContentTyped
<1>3. /\ Admits(proc.step, proc.attempt, proc.fact, proc.content)
      /\ operations' = Recorded(proc.step, proc.attempt, proc.fact, proc.content, proc.outcome)
      /\ proc' = AfterFact(proc.fact)
  BY DEF RecordEvent
<1>4. DOMAIN operations = Steps /\ operations[proc.step] \in OperationRecords
  BY <1>2 DEF Inv, TypeOK
<1>5. /\ \A t \in Steps : t # proc.step => operations'[t] = operations[t]
      /\ operations' \in [Steps -> {operations'[t] : t \in Steps}]
  BY <1>2, <1>3, <1>4 DEF Recorded, Facts, Inv, TypeOK
<1>6. proc.fact = "request" =>
          ~Known(proc.step) /\ operations'[proc.step] = NewOperation(proc.content)
  BY <1>2, <1>3, <1>4 DEF Recorded
<1>7. proc.fact # "request" => Known(proc.step) /\ operations[proc.step].persisted = "none"
  BY <1>3 DEF Admits
<1>8. proc.fact # "request" =>
         operations'[proc.step] =
             [operations[proc.step] EXCEPT !.attempts = operations'[proc.step].attempts]
  <2>1. CASE proc.fact = "intent"
    BY <2>1, <1>2, <1>3, <1>4 DEF Recorded, OperationRecords
  <2>2. CASE proc.fact = "receipt"
    BY <2>2, <1>2, <1>3, <1>4 DEF Recorded, OperationRecords
  <2>3. CASE proc.fact = "pre-spawn"
    BY <2>3, <1>2, <1>3, <1>4 DEF Recorded, OperationRecords
  <2>4. CASE proc.fact = "raw"
    BY <2>4, <1>2, <1>3, <1>4 DEF Recorded, OperationRecords
  <2>5. CASE proc.fact = "validated"
    <3> DEFINE between ==
                 [operations EXCEPT ![proc.step].attempts[proc.attempt].validated = proc.content]
    <3>1. operations' = [between EXCEPT ![proc.step].attempts[proc.attempt].verdict = proc.outcome]
      BY <2>5, <1>3 DEF Recorded
    <3>2. /\ DOMAIN between = Steps
          /\ between[proc.step] =
                [operations[proc.step] EXCEPT !.attempts = between[proc.step].attempts]
      BY <1>2, <1>4 DEF OperationRecords
    <3> HIDE DEF between
    <3>3. operations'[proc.step] =
             [between[proc.step] EXCEPT !.attempts = operations'[proc.step].attempts]
      BY <3>1, <3>2, <1>2, <1>4 DEF OperationRecords
    <3> QED BY <3>2, <3>3, <1>2, <1>4 DEF OperationRecords
  <2> QED BY <2>1, <2>2, <2>3, <2>4, <2>5, <1>2 DEF Facts
<1> QED BY <1>1, <1>2, <1>3, <1>5, <1>6, <1>7, <1>8

\* The attempt after a fact of its own.
After(a, fact, content, verdict) ==
    CASE fact = "receipt" -> [a EXCEPT !.receipt = content]
      [] fact = "pre-spawn" -> [a EXCEPT !.refused = content]
      [] fact = "raw" -> [a EXCEPT !.raw = content]
      [] fact = "validated" -> [a EXCEPT !.validated = content, !.verdict = verdict]

\* An intent is a new last attempt; any other fact is one of the last attempt.
LEMMA RecordedAttempt ==
    ASSUME Inv, RecordEvent, operations' # operations, proc.fact # "request"
    PROVE  /\ proc.fact = "intent" =>
                 /\ proc.attempt = Len(Attempts(proc.step)) + 1
                 /\ Attempts(proc.step) # <<>> => Last(proc.step).refused # Absent
                 /\ operations'[proc.step].attempts = Append(Attempts(proc.step), NewAttempt(proc.content))
           /\ proc.fact # "intent" =>
                 /\ Attempts(proc.step) # <<>> /\ proc.attempt = Len(Attempts(proc.step))
                 /\ operations'[proc.step].attempts =
                      [Attempts(proc.step) EXCEPT ![proc.attempt] =
                          After(Last(proc.step), proc.fact, proc.content, proc.outcome)]
                 /\ proc.fact \in {"receipt", "pre-spawn"} =>
                       Last(proc.step).receipt = Absent /\ Last(proc.step).refused = Absent
                 /\ proc.fact = "raw" =>
                       Last(proc.step).receipt # Absent /\ Last(proc.step).raw = Absent
                 /\ proc.fact = "validated" =>
                       Last(proc.step).raw # Absent /\ Last(proc.step).validated = Absent
<1>1. /\ proc.step \in Steps /\ proc' = AfterFact(proc.fact) /\ Writing(Facts)
      /\ Admits(proc.step, proc.attempt, proc.fact, proc.content)
  BY RecordedStep
<1>2. proc.fact \in Facts \ {"applied", "request"}
  BY <1>1, ContentTyped
<1>3. operations' = Recorded(proc.step, proc.attempt, proc.fact, proc.content, proc.outcome)
  BY DEF RecordEvent
<1>4. DOMAIN operations = Steps /\ operations[proc.step] \in OperationRecords
  BY <1>1 DEF Inv, TypeOK
<1>p. Attempts(proc.step) = operations[proc.step].attempts
  BY DEF Attempts
<1>5. CASE proc.fact = "intent"
  <2>1. operations'[proc.step].attempts = Append(Attempts(proc.step), NewAttempt(proc.content))
    BY <1>1, <1>3, <1>4, <1>5, <1>p DEF Recorded, OperationRecords
  <2> QED BY <1>1, <1>5, <2>1 DEF Admits, MayIntend
<1>6. CASE proc.fact # "intent"
  <2>1. Attempts(proc.step) # <<>> /\ proc.attempt = Len(Attempts(proc.step))
    BY <1>1, <1>2, <1>6 DEF Admits
  <2>2. /\ proc.attempt \in DOMAIN Attempts(proc.step)
        /\ Last(proc.step) = Attempts(proc.step)[proc.attempt]
    BY <2>1, <1>1, AttemptsTyped DEF Inv, Last
  <2>3. operations'[proc.step].attempts =
          [Attempts(proc.step) EXCEPT ![proc.attempt] =
              After(Last(proc.step), proc.fact, proc.content, proc.outcome)]
    <3>1. CASE proc.fact = "receipt"
      BY <3>1, <2>2, <1>1, <1>3, <1>4, <1>p DEF Recorded, OperationRecords, After
    <3>2. CASE proc.fact = "pre-spawn"
      BY <3>2, <2>2, <1>1, <1>3, <1>4, <1>p DEF Recorded, OperationRecords, After
    <3>3. CASE proc.fact = "raw"
      BY <3>3, <2>2, <1>1, <1>3, <1>4, <1>p DEF Recorded, OperationRecords, After
    <3>4. CASE proc.fact = "validated"
      BY <3>4, <2>2, <1>1, <1>3, <1>4, <1>p DEF Recorded, OperationRecords, After
    <3> QED BY <3>1, <3>2, <3>3, <3>4, <1>2, <1>6 DEF Facts
  <2> QED BY <1>1, <1>2, <1>6, <2>1, <2>3 DEF Admits, Facts
<1> QED BY <1>5, <1>6

\* Where a command goes on once a fact is durable, and with what.
LEMMA AfterFactFields ==
    ASSUME Inv, proc.fact \in Facts \ {"applied"}
    PROVE  LET next == AfterFact(proc.fact) IN
           /\ next.step = proc.step /\ next.attempt = proc.attempt /\ next.outcome = proc.outcome
           /\ next.fact = proc.fact /\ next.content = proc.content
           /\ next.refused = (proc.refused \/ proc.fact = "pre-spawn")
           /\ next.raw = (proc.raw \/ proc.fact = "raw")
           /\ proc.fact = "request" => next.pc = "boundary"
           /\ proc.fact = "intent" => next.pc = "entry"
           /\ proc.fact = "receipt" => next.pc = "running"
           /\ proc.fact \in {"pre-spawn", "raw"} => next.pc = "settle"
           /\ proc.fact = "validated" => next.pc = "decide"
<1>1. proc \in ProcRecords
  BY DEF Inv, TypeOK
<1>2. CASE proc.fact \in {"request", "intent", "receipt"}
  BY <1>1, <1>2 DEF AfterFact, ProcRecords
<1>3. CASE proc.fact = "pre-spawn"
  BY <1>1, <1>3 DEF AfterFact, ProcRecords
<1>4. CASE proc.fact = "raw"
  BY <1>1, <1>4 DEF AfterFact, ProcRecords
<1>5. CASE proc.fact = "validated"
  BY <1>1, <1>5 DEF AfterFact, ProcRecords
<1> QED BY <1>2, <1>3, <1>4, <1>5 DEF Facts

\* A persistence settles the operation it is of, the transition of its result marks it
\* applied, and any other change leaves the operations alone.
LEMMA AppendedChange ==
    ASSUME Inv, AppendConstituent
    PROVE  /\ mutation # <<>> /\ record' = mutation[1].after
           /\ Updating \/ Updated => operations' = operations
           /\ Persisting => operations' = [operations EXCEPT ![proc.step].persisted =
                                                                 mutation[1].disposition,
                                                             ![proc.step].grounds =
                                                                 mutation[1].source]
           /\ Persisted => operations' = [operations EXCEPT ![proc.step].applied = TRUE]
           /\ Updating \/ Updated \/ Persisting \/ Persisted
<1>1. Updating \/ Updated \/ Persisting \/ Persisted
  BY DEF Inv, MutationFits, AppendConstituent
<1>2. mutation # <<>> /\ Folded(mutation[1])
  BY <1>1 DEF Updating, Updated, Persisting, Persisted, AppendConstituent
<1>3. NoStep \notin Steps
  BY StepFacts
<1> QED
  BY <1>1, <1>2, <1>3 DEF Folded, Updating, Updated, Persisting, Persisted, IsMove

-----------------------------------------------------------------------------
(* The operations keep their types and the ladder of their facts. *)

\* What is known of the attempt a fact is recorded of.
LEMMA AfterTyped ==
    ASSUME Inv, RecordEvent, operations' # operations, proc.fact \in Facts \ {"request", "intent"}
    PROVE  LET a == Last(proc.step)
               b == After(a, proc.fact, proc.content, proc.outcome)
           IN  /\ a \in AttemptRecords /\ b \in AttemptRecords
               /\ OnLadder(b)
               /\ proc.fact # "validated" => b.verdict = a.verdict
               /\ proc.fact = "validated" => b.verdict = proc.outcome
               /\ proc.fact # "pre-spawn" => b.refused = a.refused
               /\ proc.fact = "pre-spawn" => b.refused # Absent
               /\ proc.fact # "receipt" => b.receipt = a.receipt
               /\ proc.fact # "raw" => b.raw = a.raw
<1> DEFINE a == Last(proc.step)
           b == After(a, proc.fact, proc.content, proc.outcome)
<1>1. Writing(Facts) /\ proc.step \in Steps
  BY RecordedStep
<1>2. /\ proc.content \in Nat /\ proc.content # Absent
      /\ proc.fact \in {"receipt", "pre-spawn", "raw", "validated"}
  BY <1>1, ContentTyped DEF Facts
<1>3. proc.fact = "validated" => proc.outcome \in Verdicts
  BY <1>1 DEF Inv, ResultFits, Writing
<1>4. /\ Attempts(proc.step) # <<>>
      /\ proc.fact \in {"receipt", "pre-spawn"} => a.receipt = Absent /\ a.refused = Absent
      /\ proc.fact = "raw" => a.receipt # Absent /\ a.raw = Absent
      /\ proc.fact = "validated" => a.raw # Absent /\ a.validated = Absent
  BY <1>2, RecordedAttempt
<1>5. a \in AttemptRecords /\ OnLadder(a)
  BY <1>1, <1>4, AttemptsTyped DEF Inv, Ladder, Last
<1>v. "none" \notin Verdicts /\ NoVerdict \notin Verdicts
  BY DEF Verdicts, NoVerdict
<1>6. CASE proc.fact = "receipt"
  BY <1>2, <1>4, <1>5, <1>6 DEF After, AttemptRecords, OnLadder, Contents
<1>7. CASE proc.fact = "pre-spawn"
  BY <1>2, <1>4, <1>5, <1>7 DEF After, AttemptRecords, OnLadder, Contents
<1>8. CASE proc.fact = "raw"
  BY <1>2, <1>4, <1>5, <1>8 DEF After, AttemptRecords, OnLadder, Contents
<1>9. CASE proc.fact = "validated"
  BY <1>2, <1>3, <1>4, <1>5, <1>9, <1>v DEF After, AttemptRecords, OnLadder, Contents
<1> QED BY <1>2, <1>6, <1>7, <1>8, <1>9

\* The attempts of the operation a fact was recorded of.
LEMMA RecordedAttempts ==
    ASSUME Inv, RecordEvent, operations' # operations
    PROVE  LET s == proc.step
               after == operations'[s].attempts
           IN  /\ after \in Seq(AttemptRecords)
               /\ Len(after) \in 0 .. MaxOperationAttempts
               /\ \A n \in DOMAIN after : OnLadder(after[n])
               /\ proc.fact = "request" => after = <<>>
               /\ proc.fact = "intent" =>
                     /\ Len(after) = Len(Attempts(s)) + 1 /\ proc.attempt = Len(after)
                     /\ after[Len(after)] = NewAttempt(proc.content)
                     /\ \A n \in DOMAIN Attempts(s) : after[n] = Attempts(s)[n]
               /\ proc.fact \notin {"request", "intent"} =>
                     /\ Len(after) = Len(Attempts(s)) /\ Attempts(s) # <<>> /\ after # <<>>
                     /\ proc.attempt = Len(after)
                     /\ after[Len(after)] =
                           After(Last(s), proc.fact, proc.content, proc.outcome)
                     /\ \A n \in DOMAIN Attempts(s) \ {proc.attempt} : after[n] = Attempts(s)[n]
<1> DEFINE s == proc.step
           after == operations'[s].attempts
<1>1. Writing(Facts) /\ s \in Steps
  BY RecordedStep
<1>2. /\ proc.content \in Nat /\ proc.content # Absent
      /\ proc.fact \in Facts \ {"applied"} /\ proc.attempt \in 0 .. MaxOperationAttempts
  BY <1>1, ContentTyped
<1>3. /\ Attempts(s) \in Seq(AttemptRecords) /\ DOMAIN Attempts(s) = 1 .. Len(Attempts(s))
      /\ Len(Attempts(s)) \in 0 .. MaxOperationAttempts
      /\ \A n \in DOMAIN Attempts(s) : OnLadder(Attempts(s)[n])
  BY <1>1, AttemptsTyped DEF Inv, Ladder
<1>m. MaxOperationAttempts \in Nat
  BY AttemptAssumption
<1>4. CASE proc.fact = "request"
  <2>1. after = <<>>
    <3>1. operations'[s] = NewOperation(proc.content)
      BY <1>4, RecordedStep
    <3> QED BY <3>1, <1>2, NewRecords DEF Contents
  <2> QED BY <2>1, <1>4, <1>m, EmptySeq
<1>5. CASE proc.fact = "intent"
  <2>1. /\ after = Append(Attempts(s), NewAttempt(proc.content))
        /\ proc.attempt = Len(Attempts(s)) + 1
    BY <1>5, RecordedAttempt
  <2>2. NewAttempt(proc.content) \in AttemptRecords /\ OnLadder(NewAttempt(proc.content))
    BY <1>2, NewRecords DEF Contents, NewAttempt, OnLadder
  <2>3. /\ after \in Seq(AttemptRecords) /\ Len(after) = Len(Attempts(s)) + 1
        /\ after[Len(after)] = NewAttempt(proc.content)
        /\ \A n \in DOMAIN Attempts(s) : after[n] = Attempts(s)[n]
        /\ DOMAIN after = 1 .. Len(after)
    BY <2>1, <2>2, <1>3
  <2>4. \A n \in DOMAIN after : OnLadder(after[n])
    BY <2>2, <2>3, <1>3
  <2> QED BY <2>1, <2>3, <2>4, <1>2, <1>3, <1>5
<1>6. CASE proc.fact \notin {"request", "intent"}
  <2> DEFINE b == After(Last(s), proc.fact, proc.content, proc.outcome)
  <2>1. /\ after = [Attempts(s) EXCEPT ![proc.attempt] = b]
        /\ proc.attempt = Len(Attempts(s)) /\ Attempts(s) # <<>>
    BY <1>6, RecordedAttempt
  <2>2. b \in AttemptRecords /\ OnLadder(b)
    <3>1. proc.fact \in Facts \ {"request", "intent"}
      BY <1>2, <1>6
    <3> QED BY <3>1, AfterTyped
  <2>3. proc.attempt \in DOMAIN Attempts(s)
    BY <2>1, <1>3
  <2> HIDE DEF b
  <2>4. /\ after \in Seq(AttemptRecords) /\ Len(after) = Len(Attempts(s))
        /\ DOMAIN after = DOMAIN Attempts(s)
        /\ after[proc.attempt] = b
        /\ \A n \in DOMAIN Attempts(s) \ {proc.attempt} : after[n] = Attempts(s)[n]
    BY <2>1, <2>2, <2>3, <1>3
  <2>5. \A n \in DOMAIN after : OnLadder(after[n])
    BY <2>2, <2>4, <1>3
  <2>6. after # <<>>
    BY <2>1, <2>3, <2>4, <1>3
  <2> QED BY <2>1, <2>4, <2>5, <2>6, <1>3, <1>6 DEF b
<1> QED BY <1>4, <1>5, <1>6

\* The operations keep their types.
LEMMA OperationsTypeNext ==
    ASSUME Inv, Next
    PROVE  /\ operations' \in [Steps -> OperationRecords]
           /\ \A s \in Steps : Len(operations'[s].attempts) <= MaxOperationAttempts
<1>a. /\ operations \in [Steps -> OperationRecords]
      /\ \A s \in Steps : Len(operations[s].attempts) <= MaxOperationAttempts
  BY DEF Inv, TypeOK, Attempts
<1>1. CASE operations' = operations
  BY <1>1, <1>a
<1>2. CASE RecordEvent /\ operations' # operations
  <2> DEFINE s == proc.step
  <2>1. s \in Steps /\ Writing(Facts)
    BY <1>2, RecordedStep
  <2>2. \A t \in Steps : t # s => operations'[t] = operations[t]
    BY <1>2, RecordedStep
  <2>3. operations'[s].attempts \in Seq(AttemptRecords)
    BY <1>2, RecordedAttempts
  <2>4. Len(operations'[s].attempts) <= MaxOperationAttempts
    BY <1>2, RecordedAttempts, AttemptAssumption
  <2>5. operations'[s] \in OperationRecords
    <3>1. CASE proc.fact = "request"
      <4>1. operations'[s] = NewOperation(proc.content)
        BY <3>1, <1>2, RecordedStep
      <4> QED BY <4>1, <2>1, ContentTyped, NewRecords DEF Contents
    <3>2. CASE proc.fact # "request"
      <4>1. operations'[s] = [operations[s] EXCEPT !.attempts = operations'[s].attempts]
        BY <3>2, <1>2, RecordedStep
      <4> QED BY <4>1, <2>1, <2>3, <1>a DEF OperationRecords
    <3> QED BY <3>1, <3>2
  <2>6. operations' \in [Steps -> {operations'[t] : t \in Steps}]
    BY <1>2, RecordedStep
  <2> QED BY <2>1, <2>2, <2>4, <2>5, <2>6, <1>a
<1>3. CASE AppendConstituent
  <2>1. CASE Persisting
    <3>1. proc.step \in Steps /\ Settles(mutation[1])
      BY <2>1 DEF Persisting
    <3>2. mutation[1].source \in Sources /\ mutation[1].disposition \in {"ACCEPTED", "REJECTED"}
      BY <3>1, <1>3, AppendedChange, NextChange DEF Inv, Changes, Settles
    <3>3. operations' = [operations EXCEPT ![proc.step].persisted = mutation[1].disposition,
                                           ![proc.step].grounds = mutation[1].source]
      BY <2>1, <1>3, AppendedChange
    <3> QED BY <3>1, <3>2, <3>3, <1>a DEF OperationRecords
  <2>2. CASE Persisted
    <3>1. proc.step \in Steps /\ operations' = [operations EXCEPT ![proc.step].applied = TRUE]
      BY <2>2, <1>3, AppendedChange DEF Persisted
    <3> QED BY <3>1, <1>a DEF OperationRecords
  <2> QED BY <2>1, <2>2, <1>1, <1>3, AppendedChange
<1> QED BY <1>1, <1>2, <1>3, OperationsChange

\* A step changes the operation worked on, by a fact, by its persistence or by its
\* transition, or none.
LEMMA OperationChanges ==
    ASSUME Inv, [Next]_vars, NEW t \in Steps
    PROVE  \/ operations'[t] = operations[t]
           \/ RecordEvent /\ operations' # operations /\ t = proc.step
           \/ /\ AppendConstituent /\ t = proc.step
              /\ operations'[t].attempts = Attempts(t)
              /\ operations'[t].request = operations[t].request
              /\ operations[t].persisted # "no request" /\ operations'[t].persisted # "no request"
              /\ \/ /\ Persisting
                    /\ operations[t].persisted = "none"
                    /\ operations'[t].persisted = mutation[1].disposition
                    /\ operations'[t].applied = operations[t].applied
                 \/ /\ Persisted
                    /\ operations[t].persisted \in {"ACCEPTED", "REJECTED"}
                    /\ operations'[t].persisted = operations[t].persisted
                    /\ operations'[t].applied = TRUE
<1>a. operations \in [Steps -> OperationRecords]
  BY DEF Inv, TypeOK
<1>1. CASE RecordEvent /\ operations' # operations
  BY <1>1, RecordedStep
<1>2. CASE AppendConstituent
  <2>1. CASE Persisting
    <3>1. /\ proc.step \in Steps /\ operations[proc.step].persisted = "none"
          /\ mutation[1].disposition \in {"ACCEPTED", "REJECTED"}
      BY <2>1 DEF Persisting, Settles, CanPersist
    <3>2. operations' = [operations EXCEPT ![proc.step].persisted = mutation[1].disposition,
                                           ![proc.step].grounds = mutation[1].source]
      BY <2>1, <1>2, AppendedChange
    <3> DEFINE disposition == mutation[1].disposition
               source == mutation[1].source
    <3>3. disposition \in {"ACCEPTED", "REJECTED"}
      BY <3>1
    <3>4. operations' = [operations EXCEPT ![proc.step].persisted = disposition,
                                           ![proc.step].grounds = source]
      BY <3>2
    <3> HIDE DEF disposition, source
    <3>5. \/ operations'[t] = operations[t]
          \/ /\ t = proc.step
             /\ operations'[t].attempts = operations[t].attempts
             /\ operations'[t].request = operations[t].request
             /\ operations'[t].persisted = disposition
             /\ operations'[t].applied = operations[t].applied
      BY <3>1, <3>3, <3>4, <1>a DEF OperationRecords
    <3> QED BY <3>1, <3>3, <3>5, <2>1, <1>2 DEF Attempts, disposition
  <2>2. CASE Persisted
    <3>1. /\ proc.step \in Steps
          /\ operations[proc.step].persisted \in {"ACCEPTED", "REJECTED"}
      BY <2>2 DEF Persisted
    <3>2. operations' = [operations EXCEPT ![proc.step].applied = TRUE]
      BY <2>2, <1>2, AppendedChange
    <3>3. \/ operations'[t] = operations[t]
          \/ /\ t = proc.step
             /\ operations'[t].attempts = operations[t].attempts
             /\ operations'[t].request = operations[t].request
             /\ operations'[t].persisted = operations[t].persisted
             /\ operations'[t].applied = TRUE
      BY <3>1, <3>2, <1>a DEF OperationRecords
    <3> QED BY <3>1, <3>3, <2>2, <1>2 DEF Attempts
  <2>3. CASE Updating \/ Updated
    BY <2>3, <1>2, AppendedChange
  <2> QED BY <2>1, <2>2, <2>3, <1>2, AppendedChange
<1>3. CASE operations' = operations
  BY <1>3
<1> QED BY <1>1, <1>2, <1>3, OperationsChange

\* The facts stay a ladder, and an operation that is known has a request.
LEMMA LadderNext ==
    ASSUME Inv, [Next]_vars
    PROVE  Ladder'
<1>1. SUFFICES ASSUME NEW s \in Steps
               PROVE  /\ operations'[s] # NoOperation =>
                            /\ operations'[s].persisted # "no request"
                            /\ operations'[s].request # Absent
                      /\ \A n \in DOMAIN operations'[s].attempts : OnLadder(operations'[s].attempts[n])
  BY DEF Ladder, Known, Attempts
<1>2. /\ Known(s) => operations[s].persisted # "no request" /\ operations[s].request # Absent
      /\ \A n \in DOMAIN Attempts(s) : OnLadder(Attempts(s)[n])
      /\ operations[s] \in OperationRecords
  BY DEF Inv, Ladder, TypeOK
<1>3. CASE operations'[s] = operations[s]
  BY <1>2, <1>3 DEF Known, Attempts
<1>4. CASE RecordEvent /\ operations' # operations /\ s = proc.step
  <2>1. \A n \in DOMAIN operations'[s].attempts : OnLadder(operations'[s].attempts[n])
    BY <1>4, RecordedAttempts
  <2>2. CASE proc.fact = "request"
    <3>1. operations'[s] = NewOperation(proc.content)
      BY <2>2, <1>4, RecordedStep
    <3>2. proc.content \in Nat /\ proc.content # Absent
      BY <1>4, RecordedStep, ContentTyped
    <3> QED BY <2>1, <3>1, <3>2, NewRecords DEF Contents
  <2>3. CASE proc.fact # "request"
    <3>1. /\ Known(s) /\ operations[s].persisted = "none"
          /\ operations'[s] = [operations[s] EXCEPT !.attempts = operations'[s].attempts]
      BY <2>3, <1>4, RecordedStep
    <3>2. operations'[s].persisted = "none" /\ operations'[s].request = operations[s].request
      BY <3>1, <1>2 DEF OperationRecords
    <3> QED BY <2>1, <3>1, <3>2, <1>2
  <2> QED BY <2>2, <2>3
<1>5. CASE /\ AppendConstituent /\ operations'[s].attempts = Attempts(s)
           /\ operations'[s].request = operations[s].request
           /\ operations[s].persisted # "no request" /\ operations'[s].persisted # "no request"
  <2>1. Known(s)
    BY <1>5, NewRecords DEF Known
  <2> QED BY <1>2, <1>5, <2>1
<1> QED BY <1>3, <1>4, <1>5, OperationChanges

\* Every artifact has a content.
LEMMA ArtifactsTypeNext ==
    ASSUME Inv, Next
    PROVE  artifacts' \in [Paths -> Contents]
<1>a. artifacts \in [Paths -> Contents]
  BY DEF Inv, TypeOK
<1>1. CASE PublishArtifact
  <2>1. proc.content \in Contents
    BY ProcTyped DEF Inv
  <2> QED BY <1>1, <2>1, <1>a DEF PublishArtifact
<1>2. CASE WriteApplied
  BY <1>2, <1>a DEF WriteApplied, Contents
<1>3. CASE artifacts' = Reopened
  BY <1>3, <1>a DEF Reopened, Contents
<1> QED BY <1>1, <1>2, <1>3, <1>a, ArtifactsChange

\* A process is of an operation and of an attempt.
LEMMA ProcessesTypeNext ==
    ASSUME Inv, Next
    PROVE  processes' \subseteq [step : Steps, attempt : 1 .. MaxOperationAttempts,
                                 result : Results \union {"none"}]
<1>a. processes \subseteq [step : Steps, attempt : 1 .. MaxOperationAttempts,
                           result : Results \union {"none"}]
  BY DEF Inv, TypeOK
<1>1. CASE SpawnEntry
  <2>1. proc.step \in Steps /\ proc.attempt > 0
    BY <1>1 DEF SpawnEntry, Inv, PlaceFits, Place, Invocation
  <2>2. proc.attempt \in 1 .. MaxOperationAttempts
    BY <2>1, ProcTyped, AttemptAssumption DEF Inv
  <2> QED BY <1>1, <2>1, <2>2, <1>a DEF SpawnEntry
<1>2. CASE ProcessReturns
  BY <1>2, <1>a DEF ProcessReturns
<1> QED BY <1>1, <1>2, <1>a, ProcessesChange

\* The type invariant is kept.
LEMMA TypeNext ==
    ASSUME Inv, [Next]_vars
    PROVE  TypeOK'
<1>1. CASE Next
  <2>1. \A s \in Steps : Len(Attempts(s))' <= MaxOperationAttempts
    BY <1>1, OperationsTypeNext DEF Attempts
  <2> QED
    BY <1>1, <2>1, RecordTypeNext, MutationTypeNext, ProcTypeNext, CommandsNext, OperationsTypeNext,
       ArtifactsTypeNext, ProcessesTypeNext
       DEF TypeOK
<1>2. CASE UNCHANGED vars
  BY <1>2 DEF vars, durable, Inv, TypeOK, Attempts
<1> QED BY <1>1, <1>2

-----------------------------------------------------------------------------
(* Declared changes. *)

\* What an open declaration lacks is a transition, or a change and its transition.
LEMMA MutationFitsNext ==
    ASSUME Inv, [Next]_vars
    PROVE  MutationFits'
<1>a. /\ mutation # <<>> => proc.pc \in {"emit", "idle"}
      /\ proc.pc = "emit" => proc.then \in {"idle", "drive", "row", "judge", "retry"}
      /\ proc.pc = "applied" => proc.step \in Steps /\ proc.then \in {"idle", "drive"}
      /\ proc \in ProcRecords
  BY DEF Inv, TypeOK, MutationFits
<1>b. ASSUME mutation' # <<>> => proc'.pc \in {"emit", "idle"},
             proc'.pc = "emit" => /\ proc'.then \in {"idle", "drive", "row", "judge", "retry"}
                                  /\ Updating',
             proc'.pc # "applied"
      PROVE  MutationFits'
  <2>1. Updating' => ~Persisting' /\ ~Persisted'
    BY DEF Updating, Persisting, Persisted
  <2> QED BY <1>b, <2>1 DEF MutationFits
<1>d. ASSUME \E x, y : mutation' = <<Update(x), MoveTo(y, NoStep)>>,
             proc'.pc = "emit", proc'.then \in {"idle", "drive", "row", "judge", "retry"}
      PROVE  MutationFits'
  <2>1. Updating'
    BY <1>d DEF Updating, Update, MoveTo, Change, IsMove
  <2> QED BY <2>1, <1>b, <1>d
<1>c. ASSUME mutation' # <<>> => proc'.pc = "idle", proc'.pc \notin {"emit", "applied"}
      PROVE  MutationFits'
  BY <1>c DEF MutationFits

<1>1. CASE OpenTorn
  BY <1>1 DEF OpenTorn, Issue, MutationFits
<1>2. CASE Resume
  BY <1>2, IdleFields, <1>a, <1>b, <1>c DEF Resume, Updating, IsMove, ProcRecords, Opens,
     Issue
<1>3. CASE ReopenMilestone
  <2>1. /\ mutation = <<>>
        /\ \/ proc' = Idle /\ mutation' = mutation
           \/ /\ proc' = [Idle EXCEPT !.pc = "emit", !.then = "idle"]
              /\ \E x, y : mutation' = <<Update(x), MoveTo(y, NoStep)>>
    BY <1>3 DEF ReopenMilestone, Opens, Recover, Declare, Raise
  <2>2. proc' = [Idle EXCEPT !.pc = "emit", !.then = "idle"] =>
           proc'.pc = "emit" /\ proc'.then = "idle"
    BY IdleFields DEF ProcRecords
  <2> QED BY <2>1, <2>2, <1>c, <1>d, IdleFields
<1>4. CASE ReconcileMilestone
  <2>1. /\ mutation = <<>>
        /\ \/ proc' = Idle /\ mutation' = mutation
           \/ /\ proc' = [Idle EXCEPT !.pc = "emit", !.then = "idle"]
              /\ \E x, y : mutation' = <<Update(x), MoveTo(y, NoStep)>>
    BY <1>4 DEF ReconcileMilestone, Opens, Recover, Declare, Raise
  <2>2. proc' = [Idle EXCEPT !.pc = "emit", !.then = "idle"] =>
           proc'.pc = "emit" /\ proc'.then = "idle"
    BY IdleFields DEF ProcRecords
  <2> QED BY <2>1, <2>2, <1>c, <1>d, IdleFields
<1>5. CASE RevalidateCorrection
  <2>1. /\ mutation = <<>>
        /\ \/ proc' = Idle /\ mutation' = mutation
           \/ /\ proc' = [Idle EXCEPT !.pc = "emit", !.then = "idle"]
              /\ \E x, y : mutation' = <<Update(x), MoveTo(y, NoStep)>>
    BY <1>5 DEF RevalidateCorrection, Opens, Recover, Declare, Raise
  <2>2. proc' = [Idle EXCEPT !.pc = "emit", !.then = "idle"] =>
           proc'.pc = "emit" /\ proc'.then = "idle"
    BY IdleFields DEF ProcRecords
  <2> QED BY <2>1, <2>2, <1>c, <1>d, IdleFields
<1>6. CASE Abort
  BY <1>6, <1>a, <1>b, <1>c DEF Abort, Updating, IsMove, ProcRecords, Opens, Issue
<1>7. CASE Drive
  <2>1. mutation = <<>>
    BY <1>7, <1>a DEF Drive
  <2>2. \/ /\ mutation' = mutation
           /\ \/ proc' \in {Idle, [Idle EXCEPT !.pc = "idle"], [Idle EXCEPT !.pc = "drive"]}
              \/ \E s, n, content : proc' = [[Idle EXCEPT !.step = s, !.results = n] EXCEPT
                                               !.pc = "publish", !.fact = "request",
                                               !.content = content]
        \/ /\ \/ proc' = [Idle EXCEPT !.pc = "emit", !.then = "drive"]
              \/ proc' = [Idle EXCEPT !.pc = "emit", !.then = "idle"]
           /\ \E x, y : mutation' = <<Update(x), MoveTo(y, NoStep)>>
    <3>1. CASE record.state = "FOCUSED_VERIFYING"
      <4>1. PICK state : LET after == [record EXCEPT !.results = @ + 1,
                                              !.completed = state # "MILESTONE_FAILED"]
             IN Commit(<<Update(after), MoveTo([after EXCEPT !.state = state], NoStep)>>,
                       IF state = "REVIEWING" THEN "drive" ELSE "idle", Idle)
        BY <1>7, <3>1, InvokingStates DEF Drive
      <4> DEFINE after == [record EXCEPT !.results = @ + 1, !.completed = state # "MILESTONE_FAILED"]
                 to == [after EXCEPT !.state = state]
                 then == IF state = "REVIEWING" THEN "drive" ELSE "idle"
      <4>2. Commit(<<Update(after), MoveTo(to, NoStep)>>, then, Idle) /\ then \in {"drive", "idle"}
        BY <4>1
      <4> HIDE DEF after, to, then
      <4>3. \/ mutation' = mutation /\ proc' = Idle
            \/ /\ proc' = [Idle EXCEPT !.pc = "emit", !.then = then]
               /\ mutation' = <<Update(after), MoveTo(to, NoStep)>>
        BY <4>2 DEF Commit, Declare, Raise
      <4> QED BY <4>2, <4>3
    <3>2. CASE record.state # "FOCUSED_VERIFYING"
      <4>1. CASE record.state \in {"NEEDS_CORRECTION", "PROVIDER_RETRY_PENDING", "PROVIDER_WAIT"}
        BY <1>7, <4>1, InvokingStates DEF Drive, Commit
      <4>2. CASE record.state \in Invoking
        <5>1. \/ Commit(<<MoveTo(At(Human), NoStep)>>, "idle", Idle)
              \/ Publish("request", IF RoleOf(record.state) = "IMPLEMENTATION" THEN 0
                                    ELSE record.results,
                         [Idle EXCEPT !.step = provider_step(RoleOf(record.state)),
                                      !.results = IF RoleOf(record.state) = "IMPLEMENTATION" THEN 0
                                                  ELSE record.results])
                 /\ UNCHANGED durable
              \/ Commit(<<Update([record EXCEPT !.results = @ + 1]),
                          MoveTo([At(Human) EXCEPT !.results = @ + 1], NoStep)>>, "idle", Idle)
              \/ Publish("request", record.results + 1,
                         [Idle EXCEPT !.step = provider_step("CLOSURE"),
                                      !.results = record.results + 1])
                 /\ UNCHANGED durable
          BY <1>7, <4>2, InvokingStates DEF Drive
        <5>2. CASE Commit(<<MoveTo(At(Human), NoStep)>>, "idle", Idle)
          BY <5>2 DEF Commit
        <5>3. CASE Commit(<<Update([record EXCEPT !.results = @ + 1]),
                            MoveTo([At(Human) EXCEPT !.results = @ + 1], NoStep)>>, "idle", Idle)
          BY <5>3 DEF Commit, Declare, Raise
        <5>4. ASSUME NEW content, NEW s,
                     Publish("request", content, [Idle EXCEPT !.step = s, !.results = content]),
                     UNCHANGED durable
              PROVE  /\ mutation' = mutation
                     /\ \E t, n, c : proc' = [[Idle EXCEPT !.step = t, !.results = n] EXCEPT
                                                !.pc = "publish", !.fact = "request",
                                                !.content = c]
          BY <5>4 DEF Publish, durable
        <5> QED BY <5>1, <5>2, <5>3, <5>4
      <4>3. record.state \in {"IMPLEMENTING", "REVIEWING", "CORRECTING", "CLOSURE_VERIFYING",
                              "NEEDS_CORRECTION", "PROVIDER_RETRY_PENDING", "PROVIDER_WAIT"}
        BY <1>7, <3>2, InvokingStates DEF Drive
      <4> QED BY <4>1, <4>2, <4>3, InvokingStates
    <3> QED BY <3>1, <3>2
  <2>3. (\E s, n, content : proc' = [[Idle EXCEPT !.step = s, !.results = n] EXCEPT
            !.pc = "publish", !.fact = "request", !.content = content]) => proc'.pc = "publish"
    BY IdleFields DEF ProcRecords
  <2>4. proc' \in {Idle, [Idle EXCEPT !.pc = "idle"], [Idle EXCEPT !.pc = "drive"]} =>
           proc'.pc \in {"idle", "drive"}
    BY IdleFields DEF ProcRecords
  <2>5. \/ proc' = [Idle EXCEPT !.pc = "emit", !.then = "drive"]
        \/ proc' = [Idle EXCEPT !.pc = "emit", !.then = "idle"]
        => proc'.pc = "emit" /\ proc'.then \in {"idle", "drive"}
    BY IdleFields DEF ProcRecords
  <2> QED BY <2>1, <2>2, <2>3, <2>4, <2>5, <1>c, <1>d
<1>8. CASE EnterWait
  <2>1. mutation = <<>>
    BY <1>8, <1>a DEF EnterWait
  <2>2. \/ mutation' = mutation
           /\ proc' \in {Idle, [Idle EXCEPT !.pc = "idle"], [proc EXCEPT !.pc = "row"]}
        \/ /\ proc' = [proc EXCEPT !.pc = "emit", !.then = "row"]
           /\ \E x, y : mutation' = <<Update(x), MoveTo(y, NoStep)>>
    BY <1>8 DEF EnterWait, Commit, Declare, Raise
  <2>3. proc' \in {Idle, [Idle EXCEPT !.pc = "idle"], [proc EXCEPT !.pc = "row"]} =>
           proc'.pc \in {"idle", "row"}
    BY <1>a, IdleFields DEF ProcRecords
  <2>4. proc' = [proc EXCEPT !.pc = "emit", !.then = "row"] =>
           proc'.pc = "emit" /\ proc'.then = "row"
    BY <1>a DEF ProcRecords
  <2> QED BY <2>1, <2>2, <2>3, <2>4, <1>c, <1>d
<1>9. CASE PublishRow
  BY <1>9, IdleFields, <1>a, <1>b, <1>c DEF PublishRow, Updating, IsMove, ProcRecords,
     Commit, Declare, MoveTo, Update, Change, Raise
<1>10. CASE BeforeSpawn
  BY <1>10, IdleFields, <1>a, <1>b, <1>c DEF BeforeSpawn, Updating, IsMove, ProcRecords,
     Publish, Raise, durable
<1>11. CASE ProviderRefused
  BY <1>11, IdleFields, <1>a, <1>b, <1>c DEF ProviderRefused, Updating, IsMove, ProcRecords,
     Commit, Declare, MoveTo, Update, Change, Raise
<1>12. CASE SpawnEntry
  BY <1>12, IdleFields, <1>a, <1>b, <1>c DEF SpawnEntry, Updating, IsMove, ProcRecords,
     Publish, Raise, durable
<1>13. CASE ProcessReturns
  BY <1>13, <1>a, <1>b, <1>c DEF ProcessReturns, Updating, IsMove, ProcRecords, Publish,
     durable
<1>14. CASE Settle
  <2> DEFINE next == [proc EXCEPT !.tries = @ + 1]
  <2>1. mutation = <<>> /\ next \in ProcRecords
    BY <1>14, <1>a DEF Settle, ProcRecords
  <2>2. \/ /\ mutation' = mutation
           /\ proc' \in {Idle, [next EXCEPT !.pc = "retry"], [proc EXCEPT !.pc = "judge"]}
        \/ /\ \/ proc' = [next EXCEPT !.pc = "emit", !.then = "retry"]
              \/ proc' = [proc EXCEPT !.pc = "emit", !.then = "judge"]
           /\ \E x, y : mutation' = <<Update(x), MoveTo(y, NoStep)>>
    BY <1>14 DEF Settle, Commit, Declare, Raise
  <2> HIDE DEF next
  <2>3. proc' \in {Idle, [next EXCEPT !.pc = "retry"], [proc EXCEPT !.pc = "judge"]} =>
           proc'.pc \in {"idle", "retry", "judge"}
    BY <2>1, <1>a, IdleFields DEF ProcRecords
  <2>4. \/ proc' = [next EXCEPT !.pc = "emit", !.then = "retry"]
        \/ proc' = [proc EXCEPT !.pc = "emit", !.then = "judge"]
        => proc'.pc = "emit" /\ proc'.then \in {"retry", "judge"}
    BY <2>1, <1>a DEF ProcRecords
  <2> QED BY <2>1, <2>2, <2>3, <2>4, <1>c, <1>d
<1>15. CASE Retry
  BY <1>15, IdleFields, <1>a, <1>b, <1>c DEF Retry, Updating, IsMove, ProcRecords, Commit,
     Declare, MoveTo, Update, Change, Raise
<1>16. CASE Judge
  BY <1>16, <1>a, <1>b, <1>c DEF Judge, Updating, IsMove, ProcRecords, Publish, durable
<1>17. CASE Accept
  <2>1. proc.step \in Steps
    BY <1>17 DEF Inv, PlaceFits, Place, Invocation, Accept
  <2>2. PICK state : Dispose("ACCEPTED", "VALIDATION", state)
    BY <1>17 DEF Accept
  <2>3. mutation = <<>>
    BY <1>17, <1>a DEF Accept
  <2>4. CASE CanPersist(proc.step, "ACCEPTED", "VALIDATION")
    <3> DEFINE next == [Idle EXCEPT !.step = proc.step]
    <3>1. \/ proc' = Idle /\ mutation' = mutation
          \/ /\ mutation' = <<Persist(record, proc.step, "ACCEPTED", "VALIDATION"), MoveTo(At(state), proc.step)>>
             /\ \/ proc' = [next EXCEPT !.pc = "emit", !.then = "drive"]
                \/ proc' = [next EXCEPT !.pc = "emit", !.then = "idle"]
             /\ operations' = operations
      <4> DEFINE changes == <<Persist(record, proc.step, "ACCEPTED", "VALIDATION"), MoveTo(At(state), proc.step)>>
                 then == IF state \in Live THEN "drive" ELSE "idle"
      <4>1. Commit(changes, then, next)
        BY <2>2, <2>4 DEF Dispose
      <4>2. Len(changes) = 2 /\ then \in {"drive", "idle"}
        OBVIOUS
      <4> HIDE DEF changes, then, next
      <4>3. \/ proc' = Idle /\ mutation' = mutation
            \/ /\ mutation' = changes /\ operations' = operations
               /\ proc' = [next EXCEPT !.pc = "emit", !.then = then]
        BY <4>1, <4>2 DEF Commit, Declare, Raise
      <4> QED BY <4>2, <4>3 DEF changes
    <3>2. CASE proc' = Idle /\ mutation' = mutation
      BY <3>2, <2>3, <1>c, IdleFields
    <3>3. CASE /\ mutation' = <<Persist(record, proc.step, "ACCEPTED", "VALIDATION"),
                                MoveTo(At(state), proc.step)>>
               /\ \/ proc' = [next EXCEPT !.pc = "emit", !.then = "drive"]
                  \/ proc' = [next EXCEPT !.pc = "emit", !.then = "idle"]
               /\ operations' = operations
      <4>1. proc'.pc = "emit" /\ proc'.then \in {"drive", "idle"} /\ proc'.step = proc.step
        BY <3>3, IdleFields DEF ProcRecords
      <4>2. /\ mutation'[1].kind = "persist" /\ mutation'[1].step = proc.step
            /\ mutation'[1].disposition = "ACCEPTED" /\ mutation'[1].source = "VALIDATION"
            /\ IsMove(mutation'[2], proc.step) /\ Len(mutation') = 2
        BY <3>3 DEF Persist, MoveTo, Change, IsMove
      <4>3. CanPersist(proc.step, "ACCEPTED", "VALIDATION")'
        BY <4>1, <3>3, <2>4 DEF CanPersist, Evidenced, Known, Attempts, Last
      <4>4. Persisting'
        BY <2>1, <4>1, <4>2, <4>3 DEF Persisting, Settles
      <4> QED BY <4>1, <4>4 DEF MutationFits
    <3> QED BY <3>1, <3>2, <3>3
  <2>5. CASE ~CanPersist(proc.step, "ACCEPTED", "VALIDATION")
    BY <2>2, <2>3, <2>5, <1>c, IdleFields DEF Dispose, Raise, durable
  <2> QED BY <2>4, <2>5
<1>18. CASE Reject
  <2>1. proc.step \in Steps
    BY <1>18 DEF Inv, PlaceFits, Place, Invocation, Reject
  <2> DEFINE state == FailedState(proc.step[1])
  <2>s. PICK source \in Sources \ {"none"} : source = RejectionSource
    BY DEF RejectionSource, Sources
  <2>2. Dispose("REJECTED", source, state)
    BY <1>18, <2>s DEF Reject
  <2>3. mutation = <<>>
    BY <1>18, <1>a DEF Reject
  <2>4. CASE CanPersist(proc.step, "REJECTED", source)
    <3> DEFINE next == [Idle EXCEPT !.step = proc.step]
    <3>1. \/ proc' = Idle /\ mutation' = mutation
          \/ /\ mutation' = <<Persist(record, proc.step, "REJECTED", source), MoveTo(At(state), proc.step)>>
             /\ \/ proc' = [next EXCEPT !.pc = "emit", !.then = "drive"]
                \/ proc' = [next EXCEPT !.pc = "emit", !.then = "idle"]
             /\ operations' = operations
      <4> DEFINE changes == <<Persist(record, proc.step, "REJECTED", source), MoveTo(At(state), proc.step)>>
                 then == IF state \in Live THEN "drive" ELSE "idle"
      <4>1. Commit(changes, then, next)
        BY <2>2, <2>4 DEF Dispose
      <4>2. Len(changes) = 2 /\ then \in {"drive", "idle"}
        OBVIOUS
      <4> HIDE DEF changes, then, next
      <4>3. \/ proc' = Idle /\ mutation' = mutation
            \/ /\ mutation' = changes /\ operations' = operations
               /\ proc' = [next EXCEPT !.pc = "emit", !.then = then]
        BY <4>1, <4>2 DEF Commit, Declare, Raise
      <4> QED BY <4>2, <4>3 DEF changes
    <3>2. CASE proc' = Idle /\ mutation' = mutation
      BY <3>2, <2>3, <1>c, IdleFields
    <3>3. CASE /\ mutation' = <<Persist(record, proc.step, "REJECTED", source),
                                MoveTo(At(state), proc.step)>>
               /\ \/ proc' = [next EXCEPT !.pc = "emit", !.then = "drive"]
                  \/ proc' = [next EXCEPT !.pc = "emit", !.then = "idle"]
               /\ operations' = operations
      <4>1. proc'.pc = "emit" /\ proc'.then \in {"drive", "idle"} /\ proc'.step = proc.step
        BY <3>3, IdleFields DEF ProcRecords
      <4>2. /\ mutation'[1].kind = "persist" /\ mutation'[1].step = proc.step
            /\ mutation'[1].disposition = "REJECTED" /\ mutation'[1].source = source
            /\ IsMove(mutation'[2], proc.step) /\ Len(mutation') = 2
        BY <3>3 DEF Persist, MoveTo, Change, IsMove
      <4>3. CanPersist(proc.step, "REJECTED", source)'
        BY <4>1, <3>3, <2>4 DEF CanPersist, Evidenced, Known, Attempts, Last
      <4>4. Persisting'
        BY <2>1, <4>1, <4>2, <4>3 DEF Persisting, Settles
      <4> QED BY <4>1, <4>4 DEF MutationFits
    <3> QED BY <3>1, <3>2, <3>3
  <2>5. CASE ~CanPersist(proc.step, "REJECTED", source)
    BY <2>2, <2>3, <2>5, <1>c, IdleFields DEF Dispose, Raise, durable
  <2> QED BY <2>4, <2>5
<1>19. CASE LeaveUndecided
  BY <1>19, IdleFields, <1>a, <1>b, <1>c DEF LeaveUndecided, Updating, IsMove, ProcRecords,
     Commit, Declare, MoveTo, Update, Change, Raise
<1>20. CASE AppendConstituent
  <2>1. /\ mutation # <<>> /\ mutation' = Tail(mutation) /\ proc.pc = "emit"
        /\ Updating \/ Updated \/ Persisting \/ Persisted
        /\ proc.then \in {"idle", "drive", "row", "judge", "retry"}
        /\ Persisting \/ Persisted => proc.then \in {"idle", "drive"}
    BY <1>20, AppendedChange DEF AppendConstituent, Inv, MutationFits
  <2>2. /\ Len(mutation) \in Nat \ {0} /\ Len(mutation') = Len(mutation) - 1
        /\ \A i \in 1 .. Len(mutation') : mutation'[i] = mutation[i + 1]
        /\ mutation' \in Seq(Changes)
    BY <2>1, NextChange DEF Inv
  <2> DEFINE pc == AfterConstituent(mutation[1])
  <2>3. /\ proc'.pc = pc /\ proc'.step = proc.step
        /\ proc'.then = IF pc \in {"emit", "applied"} THEN proc.then ELSE "idle"
    BY <1>20, <1>a DEF AppendConstituent, ProcRecords
  <2>4. CASE Len(mutation) = 2
    <3>1. Len(mutation') = 1 /\ mutation'[1] = mutation[2]
      BY <2>2, <2>4
    <3>2. pc = "emit"
      <4>1. Len(mutation) > 1 /\ mutation[1].kind # "move"
        BY <2>1, <2>4 DEF Updating, Updated, Persisting, Persisted
      <4> QED BY <4>1 DEF AfterConstituent
    <3>3. CASE Updating
      BY <2>1, <2>3, <3>1, <3>2, <3>3, StepFacts
         DEF MutationFits, Updating, Updated, Persisting, Persisted, IsMove
    <3>4. CASE Persisting
      <4>1. operations'[proc.step].persisted = mutation[1].disposition
        <5>1. operations' = [operations EXCEPT ![proc.step].persisted = mutation[1].disposition,
                                               ![proc.step].grounds = mutation[1].source]
          BY <3>4, <1>20, AppendedChange
        <5>2. proc.step \in Steps
          BY <3>4 DEF Persisting
        <5>3. operations[proc.step] \in OperationRecords /\ DOMAIN operations = Steps
          BY <5>2 DEF Inv, TypeOK
        <5> QED BY <5>1, <5>2, <5>3 DEF OperationRecords
      <4>2. mutation[1].disposition \in {"ACCEPTED", "REJECTED"}
        BY <3>4 DEF Persisting, Settles
      <4>3. Persisted'
        BY <2>3, <3>1, <3>4, <4>1, <4>2 DEF Persisting, Persisted, IsMove
      <4> QED BY <4>3, <2>1, <2>3, <3>2, <3>4 DEF MutationFits
    <3> QED BY <2>1, <2>4, <3>3, <3>4 DEF Updated, Persisted
  <2>5. CASE Len(mutation) = 1
    <3>1. mutation' = <<>>
      BY <2>2, <2>5
    <3>2. CASE Updated
      <4>1. pc = proc.then
        BY <2>5, <3>2 DEF AfterConstituent, Updated, IsMove
      <4> QED BY <3>1, <4>1, <2>1, <2>3, <1>c
    <3>3. CASE Persisted
      <4>1. pc = "applied" /\ proc.step \in Steps
        BY <2>5, <3>3, StepFacts DEF AfterConstituent, Persisted, IsMove
      <4> QED BY <3>1, <3>3, <4>1, <2>1, <2>3 DEF MutationFits
    <3> QED BY <2>1, <2>5, <3>2, <3>3 DEF Updating, Persisting
  <2> QED BY <2>1, <2>4, <2>5 DEF Updating, Updated, Persisting, Persisted
<1>21. CASE WriteApplied
  BY <1>21, IdleFields, <1>a, <1>b, <1>c DEF WriteApplied, Updating, IsMove, ProcRecords
<1>22. CASE PublishArtifact
  BY <1>22, IdleFields, <1>a, <1>b, <1>c DEF PublishArtifact, Updating, IsMove, ProcRecords,
     Raise
<1>23. CASE RecordEvent
  <2>1. mutation = <<>> /\ mutation' = mutation
    BY <1>23, <1>a DEF RecordEvent
  <2>2. proc' = Idle \/ proc' = AfterFact(proc.fact)
    BY <1>23 DEF RecordEvent, Raise
  <2>3. proc.fact \in Facts \ {"applied"}
    BY <1>23, ContentTyped, ProcTyped DEF RecordEvent, Writing, Inv
  <2> QED BY <2>1, <2>2, <2>3, <1>c, AfterFactFields, IdleFields DEF Facts
<1>24. CASE Crash
  BY <1>24, IdleFields, <1>a, <1>b, <1>c DEF Crash, Updating, IsMove, ProcRecords, durable
<1>25. CASE UNCHANGED vars
  BY <1>25 DEF vars, durable, Inv, MutationFits, Updating, Updated, Persisting, Persisted, CanPersist,
        Evidenced, Known, Attempts, Last
<1> QED
  BY <1>1, <1>2, <1>3, <1>4, <1>5, <1>6, <1>7, <1>8, <1>9, <1>10, <1>11, <1>12, <1>13,
     <1>14, <1>15, <1>16, <1>17, <1>18, <1>19, <1>20, <1>21, <1>22, <1>23, <1>24, <1>25 DEF
     Next

-----------------------------------------------------------------------------
(* Where a step leads the command. *)

Publishes(fact) == proc'.pc = "publish" /\ proc'.fact = fact /\ proc'.content \in Nat
Keeps ==
    /\ proc'.step = proc.step /\ proc'.attempt = proc.attempt
    /\ proc'.raw = proc.raw /\ proc'.refused = proc.refused
Reaches(pc) == \/ proc'.pc = pc
               \/ proc'.pc = "emit" /\ proc'.then = pc

\* The command is over, begins a step of the flow, or settled an operation.
Afresh ==
    /\ proc'.raw = FALSE /\ proc'.refused = FALSE /\ proc'.outcome = "none"
    /\ \/ proc'.pc \in {"idle", "drive"} /\ proc'.step = NoStep
       \/ proc'.pc = "emit" /\ proc'.then \in {"idle", "drive"} /\ proc'.step = NoStep
       \/ /\ proc'.pc = "emit" /\ proc'.then \in {"idle", "drive"} /\ proc.pc = "decide"
          /\ proc'.step = proc.step /\ proc.step \in Steps
       \/ Drive /\ Publishes("request") /\ proc'.step \in Steps

\* The command proceeds with its operation: one definition for each way to go on.
Unchanged == Keeps /\ proc'.outcome = proc.outcome
Waits == EnterWait /\ proc.pc = "boundary" /\ Unchanged /\ Reaches("row")
HasRow == PublishRow /\ proc.pc = "row" /\ Unchanged /\ proc'.pc = "before_spawn"
Intends ==
    /\ BeforeSpawn /\ proc.pc = "before_spawn" /\ Publishes("intent")
    /\ proc'.step = proc.step /\ proc'.attempt = Len(Attempts(proc.step)) + 1
    /\ proc'.raw = FALSE /\ proc'.refused = FALSE /\ proc'.outcome = proc.outcome
IsRefused ==
    /\ ProviderRefused /\ proc.pc \in {"row", "entry"} /\ Keeps
    /\ proc'.outcome = "refused" /\ proc'.pc = "judge"
Creates == SpawnEntry /\ proc.pc = "entry" /\ Unchanged /\ Publishes("receipt")
CreatesNone ==
    /\ SpawnEntry /\ proc.pc = "entry" /\ Keeps
    /\ proc'.outcome = "EXECUTION_FAILED" /\ Publishes("pre-spawn")
Returns ==
    /\ ProcessReturns /\ proc.pc = "running" /\ Keeps /\ Publishes("raw")
    /\ \E result \in Results : proc'.outcome = Verdict(result)
TriesAgain == Settle /\ proc.pc = "settle" /\ proc.refused /\ Unchanged /\ Reaches("retry")
Settled == Settle /\ proc.pc = "settle" /\ Unchanged /\ Reaches("judge")
Retries == Retry /\ proc.pc = "retry" /\ Unchanged /\ proc'.pc \in {"retry", "boundary"}
Validates == Judge /\ proc.pc = "judge" /\ proc.raw /\ Unchanged /\ Publishes("validated")
Judges == Judge /\ proc.pc = "judge" /\ Unchanged /\ proc'.pc = "decide"
Published ==
    /\ PublishArtifact /\ proc.pc = "publish" /\ Unchanged
    /\ proc'.pc = "record" /\ proc'.fact = proc.fact /\ proc'.content = proc.content
Recording ==
    /\ RecordEvent /\ proc.pc = "record"
    /\ proc' = AfterFact(proc.fact) /\ proc.fact \in Facts \ {"applied"}
Appends ==
    /\ AppendConstituent /\ proc.pc = "emit" /\ Unchanged
    /\ \/ proc'.pc = "emit" /\ proc'.then = proc.then
       \/ proc'.pc = "applied" /\ proc'.then = proc.then
       \/ proc'.pc = proc.then /\ proc.then \in {"idle", "drive", "row", "judge", "retry"}

Proceeds ==
    \/ Waits \/ HasRow \/ Intends \/ IsRefused \/ Creates \/ CreatesNone \/ Returns
    \/ TriesAgain \/ Settled \/ Retries \/ Validates \/ Judges \/ Published \/ Recording
    \/ Appends

\* Every step leaves the command as it is, begins anew or proceeds with its operation.
LEMMA CommandStep ==
    ASSUME Inv, [Next]_vars
    PROVE  proc' = proc \/ Afresh \/ Proceeds
<1>a. proc \in ProcRecords /\ commands \in Nat
  BY CommandAssumption DEF Inv, TypeOK
<1>b. ASSUME proc' = Idle PROVE Afresh
  BY <1>b, IdleFields DEF Afresh
<1>c. ASSUME NEW pc \in {"idle", "drive"}, proc' = [Idle EXCEPT !.pc = pc] PROVE Afresh
  BY <1>c, IdleFields DEF Afresh, ProcRecords
<1>d. ASSUME NEW then \in {"idle", "drive"}, proc' = [Idle EXCEPT !.pc = "emit", !.then = then]
      PROVE  Afresh
  BY <1>d, IdleFields DEF Afresh, ProcRecords

<1>1. CASE OpenTorn
  BY <1>1, <1>a, <1>b, <1>c, <1>d DEF OpenTorn, Issue
<1>2. CASE Resume
  BY <1>2, <1>b, <1>c DEF Resume
<1>3. CASE ReopenMilestone
  <2>1. proc' = Idle \/ proc' = [Idle EXCEPT !.pc = "emit", !.then = "idle"]
    BY <1>3 DEF ReopenMilestone, Recover, Declare, Raise
  <2> QED BY <2>1, <1>b, <1>d
<1>4. CASE ReconcileMilestone
  <2>1. proc' = Idle \/ proc' = [Idle EXCEPT !.pc = "emit", !.then = "idle"]
    BY <1>4 DEF ReconcileMilestone, Recover, Declare, Raise
  <2> QED BY <2>1, <1>b, <1>d
<1>5. CASE RevalidateCorrection
  <2>1. proc' = Idle \/ proc' = [Idle EXCEPT !.pc = "emit", !.then = "idle"]
    BY <1>5 DEF RevalidateCorrection, Recover, Declare, Raise
  <2> QED BY <2>1, <1>b, <1>d
<1>6. CASE Abort
  BY <1>6, <1>a, <1>b, <1>c, <1>d DEF Abort, Opens, Issue
<1>7. CASE Drive
  <2>1. \/ proc' \in {Idle, [Idle EXCEPT !.pc = "idle"], [Idle EXCEPT !.pc = "drive"],
                      [Idle EXCEPT !.pc = "emit", !.then = "drive"],
                      [Idle EXCEPT !.pc = "emit", !.then = "idle"]}
        \/ \E s \in Steps, n \in Nat :
              proc' = [[Idle EXCEPT !.step = s, !.results = n] EXCEPT
                          !.pc = "publish", !.fact = "request", !.content = n]
    <3>1. CASE record.state = "FOCUSED_VERIFYING"
      <4>1. PICK state : LET after == [record EXCEPT !.results = @ + 1,
                                              !.completed = state # "MILESTONE_FAILED"]
             IN Commit(<<Update(after), MoveTo([after EXCEPT !.state = state], NoStep)>>,
                       IF state = "REVIEWING" THEN "drive" ELSE "idle", Idle)
        BY <1>7, <3>1, InvokingStates DEF Drive
      <4> DEFINE after == [record EXCEPT !.results = @ + 1, !.completed = state # "MILESTONE_FAILED"]
                 to == [after EXCEPT !.state = state]
                 then == IF state = "REVIEWING" THEN "drive" ELSE "idle"
      <4>2. Commit(<<Update(after), MoveTo(to, NoStep)>>, then, Idle) /\ then \in {"drive", "idle"}
        BY <4>1
      <4> HIDE DEF after, to, then
      <4>3. \/ proc' = Idle
            \/ proc' = [Idle EXCEPT !.pc = "emit", !.then = then]
        BY <4>2 DEF Commit, Declare, Raise
      <4> QED BY <4>2, <4>3
    <3>2. CASE record.state # "FOCUSED_VERIFYING"
      <4>1. CASE record.state \in {"NEEDS_CORRECTION", "PROVIDER_RETRY_PENDING", "PROVIDER_WAIT"}
        BY <1>7, <4>1, InvokingStates DEF Drive, Commit
      <4>2. CASE record.state \in Invoking
        <5>1. \/ Commit(<<MoveTo(At(Human), NoStep)>>, "idle", Idle)
              \/ Publish("request", IF RoleOf(record.state) = "IMPLEMENTATION" THEN 0
                                    ELSE record.results,
                         [Idle EXCEPT !.step = provider_step(RoleOf(record.state)),
                                      !.results = IF RoleOf(record.state) = "IMPLEMENTATION" THEN 0
                                                  ELSE record.results])
              \/ Commit(<<Update([record EXCEPT !.results = @ + 1]),
                          MoveTo([At(Human) EXCEPT !.results = @ + 1], NoStep)>>, "idle", Idle)
              \/ Publish("request", record.results + 1,
                         [Idle EXCEPT !.step = provider_step("CLOSURE"),
                                      !.results = record.results + 1])
          BY <1>7, <4>2, InvokingStates DEF Drive
        <5>2. CASE Commit(<<MoveTo(At(Human), NoStep)>>, "idle", Idle)
          BY <5>2 DEF Commit
        <5>3. CASE Commit(<<Update([record EXCEPT !.results = @ + 1]),
                            MoveTo([At(Human) EXCEPT !.results = @ + 1], NoStep)>>, "idle", Idle)
          BY <5>3 DEF Commit, Declare, Raise
        <5>4. ASSUME NEW content \in Nat, NEW role \in Roles,
                     Publish("request", content, [Idle EXCEPT !.step = provider_step(role),
                                                              !.results = content])
              PROVE  \E s \in Steps, n \in Nat :
                        proc' = [[Idle EXCEPT !.step = s, !.results = n] EXCEPT
                                    !.pc = "publish", !.fact = "request", !.content = n]
          BY <5>4, ProviderStep DEF Publish, Inv
        <5>5. record.results \in Nat /\ record.results + 1 \in Nat /\ "CLOSURE" \in Roles
          BY DEF Inv, TypeOK, RunRecords, Roles
        <5>6. RoleOf(record.state) \in Roles
          BY <4>2, InvokingStates
        <5> QED BY <5>1, <5>2, <5>3, <5>4, <5>5, <5>6
      <4>3. record.state \in {"IMPLEMENTING", "REVIEWING", "CORRECTING", "CLOSURE_VERIFYING",
                              "NEEDS_CORRECTION", "PROVIDER_RETRY_PENDING", "PROVIDER_WAIT"}
        BY <1>7, <3>2, InvokingStates DEF Drive
      <4> QED BY <4>1, <4>2, <4>3, InvokingStates
    <3> QED BY <3>1, <3>2
  <2>2. ASSUME NEW s \in Steps, NEW n \in Nat,
               proc' = [[Idle EXCEPT !.step = s, !.results = n] EXCEPT
                           !.pc = "publish", !.fact = "request", !.content = n]
        PROVE  Afresh
    <3>1. /\ Publishes("request") /\ proc'.step = s
          /\ proc'.raw = FALSE /\ proc'.refused = FALSE /\ proc'.outcome = "none"
      BY <2>2, IdleFields DEF ProcRecords, Publishes
    <3> QED BY <3>1, <1>7 DEF Afresh
  <2> QED BY <2>1, <2>2, <1>b, <1>c, <1>d
<1>8. CASE EnterWait
  <2>1. proc' \in {Idle, [Idle EXCEPT !.pc = "idle"], [proc EXCEPT !.pc = "row"],
                   [proc EXCEPT !.pc = "emit", !.then = "row"]}
    BY <1>8 DEF EnterWait, Commit, Declare, Raise
  <2>2. proc' \in {[proc EXCEPT !.pc = "row"], [proc EXCEPT !.pc = "emit", !.then = "row"]} =>
           Keeps /\ proc'.outcome = proc.outcome /\ Reaches("row")
    BY <1>a DEF ProcRecords, Keeps, Reaches
  <2> QED BY <1>8, <2>1, <2>2, <1>b, <1>c DEF Proceeds, EnterWait, Waits, Unchanged
<1>9. CASE PublishRow
  <2>1. proc' = [proc EXCEPT !.pc = "before_spawn"]
    BY <1>9 DEF PublishRow, Commit
  <2>2. Keeps /\ proc'.outcome = proc.outcome /\ proc'.pc = "before_spawn"
    BY <2>1, <1>a DEF ProcRecords, Keeps
  <2> QED BY <1>9, <2>2 DEF Proceeds, PublishRow, HasRow, Unchanged
<1>10. CASE BeforeSpawn
  <2> DEFINE attempt == Len(Attempts(proc.step)) + 1
  <2>1. \/ proc' = Idle
        \/ proc' = [[proc EXCEPT !.attempt = attempt, !.refused = FALSE, !.raw = FALSE] EXCEPT
                       !.pc = "publish", !.fact = "intent", !.content = commands]
    BY <1>10 DEF BeforeSpawn, Publish, Raise
  <2> HIDE DEF attempt
  <2>2. ASSUME proc' = [[proc EXCEPT !.attempt = attempt, !.refused = FALSE, !.raw = FALSE] EXCEPT
                           !.pc = "publish", !.fact = "intent", !.content = commands]
        PROVE  /\ Publishes("intent") /\ proc'.step = proc.step
               /\ proc'.raw = FALSE /\ proc'.refused = FALSE /\ proc'.outcome = proc.outcome
               /\ proc'.attempt = attempt
    BY <2>2, <1>a DEF ProcRecords, Publishes
  <2> QED BY <1>10, <2>1, <2>2, <1>b DEF Proceeds, BeforeSpawn, Intends, Unchanged, attempt
<1>11. CASE ProviderRefused
  <2>1. proc' = [[proc EXCEPT !.outcome = "refused"] EXCEPT !.pc = "judge"]
    BY <1>11 DEF ProviderRefused, Commit
  <2>2. Keeps /\ proc'.outcome = "refused" /\ proc'.pc = "judge"
    BY <2>1, <1>a DEF ProcRecords, Keeps
  <2> QED BY <1>11, <2>2 DEF Proceeds, ProviderRefused, IsRefused, Unchanged
<1>12. CASE SpawnEntry
  <2>1. proc' \in {Idle, [proc EXCEPT !.pc = "publish", !.fact = "receipt", !.content = commands],
                   [[proc EXCEPT !.outcome = "EXECUTION_FAILED"] EXCEPT
                       !.pc = "publish", !.fact = "pre-spawn", !.content = commands]}
    BY <1>12 DEF SpawnEntry, Publish, Raise
  <2>2. proc' = [proc EXCEPT !.pc = "publish", !.fact = "receipt", !.content = commands] =>
           Keeps /\ proc'.outcome = proc.outcome /\ Publishes("receipt")
    BY <1>a DEF ProcRecords, Keeps, Publishes
  <2>3. proc' = [[proc EXCEPT !.outcome = "EXECUTION_FAILED"] EXCEPT
                    !.pc = "publish", !.fact = "pre-spawn", !.content = commands] =>
           Keeps /\ proc'.outcome = "EXECUTION_FAILED" /\ Publishes("pre-spawn")
    BY <1>a DEF ProcRecords, Keeps, Publishes
  <2> QED BY <1>12, <2>1, <2>2, <2>3, <1>b DEF Proceeds, SpawnEntry, Creates, CreatesNone, Unchanged
<1>13. CASE ProcessReturns
  <2>1. PICK result \in Results :
           proc' = [[proc EXCEPT !.outcome = Verdict(result)] EXCEPT
                       !.pc = "publish", !.fact = "raw", !.content = commands]
    BY <1>13 DEF ProcessReturns, Publish
  <2>2. Keeps /\ proc'.outcome = Verdict(result) /\ Publishes("raw")
    BY <2>1, <1>a DEF ProcRecords, Keeps, Publishes
  <2> QED BY <1>13, <2>2 DEF Proceeds, ProcessReturns, Returns, Unchanged
<1>14. CASE Settle
  <2> DEFINE next == [proc EXCEPT !.tries = @ + 1]
  <2>1. \/ proc' = Idle
        \/ /\ proc.refused
           /\ \/ proc' = [next EXCEPT !.pc = "retry"]
              \/ proc' = [next EXCEPT !.pc = "emit", !.then = "retry"]
        \/ proc' = [proc EXCEPT !.pc = "judge"]
        \/ proc' = [proc EXCEPT !.pc = "emit", !.then = "judge"]
    BY <1>14 DEF Settle, Commit, Declare, Raise
  <2>2. \/ proc' = [next EXCEPT !.pc = "retry"]
        \/ proc' = [next EXCEPT !.pc = "emit", !.then = "retry"]
        => Keeps /\ proc'.outcome = proc.outcome /\ Reaches("retry")
    BY <1>a DEF ProcRecords, Keeps, Reaches
  <2>3. \/ proc' = [proc EXCEPT !.pc = "judge"]
        \/ proc' = [proc EXCEPT !.pc = "emit", !.then = "judge"]
        => Keeps /\ proc'.outcome = proc.outcome /\ Reaches("judge")
    BY <1>a DEF ProcRecords, Keeps, Reaches
  <2> QED BY <1>14, <2>1, <2>2, <2>3, <1>b DEF Proceeds, Settle, TriesAgain, Settled, Unchanged
<1>15. CASE Retry
  <2>1. proc' \in {[proc EXCEPT !.pc = "retry"], [proc EXCEPT !.pc = "boundary"]}
    BY <1>15 DEF Retry, Commit
  <2>2. Keeps /\ proc'.outcome = proc.outcome /\ proc'.pc \in {"retry", "boundary"}
    BY <2>1, <1>a DEF ProcRecords, Keeps
  <2> QED BY <1>15, <2>2 DEF Proceeds, Retry, Retries, Unchanged
<1>16. CASE Judge
  <2>1. \/ /\ proc.raw
           /\ proc' = [proc EXCEPT !.pc = "publish", !.fact = "validated", !.content = commands]
        \/ proc' = [proc EXCEPT !.pc = "decide"]
    BY <1>16 DEF Judge, Publish
  <2>2. proc' = [proc EXCEPT !.pc = "publish", !.fact = "validated", !.content = commands] =>
           Keeps /\ proc'.outcome = proc.outcome /\ Publishes("validated")
    BY <1>a DEF ProcRecords, Keeps, Publishes
  <2>3. proc' = [proc EXCEPT !.pc = "decide"] =>
           Keeps /\ proc'.outcome = proc.outcome /\ proc'.pc = "decide"
    BY <1>a DEF ProcRecords, Keeps
  <2> QED BY <1>16, <2>1, <2>2, <2>3 DEF Proceeds, Judge, Validates, Judges, Unchanged
<1>17. CASE Accept
  <2>1. proc.step \in Steps /\ proc.pc = "decide"
    BY <1>17 DEF Inv, PlaceFits, Place, Invocation, Accept
  <2>2. PICK state : Dispose("ACCEPTED", "VALIDATION", state)
    BY <1>17 DEF Accept
  <2> DEFINE next == [Idle EXCEPT !.step = proc.step]
             then == IF state \in Live THEN "drive" ELSE "idle"
             changes == <<Persist(record, proc.step, "ACCEPTED", "VALIDATION"), MoveTo(At(state), proc.step)>>
  <2>3. proc' = Idle \/ Commit(changes, then, next)
    BY <2>2 DEF Dispose, Raise
  <2>4. Len(changes) = 2 /\ then \in {"idle", "drive"}
    OBVIOUS
  <2>5. next \in ProcRecords /\ next.step = proc.step /\ ~next.raw /\ ~next.refused
        /\ next.outcome = "none"
    BY <2>1, IdleFields DEF ProcRecords
  <2> HIDE DEF changes, then, next
  <2>6. proc' = Idle \/ proc' = [next EXCEPT !.pc = "emit", !.then = then]
    BY <2>3, <2>4 DEF Commit, Declare, Raise
  <2>7. ASSUME proc' = [next EXCEPT !.pc = "emit", !.then = then]
        PROVE  Afresh
    BY <2>1, <2>4, <2>5, <2>7 DEF Afresh, ProcRecords
  <2> QED BY <2>6, <2>7, <1>b
<1>18. CASE Reject
  <2>1. proc.step \in Steps /\ proc.pc = "decide"
    BY <1>18 DEF Inv, PlaceFits, Place, Invocation, Reject
  <2>2. PICK state : Dispose("REJECTED", RejectionSource, state)
    BY <1>18 DEF Reject
  <2> DEFINE next == [Idle EXCEPT !.step = proc.step]
             then == IF state \in Live THEN "drive" ELSE "idle"
             changes == <<Persist(record, proc.step, "REJECTED", RejectionSource), MoveTo(At(state), proc.step)>>
  <2>3. proc' = Idle \/ Commit(changes, then, next)
    BY <2>2 DEF Dispose, Raise
  <2>4. Len(changes) = 2 /\ then \in {"idle", "drive"}
    OBVIOUS
  <2>5. next \in ProcRecords /\ next.step = proc.step /\ ~next.raw /\ ~next.refused
        /\ next.outcome = "none"
    BY <2>1, IdleFields DEF ProcRecords
  <2> HIDE DEF changes, then, next
  <2>6. proc' = Idle \/ proc' = [next EXCEPT !.pc = "emit", !.then = then]
    BY <2>3, <2>4 DEF Commit, Declare, Raise
  <2>7. ASSUME proc' = [next EXCEPT !.pc = "emit", !.then = then]
        PROVE  Afresh
    BY <2>1, <2>4, <2>5, <2>7 DEF Afresh, ProcRecords
  <2> QED BY <2>6, <2>7, <1>b
<1>19. CASE LeaveUndecided
  <2>1. proc' = [Idle EXCEPT !.pc = "idle"]
    BY <1>19 DEF LeaveUndecided, Commit
  <2> QED BY <2>1, <1>c
<1>20. CASE AppendConstituent
  <2>1. /\ proc' = [proc EXCEPT !.pc = AfterConstituent(mutation[1]),
                                !.then = IF AfterConstituent(mutation[1]) \in {"emit", "applied"}
                                         THEN @ ELSE "idle"]
        /\ AfterConstituent(mutation[1]) \in {"emit", "applied", proc.then}
        /\ proc.then \in {"idle", "drive", "row", "judge", "retry"}
    BY <1>20 DEF AppendConstituent, AfterConstituent, Inv, MutationFits
  <2> DEFINE pc == AfterConstituent(mutation[1])
  <2> HIDE DEF pc
  <2>2. /\ Keeps /\ proc'.outcome = proc.outcome /\ proc'.pc = pc
        /\ pc \in {"emit", "applied"} => proc'.then = proc.then
    BY <2>1, <1>a DEF ProcRecords, Keeps, pc
  <2> QED BY <1>20, <2>1, <2>2 DEF Proceeds, AppendConstituent, Appends, Unchanged, pc
<1>21. CASE WriteApplied
  <2>1. proc.then \in {"idle", "drive"}
    BY <1>21 DEF WriteApplied, Inv, MutationFits
  <2> QED BY <1>21, <2>1, <1>c DEF WriteApplied
<1>22. CASE PublishArtifact
  <2>1. proc' = Idle \/ proc' = [proc EXCEPT !.pc = "record"]
    BY <1>22 DEF PublishArtifact, Raise
  <2>2. proc' = [proc EXCEPT !.pc = "record"] =>
           /\ Keeps /\ proc'.outcome = proc.outcome
           /\ proc'.pc = "record" /\ proc'.fact = proc.fact /\ proc'.content = proc.content
    BY <1>a DEF ProcRecords, Keeps
  <2> QED BY <1>22, <2>1, <2>2, <1>b DEF Proceeds, PublishArtifact, Published, Unchanged
<1>23. CASE RecordEvent
  <2>1. proc' = Idle \/ proc' = AfterFact(proc.fact)
    BY <1>23 DEF RecordEvent, Raise
  <2>2. proc.fact \in Facts \ {"applied"}
    BY <1>23, ContentTyped, <1>a DEF RecordEvent, Writing, ProcRecords
  <2> QED BY <1>23, <2>1, <2>2, <1>b DEF Proceeds, RecordEvent, Recording, Unchanged
<1>24. CASE Crash
  BY <1>24, <1>b DEF Crash
<1>25. CASE UNCHANGED vars
  BY <1>25 DEF vars, durable
<1> QED
  BY <1>1, <1>2, <1>3, <1>4, <1>5, <1>6, <1>7, <1>8, <1>9, <1>10, <1>11, <1>12, <1>13,
     <1>14, <1>15, <1>16, <1>17, <1>18, <1>19, <1>20, <1>21, <1>22, <1>23, <1>24, <1>25 DEF
     Next

-----------------------------------------------------------------------------
(* Where the command is, and what it knows. *)

\* An artifact stays as it is while a fact is recorded.
LEMMA RecordingKeeps ==
    ASSUME Inv, [Next]_vars, proc.pc = "record"
    PROVE  artifacts' = artifacts
BY ArtifactsChange DEF PublishArtifact, WriteApplied

\* An invocation is of an operation, and a fact is written with its content and recorded
\* when its artifact is there.
LEMMA PlaceFitsNext ==
    ASSUME Inv, [Next]_vars
    PROVE  PlaceFits'
<1>a. /\ Place \in Invocation \/ Writing(Facts) => proc.step \in Steps
      /\ Writing(Facts) => proc.fact # "applied" /\ proc.content # Absent
      /\ proc.pc \in {"entry", "running"} \/ proc.raw \/ Writing(Facts \ {"request"}) =>
            proc.attempt > 0
      /\ proc.pc = "record" =>
            artifacts[Path(proc.step, proc.attempt, proc.fact)] = proc.content
  BY DEF Inv, PlaceFits
<1>b. /\ proc.fact \in Facts /\ proc.attempt \in Nat /\ artifacts \in [Paths -> Contents]
      /\ Absent \notin Nat
  BY ProcTyped, AttemptAssumption DEF Inv, TypeOK, Absent
<1>1. CASE proc' = proc
  <2>1. proc.pc = "record" => artifacts' = artifacts
    BY RecordingKeeps
  <2> QED BY <1>1, <1>a, <2>1 DEF PlaceFits, Place, Writing
<1>2. CASE Afresh
  BY <1>2, <1>b DEF Afresh, Publishes, PlaceFits, Place, Writing, Invocation, Facts
<1>3. CASE Proceeds

  <2>1. CASE Waits
    BY <2>1, <1>a, <1>b DEF Waits, Unchanged, Keeps, Reaches, PlaceFits, Place, Writing,
       Invocation, Facts
  <2>2. CASE HasRow
    BY <2>2, <1>a, <1>b DEF HasRow, Unchanged, Keeps, PlaceFits, Place, Writing, Invocation,
       Facts
  <2>3. CASE Intends
    BY <2>3, <1>a, <1>b, AttemptsTyped DEF Intends, Publishes, PlaceFits, Place, Writing,
       Invocation, Facts, Inv
  <2>4. CASE IsRefused
    BY <2>4, <1>a, <1>b DEF IsRefused, Keeps, PlaceFits, Place, Writing, Invocation, Facts
  <2>5. CASE Creates
    BY <2>5, <1>a, <1>b DEF Creates, Unchanged, Keeps, Publishes, PlaceFits, Place, Writing,
       Invocation, Facts
  <2>6. CASE CreatesNone
    BY <2>6, <1>a, <1>b DEF CreatesNone, Keeps, Publishes, PlaceFits, Place, Writing,
       Invocation, Facts
  <2>7. CASE Returns
    BY <2>7, <1>a, <1>b DEF Returns, Keeps, Publishes, PlaceFits, Place, Writing,
       Invocation, Facts
  <2>8. CASE TriesAgain
    BY <2>8, <1>a, <1>b DEF TriesAgain, Unchanged, Keeps, Reaches, PlaceFits, Place,
       Writing, Invocation, Facts
  <2>9. CASE Settled
    BY <2>9, <1>a, <1>b DEF Settled, Unchanged, Keeps, Reaches, PlaceFits, Place, Writing,
       Invocation, Facts
  <2>10. CASE Retries
    BY <2>10, <1>a, <1>b DEF Retries, Unchanged, Keeps, PlaceFits, Place, Writing,
       Invocation, Facts
  <2>11. CASE Validates
    BY <2>11, <1>a, <1>b DEF Validates, Unchanged, Keeps, Publishes, PlaceFits, Place,
       Writing, Invocation, Facts
  <2>12. CASE Judges
    BY <2>12, <1>a, <1>b DEF Judges, Unchanged, Keeps, PlaceFits, Place, Writing,
       Invocation, Facts
  <2>13. CASE Published
    <3>1. proc.step \in Steps /\ Writing(Facts) /\ proc.attempt \in 0 .. MaxOperationAttempts
      BY <2>13, <1>a, <1>b, ProcTyped DEF Published, Writing, Inv
    <3>2. Path(proc.step, proc.attempt, proc.fact) \in Paths
      BY <3>1, <1>b, PathFacts
    <3>3. artifacts'[Path(proc.step, proc.attempt, proc.fact)] = proc.content
      BY <2>13, <3>2, <1>b, IdleFields DEF Published, PublishArtifact, Raise
    <3> QED
      BY <2>13, <3>1, <3>3, <1>a, <1>b DEF Published, Unchanged, Keeps, PlaceFits, Place, Writing,
         Invocation
  <2>14. CASE Recording
    <3>1. /\ proc'.step = proc.step /\ proc'.attempt = proc.attempt
          /\ proc'.pc \in {"boundary", "entry", "running", "settle", "decide"}
          /\ proc'.raw = (proc.raw \/ proc.fact = "raw")
          /\ proc'.pc \in {"entry", "running"} => proc.fact # "request"
      BY <2>14, AfterFactFields DEF Recording, Facts
    <3>2. Writing(Facts)
      BY <2>14, <1>b DEF Recording, Writing
    <3> QED
      BY <3>1, <3>2, <1>a, <1>b DEF PlaceFits, Place, Writing, Invocation
  <2>15. CASE Appends
    BY <2>15, <1>a, <1>b DEF Appends, Unchanged, Keeps, PlaceFits, Place, Writing,
       Invocation, Facts
  <2> QED
    BY <1>3, <2>1, <2>2, <2>3, <2>4, <2>5, <2>6, <2>7, <2>8, <2>9, <2>10, <2>11, <2>12,
       <2>13, <2>14, <2>15 DEF Proceeds
<1> QED BY <1>1, <1>2, <1>3, CommandStep

\* A dispatch has a verdict only of a received result, and no refusal then.
LEMMA ResultFitsNext ==
    ASSUME Inv, [Next]_vars
    PROVE  ResultFits'
<1>a. /\ ~(proc.raw /\ proc.refused)
      /\ proc.raw \/ Writing({"raw"}) => proc.outcome \in Verdicts
      /\ \/ Place \in {"boundary", "row", "before_spawn", "entry", "retry", "running"}
         \/ Writing(Facts \ {"validated"})
         => ~proc.raw
      /\ \/ proc.pc \in {"entry", "running"}
         \/ Writing({"intent", "receipt", "pre-spawn", "raw"})
         => ~proc.refused
      /\ Writing({"validated"}) => proc.raw
  BY DEF Inv, ResultFits
<1>b. /\ proc.fact \in Facts /\ \A result \in Results : Verdict(result) \in Verdicts
      /\ proc.refused \in BOOLEAN /\ proc.raw \in BOOLEAN
  BY ProcTyped DEF Inv, Results, Verdict, Verdicts, ProcRecords
<1>1. CASE proc' = proc
  BY <1>1, <1>a DEF ResultFits, Place, Writing
<1>2. CASE Afresh
  BY <1>2 DEF Afresh, Publishes, ResultFits, Place, Writing, Facts
<1>3. CASE Proceeds

  <2>1. CASE Waits
    BY <2>1, <1>a, <1>b DEF Waits, Unchanged, Keeps, Reaches, ResultFits, Place, Writing,
       Facts
  <2>2. CASE HasRow
    BY <2>2, <1>a, <1>b DEF HasRow, Unchanged, Keeps, ResultFits, Place, Writing, Facts
  <2>3. CASE Intends
    BY <2>3, <1>a, <1>b DEF Intends, Publishes, ResultFits, Place, Writing, Facts
  <2>4. CASE IsRefused
    BY <2>4, <1>a, <1>b DEF IsRefused, Keeps, ResultFits, Place, Writing, Facts
  <2>5. CASE Creates
    BY <2>5, <1>a, <1>b DEF Creates, Unchanged, Keeps, Publishes, ResultFits, Place,
       Writing, Facts
  <2>6. CASE CreatesNone
    BY <2>6, <1>a, <1>b DEF CreatesNone, Keeps, Publishes, ResultFits, Place, Writing, Facts
  <2>7. CASE Returns
    BY <2>7, <1>a, <1>b DEF Returns, Keeps, Publishes, ResultFits, Place, Writing, Facts
  <2>8. CASE TriesAgain
    BY <2>8, <1>a, <1>b DEF TriesAgain, Unchanged, Keeps, Reaches, ResultFits, Place,
       Writing, Facts
  <2>9. CASE Settled
    BY <2>9, <1>a, <1>b DEF Settled, Unchanged, Keeps, Reaches, ResultFits, Place, Writing,
       Facts
  <2>10. CASE Retries
    BY <2>10, <1>a, <1>b DEF Retries, Unchanged, Keeps, ResultFits, Place, Writing, Facts
  <2>11. CASE Validates
    BY <2>11, <1>a, <1>b DEF Validates, Unchanged, Keeps, Publishes, ResultFits, Place,
       Writing, Facts
  <2>12. CASE Judges
    BY <2>12, <1>a, <1>b DEF Judges, Unchanged, Keeps, ResultFits, Place, Writing, Facts
  <2>13. CASE Published
    BY <2>13, <1>a, <1>b DEF Published, Unchanged, Keeps, ResultFits, Place, Writing, Facts
  <2>14. CASE Recording
    <3>1. /\ proc'.outcome = proc.outcome /\ proc'.fact = proc.fact
          /\ proc'.raw = (proc.raw \/ proc.fact = "raw")
          /\ proc'.refused = (proc.refused \/ proc.fact = "pre-spawn")
          /\ proc.fact = "request" => proc'.pc = "boundary"
          /\ proc.fact = "intent" => proc'.pc = "entry"
          /\ proc.fact = "receipt" => proc'.pc = "running"
          /\ proc.fact \in {"pre-spawn", "raw"} => proc'.pc = "settle"
          /\ proc.fact = "validated" => proc'.pc = "decide"
      BY <2>14, AfterFactFields DEF Recording
    <3>2. /\ proc.pc = "record"
          /\ proc.fact \in {"request", "intent", "receipt", "pre-spawn", "raw", "validated"}
      BY <2>14 DEF Recording, Facts
    <3>3. CASE proc.fact = "request"
      BY <3>1, <3>2, <3>3, <1>a, <1>b DEF ResultFits, Place, Writing
    <3>4. CASE proc.fact \in {"intent", "receipt"}
      BY <3>1, <3>2, <3>4, <1>a, <1>b DEF ResultFits, Place, Writing
    <3>5. CASE proc.fact \in {"pre-spawn", "raw"}
      BY <3>1, <3>2, <3>5, <1>a, <1>b DEF ResultFits, Place, Writing
    <3>6. CASE proc.fact = "validated"
      BY <3>1, <3>2, <3>6, <1>a, <1>b DEF ResultFits, Place, Writing
    <3> QED BY <3>2, <3>3, <3>4, <3>5, <3>6
  <2>15. CASE Appends
    BY <2>15, <1>a, <1>b DEF Appends, Unchanged, Keeps, ResultFits, Place, Writing, Facts
  <2> QED
    BY <1>3, <2>1, <2>2, <2>3, <2>4, <2>5, <2>6, <2>7, <2>8, <2>9, <2>10, <2>11, <2>12,
       <2>13, <2>14, <2>15 DEF Proceeds
<1> QED BY <1>1, <1>2, <1>3, CommandStep

-----------------------------------------------------------------------------
(* The processes of an operation. *)

\* A process is of an operation that is known and has attempts.
LEMMA ProcessTyped ==
    ASSUME Inv, NEW p \in processes
    PROVE  /\ p.step \in Steps /\ p.attempt \in Nat \ {0}
           /\ p = [step |-> p.step, attempt |-> p.attempt, result |-> p.result]
           /\ p.attempt = Len(Attempts(p.step)) /\ Last(p.step).refused = Absent
           /\ Attempts(p.step) # <<>> /\ Known(p.step)
<1>1. p \in [step : Steps, attempt : 1 .. MaxOperationAttempts, result : Results \union {"none"}]
  BY DEF Inv, TypeOK
<1>2. /\ p.step \in Steps /\ p.attempt \in Nat \ {0}
      /\ p = [step |-> p.step, attempt |-> p.attempt, result |-> p.result]
  BY <1>1, AttemptAssumption
<1>3. p.attempt = Len(Attempts(p.step)) /\ Last(p.step).refused = Absent
  BY DEF Inv, OneProcessPerOperation
<1>4. Attempts(p.step) # <<>>
  BY <1>2, <1>3, AttemptsTyped DEF Inv
<1>5. Known(p.step)
  BY <1>4, NewRecords DEF Known, Attempts
<1> QED BY <1>2, <1>3, <1>4, <1>5

\* Once an operation has a process its attempts are no more, and the last is not refused.
LEMMA DispatchedKept ==
    ASSUME Inv, [Next]_vars, NEW p \in processes
    PROVE  LET after == operations'[p.step].attempts IN
           /\ Len(after) = Len(Attempts(p.step)) /\ after[Len(after)].refused = Absent
           /\ after # <<>>
<1> DEFINE s == p.step
           after == operations'[s].attempts
<1>1. /\ s \in Steps /\ Attempts(s) # <<>> /\ Known(s) /\ Last(s).refused = Absent
  BY ProcessTyped
<1>2. CASE operations'[s].attempts = Attempts(s)
  BY <1>1, <1>2 DEF Last
<1>3. CASE RecordEvent /\ operations' # operations /\ s = proc.step
  <2>1. /\ proc.fact # "request" /\ Writing(Facts)
    BY <1>1, <1>3, RecordedStep
  <2>2. proc.fact # "intent"
    BY <1>1, <1>3, <2>1, RecordedAttempt
  <2>3. proc.fact # "pre-spawn"
    BY <1>3, <2>1 DEF Inv, DispatchFits, Writing
  <2>4. proc.fact \in Facts \ {"request", "intent"}
    BY <2>1, <2>2, ContentTyped
  <2>5. After(Last(s), proc.fact, proc.content, proc.outcome).refused = Last(s).refused
    BY <1>3, <2>3, <2>4, AfterTyped
  <2>6. /\ Len(after) = Len(Attempts(s)) /\ after # <<>>
        /\ after[Len(after)] = After(Last(s), proc.fact, proc.content, proc.outcome)
    BY <1>3, <2>4, RecordedAttempts
  <2> QED BY <1>1, <2>5, <2>6
<1> QED BY <1>1, <1>2, <1>3, OperationChanges DEF Attempts

\* An operation has one process at most, of its last attempt.
LEMMA OneProcessNext ==
    ASSUME Inv, [Next]_vars
    PROVE  OneProcessPerOperation'
<1>1. SUFFICES ASSUME NEW p \in processes'
               PROVE  /\ \A q \in processes' : q.step = p.step => q = p
                      /\ p.attempt = Len(operations'[p.step].attempts)
                      /\ operations'[p.step].attempts[Len(operations'[p.step].attempts)].refused
                            = Absent
  BY DEF OneProcessPerOperation, Attempts, Last
<1>2. \A q, r \in processes : q.step = r.step => q = r
  BY DEF Inv, OneProcessPerOperation
<1>3. CASE processes' = processes
  <2>1. p.attempt = Len(Attempts(p.step))
    BY <1>3, ProcessTyped
  <2> QED BY <1>2, <1>3, <2>1, DispatchedKept
<1>4. CASE SpawnEntry /\ processes' # processes
  <2> DEFINE created == [step |-> proc.step, attempt |-> proc.attempt, result |-> "none"]
  <2>1. /\ proc.pc = "entry" /\ operations' = operations
        /\ processes' = processes \union {created}
    BY <1>4 DEF SpawnEntry, durable
  <2>2. /\ Intended(proc.step) /\ proc.attempt = Len(Attempts(proc.step))
        /\ \A q \in processes : q.step # proc.step
    BY <2>1 DEF Inv, DispatchFits
  <2>3. CASE p \in processes
    <3>1. p.attempt = Len(Attempts(p.step))
      BY <2>3, ProcessTyped
    <3>2. \A q \in processes' : q.step = p.step => q = p
      BY <1>2, <2>1, <2>2, <2>3
    <3> QED BY <2>3, <3>1, <3>2, DispatchedKept
  <2>4. CASE p = created
    BY <2>1, <2>2, <2>4 DEF Intended, Attempts, Last
  <2> QED BY <2>1, <2>3, <2>4
<1>5. CASE ProcessReturns
  <2>1. PICK result \in Results :
           processes' = {IF q.step = proc.step /\ q.attempt = proc.attempt
                         THEN [q EXCEPT !.result = result] ELSE q : q \in processes}
    BY <1>5 DEF ProcessReturns
  <2> DEFINE Of(q) == IF q.step = proc.step /\ q.attempt = proc.attempt
                      THEN [q EXCEPT !.result = result] ELSE q
  <2>2. \A q \in processes : Of(q).step = q.step /\ Of(q).attempt = q.attempt
    BY ProcessTyped
  <2>3. processes' = {Of(q) : q \in processes}
    BY <2>1
  <2> HIDE DEF Of
  <2>4. PICK was \in processes : p = Of(was)
    BY <2>3
  <2>5. \A q \in processes' : q.step = p.step => q = p
    BY <1>2, <2>2, <2>3, <2>4
  <2>6. was.attempt = Len(Attempts(was.step))
    BY ProcessTyped
  <2> QED BY <2>2, <2>4, <2>5, <2>6, DispatchedKept
<1> QED BY <1>3, <1>4, <1>5, ProcessesChange

-----------------------------------------------------------------------------
(* The dispatch. *)

\* A command that stays where it is in an invocation leaves operations and processes alone.
LEMMA StayingKeeps ==
    ASSUME Inv, [Next]_vars, proc' = proc, proc.pc \in {"entry", "running", "publish", "record"}
    PROVE  operations' = operations /\ processes' = processes
<1>a. proc \in ProcRecords
  BY DEF Inv, TypeOK
<1>1. ~AppendConstituent
  BY DEF AppendConstituent
<1>2. ~SpawnEntry
  BY <1>a, IdleFields DEF SpawnEntry, Raise, Publish, ProcRecords
<1>3. ~ProcessReturns
  <2>1. ASSUME ProcessReturns PROVE FALSE
    <3>1. PICK outcome : Publish("raw", commands, [proc EXCEPT !.outcome = outcome])
      BY <2>1 DEF ProcessReturns
    <3>2. proc'.pc = "publish"
      BY <3>1, <1>a DEF Publish, ProcRecords
    <3> QED BY <2>1, <3>2 DEF ProcessReturns
  <2> QED BY <2>1
<1>4. ~RecordEvent
  <2>1. ASSUME RecordEvent PROVE FALSE
    <3>1. proc.fact \in Facts \ {"applied"} /\ proc.pc = "record"
      BY <2>1, <1>a, ContentTyped DEF RecordEvent, Writing, ProcRecords
    <3>2. AfterFact(proc.fact).pc # "record"
      BY <3>1, AfterFactFields DEF Facts
    <3> QED BY <2>1, <3>1, <3>2, IdleFields DEF RecordEvent, Raise
  <2> QED BY <2>1
<1> QED BY <1>1, <1>2, <1>3, <1>4, OperationsChange, ProcessesChange

\* Where a command goes on after its fact, the fact is recorded: it was new, unless it
\* was the request of an operation that is known.
LEMMA RecordingChanges ==
    ASSUME Inv, Recording
    PROVE  /\ proc.step \in Steps /\ proc.pc = "record" /\ Writing(Facts)
           /\ processes' = processes
           /\ proc.fact # "request" => operations' # operations
<1>1. proc.step \in Steps /\ proc.pc = "record" /\ Writing(Facts)
  <2>1. Writing(Facts)
    BY ProcTyped DEF Recording, Writing, Inv
  <2> QED BY <2>1, ContentTyped DEF Recording
<1>2. processes' = processes
  BY DEF Recording, RecordEvent
<1>3. /\ proc.content \in Nat /\ proc.content # Absent
      /\ proc.fact \in Facts \ {"applied"}
  BY <1>1, ContentTyped
<1>4. proc'.pc # "idle"
  <2>1. AfterFact(proc.fact).pc # "idle"
    BY <1>3, AfterFactFields DEF Facts
  <2> QED BY <2>1 DEF Recording
<1>5. /\ Admits(proc.step, proc.attempt, proc.fact, proc.content)
      /\ operations' = Recorded(proc.step, proc.attempt, proc.fact, proc.content, proc.outcome)
  BY <1>4, IdleFields DEF Recording, RecordEvent, Raise
<1>6. /\ DOMAIN operations = Steps /\ operations[proc.step] \in OperationRecords
      /\ Attempts(proc.step) = operations[proc.step].attempts
      /\ Attempts(proc.step) \in Seq(AttemptRecords)
      /\ Attempts(proc.step) # <<>> => Len(Attempts(proc.step)) \in DOMAIN Attempts(proc.step)
  BY <1>1, AttemptsTyped DEF Inv, TypeOK, Attempts
<1>7. ASSUME proc.fact # "request" PROVE operations' # operations
  <2>1. CASE proc.fact = "intent"
    <3>1. operations'[proc.step].attempts = Append(Attempts(proc.step), NewAttempt(proc.content))
      BY <1>1, <1>5, <1>6, <2>1 DEF Recorded, OperationRecords
    <3>2. Len(Append(Attempts(proc.step), NewAttempt(proc.content))) = Len(Attempts(proc.step)) + 1
      BY <1>6
    <3> QED BY <3>1, <3>2, <1>6
  <2>2. CASE proc.fact # "intent"
    <3>1. /\ Attempts(proc.step) # <<>> /\ proc.attempt = Len(Attempts(proc.step))
          /\ proc.fact = "receipt" => Last(proc.step).receipt = Absent
          /\ proc.fact = "pre-spawn" => Last(proc.step).refused = Absent
          /\ proc.fact = "raw" => Last(proc.step).raw = Absent
          /\ proc.fact = "validated" => Last(proc.step).validated = Absent
      BY <1>3, <1>5, <1>7, <2>2 DEF Admits, Facts
    <3>2. /\ proc.attempt \in DOMAIN Attempts(proc.step)
          /\ Last(proc.step) = Attempts(proc.step)[proc.attempt]
          /\ Last(proc.step) \in AttemptRecords
      BY <3>1, <1>1, AttemptsTyped DEF Inv, Last
    <3>3. CASE proc.fact = "receipt"
      <4>1. operations'[proc.step].attempts[proc.attempt].receipt = proc.content
        BY <3>2, <3>3, <1>1, <1>5, <1>6 DEF Recorded, OperationRecords, AttemptRecords
      <4> QED BY <4>1, <3>1, <3>2, <3>3, <1>3, <1>6
    <3>4. CASE proc.fact = "pre-spawn"
      <4>1. operations'[proc.step].attempts[proc.attempt].refused = proc.content
        BY <3>2, <3>4, <1>1, <1>5, <1>6 DEF Recorded, OperationRecords, AttemptRecords
      <4> QED BY <4>1, <3>1, <3>2, <3>4, <1>3, <1>6
    <3>5. CASE proc.fact = "raw"
      <4>1. operations'[proc.step].attempts[proc.attempt].raw = proc.content
        BY <3>2, <3>5, <1>1, <1>5, <1>6 DEF Recorded, OperationRecords, AttemptRecords
      <4> QED BY <4>1, <3>1, <3>2, <3>5, <1>3, <1>6
    <3>6. CASE proc.fact = "validated"
      <4>1. operations'[proc.step].attempts[proc.attempt].validated = proc.content
        BY <3>2, <3>6, <1>1, <1>5, <1>6 DEF Recorded, OperationRecords, AttemptRecords
      <4> QED BY <4>1, <3>1, <3>2, <3>6, <1>3, <1>6
    <3> QED BY <3>3, <3>4, <3>5, <3>6, <1>3, <1>7, <2>2 DEF Facts
  <2> QED BY <2>1, <2>2
<1> QED BY <1>1, <1>2, <1>7

\* A command creates a process only for the last attempt, which is intended and has none,
\* and waits for the process of the attempt it works on.
LEMMA DispatchFitsNext ==
    ASSUME Inv, [Next]_vars
    PROVE  DispatchFits'
<1>a. /\ proc.pc = "entry" \/ Writing({"pre-spawn"}) =>
            /\ Intended(proc.step) /\ proc.attempt = Len(Attempts(proc.step))
            /\ \A p \in processes : p.step # proc.step
      /\ proc.pc = "running" \/ Writing({"receipt", "raw"}) =>
            \E p \in processes : p.step = proc.step /\ p.attempt = proc.attempt
      /\ proc.pc = "running" \/ Writing({"raw"}) =>
            /\ operations[proc.step].persisted = "none" /\ Attempts(proc.step) # <<>>
            /\ Last(proc.step).raw = Absent
  BY DEF Inv, DispatchFits
<1>b. proc \in ProcRecords
  BY DEF Inv, TypeOK
<1>c. ASSUME proc'.pc \notin {"entry", "running"},
             proc'.pc \in {"publish", "record"} => proc'.fact \in {"request", "intent", "validated"}
      PROVE  DispatchFits'
  BY <1>c DEF DispatchFits, Writing
<1>d. ASSUME proc'.step = proc.step, proc'.attempt = proc.attempt,
             operations' = operations, processes' = processes,
             proc'.pc \notin {"entry", "running"},
             Writing({"pre-spawn"})' => proc.pc = "entry" \/ Writing({"pre-spawn"}),
             Writing({"receipt"})' => Writing({"receipt"}),
             Writing({"raw"})' => Writing({"raw"})
      PROVE  DispatchFits'
  BY <1>d, <1>a DEF DispatchFits, Intended, Known, Attempts, Last, Writing
<1>1. CASE proc' = proc
  <2>1. CASE proc.pc \in {"entry", "running", "publish", "record"}
    <3>1. operations' = operations /\ processes' = processes
      BY <1>1, <2>1, StayingKeeps
    <3> QED BY <1>1, <3>1, <1>a DEF DispatchFits, Intended, Known, Attempts, Last, Writing
  <2>2. CASE proc.pc \notin {"entry", "running", "publish", "record"}
    BY <1>1, <2>2, <1>c
  <2> QED BY <2>1, <2>2
<1>2. CASE Afresh
  <2>1. /\ proc'.pc \notin {"entry", "running"}
        /\ proc'.pc \in {"publish", "record"} => proc'.fact = "request"
    BY <1>2 DEF Afresh, Publishes
  <2> QED BY <2>1, <1>c
<1>3. CASE Proceeds

  <2>1. CASE Waits
    BY <2>1, <1>c DEF Waits, Unchanged, Keeps, Reaches
  <2>2. CASE HasRow
    BY <2>2, <1>c DEF HasRow, Unchanged, Keeps
  <2>3. CASE Intends
    BY <2>3, <1>c DEF Intends, Publishes
  <2>4. CASE IsRefused
    BY <2>4, <1>c DEF IsRefused, Keeps
  <2>5. CASE Creates
    <3>1. /\ proc'.pc = "publish" /\ proc'.fact = "receipt"
          /\ proc'.step = proc.step /\ proc'.attempt = proc.attempt
      BY <2>5 DEF Creates, Unchanged, Keeps, Publishes
    <3>2. [step |-> proc.step, attempt |-> proc.attempt, result |-> "none"] \in processes'
      BY <2>5, <3>1, <1>b, IdleFields DEF Creates, SpawnEntry, Publish, Raise, ProcRecords
    <3>3. \E p \in processes' : p.step = proc.step /\ p.attempt = proc.attempt
      BY <3>2
    <3> QED BY <3>1, <3>3 DEF DispatchFits, Writing
  <2>6. CASE CreatesNone
    <3>1. /\ proc'.pc = "publish" /\ proc'.fact = "pre-spawn" /\ proc.pc = "entry"
          /\ proc'.step = proc.step /\ proc'.attempt = proc.attempt
      BY <2>6 DEF CreatesNone, Keeps, Publishes
    <3>2. processes' = processes /\ operations' = operations
      BY <2>6, <3>1, <1>b, IdleFields DEF CreatesNone, SpawnEntry, Publish, Raise, ProcRecords, durable
    <3> QED BY <3>1, <3>2, <1>d DEF Writing
  <2>7. CASE Returns
    <3>1. /\ proc'.pc = "publish" /\ proc'.fact = "raw" /\ proc.pc = "running"
          /\ proc'.step = proc.step /\ proc'.attempt = proc.attempt
      BY <2>7 DEF Returns, Keeps, Publishes
    <3>2. PICK p \in processes : p.step = proc.step /\ p.attempt = proc.attempt
      BY <3>1, <1>a
    <3>3. PICK result \in Results :
             processes' = {IF q.step = proc.step /\ q.attempt = proc.attempt
                           THEN [q EXCEPT !.result = result] ELSE q : q \in processes}
      BY <2>7 DEF Returns, ProcessReturns
    <3>4. [p EXCEPT !.result = result] \in processes'
      BY <3>2, <3>3
    <3>5. /\ [p EXCEPT !.result = result].step = proc.step
          /\ [p EXCEPT !.result = result].attempt = proc.attempt
      BY <3>2, ProcessTyped
    <3>6. operations' = operations
      BY <2>7 DEF Returns, ProcessReturns, durable
    <3> QED BY <3>1, <3>4, <3>5, <3>6, <1>a DEF DispatchFits, Writing, Attempts, Last
  <2>8. CASE TriesAgain
    BY <2>8, <1>c DEF TriesAgain, Unchanged, Keeps, Reaches
  <2>9. CASE Settled
    BY <2>9, <1>c DEF Settled, Unchanged, Keeps, Reaches
  <2>10. CASE Retries
    BY <2>10, <1>c DEF Retries, Unchanged, Keeps
  <2>11. CASE Validates
    BY <2>11, <1>c DEF Validates, Unchanged, Keeps, Publishes
  <2>12. CASE Judges
    BY <2>12, <1>c DEF Judges, Unchanged, Keeps
  <2>13. CASE Published
    <3>1. processes' = processes /\ operations' = operations
      BY <2>13 DEF Published, PublishArtifact
    <3>2. /\ proc.pc = "publish" /\ proc'.pc = "record" /\ proc'.fact = proc.fact
          /\ proc'.step = proc.step /\ proc'.attempt = proc.attempt
      BY <2>13 DEF Published, Unchanged, Keeps
    <3> QED BY <3>1, <3>2, <1>d DEF Writing
  <2>14. CASE Recording
    <3> DEFINE s == proc.step
    <3>1. /\ s \in Steps /\ proc.pc = "record" /\ Writing(Facts) /\ processes' = processes
          /\ proc.fact # "request" => operations' # operations
          /\ RecordEvent /\ proc.fact \in Facts \ {"applied"}
      BY <2>14, RecordingChanges DEF Recording
    <3>2. /\ proc'.step = s /\ proc'.attempt = proc.attempt /\ proc'.fact = proc.fact
          /\ proc.fact = "request" => proc'.pc = "boundary"
          /\ proc.fact = "intent" => proc'.pc = "entry"
          /\ proc.fact = "receipt" => proc'.pc = "running"
          /\ proc.fact \in {"pre-spawn", "raw"} => proc'.pc = "settle"
          /\ proc.fact = "validated" => proc'.pc = "decide"
      BY <2>14, AfterFactFields DEF Recording
    <3>3. CASE proc.fact = "intent"
      <4> DEFINE after == operations'[s].attempts
      <4>1. /\ Known(s) /\ operations[s].persisted = "none" /\ operations[s] \in OperationRecords
            /\ operations'[s] = [operations[s] EXCEPT !.attempts = after]
        BY <3>1, <3>3, RecordedStep DEF Inv, TypeOK
      <4>2. operations'[s].persisted = "none"
        BY <4>1 DEF OperationRecords
      <4>3. /\ proc.attempt = Len(after) /\ after[Len(after)] = NewAttempt(proc.content)
            /\ Len(after) = Len(Attempts(s)) + 1
        BY <3>1, <3>3, RecordedAttempts
      <4>4. after # <<>>
        BY <3>1, <4>3, AttemptsTyped DEF Inv
      <4>5. operations'[s] # NoOperation
        BY <4>2, NewRecords
      <4>6. \A p \in processes : p.step # s
        <5>1. Attempts(s) # <<>> => Last(s).refused # Absent
          BY <3>1, <3>3, RecordedAttempt
        <5> QED BY <5>1, ProcessTyped
      <4>7. NewAttempt(proc.content).receipt = Absent /\ NewAttempt(proc.content).refused = Absent
        BY DEF NewAttempt
      <4>8. proc'.pc = "entry"
        BY <3>2, <3>3
      <4>9. /\ Intended(proc.step)' /\ proc'.attempt = Len(Attempts(proc.step))'
            /\ \A p \in processes' : p.step # proc'.step
        BY <3>1, <3>2, <4>2, <4>3, <4>4, <4>5, <4>6, <4>7 DEF Intended, Known, Attempts, Last
      <4> QED BY <4>8, <4>9 DEF DispatchFits, Writing
    <3>4. CASE proc.fact = "receipt"
      <4> DEFINE after == operations'[s].attempts
      <4>1. /\ operations[s].persisted = "none" /\ operations[s] \in OperationRecords
            /\ operations'[s] = [operations[s] EXCEPT !.attempts = after]
        BY <3>1, <3>4, RecordedStep DEF Inv, TypeOK
      <4>2. operations'[s].persisted = "none"
        BY <4>1 DEF OperationRecords
      <4>3. /\ after # <<>> /\ Attempts(s) # <<>>
            /\ after[Len(after)] = After(Last(s), proc.fact, proc.content, proc.outcome)
        BY <3>1, <3>4, RecordedAttempts
      <4>4. After(Last(s), proc.fact, proc.content, proc.outcome).raw = Last(s).raw
        BY <3>1, <3>4, AfterTyped
      <4>5. Last(s).receipt = Absent
        BY <3>1, <3>4, RecordedAttempt
      <4>6. OnLadder(Last(s))
        BY <3>1, <4>3, AttemptsTyped DEF Inv, Ladder, Last
      <4>7. Last(s).raw = Absent
        BY <4>5, <4>6 DEF OnLadder
      <4>8. \E p \in processes : p.step = s /\ p.attempt = proc.attempt
        BY <3>1, <3>4, <1>a DEF Writing
      <4>9. proc'.pc = "running"
        BY <3>2, <3>4
      <4> QED
        BY <3>1, <3>2, <4>2, <4>3, <4>4, <4>7, <4>8, <4>9 DEF DispatchFits, Writing, Attempts, Last
    <3>5. CASE proc.fact \notin {"intent", "receipt"}
      <4>1. proc'.pc \in {"boundary", "settle", "decide"}
        BY <3>1, <3>2, <3>5 DEF Facts
      <4> QED BY <4>1, <1>c
    <3> QED BY <3>3, <3>4, <3>5
  <2>15. CASE Appends
    BY <2>15, <1>c DEF Appends, Unchanged, Keeps
  <2> QED
    BY <1>3, <2>1, <2>2, <2>3, <2>4, <2>5, <2>6, <2>7, <2>8, <2>9, <2>10, <2>11, <2>12,
       <2>13, <2>14, <2>15 DEF Proceeds
<1> QED BY <1>1, <1>2, <1>3, CommandStep

-----------------------------------------------------------------------------
(* The answers. *)

\* An answer stays, unless the command waits for a process of the operation again.
LEMMA AnsweredKept ==
    ASSUME Inv, [Next]_vars, NEW s, Answered(s), ProcessReturns => s # proc.step
    PROVE  \E p \in processes' : p.step = s /\ p.result = "answer"
<1>1. PICK p \in processes : p.step = s /\ p.result = "answer"
  BY DEF Answered
<1>2. CASE SpawnEntry
  BY <1>1, <1>2 DEF SpawnEntry
<1>3. CASE ProcessReturns
  BY <1>1, <1>3 DEF ProcessReturns
<1>4. CASE processes' = processes
  BY <1>1, <1>4
<1> QED BY <1>2, <1>3, <1>4, ProcessesChange

\* While a command waits for a process nothing is known of its attempt.
LEMMA WaitingKnowsNothing ==
    ASSUME Inv, ProcessReturns
    PROVE  /\ proc.step \in Steps /\ ~Accepted(proc.step)
           /\ Last(proc.step).verdict # "VALID"
<1>1. proc.pc = "running"
  BY DEF ProcessReturns
<1>2. proc.step \in Steps
  BY <1>1 DEF Inv, PlaceFits, Place, Invocation
<1>3. /\ operations[proc.step].persisted = "none" /\ Attempts(proc.step) # <<>>
      /\ Last(proc.step).raw = Absent
  BY <1>1 DEF Inv, DispatchFits
<1>4. OnLadder(Last(proc.step))
  BY <1>2, <1>3, AttemptsTyped DEF Inv, Ladder, Last
<1>5. Last(proc.step).verdict = NoVerdict
  BY <1>3, <1>4 DEF OnLadder
<1> QED BY <1>2, <1>3, <1>5 DEF Accepted, NoVerdict

\* The result an operation is accepted for was answered by a process of it.
LEMMA AcceptedAnswered ==
    ASSUME Inv, Persisting, mutation[1].disposition = "ACCEPTED"
    PROVE  Answered(proc.step)
<1>1. /\ proc.step \in Steps
      /\ CanPersist(proc.step, "ACCEPTED", mutation[1].source)
      /\ mutation[1].source = "VALIDATION"
  BY DEF Persisting, Settles
<1>2. Attempts(proc.step) # <<>> /\ Last(proc.step).verdict = "VALID"
  BY <1>1 DEF CanPersist, Evidenced
<1> QED BY <1>1, <1>2 DEF Inv, AnswersFit

\* A verdict the chain holds is of an answer.
LEMMA VerdictsNext ==
    ASSUME Inv, [Next]_vars, NEW s \in Steps,
           operations'[s].attempts # <<>>,
           operations'[s].attempts[Len(operations'[s].attempts)].verdict = "VALID"
    PROVE  \E p \in processes' : p.step = s /\ p.result = "answer"
<1> DEFINE after == operations'[s].attempts
<1>1. CASE after = Attempts(s)
  <2>1. Answered(s)
    BY <1>1 DEF Inv, AnswersFit, Last
  <2>2. ProcessReturns => s # proc.step
    BY <1>1, WaitingKnowsNothing DEF Last
  <2> QED BY <2>1, <2>2, AnsweredKept
<1>2. CASE RecordEvent /\ operations' # operations /\ s = proc.step
  <2>1. /\ Writing(Facts) /\ proc.fact \in Facts \ {"applied"} /\ ~ProcessReturns
    BY <1>2, RecordedStep, ContentTyped DEF RecordEvent, ProcessReturns
  <2>2. proc.fact # "request"
    BY <1>2, RecordedAttempts
  <2>3. proc.fact # "intent"
    <3>1. proc.fact = "intent" => after[Len(after)] = NewAttempt(proc.content)
      BY <1>2, RecordedAttempts
    <3>2. NewAttempt(proc.content).verdict # "VALID"
      BY DEF NewAttempt, NoVerdict
    <3> QED BY <3>1, <3>2
  <2>4. /\ Attempts(s) # <<>>
        /\ after[Len(after)] = After(Last(s), proc.fact, proc.content, proc.outcome)
    BY <1>2, <2>2, <2>3, RecordedAttempts
  <2>5. CASE proc.fact = "validated"
    <3>1. proc.outcome = "VALID"
      BY <1>2, <2>4, <2>5, AfterTyped DEF Facts
    <3>2. Answered(s)
      BY <1>2, <3>1 DEF Inv, AnswersFit
    <3> QED BY <2>1, <3>2, AnsweredKept
  <2>6. CASE proc.fact # "validated"
    <3>1. proc.fact \in Facts \ {"request", "intent"}
      BY <2>1, <2>2, <2>3
    <3>2. Last(s).verdict = "VALID"
      BY <1>2, <2>4, <2>6, <3>1, AfterTyped
    <3>3. Answered(s)
      BY <2>4, <3>2 DEF Inv, AnswersFit
    <3> QED BY <2>1, <3>3, AnsweredKept
  <2> QED BY <2>5, <2>6
<1> QED BY <1>1, <1>2, OperationChanges DEF Attempts

\* An operation is accepted only on an answer.
LEMMA AcceptedNext ==
    ASSUME Inv, [Next]_vars, NEW s \in Steps, operations'[s].persisted = "ACCEPTED"
    PROVE  \E p \in processes' : p.step = s /\ p.result = "answer"
<1>1. CASE operations[s].persisted = "ACCEPTED"
  <2>1. Answered(s)
    BY <1>1 DEF Inv, AnswersFit, Accepted
  <2>2. ProcessReturns => s # proc.step
    BY <1>1, WaitingKnowsNothing DEF Accepted
  <2> QED BY <2>1, <2>2, AnsweredKept
<1>2. CASE operations[s].persisted # "ACCEPTED"
  <2>1. ~(RecordEvent /\ operations' # operations /\ s = proc.step)
    <3>1. ASSUME RecordEvent, operations' # operations, s = proc.step PROVE FALSE
      <4>1. operations[s] \in OperationRecords /\ proc.content \in Nat
        BY <3>1, RecordedStep, ContentTyped DEF Inv, TypeOK
      <4>2. CASE proc.fact = "request"
        BY <4>2, <4>1, <3>1, RecordedStep, NewRecords DEF Contents
      <4>3. CASE proc.fact # "request"
        BY <4>3, <4>1, <3>1, RecordedStep DEF OperationRecords
      <4> QED BY <4>2, <4>3
    <3> QED BY <3>1
  <2>2. AppendConstituent /\ s = proc.step /\ Persisting /\ mutation[1].disposition = "ACCEPTED"
    BY <1>2, <2>1, OperationChanges
  <2>3. Answered(s) /\ ~ProcessReturns
    BY <2>2, AcceptedAnswered DEF AppendConstituent, ProcessReturns
  <2> QED BY <2>3, AnsweredKept
<1> QED BY <1>1, <1>2

\* What is or will be taken for valid was answered by a process of the operation.
LEMMA AnswersFitNext ==
    ASSUME Inv, [Next]_vars
    PROVE  AnswersFit'
<1>1. SUFFICES proc'.outcome = "VALID" =>
                   \E p \in processes' : p.step = proc'.step /\ p.result = "answer"
  BY VerdictsNext, AcceptedNext DEF AnswersFit, Answered, Attempts, Last, Accepted
<1>2. ASSUME proc'.outcome = proc.outcome, proc'.step = proc.step, ~ProcessReturns,
             proc'.outcome = "VALID"
      PROVE  \E p \in processes' : p.step = proc'.step /\ p.result = "answer"
  <2>1. Answered(proc.step)
    BY <1>2 DEF Inv, AnswersFit
  <2> QED BY <1>2, <2>1, AnsweredKept
<1>3. CASE proc' = proc
  <2>1. ~ProcessReturns \/ processes' = processes
    BY <1>3, StayingKeeps DEF ProcessReturns
  <2>2. CASE processes' = processes
    BY <1>3, <2>2 DEF Inv, AnswersFit, Answered
  <2> QED BY <1>2, <1>3, <2>1, <2>2
<1>4. CASE Afresh
  BY <1>4 DEF Afresh
<1>5. CASE Proceeds

  <2>1. CASE Waits
    <3>1. proc'.outcome = proc.outcome /\ proc'.step = proc.step /\ ~ProcessReturns
      BY <2>1 DEF Waits, Unchanged, Keeps, ProcessReturns
    <3> QED BY <3>1, <1>2
  <2>2. CASE HasRow
    <3>1. proc'.outcome = proc.outcome /\ proc'.step = proc.step /\ ~ProcessReturns
      BY <2>2 DEF HasRow, Unchanged, Keeps, ProcessReturns
    <3> QED BY <3>1, <1>2
  <2>3. CASE Intends
    <3>1. proc'.outcome = proc.outcome /\ proc'.step = proc.step /\ ~ProcessReturns
      BY <2>3 DEF Intends, Unchanged, Keeps, ProcessReturns
    <3> QED BY <3>1, <1>2
  <2>4. CASE IsRefused
    BY <2>4 DEF IsRefused
  <2>5. CASE Creates
    <3>1. proc'.outcome = proc.outcome /\ proc'.step = proc.step /\ ~ProcessReturns
      BY <2>5 DEF Creates, Unchanged, Keeps, ProcessReturns
    <3> QED BY <3>1, <1>2
  <2>6. CASE CreatesNone
    BY <2>6 DEF CreatesNone
  <2>7. CASE Returns
    <3>1. PICK result \in Results :
             /\ processes' = {IF q.step = proc.step /\ q.attempt = proc.attempt
                              THEN [q EXCEPT !.result = result] ELSE q : q \in processes}
             /\ Publish("raw", commands, [proc EXCEPT !.outcome = Verdict(result)])
      BY <2>7 DEF Returns, ProcessReturns
    <3>2. proc'.outcome = Verdict(result) /\ proc'.step = proc.step
      BY <2>7, <3>1, ProcTyped DEF Returns, Keeps, Publish, Inv, ProcRecords
    <3>3. proc'.outcome = "VALID" => result = "answer"
      BY <3>1, <3>2 DEF Verdict, Results
    <3>4. PICK p \in processes : p.step = proc.step /\ p.attempt = proc.attempt
      BY <2>7 DEF Returns, Inv, DispatchFits
    <3>5. [p EXCEPT !.result = result] \in processes'
      BY <3>1, <3>4
    <3>6. /\ [p EXCEPT !.result = result].step = proc.step
          /\ [p EXCEPT !.result = result].result = result
      BY <3>4, ProcessTyped
    <3> QED BY <3>2, <3>3, <3>5, <3>6
  <2>8. CASE TriesAgain
    <3>1. proc'.outcome = proc.outcome /\ proc'.step = proc.step /\ ~ProcessReturns
      BY <2>8 DEF TriesAgain, Unchanged, Keeps, ProcessReturns
    <3> QED BY <3>1, <1>2
  <2>9. CASE Settled
    <3>1. proc'.outcome = proc.outcome /\ proc'.step = proc.step /\ ~ProcessReturns
      BY <2>9 DEF Settled, Unchanged, Keeps, ProcessReturns
    <3> QED BY <3>1, <1>2
  <2>10. CASE Retries
    <3>1. proc'.outcome = proc.outcome /\ proc'.step = proc.step /\ ~ProcessReturns
      BY <2>10 DEF Retries, Unchanged, Keeps, ProcessReturns
    <3> QED BY <3>1, <1>2
  <2>11. CASE Validates
    <3>1. proc'.outcome = proc.outcome /\ proc'.step = proc.step /\ ~ProcessReturns
      BY <2>11 DEF Validates, Unchanged, Keeps, ProcessReturns
    <3> QED BY <3>1, <1>2
  <2>12. CASE Judges
    <3>1. proc'.outcome = proc.outcome /\ proc'.step = proc.step /\ ~ProcessReturns
      BY <2>12 DEF Judges, Unchanged, Keeps, ProcessReturns
    <3> QED BY <3>1, <1>2
  <2>13. CASE Published
    <3>1. proc'.outcome = proc.outcome /\ proc'.step = proc.step /\ ~ProcessReturns
      BY <2>13 DEF Published, Unchanged, Keeps, ProcessReturns
    <3> QED BY <3>1, <1>2
  <2>14. CASE Recording
    <3>1. proc'.outcome = proc.outcome /\ proc'.step = proc.step
      BY <2>14, AfterFactFields DEF Recording
    <3>2. ~ProcessReturns
      BY <2>14 DEF Recording, ProcessReturns
    <3> QED BY <3>1, <3>2, <1>2
  <2>15. CASE Appends
    <3>1. proc'.outcome = proc.outcome /\ proc'.step = proc.step /\ ~ProcessReturns
      BY <2>15 DEF Appends, Unchanged, Keeps, ProcessReturns
    <3> QED BY <3>1, <1>2
  <2> QED
    BY <1>5, <2>1, <2>2, <2>3, <2>4, <2>5, <2>6, <2>7, <2>8, <2>9, <2>10, <2>11, <2>12,
       <2>13, <2>14, <2>15 DEF Proceeds
<1> QED BY <1>1, <1>3, <1>4, <1>5, CommandStep

-----------------------------------------------------------------------------
(* The artifacts. *)

\* Only an applied receipt is written when a run is opened, or after a transition.
LEMMA ReopenedArtifacts ==
    ASSUME Inv, NEW s \in Steps, NEW n \in 0 .. MaxOperationAttempts,
           NEW fact \in Facts \ {"applied"}
    PROVE  Reopened[Path(s, n, fact)] = artifacts[Path(s, n, fact)]
<1>1. Path(s, n, fact) \in Paths /\ Path(s, n, fact)[3] = fact
  BY PathFacts
<1>2. \A t \in Steps : Path(t, 0, "applied")[3] = "applied"
  BY DEF Path
<1>3. \A t \in Unapplied : Path(s, n, fact) # Path(t, 0, "applied")
  BY <1>1, <1>2 DEF Unapplied
<1> QED BY <1>1, <1>3 DEF Reopened

\* An artifact that is there stays as it is.
LEMMA ArtifactsKept ==
    ASSUME Inv, [Next]_vars, NEW s \in Steps, NEW n \in 0 .. MaxOperationAttempts,
           NEW fact \in Facts \ {"applied"}, artifacts[Path(s, n, fact)] # Absent
    PROVE  artifacts'[Path(s, n, fact)] = artifacts[Path(s, n, fact)]
<1>a. /\ Path(s, n, fact) \in Paths /\ Path(s, n, fact)[3] = fact
      /\ artifacts \in [Paths -> Contents]
  BY PathFacts DEF Inv, TypeOK
<1>1. CASE PublishArtifact
  BY <1>1, <1>a DEF PublishArtifact, MayPublish
<1>2. CASE WriteApplied
  <2>1. Path(proc.step, 0, "applied")[3] = "applied"
    BY DEF Path
  <2> QED BY <1>2, <2>1, <1>a DEF WriteApplied
<1>3. CASE artifacts' = Reopened
  BY <1>3, ReopenedArtifacts
<1> QED BY <1>1, <1>2, <1>3, ArtifactsChange

BoundAfter(s, n, a) ==
    \A fact \in Facts \ {"request", "applied"} :
        LET digest == CASE fact = "intent" -> a.intent [] fact = "receipt" -> a.receipt
                        [] fact = "pre-spawn" -> a.refused [] fact = "raw" -> a.raw
                        [] fact = "validated" -> a.validated
        IN digest # Absent => artifacts'[Path(s, n, fact)] = digest

\* A digest the chain binds to an artifact stays bound.
LEMMA BoundKept ==
    ASSUME Inv, [Next]_vars, NEW s \in Steps, NEW n \in 0 .. MaxOperationAttempts, NEW a,
           BoundAttempt(s, n, a)
    PROVE  BoundAfter(s, n, a)
<1>1. ASSUME NEW fact \in Facts \ {"applied"}, NEW digest, Bound(s, n, fact, digest)
      PROVE  digest # Absent => artifacts'[Path(s, n, fact)] = digest
  BY <1>1, ArtifactsKept DEF Bound
<1> QED BY <1>1 DEF BoundAttempt, BoundAfter, Facts

\* Every digest the chain binds is of an artifact that is there.
LEMMA ArtifactsFitNext ==
    ASSUME Inv, [Next]_vars
    PROVE  ArtifactsFit'
<1>1. SUFFICES ASSUME NEW s \in Steps
               PROVE  /\ operations'[s] # NoOperation =>
                             artifacts'[Path(s, 0, "request")] = operations'[s].request
                      /\ \A n \in DOMAIN operations'[s].attempts :
                             BoundAfter(s, n, operations'[s].attempts[n])
  BY DEF ArtifactsFit, BoundAttempt, Bound, BoundAfter, Facts, Known, Attempts
<1> DEFINE after == operations'[s].attempts
<1>m. 0 \in 0 .. MaxOperationAttempts /\ "request" \in Facts \ {"applied"}
  BY AttemptAssumption DEF Facts
<1>a. /\ Known(s) => artifacts[Path(s, 0, "request")] = operations[s].request
      /\ \A n \in DOMAIN Attempts(s) : BoundAttempt(s, n, Attempts(s)[n])
      /\ Known(s) => operations[s].request # Absent
  BY DEF Inv, ArtifactsFit, Ladder
<1>b. Known(s) => artifacts'[Path(s, 0, "request")] = operations[s].request
  <2>1. ASSUME Known(s) PROVE artifacts[Path(s, 0, "request")] # Absent
    BY <2>1, <1>a
  <2> QED BY <2>1, <1>a, <1>m, ArtifactsKept
<1>c. ASSUME NEW n \in DOMAIN Attempts(s) PROVE BoundAfter(s, n, Attempts(s)[n])
  <2>1. n \in 0 .. MaxOperationAttempts
    BY <1>c, AttemptsTyped, AttemptAssumption DEF Inv
  <2> QED BY <2>1, <1>a, BoundKept
<1>2. CASE operations'[s] = operations[s]
  BY <1>2, <1>b, <1>c DEF Known, Attempts
<1>3. CASE AppendConstituent /\ after = Attempts(s) /\ operations'[s].request = operations[s].request
           /\ operations[s].persisted # "no request"
  <2>1. Known(s)
    BY <1>3, NewRecords DEF Known
  <2> QED BY <1>3, <2>1, <1>b, <1>c
<1>4. CASE RecordEvent /\ operations' # operations /\ s = proc.step
  <2>1. /\ Writing(Facts) /\ proc.content \in Nat /\ proc.content # Absent
        /\ proc.fact \in Facts \ {"applied"} /\ proc.attempt \in 0 .. MaxOperationAttempts
    BY <1>4, RecordedStep, ContentTyped
  <2>2. artifacts'[Path(s, proc.attempt, proc.fact)] = proc.content
    BY <1>4 DEF RecordEvent, Inv, PlaceFits
  <2>3. CASE proc.fact = "request"
    <3>1. /\ operations'[s] = NewOperation(proc.content) /\ after = <<>>
      BY <1>4, <2>3, RecordedStep, RecordedAttempts
    <3>2. operations'[s].request = proc.content
      BY <3>1, <2>1, NewRecords DEF Contents
    <3>3. Path(s, proc.attempt, "request") = Path(s, 0, "request")
      BY DEF Path
    <3> QED BY <3>1, <3>2, <3>3, <2>2, <2>3
  <2>4. CASE proc.fact # "request"
    <3>1. /\ Known(s) /\ operations[s] \in OperationRecords
          /\ operations'[s] = [operations[s] EXCEPT !.attempts = after]
      BY <1>4, <2>4, RecordedStep DEF Inv, TypeOK
    <3>2. operations'[s].request = operations[s].request
      BY <3>1 DEF OperationRecords
    <3>3. ASSUME NEW n \in DOMAIN after PROVE BoundAfter(s, n, after[n])
      <4>t. /\ DOMAIN Attempts(s) = 1 .. Len(Attempts(s)) /\ Len(Attempts(s)) \in Nat
            /\ DOMAIN after = 1 .. Len(after) /\ Len(after) \in Nat
        BY <1>4, AttemptsTyped, RecordedAttempts DEF Inv
      <4>1. CASE proc.fact = "intent"
        <5>1. /\ Len(after) = Len(Attempts(s)) + 1 /\ proc.attempt = Len(after)
              /\ after[Len(after)] = NewAttempt(proc.content)
              /\ \A i \in DOMAIN Attempts(s) : after[i] = Attempts(s)[i]
          BY <1>4, <4>1, RecordedAttempts
        <5>2. CASE n \in DOMAIN Attempts(s)
          BY <5>1, <5>2, <1>c
        <5>3. CASE n = Len(after)
          BY <5>1, <5>3, <4>1, <2>2 DEF BoundAfter, NewAttempt, Facts
        <5> QED BY <5>1, <5>2, <5>3, <4>t, <3>3
      <4>2. CASE proc.fact # "intent"
        <5>1. /\ Len(after) = Len(Attempts(s)) /\ Attempts(s) # <<>> /\ proc.attempt = Len(after)
              /\ after[Len(after)] = After(Last(s), proc.fact, proc.content, proc.outcome)
              /\ \A i \in DOMAIN Attempts(s) \ {proc.attempt} : after[i] = Attempts(s)[i]
          BY <1>4, <2>4, <4>2, RecordedAttempts
        <5>2. CASE n # Len(after)
          BY <5>1, <5>2, <4>t, <1>c, <3>3
        <5>3. CASE n = Len(after)
          <6> DEFINE a == Last(s)
                     b == After(a, proc.fact, proc.content, proc.outcome)
          <6>1. a = Attempts(s)[n] /\ n \in DOMAIN Attempts(s) /\ n = proc.attempt /\ after[n] = b
            BY <5>1, <5>3, <4>t, <3>3 DEF Last
          <6>2. BoundAfter(s, n, a)
            BY <6>1, <1>c
          <6>3. a \in AttemptRecords
            BY <5>1, AttemptsTyped DEF Inv
          <6>4. artifacts'[Path(s, n, proc.fact)] = proc.content
            BY <6>1, <2>2
          <6>5. BoundAfter(s, n, b)
            <7> HIDE DEF a
            <7>1. CASE proc.fact = "receipt"
              BY <7>1, <6>2, <6>3, <6>4 DEF BoundAfter, After, AttemptRecords, Facts
            <7>2. CASE proc.fact = "pre-spawn"
              BY <7>2, <6>2, <6>3, <6>4 DEF BoundAfter, After, AttemptRecords, Facts
            <7>3. CASE proc.fact = "raw"
              BY <7>3, <6>2, <6>3, <6>4 DEF BoundAfter, After, AttemptRecords, Facts
            <7>4. CASE proc.fact = "validated"
              BY <7>4, <6>2, <6>3, <6>4 DEF BoundAfter, After, AttemptRecords, Facts
            <7> QED BY <7>1, <7>2, <7>3, <7>4, <2>1, <2>4, <4>2 DEF Facts
          <6> QED BY <6>1, <6>5
        <5> QED BY <5>2, <5>3
      <4> QED BY <4>1, <4>2
    <3> QED BY <3>1, <3>2, <3>3, <1>b
  <2> QED BY <2>3, <2>4
<1> QED BY <1>2, <1>3, <1>4, OperationChanges DEF Attempts

\* A command that begins has completed the applied receipts.
LEMMA BeginningReopens ==
    ASSUME [Next]_vars, proc.pc = "idle", proc'.pc # "idle"
    PROVE  artifacts' = Reopened

<1>1. CASE OpenTorn
  BY <1>1 DEF OpenTorn
<1>2. CASE Resume
  BY <1>2 DEF Resume
<1>3. CASE ReopenMilestone
  BY <1>3 DEF ReopenMilestone, Recover
<1>4. CASE ReconcileMilestone
  BY <1>4 DEF ReconcileMilestone, Recover
<1>5. CASE RevalidateCorrection
  BY <1>5 DEF RevalidateCorrection, Recover
<1>6. CASE Abort
  BY <1>6 DEF Abort
<1>7. CASE Drive
  BY <1>7 DEF Drive
<1>8. CASE EnterWait
  BY <1>8 DEF EnterWait
<1>9. CASE PublishRow
  BY <1>9 DEF PublishRow
<1>10. CASE BeforeSpawn
  BY <1>10 DEF BeforeSpawn
<1>11. CASE ProviderRefused
  BY <1>11 DEF ProviderRefused
<1>12. CASE SpawnEntry
  BY <1>12 DEF SpawnEntry
<1>13. CASE ProcessReturns
  BY <1>13 DEF ProcessReturns
<1>14. CASE Settle
  BY <1>14 DEF Settle
<1>15. CASE Retry
  BY <1>15 DEF Retry
<1>16. CASE Judge
  BY <1>16 DEF Judge
<1>17. CASE Accept
  BY <1>17 DEF Accept
<1>18. CASE Reject
  BY <1>18 DEF Reject
<1>19. CASE LeaveUndecided
  BY <1>19 DEF LeaveUndecided
<1>20. CASE AppendConstituent
  BY <1>20 DEF AppendConstituent
<1>21. CASE WriteApplied
  BY <1>21 DEF WriteApplied
<1>22. CASE PublishArtifact
  BY <1>22 DEF PublishArtifact
<1>23. CASE RecordEvent
  BY <1>23 DEF RecordEvent
<1>24. CASE Crash
  BY <1>24 DEF Crash
<1>25. CASE UNCHANGED vars
  BY <1>25 DEF vars, durable
<1> QED
  BY <1>1, <1>2, <1>3, <1>4, <1>5, <1>6, <1>7, <1>8, <1>9, <1>10, <1>11, <1>12, <1>13,
     <1>14, <1>15, <1>16, <1>17, <1>18, <1>19, <1>20, <1>21, <1>22, <1>23, <1>24, <1>25 DEF
     Next


\* An applied receipt goes missing only by the transition it is of.
LEMMA UnappliedNext ==
    ASSUME Inv, [Next]_vars, NEW t \in Unapplied'
    PROVE  /\ t \in Steps
           /\ artifacts[Path(t, 0, "applied")] = Absent
           /\ \/ t \in Unapplied
              \/ AppendConstituent /\ Persisted /\ t = proc.step
<1>1. t \in Steps /\ operations'[t].applied /\ artifacts'[Path(t, 0, "applied")] = Absent
  BY DEF Unapplied
<1>a. /\ Path(t, 0, "applied") \in Paths /\ artifacts \in [Paths -> Contents]
      /\ Absent \notin Nat /\ operations[t] \in OperationRecords
  BY <1>1, AttemptAssumption DEF Inv, TypeOK, Absent, Path, Paths, Facts
<1>2. artifacts[Path(t, 0, "applied")] = Absent
  <2>1. CASE PublishArtifact
    <3>1. proc.content # Absent
      BY <2>1, ProcTyped DEF PublishArtifact, Inv, PlaceFits, Writing
    <3> QED BY <2>1, <3>1, <1>1, <1>a DEF PublishArtifact
  <2>2. CASE WriteApplied
    BY <2>2, <1>1, <1>a DEF WriteApplied
  <2>3. CASE artifacts' = Reopened
    BY <2>3, <1>1, <1>a DEF Reopened, Absent
  <2> QED BY <2>1, <2>2, <2>3, <1>1, ArtifactsChange
<1>3. \/ operations[t].applied
      \/ AppendConstituent /\ Persisted /\ t = proc.step
  <2>1. CASE RecordEvent /\ operations' # operations /\ t = proc.step
    <3>1. proc.content \in Contents
      BY ProcTyped DEF Inv
    <3>2. CASE proc.fact = "request"
      BY <2>1, <3>1, <3>2, <1>1, RecordedStep, NewRecords
    <3>3. CASE proc.fact # "request"
      BY <2>1, <3>3, <1>1, <1>a, RecordedStep DEF OperationRecords
    <3> QED BY <3>2, <3>3
  <2> QED BY <2>1, <1>1, OperationChanges
<1> QED BY <1>1, <1>2, <1>3 DEF Unapplied

\* The one applied receipt that may be missing is that of the transition just made.
LEMMA ReceiptsFitNext ==
    ASSUME Inv, [Next]_vars
    PROVE  ReceiptsFit'
<1>a. /\ proc.pc \notin {"idle", "applied"} => Unapplied = {}
      /\ proc.pc = "applied" => Unapplied \subseteq {proc.step}
  BY DEF Inv, ReceiptsFit
<1>1. CASE proc.pc = "idle"
  <2>1. SUFFICES ASSUME proc'.pc # "idle" PROVE Unapplied' = {}
    BY DEF ReceiptsFit
  <2>2. artifacts' = Reopened
    BY <1>1, <2>1, BeginningReopens
  <2>3. ASSUME NEW t \in Unapplied' PROVE FALSE
    <3>1. /\ t \in Steps /\ artifacts[Path(t, 0, "applied")] = Absent
          /\ t \in Unapplied
      BY <1>1, UnappliedNext DEF AppendConstituent
    <3>2. Path(t, 0, "applied") \in Paths /\ Path(t, 0, "applied")[1] = t
      BY <3>1, AttemptAssumption DEF Path, Paths, Facts
    <3>3. artifacts'[Path(t, 0, "applied")] = 0
      BY <2>2, <3>1, <3>2 DEF Reopened
    <3> QED BY <3>3 DEF Unapplied, Absent
  <2> QED BY <2>3
<1>2. CASE proc.pc = "applied"
  <2>1. \/ WriteApplied
        \/ proc'.pc = "idle"
        \/ proc' = proc
    <3>1. CASE Afresh \/ Proceeds
      <4>1. ~Proceeds
        BY <1>2 DEF Proceeds, Waits, HasRow, Intends, IsRefused, Creates, CreatesNone, Returns,
           TriesAgain, Settled, Retries, Validates, Judges, Published, Recording, Appends
      <4>2. WriteApplied \/ Crash \/ proc' = proc
        BY <1>2, <3>1 DEF Next, OpenTorn, Resume, ReopenMilestone, ReconcileMilestone,
           RevalidateCorrection, Abort, Drive, EnterWait, PublishRow, BeforeSpawn,
           ProviderRefused, SpawnEntry, ProcessReturns, Settle, Retry, Judge, Accept, Reject,
           LeaveUndecided, AppendConstituent, PublishArtifact, RecordEvent, Opens, Issue, vars
      <4> QED BY <4>2, IdleFields DEF Crash
    <3> QED BY <3>1, CommandStep
  <2>2. CASE WriteApplied
    <3>1. ASSUME NEW t \in Unapplied' PROVE FALSE
      <4>1. t = proc.step /\ t \in Steps
        BY <1>2, <1>a, UnappliedNext DEF AppendConstituent
      <4>2. Path(t, 0, "applied") \in Paths
        BY <4>1, AttemptAssumption DEF Path, Paths, Facts
      <4>3. artifacts'[Path(t, 0, "applied")] = 0
        BY <2>2, <4>1, <4>2 DEF WriteApplied, Inv, TypeOK
      <4> QED BY <4>3 DEF Unapplied, Absent
    <3> QED BY <3>1 DEF ReceiptsFit
  <2>3. CASE proc'.pc = "idle"
    BY <2>3 DEF ReceiptsFit
  <2>4. CASE proc' = proc
    <3>1. \A t \in Unapplied' : t = proc.step
      BY <1>2, <1>a, UnappliedNext DEF AppendConstituent
    <3> QED BY <1>2, <2>4, <3>1 DEF ReceiptsFit
  <2> QED BY <2>1, <2>2, <2>3, <2>4
<1>3. CASE proc.pc \notin {"idle", "applied"}
  <2>1. CASE AppendConstituent /\ Persisted
    <3>1. proc'.pc = "applied" /\ proc'.step = proc.step
      <4>1. AfterConstituent(mutation[1]) = "applied"
        BY <2>1, StepFacts DEF Persisted, IsMove, AfterConstituent
      <4> QED BY <2>1, <4>1, ProcTyped DEF AppendConstituent, Inv, ProcRecords
    <3>2. \A t \in Unapplied' : t = proc.step
      BY <1>3, <1>a, UnappliedNext
    <3> QED BY <3>1, <3>2 DEF ReceiptsFit
  <2>2. CASE ~(AppendConstituent /\ Persisted)
    <3>1. Unapplied' = {}
      BY <1>3, <1>a, <2>2, UnappliedNext
    <3> QED BY <3>1 DEF ReceiptsFit
  <2> QED BY <2>1, <2>2
<1> QED BY <1>1, <1>2, <1>3

-----------------------------------------------------------------------------
(* Where the run is moved. *)

\* A record that is a correction's only if the one it follows or the operation worked on
\* was, and that waits for its approval only if that one did.
Follows(r) ==
    /\ Corrects(r) => Corrects(record) \/ proc.step = CorrectionStep
    /\ r.state = Ready => record.state = Ready

Calm == {Human, "IMPLEMENTING", "REVIEWING", "FOCUSED_VERIFYING", "CLOSURE_VERIFYING",
         "PROVIDER_WAIT", "PROVIDER_RETRY_PENDING", "MILESTONE_FAILED", "ABORTED"}

\* The records an action moves the run to, but for an acceptance, follow it.
LEMMA Followers ==
    ASSUME Inv
    PROVE  /\ \A r : r.row.role = record.row.role /\ r.state = record.state => Follows(r)
           /\ \A r : r.row.role = record.row.role /\ r.state \in Calm => Follows(r)
           /\ \A r : /\ r.row.role = record.row.role \/ proc.step = CorrectionStep
                     /\ r.state \in Calm \union {"NEEDS_CORRECTION", "CORRECTING"}
                     /\ Corrects(record) \/ proc.step = CorrectionStep
                     => Follows(r)
           /\ \A state : At(state).state = state /\ At(state).row = record.row
           /\ Follows(At(Origin[record.row.role]))
           /\ proc.step \in Steps =>
                 /\ Follows(At(Origin[proc.step[1]]))
                 /\ \A status : \A state \in Calm \union {record.state, Origin[proc.step[1]]} :
                       \A r : r.row = Row(proc.step[1], status) /\ r.state = state => Follows(r)
<1>a. /\ record \in RunRecords /\ record.row.role \in Roles
      /\ \A s \in Steps : s[1] \in Roles /\ (s[1] = "CORRECTION" => s = CorrectionStep)
  BY StepFacts DEF Inv, TypeOK, RunRecords
<1>1. /\ "NEEDS_CORRECTION" \notin Calm /\ "CORRECTING" \notin Calm /\ Ready \notin Calm
      /\ Ready \notin {"NEEDS_CORRECTION", "CORRECTING"}
  BY DEF Calm, Ready, Human
<1>2. \A state : At(state).state = state /\ At(state).row = record.row
  BY <1>a DEF At, RunRecords
<1>3. /\ \A role \in Roles : Origin[role] \in Calm \union {"CORRECTING"}
      /\ \A role \in Roles : Origin[role] = "CORRECTING" => role = "CORRECTION"
      /\ \A role, status : Row(role, status).role = role
  BY InvokingStates, OriginValues DEF Calm, Origin, Roles, Row
<1>4. \A r : r.row.role = record.row.role /\ r.state = record.state => Follows(r)
  BY DEF Follows, Corrects
<1>5. \A r : r.row.role = record.row.role /\ r.state \in Calm => Follows(r)
  BY <1>1 DEF Follows, Corrects
<1>6. \A r : /\ r.row.role = record.row.role \/ proc.step = CorrectionStep
             /\ r.state \in Calm \union {"NEEDS_CORRECTION", "CORRECTING"}
             /\ Corrects(record) \/ proc.step = CorrectionStep
             => Follows(r)
  BY <1>1 DEF Follows
<1>7. Follows(At(Origin[record.row.role]))
  <2>1. CASE record.row.role = "CORRECTION"
    <3>1. Corrects(record)
      BY <2>1 DEF Corrects
    <3>2. Origin[record.row.role] \in Calm \union {"NEEDS_CORRECTION", "CORRECTING"}
      BY <1>a, <1>3
    <3> QED BY <3>1, <3>2, <1>2, <1>6
  <2>2. CASE record.row.role # "CORRECTION"
    <3>1. Origin[record.row.role] \in Calm
      BY <2>2, <1>a, <1>3
    <3> QED BY <3>1, <1>2, <1>5
  <2> QED BY <2>1, <2>2
<1>8. ASSUME proc.step \in Steps
      PROVE  /\ Follows(At(Origin[proc.step[1]]))
             /\ \A status : \A state \in Calm \union {record.state, Origin[proc.step[1]]} :
                   \A r : r.row = Row(proc.step[1], status) /\ r.state = state => Follows(r)
  <2>1. CASE proc.step = CorrectionStep
    <3>1. \A r : r.state # Ready \/ record.state = Ready => Follows(r)
      BY <2>1 DEF Follows
    <3>2. Origin[proc.step[1]] # Ready
      BY <1>8, <1>a, <1>1, <1>3
    <3> QED BY <3>1, <3>2, <1>1, <1>2
  <2>2. CASE proc.step # CorrectionStep
    <3>1. proc.step[1] \in Roles \ {"CORRECTION"}
      BY <2>2, <1>8, <1>a
    <3>2. Origin[proc.step[1]] \in Calm
      BY <3>1, <1>3
    <3>3. Follows(At(Origin[proc.step[1]]))
      BY <3>2, <1>2, <1>5
    <3>4. \A state \in Calm \union {record.state, Origin[proc.step[1]]} :
             /\ state \in {"NEEDS_CORRECTION", "CORRECTING"} => Corrects(record)
             /\ state = Ready => record.state = Ready
      BY <3>2, <1>1 DEF Corrects
    <3>5. \A status : \A state \in Calm \union {record.state, Origin[proc.step[1]]} :
             \A r : r.row = Row(proc.step[1], status) /\ r.state = state => Follows(r)
      BY <3>1, <3>4, <1>3 DEF Follows, Corrects
    <3> QED BY <3>3, <3>5
  <2> QED BY <2>1, <2>2
<1> QED BY <1>2, <1>4, <1>5, <1>6, <1>7, <1>8

\* The run moves as declared, or to a record that follows its own.
LEMMA RecordFollows ==
    ASSUME Inv, [Next]_vars
    PROVE  AppendConstituent \/ Follows(record')
<1>a. /\ record \in RunRecords /\ Follows(record)
      /\ \A state \in Calm : Follows(At(state))
      /\ Follows(At(Origin[record.row.role]))
      /\ proc.step \in Steps => Follows(At(Origin[proc.step[1]]))
  <2>1. \A state \in Calm : At(state).row.role = record.row.role /\ At(state).state \in Calm
    BY Followers
  <2> QED BY <2>1, Followers DEF Inv, TypeOK
<1>b. record' = record => Follows(record')
  BY <1>a
<1>c. Place \in Invocation => proc.step \in Steps
  BY DEF Inv, PlaceFits

<1>1. CASE OpenTorn
  BY <1>1, <1>b DEF OpenTorn, Issue
<1>2. CASE Resume
  BY <1>2, <1>a, <1>b DEF Resume, Calm
<1>3. CASE ReopenMilestone
  BY <1>3, <1>b DEF ReopenMilestone, Recover, Declare
<1>4. CASE ReconcileMilestone
  BY <1>4, <1>b DEF ReconcileMilestone, Recover, Declare
<1>5. CASE RevalidateCorrection
  BY <1>5, <1>b DEF RevalidateCorrection, Recover, Declare
<1>6. CASE Abort
  BY <1>6, <1>a DEF Abort, Calm
<1>7. CASE Drive
  <2>1. record.state = "NEEDS_CORRECTION" => Follows(At("CORRECTING"))
    <3>1. ASSUME record.state = "NEEDS_CORRECTION" PROVE Follows(At("CORRECTING"))
      <4>1. Corrects(record)
        BY <3>1 DEF Corrects
      <4> QED BY <4>1, Followers
    <3> QED BY <3>1
  <2>2. record' \in {record, At(Human), At("CORRECTING"), At("PROVIDER_WAIT"), At("IMPLEMENTING"),
                     At("REVIEWING"), At(Origin[record.row.role])}
        /\ (record' = At("CORRECTING") => record.state = "NEEDS_CORRECTION" \/ record' = record
              \/ record' = At(Origin[record.row.role]))
    <3>1. CASE record.state = "FOCUSED_VERIFYING"
      <4>1. PICK state : LET after == [record EXCEPT !.results = @ + 1,
                                              !.completed = state # "MILESTONE_FAILED"]
             IN Commit(<<Update(after), MoveTo([after EXCEPT !.state = state], NoStep)>>,
                       IF state = "REVIEWING" THEN "drive" ELSE "idle", Idle)
        BY <1>7, <3>1, InvokingStates DEF Drive
      <4>2. record' = record
        BY <4>1 DEF Commit, Declare
      <4> QED BY <4>2
    <3>2. CASE record.state # "FOCUSED_VERIFYING"
      <4>1. CASE record.state = "NEEDS_CORRECTION"
        BY <1>7, <4>1, InvokingStates DEF Drive, Commit, Folded, MoveTo, Change
      <4>2. CASE record.state = "PROVIDER_RETRY_PENDING"
        <5>1. record' = At("PROVIDER_WAIT")
          BY <1>7, <4>2, InvokingStates DEF Drive, Commit, Folded, MoveTo, Change
        <5>2. At("PROVIDER_WAIT") # At("CORRECTING")
          BY Followers
        <5> QED BY <5>1, <5>2
      <4>3. CASE record.state = "PROVIDER_WAIT"
        <5>1. record' \in {At("IMPLEMENTING"), At("REVIEWING"), At(Origin[record.row.role])}
          BY <1>7, <4>3, InvokingStates DEF Drive, Commit, Folded, MoveTo, Change
        <5>2. At("IMPLEMENTING") # At("CORRECTING") /\ At("REVIEWING") # At("CORRECTING")
          BY Followers
        <5> QED BY <5>1, <5>2
      <4>4. CASE record.state \in Invoking
        <5>1. record' \in {record, At(Human)}
          BY <1>7, <4>4, InvokingStates DEF Drive, Commit, Folded, MoveTo, Change, Declare, durable
        <5>2. At(Human) # At("CORRECTING")
          BY Followers DEF Human
        <5> QED BY <5>1, <5>2
      <4>5. record.state \in {"IMPLEMENTING", "REVIEWING", "CORRECTING", "CLOSURE_VERIFYING",
                              "NEEDS_CORRECTION", "PROVIDER_RETRY_PENDING", "PROVIDER_WAIT"}
        BY <1>7, <3>2, InvokingStates DEF Drive
      <4> QED BY <4>1, <4>2, <4>3, <4>4, <4>5, InvokingStates
    <3> QED BY <3>1, <3>2
  <2>3. {Human, "PROVIDER_WAIT", "IMPLEMENTING", "REVIEWING"} \subseteq Calm
    BY DEF Calm
  <2> QED BY <2>1, <2>2, <2>3, <1>a
<1>8. CASE EnterWait
  <2>1. record' \in {record, At(Human), At("PROVIDER_WAIT")}
    BY <1>8 DEF EnterWait, Commit, Declare, Folded, MoveTo, Change
  <2> QED BY <2>1, <1>a DEF Calm
<1>9. CASE PublishRow
  <2>1. record' = [record EXCEPT !.row = Row(proc.step[1], "pending")]
    BY <1>9 DEF PublishRow, Commit, Folded, Update, Change
  <2>2. record'.row = Row(proc.step[1], "pending") /\ record'.state = record.state
    BY <2>1, <1>a DEF RunRecords
  <2>3. proc.step \in Steps
    BY <1>9, <1>c DEF PublishRow, Place, Invocation
  <2> QED BY <2>2, <2>3, Followers
<1>10. CASE BeforeSpawn
  BY <1>10, <1>b DEF BeforeSpawn, Publish, Raise, durable
<1>11. CASE ProviderRefused
  <2>1. record' = At(Origin[proc.step[1]])
    BY <1>11 DEF ProviderRefused, Commit, Folded, MoveTo, Change
  <2> QED BY <1>11, <2>1, <1>a, <1>c DEF ProviderRefused, Place, Invocation
<1>12. CASE SpawnEntry
  BY <1>12, <1>b DEF SpawnEntry, Publish, Raise, durable
<1>13. CASE ProcessReturns
  BY <1>13, <1>b DEF ProcessReturns, Publish, durable
<1>14. CASE Settle
  <2>1. record' = record
    BY <1>14 DEF Settle, Commit, Declare
  <2> QED BY <2>1, <1>b
<1>15. CASE Retry
  <2>1. record' \in {At("PROVIDER_WAIT"), At(Origin[proc.step[1]])} /\ proc.step \in Steps
    BY <1>15, <1>c DEF Retry, Commit, Folded, MoveTo, Change, Place, Invocation
  <2> QED BY <2>1, <1>a DEF Calm
<1>16. CASE Judge
  BY <1>16, <1>b DEF Judge, Publish, durable
<1>17. CASE Accept
  BY <1>17, <1>b DEF Accept, Dispose, Commit, Declare, Folded, Raise, durable
<1>18. CASE Reject
  BY <1>18, <1>b DEF Reject, Dispose, Commit, Declare, Folded, Raise, durable
<1>19. CASE LeaveUndecided
  <2>1. record' = At(Human)
    BY <1>19 DEF LeaveUndecided, Commit, Folded, MoveTo, Change
  <2> QED BY <2>1, <1>a DEF Calm
<1>20. CASE AppendConstituent
  BY <1>20
<1>21. CASE WriteApplied
  BY <1>21, <1>b DEF WriteApplied
<1>22. CASE PublishArtifact
  BY <1>22, <1>b DEF PublishArtifact, Raise
<1>23. CASE RecordEvent
  BY <1>23, <1>b DEF RecordEvent, AfterFact, Raise
<1>24. CASE Crash
  BY <1>24, <1>b DEF Crash, durable
<1>25. CASE UNCHANGED vars
  BY <1>25, <1>b DEF vars, durable
<1> QED
  BY <1>1, <1>2, <1>3, <1>4, <1>5, <1>6, <1>7, <1>8, <1>9, <1>10, <1>11, <1>12, <1>13,
     <1>14, <1>15, <1>16, <1>17, <1>18, <1>19, <1>20, <1>21, <1>22, <1>23, <1>24, <1>25 DEF
     Next

\* What is declared follows the record, unless it is an acceptance.
Declared ==
    record.state # Ready /\ \A i \in DOMAIN mutation' : Follows(mutation'[i].after)
Accepts ==
    /\ proc.pc = "decide" /\ proc.step \in Steps /\ proc'.step = proc.step
    /\ \E state \in AcceptedStates(proc.step[1]) :
          /\ mutation' = <<Persist(record, proc.step, "ACCEPTED", "VALIDATION"),
                           MoveTo(At(state), proc.step)>>
          /\ proc'.then = IF state \in Live THEN "drive" ELSE "idle"

\* A command that works on a declaration appended a part of it, or has just declared it.
LEMMA Declares ==
    ASSUME Inv, [Next]_vars, proc'.pc = "emit"
    PROVE  \/ AppendConstituent
           \/ UNCHANGED <<record, operations, mutation, proc>>
           \/ Declared
           \/ Accepts
<1>a. /\ proc \in ProcRecords /\ record \in RunRecords
      /\ record.state = Ready => proc.pc \in {"idle", "applied"}
      /\ Place \in Invocation => proc.step \in Steps
      /\ Ready \notin Live \union {Human, "MILESTONE_FAILED"}
      /\ proc.pc = "applied" => proc.then \in {"idle", "drive"}
  BY InvokingStates DEF Inv, TypeOK, GateFits, PlaceFits, MutationFits, Live, Excursion, Ready, Human
<1>b. ASSUME NEW c, NEW d, mutation' = <<c, d>>, Follows(c.after), Follows(d.after),
             record.state # Ready
      PROVE  Declared
  BY <1>b DEF Declared
<1>c. \A x : Update(x).after = x
  BY DEF Update, Change
<1>d. \A x, s : MoveTo(x, s).after = x
  BY DEF MoveTo, Change
<1>e. /\ Follows(record)
      /\ \A state \in Calm : Follows(At(state))
      /\ \A r : r.row = record.row /\ r.state \in Calm \union {record.state} => Follows(r)
  <2>1. \A state \in Calm : At(state).row.role = record.row.role /\ At(state).state \in Calm
    BY Followers
  <2> QED BY <2>1, Followers
<1>f. ASSUME NEW x, NEW y, mutation' = <<Update(x), MoveTo(y, NoStep)>>, Follows(x), Follows(y),
             record.state # Ready
      PROVE  Declared
  BY <1>f, <1>b, <1>c, <1>d

<1>1. CASE OpenTorn
  BY <1>1 DEF OpenTorn, Issue
<1>2. CASE Resume
  <2>1. proc' = Idle \/ proc' = [Idle EXCEPT !.pc = "drive"]
    BY <1>2 DEF Resume
  <2> QED BY <2>1, IdleFields DEF ProcRecords
<1>3. CASE ReopenMilestone
  <2>1. record.state \in {Human, "MILESTONE_FAILED"}
    BY <1>3 DEF ReopenMilestone
  <2> DEFINE after == [At("IMPLEMENTING") EXCEPT !.reopenings = @ + 1]
  <2>4. Recover(after)
    BY <1>3 DEF ReopenMilestone
  <2> HIDE DEF after
  <2>2. proc' = Idle \/ mutation' = <<Update(record), MoveTo(after, NoStep)>>
    BY <2>4 DEF Recover, Declare, Raise
  <2>3. Follows(after)
    <3>1. after.row = record.row /\ after.state = "IMPLEMENTING"
      BY <1>a DEF At, RunRecords, after
    <3> QED BY <3>1, <1>e DEF Calm
  <2> QED BY <2>1, <2>2, <2>3, <1>a, <1>e, <1>f, IdleFields
<1>4. CASE ReconcileMilestone
  <2>1. record.state \in {Human, "MILESTONE_FAILED"}
    BY <1>4 DEF ReconcileMilestone
  <2> DEFINE after == At("FOCUSED_VERIFYING")
  <2>4. Recover(after)
    BY <1>4 DEF ReconcileMilestone
  <2> HIDE DEF after
  <2>2. proc' = Idle \/ mutation' = <<Update(record), MoveTo(after, NoStep)>>
    BY <2>4 DEF Recover, Declare, Raise
  <2>3. Follows(after)
    BY <1>e DEF Calm, after
  <2> QED BY <2>1, <2>2, <2>3, <1>a, <1>e, <1>f, IdleFields
<1>5. CASE RevalidateCorrection
  <2>1. record.state \in {Human, "MILESTONE_FAILED"}
    BY <1>5 DEF RevalidateCorrection
  <2> DEFINE after == At("CLOSURE_VERIFYING")
  <2>4. Recover(after)
    BY <1>5 DEF RevalidateCorrection
  <2> HIDE DEF after
  <2>2. proc' = Idle \/ mutation' = <<Update(record), MoveTo(after, NoStep)>>
    BY <2>4 DEF Recover, Declare, Raise
  <2>3. Follows(after)
    BY <1>e DEF Calm, after
  <2> QED BY <2>1, <2>2, <2>3, <1>a, <1>e, <1>f, IdleFields
<1>6. CASE Abort
  BY <1>6 DEF Abort, Opens, Issue
<1>7. CASE Drive
  <2>r. record.state # Ready
    BY <1>7, <1>a DEF Drive
  <2>1. CASE record.state = "FOCUSED_VERIFYING"
    <3>1. PICK state \in {"MILESTONE_FAILED", Human, "REVIEWING"} :
             LET after == [record EXCEPT !.results = @ + 1,
                                         !.completed = state # "MILESTONE_FAILED"]
             IN Commit(<<Update(after), MoveTo([after EXCEPT !.state = state], NoStep)>>,
                       IF state = "REVIEWING" THEN "drive" ELSE "idle", Idle)
      BY <1>7, <2>1, InvokingStates DEF Drive
    <3> DEFINE after == [record EXCEPT !.results = @ + 1,
                                       !.completed = state # "MILESTONE_FAILED"]
               to == [after EXCEPT !.state = state]
    <3>2. /\ after.row = record.row /\ after.state = record.state
          /\ to.row = record.row /\ to.state = state
      BY <1>a DEF RunRecords
    <3>3. state \in Calm
      BY DEF Calm
    <3>4. Commit(<<Update(after), MoveTo(to, NoStep)>>,
                 IF state = "REVIEWING" THEN "drive" ELSE "idle", Idle)
      BY <3>1
    <3> HIDE DEF after, to
    <3>5. mutation' = <<Update(after), MoveTo(to, NoStep)>> \/ proc' = Idle
      BY <3>4 DEF Commit, Declare, Raise
    <3>6. Follows(after) /\ Follows(to)
      BY <3>2, <3>3, <1>e
    <3> QED BY <2>r, <3>5, <3>6, <1>f, IdleFields
  <2>2. CASE record.state \in {"NEEDS_CORRECTION", "PROVIDER_RETRY_PENDING", "PROVIDER_WAIT"}
    <3>1. proc' \in {[Idle EXCEPT !.pc = "drive"], [Idle EXCEPT !.pc = "idle"]}
      BY <1>7, <2>2, InvokingStates DEF Drive, Commit
    <3> QED BY <3>1, IdleFields DEF ProcRecords
  <2>3. CASE record.state \in Invoking
    <3> DEFINE counted == [record EXCEPT !.results = @ + 1]
               stopped == [At(Human) EXCEPT !.results = @ + 1]
    <3>1. \/ Commit(<<MoveTo(At(Human), NoStep)>>, "idle", Idle)
          \/ Commit(<<Update(counted), MoveTo(stopped, NoStep)>>, "idle", Idle)
          \/ \E s, n : Publish("request", n, [Idle EXCEPT !.step = s, !.results = n])
      BY <1>7, <2>3, InvokingStates DEF Drive
    <3>2. CASE Commit(<<MoveTo(At(Human), NoStep)>>, "idle", Idle)
      <4>1. proc' = [Idle EXCEPT !.pc = "idle"]
        BY <3>2 DEF Commit
      <4> QED BY <4>1, IdleFields DEF ProcRecords
    <3>3. CASE Commit(<<Update(counted), MoveTo(stopped, NoStep)>>, "idle", Idle)
      <4>1. /\ counted.row = record.row /\ counted.state = record.state
            /\ stopped.row = record.row /\ stopped.state = Human
        BY <1>a DEF RunRecords, At
      <4> HIDE DEF counted, stopped
      <4>2. mutation' = <<Update(counted), MoveTo(stopped, NoStep)>> \/ proc' = Idle
        BY <3>3 DEF Commit, Declare, Raise
      <4>3. Follows(counted) /\ Follows(stopped)
        BY <4>1, <1>e DEF Calm
      <4> QED BY <2>r, <4>2, <4>3, <1>f, IdleFields
    <3>4. ASSUME NEW s, NEW n, Publish("request", n, [Idle EXCEPT !.step = s, !.results = n])
          PROVE  FALSE
      <4> DEFINE next == [Idle EXCEPT !.step = s, !.results = n]
      <4>1. "pc" \in DOMAIN next /\ proc' = [next EXCEPT !.pc = "publish", !.fact = "request",
                                                        !.content = n]
        BY <3>4, IdleFields DEF Publish, ProcRecords
      <4> HIDE DEF next
      <4>2. proc'.pc = "publish"
        BY <4>1
      <4> QED BY <4>2
    <3> QED BY <3>1, <3>2, <3>3, <3>4
  <2>4. record.state \in {"IMPLEMENTING", "REVIEWING", "CORRECTING", "CLOSURE_VERIFYING",
                          "NEEDS_CORRECTION", "PROVIDER_RETRY_PENDING", "PROVIDER_WAIT",
                          "FOCUSED_VERIFYING"}
    BY <1>7, InvokingStates DEF Drive
  <2> QED BY <2>1, <2>2, <2>3, <2>4, InvokingStates
<1>8. CASE EnterWait
  <2> DEFINE after == [record EXCEPT !.results = proc.results]
             to == [after EXCEPT !.state = "PROVIDER_WAIT"]
  <2>1. /\ after.row = record.row /\ after.state = record.state
        /\ to.row = record.row /\ to.state = "PROVIDER_WAIT"
    BY <1>a DEF RunRecords
  <2>2. \/ Commit(<<MoveTo(At(Human), NoStep)>>, "idle", Idle)
        \/ Commit(<<Update(after), MoveTo(to, NoStep)>>, "row", proc)
        \/ Commit(<<MoveTo(At("PROVIDER_WAIT"), NoStep)>>, "row", proc)
    BY <1>8 DEF EnterWait
  <2> HIDE DEF after, to
  <2>3. \/ proc' = [Idle EXCEPT !.pc = "idle"]
        \/ proc' = [proc EXCEPT !.pc = "row"]
        \/ proc' = Idle
        \/ mutation' = <<Update(after), MoveTo(to, NoStep)>>
    BY <2>2 DEF Commit, Declare, Raise
  <2>4. Follows(after) /\ Follows(to)
    BY <2>1, <1>e DEF Calm
  <2>5. record.state # Ready
    BY <1>8, <1>a DEF EnterWait
  <2>6. [Idle EXCEPT !.pc = "idle"].pc = "idle" /\ [proc EXCEPT !.pc = "row"].pc = "row"
    BY <1>a, IdleFields DEF ProcRecords
  <2> QED BY <2>3, <2>4, <2>5, <2>6, <1>f, IdleFields
<1>9. CASE PublishRow
  BY <1>9, IdleFields, <1>a DEF PublishRow, ProcRecords, Commit, Raise
<1>10. CASE BeforeSpawn
  BY <1>10, IdleFields, <1>a DEF BeforeSpawn, ProcRecords, Publish, Raise, durable
<1>11. CASE ProviderRefused
  BY <1>11, IdleFields, <1>a DEF ProviderRefused, ProcRecords, Commit, Raise
<1>12. CASE SpawnEntry
  BY <1>12, IdleFields, <1>a DEF SpawnEntry, ProcRecords, Publish, Raise, durable
<1>13. CASE ProcessReturns
  BY <1>13, <1>a DEF ProcessReturns, ProcRecords, Publish, durable
<1>14. CASE Settle
  <2> DEFINE after == [record EXCEPT !.row = CompletedRow]
             To(state) == [after EXCEPT !.state = state]
             Changed(state) == <<Update(after), MoveTo(To(state), NoStep)>>
  <2>1. \/ Commit(Changed("PROVIDER_RETRY_PENDING"), "retry", [proc EXCEPT !.tries = @ + 1])
        \/ Commit(Changed(Origin[proc.step[1]]), "judge", proc)
    BY <1>14 DEF Settle
  <2>2. proc' = Idle \/ mutation' \in {Changed("PROVIDER_RETRY_PENDING"), Changed(Origin[proc.step[1]])}
    BY <2>1 DEF Commit, Declare, Raise
  <2>3. /\ after.row = CompletedRow /\ after.state = record.state
        /\ \A state : To(state).row = CompletedRow /\ To(state).state = state
    BY <1>a DEF RunRecords
  <2>4. PICK status : CompletedRow = Row(proc.step[1], status)
    BY DEF CompletedRow
  <2>5. proc.step \in Steps
    BY <1>14, <1>a DEF Settle, Place, Invocation
  <2> HIDE DEF after, To
  <2>6. \A r : /\ r.row = CompletedRow
               /\ r.state \in {record.state, "PROVIDER_RETRY_PENDING", Origin[proc.step[1]]}
               => Follows(r)
    <3>1. {record.state, "PROVIDER_RETRY_PENDING", Origin[proc.step[1]]}
             \subseteq Calm \union {record.state, Origin[proc.step[1]]}
      BY DEF Calm
    <3> QED BY <2>4, <2>5, <3>1, Followers
  <2>7. Follows(after) /\ Follows(To("PROVIDER_RETRY_PENDING")) /\ Follows(To(Origin[proc.step[1]]))
    BY <2>3, <2>6
  <2>8. record.state # Ready
    BY <1>14, <1>a DEF Settle
  <2> QED BY <2>2, <2>7, <2>8, <1>f, IdleFields
<1>15. CASE Retry
  BY <1>15, IdleFields, <1>a DEF Retry, ProcRecords, Commit, Raise
<1>16. CASE Judge
  BY <1>16, <1>a DEF Judge, ProcRecords, Publish, durable
<1>17. CASE Accept
  <2>1. proc.step \in Steps /\ proc.pc = "decide"
    BY <1>17, <1>a DEF Accept, Place, Invocation
  <2>2. PICK state \in AcceptedStates(proc.step[1]) : Dispose("ACCEPTED", "VALIDATION", state)
    BY <1>17 DEF Accept
  <2> DEFINE next == [Idle EXCEPT !.step = proc.step]
             then == IF state \in Live THEN "drive" ELSE "idle"
             changes == <<Persist(record, proc.step, "ACCEPTED", "VALIDATION"),
                          MoveTo(At(state), proc.step)>>
  <2>3. proc' = Idle \/ Commit(changes, then, next)
    BY <2>2 DEF Dispose, Raise
  <2>4. Len(changes) = 2
    OBVIOUS
  <2>5. next \in ProcRecords /\ next.step = proc.step
    BY <2>1, IdleFields DEF ProcRecords
  <2> HIDE DEF changes, then, next
  <2>6. \/ proc' = Idle
        \/ mutation' = changes /\ proc' = [next EXCEPT !.pc = "emit", !.then = then]
    BY <2>3, <2>4 DEF Commit, Declare, Raise
  <2>7. mutation' = changes /\ proc'.then = then /\ proc'.step = proc.step
    BY <2>5, <2>6, IdleFields DEF ProcRecords
  <2> QED BY <2>1, <2>2, <2>7 DEF Accepts, changes, then
<1>18. CASE Reject
  <2>1. proc.step \in Steps /\ proc.pc = "decide"
    BY <1>18, <1>a DEF Reject, Place, Invocation
  <2> DEFINE state == FailedState(proc.step[1])
  <2>2. Dispose("REJECTED", RejectionSource, state) /\ state \in Calm
    BY <1>18 DEF Reject, FailedState, Calm
  <2> HIDE DEF state
  <2> DEFINE c == Persist(record, proc.step, "REJECTED", RejectionSource)
             d == MoveTo(At(state), proc.step)
             then == IF state \in Live THEN "drive" ELSE "idle"
             next == [Idle EXCEPT !.step = proc.step]
  <2>3. proc' = Idle \/ Commit(<<c, d>>, then, next)
    BY <2>2 DEF Dispose, Raise
  <2>4. c.after = record /\ d.after = At(state)
    BY DEF Persist, MoveTo, Change
  <2> HIDE DEF c, d, then, next
  <2>5. proc' = Idle \/ mutation' = <<c, d>>
    BY <2>3 DEF Commit, Declare, Raise
  <2>6. Follows(c.after) /\ Follows(d.after)
    BY <2>2, <2>4, <1>e
  <2> QED BY <2>1, <2>5, <2>6, <1>a, <1>b, IdleFields
<1>19. CASE LeaveUndecided
  BY <1>19, IdleFields, <1>a DEF LeaveUndecided, ProcRecords, Commit, Raise
<1>20. CASE AppendConstituent
  BY <1>20
<1>21. CASE WriteApplied
  <2>1. proc' = [Idle EXCEPT !.pc = proc.then] /\ proc.then # "emit"
    BY <1>21, <1>a DEF WriteApplied
  <2> QED BY <2>1, IdleFields DEF ProcRecords
<1>22. CASE PublishArtifact
  BY <1>22, <1>a, IdleFields DEF PublishArtifact, Raise, ProcRecords
<1>23. CASE RecordEvent
  <2>1. Writing(Facts)
    BY <1>23, ProcTyped DEF RecordEvent, Writing, Inv
  <2>2. AfterFact(proc.fact).pc # "emit"
    BY <2>1, ContentTyped, AfterFactFields DEF Facts
  <2> QED BY <1>23, <2>2, IdleFields DEF RecordEvent, Raise
<1>24. CASE Crash
  BY <1>24, IdleFields DEF Crash
<1>25. CASE UNCHANGED vars
  BY <1>25 DEF vars, durable, ProcRecords
<1> QED
  BY <1>1, <1>2, <1>3, <1>4, <1>5, <1>6, <1>7, <1>8, <1>9, <1>10, <1>11, <1>12, <1>13,
     <1>14, <1>15, <1>16, <1>17, <1>18, <1>19, <1>20, <1>21, <1>22, <1>23, <1>24, <1>25 DEF
     Next

-----------------------------------------------------------------------------
(* The correction and the gate. *)

\* What is settled stays settled, and only the persistence of its acceptance accepts an
\* operation.
LEMMA AcceptedChanges ==
    ASSUME Inv, [Next]_vars, NEW s \in Steps
    PROVE  /\ Accepted(s) => operations'[s].persisted = "ACCEPTED"
           /\ ~Accepted(s) /\ operations'[s].persisted = "ACCEPTED" =>
                 /\ AppendConstituent /\ Persisting /\ s = proc.step
                 /\ mutation[1].disposition = "ACCEPTED"
<1>1. ASSUME RecordEvent, operations' # operations, s = proc.step
      PROVE  operations[s].persisted # "ACCEPTED" /\ operations'[s].persisted # "ACCEPTED"
  <2>1. operations[s] \in OperationRecords /\ proc.content \in Contents
    BY ProcTyped DEF Inv, TypeOK
  <2>2. CASE proc.fact = "request"
    BY <2>1, <2>2, <1>1, RecordedStep, NewRecords DEF Known
  <2>3. CASE proc.fact # "request"
    BY <2>1, <2>3, <1>1, RecordedStep DEF OperationRecords
  <2> QED BY <2>2, <2>3
<1> QED BY <1>1, OperationChanges DEF Accepted

\* A command works on the correction only while the run is there.
LEMMA CorrectionBegins ==
    ASSUME Inv, [Next]_vars, proc'.step = CorrectionStep
    PROVE  proc.step = CorrectionStep \/ Corrects(record)
<1>1. CASE Afresh
  <2>1. NoStep # CorrectionStep
    BY StepFacts
  <2>2. CASE Drive /\ proc'.pc = "publish"
    <3>1. CASE record.state \in {"FOCUSED_VERIFYING"}
      <4>1. PICK state : LET after == [record EXCEPT !.results = @ + 1,
                                              !.completed = state # "MILESTONE_FAILED"]
             IN Commit(<<Update(after), MoveTo([after EXCEPT !.state = state], NoStep)>>,
                       IF state = "REVIEWING" THEN "drive" ELSE "idle", Idle)
        BY <2>2, <3>1, InvokingStates DEF Drive
      <4> DEFINE after == [record EXCEPT !.results = @ + 1, !.completed = state # "MILESTONE_FAILED"]
                 to == [after EXCEPT !.state = state]
                 then == IF state = "REVIEWING" THEN "drive" ELSE "idle"
      <4>2. Commit(<<Update(after), MoveTo(to, NoStep)>>, then, Idle) /\ then \in {"drive", "idle"}
        BY <4>1
      <4> HIDE DEF after, to, then
      <4>3. proc' = Idle \/ proc' = [Idle EXCEPT !.pc = "emit", !.then = then]
        BY <4>2 DEF Commit, Declare, Raise
      <4> QED BY <2>2, <4>3, IdleFields DEF ProcRecords
    <3>2. CASE record.state \in {"NEEDS_CORRECTION", "PROVIDER_RETRY_PENDING", "PROVIDER_WAIT"}
      <4>1. proc' \in {[Idle EXCEPT !.pc = "drive"], [Idle EXCEPT !.pc = "idle"]}
        BY <2>2, <3>2, InvokingStates DEF Drive, Commit
      <4> QED BY <2>2, <4>1, IdleFields DEF ProcRecords
    <3>3. CASE record.state \in Invoking
      <4> DEFINE Request(role, n) ==
                     Publish("request", n, [Idle EXCEPT !.step = provider_step(role), !.results = n])
      <4>1. \/ \E n : Request(RoleOf(record.state), n)
            \/ Request("CLOSURE", record.results + 1)
            \/ proc' \in {[Idle EXCEPT !.pc = "idle"], Idle, [Idle EXCEPT !.pc = "emit", !.then = "idle"]}
        <5>1. \/ Commit(<<MoveTo(At(Human), NoStep)>>, "idle", Idle)
              \/ Request(RoleOf(record.state), IF RoleOf(record.state) = "IMPLEMENTATION" THEN 0
                                               ELSE record.results)
              \/ Commit(<<Update([record EXCEPT !.results = @ + 1]),
                          MoveTo([At(Human) EXCEPT !.results = @ + 1], NoStep)>>, "idle", Idle)
              \/ Request("CLOSURE", record.results + 1)
          BY <2>2, <3>3, InvokingStates DEF Drive
        <5> HIDE DEF Request
        <5>2. Commit(<<MoveTo(At(Human), NoStep)>>, "idle", Idle) =>
                 proc' = [Idle EXCEPT !.pc = "idle"]
          BY DEF Commit
        <5>3. Commit(<<Update([record EXCEPT !.results = @ + 1]),
                       MoveTo([At(Human) EXCEPT !.results = @ + 1], NoStep)>>, "idle", Idle) =>
                 proc' = Idle \/ proc' = [Idle EXCEPT !.pc = "emit", !.then = "idle"]
          BY DEF Commit, Declare, Raise
        <5> QED BY <5>1, <5>2, <5>3
      <4>2. proc' \notin {[Idle EXCEPT !.pc = "idle"], Idle, [Idle EXCEPT !.pc = "emit", !.then = "idle"]}
        BY <2>2, IdleFields DEF ProcRecords
      <4>3. ASSUME NEW role \in Roles, NEW n, Request(role, n)
            PROVE  proc'.step = provider_step(role)
        BY <4>3, IdleFields DEF Publish, ProcRecords
      <4>4. RoleOf(record.state) \in Roles /\ "CLOSURE" \in Roles
        BY <3>3, InvokingStates DEF Roles
      <4> HIDE DEF Request
      <4>5. PICK role \in {RoleOf(record.state), "CLOSURE"} : proc'.step = provider_step(role)
        BY <4>1, <4>2, <4>3, <4>4
      <4>6. role = "CORRECTION"
        BY <4>4, <4>5, ProviderStep DEF Inv, CorrectionStep
      <4>7. RoleOf(record.state) = "CORRECTION"
        BY <4>5, <4>6
      <4>8. Origin["CORRECTION"] = record.state
        BY <3>3, <4>7, InvokingStates
      <4>9. record.state = "CORRECTING"
        BY <4>8 DEF Origin, Roles
      <4> QED BY <4>9 DEF Corrects
    <3>4. record.state \in {"IMPLEMENTING", "REVIEWING", "CORRECTING", "CLOSURE_VERIFYING",
                            "NEEDS_CORRECTION", "PROVIDER_RETRY_PENDING", "PROVIDER_WAIT",
                            "FOCUSED_VERIFYING"}
      BY <2>2, InvokingStates DEF Drive
    <3> QED BY <3>1, <3>2, <3>3, <3>4, InvokingStates
  <2> QED BY <1>1, <2>1, <2>2 DEF Afresh, Publishes
<1>2. CASE Proceeds
  <2>1. CASE Recording
    BY <2>1, AfterFactFields DEF Recording
  <2>2. CASE ~Recording
    BY <1>2, <2>2 DEF Proceeds, Waits, HasRow, Intends, IsRefused, Creates, CreatesNone, Returns,
       TriesAgain, Settled, Retries, Validates, Judges, Published, Appends, Unchanged, Keeps
  <2> QED BY <2>1, <2>2
<1> QED BY <1>1, <1>2, CommandStep

\* The change a command appends is the first it has declared.
LEMMA Appending ==
    ASSUME Inv, AppendConstituent
    PROVE  /\ proc.pc = "emit" /\ record' = mutation[1].after
           /\ 1 \in DOMAIN mutation
           /\ \A i \in DOMAIN mutation' : /\ i + 1 \in DOMAIN mutation
                                          /\ mutation'[i] = mutation[i + 1]
           /\ Len(mutation') = Len(mutation) - 1
           /\ mutation' = <<>> \/ Len(mutation) = 2
           /\ proc'.step = proc.step
           /\ proc'.pc = "emit" => proc'.then = proc.then
           /\ Len(mutation) = 1 /\ IsMove(mutation[1], proc.step) /\ proc.step \in Steps =>
                 proc'.pc = "applied" /\ proc'.then = proc.then
<1>1. /\ mutation # <<>> /\ record' = mutation[1].after /\ mutation \in Seq(Changes)
      /\ Len(mutation) \in {1, 2}
  BY AppendedChange DEF Inv, TypeOK, Updating, Updated, Persisting, Persisted
<1>2. mutation' = Tail(mutation) /\ proc.pc = "emit"
  BY DEF AppendConstituent
<1>3. /\ \A i \in DOMAIN mutation' : i + 1 \in DOMAIN mutation /\ mutation'[i] = mutation[i + 1]
      /\ 1 \in DOMAIN mutation
      /\ Len(mutation') = Len(mutation) - 1
      /\ mutation' = <<>> \/ Len(mutation) = 2
  BY <1>1, <1>2
<1> DEFINE pc == AfterConstituent(mutation[1])
<1>4. /\ proc' = [proc EXCEPT !.pc = pc,
                              !.then = IF pc \in {"emit", "applied"} THEN @ ELSE "idle"]
      /\ proc \in ProcRecords
  BY DEF AppendConstituent, Inv, TypeOK
<1>5. Len(mutation) = 1 /\ IsMove(mutation[1], proc.step) /\ proc.step \in Steps => pc = "applied"
  BY StepFacts DEF AfterConstituent, IsMove
<1> HIDE DEF pc
<1>6. /\ proc'.step = proc.step /\ proc'.pc = pc
      /\ pc \in {"emit", "applied"} => proc'.then = proc.then
  BY <1>4 DEF ProcRecords
<1> QED BY <1>1, <1>2, <1>3, <1>5, <1>6

\* There is a correction only after an accepted review.
LEMMA CorrectionFitsNext ==
    ASSUME Inv, [Next]_vars
    PROVE  CorrectionFits'
<1>a. /\ Corrects(record) \/ proc.step = CorrectionStep \/ Accepted(CorrectionStep) =>
             Accepted(ReviewStep)
      /\ proc.pc = "emit" => \A i \in DOMAIN mutation :
             Corrects(mutation[i].after) =>
                 \/ Accepted(ReviewStep)
                 \/ Persisting /\ mutation[1].disposition = "ACCEPTED" /\ proc.step = ReviewStep
      /\ ReviewStep \in Steps /\ CorrectionStep \in Steps
  BY StepFacts DEF Inv, CorrectionFits
<1>1. CASE operations'[ReviewStep].persisted = "ACCEPTED"
  BY <1>1 DEF CorrectionFits, Accepted
<1>2. CASE operations'[ReviewStep].persisted # "ACCEPTED"
  <2>1. /\ ~Accepted(ReviewStep) /\ ~Corrects(record) /\ proc.step # CorrectionStep
        /\ ~Accepted(CorrectionStep)
    BY <1>2, <1>a, AcceptedChanges
  <2>2. ASSUME AppendConstituent, NEW i \in DOMAIN mutation PROVE ~Corrects(mutation[i].after)
    <3>1. ASSUME Corrects(mutation[i].after) PROVE FALSE
      <4>1. Persisting /\ mutation[1].disposition = "ACCEPTED" /\ proc.step = ReviewStep
        BY <2>1, <2>2, <3>1, <1>a, Appending
      <4>2. operations' = [operations EXCEPT ![proc.step].persisted = mutation[1].disposition,
                                             ![proc.step].grounds = mutation[1].source]
        BY <4>1, <2>2, AppendedChange
      <4> DEFINE disposition == mutation[1].disposition
                 source == mutation[1].source
      <4>3. /\ operations' = [operations EXCEPT ![proc.step].persisted = disposition,
                                                ![proc.step].grounds = source]
            /\ disposition = "ACCEPTED" /\ operations \in [Steps -> OperationRecords]
        BY <4>1, <4>2 DEF Inv, TypeOK
      <4> HIDE DEF disposition, source
      <4>4. operations'[proc.step].persisted = "ACCEPTED"
        BY <4>1, <4>3, <1>a DEF OperationRecords
      <4> QED BY <4>1, <4>4, <1>2
    <3> QED BY <3>1
  <2>3. ~Corrects(record')
    BY <2>1, <2>2, RecordFollows, Appending DEF Follows
  <2>4. proc'.step # CorrectionStep
    BY <2>1, CorrectionBegins
  <2>5. operations'[CorrectionStep].persisted # "ACCEPTED"
    BY <2>1, <1>a, AcceptedChanges
  <2>6. ASSUME proc'.pc = "emit", NEW i \in DOMAIN mutation', Corrects(mutation'[i].after)
        PROVE  /\ Persisting' /\ mutation'[1].disposition = "ACCEPTED"
               /\ proc'.step = ReviewStep
    <3>1. CASE AppendConstituent
      <4>1. i + 1 \in DOMAIN mutation /\ mutation'[i] = mutation[i + 1]
        BY <3>1, <2>6, Appending
      <4>2. ~Corrects(mutation[i + 1].after)
        BY <3>1, <4>1, <2>2
      <4> QED BY <4>1, <4>2, <2>6
    <3>2. CASE UNCHANGED <<record, operations, mutation, proc>>
      <4>1. \/ Accepted(ReviewStep)
            \/ Persisting /\ mutation[1].disposition = "ACCEPTED" /\ proc.step = ReviewStep
        BY <3>2, <2>6, <1>a
      <4>2. Persisting' = Persisting
        BY <3>2 DEF Persisting, Settles, IsMove, CanPersist, Evidenced, Known, Attempts, Last
      <4> QED BY <3>2, <4>1, <4>2, <2>1
    <3>3. CASE Declared
      BY <3>3, <2>1, <2>6 DEF Declared, Follows
    <3>4. CASE Accepts
      <4>1. PICK state \in AcceptedStates(proc.step[1]) :
               mutation' = <<Persist(record, proc.step, "ACCEPTED", "VALIDATION"),
                             MoveTo(At(state), proc.step)>>
        BY <3>4 DEF Accepts
      <4>2. /\ Len(mutation') = 2 /\ DOMAIN mutation' = {1, 2}
            /\ mutation'[1].kind = "persist" /\ mutation'[1].disposition = "ACCEPTED"
            /\ mutation'[1].after = record /\ mutation'[2].after = At(state)
        BY <4>1 DEF Persist, MoveTo, Change
      <4>3. Persisting'
        <5>1. /\ proc'.pc = "emit" => Updating' \/ Updated' \/ Persisting' \/ Persisted'
          BY MutationFitsNext DEF MutationFits
        <5> QED BY <5>1, <4>2, <2>6 DEF Updating, Updated, Persisted
      <4>4. Corrects(At(state))
        BY <4>2, <2>1, <2>6
      <4>5. state \in {"NEEDS_CORRECTION", "CORRECTING"}
        BY <4>4, <2>1, Followers DEF Corrects
      <4>6. proc.step \in Steps /\ proc.step[1] = "REVIEW"
        BY <4>5, <3>4, StepFacts DEF Accepts, AcceptedStates, ClosureStates, Roles, Human, Ready
      <4> QED BY <4>2, <4>3, <4>6, <3>4, StepFacts DEF Accepts
    <3> QED BY <3>1, <3>2, <3>3, <3>4, <2>6, Declares
  <2>7. proc'.pc = "emit" => \A i \in DOMAIN mutation' :
            Corrects(mutation'[i].after) =>
                /\ Persisting' /\ mutation'[1].disposition = "ACCEPTED"
                /\ proc'.step = ReviewStep
    BY <2>6
  <2>8. Corrects(record)' = Corrects(record')
    BY DEF Corrects
  <2>9. \A i : Corrects(mutation[i].after)' = Corrects(mutation'[i].after)
    BY DEF Corrects
  <2> QED BY <2>3, <2>4, <2>5, <2>7, <2>8, <2>9 DEF CorrectionFits, Accepted
<1> QED BY <1>1, <1>2

\* Once a run waits for its approval no operation moves, and no command goes on.
LEMMA ReadyStays ==
    ASSUME Inv, [Next]_vars, record.state = Ready
    PROVE  operations' = operations /\ (proc' = proc \/ proc'.pc = "idle")
<1>a. /\ proc.pc \in {"idle", "applied"} /\ (proc.pc = "applied" => proc.then = "idle")
      /\ record.state \notin Live \union {Human, "MILESTONE_FAILED"}
      /\ record.state \notin {Human, "MILESTONE_FAILED"}
      /\ record.state \notin Live /\ record.state # Human
  BY InvokingStates DEF Inv, GateFits, Live, Excursion, Ready, Human
<1>b. Idle.pc = "idle" /\ [Idle EXCEPT !.pc = "idle"].pc = "idle"
  BY IdleFields DEF ProcRecords

<1>1. CASE OpenTorn
  BY <1>1, <1>a, <1>b DEF OpenTorn, Issue
<1>2. CASE Resume
  BY <1>2, <1>a, <1>b DEF Resume, Opens, Issue
<1>3. CASE ReopenMilestone
  BY <1>3, <1>a, <1>b DEF ReopenMilestone, Recover, Opens, Issue
<1>4. CASE ReconcileMilestone
  BY <1>4, <1>a, <1>b DEF ReconcileMilestone, Recover, Opens, Issue
<1>5. CASE RevalidateCorrection
  BY <1>5, <1>a, <1>b DEF RevalidateCorrection, Recover, Opens, Issue
<1>6. CASE Abort
  BY <1>6, <1>a, <1>b DEF Abort, Opens, Issue
<1>7. CASE Drive
  BY <1>7, <1>a, <1>b DEF Drive
<1>8. CASE EnterWait
  BY <1>8, <1>a, <1>b DEF EnterWait
<1>9. CASE PublishRow
  BY <1>9, <1>a, <1>b DEF PublishRow
<1>10. CASE BeforeSpawn
  BY <1>10, <1>a, <1>b DEF BeforeSpawn
<1>11. CASE ProviderRefused
  BY <1>11, <1>a, <1>b DEF ProviderRefused
<1>12. CASE SpawnEntry
  BY <1>12, <1>a, <1>b DEF SpawnEntry
<1>13. CASE ProcessReturns
  BY <1>13, <1>a, <1>b DEF ProcessReturns
<1>14. CASE Settle
  BY <1>14, <1>a, <1>b DEF Settle
<1>15. CASE Retry
  BY <1>15, <1>a, <1>b DEF Retry
<1>16. CASE Judge
  BY <1>16, <1>a, <1>b DEF Judge
<1>17. CASE Accept
  BY <1>17, <1>a, <1>b DEF Accept
<1>18. CASE Reject
  BY <1>18, <1>a, <1>b DEF Reject
<1>19. CASE LeaveUndecided
  BY <1>19, <1>a, <1>b DEF LeaveUndecided
<1>20. CASE AppendConstituent
  BY <1>20, <1>a, <1>b DEF AppendConstituent
<1>21. CASE WriteApplied
  BY <1>21, <1>a, <1>b DEF WriteApplied
<1>22. CASE PublishArtifact
  BY <1>22, <1>a, <1>b DEF PublishArtifact
<1>23. CASE RecordEvent
  BY <1>23, <1>a, <1>b DEF RecordEvent
<1>24. CASE Crash
  BY <1>24, <1>b DEF Crash, durable
<1>25. CASE UNCHANGED vars
  BY <1>25 DEF vars, durable
<1> QED
  BY <1>1, <1>2, <1>3, <1>4, <1>5, <1>6, <1>7, <1>8, <1>9, <1>10, <1>11, <1>12, <1>13,
     <1>14, <1>15, <1>16, <1>17, <1>18, <1>19, <1>20, <1>21, <1>22, <1>23, <1>24, <1>25 DEF
     Next


\* The run waits for its approval by the transition of an accepted ruling.
LEMMA GateFitsNext ==
    ASSUME Inv, [Next]_vars
    PROVE  GateFits'
<1>a. /\ proc.pc = "emit" => \A i \in DOMAIN mutation :
             mutation[i].after.state = Ready => IsMove(mutation[i], proc.step) /\ Ruling
      /\ record.state = Ready =>
            /\ proc.pc \in {"idle", "applied"} /\ (proc.pc = "applied" => proc.then = "idle")
            /\ \E s \in {ReviewStep, ClosureStep} : Accepted(s) /\ operations[s].applied
            /\ Accepted(CorrectionStep) => Accepted(ClosureStep)
  BY DEF Inv, GateFits
<1>s. /\ ReviewStep \in Steps /\ CorrectionStep \in Steps /\ ClosureStep \in Steps
      /\ ReviewStep # CorrectionStep /\ ClosureStep # CorrectionStep
  BY StepFacts DEF ReviewStep, CorrectionStep, ClosureStep
<1>t. operations \in [Steps -> OperationRecords] /\ record \in RunRecords
  BY DEF Inv, TypeOK
<1>1. ASSUME record'.state = Ready
      PROVE  /\ proc'.pc \in {"idle", "applied"} /\ (proc'.pc = "applied" => proc'.then = "idle")
             /\ \E s \in {ReviewStep, ClosureStep} :
                   operations'[s].persisted = "ACCEPTED" /\ operations'[s].applied
             /\ operations'[CorrectionStep].persisted = "ACCEPTED" =>
                   operations'[ClosureStep].persisted = "ACCEPTED"
  <2>1. CASE AppendConstituent
    <3>1. /\ IsMove(mutation[1], proc.step) /\ Ruling
          /\ proc.pc = "emit" /\ 1 \in DOMAIN mutation
      BY <2>1, <1>1, <1>a, Appending
    <3>2. ~Persisting
      BY <3>1 DEF IsMove, Persisting
    <3>3. /\ Persisted /\ Accepted(proc.step) /\ proc.step \in {ReviewStep, ClosureStep}
          /\ proc.step = ReviewStep => ~Accepted(CorrectionStep)
          /\ proc.then = "idle"
      BY <3>1, <3>2 DEF Ruling
    <3>4. proc'.pc = "applied" /\ proc'.then = "idle"
      BY <2>1, <3>1, <3>3, Appending DEF Persisted
    <3>5. operations' = [operations EXCEPT ![proc.step].applied = TRUE]
      BY <2>1, <3>3, AppendedChange
    <3>6. /\ operations'[proc.step].persisted = "ACCEPTED" /\ operations'[proc.step].applied
          /\ operations'[CorrectionStep].persisted = operations[CorrectionStep].persisted
      BY <3>3, <3>5, <1>s, <1>t DEF OperationRecords, Accepted
    <3> QED BY <3>3, <3>4, <3>6 DEF Accepted
  <2>2. CASE ~AppendConstituent
    <3>1. record.state = Ready
      BY <2>2, <1>1, RecordFollows DEF Follows
    <3>2. operations' = operations /\ (proc' = proc \/ proc'.pc = "idle")
      BY <3>1, ReadyStays
    <3> QED BY <3>1, <3>2, <1>a DEF Accepted
  <2> QED BY <2>1, <2>2
<1>2. ASSUME proc'.pc = "emit", NEW i \in DOMAIN mutation', mutation'[i].after.state = Ready
      PROVE  IsMove(mutation'[i], proc'.step) /\ Ruling'
  <2>1. CASE AppendConstituent
    <3>1. /\ i + 1 \in DOMAIN mutation /\ mutation'[i] = mutation[i + 1]
          /\ Len(mutation) = 2 /\ Len(mutation') = 1
          /\ proc'.step = proc.step /\ proc'.then = proc.then /\ proc.pc = "emit"
      <4>1. mutation' # <<>>
        BY <1>2
      <4>2. Len(mutation') = Len(mutation) - 1 /\ (mutation' = <<>> \/ Len(mutation) = 2)
        BY <2>1, Appending
      <4>3. Len(mutation) = 2 /\ Len(mutation') = 1
        BY <4>1, <4>2
      <4>4. i + 1 \in DOMAIN mutation /\ mutation'[i] = mutation[i + 1]
        BY <2>1, <1>2, Appending
      <4>5. proc'.step = proc.step /\ proc'.then = proc.then /\ proc.pc = "emit"
        BY <2>1, <1>2, Appending
      <4> QED BY <4>3, <4>4, <4>5
    <3>2. IsMove(mutation[i + 1], proc.step) /\ Ruling
      BY <3>1, <1>2, <1>a
    <3>3. ~Persisted
      BY <3>1 DEF Persisted
    <3>4. /\ Persisting /\ mutation[1].disposition = "ACCEPTED"
          /\ proc.step \in {ReviewStep, ClosureStep} /\ proc.then = "idle"
      BY <3>2, <3>3 DEF Ruling
    <3>5. operations[proc.step].persisted = "none"
      BY <3>4 DEF Persisting, CanPersist
    <3>6. proc.step = ReviewStep => ~Accepted(CorrectionStep)
      BY <3>5 DEF Inv, CorrectionFits, Accepted
    <3> DEFINE disposition == mutation[1].disposition
               source == mutation[1].source
    <3>7. /\ operations' = [operations EXCEPT ![proc.step].persisted = disposition,
                                              ![proc.step].grounds = source]
          /\ disposition = "ACCEPTED"
      BY <2>1, <3>4, AppendedChange
    <3> HIDE DEF disposition, source
    <3>8. /\ operations'[proc.step].persisted = "ACCEPTED"
          /\ operations'[CorrectionStep].persisted = operations[CorrectionStep].persisted
      BY <3>4, <3>7, <1>s, <1>t DEF OperationRecords
    <3>9. i = 1
      BY <3>1, <1>2
    <3>10. IsMove(mutation'[1], proc'.step)
      BY <3>1, <3>2, <3>9 DEF IsMove
    <3>11. Persisted'
      BY <3>1, <3>4, <3>8, <3>10, <1>s DEF Persisted, IsMove
    <3> QED
      BY <3>1, <3>4, <3>6, <3>8, <3>9, <3>10, <3>11 DEF Ruling, Accepted
  <2>2. CASE UNCHANGED <<record, operations, mutation, proc>>
    <3>1. IsMove(mutation'[i], proc'.step) /\ Ruling
      BY <2>2, <1>2, <1>a DEF IsMove
    <3>2. Ruling' = Ruling
      BY <2>2 DEF Ruling, Persisting, Persisted, Settles, IsMove, CanPersist, Evidenced, Known,
         Attempts, Last, Accepted
    <3> QED BY <3>1, <3>2
  <2>3. CASE Declared
    BY <2>3, <1>2 DEF Declared, Follows
  <2>4. CASE Accepts
    <3>1. PICK state \in AcceptedStates(proc.step[1]) :
             /\ mutation' = <<Persist(record, proc.step, "ACCEPTED", "VALIDATION"),
                              MoveTo(At(state), proc.step)>>
             /\ proc'.then = IF state \in Live THEN "drive" ELSE "idle"
      BY <2>4 DEF Accepts
    <3>2. /\ Len(mutation') = 2 /\ DOMAIN mutation' = {1, 2}
          /\ mutation'[1].kind = "persist" /\ mutation'[1].disposition = "ACCEPTED"
          /\ mutation'[1].after = record /\ mutation'[2].after = At(state)
          /\ IsMove(mutation'[2], proc.step)
      BY <3>1 DEF Persist, MoveTo, Change, IsMove
    <3>3. proc.pc = "decide" /\ proc.step \in Steps /\ proc'.step = proc.step
      BY <2>4 DEF Accepts
    <3>4. i = 2 /\ state = Ready
      <4>1. record.state # Ready
        BY <3>3, <1>a
      <4> QED BY <3>2, <4>1, <1>2, Followers
    <3>5. Persisting'
      <4>1. proc'.pc = "emit" => Updating' \/ Updated' \/ Persisting' \/ Persisted'
        BY MutationFitsNext DEF MutationFits
      <4> QED BY <4>1, <3>2, <1>2 DEF Updating, Updated, Persisted
    <3>6. proc'.then = "idle"
      BY <3>1, <3>4, InvokingStates DEF Live, Excursion, Ready
    <3>7. proc.step[1] \in {"REVIEW", "CLOSURE"}
      BY <3>1, <3>3, <3>4, StepFacts DEF AcceptedStates, Roles, Ready, Human
    <3>8. proc'.step \in {ReviewStep, ClosureStep}
      BY <3>3, <3>7, StepFacts
    <3> QED BY <3>2, <3>3, <3>4, <3>5, <3>6, <3>8 DEF Ruling
  <2> QED BY <2>1, <2>2, <2>3, <2>4, <1>2, Declares
<1>3. \A i : IsMove(mutation[i], proc.step)' = IsMove(mutation'[i], proc'.step)
  BY DEF IsMove
<1> QED BY <1>1, <1>2, <1>3 DEF GateFits, Accepted

-----------------------------------------------------------------------------
(* The theorems. *)

\* A fresh run satisfies the inductive invariant.
LEMMA InvInit ==
    ASSUME Init
    PROVE  Inv
<1>1. /\ proc.pc = "drive" /\ proc.step = NoStep /\ proc.fact = "request" /\ proc.attempt = 0
      /\ proc.raw = FALSE /\ proc.refused = FALSE /\ proc.outcome = "none"
      /\ proc.then = "idle" /\ proc \in ProcRecords
  <2>1. proc = [Idle EXCEPT !.pc = "drive"]
    BY DEF Init
  <2>2. Idle \in ProcRecords
    BY IdleFields
  <2>3. "drive" \in Pcs
    BY DEF Pcs
  <2>4. proc \in ProcRecords
    BY <2>1, <2>2, <2>3 DEF ProcRecords
  <2> QED BY <2>1, <2>2, <2>4, IdleFields DEF ProcRecords
<1>2. /\ \A s \in Steps : operations[s] = NoOperation
      /\ \A s \in Steps : Attempts(s) = <<>> /\ ~Known(s) /\ ~Accepted(s)
      /\ \A s \in Steps : operations[s].applied = FALSE
      /\ operations \in [Steps -> OperationRecords]
  BY NewRecords DEF Init, Attempts, Known, Accepted
<1>3. /\ record = [state |-> "IMPLEMENTING", row |-> NoRow, reopenings |-> 0,
                   results |-> 0, completed |-> FALSE]
      /\ record.state = "IMPLEMENTING" /\ record.row.role = "IMPLEMENTATION"
  BY DEF Init, NoRow, Row
<1>4. mutation = <<>> /\ processes = {} /\ commands = 0
  BY DEF Init
<1>5. TypeOK
  <2>1. record \in RunRecords
    BY <1>3, CommandAssumption, InvokingStates DEF RunRecords, NoRow, Row, Roles, States, Live
  <2>2. artifacts \in [Paths -> Contents]
    BY DEF Init, Contents
  <2>3. \A s \in Steps : Len(Attempts(s)) <= MaxOperationAttempts
    BY <1>2, EmptySeq, AttemptAssumption
  <2>4. mutation \in Seq(Changes) /\ commands \in 0 .. MaxCommands
    BY <1>4, EmptySeq, CommandAssumption
  <2> QED BY <2>1, <2>2, <2>3, <2>4, <1>1, <1>2, <1>4 DEF TypeOK
<1>6. MutationFits /\ PlaceFits /\ ResultFits
  BY <1>1, <1>4 DEF MutationFits, PlaceFits, ResultFits, Place, Invocation, Writing
<1>7. Ladder /\ OneProcessPerOperation /\ DispatchFits /\ AnswersFit
  <2>1. Ladder
    <3>1. \A s \in Steps : DOMAIN Attempts(s) = {}
      BY <1>2
    <3> QED BY <1>2, <3>1 DEF Ladder
  <2>2. OneProcessPerOperation
    BY <1>4 DEF OneProcessPerOperation
  <2>3. DispatchFits
    BY <1>1 DEF DispatchFits, Writing
  <2>4. AnswersFit
    BY <1>1, <1>2 DEF AnswersFit
  <2> QED BY <2>1, <2>2, <2>3, <2>4
<1>8. ArtifactsFit /\ ReceiptsFit
  BY <1>1, <1>2 DEF ArtifactsFit, ReceiptsFit, Unapplied
<1>9. CorrectionFits /\ GateFits
  BY <1>1, <1>2, <1>3, StepFacts
     DEF CorrectionFits, GateFits, Corrects, NoStep, CorrectionStep, Ready
<1> QED BY <1>5, <1>6, <1>7, <1>8, <1>9 DEF Inv

\* Every step keeps the inductive invariant.
LEMMA InvNext ==
    ASSUME Inv, [Next]_vars
    PROVE  Inv'
<1>1. TypeOK' /\ MutationFits' /\ PlaceFits' /\ ResultFits'
  BY TypeNext, MutationFitsNext, PlaceFitsNext, ResultFitsNext
<1>2. Ladder' /\ OneProcessPerOperation' /\ DispatchFits' /\ AnswersFit'
  BY LadderNext, OneProcessNext, DispatchFitsNext, AnswersFitNext
<1>3. ArtifactsFit' /\ ReceiptsFit' /\ CorrectionFits' /\ GateFits'
  BY ArtifactsFitNext, ReceiptsFitNext, CorrectionFitsNext, GateFitsNext
<1> QED BY <1>1, <1>2, <1>3 DEF Inv

\* Between any two durable writes of any command, and after any crash, the journal,
\* the record and what the command remembers of them fit together: the inductive
\* invariant of operations.py and application.py.
THEOREM JournalFits == Spec => []Inv
<1>1. Init => Inv
  BY InvInit
<1>2. Inv /\ [Next]_vars => Inv'
  BY InvNext
<1> QED BY <1>1, <1>2, PTL DEF Spec

\* Every variable keeps its type, and next_attempt never leaves an operation with more
\* than MAX_OPERATION_ATTEMPTS attempts, however many commands count retries anew.
THEOREM JournalTyped == Spec => []TypeOK
<1>1. Inv => TypeOK
  BY DEF Inv
<1> QED BY <1>1, JournalFits, PTL

\* A provider is dispatched to at most one process for one operation, whatever
\* crashes, resumes and retries: at_spawn_entry follows only an intent that is on the
\* chain, with no receipt and no process.
THEOREM OneProcess == Spec => []OneProcessPerOperation
<1>1. Inv => OneProcessPerOperation
  BY DEF Inv
<1> QED BY <1>1, JournalFits, PTL

\* What the chain binds is what publish_evidence wrote, and a run waits for its
\* approval only on an accepted ruling: RunIsEvidenced, of any crash and reopening.
THEOREM RunEvidenced == Spec => []RunIsEvidenced
<1>1. ASSUME Inv PROVE EvidenceMatches
  BY <1>1 DEF Inv, EvidenceMatches, ArtifactsFit, BoundAttempt, Bound, ReceiptsFit
<1>2. ASSUME Inv PROVE GateIsAccepted
  <2>1. \A s \in Steps : Accepted(s) => \E p \in processes : p.step = s /\ p.result = "answer"
    BY <1>2 DEF Inv, AnswersFit, Answered
  <2>2. record.state = Ready =>
           /\ \E s \in {ReviewStep, ClosureStep} : Accepted(s) /\ operations[s].applied
           /\ Accepted(CorrectionStep) => Accepted(ClosureStep)
    BY <1>2 DEF Inv, GateFits
  <2>3. /\ FirstOf("REVIEW") = ReviewStep /\ FirstOf("CLOSURE") = ClosureStep
        /\ FirstOf("CORRECTION") = CorrectionStep
    BY DEF FirstOf, ReviewStep, ClosureStep, CorrectionStep
  <2>4. (\E s \in {ReviewStep, ClosureStep} : Accepted(s) /\ operations[s].applied) =>
           \E r \in {"REVIEW", "CLOSURE"} :
              Accepted(FirstOf(r)) /\ operations[FirstOf(r)].applied
    BY <2>3
  <2> QED BY <2>1, <2>2, <2>3, <2>4 DEF GateIsAccepted
<1>3. Inv => RunIsEvidenced
  BY <1>1, <1>2 DEF RunIsEvidenced
<1> QED BY <1>3, JournalFits, PTL

-----------------------------------------------------------------------------
(* Each operation keeps its promise. *)

\* How far an attempt has come, and an operation, by their records.
AttemptPhase(a) ==
    CASE a.refused # Absent -> "refused"
      [] a.verdict = "VALID" -> "valid"
      [] a.verdict \in Verdicts \ {"VALID"} -> "unusable"
      [] a.verdict = NoVerdict /\ a.raw # Absent -> "answered"
      [] a.raw = Absent /\ a.receipt # Absent -> "received"
      [] OTHER -> "intended"
OpenPhase(o) ==
    CASE o.attempts = <<>> -> "requested"
      [] o.attempts # <<>> -> AttemptPhase(o.attempts[Len(o.attempts)])
PhaseOf(o) ==
    CASE o = NoOperation -> "none"
      [] o.persisted = "ACCEPTED" -> "accepted"
      [] o.persisted = "REJECTED" -> "rejected"
      [] o # NoOperation /\ o.persisted = "none" -> OpenPhase(o)

\* The phase of an operation is that of its record, before and after a step.
LEMMA PhaseIsOfRecord ==
    ASSUME NEW s \in Steps
    PROVE  Phase(s) = PhaseOf(operations[s]) /\ Phase(s)' = PhaseOf(operations'[s])
BY DEF Phase, PhaseOf, OpenPhase, AttemptPhase, Known, Attempts, Last

\* The phases of an attempt are the rungs of its ladder.
LEMMA AttemptPhases ==
    ASSUME NEW a, OnLadder(a), a.verdict \in Verdicts \union {NoVerdict}
    PROVE  /\ a.refused # Absent => AttemptPhase(a) = "refused"
           /\ a.receipt = Absent /\ a.refused = Absent => AttemptPhase(a) = "intended"
           /\ a.receipt # Absent /\ a.raw = Absent => AttemptPhase(a) = "received"
           /\ a.raw # Absent /\ a.validated = Absent => AttemptPhase(a) = "answered"
           /\ a.validated # Absent =>
                 AttemptPhase(a) = IF a.verdict = "VALID" THEN "valid" ELSE "unusable"
<1>1. NoVerdict \notin Verdicts /\ "VALID" \in Verdicts
  BY DEF NoVerdict, Verdicts
<1>2. CASE a.refused # Absent
  BY <1>1, <1>2 DEF OnLadder, AttemptPhase
<1>3. CASE a.receipt = Absent /\ a.refused = Absent
  BY <1>1, <1>3 DEF OnLadder, AttemptPhase
<1>4. CASE a.receipt # Absent /\ a.raw = Absent
  BY <1>1, <1>4 DEF OnLadder, AttemptPhase
<1>5. CASE a.raw # Absent /\ a.validated = Absent
  BY <1>1, <1>5 DEF OnLadder, AttemptPhase
<1>6. CASE a.validated # Absent
  BY <1>1, <1>6 DEF OnLadder, AttemptPhase
<1> QED BY <1>2, <1>3, <1>4, <1>5, <1>6 DEF OnLadder

\* The phase of an operation that is not.
LEMMA UnknownPhase == PhaseOf(NoOperation) = "none"
BY NewRecords DEF PhaseOf

\* The phases of an operation that is known.
LEMMA KnownPhases ==
    ASSUME NEW o, o # NoOperation
    PROVE  /\ o.persisted = "ACCEPTED" => PhaseOf(o) = "accepted"
           /\ o.persisted = "REJECTED" => PhaseOf(o) = "rejected"
           /\ o.persisted = "none" /\ o.attempts = <<>> => PhaseOf(o) = "requested"
           /\ o.persisted = "none" /\ o.attempts # <<>> =>
                 PhaseOf(o) = AttemptPhase(o.attempts[Len(o.attempts)])
<1>1. CASE o.persisted = "ACCEPTED"
  BY <1>1 DEF PhaseOf
<1>2. CASE o.persisted = "REJECTED"
  BY <1>2 DEF PhaseOf
<1>3. CASE o.persisted = "none"
  <2>1. PhaseOf(o) = OpenPhase(o)
    BY <1>3 DEF PhaseOf
  <2> QED BY <1>3, <2>1 DEF OpenPhase
<1> QED BY <1>1, <1>2, <1>3

\* The phase of an unsettled operation is that of its last attempt.
LEMMA LastPhase ==
    ASSUME Inv, NEW s \in Steps, operations[s].persisted = "none", Attempts(s) # <<>>
    PROVE  /\ Known(s) /\ Phase(s) = AttemptPhase(Last(s))
           /\ OnLadder(Last(s)) /\ Last(s) \in AttemptRecords
           /\ Last(s).verdict \in Verdicts \union {NoVerdict}
<1>1. Known(s)
  BY NewRecords DEF Known, Attempts
<1>2. OnLadder(Last(s)) /\ Last(s) \in AttemptRecords
  BY AttemptsTyped DEF Inv, Ladder, Last
<1>3. Phase(s) = AttemptPhase(Last(s))
  BY <1>1, PhaseIsOfRecord, KnownPhases DEF Known, Attempts, Last
<1> QED BY <1>1, <1>2, <1>3 DEF AttemptRecords

\* A fact that is recorded moves the operation it is of one rung up.
LEMMA RecordedMoves ==
    ASSUME Inv, RecordEvent, operations' # operations
    PROVE  LET s == proc.step
               p == PhaseOf(operations'[s])
           IN  /\ <<Phase(s), p>> \in Promise!Moves
               /\ p = "refused" => s \notin {q.step : q \in processes}
               /\ p = "received" => s \in {q.step : q \in processes}
<1> DEFINE s == proc.step
           o == operations'[s]
           p == PhaseOf(o)
<1>1. /\ s \in Steps /\ Writing(Facts) /\ proc.fact \in Facts \ {"applied"}
      /\ proc.content # Absent /\ proc.content \in Contents
      /\ operations[s] \in OperationRecords
  BY RecordedStep, ContentTyped DEF Inv, TypeOK, Contents
<1>2. CASE proc.fact = "request"
  <2>1. ~Known(s) /\ o = NewOperation(proc.content)
    BY <1>2, RecordedStep
  <2>2. Phase(s) = "none"
    BY <2>1, <1>1, PhaseIsOfRecord, UnknownPhase DEF Known
  <2>3. o # NoOperation /\ o.persisted = "none" /\ o.attempts = <<>>
    BY <1>1, <2>1, NewRecords
  <2>4. p = "requested"
    BY <2>3, KnownPhases
  <2> QED BY <2>2, <2>4 DEF Promise!Moves
<1>3. ASSUME proc.fact # "request"
      PROVE  /\ Known(s) /\ operations[s].persisted = "none"
             /\ o.persisted = "none" /\ o.attempts # <<>> /\ o # NoOperation
             /\ p = AttemptPhase(o.attempts[Len(o.attempts)])
  <2>1. Known(s) /\ operations[s].persisted = "none" /\ o.persisted = "none"
    BY <1>1, <1>3, RecordedStep DEF OperationRecords
  <2>2. o.attempts # <<>>
    <3>1. proc.fact = "intent" => Len(o.attempts) = Len(Attempts(s)) + 1
      BY RecordedAttempts
    <3>2. proc.fact # "intent" => o.attempts # <<>>
      BY <1>3, RecordedAttempts
    <3>3. Len(Attempts(s)) \in Nat
      BY <1>1, AttemptsTyped DEF Inv
    <3> QED BY <3>1, <3>2, <3>3
  <2>3. o # NoOperation
    BY <2>1, NewRecords
  <2> QED BY <2>1, <2>2, <2>3, KnownPhases
<1>4. CASE proc.fact = "intent"
  <2>1. p = "intended"
    <3>1. p = AttemptPhase(NewAttempt(proc.content))
      BY <1>3, <1>4, RecordedAttempts
    <3> QED BY <3>1 DEF NewAttempt, AttemptPhase, Verdicts, NoVerdict
  <2>2. CASE Attempts(s) = <<>>
    <3>1. Phase(s) = "requested"
      BY <1>1, <1>3, <1>4, <2>2, PhaseIsOfRecord, KnownPhases DEF Known, Attempts
    <3> QED BY <2>1, <3>1 DEF Promise!Moves
  <2>3. CASE Attempts(s) # <<>>
    <3>1. Last(s).refused # Absent
      BY <1>4, <2>3, RecordedAttempt
    <3>2. Phase(s) = "refused"
      BY <1>1, <1>3, <1>4, <2>3, <3>1, LastPhase, AttemptPhases
    <3> QED BY <2>1, <3>2 DEF Promise!Moves
  <2> QED BY <2>2, <2>3
<1>5. ASSUME proc.fact \notin {"request", "intent"}
      PROVE  LET a == Last(s)
                 b == After(a, proc.fact, proc.content, proc.outcome)
             IN  /\ Attempts(s) # <<>> /\ Phase(s) = AttemptPhase(a)
                 /\ OnLadder(a) /\ a.verdict \in Verdicts \union {NoVerdict}
                 /\ a \in AttemptRecords
                 /\ p = AttemptPhase(b) /\ OnLadder(b)
                 /\ b.verdict \in Verdicts \union {NoVerdict}
  <2> DEFINE b == After(Last(s), proc.fact, proc.content, proc.outcome)
  <2>1. Attempts(s) # <<>> /\ o.attempts[Len(o.attempts)] = b
    BY <1>5, RecordedAttempts
  <2>2. b \in AttemptRecords /\ OnLadder(b)
    BY <1>1, <1>5, AfterTyped
  <2>3. b.verdict \in Verdicts \union {NoVerdict}
    BY <2>2 DEF AttemptRecords
  <2>4. p = AttemptPhase(b)
    BY <1>3, <1>5, <2>1
  <2> QED BY <1>1, <1>3, <1>5, <2>1, <2>2, <2>3, <2>4, LastPhase
<1>6. CASE proc.fact = "receipt"
  <2>1. Last(s).receipt = Absent /\ Last(s).refused = Absent
    BY <1>6, RecordedAttempt
  <2>2. Phase(s) = "intended"
    BY <1>5, <1>6, <2>1, AttemptPhases
  <2>3. p = "received"
    <3> DEFINE b == After(Last(s), proc.fact, proc.content, proc.outcome)
    <3>1. b.receipt # Absent
      BY <1>1, <1>5, <1>6 DEF After, AttemptRecords
    <3>2. b.raw = Absent
      BY <1>1, <1>5, <1>6, <2>1, AfterTyped DEF OnLadder
    <3> QED BY <1>5, <1>6, <3>1, <3>2, AttemptPhases
  <2>4. s \in {q.step : q \in processes}
    BY <1>1, <1>6 DEF Inv, DispatchFits, Writing
  <2> QED BY <2>2, <2>3, <2>4 DEF Promise!Moves
<1>7. CASE proc.fact = "pre-spawn"
  <2>1. Last(s).receipt = Absent /\ Last(s).refused = Absent
    BY <1>7, RecordedAttempt
  <2>2. Phase(s) = "intended"
    BY <1>5, <1>7, <2>1, AttemptPhases
  <2>3. p = "refused"
    <3> DEFINE b == After(Last(s), proc.fact, proc.content, proc.outcome)
    <3>1. b.refused # Absent
      BY <1>1, <1>7, AfterTyped
    <3> QED BY <1>5, <1>7, <3>1, AttemptPhases
  <2>4. s \notin {q.step : q \in processes}
    BY <1>1, <1>7 DEF Inv, DispatchFits, Writing
  <2> QED BY <2>2, <2>3, <2>4 DEF Promise!Moves
<1>8. CASE proc.fact = "raw"
  <2>1. Last(s).receipt # Absent /\ Last(s).raw = Absent
    BY <1>8, RecordedAttempt
  <2>2. Phase(s) = "received"
    BY <1>5, <1>8, <2>1, AttemptPhases
  <2>3. p = "answered"
    <3> DEFINE b == After(Last(s), proc.fact, proc.content, proc.outcome)
    <3>1. b.raw # Absent
      BY <1>1, <1>5, <1>8 DEF After, AttemptRecords
    <3>2. b.validated = Absent
      BY <1>1, <1>5, <1>8, <2>1 DEF After, AttemptRecords, OnLadder
    <3> QED BY <1>5, <1>8, <3>1, <3>2, AttemptPhases
  <2> QED BY <2>2, <2>3 DEF Promise!Moves
<1>9. CASE proc.fact = "validated"
  <2>1. Last(s).raw # Absent /\ Last(s).validated = Absent
    BY <1>9, RecordedAttempt
  <2>2. Phase(s) = "answered"
    BY <1>5, <1>9, <2>1, AttemptPhases
  <2>3. p \in {"valid", "unusable"}
    <3> DEFINE b == After(Last(s), proc.fact, proc.content, proc.outcome)
    <3>1. b.validated # Absent
      BY <1>1, <1>5, <1>9 DEF After, AttemptRecords
    <3> QED BY <1>5, <1>9, <3>1, AttemptPhases
  <2> QED BY <2>2, <2>3 DEF Promise!Moves
<1> QED BY <1>1, <1>2, <1>4, <1>6, <1>7, <1>8, <1>9 DEF Facts

\* What a persistence leaves of its operation.
LEMMA PersistedRecord ==
    ASSUME Inv, AppendConstituent, Persisting
    PROVE  /\ operations'[proc.step].persisted = mutation[1].disposition
           /\ operations'[proc.step].persisted \in {"ACCEPTED", "REJECTED"}
           /\ operations'[proc.step] # NoOperation
<1> DEFINE s == proc.step
           disposition == mutation[1].disposition
           source == mutation[1].source
<1>1. s \in Steps /\ disposition \in {"ACCEPTED", "REJECTED"}
  BY DEF Persisting, Settles
<1>2. operations[s] \in OperationRecords /\ s \in DOMAIN operations
  BY <1>1 DEF Inv, TypeOK
<1>3. operations' = [operations EXCEPT ![s].persisted = disposition, ![s].grounds = source]
  BY AppendedChange
<1>4. operations'[s].persisted = disposition
  <2> HIDE DEF disposition, source
  <2> QED BY <1>2, <1>3 DEF OperationRecords
<1> QED BY <1>1, <1>4, NewRecords

\* A persistence that the fold takes settles its operation from where it may.
LEMMA PersistedMoves ==
    ASSUME Inv, AppendConstituent, Persisting
    PROVE  <<Phase(proc.step), PhaseOf(operations'[proc.step])>> \in Promise!Moves
<1> DEFINE s == proc.step
           disposition == mutation[1].disposition
           source == mutation[1].source
<1>1. /\ s \in Steps /\ Known(s) /\ operations[s].persisted = "none"
      /\ Evidenced(s, disposition, source)
      /\ source = "DISPATCH_REFUSED" /\ Attempts(s) # <<>> =>
            Last(s).receipt = Absent /\ Last(s).refused = Absent
      /\ \/ disposition = "REJECTED" /\ source # "none"
         \/ disposition = "ACCEPTED" /\ source = "VALIDATION"
  BY DEF Persisting, CanPersist, Settles
<1>2. source \in Sources
  <2>1. mutation \in Seq(Changes) /\ 1 \in DOMAIN mutation
    BY DEF Persisting, Inv, TypeOK
  <2>2. mutation[1] \in Changes
    BY <2>1
  <2> QED BY <2>2 DEF Changes
<1>3. operations'[s].persisted = disposition /\ operations'[s] # NoOperation
  BY PersistedRecord
<1>5. PhaseOf(operations'[s]) = IF disposition = "ACCEPTED" THEN "accepted" ELSE "rejected"
  BY <1>1, <1>3, KnownPhases
<1>6. ASSUME Attempts(s) # <<>>
      PROVE  /\ Phase(s) = AttemptPhase(Last(s)) /\ OnLadder(Last(s))
             /\ Last(s).verdict \in Verdicts \union {NoVerdict}
  BY <1>1, <1>6, LastPhase
<1>7. CASE disposition = "ACCEPTED"
  <2>1. Attempts(s) # <<>> /\ Last(s).verdict = "VALID"
    BY <1>1, <1>7 DEF Evidenced
  <2>2. Last(s).validated # Absent
    BY <1>6, <2>1 DEF OnLadder, NoVerdict
  <2>3. Phase(s) = "valid"
    BY <1>6, <2>1, <2>2, AttemptPhases
  <2> QED BY <1>5, <1>7, <2>3 DEF Promise!Moves
<1>8. CASE disposition = "REJECTED"
  <2>1. CASE source = "VALIDATION"
    <3>1. Attempts(s) # <<>> /\ Last(s).validated # Absent
      BY <1>1, <1>8, <2>1 DEF Evidenced
    <3>2. Phase(s) \in {"valid", "unusable"}
      BY <1>6, <3>1, AttemptPhases
    <3> QED BY <1>5, <1>8, <3>2 DEF Promise!Moves
  <2>2. CASE source = "PRE_SPAWN_FAILURE"
    <3>1. Attempts(s) # <<>> /\ Last(s).refused # Absent
      BY <1>1, <1>8, <2>2 DEF Evidenced
    <3>2. Phase(s) = "refused"
      BY <1>6, <3>1, AttemptPhases
    <3> QED BY <1>5, <1>8, <3>2 DEF Promise!Moves
  <2>3. CASE source = "DISPATCH_REFUSED"
    <3>1. Attempts(s) = <<>> => Phase(s) = "requested"
      BY <1>1, PhaseIsOfRecord, KnownPhases DEF Known, Attempts
    <3>2. Attempts(s) # <<>> => Phase(s) = "intended"
      BY <1>1, <1>6, <2>3, AttemptPhases
    <3> QED BY <1>5, <1>8, <3>1, <3>2 DEF Promise!Moves
  <2> QED BY <1>1, <1>2, <1>8, <2>1, <2>2, <2>3 DEF Sources
<1> QED BY <1>1, <1>7, <1>8

\* The phase of an operation that only has its transition applied stays.
LEMMA AppliedStays ==
    ASSUME Inv, AppendConstituent, Persisted
    PROVE  PhaseOf(operations'[proc.step]) = Phase(proc.step)
<1> DEFINE s == proc.step
<1>1. /\ s \in Steps /\ operations[s].persisted \in {"ACCEPTED", "REJECTED"}
      /\ operations[s] \in OperationRecords /\ s \in DOMAIN operations
  BY DEF Persisted, Inv, TypeOK
<1>2. operations' = [operations EXCEPT ![s].applied = TRUE]
  BY AppendedChange
<1>3. operations'[s].persisted = operations[s].persisted
  BY <1>1, <1>2 DEF OperationRecords
<1>4. operations[s] # NoOperation /\ operations'[s] # NoOperation
  BY <1>1, <1>3, NewRecords
<1>5. Phase(s) = PhaseOf(operations[s])
  BY <1>1, PhaseIsOfRecord
<1> QED BY <1>1, <1>3, <1>4, <1>5, KnownPhases

\* The processes that ever were are those of the operations that spent theirs.
Spent == {p.step : p \in processes}

\* A move of one operation's phase is a move of the promise.
LEMMA PhaseMoves ==
    ASSUME NEW s \in Steps,
           \A t \in Steps : t # s => PhaseOf(operations'[t]) = PhaseOf(operations[t]),
           <<Phase(s), PhaseOf(operations'[s])>> \in Promise!Moves,
           PhaseOf(operations'[s]) = "refused" => s \notin Spent,
           PhaseOf(operations'[s]) = "received" => s \in Spent,
           Spent' = Spent
    PROVE  Promise!Move
<1> DEFINE before == [t \in Steps |-> Phase(t)]
           after == [t \in Steps |-> PhaseOf(operations'[t])]
           p == PhaseOf(operations'[s])
<1>1. [t \in Steps |-> Phase(t)]' = after
  BY PhaseIsOfRecord
<1>2. \A t \in Steps : before[t] = PhaseOf(operations[t])
  BY PhaseIsOfRecord
<1>3. after = [before EXCEPT ![s] = p]
  BY <1>2
<1>4. p \in Promise!Phases
  BY DEF Promise!Moves, Promise!Phases
<1>5. before[s] = Phase(s)
  OBVIOUS
<1>6. \E o \in Steps, q \in Promise!Phases :
         /\ <<before[o], q>> \in Promise!Moves
         /\ q = "refused" => o \notin Spent
         /\ q = "received" => o \in Spent
         /\ [t \in Steps |-> Phase(t)]' = [before EXCEPT ![o] = q]
         /\ Spent' = Spent
  BY <1>1, <1>3, <1>4, <1>5
<1> QED BY <1>6 DEF Promise!Move, Spent

\* A step that moves no phase and creates no process is a stutter of the promise.
LEMMA PhaseStutters ==
    ASSUME \A t \in Steps : PhaseOf(operations'[t]) = PhaseOf(operations[t]), Spent' = Spent
    PROVE  UNCHANGED Promise!vars
<1>1. [t \in Steps |-> Phase(t)]' = [t \in Steps |-> Phase(t)]
  BY PhaseIsOfRecord
<1> QED BY <1>1 DEF Promise!vars, Spent

\* A process is created for an operation that is intended and has none.
LEMMA CreationSpends ==
    ASSUME Inv, SpawnEntry, processes' # processes
    PROVE  Promise!Spawn
<1> DEFINE created == [step |-> proc.step, attempt |-> proc.attempt, result |-> "none"]
<1>1. /\ proc.pc = "entry" /\ operations' = operations
      /\ processes' = processes \union {created}
  BY DEF SpawnEntry, durable
<1>2. Intended(proc.step) /\ \A q \in processes : q.step # proc.step
  BY <1>1 DEF Inv, DispatchFits
<1>3. proc.step \in Steps /\ proc.step \notin Spent
  BY <1>1, <1>2 DEF Inv, PlaceFits, Place, Invocation, Spent
<1>4. Phase(proc.step) = "intended"
  BY <1>2, <1>3, LastPhase, AttemptPhases DEF Intended
<1>5. Spent' = Spent \union {proc.step}
  BY <1>1 DEF Spent
<1>6. [t \in Steps |-> Phase(t)]' = [t \in Steps |-> Phase(t)]
  BY <1>1, PhaseIsOfRecord
<1>7. \E o \in Steps \ Spent :
         /\ [t \in Steps |-> Phase(t)][o] = "intended"
         /\ Spent' = Spent \union {o}
         /\ [t \in Steps |-> Phase(t)]' = [t \in Steps |-> Phase(t)]
  BY <1>3, <1>4, <1>5, <1>6
<1> QED BY <1>7 DEF Promise!Spawn, Spent

\* Every step of the journal is a step of the promise, or none of its.
LEMMA PromiseStep ==
    ASSUME Inv, [Next]_vars
    PROVE  [Promise!Next]_(Promise!vars)
<1>1. CASE SpawnEntry /\ processes' # processes
  BY <1>1, CreationSpends DEF Promise!Next
<1>2. CASE ~(SpawnEntry /\ processes' # processes)
  <2>1. Spent' = Spent
    <3>1. CASE ProcessReturns
      <4>1. PICK result \in Results :
               processes' = {IF q.step = proc.step /\ q.attempt = proc.attempt
                             THEN [q EXCEPT !.result = result] ELSE q : q \in processes}
        BY <3>1 DEF ProcessReturns
      <4> DEFINE Of(q) == IF q.step = proc.step /\ q.attempt = proc.attempt
                          THEN [q EXCEPT !.result = result] ELSE q
      <4>2. \A q \in processes : Of(q).step = q.step
        BY ProcessTyped
      <4>3. processes' = {Of(q) : q \in processes}
        BY <4>1
      <4> HIDE DEF Of
      <4>4. {p.step : p \in processes'} = {p.step : p \in processes}
        BY <4>2, <4>3
      <4> QED BY <4>4 DEF Spent
    <3>2. CASE processes' = processes
      BY <3>2 DEF Spent
    <3> QED BY <1>2, <3>1, <3>2, ProcessesChange
  <2>2. CASE RecordEvent /\ operations' # operations
    <3>1. /\ proc.step \in Steps
          /\ \A t \in Steps : t # proc.step => operations'[t] = operations[t]
      BY <2>2, RecordedStep
    <3>2. Promise!Move
      BY <2>1, <2>2, <3>1, RecordedMoves, PhaseMoves DEF Spent
    <3> QED BY <3>2 DEF Promise!Next
  <2>3. CASE AppendConstituent /\ Persisting
    <3>1. /\ proc.step \in Steps
          /\ \A t \in Steps : t # proc.step => operations'[t] = operations[t]
      BY <2>3, OperationChanges DEF Persisting, AppendConstituent, RecordEvent
    <3>2. <<Phase(proc.step), PhaseOf(operations'[proc.step])>> \in Promise!Moves
      BY <2>3, PersistedMoves
    <3>3. PhaseOf(operations'[proc.step]) \in {"accepted", "rejected"}
      <4>1. /\ operations'[proc.step].persisted \in {"ACCEPTED", "REJECTED"}
            /\ operations'[proc.step] # NoOperation
        BY <2>3, PersistedRecord
      <4> QED BY <4>1, KnownPhases
    <3>4. Promise!Move
      BY <2>1, <3>1, <3>2, <3>3, PhaseMoves
    <3> QED BY <3>4 DEF Promise!Next
  <2>4. CASE AppendConstituent /\ Persisted
    <3>1. /\ proc.step \in Steps
          /\ \A t \in Steps : t # proc.step => operations'[t] = operations[t]
      BY <2>4, OperationChanges DEF Persisted, AppendConstituent, RecordEvent
    <3>2. \A t \in Steps : PhaseOf(operations'[t]) = PhaseOf(operations[t])
      BY <2>4, <3>1, AppliedStays, PhaseIsOfRecord
    <3> QED BY <2>1, <3>2, PhaseStutters
  <2>5. CASE operations' = operations
    BY <2>1, <2>5, PhaseStutters
  <2> QED BY <2>2, <2>3, <2>4, <2>5, OperationsChange, AppendedChange
<1> QED BY <1>1, <1>2

\* The journal keeps the promise of every operation: of the events the fold takes and
\* the processes that are created, each is a move the promise allows.
THEOREM JournalPromise == Spec => ImplementsPromise
<1>1. Init => Promise!Init
  <2> SUFFICES ASSUME Init PROVE Promise!Init
    OBVIOUS
  <2>1. \A s \in Steps : operations[s] = NoOperation
    BY DEF Init
  <2>2. \A s \in Steps : Phase(s) = "none"
    BY <2>1, PhaseIsOfRecord, UnknownPhase
  <2>3. {p.step : p \in processes} = {}
    BY DEF Init
  <2> QED BY <2>2, <2>3 DEF Promise!Init
<1>2. Inv /\ [Next]_vars => [Promise!Next]_(Promise!vars)
  BY PromiseStep
<1> QED BY <1>1, <1>2, JournalFits, PTL DEF Spec, ImplementsPromise, Promise!Spec
=============================================================================
