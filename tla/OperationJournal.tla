-------------------------- MODULE OperationJournal --------------------------
(***************************************************************************)
(* The operations of one event-backed run: operations.py and the use       *)
(* _invoke_provider, _accept and _reject of application.py make of it,     *)
(* over the fold of events.py.                                             *)
(*                                                                         *)
(* Every fact of an operation is two durable things: an artifact,          *)
(* published once under a name of its own, and then the event that binds   *)
(* its digest.  A publication of several changes of the record is declared *)
(* first and appended one constituent at a time.  The runner may crash     *)
(* between any two of these; a provider process it created is then gone or *)
(* orphaned, but it was.                                                   *)
(*                                                                         *)
(* MilestoneRun has the flow of the run; here it is cut down to what       *)
(* invokes a provider: a plan of one milestone, a review, a correction and *)
(* a closure.                                                              *)
(***************************************************************************)
EXTENDS Integers, Sequences, FiniteSets

CONSTANTS
    MaxOperationAttempts,   \* MAX_OPERATION_ATTEMPTS
    MaxSpawnAttempts,       \* MAX_SPAWN_RETRY_ATTEMPTS
    MaxReopenings,          \* bound: reopenings of the milestone
    MaxCommands             \* bound: commands after start

ASSUME AttemptAssumption ==
    MaxOperationAttempts \in Nat \ {0} /\ MaxSpawnAttempts \in Nat \ {0}
ASSUME CommandAssumption == MaxReopenings \in Nat /\ MaxCommands \in Nat

VARIABLES
    record,       \* the folded RunRecord: state, last row, reopenings, verification results
    operations,   \* the folded OperationRecords, by step
    mutation,     \* the constituents an open declaration still lacks
    artifacts,    \* content of every operation artifact, Absent if there is none
    processes,    \* provider processes that were ever created, and what they returned
    proc,         \* the running command: everything volatile
    commands      \* commands issued

durable == <<record, operations, mutation, artifacts>>
vars == <<durable, processes, proc, commands>>

-----------------------------------------------------------------------------
Roles == {"IMPLEMENTATION", "REVIEW", "CORRECTION", "CLOSURE"}

\* An operation is addressed by its step: role and slot, never by an attempt.
\* A reopened milestone is a step of its own.
Slots(role) == IF role = "IMPLEMENTATION" THEN 0 .. MaxReopenings ELSE {0}
Steps == UNION {{<<role, slot>> : slot \in Slots(role)} : role \in Roles}
NoStep == <<"NONE", 0>>

provider_step(role) == <<role, IF role = "IMPLEMENTATION" THEN record.reopenings ELSE 0>>

Origin ==
    [r \in Roles |->
        CASE r = "IMPLEMENTATION" -> "IMPLEMENTING" [] r = "REVIEW" -> "REVIEWING"
          [] r = "CORRECTION" -> "CORRECTING"       [] r = "CLOSURE" -> "CLOSURE_VERIFYING"]
Invoking == {Origin[r] : r \in Roles}
RoleOf(state) == CHOOSE r \in Roles : Origin[r] = state

Excursion == {"PROVIDER_WAIT", "PROVIDER_RETRY_PENDING"}
Live == Invoking \union Excursion \union {"FOCUSED_VERIFYING", "NEEDS_CORRECTION"}
Human == "HUMAN_INTERVENTION_REQUIRED"
Ready == "READY_FOR_COMMIT_APPROVAL"
States == Live \union {"MILESTONE_FAILED", Human, Ready, "ABORTED"}

Results == {"answer", "noise", "failure"}
Verdicts == {"VALID", "INVALID", "EXECUTION_FAILED"}

Facts == {"request", "intent", "receipt", "pre-spawn", "raw", "validated", "applied"}
Absent == -1
NoVerdict == "none"

\* AttemptRecord: the digests the chain binds, which are the contents published.
NewAttempt(content) ==
    [intent |-> content, receipt |-> Absent, refused |-> Absent, raw |-> Absent,
     validated |-> Absent, verdict |-> NoVerdict]
\* OperationRecord.
NewOperation(content) ==
    [request |-> content, attempts |-> <<>>, persisted |-> "none",
     grounds |-> "none", applied |-> FALSE]
NoOperation == [NewOperation(Absent) EXCEPT !.persisted = "no request"]

Known(s) == operations[s] # NoOperation
Attempts(s) == operations[s].attempts
Last(s) == Attempts(s)[Len(Attempts(s))]

\* The name an artifact is published under: those of an attempt lie in its directory.
Path(s, attempt, fact) ==
    <<s, IF fact \in {"request", "applied"} THEN 0 ELSE attempt, fact>>
Paths == Steps \X (0 .. MaxOperationAttempts) \X Facts

Row(role, status) == [role |-> role, status |-> status]
NoRow == Row("IMPLEMENTATION", "none")

Idle == [pc |-> "idle", step |-> NoStep, fact |-> "request", content |-> Absent,
         attempt |-> 0, tries |-> 0, results |-> 0, refused |-> FALSE, raw |-> FALSE,
         outcome |-> "none", then |-> "idle"]
Raise == proc' = Idle

-----------------------------------------------------------------------------
(* Publications of the record: _Lifecycle.commit. *)

Change(kind, after, step, disposition, source) ==
    [kind |-> kind, after |-> after, step |-> step, disposition |-> disposition,
     source |-> source]
Update(after) == Change("update", after, NoStep, "none", "none")
MoveTo(after, step) == Change("move", after, step, "none", "none")
Persist(after, step, disposition, source) ==
    Change("persist", after, step, disposition, source)

At(state) == [record EXCEPT !.state = state]

\* _validate_result_evidence: the verdict a persistence names is the last attempt's.
Evidenced(step, disposition, source) ==
    source # "DISPATCH_REFUSED" =>
        /\ Attempts(step) # <<>>
        /\ CASE disposition = "ACCEPTED" -> Last(step).verdict = "VALID"
             [] disposition = "REJECTED" /\ source = "VALIDATION" -> Last(step).validated # Absent
             [] source = "PRE_SPAWN_FAILURE" -> Last(step).refused # Absent

\* Mutated form: a refused dispatch is not compared with what was received before.
CanPersist_AfterAnything(step, disposition, source) ==
    /\ Known(step) /\ operations[step].persisted = "none"
    /\ Evidenced(step, disposition, source)

\* _apply_persistence: what a result persistence must rest on.
CanPersist(step, disposition, source) ==
    /\ Known(step) /\ operations[step].persisted = "none"
    /\ Evidenced(step, disposition, source)
    /\ source = "DISPATCH_REFUSED" /\ Attempts(step) # <<>> =>
           Last(step).receipt = Absent /\ Last(step).refused = Absent

\* fold_step of a change of the record.
Folded(c) ==
    /\ record' = c.after
    /\ operations' =
         CASE c.kind = "persist" -> [operations EXCEPT ![c.step].persisted = c.disposition,
                                                       ![c.step].grounds = c.source]
           [] c.kind = "move" /\ c.step # NoStep -> [operations EXCEPT ![c.step].applied = TRUE]
           [] OTHER -> operations

\* _validate_declaration: of its changes at most one persists a result, on its evidence.
Declarable(changes) ==
    LET Persists(i) == changes[i].kind = "persist" IN
    \A i \in DOMAIN changes : Persists(i) =>
        /\ \A j \in DOMAIN changes : Persists(j) => j = i
        /\ Evidenced(changes[i].step, changes[i].disposition, changes[i].source)

\* Several changes are declared before the first of them.
Declare(changes, then, next) ==
    /\ IF Declarable(changes)
       THEN mutation' = changes /\ proc' = [next EXCEPT !.pc = "emit", !.then = then]
       ELSE Raise /\ UNCHANGED mutation
    /\ UNCHANGED <<record, operations>>

\* A single change is an event of its own.  The command goes on at pc `then` once
\* all changes are durable.
Commit(changes, then, next) ==
    IF Len(changes) = 1
    THEN /\ Folded(changes[1])
         /\ proc' = [next EXCEPT !.pc = then]
         /\ UNCHANGED <<mutation, artifacts>>
    ELSE Declare(changes, then, next) /\ UNCHANGED artifacts

AfterConstituent(c) ==
    CASE Len(mutation) > 1 -> "emit"
      [] c.kind = "move" /\ c.step # NoStep -> "applied"
      [] OTHER -> proc.then

\* append_constituent, append_transition: exactly the next declared one.
AppendConstituent ==
    /\ proc.pc = "emit"
    /\ Folded(mutation[1])
    /\ mutation' = Tail(mutation)
    /\ LET pc == AfterConstituent(mutation[1]) IN
       proc' = [proc EXCEPT !.pc = pc,
                            !.then = IF pc \in {"emit", "applied"} THEN @ ELSE "idle"]
    /\ UNCHANGED <<artifacts, processes, commands>>

\* write_applied, after its transition: its content is that transition's.
WriteApplied ==
    /\ proc.pc = "applied"
    /\ artifacts' = [artifacts EXCEPT ![Path(proc.step, 0, "applied")] = 0]
    /\ proc' = [Idle EXCEPT !.pc = proc.then]
    /\ UNCHANGED <<record, operations, mutation, processes, commands>>

-----------------------------------------------------------------------------
(* The journal: an artifact, then its event. *)

Publish(fact, content, next) ==
    proc' = [next EXCEPT !.pc = "publish", !.fact = fact, !.content = content]

\* publish_evidence: the same bytes again are no conflict.
MayPublish(path, content) == artifacts[path] \in {Absent, content}

PublishArtifact ==
    /\ proc.pc = "publish"
    /\ LET path == Path(proc.step, proc.attempt, proc.fact) IN
       IF MayPublish(path, proc.content)
       THEN /\ artifacts' = [artifacts EXCEPT ![path] = proc.content]
            /\ proc' = [proc EXCEPT !.pc = "record"]
       ELSE Raise /\ UNCHANGED artifacts
    /\ UNCHANGED <<record, operations, mutation, processes, commands>>

\* Mutated form: a new attempt may follow any other.
MayIntend_AfterAnything(s, attempt) == attempt = Len(Attempts(s)) + 1

\* _apply_operation: attempts have no gaps, and a new one follows only a
\* creation that was positively refused.
MayIntend(s, attempt) ==
    /\ attempt = Len(Attempts(s)) + 1
    /\ Attempts(s) # <<>> => Last(s).refused # Absent

\* _apply_operation: which facts the chain takes.
Admits(s, attempt, fact, content) ==
    IF fact = "request" THEN Known(s) => operations[s].request = content
    ELSE /\ Known(s) /\ operations[s].persisted = "none"
         /\ CASE fact = "intent" -> MayIntend(s, attempt)
              [] OTHER ->
                   /\ Attempts(s) # <<>> /\ attempt = Len(Attempts(s))
                   /\ CASE fact \in {"receipt", "pre-spawn"} ->
                              Last(s).receipt = Absent /\ Last(s).refused = Absent
                        [] fact = "raw" -> Last(s).receipt # Absent /\ Last(s).raw = Absent
                        [] OTHER -> Last(s).raw # Absent /\ Last(s).validated = Absent

Recorded(s, attempt, fact, content, verdict) ==
    CASE fact = "request" ->
           IF Known(s) THEN operations ELSE [operations EXCEPT ![s] = NewOperation(content)]
      [] fact = "intent" ->
           [operations EXCEPT ![s].attempts = Append(@, NewAttempt(content))]
      [] fact = "receipt" -> [operations EXCEPT ![s].attempts[attempt].receipt = content]
      [] fact = "pre-spawn" -> [operations EXCEPT ![s].attempts[attempt].refused = content]
      [] fact = "raw" -> [operations EXCEPT ![s].attempts[attempt].raw = content]
      [] fact = "validated" ->
           [operations EXCEPT ![s].attempts[attempt].validated = content,
                              ![s].attempts[attempt].verdict = verdict]

\* Where the command goes on once a fact is durable.
AfterFact(fact) ==
    CASE fact = "request" -> [proc EXCEPT !.pc = "boundary"]
      [] fact = "intent" -> [proc EXCEPT !.pc = "entry"]
      [] fact = "receipt" -> [proc EXCEPT !.pc = "running"]
      [] fact = "pre-spawn" -> [proc EXCEPT !.pc = "settle", !.refused = TRUE]
      [] fact = "raw" -> [proc EXCEPT !.pc = "settle", !.raw = TRUE]
      [] fact = "validated" -> [proc EXCEPT !.pc = "decide"]

\* record_operation_request, record_operation_attempt_event, record_operation_result
\* and record_operation_validation: a fact the fold refuses is not appended.
RecordEvent ==
    /\ proc.pc = "record"
    /\ IF Admits(proc.step, proc.attempt, proc.fact, proc.content)
       THEN /\ operations' = Recorded(proc.step, proc.attempt, proc.fact, proc.content,
                                      proc.outcome)
            /\ proc' = AfterFact(proc.fact)
       ELSE Raise /\ UNCHANGED operations
    /\ UNCHANGED <<record, mutation, artifacts, processes, commands>>

-----------------------------------------------------------------------------
(* Commands. *)

Init ==
    /\ record = [state |-> "IMPLEMENTING", row |-> NoRow, reopenings |-> 0,
                 results |-> 0, completed |-> FALSE]
    /\ operations = [s \in Steps |-> NoOperation]
    /\ mutation = <<>>
    /\ artifacts = [p \in Paths |-> Absent]
    /\ processes = {}
    /\ proc = [Idle EXCEPT !.pc = "drive"]
    /\ commands = 0

Issue == proc.pc = "idle" /\ commands < MaxCommands /\ commands' = commands + 1

Unapplied ==
    {s \in Steps : operations[s].applied /\ artifacts[Path(s, 0, "applied")] = Absent}

\* Mutated form: opening a chain rebuilds no applied receipt.
Reopened_AsFound == artifacts
\* open_lifecycle: missing applied receipts are derived from the chain again.
Reopened ==
    [p \in Paths |-> IF p[1] \in Unapplied /\ p = Path(p[1], 0, "applied")
                     THEN 0 ELSE artifacts[p]]

\* open_run_lifecycle refuses a chain with an open declaration, whatever the
\* command, after open_lifecycle has completed the applied receipts.
OpenTorn ==
    /\ Issue /\ mutation # <<>>
    /\ artifacts' = Reopened
    /\ UNCHANGED <<record, operations, mutation, processes, proc>>

Opens == Issue /\ mutation = <<>>

InFlight ==
    /\ record.state \in {"PROVIDER_WAIT", "IMPLEMENTING", "CORRECTING", "REVIEWING"}
    /\ record.row.status = "pending"

\* Only a process of an editing role changes what _reconcile compares.
MayHaveMoved == \E p \in processes : p.step[1] \in {"IMPLEMENTATION", "CORRECTION"}

\* resume_run: a stop where section 4 no longer holds or an invocation must be
\* reconciled, the interrupted step otherwise.
Resume ==
    /\ Opens /\ record.state \in Live
    /\ artifacts' = Reopened
    /\ \/ /\ record' = At(Human)
          /\ proc' = Idle
       \/ /\ proc' = [Idle EXCEPT !.pc = "drive"]
          /\ UNCHANGED record
       \/ /\ InFlight /\ MayHaveMoved
          /\ record' = At(Human)
          /\ proc' = Idle
    /\ UNCHANGED <<operations, mutation, processes>>

\* A recovery command appends its ledger entry and moves the run, as declared.
Recover(after) ==
    /\ Declare(<<Update(record), MoveTo(after, NoStep)>>, "idle", Idle)
    /\ artifacts' = Reopened
    /\ UNCHANGED processes

ReopenMilestone ==
    /\ Opens /\ record.state \in {Human, "MILESTONE_FAILED"} /\ ~record.completed
    /\ record.reopenings < MaxReopenings
    /\ Recover([At("IMPLEMENTING") EXCEPT !.reopenings = @ + 1])

\* reconcile-milestone takes the result from a transcript, not from the journal.
ReconcileMilestone ==
    /\ Opens /\ record.state = Human /\ ~record.completed
    /\ record.row # NoRow
    /\ Recover(At("FOCUSED_VERIFYING"))

\* correction_rounds is one exactly when the correction's result was accepted.
RevalidateCorrection ==
    /\ Opens /\ record.state = Human
    /\ operations[<<"CORRECTION", 0>>].persisted = "ACCEPTED"
    /\ Recover(At("CLOSURE_VERIFYING"))

Abort ==
    /\ Opens /\ record.state \in Live \union {Human}
    /\ record' = At("ABORTED")
    /\ artifacts' = Reopened
    /\ UNCHANGED <<operations, mutation, processes, proc>>

-----------------------------------------------------------------------------
(* The flow, up to the provider. *)

\* _resume_from and _drive: the step the record's state asks for.
Drive ==
    /\ proc.pc = "drive"
    /\ LET Request(role, results) ==
               Publish("request", results,
                       [Idle EXCEPT !.step = provider_step(role), !.results = results])
           Role == RoleOf(record.state)
       IN
       \/ \* A boundary of section 4 refused.
          /\ record.state \in Invoking
          /\ Commit(<<MoveTo(At(Human), NoStep)>>, "idle", Idle)
       \/ /\ record.state \in Invoking \ {"CLOSURE_VERIFYING"}
          /\ Request(Role, IF Role = "IMPLEMENTATION" THEN 0 ELSE record.results)
          /\ UNCHANGED durable
       \/ \* _verify_closure: the final set runs again, and the prompt shows all results.
          /\ record.state = "CLOSURE_VERIFYING"
          /\ \/ Commit(<<Update([record EXCEPT !.results = @ + 1]),
                         MoveTo([At(Human) EXCEPT !.results = @ + 1], NoStep)>>, "idle", Idle)
             \/ Request("CLOSURE", record.results + 1) /\ UNCHANGED durable
       \/ \* Focused and final verification of the one milestone.
          /\ record.state = "FOCUSED_VERIFYING"
          /\ \E state \in {"MILESTONE_FAILED", Human, "REVIEWING"} :
                LET after == [record EXCEPT !.results = @ + 1,
                                            !.completed = state # "MILESTONE_FAILED"]
                IN Commit(<<Update(after), MoveTo([after EXCEPT !.state = state], NoStep)>>,
                          IF state = "REVIEWING" THEN "drive" ELSE "idle", Idle)
       \/ /\ record.state = "NEEDS_CORRECTION"
          /\ \/ Commit(<<MoveTo(At("CORRECTING"), NoStep)>>, "drive", Idle)
             \/ Commit(<<MoveTo(At(Human), NoStep)>>, "idle", Idle)
       \/ \* _leave_provider_excursion.
          /\ record.state = "PROVIDER_RETRY_PENDING"
          /\ Commit(<<MoveTo(At("PROVIDER_WAIT"), NoStep)>>, "drive", Idle)
       \/ /\ record.state = "PROVIDER_WAIT"
          /\ Commit(<<MoveTo(At(IF record.row # NoRow THEN Origin[record.row.role]
                                ELSE IF ~record.completed THEN "IMPLEMENTING"
                                ELSE "REVIEWING"), NoStep)>>, "drive", Idle)
    /\ UNCHANGED <<processes, commands>>

-----------------------------------------------------------------------------
(* _invoke_provider, with the _Dispatch as the invoker's observer. *)

\* The frozen authority is read again, then the wait is published: on the first
\* attempt together with what the review or the closure counted.
EnterWait ==
    /\ proc.pc = "boundary"
    /\ \/ Commit(<<MoveTo(At(Human), NoStep)>>, "idle", Idle)
       \/ IF proc.step[1] \in {"REVIEW", "CLOSURE"} /\ proc.tries = 0
          THEN LET after == [record EXCEPT !.results = proc.results]
               IN Commit(<<Update(after), MoveTo([after EXCEPT !.state = "PROVIDER_WAIT"], NoStep)>>,
                         "row", proc)
          ELSE Commit(<<MoveTo(At("PROVIDER_WAIT"), NoStep)>>, "row", proc)
    /\ UNCHANGED <<processes, commands>>

\* on_started publishes the row.
PublishRow ==
    /\ proc.pc = "row"
    /\ Commit(<<Update([record EXCEPT !.row = Row(proc.step[1], "pending")])>>, "before_spawn", proc)
    /\ UNCHANGED <<processes, commands>>

\* attempt_directory_name: there is no directory for an attempt beyond the last.
InBound(attempt) == attempt <= MaxOperationAttempts

\* next_attempt.
BeforeSpawn ==
    /\ proc.pc = "before_spawn"
    /\ LET attempt == Len(Attempts(proc.step)) + 1 IN
       IF InBound(attempt)
       THEN Publish("intent", commands,
                    [proc EXCEPT !.attempt = attempt, !.refused = FALSE, !.raw = FALSE])
       ELSE Raise
    /\ UNCHANGED <<durable, processes, commands>>

\* A ProviderError before the process: of the adapter, or of the environment
\* that is built after the intent.
ProviderRefused ==
    /\ proc.pc \in {"row", "entry"}
    /\ Commit(<<MoveTo(At(Origin[proc.step[1]]), NoStep)>>, "judge",
              [proc EXCEPT !.outcome = "refused"])
    /\ UNCHANGED <<processes, commands>>

\* at_spawn_entry and the creation itself; the hold may be found lost just before.
SpawnEntry ==
    /\ proc.pc = "entry"
    /\ \/ Raise /\ UNCHANGED processes
       \/ /\ processes' = processes \union
                 {[step |-> proc.step, attempt |-> proc.attempt, result |-> "none"]}
          /\ Publish("receipt", commands, proc)
       \/ /\ Publish("pre-spawn", commands, [proc EXCEPT !.outcome = "EXECUTION_FAILED"])
          /\ UNCHANGED processes
    /\ UNCHANGED <<durable, commands>>

\* _validated: the parser takes an answer and nothing else.
Verdict(result) ==
    CASE result = "answer" -> "VALID" [] result = "noise" -> "INVALID"
      [] result = "failure" -> "EXECUTION_FAILED"

\* The process is over and has returned, or its execution failed.  Then record_result.
ProcessReturns ==
    /\ proc.pc = "running"
    /\ \E result \in Results :
          /\ processes' = {IF p.step = proc.step /\ p.attempt = proc.attempt
                           THEN [p EXCEPT !.result = result] ELSE p : p \in processes}
          /\ Publish("raw", commands, [proc EXCEPT !.outcome = Verdict(result)])
    /\ UNCHANGED <<durable, commands>>

\* The invocation's row, completed in place.
CompletedRow == Row(proc.step[1], IF proc.outcome = "EXECUTION_FAILED" THEN "failed" ELSE "done")

\* The settled row and the way back; a refused creation may be retried.
Settle ==
    /\ proc.pc = "settle"
    /\ LET role == proc.step[1]
           after == [record EXCEPT !.row = CompletedRow]
           To(state, pc, next) ==
               Commit(<<Update(after), MoveTo([after EXCEPT !.state = state], NoStep)>>, pc, next)
       IN IF proc.refused /\ proc.tries + 1 < MaxSpawnAttempts
          THEN To("PROVIDER_RETRY_PENDING", "retry", [proc EXCEPT !.tries = @ + 1])
          ELSE To(Origin[role], "judge", proc)
    /\ UNCHANGED <<processes, commands>>

Retry ==
    /\ proc.pc = "retry"
    /\ \/ /\ record.state = "PROVIDER_RETRY_PENDING"
          /\ Commit(<<MoveTo(At("PROVIDER_WAIT"), NoStep)>>, "retry", proc)
       \/ /\ record.state = "PROVIDER_WAIT"
          /\ Commit(<<MoveTo(At(Origin[proc.step[1]]), NoStep)>>, "boundary", proc)
    /\ UNCHANGED <<processes, commands>>

-----------------------------------------------------------------------------
(* The verdict and its persistence. *)

\* _validated: a verdict needs a received result.
Judge ==
    /\ proc.pc = "judge"
    /\ IF proc.raw THEN Publish("validated", commands, proc)
       ELSE proc' = [proc EXCEPT !.pc = "decide"]
    /\ UNCHANGED <<durable, processes, commands>>

FailedState(role) == IF role = "IMPLEMENTATION" THEN "MILESTONE_FAILED" ELSE Human

\* What a closure leads to: cleared, or a stop with a blocker still open.
ClosureStates == {Ready, Human}

\* Where an accepted result leads: accept_review, accept_correction, accept_closure.
AcceptedStates(role) ==
    CASE role = "IMPLEMENTATION" -> {"FOCUSED_VERIFYING"}
      [] role = "REVIEW" -> {Ready, "NEEDS_CORRECTION", Human}
      [] role = "CORRECTION" -> {"CLOSURE_VERIFYING", Human}
      [] role = "CLOSURE" -> ClosureStates

\* _accept, _reject and the transition the result causes, in one declaration;
\* what the fold would refuse is not declared.
Dispose(disposition, source, state) ==
    IF CanPersist(proc.step, disposition, source)
    THEN Commit(<<Persist(record, proc.step, disposition, source),
                  MoveTo(At(state), proc.step)>>,
                IF state \in Live THEN "drive" ELSE "idle", [Idle EXCEPT !.step = proc.step])
    ELSE Raise /\ UNCHANGED durable

Accept ==
    /\ proc.pc = "decide" /\ proc.raw /\ proc.outcome = "VALID"
    /\ \E state \in AcceptedStates(proc.step[1]) : Dispose("ACCEPTED", "VALIDATION", state)
    /\ UNCHANGED <<processes, commands>>

RejectionSource ==
    CASE proc.raw -> "VALIDATION"
      [] proc.refused -> "PRE_SPAWN_FAILURE"
      [] OTHER -> "DISPATCH_REFUSED"

\* A milestone reported as not complete is a valid result that is rejected.
Reject ==
    /\ proc.pc = "decide"
    /\ proc.raw /\ proc.outcome = "VALID" => proc.step[1] = "IMPLEMENTATION"
    /\ Dispose("REJECTED", RejectionSource, FailedState(proc.step[1]))
    /\ UNCHANGED <<processes, commands>>

\* The second boundary of _implement_milestone: the result stays undecided.
LeaveUndecided ==
    /\ proc.pc = "decide" /\ proc.raw /\ proc.outcome = "VALID"
    /\ proc.step[1] = "IMPLEMENTATION"
    /\ Commit(<<MoveTo(At(Human), NoStep)>>, "idle", Idle)
    /\ UNCHANGED <<processes, commands>>

-----------------------------------------------------------------------------
Crash ==
    /\ proc.pc # "idle"
    /\ proc' = Idle
    /\ UNCHANGED <<durable, processes, commands>>

Next ==
    \/ OpenTorn \/ Resume \/ ReopenMilestone \/ ReconcileMilestone \/ RevalidateCorrection
    \/ Abort \/ Drive \/ EnterWait \/ PublishRow \/ BeforeSpawn \/ ProviderRefused
    \/ SpawnEntry \/ ProcessReturns \/ Settle \/ Retry \/ Judge \/ Accept \/ Reject
    \/ LeaveUndecided \/ AppendConstituent \/ WriteApplied \/ PublishArtifact \/ RecordEvent
    \/ Crash

Spec == Init /\ [][Next]_vars

-----------------------------------------------------------------------------
(* What holds of the operations of a run. *)

Contents == Nat \union {Absent}
Sources == {"none", "VALIDATION", "PRE_SPAWN_FAILURE", "DISPATCH_REFUSED"}
AttemptRecords ==
    [intent : Contents, receipt : Contents, refused : Contents, raw : Contents,
     validated : Contents, verdict : Verdicts \union {NoVerdict}]
OperationRecords ==
    [request : Contents, attempts : Seq(AttemptRecords),
     persisted : {"none", "no request", "ACCEPTED", "REJECTED"},
     grounds : Sources, applied : BOOLEAN]
RunRecords ==
    [state : States, row : [role : Roles, status : {"none", "pending", "done", "failed"}],
     reopenings : 0 .. MaxReopenings, results : Nat, completed : BOOLEAN]
Changes ==
    [kind : {"update", "persist", "move"}, after : RunRecords, step : Steps \union {NoStep},
     disposition : {"none", "ACCEPTED", "REJECTED"}, source : Sources]
Pcs == {"idle", "drive", "publish", "record", "boundary", "row", "before_spawn", "entry",
        "running", "settle", "retry", "judge", "decide", "emit", "applied"}

ProcRecords ==
    [pc : Pcs, step : Steps \union {NoStep}, fact : Facts, content : Contents,
     attempt : 0 .. MaxOperationAttempts, tries : Nat, results : Nat,
     refused : BOOLEAN, raw : BOOLEAN, outcome : Verdicts \union {"none", "refused"},
     then : Pcs]

\* Every variable has its type; an operation never has an attempt beyond
\* MAX_OPERATION_ATTEMPTS, though the retries are counted by each command anew.
TypeOK ==
    /\ record \in RunRecords
    /\ operations \in [Steps -> OperationRecords]
    /\ \A s \in Steps : Len(Attempts(s)) <= MaxOperationAttempts
    /\ mutation \in Seq(Changes)
    /\ artifacts \in [Paths -> Contents]
    /\ processes \subseteq [step : Steps, attempt : 1 .. MaxOperationAttempts,
                            result : Results \union {"none"}]
    /\ proc \in ProcRecords
    /\ commands \in 0 .. MaxCommands

\* A provider is dispatched to at most one process for one operation, whatever
\* crashes, resumes and retries: its process is the one of the last attempt.
OneProcessPerOperation ==
    \A p \in processes :
        /\ \A q \in processes : q.step = p.step => q = p
        /\ p.attempt = Len(Attempts(p.step)) /\ Last(p.step).refused = Absent

\* What the chain binds is what the disk holds: no artifact of a recorded fact is
\* missing or was written again, and a command that works on the chain finds
\* every applied receipt, the one a crash kept from being written included.
EvidenceMatches ==
    /\ \A s \in Steps :
          /\ Known(s) => artifacts[Path(s, 0, "request")] = operations[s].request
          /\ \A n \in DOMAIN Attempts(s) :
                LET Bound(fact, digest) ==
                        digest # Absent => artifacts[Path(s, n, fact)] = digest
                    a == Attempts(s)[n]
                IN /\ Bound("intent", a.intent) /\ Bound("receipt", a.receipt)
                   /\ Bound("pre-spawn", a.refused) /\ Bound("raw", a.raw)
                   /\ Bound("validated", a.validated)
    /\ proc.pc \notin {"idle", "applied"} => Unapplied = {}

Accepted(s) == operations[s].persisted = "ACCEPTED"
FirstOf(role) == <<role, 0>>

\* What is accepted was returned by a process of its operation and taken by the
\* parser; no crash, retry or recovery makes it.  A run waits for its approval
\* only on an accepted ruling that caused the transition, and an accepted
\* correction is ruled on by an accepted closure.
GateIsAccepted ==
    /\ \A s \in Steps : Accepted(s) =>
          \E p \in processes : p.step = s /\ p.result = "answer"
    /\ record.state = Ready =>
        /\ \E r \in {"REVIEW", "CLOSURE"} :
              Accepted(FirstOf(r)) /\ operations[FirstOf(r)].applied
        /\ Accepted(FirstOf("CORRECTION")) => Accepted(FirstOf("CLOSURE"))

\* The evidence of a run and what it gates: both of the above, whichever of a
\* command's writes was its last.
RunIsEvidenced == EvidenceMatches /\ GateIsAccepted

\* Each operation keeps the promise of its ladder.
Phase(s) ==
    CASE ~Known(s) -> "none"
      [] operations[s].persisted = "ACCEPTED" -> "accepted"
      [] operations[s].persisted = "REJECTED" -> "rejected"
      [] Known(s) /\ operations[s].persisted = "none" ->
           CASE Attempts(s) = <<>> -> "requested"
             [] Attempts(s) # <<>> ->
                  CASE Last(s).refused # Absent -> "refused"
                    [] Last(s).verdict = "VALID" -> "valid"
                    [] Last(s).verdict \in Verdicts \ {"VALID"} -> "unusable"
                    [] Last(s).verdict = NoVerdict /\ Last(s).raw # Absent -> "answered"
                    [] Last(s).raw = Absent /\ Last(s).receipt # Absent -> "received"
                    [] OTHER -> "intended"

Promise == INSTANCE OperationPromise WITH
    Operations <- Steps,
    phase <- [s \in Steps |-> Phase(s)],
    spent <- {p.step : p \in processes}
ImplementsPromise == Promise!Spec
=============================================================================
