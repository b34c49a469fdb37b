------------------------------- MODULE EventChain -------------------------------
(***************************************************************************)
(* The event chain of a run: how EventStore appends to it, how a command   *)
(* opens it, how it is read without the lock.  The lock itself is RunLock; *)
(* here one command at a time has it.  Every file may be visible without   *)
(* being durable, and the power may fail at any time.                      *)
(***************************************************************************)
EXTENDS Naturals, FiniteSets, Sequences, SequencesExt

CONSTANTS
    MaxSize,        \* the effects of a declared mutation
    MaxEnvelopes,   \* bounds the envelopes built
    MaxHolds,       \* bounds the commands that take the lock
    MaxIncidents,   \* bounds failed publications, power failures and loads without the lock
    MaxTries        \* the attempts of a load without the lock; the code has 3

ASSUME BoundsAssumption ==
    /\ MaxSize \in Nat \ {0} /\ MaxEnvelopes \in Nat \ {0} /\ MaxHolds \in Nat \ {0}
    /\ MaxIncidents \in Nat /\ MaxTries \in Nat \ {0}

VARIABLES
    disk,       \* what a reader sees: the chain, witness, projection, receipts
    durable,    \* what is left of it when the power fails
    proc,       \* the command that holds the run lock
    envelopes,  \* envelopes built so far
    holds,      \* commands that took the lock so far
    incidents,  \* failed publications, power failures and loads so far
    reader,     \* somebody who reads without the lock
    relied,     \* the longest chain the code told a caller was established
    seen        \* the longest chain there was to be seen

vars == <<disk, durable, proc, envelopes, holds, incidents, reader, relied, seen>>

\* An event has a content (id), a sequence (at) and a place in a mutation:
\* which, of what size, and its index there; 0 is the declaration.  causes:
\* is it the transition of an operation, whose applied receipt follows?
\* hold, the command that appended it, is not in the file.
Event ==
    [id : 1 .. MaxEnvelopes, at : 1 .. MaxEnvelopes, of : 1 .. MaxEnvelopes,
     size : 1 .. MaxSize, index : 0 .. MaxSize, causes : BOOLEAN, hold : 1 .. MaxHolds]

\* A file that does not exist, or is of an earlier format.
Nothing == [id |-> 0, at |-> 0, of |-> 0, size |-> 1, index |-> 1, causes |-> FALSE, hold |-> 0]

\* What an event is built from.
Draft == [size : 1 .. MaxSize, index : 0 .. MaxSize, causes : BOOLEAN]
Single(causes) == [size |-> 1, index |-> 1, causes |-> causes]

Tip(chain) == IF chain = <<>> THEN Nothing ELSE Last(chain)

\* FoldState.open_mutation is not None.
\* Mutated form: complete one constituent early.
Incomplete_Early(chain) == chain # <<>> /\ Last(chain).index + 1 < Last(chain).size
Incomplete(chain) == chain # <<>> /\ Last(chain).index < Last(chain).size

\* genesis, then the Stage Start binding, then the policy.
Bootstrap == <<Single(FALSE), Single(FALSE), Single(FALSE)>>

\* The guards of fold_step.
Folds(chain, event) ==
    /\ event.at = Len(chain) + 1
    /\ IF Incomplete(chain)
       THEN /\ event.of = Last(chain).of
            /\ event.index = Last(chain).index + 1 /\ event.size = Last(chain).size
       ELSE /\ event.of = event.id
            /\ (event.index = 0) = (event.size > 1) /\ event.index <= 1
    /\ Len(chain) < Len(Bootstrap) => event.size = 1 /\ ~event.causes

\* The record is what its events made of it; a declaration has no effect.
Body(chain) == Cardinality({i \in DOMAIN chain : chain[i].index > 0})

Missing(files) ==
    {i \in DOMAIN files.chain : files.chain[i].causes /\ files.chain[i].id \notin files.receipts}

NoFiles == [chain |-> <<>>, witness |-> Nothing, projection |-> Nothing, receipts |-> {}]
Idle == [pc |-> "idle", known |-> <<>>, witness |-> Nothing, published |-> 0,
         queue |-> <<>>, envelope |-> Nothing]
Away == [pc |-> "away", before |-> Nothing, list |-> <<>>, tries |-> 0]

Init ==
    /\ disk = NoFiles /\ durable = NoFiles
    /\ proc = Idle /\ envelopes = 0 /\ holds = 0 /\ incidents = 0
    /\ reader = Away /\ relied = <<>> /\ seen = <<>>

At(pc) == proc.pc = pc
Counters == <<envelopes, holds, incidents>>
Others == <<reader, seen>>
Longer(a, b) == IF Len(a) < Len(b) THEN b ELSE a

(***************************************************************************)
(* Files                                                                   *)
(***************************************************************************)

\* publish_atomically and publish_exclusively: the file is there and its
\* barriers passed; it is there and they did not (PublicationUncertain); it
\* is not there (StatePublicationFailure).
Outcomes == {"durable", "uncertain", "failed"}

Wrote(file, content, outcome) ==
    /\ incidents' = IF outcome = "durable" THEN incidents ELSE incidents + 1
    /\ incidents' <= MaxIncidents
    /\ disk' = IF outcome = "failed" THEN disk ELSE [disk EXCEPT ![file] = content]
    /\ durable' = IF outcome = "durable" THEN [durable EXCEPT ![file] = content] ELSE durable
    /\ seen' = Longer(seen, disk'.chain)

\* What the caller goes by.
Succeeded(outcome) == outcome = "durable"

\* The caller continues, or has the exception and its store as it was.
Then(outcome, next) ==
    proc' = IF Succeeded(outcome) THEN next ELSE [proc EXCEPT !.pc = "failed"]

(***************************************************************************)
(* EventStore: one envelope                                                *)
(***************************************************************************)

\* _bounded_event_names: the events there are, numbered without a gap.
EventNames == DOMAIN disk.chain

\* RunLifecycleStorage.check_tip, which a genesis does without.
TipUnchanged ==
    \/ proc.known = <<>>
    \/ EventNames = DOMAIN proc.known /\ disk.witness = proc.witness

\* _envelope and publish_envelope up to the first file.
Envelope ==
    /\ At("append")
    /\ envelopes < MaxEnvelopes
    /\ envelopes' = envelopes + 1
    /\ LET draft == Head(proc.queue)
           event == [id |-> envelopes', at |-> Len(proc.known) + 1,
                     of |-> IF draft.index > 0 /\ draft.size > 1 THEN Last(proc.known).of
                            ELSE envelopes',
                     size |-> draft.size, index |-> draft.index, causes |-> draft.causes,
                     hold |-> holds]
       IN  proc' = [proc EXCEPT !.envelope = event, !.queue = Tail(proc.queue),
                !.pc = IF Folds(proc.known, event) /\ TipUnchanged THEN "witness" ELSE "failed"]
    /\ UNCHANGED <<disk, durable, holds, incidents, relied, Others>>

PublishWitness(outcome) ==
    /\ At("witness")
    /\ Wrote("witness", proc.envelope, outcome)
    /\ Then(outcome, [proc EXCEPT !.pc = "event", !.witness = proc.envelope])
    /\ UNCHANGED <<envelopes, holds, relied, reader>>

\* An exclusive link.
PublishEvent(outcome) ==
    /\ At("event") /\ proc.envelope.at > Len(disk.chain)
    /\ Wrote("chain", Append(disk.chain, proc.envelope), outcome)
    /\ Then(outcome, [proc EXCEPT !.pc = "projection",
                                  !.known = Append(proc.known, proc.envelope)])
    /\ UNCHANGED <<envelopes, holds, relied, reader>>

\* The name is taken, by the genesis that is tried again: its barriers are
\* passed, and still it is a conflict (IDENTICAL_EXISTS).
EventExists ==
    /\ At("event") /\ proc.envelope.at <= Len(disk.chain)
    /\ durable' = [durable EXCEPT !.chain = disk.chain]
    /\ proc' = [proc EXCEPT !.pc = "failed"]
    /\ UNCHANGED <<disk, Counters, relied, Others>>

\* The event is established; what is left of the commit comes next.
Established(state) ==
    IF state.queue # <<>> THEN [state EXCEPT !.pc = "append"]
    ELSE [state EXCEPT !.pc = "ready", !.envelope = Nothing, !.published = Body(state.known)]

\* _Lifecycle: write_applied follows a causative transition.
Appended == IF proc.envelope.causes THEN [proc EXCEPT !.pc = "receipt"] ELSE Established(proc)

PublishProjection(outcome) ==
    /\ At("projection")
    /\ Wrote("projection", Last(proc.known), outcome)
    /\ Then(outcome, Appended)
    /\ relied' = IF Succeeded(outcome) THEN Longer(relied, proc.known) ELSE relied
    /\ UNCHANGED <<envelopes, holds, reader>>

PublishReceipt(outcome) ==
    /\ At("receipt")
    /\ Wrote("receipts", disk.receipts \union {proc.envelope.id}, outcome)
    /\ Then(outcome, Established(proc))
    /\ UNCHANGED <<envelopes, holds, relied, reader>>

\* The original envelope once more, under the same hold: a duplicate, whose
\* chain is confirmed (confirm_established), or still the next one.
RetryDuplicate ==
    /\ At("failed")
    /\ proc.envelope # Nothing /\ proc.envelope.at <= Len(proc.known)
    /\ TipUnchanged /\ proc.witness = Last(proc.known)
    /\ durable' = [durable EXCEPT !.chain = disk.chain, !.witness = disk.witness]
    /\ relied' = Longer(relied, proc.known)
    /\ proc' = Appended
    /\ UNCHANGED <<disk, Counters, Others>>

RetryNext ==
    /\ At("failed")
    /\ proc.envelope # Nothing /\ Folds(proc.known, proc.envelope) /\ TipUnchanged
    /\ proc' = [proc EXCEPT !.pc = "witness"]
    /\ UNCHANGED <<disk, durable, Counters, relied, Others>>

(***************************************************************************)
(* A command                                                               *)
(***************************************************************************)

\* begin_lifecycle, initialize or baseline, record_bootstrap_evidence.
Begin ==
    /\ At("idle") /\ holds < MaxHolds
    /\ disk.witness = Nothing /\ disk.chain = <<>>
    /\ holds' = holds + 1
    /\ proc' = [Idle EXCEPT !.pc = "append", !.queue = Bootstrap]
    /\ UNCHANGED <<disk, durable, envelopes, incidents, relied, Others>>

Sound(files) ==
    /\ files.chain # <<>> /\ files.witness = Last(files.chain)
    /\ files.projection.at <= Len(files.chain)

\* open_lifecycle and open_run_lifecycle: the load, and confirm_all.
\* Mutated form: what is visible is relied upon as it is.
Confirmed_Visible == durable
Confirmed ==
    [durable EXCEPT !.chain = disk.chain, !.witness = disk.witness,
        !.projection = IF disk.projection = Last(disk.chain) THEN disk.projection ELSE @]

\* RunLifecycleStorage.prime: the hold goes by what the load verified.
Primed == [Idle EXCEPT !.pc = "opened", !.known = disk.chain, !.witness = disk.witness]

Open ==
    /\ At("idle") /\ holds < MaxHolds
    /\ Sound(disk)
    /\ holds' = holds + 1
    /\ durable' = Confirmed
    /\ relied' = Longer(relied, disk.chain)
    /\ proc' = Primed
    /\ UNCHANGED <<disk, envelopes, incidents, Others>>

\* A projection that lags, or is damaged, is published again.
Repair(outcome) ==
    /\ At("opened") /\ disk.projection # Last(disk.chain)
    /\ Wrote("projection", Last(disk.chain), outcome)
    /\ Then(outcome, proc)
    /\ UNCHANGED <<envelopes, holds, relied, reader>>

\* So are the receipts missing from what was loaded.
Rebuilds == Missing(disk)

Rebuild(i, outcome) ==
    /\ At("opened") /\ disk.projection = Last(disk.chain)
    /\ i \in Rebuilds
    /\ Wrote("receipts", disk.receipts \union {disk.chain[i].id}, outcome)
    /\ Then(outcome, proc)
    /\ UNCHANGED <<envelopes, holds, relied, reader>>

\* APPLICATION_MUTATION_INCOMPLETE; what is missing of the bootstrap.
Admit ==
    /\ At("opened") /\ disk.projection = Last(disk.chain) /\ Rebuilds = {}
    /\ ~Incomplete(proc.known)
    /\ proc' = Established([proc EXCEPT !.queue =
                   SubSeq(Bootstrap, Len(proc.known) + 1, Len(Bootstrap))])
    /\ UNCHANGED <<disk, durable, Counters, relied, Others>>

\* _Lifecycle.commit: one effect, or a declared manifest of several, at most
\* one of which is the causative transition.  EventStore refuses a commit
\* over an incomplete mutation or a stale record.
Commit ==
    /\ At("ready") \/ At("failed")
    /\ Len(proc.known) >= Len(Bootstrap)
    /\ ~Incomplete(proc.known) /\ proc.published = Body(proc.known)
    /\ \E size \in 1 .. MaxSize, causing \in 0 .. MaxSize :
          /\ causing <= size
          /\ LET effects == [i \in 1 .. size |->
                     [size |-> size, index |-> i, causes |-> i = causing]]
                 declaration == [size |-> size, index |-> 0, causes |-> FALSE]
             IN  proc' = [proc EXCEPT !.pc = "append", !.envelope = Nothing,
                    !.queue = IF size = 1 THEN effects ELSE <<declaration>> \o effects]
    /\ UNCHANGED <<disk, durable, Counters, relied, Others>>

\* The command ends, refused or not, or the process dies.
Exit ==
    /\ ~At("idle")
    /\ proc' = Idle
    /\ UNCHANGED <<disk, durable, Counters, relied, Others>>

\* Of each file there is what was durable, or what was visible: so also
\* what a confirmation that had not come to its end had made durable.
PowerLoss ==
    /\ disk # durable
    /\ incidents < MaxIncidents /\ incidents' = incidents + 1
    /\ disk' \in {[chain |-> c, witness |-> w, projection |-> p, receipts |-> r] :
                   c \in {disk.chain, durable.chain}, w \in {disk.witness, durable.witness},
                   p \in {disk.projection, durable.projection},
                   r \in {disk.receipts, durable.receipts}}
    /\ durable' = disk'
    /\ proc' = Idle /\ reader' = Away
    /\ UNCHANGED <<envelopes, holds, relied, seen>>

(***************************************************************************)
(* RunStateStore.load without the lock                                     *)
(***************************************************************************)
Reads(pc) == reader.pc = pc
Reading == <<disk, durable, proc, envelopes, holds, relied, seen>>

Verdict(pc) == [Away EXCEPT !.pc = pc]
Alarm == [reader EXCEPT !.pc = "alarm", !.list = <<>>]

\* lifecycle_present; if not, the snapshot of an earlier format is read.
Look ==
    /\ reader.pc \in {"away", "view", "contention", "broken"}
    /\ incidents < MaxIncidents /\ incidents' = incidents + 1
    /\ reader' = IF disk.witness = Nothing /\ disk.chain = <<>> THEN [Away EXCEPT !.pc = "legacy"]
                 ELSE [Away EXCEPT !.pc = "list", !.before = disk.witness]
    /\ UNCHANGED Reading

\* _load_legacy refuses a record of this format.
ReadLegacy ==
    /\ Reads("legacy")
    /\ reader' = IF disk.projection = Nothing THEN Away ELSE Verdict("broken")
    /\ UNCHANGED <<Reading, incidents>>

\* The names are listed once; what they name does not change.
ReadEvents ==
    /\ Reads("list")
    /\ reader' = IF disk.chain = <<>> THEN Alarm
                 ELSE [reader EXCEPT !.pc = "witness", !.list = disk.chain]
    /\ UNCHANGED <<Reading, incidents>>

ReadWitness ==
    /\ Reads("witness")
    /\ reader' = IF disk.witness = Last(reader.list) THEN [reader EXCEPT !.pc = "projection"]
                 ELSE Alarm
    /\ UNCHANGED <<Reading, incidents>>

ReadProjection ==
    /\ Reads("projection")
    /\ reader' = IF disk.projection.at <= Len(reader.list) THEN [reader EXCEPT !.pc = "after"]
                 ELSE Alarm
    /\ UNCHANGED <<Reading, incidents>>

\* A witness that moved: from the beginning, a few times.  It is read once
\* for the comparison and once for the next round; what could happen in
\* between could also have happened before.
Again ==
    IF reader.tries + 1 = MaxTries THEN Verdict("contention")
    ELSE [Away EXCEPT !.pc = "list", !.before = disk.witness, !.tries = reader.tries + 1]

\* Mutated form: the witness read with the events is enough.
Moved_Once == FALSE
Moved == disk.witness # reader.before

ReadAfter ==
    /\ Reads("after")
    /\ reader' = IF Moved THEN Again ELSE [reader EXCEPT !.pc = "view", !.before = Nothing, !.tries = 0]
    /\ UNCHANGED <<Reading, incidents>>

\* An inconsistency: because of a writer, or to be reported?
Recheck ==
    /\ Reads("alarm")
    /\ reader' = IF Moved THEN Again ELSE Verdict("probe")
    /\ UNCHANGED <<Reading, incidents>>

\* _writer_active.
Probe ==
    /\ Reads("probe")
    /\ reader' = Verdict(IF At("idle") THEN "broken" ELSE "contention")
    /\ UNCHANGED <<Reading, incidents>>

Publishing(outcome) ==
    \/ PublishWitness(outcome) \/ PublishEvent(outcome)
    \/ PublishProjection(outcome) \/ PublishReceipt(outcome)
    \/ Repair(outcome) \/ \E i \in Rebuilds : Rebuild(i, outcome)

Command ==
    \/ Begin \/ Open \/ Admit \/ Commit \/ Envelope
    \/ EventExists \/ RetryDuplicate \/ RetryNext \/ Exit

Read ==
    \/ Look \/ ReadLegacy \/ ReadEvents \/ ReadWitness
    \/ ReadProjection \/ ReadAfter \/ Recheck \/ Probe

Next == (\E outcome \in Outcomes : Publishing(outcome)) \/ Command \/ PowerLoss \/ Read

Spec == Init /\ [][Next]_vars

(***************************************************************************)
(* Properties                                                              *)
(***************************************************************************)

Marks == Event \union {Nothing}
Files == [chain : Seq(Event), witness : Marks, projection : Marks,
          receipts : SUBSET (1 .. MaxEnvelopes)]

\* Every variable has its type.
TypeOK ==
    /\ disk \in Files /\ durable \in Files
    /\ proc \in [pc : {"idle", "opened", "append", "witness", "event", "projection",
                       "receipt", "ready", "failed"},
                 known : Seq(Event), witness : Marks, published : 0 .. MaxEnvelopes,
                 queue : Seq(Draft), envelope : Marks]
    /\ envelopes \in 0 .. MaxEnvelopes /\ holds \in 0 .. MaxHolds /\ incidents \in 0 .. MaxIncidents
    /\ reader \in [pc : {"away", "legacy", "list", "witness", "projection", "after",
                         "view", "alarm", "probe", "contention", "broken"},
                   before : Marks, list : Seq(Event), tries : 0 .. MaxTries]
    /\ relied \in Seq(Event) /\ seen \in Seq(Event)

\* What a command was told is established survives every crash and power
\* failure, in its place (AUTO-018, 7.5).  What there was to be seen is never
\* taken back: an event that was visible and is lost with the power leaves a
\* chain that is refused, not a shorter history that is believed (7.1,
\* T-EVENT-TAIL).  state.json is a projection of the chain, at most behind it:
\* no crash leaves it ahead, which every load would refuse.
Reliable ==
    /\ IsPrefix(relied, durable.chain) /\ IsPrefix(relied, disk.chain)
    /\ Sound(disk) => IsPrefix(seen, disk.chain)
    /\ disk.projection # Nothing =>
           disk.projection.at <= Len(disk.chain) /\ disk.projection = disk.chain[disk.projection.at]

\* A reader without the lock is shown the chain as it is at that moment,
\* whatever was appended, lost or repaired while it read.
ReadsCurrent ==
    [][reader'.pc = "view" /\ ~Reads("view") => reader'.list = disk'.chain]_vars

\* What a chain is to MutationPromise: its entries; whether the command that
\* appended the last is at work; whether a witness tells of one that is lost.
Entries(chain) ==
    [i \in DOMAIN chain |->
        [of |-> chain[i].of, index |-> chain[i].index, size |-> chain[i].size]]
Working == ~At("idle") /\ Tip(disk.chain).hold = holds
Ended == At("idle") /\ durable.witness.at > Len(disk.chain)

\* Mutations follow one another whole, each the work of one command, and
\* none follows a chain that lost its end.
Promise == INSTANCE MutationPromise WITH
    log <- Entries(disk.chain), atWork <- Working, stopped <- Ended
MutationsWhole == Promise!Spec
================================================================================
