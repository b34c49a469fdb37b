----------------------------- MODULE StageStart -----------------------------
(***************************************************************************)
(* The single-use authorization of one Stage: stage-start grants it, start *)
(* consumes it and begins the run, resume goes on with a run begun.  Any   *)
(* number of commands, one run lock, and files that may be visible without *)
(* being durable.  What a run does once it works is MilestoneRun.          *)
(***************************************************************************)
EXTENDS Naturals, FiniteSets

CONSTANTS
    Inputs,         \* the logical inputs of stage-start for the one key
    Times,          \* the created_at of an authorization
    Runs,           \* run ids, injected or new
    Callers,        \* the processes that give commands
    None,
    MaxIncidents,   \* bounds failed publications and commands that end early
    MaxPower        \* bounds power failures

ASSUME NoneAssumption == None \notin Inputs \union Times \union Runs \union Callers
ASSUME BoundsAssumption == MaxIncidents \in Nat /\ MaxPower \in Nat

VARIABLES
    files,      \* what a reader sees
    solid,      \* what of it is durable
    lock,       \* who holds the repository run lock, or None
    caller,     \* of each process, its command
    worked,     \* the inputs runs worked under, and those runs
    incidents, powers
vars == <<files, solid, lock, caller, worked, incidents, powers>>

(***************************************************************************)
(* Files                                                                   *)
(***************************************************************************)

\* stage-starts/ of the repository: <id>.json, key-<key>.json,
\* <id>.consumed.json and <id>.binding.json.
AuthorityKinds == {"authorization", "pointer", "witness", "binding"}

\* The run directory: policy.json, and event-publication.json of the genesis
\* and of STAGE_START_BOUND; its events/: the two events.
IntentKinds == {"policy", "begun", "announced"}
EventKinds == {"genesis", "bound"}
RunKinds == IntentKinds \union EventKinds

\* A file and what it pins: the input is the stage_start_id, the stamp the
\* authorization_digest.
Authorization(l, t) == [kind |-> "authorization", input |-> l, stamp |-> t, run |-> None]
Pointer(l, t) == [kind |-> "pointer", input |-> l, stamp |-> t, run |-> None]
Witness(l, t, r) == [kind |-> "witness", input |-> l, stamp |-> t, run |-> r]
Binding(l, t, r) == [kind |-> "binding", input |-> l, stamp |-> t, run |-> r]
OfRun(kind, l, r) == [kind |-> kind, input |-> l, stamp |-> None, run |-> r]

File ==
    {Authorization(l, t) : l \in Inputs, t \in Times}
    \union {Pointer(l, t) : l \in Inputs, t \in Times}
    \union {Witness(l, t, r) : l \in Inputs, t \in Times, r \in Runs}
    \union {Binding(l, t, r) : l \in Inputs, t \in Times, r \in Runs}
    \union {OfRun(kind, l, r) : kind \in RunKinds, l \in Inputs, r \in Runs}

\* StageStartStore._path: a key, an input or a run names the file.
SameName(f, g) ==
    /\ f.kind = g.kind
    /\ f.kind \in AuthorityKinds \ {"pointer"} => f.input = g.input
    /\ f.kind \in RunKinds => f.run = g.run

\* The directories a barrier goes up through: what was linked there before
\* is then durable too.
Covers(f, g) ==
    \/ f.kind \in AuthorityKinds /\ g.kind \in AuthorityKinds
    \/ f.kind \in RunKinds /\ g.kind \in IntentKinds /\ f.run = g.run
    \/ f.kind \in EventKinds /\ g.kind \in EventKinds /\ f.run = g.run

Barrier(f) == solid \union {g \in files' : Covers(f, g)}

Named(l) == \A p \in files : p.kind = "pointer" => p.input = l

Witnesses(l) == {w \in files : w.kind = "witness" /\ w.input = l}
Bindings(l) == {b \in files : b.kind = "binding" /\ b.input = l}
Present(r) == \E f \in files : f.kind \in RunKinds \ {"policy"} /\ f.run = r

\* The chain of a run ends where its publication witness says.
Whole(r) ==
    \E l \in Inputs :
        /\ OfRun("begun", l, r) \in files /\ OfRun("genesis", l, r) \in files
        /\ OfRun("announced", l, r) \in files <=> OfRun("bound", l, r) \in files

(***************************************************************************)
(* What the commands read                                                  *)
(***************************************************************************)

\* _read_start_authority: the authorization the key's pointer pins.
Authority ==
    {a \in files : a.kind = "authorization" /\ Pointer(a.input, a.stamp) \in files}

\* _read_start_binding and _read_start_consumption do not refuse.
Consistent(a) ==
    /\ \A f \in Witnesses(a.input) \union Bindings(a.input) : f.stamp = a.stamp
    /\ \A b \in Bindings(a.input) : Witness(b.input, b.stamp, b.run) \in files

\* _has_published_start, of a run known by name: it is there, and it is of
\* this input or cannot be loaded.
PublishedStart(l, r) ==
    /\ r # None /\ Present(r)
    /\ ~Whole(r) \/ OfRun("genesis", l, r) \in files

\* state.json is there with the genesis.
Published(l, r) ==
    PublishedStart(l, r) \/ \E w \in Witnesses(l), i \in Inputs : OfRun("genesis", i, w.run) \in files

\* _existing_start_input does not refuse.
Admissible(l, r) ==
    /\ Named(l)
    /\ \A p \in files : p.kind = "pointer" => Authorization(p.input, p.stamp) \in files
    /\ \A a \in files : a.kind = "authorization" /\ a.input = l =>
          /\ Consistent(a)
          /\ Pointer(l, a.stamp) \notin files => Witnesses(l) = {} /\ ~Published(l, r)
          /\ Bindings(l) = {} => ~Published(l, r)

\* The run that start is about: the one that consumed, whatever was asked.
\* Mutated form: the one that was asked for.
Consuming_Asked(l, r) == r
Consuming(l, r) == IF Witnesses(l) = {} THEN r ELSE (CHOOSE w \in Witnesses(l) : TRUE).run

\* _start_preflight, of an authorization in force.
Startable(a, r) ==
    /\ Consistent(a)
    /\ IF Witnesses(a.input) = {} THEN ~PublishedStart(a.input, r)
       ELSE \A w \in Witnesses(a.input) :
               /\ ~Present(w.run)
               /\ \A p \in files : p.kind = "policy" /\ p.run = w.run => p.input = a.input

\* _continuation_authority, of a run that is there.
Continues(a, r) ==
    /\ Whole(r) /\ OfRun("genesis", a.input, r) \in files
    /\ OfRun("policy", a.input, r) \in files
    /\ Witness(a.input, a.stamp, r) \in files /\ Binding(a.input, a.stamp, r) \in files
    /\ Consistent(a)

(***************************************************************************)
(* Commands                                                                *)
(***************************************************************************)

Publishing == {"authorize", "point", "consume", "bind", "policy",
               "begin", "initialize", "announce", "attest"}
Granting == {"stage-start", "authorize", "point"}
Held == Publishing \union {"confirm", "work"}
Asking == {"stage-start", "start", "resume"}
Commands == [pc : Asking \union Held, input : Inputs, stamp : Times, run : Runs \union {None}]
Idle == [pc |-> "idle", input |-> None, stamp |-> None, run |-> None]

Init ==
    /\ files = {} /\ solid = {}
    /\ lock = None /\ caller = [c \in Callers |-> Idle] /\ worked = {}
    /\ incidents = 0 /\ powers = 0

Goes(c, state) == caller' = [caller EXCEPT ![c] = state]
Bounds == <<incidents, powers>>
OnDisk == <<files, solid>>

\* stage_start before the lock.  An input that is recorded and pointed at
\* gives a receipt and changes nothing, a conflict a refusal: no step.
AskStage(c, l, t, r) ==
    /\ caller[c] = Idle
    /\ Admissible(l, r)
    /\ \A a \in Authority : a.input # l
    /\ Goes(c, [pc |-> "stage-start", input |-> l, stamp |-> t, run |-> r])
    /\ UNCHANGED <<OnDisk, lock, worked, Bounds>>

\* _start_policy_run before the lock.
AskStart(c, a, r) ==
    /\ caller[c] = Idle
    /\ Startable(a, r)
    /\ ~Present(Consuming(a.input, r))
    /\ Goes(c, [pc |-> "start", input |-> a.input, stamp |-> a.stamp,
                run |-> Consuming(a.input, r)])
    /\ UNCHANGED <<OnDisk, lock, worked, Bounds>>

\* resume before the lock.
AskResume(c, a, r) ==
    /\ caller[c] = Idle
    /\ Continues(a, r)
    /\ Goes(c, [pc |-> "resume", input |-> a.input, stamp |-> a.stamp, run |-> r])
    /\ UNCHANGED <<OnDisk, lock, worked, Bounds>>

\* With the lock, each reads once more what it had read without.
Reread(c) == {a \in Authority : a.input = caller[c].input /\ a.stamp = caller[c].stamp}

Recorded(l) == {a \in files : a.kind = "authorization" /\ a.input = l}

Agreed(c) ==
    LET me == caller[c] IN
    \/ me.pc = "stage-start" /\ Admissible(me.input, me.run)
    \/ me.pc = "start" /\ \E a \in Reread(c) : Startable(a, me.run)
    \/ me.pc = "resume" /\ \E a \in Reread(c) : Continues(a, me.run)

LockStage(c) ==
    /\ caller[c].pc = "stage-start" /\ lock = None /\ Agreed(c)
    /\ lock' = c
    /\ IF Recorded(caller[c].input) = {} THEN Goes(c, [caller[c] EXCEPT !.pc = "authorize"])
       ELSE \E a \in Recorded(caller[c].input) :
                Goes(c, [caller[c] EXCEPT !.pc = "point", !.stamp = a.stamp])
    /\ UNCHANGED <<OnDisk, worked, Bounds>>

\* A consumption is adopted, and completed where it was left.
LockStart(c) ==
    /\ caller[c].pc = "start" /\ lock = None /\ Agreed(c)
    /\ LET l == caller[c].input IN
       Goes(c, [caller[c] EXCEPT
           !.run = Consuming(l, @),
           !.pc = IF Witnesses(l) = {} THEN "consume"
                  ELSE IF Bindings(l) = {} THEN "bind" ELSE "policy"])
    /\ lock' = c
    /\ UNCHANGED <<OnDisk, worked, Bounds>>

LockResume(c) ==
    /\ caller[c].pc = "resume" /\ lock = None /\ Agreed(c)
    /\ Goes(c, [caller[c] EXCEPT !.pc = "confirm"])
    /\ lock' = c
    /\ UNCHANGED <<OnDisk, worked, Bounds>>

\* Contention, or what was read has changed.
Refused(c) ==
    /\ caller[c].pc \in Asking
    /\ lock # None \/ ~Agreed(c)
    /\ Goes(c, Idle)
    /\ UNCHANGED <<OnDisk, lock, worked, Bounds>>

\* What each step publishes, and what comes after it.
Document(me) ==
    CASE me.pc = "authorize"  -> Authorization(me.input, me.stamp)
      [] me.pc = "point"      -> Pointer(me.input, me.stamp)
      [] me.pc = "consume"    -> Witness(me.input, me.stamp, me.run)
      [] me.pc = "bind"       -> Binding(me.input, me.stamp, me.run)
      [] me.pc = "policy"     -> OfRun("policy", me.input, me.run)
      [] me.pc = "begin"      -> OfRun("begun", me.input, me.run)
      [] me.pc = "initialize" -> OfRun("genesis", me.input, me.run)
      [] me.pc = "announce"   -> OfRun("announced", me.input, me.run)
      [] me.pc = "attest"     -> OfRun("bound", me.input, me.run)

After(pc) ==
    CASE pc = "authorize" -> "point"   [] pc = "point" -> "idle"
      [] pc = "consume" -> "bind"      [] pc = "bind" -> "policy"
      [] pc = "policy" -> "begin"      [] pc = "begin" -> "initialize"
      [] pc = "initialize" -> "confirm"
      [] pc = "announce" -> "attest"   [] pc = "attest" -> "work"

\* The name is free or holds the same bytes; begin_lifecycle looks at more.
Publishable(me) ==
    /\ \A f \in files : SameName(f, Document(me)) => f = Document(me)
    /\ me.pc = "begin" => ~Present(me.run)

Leaves(c) == Goes(c, Idle) /\ lock' = None

Publish(c) ==
    LET me == caller[c] IN
    /\ me.pc \in Publishing /\ Publishable(me)
    /\ files' = files \union {Document(me)}
    /\ solid' = Barrier(Document(me))
    /\ IF After(me.pc) = "idle" THEN Leaves(c)
       ELSE Goes(c, [me EXCEPT !.pc = After(me.pc)]) /\ UNCHANGED lock
    /\ worked' = IF me.pc = "attest" THEN worked \union {<<me.input, me.run>>} ELSE worked
    /\ UNCHANGED Bounds

\* The barrier failed after the link, or the command died between them.
Uncertain(c) ==
    LET me == caller[c] IN
    /\ me.pc \in Publishing /\ Publishable(me)
    /\ files' = files \union {Document(me)}
    /\ Leaves(c)
    /\ incidents < MaxIncidents /\ incidents' = incidents + 1
    /\ UNCHANGED <<solid, worked, powers>>

Conflict(c) ==
    /\ caller[c].pc \in Publishing /\ ~Publishable(caller[c])
    /\ Leaves(c)
    /\ UNCHANGED <<OnDisk, worked, Bounds>>

\* confirm_references and confirm_all, before the run is bound and when it
\* is opened.  Mutated form: they are not confirmed.
ConfirmedBy_Not(r) == solid
ConfirmedBy(r) == solid \union {g \in files : g.kind \in AuthorityKinds \/ g.run = r}

Confirm(c) ==
    LET me == caller[c]
        opened == OfRun("bound", me.input, me.run) \in files IN
    /\ me.pc = "confirm"
    /\ solid' = ConfirmedBy(me.run)
    /\ Goes(c, [me EXCEPT !.pc = IF opened THEN "work" ELSE "announce"])
    /\ worked' = IF opened THEN worked \union {<<me.input, me.run>>} ELSE worked
    /\ UNCHANGED <<files, lock, Bounds>>

\* The run works, and its command ends.
Finish(c) ==
    /\ caller[c].pc = "work"
    /\ Leaves(c)
    /\ UNCHANGED <<OnDisk, worked, Bounds>>

\* A failure without effect, a refusal by the outside, a death.
GiveUp(c) ==
    /\ caller[c].pc \in (Held \ {"work"}) \union Asking
    /\ incidents < MaxIncidents /\ incidents' = incidents + 1
    /\ Goes(c, Idle) /\ lock' = IF lock = c THEN None ELSE lock
    /\ UNCHANGED <<OnDisk, worked, powers>>

\* Of what is not durable, any part may be left.
PowerLoss ==
    /\ powers < MaxPower /\ powers' = powers + 1
    /\ \E kept \in SUBSET (files \ solid) : files' = solid \union kept
    /\ solid' = files'
    /\ caller' = [c \in Callers |-> Idle] /\ lock' = None
    /\ UNCHANGED <<worked, incidents>>

Ask(c) ==
    \/ \E l \in Inputs, t \in Times, r \in Runs \union {None} : AskStage(c, l, t, r)
    \/ \E a \in Authority, r \in Runs : AskStart(c, a, r) \/ AskResume(c, a, r)

Lock(c) == LockStage(c) \/ LockStart(c) \/ LockResume(c)

\* What a command that runs does without anything from outside.
Proceed(c) == Publish(c) \/ Confirm(c) \/ Finish(c) \/ Conflict(c)

Next ==
    \/ \E c \in Callers : Ask(c) \/ Lock(c) \/ Refused(c) \/ Proceed(c)
    \/ \E c \in Callers : Uncertain(c) \/ GiveUp(c)
    \/ PowerLoss

Spec == Init /\ [][Next]_vars

\* The command that has the lock waits for nothing.  Whoever wants the run
\* starts it again after a failure, and resumes it once it has begun.
Fairness ==
    \A c \in Callers :
        /\ WF_vars(Refused(c)) /\ WF_vars(Proceed(c))
        /\ SF_vars(\E a \in Authority, r \in Runs : AskStart(c, a, r))
        /\ SF_vars(\E a \in Authority, r \in Runs : AskResume(c, a, r))
        /\ SF_vars(Lock(c))

FairSpec == Spec /\ Fairness

TypeOK ==
    /\ files \subseteq File /\ solid \subseteq files
    /\ lock \in Callers \union {None}
    /\ caller \in [Callers -> Commands \union {Idle}]
    /\ \A c \in Callers : caller[c] # Idle => caller[c].run \in Runs \/ caller[c].pc \in Granting
    /\ worked \subseteq Inputs \X Runs
    /\ incidents \in 0 .. MaxIncidents /\ powers \in 0 .. MaxPower

\* One input is authorized for the key, one run consumes it, and no other
\* run ever works under it, whatever is lost, repeated or raced:
\* INV-017-6 and INV-017-7 of AUTO-017.md, INV-018-11 of AUTO-018.md.
Pointers == {p \in files : p.kind = "pointer"}
granted == IF Pointers = {} THEN None ELSE (CHOOSE p \in Pointers : TRUE).input
RunOf(marks) == IF marks = {} THEN None ELSE (CHOOSE w \in marks : TRUE).run
consumed == [l \in Inputs |-> RunOf(Witnesses(l))]

Promise == INSTANCE StagePromise
ImplementsPromise == Promise!Spec

\* A consumed authorization is not stranded by a command that died or failed:
\* the run that consumed it comes to work (the crash windows of AUTO-017.md,
\* 14.3), unless the power failed, or the death was between a publication
\* witness and its event (AUTO-018.md, 7.2).
Completed(l, r) == <<l, r>> \in worked \/ powers > 0 \/ (Present(r) /\ ~Whole(r))

StartCompletes ==
    []<>(\A l \in Inputs : \A w \in Witnesses(l) : Completed(l, w.run))
=============================================================================
