-------------------------- MODULE StageStartProofs --------------------------
(***************************************************************************)
(* What is proved about StageStart, for any inputs, runs, processes and    *)
(* bounds.                                                                 *)
(***************************************************************************)
EXTENDS StageStart, TLAPS

\* The steps of start, and those of any command, once its input is in force.
Consumed == {"bind", "policy", "begin", "initialize", "confirm", "announce", "attest", "work"}
Attesting == {"announce", "attest", "work"}

\* A command that works under the lock has it.
LockFits == \A c \in Callers : caller[c].pc \in Held => lock = c

\* A name has one content.
OneContent == \A f, g \in files : SameName(f, g) => f = g

\* What a command has read or published under the lock is still there.
ReadStands ==
    \A c \in Callers :
        LET me == caller[c] IN
        /\ me.pc \in Consumed \union {"consume"} => Pointer(me.input, me.stamp) \in files
        /\ me.pc \in Consumed => Witness(me.input, me.stamp, me.run) \in files

\* The references of a run that is about to be bound were confirmed, and of a run that
\* works nothing that tells of it can be lost.
Lasting == \A f \in files : f.kind \in {"pointer", "witness"} => f \in solid
AttestedLasts == \A c \in Callers : caller[c].pc \in Attesting => Lasting
WorkedLasts == worked # {} => Lasting
WorkedOn ==
    \A l \in Inputs, r \in Runs :
        <<l, r>> \in worked =>
            \E t \in Times : Pointer(l, t) \in files /\ Witness(l, t, r) \in files

Inv ==
    /\ TypeOK
    /\ LockFits /\ OneContent /\ ReadStands
    /\ AttestedLasts /\ WorkedLasts /\ WorkedOn

\* Names and contents of the files.
LEMMA Kinds ==
    ASSUME NEW f \in File
    PROVE  /\ f.input \in Inputs
           /\ f.kind = "pointer" => f.stamp \in Times /\ f = Pointer(f.input, f.stamp)
           /\ f.kind = "authorization" =>
                 f.stamp \in Times /\ f = Authorization(f.input, f.stamp)
           /\ f.kind = "witness" =>
                 f.stamp \in Times /\ f.run \in Runs /\ f = Witness(f.input, f.stamp, f.run)
<1>1. CASE \E l \in Inputs, t \in Times : f = Authorization(l, t)
  BY <1>1 DEF Authorization
<1>2. CASE \E l \in Inputs, t \in Times : f = Pointer(l, t)
  BY <1>2 DEF Pointer
<1>3. CASE \E l \in Inputs, t \in Times, r \in Runs : f = Witness(l, t, r)
  BY <1>3 DEF Witness
<1>4. CASE \E l \in Inputs, t \in Times, r \in Runs : f = Binding(l, t, r)
  BY <1>4 DEF Binding
<1>5. CASE \E kind \in RunKinds, l \in Inputs, r \in Runs : f = OfRun(kind, l, r)
  BY <1>5 DEF OfRun, RunKinds, IntentKinds, EventKinds
<1>. QED BY <1>1, <1>2, <1>3, <1>4, <1>5 DEF File

\* What each step publishes is one of the files.
LEMMA DocumentTyped ==
    ASSUME NEW me \in Commands, me.pc \in Publishing, me.run \in Runs \/ me.pc \in Granting
    PROVE  Document(me) \in File
<1>1. me.input \in Inputs /\ me.stamp \in Times
  BY DEF Commands
<1>2. me.pc \in Granting => me.pc \in {"authorize", "point"}
  BY DEF Granting, Publishing
<1>3. CASE me.pc \in {"authorize", "point"}
  BY <1>1, <1>3 DEF Document, File
<1>4. CASE me.pc \in {"consume", "bind"} /\ me.run \in Runs
  BY <1>1, <1>4 DEF Document, File
<1>5. CASE me.pc \in {"policy", "begin", "initialize", "announce", "attest"} /\ me.run \in Runs
  BY <1>1, <1>5 DEF Document, File, RunKinds, IntentKinds, EventKinds
<1>. QED BY <1>2, <1>3, <1>4, <1>5 DEF Publishing

\* What a command may be.
Fine(me) == me = Idle \/ (me \in Commands /\ (me.run \in Runs \/ me.pc \in Granting))

LEMMA CallerFine ==
    ASSUME TypeOK, NEW c \in Callers
    PROVE  Fine(caller[c])
BY DEF TypeOK, Fine

LEMMA Running ==
    ASSUME TypeOK, NEW c \in Callers, caller[c].pc # "idle"
    PROVE  /\ caller[c] \in Commands
           /\ caller[c].input \in Inputs /\ caller[c].stamp \in Times
           /\ caller[c].run \in Runs \/ caller[c].pc \in Granting
BY DEF TypeOK, Idle, Commands

LEMMA GoesTyped ==
    ASSUME TypeOK, NEW c \in Callers, NEW state, Fine(state), Goes(c, state)
    PROVE  /\ caller' \in [Callers -> Commands \union {Idle}]
           /\ \A d \in Callers : caller'[d] # Idle =>
                  caller'[d].run \in Runs \/ caller'[d].pc \in Granting
BY DEF TypeOK, Fine, Goes

\* A command that moves to another program point.
LEMMA MovesFine ==
    ASSUME NEW me \in Commands, NEW pc \in Asking \union Held,
           me.run \in Runs \/ pc \in Granting
    PROVE  /\ [me EXCEPT !.pc = pc] \in Commands
           /\ Fine([me EXCEPT !.pc = pc])
<1>1. [me EXCEPT !.pc = pc] \in Commands
  BY DEF Commands
<1>2. [me EXCEPT !.pc = pc].run = me.run /\ [me EXCEPT !.pc = pc].pc = pc
  BY DEF Commands
<1>. QED BY <1>1, <1>2 DEF Fine

LEMMA AfterTyped ==
    ASSUME NEW pc \in Publishing, After(pc) # "idle"
    PROVE  /\ After(pc) \in Held
           /\ pc \in Granting => After(pc) \in Granting
BY DEF After, Publishing, Held, Granting

LEMMA AuthorityTyped ==
    ASSUME TypeOK, NEW a \in Authority
    PROVE  /\ a.input \in Inputs /\ a.stamp \in Times
           /\ a = Authorization(a.input, a.stamp)
           /\ Pointer(a.input, a.stamp) \in files
BY Kinds DEF Authority, TypeOK

LEMMA WitnessTyped ==
    ASSUME TypeOK, NEW l, NEW w \in Witnesses(l)
    PROVE  w \in files /\ w.run \in Runs /\ w.stamp \in Times /\ w = Witness(l, w.stamp, w.run)
BY Kinds DEF Witnesses, TypeOK

LEMMA ConsumingTyped ==
    ASSUME TypeOK, NEW l, NEW r \in Runs
    PROVE  Consuming(l, r) \in Runs
BY WitnessTyped DEF Consuming

LEMMA IdleFine == Fine(Idle) /\ Idle.pc = "idle"
BY DEF Fine, Idle

\* Every step goes to a state of the right shape.
LEMMA TypeStep ==
    ASSUME TypeOK, [Next]_vars
    PROVE  TypeOK'
<1>. USE BoundsAssumption
<1>1. ASSUME NEW c \in Callers, Ask(c) PROVE TypeOK'
  <2>1. ASSUME NEW l \in Inputs, NEW t \in Times, NEW r \in Runs \union {None}, AskStage(c, l, t, r)
        PROVE  TypeOK'
    <3>. DEFINE state == [pc |-> "stage-start", input |-> l, stamp |-> t, run |-> r]
    <3>1. Fine(state)
      BY <2>1 DEF Fine, Commands, Asking, Granting
    <3>2. Goes(c, state)
      BY <2>1 DEF AskStage
    <3>. HIDE DEF state
    <3>. QED BY <2>1, <3>1, <3>2, GoesTyped DEF AskStage, TypeOK, OnDisk, Bounds
  <2>2. ASSUME NEW a \in Authority, NEW r \in Runs, AskStart(c, a, r) PROVE TypeOK'
    <3>. DEFINE state == [pc |-> "start", input |-> a.input, stamp |-> a.stamp,
                          run |-> Consuming(a.input, r)]
    <3>1. Fine(state)
      BY AuthorityTyped, ConsumingTyped DEF Fine, Commands, Asking
    <3>2. Goes(c, state)
      BY <2>2 DEF AskStart
    <3>. HIDE DEF state
    <3>. QED BY <2>2, <3>1, <3>2, GoesTyped DEF AskStart, TypeOK, OnDisk, Bounds
  <2>3. ASSUME NEW a \in Authority, NEW r \in Runs, AskResume(c, a, r) PROVE TypeOK'
    <3>. DEFINE state == [pc |-> "resume", input |-> a.input, stamp |-> a.stamp, run |-> r]
    <3>1. Fine(state)
      BY AuthorityTyped DEF Fine, Commands, Asking
    <3>2. Goes(c, state)
      BY <2>3 DEF AskResume
    <3>. HIDE DEF state
    <3>. QED BY <2>3, <3>1, <3>2, GoesTyped DEF AskResume, TypeOK, OnDisk, Bounds
  <2>. QED BY <1>1, <2>1, <2>2, <2>3 DEF Ask
<1>2. ASSUME NEW c \in Callers, LockStage(c) PROVE TypeOK'
  <2>. DEFINE me == caller[c]
  <2>1. me \in Commands /\ me.input \in Inputs
    BY <1>2, Running DEF LockStage
  <2>2. CASE Goes(c, [me EXCEPT !.pc = "authorize"])
    <3>1. Fine([me EXCEPT !.pc = "authorize"])
      BY <2>1, MovesFine DEF Granting, Held, Publishing
    <3>. HIDE DEF me
    <3>. QED BY <1>2, <2>2, <3>1, GoesTyped DEF LockStage, TypeOK, OnDisk, Bounds
  <2>3. ASSUME NEW a \in Recorded(me.input), Goes(c, [me EXCEPT !.pc = "point", !.stamp = a.stamp])
        PROVE  TypeOK'
    <3>. DEFINE state == [me EXCEPT !.pc = "point", !.stamp = a.stamp]
    <3>1. a.stamp \in Times
      BY Kinds DEF Recorded, TypeOK
    <3>2. state.pc = "point" /\ state \in Commands
      BY <2>1, <3>1 DEF Commands, Held, Publishing
    <3>3. Fine(state)
      BY <3>2 DEF Fine, Granting
    <3>4. Goes(c, state)
      BY <2>3
    <3>. HIDE DEF state
    <3>. QED BY <1>2, <3>3, <3>4, GoesTyped DEF LockStage, TypeOK, OnDisk, Bounds
  <2>. QED BY <1>2, <2>2, <2>3 DEF LockStage
<1>3. ASSUME NEW c \in Callers, LockStart(c) PROVE TypeOK'
  <2>. DEFINE me == caller[c]
              at == IF Witnesses(me.input) = {} THEN "consume"
                    ELSE IF Bindings(me.input) = {} THEN "bind" ELSE "policy"
              state == [me EXCEPT !.run = Consuming(me.input, @), !.pc = at]
  <2>1. me \in Commands /\ me.run \in Runs
    BY <1>3, Running DEF LockStart, Granting
  <2>2. Consuming(me.input, me.run) \in Runs
    BY <2>1, ConsumingTyped
  <2>3. at \in Held
    BY DEF Held, Publishing
  <2>4. state \in Commands /\ state.run \in Runs
    <3>. HIDE DEF at
    <3>. QED BY <2>1, <2>2, <2>3 DEF Commands
  <2>5. Goes(c, state)
    BY <1>3 DEF LockStart
  <2>6. Fine(state)
    <3>. HIDE DEF state
    <3>. QED BY <2>4 DEF Fine
  <2>. HIDE DEF state
  <2>. QED BY <1>3, <2>5, <2>6, GoesTyped DEF LockStart, TypeOK, OnDisk, Bounds
<1>4. ASSUME NEW c \in Callers, LockResume(c) PROVE TypeOK'
  <2>1. Fine([caller[c] EXCEPT !.pc = "confirm"])
    BY <1>4, Running, MovesFine DEF LockResume, Granting, Held
  <2>. QED BY <1>4, <2>1, GoesTyped DEF LockResume, TypeOK, OnDisk, Bounds
<1>5. ASSUME NEW c \in Callers, Refused(c) \/ Conflict(c) \/ Finish(c) PROVE TypeOK'
  <2>1. Goes(c, Idle)
    BY <1>5 DEF Refused, Conflict, Finish, Leaves
  <2>. QED BY <1>5, <2>1, GoesTyped, IdleFine
           DEF Refused, Conflict, Finish, Leaves, TypeOK, OnDisk, Bounds
<1>6. ASSUME NEW c \in Callers, Publish(c) PROVE TypeOK'
  <2>. DEFINE me == caller[c]
  <2>1. me \in Commands /\ me.pc \in Publishing /\ me.input \in Inputs
        /\ (me.run \in Runs \/ me.pc \in Granting)
    BY <1>6, Running DEF Publish, Publishing
  <2>2. Document(me) \in File
    <3>. HIDE DEF me
    <3>. QED BY <2>1, DocumentTyped
  <2>3. files' \subseteq File /\ solid' \subseteq files'
    BY <1>6, <2>2 DEF Publish, Barrier, TypeOK
  <2>4. /\ caller' \in [Callers -> Commands \union {Idle}]
        /\ \A d \in Callers : caller'[d] # Idle =>
               caller'[d].run \in Runs \/ caller'[d].pc \in Granting
    <3>1. CASE After(me.pc) = "idle"
      BY <1>6, <3>1, IdleFine, GoesTyped DEF Publish, Leaves
    <3>2. CASE After(me.pc) # "idle"
      <4>1. Fine([me EXCEPT !.pc = After(me.pc)])
        <5>. HIDE DEF me
        <5>. QED BY <2>1, <3>2, AfterTyped, MovesFine
      <4>. QED BY <1>6, <3>2, <4>1, GoesTyped DEF Publish
    <3>. QED BY <3>1, <3>2
  <2>5. worked' \subseteq Inputs \X Runs
    <3>1. me.pc = "attest" => me.run \in Runs
      BY <2>1 DEF Granting
    <3>. QED BY <1>6, <2>1, <3>1 DEF Publish, TypeOK
  <2>6. lock' \in Callers \union {None}
    BY <1>6 DEF Publish, Leaves, TypeOK
  <2>. QED BY <1>6, <2>3, <2>4, <2>5, <2>6 DEF Publish, Bounds, TypeOK
<1>7. ASSUME NEW c \in Callers, Confirm(c) PROVE TypeOK'
  <2>. DEFINE me == caller[c]
  <2>1. me \in Commands /\ me.input \in Inputs /\ me.run \in Runs
    BY <1>7, Running DEF Confirm, Granting
  <2>2. \A pc \in {"work", "announce"} : Fine([me EXCEPT !.pc = pc])
    <3>. HIDE DEF me
    <3>. QED BY <2>1, MovesFine DEF Held, Publishing
  <2>3. \E pc \in {"work", "announce"} : Goes(c, [me EXCEPT !.pc = pc])
    BY <1>7 DEF Confirm
  <2>4. worked' \subseteq Inputs \X Runs
    BY <1>7, <2>1 DEF Confirm, TypeOK
  <2>5. solid' \subseteq files'
    BY <1>7 DEF Confirm, ConfirmedBy, TypeOK
  <2>. HIDE DEF me
  <2>. QED BY <1>7, <2>2, <2>3, <2>4, <2>5, GoesTyped DEF Confirm, TypeOK, Bounds
<1>8. ASSUME NEW c \in Callers, Uncertain(c) PROVE TypeOK'
  <2>1. Document(caller[c]) \in File
    BY <1>8, Running, DocumentTyped DEF Uncertain, Publishing
  <2>2. Goes(c, Idle)
    BY <1>8 DEF Uncertain, Leaves
  <2>. QED BY <1>8, <2>1, <2>2, IdleFine, GoesTyped DEF Uncertain, Leaves, TypeOK
<1>9. ASSUME NEW c \in Callers, GiveUp(c) PROVE TypeOK'
  BY <1>9, IdleFine, GoesTyped DEF GiveUp, TypeOK, OnDisk
<1>10. CASE PowerLoss
  BY <1>10 DEF PowerLoss, TypeOK
<1>11. CASE UNCHANGED vars
  BY <1>11 DEF vars, TypeOK
<1>. QED BY <1>1, <1>2, <1>3, <1>4, <1>5, <1>6, <1>7, <1>8, <1>9, <1>10, <1>11
         DEF Next, Lock, Proceed

LEMMA Gone ==
    ASSUME TypeOK, NEW c \in Callers, NEW state, Goes(c, state)
    PROVE  /\ caller'[c] = state
           /\ \A d \in Callers \ {c} : caller'[d] = caller[d]
BY DEF TypeOK, Goes

\* A step that neither publishes nor confirms leaves the files alone.  A command that asks or ends has no
\* lock; one that gets it has not yet begun.
Quiet(c) ==
    /\ UNCHANGED <<files, solid, worked>>
    /\ \E state : Goes(c, state) /\ state.pc \notin Held
    /\ lock' = lock \/ (lock = c /\ lock' = None)

LEMMA QuietSteps ==
    ASSUME Inv, NEW c \in Callers,
           Ask(c) \/ Refused(c) \/ Conflict(c) \/ Finish(c) \/ GiveUp(c)
    PROVE  Quiet(c)
<1>1. CASE Ask(c)
  <2>1. \A pc \in Asking : pc \notin Held
    BY DEF Asking, Held, Publishing
  <2>2. ASSUME NEW l \in Inputs, NEW t \in Times, NEW r \in Runs \union {None}, AskStage(c, l, t, r)
        PROVE  Quiet(c)
    BY <2>1, <2>2 DEF AskStage, Quiet, OnDisk, Asking
  <2>3. ASSUME NEW a \in Authority, NEW r \in Runs, AskStart(c, a, r) \/ AskResume(c, a, r)
        PROVE  Quiet(c)
    BY <2>1, <2>3 DEF AskStart, AskResume, Quiet, OnDisk, Asking
  <2>. QED BY <1>1, <2>2, <2>3 DEF Ask
<1>2. Idle.pc \notin Held
  BY DEF Idle, Held, Publishing
<1>3. CASE Refused(c)
  BY <1>2, <1>3 DEF Refused, Quiet, OnDisk
<1>4. CASE Conflict(c) \/ Finish(c)
  <2>1. lock = c
    BY <1>4 DEF Inv, LockFits, Conflict, Finish, Held
  <2>. QED BY <1>2, <1>4, <2>1 DEF Conflict, Finish, Leaves, Quiet, OnDisk
<1>5. CASE GiveUp(c)
  BY <1>2, <1>5 DEF GiveUp, Quiet, OnDisk
<1>. QED BY <1>1, <1>3, <1>4, <1>5

LEMMA QuietKeeps ==
    ASSUME Inv, NEW c \in Callers, Quiet(c)
    PROVE  LockFits' /\ OneContent' /\ ReadStands' /\ AttestedLasts' /\ WorkedLasts' /\ WorkedOn'
<1>1. PICK state : Goes(c, state) /\ state.pc \notin Held
  BY DEF Quiet
<1>2. caller'[c] = state /\ \A d \in Callers \ {c} : caller'[d] = caller[d]
  BY <1>1, Gone DEF Inv
<1>3. \A pc : pc \in Consumed \union {"consume"} \union Attesting => pc \in Held
  BY DEF Consumed, Attesting, Held, Publishing
<1>4. UNCHANGED <<files, solid, worked>>
  BY DEF Quiet
<1>5. LockFits'
  BY <1>1, <1>2 DEF LockFits, Quiet, Inv
<1>6. ReadStands'
  BY <1>1, <1>2, <1>3, <1>4 DEF ReadStands, Inv
<1>7. AttestedLasts'
  BY <1>1, <1>2, <1>3, <1>4 DEF AttestedLasts, Lasting, Inv
<1>. QED BY <1>4, <1>5, <1>6, <1>7 DEF OneContent, WorkedLasts, Lasting, WorkedOn, Inv

\* Who gets the lock is alone with it, and has read what stands.
LEMMA LockKeeps ==
    ASSUME Inv, NEW c \in Callers, Lock(c)
    PROVE  LockFits' /\ OneContent' /\ ReadStands' /\ AttestedLasts' /\ WorkedLasts' /\ WorkedOn'
<1>. DEFINE me == caller[c]
<1>0. lock = None /\ lock' = c /\ UNCHANGED <<files, solid, worked>> /\ me.pc # "idle"
  BY DEF Lock, LockStage, LockStart, LockResume, OnDisk
<1>1. me \in Commands
  BY <1>0, Running DEF Inv
<1>2. \A d \in Callers : caller[d].pc \notin Held
  BY <1>0, NoneAssumption DEF Inv, LockFits
<1>3. PICK state : Goes(c, state)
  BY DEF Lock, LockStage, LockStart, LockResume
<1>4. caller'[c] = state /\ \A d \in Callers \ {c} : caller'[d] = caller[d]
  BY <1>3, Gone DEF Inv
<1>5. /\ caller'[c].pc \notin Attesting
      /\ caller'[c].pc \in Consumed \union {"consume"} =>
             Pointer(caller'[c].input, caller'[c].stamp) \in files
      /\ caller'[c].pc \in Consumed =>
             Witness(caller'[c].input, caller'[c].stamp, caller'[c].run) \in files
  <2>1. CASE LockStage(c)
    <3>1. caller'[c].pc \in {"authorize", "point"}
      <4>1. \/ Goes(c, [me EXCEPT !.pc = "authorize"])
            \/ \E t : Goes(c, [me EXCEPT !.pc = "point", !.stamp = t])
        BY <2>1 DEF LockStage
      <4>2. \/ caller'[c] = [me EXCEPT !.pc = "authorize"]
            \/ \E t : caller'[c] = [me EXCEPT !.pc = "point", !.stamp = t]
        BY <4>1, Gone DEF Inv
      <4>. HIDE DEF me
      <4>. QED BY <1>1, <4>2 DEF Commands
    <3>. QED BY <3>1 DEF Attesting, Consumed
  <2>2. CASE LockStart(c)
    <3>1. PICK a \in Authority : a.input = me.input /\ a.stamp = me.stamp /\ Startable(a, me.run)
      BY <2>2 DEF LockStart, Agreed, Reread
    <3>2. Pointer(me.input, me.stamp) \in files
      BY <3>1 DEF Authority
    <3>. DEFINE at == IF Witnesses(me.input) = {} THEN "consume"
                      ELSE IF Bindings(me.input) = {} THEN "bind" ELSE "policy"
                new == [me EXCEPT !.run = Consuming(me.input, @), !.pc = at]
    <3>3. caller'[c] = new
      BY <2>2, Gone DEF LockStart, Inv
    <3>4. new.input = me.input /\ new.stamp = me.stamp /\ new.run = Consuming(me.input, me.run) /\ new.pc = at
      <4>. HIDE DEF at
      <4>. QED BY <1>1 DEF Commands
    <3>5. Witnesses(me.input) # {} =>
              Witness(me.input, me.stamp, Consuming(me.input, me.run)) \in files
      <4>1. SUFFICES ASSUME Witnesses(me.input) # {}
                     PROVE  Witness(me.input, me.stamp, Consuming(me.input, me.run)) \in files
        OBVIOUS
      <4>2. PICK w \in Witnesses(me.input) : w.run = Consuming(me.input, me.run)
        BY <4>1 DEF Consuming
      <4>3. w.stamp = me.stamp
        BY <3>1, <4>2 DEF Startable, Consistent
      <4>. QED BY <4>2, <4>3, WitnessTyped DEF Inv
    <3>6. at \in {"consume", "bind", "policy"} /\ (at # "consume" => Witnesses(me.input) # {})
      OBVIOUS
    <3>. HIDE DEF new, at
    <3>. QED BY <3>2, <3>3, <3>4, <3>5, <3>6 DEF Attesting, Consumed
  <2>3. CASE LockResume(c)
    <3>1. PICK a \in Authority : a.input = me.input /\ a.stamp = me.stamp /\ Continues(a, me.run)
      BY <2>3 DEF LockResume, Agreed, Reread
    <3>2. caller'[c] = [me EXCEPT !.pc = "confirm"]
      BY <2>3, Gone DEF LockResume, Inv
    <3>3. /\ caller'[c].pc = "confirm" /\ caller'[c].input = me.input
          /\ caller'[c].stamp = me.stamp /\ caller'[c].run = me.run
      BY <1>1, <3>2 DEF Commands
    <3>. QED BY <3>1, <3>3 DEF Attesting, Consumed, Authority, Continues
  <2>. QED BY <2>1, <2>2, <2>3 DEF Lock
<1>6. \A pc : pc \in Consumed \union {"consume"} \union Attesting => pc \in Held
  BY DEF Consumed, Attesting, Held, Publishing
<1>7. LockFits'
  BY <1>0, <1>2, <1>4 DEF LockFits
<1>8. ReadStands'
  BY <1>0, <1>2, <1>4, <1>5, <1>6 DEF ReadStands
<1>9. AttestedLasts'
  BY <1>2, <1>4, <1>5, <1>6 DEF AttestedLasts
<1>. QED BY <1>0, <1>7, <1>8, <1>9 DEF OneContent, WorkedLasts, Lasting, WorkedOn, Inv

\* Confirming makes what tells of the run last.
LEMMA ConfirmKeeps ==
    ASSUME Inv, NEW c \in Callers, Confirm(c)
    PROVE  LockFits' /\ OneContent' /\ ReadStands' /\ AttestedLasts' /\ WorkedLasts' /\ WorkedOn'
<1>. DEFINE me == caller[c]
<1>1. me \in Commands /\ me.stamp \in Times /\ me.pc = "confirm"
  BY Running DEF Inv, Confirm
<1>2. PICK pc \in {"work", "announce"} : Goes(c, [me EXCEPT !.pc = pc])
  BY DEF Confirm
<1>3. /\ caller'[c].pc = pc /\ caller'[c].input = me.input
      /\ caller'[c].stamp = me.stamp /\ caller'[c].run = me.run
      /\ \A d \in Callers \ {c} : caller'[d] = caller[d]
  BY <1>1, <1>2, Gone DEF Commands, Inv
<1>4. Lasting'
  BY DEF Confirm, ConfirmedBy, Lasting, AuthorityKinds
<1>5. LockFits'
  BY <1>1, <1>3 DEF LockFits, Inv, Confirm, Held
<1>6. Pointer(me.input, me.stamp) \in files /\ Witness(me.input, me.stamp, me.run) \in files
  BY <1>1 DEF Inv, ReadStands, Consumed
<1>7. ReadStands'
  BY <1>3, <1>6 DEF ReadStands, Inv, Confirm
<1>8. WorkedOn'
  BY <1>1, <1>6 DEF WorkedOn, Inv, Confirm
<1>. QED BY <1>4, <1>5, <1>7, <1>8 DEF OneContent, AttestedLasts, WorkedLasts, Confirm, Inv

\* What a publication leaves of the names, and of what must last.
LEMMA LinkKeeps ==
    ASSUME Inv, NEW c \in Callers, caller[c].pc \in Publishing, Publishable(caller[c]),
           files' = files \union {Document(caller[c])}
    PROVE  /\ OneContent'
           /\ worked # {} /\ Document(caller[c]).kind \in {"pointer", "witness"} =>
                  Document(caller[c]) \in files
<1>. DEFINE me == caller[c]
<1>1. OneContent'
  <2>1. \A f \in files : SameName(f, Document(me)) \/ SameName(Document(me), f) => f = Document(me)
    BY DEF Publishable, SameName
  <2>. QED BY <2>1 DEF OneContent, Inv
<1>2. ASSUME NEW w \in worked, Document(me).kind \in {"pointer", "witness"}
      PROVE  Document(me) \in files
  <2>1. PICK l \in Inputs, r \in Runs : w = <<l, r>>
    BY <1>2 DEF Inv, TypeOK
  <2>2. PICK t \in Times : Pointer(l, t) \in files /\ Witness(l, t, r) \in files
    BY <1>2, <2>1 DEF Inv, WorkedOn
  <2>3. CASE me.pc = "point"
    <3>1. Document(me) = Pointer(me.input, me.stamp)
      BY <2>3 DEF Document
    <3>2. SameName(Pointer(l, t), Document(me))
      BY <3>1 DEF SameName, Pointer, RunKinds, IntentKinds, EventKinds
    <3>. QED BY <2>2, <3>2 DEF Publishable
  <2>4. CASE me.pc = "consume"
    <3>1. Document(me) = Witness(me.input, me.stamp, me.run)
      BY <2>4 DEF Document
    <3>2. Pointer(me.input, me.stamp) \in files
      BY <2>4 DEF Inv, ReadStands
    <3>3. SameName(Pointer(l, t), Pointer(me.input, me.stamp))
      BY DEF SameName, Pointer, RunKinds, IntentKinds, EventKinds
    <3>4. l = me.input
      BY <2>2, <3>2, <3>3 DEF Inv, OneContent, Pointer
    <3>5. SameName(Witness(l, t, r), Document(me))
      BY <3>1, <3>4 DEF SameName, Witness, RunKinds, IntentKinds, EventKinds
    <3>. QED BY <2>2, <3>5 DEF Publishable
  <2>5. me.pc \notin {"point", "consume"} => Document(me).kind \notin {"pointer", "witness"}
    BY DEF Publishing, Document, Authorization, Binding, OfRun
  <2>. QED BY <1>2, <2>3, <2>4, <2>5
<1>. QED BY <1>1, <1>2

LEMMA UncertainKeeps ==
    ASSUME Inv, NEW c \in Callers, Uncertain(c)
    PROVE  LockFits' /\ OneContent' /\ ReadStands' /\ AttestedLasts' /\ WorkedLasts' /\ WorkedOn'
<1>. DEFINE me == caller[c]
<1>1. me.pc \in Publishing /\ me.pc \in Held /\ lock = c
  BY DEF Uncertain, Held, Inv, LockFits
<1>2. caller'[c] = Idle /\ (\A d \in Callers \ {c} : caller'[d] = caller[d]) /\ lock' = None
  BY Gone DEF Uncertain, Leaves, Inv
<1>3. Idle.pc \notin Held
  BY DEF Idle, Held, Publishing
<1>4. \A d \in Callers : caller'[d].pc \notin Held
  BY <1>1, <1>2, <1>3 DEF Inv, LockFits
<1>5. \A pc : pc \in Consumed \union {"consume"} \union Attesting => pc \in Held
  BY DEF Consumed, Attesting, Held, Publishing
<1>6. LockFits' /\ ReadStands' /\ AttestedLasts'
  BY <1>4, <1>5 DEF LockFits, ReadStands, AttestedLasts
<1>7. /\ OneContent'
      /\ worked # {} /\ Document(me).kind \in {"pointer", "witness"} => Document(me) \in files
  BY <1>1, LinkKeeps DEF Uncertain
<1>8. WorkedLasts'
  BY <1>7 DEF WorkedLasts, Lasting, Inv, Uncertain
<1>9. WorkedOn'
  BY DEF WorkedOn, Inv, Uncertain
<1>. QED BY <1>6, <1>7, <1>8, <1>9

LEMMA PublishKeeps ==
    ASSUME Inv, NEW c \in Callers, Publish(c)
    PROVE  LockFits' /\ OneContent' /\ ReadStands' /\ AttestedLasts' /\ WorkedLasts' /\ WorkedOn'
<1>. DEFINE me == caller[c]
            doc == Document(me)
<1>1. me.pc \in Publishing /\ me.pc \in Held /\ lock = c
  BY DEF Publish, Held, Inv, LockFits
<1>2. me \in Commands /\ me.input \in Inputs /\ me.stamp \in Times
  BY <1>1, Running DEF Inv, Publishing
<1>3. files' = files \union {doc} /\ solid \subseteq solid' /\ doc \in solid'
  <2>1. doc \in File
    BY <1>1, <1>2, Running, DocumentTyped DEF Inv, Publishing
  <2>2. doc.kind \in AuthorityKinds \union RunKinds
    <3>. HIDE DEF doc
    <3>. QED BY <2>1 DEF File, Authorization, Pointer, Witness, Binding, OfRun, AuthorityKinds
  <2>3. Covers(doc, doc)
    BY <2>2 DEF Covers, RunKinds
  <2>. QED BY <2>3 DEF Publish, Barrier
<1>4. /\ OneContent'
      /\ worked # {} /\ doc.kind \in {"pointer", "witness"} => doc \in files
  BY <1>1, <1>3, LinkKeeps DEF Publish
<1>5. \A d \in Callers \ {c} : caller'[d] = caller[d] /\ caller[d].pc \notin Held
  BY <1>1, Gone DEF Publish, Leaves, Inv, LockFits
<1>6. \/ caller'[c] = Idle /\ lock' = None
      \/ /\ lock' = c /\ caller'[c].pc = After(me.pc) /\ caller'[c].input = me.input
         /\ caller'[c].stamp = me.stamp /\ caller'[c].run = me.run
  <2>1. CASE After(me.pc) = "idle"
    BY <2>1, Gone DEF Publish, Leaves, Inv
  <2>2. CASE After(me.pc) # "idle"
    <3>1. caller'[c] = [me EXCEPT !.pc = After(me.pc)] /\ lock' = lock
      BY <2>2, Gone DEF Publish, Inv
    <3>. HIDE DEF me
    <3>. QED BY <1>1, <1>2, <3>1 DEF Commands
  <2>. QED BY <2>1, <2>2
<1>7. Idle.pc \notin Held /\ \A pc : pc \in Consumed \union {"consume"} \union Attesting => pc \in Held
  BY DEF Idle, Consumed, Attesting, Held, Publishing
<1>8. LockFits'
  BY <1>5, <1>6, <1>7 DEF LockFits
<1>9. /\ After(me.pc) \in Consumed => me.pc \in Consumed \union {"consume"}
      /\ After(me.pc) # "consume"
      /\ After(me.pc) \in Attesting => me.pc \in Attesting
  BY <1>1 DEF After, Consumed, Attesting, Publishing
<1>10. me.pc \in Consumed \union {"consume"} =>
           Pointer(me.input, me.stamp) \in files /\ Witness(me.input, me.stamp, me.run) \in files'
  <2>1. me.pc = "consume" => doc = Witness(me.input, me.stamp, me.run)
    BY DEF Document
  <2>. QED BY <1>3, <2>1 DEF Inv, ReadStands
<1>11. ReadStands'
  BY <1>3, <1>5, <1>6, <1>7, <1>9, <1>10 DEF ReadStands
<1>12. Lasting => Lasting'
  BY <1>3 DEF Lasting
<1>13. AttestedLasts'
  BY <1>5, <1>6, <1>7, <1>9, <1>12 DEF AttestedLasts, Inv
<1>14. WorkedLasts'
  BY <1>12 DEF WorkedLasts, AttestedLasts, Attesting, Inv, Publish
<1>15. WorkedOn'
  BY <1>2, <1>3, <1>10 DEF WorkedOn, Inv, Publish, Consumed
<1>. QED BY <1>4, <1>8, <1>11, <1>13, <1>14, <1>15

\* A power failure ends every command, and takes nothing that lasts.
LEMMA PowerLossKeeps ==
    ASSUME Inv, PowerLoss
    PROVE  LockFits' /\ OneContent' /\ ReadStands' /\ AttestedLasts' /\ WorkedLasts' /\ WorkedOn'
<1>1. \A c \in Callers : caller'[c] = Idle
  BY DEF PowerLoss
<1>2. Idle.pc \notin Held /\ \A pc : pc \in Consumed \union {"consume"} \union Attesting => pc \in Held
  BY DEF Idle, Consumed, Attesting, Held, Publishing
<1>3. files' \subseteq files /\ solid \subseteq files' /\ solid' = files' /\ worked' = worked
  BY DEF PowerLoss, Inv, TypeOK
<1>4. LockFits' /\ ReadStands' /\ AttestedLasts'
  BY <1>1, <1>2 DEF LockFits, ReadStands, AttestedLasts
<1>5. OneContent' /\ WorkedLasts'
  BY <1>3 DEF OneContent, WorkedLasts, Lasting, Inv
<1>6. \A f \in files : worked # {} /\ f.kind \in {"pointer", "witness"} => f \in files'
  BY <1>3 DEF Inv, WorkedLasts, Lasting
<1>7. WorkedOn'
  BY <1>3, <1>6 DEF WorkedOn, Inv, Pointer, Witness
<1>. QED BY <1>4, <1>5, <1>7

LEMMA InvInit == Init => Inv
<1>. SUFFICES ASSUME Init PROVE Inv
  OBVIOUS
<1>. USE BoundsAssumption
<1>1. TypeOK
  BY DEF Init, TypeOK
<1>2. Idle.pc \notin Held /\ \A pc : pc \in Consumed \union {"consume"} \union Attesting => pc \in Held
  BY DEF Idle, Consumed, Attesting, Held, Publishing
<1>. QED BY <1>1, <1>2
         DEF Init, Inv, LockFits, OneContent, ReadStands, AttestedLasts, WorkedLasts, WorkedOn

LEMMA InvNext == Inv /\ [Next]_vars => Inv'
<1>. SUFFICES ASSUME Inv, [Next]_vars PROVE Inv'
  OBVIOUS
<1>1. TypeOK'
  BY TypeStep DEF Inv
<1>2. CASE \E c \in Callers : Quiet(c)
  BY <1>1, <1>2, QuietKeeps DEF Inv
<1>3. CASE \E c \in Callers : Lock(c) \/ Confirm(c) \/ Publish(c) \/ Uncertain(c)
  BY <1>1, <1>3, LockKeeps, ConfirmKeeps, PublishKeeps, UncertainKeeps DEF Inv
<1>4. CASE PowerLoss
  BY <1>1, <1>4, PowerLossKeeps DEF Inv
<1>5. CASE UNCHANGED vars
  BY <1>1, <1>5 DEF vars, Inv, LockFits, OneContent, ReadStands, AttestedLasts, WorkedLasts,
                    WorkedOn, Lasting
<1>. QED BY <1>2, <1>3, <1>4, <1>5, QuietSteps DEF Next, Proceed

LEMMA Invariance == Spec => []Inv
<1>. QED BY InvInit, InvNext, PTL DEF Spec

\* The state stays of its type.
THEOREM StartTyped == Spec => []TypeOK
<1>1. Inv => TypeOK
  BY DEF Inv
<1>. QED BY <1>1, Invariance, PTL

(***************************************************************************)
(* StagePromise                                                            *)
(***************************************************************************)

LEMMA GrantedIs ==
    ASSUME Inv, NEW p \in files, p.kind = "pointer"
    PROVE  granted = p.input
<1>1. p \in Pointers
  BY DEF Pointers
<1>2. \A q \in Pointers : SameName(q, p)
  BY DEF Pointers, SameName, RunKinds, IntentKinds, EventKinds
<1>. QED BY <1>1, <1>2 DEF granted, Pointers, Inv, OneContent

LEMMA ConsumedIs ==
    ASSUME Inv, NEW w \in files, w.kind = "witness"
    PROVE  w.input \in Inputs /\ consumed[w.input] = w.run
<1>1. w.input \in Inputs
  BY Kinds DEF Inv, TypeOK
<1>2. w \in Witnesses(w.input)
  BY DEF Witnesses
<1>3. \A v \in Witnesses(w.input) : SameName(v, w)
  BY DEF Witnesses, SameName, RunKinds, IntentKinds, EventKinds
<1>4. RunOf(Witnesses(w.input)) = w.run
  BY <1>2, <1>3 DEF RunOf, Witnesses, Inv, OneContent
<1>. QED BY <1>1, <1>4 DEF consumed

\* What a run that is bound or opened stands on.
LEMMA WorkStep ==
    ASSUME Inv, NEW c \in Callers, caller[c].pc \in Consumed
    PROVE  /\ caller[c].input \in Inputs /\ caller[c].run \in Runs
           /\ granted = caller[c].input /\ consumed[caller[c].input] = caller[c].run
<1>. DEFINE me == caller[c]
<1>1. me.input \in Inputs /\ (me.run \in Runs \/ me.pc \in Granting)
  BY Running DEF Inv, Consumed
<1>2. me.run \in Runs
  BY <1>1 DEF Consumed, Granting
<1>3. Pointer(me.input, me.stamp) \in files /\ Witness(me.input, me.stamp, me.run) \in files
  BY DEF Inv, ReadStands
<1>4. granted = me.input
  BY <1>3, GrantedIs DEF Pointer
<1>5. consumed[me.input] = me.run
  BY <1>3, ConsumedIs DEF Witness
<1>. QED BY <1>1, <1>2, <1>4, <1>5

LEMMA FilesTell ==
    ASSUME files' = files
    PROVE  granted' = granted /\ consumed' = consumed
<1>1. granted' = granted
  BY DEF granted, Pointers
<1>2. \A l \in Inputs : Witnesses(l)' = Witnesses(l)
  BY DEF Witnesses
<1>. QED BY <1>1, <1>2 DEF consumed

\* One new file: the pointer grants, a witness consumes, the others are not
\* seen.
LEMMA LinkTells ==
    ASSUME Inv, NEW c \in Callers, caller[c].pc \in Publishing, Publishable(caller[c]), Inv',
           files' = files \union {Document(caller[c])}
    PROVE  \/ granted' = granted /\ consumed' = consumed
           \/ /\ caller[c].pc = "point"
              /\ granted = None /\ granted' = caller[c].input /\ consumed' = consumed
           \/ /\ caller[c].pc = "consume" /\ caller[c].run \in Runs
              /\ granted = caller[c].input /\ consumed[caller[c].input] = None
              /\ consumed' = [consumed EXCEPT ![caller[c].input] = caller[c].run]
              /\ granted' = granted
<1>. DEFINE me == caller[c]
            doc == Document(me)
<1>1. me.input \in Inputs /\ (me.run \in Runs \/ me.pc \in Granting)
  BY Running DEF Inv, Publishing
<1>2. CASE doc \in files
  BY <1>2, FilesTell
<1>3. CASE me.pc = "point" /\ doc \notin files
  <2>1. doc = Pointer(me.input, me.stamp)
    BY <1>3 DEF Document
  <2>2. Pointers = {}
    <3>1. \A p \in Pointers : SameName(p, doc)
      BY <2>1 DEF Pointers, Pointer, SameName, RunKinds, IntentKinds, EventKinds
    <3>. QED BY <1>3, <3>1 DEF Publishable, Pointers
  <2>3. granted = None
    BY <2>2 DEF granted
  <2>4. Pointers' = {doc}
    BY <2>1, <2>2 DEF Pointers, Pointer
  <2>5. granted' = me.input
    BY <2>1, <2>4 DEF granted, Pointer
  <2>6. consumed' = consumed
    <3>1. \A l : Witnesses(l)' = Witnesses(l)
      BY <2>1 DEF Witnesses, Pointer
    <3>. QED BY <3>1 DEF consumed
  <2>. QED BY <1>3, <2>3, <2>5, <2>6
<1>4. CASE me.pc = "consume" /\ doc \notin files
  <2>1. doc = Witness(me.input, me.stamp, me.run)
    BY <1>4 DEF Document
  <2>2. Witnesses(me.input) = {}
    <3>1. \A w \in Witnesses(me.input) : SameName(w, doc)
      BY <2>1 DEF Witnesses, Witness, SameName, RunKinds, IntentKinds, EventKinds
    <3>. QED BY <1>4, <3>1 DEF Publishable, Witnesses
  <2>3. \A l \in Inputs : Witnesses(l)' = IF l = me.input THEN {doc} ELSE Witnesses(l)
    BY <2>1, <2>2 DEF Witnesses, Witness
  <2>4. consumed[me.input] = None
    BY <1>1, <2>2 DEF consumed, RunOf
  <2>5. consumed' = [consumed EXCEPT ![me.input] = me.run]
    <3>1. RunOf({doc}) = me.run
      BY <2>1 DEF RunOf, Witness
    <3>2. \A l \in Inputs :
             RunOf(Witnesses(l)') = IF l = me.input THEN me.run ELSE RunOf(Witnesses(l))
      BY <2>3, <3>1
    <3>. QED BY <1>1, <3>2 DEF consumed
  <2>6. granted' = granted
    <3>1. Pointers' = Pointers
      BY <2>1 DEF Pointers, Witness
    <3>. QED BY <3>1 DEF granted
  <2>7. granted = me.input
    BY <1>4, GrantedIs DEF Inv, ReadStands, Pointer
  <2>8. me.run \in Runs
    BY <1>1, <1>4 DEF Granting
  <2>. QED BY <1>4, <2>4, <2>5, <2>6, <2>7, <2>8
<1>5. CASE me.pc \notin {"point", "consume"}
  <2>1. doc.kind \notin {"pointer", "witness"}
    BY <1>5 DEF Publishing, Document, Authorization, Binding, OfRun
  <2>2. Pointers' = Pointers /\ \A l : Witnesses(l)' = Witnesses(l)
    BY <2>1 DEF Pointers, Witnesses
  <2>. QED BY <2>2 DEF granted, consumed
<1>. QED BY <1>2, <1>3, <1>4, <1>5

\* Every step of a command, and a power failure, is a step of the promise.
LEMMA PromiseStep ==
    ASSUME Inv, Inv', [Next]_vars
    PROVE  [Promise!Next]_<<granted, consumed, worked>>
<1>1. CASE UNCHANGED <<files, worked>>
  BY <1>1, FilesTell
<1>2. ASSUME NEW c \in Callers, Confirm(c) PROVE [Promise!Next]_<<granted, consumed, worked>>
  <2>1. granted' = granted /\ consumed' = consumed
    BY <1>2, FilesTell DEF Confirm
  <2>2. CASE worked' = worked
    BY <2>1, <2>2
  <2>3. CASE worked' = worked \union {<<caller[c].input, caller[c].run>>}
    <3>1. Promise!Work(caller[c].input, caller[c].run)
      BY <1>2, <2>1, <2>3, WorkStep DEF Promise!Work, Confirm, Consumed
    <3>. QED BY <1>2, <3>1, WorkStep DEF Promise!Next, Confirm, Consumed
  <2>. QED BY <1>2, <2>2, <2>3 DEF Confirm
<1>3. ASSUME NEW c \in Callers, Publish(c) PROVE [Promise!Next]_<<granted, consumed, worked>>
  <2>. DEFINE me == caller[c]
  <2>1. me.input \in Inputs /\ me.pc \in Publishing
    BY <1>3, Running DEF Inv, Publish, Publishing
  <2>2. CASE me.pc = "attest"
    <3>1. granted' = granted /\ consumed' = consumed
      BY <1>3, <2>2, LinkTells DEF Publish
    <3>2. Promise!Work(me.input, me.run)
      BY <1>3, <2>2, <3>1, WorkStep DEF Promise!Work, Publish, Consumed
    <3>. QED BY <2>1, <2>2, <3>2, WorkStep DEF Promise!Next, Consumed
  <2>3. CASE me.pc # "attest"
    <3>1. worked' = worked
      BY <1>3, <2>3 DEF Publish
    <3>. QED BY <1>3, <2>1, <3>1, LinkTells DEF Publish, Promise!Next, Promise!Grant, Promise!Consume
  <2>. QED BY <2>2, <2>3
<1>4. ASSUME NEW c \in Callers, Uncertain(c) PROVE [Promise!Next]_<<granted, consumed, worked>>
  <2>1. caller[c].input \in Inputs /\ worked' = worked
    BY <1>4, Running DEF Inv, Uncertain, Publishing
  <2>. QED BY <1>4, <2>1, LinkTells DEF Uncertain, Promise!Next, Promise!Grant, Promise!Consume
<1>5. CASE PowerLoss
  <2>1. files' \subseteq files /\ solid \subseteq files' /\ worked' = worked
    BY <1>5 DEF PowerLoss, Inv, TypeOK
  <2>2. CASE worked = {}
    <3>1. granted' \in {granted, None}
      <4>1. ASSUME NEW p \in Pointers' PROVE granted' = granted
        <5>1. p \in files' /\ p \in files /\ p.kind = "pointer"
          BY <2>1, <4>1 DEF Pointers
        <5>2. granted = p.input
          BY <5>1, GrantedIs
        <5>3. granted' = p.input
          BY <5>1, <4>1, \A q \in Pointers' : SameName(q, p) => q = p
             DEF granted, Pointers, SameName, RunKinds, IntentKinds, EventKinds, Inv, OneContent
        <5>. QED BY <5>2, <5>3
      <4>. QED BY <4>1 DEF granted
    <3>2. \A l \in Inputs : consumed'[l] \in {consumed[l], None}
      <4>. SUFFICES ASSUME NEW l \in Inputs PROVE consumed'[l] \in {consumed[l], None}
        OBVIOUS
      <4>1. consumed'[l] = RunOf(Witnesses(l)') /\ (Witnesses(l)' = {} => RunOf(Witnesses(l)') = None)
        BY DEF consumed, RunOf
      <4>2. ASSUME NEW w \in Witnesses(l)' PROVE consumed'[l] = consumed[l]
        <5>1. w \in files' /\ w \in files /\ w.kind = "witness" /\ w.input = l
          BY <2>1, <4>2 DEF Witnesses
        <5>2. consumed[l] = w.run
          BY <5>1, ConsumedIs
        <5>3. \A v \in Witnesses(l)' : SameName(v, w) /\ v \in files'
          BY <5>1 DEF Witnesses, SameName, RunKinds, IntentKinds, EventKinds
        <5>4. \A v \in Witnesses(l)' : v = w
          BY <5>1, <5>3 DEF Inv, OneContent
        <5>5. RunOf(Witnesses(l)') = w.run
          BY <4>2, <5>4 DEF RunOf
        <5>. QED BY <4>1, <5>2, <5>5
      <4>. QED BY <4>1, <4>2
    <3>3. consumed' \in [Inputs -> Runs \union {None}]
      <4>1. \A l \in Inputs : \A w \in Witnesses(l)' : w.run \in Runs
        BY Kinds DEF Witnesses, Inv, TypeOK
      <4>2. \A l \in Inputs : RunOf(Witnesses(l)') \in Runs \union {None}
        BY <4>1 DEF RunOf
      <4>. QED BY <4>2 DEF consumed
    <3>4. Promise!TakeBack
      BY <2>1, <2>2, <3>1, <3>2, <3>3 DEF Promise!TakeBack
    <3>. QED BY <3>4 DEF Promise!Next
  <2>3. CASE worked # {}
    <3>1. \A f \in files : f.kind \in {"pointer", "witness"} => f \in files'
      BY <2>1, <2>3 DEF Inv, WorkedLasts, Lasting
    <3>2. Pointers' = Pointers
      BY <2>1, <3>1 DEF Pointers
    <3>3. \A l : Witnesses(l)' = Witnesses(l)
      BY <2>1, <3>1 DEF Witnesses
    <3>. QED BY <2>1, <3>2, <3>3 DEF granted, consumed
  <2>. QED BY <2>2, <2>3
<1>6. CASE \E c \in Callers : Quiet(c)
  BY <1>1, <1>6 DEF Quiet
<1>7. CASE \E c \in Callers : Lock(c)
  <2>1. UNCHANGED <<files, worked>>
    BY <1>7 DEF Lock, LockStage, LockStart, LockResume, OnDisk
  <2>. QED BY <1>1, <2>1
<1>8. CASE UNCHANGED vars
  BY <1>1, <1>8 DEF vars
<1>. QED BY <1>2, <1>3, <1>4, <1>5, <1>6, <1>7, <1>8, QuietSteps DEF Next, Proceed

LEMMA PromiseInit == Init => Promise!Init
BY DEF Init, Promise!Init, granted, consumed, RunOf, Pointers, Witnesses

\* One input, one run that consumes it, and only that run works under it;
\* once a run works nothing is taken back: the steps of every command, their
\* failures between link and barrier, and the power failures are steps of
\* StagePromise, for any number of commands, inputs, runs and failures.
THEOREM StartPromiseKept == Spec => ImplementsPromise
<1>1. Inv /\ Inv' /\ [Next]_vars => [Promise!Next]_<<granted, consumed, worked>>
  BY PromiseStep
<1>. QED BY <1>1, PromiseInit, Invariance, PTL
         DEF Spec, ImplementsPromise, Promise!Spec, Promise!vars
=============================================================================
