----------------------------- MODULE OwnerGates -----------------------------
(***************************************************************************)
(* The two scripts with which the owner of the repository moves one task,  *)
(* each ending in one local commit:                                        *)
(*                                                                         *)
(*   workflow-authorize.sh   a Planned task becomes Current;               *)
(*   workflow-approve.sh     the work in the tree is approved, and its     *)
(*                           Current task becomes Done with it.            *)
(*                                                                         *)
(* Both check the record, wait for the owner to type a word twice, rewrite *)
(* the documents one after another, check the record again, and commit.    *)
(* authorize leaves what it wrote when it fails; approve puts back the     *)
(* copies it took.  The owner runs one of them at a time; a declined       *)
(* prompt is a gate that ends there, as a killed one does.  Branches are   *)
(* not modelled, so neither is the registered branch that authorize        *)
(* prepares after its commit.                                              *)
(***************************************************************************)
EXTENDS EngineCommands, GovernanceRecord, Functions

OwnersGates == {"authorize", "approve"}
AtGate(p, pc) == Kind(p) \in OwnersGates /\ proc[p].pc = pc

Record(files) == [d \in Documents |-> files[d]]
Registered(task) == task \in DOMAIN tree["registry"]

Remembers(p, made) ==
  /\ proc' = [proc EXCEPT ![p].pc = "validate", ![p].made = made]
  /\ UNCHANGED <<told, left>>

\* what a gate found, and (history) what the record was and how often people
\* had amended it
Found(task, impl) ==
  [task |-> task, impl |-> impl, todo |-> <<>>, changed |-> {}, backup |-> [at |-> 0],
   state |-> IF Registered(task) THEN tree["registry"][task] ELSE "none",
   before |-> Record(tree), amends |-> left["amend"]]

-----------------------------------------------------------------------------
(* workflow-authorize.sh                                                   *)

\* from a clean tree
StartsAuthorize(p) ==
  \E task \in DOMAIN tree["queue"] :
    /\ Begin(p, [kind |-> "authorize", task |-> task], "authorizeHead")
    /\ \A q \in Procs : Kind(q) \notin OwnersGates
    /\ IsClean(Porcelain)
    /\ UNCHANGED git

AuthorizeReadsHead(p) ==
  /\ At(p, "authorize", "authorizeHead")
  /\ proc' = [proc EXCEPT ![p].pc = "authorizeReads", ![p].seen = HeadAnswer]
  /\ UNCHANGED <<told, left, git>>

\* the stage before it in its registry is COMPLETE
PredecessorComplete(task) ==
  task = 1 \/ (task - 1 \in DOMAIN tree["registry"] /\ tree["registry"][task - 1] = "COMPLETE")

QuestionGates(task) ==
  \E question \in tree["questions"] : question.open /\ task \in question.blocks

MayBeAuthorized(task) ==
  /\ tree["queue"][task] = "Planned"
  /\ CurrentTasks(tree) = {}
  /\ Registered(task) =>
       /\ tree["registry"][task] \in {"NOT_STARTED", "PROPOSED"}
       /\ PredecessorComplete(task)
       /\ ~QuestionGates(task)

\* the task's own preconditions, and HEAD where the upstream is
AuthorizeReads(p) ==
  LET task == proc[p].ask.task
  IN  /\ At(p, "authorize", "authorizeReads")
      /\ IF /\ task \in DOMAIN tree["queue"] /\ MayBeAuthorized(task)
            /\ proc[p].seen.head = tracking
         THEN Remembers(p, Found(task, {}))
         ELSE Refuses(p)
      /\ UNCHANGED git

\* run_governance_validation, and the owner types AUTHORIZE twice
AuthorizeValidates(p) ==
  /\ At(p, "authorize", "validate")
  /\ IF TaskStateHolds(tree) /\ HandoverHolds(tree)
     THEN /\ proc' = [proc EXCEPT ![p].pc = "write",
               ![p].made.todo = <<"queue", "remaining", "current", "project", "registry",
                                  "handover", "checksum">>]
          /\ UNCHANGED <<told, left>>
     ELSE Refuses(p)
  /\ UNCHANGED git

Authorized(document, task) ==
  LET content == tree[document]
  IN  CASE document \in {"queue", "remaining"} -> [content EXCEPT ![task] = "Current"]
        [] document = "current" -> [t \in {task} |-> "Current"]
        \* a section is appended, and the first mention of a task is the one read
        [] document = "project" ->
             [t \in DOMAIN content \cup {task} |-> IF t \in DOMAIN content THEN content[t] ELSE "Current"]
        [] document = "registry" ->
             [t \in DOMAIN content |-> IF t = task THEN "AUTHORIZED" ELSE content[t]]
        [] document = "handover" -> Append(content, <<"authorized", task>>)
        [] document = "checksum" -> tree["handover"]

-----------------------------------------------------------------------------
(* workflow-approve.sh                                                     *)

\* HEAD, and the changed files that are the implementation
StartsApprove(p) ==
  /\ Begin(p, [kind |-> "approve", impl |-> Modified \cup StagedNames], "approveReads")
  /\ \A q \in Procs : Kind(q) \notin OwnersGates
  /\ ~IsClean(Porcelain)
  /\ UNCHANGED git

\* exactly one Current task, the mirrors and the registry agree that it is, and
\* its report is there
MayBeClosed(task) ==
  /\ InState(tree["current"], "Current") = {task}
  /\ task \in InState(tree["remaining"], "Current")
  /\ Registered(task) =>
       tree["registry"][task] \in {"AUTHORIZED", "IN_PROGRESS", "SELF_REVIEW", "REVIEW", "APPROVAL"}
  /\ task \in DOMAIN tree["reports"]

ApproveReads(p) ==
  /\ At(p, "approve", "approveReads")
  /\ \/ \E task \in CurrentTasks(tree) :
          /\ CurrentTasks(tree) = {task}
          /\ MayBeClosed(task)
          /\ Remembers(p, Found(task, proc[p].ask.impl))
     \/ ~(\E task \in CurrentTasks(tree) : CurrentTasks(tree) = {task} /\ MayBeClosed(task)) /\ Refuses(p)
  /\ UNCHANGED git

\* the owner has typed APPROVE twice; the copies of what will be rewritten
ApproveCopies(p) ==
  /\ At(p, "approve", "validate")
  /\ proc' = [proc EXCEPT ![p].pc = "write",
       ![p].made.backup = [at |-> writes, files |-> Record(tree), stamps |-> stamps],
       ![p].made.todo = <<"queue", "current", "remaining", "project", "registry", "reports",
                          "handover", "checksum">>]
  /\ UNCHANGED <<told, left, git>>

\* Mutated form: the stage registry is left as it was.
Closed_Registry(document, task) ==
  LET content == tree[document]
  IN  CASE document = "queue" -> [content EXCEPT ![task] = "Done"]
        [] document = "current" -> <<>>
        [] document = "remaining" -> [t \in DOMAIN content \ {task} |-> content[t]]
        [] document = "project" ->
             [t \in DOMAIN content |-> IF t = task THEN "Done" ELSE content[t]]
        [] document = "registry" -> content
        [] document = "reports" -> [content EXCEPT ![task] = @ + 1]
        [] document = "handover" -> Append(content, <<"closed", task>>)
        [] document = "checksum" -> tree["handover"]

Closed(document, task) ==
  LET content == tree[document]
  IN  CASE document = "queue" -> [content EXCEPT ![task] = "Done"]
        [] document = "current" -> <<>>
        [] document = "remaining" -> [t \in DOMAIN content \ {task} |-> content[t]]
        [] document = "project" ->
             [t \in DOMAIN content |-> IF t = task THEN "Done" ELSE content[t]]
        [] document = "registry" ->
             [t \in DOMAIN content |-> IF t = task THEN "COMPLETE" ELSE content[t]]
        [] document = "reports" -> [content EXCEPT ![task] = @ + 1]
        [] document = "handover" -> Append(content, <<"closed", task>>)
        [] document = "checksum" -> tree["handover"]

-----------------------------------------------------------------------------
(* both                                                                    *)

\* a gate that dies by itself: authorize leaves everything, approve restores
Fails(p) == IF Kind(p) = "approve" THEN Goes(p, "restore") ELSE Refuses(p)

\* replace_task_status, replace_table_status and remove_table_row look for the
\* value they replace
StillThere(document, made) ==
  LET content == tree[document]
      task == made.task
  IN  CASE document \in {"queue", "remaining"} ->
             task \in InState(content, made.before[document][task])
        [] document = "registry" -> made.state # "none" => task \in InState(content, made.state)
        [] document = "reports" -> task \in DOMAIN content
        [] OTHER -> TRUE

GateWrites(p) ==
  LET made == proc[p].made
      document == Head(made.todo)
  IN  /\ AtGate(p, "write")
      /\ made.todo # <<>>
      /\ IF StillThere(document, made)
         THEN /\ WritesDocument(document, IF Kind(p) = "authorize" THEN Authorized(document, made.task)
                                                                  ELSE Closed(document, made.task))
              /\ proc' = [proc EXCEPT ![p].made.todo = Tail(@)]
              /\ UNCHANGED <<told, left>>
         ELSE Fails(p) /\ UNCHANGED git

\* the same three checks as before; check-registries is not among them
GateValidates(p) ==
  /\ AtGate(p, "write")
  /\ proc[p].made.todo = <<>>
  /\ IF TaskStateHolds(tree) /\ HandoverHolds(tree) THEN Goes(p, "changed") ELSE Fails(p)
  /\ UNCHANGED git

GateFiles(p) ==
  LET made == proc[p].made
      task == made.task
  IN  {"queue", "current", "remaining", "project", "handover", "checksum"}
        \cup (IF made.state # "none" THEN {"registry"} ELSE {})
        \cup (IF Kind(p) = "approve" THEN {"reports"} ELSE {})

\* every changed path is one of the gate's own, or of the displayed work
GateReadsChanged(p) ==
  LET changed == Modified \cup StagedNames
  IN  /\ AtGate(p, "changed")
      /\ IF changed # {} /\ changed \subseteq GateFiles(p) \cup proc[p].made.impl
         THEN /\ proc' = [proc EXCEPT ![p].pc = "add", ![p].made.changed =
                   IF Kind(p) = "approve" THEN GateFiles(p) \cup proc[p].made.impl ELSE changed]
              /\ UNCHANGED <<told, left>>
         ELSE Fails(p)
      /\ UNCHANGED git

GateStages(p) ==
  /\ AtGate(p, "add")
  /\ GitAdd(proc[p].made.changed)
  /\ Goes(p, IF Kind(p) = "approve" THEN "gateCommit" ELSE "countStaged")

\* authorize compares how many paths are staged with how many it reviewed
AuthorizeCountsStaged(p) ==
  /\ At(p, "authorize", "countStaged")
  /\ Goes(p, IF Cardinality(StagedNames) = Cardinality(proc[p].made.changed)
             THEN "gateCommit" ELSE "restore")
  /\ UNCHANGED git

GateCommits(p) ==
  /\ AtGate(p, "gateCommit")
  /\ \/ /\ StagedNames # {}
        /\ Len(commits) < MaxCommits
        /\ GitCommit(Kind(p))
        /\ Goes(p, "gateVerify")
     \/ StagedNames = {} /\ Goes(p, "restore") /\ UNCHANGED git

\* authorize looks at the commit it finds at HEAD; approve at branch, upstream
\* and stashes only
GateVerifies(p) ==
  LET new == commits[head]
      asPromised == /\ new.parent = proc[p].seen.head
                    /\ CommitChangeNames(new.parent, head) \subseteq GateFiles(p)
                    /\ IsClean(Porcelain)
  IN  /\ AtGate(p, "gateVerify")
      /\ IF Kind(p) = "approve" \/ asPromised
         THEN Answers(p, [task |-> proc[p].made.task])
         ELSE Refuses(p)
      /\ UNCHANGED git

\* the EXIT trap: the index goes back to HEAD for these paths; approve also
\* copies its documents back, over whatever they hold by now.  "cp -p" restores
\* the times; a document that was not rewritten, or only appended to, is the same
\* inode as before
GateRestores(p) ==
  LET made == proc[p].made
      Back(d) == Kind(p) = "approve" /\ d \in GateFiles(p)
  IN  /\ AtGate(p, "restore")
      /\ index' = [path \in Paths |-> IF path \in made.changed THEN commits[head].files[path] ELSE index[path]]
      /\ tree' = [path \in Paths |->
                    IF path \in Documents /\ Back(path) THEN made.backup.files[path] ELSE tree[path]]
      /\ writes' = writes + 1
      /\ stamps' = [d \in Documents |->
                      CASE ~Back(d) -> stamps[d]
                        [] Back(d) /\ d \in {"reports", "handover"} \cup Range(made.todo) -> made.backup.stamps[d]
                        [] OTHER -> writes']
      /\ UNCHANGED <<commits, head, tracking, remote>>
      /\ SeenClean
      /\ Refuses(p)
=============================================================================
