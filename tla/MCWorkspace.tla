---------------------------- MODULE MCWorkspace -----------------------------
(***************************************************************************)
(* Instances of Workspace: two invocations at a time, two paths of code of *)
(* which one is protected, the governance documents, and days that start   *)
(* with different work in hand.                                            *)
(***************************************************************************)
EXTENDS Workspace

MCDocuments == {"queue", "current", "remaining", "project", "registry", "reports", "handover",
                "checksum", "questions", "catalog"}
MCPaths == {"a", "b"} \cup MCDocuments

\* stage 1 is complete, stage 2 planned; candidate 11 needs stage 1, candidate 12
\* needs 11 and waits for a question, 13 is deferred
Needs(on, type, done) == [on |-> on, type |-> type, done |-> done]
Entry == [id |-> 11, form |-> "good", needs |-> {Needs(1, "stage", TRUE)}, asks |-> {}, deferred |-> FALSE]
Catalog == {Entry,
            [Entry EXCEPT !.id = 12, !.needs = {Needs(11, "capability", FALSE)}, !.asks = {7}],
            [Entry EXCEPT !.id = 13, !.needs = {}, !.deferred = TRUE]}
Question == [id |-> 7, open |-> TRUE, blocks |-> {3}]

Planning ==
  [d \in MCDocuments |->
     CASE d = "queue" -> <<"Done", "Planned">>
       [] d = "current" -> <<>>
       [] d = "remaining" -> [t \in {2} |-> "Planned"]
       [] d = "project" -> <<"Done">>
       [] d = "registry" -> <<"COMPLETE", "NOT_STARTED">>
       [] d = "reports" -> <<0>>
       [] d = "questions" -> {Question}
       [] d = "catalog" -> Catalog
       [] OTHER -> <<>>]

\* stage 2 is under way, and its report is written
UnderWay ==
  [Planning EXCEPT !["queue"] = <<"Done", "Current">>, !["current"] = [t \in {2} |-> "Current"],
                   !["remaining"] = [t \in {2} |-> "Current"], !["registry"] = <<"COMPLETE", "REVIEW">>,
                   !["reports"] = <<0, 0>>]

\* the same, but for the queue, which somebody has yet to move by hand
Behindhand == [UnderWay EXCEPT !["queue"] = <<"Done", "Planned">>]

\* what is posted to the dashboard: one body twice under different tokens, two
\* bodies under one token, and an approval of a commit that is to come
Post == [table |-> "stage_runs", token |-> "t1", target |-> 0, text |-> 1]
MCPosts == {Post, [Post EXCEPT !.text = 2],
            [Post EXCEPT !.table = "approvals", !.target = 2],
            [Post EXCEPT !.table = "findings", !.token = "t2"]}

\* people move stage 2 by hand, and edit the catalog
MCAmendments ==
  { [document |-> "queue", content |-> <<"Done", "Current">>],
    [document |-> "queue", content |-> <<"Done", "Planned">>],
    [document |-> "catalog", content |-> {[c EXCEPT !.needs = {Needs(12, "capability", FALSE)}] : c \in Catalog}] }

With(docs, a, b) ==
  [path \in Paths |-> CASE path = "a" -> a [] path = "b" -> b [] OTHER -> docs[path]]
Content(a, b) == With(Planning, a, b)

Root == <<[parent |-> 0, files |-> Content(0, 0), message |-> "theirs"]>>
Busy == <<[parent |-> 0, files |-> With(UnderWay, 0, 0), message |-> "theirs"]>>
Late == <<[parent |-> 0, files |-> With(Behindhand, 0, 0), message |-> "theirs"]>>
Local == Append(Root, [parent |-> 1, files |-> Content(1, 0), message |-> "theirs"])

Limits == [prompt |-> 0, run |-> 0, record |-> 0, commit |-> 0, push |-> 0, apply |-> 0,
           edit |-> 0, stage |-> 0, theirCommit |-> 0, fetch |-> 0, others |-> 0, engine |-> 0,
           authorize |-> 0, approve |-> 0, propose |-> 0, amend |-> 0,
           post |-> 0, generate |-> 0, server |-> 0]

Fresh == [commits |-> Root, remote |-> 1, tree |-> Content(0, 0), prompts |-> {}, runs |-> {},
          history |-> <<>>, engine |-> "v1", left |-> Limits]

PlanPrompt == [stage |-> "plan-review", allowed |-> {}, bundled |-> FALSE, head |-> 1, engine |-> "v1"]
WorkPrompt == [PlanPrompt EXCEPT !.stage = "implementation", !.allowed = {"a"}]

PlanRun == [prompt |-> PlanPrompt, engine |-> "v1", code |-> "none", files |-> Content(0, 0),
            verdict |-> "APPROVED", passed |-> TRUE]
WorkRun == [prompt |-> WorkPrompt, engine |-> "v1", code |-> "none", files |-> Content(1, 0),
            verdict |-> "none", passed |-> TRUE]

\* the agent wrote outside its scope, and into a protected path
StrayRun == [WorkRun EXCEPT !.files = Content(1, 1), !.passed = FALSE]

\* a history with these stages and outcomes, recorded by hand
RECURSIVE ByHand(_)
ByHand(steps) ==
  IF steps = <<>> THEN <<>>
  ELSE LET before == ByHand(SubSeq(steps, 1, Len(steps) - 1))
           last == steps[Len(steps)]
       IN  Append(before,
             [sequence |-> Len(steps),
              parent |-> IF before = <<>> THEN <<>> ELSE <<before[Len(before)]>>,
              stage |-> last[1], outcome |-> last[2], run |-> Nothing, note |-> "", head |-> 1])

Planned == <<<<"plan-review", "APPROVED">>>>
Reviewed == Planned \o <<<<"implementation", "completed">>, <<"implementation-review", "REJECTED">>>>
Closing == Reviewed \o <<<<"remediation", "completed">>, <<"implementation-review", "APPROVED">>,
                       <<"governance-closeout", "completed">>>>

MCBeginnings ==
  { \* a prompt and its run, the target and the engine edited meanwhile
    [Fresh EXCEPT !.left = [Limits EXCEPT !.prompt = 1, !.run = 1, !.edit = 2, !.theirCommit = 2]],
    [Fresh EXCEPT !.prompts = {PlanPrompt},
                  !.left = [Limits EXCEPT !.run = 1, !.record = 1, !.edit = 1, !.engine = 2]],
    \* recorders of one task
    [Fresh EXCEPT !.prompts = {PlanPrompt}, !.runs = {PlanRun},
                  !.left = [Limits EXCEPT !.record = 3, !.edit = 1, !.theirCommit = 1]],
    [Fresh EXCEPT !.history = ByHand(Reviewed), !.left = [Limits EXCEPT !.record = 3]],
    [Fresh EXCEPT !.history = ByHand(Closing), !.left = [Limits EXCEPT !.record = 4]],
    \* gates
    [Fresh EXCEPT !.tree = Content(1, 0),
                  !.left = [Limits EXCEPT !.commit = 3, !.edit = 2, !.stage = 1, !.theirCommit = 1]],
    [Fresh EXCEPT !.commits = Local,
                  !.left = [Limits EXCEPT !.push = 2, !.edit = 1, !.theirCommit = 1, !.others = 1, !.fetch = 1]],
    [Fresh EXCEPT !.prompts = {WorkPrompt}, !.runs = {WorkRun, StrayRun},
                  !.left = [Limits EXCEPT !.apply = 2, !.commit = 1, !.edit = 2, !.theirCommit = 1]],
    \* the owner's gates
    [Fresh EXCEPT !.left = [Limits EXCEPT !.authorize = 1, !.amend = 1, !.theirCommit = 1]],
    [Fresh EXCEPT !.commits = Busy, !.tree = With(UnderWay, 1, 0),
                  !.left = [Limits EXCEPT !.authorize = 1, !.approve = 2, !.amend = 1, !.edit = 1]],
    \* proposals, while gates and people write
    [Fresh EXCEPT !.left = [Limits EXCEPT !.authorize = 1, !.propose = 1]],
    [Fresh EXCEPT !.commits = Busy, !.tree = With(UnderWay, 1, 0),
                  !.left = [Limits EXCEPT !.approve = 1, !.propose = 1]],
    [Fresh EXCEPT !.left = [Limits EXCEPT !.propose = 1, !.amend = 2]],
    [Fresh EXCEPT !.left = [Limits EXCEPT !.propose = 2]],
    \* requests to the dashboard
    [Fresh EXCEPT !.tree = Content(1, 0),
                  !.left = [Limits EXCEPT !.server = 2, !.post = 3, !.theirCommit = 1]],
    [Fresh EXCEPT !.commits = Late, !.tree = With(Behindhand, 0, 0),
                  !.left = [Limits EXCEPT !.server = 1, !.generate = 2, !.amend = 3, !.theirCommit = 1, !.edit = 1]],
    [Fresh EXCEPT !.left = [Limits EXCEPT !.server = 1, !.generate = 1, !.authorize = 1, !.amend = 1]] }

\* the invocations are alike
Alike == Permutations(Procs)
=============================================================================
