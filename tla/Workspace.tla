----------------------------- MODULE Workspace ------------------------------
(***************************************************************************)
(* One target repository, the stores of its project, and every command of  *)
(* the engine's ordinary command line that changes any of them, run by     *)
(* several operators at once while people work in the same repository and  *)
(* the dashboard's server answers requests about it.                       *)
(***************************************************************************)
EXTENDS CommitGates, OwnerGates, Dashboard

CONSTANT Beginnings   \* the states a day of work may start from

\* bound: who acts a limited number of times a day
Limited ==
  {"prompt", "run", "record", "commit", "push", "apply", "authorize", "approve", "propose", "post",
   "generate", "server", "edit", "amend", "stage", "theirCommit", "fetch", "others", "engine"}

\* a day starts in a repository, and with stores and event files, that have come
\* about through the commands below, or by hand to the same rules
ASSUME BeginningsAssumption ==
  \A b \in Beginnings :
    /\ \E n \in 1..MaxCommits : b.commits = [c \in 1..n |-> b.commits[c]]
    /\ \A c \in DOMAIN b.commits :
         /\ b.commits[c].parent \in 0..(c - 1)
         /\ b.commits[c].files = [path \in Paths |-> b.commits[c].files[path]]
    /\ b.remote \in DOMAIN b.commits
    /\ b.tree = [path \in Paths |-> b.tree[path]]
    /\ \A prompt \in b.prompts : prompt.head \in DOMAIN b.commits /\ prompt.allowed \subseteq Code
    /\ \A run \in b.runs :
         /\ run.prompt \in b.prompts
         /\ run.files = [path \in Paths |-> run.files[path]]
         /\ run.passed =>
              /\ run.code = "none"
              /\ DiffNames(b.commits[run.prompt.head].files, run.files)
                   \subseteq run.prompt.allowed \ Protected
    /\ \E n \in 0..MaxHistory : b.history = [i \in 1..n |-> b.history[i]]
    /\ HistoryIsWhole(b.history)
    /\ \A i \in DOMAIN b.history :
         LET event == b.history[i]
         IN  /\ event.stage \in Stages
             /\ event.outcome \in Outcomes /\ OutcomeFits(event.stage, event.outcome)
             /\ event.run # Nothing =>
                  /\ event.run \in b.runs /\ event.run.passed
                  /\ event.run.prompt.stage = event.stage
                  /\ event.outcome \in Verdicts => event.run.verdict = event.outcome
    /\ b.left \in [Limited -> Nat]

vars == <<git, cmds, stores, files, proposals, dashboard>>

Init ==
  /\ \E b \in Beginnings :
       /\ commits = b.commits
       /\ head = Len(b.commits) /\ tracking = b.remote /\ remote = b.remote
       /\ tree = b.tree
       /\ index = b.commits[Len(b.commits)].files
       /\ cleanAt = 1..Len(b.commits)
       /\ stamps = [d \in Documents |-> 0] /\ writes = 0
       /\ metadata = b.prompts /\ markdown = b.prompts
       /\ records = b.runs /\ patches = b.runs
       /\ files = b.history
       /\ left = b.left
       /\ engine = b.engine
  /\ proc = [p \in Procs |-> Idle]
  /\ told = {}
  /\ artifacts = {}
  /\ moments = [p \in Procs |-> {}] /\ rewound = {}
  /\ rows = {} /\ audit = <<>> /\ mirror = <<>>
  /\ server = Down

Prompting(p) ==
  \/ StartsPrompt(p) \/ PromptReadsStatus(p) \/ PromptReadsStatusAgain(p)
  \/ PromptLinksMetadata(p) \/ PromptLinksMarkdown(p)

Running(p) ==
  \/ StartsRun(p) \/ RunReadsStatus(p) \/ RunResolvesEngine(p) \/ AgentEnds(p)
  \/ RunReadsStatusAgain(p) \/ RunLinksRecord(p) \/ RunLinksPatch(p)

Recording(p) ==
  StartsRecord(p) \/ RecordReadsHead(p) \/ AppendsEvent(p) \/ RecordAnswers(p)

Committing(p) ==
  \/ StartsCommit(p) \/ CommitReadsStatus(p) \/ CommitStages(p) \/ CommitChecksStaged(p)
  \/ CommitUnstages(p) \/ CommitCommits(p) \/ CommitVerifies(p)

Pushing(p) == StartsPush(p) \/ PushReadsStatus(p) \/ PushCounts(p) \/ PushPushes(p)

Applying(p) ==
  \/ StartsApply(p) \/ ApplyReadsHead(p) \/ ApplyReadsStatus(p) \/ ApplyChecks(p)
  \/ ApplyApplies(p) \/ ApplyAnswers(p)

Gating(p) ==
  \/ StartsAuthorize(p) \/ AuthorizeReadsHead(p) \/ AuthorizeReads(p) \/ AuthorizeValidates(p)
  \/ StartsApprove(p) \/ ApproveReads(p) \/ ApproveCopies(p)
  \/ GateWrites(p) \/ GateValidates(p) \/ GateReadsChanged(p) \/ GateStages(p)
  \/ AuthorizeCountsStaged(p) \/ GateCommits(p) \/ GateVerifies(p) \/ GateRestores(p)

Proposing(p) ==
  \/ StartsPropose(p) \/ ProposeReadsStatus(p) \/ ProposeCaptures(p) \/ ProposeReadsEvidence(p)
  \/ ProposeResolves(p) \/ ProposeChecks(p) \/ ProposeReconciles(p) \/ ProposeReadsCatalog(p)
  \/ ProposeReadsStatusAgain(p) \/ ProposeCapturesAgain(p) \/ ProposeCompares(p)
  \/ ProposeEndsDry(p) \/ ProposeLooks(p) \/ ProposeLooksAgain(p) \/ ProposeRenames(p)
  \/ ProposeReconcilesExisting(p) \/ ProposeVerifies(p)

Posting(p) ==
  \/ StartsPost(p) \/ PostCreates(p) \/ PostReplays(p) \/ PostRefuses(p) \/ PostAppends(p)
  \/ PostTears(p) \/ PostFails(p) \/ PostCommits(p) \/ PostAnswers(p)

Generating(p) ==
  \/ StartsGenerate(p) \/ GenerateLooks(p) \/ GenerateReads(p) \/ GenerateSummarizes(p)
  \/ GenerateStores(p)

Serving == ServerStarts \/ ServerStops \/ \E p \in Procs : Posting(p) \/ Generating(p)

\* a request ends with the server, not by itself
Statuses(p) ==
  /\ ReadsHead(p) \/ ReadsHeadAgain(p) \/ (Kind(p) \notin Requests /\ Dies(p))
  /\ UNCHANGED <<git, stores, files>>

People ==
  \/ Spend("edit") /\ PersonEdits /\ UNCHANGED stores
  \/ Spend("amend") /\ PersonAmends /\ UNCHANGED stores
  \/ Spend("stage") /\ PersonStages /\ UNCHANGED stores
  \/ Spend("theirCommit") /\ PersonCommits /\ UNCHANGED stores
  \/ Spend("fetch") /\ PersonFetches /\ UNCHANGED stores
  \/ Spend("others") /\ OthersPush /\ UNCHANGED stores
  \/ Spend("engine") /\ EngineChanges /\ UNCHANGED git

Steps ==
  \/ \E p \in Procs :
       \/ Prompting(p) /\ UNCHANGED files
       \/ Running(p) /\ UNCHANGED files
       \/ Recording(p)
       \/ Committing(p)
       \/ Pushing(p)
       \/ Applying(p)
       \/ Statuses(p)
       \/ Gating(p) /\ UNCHANGED <<stores, files>>
  \/ People /\ UNCHANGED <<proc, told, files>>

Next ==
  \/ Steps /\ UNCHANGED <<artifacts, dashboard>> /\ Remembered
  \/ (\E p \in Procs : Proposing(p)) /\ UNCHANGED <<stores, files, dashboard>> /\ Remembered
  \/ Serving /\ UNCHANGED <<git, stores, files, artifacts>> /\ Remembered
  \/ (\A p \in Procs : proc[p] = Idle) /\ UNCHANGED vars

Spec == Init /\ [][Next]_vars

-----------------------------------------------------------------------------
(* The evidence                                                            *)

\* What a prompt or a passed run says of the repository was so: there was a
\* moment at which the HEAD it names was HEAD and nothing was uncommitted.
\* The status it rests on is read in two pieces, and people commit between
\* them; only the second reading, at the end, makes the first one true.
EvidenceIsOfACleanHead ==
  /\ \A prompt \in metadata : prompt.bundled => prompt.head \in cleanAt
  /\ \A run \in records : run.passed => run.prompt.head \in cleanAt

\* An event that cites an agent run rests on a run that is completely stored,
\* passed, was of the same stage and returned the same verdict, from a prompt
\* that is completely stored; and what such a run changed lies inside its
\* prompt's allowed paths and outside the protected ones.  Savers of runs and
\* prompts are killed between their two files.
EventsRestOnRuns ==
  \A n \in DOMAIN files :
    LET event == files[n]
        run == event.run
    IN  run # Nothing =>
          /\ run \in records \cap patches
          /\ run.prompt \in metadata \cap markdown
          /\ run.code = "none" /\ run.passed
          /\ run.prompt.stage = event.stage
          /\ event.outcome \in Verdicts => run.verdict = event.outcome
          /\ Changed(run) \subseteq run.prompt.allowed \ Protected

\* The persisted workflow keeps what HistoryPromise says of it, however many
\* recorders meet at one number and wherever they are killed.
Promise ==
  INSTANCE HistoryPromise WITH
    log <- files,
    acknowledged <- {t.made.event : t \in {u \in told : u.ask.kind = "record"}}
KeepsHistory == Promise!Spec

-----------------------------------------------------------------------------
(* The gates                                                               *)

\* A PASS is the truth.  A commit the commit gate reported has the approved
\* parent, the approved message and changes exactly the approved paths, none
\* of them protected, and is in the branch; two approvals never claim one
\* commit, and one approval never yields two.  The HEAD a push was approved
\* for is on the remote.  The proposal that was published is in the store.
PassesAreTrue ==
  /\ \A t \in {u \in told : u.ask.kind = "commit"} :
       LET made == t.made.commit
       IN  /\ made \in Ancestors(head)
           /\ commits[made].parent = t.ask.head
           /\ commits[made].message = t.ask.message
           /\ CommitChangeNames(t.ask.head, made) = t.ask.allowed
           /\ t.ask.allowed \cap Protected = {}
           /\ \A u \in told :
                (u.ask.kind = "commit" /\ (u.ask = t.ask \/ u.made = t.made)) => u = t
  /\ \A t \in {u \in told : u.ask.kind = "push"} : t.ask.head \in Ancestors(remote)
  /\ \A t \in {u \in told : u.ask.kind = "propose" /\ u.made.published} : Stored(t.made.payload) # {}

\* What propose-successor is about to publish is so: but for a refusal that
\* says that something moved, there was a moment during the command at which
\* HEAD was the HEAD it names, the documents were the ones it cites, the
\* predecessor was complete and the rules concluded what it says - however
\* people and gates wrote the documents while it read them, three times, one
\* after the other.  Not so when a document got an earlier time back meanwhile:
\* approve restores its copies with cp -p, after which both snapshots agree
\* although the checks between them read something else.
ProposalsAreTrue ==
  \A p \in {q \in Procs \ rewound : At(q, "propose", "publish")} :
    LET payload == Payload(p)
    IN  payload.result \notin {Refusal("INPUT_DRIFT"), Refusal("DIRTY_BASELINE")} =>
          \E m \in moments[p] :
            /\ m.head = payload.identity.head.head
            /\ m.docs = payload.evidence
            /\ PredecessorConfirmed(m.docs, payload.predecessor)
            /\ payload.result = Conclusion(m.docs)

\* A prompt is about to be handed out for a stage only if the stage had earned
\* it: there was a moment during the request at which the tree was clean and
\* every precondition held at once.  The documents are read one after another
\* while people and gates write and commit them; the second evaluation makes
\* up for that as long as people amended the record at most twice meanwhile (a
\* third amendment can deceive both).
PromptsAreEarned ==
  \A p \in {q \in Procs : At(q, "generate", "store")} :
    LET ask == proc[p].ask
    IN  ask.amends - left["amend"] <= 2 =>
          \E m \in moments[p] : AllPassed(ask.stage, m.docs, m.clean)

\* The store of the dashboard and its append-only mirror tell one story,
\* wherever posts fail, tear a line or die with the server, and however often
\* clients repeat them: no committed event is missing from the mirror or in it
\* twice, the mirror has them in the order of the store, every row has the
\* events of its creation - an approval of a commit this clone does not know
\* also its finding - and every event its row; a token stands for one row, and
\* what a client was told is in the store as it was posted.
MutationsAreMirrored ==
  LET Lines(event) == {n \in DOMAIN mirror : mirror[n].event = event /\ mirror[n].state # "fragment"}
      created == {r \in rows : r.body.token # "none"}
  IN  /\ Missing = {} /\ Duplicated = {}
      /\ \A m, n \in DOMAIN audit :
           m < n => \A i \in Lines(audit[m]), j \in Lines(audit[n]) : i < j
      /\ Expected = UNION {Range(NewEvents(r)) : r \in created}
      /\ rows = UNION {NewRows(r) : r \in created}
      /\ \A r, s \in created : (r.table = s.table /\ r.body.token = s.body.token) => r = s
      /\ \A t \in {u \in told : u.ask.kind = "post"} :
           t.made.row \in rows /\ t.made.row.body = t.ask.body /\ t.made.row.about = t.ask.about

\* What the commit of a gate is to be, and that it is.
TaskMoves(kind, task, before, after) ==
  /\ RecordAgrees(after) /\ DashboardAgrees(after) /\ ~HandoverIsStale(stamps)
  /\ after["queue"][task] = IF kind = "authorize" THEN "Current" ELSE "Done"
  /\ BoardOffers(before["queue"], task) = {after["queue"][task]}
  /\ \A t \in DOMAIN before["queue"] \ {task} : after["queue"][t] = before["queue"][t]

CommitAgrees(p) ==
  LET made == proc[p].made
  IN  (AtGate(p, "gateCommit") /\ proc[p].pc' = "gateVerify"
         /\ made.amends = left["amend"] /\ RecordAgrees(made.before)) =>
        TaskMoves(Kind(p), made.task, made.before, commits'[head'].files)

\* A gate that found the record in agreement commits a record in agreement in
\* which its own task has moved and no other has, when nobody else has amended
\* the record since: through seven or eight documents written one at a time,
\* with the work of others, kills and restored copies around it.  The dashboard
\* has its own idea of all of this and shares it: its board offered the move,
\* its checks find no error in what was committed, and the handover is not
\* older than what it summarizes.
RecordsAgree == [][\A p \in Procs : CommitAgrees(p)]_vars

\* What the write of a run's patch is to be.
WritesOnlyVerified(run) ==
  LET wrote == DiffNames(tree, tree')
  IN  /\ wrote # {} /\ wrote = Changed(run)
      /\ wrote \subseteq run.prompt.allowed \ Protected
      /\ \A path \in wrote : tree[path] = BaseFiles(run)[path] /\ tree'[path] = run.files[path]
      /\ UNCHANGED <<index, head, commits>>

\* apply-patch writes what was verified and nothing else: the paths it changes
\* were in its run's scope and not protected, held what the agent started
\* from, hold what the agent left, and no other path, nor the index, moves -
\* with people editing between the gate's checks and its write.
AppliesWhatWasVerified ==
  [][\A p \in Procs :
       (At(p, "apply", "apply") /\ At(p, "apply", "applied")') => WritesOnlyVerified(proc[p].ask.run)]_vars
=============================================================================
