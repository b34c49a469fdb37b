--------------------------- MODULE WorkspaceProofs ---------------------------
(***************************************************************************)
(* Theorems about Workspace, for any paths, processes, stages, prompts,    *)
(* amendments, posts and limits, and for any beginning that came about     *)
(* through the commands or by hand to the same rules.                      *)
(*                                                                         *)
(* The invariant says what the repository is (its commits stay, HEAD only  *)
(* goes on), what the stores hold (a run's two files and its prompt's, and *)
(* the clean HEAD and the scope that a PASS claims), and what each of the  *)
(* commands that write or use evidence knows at each of its program        *)
(* points.  The status such a command reads comes in two pieces; the HEADs *)
(* it read before and after enclose a clean one, and they are equal.       *)
(* What the gates report is about lines of commits: every commit comes     *)
(* after its parent, so ancestors are well-founded, a commit that is there *)
(* keeps its own, and two commits of one branch never share a parent.      *)
(* What the persisted workflow promises rests on what its recorders hold:  *)
(* a first part of the history, and an event that continues that part.     *)
(* What propose-successor publishes rests on the times of the documents: a *)
(* document that has the time it was captured with was not written since,  *)
(* so while no time goes back its checks, its evidence and its catalog are *)
(* of what it cites, or the second snapshot differs from the first.        *)
(* What the dashboard keeps rests on one request at a time, and on the     *)
(* count of the requests, which orders their events: a request tells of    *)
(* its own row, an event is in the mirror before the row is committed, and *)
(* what the mirror holds beyond the log is of the request under way.       *)
(* What a gate commits of the record rests on the amendments that were     *)
(* left when it read it: while they are as many, the documents are what it *)
(* found until their turn to be written, and what it has written after.    *)
(***************************************************************************)
EXTENDS Workspace, FiniteSetTheorems, SequenceTheorems, WellFoundedInduction, TLAPS

----------------------------------------
(* The repository *)

IsClone(f) == f = [path \in Paths |-> f[path]]

Numbered(s) == Len(s) \in Nat /\ s = [n \in 1..Len(s) |-> s[n]]

RepositorySound ==
  /\ Numbered(commits)
  /\ \A c \in 1..Len(commits) : IsClone(commits[c].files)
  /\ head \in 1..Len(commits) /\ remote \in 1..Len(commits)
  /\ IsClone(tree) /\ IsClone(index)
  /\ cleanAt \subseteq 1..Len(commits)
  /\ IsClean(Porcelain) => head \in cleanAt

\* Commits stay, HEAD advances.
Advances ==
  /\ \A c \in 1..Len(commits) : c \in 1..Len(commits') /\ commits'[c] = commits[c]
  /\ head <= head'
  /\ cleanAt \subseteq cleanAt'

\* The kinds of steps the repository takes: a new work tree or index, a commit on
\* HEAD, a push, and a commit of someone else's.
Redraws ==
  /\ UNCHANGED <<commits, head, remote>>
  /\ IsClone(tree') /\ IsClone(index')
  /\ SeenClean

CommitsOne ==
  /\ \E c : commits' = Append(commits, c) /\ c.parent = head /\ IsClone(c.files)
  /\ head' = Len(commits) + 1
  /\ UNCHANGED remote
  /\ IsClone(tree') /\ IsClone(index')
  /\ SeenClean

Publishes ==
  /\ remote' = head /\ remote \in Ancestors(head)
  /\ UNCHANGED <<commits, head, tree, index, cleanAt>>

OthersCommit ==
  /\ \E c : commits' = Append(commits, c) /\ c.parent = remote /\ IsClone(c.files)
  /\ remote' = Len(commits) + 1
  /\ UNCHANGED <<head, tree, index, cleanAt>>

RepositoryMoves ==
  \/ UNCHANGED <<commits, head, remote, tree, index, cleanAt>>
  \/ Redraws
  \/ CommitsOne
  \/ Publishes
  \/ OthersCommit

\* A sequence is a function on an initial segment of the numbers.
LEMMA NumberedIsSeq ==
  ASSUME NEW s, Numbered(s)
  PROVE  s \in Seq({s[n] : n \in 1..Len(s)}) /\ DOMAIN s = 1..Len(s)
<1> DEFINE S == {s[n] : n \in 1..Len(s)}
<1>1. DOMAIN s = 1..Len(s)  BY DEF Numbered
<1>2. s \in [1..Len(s) -> S]  BY DEF Numbered
<1> QED  BY <1>1, <1>2, SeqDef DEF Numbered

\* The converse: a finite sequence is numbered.
LEMMA SeqIsNumbered ==
  ASSUME NEW s, NEW n \in Nat, s = [i \in 1..n |-> s[i]]
  PROVE  Numbered(s) /\ Len(s) = n
<1> DEFINE S == {s[i] : i \in 1..n}
<1>1. s \in [1..n -> S]  OBVIOUS
<1>2. s \in Seq(S)  BY <1>1, SeqDef
<1>3. Len(s) \in Nat /\ DOMAIN s = 1..Len(s)  BY <1>2, LenProperties
<1>4. DOMAIN s = 1..n  BY <1>1
<1>5. Len(s) = n
  <2> HIDE DEF S
  <2> QED  BY <1>3, <1>4
<1> QED  BY <1>3, <1>5 DEF Numbered

\* Appending keeps a sequence numbered and puts the new element last.
LEMMA NumberedAppend ==
  ASSUME NEW s, NEW e, Numbered(s)
  PROVE  /\ Numbered(Append(s, e)) /\ Len(Append(s, e)) = Len(s) + 1
         /\ \A n \in 1..Len(s) : Append(s, e)[n] = s[n]
         /\ Append(s, e)[Len(s) + 1] = e
<1> DEFINE S == {s[n] : n \in 1..Len(s)} \cup {e}
           t == Append(s, e)
<1>1. DOMAIN s = 1..Len(s) /\ Len(s) \in Nat  BY DEF Numbered
<1>2. s \in [1..Len(s) -> S]  BY DEF Numbered
<1>3. s \in Seq(S)  BY <1>1, <1>2, SeqDef
<1>4. e \in S  OBVIOUS
<1>5. /\ t \in Seq(S) /\ Len(t) = Len(s) + 1
      /\ \A n \in 1..Len(s) : t[n] = s[n]
      /\ t[Len(s) + 1] = e
  <2> HIDE DEF S
  <2> QED  BY <1>3, <1>4, AppendProperties
<1>6. t \in [1..Len(t) -> S] /\ Len(t) \in Nat
  <2> HIDE DEF S, t
  <2> QED  BY <1>5, LenProperties, <1>3
<1>7. t = [n \in 1..Len(t) |-> t[n]]
  <2> HIDE DEF S, t
  <2> QED  BY <1>6
<1> HIDE DEF t, S
<1>8. Numbered(t)  BY <1>6, <1>7 DEF Numbered
<1>9. QED  BY <1>5, <1>8 DEF t

\* Two clones that differ nowhere are equal.
LEMMA DifferNowhere ==
  ASSUME NEW f, NEW g, IsClone(f), IsClone(g)
  PROVE  DiffNames(f, g) = {} <=> f = g
<1>1. ASSUME DiffNames(f, g) = {} PROVE f = g
  <2>1. \A path \in Paths : f[path] = g[path]  BY <1>1 DEF DiffNames
  <2> QED  BY <2>1 DEF IsClone
<1>2. ASSUME f = g PROVE DiffNames(f, g) = {}  BY <1>2 DEF DiffNames
<1> QED  BY <1>1, <1>2

\* A step after which a clean HEAD has been noted.
LEMMA NotedClean ==
  ASSUME SeenClean, IsClone(tree'), IsClone(index'), IsClone(commits'[head'].files)
  PROVE  IsClean(Porcelain)' => head' \in cleanAt'
<1>1. IsClean(Porcelain)' => tree' = index' /\ index' = commits'[head'].files
  <2>1. Porcelain'.modified = DiffNames(tree', index')
        /\ Porcelain'.staged = DiffNames(index', commits'[head'].files)
    BY DEF Porcelain, Modified, StagedNames, DiffNames
  <2> QED  BY <2>1, DifferNowhere DEF IsClean
<1> QED  BY <1>1 DEF SeenClean

\* The same, seen clean by a command.
LEMMA CleanIsNoted ==
  ASSUME RepositorySound, IsClean(Porcelain)
  PROVE  head \in cleanAt
BY DEF RepositorySound

\* Whatever the repository does, it stays sound, commits stay and HEAD advances.
LEMMA RepositoryAdvances ==
  ASSUME RepositorySound, RepositoryMoves
  PROVE  RepositorySound' /\ Advances
<1>1. CASE UNCHANGED <<commits, head, remote, tree, index, cleanAt>>
  <2>1. Porcelain' = Porcelain  BY <1>1 DEF Porcelain, Modified, StagedNames, DiffNames
  <2>2. IsClean(Porcelain)' <=> IsClean(Porcelain)  BY <2>1 DEF IsClean
  <2> QED  BY <1>1, <2>2 DEF RepositorySound, Advances, Numbered, IsClone
<1>2. CASE Redraws
  <2>1. IsClone(commits'[head'].files)  BY <1>2 DEF RepositorySound, Redraws
  <2>2. IsClean(Porcelain)' => head' \in cleanAt'  BY <1>2, <2>1, NotedClean DEF Redraws
  <2>3. cleanAt' \subseteq 1..Len(commits) /\ cleanAt \subseteq cleanAt'
    BY <1>2 DEF RepositorySound, Redraws, SeenClean
  <2> QED  BY <1>2, <2>2, <2>3 DEF RepositorySound, Redraws, Advances, Numbered, IsClone
<1>3. CASE CommitsOne
  <2>1. PICK c : commits' = Append(commits, c) /\ c.parent = head /\ IsClone(c.files)
    BY <1>3 DEF CommitsOne
  <2>2. /\ Numbered(commits') /\ Len(commits') = Len(commits) + 1
        /\ \A n \in 1..Len(commits) : commits'[n] = commits[n]
        /\ commits'[Len(commits) + 1] = c  BY <2>1, NumberedAppend DEF RepositorySound
  <2>3. Len(commits) \in Nat  BY DEF RepositorySound, Numbered
  <2>4. \A n \in 1..Len(commits') : IsClone(commits'[n].files)
    BY <2>1, <2>2, <2>3 DEF RepositorySound
  <2>5. head' = Len(commits') /\ head' \in 1..Len(commits') /\ head < head' /\ remote' \in 1..Len(commits')
    BY <1>3, <2>2, <2>3 DEF CommitsOne, RepositorySound
  <2>6. IsClean(Porcelain)' => head' \in cleanAt'  BY <1>3, <2>4, <2>5, NotedClean DEF CommitsOne
  <2>a. cleanAt' \subseteq cleanAt \cup {head'} /\ cleanAt \subseteq cleanAt'
    BY <1>3 DEF CommitsOne, SeenClean
  <2>b. cleanAt \subseteq 1..Len(commits)  BY DEF RepositorySound
  <2>7. cleanAt' \subseteq 1..Len(commits') /\ cleanAt \subseteq cleanAt'
    BY <2>a, <2>b, <2>2, <2>3, <2>5
  <2>8. IsClone(tree') /\ IsClone(index')  BY <1>3 DEF CommitsOne
  <2>9. RepositorySound'
    BY <2>2, <2>4, <2>5, <2>6, <2>7, <2>8 DEF RepositorySound, IsClone, Numbered
  <2> QED  BY <2>2, <2>3, <2>5, <2>7, <2>9 DEF Advances, RepositorySound
<1>4. CASE Publishes
  <2>1. Porcelain' = Porcelain  BY <1>4 DEF Porcelain, Modified, StagedNames, DiffNames, Publishes
  <2>2. IsClean(Porcelain)' <=> IsClean(Porcelain)  BY <2>1 DEF IsClean
  <2> QED  BY <1>4, <2>2 DEF RepositorySound, Advances, Numbered, IsClone, Publishes
<1>5. CASE OthersCommit
  <2>1. PICK c : commits' = Append(commits, c) /\ c.parent = remote /\ IsClone(c.files)
    BY <1>5 DEF OthersCommit
  <2>2. /\ Numbered(commits') /\ Len(commits') = Len(commits) + 1
        /\ \A n \in 1..Len(commits) : commits'[n] = commits[n]
        /\ commits'[Len(commits) + 1] = c  BY <2>1, NumberedAppend DEF RepositorySound
  <2>3. Len(commits) \in Nat  BY DEF RepositorySound, Numbered
  <2>4. \A n \in 1..Len(commits') : IsClone(commits'[n].files)
    BY <2>1, <2>2, <2>3 DEF RepositorySound
  <2>5. head' = head /\ head' \in 1..Len(commits') /\ remote' \in 1..Len(commits')
    BY <1>5, <2>2, <2>3 DEF OthersCommit, RepositorySound
  <2>6. commits'[head'] = commits[head]  BY <2>2, <2>5 DEF RepositorySound
  <2>7. Porcelain' = Porcelain
    BY <1>5, <2>6 DEF Porcelain, Modified, StagedNames, DiffNames, OthersCommit
  <2>8. IsClean(Porcelain)' <=> IsClean(Porcelain)  BY <2>7 DEF IsClean
  <2>9. /\ cleanAt' = cleanAt /\ cleanAt' \subseteq 1..Len(commits')
        /\ IsClone(tree') /\ IsClone(index')  BY <1>5, <2>2, <2>3 DEF OthersCommit, RepositorySound
  <2>10. RepositorySound'  BY <2>2, <2>4, <2>5, <2>8, <2>9 DEF RepositorySound, IsClone, Numbered
  <2> QED  BY <2>2, <2>3, <2>5, <2>9, <2>10 DEF Advances, RepositorySound
<1> QED  BY <1>1, <1>2, <1>3, <1>4, <1>5 DEF RepositoryMoves

----------------------------------------
(* What each step does to the repository *)

\* The operations of Git.
LEMMA OperationsMove ==
  ASSUME RepositorySound
  PROVE  /\ \A ps : GitAdd(ps) => Redraws
         /\ \A ps : GitRestoreStaged(ps) => Redraws
         /\ \A message : GitCommit(message) => CommitsOne
         /\ GitPush => Publishes
         /\ \A from, to : GitApply(from, to) => Redraws
         /\ \A document, content : WritesDocument(document, content) => Redraws
<1>1. \A ps : GitAdd(ps) => Redraws
  <2> SUFFICES ASSUME NEW ps, GitAdd(ps) PROVE Redraws  OBVIOUS
  <2>1. IsClone(index')  BY DEF GitAdd, IsClone
  <2> QED  BY <2>1 DEF RepositorySound, GitAdd, Redraws, IsClone, disk
<1>2. \A ps : GitRestoreStaged(ps) => Redraws
  BY DEF RepositorySound, GitRestoreStaged, Redraws, IsClone, disk
<1>3. \A message : GitCommit(message) => CommitsOne
  <2> SUFFICES ASSUME NEW message, GitCommit(message) PROVE CommitsOne  OBVIOUS
  <2> DEFINE new == [parent |-> head, files |-> index, message |-> message]
  <2>1. commits' = Append(commits, new)  BY DEF GitCommit
  <2>2. new.parent = head /\ IsClone(new.files)  BY DEF RepositorySound, IsClone
  <2> HIDE DEF new
  <2> QED  BY <2>1, <2>2 DEF RepositorySound, GitCommit, CommitsOne, IsClone, disk
<1>4. GitPush => Publishes  BY DEF GitPush, Publishes, disk
<1>5. \A from, to : GitApply(from, to) => Redraws
  BY DEF RepositorySound, GitApply, Redraws, IsClone
<1>6. \A document, content : WritesDocument(document, content) => Redraws
  BY DEF RepositorySound, WritesDocument, Redraws, IsClone
<1> QED  BY <1>1, <1>2, <1>3, <1>4, <1>5, <1>6

\* People.
LEMMA PeopleMove ==
  ASSUME RepositorySound, People
  PROVE  RepositoryMoves
<1>1. CASE PersonEdits  BY <1>1 DEF PersonEdits, RepositorySound, RepositoryMoves, Redraws, IsClone
<1>2. CASE PersonAmends  BY <1>2, OperationsMove DEF PersonAmends, RepositoryMoves
<1>3. CASE PersonStages  BY <1>3, OperationsMove DEF PersonStages, RepositoryMoves
<1>4. CASE PersonCommits
  <2>1. PICK ps \in SUBSET Modified :
          LET files_ == [path \in Paths |-> IF path \in ps THEN tree[path] ELSE index[path]]
          IN  /\ commits' = Append(commits, [parent |-> head, files |-> files_, message |-> "theirs"])
              /\ head' = Len(commits) + 1 /\ index' = files_
              /\ UNCHANGED <<tracking, remote, disk>> /\ SeenClean  BY <1>4 DEF PersonCommits
  <2> DEFINE theirs == [parent |-> head, files |-> index', message |-> "theirs"]
  <2>2. commits' = Append(commits, theirs)  BY <2>1
  <2>3. theirs.parent = head /\ IsClone(theirs.files) /\ IsClone(index')  BY <2>1 DEF IsClone
  <2>4. IsClone(tree')  BY <2>1 DEF RepositorySound, IsClone, disk
  <2> HIDE DEF theirs
  <2> QED  BY <2>1, <2>2, <2>3, <2>4 DEF RepositoryMoves, CommitsOne
<1>5. CASE PersonFetches  BY <1>5 DEF PersonFetches, RepositoryMoves, disk
<1>6. CASE OthersPush
  <2>1. PICK files_ \in Worked(commits[remote].files) :
          /\ commits' = Append(commits, [parent |-> remote, files |-> files_, message |-> "theirs"])
          /\ remote' = Len(commits) + 1
          /\ UNCHANGED <<head, tracking, disk, index, cleanAt>>  BY <1>6 DEF OthersPush
  <2>2. IsClone(files_)  BY <2>1 DEF Worked, IsClone
  <2> QED  BY <2>1, <2>2 DEF RepositoryMoves, OthersCommit, disk
<1>7. CASE EngineChanges /\ UNCHANGED git  BY <1>7 DEF git, disk, RepositoryMoves
<1> QED  BY <1>1, <1>2, <1>3, <1>4, <1>5, <1>6, <1>7 DEF People

\* "prompt render" leaves the repository alone.
LEMMA PromptingRests ==
  ASSUME NEW p \in Procs, Prompting(p)
  PROVE  UNCHANGED git
BY DEF Prompting, StartsPrompt, PromptReadsStatus, PromptReadsStatusAgain, PromptLinksMetadata,
   PromptLinksMarkdown

\* So does "agent run": an agent works in its own clone.
LEMMA RunningRests ==
  ASSUME NEW p \in Procs, Running(p)
  PROVE  UNCHANGED git
BY DEF Running, StartsRun, RunReadsStatus, RunResolvesEngine, AgentEnds, RunReadsStatusAgain,
   RunLinksRecord, RunLinksPatch

\* So does "state record".
LEMMA RecordingRests ==
  ASSUME NEW p \in Procs, Recording(p)
  PROVE  UNCHANGED git
BY DEF Recording, StartsRecord, RecordReadsHead, AppendsEvent, RecordAnswers

\* The commit gate stages, unstages and commits on HEAD.
LEMMA CommittingMoves ==
  ASSUME NEW p \in Procs, RepositorySound, Committing(p)
  PROVE  RepositoryMoves
<1>1. CASE CommitStages(p)  BY <1>1, OperationsMove DEF CommitStages, RepositoryMoves, git, disk
<1>2. CASE CommitUnstages(p)  BY <1>2, OperationsMove DEF CommitUnstages, RepositoryMoves, git, disk
<1>3. CASE CommitCommits(p)  BY <1>3, OperationsMove DEF CommitCommits, RepositoryMoves, git, disk
<1>4. CASE UNCHANGED git  BY <1>4 DEF git, disk, RepositoryMoves
<1> QED
  BY <1>1, <1>2, <1>3, <1>4 DEF Committing, StartsCommit, CommitReadsStatus, CommitChecksStaged,
     CommitVerifies

\* The push gate publishes HEAD.
LEMMA PushingMoves ==
  ASSUME NEW p \in Procs, RepositorySound, Pushing(p)
  PROVE  RepositoryMoves
<1>1. CASE PushPushes(p)  BY <1>1, OperationsMove DEF PushPushes, RepositoryMoves, git, disk
<1>2. CASE UNCHANGED git  BY <1>2 DEF git, disk, RepositoryMoves
<1> QED  BY <1>1, <1>2 DEF Pushing, StartsPush, PushReadsStatus, PushCounts

\* apply-patch writes the work tree.
LEMMA ApplyingMoves ==
  ASSUME NEW p \in Procs, RepositorySound, Applying(p)
  PROVE  RepositoryMoves
<1>1. CASE ApplyApplies(p)  BY <1>1, OperationsMove DEF ApplyApplies, RepositoryMoves, git, disk
<1>2. CASE UNCHANGED git  BY <1>2 DEF git, disk, RepositoryMoves
<1> QED
  BY <1>1, <1>2 DEF Applying, StartsApply, ApplyReadsHead, ApplyReadsStatus, ApplyChecks,
     ApplyAnswers

\* The owner's gates write documents, stage and commit.
LEMMA GatingMoves ==
  ASSUME NEW p \in Procs, RepositorySound, Gating(p)
  PROVE  RepositoryMoves
<1>1. CASE GateWrites(p)  BY <1>1, OperationsMove DEF GateWrites, RepositoryMoves, git, disk
<1>2. CASE GateStages(p)  BY <1>2, OperationsMove DEF GateStages, RepositoryMoves, git, disk
<1>3. CASE GateCommits(p)  BY <1>3, OperationsMove DEF GateCommits, RepositoryMoves, git, disk
<1>4. CASE GateRestores(p)
  BY <1>4, SMTT(30) DEF GateRestores, RepositorySound, RepositoryMoves, Redraws, IsClone
<1>5. CASE UNCHANGED git  BY <1>5 DEF git, disk, RepositoryMoves
<1> QED
  BY <1>1, <1>2, <1>3, <1>4, <1>5 DEF Gating, StartsAuthorize, AuthorizeReadsHead, AuthorizeReads,
     AuthorizeValidates, StartsApprove, ApproveReads, ApproveCopies, GateValidates,
     GateReadsChanged, AuthorizeCountsStaged, GateVerifies

\* propose-successor leaves the repository alone.
LEMMA ProposingRests ==
  ASSUME NEW p \in Procs, Proposing(p)
  PROVE  UNCHANGED git
BY DEF Proposing, StartsPropose, ProposeReadsStatus, ProposeCaptures, ProposeReadsEvidence,
   ProposeResolves, ProposeChecks, ProposeReconciles, ProposeReadsCatalog, ProposeReadsStatusAgain,
   ProposeCapturesAgain, ProposeCompares, ProposeEndsDry, ProposeLooks, ProposeLooksAgain,
   ProposeRenames, ProposeReconcilesExisting, ProposeVerifies, Proceeds, Moves, Drops, Concluded

\* Every step of the day.
LEMMA StepMovesRepository ==
  ASSUME RepositorySound, [Next]_vars
  PROVE  RepositoryMoves
<1>1. ASSUME NEW p \in Procs, Prompting(p) \/ Running(p) \/ Recording(p) PROVE RepositoryMoves
  BY <1>1, PromptingRests, RunningRests, RecordingRests DEF RepositoryMoves, git, disk
<1>2. ASSUME NEW p \in Procs, Statuses(p) PROVE RepositoryMoves
  BY <1>2 DEF Statuses, RepositoryMoves, git, disk
<1>3. CASE Steps
  BY <1>3, <1>1, <1>2, CommittingMoves, PushingMoves, ApplyingMoves, GatingMoves, PeopleMove DEF Steps
<1>4. CASE UNCHANGED git  BY <1>4 DEF RepositoryMoves, git, disk
<1> QED  BY <1>3, <1>4, ProposingRests DEF Next, vars

----------------------------------------
(* What the commands know *)

\* An invocation is a record of these fields.
ProcsShaped ==
  proc = [p \in Procs |->
    [pc |-> proc[p].pc, ask |-> proc[p].ask, seen |-> proc[p].seen, status |-> proc[p].status,
     again |-> proc[p].again, made |-> proc[p].made]]

\* A run as the record of it says, when that is true.
RunSound(run) ==
  /\ run.prompt \in metadata \cap markdown
  /\ IsClone(run.files)
  /\ run.passed =>
       /\ run.prompt.head \in cleanAt
       /\ run.code = "none"
       /\ Changed(run) \subseteq run.prompt.allowed \ Protected

StoresSound ==
  /\ \A prompt \in metadata :
       /\ prompt.head \in 1..Len(commits)
       /\ prompt.bundled => prompt.head \in cleanAt
  /\ markdown \subseteq metadata
  /\ \A run \in records : RunSound(run)

\* A clean HEAD was met between these two.
CleanBetween(first, last) == \E h \in cleanAt : first <= h /\ h <= last

\* The HEAD a command has read is a commit, and HEAD has not gone back since.
HeadRead(p) == proc[p].seen.head \in 1..Len(commits) /\ proc[p].seen.head <= head

PromptKnows(p) ==
  Kind(p) = "prompt" =>
    /\ proc[p].pc \in {"head", "status", "headAgain", "statusAgain", "render", "markdown"}
    /\ proc[p].pc # "head" => HeadRead(p)
    /\ proc[p].pc \in {"headAgain", "statusAgain"} => proc[p].ask.bundled
    /\ proc[p].pc = "headAgain" => CleanBetween(proc[p].seen.head, head)
    /\ proc[p].pc = "statusAgain" => CleanBetween(proc[p].seen.head, proc[p].again.head)
    /\ (proc[p].pc \in {"render", "markdown"} /\ proc[p].ask.bundled) => proc[p].seen.head \in cleanAt
    /\ proc[p].pc = "markdown" => Rendered(p) \in metadata

RunKnows(p) ==
  Kind(p) = "run" =>
    LET prompt == proc[p].ask.prompt
        made == proc[p].made
    IN
    /\ prompt \in metadata \cap markdown
    /\ proc[p].pc \in {"head", "status", "engine", "sandbox", "headAgain", "statusAgain", "record", "patch"}
    /\ proc[p].pc = "status" => HeadRead(p)
    /\ proc[p].pc \in {"engine", "sandbox", "headAgain", "statusAgain"} => proc[p].seen.head = prompt.head
    /\ proc[p].pc \in {"engine", "sandbox", "headAgain"} => CleanBetween(prompt.head, head)
    /\ proc[p].pc = "statusAgain" => CleanBetween(prompt.head, proc[p].again.head)
    /\ proc[p].pc \in {"headAgain", "statusAgain"} =>
         /\ made.run.prompt = prompt
         /\ IsClone(made.run.files)
         /\ made.passed =>
              made.run.code = "none" /\ Changed(made.run) \subseteq prompt.allowed \ Protected
    /\ proc[p].pc \in {"record", "patch"} => RunSound(made)
    /\ proc[p].pc = "patch" => made \in records

\* A run that backs an event of this stage and outcome.
Backs(run, stage, outcome) ==
  run # Nothing =>
    /\ run \in records \cap patches
    /\ run.passed
    /\ run.prompt.stage = stage
    /\ outcome \in Verdicts => run.verdict = outcome

RecordKnows(p) ==
  Kind(p) = "record" =>
    LET ask == proc[p].ask
        made == proc[p].made
    IN
    /\ proc[p].pc \in {"recordHead", "append", "derive"}
    /\ Backs(ask.run, ask.stage, ask.outcome)
    /\ proc[p].pc # "recordHead" =>
         made.run = ask.run /\ made.stage = ask.stage /\ made.outcome = ask.outcome

ApplyKnows(p) ==
  Kind(p) = "apply" => proc[p].ask.run \in records \cap patches /\ proc[p].ask.run.passed

Knows(p) == PromptKnows(p) /\ RunKnows(p) /\ RecordKnows(p) /\ ApplyKnows(p)

EventsSound ==
  /\ Numbered(files)
  /\ \A n \in 1..Len(files) : Backs(files[n].run, files[n].stage, files[n].outcome)

WorkspaceInv ==
  /\ ProcsShaped
  /\ RepositorySound
  /\ StoresSound
  /\ \A p \in Procs : Knows(p)
  /\ EventsSound

----------------------------------------
(* How an invocation goes on *)

Fields == {"pc", "ask", "seen", "status", "again", "made"}

Invocation(pc, ask, seen, status, again, made) ==
  [pc |-> pc, ask |-> ask, seen |-> seen, status |-> status, again |-> again, made |-> made]

\* One invocation has taken a step, to this.
Becomes(p, pc, ask, seen, status, again, made) ==
  /\ ProcsShaped'
  /\ proc'[p] = [pc |-> pc, ask |-> ask, seen |-> seen, status |-> status, again |-> again, made |-> made]
  /\ \A q \in Procs : q # p => proc'[q] = proc[q]

\* An invocation is what its fields are.
LEMMA Extensional ==
  ASSUME NEW r, r = [x \in Fields |-> r[x]]
  PROVE  r = Invocation(r.pc, r.ask, r.seen, r.status, r.again, r.made)
BY DEF Invocation, Fields

\* One invocation has a new state.
LEMMA ShapeStays ==
  ASSUME NEW p \in Procs, ProcsShaped, proc' = [q \in Procs |-> proc'[q]],
         \A q \in Procs : q # p => proc'[q] = proc[q],
         NEW pc, NEW ask, NEW seen, NEW status, NEW again, NEW made,
         proc'[p] = Invocation(pc, ask, seen, status, again, made)
  PROVE  Becomes(p, pc, ask, seen, status, again, made)
<1>1. \A q \in Procs : proc[q] = Invocation(proc[q].pc, proc[q].ask, proc[q].seen, proc[q].status,
                                            proc[q].again, proc[q].made)
  BY DEF ProcsShaped, Invocation
<1>2. proc'[p] = Invocation(proc'[p].pc, proc'[p].ask, proc'[p].seen, proc'[p].status,
                            proc'[p].again, proc'[p].made)  BY DEF Invocation
<1>3. \A q \in Procs : proc'[q] = Invocation(proc'[q].pc, proc'[q].ask, proc'[q].seen, proc'[q].status,
                                             proc'[q].again, proc'[q].made)  BY <1>1, <1>2
<1>4. ProcsShaped'  BY <1>3 DEF ProcsShaped, Invocation
<1> QED  BY <1>4 DEF Becomes, Invocation

\* One invocation has been given a new state.
LEMMA NewState ==
  ASSUME NEW p \in Procs, ProcsShaped,
         NEW pc, NEW ask, NEW seen, NEW status, NEW again, NEW made,
         proc' = [proc EXCEPT ![p] = Invocation(pc, ask, seen, status, again, made)]
  PROVE  Becomes(p, pc, ask, seen, status, again, made)
<1>1. proc' = [q \in Procs |-> proc'[q]] /\ \A q \in Procs : q # p => proc'[q] = proc[q]
  BY DEF ProcsShaped
<1>2. proc'[p] = Invocation(pc, ask, seen, status, again, made)  BY DEF ProcsShaped
<1> QED  BY <1>1, <1>2, ShapeStays

\* The ways in which a command goes on.
LEMMA GoesOn ==
  ASSUME NEW p \in Procs, ProcsShaped, NEW pc, NEW new, NEW made
  PROVE  LET r == proc[p] IN
         /\ proc' = [proc EXCEPT ![p].pc = pc] =>
              Becomes(p, pc, r.ask, r.seen, r.status, r.again, r.made)
         /\ proc' = [proc EXCEPT ![p].made = made] =>
              Becomes(p, r.pc, r.ask, r.seen, r.status, r.again, made)
         /\ proc' = [proc EXCEPT ![p].pc = pc, ![p].seen = new] =>
              Becomes(p, pc, r.ask, new, r.status, r.again, r.made)
         /\ proc' = [proc EXCEPT ![p].pc = pc, ![p].status = new] =>
              Becomes(p, pc, r.ask, r.seen, new, r.again, r.made)
         /\ proc' = [proc EXCEPT ![p].pc = pc, ![p].again = new] =>
              Becomes(p, pc, r.ask, r.seen, r.status, new, r.made)
         /\ proc' = [proc EXCEPT ![p].pc = pc, ![p].made = made] =>
              Becomes(p, pc, r.ask, r.seen, r.status, r.again, made)
         /\ proc' = [proc EXCEPT ![p].pc = pc, ![p].status = new, ![p].made = made] =>
              Becomes(p, pc, r.ask, r.seen, new, r.again, made)
<1> DEFINE r == proc[p]
<1>1. r = [x \in Fields |-> r[x]] /\ DOMAIN proc = Procs  BY DEF ProcsShaped, Fields
<1>2. ASSUME NEW s, proc' = [proc EXCEPT ![p] = s]
      PROVE  \A at, ask, seen, status, again, notes :
               s = Invocation(at, ask, seen, status, again, notes) => Becomes(p, at, ask, seen, status, again, notes)
  BY <1>2, NewState
<1>3. ASSUME proc' = [proc EXCEPT ![p].pc = pc]
      PROVE  Becomes(p, pc, r.ask, r.seen, r.status, r.again, r.made)
  <2> PICK s : s = [r EXCEPT !.pc = pc]  OBVIOUS
  <2>1. proc' = [proc EXCEPT ![p] = s]  BY <1>1, <1>3
  <2> HIDE DEF r
  <2>2. s = Invocation(pc, r.ask, r.seen, r.status, r.again, r.made)  BY <1>1 DEF Fields, Invocation
  <2> QED  BY <1>2, <2>1, <2>2
<1>4. ASSUME proc' = [proc EXCEPT ![p].made = made]
      PROVE  Becomes(p, r.pc, r.ask, r.seen, r.status, r.again, made)
  <2> PICK s : s = [r EXCEPT !.made = made]  OBVIOUS
  <2>1. proc' = [proc EXCEPT ![p] = s]  BY <1>1, <1>4
  <2> HIDE DEF r
  <2>2. s = Invocation(r.pc, r.ask, r.seen, r.status, r.again, made)  BY <1>1 DEF Fields, Invocation
  <2> QED  BY <1>2, <2>1, <2>2
<1>5. ASSUME proc' = [proc EXCEPT ![p].pc = pc, ![p].seen = new]
      PROVE  Becomes(p, pc, r.ask, new, r.status, r.again, r.made)
  <2> PICK s : s = [r EXCEPT !.pc = pc, !.seen = new]  OBVIOUS
  <2>1. proc' = [proc EXCEPT ![p] = s]  BY <1>1, <1>5
  <2> HIDE DEF r
  <2>2. s = Invocation(pc, r.ask, new, r.status, r.again, r.made)  BY <1>1 DEF Fields, Invocation
  <2> QED  BY <1>2, <2>1, <2>2
<1>6. ASSUME proc' = [proc EXCEPT ![p].pc = pc, ![p].status = new]
      PROVE  Becomes(p, pc, r.ask, r.seen, new, r.again, r.made)
  <2> PICK s : s = [r EXCEPT !.pc = pc, !.status = new]  OBVIOUS
  <2>1. proc' = [proc EXCEPT ![p] = s]  BY <1>1, <1>6
  <2> HIDE DEF r
  <2>2. s = Invocation(pc, r.ask, r.seen, new, r.again, r.made)  BY <1>1 DEF Fields, Invocation
  <2> QED  BY <1>2, <2>1, <2>2
<1>7. ASSUME proc' = [proc EXCEPT ![p].pc = pc, ![p].again = new]
      PROVE  Becomes(p, pc, r.ask, r.seen, r.status, new, r.made)
  <2> PICK s : s = [r EXCEPT !.pc = pc, !.again = new]  OBVIOUS
  <2>1. proc' = [proc EXCEPT ![p] = s]  BY <1>1, <1>7
  <2> HIDE DEF r
  <2>2. s = Invocation(pc, r.ask, r.seen, r.status, new, r.made)  BY <1>1 DEF Fields, Invocation
  <2> QED  BY <1>2, <2>1, <2>2
<1>8. ASSUME proc' = [proc EXCEPT ![p].pc = pc, ![p].made = made]
      PROVE  Becomes(p, pc, r.ask, r.seen, r.status, r.again, made)
  <2> PICK s : s = [r EXCEPT !.pc = pc, !.made = made]  OBVIOUS
  <2>1. proc' = [proc EXCEPT ![p] = s]  BY <1>1, <1>8
  <2> HIDE DEF r
  <2>2. s = Invocation(pc, r.ask, r.seen, r.status, r.again, made)  BY <1>1 DEF Fields, Invocation
  <2> QED  BY <1>2, <2>1, <2>2
<1>9. ASSUME proc' = [proc EXCEPT ![p].pc = pc, ![p].status = new, ![p].made = made]
      PROVE  Becomes(p, pc, r.ask, r.seen, new, r.again, made)
  <2> PICK s : s = [r EXCEPT !.pc = pc, !.status = new, !.made = made]  OBVIOUS
  <2>1. proc' = [proc EXCEPT ![p] = s]  BY <1>1, <1>9
  <2> HIDE DEF r
  <2>2. s = Invocation(pc, r.ask, r.seen, new, r.again, made)  BY <1>1 DEF Fields, Invocation
  <2> QED  BY <1>2, <2>1, <2>2
<1> QED  BY <1>3, <1>4, <1>5, <1>6, <1>7, <1>8, <1>9

----------------------------------------
(* The steps of one invocation *)

\* A step of one invocation, at a command of this kind: nobody else moves, and
\* what is told is told by this command.
Works(p, kind) ==
  /\ ProcsShaped'
  /\ \A q \in Procs : q # p => proc'[q] = proc[q]
  /\ Kind(p)' \in {kind, "nothing"}
  /\ proc[p] = Idle \/ proc'[p] = Idle \/ proc'[p].ask = proc[p].ask
  /\ told \subseteq told' /\ \A t \in told' \ told : t.ask.kind = kind

\* The commands whose knowledge the evidence rests on.
Actors == {"prompt", "run", "record", "apply"}

\* A step of anything else.
Elsewhere ==
  /\ ProcsShaped'
  /\ \A p \in Procs : proc'[p] = proc[p] \/ Kind(p)' \notin Actors
  /\ UNCHANGED <<metadata, markdown, records, patches, files>>

\* A step of another command is one.
LEMMA WorkIsElsewhere ==
  ASSUME NEW p \in Procs, NEW kind, kind \notin Actors, Works(p, kind), UNCHANGED <<stores, files>>
  PROVE  Elsewhere
BY DEF Works, Elsewhere, Actors, stores

\* A command begins.
LEMMA WorkBegins ==
  ASSUME NEW p \in Procs, ProcsShaped
  PROVE  \A ask, pc : Begin(p, ask, pc) => Works(p, ask.kind)
BY DEF Begin, Idle, Nothing, ProcsShaped, Works, Kind

\* A process that ends is idle.
LEMMA IdlesWork ==
  ASSUME NEW p \in Procs, ProcsShaped, proc' = [proc EXCEPT ![p] = Idle]
  PROVE  /\ ProcsShaped' /\ proc'[p] = Idle /\ Kind(p)' = "nothing"
         /\ \A q \in Procs : q # p => proc'[q] = proc[q]
<1>1. ProcsShaped'  BY DEF ProcsShaped, Idle
<1>2. \A q \in Procs : q # p => proc'[q] = proc[q]  BY DEF ProcsShaped
<1>3. Kind(p)' = "nothing" /\ proc'[p] = Idle  BY DEF ProcsShaped, Kind, Idle, Nothing
<1> QED  BY <1>1, <1>2, <1>3

\* The ways in which a command goes on.
LEMMA WorkGoesOn ==
  ASSUME NEW p \in Procs, ProcsShaped
  PROVE  /\ \A pc : Goes(p, pc) => Works(p, Kind(p))
         /\ \A report : Answers(p, report) => Works(p, Kind(p))
         /\ Refuses(p) => Works(p, Kind(p))
         /\ \A pc, made : (proc' = [proc EXCEPT ![p].pc = pc, ![p].made = made] /\ UNCHANGED told)
                           => Works(p, Kind(p))
         /\ \A pc, seen : (proc' = [proc EXCEPT ![p].pc = pc, ![p].seen = seen] /\ UNCHANGED told)
                           => Works(p, Kind(p))
         /\ \A pc, status : (proc' = [proc EXCEPT ![p].pc = pc, ![p].status = status] /\ UNCHANGED told)
                             => Works(p, Kind(p))
         /\ \A made : (proc' = [proc EXCEPT ![p].made = made] /\ UNCHANGED told) => Works(p, Kind(p))
<1>1. ASSUME NEW pc, NEW seen, NEW status, NEW again, NEW made,
             Becomes(p, pc, proc[p].ask, seen, status, again, made), UNCHANGED told
      PROVE  Works(p, Kind(p))  BY <1>1 DEF Becomes, Kind, Works
<1>2. \A pc : Goes(p, pc) => Works(p, Kind(p))
  <2> SUFFICES ASSUME NEW pc, Goes(p, pc) PROVE Works(p, Kind(p))  OBVIOUS
  <2>1. Becomes(p, pc, proc[p].ask, proc[p].seen, proc[p].status, proc[p].again, proc[p].made)
    BY GoesOn DEF Goes
  <2> QED  BY <1>1, <2>1 DEF Goes
<1>3. \A report : Answers(p, report) => Works(p, Kind(p))
  <2> SUFFICES ASSUME NEW report, Answers(p, report) PROVE Works(p, Kind(p))  OBVIOUS
  <2>1. proc' = [proc EXCEPT ![p] = Idle] /\ told' = told \cup {[ask |-> proc[p].ask, made |-> report]}
    BY DEF Answers
  <2>2. \A t \in told' \ told : t.ask.kind = Kind(p)  BY <2>1 DEF Kind
  <2> QED  BY <2>1, <2>2, IdlesWork DEF Works
<1>4. Refuses(p) => Works(p, Kind(p))  BY IdlesWork DEF Refuses, Works
<1>5. \A pc, made : (proc' = [proc EXCEPT ![p].pc = pc, ![p].made = made] /\ UNCHANGED told) => Works(p, Kind(p))
  <2> SUFFICES ASSUME NEW pc, NEW made, proc' = [proc EXCEPT ![p].pc = pc, ![p].made = made], UNCHANGED told
               PROVE  Works(p, Kind(p))  OBVIOUS
  <2>1. Becomes(p, pc, proc[p].ask, proc[p].seen, proc[p].status, proc[p].again, made)  BY GoesOn
  <2> QED  BY <1>1, <2>1
<1>6. \A pc, seen : (proc' = [proc EXCEPT ![p].pc = pc, ![p].seen = seen] /\ UNCHANGED told) => Works(p, Kind(p))
  <2> SUFFICES ASSUME NEW pc, NEW seen, proc' = [proc EXCEPT ![p].pc = pc, ![p].seen = seen], UNCHANGED told
               PROVE  Works(p, Kind(p))  OBVIOUS
  <2>1. Becomes(p, pc, proc[p].ask, seen, proc[p].status, proc[p].again, proc[p].made)  BY GoesOn
  <2> QED  BY <1>1, <2>1
<1>7. \A pc, status : (proc' = [proc EXCEPT ![p].pc = pc, ![p].status = status] /\ UNCHANGED told) => Works(p, Kind(p))
  <2> SUFFICES ASSUME NEW pc, NEW status, proc' = [proc EXCEPT ![p].pc = pc, ![p].status = status], UNCHANGED told
               PROVE  Works(p, Kind(p))  OBVIOUS
  <2>1. Becomes(p, pc, proc[p].ask, proc[p].seen, status, proc[p].again, proc[p].made)  BY GoesOn
  <2> QED  BY <1>1, <2>1
<1>8. \A made : (proc' = [proc EXCEPT ![p].made = made] /\ UNCHANGED told) => Works(p, Kind(p))
  <2> SUFFICES ASSUME NEW made, proc' = [proc EXCEPT ![p].made = made], UNCHANGED told
               PROVE  Works(p, Kind(p))  OBVIOUS
  <2>1. Becomes(p, proc[p].pc, proc[p].ask, proc[p].seen, proc[p].status, proc[p].again, made)
    BY GoesOn
  <2> QED  BY <1>1, <2>1
<1> QED  BY <1>2, <1>3, <1>4, <1>5, <1>6, <1>7, <1>8

\* The steps of the commit gate.
LEMMA CommittingWorks ==
  ASSUME NEW p \in Procs, ProcsShaped, Committing(p)
  PROVE  Works(p, "commit")
<1>1. CASE StartsCommit(p)  BY <1>1, WorkBegins DEF StartsCommit
<1>2. CASE CommitReadsStatus(p)  BY <1>2, WorkGoesOn DEF CommitReadsStatus, At, Kind
<1>3. CASE CommitStages(p)  BY <1>3, WorkGoesOn DEF CommitStages, At, Kind
<1>4. CASE CommitChecksStaged(p)  BY <1>4, WorkGoesOn DEF CommitChecksStaged, At, Kind
<1>5. CASE CommitUnstages(p)  BY <1>5, WorkGoesOn DEF CommitUnstages, At, Kind
<1>6. CASE CommitCommits(p)  BY <1>6, WorkGoesOn DEF CommitCommits, At, Kind
<1>7. CASE CommitVerifies(p)  BY <1>7, WorkGoesOn DEF CommitVerifies, At, Kind
<1> QED  BY <1>1, <1>2, <1>3, <1>4, <1>5, <1>6, <1>7 DEF Committing

\* Of the push gate.
LEMMA PushingWorks ==
  ASSUME NEW p \in Procs, ProcsShaped, Pushing(p)
  PROVE  Works(p, "push")
<1>1. CASE StartsPush(p)  BY <1>1, WorkBegins DEF StartsPush
<1>2. CASE PushReadsStatus(p)  BY <1>2, WorkGoesOn DEF PushReadsStatus, At, Kind
<1>3. CASE PushCounts(p)  BY <1>3, WorkGoesOn DEF PushCounts, At, Kind
<1>4. CASE PushPushes(p)  BY <1>4, WorkGoesOn DEF PushPushes, At, Kind
<1> QED  BY <1>1, <1>2, <1>3, <1>4 DEF Pushing

\* Of the owner's gates.
LEMMA GatingWorks ==
  ASSUME NEW p \in Procs, ProcsShaped, Gating(p)
  PROVE  Works(p, "authorize") \/ Works(p, "approve")
<1>1. CASE StartsAuthorize(p)  BY <1>1, WorkBegins DEF StartsAuthorize
<1>2. CASE AuthorizeReadsHead(p)  BY <1>2, WorkGoesOn DEF AuthorizeReadsHead, At, Kind
<1>3. CASE AuthorizeReads(p)  BY <1>3, WorkGoesOn DEF AuthorizeReads, At, Remembers, Kind
<1>4. CASE AuthorizeValidates(p)  BY <1>4, WorkGoesOn DEF AuthorizeValidates, At, Kind
<1>5. CASE StartsApprove(p)  BY <1>5, WorkBegins DEF StartsApprove
<1>6. CASE ApproveReads(p)  BY <1>6, WorkGoesOn DEF ApproveReads, At, Remembers, Kind
<1>7. CASE ApproveCopies(p)
  <2>1. Kind(p) = "approve"  BY <1>7 DEF ApproveCopies, At, Kind
  <2> DEFINE made == [proc[p].made EXCEPT
                        !.backup = [at |-> writes, files |-> Record(tree), stamps |-> stamps],
                        !.todo = <<"queue", "current", "remaining", "project", "registry", "reports",
                                   "handover", "checksum">>]
  <2>2. proc' = [proc EXCEPT ![p].pc = "write", ![p].made = made]
    BY <1>7 DEF ApproveCopies, ProcsShaped
  <2>3. UNCHANGED told  BY <1>7 DEF ApproveCopies
  <2> HIDE DEF made
  <2> QED  BY <2>1, <2>2, <2>3, WorkGoesOn
<1>8. CASE GateWrites(p)  BY <1>8, WorkGoesOn DEF GateWrites, AtGate, Fails, OwnersGates, Kind
<1>9. CASE GateValidates(p)  BY <1>9, WorkGoesOn DEF GateValidates, AtGate, Fails, OwnersGates, Kind
<1>10. CASE GateReadsChanged(p)
  BY <1>10, WorkGoesOn DEF GateReadsChanged, AtGate, Fails, OwnersGates, Kind
<1>11. CASE GateStages(p)  BY <1>11, WorkGoesOn DEF GateStages, AtGate, OwnersGates, Kind
<1>12. CASE AuthorizeCountsStaged(p)  BY <1>12, WorkGoesOn DEF AuthorizeCountsStaged, At, Kind
<1>13. CASE GateCommits(p)  BY <1>13, WorkGoesOn DEF GateCommits, AtGate, OwnersGates, Kind
<1>14. CASE GateVerifies(p)  BY <1>14, WorkGoesOn DEF GateVerifies, AtGate, OwnersGates, Kind
<1>15. CASE GateRestores(p)  BY <1>15, WorkGoesOn DEF GateRestores, AtGate, OwnersGates, Kind
<1> QED
  BY <1>1, <1>2, <1>3, <1>4, <1>5, <1>6, <1>7, <1>8, <1>9, <1>10, <1>11, <1>12, <1>13, <1>14, <1>15
     DEF Gating

\* Of propose-successor.
LEMMA ProposingWorks ==
  ASSUME NEW p \in Procs, ProcsShaped, Proposing(p)
  PROVE  Works(p, "propose")
<1>1. CASE StartsPropose(p)  BY <1>1, WorkBegins DEF StartsPropose
<1>2. CASE ProposeReadsStatus(p)
  <2>1. Kind(p) = "propose"  BY <1>2 DEF ProposeReadsStatus, At, Kind
  <2>2. CASE Drops(p)  BY <2>1, <2>2, WorkGoesOn DEF Drops
  <2>3. CASE proc' = [proc EXCEPT ![p].pc = "capture", ![p].status = Porcelain, ![p].made = NothingRead]
             /\ UNCHANGED told
    <3>1. Becomes(p, "capture", proc[p].ask, proc[p].seen, Porcelain, proc[p].again, NothingRead)
      BY <2>3, GoesOn
    <3>2. Kind(p)' = Kind(p)  BY <3>1 DEF Becomes, Kind
    <3>3. proc'[p].ask = proc[p].ask  BY <3>1 DEF Becomes
    <3> QED  BY <2>1, <2>3, <3>1, <3>2, <3>3 DEF Works, Becomes
  <2> QED  BY <1>2, <2>2, <2>3 DEF ProposeReadsStatus
<1>3. CASE ProposeCaptures(p)  BY <1>3, WorkGoesOn DEF ProposeCaptures, At, Proceeds, Kind
<1>4. CASE ProposeReadsEvidence(p)  BY <1>4, WorkGoesOn DEF ProposeReadsEvidence, At, Proceeds, Kind
<1>5. CASE ProposeResolves(p)  BY <1>5, WorkGoesOn DEF ProposeResolves, At, Moves, Drops, Kind
<1>6. CASE ProposeChecks(p)  BY <1>6, WorkGoesOn DEF ProposeChecks, At, Proceeds, Kind
<1>7. CASE ProposeReconciles(p)
  <2>1. Kind(p) = "propose"  BY <1>7 DEF ProposeReconciles, At, Kind
  <2>2. \E pc, made : Moves(p, pc, made)  BY <1>7, Zenon DEF ProposeReconciles
  <2> QED  BY <2>1, <2>2, WorkGoesOn DEF Moves
<1>8. CASE ProposeReadsCatalog(p)  BY <1>8, WorkGoesOn DEF ProposeReadsCatalog, At, Moves, Kind
<1>9. CASE ProposeReadsStatusAgain(p)
  BY <1>9, WorkGoesOn DEF ProposeReadsStatusAgain, At, Moves, Kind
<1>10. CASE ProposeCapturesAgain(p)
  BY <1>10, WorkGoesOn DEF ProposeCapturesAgain, At, Proceeds, Kind
<1>11. CASE ProposeCompares(p)  BY <1>11, WorkGoesOn DEF ProposeCompares, At, Moves, Kind
<1>12. CASE ProposeEndsDry(p)  BY <1>12, WorkGoesOn DEF ProposeEndsDry, At, Concluded, Kind
<1>13. CASE ProposeLooks(p)  BY <1>13, WorkGoesOn DEF ProposeLooks, At, Moves, Kind
<1>14. CASE ProposeLooksAgain(p)  BY <1>14, WorkGoesOn DEF ProposeLooksAgain, At, Moves, Kind
<1>15. CASE ProposeRenames(p)  BY <1>15, WorkGoesOn DEF ProposeRenames, At, Kind
<1>16. CASE ProposeReconcilesExisting(p)
  BY <1>16, WorkGoesOn DEF ProposeReconcilesExisting, At, Moves, Kind
<1>17. CASE ProposeVerifies(p)  BY <1>17, WorkGoesOn DEF ProposeVerifies, At, Concluded, Kind
<1> QED
  BY <1>1, <1>2, <1>3, <1>4, <1>5, <1>6, <1>7, <1>8, <1>9, <1>10, <1>11, <1>12, <1>13, <1>14, <1>15,
     <1>16, <1>17 DEF Proposing

\* Of a post to the dashboard's server.
LEMMA PostingWorks ==
  ASSUME NEW p \in Procs, ProcsShaped, Posting(p)
  PROVE  Works(p, "post")
<1>1. CASE StartsPost(p)  BY <1>1, WorkBegins DEF StartsPost
<1>2. CASE PostCreates(p)  BY <1>2, WorkGoesOn DEF PostCreates, At, Kind
<1>3. CASE PostReplays(p)
  <2>1. Kind(p) = "post"  BY <1>3 DEF PostReplays, At, Kind
  <2>2. UNCHANGED told /\ \E r : proc' = [proc EXCEPT ![p].pc = "answer", ![p].made = [row |-> r]]
    BY <1>3 DEF PostReplays
  <2> QED  BY <2>1, <2>2, WorkGoesOn
<1>4. CASE PostRefuses(p)  BY <1>4, WorkGoesOn DEF PostRefuses, At, Kind
<1>5. CASE PostAppends(p)  BY <1>5, WorkGoesOn DEF PostAppends, At, Kind
<1>6. CASE PostTears(p)  BY <1>6, WorkGoesOn DEF PostTears, At, Kind
<1>7. CASE PostFails(p)  BY <1>7, WorkGoesOn DEF PostFails, At, Kind
<1>8. CASE PostCommits(p)  BY <1>8, WorkGoesOn DEF PostCommits, At, Kind
<1>9. CASE PostAnswers(p)  BY <1>9, WorkGoesOn DEF PostAnswers, At, Kind
<1> QED  BY <1>1, <1>2, <1>3, <1>4, <1>5, <1>6, <1>7, <1>8, <1>9 DEF Posting

\* Of a prompt generated by it.
LEMMA GeneratingWorks ==
  ASSUME NEW p \in Procs, ProcsShaped, Generating(p)
  PROVE  Works(p, "generate")
<1>1. CASE StartsGenerate(p)  BY <1>1, WorkBegins DEF StartsGenerate
<1>2. CASE GenerateLooks(p)  BY <1>2, WorkGoesOn DEF GenerateLooks, At, Kind
<1>3. CASE GenerateReads(p)
  <2>1. Kind(p) = "generate"  BY <1>3 DEF GenerateReads, At, Kind
  <2>2. CASE \E made : proc' = [proc EXCEPT ![p].made = made] /\ UNCHANGED told
    BY <2>1, <2>2, WorkGoesOn
  <2>3. CASE proc' = [proc EXCEPT ![p].pc = AfterPassing(@), ![p].made = Evaluation] /\ UNCHANGED told
    <3>1. proc' = [proc EXCEPT ![p].pc = AfterPassing(proc[p].pc), ![p].made = Evaluation]
      BY <2>3 DEF ProcsShaped
    <3> QED  BY <2>1, <2>3, <3>1, WorkGoesOn
  <2>4. CASE Refuses(p)  BY <2>1, <2>4, WorkGoesOn
  <2> QED  BY <1>3, <2>2, <2>3, <2>4, Zenon DEF GenerateReads
<1>4. CASE GenerateSummarizes(p)  BY <1>4, WorkGoesOn DEF GenerateSummarizes, At, Kind
<1>5. CASE GenerateStores(p)  BY <1>5, WorkGoesOn DEF GenerateStores, At, Kind
<1> QED  BY <1>1, <1>2, <1>3, <1>4, <1>5 DEF Generating

\* The other steps that take no part in the evidence.
LEMMA ServingIsElsewhere ==
  ASSUME ProcsShaped, Serving, UNCHANGED <<stores, files>>
  PROVE  Elsewhere
<1>1. CASE ServerStarts  BY <1>1 DEF ServerStarts, Elsewhere, ProcsShaped, stores
<1>2. CASE ServerStops
  <2>1. proc' = [p \in Procs |-> IF Kind(p) \in Requests THEN Idle ELSE proc[p]] /\ UNCHANGED told
    BY <1>2 DEF ServerStops
  <2>2. \A p \in Procs : proc'[p] = proc[p] \/ Kind(p)' \notin Actors
    BY <2>1 DEF Kind, Idle, Nothing, Actors
  <2>3. ProcsShaped'  BY <2>1 DEF ProcsShaped, Idle
  <2> QED  BY <2>1, <2>2, <2>3 DEF Elsewhere, stores
<1>3. CASE \E p \in Procs : Posting(p) \/ Generating(p)
  BY <1>3, PostingWorks, GeneratingWorks, WorkIsElsewhere DEF Actors
<1> QED  BY <1>1, <1>2, <1>3 DEF Serving

\* Nor are the people who work in the repository.
LEMMA PeopleAreElsewhere ==
  ASSUME ProcsShaped, People, UNCHANGED <<proc, told, files>>
  PROVE  Elsewhere
<1>1. UNCHANGED <<metadata, markdown, records, patches>>  BY DEF People, EngineChanges, stores
<1> QED  BY <1>1 DEF Elsewhere, ProcsShaped

\* Nor is a step in which nothing happens.
LEMMA StutteringIsElsewhere ==
  ASSUME ProcsShaped, UNCHANGED vars
  PROVE  Elsewhere
BY DEF vars, cmds, stores, Elsewhere, ProcsShaped

\* A command begins, ends, or reads HEAD.
LEMMA Begins ==
  ASSUME NEW p \in Procs, ProcsShaped, NEW ask, NEW pc, Begin(p, ask, pc)
  PROVE  Becomes(p, pc, ask, Nothing, Nothing, Nothing, Nothing)
<1>1. proc' = [proc EXCEPT ![p] = [Idle EXCEPT !.pc = pc, !.ask = ask]]  BY DEF Begin
<1>2. [Idle EXCEPT !.pc = pc, !.ask = ask] = Invocation(pc, ask, Nothing, Nothing, Nothing, Nothing)
  <2> DEFINE s == [Idle EXCEPT !.pc = pc, !.ask = ask]
  <2>1. /\ s = [x \in Fields |-> s[x]]
        /\ s.pc = pc /\ s.ask = ask /\ s.seen = Nothing /\ s.status = Nothing
        /\ s.again = Nothing /\ s.made = Nothing  BY DEF Idle, Fields
  <2> HIDE DEF s
  <2>2. s = Invocation(pc, ask, Nothing, Nothing, Nothing, Nothing)  BY <2>1, Extensional
  <2> QED  BY <2>2 DEF s
<1> QED  BY <1>1, <1>2, NewState

\* A command that ends leaves its process idle and the others as they were.
LEMMA Ends ==
  ASSUME NEW p \in Procs, ProcsShaped, proc' = [proc EXCEPT ![p] = Idle]
  PROVE  Becomes(p, "idle", Nothing, Nothing, Nothing, Nothing, Nothing) /\ Kind(p)' = "nothing"
<1>1. Idle = Invocation("idle", Nothing, Nothing, Nothing, Nothing, Nothing)
  BY DEF Idle, Invocation
<1>2. Becomes(p, "idle", Nothing, Nothing, Nothing, Nothing, Nothing)  BY <1>1, NewState
<1> QED  BY <1>2 DEF Becomes, Kind, Nothing

\* A command that reads HEAD goes on from "head" or from "headAgain".
LEMMA HeadIsAnswered ==
  ASSUME NEW p \in Procs, ProcsShaped, ReadsHead(p) \/ ReadsHeadAgain(p)
  PROVE  \E pc, seen, again :
           /\ Becomes(p, pc, proc[p].ask, seen, proc[p].status, again, proc[p].made)
           /\ \/ proc[p].pc = "head" /\ pc = "status" /\ seen.head = head
              \/ proc[p].pc = "headAgain" /\ pc = "statusAgain"
<1>1. HeadAnswer.head = head  BY DEF HeadAnswer
<1>2. CASE ReadsHead(p)
  <2>1. Becomes(p, "status", proc[p].ask, HeadAnswer, proc[p].status, proc[p].again, proc[p].made)
    BY <1>2, GoesOn DEF ReadsHead
  <2> QED  BY <1>1, <1>2, <2>1 DEF ReadsHead
<1>3. CASE ReadsHeadAgain(p)
  <2>1. Becomes(p, "statusAgain", proc[p].ask, proc[p].seen, proc[p].status, HeadAnswer, proc[p].made)
    BY <1>3, GoesOn DEF ReadsHeadAgain
  <2> QED  BY <1>3, <2>1 DEF ReadsHeadAgain
<1> QED  BY <1>2, <1>3

\* Who is none of them knows nothing.
LEMMA OthersKnowNothing ==
  ASSUME NEW p, Kind(p)' \notin Actors
  PROVE  Knows(p)'
BY DEF Actors, Knows, PromptKnows, RunKnows, RecordKnows, ApplyKnows

----------------------------------------
(* What stays known while others act *)

Grows ==
  /\ metadata \subseteq metadata' /\ markdown \subseteq markdown'
  /\ records \subseteq records' /\ patches \subseteq patches'

\* What a run changed does not depend on when it is asked.
LEMMA ChangedStays ==
  ASSUME Advances, NEW run, run.prompt.head \in 1..Len(commits)
  PROVE  Changed(run)' = Changed(run)
<1>1. commits'[run.prompt.head] = commits[run.prompt.head]  BY DEF Advances
<1> QED  BY <1>1 DEF Changed, BaseFiles, DiffNames

\* A run that is sound stays so: the commits it speaks of stay.
LEMMA RunStaysSound ==
  ASSUME Advances, Grows, StoresSound, NEW run, RunSound(run)
  PROVE  RunSound(run)'
<1>1. Changed(run)' = Changed(run)  BY ChangedStays DEF RunSound, StoresSound
<1>2. run.prompt \in metadata' \cap markdown' /\ IsClone(run.files)  BY DEF RunSound, Grows
<1>3. run.passed => run.prompt.head \in cleanAt'  BY DEF RunSound, Advances
<1> QED  BY <1>1, <1>2, <1>3 DEF RunSound, IsClone

\* Stores that do not move stay sound while the repository moves.
LEMMA StoresStaySound ==
  ASSUME Advances, StoresSound, UNCHANGED <<metadata, markdown, records, patches>>
  PROVE  StoresSound'
<1>1. Grows  BY DEF Grows
<1>2. \A run \in records : RunSound(run)'  BY <1>1, RunStaysSound DEF StoresSound
<1> QED  BY <1>2 DEF StoresSound, Advances

\* What backs an event goes on backing it while the stores grow.
LEMMA BacksStays ==
  ASSUME Grows, NEW run, NEW stage, NEW outcome, Backs(run, stage, outcome)
  PROVE  Backs(run, stage, outcome)'
BY DEF Grows, Backs

\* A HEAD at which the tree was clean was clean for good.
LEMMA CleanStays ==
  ASSUME RepositorySound, RepositorySound', Advances, NEW first, CleanBetween(first, head)
  PROVE  CleanBetween(first, head)'
<1>1. PICK h \in cleanAt : first <= h /\ h <= head  BY DEF CleanBetween
<1>2. h \in cleanAt' /\ h <= head'
  <2>1. h \in Nat /\ head \in Nat /\ head' \in Nat /\ head <= head'
    BY DEF RepositorySound, Advances, Numbered
  <2> QED  BY <1>1, <2>1 DEF Advances
<1> QED  BY <1>1, <1>2 DEF CleanBetween

\* What lay between two HEADs of this session still does after a later step.
LEMMA BetweenStays ==
  ASSUME Advances, NEW first, NEW last, CleanBetween(first, last)
  PROVE  CleanBetween(first, last)'
BY DEF CleanBetween, Advances

\* A HEAD that was read is still a commit, and none after the present HEAD.
LEMMA HeadStaysRead ==
  ASSUME RepositorySound, RepositorySound', Advances, NEW p, HeadRead(p), proc'[p].seen = proc[p].seen
  PROVE  HeadRead(p)'
<1>1. proc[p].seen.head \in 1..Len(commits') /\ proc[p].seen.head \in Nat /\ head \in Nat /\ head' \in Nat
  BY DEF HeadRead, Advances, RepositorySound, Numbered
<1> QED  BY <1>1 DEF HeadRead, Advances

\* What a command knows stays true when others act.
LEMMA KnowledgeStays ==
  ASSUME NEW p \in Procs, Knows(p), proc'[p] = proc[p],
         RepositorySound, RepositorySound', Advances, Grows, StoresSound
  PROVE  Knows(p)'
<1>1. Kind(p)' = Kind(p) /\ Rendered(p)' = Rendered(p)  BY DEF Kind, Rendered
<1>2. PromptKnows(p)'
  <2> SUFFICES ASSUME Kind(p) = "prompt" PROVE PromptKnows(p)'  BY <1>1 DEF PromptKnows
  <2>1. PromptKnows(p)  BY DEF Knows
  <2>2. proc[p].pc # "head" => HeadRead(p)'  BY <2>1, HeadStaysRead DEF PromptKnows
  <2>3. proc[p].pc = "headAgain" => CleanBetween(proc[p].seen.head, head)'
    BY <2>1, CleanStays DEF PromptKnows
  <2>4. proc[p].pc = "statusAgain" => CleanBetween(proc[p].seen.head, proc[p].again.head)'
    BY <2>1, BetweenStays DEF PromptKnows
  <2>5. cleanAt \subseteq cleanAt' /\ metadata \subseteq metadata'  BY DEF Advances, Grows
  <2> QED  BY <1>1, <2>1, <2>2, <2>3, <2>4, <2>5 DEF PromptKnows, CleanBetween
<1>3. RunKnows(p)'
  <2> SUFFICES ASSUME Kind(p) = "run" PROVE RunKnows(p)'  BY <1>1 DEF RunKnows
  <2>1. RunKnows(p)  BY DEF Knows
  <2> DEFINE prompt == proc[p].ask.prompt
             made == proc[p].made
  <2>2. prompt \in metadata' \cap markdown' /\ prompt.head \in 1..Len(commits)
    BY <2>1 DEF RunKnows, StoresSound, Grows
  <2>3. proc[p].pc = "status" => HeadRead(p)'  BY <2>1, HeadStaysRead DEF RunKnows
  <2>4. proc[p].pc \in {"engine", "sandbox", "headAgain"} => CleanBetween(prompt.head, head)'
    BY <2>1, CleanStays DEF RunKnows
  <2>5. proc[p].pc = "statusAgain" => CleanBetween(prompt.head, proc[p].again.head)'
    BY <2>1, BetweenStays DEF RunKnows
  <2>6. proc[p].pc \in {"headAgain", "statusAgain"} => Changed(made.run)' = Changed(made.run)
    BY <2>1, <2>2, ChangedStays DEF RunKnows
  <2>7. proc[p].pc \in {"record", "patch"} => RunSound(made)'  BY <2>1, RunStaysSound DEF RunKnows
  <2>8. proc[p].pc = "patch" => made \in records'  BY <2>1 DEF RunKnows, Grows
  <2>9. proc[p].pc \in {"headAgain", "statusAgain"} =>
         /\ made.run.prompt = prompt
         /\ IsClone(made.run.files)
         /\ made.passed =>
              made.run.code = "none" /\ Changed(made.run) \subseteq prompt.allowed \ Protected
    BY <2>1 DEF RunKnows
  <2>10. /\ proc[p].pc \in {"head", "status", "engine", "sandbox", "headAgain", "statusAgain", "record", "patch"}
         /\ proc[p].pc \in {"engine", "sandbox", "headAgain", "statusAgain"} => proc[p].seen.head = prompt.head
    BY <2>1 DEF RunKnows
  <2> QED  BY <1>1, <2>2, <2>3, <2>4, <2>5, <2>6, <2>7, <2>8, <2>9, <2>10 DEF RunKnows, CleanBetween, IsClone
<1>4. RecordKnows(p)'
  <2> SUFFICES ASSUME Kind(p) = "record" PROVE RecordKnows(p)'  BY <1>1 DEF RecordKnows
  <2>1. RecordKnows(p)  BY DEF Knows
  <2>2. Backs(proc[p].ask.run, proc[p].ask.stage, proc[p].ask.outcome)'
    BY <2>1, BacksStays DEF RecordKnows
  <2> QED  BY <1>1, <2>1, <2>2 DEF RecordKnows, Backs
<1>5. ApplyKnows(p)'  BY <1>1 DEF Knows, ApplyKnows, Grows
<1> QED  BY <1>2, <1>3, <1>4, <1>5 DEF Knows

----------------------------------------
(* The steps of prompt, agent run, state record and apply-patch *)

\* An invocation has taken a step and knows what it should.
Moved(p) ==
  /\ ProcsShaped'
  /\ \A q \in Procs : q # p => proc'[q] = proc[q]
  /\ Knows(p)'

\* An end of one of the four commands is a step that it may take.
LEMMA EndsMoved ==
  ASSUME NEW p \in Procs, ProcsShaped, proc' = [proc EXCEPT ![p] = Idle]
  PROVE  Moved(p)
<1>1. Becomes(p, "idle", Nothing, Nothing, Nothing, Nothing, Nothing) /\ Kind(p)' = "nothing"
  BY Ends
<1> QED  BY <1>1, OthersKnowNothing DEF Becomes, Moved, Actors

\* A HEAD that was clean between a commit and itself is that commit.
LEMMA Squeezed ==
  ASSUME RepositorySound, NEW c \in 1..Len(commits), CleanBetween(c, c)
  PROVE  c \in cleanAt
<1>1. PICK h \in cleanAt : c <= h /\ h <= c  BY DEF CleanBetween
<1>2. h \in Nat /\ c \in Nat  BY DEF RepositorySound, Numbered
<1> QED  BY <1>1, <1>2

\* HEAD as it is read now.
LEMMA HeadIsRead ==
  ASSUME RepositorySound, UNCHANGED git, NEW p, proc'[p].seen = HeadAnswer
  PROVE  HeadRead(p)'
BY DEF RepositorySound, HeadRead, HeadAnswer, git, disk, Numbered

\* Every step of "prompt render" is one it may take.
LEMMA PromptMoves ==
  ASSUME NEW p \in Procs, WorkspaceInv, RepositorySound', Advances, UNCHANGED git, Kind(p) = "prompt",
         \/ PromptReadsStatus(p) \/ PromptReadsStatusAgain(p) \/ PromptLinksMetadata(p)
         \/ PromptLinksMarkdown(p) \/ ReadsHead(p) \/ ReadsHeadAgain(p)
  PROVE  Moved(p)
<1> USE DEF WorkspaceInv
<1> DEFINE Comes(pc, made) == Becomes(p, pc, proc[p].ask, proc[p].seen, proc[p].status, proc[p].again, made)
<1>1. PromptKnows(p)  BY DEF Knows
<1>2. ASSUME NEW pc, NEW ask, NEW seen, NEW status, NEW again, NEW made,
             Becomes(p, pc, ask, seen, status, again, made), ask.kind = "prompt", PromptKnows(p)'
      PROVE  Moved(p)  BY <1>2 DEF Becomes, Moved, Kind, Knows, RunKnows, RecordKnows, ApplyKnows
<1>3. CASE PromptReadsStatus(p)
  <2>1. proc[p].pc = "status" /\ HeadRead(p)  BY <1>1, <1>3 DEF PromptReadsStatus, At, PromptKnows
  <2>2. CASE Goes(p, "render") /\ ~proc[p].ask.bundled
    <3>1. Comes("render", proc[p].made)  BY <2>2, GoesOn DEF Goes
    <3>2. HeadRead(p)'  BY <2>1, <3>1, HeadStaysRead DEF Becomes
    <3>3. PromptKnows(p)'  BY <2>2, <3>1, <3>2 DEF PromptKnows, Becomes
    <3> QED  BY <1>2, <3>1, <3>3 DEF Kind
  <2>3. CASE Refuses(p)  BY <2>3, EndsMoved DEF Refuses
  <2>4. CASE Goes(p, "headAgain") /\ proc[p].ask.bundled /\ IsClean(Porcelain)
    <3>1. Comes("headAgain", proc[p].made)  BY <2>4, GoesOn DEF Goes
    <3>2. HeadRead(p)'  BY <2>1, <3>1, HeadStaysRead DEF Becomes
    <3>3. CleanBetween(proc[p].seen.head, head)
      <4>1. head \in cleanAt /\ head \in Nat /\ proc[p].seen.head <= head
        BY <2>1, <2>4, CleanIsNoted DEF RepositorySound, Numbered, HeadRead
      <4> QED  BY <4>1 DEF CleanBetween
    <3>4. CleanBetween(proc[p].seen.head, head)'  BY <3>1, <3>3, CleanStays DEF Becomes
    <3>5. PromptKnows(p)'  BY <2>4, <3>1, <3>2, <3>4 DEF PromptKnows, Becomes
    <3> QED  BY <1>2, <3>1, <3>5 DEF Kind
  <2> QED  BY <1>3, <2>2, <2>3, <2>4, Zenon DEF PromptReadsStatus
<1>4. CASE PromptReadsStatusAgain(p)
  <2>1. /\ proc[p].pc = "statusAgain" /\ HeadRead(p)
        /\ CleanBetween(proc[p].seen.head, proc[p].again.head)
    BY <1>1, <1>4 DEF PromptReadsStatusAgain, At, PromptKnows
  <2>2. CASE Refuses(p)  BY <2>2, EndsMoved DEF Refuses
  <2>3. CASE Goes(p, "render") /\ proc[p].again.head = proc[p].seen.head
    <3>1. Comes("render", proc[p].made)  BY <2>3, GoesOn DEF Goes
    <3>2. HeadRead(p)'  BY <2>1, <3>1, HeadStaysRead DEF Becomes
    <3>3. proc[p].seen.head \in cleanAt  BY <2>1, <2>3, Squeezed DEF HeadRead
    <3>4. PromptKnows(p)'  BY <3>1, <3>2, <3>3 DEF PromptKnows, Becomes, Advances
    <3> QED  BY <1>2, <3>1, <3>4 DEF Kind
  <2> QED  BY <1>4, <2>2, <2>3 DEF PromptReadsStatusAgain
<1>5. CASE PromptLinksMetadata(p)
  <2>1. /\ proc[p].pc = "render" /\ HeadRead(p)
        /\ proc[p].ask.bundled => proc[p].seen.head \in cleanAt
    BY <1>1, <1>5 DEF PromptLinksMetadata, At, PromptKnows
  <2>2. Comes("markdown", proc[p].made)  BY <1>5, GoesOn DEF Goes, PromptLinksMetadata
  <2>3. HeadRead(p)'  BY <2>1, <2>2, HeadStaysRead DEF Becomes
  <2>4. Rendered(p)' = Rendered(p) /\ Rendered(p) \in metadata'
    BY <1>5, <2>2 DEF Rendered, Becomes, PromptLinksMetadata
  <2>5. PromptKnows(p)'  BY <2>1, <2>2, <2>3, <2>4 DEF PromptKnows, Becomes, Advances
  <2> QED  BY <1>2, <2>2, <2>5 DEF Kind
<1>6. CASE PromptLinksMarkdown(p)  BY <1>6, EndsMoved DEF PromptLinksMarkdown, Answers
<1>7. CASE ReadsHead(p)
  <2>1. Becomes(p, "status", proc[p].ask, HeadAnswer, proc[p].status, proc[p].again, proc[p].made)
    BY <1>7, GoesOn DEF ReadsHead
  <2>2. HeadRead(p)'  BY <2>1, HeadIsRead DEF Becomes
  <2>3. PromptKnows(p)'  BY <2>1, <2>2 DEF PromptKnows, Becomes
  <2> QED  BY <1>2, <2>1, <2>3 DEF Kind
<1>8. CASE ReadsHeadAgain(p)
  <2>1. /\ proc[p].pc = "headAgain" /\ HeadRead(p) /\ proc[p].ask.bundled
        /\ CleanBetween(proc[p].seen.head, head)  BY <1>1, <1>8 DEF ReadsHeadAgain, PromptKnows
  <2>2. Becomes(p, "statusAgain", proc[p].ask, proc[p].seen, proc[p].status, HeadAnswer, proc[p].made)
    BY <1>8, GoesOn DEF ReadsHeadAgain
  <2>3. HeadRead(p)'  BY <2>1, <2>2, HeadStaysRead DEF Becomes
  <2>4. proc'[p].again.head = head  BY <2>2 DEF Becomes, HeadAnswer
  <2>5. \E h \in cleanAt' : proc[p].seen.head <= h /\ h <= head  BY <2>1 DEF CleanBetween, Advances
  <2>6. CleanBetween(proc[p].seen.head, proc[p].again.head)'
    BY <2>2, <2>4, <2>5 DEF Becomes, CleanBetween
  <2>7. PromptKnows(p)'  BY <2>1, <2>2, <2>3, <2>6 DEF PromptKnows, Becomes
  <2> QED  BY <1>2, <2>2, <2>7 DEF Kind
<1> QED  BY <1>3, <1>4, <1>5, <1>6, <1>7, <1>8

\* Every step of "agent run" is one it may take.
LEMMA RunMoves ==
  ASSUME NEW p \in Procs, WorkspaceInv, RepositorySound', Advances, UNCHANGED git, Kind(p) = "run",
         \/ RunReadsStatus(p) \/ RunResolvesEngine(p) \/ AgentEnds(p) \/ RunReadsStatusAgain(p)
         \/ RunLinksRecord(p) \/ RunLinksPatch(p) \/ ReadsHead(p) \/ ReadsHeadAgain(p),
         Grows
  PROVE  Moved(p)
<1> USE DEF WorkspaceInv
<1> DEFINE prompt == proc[p].ask.prompt
           Comes(pc, made) == Becomes(p, pc, proc[p].ask, proc[p].seen, proc[p].status, proc[p].again, made)
           Since(last) == \E h \in cleanAt' : prompt.head <= h /\ h <= last
<1>1. RunKnows(p)  BY DEF Knows
<1>2. ASSUME NEW pc, NEW ask, NEW seen, NEW status, NEW again, NEW made,
             Becomes(p, pc, ask, seen, status, again, made), ask.kind = "run", RunKnows(p)'
      PROVE  Moved(p)  BY <1>2 DEF Becomes, Moved, Kind, Knows, PromptKnows, RecordKnows, ApplyKnows
<1>4. /\ prompt \in metadata \cap markdown /\ prompt \in metadata' \cap markdown'
      /\ prompt.head \in 1..Len(commits)  BY <1>1 DEF RunKnows, StoresSound, Grows
<1>5. ASSUME CleanBetween(prompt.head, head)
      PROVE  Since(head')
  <2>1. head' = head  BY DEF git
  <2> QED  BY <1>5, <2>1 DEF CleanBetween, Advances
<1>6. CASE RunReadsStatus(p)
  <2>1. proc[p].pc = "status" /\ HeadRead(p)  BY <1>1, <1>6 DEF RunReadsStatus, At, RunKnows
  <2>2. CASE Refuses(p)  BY <2>2, EndsMoved DEF Refuses
  <2>3. CASE /\ IsClean(Porcelain) /\ proc[p].seen.head = prompt.head
             /\ proc' = [proc EXCEPT ![p].pc = "engine", ![p].status = Porcelain]
    <3>1. Becomes(p, "engine", proc[p].ask, proc[p].seen, Porcelain, proc[p].again, proc[p].made)
      BY <2>3, GoesOn
    <3>2. CleanBetween(prompt.head, head)
      <4>1. head \in cleanAt /\ head \in Nat /\ prompt.head <= head
        BY <2>1, <2>3, CleanIsNoted DEF RepositorySound, Numbered, HeadRead
      <4> QED  BY <4>1 DEF CleanBetween
    <3>3. Since(head')  BY <3>2, <1>5
    <3>4. proc'[p].pc = "engine" /\ proc'[p].ask = proc[p].ask /\ proc'[p].seen = proc[p].seen
      BY <3>1 DEF Becomes
    <3>5. RunKnows(p)'  BY <1>4, <2>3, <3>3, <3>4 DEF RunKnows, CleanBetween
    <3> QED  BY <1>2, <3>1, <3>5 DEF Kind
  <2> QED  BY <1>6, <2>2, <2>3 DEF RunReadsStatus
<1>7. CASE RunResolvesEngine(p)
  <2>1. proc[p].pc = "engine" /\ proc[p].seen.head = prompt.head /\ CleanBetween(prompt.head, head)
    BY <1>1, <1>7 DEF RunResolvesEngine, At, RunKnows
  <2>2. CASE Refuses(p)  BY <2>2, EndsMoved DEF Refuses
  <2>3. CASE proc' = [proc EXCEPT ![p].pc = "sandbox", ![p].made = [engine |-> engine]]
    <3>1. Comes("sandbox", [engine |-> engine])  BY <2>3, GoesOn
    <3>2. Since(head')  BY <2>1, <1>5
    <3>3. RunKnows(p)'  BY <1>4, <2>1, <3>1, <3>2 DEF RunKnows, Becomes, CleanBetween
    <3> QED  BY <1>2, <3>1, <3>3 DEF Kind
  <2> QED  BY <1>7, <2>2, <2>3 DEF RunResolvesEngine
<1>8. CASE AgentEnds(p)
  <2>1. proc[p].pc = "sandbox" /\ proc[p].seen.head = prompt.head /\ CleanBetween(prompt.head, head)
    BY <1>1, <1>8 DEF AgentEnds, At, RunKnows
  <2> DEFINE Run(report, ended) ==
               [prompt |-> prompt, engine |-> proc[p].made.engine, code |-> report.code,
                verdict |-> report.verdict, files |-> ended]
             Made(report, ended, claimed, checksPass) ==
               [run |-> Run(report, ended),
                drifted |-> (~EngineResolves \/ engine # proc[p].made.engine),
                passed |-> /\ report.code = "none"
                           /\ Verified(Run(report, ended), claimed, checksPass)]
  <2>2. PICK report \in Reported(prompt), ended \in Worked(commits[prompt.head].files),
             claimed \in SUBSET Code, checksPass \in BOOLEAN :
          /\ report.code # "none" => claimed = {} /\ ~checksPass
          /\ prompt.stage \notin ScopedWriteStages => claimed = {}
          /\ proc' = [proc EXCEPT ![p].pc = "headAgain", ![p].made = Made(report, ended, claimed, checksPass)]
    BY ONLY <1>8, Zenon DEF AgentEnds
  <2> DEFINE made == Made(report, ended, claimed, checksPass)
  <2>3. made.run.prompt = prompt /\ made.run.files = ended /\ made.run.code = report.code  OBVIOUS
  <2>4. made.passed => made.run.code = "none" /\ Changed(made.run) \subseteq prompt.allowed \ Protected
    BY DEF Verified
  <2>5. IsClone(made.run.files)
    <3>1. IsClone(ended)  BY <2>2, SMTT(30) DEF Worked, IsClone
    <3> QED  BY <2>3, <3>1
  <2> HIDE DEF made
  <2>6. Comes("headAgain", made)  BY <2>2, GoesOn DEF made
  <2>7. Since(head')  BY <2>1, <1>5
  <2>8. proc'[p].made = made  BY <2>6 DEF Becomes
  <2>9. Changed(proc[p].made.run)' = Changed(made.run)
    BY <2>8, <2>3, <1>4, SMTT(30) DEF Changed, BaseFiles, DiffNames, Advances
  <2>10. RunKnows(p)'
    <3>1. /\ proc'[p].made.run.prompt = prompt
          /\ IsClone(proc'[p].made.run.files)
          /\ proc'[p].made.passed =>
               proc'[p].made.run.code = "none" /\ Changed(proc[p].made.run)' \subseteq prompt.allowed \ Protected
      BY <2>3, <2>4, <2>5, <2>8, <2>9, SMTT(30)
    <3>2. proc'[p].pc = "headAgain" /\ proc'[p].ask = proc[p].ask /\ proc'[p].seen = proc[p].seen
      BY <2>6 DEF Becomes
    <3> QED  BY <1>4, <2>1, <2>7, <3>1, <3>2 DEF RunKnows, CleanBetween, IsClone
  <2> QED  BY <1>2, <2>6, <2>10 DEF Kind
<1>9. CASE RunReadsStatusAgain(p)
  <2> DEFINE mutated == proc[p].again # proc[p].seen \/ Porcelain # proc[p].status
             run == proc[p].made.run
             record == [prompt |-> run.prompt, engine |-> run.engine, files |-> run.files,
                        code |-> IF mutated THEN "repository_mutated" ELSE run.code,
                        verdict |-> IF mutated THEN "none" ELSE run.verdict,
                        passed |-> proc[p].made.passed /\ ~mutated]
  <2>1. /\ proc[p].pc = "statusAgain" /\ proc[p].seen.head = prompt.head
        /\ CleanBetween(prompt.head, proc[p].again.head)
        /\ run.prompt = prompt
        /\ IsClone(run.files)
        /\ proc[p].made.passed => run.code = "none" /\ Changed(run) \subseteq prompt.allowed \ Protected
    BY <1>1, <1>9 DEF RunReadsStatusAgain, At, RunKnows
  <2>2. CASE Refuses(p)  BY <2>2, EndsMoved DEF Refuses
  <2>3. CASE proc' = [proc EXCEPT ![p].pc = "record", ![p].made = record]
    <3>1. /\ record.prompt = prompt /\ record.files = run.files /\ IsClone(record.files)
          /\ record.passed => ~mutated /\ proc[p].made.passed /\ record.code = "none"  BY <2>1
    <3>2. Changed(record) = Changed(run)  BY <2>1, <3>1 DEF Changed, BaseFiles
    <3>3. record.passed => prompt.head \in cleanAt
      <4> SUFFICES ASSUME record.passed PROVE prompt.head \in cleanAt  OBVIOUS
      <4>1. proc[p].again.head = prompt.head  BY <2>1, <3>1
      <4> QED  BY <1>4, <2>1, <4>1, Squeezed
    <3> HIDE DEF record, mutated
    <3>4. RunSound(record)  BY <1>4, <2>1, <3>1, <3>2, <3>3 DEF RunSound
    <3>5. Comes("record", record)  BY <2>3, GoesOn
    <3>6. proc'[p].made = record  BY <3>5 DEF Becomes
    <3>7. RunSound(proc[p].made)'  BY <3>4, <3>6, RunStaysSound
    <3>8. RunKnows(p)'  BY <1>4, <3>5, <3>7 DEF RunKnows, Becomes
    <3> QED  BY <1>2, <3>5, <3>8 DEF Kind
  <2> QED  BY <1>9, <2>2, <2>3 DEF RunReadsStatusAgain
<1>10. CASE RunLinksRecord(p)
  <2>1. proc[p].pc = "record" /\ RunSound(proc[p].made)
    BY <1>1, <1>10 DEF RunLinksRecord, At, RunKnows
  <2>2. Comes("patch", proc[p].made)  BY <1>10, GoesOn DEF RunLinksRecord, Goes
  <2>3. proc'[p].made = proc[p].made  BY <2>2 DEF Becomes
  <2>4. RunSound(proc[p].made)'  BY <2>1, <2>3, RunStaysSound
  <2>5. proc[p].made \in records'  BY <1>10 DEF RunLinksRecord
  <2>6. RunKnows(p)'  BY <1>4, <2>2, <2>4, <2>5 DEF RunKnows, Becomes
  <2> QED  BY <1>2, <2>2, <2>6 DEF Kind
<1>11. CASE RunLinksPatch(p)  BY <1>11, EndsMoved DEF RunLinksPatch, Answers, Refuses
<1>12. CASE ReadsHead(p)
  <2>1. Becomes(p, "status", proc[p].ask, HeadAnswer, proc[p].status, proc[p].again, proc[p].made)
    BY <1>12, GoesOn DEF ReadsHead
  <2>2. HeadRead(p)'  BY <2>1, HeadIsRead DEF Becomes
  <2>3. RunKnows(p)'  BY <1>4, <2>1, <2>2 DEF RunKnows, Becomes
  <2> QED  BY <1>2, <2>1, <2>3 DEF Kind
<1>13. CASE ReadsHeadAgain(p)
  <2>1. /\ proc[p].pc = "headAgain" /\ proc[p].seen.head = prompt.head /\ CleanBetween(prompt.head, head)
        /\ proc[p].made.run.prompt = prompt
        /\ IsClone(proc[p].made.run.files)
        /\ proc[p].made.passed =>
             proc[p].made.run.code = "none" /\ Changed(proc[p].made.run) \subseteq prompt.allowed \ Protected
    BY <1>1, <1>13 DEF ReadsHeadAgain, RunKnows
  <2>2. Becomes(p, "statusAgain", proc[p].ask, proc[p].seen, proc[p].status, HeadAnswer, proc[p].made)
    BY <1>13, GoesOn DEF ReadsHeadAgain
  <2>3. proc'[p].again.head = head  BY <2>2 DEF Becomes, HeadAnswer
  <2>4. Since(head)  BY <2>1, SMTT(30) DEF CleanBetween, Advances
  <2>5. Changed(proc[p].made.run)' = Changed(proc[p].made.run)
    <3>1. proc'[p].made = proc[p].made  BY <2>2, SMTT(30) DEF Becomes
    <3> QED  BY <2>1, <3>1, <1>4 DEF Changed, BaseFiles, DiffNames, Advances
  <2>6. /\ proc'[p].pc = "statusAgain" /\ proc'[p].ask = proc[p].ask /\ proc'[p].seen = proc[p].seen
        /\ proc'[p].made = proc[p].made  BY <2>2 DEF Becomes
  <2>7. RunKnows(p)'  BY <1>4, <2>1, <2>3, <2>4, <2>5, <2>6 DEF RunKnows, CleanBetween, IsClone
  <2> QED  BY <1>2, <2>2, <2>7 DEF Kind
<1> QED  BY <1>6, <1>7, <1>8, <1>9, <1>10, <1>11, <1>12, <1>13

\* The start of each of the four commands is a step it may take.
LEMMA StartsMove ==
  ASSUME NEW p \in Procs, WorkspaceInv, UNCHANGED <<git, stores>>,
         StartsPrompt(p) \/ StartsRun(p) \/ StartsRecord(p) \/ StartsApply(p)
  PROVE  Moved(p)
<1> DEFINE Begun(ask, pc) == Becomes(p, pc, ask, Nothing, Nothing, Nothing, Nothing)
<1>1. ASSUME NEW ask, NEW pc, Begin(p, ask, pc)
      PROVE  /\ ProcsShaped' /\ \A q \in Procs : q # p => proc'[q] = proc[q]
             /\ proc'[p].pc = pc /\ proc'[p].ask = ask /\ Kind(p)' = ask.kind
  <2>1. Begun(ask, pc)  BY <1>1, Begins DEF WorkspaceInv
  <2> QED  BY <2>1 DEF Becomes, Kind
<1> HIDE DEF Begun
<1>2. UNCHANGED <<metadata, markdown, records, patches>>  BY DEF stores
<1>3. CASE StartsPrompt(p)
  <2>1. PICK ask : ask.kind = "prompt" /\ Begin(p, ask, "head")  BY <1>3 DEF StartsPrompt
  <2>2. PromptKnows(p)'  BY <1>1, <2>1 DEF PromptKnows
  <2> QED  BY <1>1, <2>1, <2>2 DEF Moved, Knows, RunKnows, RecordKnows, ApplyKnows
<1>4. CASE StartsRun(p)
  <2>1. PICK prompt \in metadata : PromptLoads(prompt) /\ Begin(p, [kind |-> "run", prompt |-> prompt], "head")
    BY <1>4 DEF StartsRun
  <2>2. Kind(p)' = "run" /\ proc'[p].pc = "head" /\ proc'[p].ask.prompt = prompt  BY <1>1, <2>1
  <2>3. RunKnows(p)'  BY <1>2, <2>1, <2>2 DEF RunKnows, PromptLoads
  <2> QED  BY <1>1, <2>1, <2>2, <2>3 DEF Moved, Knows, PromptKnows, RecordKnows, ApplyKnows
<1>5. CASE StartsRecord(p)
  <2>1. PICK stage \in Stages, outcome \in Outcomes, cited \in records \cup {Nothing}, note \in Notes :
          /\ cited # Nothing => BacksEvent(cited, stage, outcome)
          /\ Begin(p, [kind |-> "record", stage |-> stage, outcome |-> outcome,
                       run |-> cited, note |-> note, history |-> files], "recordHead")
    BY <1>5 DEF StartsRecord
  <2>2. /\ Kind(p)' = "record" /\ proc'[p].pc = "recordHead" /\ proc'[p].ask.run = cited
        /\ proc'[p].ask.stage = stage /\ proc'[p].ask.outcome = outcome  BY <1>1, <2>1
  <2>3. RecordKnows(p)'  BY <1>2, <2>1, <2>2 DEF RecordKnows, Backs, BacksEvent, RunLoads
  <2> QED  BY <1>1, <2>1, <2>2, <2>3 DEF Moved, Knows, PromptKnows, RunKnows, ApplyKnows
<1>6. CASE StartsApply(p)
  <2>1. PICK run \in records :
          RunLoads(run) /\ run.passed /\ Begin(p, [kind |-> "apply", run |-> run], "applyHead")
    BY <1>6 DEF StartsApply
  <2>2. Kind(p)' = "apply" /\ proc'[p].ask.run = run  BY <1>1, <2>1
  <2>3. ApplyKnows(p)'  BY <1>2, <2>1, <2>2 DEF ApplyKnows, RunLoads
  <2> QED  BY <1>1, <2>1, <2>2, <2>3 DEF Moved, Knows, PromptKnows, RunKnows, RecordKnows
<1> QED  BY <1>3, <1>4, <1>5, <1>6

\* Every later step of "state record" is one it may take.
LEMMA RecordMoves ==
  ASSUME NEW p \in Procs, WorkspaceInv, UNCHANGED stores, Kind(p) = "record",
         RecordReadsHead(p) \/ AppendsEvent(p) \/ RecordAnswers(p) \/ ReadsHead(p) \/ ReadsHeadAgain(p)
  PROVE  Moved(p)
<1>1. RecordKnows(p) /\ ProcsShaped  BY DEF WorkspaceInv, Knows
<1>2. UNCHANGED <<metadata, markdown, records, patches>>  BY DEF stores
<1>3. ASSUME NEW pc, NEW made, made.run = proc[p].ask.run, made.stage = proc[p].ask.stage,
             made.outcome = proc[p].ask.outcome, pc \in {"append", "derive"},
             Becomes(p, pc, proc[p].ask, proc[p].seen, proc[p].status, proc[p].again, made)
      PROVE  Moved(p)
  <2>1. proc'[p].pc = pc /\ proc'[p].ask = proc[p].ask /\ proc'[p].made = made /\ Kind(p)' = "record"
    BY <1>3 DEF Becomes, Kind
  <2>2. RecordKnows(p)'  BY <1>1, <1>2, <1>3, <2>1 DEF RecordKnows, Backs
  <2> QED  BY <1>3, <2>1, <2>2 DEF Becomes, Moved, Knows, PromptKnows, RunKnows, ApplyKnows
<1>4. CASE RecordReadsHead(p)
  <2> DEFINE made == WorkflowEvent(proc[p].ask, proc[p].ask.history)
  <2>1. made.run = proc[p].ask.run /\ made.stage = proc[p].ask.stage /\ made.outcome = proc[p].ask.outcome
    BY DEF WorkflowEvent
  <2> HIDE DEF made
  <2>2. Becomes(p, "append", proc[p].ask, proc[p].seen, proc[p].status, proc[p].again, made)
    BY <1>1, <1>4, GoesOn DEF RecordReadsHead, made
  <2> QED  BY <1>3, <2>1, <2>2
<1>5. CASE AppendsEvent(p)
  <2>1. proc[p].pc = "append"  BY <1>5 DEF AppendsEvent, At
  <2>2. CASE Goes(p, "derive")
    <3>1. Becomes(p, "derive", proc[p].ask, proc[p].seen, proc[p].status, proc[p].again, proc[p].made)
      BY <1>1, <2>2, GoesOn DEF Goes
    <3> QED  BY <1>1, <1>3, <2>1, <3>1 DEF RecordKnows
  <2>3. CASE Refuses(p)  BY <1>1, <2>3, EndsMoved DEF Refuses
  <2> QED  BY <1>5, <2>2, <2>3, Zenon DEF AppendsEvent
<1>6. CASE RecordAnswers(p)  BY <1>1, <1>6, EndsMoved DEF RecordAnswers, Answers, Refuses
<1>7. CASE ReadsHead(p) \/ ReadsHeadAgain(p)
  BY <1>1, <1>7 DEF ReadsHead, ReadsHeadAgain, RecordKnows
<1> QED  BY <1>4, <1>5, <1>6, <1>7

\* Every later step of apply-patch is one it may take.
LEMMA ApplyMoves ==
  ASSUME NEW p \in Procs, WorkspaceInv, UNCHANGED stores, Kind(p) = "apply",
         \/ ApplyReadsHead(p) \/ ApplyReadsStatus(p) \/ ApplyChecks(p) \/ ApplyApplies(p)
         \/ ApplyAnswers(p) \/ ReadsHead(p) \/ ReadsHeadAgain(p)
  PROVE  Moved(p)
<1>1. ApplyKnows(p) /\ ProcsShaped  BY DEF WorkspaceInv, Knows
<1>2. UNCHANGED <<metadata, markdown, records, patches>>  BY DEF stores
<1>3. ASSUME NEW pc, NEW seen, NEW again,
             Becomes(p, pc, proc[p].ask, seen, proc[p].status, again, proc[p].made)
      PROVE  Moved(p)
  <2>1. proc'[p].ask = proc[p].ask /\ Kind(p)' = "apply"  BY <1>3 DEF Becomes, Kind
  <2>2. ApplyKnows(p)'  BY <1>1, <1>2, <2>1 DEF ApplyKnows
  <2> QED  BY <1>3, <2>1, <2>2 DEF Becomes, Moved, Knows, PromptKnows, RunKnows, RecordKnows
<1>4. ASSUME NEW pc, Goes(p, pc) PROVE Moved(p)
  <2>1. Becomes(p, pc, proc[p].ask, proc[p].seen, proc[p].status, proc[p].again, proc[p].made)
    BY <1>1, <1>4, GoesOn DEF Goes
  <2> QED  BY <1>3, <2>1
<1>5. ASSUME Refuses(p) \/ \E report : Answers(p, report) PROVE Moved(p)
  BY <1>1, <1>5, EndsMoved DEF Refuses, Answers
<1>6. CASE ApplyReadsHead(p) \/ ApplyReadsStatus(p) \/ ApplyChecks(p) \/ ApplyApplies(p) \/ ApplyAnswers(p)
  BY <1>4, <1>5, <1>6 DEF ApplyReadsHead, ApplyReadsStatus, ApplyChecks, ApplyApplies, ApplyAnswers
<1>7. CASE ReadsHead(p)
  <2>1. Becomes(p, "status", proc[p].ask, HeadAnswer, proc[p].status, proc[p].again, proc[p].made)
    BY <1>1, <1>7, GoesOn DEF ReadsHead
  <2> QED  BY <1>3, <2>1
<1>8. CASE ReadsHeadAgain(p)
  <2>1. Becomes(p, "statusAgain", proc[p].ask, proc[p].seen, proc[p].status, HeadAnswer, proc[p].made)
    BY <1>1, <1>8, GoesOn DEF ReadsHeadAgain
  <2> QED  BY <1>3, <2>1
<1> QED  BY <1>6, <1>7, <1>8

----------------------------------------
(* The invariant *)

\* The stores after a step of a prompt or a run.
LEMMA StoresGrow ==
  ASSUME NEW p \in Procs, WorkspaceInv, Advances, Prompting(p) \/ Running(p)
  PROVE  Grows /\ StoresSound'
<1> USE DEF WorkspaceInv
<1>1. ASSUME UNCHANGED stores PROVE Grows /\ StoresSound'
  BY <1>1, StoresStaySound DEF stores, Grows
<1>2. CASE PromptLinksMetadata(p)
  <2>1. /\ metadata' = metadata \cup {Rendered(p)}
        /\ UNCHANGED <<markdown, records, patches>>  BY <1>2 DEF PromptLinksMetadata
  <2>2. PromptKnows(p) /\ Kind(p) = "prompt" /\ proc[p].pc = "render"
    BY <1>2 DEF Knows, PromptLinksMetadata, At
  <2>3. /\ Rendered(p).head \in 1..Len(commits)
        /\ Rendered(p).bundled => Rendered(p).head \in cleanAt
    BY <2>2 DEF PromptKnows, HeadRead, Rendered
  <2>4. Grows  BY <2>1 DEF Grows
  <2>5. \A run \in records' : RunSound(run)'  BY <2>1, <2>4, RunStaysSound DEF StoresSound
  <2>6. \A prompt \in metadata' :
          prompt.head \in 1..Len(commits) /\ (prompt.bundled => prompt.head \in cleanAt)
    BY <2>1, <2>3 DEF StoresSound
  <2> QED  BY <2>1, <2>4, <2>5, <2>6 DEF StoresSound, Advances
<1>3. CASE PromptLinksMarkdown(p)
  <2>1. /\ markdown' = markdown \cup {Rendered(p)}
        /\ UNCHANGED <<metadata, records, patches>>  BY <1>3 DEF PromptLinksMarkdown
  <2>2. Rendered(p) \in metadata  BY <1>3 DEF Knows, PromptKnows, PromptLinksMarkdown, At
  <2>4. Grows  BY <2>1 DEF Grows
  <2>5. \A run \in records' : RunSound(run)'  BY <2>1, <2>4, RunStaysSound DEF StoresSound
  <2> QED  BY <2>1, <2>2, <2>4, <2>5 DEF StoresSound, Advances
<1>4. CASE RunLinksRecord(p)
  <2>1. /\ records' = records \cup {proc[p].made}
        /\ UNCHANGED <<metadata, markdown, patches>>  BY <1>4 DEF RunLinksRecord
  <2>2. RunSound(proc[p].made)  BY <1>4 DEF Knows, RunKnows, RunLinksRecord, At
  <2>4. Grows  BY <2>1 DEF Grows
  <2>5. \A run \in records' : RunSound(run)  BY <2>1, <2>2 DEF StoresSound
  <2>6. \A run : RunSound(run) => RunSound(run)'  BY <2>4, RunStaysSound
  <2> QED  BY <2>1, <2>4, <2>5, <2>6 DEF StoresSound, Advances
<1>5. CASE RunLinksPatch(p)
  <2>1. Grows /\ UNCHANGED <<metadata, markdown, records>>  BY <1>5 DEF RunLinksPatch, Grows
  <2>2. \A run \in records' : RunSound(run)'  BY <2>1, RunStaysSound DEF StoresSound
  <2> QED  BY <2>1, <2>2 DEF StoresSound, Advances
<1>6. CASE \/ StartsPrompt(p) \/ PromptReadsStatus(p) \/ PromptReadsStatusAgain(p)
           \/ StartsRun(p) \/ RunReadsStatus(p) \/ RunResolvesEngine(p) \/ AgentEnds(p)
           \/ RunReadsStatusAgain(p)
  BY <1>1, <1>6 DEF StartsPrompt, PromptReadsStatus, PromptReadsStatusAgain, StartsRun,
     RunReadsStatus, RunResolvesEngine, AgentEnds, RunReadsStatusAgain
<1> QED  BY <1>2, <1>3, <1>4, <1>5, <1>6 DEF Prompting, Running

\* Events go on resting on their runs while stores and history grow.
LEMMA EventsStaySound ==
  ASSUME EventsSound, Grows, UNCHANGED files
  PROVE  EventsSound'
BY BacksStays DEF EventsSound, Numbered

\* The event files after a step of state record.
LEMMA EventsGrow ==
  ASSUME NEW p \in Procs, WorkspaceInv, Recording(p)
  PROVE  EventsSound' /\ UNCHANGED stores
<1>1. UNCHANGED stores  BY DEF Recording, StartsRecord, RecordReadsHead, AppendsEvent, RecordAnswers
<1>2. Grows  BY <1>1 DEF stores, Grows
<1>3. CASE UNCHANGED files  BY <1>1, <1>2, <1>3, EventsStaySound DEF WorkspaceInv
<1>4. CASE At(p, "record", "append") /\ files' = Append(files, proc[p].made)
  <2> DEFINE event == proc[p].made
  <2>1. RecordKnows(p) /\ EventsSound  BY DEF WorkspaceInv, Knows
  <2>2. Backs(event.run, event.stage, event.outcome)  BY <1>4, <2>1 DEF RecordKnows, At
  <2> HIDE DEF event
  <2>3. files' = Append(files, event)  BY <1>4 DEF event
  <2>4. /\ Numbered(files') /\ Len(files') = Len(files) + 1
        /\ \A n \in 1..Len(files) : files'[n] = files[n]
        /\ files'[Len(files) + 1] = event  BY <2>1, <2>3, NumberedAppend DEF EventsSound
  <2>5. Len(files) \in Nat  BY <2>1 DEF EventsSound, Numbered
  <2>6. \A n \in 1..Len(files') : Backs(files'[n].run, files'[n].stage, files'[n].outcome)
    BY <2>1, <2>2, <2>4, <2>5 DEF EventsSound
  <2>7. \A n \in 1..Len(files') : Backs(files[n].run, files[n].stage, files[n].outcome)'
    BY <1>1, <2>6 DEF Backs, stores
  <2> QED  BY <1>1, <2>4, <2>7 DEF EventsSound, Numbered
<1>5. UNCHANGED files \/ (At(p, "record", "append") /\ files' = Append(files, proc[p].made))
  <2>1. CASE AppendsEvent(p)  BY <2>1, Zenon DEF AppendsEvent
  <2> QED  BY <2>1 DEF Recording, StartsRecord, RecordReadsHead, RecordAnswers
<1> QED  BY <1>1, <1>3, <1>4, <1>5

\* A command that reads HEAD and is none of the four.
LEMMA StatusesMove ==
  ASSUME NEW p \in Procs, WorkspaceInv, RepositorySound', Advances, Statuses(p)
  PROVE  Moved(p)
<1>1. UNCHANGED git /\ UNCHANGED stores /\ Grows /\ ProcsShaped
  BY DEF Statuses, WorkspaceInv, Grows, stores
<1>2. CASE Dies(p)  BY <1>1, <1>2, EndsMoved DEF Dies, Refuses
<1>3. CASE ReadsHead(p) \/ ReadsHeadAgain(p)
  <2>1. CASE Kind(p) \in Actors
    BY <1>1, <1>3, <2>1, PromptMoves, RunMoves, RecordMoves, ApplyMoves DEF Actors
  <2>2. CASE Kind(p) \notin Actors
    <3>1. \E pc, seen, again : Becomes(p, pc, proc[p].ask, seen, proc[p].status, again, proc[p].made)
      BY <1>1, <1>3, HeadIsAnswered
    <3>2. Kind(p)' = Kind(p)  BY <3>1 DEF Becomes, Kind
    <3>3. Knows(p)'  BY <2>2, <3>2, OthersKnowNothing
    <3> QED  BY <3>1, <3>3 DEF Moved, Becomes
  <2> QED  BY <2>1, <2>2
<1> QED  BY <1>2, <1>3 DEF Statuses

\* After one invocation's step the others know what they knew.
LEMMA MovedKeepsInv ==
  ASSUME NEW p \in Procs, WorkspaceInv, RepositorySound', Advances, Moved(p), Grows,
         StoresSound', EventsSound'
  PROVE  WorkspaceInv'
<1>1. \A q \in Procs : Knows(q)'
  <2> SUFFICES ASSUME NEW q \in Procs, q # p PROVE Knows(q)'  BY DEF Moved
  <2>1. proc'[q] = proc[q] /\ Knows(q)  BY DEF Moved, WorkspaceInv
  <2> QED  BY <2>1, KnowledgeStays DEF WorkspaceInv
<1> QED  BY <1>1 DEF WorkspaceInv, Moved

\* What happens elsewhere keeps the invariant.
LEMMA ElsewhereKeepsInv ==
  ASSUME WorkspaceInv, RepositorySound', Advances, Elsewhere
  PROVE  WorkspaceInv'
<1>1. Grows  BY DEF Elsewhere, Grows
<1>2. \A p \in Procs : Knows(p)'
  <2> SUFFICES ASSUME NEW p \in Procs PROVE Knows(p)'  OBVIOUS
  <2>1. CASE proc'[p] = proc[p]  BY <1>1, <2>1, KnowledgeStays DEF WorkspaceInv
  <2>2. CASE Kind(p)' \notin Actors  BY <2>2, OthersKnowNothing
  <2> QED  BY <2>1, <2>2 DEF Elsewhere
<1>3. StoresSound'  BY StoresStaySound DEF WorkspaceInv, Elsewhere
<1>4. EventsSound'  BY <1>1, EventsStaySound DEF WorkspaceInv, Elsewhere
<1> QED  BY <1>2, <1>3, <1>4 DEF WorkspaceInv, Elsewhere

\* A step of one of the four commands, or of one that reads its status.
ActsFor(p) ==
  /\ Prompting(p) \/ Running(p) \/ Recording(p) \/ Applying(p) \/ Statuses(p)
  /\ Moved(p)
  /\ Grows /\ StoresSound' /\ EventsSound'

\* The commands that deliver leave the evidence alone.
LEMMA DeliveriesLeave ==
  ASSUME NEW p \in Procs, Committing(p) \/ Pushing(p) \/ Applying(p)
  PROVE  UNCHANGED <<stores, files>>
BY DEF Committing, StartsCommit, CommitReadsStatus, CommitStages, CommitChecksStaged, CommitUnstages,
   CommitCommits, CommitVerifies, Pushing, StartsPush, PushReadsStatus, PushCounts, PushPushes,
   Applying, StartsApply, ApplyReadsHead, ApplyReadsStatus, ApplyChecks, ApplyApplies, ApplyAnswers

\* Every step is such a step or takes no part in the evidence.
LEMMA EveryStep ==
  ASSUME WorkspaceInv, [Next]_vars
  PROVE  Elsewhere \/ \E p \in Procs : ActsFor(p)
<1>1. RepositorySound /\ ProcsShaped  BY DEF WorkspaceInv
<1>2. RepositorySound' /\ Advances  BY <1>1, StepMovesRepository, RepositoryAdvances
<1>3. ASSUME NEW p \in Procs, Prompting(p) /\ UNCHANGED files PROVE ActsFor(p)
  <2>1. Grows /\ StoresSound' /\ EventsSound'
    BY <1>2, <1>3, StoresGrow, EventsStaySound DEF WorkspaceInv
  <2>2. UNCHANGED git  BY <1>3, PromptingRests
  <2>3. Moved(p)
    <3>1. CASE StartsPrompt(p)  BY <3>1, <2>2, StartsMove DEF StartsPrompt
    <3>2. CASE PromptReadsStatus(p) \/ PromptReadsStatusAgain(p) \/ PromptLinksMetadata(p)
               \/ PromptLinksMarkdown(p)
      <4>1. Kind(p) = "prompt"
        BY <3>2 DEF PromptReadsStatus, PromptReadsStatusAgain, PromptLinksMetadata, PromptLinksMarkdown, At
      <4> QED  BY <1>2, <2>2, <3>2, <4>1, PromptMoves
    <3> QED  BY <1>3, <3>1, <3>2 DEF Prompting
  <2> QED  BY <1>3, <2>1, <2>3 DEF ActsFor
<1>4. ASSUME NEW p \in Procs, Running(p) /\ UNCHANGED files PROVE ActsFor(p)
  <2>1. Grows /\ StoresSound' /\ EventsSound'
    BY <1>2, <1>4, StoresGrow, EventsStaySound DEF WorkspaceInv
  <2>2. UNCHANGED git  BY <1>4, RunningRests
  <2>3. Moved(p)
    <3>1. CASE StartsRun(p)  BY <3>1, <2>2, StartsMove DEF StartsRun
    <3>2. CASE RunReadsStatus(p) \/ RunResolvesEngine(p) \/ AgentEnds(p) \/ RunReadsStatusAgain(p)
               \/ RunLinksRecord(p) \/ RunLinksPatch(p)
      <4>1. Kind(p) = "run"
        BY <3>2 DEF RunReadsStatus, RunResolvesEngine, AgentEnds, RunReadsStatusAgain,
           RunLinksRecord, RunLinksPatch, At
      <4> QED  BY <1>2, <2>1, <2>2, <3>2, <4>1, RunMoves
    <3> QED  BY <1>4, <3>1, <3>2 DEF Running
  <2> QED  BY <1>4, <2>1, <2>3 DEF ActsFor
<1>5. ASSUME NEW p \in Procs, Recording(p) PROVE ActsFor(p)
  <2>1. EventsSound' /\ UNCHANGED stores  BY <1>5, EventsGrow
  <2>2. Grows /\ StoresSound'  BY <1>2, <2>1, StoresStaySound DEF WorkspaceInv, Grows, stores
  <2>3. UNCHANGED git  BY <1>5, RecordingRests
  <2>4. Moved(p)
    <3>1. CASE StartsRecord(p)  BY <2>1, <2>3, <3>1, StartsMove
    <3>2. CASE RecordReadsHead(p) \/ AppendsEvent(p) \/ RecordAnswers(p)
      <4>1. Kind(p) = "record"  BY <3>2 DEF RecordReadsHead, AppendsEvent, RecordAnswers, At
      <4> QED  BY <2>1, <3>2, <4>1, RecordMoves
    <3> QED  BY <1>5, <3>1, <3>2 DEF Recording
  <2> QED  BY <1>5, <2>1, <2>2, <2>4 DEF ActsFor
<1>6. ASSUME NEW p \in Procs, Applying(p) PROVE ActsFor(p)
  <2>1. UNCHANGED <<stores, files>>  BY <1>6, DeliveriesLeave
  <2>2. Grows /\ StoresSound' /\ EventsSound'
    BY <1>2, <2>1, StoresStaySound, EventsStaySound DEF WorkspaceInv, Grows, stores
  <2>3. Moved(p)
    <3>1. CASE StartsApply(p)  BY <2>1, <3>1, StartsMove DEF StartsApply
    <3>2. CASE ApplyReadsHead(p) \/ ApplyReadsStatus(p) \/ ApplyChecks(p) \/ ApplyApplies(p) \/ ApplyAnswers(p)
      <4>1. Kind(p) = "apply"
        BY <3>2 DEF ApplyReadsHead, ApplyReadsStatus, ApplyChecks, ApplyApplies, ApplyAnswers, At
      <4> QED  BY <2>1, <3>2, <4>1, ApplyMoves
    <3> QED  BY <1>6, <3>1, <3>2 DEF Applying
  <2> QED  BY <1>6, <2>2, <2>3 DEF ActsFor
<1>7. ASSUME NEW p \in Procs, Committing(p) \/ Pushing(p) \/ (Gating(p) /\ UNCHANGED <<stores, files>>)
      PROVE  Elsewhere
  <2>1. UNCHANGED <<stores, files>>  BY <1>7, DeliveriesLeave
  <2> QED  BY <1>1, <1>7, <2>1, CommittingWorks, PushingWorks, GatingWorks, WorkIsElsewhere DEF Actors
<1>8. ASSUME NEW p \in Procs, Statuses(p) PROVE ActsFor(p)
  <2>1. UNCHANGED <<stores, files>>  BY <1>8 DEF Statuses
  <2>2. Grows /\ StoresSound' /\ EventsSound'
    BY <1>2, <2>1, StoresStaySound, EventsStaySound DEF WorkspaceInv, Grows, stores
  <2> QED  BY <1>2, <1>8, <2>2, StatusesMove DEF ActsFor
<1>9. CASE Steps
  <2>1. CASE People /\ UNCHANGED <<proc, told, files>>  BY <1>1, <2>1, PeopleAreElsewhere
  <2> QED  BY <1>9, <2>1, <1>3, <1>4, <1>5, <1>6, <1>7, <1>8 DEF Steps
<1>10. CASE (\E p \in Procs : Proposing(p)) /\ UNCHANGED <<stores, files>>
  BY <1>1, <1>10, ProposingWorks, WorkIsElsewhere DEF Actors
<1>11. CASE Serving /\ UNCHANGED <<stores, files>>  BY <1>1, <1>11, ServingIsElsewhere
<1>12. CASE UNCHANGED vars  BY <1>1, <1>12, StutteringIsElsewhere
<1> QED  BY <1>9, <1>10, <1>11, <1>12 DEF Next

\* Every step keeps the invariant.
LEMMA WorkspaceInvStays ==
  ASSUME WorkspaceInv, [Next]_vars
  PROVE  WorkspaceInv'
<1>1. RepositorySound' /\ Advances  BY StepMovesRepository, RepositoryAdvances DEF WorkspaceInv
<1>2. CASE Elsewhere  BY <1>1, <1>2, ElsewhereKeepsInv
<1>3. CASE \E p \in Procs : ActsFor(p)  BY <1>1, <1>3, MovedKeepsInv DEF ActsFor
<1> QED  BY <1>2, <1>3, EveryStep

\* Every beginning has it.
LEMMA WorkspaceInvStarts ==
  ASSUME Init
  PROVE  WorkspaceInv
<1>1. PICK b \in Beginnings :
       /\ commits = b.commits
       /\ head = Len(b.commits) /\ tracking = b.remote /\ remote = b.remote
       /\ tree = b.tree
       /\ index = b.commits[Len(b.commits)].files
       /\ cleanAt = 1..Len(b.commits)
       /\ metadata = b.prompts /\ markdown = b.prompts
       /\ records = b.runs /\ patches = b.runs
       /\ files = b.history  BY DEF Init
<1>2. /\ \E n \in 1..MaxCommits : b.commits = [c \in 1..n |-> b.commits[c]]
      /\ \A c \in DOMAIN b.commits : IsClone(b.commits[c].files)
      /\ b.remote \in DOMAIN b.commits
      /\ IsClone(b.tree)
      /\ \A prompt \in b.prompts : prompt.head \in DOMAIN b.commits
      /\ \A run \in b.runs :
           /\ run.prompt \in b.prompts
           /\ IsClone(run.files)
           /\ run.passed =>
                /\ run.code = "none"
                /\ DiffNames(b.commits[run.prompt.head].files, run.files)
                     \subseteq run.prompt.allowed \ Protected
      /\ \E n \in 0..MaxHistory : b.history = [i \in 1..n |-> b.history[i]]
      /\ \A i \in DOMAIN b.history :
           b.history[i].run # Nothing =>
             /\ b.history[i].run \in b.runs /\ b.history[i].run.passed
             /\ b.history[i].run.prompt.stage = b.history[i].stage
             /\ b.history[i].outcome \in Verdicts => b.history[i].run.verdict = b.history[i].outcome
  BY BeginningsAssumption DEF IsClone
<1>3. Numbered(commits) /\ Len(commits) \in Nat \ {0} /\ DOMAIN commits = 1..Len(commits)
  <2>1. PICK n \in 1..MaxCommits : b.commits = [c \in 1..n |-> b.commits[c]]  BY <1>2
  <2>2. n \in Nat \ {0}  BY <2>1, GitAssumption
  <2>3. Numbered(b.commits) /\ Len(b.commits) = n  BY <2>1, <2>2, SeqIsNumbered
  <2>4. DOMAIN b.commits = 1..n  BY <2>1
  <2> QED  BY <1>1, <2>2, <2>3, <2>4
<1>4. RepositorySound  BY <1>1, <1>2, <1>3 DEF RepositorySound
<1>5. StoresSound  BY <1>1, <1>2, <1>3 DEF StoresSound, RunSound, Changed, BaseFiles
<1>6. EventsSound
  <2>1. PICK n \in 0..MaxHistory : b.history = [i \in 1..n |-> b.history[i]]  BY <1>2
  <2>2. n \in Nat  BY <2>1
  <2>3. Numbered(b.history) /\ Len(b.history) = n  BY <2>1, <2>2, SeqIsNumbered
  <2>4. DOMAIN b.history = 1..n  BY <2>1
  <2> QED  BY <1>1, <1>2, <2>3, <2>4 DEF EventsSound, Backs, Numbered
<1>7. ProcsShaped /\ \A p \in Procs : Knows(p)
  <2>1. proc = [p \in Procs |-> Idle]  BY DEF Init
  <2>2. \A p \in Procs : Kind(p) = "nothing"  BY <2>1 DEF Kind, Idle, Nothing
  <2>3. ProcsShaped  BY <2>1 DEF ProcsShaped, Idle
  <2> QED  BY <2>2, <2>3 DEF Knows, PromptKnows, RunKnows, RecordKnows, ApplyKnows
<1> QED  BY <1>4, <1>5, <1>6, <1>7 DEF WorkspaceInv

\* The invariant holds always.
THEOREM WorkspaceSound == Spec => []WorkspaceInv
<1>1. Init => WorkspaceInv  BY WorkspaceInvStarts
<1>2. WorkspaceInv /\ [Next]_vars => WorkspaceInv'  BY WorkspaceInvStays
<1> QED  BY <1>1, <1>2, PTL DEF Spec

\* What a stored prompt with bundles, or a stored run that passed, says of the
\* repository was so, whatever people did between the pieces of its status.
THEOREM EvidenceAlwaysClean == Spec => []EvidenceIsOfACleanHead
<1>1. WorkspaceInv => EvidenceIsOfACleanHead
  BY DEF WorkspaceInv, StoresSound, RunSound, EvidenceIsOfACleanHead
<1> QED  BY <1>1, WorkspaceSound, PTL

\* An event that cites a run rests on one that is stored whole, passed, and
\* kept to its scope, wherever savers of runs and prompts were killed.
THEOREM EventsAlwaysRest == Spec => []EventsRestOnRuns
<1>1. ASSUME WorkspaceInv PROVE EventsRestOnRuns
  <2>1. DOMAIN files = 1..Len(files)  BY <1>1 DEF WorkspaceInv, EventsSound, Numbered
  <2> SUFFICES ASSUME NEW n \in 1..Len(files), files[n].run # Nothing
               PROVE  LET event == files[n]
                          run == event.run
                      IN  /\ run \in records \cap patches
                          /\ run.prompt \in metadata \cap markdown
                          /\ run.code = "none" /\ run.passed
                          /\ run.prompt.stage = event.stage
                          /\ event.outcome \in Verdicts => run.verdict = event.outcome
                          /\ Changed(run) \subseteq run.prompt.allowed \ Protected
    BY <2>1 DEF EventsRestOnRuns
  <2>2. Backs(files[n].run, files[n].stage, files[n].outcome)  BY <1>1 DEF WorkspaceInv, EventsSound
  <2>3. RunSound(files[n].run)  BY <1>1, <2>2 DEF WorkspaceInv, StoresSound, Backs
  <2> QED  BY <2>2, <2>3 DEF Backs, RunSound
<1> QED  BY <1>1, WorkspaceSound, PTL

\* Only git apply brings apply-patch past its write.
LEMMA OnlyGitApplies ==
  ASSUME WorkspaceInv, [Next]_vars, NEW p \in Procs,
         At(p, "apply", "apply"), At(p, "apply", "applied")'
  PROVE  GitApply(BaseFiles(proc[p].ask.run), proc[p].ask.run.files)
<1>1. proc'[p] # proc[p] /\ Kind(p) = "apply" /\ Kind(p)' = "apply" /\ proc[p].pc = "apply" /\ proc'[p].pc = "applied"
  BY DEF At
<1>2. proc[p] # Idle /\ proc'[p] # Idle  BY <1>1 DEF Kind, Idle, Nothing
<1>3. ~Elsewhere  BY <1>1 DEF Elsewhere, Actors
<1>4. ActsFor(p)  BY <1>1, <1>3, EveryStep DEF ActsFor, Moved
<1>5. ~Prompting(p)
  BY <1>1, <1>2 DEF Prompting, StartsPrompt, PromptReadsStatus, PromptReadsStatusAgain,
     PromptLinksMetadata, PromptLinksMarkdown, At, Begin
<1>6. ~Running(p)
  BY <1>1, <1>2 DEF Running, StartsRun, RunReadsStatus, RunResolvesEngine, AgentEnds,
     RunReadsStatusAgain, RunLinksRecord, RunLinksPatch, At, Begin
<1>7. ~Recording(p)
  BY <1>1, <1>2 DEF Recording, StartsRecord, RecordReadsHead, AppendsEvent, RecordAnswers, At, Begin
<1>8. ~Statuses(p)
  <2>1. ~ReadsHead(p) /\ ~ReadsHeadAgain(p)  BY <1>1 DEF ReadsHead, ReadsHeadAgain
  <2>2. ~Dies(p)
    <3>1. ASSUME Dies(p) PROVE FALSE
      <4>1. Kind(p)' = "nothing"  BY <3>1, Ends DEF Dies, Refuses, WorkspaceInv
      <4> QED  BY <1>1, <4>1
    <3> QED  BY <3>1
  <2> QED  BY <2>1, <2>2 DEF Statuses
<1>9. ApplyApplies(p)
  BY <1>1, <1>2, <1>4, <1>5, <1>6, <1>7, <1>8 DEF ActsFor, Applying, StartsApply, ApplyReadsHead,
     ApplyReadsStatus, ApplyChecks, ApplyAnswers, At, Begin
<1>10. ~Refuses(p)
  <2>1. ASSUME Refuses(p) PROVE FALSE
    <3>1. Kind(p)' = "nothing"  BY <2>1, Ends DEF Refuses, WorkspaceInv
    <3> QED  BY <1>1, <3>1
  <2> QED  BY <2>1
<1> QED  BY <1>9, <1>10 DEF ApplyApplies

\* apply-patch writes what was verified and nothing else, with people editing
\* between the gate's checks and its write.
THEOREM AppliesOnlyVerified == Spec => AppliesWhatWasVerified
<1>1. ASSUME WorkspaceInv, [Next]_vars, NEW p \in Procs,
             At(p, "apply", "apply"), At(p, "apply", "applied")'
      PROVE  WritesOnlyVerified(proc[p].ask.run)
  <2> DEFINE run == proc[p].ask.run
             base == BaseFiles(run)
             wrote == DiffNames(tree, tree')
  <2>1. GitApply(base, run.files)  BY <1>1, OnlyGitApplies
  <2>2. run \in records /\ run.passed  BY <1>1 DEF WorkspaceInv, Knows, ApplyKnows, At
  <2>3. RunSound(run) /\ run.prompt.head \in 1..Len(commits)
    BY <1>1, <2>2 DEF WorkspaceInv, StoresSound, RunSound
  <2>4. IsClone(base) /\ IsClone(run.files)
    BY <1>1, <2>3 DEF WorkspaceInv, RepositorySound, RunSound, BaseFiles
  <2>5. Changed(run) = DiffNames(base, run.files)  BY DEF Changed
  <2>6. Changed(run) \subseteq run.prompt.allowed \ Protected  BY <2>2, <2>3 DEF RunSound
  <2> HIDE DEF base, run
  <2>7. /\ base # run.files
        /\ \A path \in DiffNames(base, run.files) : tree[path] = base[path]
        /\ tree' = [path \in Paths |-> IF base[path] # run.files[path] THEN run.files[path] ELSE tree[path]]
        /\ UNCHANGED <<commits, head, index>>  BY <2>1 DEF GitApply, PatchFits
  <2>8. \A path \in Paths : tree[path] # tree'[path] <=> base[path] # run.files[path]
    BY <2>7 DEF DiffNames
  <2>9. wrote = Changed(run)  BY <2>5, <2>8 DEF DiffNames
  <2>10. Changed(run) # {}  BY <2>4, <2>5, <2>7, DifferNowhere
  <2>11. \A path \in wrote : tree[path] = base[path] /\ tree'[path] = run.files[path]
    BY <2>5, <2>7, <2>9 DEF DiffNames
  <2> QED  BY <2>6, <2>7, <2>9, <2>10, <2>11 DEF WritesOnlyVerified, run, base
<1>2. WorkspaceInv /\ [Next]_vars =>
        [\A p \in Procs :
           (At(p, "apply", "apply") /\ At(p, "apply", "applied")') => WritesOnlyVerified(proc[p].ask.run)]_vars
  BY <1>1
<1> QED  BY <1>2, WorkspaceSound, PTL DEF Spec, AppliesWhatWasVerified

----------------------------------------
(* The ancestors of a commit *)

\* Every commit comes after its parent.
Rooted(cs, c) == \A i \in 1..c : cs[i].parent \in 0..(i - 1)

\* What the recursion over parents computes.
Traces(f, cs, c) == f = [i \in 0..c |-> IF i = 0 THEN {} ELSE {i} \cup f[cs[i].parent]]

SameParents(cs, ds, n) == \A i \in 1..n : ds[i].parent = cs[i].parent

Line(cs, c) == (CHOOSE f : Traces(f, cs, c))[c]

\* A set of numbers that is not empty has a least member.
LEMMA LeastNumber ==
  ASSUME NEW T, T \subseteq Nat, T # {}
  PROVE  \E n \in T : \A m \in T : n <= m
<1>1. PICK n \in T : \A m \in T : ~(<<m, n>> \in OpToRel(<, Nat))
  BY NatLessThanWellFounded, WFMin, Zenon
<1>2. \A m \in T : ~(m < n)  BY <1>1 DEF OpToRel
<1> QED  BY <1>2

\* The recursion defines something: all there is in every set that has a
\* commit and the parents of its members.
LEMMA TraceExists ==
  ASSUME NEW cs, NEW c \in Nat, Rooted(cs, c)
  PROVE  \E f : Traces(f, cs, c)
<1> DEFINE Closed0(S) == \A k \in S \ {0} : cs[k].parent \in S
           Above(i) == {j \in 1..c : \A S \in SUBSET (0..c) : (i \in S /\ Closed0(S)) => j \in S}
           f == [i \in 0..c |-> Above(i)]
<1>1. Above(0) = {}
  <2>1. {0} \in SUBSET (0..c) /\ Closed0({0})  OBVIOUS
  <2>2. \A j \in Above(0) : j \in 1..c /\ j \in {0}  BY <2>1
  <2>3. \A j \in Above(0) : FALSE  BY <2>2
  <2> HIDE DEF Above
  <2> QED  BY <2>3
<1>2. ASSUME NEW i \in 1..c PROVE Above(i) = {i} \cup Above(cs[i].parent)
  <2> DEFINE q == cs[i].parent
  <2>1. q \in 0..c /\ i \in 0..c /\ i # 0  BY DEF Rooted
  <2>2. i \in Above(i)  OBVIOUS
  <2>3. ASSUME NEW j \in Above(q) PROVE j \in Above(i)
    <3>1. SUFFICES ASSUME NEW S \in SUBSET (0..c), i \in S, Closed0(S) PROVE j \in S  BY <2>3
    <3>2. q \in S  BY <2>1, <3>1
    <3> QED  BY <2>3, <3>1, <3>2
  <2>4. ASSUME NEW j \in Above(i), j # i PROVE j \in Above(q)
    <3>1. SUFFICES ASSUME NEW S \in SUBSET (0..c), q \in S, Closed0(S) PROVE j \in S  BY <2>4
    <3>2. S \cup {i} \in SUBSET (0..c) /\ Closed0(S \cup {i})  BY <2>1, <3>1
    <3>3. j \in S \cup {i}  BY <2>4, <3>2
    <3> QED  BY <2>4, <3>3
  <2> HIDE DEF Above, q
  <2>5. Above(i) = {i} \cup Above(q)  BY <2>2, <2>3, <2>4
  <2> QED  BY <2>5 DEF q
<1>3. \A i \in 1..c : cs[i].parent \in 0..c  BY DEF Rooted
<1> HIDE DEF Above
<1>4. f = [i \in 0..c |-> IF i = 0 THEN {} ELSE {i} \cup f[cs[i].parent]]
  <2>1. \A i \in 0..c : f[i] = IF i = 0 THEN {} ELSE {i} \cup f[cs[i].parent]  BY <1>1, <1>2, <1>3
  <2> QED  BY <2>1
<1> QED  BY <1>4 DEF Traces

\* It depends on nothing but the parents before it.
LEMMA TraceAgrees ==
  ASSUME NEW cs, NEW ds, NEW c \in Nat, NEW d \in Nat, NEW n \in Nat, n <= c, n <= d,
         NEW f, NEW g, Traces(f, cs, c), Traces(g, ds, d),
         Rooted(cs, n), SameParents(cs, ds, n)
  PROVE  \A i \in 0..n : f[i] = g[i]
<1> SUFFICES ASSUME NEW j \in 0..n, f[j] # g[j] PROVE FALSE  OBVIOUS
<1> DEFINE T == {i \in 0..n : f[i] # g[i]}
<1>1. PICK i \in T : \A m \in T : i <= m
  <2>1. T \subseteq Nat /\ T # {}  OBVIOUS
  <2> HIDE DEF T
  <2> QED  BY <2>1, LeastNumber
<1>2. i \in 0..c /\ i \in 0..d /\ i \in Nat  OBVIOUS
<1>3. /\ f[i] = IF i = 0 THEN {} ELSE {i} \cup f[cs[i].parent]
      /\ g[i] = IF i = 0 THEN {} ELSE {i} \cup g[ds[i].parent]  BY <1>2 DEF Traces
<1>4. i # 0 /\ i \in 1..n  BY <1>3
<1>5. ds[i].parent = cs[i].parent /\ cs[i].parent \in 0..(i - 1)  BY <1>4 DEF Rooted, SameParents
<1>6. cs[i].parent \in 0..n /\ ~(i <= cs[i].parent)  BY <1>4, <1>5
<1>7. f[cs[i].parent] = g[cs[i].parent]  BY <1>1, <1>6
<1> QED  BY <1>1, <1>3, <1>5, <1>7

\* Ancestors, by their names.
LEMMA AncestorsAreLine ==
  \A c : Ancestors(c) = Line(commits, c)
BY DEF Ancestors, Line, Traces

\* What it computes up to a commit it computes up to a later one.
LEMMA TraceUpTo ==
  ASSUME NEW cs, NEW c \in Nat, Rooted(cs, c), NEW n \in 0..c,
         NEW f, NEW g, Traces(f, cs, c), Traces(g, cs, n)
  PROVE  f[n] = g[n]
<1>1. n \in Nat /\ n <= c /\ n <= n /\ Rooted(cs, n) /\ n \in 0..n  BY DEF Rooted
<1>2. SameParents(cs, cs, n)  BY DEF SameParents
<1>3. \A i \in 0..n : f[i] = g[i]  BY <1>1, <1>2, TraceAgrees
<1> QED  BY <1>1, <1>3

\* The line of a commit is the commit and the line of its parent.
LEMMA LineOf ==
  ASSUME NEW cs, NEW c \in Nat, Rooted(cs, c)
  PROVE  /\ Line(cs, 0) = {}
         /\ c # 0 => Line(cs, c) = {c} \cup Line(cs, cs[c].parent)
<1> DEFINE F(i) == CHOOSE f : Traces(f, cs, i)
<1>1. \A i \in 0..c : Traces(F(i), cs, i)
  <2> SUFFICES ASSUME NEW i \in 0..c PROVE Traces(F(i), cs, i)  OBVIOUS
  <2>1. \E f : Traces(f, cs, i)  BY TraceExists DEF Rooted
  <2> QED  BY <2>1
<1>2. \A i \in 0..c : Line(cs, i) = F(i)[i]  BY DEF Line
<1> HIDE DEF F
<1>3. F(0)[0] = {}
  <2>1. Traces(F(0), cs, 0)  BY <1>1
  <2> HIDE DEF F
  <2> QED  BY <2>1 DEF Traces
<1>4. ASSUME c # 0 PROVE F(c)[c] = {c} \cup F(cs[c].parent)[cs[c].parent]
  <2> DEFINE q == cs[c].parent
  <2>1. q \in 0..(c - 1) /\ q \in 0..c /\ q \in Nat /\ q <= c  BY <1>4 DEF Rooted
  <2>2. F(c)[c] = {c} \cup F(c)[q]
    <3>1. Traces(F(c), cs, c) /\ c \in 0..c  BY <1>1
    <3> QED  BY <1>4, <2>1, <3>1 DEF Traces
  <2>3. F(c)[q] = F(q)[q]
    <3>1. Traces(F(c), cs, c) /\ Traces(F(q), cs, q)  BY <1>1, <2>1
    <3> HIDE DEF q
    <3> QED  BY <2>1, <3>1, TraceUpTo
  <2> QED  BY <2>2, <2>3
<1> QED  BY <1>2, <1>3, <1>4 DEF Rooted

\* It is the same in every repository with these commits.
LEMMA LineStays ==
  ASSUME NEW cs, NEW ds, NEW c \in Nat, Rooted(cs, c), SameParents(cs, ds, c)
  PROVE  Line(ds, c) = Line(cs, c)
<1>1. Rooted(ds, c)  BY DEF Rooted, SameParents
<1>2. Traces(CHOOSE f : Traces(f, cs, c), cs, c)  BY TraceExists
<1>3. Traces(CHOOSE f : Traces(f, ds, c), ds, c)  BY <1>1, TraceExists
<1>4. \A f, g : Traces(f, cs, c) /\ Traces(g, ds, c) => f[c] = g[c]
  <2> SUFFICES ASSUME NEW f, NEW g, Traces(f, cs, c), Traces(g, ds, c) PROVE f[c] = g[c]  OBVIOUS
  <2>1. \A i \in 0..c : f[i] = g[i]  BY TraceAgrees
  <2> QED  BY <2>1
<1> QED  BY <1>2, <1>3, <1>4, Zenon DEF Line

\* What holds of nothing, and of a commit when it holds of its parent, holds of
\* every commit: of a first exception the parent would be one.
LEMMA ByParents ==
  ASSUME NEW cs, NEW c \in Nat, Rooted(cs, c), NEW G, 0 \in G,
         \A i \in 1..c : LET q == cs[i].parent IN
           q \in G /\ q \in 0..(i - 1) /\ Line(cs, i) = {i} \cup Line(cs, q) => i \in G
  PROVE  0..c \subseteq G
<1> SUFFICES ASSUME ~(0..c \subseteq G) PROVE FALSE  OBVIOUS
<1> DEFINE T == {i \in 0..c : i \notin G}
<1>1. PICK i \in T : \A m \in T : i <= m
  <2>1. T \subseteq Nat /\ T # {}  OBVIOUS
  <2> HIDE DEF T
  <2> QED  BY <2>1, LeastNumber
<1>2. i \in 1..c /\ i \in Nat /\ i # 0 /\ Rooted(cs, i)  BY DEF Rooted
<1> DEFINE q == cs[i].parent
<1>3. q \in 0..(i - 1) /\ q \in G  BY <1>1, <1>2 DEF Rooted
<1>4. Line(cs, i) = {i} \cup Line(cs, q)  BY <1>2, LineOf
<1> QED  BY <1>1, <1>2, <1>3, <1>4

LEMMA LineWithin ==
  ASSUME NEW cs, NEW c \in Nat, Rooted(cs, c)
  PROVE  Line(cs, c) \subseteq 1..c
<1> DEFINE G == {i \in 0..c : Line(cs, i) \subseteq 1..i}
<1>1. 0 \in G  BY LineOf
<1>2. ASSUME NEW i \in 1..c, NEW q \in G, q \in 0..(i - 1), Line(cs, i) = {i} \cup Line(cs, q) PROVE i \in G
  BY <1>2
<1> HIDE DEF G
<1>3. 0..c \subseteq G  BY <1>1, <1>2, ByParents
<1> QED  BY <1>3 DEF G

\* The ancestors of an ancestor are ancestors.
LEMMA LineNested ==
  ASSUME NEW cs, NEW c \in Nat, Rooted(cs, c), NEW b \in Line(cs, c)
  PROVE  Line(cs, b) \subseteq Line(cs, c)
<1> DEFINE G == {i \in 0..c : \A j \in Line(cs, i) : Line(cs, j) \subseteq Line(cs, i)}
<1>1. 0 \in G  BY LineOf
<1>2. ASSUME NEW i \in 1..c, NEW q \in G, q \in 0..(i - 1), Line(cs, i) = {i} \cup Line(cs, q) PROVE i \in G
  BY <1>2
<1> HIDE DEF G
<1>3. 0..c \subseteq G  BY <1>1, <1>2, ByParents
<1> QED  BY <1>3 DEF G

\* Of two ancestors the later descends from the earlier: no two have one parent.
LEMMA LineIsOne ==
  ASSUME NEW cs, NEW c \in Nat, Rooted(cs, c), NEW a \in Line(cs, c), NEW b \in Line(cs, c), a < b
  PROVE  a <= cs[b].parent
<1> DEFINE G == {i \in 0..c : \A j, k \in Line(cs, i) : j < k => j <= cs[k].parent}
<1>1. 0 \in G  BY LineOf
<1>2. ASSUME NEW i \in 1..c, NEW q, q = cs[i].parent, q \in G, q \in 0..(i - 1),
             Line(cs, i) = {i} \cup Line(cs, q)
      PROVE  i \in G
  <2>1. Line(cs, q) \subseteq 1..q  BY <1>2, LineWithin DEF Rooted
  <2> SUFFICES ASSUME NEW j \in Line(cs, i), NEW k \in Line(cs, i), j < k PROVE j <= cs[k].parent
    OBVIOUS
  <2>2. j \in Line(cs, q)  BY <1>2, <2>1
  <2> QED  BY <1>2, <2>1, <2>2
<1> HIDE DEF G
<1>3. 0..c \subseteq G  BY <1>1, <1>2, ByParents
<1> QED  BY <1>3 DEF G

\* Of "prompt render".
LEMMA PromptingWorks ==
  ASSUME NEW p \in Procs, ProcsShaped, Prompting(p)
  PROVE  Works(p, "prompt")
<1>1. CASE StartsPrompt(p)  BY <1>1, WorkBegins DEF StartsPrompt
<1>2. CASE PromptReadsStatus(p)
  <2>1. Kind(p) = "prompt"  BY <1>2 DEF PromptReadsStatus, At
  <2>2. Refuses(p) \/ \E pc : Goes(p, pc)  BY ONLY <1>2, Zenon DEF PromptReadsStatus
  <2> QED  BY <2>1, <2>2, WorkGoesOn
<1>3. CASE PromptReadsStatusAgain(p)  BY <1>3, WorkGoesOn DEF PromptReadsStatusAgain, At
<1>4. CASE PromptLinksMetadata(p)  BY <1>4, WorkGoesOn DEF PromptLinksMetadata, At
<1>5. CASE PromptLinksMarkdown(p)  BY <1>5, WorkGoesOn DEF PromptLinksMarkdown, At
<1> QED  BY <1>1, <1>2, <1>3, <1>4, <1>5 DEF Prompting

\* Of "agent run".
LEMMA RunningWorks ==
  ASSUME NEW p \in Procs, ProcsShaped, Running(p)
  PROVE  Works(p, "run")
<1>1. CASE StartsRun(p)  BY <1>1, WorkBegins DEF StartsRun
<1>2. CASE RunReadsStatus(p)  BY <1>2, WorkGoesOn DEF RunReadsStatus, At
<1>3. CASE RunResolvesEngine(p)  BY <1>3, WorkGoesOn DEF RunResolvesEngine, At
<1>4. CASE AgentEnds(p)
  <2>1. Kind(p) = "run"  BY <1>4 DEF AgentEnds, At
  <2>2. UNCHANGED told /\ \E made : proc' = [proc EXCEPT ![p].pc = "headAgain", ![p].made = made]
    BY ONLY <1>4, Zenon DEF AgentEnds
  <2> QED  BY <2>1, <2>2, WorkGoesOn
<1>5. CASE RunReadsStatusAgain(p)
  <2>1. Kind(p) = "run"  BY <1>5 DEF RunReadsStatusAgain, At
  <2>2. Refuses(p) \/ (UNCHANGED told /\ \E made : proc' = [proc EXCEPT ![p].pc = "record", ![p].made = made])
    BY ONLY <1>5, Zenon DEF RunReadsStatusAgain
  <2> QED  BY <2>1, <2>2, WorkGoesOn
<1>6. CASE RunLinksRecord(p)  BY <1>6, WorkGoesOn DEF RunLinksRecord, At
<1>7. CASE RunLinksPatch(p)  BY <1>7, WorkGoesOn DEF RunLinksPatch, At
<1> QED  BY <1>1, <1>2, <1>3, <1>4, <1>5, <1>6, <1>7 DEF Running

\* Of "state record".
LEMMA RecordingWorks ==
  ASSUME NEW p \in Procs, ProcsShaped, Recording(p)
  PROVE  Works(p, "record")
<1>1. CASE StartsRecord(p)  BY <1>1, WorkBegins DEF StartsRecord
<1>2. CASE RecordReadsHead(p)  BY <1>2, WorkGoesOn DEF RecordReadsHead, At
<1>3. CASE AppendsEvent(p)
  <2>1. Kind(p) = "record"  BY <1>3 DEF AppendsEvent, At
  <2>2. Refuses(p) \/ \E pc : Goes(p, pc)  BY ONLY <1>3, Zenon DEF AppendsEvent
  <2> QED  BY <2>1, <2>2, WorkGoesOn
<1>4. CASE RecordAnswers(p)  BY <1>4, WorkGoesOn DEF RecordAnswers, At
<1> QED  BY <1>1, <1>2, <1>3, <1>4 DEF Recording

\* Of apply-patch.
LEMMA ApplyingWorks ==
  ASSUME NEW p \in Procs, ProcsShaped, Applying(p)
  PROVE  Works(p, "apply")
<1>1. CASE StartsApply(p)  BY <1>1, WorkBegins DEF StartsApply
<1>2. CASE ApplyReadsHead(p)  BY <1>2, WorkGoesOn DEF ApplyReadsHead, At
<1>3. CASE ApplyReadsStatus(p)  BY <1>3, WorkGoesOn DEF ApplyReadsStatus, At
<1>4. CASE ApplyChecks(p)  BY <1>4, WorkGoesOn DEF ApplyChecks, At
<1>5. CASE ApplyApplies(p)  BY <1>5, WorkGoesOn DEF ApplyApplies, At
<1>6. CASE ApplyAnswers(p)  BY <1>6, WorkGoesOn DEF ApplyAnswers, At
<1> QED  BY <1>1, <1>2, <1>3, <1>4, <1>5, <1>6 DEF Applying

----------------------------------------
(* The lines of HEAD and of the remote go on *)

\* Commits keep their ancestors; HEAD and the remote only ever move to a
\* descendant of what they were.
Continues ==
  /\ \A c \in 1..Len(commits) : Line(commits', c) = Line(commits, c)
  /\ head \in Line(commits', head')
  /\ remote \in Line(commits', remote')

AllRooted == Rooted(commits, Len(commits))

\* A commit is among its ancestors.
LEMMA LineHasItself ==
  ASSUME NEW cs, NEW c \in Nat \ {0}, Rooted(cs, c)
  PROVE  c \in Line(cs, c)
BY LineOf

\* The first of the commits are rooted as all are.
LEMMA RootedUpTo ==
  ASSUME NEW cs, NEW n \in Nat, Rooted(cs, n), NEW c \in 0..n
  PROVE  c \in Nat /\ Rooted(cs, c)
BY DEF Rooted

\* A commit was appended.
LEMMA AppendedLines ==
  ASSUME RepositorySound, AllRooted, NEW new,
         commits' = Append(commits, new), new.parent \in 1..Len(commits)
  PROVE  /\ AllRooted'
         /\ \A c \in 1..Len(commits) : Line(commits', c) = Line(commits, c)
         /\ new.parent \in Line(commits', Len(commits) + 1)
<1> DEFINE n == Len(commits)
           cs == commits
           ds == commits'
<1>1. n \in Nat /\ Rooted(cs, n)  BY DEF RepositorySound, Numbered, AllRooted
<1>2. /\ Len(ds) = n + 1
      /\ \A c \in 1..n : ds[c] = cs[c]
      /\ ds[n + 1] = new  BY NumberedAppend DEF RepositorySound
<1> HIDE DEF cs, ds, n
<1>3. SameParents(cs, ds, n)  BY <1>2 DEF SameParents
<1>4. \A c \in 1..n : Line(ds, c) = Line(cs, c)
  <2> SUFFICES ASSUME NEW c \in 1..n PROVE Line(ds, c) = Line(cs, c)  OBVIOUS
  <2>1. c \in Nat /\ Rooted(cs, c)  BY <1>1, RootedUpTo
  <2>2. SameParents(cs, ds, c)  BY <1>1, <1>3 DEF SameParents
  <2> QED  BY <2>1, <2>2, LineStays
<1>5. new.parent \in 1..n  BY DEF n
<1>6. Rooted(ds, n + 1)
  <2> SUFFICES ASSUME NEW i \in 1..(n + 1) PROVE ds[i].parent \in 0..(i - 1)  BY DEF Rooted
  <2>1. CASE i \in 1..n  BY <1>1, <1>2, <2>1 DEF Rooted
  <2>2. CASE i = n + 1  BY <1>1, <1>2, <1>5, <2>2
  <2> QED  BY <1>1, <2>1, <2>2
<1>7. Line(ds, n + 1) = {n + 1} \cup Line(ds, new.parent)
  <2>1. n + 1 \in Nat /\ n + 1 # 0  BY <1>1
  <2> QED  BY <1>2, <1>6, <2>1, LineOf
<1>8. new.parent \in Line(ds, new.parent)
  <2>1. new.parent \in Nat \ {0} /\ new.parent \in 0..(n + 1) /\ n + 1 \in Nat  BY <1>1, <1>5
  <2>2. Rooted(ds, new.parent)  BY <1>6, <2>1, RootedUpTo
  <2> QED  BY <2>1, <2>2, LineHasItself
<1> QED  BY <1>2, <1>4, <1>6, <1>7, <1>8 DEF AllRooted, cs, ds, n

\* Whatever the repository does, the lines go on.
LEMMA LinesContinue ==
  ASSUME RepositorySound, AllRooted, RepositoryMoves
  PROVE  AllRooted' /\ Continues
<1>1. Len(commits) \in Nat /\ head \in 1..Len(commits) /\ remote \in 1..Len(commits)
  BY DEF RepositorySound, Numbered
<1>2. \A c \in 1..Len(commits) : c \in Line(commits, c)
  <2> SUFFICES ASSUME NEW c \in 1..Len(commits) PROVE c \in Line(commits, c)  OBVIOUS
  <2>1. c \in Nat \ {0} /\ Rooted(commits, c)  BY <1>1, RootedUpTo DEF AllRooted
  <2> QED  BY <2>1, LineHasItself
<1>3. CASE UNCHANGED <<commits, head, remote>>  BY <1>1, <1>2, <1>3 DEF AllRooted, Continues
<1>4. CASE CommitsOne
  <2>1. PICK c : commits' = Append(commits, c) /\ c.parent = head  BY <1>4 DEF CommitsOne
  <2>2. /\ AllRooted'
        /\ \A i \in 1..Len(commits) : Line(commits', i) = Line(commits, i)
        /\ head \in Line(commits', Len(commits) + 1)  BY <1>1, <2>1, AppendedLines
  <2>3. head' = Len(commits) + 1 /\ remote' = remote  BY <1>4 DEF CommitsOne
  <2>4. remote \in Line(commits', remote')  BY <1>1, <1>2, <2>2, <2>3
  <2> QED  BY <2>2, <2>3, <2>4 DEF Continues
<1>5. CASE Publishes
  <2>1. /\ remote' = head /\ remote \in Line(commits, head) /\ UNCHANGED <<commits, head>>
    BY <1>5, AncestorsAreLine DEF Publishes
  <2> QED  BY <1>1, <1>2, <2>1 DEF AllRooted, Continues
<1>6. CASE OthersCommit
  <2>1. PICK c : commits' = Append(commits, c) /\ c.parent = remote  BY <1>6 DEF OthersCommit
  <2>2. /\ AllRooted'
        /\ \A i \in 1..Len(commits) : Line(commits', i) = Line(commits, i)
        /\ remote \in Line(commits', Len(commits) + 1)  BY <1>1, <2>1, AppendedLines
  <2>3. remote' = Len(commits) + 1 /\ head' = head  BY <1>6 DEF OthersCommit
  <2>4. head \in Line(commits', head')  BY <1>1, <1>2, <2>2, <2>3
  <2> QED  BY <2>2, <2>3, <2>4 DEF Continues
<1> QED  BY <1>3, <1>4, <1>5, <1>6 DEF RepositoryMoves, Redraws

\* An ancestor of HEAD, or of the remote, remains one.
LEMMA AncestorsRemain ==
  ASSUME RepositorySound, RepositorySound', AllRooted', Continues
  PROVE  /\ Line(commits, head) \subseteq Line(commits', head')
         /\ Line(commits, remote) \subseteq Line(commits', remote')
<1> DEFINE ds == commits'
           h == head'
           r == remote'
<1>1. Line(commits, head) = Line(ds, head) /\ Line(commits, remote) = Line(ds, remote)
  BY DEF Continues, RepositorySound
<1>2. head \in Line(ds, h) /\ remote \in Line(ds, r)  BY DEF Continues
<1>3. h \in Nat /\ r \in Nat /\ Rooted(ds, h) /\ Rooted(ds, r)
  BY DEF AllRooted, RepositorySound, Numbered, Rooted
<1> HIDE DEF ds, h, r
<1>4. Line(ds, head) \subseteq Line(ds, h) /\ Line(ds, remote) \subseteq Line(ds, r)
  BY <1>2, <1>3, LineNested
<1> QED  BY <1>1, <1>4 DEF ds, h, r

----------------------------------------
(* What the gates and propose-successor know *)

\* The commit gate: what it was asked.
CommitAsked(ask) ==
  /\ ask = [kind |-> "commit", head |-> ask.head, allowed |-> ask.allowed, message |-> ask.message]
  /\ ask.head \in 1..Len(commits)
  /\ ask.allowed \cap Protected = {}

CommitKnows(p) == Kind(p) = "commit" => CommitAsked(proc[p].ask)

\* The push gate: the HEAD it compared with the approved one is an ancestor of
\* HEAD still, whatever HEAD is by the time it pushes.
PushKnows(p) ==
  Kind(p) = "push" =>
    /\ proc[p].pc \in {"head", "status", "count", "push"}
    /\ proc[p].pc = "status" => proc[p].seen.head \in Line(commits, head)
    /\ proc[p].pc \in {"count", "push"} => proc[p].ask.head \in Line(commits, head)

MadeFields == {"todo", "first", "last", "evidence", "failure", "moved", "result", "document"}

Drafted(made) == made = [x \in MadeFields |-> made[x]]

\* propose-successor: the document it publishes is of the payload it computed.
ProposeKnows(p) ==
  Kind(p) = "propose" =>
    /\ proc[p].pc \notin {"head", "status"} => Drafted(proc[p].made)
    /\ proc[p].pc \in {"lookAgain", "rename", "existing", "verify"} =>
         proc[p].made.document.payload = Payload(p)

PassKnows(p) == CommitKnows(p) /\ PushKnows(p) /\ ProposeKnows(p)

\* What a PASS that was printed says.
TellsTrue(t) ==
  /\ t.ask.kind = "commit" =>
       LET made == t.made.commit
       IN  /\ t = [ask |-> t.ask, made |-> [commit |-> made]]
           /\ CommitAsked(t.ask)
           /\ made \in Line(commits, head)
           /\ commits[made].parent = t.ask.head
           /\ commits[made].message = t.ask.message
           /\ CommitChangeNames(t.ask.head, made) = t.ask.allowed
  /\ t.ask.kind = "push" => t.ask.head \in Line(commits, remote)
  /\ (t.ask.kind = "propose" /\ t.made.published) => Stored(t.made.payload) # {}

PassInv ==
  /\ AllRooted
  /\ \A p \in Procs : PassKnows(p)
  /\ \A t \in told : TellsTrue(t)

\* What is stored may be replaced by another proposal of the same payload.
ProposalsStay == \A payload : Stored(payload) # {} => Stored(payload)' # {}

\* The lines of HEAD and of the remote are of commits.
LEMMA LinesAreCommits ==
  ASSUME RepositorySound, AllRooted
  PROVE  Line(commits, head) \subseteq 1..Len(commits) /\ Line(commits, remote) \subseteq 1..Len(commits)
<1>1. head \in 1..Len(commits) /\ remote \in 1..Len(commits) /\ Len(commits) \in Nat
  BY DEF RepositorySound, Numbered
<1>2. head \in Nat /\ Rooted(commits, head) /\ remote \in Nat /\ Rooted(commits, remote)
  BY <1>1 DEF AllRooted, Rooted
<1>3. Line(commits, head) \subseteq 1..head /\ Line(commits, remote) \subseteq 1..remote
  BY <1>2, LineWithin
<1> QED  BY <1>1, <1>3

\* What a PASS says stays true.
LEMMA TellsStayTrue ==
  ASSUME RepositorySound, RepositorySound', AllRooted, AllRooted', Advances, Continues, ProposalsStay,
         NEW t, TellsTrue(t)
  PROVE  TellsTrue(t)'
<1> DEFINE made == t.made.commit
<1>1. /\ Line(commits, head) \subseteq Line(commits', head')
      /\ Line(commits, remote) \subseteq Line(commits', remote')  BY AncestorsRemain
<1>2. ASSUME t.ask.kind = "commit"
      PROVE  /\ t = [ask |-> t.ask, made |-> [commit |-> made]]
             /\ CommitAsked(t.ask)'
             /\ made \in Line(commits', head')
             /\ commits'[made].parent = t.ask.head
             /\ commits'[made].message = t.ask.message
             /\ CommitChangeNames(t.ask.head, made)' = t.ask.allowed
  <2>1. /\ t = [ask |-> t.ask, made |-> [commit |-> made]]
        /\ CommitAsked(t.ask)
        /\ made \in Line(commits, head)
        /\ commits[made].parent = t.ask.head
        /\ commits[made].message = t.ask.message
        /\ CommitChangeNames(t.ask.head, made) = t.ask.allowed  BY <1>2 DEF TellsTrue
  <2>2. made \in 1..Len(commits)  BY <2>1, LinesAreCommits
  <2>3. commits'[made] = commits[made] /\ commits'[t.ask.head] = commits[t.ask.head]
    BY <2>1, <2>2 DEF Advances, CommitAsked
  <2>4. CommitAsked(t.ask)'  BY <2>1 DEF Advances, CommitAsked
  <2> QED  BY <1>1, <2>1, <2>3, <2>4 DEF CommitChangeNames, DiffNames
<1>3. t.ask.kind = "push" => t.ask.head \in Line(commits', remote')  BY <1>1 DEF TellsTrue
<1>4. (t.ask.kind = "propose" /\ t.made.published) => Stored(t.made.payload)' # {}
  BY DEF TellsTrue, ProposalsStay
<1> QED  BY <1>2, <1>3, <1>4 DEF TellsTrue

\* What a command knows stays true while others act.
LEMMA PassKnowledgeStays ==
  ASSUME RepositorySound, RepositorySound', AllRooted', Advances, Continues,
         NEW p \in Procs, PassKnows(p), proc'[p] = proc[p]
  PROVE  PassKnows(p)'
<1>1. Kind(p)' = Kind(p) /\ Payload(p)' = Payload(p)  BY DEF Kind, Payload
<1>2. Line(commits, head) \subseteq Line(commits', head')  BY AncestorsRemain
<1>3. CommitKnows(p)'  BY <1>1 DEF PassKnows, CommitKnows, CommitAsked, Advances
<1>4. PushKnows(p)'  BY <1>1, <1>2 DEF PassKnows, PushKnows
<1>5. ProposeKnows(p)'  BY <1>1 DEF PassKnows, ProposeKnows, Drafted
<1> QED  BY <1>3, <1>4, <1>5 DEF PassKnows

\* A step of one invocation.
LEMMA PassInvGoesOn ==
  ASSUME PassInv, RepositorySound, RepositorySound', AllRooted', Advances, Continues, ProposalsStay,
         NEW p \in Procs, \A q \in Procs : q # p => proc'[q] = proc[q], PassKnows(p)',
         \A t \in told' \ told : TellsTrue(t)'
  PROVE  PassInv'
<1>1. \A q \in Procs : PassKnows(q)'
  <2> SUFFICES ASSUME NEW q \in Procs, q # p PROVE PassKnows(q)'  OBVIOUS
  <2> QED  BY PassKnowledgeStays DEF PassInv
<1>2. \A t \in told' : TellsTrue(t)'
  <2> SUFFICES ASSUME NEW t \in told', t \in told PROVE TellsTrue(t)'  OBVIOUS
  <2> QED  BY TellsStayTrue DEF PassInv
<1> QED  BY <1>1, <1>2 DEF PassInv

Passers == {"commit", "push", "propose"}

\* Whoever is none of the three knows nothing of this.
LEMMA OthersPassNothing ==
  ASSUME NEW p, Kind(p)' \notin Passers
  PROVE  PassKnows(p)'
BY DEF Passers, PassKnows, CommitKnows, PushKnows, ProposeKnows

\* A step of another command.
LEMMA OtherWorkKeepsPassInv ==
  ASSUME PassInv, RepositorySound, RepositorySound', AllRooted', Advances, Continues, ProposalsStay,
         NEW p \in Procs, NEW kind, kind \notin Passers, Works(p, kind)
  PROVE  PassInv'
<1>1. PassKnows(p)'
  <2>1. Kind(p)' \notin Passers  BY DEF Works, Passers
  <2> QED  BY <2>1, OthersPassNothing
<1>2. \A t \in told' \ told : TellsTrue(t)'  BY DEF Works, Passers, TellsTrue
<1>3. \A q \in Procs : q # p => proc'[q] = proc[q]  BY DEF Works
<1> QED  BY <1>1, <1>2, <1>3, PassInvGoesOn

\* A step of nobody, or one that ends invocations without a word.
LEMMA NobodyKeepsPassInv ==
  ASSUME PassInv, RepositorySound, RepositorySound', AllRooted', Advances, Continues, ProposalsStay,
         \A p \in Procs : proc'[p] = proc[p] \/ proc'[p] = Idle, UNCHANGED told
  PROVE  PassInv'
<1>1. \A p \in Procs : PassKnows(p)'
  <2> SUFFICES ASSUME NEW p \in Procs PROVE PassKnows(p)'  OBVIOUS
  <2>1. CASE proc'[p] = proc[p]  BY <2>1, PassKnowledgeStays DEF PassInv
  <2>2. CASE proc'[p] = Idle
    <3>1. Kind(p)' \notin Passers  BY <2>2 DEF Kind, Idle, Nothing, Passers
    <3> QED  BY <3>1, OthersPassNothing
  <2> QED  BY <2>1, <2>2
<1>2. \A t \in told' : TellsTrue(t)'
  <2> SUFFICES ASSUME NEW t \in told PROVE TellsTrue(t)'  OBVIOUS
  <2> QED  BY TellsStayTrue DEF PassInv
<1> QED  BY <1>1, <1>2 DEF PassInv

----------------------------------------
(* The steps of the gates and of propose-successor *)

\* What every step leaves behind it.
After ==
  /\ RepositorySound' /\ AllRooted'
  /\ Advances /\ Continues

\* The commit gate.
LEMMA CommittingPasses ==
  ASSUME PassInv, ProcsShaped, RepositorySound, After, UNCHANGED artifacts,
         NEW p \in Procs, Committing(p)
  PROVE  PassInv'
<1>1. Works(p, "commit") /\ ProposalsStay  BY CommittingWorks DEF ProposalsStay, Stored
<1>2. CommitKnows(p)  BY DEF PassInv, PassKnows
<1>3. PassKnows(p)'
  <2>1. CASE StartsCommit(p)
    <3>1. PICK parent \in Commits, allowed \in SUBSET Code \ {{}}, message \in Messages :
            /\ allowed \cap Protected = {}
            /\ Begin(p, [kind |-> "commit", head |-> parent, allowed |-> allowed, message |-> message], "head")
      BY <2>1 DEF StartsCommit
    <3> DEFINE ask == [kind |-> "commit", head |-> parent, allowed |-> allowed, message |-> message]
    <3>a. Begin(p, ask, "head") /\ ask.kind = "commit"  BY <3>1
    <3>2. proc'[p].ask = ask
      <4>1. \A a, pc : Begin(p, a, pc) => proc'[p].ask = a
        <5> SUFFICES ASSUME NEW a, NEW pc, Begin(p, a, pc) PROVE proc'[p].ask = a  OBVIOUS
        <5>1. Becomes(p, pc, a, Nothing, Nothing, Nothing, Nothing)  BY Begins
        <5> QED  BY <5>1 DEF Becomes
      <4> HIDE DEF ask
      <4> QED  BY <3>a, <4>1
    <3>3. parent \in 1..Len(commits') /\ UNCHANGED commits
      BY <2>1, <3>1 DEF StartsCommit, Commits, RepositorySound, Numbered, git
    <3>4. CommitAsked(ask)'  BY <3>1, <3>3 DEF CommitAsked
    <3> HIDE DEF ask
    <3>5. CommitKnows(p)'  BY <3>2, <3>4 DEF CommitKnows, CommitAsked
    <3>6. Kind(p)' = "commit"  BY <3>2 DEF Kind, ask
    <3> QED  BY <3>5, <3>6 DEF PassKnows, PushKnows, ProposeKnows
  <2>2. CASE ~StartsCommit(p)
    <3>1. Kind(p) = "commit"
      BY <2>2 DEF Committing, CommitReadsStatus, CommitStages, CommitChecksStaged, CommitUnstages,
         CommitCommits, CommitVerifies, At
    <3>2. proc[p] # Idle  BY <3>1 DEF Kind, Idle, Nothing
    <3>3. CASE proc'[p] = Idle
      <4>1. Kind(p)' \notin Passers  BY <3>3 DEF Kind, Idle, Nothing, Passers
      <4> QED  BY <4>1, OthersPassNothing
    <3>4. CASE proc'[p].ask = proc[p].ask
      <4>1. CommitKnows(p)' /\ Kind(p)' = "commit"
        BY <1>2, <3>1, <3>4 DEF CommitKnows, CommitAsked, Kind, After, Advances
      <4> QED  BY <4>1 DEF PassKnows, PushKnows, ProposeKnows
    <3> QED  BY <1>1, <3>2, <3>3, <3>4 DEF Works
  <2> QED  BY <2>1, <2>2
<1>4. \A t \in told' \ told : TellsTrue(t)'
  <2>1. CASE told' = told  BY <2>1
  <2>2. CASE CommitVerifies(p) /\ told' # told
    <3> SUFFICES ASSUME NEW t \in told' \ told PROVE TellsTrue(t)'  OBVIOUS
    <3> DEFINE ask == proc[p].ask
    <3>1. /\ commits[head].parent = ask.head
          /\ CommitChangeNames(ask.head, head) = ask.allowed
          /\ commits[head].message = ask.message
          /\ Answers(p, [commit |-> head])
          /\ UNCHANGED git
          /\ Kind(p) = "commit"  BY <2>2 DEF CommitVerifies, Refuses, At
    <3>2. t = [ask |-> ask, made |-> [commit |-> head]]  BY <3>1 DEF Answers
    <3>3. head \in Line(commits, head)
      <4>1. head \in Nat \ {0} /\ Rooted(commits, head)
        BY DEF PassInv, AllRooted, RepositorySound, Numbered, Rooted
      <4> QED  BY <4>1, LineHasItself
    <3>4. CommitAsked(ask)  BY <1>2, <3>1 DEF CommitKnows
    <3>5. UNCHANGED <<commits, head, remote>>  BY <3>1 DEF git
    <3>6. t.ask.kind = "commit" /\ t.ask = ask /\ t.made.commit = head  BY <3>1, <3>2 DEF Kind
    <3>7. t = [ask |-> t.ask, made |-> [commit |-> t.made.commit]]  BY <3>2
    <3>8. CommitChangeNames(t.ask.head, t.made.commit)' = t.ask.allowed
      BY <3>1, <3>5, <3>6 DEF CommitChangeNames, DiffNames
    <3>9. CommitAsked(t.ask)'  BY <3>4, <3>5, <3>6 DEF CommitAsked
    <3> HIDE DEF ask
    <3> QED  BY <3>1, <3>3, <3>5, <3>6, <3>7, <3>8, <3>9 DEF TellsTrue
  <2> QED  BY <2>1, <2>2 DEF Committing, StartsCommit, CommitReadsStatus, CommitStages,
     CommitChecksStaged, CommitUnstages, CommitCommits, Begin, Goes, Refuses
<1> QED  BY <1>1, <1>3, <1>4, PassInvGoesOn DEF After, Works

\* The push gate.
LEMMA PushingPasses ==
  ASSUME PassInv, ProcsShaped, RepositorySound, After, UNCHANGED artifacts,
         NEW p \in Procs, Pushing(p)
  PROVE  PassInv'
<1>1. Works(p, "push") /\ ProposalsStay  BY PushingWorks DEF ProposalsStay, Stored
<1>2. PushKnows(p)  BY DEF PassInv, PassKnows
<1>3. Line(commits, head) \subseteq Line(commits', head')  BY AncestorsRemain DEF After
<1>4. ASSUME NEW pc, NEW ask, NEW seen, NEW status, NEW again, NEW made,
             Becomes(p, pc, ask, seen, status, again, made), ask.kind = "push",
             \/ pc = "head"
             \/ pc \in {"count", "push"} /\ ask.head \in Line(commits, head)
      PROVE  PassKnows(p)'
  <2>1. Kind(p)' = "push" /\ proc'[p].pc = pc /\ proc'[p].ask = ask  BY <1>4 DEF Becomes, Kind
  <2>2. PushKnows(p)'  BY <1>3, <1>4, <2>1 DEF PushKnows
  <2> QED  BY <2>1, <2>2 DEF PassKnows, CommitKnows, ProposeKnows
<1>5. ASSUME proc' = [proc EXCEPT ![p] = Idle] PROVE PassKnows(p)'
  <2>1. Kind(p)' \notin Passers  BY <1>5, Ends DEF Passers
  <2> QED  BY <2>1, OthersPassNothing
<1>6. CASE StartsPush(p)
  <2>1. PICK approved \in Commits : Begin(p, [kind |-> "push", head |-> approved], "head")
    BY <1>6 DEF StartsPush
  <2>2. PassKnows(p)'  BY <1>4, <2>1, Begins
  <2>3. told' = told  BY <2>1 DEF Begin
  <2> QED  BY <1>1, <2>2, <2>3, PassInvGoesOn DEF After, Works
<1>7. CASE PushReadsStatus(p)
  <2>1. Kind(p) = "push" /\ proc[p].pc = "status" /\ told' = told
    BY <1>7 DEF PushReadsStatus, At, Goes, Refuses
  <2>2. CASE Refuses(p)  BY <1>1, <1>5, <2>1, <2>2, PassInvGoesOn DEF After, Works, Refuses
  <2>3. CASE proc[p].seen.head = proc[p].ask.head /\ Goes(p, "count")
    <3>1. Becomes(p, "count", proc[p].ask, proc[p].seen, proc[p].status, proc[p].again, proc[p].made)
      BY <2>3, GoesOn DEF Goes
    <3>2. PassKnows(p)'  BY <1>2, <1>4, <2>1, <2>3, <3>1 DEF PushKnows, Kind
    <3> QED  BY <1>1, <2>1, <3>2, PassInvGoesOn DEF After, Works
  <2> QED  BY <1>7, <2>2, <2>3 DEF PushReadsStatus
<1>8. CASE PushCounts(p)
  <2>1. Kind(p) = "push" /\ proc[p].pc = "count" /\ told' = told
    BY <1>8 DEF PushCounts, At, Goes, Refuses
  <2>2. CASE Refuses(p)  BY <1>1, <1>5, <2>1, <2>2, PassInvGoesOn DEF After, Works, Refuses
  <2>3. CASE Goes(p, "push")
    <3>1. Becomes(p, "push", proc[p].ask, proc[p].seen, proc[p].status, proc[p].again, proc[p].made)
      BY <2>3, GoesOn DEF Goes
    <3>2. PassKnows(p)'  BY <1>2, <1>4, <2>1, <3>1 DEF PushKnows, Kind
    <3> QED  BY <1>1, <2>1, <3>2, PassInvGoesOn DEF After, Works
  <2> QED  BY <1>8, <2>2, <2>3 DEF PushCounts
<1>9. CASE PushPushes(p)
  <2>1. Kind(p) = "push" /\ proc[p].pc = "push"  BY <1>9 DEF PushPushes, At
  <2>2. CASE Refuses(p)  BY <1>1, <1>5, <2>2, PassInvGoesOn DEF After, Works, Refuses
  <2>3. CASE GitPush /\ Answers(p, [published |-> head])
    <3>1. told' = told \cup {[ask |-> proc[p].ask, made |-> [published |-> head]]} /\ PassKnows(p)'
      BY <1>5, <2>3 DEF Answers
    <3>2. remote' = head /\ commits' = commits  BY <2>3 DEF GitPush
    <3>3. proc[p].ask.head \in Line(commits', remote')  BY <1>2, <2>1, <3>2 DEF PushKnows
    <3>4. \A t \in told' \ told : TellsTrue(t)'
      <4> SUFFICES ASSUME NEW t \in told' \ told PROVE TellsTrue(t)'  OBVIOUS
      <4>1. t.ask.kind = "push" /\ t.ask.head = proc[p].ask.head  BY <2>1, <3>1 DEF Kind
      <4> QED  BY <3>3, <4>1 DEF TellsTrue
    <3> QED  BY <1>1, <3>1, <3>4, PassInvGoesOn DEF After, Works
  <2> QED  BY <1>9, <2>2, <2>3 DEF PushPushes
<1> QED  BY <1>6, <1>7, <1>8, <1>9 DEF Pushing

\* The points of propose-successor before it has looked into the store.
Drafting == {"capture", "evidence", "predecessor", "checks", "reconcile", "catalog", "headAgain",
             "statusAgain", "captureAgain", "compare", "publish"}

\* A draft with one thing changed is a draft.
LEMMA DraftsAreRevised ==
  ASSUME NEW made, Drafted(made), NEW x
  PROVE  /\ Drafted([made EXCEPT !.todo = x]) /\ Drafted([made EXCEPT !.first = x])
         /\ Drafted([made EXCEPT !.last = x]) /\ Drafted([made EXCEPT !.evidence = x])
         /\ Drafted([made EXCEPT !.failure = x]) /\ Drafted([made EXCEPT !.moved = x])
         /\ Drafted([made EXCEPT !.result = x])
BY DEF Drafted, MadeFields

\* A draft is filed as a document.
LEMMA DraftsAreFiled ==
  ASSUME NEW made, Drafted(made), NEW x
  PROVE  LET new == [made EXCEPT !.document = x]
         IN  Drafted(new) /\ new.document = x /\ new.first = made.first /\ new.result = made.result
BY DEF Drafted, MadeFields

\* propose-successor.
LEMMA ProposingPasses ==
  ASSUME PassInv, ProcsShaped, RepositorySound, After,
         NEW p \in Procs, Proposing(p)
  PROVE  PassInv'
<1> DEFINE Comes(pc, made) == Becomes(p, pc, proc[p].ask, proc[p].seen, proc[p].status, proc[p].again, made)
<1>1. Works(p, "propose")  BY ProposingWorks
<1>2. ProposeKnows(p)  BY DEF PassInv, PassKnows
<1>3. ASSUME artifacts' = artifacts PROVE ProposalsStay  BY <1>3 DEF ProposalsStay, Stored
<1>4. ASSUME proc' = [proc EXCEPT ![p] = Idle] PROVE PassKnows(p)'
  <2>1. Kind(p)' \notin Passers  BY <1>4, Ends DEF Passers
  <2> QED  BY <2>1, OthersPassNothing
<1>5. ASSUME NEW pc, NEW ask, NEW seen, NEW status, NEW again, NEW made,
             Becomes(p, pc, ask, seen, status, again, made), ask.kind = "propose",
             \/ pc = "head"
             \/ pc \in Drafting /\ Drafted(made)
      PROVE  PassKnows(p)'
  <2>1. Kind(p)' = "propose" /\ proc'[p].pc = pc /\ proc'[p].made = made  BY <1>5 DEF Becomes, Kind
  <2>2. ProposeKnows(p)'  BY <1>5, <2>1 DEF ProposeKnows, Drafting, Drafted
  <2> QED  BY <2>1, <2>2 DEF PassKnows, CommitKnows, PushKnows
<1>6. ASSUME NEW pc, NEW made, proc' = [proc EXCEPT ![p].pc = pc, ![p].made = made],
             proc[p].ask.kind = "propose", Drafted(made),
             made.document.payload = Payload(p),
             made.first = proc[p].made.first, made.result = proc[p].made.result
      PROVE  PassKnows(p)'
  <2>1. Comes(pc, made)  BY <1>6, GoesOn
  <2>2. /\ Kind(p)' = "propose" /\ proc'[p].pc = pc /\ proc'[p].made = made /\ proc'[p].ask = proc[p].ask
        /\ proc'[p].seen = proc[p].seen /\ proc'[p].status = proc[p].status
    BY <1>6, <2>1 DEF Becomes, Kind
  <2>a. proc'[p].made.first = proc[p].made.first /\ proc'[p].made.result = proc[p].made.result
    BY <1>6, <2>2
  <2>3. Payload(p)' = Payload(p)  BY <2>2, <2>a DEF Payload
  <2>4. ProposeKnows(p)'  BY <1>6, <2>2, <2>3 DEF ProposeKnows, Drafted
  <2> QED  BY <2>2, <2>4 DEF PassKnows, CommitKnows, PushKnows
\* the steps that read and conclude
<1>7. ASSUME artifacts' = artifacts, told' = told, PassKnows(p)' PROVE PassInv'
  BY <1>1, <1>3, <1>7, PassInvGoesOn DEF After, Works
<1>8. ASSUME NEW pc, NEW made, Moves(p, pc, made), pc \in Drafting, Drafted(made), Kind(p) = "propose"
      PROVE  PassInv'
  <2>1. Comes(pc, made)  BY <1>8, GoesOn DEF Moves
  <2>2. PassKnows(p)'  BY <1>5, <1>8, <2>1 DEF Kind
  <2> QED  BY <1>7, <1>8, <2>2 DEF Moves
<1>9. ASSUME NEW next, NEW todo, NEW made, Proceeds(p, made, next, todo), next \in Drafting,
             proc[p].pc \in Drafting, Drafted(made), Kind(p) = "propose"
      PROVE  PassInv'
  <2> DEFINE unread == Unread(made.todo)
             pc == IF unread = <<>> THEN next ELSE proc[p].pc
             new == [made EXCEPT !.todo = IF unread = <<>> THEN todo ELSE unread]
  <2>1. pc \in Drafting /\ Drafted(new)  BY <1>9, DraftsAreRevised
  <2>2. proc' = [proc EXCEPT ![p].pc = pc, ![p].made = new] /\ artifacts' = artifacts /\ told' = told
    BY <1>9 DEF Proceeds, ProcsShaped
  <2> HIDE DEF unread, pc, new
  <2>3. Comes(pc, new)  BY <2>2, GoesOn
  <2>4. PassKnows(p)'  BY <1>5, <1>9, <2>1, <2>3 DEF Kind
  <2> QED  BY <1>7, <2>2, <2>4
<1>10. ASSUME Drops(p) \/ (Refuses(p) /\ artifacts' = artifacts) PROVE PassInv'
  BY <1>4, <1>7, <1>10 DEF Drops, Refuses
<1>11. ASSUME \/ ProposeCaptures(p) \/ ProposeReadsEvidence(p) \/ ProposeResolves(p)
              \/ ProposeChecks(p) \/ ProposeReconciles(p) \/ ProposeReadsCatalog(p)
              \/ ProposeReadsStatusAgain(p) \/ ProposeCapturesAgain(p) \/ ProposeCompares(p)
              \/ ProposeLooks(p)
       PROVE  Kind(p) = "propose" /\ proc[p].pc \in Drafting /\ Drafted(proc[p].made)
  BY <1>2, <1>11 DEF ProposeKnows, Drafting, At, ProposeCaptures, ProposeReadsEvidence,
     ProposeResolves, ProposeChecks, ProposeReconciles, ProposeReadsCatalog,
     ProposeReadsStatusAgain, ProposeCapturesAgain, ProposeCompares, ProposeLooks
<1>12. CASE StartsPropose(p)
  <2>1. PICK ask : ask.kind = "propose" /\ Begin(p, ask, "head")  BY <1>12 DEF StartsPropose
  <2>2. Becomes(p, "head", ask, Nothing, Nothing, Nothing, Nothing)  BY <2>1, Begins
  <2>3. PassKnows(p)'  BY <1>5, <2>1, <2>2
  <2> QED  BY <1>7, <1>12, <2>1, <2>3 DEF StartsPropose, Begin
<1>13. CASE ProposeReadsStatus(p)
  <2>1. CASE Drops(p)  BY <1>10, <2>1
  <2>2. CASE proc' = [proc EXCEPT ![p].pc = "capture", ![p].status = Porcelain, ![p].made = NothingRead]
             /\ UNCHANGED <<told, left, git, artifacts>>
    <3>1. Becomes(p, "capture", proc[p].ask, proc[p].seen, Porcelain, proc[p].again, NothingRead)
      BY <2>2, GoesOn
    <3>2. Drafted(NothingRead)  BY DEF Drafted, MadeFields, NothingRead
    <3>3. PassKnows(p)'  BY <1>5, <1>13, <3>1, <3>2 DEF ProposeReadsStatus, At, Kind, Drafting
    <3> QED  BY <1>7, <2>2, <3>3
  <2> QED  BY <1>13, <2>1, <2>2 DEF ProposeReadsStatus
<1>14. CASE ProposeCaptures(p)
  <2> DEFINE made == [proc[p].made EXCEPT !.first = Joined(@, Captured(proc[p].made.todo))]
  <2>1. Proceeds(p, made, "evidence", EvidenceOrder)  BY <1>14 DEF ProposeCaptures
  <2>2. Drafted(made)  BY <1>11, <1>14, DraftsAreRevised
  <2> HIDE DEF made
  <2> QED  BY <1>9, <1>11, <1>14, <2>1, <2>2 DEF Drafting
<1>15. CASE ProposeReadsEvidence(p)
  <2> DEFINE contents == [d \in Range(Reads(proc[p].made.todo)) |-> tree[d]]
             made == [proc[p].made EXCEPT !.evidence = Joined(@, contents)]
  <2>1. Proceeds(p, made, "predecessor", RequiredChecks)  BY <1>15 DEF ProposeReadsEvidence
  <2>2. Drafted(made)  BY <1>11, <1>15, DraftsAreRevised
  <2> HIDE DEF made
  <2> QED  BY <1>9, <1>11, <1>15, <2>1, <2>2 DEF Drafting
<1>16. CASE ProposeResolves(p)
  <2>1. Drops(p) \/ Moves(p, "checks", proc[p].made)  BY <1>16, Zenon DEF ProposeResolves
  <2> QED  BY <1>8, <1>10, <1>11, <1>16, <2>1 DEF Drafting
<1>17. CASE ProposeChecks(p)
  <2>1. PICK failure : Proceeds(p, [proc[p].made EXCEPT !.failure = failure], "reconcile", SnapshotOrder)
    BY <1>17 DEF ProposeChecks
  <2>2. Drafted([proc[p].made EXCEPT !.failure = failure])  BY <1>11, <1>17, DraftsAreRevised
  <2> QED  BY <1>9, <1>11, <1>17, <2>1, <2>2 DEF Drafting
<1>18. CASE ProposeReconciles(p)
  <2>1. \/ Moves(p, "catalog", proc[p].made)
        \/ \E code : Moves(p, "headAgain", [proc[p].made EXCEPT !.result = Refusal(code)])
    BY ONLY <1>18, Zenon DEF ProposeReconciles
  <2>2. \A code : Drafted([proc[p].made EXCEPT !.result = Refusal(code)])
    BY <1>11, <1>18, DraftsAreRevised
  <2> QED  BY <1>8, <1>11, <1>18, <2>1, <2>2 DEF Drafting
<1>19. CASE ProposeReadsCatalog(p)
  <2>1. PICK result : Moves(p, "headAgain", [proc[p].made EXCEPT !.result = result])
    BY <1>19 DEF ProposeReadsCatalog
  <2>2. Drafted([proc[p].made EXCEPT !.result = result])  BY <1>11, <1>19, DraftsAreRevised
  <2> QED  BY <1>8, <1>11, <1>19, <2>1, <2>2 DEF Drafting
<1>20. CASE ProposeReadsStatusAgain(p)
  <2>1. \/ \E moved : Moves(p, "captureAgain", [proc[p].made EXCEPT !.moved = moved])
        \/ \E result : Moves(p, "publish", [proc[p].made EXCEPT !.result = result])
    BY <1>20 DEF ProposeReadsStatusAgain
  <2>2. \A x : Drafted([proc[p].made EXCEPT !.moved = x]) /\ Drafted([proc[p].made EXCEPT !.result = x])
    BY <1>11, <1>20, DraftsAreRevised
  <2> QED  BY <1>8, <1>11, <1>20, <2>1, <2>2 DEF Drafting
<1>21. CASE ProposeCapturesAgain(p)
  <2> DEFINE made == [proc[p].made EXCEPT !.last = Joined(@, Captured(proc[p].made.todo))]
  <2>1. Proceeds(p, made, "compare", <<>>)  BY <1>21 DEF ProposeCapturesAgain
  <2>2. Drafted(made)  BY <1>11, <1>21, DraftsAreRevised
  <2> HIDE DEF made
  <2> QED  BY <1>9, <1>11, <1>21, <2>1, <2>2 DEF Drafting
<1>22. CASE ProposeCompares(p)
  <2>1. \/ Moves(p, "publish", proc[p].made)
        \/ \E result : Moves(p, "publish", [proc[p].made EXCEPT !.result = result])
    BY <1>22 DEF ProposeCompares
  <2>2. \A x : Drafted([proc[p].made EXCEPT !.result = x])  BY <1>11, <1>22, DraftsAreRevised
  <2> QED  BY <1>8, <1>11, <1>22, <2>1, <2>2 DEF Drafting
\* the steps that publish
<1>23. CASE ProposeEndsDry(p)
  <2>1. CASE Refuses(p)  BY <1>10, <1>23, <2>1 DEF ProposeEndsDry
  <2>2. CASE Answers(p, [payload |-> Payload(p), published |-> FALSE])
    <3>1. told' = told \cup {[ask |-> proc[p].ask, made |-> [payload |-> Payload(p), published |-> FALSE]]}
          /\ PassKnows(p)' /\ proc[p].ask.kind = "propose"
      BY <1>4, <1>23, <2>2 DEF Answers, ProposeEndsDry, At, Kind
    <3>2. \A t \in told' \ told : TellsTrue(t)'  BY <3>1 DEF TellsTrue
    <3> QED  BY <1>1, <1>3, <1>23, <3>1, <3>2, PassInvGoesOn DEF After, Works, ProposeEndsDry
  <2> QED  BY <1>23, <2>1, <2>2 DEF ProposeEndsDry, Concluded
<1>24. CASE ProposeLooks(p)
  <2> DEFINE document == [payload |-> Payload(p), at |-> proc[p].ask.at]
             made == [proc[p].made EXCEPT !.document = document]
  <2>1. document.payload = Payload(p)  OBVIOUS
  <2>2. PICK pc : Moves(p, pc, made)  BY <1>24 DEF ProposeLooks
  <2> HIDE DEF document
  <2>3. Drafted(made) /\ made.document = document /\ made.first = proc[p].made.first
        /\ made.result = proc[p].made.result  BY <1>11, <1>24, DraftsAreFiled
  <2> HIDE DEF made
  <2>4. PassKnows(p)'  BY <1>6, <1>11, <1>24, <2>1, <2>2, <2>3 DEF Moves, Kind
  <2> QED  BY <1>7, <2>2, <2>4 DEF Moves
<1>25. CASE ProposeLooksAgain(p)
  <2>1. Kind(p) = "propose" /\ proc[p].pc = "lookAgain"  BY <1>25 DEF ProposeLooksAgain, At
  <2>2. Drafted(proc[p].made) /\ proc[p].made.document.payload = Payload(p)
    BY <1>2, <2>1 DEF ProposeKnows
  <2>3. PICK pc : Moves(p, pc, proc[p].made)  BY <1>25 DEF ProposeLooksAgain
  <2>4. PassKnows(p)'  BY <1>6, <2>1, <2>2, <2>3 DEF Moves, Kind
  <2> QED  BY <1>7, <2>3, <2>4 DEF Moves
<1>26. CASE ProposeRenames(p)
  <2>1. Kind(p) = "propose" /\ proc[p].pc = "rename"  BY <1>26 DEF ProposeRenames, At
  <2>2. Drafted(proc[p].made) /\ proc[p].made.document.payload = Payload(p)
    BY <1>2, <2>1 DEF ProposeKnows
  <2>3. Comes("verify", proc[p].made)  BY <1>26, GoesOn DEF ProposeRenames, Goes
  <2>4. /\ Kind(p)' = "propose" /\ proc'[p].pc = "verify" /\ proc'[p].made = proc[p].made
        /\ proc'[p].ask = proc[p].ask /\ proc'[p].seen = proc[p].seen /\ proc'[p].status = proc[p].status
    BY <2>1, <2>3 DEF Becomes, Kind
  <2>5. Payload(p)' = Payload(p)  BY <2>4 DEF Payload
  <2>6. PassKnows(p)'
    BY <2>2, <2>4, <2>5 DEF ProposeKnows, PassKnows, CommitKnows, PushKnows, Drafted
  <2>7. ProposalsStay
    <3> SUFFICES ASSUME NEW payload, Stored(payload) # {} PROVE Stored(payload)' # {}
      BY DEF ProposalsStay
    <3>1. artifacts' = (artifacts \ Stored(Payload(p))) \cup {proc[p].made.document}
      BY <1>26 DEF ProposeRenames
    <3>2. CASE payload = Payload(p)  BY <2>2, <3>1, <3>2 DEF Stored
    <3>3. CASE payload # Payload(p)
      <4>1. PICK a \in artifacts : a.payload = payload  BY DEF Stored
      <4>2. a \in artifacts'  BY <3>1, <3>3, <4>1 DEF Stored
      <4> QED  BY <4>1, <4>2 DEF Stored
    <3> QED  BY <3>2, <3>3
  <2> QED  BY <1>1, <1>26, <2>6, <2>7, PassInvGoesOn DEF After, Works, ProposeRenames, Goes
<1>27. CASE ProposeReconcilesExisting(p)
  <2>1. Kind(p) = "propose" /\ proc[p].pc = "existing"  BY <1>27 DEF ProposeReconcilesExisting, At
  <2>2. Drafted(proc[p].made)  BY <1>2, <2>1 DEF ProposeKnows
  <2>3. PICK existing \in Stored(Payload(p)) : Moves(p, "verify", [proc[p].made EXCEPT !.document = existing])
    BY <1>27 DEF ProposeReconcilesExisting
  <2> DEFINE made == [proc[p].made EXCEPT !.document = existing]
  <2>4. existing.payload = Payload(p)  BY <2>3 DEF Stored
  <2>5. Drafted(made) /\ made.document = existing /\ made.first = proc[p].made.first
        /\ made.result = proc[p].made.result  BY <2>2, DraftsAreFiled
  <2>6. Moves(p, "verify", made)  BY <2>3
  <2> HIDE DEF made
  <2>7. PassKnows(p)'  BY <1>6, <2>1, <2>4, <2>5, <2>6 DEF Moves, Kind
  <2> QED  BY <1>7, <2>6, <2>7 DEF Moves
<1>28. CASE ProposeVerifies(p)
  <2>1. Kind(p) = "propose" /\ proc[p].pc = "verify"  BY <1>28 DEF ProposeVerifies, At
  <2>2. CASE Refuses(p)  BY <1>10, <1>28, <2>2 DEF ProposeVerifies
  <2>3. CASE /\ proc[p].made.document \in artifacts
             /\ Answers(p, [payload |-> Payload(p), published |-> TRUE])
    <3>1. told' = told \cup {[ask |-> proc[p].ask, made |-> [payload |-> Payload(p), published |-> TRUE]]}
          /\ PassKnows(p)' /\ proc[p].ask.kind = "propose"  BY <1>4, <2>1, <2>3 DEF Answers, Kind
    <3>2. Stored(Payload(p)) # {}  BY <1>2, <2>1, <2>3 DEF ProposeKnows, Stored
    <3>3. \A t \in told' \ told : TellsTrue(t)'
      <4> SUFFICES ASSUME NEW t \in told' \ told PROVE TellsTrue(t)'  OBVIOUS
      <4>1. t.ask.kind = "propose" /\ t.made.payload = Payload(p)  BY <3>1
      <4>2. Stored(t.made.payload)' # {}  BY <1>28, <3>2, <4>1 DEF Stored, ProposeVerifies
      <4> QED  BY <4>1, <4>2 DEF TellsTrue
    <3> QED  BY <1>1, <1>3, <1>28, <3>1, <3>3, PassInvGoesOn DEF After, Works, ProposeVerifies
  <2> QED  BY <1>28, <2>2, <2>3 DEF ProposeVerifies, Concluded
<1> QED
  BY <1>12, <1>13, <1>14, <1>15, <1>16, <1>17, <1>18, <1>19, <1>20, <1>21, <1>22, <1>23, <1>24,
     <1>25, <1>26, <1>27, <1>28 DEF Proposing

\* A command reads HEAD, or dies.
LEMMA StatusesPass ==
  ASSUME PassInv, ProcsShaped, RepositorySound, After, UNCHANGED artifacts,
         NEW p \in Procs, Statuses(p)
  PROVE  PassInv'
<1>1. PassKnows(p) /\ UNCHANGED git /\ told' = told /\ ProposalsStay
  BY DEF PassInv, Statuses, ReadsHead, ReadsHeadAgain, Dies, Refuses, ProposalsStay, Stored
<1>2. CASE Dies(p)
  <2>1. \A q \in Procs : proc'[q] = proc[q] \/ proc'[q] = Idle
    BY <1>2 DEF Dies, Refuses, ProcsShaped
  <2> QED  BY <1>1, <2>1, NobodyKeepsPassInv DEF After
<1>3. ASSUME NEW pc, NEW seen, NEW again,
             Becomes(p, pc, proc[p].ask, seen, proc[p].status, again, proc[p].made),
             \/ proc[p].pc = "head" /\ pc = "status" /\ seen.head = head
             \/ proc[p].pc = "headAgain" /\ pc = "statusAgain"
      PROVE  PassInv'
  <2>1. /\ Kind(p)' = Kind(p) /\ proc'[p].pc = pc /\ proc'[p].seen = seen /\ proc'[p].ask = proc[p].ask
        /\ proc'[p].made = proc[p].made  BY <1>3 DEF Becomes, Kind
  <2>2. head \in Line(commits', head')  BY DEF After, Continues
  <2>3. head' = head  BY <1>1 DEF git
  <2>4. CommitKnows(p)'  BY <1>1, <2>1 DEF PassKnows, CommitKnows, CommitAsked, After, Advances
  <2>5. PushKnows(p)'  BY <1>1, <1>3, <2>1, <2>2 DEF PassKnows, PushKnows
  <2>6. ProposeKnows(p)'  BY <1>1, <1>3, <2>1 DEF PassKnows, ProposeKnows, Drafted
  <2>7. \A q \in Procs : q # p => proc'[q] = proc[q]  BY <1>3 DEF Becomes
  <2> QED  BY <1>1, <2>4, <2>5, <2>6, <2>7, PassInvGoesOn DEF After, PassKnows
<1>4. CASE ReadsHead(p) \/ ReadsHeadAgain(p)  BY <1>3, <1>4, HeadIsAnswered
<1> QED  BY <1>2, <1>4 DEF Statuses

\* Every step keeps it.
LEMMA PassInvStays ==
  ASSUME WorkspaceInv, PassInv, [Next]_vars
  PROVE  PassInv'
<1>1. ProcsShaped /\ RepositorySound /\ AllRooted  BY DEF WorkspaceInv, PassInv
<1>2. After  BY <1>1, StepMovesRepository, RepositoryAdvances, LinesContinue DEF After
<1>3. artifacts' = artifacts => ProposalsStay  BY DEF ProposalsStay, Stored
<1>4. ASSUME NEW p \in Procs, NEW kind, kind \notin Passers, Works(p, kind), artifacts' = artifacts PROVE PassInv'
  BY <1>1, <1>2, <1>3, <1>4, OtherWorkKeepsPassInv DEF After
<1>5. ASSUME \A p \in Procs : proc'[p] = proc[p] \/ proc'[p] = Idle, UNCHANGED <<told, artifacts>> PROVE PassInv'
  BY <1>1, <1>2, <1>3, <1>5, NobodyKeepsPassInv DEF After
<1>6. ASSUME NEW p \in Procs, artifacts' = artifacts,
             Prompting(p) \/ Running(p) \/ Recording(p) \/ Applying(p) \/ Gating(p) \/ Posting(p) \/ Generating(p)
      PROVE  PassInv'
  <2>1. \E kind : kind \notin Passers /\ Works(p, kind)
    BY <1>1, <1>6, PromptingWorks, RunningWorks, RecordingWorks, ApplyingWorks, GatingWorks,
       PostingWorks, GeneratingWorks DEF Passers
  <2> QED  BY <1>4, <1>6, <2>1
<1>7. CASE Steps /\ UNCHANGED artifacts
  <2>1. CASE People /\ UNCHANGED <<proc, told, files>>  BY <1>5, <1>7, <2>1
  <2>2. ASSUME NEW p \in Procs, Committing(p) PROVE PassInv'
    BY <1>1, <1>2, <1>7, <2>2, CommittingPasses
  <2>3. ASSUME NEW p \in Procs, Pushing(p) PROVE PassInv'  BY <1>1, <1>2, <1>7, <2>3, PushingPasses
  <2>4. ASSUME NEW p \in Procs, Statuses(p) PROVE PassInv'  BY <1>1, <1>2, <1>7, <2>4, StatusesPass
  <2> QED  BY <1>6, <1>7, <2>1, <2>2, <2>3, <2>4 DEF Steps
<1>8. CASE \E p \in Procs : Proposing(p)  BY <1>1, <1>2, <1>8, ProposingPasses
<1>9. CASE Serving /\ UNCHANGED artifacts
  <2>1. CASE ServerStarts  BY <1>5, <1>9, <2>1 DEF ServerStarts
  <2>2. CASE ServerStops
    <3>1. \A p \in Procs : proc'[p] = proc[p] \/ proc'[p] = Idle  BY <2>2 DEF ServerStops
    <3>2. UNCHANGED told  BY <2>2 DEF ServerStops
    <3> QED  BY <1>5, <1>9, <3>1, <3>2
  <2> QED  BY <1>6, <1>9, <2>1, <2>2 DEF Serving
<1>10. CASE UNCHANGED vars  BY <1>5, <1>10 DEF vars, cmds, proposals
<1> QED  BY <1>7, <1>8, <1>9, <1>10 DEF Next

\* Every beginning has it.
LEMMA PassInvStarts ==
  ASSUME Init
  PROVE  PassInv
<1>1. PICK b \in Beginnings : commits = b.commits  BY DEF Init
<1>2. \A c \in DOMAIN commits : commits[c].parent \in 0..(c - 1)  BY <1>1, BeginningsAssumption
<1>3. RepositorySound  BY WorkspaceInvStarts DEF WorkspaceInv
<1>4. AllRooted  BY <1>2, <1>3 DEF AllRooted, Rooted, RepositorySound, Numbered
<1>5. \A p \in Procs : PassKnows(p)
  <2>1. \A p \in Procs : Kind(p) = "nothing"  BY DEF Init, Kind, Idle, Nothing
  <2> QED  BY <2>1 DEF PassKnows, CommitKnows, PushKnows, ProposeKnows
<1> QED  BY <1>4, <1>5 DEF PassInv, Init

\* Two commits in the branch do not have one parent.
LEMMA OneChild ==
  ASSUME RepositorySound, AllRooted, NEW a \in Line(commits, head), NEW b \in Line(commits, head),
         commits[a].parent = commits[b].parent
  PROVE  a = b
<1>1. head \in Nat /\ Rooted(commits, head) /\ a \in 1..Len(commits) /\ b \in 1..Len(commits)
      /\ Len(commits) \in Nat  BY LinesAreCommits DEF RepositorySound, Numbered, AllRooted, Rooted
<1>2. commits[a].parent \in 0..(a - 1) /\ commits[b].parent \in 0..(b - 1)
  BY <1>1 DEF AllRooted, Rooted
<1>3. ~(a < b)
  <2> SUFFICES ASSUME a < b PROVE FALSE  OBVIOUS
  <2>1. a <= commits[b].parent  BY <1>1, LineIsOne
  <2> QED  BY <1>1, <1>2, <2>1
<1>4. ~(b < a)
  <2> SUFFICES ASSUME b < a PROVE FALSE  OBVIOUS
  <2>1. b <= commits[a].parent  BY <1>1, LineIsOne
  <2> QED  BY <1>1, <1>2, <2>1
<1> QED  BY <1>1, <1>3, <1>4

\* The invariant of the passes holds always.
THEOREM PassesSound == Spec => []PassInv
<1>1. Init => PassInv  BY PassInvStarts
<1>2. WorkspaceInv /\ PassInv /\ [Next]_vars => PassInv'  BY PassInvStays
<1> QED  BY <1>1, <1>2, WorkspaceSound, PTL DEF Spec

\* A PASS of the commit gate, of the push gate and of propose-successor is the
\* truth when it is printed and stays so, whatever others commit, push and
\* publish between the gate's check, its act and its second look.
THEOREM PassesAlwaysTrue == Spec => []PassesAreTrue
<1>1. ASSUME WorkspaceInv, PassInv PROVE PassesAreTrue
  <2>1. RepositorySound /\ AllRooted  BY <1>1 DEF WorkspaceInv, PassInv
  <2>2. ASSUME NEW t \in told, t.ask.kind = "commit"
        PROVE  /\ t.made.commit \in Ancestors(head)
               /\ commits[t.made.commit].parent = t.ask.head
               /\ commits[t.made.commit].message = t.ask.message
               /\ CommitChangeNames(t.ask.head, t.made.commit) = t.ask.allowed
               /\ t.ask.allowed \cap Protected = {}
    BY <1>1, <2>2, AncestorsAreLine DEF PassInv, TellsTrue, CommitAsked
  <2>3. ASSUME NEW t \in told, t.ask.kind = "commit", NEW u \in told, u.ask.kind = "commit",
               u.ask = t.ask \/ u.made = t.made
        PROVE  u = t
    <3>1. /\ t = [ask |-> t.ask, made |-> [commit |-> t.made.commit]]
          /\ t.made.commit \in Line(commits, head)
          /\ commits[t.made.commit].parent = t.ask.head
          /\ commits[t.made.commit].message = t.ask.message
          /\ CommitChangeNames(t.ask.head, t.made.commit) = t.ask.allowed
          /\ t.ask = [kind |-> "commit", head |-> t.ask.head, allowed |-> t.ask.allowed,
                      message |-> t.ask.message]  BY <1>1, <2>3 DEF PassInv, TellsTrue, CommitAsked
    <3>2. /\ u = [ask |-> u.ask, made |-> [commit |-> u.made.commit]]
          /\ u.made.commit \in Line(commits, head)
          /\ commits[u.made.commit].parent = u.ask.head
          /\ commits[u.made.commit].message = u.ask.message
          /\ CommitChangeNames(u.ask.head, u.made.commit) = u.ask.allowed
          /\ u.ask = [kind |-> "commit", head |-> u.ask.head, allowed |-> u.ask.allowed,
                      message |-> u.ask.message]  BY <1>1, <2>3 DEF PassInv, TellsTrue, CommitAsked
    <3>3. u.made.commit = t.made.commit
      <4>1. CASE u.ask = t.ask  BY <2>1, <3>1, <3>2, <4>1, OneChild
      <4>2. CASE u.made = t.made  BY <4>2
      <4> QED  BY <2>3, <4>1, <4>2
    <3>4. u.ask = t.ask
      <4>1. u.ask.head = t.ask.head /\ u.ask.message = t.ask.message  BY <3>1, <3>2, <3>3
      <4>2. u.ask.allowed = t.ask.allowed  BY <3>1, <3>2, <3>3, <4>1
      <4> QED  BY <3>1, <3>2, <4>1, <4>2
    <3> QED  BY <3>1, <3>2, <3>3, <3>4
  <2>4. \A t \in told : t.ask.kind = "push" => t.ask.head \in Ancestors(remote)
    BY <1>1, AncestorsAreLine DEF PassInv, TellsTrue
  <2>5. \A t \in told : (t.ask.kind = "propose" /\ t.made.published) => Stored(t.made.payload) # {}
    BY <1>1 DEF PassInv, TellsTrue
  <2> QED  BY <2>2, <2>3, <2>4, <2>5 DEF PassesAreTrue
<1> QED  BY <1>1, WorkspaceSound, PassesSound, PTL

----------------------------------------
(* What a whole history earns *)

\* A history that load_history accepts, of events with a known stage and an
\* outcome of the kind the stage takes.
Orderly(h) ==
  /\ Numbered(h)
  /\ HistoryIsWhole(h)
  /\ \A n \in 1..Len(h) :
       h[n].stage \in Stages /\ h[n].outcome \in Outcomes /\ OutcomeFits(h[n].stage, h[n].outcome)

\* The stage that is expected after the first n events.
NextAfter(h, n) == IF n = 0 THEN INITIAL_STAGE ELSE NextStageAfter(h[n])

\* HistoryPromise says these of a whole log; here of its first n events.
SettledBy(h, n, stages, after, outcome) ==
  \E i \in 1..n :
    /\ h[i].stage \in stages
    /\ h[i].outcome = outcome
    /\ \A m \in 1..n : (m # i /\ h[m].stage \in stages \cup after) => m < i

Work == {"implementation", "remediation"}

PlansBy(h, n) == SettledBy(h, n, {"plan-review"}, {}, "APPROVED")
WorkDoneBy(h, n) == SettledBy(h, n, Work, {"implementation-review"}, "completed")
WorkApprovedBy(h, n) == SettledBy(h, n, {"implementation-review"}, Work, "APPROVED")
WorkRejectedBy(h, n) == SettledBy(h, n, {"implementation-review"}, Work, "REJECTED")
ClosedOutBy(h, n) == SettledBy(h, n, {"governance-closeout"}, {"governance-review"}, "completed")
CloseOutApprovedBy(h, n) == SettledBy(h, n, {"governance-review"}, {"governance-closeout"}, "APPROVED")

EarnedBy(h, n, stage) ==
  /\ \A i \in 1..n : h[i].stage # "push"
  /\ stage = "plan-review" <=> ~PlansBy(h, n)
  /\ stage \in {"plan-review", "implementation"} => \A i \in 1..n : h[i].stage = "plan-review"
  /\ stage = "implementation-review" => WorkDoneBy(h, n)
  /\ stage = "remediation" => WorkRejectedBy(h, n)
  /\ stage \in {"governance-closeout", "governance-review", "push"} => WorkApprovedBy(h, n)
  /\ stage = "governance-review" => ClosedOutBy(h, n)
  /\ stage = "push" => CloseOutApprovedBy(h, n)

\* A first part of a sequence.
LEMMA FirstPart ==
  ASSUME NEW s, Numbered(s), NEW n \in 0..Len(s)
  PROVE  /\ Numbered(SubSeq(s, 1, n)) /\ Len(SubSeq(s, 1, n)) = n
         /\ \A i \in 1..n : SubSeq(s, 1, n)[i] = s[i]
         /\ SubSeq(s, 1, n) = <<>> <=> n = 0
<1> DEFINE S == {s[i] : i \in 1..Len(s)}
           t == SubSeq(s, 1, n)
<1>1. Len(s) \in Nat /\ n \in Nat  BY DEF Numbered
<1>2. \A i \in 1..n : s[i] \in S  BY <1>1
<1>3. /\ t \in Seq(S) /\ Len(t) = n
      /\ \A i \in 1..n : t[i] = s[i]
  <2>1. /\ t \in Seq(S)
        /\ Len(t) = IF 1 <= n THEN n - 1 + 1 ELSE 0
        /\ \A i \in 1..(n - 1 + 1) : t[i] = s[1 + i - 1]
    <3> HIDE DEF S
    <3> QED  BY <1>1, <1>2, SubSeqProperties
  <2> HIDE DEF S, t
  <2> QED  BY <1>1, <2>1
<1> HIDE DEF S, t
<1>4. t = [i \in 1..n |-> t[i]]  BY <1>3, LenProperties
<1>5. Numbered(t)  BY <1>1, <1>3, <1>4 DEF Numbered
<1>6. t = <<>> <=> n = 0  BY <1>3, EmptySeq
<1> QED  BY <1>3, <1>5, <1>6 DEF t

\* A numbered sequence of no elements is the empty one.
LEMMA NothingNumbered ==
  ASSUME NEW s, Numbered(s)
  PROVE  s = <<>> <=> Len(s) = 0
<1>1. s \in Seq({s[n] : n \in 1..Len(s)})  BY NumberedIsSeq
<1> DEFINE S == {s[n] : n \in 1..Len(s)}
<1> HIDE DEF S
<1>2. s \in Seq(S)  BY <1>1 DEF S
<1> QED  BY <1>2, EmptySeq

\* What the table expects after a first part of a history.
LEMMA ExpectedAfter ==
  ASSUME NEW h, Numbered(h)
  PROVE  /\ \A n \in 0..Len(h) : ExpectedStage(SubSeq(h, 1, n)) = NextAfter(h, n)
         /\ ExpectedStage(h) = NextAfter(h, Len(h))
<1>1. \A n \in 0..Len(h) : ExpectedStage(SubSeq(h, 1, n)) = NextAfter(h, n)
  <2> SUFFICES ASSUME NEW n \in 0..Len(h) PROVE ExpectedStage(SubSeq(h, 1, n)) = NextAfter(h, n)
    OBVIOUS
  <2> DEFINE t == SubSeq(h, 1, n)
  <2>1. Len(t) = n /\ (\A i \in 1..n : t[i] = h[i]) /\ (t = <<>> <=> n = 0)  BY FirstPart
  <2>2. n # 0 => n \in 1..n  BY DEF Numbered
  <2> HIDE DEF t
  <2>3. ExpectedStage(t) = NextAfter(h, n)  BY <2>1, <2>2 DEF ExpectedStage, NextAfter
  <2> QED  BY <2>3 DEF t
<1>2. ExpectedStage(h) = NextAfter(h, Len(h))  BY NothingNumbered DEF ExpectedStage, NextAfter
<1> QED  BY <1>1, <1>2

\* The table.
LEMMA TableSays ==
  ASSUME NEW t \in Transitions
  PROVE  \A event : (event.stage = t.stage /\ event.outcome = t.outcome) => NextStageAfter(event) = t.next
<1> SUFFICES ASSUME NEW event, event.stage = t.stage, event.outcome = t.outcome
             PROVE  NextStageAfter(event) = t.next  OBVIOUS
<1>1. t.stage # "push"  BY DEF Transitions
<1>2. \A u \in Transitions : (u.stage = t.stage /\ u.outcome = t.outcome) => u.next = t.next
  BY DEF Transitions
<1> DEFINE c == CHOOSE u \in Transitions : u.stage = event.stage /\ u.outcome = event.outcome
<1>3. c \in Transitions /\ c.stage = event.stage /\ c.outcome = event.outcome
  <2>1. \E u \in Transitions : u.stage = event.stage /\ u.outcome = event.outcome  OBVIOUS
  <2> HIDE DEF Transitions
  <2> QED  BY <2>1
<1>4. NextStageAfter(event) = c.next  BY <1>1 DEF NextStageAfter
<1> HIDE DEF c
<1> QED  BY <1>2, <1>3, <1>4

\* The table, row by row.
LEMMA Rows ==
  ASSUME NEW event
  PROVE  LET Says(stage, outcome) == event.stage = stage /\ event.outcome = outcome
         IN  /\ Says("plan-review", "APPROVED") => NextStageAfter(event) = "implementation"
             /\ Says("plan-review", "REJECTED") => NextStageAfter(event) = "plan-review"
             /\ Says("implementation", "completed") => NextStageAfter(event) = "implementation-review"
             /\ Says("implementation-review", "APPROVED") => NextStageAfter(event) = "governance-closeout"
             /\ Says("implementation-review", "REJECTED") => NextStageAfter(event) = "remediation"
             /\ Says("remediation", "completed") => NextStageAfter(event) = "implementation-review"
             /\ Says("governance-closeout", "completed") => NextStageAfter(event) = "governance-review"
             /\ Says("governance-review", "APPROVED") => NextStageAfter(event) = "push"
             /\ Says("governance-review", "REJECTED") => NextStageAfter(event) = "governance-closeout"
             /\ event.stage = "push" => NextStageAfter(event) = None
<1>1. \A stage, outcome, next :
        ([stage |-> stage, outcome |-> outcome, next |-> next] \in Transitions
           /\ event.stage = stage /\ event.outcome = outcome) => NextStageAfter(event) = next
  <2> SUFFICES ASSUME NEW stage, NEW outcome, NEW next,
                      [stage |-> stage, outcome |-> outcome, next |-> next] \in Transitions,
                      event.stage = stage, event.outcome = outcome
               PROVE  NextStageAfter(event) = next  OBVIOUS
  <2> DEFINE t == [stage |-> stage, outcome |-> outcome, next |-> next]
  <2>1. t \in Transitions /\ t.stage = stage /\ t.outcome = outcome /\ t.next = next  OBVIOUS
  <2> HIDE DEF t
  <2> QED  BY <2>1, TableSays
<1>2. /\ [stage |-> "plan-review", outcome |-> "APPROVED", next |-> "implementation"] \in Transitions
      /\ [stage |-> "plan-review", outcome |-> "REJECTED", next |-> "plan-review"] \in Transitions
      /\ [stage |-> "implementation", outcome |-> "completed", next |-> "implementation-review"] \in Transitions
      /\ [stage |-> "implementation-review", outcome |-> "APPROVED", next |-> "governance-closeout"] \in Transitions
      /\ [stage |-> "implementation-review", outcome |-> "REJECTED", next |-> "remediation"] \in Transitions
      /\ [stage |-> "remediation", outcome |-> "completed", next |-> "implementation-review"] \in Transitions
      /\ [stage |-> "governance-closeout", outcome |-> "completed", next |-> "governance-review"] \in Transitions
      /\ [stage |-> "governance-review", outcome |-> "APPROVED", next |-> "push"] \in Transitions
      /\ [stage |-> "governance-review", outcome |-> "REJECTED", next |-> "governance-closeout"] \in Transitions
  BY DEF Transitions
<1>3. event.stage = "push" => NextStageAfter(event) = None  BY DEF NextStageAfter
<1> QED  BY <1>1, <1>2, <1>3

\* Something newer that is of neither kind leaves settled what was settled.
LEMMA StaysSettled ==
  ASSUME NEW h, NEW n \in Nat, NEW stages, NEW after, NEW outcome,
         SettledBy(h, n, stages, after, outcome), h[n + 1].stage \notin stages \cup after
  PROVE  SettledBy(h, n + 1, stages, after, outcome)
<1>1. PICK i \in 1..n : /\ h[i].stage \in stages
                        /\ h[i].outcome = outcome
                        /\ \A m \in 1..n : (m # i /\ h[m].stage \in stages \cup after) => m < i
  BY DEF SettledBy
<1>2. i \in 1..(n + 1)  OBVIOUS
<1>3. \A m \in 1..(n + 1) : (m # i /\ h[m].stage \in stages \cup after) => m < i  BY <1>1
<1> QED  BY <1>1, <1>2, <1>3 DEF SettledBy

\* The newest event settles what it says.
LEMMA NewestSettles ==
  ASSUME NEW h, NEW n \in Nat, NEW stages, NEW after, NEW outcome,
         h[n + 1].stage \in stages, h[n + 1].outcome = outcome
  PROVE  SettledBy(h, n + 1, stages, after, outcome)
<1>1. n + 1 \in 1..(n + 1) /\ \A m \in 1..(n + 1) : m # n + 1 => m < n + 1  OBVIOUS
<1> QED  BY <1>1 DEF SettledBy

\* A plan that was rejected last is not approved.
LEMMA NewestUnsettles ==
  ASSUME NEW h, NEW n \in Nat, h[n + 1].stage = "plan-review", h[n + 1].outcome # "APPROVED"
  PROVE  ~PlansBy(h, n + 1)
<1> SUFFICES ASSUME PlansBy(h, n + 1) PROVE FALSE  OBVIOUS
<1>1. PICK i \in 1..(n + 1) :
        /\ h[i].outcome = "APPROVED"
        /\ \A m \in 1..(n + 1) : (m # i /\ h[m].stage \in {"plan-review"} \cup {}) => m < i
  BY DEF PlansBy, SettledBy
<1>2. i # n + 1 /\ n + 1 \in 1..(n + 1)  BY <1>1
<1> QED  BY <1>1, <1>2

\* The stages the table names.
TableStages == {"plan-review", "implementation", "implementation-review", "remediation",
                "governance-closeout", "governance-review", "push"}

\* One event further.
LEMMA EarnsOneMore ==
  ASSUME NEW h, Orderly(h), NEW n \in Nat, n + 1 \in 1..Len(h),
         NextAfter(h, n) # None => NextAfter(h, n) \in TableStages /\ EarnedBy(h, n, NextAfter(h, n))
  PROVE  NextAfter(h, n + 1) # None =>
           NextAfter(h, n + 1) \in TableStages /\ EarnedBy(h, n + 1, NextAfter(h, n + 1))
<1> DEFINE e == h[n + 1]
           s == NextAfter(h, n + 1)
<1>1. /\ e.stage \in Stages /\ e.outcome \in Outcomes /\ OutcomeFits(e.stage, e.outcome)
      /\ e.stage = ExpectedStage(SubSeq(h, 1, n))
  <2>1. n + 1 - 1 = n /\ n + 1 \in DOMAIN h  BY DEF Orderly, Numbered
  <2>2. \A m \in DOMAIN h : h[m].stage = ExpectedStage(SubSeq(h, 1, m - 1))
    BY DEF Orderly, HistoryIsWhole
  <2>3. h[n + 1].stage = ExpectedStage(SubSeq(h, 1, n + 1 - 1))  BY <2>1, <2>2
  <2> QED  BY <2>1, <2>3 DEF Orderly
<1>2. e.stage = NextAfter(h, n) /\ e.stage # None
  <2>1. n \in 0..Len(h) /\ Numbered(h)  BY DEF Orderly, Numbered
  <2> QED  BY <1>1, <2>1, ExpectedAfter, StagesAssumption
<1>3. e.stage \in TableStages /\ EarnedBy(h, n, e.stage)  BY <1>2
<1>4. s = NextStageAfter(e)  BY DEF NextAfter
<1>5. e.outcome = IF e.stage \in VERDICT_STAGES THEN e.outcome ELSE "completed"
  BY <1>1 DEF OutcomeFits, Outcomes
<1>6. e.stage \in VERDICT_STAGES => e.outcome \in {"APPROVED", "REJECTED"}
  BY <1>1 DEF OutcomeFits, Verdicts
<1>7. \A stages, after, outcome :
        (SettledBy(h, n, stages, after, outcome) /\ e.stage \notin stages \cup after)
          => SettledBy(h, n + 1, stages, after, outcome)  BY StaysSettled
<1>8. \A stages, after, outcome :
        (e.stage \in stages /\ e.outcome = outcome) => SettledBy(h, n + 1, stages, after, outcome)
  BY NewestSettles
<1>9. e.stage # "push" => \A i \in 1..(n + 1) : h[i].stage # "push"  BY <1>3 DEF EarnedBy
<1>10. e.stage # "plan-review" => PlansBy(h, n + 1)  BY <1>3, <1>7 DEF EarnedBy, PlansBy
<1>11. e.stage = "plan-review" => \A i \in 1..(n + 1) : h[i].stage = "plan-review"
  BY <1>3 DEF EarnedBy
<1>12. e.stage \in {"governance-closeout", "governance-review", "push"} => WorkApprovedBy(h, n + 1)
  BY <1>3, <1>7 DEF EarnedBy, WorkApprovedBy, Work
<1>13. e.stage \in Work => WorkDoneBy(h, n + 1)  BY <1>5, <1>8 DEF WorkDoneBy, Work, VERDICT_STAGES
<1>14. e.stage = "plan-review" => (e.outcome = "APPROVED" <=> PlansBy(h, n + 1))
  BY <1>8, NewestUnsettles DEF PlansBy
<1>15. e.stage = "implementation-review" =>
         /\ e.outcome = "APPROVED" => WorkApprovedBy(h, n + 1)
         /\ e.outcome = "REJECTED" => WorkRejectedBy(h, n + 1)
  BY <1>8 DEF WorkApprovedBy, WorkRejectedBy
<1>16. e.stage = "governance-closeout" => ClosedOutBy(h, n + 1)
  BY <1>5, <1>8 DEF ClosedOutBy, VERDICT_STAGES
<1>17. (e.stage = "governance-review" /\ e.outcome = "APPROVED") => CloseOutApprovedBy(h, n + 1)
  BY <1>8 DEF CloseOutApprovedBy
<1> HIDE DEF e, s
<1>18. CASE e.stage = "plan-review"
  <2>1. s = IF e.outcome = "APPROVED" THEN "implementation" ELSE "plan-review"
    BY <1>4, <1>6, <1>18, Rows DEF VERDICT_STAGES
  <2> QED  BY <1>9, <1>11, <1>14, <1>18, <2>1 DEF EarnedBy, TableStages, s
<1>19. CASE e.stage \in Work
  <2>1. s = "implementation-review"  BY <1>4, <1>5, <1>19, Rows DEF VERDICT_STAGES, Work
  <2> QED  BY <1>9, <1>10, <1>13, <1>19, <2>1 DEF EarnedBy, TableStages, Work, s
<1>20. CASE e.stage = "implementation-review"
  <2>1. s = IF e.outcome = "APPROVED" THEN "governance-closeout" ELSE "remediation"
    BY <1>4, <1>6, <1>20, Rows DEF VERDICT_STAGES
  <2> QED  BY <1>6, <1>9, <1>10, <1>15, <1>20, <2>1 DEF EarnedBy, TableStages, VERDICT_STAGES, s
<1>21. CASE e.stage = "governance-closeout"
  <2>1. s = "governance-review"  BY <1>4, <1>5, <1>21, Rows DEF VERDICT_STAGES
  <2> QED  BY <1>9, <1>10, <1>12, <1>16, <1>21, <2>1 DEF EarnedBy, TableStages, s
<1>22. CASE e.stage = "governance-review"
  <2>1. s = IF e.outcome = "APPROVED" THEN "push" ELSE "governance-closeout"
    BY <1>4, <1>6, <1>22, Rows DEF VERDICT_STAGES
  <2> QED  BY <1>9, <1>10, <1>12, <1>17, <1>22, <2>1 DEF EarnedBy, TableStages, s
<1>23. CASE e.stage = "push"  BY <1>4, <1>23, Rows DEF s
<1> QED  BY <1>3, <1>18, <1>19, <1>20, <1>21, <1>22, <1>23 DEF TableStages, Work

\* The stage that comes next in a whole history is one it has earned.
LEMMA NextIsEarned ==
  ASSUME NEW h, Orderly(h), NextAfter(h, Len(h)) # None
  PROVE  EarnedBy(h, Len(h), NextAfter(h, Len(h)))
<1> DEFINE Good(n) == NextAfter(h, n) # None =>
                        NextAfter(h, n) \in TableStages /\ EarnedBy(h, n, NextAfter(h, n))
<1>1. Len(h) \in Nat  BY DEF Orderly, Numbered
<1>2. Good(0)
  <2>1. NextAfter(h, 0) = "plan-review" /\ ~PlansBy(h, 0)
    BY DEF NextAfter, INITIAL_STAGE, PlansBy, SettledBy
  <2> QED  BY <2>1 DEF EarnedBy, TableStages
<1>3. \A n \in Nat : (n + 1 \in 1..Len(h) /\ Good(n)) => Good(n + 1)  BY EarnsOneMore
<1> HIDE DEF Good
<1>4. Good(Len(h))
  <2> SUFFICES ASSUME ~Good(Len(h)) PROVE FALSE  OBVIOUS
  <2> DEFINE T == {n \in 0..Len(h) : ~Good(n)}
  <2>1. PICK n \in T : \A m \in T : n <= m
    <3>1. T \subseteq Nat /\ T # {}  BY <1>1
    <3> HIDE DEF T
    <3> QED  BY <3>1, LeastNumber
  <2>2. n # 0 /\ n - 1 \in Nat /\ n - 1 \in 0..Len(h) /\ ~(n <= n - 1)  BY <1>1, <1>2
  <2>3. Good(n - 1)  BY <2>1, <2>2
  <2>4. n - 1 + 1 = n /\ n \in 1..Len(h)  BY <1>1, <2>2
  <2> QED  BY <1>3, <2>1, <2>2, <2>3, <2>4
<1> QED  BY <1>4 DEF Good

\* An event of the right number, predecessor and stage keeps a history orderly.
LEMMA OrderlyAppend ==
  ASSUME NEW h, Orderly(h), NEW e,
         e.sequence = Len(h) + 1,
         e.parent = IF Len(h) = 0 THEN <<>> ELSE <<h[Len(h)]>>,
         e.stage = NextAfter(h, Len(h)),
         e.stage \in Stages, e.outcome \in Outcomes, OutcomeFits(e.stage, e.outcome)
  PROVE  Orderly(Append(h, e))
<1> DEFINE g == Append(h, e)
<1>1. Numbered(h) /\ Len(h) \in Nat /\ DOMAIN h = 1..Len(h)  BY DEF Orderly, Numbered
<1>2. /\ Numbered(g) /\ Len(g) = Len(h) + 1
      /\ \A n \in 1..Len(h) : g[n] = h[n]
      /\ g[Len(h) + 1] = e  BY <1>1, NumberedAppend
<1>3. DOMAIN g = 1..(Len(h) + 1)  BY <1>2 DEF Numbered
<1> HIDE DEF g
<1>4. \A k \in 0..Len(h) : NextAfter(g, k) = NextAfter(h, k)
  <2> SUFFICES ASSUME NEW k \in 0..Len(h) PROVE NextAfter(g, k) = NextAfter(h, k)  OBVIOUS
  <2>1. k # 0 => g[k] = h[k]  BY <1>1, <1>2
  <2> QED  BY <2>1 DEF NextAfter
<1>5. \A k \in 0..Len(h) : ExpectedStage(SubSeq(g, 1, k)) = NextAfter(h, k)
  BY <1>1, <1>2, <1>4, ExpectedAfter
<1>6. \A k \in 0..Len(h) : ExpectedStage(SubSeq(h, 1, k)) = NextAfter(h, k)  BY <1>1, ExpectedAfter
<1>7. ASSUME NEW n \in 1..(Len(h) + 1)
      PROVE  /\ g[n].sequence = n
             /\ g[n].parent = IF n = 1 THEN <<>> ELSE <<g[n - 1]>>
             /\ g[n].stage = ExpectedStage(SubSeq(g, 1, n - 1))
             /\ g[n].stage \in Stages /\ g[n].outcome \in Outcomes /\ OutcomeFits(g[n].stage, g[n].outcome)
  <2>1. CASE n \in 1..Len(h)
    <3>1. /\ h[n].sequence = n
          /\ h[n].parent = IF n = 1 THEN <<>> ELSE <<h[n - 1]>>
          /\ h[n].stage = ExpectedStage(SubSeq(h, 1, n - 1))
      BY <1>1, <2>1 DEF Orderly, HistoryIsWhole
    <3>2. h[n].stage \in Stages /\ h[n].outcome \in Outcomes /\ OutcomeFits(h[n].stage, h[n].outcome)
      BY <2>1 DEF Orderly
    <3>3. n - 1 \in 0..Len(h) /\ g[n] = h[n] /\ (n # 1 => g[n - 1] = h[n - 1])  BY <1>1, <1>2, <2>1
    <3>4. ExpectedStage(SubSeq(g, 1, n - 1)) = ExpectedStage(SubSeq(h, 1, n - 1))
      BY <1>5, <1>6, <3>3
    <3> QED  BY <3>1, <3>2, <3>3, <3>4
  <2>2. CASE n = Len(h) + 1
    <3>1. n - 1 = Len(h) /\ n - 1 \in 0..Len(h) /\ g[n] = e /\ (n = 1 <=> Len(h) = 0)
      BY <1>1, <1>2, <2>2
    <3>2. n # 1 => g[n - 1] = h[Len(h)]  BY <1>1, <1>2, <3>1
    <3>3. ExpectedStage(SubSeq(g, 1, n - 1)) = e.stage  BY <1>5, <3>1
    <3> QED  BY <2>2, <3>1, <3>2, <3>3
  <2> QED  BY <1>1, <2>1, <2>2
<1>8. HistoryIsWhole(g)  BY <1>3, <1>7 DEF HistoryIsWhole
<1>9. Orderly(g)  BY <1>2, <1>7, <1>8 DEF Orderly
<1> QED  BY <1>9 DEF g

----------------------------------------
(* What the recorders know *)

\* A recorder holds a first part of the history and an event that continues it.
RecordHolds(p) ==
  Kind(p) = "record" =>
    LET ask == proc[p].ask
        history == ask.history
        made == proc[p].made
    IN  /\ proc[p].pc \in {"recordHead", "append", "derive"}
        /\ Numbered(history) /\ Len(history) <= Len(files)
        /\ \A n \in 1..Len(history) : files[n] = history[n]
        /\ ask.stage \in Stages /\ ask.outcome \in Outcomes /\ OutcomeFits(ask.stage, ask.outcome)
        /\ ask.stage = NextAfter(history, Len(history))
        /\ proc[p].pc # "recordHead" =>
             /\ made.sequence = Len(history) + 1
             /\ made.parent = IF Len(history) = 0 THEN <<>> ELSE <<history[Len(history)]>>
             /\ made.stage = ask.stage /\ made.outcome = ask.outcome
        /\ proc[p].pc = "derive" => \E n \in 1..Len(files) : files[n] = made

HistoryInv ==
  /\ Orderly(files)
  /\ \A p \in Procs : RecordHolds(p)

FilesGrow ==
  /\ Len(files') \in Nat /\ Len(files) <= Len(files')
  /\ \A n \in 1..Len(files) : files'[n] = files[n]

\* What a recorder holds stays so while others append.
LEMMA RecordHoldsOn ==
  ASSUME Orderly(files), FilesGrow, NEW p, RecordHolds(p), proc'[p] = proc[p]
  PROVE  RecordHolds(p)'
<1> SUFFICES ASSUME Kind(p) = "record" PROVE RecordHolds(p)'  BY DEF RecordHolds, Kind
<1> DEFINE history == proc[p].ask.history
<1>1. Len(files) \in Nat /\ Len(files') \in Nat /\ Len(files) <= Len(files')
  BY DEF Orderly, Numbered, FilesGrow
<1>2. Len(history) \in Nat /\ Len(history) <= Len(files) /\ \A n \in 1..Len(history) : files[n] = history[n]
  BY DEF RecordHolds, Numbered
<1>3. Len(history) <= Len(files') /\ \A n \in 1..Len(history) : files'[n] = history[n]
  BY <1>1, <1>2 DEF FilesGrow
<1>4. proc[p].pc = "derive" => \E n \in 1..Len(files') : files'[n] = proc[p].made
  <2> SUFFICES ASSUME proc[p].pc = "derive" PROVE \E n \in 1..Len(files') : files'[n] = proc[p].made
    OBVIOUS
  <2>1. PICK n \in 1..Len(files) : files[n] = proc[p].made  BY DEF RecordHolds
  <2>2. n \in 1..Len(files') /\ files'[n] = proc[p].made  BY <1>1, <2>1 DEF FilesGrow
  <2> QED  BY <2>2
<1>5. Kind(p)' = "record"  BY DEF Kind
<1> QED  BY <1>3, <1>4, <1>5 DEF RecordHolds, Numbered

\* Files that do not move have grown by nothing.
LEMMA FilesRest ==
  ASSUME Orderly(files), UNCHANGED files
  PROVE  FilesGrow
BY DEF Orderly, Numbered, FilesGrow

\* Whoever records nothing holds nothing.
LEMMA OthersHoldNothing ==
  ASSUME NEW p, Kind(p)' # "record"
  PROVE  RecordHolds(p)'
BY DEF RecordHolds

\* A step that is not of a recorder.
LEMMA OtherStepsKeepHistory ==
  ASSUME HistoryInv, UNCHANGED files, \A p \in Procs : proc'[p] = proc[p] \/ Kind(p)' # "record"
  PROVE  HistoryInv'
<1>1. FilesGrow  BY FilesRest DEF HistoryInv
<1>2. \A p \in Procs : RecordHolds(p)'  BY <1>1, RecordHoldsOn, OthersHoldNothing DEF HistoryInv
<1>3. Orderly(files)'  BY DEF HistoryInv, Orderly, Numbered, HistoryIsWhole
<1> QED  BY <1>2, <1>3 DEF HistoryInv

\* What the promise calls the events of recorders that were told PASS.
Acknowledged == {t.made.event : t \in {u \in told : u.ask.kind = "record"}}

\* A step in which no recorder is answered acknowledges nothing.
LEMMA NothingAcknowledged ==
  ASSUME told \subseteq told', \A t \in told' \ told : t.ask.kind # "record"
  PROVE  Acknowledged' = Acknowledged
<1>1. {u \in told' : u.ask.kind = "record"} = {u \in told : u.ask.kind = "record"}  OBVIOUS
<1> QED  BY <1>1 DEF Acknowledged

\* What the promise says, in the terms of this module.
LEMMA PromiseSays ==
  /\ Promise!Init <=> Acknowledged = {}
  /\ Promise!Add <=>
       /\ Len(files') = Len(files) + 1
       /\ SubSeq(files', 1, Len(files)) = files
       /\ Promise!Earned(files'[Len(files')].stage)
       /\ Acknowledged' = Acknowledged
  /\ Promise!Acknowledge <=>
       /\ \E n \in DOMAIN files : Acknowledged' = Acknowledged \cup {files[n]}
       /\ UNCHANGED files
<1>1. Promise!Init <=> Acknowledged = {}  BY Zenon DEF Promise!Init, Acknowledged
<1>2. Promise!Add <=>
       /\ Len(files') = Len(files) + 1
       /\ SubSeq(files', 1, Len(files)) = files
       /\ Promise!Earned(files'[Len(files')].stage)
       /\ Acknowledged' = Acknowledged  BY Zenon DEF Promise!Add, Acknowledged
<1>3. Promise!Acknowledge <=>
       /\ \E n \in DOMAIN files : Acknowledged' = Acknowledged \cup {files[n]}
       /\ UNCHANGED files  BY Zenon DEF Promise!Acknowledge, Acknowledged
<1> QED  BY <1>1, <1>2, <1>3

\* What the first events of the log have earned is what all of them have.
LEMMA EarnedInFull ==
  ASSUME Numbered(files), NEW stage, EarnedBy(files, Len(files), stage)
  PROVE  Promise!Earned(stage)
<1>1. DOMAIN files = 1..Len(files)  BY DEF Numbered
<1>2. \A stages, after, outcome :
        SettledBy(files, Len(files), stages, after, outcome) <=> Promise!Settled(stages, after, outcome)
  BY <1>1 DEF SettledBy, Promise!Settled
<1>3. /\ PlansBy(files, Len(files)) <=> Promise!PlanApproved
      /\ WorkApprovedBy(files, Len(files)) <=> Promise!WorkApproved
      /\ WorkRejectedBy(files, Len(files)) <=> Promise!WorkRejected
      /\ ClosedOutBy(files, Len(files)) <=> Promise!ClosedOut
      /\ CloseOutApprovedBy(files, Len(files)) <=> Promise!CloseOutApproved
      /\ WorkDoneBy(files, Len(files)) <=> Promise!Settled(Promise!Work, {"implementation-review"}, "completed")
  BY <1>2 DEF PlansBy, WorkApprovedBy, WorkRejectedBy, ClosedOutBy, CloseOutApprovedBy, WorkDoneBy, Work,
     Promise!PlanApproved, Promise!WorkApproved, Promise!WorkRejected, Promise!ClosedOut,
     Promise!CloseOutApproved, Promise!Work
<1>4. (stage = "plan-review") = ~Promise!PlanApproved
  <2>1. (stage = "plan-review") <=> ~Promise!PlanApproved  BY <1>3 DEF EarnedBy
  <2>2. Promise!PlanApproved \in BOOLEAN  BY DEF Promise!PlanApproved, Promise!Settled
  <2> QED  BY <2>1, <2>2
<1> QED  BY <1>1, <1>3, <1>4 DEF EarnedBy, Promise!Earned

----------------------------------------
(* The recorders keep the promise *)

\* A step that adds an event, acknowledges one, or does neither.
KeepsPromise == Promise!Add \/ Promise!Acknowledge \/ UNCHANGED <<files, Acknowledged>>

\* A step of one recorder.
LEMMA HistoryGoesOn ==
  ASSUME HistoryInv, FilesGrow, Orderly(files'), NEW p \in Procs, RecordHolds(p)',
         \A q \in Procs : q # p => proc'[q] = proc[q]
  PROVE  HistoryInv'
<1>1. \A q \in Procs : RecordHolds(q)'  BY RecordHoldsOn DEF HistoryInv
<1> QED  BY <1>1 DEF HistoryInv

\* A recorder that begins has the whole history, and asks for what it expects.
LEMMA StartingKeepsHistory ==
  ASSUME HistoryInv, ProcsShaped, NEW p \in Procs, StartsRecord(p)
  PROVE  HistoryInv' /\ KeepsPromise
<1>1. PICK stage \in Stages, outcome \in Outcomes, cited \in records \cup {Nothing}, note \in Notes :
        /\ OutcomeFits(stage, outcome)
        /\ stage = ExpectedStage(files)
        /\ Begin(p, [kind |-> "record", stage |-> stage, outcome |-> outcome,
                     run |-> cited, note |-> note, history |-> files], "recordHead")
        /\ UNCHANGED files  BY DEF StartsRecord
<1> DEFINE ask == [kind |-> "record", stage |-> stage, outcome |-> outcome,
                   run |-> cited, note |-> note, history |-> files]
<1>2. Begin(p, ask, "recordHead") /\ ask.kind = "record" /\ ask.stage = stage /\ ask.outcome = outcome
        /\ ask.history = files  BY <1>1
<1> HIDE DEF ask
<1>3. Becomes(p, "recordHead", ask, Nothing, Nothing, Nothing, Nothing) /\ told' = told
  BY <1>2, Begins DEF Begin
<1>4. /\ proc'[p].pc = "recordHead" /\ proc'[p].ask = ask
      /\ \A q \in Procs : q # p => proc'[q] = proc[q]  BY <1>3 DEF Becomes
<1>5. Numbered(files) /\ Len(files) \in Nat /\ FilesGrow /\ files' = files
  BY <1>1, FilesRest DEF HistoryInv, Orderly, Numbered
<1>6. stage = NextAfter(files, Len(files))  BY <1>1, <1>5, ExpectedAfter
<1>7. RecordHolds(p)'  BY <1>1, <1>2, <1>4, <1>5, <1>6 DEF RecordHolds, NextAfter
<1>8. Orderly(files')  BY <1>5 DEF HistoryInv
<1>9. HistoryInv'  BY <1>4, <1>5, <1>7, <1>8, HistoryGoesOn
<1>10. Acknowledged' = Acknowledged  BY <1>3 DEF Acknowledged
<1> QED  BY <1>5, <1>9, <1>10 DEF KeepsPromise

\* It makes the event that comes after the history it has.
LEMMA ReadingKeepsHistory ==
  ASSUME HistoryInv, ProcsShaped, NEW p \in Procs, RecordReadsHead(p)
  PROVE  HistoryInv' /\ KeepsPromise
<1> DEFINE ask == proc[p].ask
           made == WorkflowEvent(ask, ask.history)
<1>1. Kind(p) = "record" /\ proc[p].pc = "recordHead" /\ RecordHolds(p)
  BY DEF RecordReadsHead, At, HistoryInv
<1>2. UNCHANGED <<told, files>>  BY DEF RecordReadsHead
<1>3. Numbered(ask.history) /\ Len(ask.history) \in Nat  BY <1>1 DEF RecordHolds, Numbered
<1>4. ask.history = <<>> <=> Len(ask.history) = 0  BY <1>3, NothingNumbered
<1>5. /\ made.sequence = Len(ask.history) + 1
      /\ made.parent = IF Len(ask.history) = 0 THEN <<>> ELSE <<ask.history[Len(ask.history)]>>
      /\ made.stage = ask.stage /\ made.outcome = ask.outcome  BY <1>4 DEF WorkflowEvent
<1>6. proc' = [proc EXCEPT ![p].pc = "append", ![p].made = made]  BY DEF RecordReadsHead
<1> HIDE DEF made
<1>7. Becomes(p, "append", ask, proc[p].seen, proc[p].status, proc[p].again, made)  BY <1>6, GoesOn
<1>8. /\ proc'[p].pc = "append" /\ proc'[p].ask = ask /\ proc'[p].made = made
      /\ \A q \in Procs : q # p => proc'[q] = proc[q]  BY <1>7 DEF Becomes
<1>9. RecordHolds(p)'  BY <1>1, <1>2, <1>5, <1>8 DEF RecordHolds, Kind, NextAfter, Numbered
<1>10. FilesGrow /\ Orderly(files')  BY <1>2, FilesRest DEF HistoryInv
<1>11. HistoryInv'  BY <1>8, <1>9, <1>10, HistoryGoesOn
<1>12. Acknowledged' = Acknowledged  BY <1>2 DEF Acknowledged
<1> QED  BY <1>2, <1>11, <1>12 DEF KeepsPromise

\* An event is added where the history still is what its recorder has read.
LEMMA AddsInOrder ==
  ASSUME HistoryInv, NEW p \in Procs, At(p, "record", "append"),
         proc[p].made.sequence > Len(files), files' = Append(files, proc[p].made)
  PROVE  /\ Orderly(files') /\ FilesGrow /\ files'[Len(files')] = proc[p].made
         /\ Len(files') = Len(files) + 1
         /\ SubSeq(files', 1, Len(files)) = files
         /\ Promise!Earned(files'[Len(files')].stage)
<1> DEFINE made == proc[p].made
           history == proc[p].ask.history
<1>1. RecordHolds(p) /\ Kind(p) = "record" /\ proc[p].pc = "append"  BY DEF HistoryInv, At
<1>2. Numbered(files) /\ Len(files) \in Nat /\ Numbered(history) /\ Len(history) \in Nat
  BY <1>1 DEF HistoryInv, Orderly, RecordHolds, Numbered
<1>3. /\ Len(history) <= Len(files) /\ \A n \in 1..Len(history) : files[n] = history[n]
      /\ made.sequence = Len(history) + 1
      /\ made.parent = IF Len(history) = 0 THEN <<>> ELSE <<history[Len(history)]>>
      /\ made.stage = NextAfter(history, Len(history))
      /\ made.stage \in Stages /\ made.outcome \in Outcomes /\ OutcomeFits(made.stage, made.outcome)
  BY <1>1 DEF RecordHolds
<1>4. Len(history) = Len(files)  BY <1>2, <1>3
<1>5. Len(files) # 0 => files[Len(files)] = history[Len(history)]  BY <1>2, <1>3, <1>4
<1> HIDE DEF made, history
<1>6. NextAfter(history, Len(history)) = NextAfter(files, Len(files))  BY <1>4, <1>5 DEF NextAfter
<1>7. /\ made.sequence = Len(files) + 1
      /\ made.parent = IF Len(files) = 0 THEN <<>> ELSE <<files[Len(files)]>>
      /\ made.stage = NextAfter(files, Len(files))  BY <1>3, <1>4, <1>5, <1>6
<1>8. Orderly(files)  BY DEF HistoryInv
<1>9. Orderly(Append(files, made))  BY <1>3, <1>7, <1>8, OrderlyAppend
<1>10. files' = Append(files, made)  BY DEF made
<1>11. /\ Numbered(files') /\ Len(files') = Len(files) + 1
       /\ \A n \in 1..Len(files) : files'[n] = files[n]
       /\ files'[Len(files) + 1] = made  BY <1>2, <1>10, NumberedAppend
<1>12. SubSeq(files', 1, Len(files)) = files
  <2> DEFINE s == SubSeq(files', 1, Len(files))
  <2>1. Len(files) \in 0..Len(files')  BY <1>2, <1>11
  <2>2. Numbered(s) /\ Len(s) = Len(files) /\ \A n \in 1..Len(files) : s[n] = files'[n]
    BY <1>11, <2>1, FirstPart
  <2> HIDE DEF s
  <2>3. s = files  BY <1>2, <1>11, <2>2 DEF Numbered
  <2> QED  BY <2>3 DEF s
<1>13. EarnedBy(files, Len(files), made.stage)
  <2>1. made.stage # None  BY <1>3, StagesAssumption
  <2> QED  BY <1>7, <1>8, <2>1, NextIsEarned
<1>14. Promise!Earned(made.stage)  BY <1>2, <1>13, EarnedInFull
<1>15. FilesGrow  BY <1>2, <1>11 DEF FilesGrow
<1> QED  BY <1>9, <1>10, <1>11, <1>12, <1>14, <1>15 DEF made

\* It adds the event, meets the same event, or is refused.
LEMMA AppendingKeepsHistory ==
  ASSUME HistoryInv, ProcsShaped, NEW p \in Procs, AppendsEvent(p)
  PROVE  HistoryInv' /\ KeepsPromise
<1> DEFINE made == proc[p].made
<1>1. Kind(p) = "record" /\ proc[p].pc = "append" /\ RecordHolds(p) /\ At(p, "record", "append")
  BY DEF AppendsEvent, At, HistoryInv
<1>2. \/ made.sequence > Len(files) /\ files' = Append(files, made) /\ Goes(p, "derive")
      \/ made.sequence <= Len(files) /\ files[made.sequence] = made /\ UNCHANGED files /\ Goes(p, "derive")
      \/ UNCHANGED files /\ Refuses(p)  BY ONLY AppendsEvent(p), Zenon DEF AppendsEvent
<1>3. made.sequence \in Nat \ {0} /\ Len(files) \in Nat
  BY <1>1 DEF RecordHolds, Numbered, HistoryInv, Orderly
<1>4. Works(p, "record")  BY <1>1, <1>2, WorkGoesOn
<1>5. told' = told /\ Acknowledged' = Acknowledged
  <2>1. told' = told  BY <1>2 DEF Goes, Refuses
  <2> QED  BY <2>1 DEF Acknowledged
<1>6. ASSUME Goes(p, "derive"), FilesGrow, Orderly(files'), \E n \in 1..Len(files') : files'[n] = made
      PROVE  HistoryInv'
  <2>1. Becomes(p, "derive", proc[p].ask, proc[p].seen, proc[p].status, proc[p].again, made)
    BY <1>6, GoesOn DEF Goes
  <2>2. /\ proc'[p].pc = "derive" /\ proc'[p].ask = proc[p].ask /\ proc'[p].made = made
        /\ \A q \in Procs : q # p => proc'[q] = proc[q]  BY <2>1 DEF Becomes
  <2>3. Len(proc[p].ask.history) <= Len(files')
        /\ \A n \in 1..Len(proc[p].ask.history) : files'[n] = proc[p].ask.history[n]
    <3>1. /\ Len(proc[p].ask.history) \in Nat /\ Len(proc[p].ask.history) <= Len(files)
          /\ \A n \in 1..Len(proc[p].ask.history) : files[n] = proc[p].ask.history[n]
      BY <1>1 DEF RecordHolds, Numbered
    <3> QED  BY <1>3, <1>6, <3>1 DEF FilesGrow
  <2>4. RecordHolds(p)'  BY <1>1, <1>6, <2>2, <2>3 DEF RecordHolds, Kind, NextAfter, Numbered
  <2> QED  BY <1>6, <2>2, <2>4, HistoryGoesOn
<1>7. CASE made.sequence > Len(files) /\ files' = Append(files, made) /\ Goes(p, "derive")
  <2>1. /\ Orderly(files') /\ FilesGrow /\ files'[Len(files')] = made
        /\ Len(files') = Len(files) + 1
        /\ SubSeq(files', 1, Len(files)) = files
        /\ Promise!Earned(files'[Len(files')].stage)  BY <1>1, <1>7, AddsInOrder
  <2>2. Len(files') \in 1..Len(files')  BY <1>3, <2>1
  <2>3. HistoryInv'  BY <1>6, <1>7, <2>1, <2>2
  <2>4. Promise!Add  BY <1>5, <2>1, PromiseSays
  <2> QED  BY <2>3, <2>4 DEF KeepsPromise
<1>8. CASE made.sequence <= Len(files) /\ files[made.sequence] = made /\ UNCHANGED files /\ Goes(p, "derive")
  <2>1. FilesGrow /\ Orderly(files')  BY <1>8, FilesRest DEF HistoryInv
  <2>2. made.sequence \in 1..Len(files') /\ files'[made.sequence] = made  BY <1>3, <1>8
  <2>3. HistoryInv'  BY <1>6, <1>8, <2>1, <2>2
  <2> QED  BY <1>5, <1>8, <2>3 DEF KeepsPromise
<1>9. CASE UNCHANGED files /\ Refuses(p)
  <2>1. \A q \in Procs : proc'[q] = proc[q] \/ Kind(q)' # "record"
    BY <1>4, <1>9, IdlesWork DEF Refuses
  <2>2. HistoryInv'  BY <1>9, <2>1, OtherStepsKeepHistory
  <2> QED  BY <1>5, <1>9, <2>2 DEF KeepsPromise
<1> QED  BY <1>2, <1>7, <1>8, <1>9

\* It is told PASS of an event that is in the history.
LEMMA AnsweringKeepsHistory ==
  ASSUME HistoryInv, ProcsShaped, NEW p \in Procs, RecordAnswers(p)
  PROVE  HistoryInv' /\ KeepsPromise
<1> DEFINE report == [event |-> proc[p].made, next |-> ExpectedStage(files)]
<1>1. Kind(p) = "record" /\ proc[p].pc = "derive" /\ RecordHolds(p) /\ UNCHANGED files
  BY DEF RecordAnswers, At, HistoryInv
<1>2. Answers(p, report) \/ Refuses(p)  BY ONLY RecordAnswers(p), Zenon DEF RecordAnswers
<1>3. report.event = proc[p].made  OBVIOUS
<1> HIDE DEF report
<1>4. proc' = [proc EXCEPT ![p] = Idle]  BY <1>2 DEF Answers, Refuses
<1>5. \A q \in Procs : proc'[q] = proc[q] \/ Kind(q)' # "record"  BY <1>4, IdlesWork
<1>6. HistoryInv'  BY <1>1, <1>5, OtherStepsKeepHistory
<1>7. CASE Refuses(p)
  <2>1. Acknowledged' = Acknowledged  BY <1>7 DEF Acknowledged, Refuses
  <2> QED  BY <1>1, <1>6, <2>1 DEF KeepsPromise
<1>8. CASE Answers(p, report)
  <2> DEFINE t == [ask |-> proc[p].ask, made |-> report]
  <2>1. told' = told \cup {t} /\ t.ask.kind = "record" /\ t.made.event = proc[p].made
    BY <1>1, <1>3, <1>8 DEF Answers, Kind
  <2> HIDE DEF t
  <2>2. {u \in told' : u.ask.kind = "record"} = {u \in told : u.ask.kind = "record"} \cup {t}
    BY <2>1
  <2>3. Acknowledged' = Acknowledged \cup {proc[p].made}  BY <2>1, <2>2 DEF Acknowledged
  <2>4. PICK n \in 1..Len(files) : files[n] = proc[p].made  BY <1>1 DEF RecordHolds
  <2>5. n \in DOMAIN files  BY DEF HistoryInv, Orderly, Numbered
  <2>6. Promise!Acknowledge  BY <1>1, <2>3, <2>4, <2>5, PromiseSays
  <2> QED  BY <1>6, <2>6 DEF KeepsPromise
<1> QED  BY <1>2, <1>7, <1>8

\* So does every step of a recorder.
LEMMA RecordingKeepsHistory ==
  ASSUME HistoryInv, ProcsShaped, NEW p \in Procs, Recording(p)
  PROVE  HistoryInv' /\ KeepsPromise
BY StartingKeepsHistory, ReadingKeepsHistory, AppendingKeepsHistory, AnsweringKeepsHistory DEF Recording

\* A step of another command does.
LEMMA OtherWorkKeepsHistory ==
  ASSUME HistoryInv, NEW p \in Procs, NEW kind, kind # "record", Works(p, kind), UNCHANGED files
  PROVE  HistoryInv' /\ KeepsPromise
<1>1. \A q \in Procs : proc'[q] = proc[q] \/ Kind(q)' # "record"  BY DEF Works
<1>2. HistoryInv'  BY <1>1, OtherStepsKeepHistory
<1>3. told \subseteq told' /\ \A t \in told' \ told : t.ask.kind # "record"  BY DEF Works
<1>4. Acknowledged' = Acknowledged  BY <1>3, NothingAcknowledged
<1> QED  BY <1>2, <1>4 DEF KeepsPromise

\* So does a step in which processes end or rest.
LEMMA NobodyBreaksHistory ==
  ASSUME HistoryInv, UNCHANGED <<told, files>>,
         \A p \in Procs : proc'[p] = proc[p] \/ proc'[p] = Idle
  PROVE  HistoryInv' /\ KeepsPromise
<1>1. \A p \in Procs : proc'[p] = proc[p] \/ Kind(p)' # "record"  BY DEF Kind, Idle, Nothing
<1>2. HistoryInv'  BY <1>1, OtherStepsKeepHistory
<1>3. Acknowledged' = Acknowledged  BY DEF Acknowledged
<1> QED  BY <1>2, <1>3 DEF KeepsPromise

\* A command reads HEAD, or dies; a recorder only dies.
LEMMA StatusesKeepHistory ==
  ASSUME HistoryInv, ProcsShaped, NEW p \in Procs, Statuses(p)
  PROVE  HistoryInv' /\ KeepsPromise
<1>1. UNCHANGED <<told, files>>  BY DEF Statuses, ReadsHead, ReadsHeadAgain, Dies, Refuses
<1>2. CASE Dies(p)
  <2>1. \A q \in Procs : proc'[q] = proc[q] \/ proc'[q] = Idle
    BY <1>2 DEF Dies, Refuses, ProcsShaped
  <2> QED  BY <1>1, <2>1, NobodyBreaksHistory
<1>3. ASSUME NEW pc, NEW seen, NEW again,
             Becomes(p, pc, proc[p].ask, seen, proc[p].status, again, proc[p].made),
             proc[p].pc \in {"head", "headAgain"}
      PROVE  HistoryInv' /\ KeepsPromise
  <2>1. Kind(p)' = Kind(p) /\ Kind(p) # "record"
    <3>1. RecordHolds(p)  BY DEF HistoryInv
    <3>2. Kind(p) = "record" => proc[p].pc \in {"recordHead", "append", "derive"}
      BY <3>1 DEF RecordHolds
    <3>3. Kind(p) # "record"  BY <1>3, <3>2
    <3>4. proc'[p].ask = proc[p].ask  BY <1>3 DEF Becomes
    <3> QED  BY <3>3, <3>4 DEF Kind
  <2>2. \A q \in Procs : proc'[q] = proc[q] \/ Kind(q)' # "record"  BY <1>3, <2>1 DEF Becomes
  <2>3. HistoryInv'  BY <1>1, <2>2, OtherStepsKeepHistory
  <2>4. Acknowledged' = Acknowledged  BY <1>1 DEF Acknowledged
  <2> QED  BY <1>1, <2>3, <2>4 DEF KeepsPromise
<1>4. CASE ReadsHead(p) \/ ReadsHeadAgain(p)  BY <1>3, <1>4, HeadIsAnswered
<1> QED  BY <1>2, <1>4 DEF Statuses

\* Every step keeps the history and the promise.
LEMMA HistoryStays ==
  ASSUME WorkspaceInv, HistoryInv, [Next]_vars
  PROVE  HistoryInv' /\ KeepsPromise
<1>1. ProcsShaped  BY DEF WorkspaceInv
<1>2. ASSUME NEW p \in Procs, UNCHANGED files,
             \/ Prompting(p) \/ Running(p) \/ Committing(p) \/ Pushing(p) \/ Applying(p) \/ Gating(p)
             \/ Proposing(p) \/ Posting(p) \/ Generating(p)
      PROVE  HistoryInv' /\ KeepsPromise
  <2>1. \E kind : kind # "record" /\ Works(p, kind)
    BY <1>1, <1>2, PromptingWorks, RunningWorks, CommittingWorks, PushingWorks, ApplyingWorks,
       GatingWorks, ProposingWorks, PostingWorks, GeneratingWorks
  <2> QED  BY <1>2, <2>1, OtherWorkKeepsHistory
<1>3. ASSUME \A p \in Procs : proc'[p] = proc[p] \/ proc'[p] = Idle, UNCHANGED <<told, files>>
      PROVE  HistoryInv' /\ KeepsPromise  BY <1>3, NobodyBreaksHistory
<1>4. CASE Steps
  <2>1. CASE People /\ UNCHANGED <<proc, told, files>>  BY <1>3, <2>1
  <2>2. ASSUME NEW p \in Procs, Recording(p) PROVE HistoryInv' /\ KeepsPromise
    BY <1>1, <2>2, RecordingKeepsHistory
  <2>3. ASSUME NEW p \in Procs, Statuses(p) PROVE HistoryInv' /\ KeepsPromise
    BY <1>1, <2>3, StatusesKeepHistory
  <2>4. ASSUME NEW p \in Procs, Committing(p) \/ Pushing(p) \/ Applying(p) PROVE HistoryInv' /\ KeepsPromise
    BY <1>2, <2>4, DeliveriesLeave
  <2>5. ASSUME NEW p \in Procs, (Prompting(p) \/ Running(p) \/ Gating(p)) /\ UNCHANGED files
        PROVE  HistoryInv' /\ KeepsPromise  BY <1>2, <2>5
  <2> QED  BY <1>4, <2>1, <2>2, <2>3, <2>4, <2>5 DEF Steps
<1>5. CASE (\E p \in Procs : Proposing(p)) /\ UNCHANGED files  BY <1>2, <1>5
<1>6. CASE Serving /\ UNCHANGED files
  <2>1. CASE ServerStarts  BY <1>3, <1>6, <2>1 DEF ServerStarts
  <2>2. CASE ServerStops
    <3>1. (\A p \in Procs : proc'[p] = proc[p] \/ proc'[p] = Idle) /\ UNCHANGED told
      BY <2>2 DEF ServerStops
    <3> QED  BY <1>3, <1>6, <3>1
  <2> QED  BY <1>2, <1>6, <2>1, <2>2 DEF Serving
<1>7. CASE UNCHANGED vars  BY <1>3, <1>7 DEF vars, cmds
<1> QED  BY <1>4, <1>5, <1>6, <1>7 DEF Next

\* Every beginning has a whole history, and nobody has been told anything.
LEMMA HistoryInvStarts ==
  ASSUME Init
  PROVE  HistoryInv /\ Acknowledged = {}
<1>1. PICK b \in Beginnings : files = b.history  BY DEF Init
<1>2. PICK n \in 0..MaxHistory : files = [i \in 1..n |-> files[i]]  BY <1>1, BeginningsAssumption
<1>3. n \in Nat  BY <1>2
<1>4. Numbered(files) /\ DOMAIN files = 1..Len(files)
  <2>1. Numbered(files)  BY <1>2, <1>3, SeqIsNumbered
  <2> QED  BY <2>1 DEF Numbered
<1>5. /\ HistoryIsWhole(files)
      /\ \A i \in DOMAIN files :
           files[i].stage \in Stages /\ files[i].outcome \in Outcomes /\ OutcomeFits(files[i].stage, files[i].outcome)
  BY <1>1, BeginningsAssumption
<1>6. Orderly(files)  BY <1>4, <1>5 DEF Orderly
<1>7. \A p \in Procs : RecordHolds(p)
  <2>1. \A p \in Procs : Kind(p) = "nothing"  BY DEF Init, Kind, Idle, Nothing
  <2> QED  BY <2>1 DEF RecordHolds
<1>8. Acknowledged = {}  BY DEF Init, Acknowledged
<1> QED  BY <1>6, <1>7, <1>8 DEF HistoryInv

\* The history on the disk always loads, and every recorder holds a first part
\* of it: what one publishes is either the next event or meets its own number.
THEOREM HistorySound == Spec => []HistoryInv
<1>1. Init => HistoryInv  BY HistoryInvStarts
<1>2. WorkspaceInv /\ HistoryInv /\ [Next]_vars => HistoryInv'  BY HistoryStays
<1> QED  BY <1>1, <1>2, WorkspaceSound, PTL DEF Spec

\* The persisted workflow implements HistoryPromise: events are only added at
\* the end and never replaced, each is one that the whole history before it
\* earns, and what a recorder was told PASS of is in it - however many
\* recorders meet at one number, and wherever they are killed.
THEOREM HistoryAlwaysKept == Spec => KeepsHistory
<1>1. Init => Promise!Init  BY HistoryInvStarts, PromiseSays
<1>2. WorkspaceInv /\ HistoryInv /\ [Next]_vars =>
        [Promise!Add \/ Promise!Acknowledge]_<<files, Acknowledged>>
  BY HistoryStays DEF KeepsPromise
<1>3. WorkspaceInv /\ HistoryInv /\ [Next]_vars =>
        [Promise!Add \/ Promise!Acknowledge]_<<files, {t.made.event : t \in {u \in told : u.ask.kind = "record"}}>>
  BY <1>2 DEF Acknowledged
<1>4. Spec => Promise!Spec  BY <1>1, <1>3, HistorySound, WorkspaceSound, PTL DEF Spec, Promise!Spec
<1> QED  BY <1>4 DEF KeepsHistory

----------------------------------------
(* The series that propose-successor reads *)

\* The names in the series that propose-successor reads: of documents and of checks.
Names == {"project", "queue", "current", "remaining", "reports", "questions", "registry", "catalog",
          "checksum", "handover", "task-state", "governance", "registries"}

\* What is in either part of a sequence is in the whole.
LEMMA PartsJoin ==
  ASSUME NEW s, NEW t, NEW u, Len(s) \in Nat, Len(t) \in Nat, Len(u) = Len(s) + Len(t),
         DOMAIN s = 1..Len(s), DOMAIN t = 1..Len(t), DOMAIN u = 1..Len(u),
         \A n \in 1..Len(s) : u[n] = s[n], \A n \in 1..Len(t) : u[Len(s) + n] = t[n]
  PROVE  Range(u) = Range(s) \cup Range(t)
<1>1. Range(s) \subseteq Range(u)
  <2> SUFFICES ASSUME NEW n \in 1..Len(s) PROVE s[n] \in Range(u)  BY DEF Range
  <2> QED  BY DEF Range
<1>2. Range(t) \subseteq Range(u)
  <2> SUFFICES ASSUME NEW n \in 1..Len(t) PROVE t[n] \in Range(u)  BY DEF Range
  <2>1. Len(s) + n \in DOMAIN u  OBVIOUS
  <2> QED  BY <2>1 DEF Range
<1>3. Range(u) \subseteq Range(s) \cup Range(t)
  <2> SUFFICES ASSUME NEW n \in 1..Len(u) PROVE u[n] \in Range(s) \cup Range(t)  BY DEF Range
  <2>1. CASE n <= Len(s)  BY <2>1 DEF Range
  <2>2. CASE ~(n <= Len(s))
    <3>1. n - Len(s) \in 1..Len(t) /\ n = Len(s) + (n - Len(s))  BY <2>2
    <3>2. u[n] = t[n - Len(s)]  BY <3>1
    <3> QED  BY <3>1, <3>2 DEF Range
  <2> QED  BY <2>1, <2>2
<1> QED  BY <1>1, <1>2, <1>3

LEMMA RangesJoin ==
  ASSUME NEW s \in Seq(Names), NEW t \in Seq(Names)
  PROVE  Range(s \o t) = Range(s) \cup Range(t)
<1> DEFINE u == s \o t
<1>1. /\ Len(u) = Len(s) + Len(t) /\ Len(s) \in Nat /\ Len(t) \in Nat
      /\ DOMAIN u = 1..Len(u) /\ DOMAIN s = 1..Len(s) /\ DOMAIN t = 1..Len(t)
      /\ \A n \in 1..Len(s) : u[n] = s[n]
      /\ \A n \in 1..Len(t) : u[Len(s) + n] = t[n]  OBVIOUS
<1> HIDE DEF u
<1>2. Range(u) = Range(s) \cup Range(t)  BY <1>1, PartsJoin
<1> QED  BY <1>2 DEF u

----------------------------------------
(* What propose-successor concludes depends on the documents it cites *)

\* The documents that are read as evidence: all but the catalog.
EvidenceDocs == Range(EvidenceOrder)

LEMMA TheDocuments ==
  /\ Documents = {"project", "queue", "current", "remaining", "reports", "questions",
                  "registry", "catalog", "checksum", "handover"}
  /\ EvidenceDocs = {"queue", "current", "remaining", "project", "registry", "questions",
                     "reports", "checksum", "handover"}
  /\ EvidenceDocs \subseteq Documents /\ "catalog" \in Documents
<1>1. Range(SnapshotOrder) = {"project", "queue", "current", "remaining", "reports", "questions",
                              "registry", "catalog", "checksum", "handover"}
  BY DEF Range, SnapshotOrder
<1>2. EvidenceDocs = {"queue", "current", "remaining", "project", "registry", "questions",
                      "reports", "checksum", "handover"}  BY DEF EvidenceDocs, Range, EvidenceOrder
<1> QED  BY <1>1, <1>2, DocumentsAssumption

\* Two records with the same evidence: the rules make no difference between them.
LEMMA SameEvidence ==
  ASSUME NEW f, NEW g, \A d \in EvidenceDocs : f[d] = g[d]
  PROVE  /\ \A check : CheckFailure(check, f) = CheckFailure(check, g)
         /\ MirrorsReconcile(f) <=> MirrorsReconcile(g)
         /\ CurrentTasks(f) = CurrentTasks(g)
         /\ \A stage : PredecessorConfirmed(f, stage) <=> PredecessorConfirmed(g, stage)
         /\ \A catalog : Proposal(catalog, f) = Proposal(catalog, g)
<1>1. /\ f["queue"] = g["queue"] /\ f["current"] = g["current"] /\ f["remaining"] = g["remaining"]
      /\ f["project"] = g["project"] /\ f["registry"] = g["registry"] /\ f["questions"] = g["questions"]
      /\ f["reports"] = g["reports"] /\ f["checksum"] = g["checksum"] /\ f["handover"] = g["handover"]
  BY TheDocuments
<1>2. CurrentTasks(f) = CurrentTasks(g)  BY <1>1 DEF CurrentTasks
<1>3. MirrorsAgree(f) <=> MirrorsAgree(g)  BY <1>1, <1>2 DEF MirrorsAgree, Mirrors
<1>4. TaskStateHolds(f) <=> TaskStateHolds(g)  BY <1>2, <1>3 DEF TaskStateHolds
<1>5. RegistriesHold(f) <=> RegistriesHold(g)  BY <1>1 DEF RegistriesHold, RowAgrees
<1>6. HandoverHolds(f) <=> HandoverHolds(g)  BY <1>1 DEF HandoverHolds
<1>7. \A check : CheckFailure(check, f) = CheckFailure(check, g)
  BY <1>3, <1>4, <1>5, <1>6 DEF CheckFailure
<1>8. MirrorsReconcile(f) <=> MirrorsReconcile(g)
  BY <1>1, <1>2, <1>5 DEF MirrorsReconcile, PureMirrors
<1>9. \A stage : PredecessorConfirmed(f, stage) <=> PredecessorConfirmed(g, stage)
  BY <1>1 DEF PredecessorConfirmed, PureMirrors, ReportedStages
<1>10. \A candidate, candidates : Verdict(candidate, candidates, f) = Verdict(candidate, candidates, g)
  <2> SUFFICES ASSUME NEW candidate, NEW candidates
               PROVE  Verdict(candidate, candidates, f) = Verdict(candidate, candidates, g)  OBVIOUS
  <2>1. StaleClaims(candidate, f) = StaleClaims(candidate, g)
    BY <1>1 DEF StaleClaims, ReportedStages
  <2>2. Unmet(candidate, candidates, f) = Unmet(candidate, candidates, g)
    BY <1>1 DEF Unmet, KnownStages
  <2>3. {LiveStatus(id, f["questions"]) : id \in candidate.asks} = {LiveStatus(id, g["questions"]) : id \in candidate.asks}
    BY <1>1
  <2> QED  BY <2>1, <2>2, <2>3, Zenon DEF Verdict
<1>11. \A candidates, findings : Report(candidates, findings, f) = Report(candidates, findings, g)
  <2> SUFFICES ASSUME NEW candidates, NEW findings
               PROVE  Report(candidates, findings, f) = Report(candidates, findings, g)  OBVIOUS
  <2>1. [id \in Ids(candidates) |-> Verdict(CHOOSE c \in candidates : c.id = id, candidates, f)]
        = [id \in Ids(candidates) |-> Verdict(CHOOSE c \in candidates : c.id = id, candidates, g)]
    BY <1>10
  <2> QED  BY <2>1, Zenon DEF Report
<1>12. \A catalog : Proposal(catalog, f) = Proposal(catalog, g)  BY <1>11 DEF Proposal
<1> QED  BY <1>2, <1>7, <1>8, <1>9, <1>12

\* The first failure among no checks, and among these checks and those.
FailsAt(checks, docs, n) == CheckFailure(checks[n], docs) # "none"

LEMMA FirstFailureIs ==
  ASSUME NEW checks \in Seq(Names), NEW docs
  PROVE  \/ /\ \A n \in 1..Len(checks) : ~FailsAt(checks, docs, n)
            /\ FirstFailure(checks, docs) = "none"
         \/ \E n \in 1..Len(checks) :
              /\ FailsAt(checks, docs, n) /\ \A m \in 1..(n - 1) : ~FailsAt(checks, docs, m)
              /\ FirstFailure(checks, docs) = CheckFailure(checks[n], docs)
<1> DEFINE failing == {n \in DOMAIN checks : CheckFailure(checks[n], docs) # "none"}
           first == CHOOSE n \in failing : \A m \in failing : n <= m
<1>1. DOMAIN checks = 1..Len(checks) /\ Len(checks) \in Nat  OBVIOUS
<1>2. FirstFailure(checks, docs) = IF failing = {} THEN "none" ELSE CheckFailure(checks[first], docs)
  BY DEF FirstFailure
<1>3. failing \subseteq Nat  BY <1>1
<1> HIDE DEF failing, first
<1>4. CASE failing = {}  BY <1>1, <1>2, <1>4 DEF failing, FailsAt
<1>5. CASE failing # {}
  <2>1. \E n \in failing : \A m \in failing : n <= m  BY <1>3, <1>5, LeastNumber
  <2>2. first \in failing /\ \A m \in failing : first <= m  BY <2>1 DEF first
  <2>3. first \in 1..Len(checks) /\ FailsAt(checks, docs, first)  BY <1>1, <2>2 DEF failing, FailsAt
  <2>4. \A m \in 1..(first - 1) : ~FailsAt(checks, docs, m)
    BY <1>1, <2>2, <2>3 DEF failing, FailsAt
  <2> QED  BY <1>2, <1>5, <2>3, <2>4
<1> QED  BY <1>4, <1>5

LEMMA FirstOfBoth ==
  ASSUME NEW s \in Seq(Names), NEW t \in Seq(Names), NEW docs
  PROVE  FirstFailure(s \o t, docs) =
           IF FirstFailure(s, docs) = "none" THEN FirstFailure(t, docs) ELSE FirstFailure(s, docs)
<1> DEFINE u == s \o t
<1>1. /\ u \in Seq(Names) /\ Len(u) = Len(s) + Len(t) /\ Len(s) \in Nat /\ Len(t) \in Nat
      /\ \A n \in 1..Len(s) : u[n] = s[n]
      /\ \A n \in 1..Len(t) : u[Len(s) + n] = t[n]  OBVIOUS
<1> HIDE DEF u
<1>2. \A n \in 1..Len(s) : FailsAt(u, docs, n) <=> FailsAt(s, docs, n)  BY <1>1 DEF FailsAt
<1>3. \A n \in 1..Len(t) : FailsAt(u, docs, Len(s) + n) <=> FailsAt(t, docs, n)  BY <1>1 DEF FailsAt
<1>4. CASE \E n \in 1..Len(s) : /\ FailsAt(s, docs, n) /\ \A m \in 1..(n - 1) : ~FailsAt(s, docs, m)
                                /\ FirstFailure(s, docs) = CheckFailure(s[n], docs)
  <2>1. PICK n \in 1..Len(s) : /\ FailsAt(s, docs, n) /\ \A m \in 1..(n - 1) : ~FailsAt(s, docs, m)
                               /\ FirstFailure(s, docs) = CheckFailure(s[n], docs)  BY <1>4
  <2>2. n \in 1..Len(u) /\ FailsAt(u, docs, n) /\ \A m \in 1..(n - 1) : ~FailsAt(u, docs, m)
    BY <1>1, <1>2, <2>1
  <2>3. FirstFailure(u, docs) = CheckFailure(u[n], docs)
    <3>1. PICK k \in 1..Len(u) : /\ FailsAt(u, docs, k) /\ \A m \in 1..(k - 1) : ~FailsAt(u, docs, m)
                                 /\ FirstFailure(u, docs) = CheckFailure(u[k], docs)
      BY <1>1, <2>2, FirstFailureIs
    <3>2. k = n  BY <1>1, <2>2, <3>1
    <3> QED  BY <3>1, <3>2
  <2> QED  BY <1>1, <2>1, <2>3 DEF u, FailsAt
<1>5. CASE (\A n \in 1..Len(s) : ~FailsAt(s, docs, n)) /\ FirstFailure(s, docs) = "none"
  <2>1. CASE (\A n \in 1..Len(t) : ~FailsAt(t, docs, n)) /\ FirstFailure(t, docs) = "none"
    <3>1. \A n \in 1..Len(u) : ~FailsAt(u, docs, n)
      <4> SUFFICES ASSUME NEW n \in 1..Len(u) PROVE ~FailsAt(u, docs, n)  OBVIOUS
      <4>1. CASE n <= Len(s)  BY <1>1, <1>2, <1>5, <4>1
      <4>2. CASE ~(n <= Len(s))
        <5>1. n - Len(s) \in 1..Len(t) /\ n = Len(s) + (n - Len(s))  BY <1>1, <4>2
        <5> QED  BY <1>3, <2>1, <5>1
      <4> QED  BY <4>1, <4>2
    <3> QED  BY <1>1, <1>5, <2>1, <3>1, FirstFailureIs DEF u
  <2>2. CASE \E n \in 1..Len(t) : /\ FailsAt(t, docs, n) /\ \A m \in 1..(n - 1) : ~FailsAt(t, docs, m)
                                  /\ FirstFailure(t, docs) = CheckFailure(t[n], docs)
    <3>1. PICK n \in 1..Len(t) : /\ FailsAt(t, docs, n) /\ \A m \in 1..(n - 1) : ~FailsAt(t, docs, m)
                                 /\ FirstFailure(t, docs) = CheckFailure(t[n], docs)  BY <2>2
    <3> DEFINE i == Len(s) + n
    <3>2. i \in 1..Len(u) /\ FailsAt(u, docs, i)  BY <1>1, <1>3, <3>1
    <3>3. \A m \in 1..(i - 1) : ~FailsAt(u, docs, m)
      <4> SUFFICES ASSUME NEW m \in 1..(i - 1) PROVE ~FailsAt(u, docs, m)  OBVIOUS
      <4>1. CASE m <= Len(s)  BY <1>1, <1>2, <1>5, <4>1
      <4>2. CASE ~(m <= Len(s))
        <5>1. m - Len(s) \in 1..(n - 1) /\ m - Len(s) \in 1..Len(t) /\ m = Len(s) + (m - Len(s))
          BY <1>1, <3>1, <4>2
        <5> QED  BY <1>3, <3>1, <5>1
      <4> QED  BY <4>1, <4>2
    <3>4. PICK k \in 1..Len(u) : /\ FailsAt(u, docs, k) /\ \A m \in 1..(k - 1) : ~FailsAt(u, docs, m)
                                 /\ FirstFailure(u, docs) = CheckFailure(u[k], docs)
      BY <1>1, <3>2, FirstFailureIs
    <3>5. k = i
      <4>1. k \in Nat /\ i \in Nat  BY <1>1, <3>2, <3>4
      <4>2. ~(k < i) /\ ~(i < k)  BY <1>1, <3>2, <3>3, <3>4, <4>1, SMTT(30)
      <4> QED  BY <4>1, <4>2
    <3> QED  BY <1>1, <1>5, <3>1, <3>4, <3>5 DEF u
  <2> QED  BY <2>1, <2>2, FirstFailureIs
<1> QED  BY <1>4, <1>5, FirstFailureIs

\* A sequence falls into what comes up to a place and what comes after it.
LEMMA SplitAt ==
  ASSUME NEW s \in Seq(Names), NEW n \in Nat, n <= Len(s)
  PROVE  /\ SubSeq(s, 1, n) \in Seq(Names) /\ SubSeq(s, n + 1, Len(s)) \in Seq(Names)
         /\ s = SubSeq(s, 1, n) \o SubSeq(s, n + 1, Len(s))
<1>1. Len(s) \in Nat /\ \A i \in 1..Len(s) : s[i] \in Names  OBVIOUS
<1>2. SubSeq(s, 1, n) \in Seq(Names)
  <2>1. \A i \in 1..n : s[i] \in Names  BY <1>1
  <2> QED  BY <2>1, SubSeqProperties
<1>3. SubSeq(s, n + 1, Len(s)) \in Seq(Names)
  <2>1. \A i \in (n + 1)..Len(s) : s[i] \in Names  BY <1>1
  <2>2. n + 1 \in Int /\ Len(s) \in Int  BY <1>1
  <2> QED  BY <2>1, <2>2, SubSeqProperties
<1>4. SubSeq(s, 1, n) \o SubSeq(s, n + 1, Len(s)) = SubSeq(s, 1, Len(s))
  <2>1. 1 \in 1..(Len(s) + 1) /\ n \in (1 - 1)..Len(s) /\ Len(s) \in n..Len(s)  BY <1>1
  <2> QED  BY <2>1, ConcatAdjacentSubSeq
<1>5. SubSeq(s, 1, Len(s)) = s  BY SubSeqFull
<1> QED  BY <1>2, <1>3, <1>4, <1>5

\* What is to be read falls into what is read next and what is read later.
LEMMA ReadsOn ==
  ASSUME NEW read \in Seq(Names), NEW todo \in Seq(Names)
  PROVE  /\ Reads(todo) \in Seq(Names) /\ Unread(todo) \in Seq(Names)
         /\ read \o Reads(todo) \in Seq(Names)
         /\ read \o todo = (read \o Reads(todo)) \o Unread(todo)
         /\ Unread(todo) = <<>> => read \o todo = read \o Reads(todo)
         /\ Range(read \o Reads(todo)) = Range(read) \cup Range(Reads(todo))
<1>1. Len(todo) \in Nat /\ ReadsAtOnce \in Nat  BY ReadsAssumption
<1>2. Reads(todo) \in Seq(Names) /\ Unread(todo) \in Seq(Names) /\ todo = Reads(todo) \o Unread(todo)
  <2>1. CASE Len(todo) < ReadsAtOnce
    <3>1. Reads(todo) = SubSeq(todo, 1, Len(todo)) /\ Unread(todo) = SubSeq(todo, ReadsAtOnce + 1, Len(todo))
      BY <2>1 DEF Reads, Unread
    <3>2. SubSeq(todo, ReadsAtOnce + 1, Len(todo)) = <<>>
      <4>1. ReadsAtOnce + 1 \in Int /\ Len(todo) \in Int /\ Len(todo) < ReadsAtOnce + 1
        BY <1>1, <2>1
      <4> QED  BY <4>1, SubSeqEmpty
    <3>3. SubSeq(todo, Len(todo) + 1, Len(todo)) = <<>>
      <4>1. Len(todo) + 1 \in Int /\ Len(todo) \in Int /\ Len(todo) < Len(todo) + 1  BY <1>1
      <4> QED  BY <4>1, SubSeqEmpty
    <3>4. /\ SubSeq(todo, 1, Len(todo)) \in Seq(Names) /\ SubSeq(todo, Len(todo) + 1, Len(todo)) \in Seq(Names)
          /\ todo = SubSeq(todo, 1, Len(todo)) \o SubSeq(todo, Len(todo) + 1, Len(todo))
      BY <1>1, SplitAt
    <3> QED  BY <3>1, <3>2, <3>3, <3>4
  <2>2. CASE ~(Len(todo) < ReadsAtOnce)
    <3>1. Reads(todo) = SubSeq(todo, 1, ReadsAtOnce) /\ Unread(todo) = SubSeq(todo, ReadsAtOnce + 1, Len(todo))
      BY <2>2 DEF Reads, Unread
    <3>2. ReadsAtOnce <= Len(todo)  BY <1>1, <2>2
    <3>3. /\ SubSeq(todo, 1, ReadsAtOnce) \in Seq(Names)
          /\ SubSeq(todo, ReadsAtOnce + 1, Len(todo)) \in Seq(Names)
          /\ todo = SubSeq(todo, 1, ReadsAtOnce) \o SubSeq(todo, ReadsAtOnce + 1, Len(todo))
      BY <1>1, <3>2, SplitAt
    <3> QED  BY <3>1, <3>3
  <2> QED  BY <2>1, <2>2
<1> DEFINE now == Reads(todo)
           later == Unread(todo)
<1>3. now \in Seq(Names) /\ later \in Seq(Names) /\ todo = now \o later  BY <1>2
<1> HIDE DEF now, later
<1>4. read \o now \in Seq(Names) /\ read \o todo = (read \o now) \o later  BY <1>3
<1>5. later = <<>> => read \o todo = read \o now  BY <1>3
<1>6. Range(read \o now) = Range(read) \cup Range(now)  BY <1>3, RangesJoin
<1> QED  BY <1>3, <1>4, <1>5, <1>6 DEF now, later

----------------------------------------
(* What steps do to the documents and their times *)

\* Every document is as it was, or was written just now.
Written ==
  /\ writes' \in {writes, writes + 1}
  /\ stamps' = [d \in Documents |-> stamps'[d]]
  /\ \A d \in Documents : \/ tree'[d] = tree[d] /\ stamps'[d] = stamps[d]
                          \/ stamps'[d] = writes' /\ writes' = writes + 1

DiskSound == writes \in Nat /\ stamps \in [Documents -> 0..writes]

\* No document has a time it had with another content, unless it had it before.
Stamped == \A d \in Documents : stamps'[d] = stamps[d] => tree'[d] = tree[d]

\* The operations of Git.
LEMMA OperationsWrite ==
  ASSUME DiskSound, IsClone(tree)
  PROVE  /\ UNCHANGED disk => Written
         /\ \A from, to : GitApply(from, to) => Written
         /\ \A document, content : WritesDocument(document, content) => Written
<1>1. stamps = [d \in Documents |-> stamps[d]] /\ Documents \subseteq Paths
  BY GitAssumption DEF DiskSound
<1>2. UNCHANGED disk => Written  BY <1>1 DEF disk, Written
<1>3. \A from, to : GitApply(from, to) => Written  BY <1>1 DEF GitApply, Written
<1>4. \A document, content : WritesDocument(document, content) => Written
  BY <1>1 DEF WritesDocument, Written, IsClone
<1> QED  BY <1>2, <1>3, <1>4

\* People.
LEMMA PeopleWrite ==
  ASSUME DiskSound, IsClone(tree), People
  PROVE  Written
<1>1. CASE PersonEdits
  <2>1. stamps' = stamps /\ writes' = writes /\ \A d \in Documents : tree'[d] = tree[d]
    BY <1>1 DEF PersonEdits, Code, IsClone
  <2> QED  BY <2>1 DEF Written, DiskSound
<1>2. CASE PersonAmends  BY <1>2, OperationsWrite DEF PersonAmends
<1>3. CASE UNCHANGED disk  BY <1>3, OperationsWrite
<1> QED
  BY <1>1, <1>2, <1>3 DEF People, PersonStages, GitAdd, PersonCommits, PersonFetches, OthersPush,
     EngineChanges, git

\* The commands, but for the gates.
LEMMA CommandsWrite ==
  ASSUME DiskSound, IsClone(tree), NEW p \in Procs,
         \/ Prompting(p) \/ Running(p) \/ Recording(p) \/ Committing(p) \/ Pushing(p) \/ Applying(p)
         \/ Statuses(p) \/ Proposing(p)
  PROVE  Written
<1>1. UNCHANGED disk => Written  BY OperationsWrite
<1>2. UNCHANGED git => UNCHANGED disk  BY DEF git
<1>3. ASSUME Committing(p) PROVE UNCHANGED disk
  BY <1>3 DEF Committing, StartsCommit, CommitReadsStatus, CommitStages, CommitChecksStaged,
     CommitUnstages, CommitCommits, CommitVerifies, GitAdd, GitRestoreStaged, GitCommit, git
<1>4. ASSUME Pushing(p) PROVE UNCHANGED disk
  BY <1>4 DEF Pushing, StartsPush, PushReadsStatus, PushCounts, PushPushes, GitPush, git
<1>5. ASSUME Applying(p) PROVE Written
  <2>1. CASE ApplyApplies(p)  BY <1>1, <1>2, <2>1, OperationsWrite DEF ApplyApplies
  <2>2. CASE UNCHANGED git  BY <1>1, <1>2, <2>2
  <2> QED  BY <1>5, <2>1, <2>2 DEF Applying, StartsApply, ApplyReadsHead, ApplyReadsStatus,
     ApplyChecks, ApplyAnswers
<1>6. Proposing(p) => UNCHANGED git  BY ProposingRests
<1>7. ASSUME Statuses(p) PROVE UNCHANGED git  BY <1>7 DEF Statuses
<1> QED  BY <1>1, <1>2, <1>3, <1>4, <1>5, <1>6, <1>7, PromptingRests, RunningRests, RecordingRests

\* The gates, but for what approve puts back.
LEMMA GatesWrite ==
  ASSUME DiskSound, IsClone(tree), NEW p \in Procs, Gating(p), ~GateRestores(p)
  PROVE  Written
<1>1. CASE GateWrites(p)  BY <1>1, OperationsWrite DEF GateWrites, git
<1>2. CASE UNCHANGED disk  BY <1>2, OperationsWrite
<1> QED
  BY <1>1, <1>2 DEF Gating, StartsAuthorize, AuthorizeReadsHead, AuthorizeReads, AuthorizeValidates,
     StartsApprove, ApproveReads, ApproveCopies, GateValidates, GateReadsChanged, GateStages,
     GitAdd, AuthorizeCountsStaged, GateCommits, GitCommit, GateVerifies, git

LEMMA StepWrites ==
  ASSUME DiskSound, IsClone(tree), [Next]_vars
  PROVE  Written \/ \E p \in Procs : GateRestores(p)
<1>1. CASE Steps  BY <1>1, CommandsWrite, GatesWrite, PeopleWrite DEF Steps
<1>2. CASE UNCHANGED git  BY <1>2, OperationsWrite DEF git
<1>3. CASE \E p \in Procs : Proposing(p)  BY <1>3, CommandsWrite
<1> QED  BY <1>1, <1>2, <1>3 DEF Next, vars

----------------------------------------
(* What approve puts back *)

\* The points of approve at which it has taken its copies.
Copied == {"write", "changed", "add", "gateCommit", "gateVerify", "restore"}

GateFields == {"task", "impl", "todo", "changed", "backup", "state", "before", "amends"}

Gated(made) == made = [x \in GateFields |-> made[x]]

\* A document that still has the time of its copy has the content of its copy.
BackupHolds(backup) ==
  \A d \in Documents :
    /\ backup.stamps[d] \in 0..writes
    /\ stamps[d] = backup.stamps[d] => tree[d] = backup.files[d]

GateKnows(p) ==
  Kind(p) = "approve" =>
    /\ proc[p].pc # "approveReads" => Gated(proc[p].made)
    /\ proc[p].pc \in Copied => BackupHolds(proc[p].made.backup)

\* The owner runs one gate at a time.
OneGate == \A p, q \in Procs : (Kind(p) \in OwnersGates /\ Kind(q) \in OwnersGates) => p = q

DiskInv ==
  /\ DiskSound
  /\ OneGate
  /\ \A p \in Procs : GateKnows(p)

LEMMA BackupStays ==
  ASSUME DiskSound, Written, NEW backup, BackupHolds(backup)
  PROVE  BackupHolds(backup)'
<1> SUFFICES ASSUME NEW d \in Documents
             PROVE  /\ backup.stamps[d] \in 0..writes'
                    /\ stamps'[d] = backup.stamps[d] => tree'[d] = backup.files[d]
  BY DEF BackupHolds
<1>1. backup.stamps[d] \in 0..writes /\ (stamps[d] = backup.stamps[d] => tree[d] = backup.files[d])
  BY DEF BackupHolds
<1>2. writes \in Nat /\ writes' \in {writes, writes + 1}  BY DEF DiskSound, Written
<1>3. \/ tree'[d] = tree[d] /\ stamps'[d] = stamps[d]
      \/ stamps'[d] = writes' /\ writes' = writes + 1  BY DEF Written
<1> QED  BY <1>1, <1>2, <1>3

LEMMA DiskStaysSound ==
  ASSUME DiskSound, Written
  PROVE  DiskSound' /\ Stamped
<1>1. writes \in Nat /\ writes' \in {writes, writes + 1} /\ \A d \in Documents : stamps[d] \in 0..writes
  BY DEF DiskSound, Written
<1>2. \A d \in Documents : stamps'[d] \in 0..writes'  BY <1>1 DEF Written
<1>3. DiskSound'  BY <1>1, <1>2 DEF DiskSound, Written
<1>4. Stamped  BY <1>1 DEF Stamped, Written
<1> QED  BY <1>3, <1>4

\* Putting copies back, times included, restores contents with them.
LEMMA RestoresSoundly ==
  ASSUME DiskSound, NEW p \in Procs, GateKnows(p), GateRestores(p)
  PROVE  DiskSound' /\ Stamped
<1> DEFINE made == proc[p].made
           Back(d) == Kind(p) = "approve" /\ d \in GateFiles(p)
           Kept(d) == d \in {"reports", "handover"} \cup Range(made.todo)
<1>1. /\ tree' = [path \in Paths |->
                    IF path \in Documents /\ Back(path) THEN made.backup.files[path] ELSE tree[path]]
      /\ writes' = writes + 1
      /\ stamps' = [d \in Documents |->
                      CASE ~Back(d) -> stamps[d]
                        [] Back(d) /\ Kept(d) -> made.backup.stamps[d]
                        [] OTHER -> writes']  BY ONLY GateRestores(p), Zenon DEF GateRestores
<1>2. proc[p].pc = "restore"  BY DEF GateRestores, AtGate
<1>3. Kind(p) = "approve" => BackupHolds(made.backup)  BY <1>2 DEF GateKnows, Copied
<1>4. Documents \subseteq Paths  BY GitAssumption
<1> HIDE DEF made, Back, Kept
<1>5. \A d \in Documents : /\ ~Back(d) => stamps'[d] = stamps[d]
                           /\ (Back(d) /\ Kept(d)) => stamps'[d] = made.backup.stamps[d]
                           /\ (Back(d) /\ ~Kept(d)) => stamps'[d] = writes'
  <2> SUFFICES ASSUME NEW d \in Documents
               PROVE  /\ ~Back(d) => stamps'[d] = stamps[d]
                      /\ (Back(d) /\ Kept(d)) => stamps'[d] = made.backup.stamps[d]
                      /\ (Back(d) /\ ~Kept(d)) => stamps'[d] = writes'  OBVIOUS
  <2>1. stamps'[d] = CASE ~Back(d) -> stamps[d]
                       [] Back(d) /\ Kept(d) -> made.backup.stamps[d]
                       [] OTHER -> writes'  BY ONLY <1>1, d \in Documents
  <2> QED  BY ONLY <2>1, Zenon
<1>6. \A d \in Documents : /\ ~Back(d) => tree'[d] = tree[d]
                           /\ Back(d) => tree'[d] = made.backup.files[d]  BY <1>1, <1>4
<1>7. \A d \in Documents : Back(d) => /\ made.backup.stamps[d] \in 0..writes
                                      /\ stamps[d] = made.backup.stamps[d] => tree[d] = made.backup.files[d]
  BY <1>3 DEF Back, BackupHolds
<1>8. writes \in Nat /\ \A d \in Documents : stamps[d] \in 0..writes  BY DEF DiskSound
<1>9. \A d \in Documents : stamps'[d] \in 0..writes'  BY <1>1, <1>5, <1>7, <1>8
<1>10. stamps' = [d \in Documents |-> stamps'[d]]  BY <1>1
<1>11. DiskSound'  BY <1>1, <1>8, <1>9, <1>10 DEF DiskSound
<1>12. Stamped
  <2> SUFFICES ASSUME NEW d \in Documents, stamps'[d] = stamps[d] PROVE tree'[d] = tree[d]
    BY DEF Stamped
  <2>1. CASE ~Back(d)  BY <1>6, <2>1
  <2>2. CASE Back(d) /\ Kept(d)  BY <1>5, <1>6, <1>7, <2>2
  <2>3. CASE Back(d) /\ ~Kept(d)  BY <1>1, <1>5, <1>8, <2>3, SMTT(30)
  <2> QED  BY <2>1, <2>2, <2>3
<1> QED  BY <1>11, <1>12

\* The documents a gate writes, in their order.
AuthorizeWrites == <<"queue", "remaining", "current", "project", "registry", "handover", "checksum">>
ApproveWrites ==
  <<"queue", "current", "remaining", "project", "registry", "reports", "handover", "checksum">>

\* A step of a gate is of the gate at work, or starts the only one.
LEMMA GatesOwnTheirSteps ==
  ASSUME NEW p \in Procs, Gating(p)
  PROVE  \/ Kind(p) \in OwnersGates
         \/ (StartsAuthorize(p) \/ StartsApprove(p)) /\ \A q \in Procs : Kind(q) \notin OwnersGates
BY DEF Gating, StartsAuthorize, StartsApprove, AuthorizeReadsHead, AuthorizeReads, AuthorizeValidates,
   ApproveReads, ApproveCopies, GateWrites, GateValidates, GateReadsChanged, GateStages,
   AuthorizeCountsStaged, GateCommits, GateVerifies, GateRestores, At, AtGate, OwnersGates

\* A gate's notes with one thing changed.
LEMMA NotesAreRevised ==
  ASSUME NEW made, Gated(made), NEW x
  PROVE  /\ Gated([made EXCEPT !.todo = x]) /\ [made EXCEPT !.todo = x].backup = made.backup
         /\ Gated([made EXCEPT !.changed = x]) /\ [made EXCEPT !.changed = x].backup = made.backup
BY DEF Gated, GateFields

\* approve, at work.
LEMMA GatesKnow ==
  ASSUME DiskSound, ProcsShaped, IsClone(tree), NEW p \in Procs, GateKnows(p), Gating(p)
  PROVE  GateKnows(p)'
<1> DEFINE Comes(pc, made) == Becomes(p, pc, proc[p].ask, proc[p].seen, proc[p].status, proc[p].again, made)
           Guarded == Kind(p) = "approve" /\ proc[p].pc \in Copied /\ ~GateRestores(p)
<1>1. ASSUME Kind(p)' # "approve" PROVE GateKnows(p)'  BY <1>1 DEF GateKnows
<1>2. ASSUME proc' = [proc EXCEPT ![p] = Idle] PROVE GateKnows(p)'
  <2>1. Kind(p)' # "approve"  BY <1>2, Ends
  <2> QED  BY <1>1, <2>1
<1>3. ASSUME Kind(p) # "approve", ~StartsApprove(p) PROVE GateKnows(p)'
  <2>1. Works(p, "authorize") \/ Works(p, "approve")  BY GatingWorks
  <2>2. CASE StartsAuthorize(p)
    <3>1. PICK task : Begin(p, [kind |-> "authorize", task |-> task], "authorizeHead")
      BY <2>2 DEF StartsAuthorize
    <3>2. Becomes(p, "authorizeHead", [kind |-> "authorize", task |-> task], Nothing, Nothing, Nothing, Nothing)
      BY <3>1, Begins
    <3> QED  BY <1>1, <3>2 DEF Becomes, Kind
  <2>3. CASE ~StartsAuthorize(p)
    <3>1. Kind(p) \in OwnersGates  BY <1>3, <2>3, GatesOwnTheirSteps
    <3>2. proc[p] # Idle  BY <3>1 DEF Kind, Idle, Nothing, OwnersGates
    <3>3. proc'[p] = Idle \/ proc'[p].ask = proc[p].ask  BY <2>1, <3>2 DEF Works
    <3>4. Kind(p)' # "approve"  BY <1>3, <3>3 DEF Kind, Idle, Nothing
    <3> QED  BY <1>1, <3>4
  <2> QED  BY <2>2, <2>3
<1>4. CASE StartsApprove(p)
  <2>1. PICK ask : Begin(p, ask, "approveReads")  BY <1>4 DEF StartsApprove
  <2>2. Becomes(p, "approveReads", ask, Nothing, Nothing, Nothing, Nothing)  BY <2>1, Begins
  <2> QED  BY <2>2 DEF Becomes, GateKnows, Copied
<1>5. ASSUME NEW pc, NEW made, Kind(p) = "approve", Gated(made),
             Comes(pc, made),
             pc \in Copied => BackupHolds(made.backup)'
      PROVE  GateKnows(p)'
  <2>1. proc'[p].pc = pc /\ proc'[p].made = made  BY <1>5 DEF Becomes
  <2>2. Gated(proc'[p].made)  BY <1>5, <2>1
  <2>3. proc'[p].pc \in Copied => BackupHolds(made.backup)'  BY <1>5, <2>1
  <2>4. BackupHolds(made.backup)' => \A d \in Documents :
          /\ made.backup.stamps[d] \in 0..writes'
          /\ stamps'[d] = made.backup.stamps[d] => tree'[d] = made.backup.files[d]
    BY DEF BackupHolds
  <2> QED  BY <2>1, <2>2, <2>3, <2>4 DEF GateKnows, BackupHolds, Gated
<1>6. ASSUME NEW made, made = proc[p].made, Guarded
      PROVE  Gated(made) /\ BackupHolds(made.backup)'
  <2>1. Gated(made) /\ BackupHolds(made.backup)  BY <1>6 DEF GateKnows, Copied
  <2>2. Written  BY <1>6, GatesWrite
  <2>3. BackupHolds(made.backup)'  BY <2>1, <2>2, BackupStays
  <2> QED  BY <2>1, <2>3
<1>7. ASSUME NEW pc, Guarded, Goes(p, pc) PROVE GateKnows(p)'
  <2>1. PICK made : made = proc[p].made  OBVIOUS
  <2>2. Comes(pc, made)  BY <1>7, <2>1, GoesOn DEF Goes
  <2>3. Gated(made) /\ BackupHolds(made.backup)'  BY <1>6, <1>7, <2>1
  <2> QED  BY <1>5, <1>7, <2>2, <2>3
<1>8. CASE ApproveReads(p)
  <2>1. Kind(p) = "approve"  BY <1>8 DEF ApproveReads, At
  <2>2. CASE Refuses(p)  BY <1>2, <2>2 DEF Refuses
  <2>3. CASE \E task : Remembers(p, Found(task, proc[p].ask.impl))
    <3>1. PICK task : Remembers(p, Found(task, proc[p].ask.impl))  BY <2>3
    <3>2. PICK made : made = Found(task, proc[p].ask.impl)  OBVIOUS
    <3>3. Comes("validate", made)  BY <3>1, <3>2, GoesOn DEF Remembers
    <3>4. Gated(made)  BY <3>2 DEF Found, Gated, GateFields
    <3> QED  BY <1>5, <2>1, <3>3, <3>4 DEF Copied
  <2> QED  BY <1>8, <2>2, <2>3 DEF ApproveReads
<1>9. CASE ApproveCopies(p)
  <2>1. Kind(p) = "approve" /\ proc[p].pc = "validate" /\ UNCHANGED git
    BY <1>9 DEF ApproveCopies, At
  <2>2. Gated(proc[p].made)  BY <2>1 DEF GateKnows
  <2>a. PICK backup : backup = [at |-> writes, files |-> Record(tree), stamps |-> stamps]  OBVIOUS
  <2>b. PICK todo : todo = ApproveWrites  OBVIOUS
  <2>c. PICK old : old = proc[p].made  OBVIOUS
  <2>3. PICK made : made = [old EXCEPT !.backup = backup, !.todo = todo]  OBVIOUS
  <2>4. proc' = [proc EXCEPT ![p].pc = "write", ![p].made = made]
    BY <1>9, <2>3, <2>a, <2>b, <2>c, ZenonT(40) DEF ApproveCopies, ApproveWrites, ProcsShaped
  <2>5. Comes("write", made)  BY <2>4, GoesOn
  <2>6. Gated(made) /\ made.backup = backup
    <3>1. Gated(old)  BY <2>2, <2>c
    <3> QED  BY ONLY <2>3, <3>1 DEF Gated, GateFields
  <2>7. BackupHolds(made.backup)'
    <3>1. UNCHANGED <<writes, stamps, tree>>  BY <2>1 DEF git, disk
    <3>2. BackupHolds(made.backup)  BY <2>6, <2>a DEF BackupHolds, DiskSound, Record
    <3> QED  BY <3>1, <3>2 DEF BackupHolds
  <2> QED  BY <1>5, <2>1, <2>5, <2>6, <2>7
<1>10. ASSUME Fails(p), Guarded PROVE GateKnows(p)'  BY <1>7, <1>10 DEF Fails
<1>11. ASSUME Kind(p) = "approve", \/ GateWrites(p) \/ GateValidates(p) \/ GateReadsChanged(p)
                                   \/ GateStages(p) \/ GateCommits(p)
       PROVE  Guarded
  BY <1>11 DEF GateWrites, GateValidates, GateReadsChanged, GateStages, GateCommits, GateRestores, AtGate, Copied
<1>12. CASE GateWrites(p) /\ Kind(p) = "approve"
  <2>1. proc[p].pc = "write"  BY <1>12 DEF GateWrites, AtGate
  <2>2. CASE Fails(p)  BY <1>10, <1>11, <1>12, <2>2
  <2>3. CASE proc' = [proc EXCEPT ![p].made.todo = Tail(@)]
    <3>1. PICK made : made = proc[p].made  OBVIOUS
    <3>2. PICK new : new = [made EXCEPT !.todo = Tail(made.todo)]  OBVIOUS
    <3>3. proc' = [proc EXCEPT ![p].made = new]  BY <2>3, <3>1, <3>2 DEF ProcsShaped
    <3>4. Comes("write", new)  BY <2>1, <3>3, GoesOn
    <3>5. Gated(made) /\ BackupHolds(made.backup)'  BY <1>6, <1>11, <1>12, <3>1
    <3>6. Gated(new) /\ new.backup = made.backup  BY <3>2, <3>5, NotesAreRevised
    <3> QED  BY <1>5, <1>12, <3>4, <3>5, <3>6
  <2> QED  BY <1>12, <2>2, <2>3 DEF GateWrites
<1>13. CASE GateValidates(p) /\ Kind(p) = "approve"  BY <1>7, <1>10, <1>11, <1>13 DEF GateValidates
<1>14. CASE GateReadsChanged(p) /\ Kind(p) = "approve"
  <2>2. CASE Fails(p)  BY <1>10, <1>11, <1>14, <2>2
  <2>3. CASE \E x : proc' = [proc EXCEPT ![p].pc = "add", ![p].made.changed = x]
    <3>1. PICK made : made = proc[p].made  OBVIOUS
    <3>2. PICK x : proc' = [proc EXCEPT ![p].pc = "add", ![p].made.changed = x]  BY <2>3
    <3>3. PICK new : new = [made EXCEPT !.changed = x]  OBVIOUS
    <3>4. proc' = [proc EXCEPT ![p].pc = "add", ![p].made = new]
      BY <3>1, <3>2, <3>3 DEF ProcsShaped
    <3>5. Comes("add", new)  BY <3>4, GoesOn
    <3>6. Gated(made) /\ BackupHolds(made.backup)'  BY <1>6, <1>11, <1>14, <3>1
    <3>7. Gated(new) /\ new.backup = made.backup  BY <3>3, <3>6, NotesAreRevised
    <3> QED  BY <1>5, <1>14, <3>5, <3>6, <3>7
  <2> QED  BY <1>14, <2>2, <2>3 DEF GateReadsChanged
<1>15. CASE GateStages(p) /\ Kind(p) = "approve"  BY <1>7, <1>11, <1>15 DEF GateStages
<1>16. CASE GateCommits(p) /\ Kind(p) = "approve"  BY <1>7, <1>11, <1>16 DEF GateCommits
<1>17. CASE GateVerifies(p)  BY <1>2, <1>17 DEF GateVerifies, Answers, Refuses
<1>18. CASE GateRestores(p)  BY <1>2, <1>18 DEF GateRestores, Refuses
<1>19. ASSUME Kind(p) = "approve", ~StartsApprove(p)
       PROVE  \/ ApproveReads(p) \/ ApproveCopies(p) \/ GateWrites(p) \/ GateValidates(p)
              \/ GateReadsChanged(p) \/ GateStages(p) \/ GateCommits(p) \/ GateVerifies(p) \/ GateRestores(p)
  <2>1. proc[p] # Idle  BY <1>19 DEF Kind, Idle, Nothing
  <2> QED  BY <1>19, <2>1 DEF Gating, StartsAuthorize, Begin, AuthorizeReadsHead, AuthorizeReads,
     AuthorizeValidates, AuthorizeCountsStaged, At
<1> QED  BY <1>3, <1>4, <1>8, <1>9, <1>12, <1>13, <1>14, <1>15, <1>16, <1>17, <1>18, <1>19

\* What approve knows stays true while others act, or while it reads HEAD.
LEMMA GateStays ==
  ASSUME DiskSound, Written, NEW q \in Procs, GateKnows(q),
         Kind(q)' = Kind(q), proc'[q].made = proc[q].made,
         \/ proc'[q].pc = proc[q].pc
         \/ proc[q].pc # "approveReads" /\ proc'[q].pc \notin Copied
  PROVE  GateKnows(q)'
<1>1. ASSUME Kind(q) = "approve" PROVE proc'[q].pc # "approveReads" => Gated(proc'[q].made)
  BY <1>1 DEF GateKnows
<1>2. ASSUME Kind(q) = "approve", proc'[q].pc \in Copied PROVE BackupHolds(proc[q].made.backup)
  BY <1>2 DEF GateKnows
<1>3. PICK backup : backup = proc[q].made.backup  OBVIOUS
<1>4. BackupHolds(backup) => BackupHolds(backup)'  BY BackupStays
<1>5. ASSUME Kind(q) = "approve", proc'[q].pc \in Copied PROVE BackupHolds(backup)'
  BY <1>2, <1>3, <1>4, <1>5
<1> QED  BY <1>1, <1>3, <1>5 DEF GateKnows, BackupHolds, Gated

\* A step that is none of a gate's.
AwayFromGates ==
  \A q \in Procs :
    \/ proc'[q] = proc[q]
    \/ Kind(q)' \notin OwnersGates
    \/ /\ Kind(q)' = Kind(q) /\ proc'[q].made = proc[q].made
       /\ proc[q].pc # "approveReads" /\ proc'[q].pc \notin Copied

LEMMA AwayKeepsDiskInv ==
  ASSUME DiskInv, Written, AwayFromGates
  PROVE  DiskInv'
<1>1. DiskSound'  BY DiskStaysSound DEF DiskInv
<1>2. \A q \in Procs : Kind(q)' \in OwnersGates => Kind(q) \in OwnersGates
  BY DEF AwayFromGates, Kind
<1>3. OneGate'  BY <1>2 DEF DiskInv, OneGate
<1>4. ASSUME NEW q \in Procs PROVE GateKnows(q)'
  <2>1. CASE Kind(q)' \notin OwnersGates  BY <2>1 DEF GateKnows, OwnersGates
  <2>2. CASE proc'[q] = proc[q]  BY <2>2, GateStays DEF DiskInv, Kind
  <2>3. CASE /\ Kind(q)' = Kind(q) /\ proc'[q].made = proc[q].made
             /\ proc[q].pc # "approveReads" /\ proc'[q].pc \notin Copied
    BY <2>3, GateStays DEF DiskInv
  <2> QED  BY <2>1, <2>2, <2>3 DEF AwayFromGates
<1> QED  BY <1>1, <1>3, <1>4 DEF DiskInv

LEMMA WorkIsAway ==
  ASSUME NEW p \in Procs, NEW kind, kind \notin OwnersGates, Works(p, kind)
  PROVE  AwayFromGates
BY DEF Works, AwayFromGates, OwnersGates

LEMMA StatusesAreAway ==
  ASSUME ProcsShaped, NEW p \in Procs, Statuses(p)
  PROVE  AwayFromGates
<1>1. CASE ReadsHead(p) \/ ReadsHeadAgain(p)
  <2>1. PICK pc, seen, again :
          /\ Becomes(p, pc, proc[p].ask, seen, proc[p].status, again, proc[p].made)
          /\ proc[p].pc \in {"head", "headAgain"} /\ pc \in {"status", "statusAgain"}
    BY <1>1, HeadIsAnswered
  <2>2. /\ Kind(p)' = Kind(p) /\ proc'[p].made = proc[p].made /\ proc'[p].pc = pc
        /\ \A q \in Procs : q # p => proc'[q] = proc[q]  BY <2>1 DEF Becomes, Kind
  <2> QED  BY <2>1, <2>2 DEF AwayFromGates, Copied
<1>2. CASE Dies(p)
  <2>1. Kind(p)' = "nothing" /\ \A q \in Procs : q # p => proc'[q] = proc[q]
    BY <1>2, IdlesWork DEF Dies, Refuses
  <2> QED  BY <2>1 DEF AwayFromGates, OwnersGates
<1> QED  BY <1>1, <1>2 DEF Statuses

\* A step of a gate.
LEMMA GatingKeepsDiskInv ==
  ASSUME DiskInv, ProcsShaped, IsClone(tree), NEW p \in Procs, Gating(p)
  PROVE  DiskInv'
<1>1. \A q \in Procs : q # p => proc'[q] = proc[q]  BY GatingWorks DEF Works
<1>2. DiskSound'  BY GatesWrite, DiskStaysSound, RestoresSoundly DEF DiskInv
<1>3. OneGate'
  <2>1. CASE \A q \in Procs : Kind(q) \notin OwnersGates
    <3>1. \A q \in Procs : q # p => Kind(q)' \notin OwnersGates  BY <1>1, <2>1 DEF Kind
    <3> QED  BY <3>1 DEF OneGate
  <2>2. CASE Kind(p) \in OwnersGates
    <3>1. \A q \in Procs : Kind(q)' \in OwnersGates => Kind(q) \in OwnersGates
      BY <1>1, <2>2 DEF Kind
    <3> QED  BY <3>1 DEF DiskInv, OneGate
  <2> QED  BY <2>1, <2>2, GatesOwnTheirSteps
<1>4. ASSUME NEW q \in Procs PROVE GateKnows(q)'
  <2>1. CASE q = p  BY <2>1, GatesKnow DEF DiskInv
  <2>2. CASE q # p /\ ~GateRestores(p)  BY <1>1, <2>2, GatesWrite, GateStays DEF DiskInv, Kind
  <2>3. CASE q # p /\ GateRestores(p)
    <3>1. Kind(p) \in OwnersGates  BY <2>3 DEF GateRestores, AtGate
    <3>2. Kind(q) \notin OwnersGates  BY <2>3, <3>1 DEF DiskInv, OneGate
    <3>3. Kind(q)' \notin OwnersGates  BY <1>1, <2>3, <3>2 DEF Kind
    <3> QED  BY <3>3 DEF GateKnows, OwnersGates
  <2> QED  BY <2>1, <2>2, <2>3
<1> QED  BY <1>2, <1>3, <1>4 DEF DiskInv

\* Every step keeps it, and no document has an old time with a new content.
LEMMA DiskInvStays ==
  ASSUME WorkspaceInv, DiskInv, [Next]_vars
  PROVE  DiskInv' /\ Stamped
<1>1. ProcsShaped /\ IsClone(tree) /\ DiskSound  BY DEF WorkspaceInv, RepositorySound, DiskInv
<1>2. Stamped
  <2>1. CASE Written  BY <1>1, <2>1, DiskStaysSound
  <2>2. ASSUME NEW p \in Procs, GateRestores(p) PROVE Stamped
    BY <1>1, <2>2, RestoresSoundly DEF DiskInv
  <2> QED  BY <1>1, <2>1, <2>2, StepWrites
<1> SUFFICES DiskInv'  BY <1>2
<1>3. ASSUME Written, AwayFromGates PROVE DiskInv'  BY <1>3, AwayKeepsDiskInv
<1>4. ASSUME NEW p \in Procs,
             \/ Prompting(p) \/ Running(p) \/ Recording(p) \/ Committing(p) \/ Pushing(p) \/ Applying(p)
             \/ Proposing(p) \/ Posting(p) \/ Generating(p)
      PROVE  AwayFromGates
  <2>1. \E kind : kind \notin OwnersGates /\ Works(p, kind)
    BY <1>1, <1>4, PromptingWorks, RunningWorks, RecordingWorks, CommittingWorks, PushingWorks,
       ApplyingWorks, ProposingWorks, PostingWorks, GeneratingWorks DEF OwnersGates
  <2> QED  BY <2>1, WorkIsAway
<1>5. ASSUME \A p \in Procs : proc'[p] = proc[p] \/ proc'[p] = Idle PROVE AwayFromGates
  BY <1>5 DEF AwayFromGates, Kind, Idle, Nothing, OwnersGates
<1>6. CASE Steps
  <2>1. CASE People /\ UNCHANGED <<proc, told, files>>  BY <1>1, <1>3, <1>5, <2>1, PeopleWrite
  <2>2. ASSUME NEW p \in Procs, Gating(p) PROVE DiskInv'  BY <1>1, <2>2, GatingKeepsDiskInv
  <2>3. ASSUME NEW p \in Procs, Statuses(p) PROVE DiskInv'
    BY <1>1, <1>3, <2>3, StatusesAreAway, CommandsWrite
  <2>4. ASSUME NEW p \in Procs,
               Prompting(p) \/ Running(p) \/ Recording(p) \/ Committing(p) \/ Pushing(p) \/ Applying(p)
        PROVE  DiskInv'  BY <1>1, <1>3, <1>4, <2>4, CommandsWrite
  <2> QED  BY <1>6, <2>1, <2>2, <2>3, <2>4 DEF Steps
<1>7. CASE \E p \in Procs : Proposing(p)  BY <1>1, <1>3, <1>4, <1>7, CommandsWrite
<1>8. CASE Serving /\ UNCHANGED git
  <2>1. Written  BY <1>1, <1>8, OperationsWrite DEF git
  <2>2. CASE ServerStarts  BY <1>3, <1>5, <2>1, <2>2 DEF ServerStarts
  <2>3. CASE ServerStops
    <3>1. \A p \in Procs : proc'[p] = proc[p] \/ proc'[p] = Idle  BY <2>3 DEF ServerStops
    <3> QED  BY <1>3, <1>5, <2>1, <3>1
  <2> QED  BY <1>3, <1>4, <1>8, <2>1, <2>2, <2>3 DEF Serving
<1>9. CASE UNCHANGED vars  BY <1>1, <1>3, <1>5, <1>9, OperationsWrite DEF vars, cmds, git
<1> QED  BY <1>6, <1>7, <1>8, <1>9 DEF Next

LEMMA DiskInvStarts ==
  ASSUME Init
  PROVE  DiskInv
<1>1. stamps = [d \in Documents |-> 0] /\ writes = 0 /\ proc = [p \in Procs |-> Idle]  BY DEF Init
<1>2. DiskSound  BY <1>1 DEF DiskSound
<1>3. \A p \in Procs : Kind(p) = "nothing"  BY <1>1 DEF Kind, Idle, Nothing
<1> QED  BY <1>2, <1>3 DEF DiskInv, OneGate, GateKnows, OwnersGates

----------------------------------------
(* What propose-successor sees *)

\* The documents as they were first captured.
Cited(made) == [d \in Documents |-> made.first[d].content]

\* The time of a document as it was captured last, or as it is.
Latest(made, d) == IF d \in DOMAIN made.last THEN made.last[d].stamp ELSE stamps[d]

\* A document was written since it was first captured, as far as the second
\* snapshot can tell.
Touched(made) == \E d \in Documents : Latest(made, d) # made.first[d].stamp

\* What has been captured is not of the future, and a document that has the time
\* it was captured with is as it was captured.
CapturesHold(made) ==
  /\ DOMAIN made.first \subseteq Documents
  /\ \A d \in DOMAIN made.first :
       /\ made.first[d].stamp \in 0..stamps[d]
       /\ made.first[d].stamp = stamps[d] => tree[d] = made.first[d].content
  /\ DOMAIN made.last \subseteq DOMAIN made.first
  /\ \A d \in DOMAIN made.last : made.last[d].stamp \in made.first[d].stamp..stamps[d]

\* There was a moment at which all was as it is cited.
Met(seen, made, mine) == \E m \in mine : m.head = seen.head /\ m.docs = Cited(made)

\* Of a series of documents, those that are no longer to be read have been read.
Partly(order, todo, got) ==
  /\ todo \in Seq(Names)
  /\ \E read \in Seq(Names) : order = read \o todo /\ DOMAIN got = Range(read)

Confirms(ask, made) ==
  /\ DOMAIN made.first = Documents
  /\ PredecessorConfirmed(Cited(made), ask.predecessor)

Checking(ask, made) ==
  /\ Confirms(ask, made)
  /\ made.last = <<>>
  /\ \A d \in EvidenceDocs : made.evidence[d] = made.first[d].content

\* What it holds at each of its points; "touched" and "met" are whether a document
\* was touched, and a moment of what is cited met.
AtCapture(made) ==
  /\ Partly(SnapshotOrder, made.todo, made.first)
  /\ made.evidence = <<>> /\ made.failure = "none" /\ made.last = <<>>

AtEvidence(made) ==
  /\ DOMAIN made.first = Documents
  /\ Partly(EvidenceOrder, made.todo, made.evidence)
  /\ made.failure = "none" /\ made.last = <<>>

AtPredecessor(made) ==
  /\ DOMAIN made.first = Documents
  /\ DOMAIN made.evidence = EvidenceDocs
  /\ made.todo = RequiredChecks
  /\ made.failure = "none" /\ made.last = <<>>

AtChecks(ask, made, touched) ==
  /\ Checking(ask, made)
  /\ made.todo \in Seq(Names)
  /\ \E read \in Seq(Names) :
       /\ RequiredChecks = read \o made.todo
       /\ touched \/ made.failure = FirstFailure(read, Cited(made))

AtReconcile(ask, made, touched) ==
  /\ Checking(ask, made)
  /\ made.todo = SnapshotOrder
  /\ touched \/ made.failure = FirstFailure(RequiredChecks, Cited(made))

AtCatalog(ask, made, touched) ==
  /\ Checking(ask, made)
  /\ made.todo = SnapshotOrder
  /\ touched \/ Conclusion(Cited(made)) = Proposal(Cited(made)["catalog"], Cited(made))

Concludes(ask, made, touched) ==
  /\ Confirms(ask, made)
  /\ touched \/ made.result = Conclusion(Cited(made))

AtHeadAgain(ask, made, touched) ==
  /\ Concludes(ask, made, touched)
  /\ made.last = <<>> /\ made.todo = SnapshotOrder

AtStatusAgain(ask, seen, again, made, touched, met) ==
  /\ Concludes(ask, made, touched)
  /\ made.last = <<>> /\ made.todo = SnapshotOrder
  /\ touched \/ again # seen \/ met

AtCaptureAgain(ask, seen, again, made, touched, met) ==
  /\ Concludes(ask, made, touched)
  /\ Partly(SnapshotOrder, made.todo, made.last)
  /\ touched \/ made.moved \/ met

AtCompare(ask, seen, again, made, touched, met) ==
  /\ Concludes(ask, made, touched)
  /\ DOMAIN made.last = Documents
  /\ touched \/ made.moved \/ met

AtPublish(ask, made, met) ==
  /\ Confirms(ask, made)
  /\ \/ made.result \in {Refusal("INPUT_DRIFT"), Refusal("DIRTY_BASELINE")}
     \/ made.result = Conclusion(Cited(made)) /\ met

Holds(pc, ask, seen, again, made, touched, met) ==
  /\ pc = "capture" => AtCapture(made)
  /\ pc = "evidence" => AtEvidence(made)
  /\ pc = "predecessor" => AtPredecessor(made)
  /\ pc = "checks" => AtChecks(ask, made, touched)
  /\ pc = "reconcile" => AtReconcile(ask, made, touched)
  /\ pc = "catalog" => AtCatalog(ask, made, touched)
  /\ pc = "headAgain" => AtHeadAgain(ask, made, touched)
  /\ pc = "statusAgain" => AtStatusAgain(ask, seen, again, made, touched, met)
  /\ pc = "captureAgain" => AtCaptureAgain(ask, seen, again, made, touched, met)
  /\ pc = "compare" => AtCompare(ask, seen, again, made, touched, met)
  /\ pc = "publish" => AtPublish(ask, made, met)

View(pc, ask, seen, again, made, mine) ==
  /\ CapturesHold(made)
  /\ Holds(pc, ask, seen, again, made, Touched(made), Met(seen, made, mine))

Sees(p) == View(proc[p].pc, proc[p].ask, proc[p].seen, proc[p].again, proc[p].made, moments[p])

\* A moment that still matters to a command is remembered.
NowKept == \A p \in Procs : (Kind(p) \in Readers /\ StillMatters(p, Now)) => Now \in moments[p]

\* The commands at work on a proposal, since whose beginning no document got an
\* old time back.
Drafters == {p \in Procs \ rewound : Kind(p) = "propose" /\ proc[p].pc \in Drafting}

SightInv == NowKept /\ \A p \in Drafters : Sees(p)

----------------------------------------
(* What it sees lasts *)

\* After the first snapshot all documents are captured.
LEMMA AllAreCaptured ==
  ASSUME NEW pc \in Drafting, pc # "capture", NEW ask, NEW seen, NEW again, NEW made, NEW touched, NEW met,
         Holds(pc, ask, seen, again, made, touched, met)
  PROVE  DOMAIN made.first = Documents
BY DEF Drafting, Holds, AtEvidence, AtPredecessor, AtChecks, AtReconcile, AtCatalog, Checking,
   Confirms, AtHeadAgain, AtStatusAgain, AtCaptureAgain, AtCompare, Concludes, AtPublish

\* More documents may be touched, and the moment be met.
LEMMA HoldsOn ==
  ASSUME NEW pc, NEW ask, NEW seen, NEW again, NEW made,
         NEW touched, NEW met, NEW touched2, NEW met2,
         Holds(pc, ask, seen, again, made, touched, met),
         pc # "capture" => (touched => touched2) /\ (met => met2)
  PROVE  Holds(pc, ask, seen, again, made, touched2, met2)
<1>1. CASE pc = "capture"  BY <1>1 DEF Holds
<1>2. CASE pc # "capture"
  <2>1. (touched => touched2) /\ (met => met2)  BY <1>2
  <2>2. AtChecks(ask, made, touched) => AtChecks(ask, made, touched2)  BY <2>1 DEF AtChecks
  <2>3. AtReconcile(ask, made, touched) => AtReconcile(ask, made, touched2)  BY <2>1 DEF AtReconcile
  <2>4. AtCatalog(ask, made, touched) => AtCatalog(ask, made, touched2)  BY <2>1 DEF AtCatalog
  <2>5. Concludes(ask, made, touched) => Concludes(ask, made, touched2)  BY <2>1 DEF Concludes
  <2>6. AtHeadAgain(ask, made, touched) => AtHeadAgain(ask, made, touched2)  BY <2>5 DEF AtHeadAgain
  <2>7. AtStatusAgain(ask, seen, again, made, touched, met) => AtStatusAgain(ask, seen, again, made, touched2, met2)
    BY <2>1, <2>5 DEF AtStatusAgain
  <2>8. AtCaptureAgain(ask, seen, again, made, touched, met) => AtCaptureAgain(ask, seen, again, made, touched2, met2)
    BY <2>1, <2>5 DEF AtCaptureAgain
  <2>9. AtCompare(ask, seen, again, made, touched, met) => AtCompare(ask, seen, again, made, touched2, met2)
    BY <2>1, <2>5 DEF AtCompare
  <2>10. AtPublish(ask, made, met) => AtPublish(ask, made, met2)  BY <2>1 DEF AtPublish
  <2> QED  BY <2>2, <2>3, <2>4, <2>6, <2>7, <2>8, <2>9, <2>10 DEF Holds
<1> QED  BY <1>1, <1>2

\* While documents are only written, what is touched stays so.
LEMMA TouchedStays ==
  ASSUME DiskSound, DiskSound', NEW made, CapturesHold(made), DOMAIN made.first = Documents,
         \A d \in Documents : ~(stamps'[d] < stamps[d]), Touched(made)
  PROVE  Touched(made)'
<1>1. PICK d \in Documents : Latest(made, d) # made.first[d].stamp  BY DEF Touched
<1>2. CASE d \in DOMAIN made.last  BY <1>1, <1>2 DEF Touched, Latest
<1>3. CASE d \notin DOMAIN made.last
  <2>1. made.first[d].stamp \in 0..stamps[d] /\ stamps[d] # made.first[d].stamp
    BY <1>1, <1>3 DEF CapturesHold, Latest
  <2>2. stamps[d] \in Nat /\ stamps'[d] \in Nat /\ ~(stamps'[d] < stamps[d])  BY DEF DiskSound
  <2>3. stamps'[d] # made.first[d].stamp  BY <2>1, <2>2
  <2> QED  BY <1>3, <2>3 DEF Touched, Latest
<1> QED  BY <1>2, <1>3

LEMMA CapturesStay ==
  ASSUME DiskSound, DiskSound', Stamped, NEW made, CapturesHold(made),
         \A d \in Documents : ~(stamps'[d] < stamps[d])
  PROVE  CapturesHold(made)'
<1>1. \A d \in Documents : stamps[d] \in Nat /\ stamps'[d] \in Nat /\ ~(stamps'[d] < stamps[d])
  BY DEF DiskSound
<1>2. ASSUME NEW d \in DOMAIN made.first
      PROVE  /\ made.first[d].stamp \in 0..stamps'[d]
             /\ made.first[d].stamp = stamps'[d] => tree'[d] = made.first[d].content
  <2>1. /\ d \in Documents /\ made.first[d].stamp \in 0..stamps[d]
        /\ made.first[d].stamp = stamps[d] => tree[d] = made.first[d].content
    BY <1>2 DEF CapturesHold
  <2>2. made.first[d].stamp = stamps'[d] => stamps'[d] = stamps[d]  BY <1>1, <2>1
  <2>3. made.first[d].stamp = stamps'[d] => tree'[d] = made.first[d].content
    BY <2>1, <2>2 DEF Stamped
  <2> QED  BY <1>1, <2>1, <2>3
<1>3. ASSUME NEW d \in DOMAIN made.last
      PROVE  made.last[d].stamp \in made.first[d].stamp..stamps'[d]
  <2>1. /\ d \in Documents /\ made.first[d].stamp \in 0..stamps[d]
        /\ made.last[d].stamp \in made.first[d].stamp..stamps[d]  BY <1>3 DEF CapturesHold
  <2> QED  BY <1>1, <2>1
<1> QED  BY <1>2, <1>3 DEF CapturesHold

\* What a command sees lasts while nothing gets an old time back.
LEMMA ViewStays ==
  ASSUME DiskSound, DiskSound', Stamped, \A d \in Documents : ~(stamps'[d] < stamps[d]),
         NEW pc \in Drafting, NEW ask, NEW seen, NEW again, NEW made, NEW mine, NEW kept,
         View(pc, ask, seen, again, made, mine),
         \A m \in mine : (DOMAIN made.first = Documents /\ m.head = seen.head /\ m.docs = Cited(made)) => m \in kept
  PROVE  View(pc, ask, seen, again, made, kept)'
<1>1. CapturesHold(made) /\ Holds(pc, ask, seen, again, made, Touched(made), Met(seen, made, mine))
  BY DEF View
<1>2. CapturesHold(made)'  BY <1>1, CapturesStay
<1>3. ASSUME pc # "capture"
      PROVE  (Touched(made) => Touched(made)') /\ (Met(seen, made, mine) => Met(seen, made, kept))
  <2>1. DOMAIN made.first = Documents  BY <1>1, <1>3, AllAreCaptured
  <2> QED  BY <1>1, <2>1, TouchedStays DEF Met
<1>4. Holds(pc, ask, seen, again, made, Touched(made)', Met(seen, made, kept))
  BY <1>1, <1>3, HoldsOn
<1> QED  BY <1>2, <1>4 DEF View

----------------------------------------
(* What it reads *)

LEMMA JoinedIs ==
  ASSUME NEW old, NEW more
  PROVE  /\ DOMAIN Joined(old, more) = DOMAIN old \cup DOMAIN more
         /\ \A d \in DOMAIN more : Joined(old, more)[d] = more[d]
         /\ \A d \in DOMAIN old \ DOMAIN more : Joined(old, more)[d] = old[d]
BY DEF Joined

\* A series is read on, or read to its end.
LEMMA PartlyOn ==
  ASSUME NEW order \in Seq(Names), NEW todo, NEW got, NEW got2, Partly(order, todo, got),
         DOMAIN got2 = DOMAIN got \cup Range(Reads(todo))
  PROVE  /\ Partly(order, Unread(todo), got2)
         /\ Unread(todo) = <<>> => DOMAIN got2 = Range(order)
         /\ Range(Reads(todo)) \subseteq Range(order)
<1>1. PICK read \in Seq(Names) : order = read \o todo /\ DOMAIN got = Range(read)  BY DEF Partly
<1>2. todo \in Seq(Names)  BY DEF Partly
<1>3. /\ Reads(todo) \in Seq(Names) /\ Unread(todo) \in Seq(Names)
      /\ read \o Reads(todo) \in Seq(Names)
      /\ read \o todo = (read \o Reads(todo)) \o Unread(todo)
      /\ Unread(todo) = <<>> => read \o todo = read \o Reads(todo)
      /\ Range(read \o Reads(todo)) = Range(read) \cup Range(Reads(todo))  BY <1>1, <1>2, ReadsOn
<1>4. DOMAIN got2 = Range(read \o Reads(todo))  BY <1>1, <1>3
<1>5. Partly(order, Unread(todo), got2)  BY <1>1, <1>3, <1>4 DEF Partly
<1>6. Range(order) = Range(read \o Reads(todo)) \cup Range(Unread(todo))  BY <1>1, <1>3, RangesJoin
<1> QED  BY <1>1, <1>3, <1>4, <1>5, <1>6

LEMMA Orders ==
  /\ SnapshotOrder \in Seq(Names) /\ EvidenceOrder \in Seq(Names) /\ RequiredChecks \in Seq(Names)
  /\ \A order \in Seq(Names) : <<>> \o order = order
  /\ <<>> \in Seq(Names) /\ Range(<<>>) = {} /\ DOMAIN <<>> = {}
<1>a. SnapshotOrder \in Seq(Names)  BY DEF SnapshotOrder, Names
<1>b. EvidenceOrder \in Seq(Names)  BY DEF EvidenceOrder, Names
<1>c. RequiredChecks \in Seq(Names)  BY DEF RequiredChecks, Names
<1>1. SnapshotOrder \in Seq(Names) /\ EvidenceOrder \in Seq(Names) /\ RequiredChecks \in Seq(Names)
  BY <1>a, <1>b, <1>c
<1>2. \A order \in Seq(Names) : <<>> \o order = order  BY ConcatEmptySeq
<1>3. <<>> \in Seq(Names) /\ DOMAIN <<>> = {}  OBVIOUS
<1>4. Range(<<>>) = {}  BY <1>3 DEF Range
<1> QED  BY <1>1, <1>2, <1>3, <1>4

LEMMA PartlyStarts ==
  ASSUME NEW order \in Seq(Names)
  PROVE  Partly(order, order, <<>>)
BY Orders DEF Partly

\* Where nothing was touched, the disk has what is cited.
LEMMA UntouchedIsCited ==
  ASSUME NEW made, CapturesHold(made), DOMAIN made.first = Documents, made.last = <<>>, ~Touched(made)
  PROVE  \A d \in Documents : tree[d] = Cited(made)[d]
<1>1. DOMAIN made.last = {}  BY Orders
<1>2. \A d \in Documents : made.first[d].stamp = stamps[d]  BY <1>1 DEF Touched, Latest
<1> QED  BY <1>2 DEF CapturesHold, Cited

\* A capture that goes on, of one's own making.
LEMMA CapturesFirst ==
  ASSUME DiskSound, NEW made, NEW new, NEW ask, NEW seen, NEW again, NEW mine,
         View("capture", ask, seen, again, made, mine),
         new.first = Joined(made.first, Captured(made.todo)),
         new.last = made.last, new.evidence = made.evidence, new.failure = made.failure,
         new.todo = IF Unread(made.todo) = <<>> THEN EvidenceOrder ELSE Unread(made.todo)
  PROVE  View(IF Unread(made.todo) = <<>> THEN "evidence" ELSE "capture", ask, seen, again, new, mine)
<1>1. CapturesHold(made) /\ AtCapture(made)  BY DEF View, Holds
<1>2. DOMAIN Captured(made.todo) = Range(Reads(made.todo))
      /\ \A d \in Range(Reads(made.todo)) : Captured(made.todo)[d].content = tree[d]
                                          /\ Captured(made.todo)[d].stamp = stamps[d]
  BY DEF Captured
<1>a. /\ DOMAIN Joined(made.first, Captured(made.todo)) = DOMAIN made.first \cup DOMAIN Captured(made.todo)
      /\ \A d \in DOMAIN Captured(made.todo) : Joined(made.first, Captured(made.todo))[d] = Captured(made.todo)[d]
      /\ \A d \in DOMAIN made.first \ DOMAIN Captured(made.todo) :
           Joined(made.first, Captured(made.todo))[d] = made.first[d]  BY JoinedIs
<1>3. DOMAIN new.first = DOMAIN made.first \cup Range(Reads(made.todo))  BY <1>2, <1>a
<1>4. /\ Partly(SnapshotOrder, Unread(made.todo), new.first)
      /\ Unread(made.todo) = <<>> => DOMAIN new.first = Range(SnapshotOrder)
      /\ Range(Reads(made.todo)) \subseteq Range(SnapshotOrder)
  BY <1>1, <1>3, Orders, PartlyOn DEF AtCapture
<1>5. Range(SnapshotOrder) = Documents  BY DocumentsAssumption
<1>6. DOMAIN new.last = {}  BY <1>1, Orders DEF AtCapture
<1>7. CapturesHold(new)
  <2>1. DOMAIN new.first \subseteq Documents  BY <1>1, <1>3, <1>4, <1>5 DEF CapturesHold
  <2>2. ASSUME NEW d \in DOMAIN new.first
        PROVE  /\ new.first[d].stamp \in 0..stamps[d]
               /\ new.first[d].stamp = stamps[d] => tree[d] = new.first[d].content
    <3>1. CASE d \in Range(Reads(made.todo))
      <4>1. new.first[d].content = tree[d] /\ new.first[d].stamp = stamps[d]  BY <1>2, <1>a, <3>1
      <4>2. stamps[d] \in Nat  BY <2>1 DEF DiskSound
      <4> QED  BY <4>1, <4>2
    <3>2. CASE d \notin Range(Reads(made.todo))
      <4>1. d \in DOMAIN made.first /\ new.first[d] = made.first[d]  BY <1>2, <1>3, <1>a, <3>2
      <4> QED  BY <1>1, <4>1 DEF CapturesHold
    <3> QED  BY <3>1, <3>2
  <2> QED  BY <1>6, <2>1, <2>2 DEF CapturesHold
<1>8. CASE Unread(made.todo) = <<>>
  <2>1. AtEvidence(new)  BY <1>1, <1>4, <1>5, <1>8, Orders, PartlyStarts DEF AtCapture, AtEvidence
  <2> QED  BY <1>7, <1>8, <2>1 DEF View, Holds
<1>9. CASE Unread(made.todo) # <<>>
  <2>1. AtCapture(new)  BY <1>1, <1>4, <1>9 DEF AtCapture
  <2> QED  BY <1>7, <1>9, <2>1 DEF View, Holds
<1> QED  BY <1>8, <1>9

LEMMA ReadsEvidenceOn ==
  ASSUME NEW made, NEW new, NEW contents, NEW ask, NEW seen, NEW again, NEW mine,
         View("evidence", ask, seen, again, made, mine),
         DOMAIN contents = Range(Reads(made.todo)),
         new.evidence = Joined(made.evidence, contents),
         new.first = made.first, new.last = made.last, new.failure = made.failure,
         new.todo = IF Unread(made.todo) = <<>> THEN RequiredChecks ELSE Unread(made.todo)
  PROVE  View(IF Unread(made.todo) = <<>> THEN "predecessor" ELSE "evidence", ask, seen, again, new, mine)
<1>1. CapturesHold(made) /\ AtEvidence(made)  BY DEF View, Holds
<1>2. DOMAIN new.evidence = DOMAIN made.evidence \cup Range(Reads(made.todo))
  <2>1. DOMAIN Joined(made.evidence, contents) = DOMAIN made.evidence \cup DOMAIN contents
    BY JoinedIs
  <2> QED  BY <2>1
<1>3. /\ Partly(EvidenceOrder, Unread(made.todo), new.evidence)
      /\ Unread(made.todo) = <<>> => DOMAIN new.evidence = Range(EvidenceOrder)
  <2>1. Partly(EvidenceOrder, made.todo, made.evidence) /\ EvidenceOrder \in Seq(Names)
    BY <1>1, Orders DEF AtEvidence
  <2> QED  BY <1>2, <2>1, PartlyOn
<1>4. CapturesHold(new)  BY <1>1 DEF CapturesHold
<1>5. CASE Unread(made.todo) = <<>>
  <2>1. AtPredecessor(new)  BY <1>1, <1>3, <1>5 DEF AtEvidence, AtPredecessor, EvidenceDocs
  <2> QED  BY <1>4, <1>5, <2>1 DEF View, Holds
<1>6. CASE Unread(made.todo) # <<>>
  <2>1. AtEvidence(new)  BY <1>1, <1>3, <1>6 DEF AtEvidence
  <2> QED  BY <1>4, <1>6, <2>1 DEF View, Holds
<1> QED  BY <1>5, <1>6

\* The evidence confirms the predecessor, and is what was captured.
LEMMA ResolvesOn ==
  ASSUME NEW made, NEW ask, NEW seen, NEW again, NEW mine,
         View("predecessor", ask, seen, again, made, mine),
         PredecessorConfirmed(made.evidence, ask.predecessor),
         \A d \in DOMAIN made.evidence : made.evidence[d] = made.first[d].content
  PROVE  View("checks", ask, seen, again, made, mine)
<1>1. CapturesHold(made) /\ AtPredecessor(made)  BY DEF View, Holds
<1>2. \A d \in EvidenceDocs : made.evidence[d] = Cited(made)[d]
  BY <1>1, TheDocuments DEF AtPredecessor, Cited
<1>3. PredecessorConfirmed(Cited(made), ask.predecessor)  BY <1>2, SameEvidence
<1>4. Checking(ask, made)  BY <1>1, <1>3 DEF Checking, Confirms, AtPredecessor
<1>5. FirstFailure(<<>>, Cited(made)) = "none"
  <2>1. <<>> \in Seq(Names) /\ Len(<<>>) = 0  OBVIOUS
  <2> DEFINE docs == Cited(made)
  <2> HIDE DEF docs
  <2>2. \/ FirstFailure(<<>>, docs) = "none"
        \/ \E n \in 1..Len(<<>>) : FailsAt(<<>>, docs, n)  BY <2>1, FirstFailureIs
  <2> QED  BY <2>1, <2>2 DEF docs
<1>6. AtChecks(ask, made, Touched(made))  BY <1>1, <1>4, <1>5, Orders DEF AtChecks, AtPredecessor
<1> QED  BY <1>1, <1>6 DEF View, Holds

\* The checks fail on the disk as they fail on what is cited.
LEMMA SameFailure ==
  ASSUME NEW checks, NEW f, NEW g, \A d \in EvidenceDocs : f[d] = g[d]
  PROVE  FirstFailure(checks, f) = FirstFailure(checks, g)
<1>1. \A check : CheckFailure(check, f) = CheckFailure(check, g)  BY SameEvidence
<1>2. {n \in DOMAIN checks : CheckFailure(checks[n], f) # "none"}
      = {n \in DOMAIN checks : CheckFailure(checks[n], g) # "none"}  BY <1>1
<1> QED  BY <1>1, <1>2 DEF FirstFailure

LEMMA ChecksOn ==
  ASSUME NEW made, NEW new, NEW ask, NEW seen, NEW again, NEW mine,
         View("checks", ask, seen, again, made, mine),
         new.failure = IF made.failure = "none" THEN FirstFailure(Reads(made.todo), tree) ELSE made.failure,
         new.first = made.first, new.last = made.last, new.evidence = made.evidence,
         new.todo = IF Unread(made.todo) = <<>> THEN SnapshotOrder ELSE Unread(made.todo)
  PROVE  View(IF Unread(made.todo) = <<>> THEN "reconcile" ELSE "checks", ask, seen, again, new, mine)
<1> DEFINE docs == Cited(made)
<1>1. CapturesHold(made) /\ AtChecks(ask, made, Touched(made))  BY DEF View, Holds
<1>2. DOMAIN made.first = Documents /\ made.last = <<>> /\ made.todo \in Seq(Names)
  BY <1>1 DEF AtChecks, Checking, Confirms
<1>3. PICK read \in Seq(Names) : /\ RequiredChecks = read \o made.todo
                                 /\ Touched(made) \/ made.failure = FirstFailure(read, docs)
  BY <1>1 DEF AtChecks
<1> DEFINE now == Reads(made.todo)
           later == Unread(made.todo)
<1>4. /\ now \in Seq(Names) /\ later \in Seq(Names) /\ read \o now \in Seq(Names)
      /\ RequiredChecks = (read \o now) \o later
      /\ later = <<>> => RequiredChecks = read \o now  BY <1>2, <1>3, ReadsOn
<1>5. ASSUME ~Touched(made) PROVE new.failure = FirstFailure(read \o now, docs)
  <2>1. \A d \in EvidenceDocs : tree[d] = docs[d]
    BY <1>1, <1>2, <1>5, UntouchedIsCited, TheDocuments
  <2>2. FirstFailure(now, tree) = FirstFailure(now, docs)  BY <2>1, SameFailure
  <2> HIDE DEF now, docs
  <2>3. FirstFailure(read \o now, docs) =
          IF FirstFailure(read, docs) = "none" THEN FirstFailure(now, docs) ELSE FirstFailure(read, docs)
    BY <1>4, FirstOfBoth
  <2> QED  BY <1>3, <1>5, <2>2, <2>3 DEF now
<1>6. CapturesHold(new) /\ (Touched(new) <=> Touched(made)) /\ Cited(new) = docs
  BY <1>1 DEF CapturesHold, Touched, Latest, Cited
<1>7. Checking(ask, new)  BY <1>1, <1>6 DEF AtChecks, Checking, Confirms
<1>8. CASE later = <<>>
  <2>1. AtReconcile(ask, new, Touched(new))  BY <1>4, <1>5, <1>6, <1>7, <1>8 DEF AtReconcile
  <2> QED  BY <1>6, <1>8, <2>1 DEF View, Holds
<1>9. CASE later # <<>>
  <2>1. AtChecks(ask, new, Touched(new))
    <3>1. new.todo = later  BY <1>9
    <3> HIDE DEF now, later, docs
    <3> QED  BY <1>4, <1>5, <1>6, <1>7, <3>1 DEF AtChecks
  <2> QED  BY <1>6, <1>9, <2>1 DEF View, Holds
<1> QED  BY <1>8, <1>9

----------------------------------------
(* What it concludes, and reads again *)

\* Before it has read anything.
LEMMA CapturesStart ==
  ASSUME NEW ask, NEW seen, NEW again, NEW mine
  PROVE  View("capture", ask, seen, again, NothingRead, mine)
<1>1. /\ NothingRead.todo = SnapshotOrder /\ NothingRead.first = <<>> /\ NothingRead.last = <<>>
      /\ NothingRead.evidence = <<>> /\ NothingRead.failure = "none"  BY DEF NothingRead
<1>2. DOMAIN NothingRead.first = {} /\ DOMAIN NothingRead.last = {}  BY <1>1, Orders
<1>3. CapturesHold(NothingRead)  BY <1>2 DEF CapturesHold
<1>4. Partly(SnapshotOrder, NothingRead.todo, NothingRead.first)  BY <1>1, Orders, PartlyStarts
<1>5. AtCapture(NothingRead)  BY <1>1, <1>4 DEF AtCapture
<1> QED  BY <1>3, <1>5 DEF View, Holds

\* Another draft that has captured and read the same.
LEMMA SameCaptures ==
  ASSUME NEW made, NEW new, CapturesHold(made), new.first = made.first, new.last = made.last
  PROVE  CapturesHold(new) /\ (Touched(new) <=> Touched(made)) /\ Cited(new) = Cited(made)
BY DEF CapturesHold, Touched, Latest, Cited

\* A conclusion that is drawn with the last of the checks.
LEMMA ReconcilesTo ==
  ASSUME NEW made, NEW new, NEW code, NEW ask, NEW seen, NEW again, NEW mine,
         View("reconcile", ask, seen, again, made, mine),
         \/ made.failure # "none" /\ code = made.failure
         \/ /\ made.failure = "none" /\ ~MirrorsReconcile(made.evidence)
            /\ code = "MIRROR_CONTRADICTION"
         \/ /\ made.failure = "none" /\ MirrorsReconcile(made.evidence) /\ CurrentTasks(made.evidence) # {}
            /\ code = "CONFLICTING_CURRENT_TASK",
         new.result = Refusal(code), new.todo = made.todo, new.first = made.first, new.last = made.last
  PROVE  View("headAgain", ask, seen, again, new, mine)
<1>1. CapturesHold(made) /\ AtReconcile(ask, made, Touched(made))  BY DEF View, Holds
<1>2. CapturesHold(new) /\ (Touched(new) <=> Touched(made)) /\ Cited(new) = Cited(made)
  BY <1>1, SameCaptures
<1>3. ASSUME ~Touched(made) PROVE Refusal(code) = Conclusion(Cited(made))
  <2> DEFINE docs == Cited(made)
             failure == FirstFailure(RequiredChecks, docs)
  <2>1. \A d \in EvidenceDocs : made.evidence[d] = docs[d]
    BY <1>1, TheDocuments DEF AtReconcile, Checking, Cited
  <2> HIDE DEF docs
  <2>2. /\ MirrorsReconcile(made.evidence) <=> MirrorsReconcile(docs)
        /\ CurrentTasks(made.evidence) = CurrentTasks(docs)  BY <2>1, SameEvidence
  <2>3. made.failure = failure  BY <1>1, <1>3 DEF AtReconcile, docs
  <2>4. Conclusion(docs) =
          CASE failure # "none" -> Refusal(failure)
            [] failure = "none" /\ ~MirrorsReconcile(docs) -> Refusal("MIRROR_CONTRADICTION")
            [] failure = "none" /\ MirrorsReconcile(docs) /\ CurrentTasks(docs) # {} ->
                 Refusal("CONFLICTING_CURRENT_TASK")
            [] OTHER -> Proposal(docs["catalog"], docs)  BY Zenon DEF Conclusion
  <2>5. /\ failure # "none" => Conclusion(docs) = Refusal(failure)
        /\ (failure = "none" /\ ~MirrorsReconcile(docs)) => Conclusion(docs) = Refusal("MIRROR_CONTRADICTION")
        /\ (failure = "none" /\ MirrorsReconcile(docs) /\ CurrentTasks(docs) # {}) =>
             Conclusion(docs) = Refusal("CONFLICTING_CURRENT_TASK")  BY ONLY <2>4
  <2> QED  BY <2>2, <2>3, <2>5 DEF docs
<1>4. AtHeadAgain(ask, new, Touched(new))
  BY <1>1, <1>2, <1>3 DEF AtReconcile, AtHeadAgain, Concludes, Checking, Confirms
<1> QED  BY <1>2, <1>4 DEF View, Holds

\* Nothing speaks against a proposal.
LEMMA ReconcilesWell ==
  ASSUME NEW made, NEW ask, NEW seen, NEW again, NEW mine,
         View("reconcile", ask, seen, again, made, mine),
         made.failure = "none", MirrorsReconcile(made.evidence), CurrentTasks(made.evidence) = {}
  PROVE  View("catalog", ask, seen, again, made, mine)
<1>1. CapturesHold(made) /\ AtReconcile(ask, made, Touched(made))  BY DEF View, Holds
<1>2. ASSUME ~Touched(made) PROVE Conclusion(Cited(made)) = Proposal(Cited(made)["catalog"], Cited(made))
  <2> DEFINE docs == Cited(made)
             failure == FirstFailure(RequiredChecks, docs)
  <2>1. \A d \in EvidenceDocs : made.evidence[d] = docs[d]
    BY <1>1, TheDocuments DEF AtReconcile, Checking, Cited
  <2> HIDE DEF docs
  <2>2. MirrorsReconcile(docs) /\ CurrentTasks(docs) = {}  BY <2>1, SameEvidence
  <2>3. failure = "none"  BY <1>1, <1>2 DEF AtReconcile, docs
  <2>4. Conclusion(docs) =
          CASE failure # "none" -> Refusal(failure)
            [] failure = "none" /\ ~MirrorsReconcile(docs) -> Refusal("MIRROR_CONTRADICTION")
            [] failure = "none" /\ MirrorsReconcile(docs) /\ CurrentTasks(docs) # {} ->
                 Refusal("CONFLICTING_CURRENT_TASK")
            [] OTHER -> Proposal(docs["catalog"], docs)  BY Zenon DEF Conclusion
  <2>5. Conclusion(docs) = Proposal(docs["catalog"], docs)  BY ONLY <2>2, <2>3, <2>4
  <2> QED  BY <2>5 DEF docs
<1>3. AtCatalog(ask, made, Touched(made))  BY <1>1, <1>2 DEF AtReconcile, AtCatalog
<1> QED  BY <1>1, <1>3 DEF View, Holds

LEMMA CatalogIsRead ==
  ASSUME NEW made, NEW new, NEW ask, NEW seen, NEW again, NEW mine,
         View("catalog", ask, seen, again, made, mine),
         new.result = Proposal(tree["catalog"], made.evidence),
         new.todo = made.todo, new.first = made.first, new.last = made.last
  PROVE  View("headAgain", ask, seen, again, new, mine)
<1>1. CapturesHold(made) /\ AtCatalog(ask, made, Touched(made))  BY DEF View, Holds
<1>2. CapturesHold(new) /\ (Touched(new) <=> Touched(made)) /\ Cited(new) = Cited(made)
  BY <1>1, SameCaptures
<1>3. ASSUME ~Touched(made) PROVE new.result = Conclusion(Cited(made))
  <2> DEFINE docs == Cited(made)
  <2>1. \A d \in EvidenceDocs : made.evidence[d] = docs[d]
    BY <1>1, TheDocuments DEF AtCatalog, Checking, Cited
  <2>2. tree["catalog"] = docs["catalog"]
    BY <1>1, <1>3, UntouchedIsCited, TheDocuments DEF AtCatalog, Checking, Confirms
  <2>3. Conclusion(docs) = Proposal(docs["catalog"], docs)  BY <1>1, <1>3 DEF AtCatalog
  <2> HIDE DEF docs
  <2>4. \A catalog : Proposal(catalog, made.evidence) = Proposal(catalog, docs)
    BY <2>1, SameEvidence
  <2>5. new.result = Conclusion(docs)  BY <2>2, <2>3, <2>4
  <2> QED  BY <2>5 DEF docs
<1>4. AtHeadAgain(ask, new, Touched(new))
  BY <1>1, <1>2, <1>3 DEF AtCatalog, AtHeadAgain, Concludes, Checking, Confirms
<1> QED  BY <1>2, <1>4 DEF View, Holds

\* HEAD is read again; if it is the same and no document was touched, this is a
\* moment of what is cited.
LEMMA HeadIsReadAgain ==
  ASSUME NEW p \in Procs, NowKept, Kind(p) = "propose", proc[p].pc = "headAgain", Sees(p)
  PROVE  View("statusAgain", proc[p].ask, proc[p].seen, HeadAnswer, proc[p].made, moments[p])
<1> DEFINE made == proc[p].made
           ask == proc[p].ask
           seen == proc[p].seen
           again == proc[p].again
           mine == moments[p]
<1>1. View("headAgain", ask, seen, again, made, mine)  BY DEF Sees
<1>2. CapturesHold(made) /\ AtHeadAgain(ask, made, Touched(made))  BY <1>1 DEF View, Holds
<1>3. DOMAIN made.first = Documents /\ made.last = <<>>
  BY <1>2 DEF AtHeadAgain, Concludes, Confirms
<1>4. ASSUME ~Touched(made), HeadAnswer = seen PROVE Met(seen, made, mine)
  <2>1. \A d \in Documents : tree[d] = Cited(made)[d]  BY <1>2, <1>3, <1>4, UntouchedIsCited
  <2>2. Now.head = seen.head  BY <1>4 DEF Now, HeadAnswer
  <2>3. Now.docs = Cited(made)  BY <2>1 DEF Now, Cited
  <2>4. StillMatters(p, Now)  BY <1>3, <2>2, <2>3 DEF StillMatters, Cited
  <2>5. Now \in mine  BY <2>4 DEF NowKept, Readers
  <2> QED  BY <2>2, <2>3, <2>5 DEF Met
<1>5. AtStatusAgain(ask, seen, HeadAnswer, made, Touched(made), Met(seen, made, mine))
  BY <1>2, <1>4 DEF AtHeadAgain, AtStatusAgain
<1>6. View("statusAgain", ask, seen, HeadAnswer, made, mine)
  <2> HIDE DEF made, ask, seen, again, mine
  <2> QED  BY <1>2, <1>5 DEF View, Holds
<1> QED  BY <1>6

\* The rest of the status; what is seen to have moved is noted.
LEMMA StatusIsReadAgain ==
  ASSUME NEW made, NEW new, NEW ask, NEW seen, NEW again, NEW mine,
         View("statusAgain", ask, seen, again, made, mine),
         again # seen => new.moved,
         new.todo = made.todo, new.first = made.first, new.last = made.last, new.result = made.result
  PROVE  View("captureAgain", ask, seen, again, new, mine)
<1>1. CapturesHold(made) /\ AtStatusAgain(ask, seen, again, made, Touched(made), Met(seen, made, mine))
  BY DEF View, Holds
<1>2. CapturesHold(new) /\ (Touched(new) <=> Touched(made)) /\ Cited(new) = Cited(made)
  BY <1>1, SameCaptures
<1>3. Met(seen, new, mine) <=> Met(seen, made, mine)  BY <1>2 DEF Met
<1>4. Partly(SnapshotOrder, new.todo, new.last)
  <2>1. new.todo = SnapshotOrder /\ new.last = <<>>  BY <1>1 DEF AtStatusAgain
  <2>2. Partly(SnapshotOrder, SnapshotOrder, <<>>)  BY Orders, PartlyStarts
  <2> QED  BY <2>1, <2>2
<1>5. Concludes(ask, new, Touched(new))  BY <1>1, <1>2 DEF AtStatusAgain, Concludes, Confirms
<1>6. AtCaptureAgain(ask, seen, again, new, Touched(new), Met(seen, new, mine))
  BY <1>1, <1>2, <1>3, <1>4, <1>5 DEF AtStatusAgain, AtCaptureAgain
<1> QED  BY <1>2, <1>6 DEF View, Holds

\* A refusal that says that something moved is published as it is.
LEMMA RefusalIsPublished ==
  ASSUME NEW made, NEW new, NEW pc \in {"statusAgain", "compare"}, NEW ask, NEW seen, NEW again, NEW mine,
         View(pc, ask, seen, again, made, mine),
         new.result \in {Refusal("INPUT_DRIFT"), Refusal("DIRTY_BASELINE")},
         new.first = made.first, new.last = made.last
  PROVE  View("publish", ask, seen, again, new, mine)
<1>1. CapturesHold(made) /\ Confirms(ask, made)
  BY DEF View, Holds, AtStatusAgain, AtCompare, Concludes
<1>2. CapturesHold(new) /\ Cited(new) = Cited(made)  BY <1>1, SameCaptures
<1>3. AtPublish(ask, new, Met(seen, new, mine))  BY <1>1, <1>2 DEF AtPublish, Confirms
<1> QED  BY <1>2, <1>3 DEF View, Holds

\* A capture of the second snapshot.
LEMMA CapturesLast ==
  ASSUME DiskSound, NEW made, NEW new, NEW ask, NEW seen, NEW again, NEW mine,
         View("captureAgain", ask, seen, again, made, mine),
         new.last = Joined(made.last, Captured(made.todo)),
         new.first = made.first, new.moved = made.moved, new.result = made.result,
         new.todo = IF Unread(made.todo) = <<>> THEN <<>> ELSE Unread(made.todo)
  PROVE  View(IF Unread(made.todo) = <<>> THEN "compare" ELSE "captureAgain", ask, seen, again, new, mine)
<1>1. CapturesHold(made) /\ AtCaptureAgain(ask, seen, again, made, Touched(made), Met(seen, made, mine))
  BY DEF View, Holds
<1>2. DOMAIN made.first = Documents  BY <1>1 DEF AtCaptureAgain, Concludes, Confirms
<1>3. /\ DOMAIN Captured(made.todo) = Range(Reads(made.todo))
      /\ \A d \in Range(Reads(made.todo)) : Captured(made.todo)[d].stamp = stamps[d]
  BY DEF Captured
<1>4. /\ DOMAIN Joined(made.last, Captured(made.todo)) = DOMAIN made.last \cup DOMAIN Captured(made.todo)
      /\ \A d \in DOMAIN Captured(made.todo) : Joined(made.last, Captured(made.todo))[d] = Captured(made.todo)[d]
      /\ \A d \in DOMAIN made.last \ DOMAIN Captured(made.todo) :
           Joined(made.last, Captured(made.todo))[d] = made.last[d]  BY JoinedIs
<1>5. DOMAIN new.last = DOMAIN made.last \cup Range(Reads(made.todo))  BY <1>3, <1>4
<1>6. /\ Partly(SnapshotOrder, Unread(made.todo), new.last)
      /\ Unread(made.todo) = <<>> => DOMAIN new.last = Range(SnapshotOrder)
      /\ Range(Reads(made.todo)) \subseteq Range(SnapshotOrder)
  <2>1. Partly(SnapshotOrder, made.todo, made.last) /\ SnapshotOrder \in Seq(Names)
    BY <1>1, Orders DEF AtCaptureAgain
  <2> QED  BY <1>5, <2>1, PartlyOn
<1>7. Range(SnapshotOrder) = Documents  BY DocumentsAssumption
<1>8. /\ \A d \in Range(Reads(made.todo)) : new.last[d].stamp = stamps[d]
      /\ \A d \in DOMAIN made.last \ Range(Reads(made.todo)) : new.last[d] = made.last[d]
  BY <1>3, <1>4
<1>9. \A d \in Documents : /\ made.first[d].stamp \in 0..stamps[d] /\ stamps[d] \in Nat
                           /\ d \in DOMAIN made.last => made.last[d].stamp \in made.first[d].stamp..stamps[d]
  BY <1>1, <1>2 DEF CapturesHold, DiskSound
<1>10. CapturesHold(new)
  <2>1. ASSUME NEW d \in DOMAIN new.last
        PROVE  d \in Documents /\ new.last[d].stamp \in made.first[d].stamp..stamps[d]
    <3>1. d \in Documents  BY <1>1, <1>2, <1>5, <1>6, <1>7 DEF CapturesHold
    <3>2. CASE d \in Range(Reads(made.todo))  BY <1>8, <1>9, <3>1, <3>2
    <3>3. CASE d \notin Range(Reads(made.todo))  BY <1>5, <1>8, <1>9, <3>1, <3>3
    <3> QED  BY <3>1, <3>2, <3>3
  <2> QED  BY <1>1, <1>2, <2>1 DEF CapturesHold
<1>11. Touched(made) => Touched(new)
  <2> SUFFICES ASSUME NEW d \in Documents, Latest(made, d) # made.first[d].stamp
               PROVE  Latest(new, d) # new.first[d].stamp  BY DEF Touched
  <2>1. CASE d \in Range(Reads(made.todo))
    <3>1. Latest(new, d) = stamps[d]  BY <1>5, <1>8, <2>1 DEF Latest
    <3>2. stamps[d] # made.first[d].stamp  BY <1>9 DEF Latest
    <3> QED  BY <3>1, <3>2
  <2>2. CASE d \notin Range(Reads(made.todo))  BY <1>5, <1>8, <2>2 DEF Latest
  <2> QED  BY <2>1, <2>2
<1>12. Cited(new) = Cited(made)  BY DEF Cited
<1>13. Met(seen, new, mine) <=> Met(seen, made, mine)  BY <1>12 DEF Met
<1>14. Concludes(ask, new, Touched(new))
  BY <1>1, <1>11, <1>12 DEF AtCaptureAgain, Concludes, Confirms
<1>15. Touched(new) \/ new.moved \/ Met(seen, new, mine)  BY <1>1, <1>11, <1>13 DEF AtCaptureAgain
<1>16. CASE Unread(made.todo) = <<>>
  <2>1. AtCompare(ask, seen, again, new, Touched(new), Met(seen, new, mine))
    BY <1>6, <1>7, <1>14, <1>15, <1>16 DEF AtCompare
  <2> QED  BY <1>10, <1>16, <2>1 DEF View, Holds
<1>17. CASE Unread(made.todo) # <<>>
  <2>1. AtCaptureAgain(ask, seen, again, new, Touched(new), Met(seen, new, mine))
    BY <1>6, <1>14, <1>15, <1>17 DEF AtCaptureAgain
  <2> QED  BY <1>10, <1>17, <2>1 DEF View, Holds
<1> QED  BY <1>16, <1>17

\* Nothing has moved: what it concluded is published.
LEMMA ComparesWell ==
  ASSUME NEW made, NEW ask, NEW seen, NEW again, NEW mine,
         View("compare", ask, seen, again, made, mine), ~Drifted(made)
  PROVE  View("publish", ask, seen, again, made, mine)
<1>1. CapturesHold(made) /\ AtCompare(ask, seen, again, made, Touched(made), Met(seen, made, mine))
  BY DEF View, Holds
<1>2. ~made.moved /\ made.first = made.last  BY DEF Drifted
<1>3. ~Touched(made)  BY <1>1, <1>2 DEF Touched, Latest, AtCompare
<1>4. AtPublish(ask, made, Met(seen, made, mine))
  BY <1>1, <1>2, <1>3 DEF AtCompare, AtPublish, Concludes
<1> QED  BY <1>1, <1>4 DEF View, Holds

----------------------------------------
(* Its own steps *)

\* Two drafts that differ in one thing at most.
Like(new, made, field) == \A x \in MadeFields \ {field} : new[x] = made[x]

LEMMA RevisionsAreLike ==
  ASSUME NEW made, Drafted(made), NEW x, NEW new
  PROVE  /\ new = [made EXCEPT !.todo = x] => Drafted(new) /\ new.todo = x /\ Like(new, made, "todo")
         /\ new = [made EXCEPT !.first = x] => Drafted(new) /\ new.first = x /\ Like(new, made, "first")
         /\ new = [made EXCEPT !.last = x] => Drafted(new) /\ new.last = x /\ Like(new, made, "last")
         /\ new = [made EXCEPT !.evidence = x] => Drafted(new) /\ new.evidence = x /\ Like(new, made, "evidence")
         /\ new = [made EXCEPT !.failure = x] => Drafted(new) /\ new.failure = x /\ Like(new, made, "failure")
         /\ new = [made EXCEPT !.moved = x] => Drafted(new) /\ new.moved = x /\ Like(new, made, "moved")
         /\ new = [made EXCEPT !.result = x] => Drafted(new) /\ new.result = x /\ Like(new, made, "result")
BY DEF Drafted, MadeFields, Like

LEMMA LikenessIs ==
  ASSUME NEW made, NEW new, NEW field, Like(new, made, field)
  PROVE  /\ field # "todo" => new.todo = made.todo
         /\ field # "first" => new.first = made.first
         /\ field # "last" => new.last = made.last
         /\ field # "evidence" => new.evidence = made.evidence
         /\ field # "failure" => new.failure = made.failure
         /\ field # "moved" => new.moved = made.moved
         /\ field # "result" => new.result = made.result
BY DEF Like, MadeFields

\* What a command sees lasts, with the moments that are remembered.
LEMMA SeesAfter ==
  ASSUME DiskSound, DiskSound', Stamped, \A d \in Documents : ~(stamps'[d] < stamps[d]), Remembered,
         NEW p \in Procs, NEW pc \in Drafting, NEW ask, NEW seen, NEW again, NEW made,
         ask.kind = "propose", proc'[p].pc = pc, proc'[p].ask = ask, proc'[p].seen = seen,
         proc'[p].again = again, proc'[p].made = made,
         NEW mine, mine = moments[p], View(pc, ask, seen, again, made, mine)
  PROVE  Sees(p)'
<1>1. PICK kept : kept = moments'[p]  OBVIOUS
<1>2. ASSUME NEW m \in mine, DOMAIN made.first = Documents, m.head = seen.head, m.docs = Cited(made)
      PROVE  m \in kept
  <2>1. Kind(p)' \in Readers  BY DEF Kind, Readers
  <2>2. moments'[p] = {n \in moments[p] \cup {Now'} : StillMatters(p, n)'}  BY <2>1 DEF Remembered
  <2>3. \A d \in DOMAIN made.first : m.docs[d] = made.first[d].content  BY <1>2 DEF Cited
  <2>4. pc \notin {"head", "status", "lookAgain", "rename", "existing", "verify"}  BY DEF Drafting
  <2>5. StillMatters(p, m)'  BY <1>2, <2>3, <2>4 DEF StillMatters
  <2> QED  BY <1>1, <1>2, <2>2, <2>5
<1>3. View(pc, ask, seen, again, made, kept)'  BY <1>2, ViewStays
<1> QED  BY <1>1, <1>3 DEF Sees, View, CapturesHold, Touched, Latest

\* What a command sees after a step of its own.
LEMMA SeesOn ==
  ASSUME DiskSound, NEW p \in Procs, NEW pc \in Drafting, NEW ask, NEW seen, NEW status, NEW again, NEW made,
         ask.kind = "propose",
         Becomes(p, pc, ask, seen, status, again, made), UNCHANGED git, Remembered,
         NEW mine, mine = moments[p], View(pc, ask, seen, again, made, mine)
  PROVE  Sees(p)'
<1>1. /\ proc'[p].pc = pc /\ proc'[p].ask = ask /\ proc'[p].seen = seen /\ proc'[p].again = again
      /\ proc'[p].made = made  BY DEF Becomes
<1>2. /\ DiskSound' /\ Stamped
      /\ \A d \in Documents : ~(stamps'[d] < stamps[d])
  <2>1. tree' = tree /\ stamps' = stamps /\ writes' = writes  BY DEF git, disk
  <2> QED  BY <2>1 DEF DiskSound, Stamped
<1> QED  BY <1>1, <1>2, SeesAfter

\* propose-successor.
LEMMA ProposingSees ==
  ASSUME ProcsShaped, DiskSound, NEW p \in Procs, ProposeKnows(p), p \in Drafters => Sees(p),
         Proposing(p), UNCHANGED git, Remembered, p \in Drafters'
  PROVE  Sees(p)'
<1>1. Kind(p)' = "propose" /\ proc'[p].pc \in Drafting /\ p \notin rewound'  BY DEF Drafters
<1>2. p \notin rewound  BY <1>1 DEF Remembered
<1>3. ASSUME Kind(p) = "propose", proc[p].pc \in Drafting PROVE Sees(p) /\ Drafted(proc[p].made)
  <2>1. p \in Drafters  BY <1>2, <1>3 DEF Drafters
  <2>2. proc[p].pc \notin {"head", "status"}  BY <1>3 DEF Drafting
  <2> QED  BY <1>3, <2>1, <2>2 DEF ProposeKnows
<1> PICK ask, seen, again, made, mine :
         ask = proc[p].ask /\ seen = proc[p].seen /\ again = proc[p].again /\ made = proc[p].made /\ mine = moments[p]
  OBVIOUS
<1> DEFINE Shown(pc, new) == View(pc, ask, seen, again, new, mine)
           Knowing(pc) == Kind(p) = "propose" /\ proc[p].pc = pc /\ Shown(pc, made) /\ Drafted(made)
           Rest(todo) == IF Unread(made.todo) = <<>> THEN todo ELSE Unread(made.todo)
           Then(next, pc) == IF Unread(made.todo) = <<>> THEN next ELSE pc
<1>4. ASSUME NEW pc \in Drafting, At(p, "propose", pc) PROVE Knowing(pc)  BY <1>3, <1>4 DEF Sees, At
<1>5. ASSUME NEW pc \in Drafting, NEW new, Kind(p) = "propose", Moves(p, pc, new),
             Shown(pc, new)
      PROVE  Sees(p)'
  <2>1. PICK status : status = proc[p].status  OBVIOUS
  <2>2. Becomes(p, pc, ask, seen, status, again, new)  BY <1>5, <2>1, GoesOn DEF Moves
  <2> QED  BY <1>5, <2>2, SeesOn DEF Kind
<1>6. ASSUME NEW at \in Drafting, NEW next \in Drafting, NEW todo, NEW changed, NEW field,
             Knowing(at), Drafted(changed), Like(changed, made, field), field # "todo",
             Proceeds(p, changed, next, todo)
      PROVE  \E new : /\ new.todo = Rest(todo) /\ Like(new, changed, "todo")
                      /\ Shown(Then(next, at), new) => Sees(p)'
  <2>1. changed.todo = made.todo  BY <1>6, LikenessIs
  <2>2. PICK rest, pc : rest = Rest(todo) /\ pc = Then(next, at)  OBVIOUS
  <2>3. PICK new : new = [changed EXCEPT !.todo = rest]  OBVIOUS
  <2>4. new.todo = rest /\ Like(new, changed, "todo")  BY ONLY <1>6, <2>3, RevisionsAreLike, SMTT(30)
  <2>5. proc' = [proc EXCEPT ![p].pc = pc, ![p].made = new]
    BY <1>6, <2>1, <2>2, <2>3 DEF Proceeds, ProcsShaped
  <2>6. PICK status : status = proc[p].status  OBVIOUS
  <2>7. Becomes(p, pc, ask, seen, status, again, new)  BY <2>5, <2>6, GoesOn
  <2>8. pc \in Drafting  BY <1>6, <2>2
  <2>9. ASSUME Shown(pc, new) PROVE Sees(p)'  BY <1>6, <2>7, <2>8, <2>9, SeesOn DEF Kind
  <2> QED  BY <2>2, <2>4, <2>9
<1>7. ASSUME proc' = [proc EXCEPT ![p] = Idle] PROVE FALSE  BY <1>1, <1>7, Ends
<1>8. ASSUME Drops(p) \/ Refuses(p) PROVE FALSE  BY <1>7, <1>8 DEF Drops, Refuses
<1>9. ASSUME NEW pc, NEW new, pc \notin Drafting, Moves(p, pc, new) PROVE FALSE
  <2>1. Becomes(p, pc, proc[p].ask, proc[p].seen, proc[p].status, proc[p].again, new)
    BY <1>9, GoesOn DEF Moves
  <2> QED  BY <1>1, <1>9, <2>1 DEF Becomes
<1>10. CASE StartsPropose(p)
  <2>1. PICK request : Begin(p, request, "head")  BY <1>10 DEF StartsPropose
  <2>2. Becomes(p, "head", request, Nothing, Nothing, Nothing, Nothing)  BY <2>1, Begins
  <2> QED  BY <1>1, <2>2 DEF Becomes, Drafting
<1>11. CASE ProposeReadsStatus(p)
  <2>1. PICK status, fresh : status = Porcelain /\ fresh = NothingRead  OBVIOUS
  <2>2. proc' = [proc EXCEPT ![p].pc = "capture", ![p].status = status, ![p].made = fresh]
    BY <1>8, <1>11, <2>1 DEF ProposeReadsStatus
  <2>3. Becomes(p, "capture", ask, seen, status, again, fresh)  BY <2>2, GoesOn
  <2>4. View("capture", ask, seen, again, fresh, mine)  BY <2>1, CapturesStart
  <2> QED  BY <1>11, <2>3, <2>4, SeesOn DEF ProposeReadsStatus, At, Kind, Drafting
<1>12. CASE ProposeCaptures(p)
  <2>1. Knowing("capture")  BY <1>4, <1>12 DEF ProposeCaptures, Drafting
  <2>2. PICK first : first = Joined(made.first, Captured(made.todo))  OBVIOUS
  <2>3. PICK changed : changed = [made EXCEPT !.first = first]  OBVIOUS
  <2>4. Proceeds(p, changed, "evidence", EvidenceOrder)  BY <1>12, <2>2, <2>3 DEF ProposeCaptures
  <2>5. Drafted(changed) /\ changed.first = first /\ Like(changed, made, "first")
    BY <2>1, <2>3, RevisionsAreLike
  <2>6. PICK new : /\ new.todo = Rest(EvidenceOrder) /\ Like(new, changed, "todo")
                   /\ Shown(Then("evidence", "capture"), new) => Sees(p)'
    BY <1>6, <2>1, <2>4, <2>5 DEF Drafting
  <2>7. PICK todo, pc : todo = Rest(EvidenceOrder) /\ pc = Then("evidence", "capture")  OBVIOUS
  <2>8. new.first = first /\ new.last = made.last /\ new.evidence = made.evidence /\ new.failure = made.failure
    BY <2>5, <2>6, LikenessIs
  <2>9. Shown(pc, new)  BY <2>1, <2>2, <2>6, <2>7, <2>8, CapturesFirst
  <2> QED  BY <2>6, <2>7, <2>9
<1>13. CASE ProposeReadsEvidence(p)
  <2>1. Knowing("evidence")  BY <1>4, <1>13 DEF ProposeReadsEvidence, Drafting
  <2>2. PICK contents : contents = [d \in Range(Reads(made.todo)) |-> tree[d]]  OBVIOUS
  <2>3. PICK evidence : evidence = Joined(made.evidence, contents)  OBVIOUS
  <2>4. PICK changed : changed = [made EXCEPT !.evidence = evidence]  OBVIOUS
  <2>5. Proceeds(p, changed, "predecessor", RequiredChecks)
    BY <1>13, <2>2, <2>3, <2>4 DEF ProposeReadsEvidence
  <2>6. Drafted(changed) /\ changed.evidence = evidence /\ Like(changed, made, "evidence")
    BY <2>1, <2>4, RevisionsAreLike
  <2>7. PICK new : /\ new.todo = Rest(RequiredChecks) /\ Like(new, changed, "todo")
                   /\ Shown(Then("predecessor", "evidence"), new) => Sees(p)'
    BY <1>6, <2>1, <2>5, <2>6 DEF Drafting
  <2>8. PICK todo, pc : todo = Rest(RequiredChecks) /\ pc = Then("predecessor", "evidence")  OBVIOUS
  <2>9. new.evidence = evidence /\ new.first = made.first /\ new.last = made.last /\ new.failure = made.failure
    BY <2>6, <2>7, LikenessIs
  <2>10. DOMAIN contents = Range(Reads(made.todo))  BY <2>2
  <2>11. Shown(pc, new)  BY <2>1, <2>10, <2>3, <2>7, <2>8, <2>9, ReadsEvidenceOn
  <2> QED  BY <2>7, <2>8, <2>11
<1>14. CASE ProposeResolves(p)
  <2>1. Knowing("predecessor")  BY <1>4, <1>14 DEF ProposeResolves, Drafting
  <2>2. /\ PredecessorConfirmed(made.evidence, ask.predecessor)
        /\ \A d \in DOMAIN made.evidence : made.evidence[d] = made.first[d].content
        /\ Moves(p, "checks", made)  BY <1>8, <1>14 DEF ProposeResolves
  <2>3. Shown("checks", made)  BY <2>1, <2>2, ResolvesOn
  <2> QED  BY <1>5, <2>1, <2>2, <2>3 DEF Drafting
<1>15. CASE ProposeChecks(p)
  <2>1. Knowing("checks")  BY <1>4, <1>15 DEF ProposeChecks, Drafting
  <2>2. PICK failure : failure = IF made.failure = "none" THEN FirstFailure(Reads(made.todo), tree) ELSE made.failure
    OBVIOUS
  <2>3. PICK changed : changed = [made EXCEPT !.failure = failure]  OBVIOUS
  <2>4. Proceeds(p, changed, "reconcile", SnapshotOrder)  BY <1>15, <2>2, <2>3 DEF ProposeChecks
  <2>5. Drafted(changed) /\ changed.failure = failure /\ Like(changed, made, "failure")
    BY <2>1, <2>3, RevisionsAreLike
  <2>6. PICK new : /\ new.todo = Rest(SnapshotOrder) /\ Like(new, changed, "todo")
                   /\ Shown(Then("reconcile", "checks"), new) => Sees(p)'
    BY <1>6, <2>1, <2>4, <2>5 DEF Drafting
  <2>7. PICK todo, pc : todo = Rest(SnapshotOrder) /\ pc = Then("reconcile", "checks")  OBVIOUS
  <2>8. new.failure = failure /\ new.first = made.first /\ new.last = made.last /\ new.evidence = made.evidence
    BY <2>5, <2>6, LikenessIs
  <2>9. Shown(pc, new)  BY <2>1, <2>2, <2>6, <2>7, <2>8, ChecksOn
  <2> QED  BY <2>6, <2>7, <2>9
<1>16. CASE ProposeReconciles(p)
  <2>1. Knowing("reconcile")  BY <1>4, <1>16 DEF ProposeReconciles, Drafting
  <2> DEFINE Against(code) ==
        \/ made.failure # "none" /\ code = made.failure
        \/ made.failure = "none" /\ ~MirrorsReconcile(made.evidence) /\ code = "MIRROR_CONTRADICTION"
        \/ /\ made.failure = "none" /\ MirrorsReconcile(made.evidence) /\ CurrentTasks(made.evidence) # {}
           /\ code = "CONFLICTING_CURRENT_TASK"
      Well == made.failure = "none" /\ MirrorsReconcile(made.evidence) /\ CurrentTasks(made.evidence) = {}
  <2>2. \/ Well /\ Moves(p, "catalog", made)
        \/ \E code : Against(code) /\ Moves(p, "headAgain", [made EXCEPT !.result = Refusal(code)])
    <3>1. LET Concluding(code) == Moves(p, "headAgain", [made EXCEPT !.result = Refusal(code)])
              evidence == made.evidence
          IN  CASE made.failure # "none" -> Concluding(made.failure)
                [] made.failure = "none" /\ ~MirrorsReconcile(evidence) -> Concluding("MIRROR_CONTRADICTION")
                [] made.failure = "none" /\ MirrorsReconcile(evidence) /\ CurrentTasks(evidence) # {} ->
                     Concluding("CONFLICTING_CURRENT_TASK")
                [] OTHER -> Moves(p, "catalog", made)
      BY ONLY <1>16, made = proc[p].made, Zenon DEF ProposeReconciles
    <3> QED  BY ONLY <3>1, Zenon
  <2>3. CASE Well /\ Moves(p, "catalog", made)
    <3>1. Shown("catalog", made)  BY <2>1, <2>3, ReconcilesWell
    <3> QED  BY <1>5, <2>1, <2>3, <3>1 DEF Drafting
  <2>4. CASE \E code : Against(code) /\ Moves(p, "headAgain", [made EXCEPT !.result = Refusal(code)])
    <3>1. PICK code : Against(code) /\ Moves(p, "headAgain", [made EXCEPT !.result = Refusal(code)])
      BY <2>4
    <3>2. PICK result, new : result = Refusal(code) /\ new = [made EXCEPT !.result = result]
      OBVIOUS
    <3>3. new.result = Refusal(code) /\ Like(new, made, "result")  BY <2>1, <3>2, RevisionsAreLike
    <3>4. new.todo = made.todo /\ new.first = made.first /\ new.last = made.last
      BY <3>3, LikenessIs
    <3>5. Shown("headAgain", new)  BY <2>1, <3>1, <3>3, <3>4, ReconcilesTo
    <3>6. Moves(p, "headAgain", new)  BY <3>1, <3>2
    <3> QED  BY <1>5, <2>1, <3>5, <3>6 DEF Drafting
  <2> QED  BY <2>2, <2>3, <2>4
<1>17. CASE ProposeReadsCatalog(p)
  <2>1. Knowing("catalog")  BY <1>4, <1>17 DEF ProposeReadsCatalog, Drafting
  <2>2. PICK result : result = Proposal(tree["catalog"], made.evidence)  OBVIOUS
  <2>3. PICK new : new = [made EXCEPT !.result = result]  OBVIOUS
  <2>4. Moves(p, "headAgain", new)  BY <1>17, <2>3, <2>2 DEF ProposeReadsCatalog
  <2>5. new.result = result /\ Like(new, made, "result")  BY <2>1, <2>3, RevisionsAreLike
  <2>6. new.todo = made.todo /\ new.first = made.first /\ new.last = made.last  BY <2>5, LikenessIs
  <2>7. Shown("headAgain", new)  BY <2>1, <2>5, <2>6, <2>2, CatalogIsRead
  <2> QED  BY <1>5, <2>1, <2>4, <2>7 DEF Drafting
<1>18. CASE ProposeReadsStatusAgain(p)
  <2>1. Knowing("statusAgain")  BY <1>4, <1>18 DEF ProposeReadsStatusAgain, Drafting
  <2>2. PICK moved : moved = (again # seen \/ Porcelain # proc[p].status)  OBVIOUS
  <2>3. \/ Moves(p, "captureAgain", [made EXCEPT !.moved = moved])
        \/ Moves(p, "publish", [made EXCEPT !.result = Refusal("DIRTY_BASELINE")])
    BY <1>18, <2>2 DEF ProposeReadsStatusAgain
  <2>4. CASE Moves(p, "captureAgain", [made EXCEPT !.moved = moved])
    <3>1. PICK new : new = [made EXCEPT !.moved = moved]  OBVIOUS
    <3>2. new.moved = moved /\ Like(new, made, "moved")  BY <2>1, <3>1, RevisionsAreLike
    <3>3. new.todo = made.todo /\ new.first = made.first /\ new.last = made.last /\ new.result = made.result
      BY <3>2, LikenessIs
    <3>4. again # seen => new.moved  BY <2>2, <3>2
    <3>5. Shown("captureAgain", new)  BY <2>1, <3>3, <3>4, StatusIsReadAgain
    <3> QED  BY <1>5, <2>1, <2>4, <3>1, <3>5 DEF Drafting
  <2>5. CASE Moves(p, "publish", [made EXCEPT !.result = Refusal("DIRTY_BASELINE")])
    <3>1. PICK result, new : result = Refusal("DIRTY_BASELINE") /\ new = [made EXCEPT !.result = result]
      OBVIOUS
    <3>2. new.result = result /\ Like(new, made, "result")  BY <2>1, <3>1, RevisionsAreLike
    <3>3. new.first = made.first /\ new.last = made.last  BY <3>2, LikenessIs
    <3>4. Shown("publish", new)  BY <2>1, <3>1, <3>2, <3>3, RefusalIsPublished
    <3>5. Moves(p, "publish", new)  BY <2>5, <3>1
    <3> QED  BY <1>5, <2>1, <3>4, <3>5 DEF Drafting
  <2> QED  BY <2>3, <2>4, <2>5
<1>19. CASE ProposeCapturesAgain(p)
  <2>1. Knowing("captureAgain")  BY <1>4, <1>19 DEF ProposeCapturesAgain, Drafting
  <2>2. PICK last : last = Joined(made.last, Captured(made.todo))  OBVIOUS
  <2>3. PICK changed : changed = [made EXCEPT !.last = last]  OBVIOUS
  <2>4. Proceeds(p, changed, "compare", <<>>)  BY <1>19, <2>2, <2>3 DEF ProposeCapturesAgain
  <2>5. Drafted(changed) /\ changed.last = last /\ Like(changed, made, "last")
    BY <2>1, <2>3, RevisionsAreLike
  <2>6. PICK new : /\ new.todo = Rest(<<>>) /\ Like(new, changed, "todo")
                   /\ Shown(Then("compare", "captureAgain"), new) => Sees(p)'
    BY <1>6, <2>1, <2>4, <2>5 DEF Drafting
  <2>7. PICK todo, pc : todo = Rest(<<>>) /\ pc = Then("compare", "captureAgain")  OBVIOUS
  <2>8. new.last = last /\ new.first = made.first /\ new.moved = made.moved /\ new.result = made.result
    BY <2>5, <2>6, LikenessIs
  <2>9. Shown(pc, new)  BY <2>1, <2>2, <2>6, <2>7, <2>8, CapturesLast
  <2> QED  BY <2>6, <2>7, <2>9
<1>20. CASE ProposeCompares(p)
  <2>1. Knowing("compare")  BY <1>4, <1>20 DEF ProposeCompares, Drafting
  <2>2. CASE Drifted(made)
    <3>1. PICK result, new : result = Refusal("INPUT_DRIFT") /\ new = [made EXCEPT !.result = result]
      OBVIOUS
    <3>2. new.result = result /\ Like(new, made, "result")  BY <2>1, <3>1, RevisionsAreLike
    <3>3. new.first = made.first /\ new.last = made.last  BY <3>2, LikenessIs
    <3>4. Shown("publish", new)  BY <2>1, <3>1, <3>2, <3>3, RefusalIsPublished
    <3>5. Moves(p, "publish", new)  BY <1>20, <2>2, <3>1 DEF ProposeCompares
    <3> QED  BY <1>5, <2>1, <3>4, <3>5 DEF Drafting
  <2>3. CASE ~Drifted(made)
    <3>1. Moves(p, "publish", made)  BY <1>20, <2>3 DEF ProposeCompares
    <3>2. Shown("publish", made)  BY <2>1, <2>3, ComparesWell
    <3> QED  BY <1>5, <2>1, <3>1, <3>2 DEF Drafting
  <2> QED  BY <2>2, <2>3
\* the steps that publish
<1>21. CASE ProposeEndsDry(p)  BY <1>7, <1>21 DEF ProposeEndsDry, Concluded, Answers, Refuses
<1>22. CASE ProposeLooks(p)
  <2>1. PICK pc, new : pc \in {"lookAgain", "existing"} /\ Moves(p, pc, new)
    BY <1>22 DEF ProposeLooks
  <2> QED  BY <1>9, <2>1 DEF Drafting
<1>23. CASE ProposeLooksAgain(p)
  <2>1. PICK pc, new : pc \in {"rename", "existing"} /\ Moves(p, pc, new)
    BY <1>23 DEF ProposeLooksAgain
  <2> QED  BY <1>9, <2>1 DEF Drafting
<1>24. CASE ProposeRenames(p)
  <2>1. Becomes(p, "verify", proc[p].ask, proc[p].seen, proc[p].status, proc[p].again, proc[p].made)
    BY <1>24, GoesOn DEF ProposeRenames, Goes
  <2> QED  BY <1>1, <2>1 DEF Becomes, Drafting
<1>25. CASE ProposeReconcilesExisting(p)
  <2>1. PICK new : Moves(p, "verify", new)  BY <1>25 DEF ProposeReconcilesExisting
  <2> QED  BY <1>9, <2>1 DEF Drafting
<1>26. CASE ProposeVerifies(p)  BY <1>7, <1>26 DEF ProposeVerifies, Concluded, Answers, Refuses
<1> QED
  BY <1>10, <1>11, <1>12, <1>13, <1>14, <1>15, <1>16, <1>17, <1>18, <1>19, <1>20, <1>21, <1>22,
     <1>23, <1>24, <1>25, <1>26 DEF Proposing

----------------------------------------
(* What propose-successor publishes is true *)

\* No step of propose-successor.
Aside == \A p \in Procs : proc'[p] = proc[p] \/ Kind(p)' # "propose"

\* What a command sees lasts while others act.
LEMMA BystanderSees ==
  ASSUME DiskSound, DiskSound', Stamped, Remembered, SightInv,
         NEW p \in Procs, proc'[p] = proc[p], p \in Drafters'
  PROVE  Sees(p)'
<1>1. Kind(p)' = "propose" /\ proc'[p].pc \in Drafting /\ p \notin rewound'  BY DEF Drafters
<1>2. p \notin rewound /\ \A d \in Documents : ~(stamps'[d] < stamps[d])  BY <1>1 DEF Remembered
<1>3. Kind(p) = "propose" /\ proc[p].pc \in Drafting  BY <1>1 DEF Kind
<1>4. Sees(p)  BY <1>2, <1>3 DEF SightInv, Drafters
<1> PICK pc, ask, seen, again, made, mine :
         /\ pc = proc[p].pc /\ ask = proc[p].ask /\ seen = proc[p].seen /\ again = proc[p].again
         /\ made = proc[p].made /\ mine = moments[p]  OBVIOUS
<1>5. View(pc, ask, seen, again, made, mine)  BY <1>4 DEF Sees
<1>6. /\ proc'[p].pc = pc /\ proc'[p].ask = ask /\ proc'[p].seen = seen /\ proc'[p].again = again
      /\ proc'[p].made = made /\ ask.kind = "propose" /\ pc \in Drafting  BY <1>3 DEF Kind
<1> QED  BY <1>2, <1>5, <1>6, SeesAfter

\* A command reads HEAD, or dies.
LEMMA StatusesSee ==
  ASSUME ProcsShaped, DiskSound, SightInv, NEW p \in Procs, Statuses(p), Remembered, p \in Drafters'
  PROVE  Sees(p)'
<1>1. Kind(p)' = "propose" /\ proc'[p].pc \in Drafting /\ p \notin rewound'  BY DEF Drafters
<1>2. p \notin rewound  BY <1>1 DEF Remembered
<1>3. CASE ReadsHead(p)
  <2>1. Becomes(p, "status", proc[p].ask, HeadAnswer, proc[p].status, proc[p].again, proc[p].made)
    BY <1>3, GoesOn DEF ReadsHead
  <2> QED  BY <1>1, <2>1 DEF Becomes, Drafting
<1>4. CASE ReadsHeadAgain(p)
  <2> PICK ask, seen, status, again, made, mine :
           /\ ask = proc[p].ask /\ seen = proc[p].seen /\ status = proc[p].status /\ again = HeadAnswer
           /\ made = proc[p].made /\ mine = moments[p]  OBVIOUS
  <2>1. Becomes(p, "statusAgain", ask, seen, status, again, made)
    BY <1>4, GoesOn DEF ReadsHeadAgain
  <2>2. Kind(p) = "propose" /\ ask.kind = "propose"  BY <1>1, <2>1 DEF Becomes, Kind
  <2>3. proc[p].pc = "headAgain" /\ p \in Drafters
    BY <1>2, <1>4, <2>2 DEF ReadsHeadAgain, Drafters, Drafting
  <2>4. NowKept /\ Sees(p)  BY <2>3 DEF SightInv
  <2>5. View("statusAgain", ask, seen, again, made, mine)  BY <2>2, <2>3, <2>4, HeadIsReadAgain
  <2>6. UNCHANGED git /\ "statusAgain" \in Drafting  BY DEF Statuses, Drafting
  <2> QED  BY <2>1, <2>2, <2>5, <2>6, SeesOn
<1>5. CASE Dies(p)
  <2>1. proc' = [proc EXCEPT ![p] = Idle]  BY <1>5 DEF Dies, Refuses
  <2> QED  BY <1>1, <2>1, Ends
<1> QED  BY <1>3, <1>4, <1>5 DEF Statuses

\* The moment at which a step ends is remembered, when it still matters.
LEMMA NowIsKept ==
  ASSUME Remembered
  PROVE  NowKept'
<1> SUFFICES ASSUME NEW p \in Procs, Kind(p)' \in Readers, StillMatters(p, Now)' PROVE Now' \in moments'[p]
  BY DEF NowKept
<1>1. PICK now : now = Now'  OBVIOUS
<1>2. StillMatters(p, now)'  BY <1>1 DEF StillMatters, Now
<1>3. moments'[p] = {m \in moments[p] \cup {Now'} : StillMatters(p, m)'}  BY DEF Remembered
<1> QED  BY <1>1, <1>2, <1>3

\* Every step keeps what the commands see.
LEMMA SightStays ==
  ASSUME WorkspaceInv, DiskInv, PassInv, SightInv, [Next]_vars
  PROVE  SightInv'
<1>1. ProcsShaped /\ DiskSound  BY DEF WorkspaceInv, DiskInv
<1>2. DiskSound' /\ Stamped  BY DiskInvStays DEF DiskInv
<1>3. ASSUME Remembered, Aside PROVE SightInv'
  <2> SUFFICES ASSUME NEW p \in Procs, p \in Drafters' PROVE Sees(p)'
    BY <1>3, NowIsKept DEF SightInv, Drafters
  <2>1. proc'[p] = proc[p]  BY <1>3 DEF Aside, Drafters
  <2> QED  BY <1>1, <1>2, <1>3, <2>1, BystanderSees
<1>4. ASSUME NEW p \in Procs, NEW kind, kind # "propose", Works(p, kind) PROVE Aside
  BY <1>4 DEF Works, Aside
<1>5. ASSUME NEW p \in Procs, Remembered, \A q \in Procs : q # p => proc'[q] = proc[q],
             p \in Drafters' => Sees(p)'
      PROVE  SightInv'
  <2> SUFFICES ASSUME NEW q \in Procs, q \in Drafters' PROVE Sees(q)'
    BY <1>5, NowIsKept DEF SightInv, Drafters
  <2>1. CASE q = p  BY <1>5, <2>1
  <2>2. CASE q # p  BY <1>1, <1>2, <1>5, <2>2, BystanderSees
  <2> QED  BY <2>1, <2>2
<1>6. CASE Steps /\ Remembered
  <2>1. CASE People /\ UNCHANGED <<proc, told, files>>  BY <1>3, <1>6, <2>1 DEF Aside
  <2>2. ASSUME NEW p \in Procs, Statuses(p) PROVE SightInv'
    <3>1. \A q \in Procs : q # p => proc'[q] = proc[q]
      BY <1>1, <2>2 DEF Statuses, ReadsHead, ReadsHeadAgain, Dies, Refuses, ProcsShaped
    <3> QED  BY <1>1, <1>5, <1>6, <2>2, <3>1, StatusesSee
  <2>3. ASSUME NEW p \in Procs,
               \/ Prompting(p) \/ Running(p) \/ Recording(p) \/ Committing(p) \/ Pushing(p) \/ Applying(p)
               \/ Gating(p)
        PROVE  SightInv'
    <3>1. \E kind : kind # "propose" /\ Works(p, kind)
      BY <1>1, <2>3, PromptingWorks, RunningWorks, RecordingWorks, CommittingWorks, PushingWorks,
         ApplyingWorks, GatingWorks
    <3> QED  BY <1>3, <1>4, <1>6, <3>1
  <2> QED  BY <1>6, <2>1, <2>2, <2>3 DEF Steps
<1>7. ASSUME NEW p \in Procs, Proposing(p), Remembered PROVE SightInv'
  <2>1. Works(p, "propose")  BY <1>1, <1>7, ProposingWorks
  <2>2. UNCHANGED git  BY <1>7, ProposingRests
  <2>3. ProposeKnows(p) /\ (p \in Drafters => Sees(p))  BY DEF PassInv, PassKnows, SightInv
  <2> QED  BY <1>1, <1>5, <1>7, <2>1, <2>2, <2>3, ProposingSees DEF Works
<1>8. CASE Serving /\ Remembered
  <2>1. CASE ServerStarts  BY <1>3, <1>8, <2>1 DEF ServerStarts, Aside
  <2>2. CASE ServerStops
    <3>1. \A p \in Procs : proc'[p] = proc[p] \/ proc'[p] = Idle  BY <2>2 DEF ServerStops
    <3>2. Aside  BY <3>1 DEF Aside, Kind, Idle, Nothing
    <3> QED  BY <1>3, <1>8, <3>2
  <2>3. ASSUME NEW p \in Procs, Posting(p) \/ Generating(p) PROVE SightInv'
    <3>1. \E kind : kind # "propose" /\ Works(p, kind)  BY <1>1, <2>3, PostingWorks, GeneratingWorks
    <3> QED  BY <1>3, <1>4, <1>8, <3>1
  <2> QED  BY <1>8, <2>1, <2>2, <2>3 DEF Serving
<1>9. CASE UNCHANGED vars
  <2>1. UNCHANGED <<commits, head, tracking, tree, index, stamps, proc, moments, rewound>>
    BY <1>9 DEF vars, git, disk, cmds, proposals
  <2>2. Now' = Now  BY <2>1 DEF Now, Porcelain, Modified, StagedNames, IsClean, DiffNames
  <2>3. NowKept'  BY <2>1, <2>2 DEF SightInv, NowKept, StillMatters, Kind
  <2>4. Drafters' = Drafters  BY <2>1 DEF Drafters, Kind
  <2>5. \A p \in Drafters' : Sees(p)'
    BY <2>1, <2>4 DEF SightInv, Sees, View, CapturesHold, Touched, Latest
  <2> QED  BY <2>3, <2>5 DEF SightInv
<1> QED  BY <1>6, <1>7, <1>8, <1>9 DEF Next

LEMMA SightStarts ==
  ASSUME Init
  PROVE  SightInv
<1>1. \A p \in Procs : Kind(p) = "nothing"  BY DEF Init, Kind, Idle, Nothing
<1> QED  BY <1>1 DEF SightInv, NowKept, Readers, Drafters

\* What propose-successor holds at each of its points, and what approve holds of
\* the copies it may put back, always hold.
THEOREM ProposalsSound == Spec => [](DiskInv /\ SightInv)
<1>1. Init => DiskInv /\ SightInv  BY DiskInvStarts, SightStarts
<1>2. WorkspaceInv /\ PassInv /\ DiskInv /\ SightInv /\ [Next]_vars => DiskInv' /\ SightInv'
  BY DiskInvStays, SightStays
<1> QED  BY <1>1, <1>2, WorkspaceSound, PassesSound, PTL DEF Spec

\* What propose-successor is about to publish was so at one moment while it ran,
\* however many people and gates write the documents meanwhile - as long as the
\* time of no document goes back.
THEOREM ProposalsAlwaysTrue == Spec => []ProposalsAreTrue
<1>1. ASSUME SightInv PROVE ProposalsAreTrue
  <2> SUFFICES ASSUME NEW p \in Procs \ rewound, At(p, "propose", "publish"),
                      Payload(p).result \notin {Refusal("INPUT_DRIFT"), Refusal("DIRTY_BASELINE")}
               PROVE  \E m \in moments[p] :
                        /\ m.head = Payload(p).identity.head.head
                        /\ m.docs = Payload(p).evidence
                        /\ PredecessorConfirmed(m.docs, Payload(p).predecessor)
                        /\ Payload(p).result = Conclusion(m.docs)  BY DEF ProposalsAreTrue
  <2> DEFINE made == proc[p].made
             ask == proc[p].ask
             seen == proc[p].seen
             mine == moments[p]
  <2>1. Sees(p)  BY <1>1 DEF SightInv, Drafters, Drafting, At
  <2>2. AtPublish(ask, made, Met(seen, made, mine))  BY <2>1 DEF Sees, View, Holds, At
  <2>3. /\ Payload(p).result = made.result /\ Payload(p).evidence = Cited(made)
        /\ Payload(p).identity.head.head = seen.head /\ Payload(p).predecessor = ask.predecessor
    BY DEF Payload, Cited
  <2> HIDE DEF made, ask, seen, mine
  <2>4. made.result = Conclusion(Cited(made)) /\ Met(seen, made, mine)  BY <2>2, <2>3 DEF AtPublish
  <2>5. PredecessorConfirmed(Cited(made), ask.predecessor)  BY <2>2 DEF AtPublish, Confirms
  <2>6. PICK m \in mine : m.head = seen.head /\ m.docs = Cited(made)  BY <2>4 DEF Met
  <2> QED  BY <2>3, <2>4, <2>5, <2>6 DEF mine
<1> QED  BY <1>1, ProposalsSound, PTL

----------------------------------------
(* What the dashboard's store and its mirror know of each other *)

Divergent == "reconciliation_divergence"

\* Posts count down, and a post that finds a commit missing says so last.
Before(e, f) == f.id < e.id \/ (f.id = e.id /\ e.kind # Divergent /\ f.kind = Divergent)

IsWhole(line) == line.state # "fragment"

\* Every line is of a post that began, and what can be read is in order.
MirrorSound ==
  /\ Numbered(mirror)
  /\ \A n \in 1..Len(mirror) :
       /\ mirror[n] = [event |-> mirror[n].event, state |-> mirror[n].state]
       /\ mirror[n].event.id \in Nat /\ left["post"] < mirror[n].event.id
  /\ \A m, n \in 1..Len(mirror) :
       (m < n /\ IsWhole(mirror[m]) /\ IsWhole(mirror[n])) => Before(mirror[m].event, mirror[n].event)

\* So are the committed events, all of which can be read in the mirror.
AuditSound ==
  /\ Numbered(audit)
  /\ \A n \in 1..Len(audit) :
       /\ audit[n].id \in Nat /\ left["post"] < audit[n].id
       /\ audit[n] \in Seen
  /\ \A m, n \in 1..Len(audit) : m < n => Before(audit[m], audit[n])

\* The rows that were posted; the others are findings that go with them.
Posted == {r \in rows : r.body.token # "none"}

RowsSound ==
  /\ Expected = UNION {Range(NewEvents(r)) : r \in Posted}
  /\ rows = UNION {NewRows(r) : r \in Posted}
  /\ \A r, s \in Posted : (r.table = s.table /\ r.body.token = s.body.token) => r = s

\* A post that appends: its row is no row yet, its events are in the mirror or
\* still to come, in order and after all others.
Appending(ask, made) ==
  /\ made = [row |-> made.row, rows |-> NewRows(made.row), events |-> NewEvents(made.row), todo |-> made.todo]
  /\ made.row = [table |-> ask.body.table, id |-> ask.id, about |-> ask.about, body |-> ask.body,
                 resolved |-> made.row.resolved]
  /\ Existing(ask) = {}
  /\ Numbered(made.todo)
  /\ Range(made.todo) \subseteq Range(made.events)
  /\ Range(made.events) \ Range(made.todo) \subseteq Seen
  /\ \A m, n \in 1..Len(made.todo) : m < n => Before(made.todo[m], made.todo[n])
  /\ \A m \in 1..Len(mirror), n \in 1..Len(made.todo) :
       IsWhole(mirror[m]) => Before(mirror[m].event, made.todo[n])

\* What a post will answer.
InStore(row, ask) == row \in rows /\ row.body = ask.body /\ row.about = ask.about

PostKnows(p) ==
  Kind(p) = "post" =>
    LET ask == proc[p].ask
        made == proc[p].made
    IN  /\ proc[p].pc \in {"look", "append", "answer"}
        /\ ask.body \in Posts /\ ask.id \in Nat /\ left["post"] < ask.id
        /\ proc[p].pc = "look" => \A n \in 1..Len(mirror) : ask.id < mirror[n].event.id
        /\ proc[p].pc \in {"look", "append"} => \A n \in 1..Len(audit) : ask.id < audit[n].id
        /\ proc[p].pc = "append" => Appending(ask, made)
        /\ proc[p].pc = "answer" => InStore(made.row, ask)

\* The server works on one request at a time.
OneRequest == \A p, q \in Procs : (Kind(p) \in Requests /\ Kind(q) \in Requests) => p = q

StoreInv ==
  /\ left \in [Limited -> Nat]
  /\ OneRequest
  /\ MirrorSound /\ AuditSound /\ RowsSound
  /\ \A p \in Procs : PostKnows(p)
  /\ \A t \in told : t.ask.kind = "post" => InStore(t.made.row, t.ask)

----------------------------------------
(* Sequences of events *)

\* What is left of a sequence without its first element.
LEMMA NumberedTail ==
  ASSUME NEW s, Numbered(s), s # <<>>
  PROVE  /\ Numbered(Tail(s)) /\ Len(s) \in Nat \ {0} /\ Len(Tail(s)) = Len(s) - 1
         /\ \A n \in 1..Len(Tail(s)) : Tail(s)[n] = s[n + 1]
<1> DEFINE S == {s[n] : n \in 1..Len(s)}
<1>1. s \in Seq(S) /\ DOMAIN s = 1..Len(s)  BY NumberedIsSeq
<1>2. Tail(s) \in Seq(S) /\ Len(Tail(s)) = Len(s) - 1 /\ \A n \in 1..Len(Tail(s)) : Tail(s)[n] = s[n + 1]
  <2> HIDE DEF S
  <2> QED  BY <1>1, HeadTailProperties
<1>3. Numbered(Tail(s))
  <2> HIDE DEF S
  <2> QED  BY <1>2, LenProperties DEF Numbered
<1>4. Len(s) \in Nat \ {0}  BY NothingNumbered DEF Numbered
<1> QED  BY <1>2, <1>3, <1>4

\* Two sequences, one after the other.
LEMMA NumberedConcat ==
  ASSUME NEW s, Numbered(s), NEW t, Numbered(t)
  PROVE  /\ Numbered(s \o t) /\ Len(s \o t) = Len(s) + Len(t)
         /\ \A n \in 1..Len(s) : (s \o t)[n] = s[n]
         /\ \A n \in 1..Len(t) : (s \o t)[Len(s) + n] = t[n]
<1> DEFINE S == {s[n] : n \in 1..Len(s)} \cup {t[n] : n \in 1..Len(t)}
<1>1. s \in Seq(S) /\ t \in Seq(S)
  <2>1. s \in [1..Len(s) -> S] /\ t \in [1..Len(t) -> S] /\ Len(s) \in Nat /\ Len(t) \in Nat
    BY DEF Numbered
  <2> QED  BY <2>1, SeqDef
<1>2. s \o t \in Seq(S) /\ Len(s \o t) = Len(s) + Len(t)
      /\ \A n \in 1..Len(s) + Len(t) : (s \o t)[n] = IF n <= Len(s) THEN s[n] ELSE t[n - Len(s)]
  <2> HIDE DEF S
  <2> QED  BY <1>1, ConcatProperties
<1>3. Numbered(s \o t)
  <2> HIDE DEF S
  <2> QED  BY <1>2, LenProperties DEF Numbered
<1>4. Len(s) \in Nat /\ Len(t) \in Nat  BY DEF Numbered
<1> QED
  <2> HIDE DEF S
  <2> QED  BY <1>2, <1>3, <1>4

\* What a sequence holds.
LEMMA RangeNumbered ==
  ASSUME NEW s, Numbered(s)
  PROVE  DOMAIN s = 1..Len(s) /\ Range(s) = {s[n] : n \in 1..Len(s)}
BY DEF Numbered, Range

\* The order of events is one.
LEMMA BeforeIsStrict ==
  ASSUME NEW e, NEW f, e.id \in Nat, f.id \in Nat, Before(e, f)
  PROVE  e # f /\ ~Before(f, e)
BY DEF Before, Divergent

\* The events of a row: one, or two in order.
LEMMA EventsOfRow ==
  ASSUME NEW row, row.table \in {"stage_runs", "approvals", "findings", "user_notes"}
  PROVE  LET events == NewEvents(row)
         IN  /\ Numbered(events)
             /\ \A n \in 1..Len(events) : events[n].id = row.id
             /\ \A m, n \in 1..Len(events) : m < n => Before(events[m], events[n])
<1> DEFINE first == [kind |-> Created[row.table], id |-> row.id]
           last == [kind |-> Divergent, id |-> row.id]
           events == NewEvents(row)
<1>1. Created[row.table] # Divergent  BY DEF Created, Divergent
<1>2. first.id = row.id /\ last.id = row.id /\ Before(first, last)  BY <1>1 DEF Before
<1>3. events = <<first>> \/ events = <<first, last>>  BY DEF NewEvents, Divergent
<1> HIDE DEF first, last, events
<1>4. CASE events = <<first>>
  <2>1. Len(events) = 1 /\ events[1] = first /\ events = [n \in 1..1 |-> events[n]]  BY <1>4
  <2> QED  BY <1>2, <2>1 DEF Numbered, events
<1>5. CASE events = <<first, last>>
  <2>1. Len(events) = 2 /\ events[1] = first /\ events[2] = last /\ events = [n \in 1..2 |-> events[n]]
    BY <1>5
  <2> QED  BY <1>2, <2>1 DEF Numbered, events
<1> QED  BY <1>3, <1>4, <1>5

----------------------------------------
(* The limits of the day *)

\* What is left is left, or one kind of command or of person has one fewer.
Ticks == left' = left \/ \E kind : Spend(kind)

\* The posts that are left only become fewer.
LEMMA TicksDown ==
  ASSUME left \in [Limited -> Nat], Ticks
  PROVE  left' \in [Limited -> Nat] /\ left'["post"] <= left["post"]
<1>1. "post" \in Limited  BY DEF Limited
<1>2. ASSUME NEW kind, Spend(kind)
      PROVE  left' \in [Limited -> Nat] /\ left'["post"] <= left["post"]
  <2>1. left' = [left EXCEPT ![kind] = left[kind] - 1] /\ left[kind] > 0  BY <1>2 DEF Spend
  <2>2. left' = [x \in Limited |-> IF x = kind THEN left[x] - 1 ELSE left[x]]  BY <2>1
  <2>3. \A x \in Limited : left'[x] = IF x = kind THEN left[x] - 1 ELSE left[x]  BY <2>2
  <2>4. \A x \in Limited : left[x] \in Nat /\ (x = kind => left[x] > 0)  BY <2>1
  <2>5. \A x \in Limited : left'[x] \in Nat /\ left'[x] <= left[x]  BY <2>3, <2>4
  <2> QED  BY <1>1, <2>2, <2>5
<1> QED  BY <1>1, <1>2 DEF Ticks

\* The ways in which a command goes on.
LEMMA WorkTicks ==
  ASSUME NEW p
  PROVE  /\ \A ask, pc : Begin(p, ask, pc) => Ticks
         /\ \A pc : Goes(p, pc) => Ticks
         /\ \A report : Answers(p, report) => Ticks
         /\ Refuses(p) => Ticks
         /\ UNCHANGED left => Ticks
<1>1. \A ask, pc : Begin(p, ask, pc) => Spend(ask.kind)  BY DEF Begin
<1> QED  BY <1>1 DEF Goes, Answers, Refuses, Ticks

LEMMA PromptingTicks == ASSUME NEW p, Prompting(p) PROVE Ticks
BY WorkTicks DEF Prompting, StartsPrompt, PromptReadsStatus, PromptReadsStatusAgain,
   PromptLinksMetadata, PromptLinksMarkdown

LEMMA RunningTicks == ASSUME NEW p, Running(p) PROVE Ticks
BY WorkTicks DEF Running, StartsRun, RunReadsStatus, RunResolvesEngine, AgentEnds,
   RunReadsStatusAgain, RunLinksRecord, RunLinksPatch

LEMMA RecordingTicks == ASSUME NEW p, Recording(p) PROVE Ticks
BY WorkTicks DEF Recording, StartsRecord, RecordReadsHead, AppendsEvent, RecordAnswers

LEMMA CommittingTicks == ASSUME NEW p, Committing(p) PROVE Ticks
BY WorkTicks DEF Committing, StartsCommit, CommitReadsStatus, CommitStages, CommitChecksStaged,
   CommitUnstages, CommitCommits, CommitVerifies

LEMMA PushingTicks == ASSUME NEW p, Pushing(p) PROVE Ticks
BY WorkTicks DEF Pushing, StartsPush, PushReadsStatus, PushCounts, PushPushes

LEMMA ApplyingTicks == ASSUME NEW p, Applying(p) PROVE Ticks
BY WorkTicks DEF Applying, StartsApply, ApplyReadsHead, ApplyReadsStatus, ApplyChecks, ApplyApplies, ApplyAnswers

LEMMA GatingTicks == ASSUME NEW p, Gating(p) PROVE Ticks
BY WorkTicks DEF Gating, StartsAuthorize, AuthorizeReadsHead, AuthorizeReads, Remembers,
   AuthorizeValidates, StartsApprove, ApproveReads, ApproveCopies, GateWrites, Fails, GateValidates,
   GateReadsChanged, GateStages, AuthorizeCountsStaged, GateCommits, GateVerifies, GateRestores

LEMMA ProposingTicks == ASSUME NEW p, Proposing(p) PROVE Ticks
BY WorkTicks DEF Proposing, StartsPropose, ProposeReadsStatus, ProposeCaptures, ProposeReadsEvidence,
   ProposeResolves, ProposeChecks, ProposeReconciles, ProposeReadsCatalog, ProposeReadsStatusAgain,
   ProposeCapturesAgain, ProposeCompares, ProposeEndsDry, ProposeLooks, ProposeLooksAgain, ProposeRenames,
   ProposeReconcilesExisting, ProposeVerifies, Moves, Proceeds, Drops, Concluded

LEMMA PostingTicks == ASSUME NEW p, Posting(p) PROVE Ticks
BY WorkTicks DEF Posting, StartsPost, PostCreates, PostReplays, PostRefuses, PostAppends, PostTears,
   PostFails, PostCommits, PostAnswers

LEMMA GeneratingTicks == ASSUME NEW p, Generating(p) PROVE Ticks
BY WorkTicks DEF Generating, StartsGenerate, GenerateLooks, GenerateReads, GenerateSummarizes, GenerateStores

\* So every step.
LEMMA StepTicks ==
  ASSUME [Next]_vars
  PROVE  Ticks
<1>1. CASE Steps
  <2>1. CASE People  BY <2>1 DEF People, Ticks
  <2>2. ASSUME NEW p \in Procs, Statuses(p) PROVE Ticks
    BY <2>2 DEF Statuses, ReadsHead, ReadsHeadAgain, Dies, Refuses, Ticks
  <2> QED  BY <1>1, <2>1, <2>2, PromptingTicks, RunningTicks, RecordingTicks, CommittingTicks,
     PushingTicks, ApplyingTicks, GatingTicks DEF Steps
<1>2. CASE Serving
  BY <1>2, PostingTicks, GeneratingTicks DEF Serving, ServerStarts, ServerStops, Ticks
<1>3. CASE UNCHANGED vars  BY <1>3 DEF vars, cmds, Ticks
<1> QED  BY <1>1, <1>2, <1>3, ProposingTicks DEF Next

----------------------------------------
(* The mirror grows by a line *)

\* A line that ends keeps its event, and is whole as it was.
LEMMA DelimitedLines ==
  ASSUME Numbered(mirror), \A n \in 1..Len(mirror) : mirror[n] = [event |-> mirror[n].event, state |-> mirror[n].state]
  PROVE  /\ Numbered(Delimited(mirror)) /\ Len(Delimited(mirror)) = Len(mirror)
         /\ \A n \in 1..Len(mirror) :
              LET line == Delimited(mirror)[n]
              IN  /\ line = [event |-> line.event, state |-> line.state]
                  /\ line.event = mirror[n].event
                  /\ IsWhole(line) <=> IsWhole(mirror[n])
<1> DEFINE d == Delimited(mirror)
<1>1. DOMAIN mirror = 1..Len(mirror) /\ Len(mirror) \in Nat  BY DEF Numbered
<1>2. d = [n \in 1..Len(mirror) |->
             IF mirror[n].state = "unended" THEN [mirror[n] EXCEPT !.state = "whole"] ELSE mirror[n]]
  BY <1>1 DEF Delimited
<1>3. d = [n \in 1..Len(mirror) |-> d[n]]
  <2> HIDE DEF d
  <2> QED  BY <1>2
<1>4. Numbered(d) /\ Len(d) = Len(mirror)
  <2> HIDE DEF d
  <2> QED  BY <1>1, <1>3, SeqIsNumbered
<1>5. ASSUME NEW n \in 1..Len(mirror)
      PROVE  /\ d[n] = [event |-> d[n].event, state |-> d[n].state]
             /\ d[n].event = mirror[n].event
             /\ IsWhole(d[n]) <=> IsWhole(mirror[n])
  <2>1. d[n] = IF mirror[n].state = "unended" THEN [mirror[n] EXCEPT !.state = "whole"] ELSE mirror[n]
    <3> HIDE DEF d
    <3> QED  BY <1>2
  <2>2. PICK e, s : mirror[n] = [event |-> e, state |-> s]  OBVIOUS
  <2>3. mirror[n].event = e /\ mirror[n].state = s  BY <2>2
  <2>4. d[n] = [event |-> e, state |-> IF s = "unended" THEN "whole" ELSE s]
    <3> HIDE DEF d
    <3> QED  BY <2>1, <2>2, <2>3
  <2> HIDE DEF d
  <2> QED  BY <2>3, <2>4 DEF IsWhole
<1> QED  BY <1>4, <1>5

\* The mirror with one more line, of an event that comes after what it has.
LEMMA MirrorGrows ==
  ASSUME MirrorSound, UNCHANGED left, NEW event, NEW state, MirrorAppends(event, state),
         event.id \in Nat, left["post"] < event.id,
         \A m \in 1..Len(mirror) : IsWhole(mirror[m]) => Before(mirror[m].event, event)
  PROVE  /\ MirrorSound'
         /\ Seen \subseteq Seen' /\ (state # "fragment" => event \in Seen')
         /\ \A m \in 1..Len(mirror') :
              IsWhole(mirror'[m]) => mirror'[m].event = event \/ \E n \in 1..Len(mirror) :
                                       IsWhole(mirror[n]) /\ mirror[n].event = mirror'[m].event
<1> DEFINE d == Delimited(mirror)
           new == [event |-> event, state |-> state]
           l == Len(mirror)
           m2 == Append(d, new)
<1>1. Numbered(mirror) /\ \A n \in 1..l : mirror[n] = [event |-> mirror[n].event, state |-> mirror[n].state]
  BY DEF MirrorSound
<1>2. /\ Numbered(d) /\ Len(d) = l /\ l \in Nat
      /\ \A n \in 1..l : /\ d[n] = [event |-> d[n].event, state |-> d[n].state]
                         /\ d[n].event = mirror[n].event
                         /\ IsWhole(d[n]) <=> IsWhole(mirror[n])
  BY <1>1, DelimitedLines DEF Numbered
<1>3. new = [event |-> new.event, state |-> new.state] /\ new.event = event /\ new.state = state
  OBVIOUS
<1>4. mirror' = m2  BY DEF MirrorAppends
<1> HIDE DEF d, new
<1>5. Numbered(m2) /\ Len(m2) = l + 1 /\ m2[l + 1] = new /\ \A n \in 1..l : m2[n] = d[n]
  BY <1>2, NumberedAppend
<1> HIDE DEF m2
<1>6. \A n \in 1..Len(m2) : n = l + 1 \/ n \in 1..l  BY <1>2, <1>5
<1>7. \A n \in 1..l : mirror[n].event.id \in Nat /\ left["post"] < mirror[n].event.id
  BY DEF MirrorSound
<1>8. \A n \in 1..Len(m2) : /\ m2[n] = [event |-> m2[n].event, state |-> m2[n].state]
                            /\ m2[n].event.id \in Nat /\ left["post"] < m2[n].event.id
  <2> SUFFICES ASSUME NEW n \in 1..Len(m2)
               PROVE  /\ m2[n] = [event |-> m2[n].event, state |-> m2[n].state]
                      /\ m2[n].event.id \in Nat /\ left["post"] < m2[n].event.id  OBVIOUS
  <2>1. CASE n = l + 1  BY <1>3, <1>5, <2>1
  <2>2. CASE n \in 1..l  BY <1>2, <1>5, <1>7, <2>2
  <2> QED  BY <1>6, <2>1, <2>2
<1>9. ASSUME NEW m \in 1..Len(m2), NEW n \in 1..Len(m2), m < n, IsWhole(m2[m]), IsWhole(m2[n])
      PROVE  Before(m2[m].event, m2[n].event)
  <2>1. m \in 1..l  BY <1>2, <1>5, <1>6, <1>9
  <2>2. m2[m] = d[m] /\ IsWhole(mirror[m]) /\ m2[m].event = mirror[m].event
    BY <1>2, <1>5, <1>9, <2>1
  <2>3. CASE n = l + 1  BY <1>3, <1>5, <2>1, <2>2, <2>3
  <2>4. CASE n \in 1..l
    <3>1. IsWhole(mirror[n]) /\ m2[n].event = mirror[n].event  BY <1>2, <1>5, <1>9, <2>4
    <3> QED  BY <1>9, <2>1, <2>2, <2>4, <3>1 DEF MirrorSound
  <2> QED  BY <1>6, <2>3, <2>4
<1>10. MirrorSound'
  <2>1. \A m, n \in 1..Len(m2) : (m < n /\ IsWhole(m2[m]) /\ IsWhole(m2[n])) => Before(m2[m].event, m2[n].event)
    BY <1>9
  <2> QED  BY <1>4, <1>5, <1>8, <2>1 DEF MirrorSound, IsWhole
<1>11. DOMAIN mirror = 1..l /\ DOMAIN m2 = 1..Len(m2)  BY <1>1, <1>5 DEF Numbered
<1>12. Seen \subseteq Seen'
  <2> SUFFICES ASSUME NEW n \in 1..l, IsWhole(mirror[n]) PROVE mirror[n].event \in Seen'
    BY <1>11 DEF Seen, IsWhole
  <2>1. m2[n] = d[n] /\ d[n].event = mirror[n].event /\ IsWhole(d[n])  BY <1>2, <1>5
  <2>2. n \in 1..Len(m2)  BY <1>2, <1>5
  <2> QED  BY <1>4, <1>11, <2>1, <2>2 DEF Seen, IsWhole
<1>13. state # "fragment" => event \in Seen'
  <2> SUFFICES ASSUME state # "fragment" PROVE event \in Seen'  OBVIOUS
  <2>1. l + 1 \in 1..Len(m2) /\ m2[l + 1].event = event /\ m2[l + 1].state # "fragment"
    BY <1>2, <1>3, <1>5
  <2> QED  BY <1>4, <1>11, <2>1 DEF Seen
<1>14. \A m \in 1..Len(m2) : IsWhole(m2[m]) => m2[m].event = event \/ \E n \in 1..l :
                                                IsWhole(mirror[n]) /\ mirror[n].event = m2[m].event
  BY <1>2, <1>3, <1>5, <1>6
<1> QED  BY <1>4, <1>10, <1>12, <1>13, <1>14

----------------------------------------
(* The steps *)

\* What stays so while the store and the mirror rest.
LEMMA StoreRests ==
  ASSUME StoreInv, UNCHANGED <<rows, audit, mirror>>, Ticks
  PROVE  /\ left' \in [Limited -> Nat]
         /\ MirrorSound' /\ AuditSound' /\ RowsSound'
         /\ \A p \in Procs : proc'[p] = proc[p] => PostKnows(p)'
         /\ \A t \in told : t.ask.kind = "post" => InStore(t.made.row, t.ask)'
<1> DEFINE limit == left["post"]
           limit2 == left'["post"]
<1>1. left' \in [Limited -> Nat] /\ limit2 <= limit /\ limit \in Nat /\ limit2 \in Nat
  <2>1. "post" \in Limited  BY DEF Limited
  <2> QED  BY <2>1, TicksDown DEF StoreInv
<1>2. \A id \in Nat : limit < id => limit2 < id
  <2> HIDE DEF limit, limit2
  <2> QED  BY <1>1
<1>3. MirrorSound'
  <2>1. \A n \in 1..Len(mirror) : mirror[n].event.id \in Nat /\ limit < mirror[n].event.id
    BY DEF StoreInv, MirrorSound
  <2>2. \A n \in 1..Len(mirror) : limit2 < mirror[n].event.id  BY <1>2, <2>1
  <2> QED  BY <2>2 DEF StoreInv, MirrorSound
<1>4. Seen' = Seen  BY DEF Seen
<1>5. AuditSound'
  <2>1. \A n \in 1..Len(audit) : audit[n].id \in Nat /\ limit < audit[n].id
    BY DEF StoreInv, AuditSound
  <2>2. \A n \in 1..Len(audit) : limit2 < audit[n].id  BY <1>2, <2>1
  <2> QED  BY <1>4, <2>2 DEF StoreInv, AuditSound
<1>6. RowsSound'
  <2>1. Posted' = Posted /\ Expected' = Expected /\ RowsSound  BY DEF StoreInv, Posted, Expected
  <2>2. \A r : NewEvents(r)' = NewEvents(r) /\ NewRows(r)' = NewRows(r)
    BY DEF NewEvents, NewRows, Created, Divergence
  <2> QED  BY <2>1, <2>2 DEF RowsSound
<1>7. ASSUME NEW p \in Procs, proc'[p] = proc[p] PROVE PostKnows(p)'
  <2>1. Kind(p)' = Kind(p)  BY <1>7 DEF Kind
  <2> SUFFICES ASSUME Kind(p) = "post" PROVE PostKnows(p)'  BY <2>1 DEF PostKnows
  <2>2. PostKnows(p)  BY DEF StoreInv
  <2>3. limit2 < proc[p].ask.id  BY <1>2, <2>2 DEF PostKnows
  <2>4. \A ask, made : Appending(ask, made)' = Appending(ask, made) /\ \A row : InStore(row, ask)' = InStore(row, ask)
    BY <1>4 DEF Appending, InStore, Existing
  <2> QED  BY <1>7, <2>1, <2>2, <2>3, <2>4 DEF PostKnows
<1>8. \A t \in told : t.ask.kind = "post" => InStore(t.made.row, t.ask)'  BY DEF StoreInv, InStore
<1> QED  BY <1>1, <1>3, <1>5, <1>6, <1>7, <1>8

\* A step that is not of a post.
LEMMA OthersLeaveStore ==
  ASSUME StoreInv, UNCHANGED <<rows, audit, mirror>>, Ticks, OneRequest',
         \A p \in Procs : proc'[p] = proc[p] \/ Kind(p)' # "post",
         \A t \in told' \ told : t.ask.kind # "post"
  PROVE  StoreInv'
<1>1. \A p \in Procs : PostKnows(p)'  BY StoreRests DEF PostKnows
<1>2. \A t \in told' : t.ask.kind = "post" => InStore(t.made.row, t.ask)'  BY StoreRests
<1> QED  BY <1>1, <1>2, StoreRests DEF StoreInv

\* No request begins.
LEMMA NoRequestBegins ==
  ASSUME OneRequest, \A p \in Procs : Kind(p)' \in Requests => Kind(p) \in Requests
  PROVE  OneRequest'
BY DEF OneRequest

\* A request begins when there is none, or goes on.
LEMMA OneRequestGoesOn ==
  ASSUME OneRequest, NEW p \in Procs, \A q \in Procs : q # p => proc'[q] = proc[q],
         Kind(p) \in Requests \/ \A q \in Procs : Kind(q) \notin Requests
  PROVE  OneRequest' /\ \A q \in Procs : q # p => Kind(q)' \notin Requests
<1>1. \A q \in Procs : q # p => Kind(q)' = Kind(q) /\ Kind(q) \notin Requests
  BY DEF OneRequest, Kind
<1> QED  BY <1>1 DEF OneRequest

\* A step of a post.
LEMMA PosterKeepsStore ==
  ASSUME StoreInv, left' \in [Limited -> Nat], MirrorSound', AuditSound', RowsSound', rows \subseteq rows',
         NEW p \in Procs, \A q \in Procs : q # p => proc'[q] = proc[q],
         Kind(p) \in Requests \/ \A q \in Procs : Kind(q) \notin Requests,
         PostKnows(p)', \A t \in told' \ told : InStore(t.made.row, t.ask)'
  PROVE  StoreInv'
<1>1. OneRequest' /\ \A q \in Procs : q # p => Kind(q)' \notin Requests
  BY OneRequestGoesOn DEF StoreInv
<1>2. \A q \in Procs : PostKnows(q)'  BY <1>1 DEF PostKnows, Requests
<1>3. \A t \in told' : t.ask.kind = "post" => InStore(t.made.row, t.ask)'  BY DEF StoreInv, InStore
<1> QED  BY <1>1, <1>2, <1>3 DEF StoreInv

\* A post begins when no request is there, with a number nobody had.
LEMMA StartingPostKeepsStore ==
  ASSUME StoreInv, ProcsShaped, NEW p \in Procs, StartsPost(p)
  PROVE  StoreInv'
<1>1. PICK body \in Posts, about \in {0} \cup {mirror[n].event.id : n \in DOMAIN mirror} :
        /\ TakesRequest
        /\ Begin(p, [kind |-> "post", id |-> left["post"], about |-> about, body |-> body], "look")
        /\ UNCHANGED <<rows, audit, mirror>>  BY DEF StartsPost, dashboard
<1>2. PICK id : id = left["post"]  OBVIOUS
<1> DEFINE ask == [kind |-> "post", id |-> id, about |-> about, body |-> body]
<1>3. Becomes(p, "look", ask, Nothing, Nothing, Nothing, Nothing) /\ UNCHANGED told /\ Spend("post")
  <2>1. Begin(p, ask, "look") /\ ask.kind = "post"  BY <1>1, <1>2
  <2> HIDE DEF ask
  <2> QED  BY <2>1, Begins DEF Begin
<1>4. id \in Nat /\ left'["post"] < id
  <2>1. "post" \in Limited /\ left \in [Limited -> Nat]  BY DEF Limited, StoreInv
  <2>2. left' = [left EXCEPT !["post"] = id - 1]  BY <1>2, <1>3 DEF Spend
  <2>3. left'["post"] = id - 1 /\ id \in Nat  BY <1>2, <2>1, <2>2
  <2> QED  BY <2>3
<1>5. /\ Kind(p)' = "post" /\ proc'[p].pc = "look" /\ proc'[p].ask = ask
      /\ ask.body = body /\ ask.id = id  BY <1>3 DEF Becomes, Kind
<1>6. PostKnows(p)'
  <2>1. \A n \in 1..Len(mirror) : id < mirror[n].event.id  BY <1>2 DEF StoreInv, MirrorSound
  <2>2. \A n \in 1..Len(audit) : id < audit[n].id  BY <1>2 DEF StoreInv, AuditSound
  <2> HIDE DEF ask
  <2> QED  BY <1>1, <1>4, <1>5, <2>1, <2>2 DEF PostKnows
<1>7. \A q \in Procs : q # p => proc'[q] = proc[q]  BY <1>3 DEF Becomes
<1>8. \A q \in Procs : Kind(q) \notin Requests  BY <1>1 DEF TakesRequest
<1>9. Ticks  BY <1>3 DEF Ticks
<1> QED  BY <1>1, <1>3, <1>6, <1>7, <1>8, <1>9, StoreRests, PosterKeepsStore

\* The row and its events are made up.
LEMMA CreatingKeepsStore ==
  ASSUME StoreInv, ProcsShaped, NEW p \in Procs, PostCreates(p)
  PROVE  StoreInv'
<1>1. PICK ask : ask = proc[p].ask  OBVIOUS
<1>2. PICK row : row = NewRow(ask)  OBVIOUS
<1> DEFINE events == NewEvents(row)
           made == [row |-> row, rows |-> NewRows(row), events |-> events, todo |-> events]
<1>3. /\ Kind(p) = "post" /\ proc[p].pc = "look" /\ Existing(ask) = {}
      /\ proc' = [proc EXCEPT ![p].pc = "append", ![p].made = made]
      /\ UNCHANGED <<told, left, rows, audit, mirror>>  BY <1>1, <1>2 DEF PostCreates, At, dashboard
<1>4. row = [table |-> ask.body.table, id |-> ask.id, about |-> ask.about, body |-> ask.body,
             resolved |-> row.resolved]  BY <1>2 DEF NewRow
<1>5. row.table = ask.body.table /\ row.id = ask.id  BY <1>4
<1>6. /\ ask.body \in Posts /\ ask.id \in Nat /\ left["post"] < ask.id
      /\ \A n \in 1..Len(mirror) : ask.id < mirror[n].event.id
      /\ \A n \in 1..Len(audit) : ask.id < audit[n].id  BY <1>1, <1>3 DEF StoreInv, PostKnows
<1>7. /\ Numbered(events)
      /\ \A n \in 1..Len(events) : events[n].id = ask.id
      /\ \A m, n \in 1..Len(events) : m < n => Before(events[m], events[n])
  <2>1. row.table \in {"stage_runs", "approvals", "findings", "user_notes"}
    BY <1>5, <1>6, PostsAssumption
  <2> QED  BY <1>5, <2>1, EventsOfRow
<1>8. made.row = row /\ made.rows = NewRows(row) /\ made.events = events /\ made.todo = events
  OBVIOUS
<1> HIDE DEF events
<1>9. \A m \in 1..Len(mirror), n \in 1..Len(events) : Before(mirror[m].event, events[n])
  BY <1>6, <1>7 DEF Before
<1>10. made = [row |-> made.row, rows |-> NewRows(made.row), events |-> NewEvents(made.row), todo |-> made.todo]
  BY DEF events
<1> HIDE DEF made
<1>11. Appending(ask, made)  BY <1>3, <1>4, <1>7, <1>8, <1>9, <1>10 DEF Appending
<1>12. PICK kept : kept = made  OBVIOUS
<1>13. Appending(ask, kept)'
  <2>1. Appending(ask, kept)  BY <1>11, <1>12
  <2>2. Seen' = Seen /\ Existing(ask)' = Existing(ask)  BY <1>3 DEF Seen, Existing
  <2> QED  BY <1>3, <2>1, <2>2 DEF Appending
<1>14. Becomes(p, "append", ask, proc[p].seen, proc[p].status, proc[p].again, kept)
  BY <1>1, <1>3, <1>12, GoesOn
<1>15. Kind(p)' = "post" /\ proc'[p].pc = "append" /\ proc'[p].ask = ask /\ proc'[p].made = kept
  <2>1. proc'[p].pc = "append" /\ proc'[p].ask = ask /\ proc'[p].made = kept  BY <1>14 DEF Becomes
  <2>2. ask.kind = "post"  BY <1>1, <1>3 DEF Kind
  <2> QED  BY <2>1, <2>2 DEF Kind
<1>16. PostKnows(p)'  BY <1>3, <1>6, <1>13, <1>15 DEF PostKnows
<1>17. \A q \in Procs : q # p => proc'[q] = proc[q]  BY <1>14 DEF Becomes
<1>18. Ticks /\ Kind(p) \in Requests  BY <1>3 DEF Ticks, Requests
<1> QED  BY <1>3, <1>16, <1>17, <1>18, StoreRests, PosterKeepsStore

\* A request that was answered is answered again.
LEMMA ReplayingKeepsStore ==
  ASSUME StoreInv, ProcsShaped, NEW p \in Procs, PostReplays(p)
  PROVE  StoreInv'
<1>1. PICK ask : ask = proc[p].ask  OBVIOUS
<1>2. /\ Kind(p) = "post" /\ proc[p].pc = "look"
      /\ UNCHANGED <<told, left, rows, audit, mirror>>  BY DEF PostReplays, At, dashboard
<1>3. PICK r \in Replays(ask) : proc' = [proc EXCEPT ![p].pc = "answer", ![p].made = [row |-> r]]
  BY <1>1 DEF PostReplays
<1>4. r \in rows /\ r.body = ask.body /\ r.about = ask.about  BY <1>3 DEF Replays, Existing
<1>5. PICK made : made = [row |-> r]  OBVIOUS
<1>6. Becomes(p, "answer", ask, proc[p].seen, proc[p].status, proc[p].again, made)
  BY <1>1, <1>3, <1>5, GoesOn
<1>7. Kind(p)' = "post" /\ proc'[p].pc = "answer" /\ proc'[p].ask = ask /\ proc'[p].made = made
  BY <1>1, <1>2, <1>6 DEF Becomes, Kind
<1>8. ask.body \in Posts /\ ask.id \in Nat /\ left["post"] < ask.id
  BY <1>1, <1>2 DEF StoreInv, PostKnows
<1>9. PostKnows(p)'
  <2>1. made.row = r  BY <1>5
  <2> QED  BY <1>2, <1>4, <1>7, <1>8, <2>1 DEF PostKnows, InStore
<1>10. \A q \in Procs : q # p => proc'[q] = proc[q]  BY <1>6 DEF Becomes
<1>11. Ticks /\ Kind(p) \in Requests  BY <1>2 DEF Ticks, Requests
<1> QED  BY <1>2, <1>9, <1>10, <1>11, StoreRests, PosterKeepsStore

\* A post that is refused, or rolled back.
LEMMA RefusingKeepsStore ==
  ASSUME StoreInv, ProcsShaped, NEW p \in Procs, PostRefuses(p) \/ PostFails(p)
  PROVE  StoreInv'
<1>1. Refuses(p) /\ Kind(p) = "post" /\ UNCHANGED <<rows, audit, mirror>>
  BY DEF PostRefuses, PostFails, At, dashboard
<1>2. Kind(p)' = "nothing" /\ \A q \in Procs : q # p => proc'[q] = proc[q]
  BY <1>1, Ends DEF Refuses, Becomes
<1>3. PostKnows(p)'  BY <1>2 DEF PostKnows
<1>4. Ticks /\ UNCHANGED told /\ Kind(p) \in Requests  BY <1>1 DEF Refuses, Ticks, Requests
<1> QED  BY <1>1, <1>2, <1>3, <1>4, StoreRests, PosterKeepsStore

\* What an append needs, and what a line more leaves.
LEMMA LineKeepsSound ==
  ASSUME StoreInv, NEW p \in Procs, Kind(p) = "post", proc[p].pc = "append", NEW state,
         proc[p].made.todo # <<>>, MirrorAppends(proc[p].made.todo[1], state), UNCHANGED <<left, rows, audit>>
  PROVE  /\ left' \in [Limited -> Nat] /\ MirrorSound' /\ AuditSound' /\ RowsSound'
         /\ Seen \subseteq Seen' /\ (state # "fragment" => proc[p].made.todo[1] \in Seen')
         /\ \A m \in 1..Len(mirror') :
              IsWhole(mirror'[m]) => mirror'[m].event = proc[p].made.todo[1] \/ \E n \in 1..Len(mirror) :
                                       IsWhole(mirror[n]) /\ mirror[n].event = mirror'[m].event
<1>1. PICK ask : ask = proc[p].ask  OBVIOUS
<1>2. PICK made : made = proc[p].made  OBVIOUS
<1>3. PICK event : event = made.todo[1]  OBVIOUS
<1>4. PostKnows(p) /\ Appending(ask, made) /\ ask.id \in Nat /\ left["post"] < ask.id /\ ask.body \in Posts
  BY <1>1, <1>2 DEF StoreInv, PostKnows
<1>5. 1 \in 1..Len(made.todo) /\ event \in Range(made.todo)
  <2>1. Numbered(made.todo) /\ Len(made.todo) \in Nat \ {0}
    BY <1>2, <1>4, NumberedTail DEF Appending
  <2> QED  BY <1>3, <2>1, RangeNumbered
<1>6. event.id = ask.id
  <2>1. event \in Range(NewEvents(made.row)) /\ made.row.table = ask.body.table /\ made.row.id = ask.id
    BY <1>4, <1>5 DEF Appending
  <2>2. made.row.table \in {"stage_runs", "approvals", "findings", "user_notes"}
    BY <1>4, <2>1, PostsAssumption
  <2>3. /\ Numbered(NewEvents(made.row))
        /\ \A n \in 1..Len(NewEvents(made.row)) : NewEvents(made.row)[n].id = made.row.id
    BY <2>2, EventsOfRow
  <2> QED  BY <2>1, <2>3, RangeNumbered
<1>7. \A m \in 1..Len(mirror) : IsWhole(mirror[m]) => Before(mirror[m].event, event)
  BY <1>3, <1>4, <1>5 DEF Appending
<1>8. /\ MirrorSound'
      /\ Seen \subseteq Seen' /\ (state # "fragment" => event \in Seen')
      /\ \A m \in 1..Len(mirror') :
           IsWhole(mirror'[m]) => mirror'[m].event = event \/ \E n \in 1..Len(mirror) :
                                    IsWhole(mirror[n]) /\ mirror[n].event = mirror'[m].event
  <2>1. MirrorAppends(event, state) /\ MirrorSound /\ event.id \in Nat /\ left["post"] < event.id
    BY <1>2, <1>3, <1>4, <1>6 DEF StoreInv
  <2> QED  BY <1>7, <2>1, MirrorGrows
<1>9. AuditSound'  BY <1>8 DEF StoreInv, AuditSound
<1>10. RowsSound'
  <2>1. Posted' = Posted /\ Expected' = Expected /\ RowsSound  BY DEF StoreInv, Posted, Expected
  <2>2. \A r : NewEvents(r)' = NewEvents(r) /\ NewRows(r)' = NewRows(r)
    BY DEF NewEvents, NewRows, Created, Divergence
  <2> QED  BY <2>1, <2>2 DEF RowsSound
<1>11. left' \in [Limited -> Nat]  BY DEF StoreInv
<1> QED  BY <1>2, <1>3, <1>8, <1>9, <1>10, <1>11

\* A line is written.
LEMMA AppendingKeepsStore ==
  ASSUME StoreInv, ProcsShaped, NEW p \in Procs, PostAppends(p)
  PROVE  StoreInv'
<1>1. PICK ask : ask = proc[p].ask  OBVIOUS
<1>2. PICK made : made = proc[p].made  OBVIOUS
<1>3. PICK todo : todo = made.todo  OBVIOUS
<1>4. PICK new : new = [made EXCEPT !.todo = Tail(todo)]  OBVIOUS
<1>5. /\ Kind(p) = "post" /\ proc[p].pc = "append" /\ todo # <<>>
      /\ MirrorAppends(todo[1], "whole")
      /\ UNCHANGED <<told, left, rows, audit>>  BY <1>2, <1>3 DEF PostAppends, At
<1>6. proc' = [proc EXCEPT ![p].made = new]  BY <1>2, <1>3, <1>4 DEF PostAppends, ProcsShaped
<1>7. Becomes(p, "append", ask, proc[p].seen, proc[p].status, proc[p].again, new)
  BY <1>1, <1>5, <1>6, GoesOn
<1>8. /\ left' \in [Limited -> Nat] /\ MirrorSound' /\ AuditSound' /\ RowsSound'
      /\ Seen \subseteq Seen' /\ todo[1] \in Seen'
      /\ \A m \in 1..Len(mirror') :
           IsWhole(mirror'[m]) => mirror'[m].event = todo[1] \/ \E n \in 1..Len(mirror) :
                                    IsWhole(mirror[n]) /\ mirror[n].event = mirror'[m].event
  <2>1. proc[p].made.todo = todo  BY <1>2, <1>3
  <2>2. /\ left' \in [Limited -> Nat] /\ MirrorSound' /\ AuditSound' /\ RowsSound'
        /\ Seen \subseteq Seen' /\ ("whole" # "fragment" => proc[p].made.todo[1] \in Seen')
        /\ \A m \in 1..Len(mirror') :
             IsWhole(mirror'[m]) => mirror'[m].event = proc[p].made.todo[1] \/ \E n \in 1..Len(mirror) :
                                      IsWhole(mirror[n]) /\ mirror[n].event = mirror'[m].event
    BY <1>5, <2>1, LineKeepsSound
  <2> QED  BY ONLY <2>1, <2>2
<1>9. /\ ask.body \in Posts /\ ask.id \in Nat /\ left["post"] < ask.id
      /\ \A n \in 1..Len(audit) : ask.id < audit[n].id
      /\ Appending(ask, made)  BY <1>1, <1>2, <1>5 DEF StoreInv, PostKnows
<1>10. /\ Numbered(Tail(todo)) /\ Len(todo) \in Nat \ {0} /\ Len(Tail(todo)) = Len(todo) - 1
       /\ \A n \in 1..Len(Tail(todo)) : Tail(todo)[n] = todo[n + 1]
       /\ Numbered(todo)  BY <1>3, <1>5, <1>9, NumberedTail DEF Appending
<1>11. /\ new.row = made.row /\ new.todo = Tail(todo) /\ new.events = made.events
       /\ new = [row |-> new.row, rows |-> NewRows(new.row), events |-> NewEvents(new.row), todo |-> new.todo]
  <2>1. PICK row, rest : made = [row |-> row, rows |-> NewRows(row), events |-> NewEvents(row), todo |-> rest]
    BY <1>9, Zenon DEF Appending
  <2>2. new = [row |-> row, rows |-> NewRows(row), events |-> NewEvents(row), todo |-> Tail(todo)]
    BY <1>4, <2>1
  <2> QED  BY <2>1, <2>2
<1>12. \A n \in 1..Len(Tail(todo)) : n + 1 \in 1..Len(todo) /\ 1 < n + 1 /\ 1 \in 1..Len(todo)
  BY <1>10
<1>13. Range(todo) = {todo[1]} \cup Range(Tail(todo))
  <2>1. Range(todo) = {todo[n] : n \in 1..Len(todo)} /\ Range(Tail(todo)) = {Tail(todo)[n] : n \in 1..Len(Tail(todo))}
    BY <1>10, RangeNumbered
  <2>2. \A n \in 1..Len(todo) : n = 1 \/ (n - 1 \in 1..Len(Tail(todo)) /\ Tail(todo)[n - 1] = todo[n])
    BY <1>10
  <2> QED  BY <1>10, <1>12, <2>1, <2>2
<1>14. \A m, n \in 1..Len(Tail(todo)) : m < n => Before(Tail(todo)[m], Tail(todo)[n])
  <2> SUFFICES ASSUME NEW m \in 1..Len(Tail(todo)), NEW n \in 1..Len(Tail(todo)), m < n
               PROVE  Before(todo[m + 1], todo[n + 1])  BY <1>10
  <2> QED  BY <1>3, <1>9, <1>12 DEF Appending
<1>15. \A m \in 1..Len(mirror'), n \in 1..Len(Tail(todo)) :
         IsWhole(mirror'[m]) => Before(mirror'[m].event, Tail(todo)[n])
  <2> SUFFICES ASSUME NEW m \in 1..Len(mirror'), NEW n \in 1..Len(Tail(todo)), IsWhole(mirror'[m])
               PROVE  Before(mirror'[m].event, todo[n + 1])  BY <1>10
  <2>1. CASE mirror'[m].event = todo[1]  BY <1>3, <1>9, <1>12, <2>1 DEF Appending
  <2>2. CASE \E i \in 1..Len(mirror) : IsWhole(mirror[i]) /\ mirror[i].event = mirror'[m].event
    BY <1>3, <1>9, <1>12, <2>2 DEF Appending
  <2> QED  BY <1>8, <2>1, <2>2
<1>16. Appending(ask, new)'
  <2>1. /\ new.row = [table |-> ask.body.table, id |-> ask.id, about |-> ask.about, body |-> ask.body,
                      resolved |-> new.row.resolved]
        /\ Existing(ask)' = {}  BY <1>5, <1>9, <1>11 DEF Appending, Existing
  <2>2. Range(new.todo) \subseteq Range(new.events) /\ Range(new.events) \ Range(new.todo) \subseteq Seen'
    BY <1>3, <1>8, <1>9, <1>11, <1>13 DEF Appending
  <2> QED  BY <1>10, <1>11, <1>14, <1>15, <2>1, <2>2 DEF Appending, IsWhole
<1>17. Kind(p)' = "post" /\ proc'[p].pc = "append" /\ proc'[p].ask = ask /\ proc'[p].made = new
  BY <1>1, <1>5, <1>7 DEF Becomes, Kind
<1>18. PostKnows(p)'  BY <1>5, <1>9, <1>16, <1>17 DEF PostKnows
<1>19. \A q \in Procs : q # p => proc'[q] = proc[q]  BY <1>7 DEF Becomes
<1>20. Kind(p) \in Requests  BY <1>5 DEF Requests
<1> QED  BY <1>5, <1>8, <1>18, <1>19, <1>20, PosterKeepsStore

\* A line is cut short, and the post with it.
LEMMA TearingKeepsStore ==
  ASSUME StoreInv, ProcsShaped, NEW p \in Procs, PostTears(p)
  PROVE  StoreInv'
<1>1. PICK state : MirrorAppends(proc[p].made.todo[1], state)  BY DEF PostTears
<1>2. /\ Kind(p) = "post" /\ proc[p].pc = "append" /\ proc[p].made.todo # <<>>
      /\ Refuses(p) /\ UNCHANGED <<told, left, rows, audit>>  BY DEF PostTears, At, Refuses
<1>3. left' \in [Limited -> Nat] /\ MirrorSound' /\ AuditSound' /\ RowsSound'
  BY <1>1, <1>2, LineKeepsSound
<1>4. Kind(p)' = "nothing" /\ \A q \in Procs : q # p => proc'[q] = proc[q]
  BY <1>2, Ends DEF Refuses, Becomes
<1>5. PostKnows(p)'  BY <1>4 DEF PostKnows
<1>6. Kind(p) \in Requests  BY <1>2 DEF Requests
<1> QED  BY <1>2, <1>3, <1>4, <1>5, <1>6, PosterKeepsStore

\* The row and its events are committed.
LEMMA CommittingKeepsStore ==
  ASSUME StoreInv, ProcsShaped, NEW p \in Procs, PostCommits(p)
  PROVE  StoreInv'
<1>1. PICK ask : ask = proc[p].ask  OBVIOUS
<1>2. PICK made : made = proc[p].made  OBVIOUS
<1>3. PICK row : row = made.row  OBVIOUS
<1>4. PICK events : events = NewEvents(row)  OBVIOUS
<1>5. PICK new : new = [row |-> row]  OBVIOUS
<1>6. /\ Kind(p) = "post" /\ proc[p].pc = "append" /\ made.todo = <<>>
      /\ rows' = rows \cup made.rows /\ audit' = audit \o made.events
      /\ proc' = [proc EXCEPT ![p].pc = "answer", ![p].made = new]
      /\ UNCHANGED <<told, left, mirror>>  BY <1>2, <1>3, <1>5 DEF PostCommits, At
<1>7. /\ ask.body \in Posts /\ ask.id \in Nat /\ left["post"] < ask.id
      /\ \A n \in 1..Len(audit) : ask.id < audit[n].id
      /\ Appending(ask, made)  BY <1>1, <1>2, <1>6 DEF StoreInv, PostKnows
<1>8. /\ row = [table |-> ask.body.table, id |-> ask.id, about |-> ask.about, body |-> ask.body,
                resolved |-> row.resolved]
      /\ made.rows = NewRows(row) /\ made.events = events /\ Existing(ask) = {}
  <2>1. /\ made = [row |-> made.row, rows |-> NewRows(made.row), events |-> NewEvents(made.row), todo |-> made.todo]
        /\ Existing(ask) = {}
        /\ made.row = [table |-> ask.body.table, id |-> ask.id, about |-> ask.about, body |-> ask.body,
                       resolved |-> made.row.resolved]  BY <1>7 DEF Appending
  <2>2. made.rows = NewRows(made.row) /\ made.events = NewEvents(made.row)  BY <2>1
  <2> QED  BY <1>3, <1>4, <2>1, <2>2
<1>9. /\ row.table = ask.body.table /\ row.id = ask.id /\ row.body = ask.body /\ row.about = ask.about
      /\ row.body.token # "none" /\ row.table \in {"stage_runs", "approvals", "findings", "user_notes"}
  BY <1>7, <1>8, PostsAssumption
<1>10. /\ Numbered(events)
       /\ \A n \in 1..Len(events) : events[n].id = ask.id
       /\ \A m, n \in 1..Len(events) : m < n => Before(events[m], events[n])
  BY <1>4, <1>9, EventsOfRow
<1>11. Range(events) \subseteq Seen /\ Range(events) = {events[n] : n \in 1..Len(events)}
  <2>1. Numbered(<<>>) /\ Len(<<>>) = 0  BY DEF Numbered
  <2>2. Range(made.todo) = {}  BY <1>6, <2>1, RangeNumbered
  <2> QED  BY <1>7, <1>8, <1>10, <2>2, RangeNumbered DEF Appending
<1>12. Seen' = Seen  BY <1>6 DEF Seen
<1>13. /\ Numbered(audit)
       /\ \A n \in 1..Len(audit) : audit[n].id \in Nat /\ left["post"] < audit[n].id /\ audit[n] \in Seen
       /\ \A m, n \in 1..Len(audit) : m < n => Before(audit[m], audit[n])
  BY DEF StoreInv, AuditSound
<1> DEFINE la == Len(audit)
           le == Len(events)
           both == audit \o events
<1>14. /\ Numbered(both) /\ Len(both) = la + le
       /\ \A n \in 1..la : both[n] = audit[n]
       /\ \A n \in 1..le : both[la + n] = events[n]  BY <1>10, <1>13, NumberedConcat
<1>15. audit' = both  BY <1>6, <1>8
<1> HIDE DEF both
<1>16. la \in Nat /\ le \in Nat  BY <1>10, <1>13 DEF Numbered
<1>17. \A n \in 1..Len(both) : n \in 1..la \/ (n - la \in 1..le /\ both[n] = events[n - la])
  <2> SUFFICES ASSUME NEW n \in 1..Len(both), n \notin 1..la PROVE n - la \in 1..le /\ both[n] = events[n - la]
    OBVIOUS
  <2>1. n - la \in 1..le /\ n = la + (n - la)  BY <1>14, <1>16
  <2> QED  BY <1>14, <2>1
<1>18. AuditSound'
  <2>1. \A n \in 1..Len(both) : both[n].id \in Nat /\ left["post"] < both[n].id /\ both[n] \in Seen
    BY <1>7, <1>10, <1>11, <1>13, <1>14, <1>17
  <2>2. ASSUME NEW m \in 1..Len(both), NEW n \in 1..Len(both), m < n PROVE Before(both[m], both[n])
    <3>1. CASE m \in 1..la /\ n \in 1..la  BY <1>13, <1>14, <2>2, <3>1
    <3>2. CASE m \in 1..la /\ n \notin 1..la
      <4>1. both[n].id = ask.id /\ ask.id < both[m].id  BY <1>7, <1>10, <1>14, <1>17, <3>2
      <4> QED  BY <4>1 DEF Before
    <3>3. CASE m \notin 1..la /\ n \notin 1..la
      <4>1. m - la < n - la  BY <1>14, <1>16, <2>2
      <4> QED  BY <1>10, <1>17, <3>3, <4>1
    <3>4. ~(m \notin 1..la /\ n \in 1..la)  BY <1>14, <1>16, <2>2
    <3> QED  BY <3>1, <3>2, <3>3, <3>4
  <2> QED  BY <1>6, <1>12, <1>14, <1>15, <2>1, <2>2 DEF AuditSound
<1>19. MirrorSound' /\ left' \in [Limited -> Nat]  BY <1>6 DEF StoreInv, MirrorSound
<1>20. row \in NewRows(row) /\ \A r \in NewRows(row) : r = row \/ r.body.token = "none"
  <2>1. Divergence(row).body = [token |-> "none"]  BY <1>8 DEF Divergence
  <2> QED  BY <2>1 DEF NewRows
<1>21. Posted' = Posted \cup {row}  BY <1>6, <1>8, <1>9, <1>20 DEF Posted
<1>22. Expected' = Expected \cup Range(events)
  <2>1. DOMAIN audit = 1..la /\ DOMAIN events = 1..le /\ DOMAIN both = 1..Len(both)
    BY <1>10, <1>13, <1>14, RangeNumbered
  <2>2. Range(both) = Range(audit) \cup Range(events)  BY <1>14, <1>16, <2>1, PartsJoin
  <2>3. Expected = Range(audit) /\ Expected' = Range(both)  BY <1>15 DEF Expected, Range
  <2> QED  BY <2>2, <2>3
<1>23. RowsSound'
  <2>1. \A r : NewEvents(r)' = NewEvents(r) /\ NewRows(r)' = NewRows(r)
    BY DEF NewEvents, NewRows, Created, Divergence
  <2>2. RowsSound  BY DEF StoreInv
  <2>3. Expected' = UNION {Range(NewEvents(r)) : r \in Posted'}
    BY <1>4, <1>21, <1>22, <2>2 DEF RowsSound
  <2>4. rows' = UNION {NewRows(r) : r \in Posted'}  BY <1>6, <1>8, <1>21, <2>2 DEF RowsSound
  <2>5. \A r \in Posted : ~(r.table = row.table /\ r.body.token = row.body.token)
    BY <1>8, <1>9 DEF Existing, Posted
  <2>6. \A r, s \in Posted' : (r.table = s.table /\ r.body.token = s.body.token) => r = s
    BY <1>21, <2>2, <2>5 DEF RowsSound
  <2> QED  BY <2>1, <2>3, <2>4, <2>6 DEF RowsSound
<1>24. Becomes(p, "answer", ask, proc[p].seen, proc[p].status, proc[p].again, new)
  BY <1>1, <1>6, GoesOn
<1>25. Kind(p)' = "post" /\ proc'[p].pc = "answer" /\ proc'[p].ask = ask /\ proc'[p].made = new
  <2>1. proc'[p].pc = "answer" /\ proc'[p].ask = ask /\ proc'[p].made = new  BY <1>24 DEF Becomes
  <2>2. ask.kind = "post"  BY <1>1, <1>6 DEF Kind
  <2> QED  BY <2>1, <2>2 DEF Kind
<1>26. PostKnows(p)'
  <2>1. new.row = row /\ row \in rows'  BY <1>5, <1>6, <1>8, <1>20
  <2> QED  BY <1>6, <1>7, <1>9, <1>25, <2>1 DEF PostKnows, InStore
<1>27. \A q \in Procs : q # p => proc'[q] = proc[q]  BY <1>24 DEF Becomes
<1>28. Kind(p) \in Requests /\ rows \subseteq rows'  BY <1>6 DEF Requests
<1> QED  BY <1>6, <1>18, <1>19, <1>23, <1>26, <1>27, <1>28, PosterKeepsStore

\* The answer is what is in the store.
LEMMA AnsweringKeepsStore ==
  ASSUME StoreInv, ProcsShaped, NEW p \in Procs, PostAnswers(p)
  PROVE  StoreInv'
<1>1. PICK ask : ask = proc[p].ask  OBVIOUS
<1>2. PICK row : row = proc[p].made.row  OBVIOUS
<1>3. /\ Kind(p) = "post" /\ proc[p].pc = "answer" /\ UNCHANGED <<left, rows, audit, mirror>>
      /\ proc' = [proc EXCEPT ![p] = Idle]
      /\ told' = told \cup {[ask |-> ask, made |-> [row |-> row]]}
  BY <1>1, <1>2 DEF PostAnswers, At, Answers, dashboard
<1>4. InStore(row, ask)  BY <1>1, <1>2, <1>3 DEF StoreInv, PostKnows
<1>5. \A t \in told' \ told : InStore(t.made.row, t.ask)'  BY <1>3, <1>4 DEF InStore
<1>6. Kind(p)' = "nothing" /\ \A q \in Procs : q # p => proc'[q] = proc[q]
  BY <1>3, Ends DEF Becomes
<1>7. PostKnows(p)'  BY <1>6 DEF PostKnows
<1>8. Ticks /\ Kind(p) \in Requests  BY <1>3 DEF Ticks, Requests
<1> QED  BY <1>3, <1>5, <1>6, <1>7, <1>8, StoreRests, PosterKeepsStore

----------------------------------------
(* Every step *)

\* A step of a command that is no request.
LEMMA CommandsLeaveStore ==
  ASSUME StoreInv, UNCHANGED <<rows, audit, mirror>>, Ticks,
         NEW p \in Procs, NEW kind, kind \notin Requests, Works(p, kind)
  PROVE  StoreInv'
<1>1. \A q \in Procs : proc'[q] = proc[q] \/ Kind(q)' \notin Requests  BY DEF Works, Requests
<1>2. OneRequest'  BY <1>1, NoRequestBegins DEF StoreInv, Kind
<1>3. \A t \in told' \ told : t.ask.kind # "post"  BY DEF Works, Requests
<1> QED  BY <1>1, <1>2, <1>3, OthersLeaveStore DEF Requests

\* A step of a prompt's request.
LEMMA GeneratingKeepsStore ==
  ASSUME StoreInv, ProcsShaped, NEW p \in Procs, Generating(p)
  PROVE  StoreInv'
<1>1. Works(p, "generate") /\ Ticks  BY GeneratingWorks, GeneratingTicks
<1>2. UNCHANGED <<rows, audit, mirror>>
  BY DEF Generating, StartsGenerate, GenerateLooks, GenerateReads, GenerateSummarizes, GenerateStores, dashboard
<1>3. Kind(p) \in Requests \/ \A q \in Procs : Kind(q) \notin Requests
  BY DEF Generating, StartsGenerate, TakesRequest, GenerateLooks, GenerateReads, GenerateSummarizes,
     GenerateStores, At, Requests
<1>4. OneRequest'  BY <1>1, <1>3, OneRequestGoesOn DEF StoreInv, Works
<1>5. \A q \in Procs : proc'[q] = proc[q] \/ Kind(q)' # "post"  BY <1>1 DEF Works
<1>6. \A t \in told' \ told : t.ask.kind # "post"  BY <1>1 DEF Works
<1> QED  BY <1>1, <1>2, <1>4, <1>5, <1>6, OthersLeaveStore

\* HEAD is read, or a command that is no request is killed.
LEMMA StatusesLeaveStore ==
  ASSUME StoreInv, ProcsShaped, UNCHANGED <<rows, audit, mirror>>, NEW p \in Procs, Statuses(p)
  PROVE  StoreInv'
<1>1. UNCHANGED told /\ Ticks  BY DEF Statuses, ReadsHead, ReadsHeadAgain, Dies, Refuses, Ticks
<1>2. ASSUME \A q \in Procs : Kind(q)' \in Requests => Kind(q) \in Requests,
             \A q \in Procs : proc'[q] = proc[q] \/ Kind(q)' # "post"
      PROVE  StoreInv'
  <2>1. OneRequest'  BY <1>2, NoRequestBegins DEF StoreInv
  <2> QED  BY <1>1, <1>2, <2>1, OthersLeaveStore
<1>3. CASE Dies(p)
  <2>1. Kind(p)' = "nothing" /\ \A q \in Procs : q # p => proc'[q] = proc[q]
    BY <1>3, Ends DEF Dies, Refuses, Becomes
  <2>2. \A q \in Procs : q # p => Kind(q)' = Kind(q)  BY <2>1 DEF Kind
  <2> QED  BY <1>2, <2>1, <2>2 DEF Requests
<1>4. ASSUME NEW pc, NEW seen, NEW again,
             Becomes(p, pc, proc[p].ask, seen, proc[p].status, again, proc[p].made),
             proc[p].pc \in {"head", "headAgain"}
      PROVE  StoreInv'
  <2>1. Kind(p) # "post"  BY <1>4 DEF StoreInv, PostKnows
  <2>2. Kind(p)' = Kind(p) /\ \A q \in Procs : q # p => proc'[q] = proc[q] /\ Kind(q)' = Kind(q)
    BY <1>4 DEF Becomes, Kind
  <2> QED  BY <1>2, <2>1, <2>2
<1>5. CASE ReadsHead(p) \/ ReadsHeadAgain(p)  BY <1>4, <1>5, HeadIsAnswered
<1> QED  BY <1>3, <1>5 DEF Statuses

\* Every step keeps the invariant of the store.
LEMMA StoreInvStays ==
  ASSUME ProcsShaped, StoreInv, [Next]_vars
  PROVE  StoreInv'
<1>1. Ticks  BY StepTicks
<1>2. CASE Steps /\ UNCHANGED dashboard
  <2>1. UNCHANGED <<rows, audit, mirror>>  BY <1>2 DEF dashboard
  <2>2. CASE People /\ UNCHANGED <<proc, told, files>>
    <3>1. OneRequest'  BY <2>2 DEF StoreInv, OneRequest, Kind
    <3> QED  BY <1>1, <2>1, <2>2, <3>1, OthersLeaveStore
  <2>3. ASSUME NEW p \in Procs,
               Prompting(p) \/ Running(p) \/ Recording(p) \/ Committing(p) \/ Pushing(p) \/ Applying(p) \/ Gating(p)
        PROVE  StoreInv'
    <3>1. \E kind : kind \notin Requests /\ Works(p, kind)
      BY <2>3, PromptingWorks, RunningWorks, RecordingWorks, CommittingWorks, PushingWorks,
         ApplyingWorks, GatingWorks DEF Requests
    <3> QED  BY <1>1, <2>1, <3>1, CommandsLeaveStore
  <2> QED  BY <1>2, <2>1, <2>2, <2>3, StatusesLeaveStore DEF Steps
<1>3. ASSUME NEW p \in Procs, Proposing(p), UNCHANGED dashboard PROVE StoreInv'
  <2>1. "propose" \notin Requests /\ Works(p, "propose") /\ UNCHANGED <<rows, audit, mirror>>
    BY <1>3, ProposingWorks DEF Requests, dashboard
  <2> QED  BY <1>1, <2>1, CommandsLeaveStore
<1>4. CASE Serving
  <2>1. CASE ServerStarts
    <3>1. UNCHANGED <<proc, told, rows, audit, mirror>>  BY <2>1 DEF ServerStarts
    <3>2. OneRequest'  BY <3>1 DEF StoreInv, OneRequest, Kind
    <3> QED  BY <1>1, <3>1, <3>2, OthersLeaveStore
  <2>2. CASE ServerStops
    <3>1. UNCHANGED <<told, rows, audit, mirror>>  BY <2>2 DEF ServerStops
    <3>2. \A q \in Procs : Kind(q)' \notin Requests /\ (proc'[q] = proc[q] \/ Kind(q)' # "post")
      BY <2>2 DEF ServerStops, Kind, Idle, Nothing, Requests
    <3>3. OneRequest'  BY <3>2 DEF OneRequest
    <3> QED  BY <1>1, <3>1, <3>2, <3>3, OthersLeaveStore
  <2>3. ASSUME NEW p \in Procs, Posting(p) PROVE StoreInv'
    BY <2>3, StartingPostKeepsStore, CreatingKeepsStore, ReplayingKeepsStore, RefusingKeepsStore,
       AppendingKeepsStore, TearingKeepsStore, CommittingKeepsStore, AnsweringKeepsStore DEF Posting
  <2>4. ASSUME NEW p \in Procs, Generating(p) PROVE StoreInv'  BY <2>4, GeneratingKeepsStore
  <2> QED  BY <1>4, <2>1, <2>2, <2>3, <2>4 DEF Serving
<1>5. CASE UNCHANGED vars
  <2>1. UNCHANGED <<proc, told, rows, audit, mirror>>  BY <1>5 DEF vars, cmds, dashboard
  <2>2. OneRequest'  BY <2>1 DEF StoreInv, OneRequest, Kind
  <2> QED  BY <1>1, <2>1, <2>2, OthersLeaveStore
<1> QED  BY <1>2, <1>3, <1>4, <1>5 DEF Next

\* Every beginning has it: nothing is posted yet.
LEMMA StoreInvStarts ==
  ASSUME Init
  PROVE  StoreInv
<1>1. PICK b \in Beginnings : left = b.left  BY DEF Init
<1>2. left \in [Limited -> Nat]  BY <1>1, BeginningsAssumption
<1>3. rows = {} /\ audit = <<>> /\ mirror = <<>> /\ told = {} /\ \A p \in Procs : Kind(p) = "nothing"
  BY DEF Init, Kind, Idle, Nothing
<1>4. Numbered(<<>>) /\ Len(<<>>) = 0 /\ 1..0 = {}  BY DEF Numbered
<1>5. MirrorSound /\ AuditSound  BY <1>3, <1>4 DEF MirrorSound, AuditSound
<1>6. RowsSound
  <2>1. Expected = {} /\ Posted = {}  BY <1>3 DEF Expected, Posted
  <2> QED  BY <1>3, <2>1 DEF RowsSound
<1>7. OneRequest /\ \A p \in Procs : PostKnows(p)  BY <1>3 DEF OneRequest, Requests, PostKnows
<1> QED  BY <1>2, <1>3, <1>5, <1>6, <1>7 DEF StoreInv

\* The invariant of the store holds always.
THEOREM StoreSound == Spec => []StoreInv
<1>1. Init => StoreInv  BY StoreInvStarts
<1>2. WorkspaceInv /\ StoreInv /\ [Next]_vars => StoreInv'  BY StoreInvStays DEF WorkspaceInv
<1> QED  BY <1>1, <1>2, WorkspaceSound, PTL DEF Spec

\* The dashboard's store and its append-only mirror tell one story, wherever
\* posts fail, tear a line or die with the server, and however often clients
\* repeat them: what is committed is in the mirror, once and in the same order.
THEOREM MutationsAlwaysMirrored == Spec => []MutationsAreMirrored
<1>1. ASSUME StoreInv PROVE MutationsAreMirrored
  <2> DEFINE Lines(event) == {n \in DOMAIN mirror : mirror[n].event = event /\ mirror[n].state # "fragment"}
  <2>1. MirrorSound /\ AuditSound /\ RowsSound  BY <1>1 DEF StoreInv
  <2>2. DOMAIN mirror = 1..Len(mirror) /\ Len(mirror) \in Nat /\ DOMAIN audit = 1..Len(audit) /\ Len(audit) \in Nat
    BY <2>1 DEF MirrorSound, AuditSound, Numbered
  <2>3. Missing = {}  BY <2>1, <2>2 DEF Missing, Expected, AuditSound
  <2>4. ASSUME NEW m \in 1..Len(mirror), NEW n \in 1..Len(mirror), m < n, IsWhole(mirror[m]), IsWhole(mirror[n])
        PROVE  Before(mirror[m].event, mirror[n].event) /\ mirror[m].event # mirror[n].event
    BY <2>1, <2>4, BeforeIsStrict DEF MirrorSound
  <2>5. Duplicated = {}
    <3> SUFFICES ASSUME NEW event \in Seen, Cardinality(Lines(event)) > 1 PROVE FALSE
      BY DEF Duplicated
    <3>1. PICK m \in DOMAIN mirror : m \in Lines(event)  BY DEF Seen
    <3>2. \A n \in Lines(event) : n = m  BY <2>2, <2>4, <3>1 DEF IsWhole
    <3>3. Lines(event) = {m}  BY <3>1, <3>2
    <3>4. Cardinality({m}) = 1  BY FS_Singleton
    <3> QED  BY <3>3, <3>4
  <2>6. ASSUME NEW m \in DOMAIN audit, NEW n \in DOMAIN audit, m < n,
               NEW i \in Lines(audit[m]), NEW j \in Lines(audit[n])
        PROVE  i < j
    <3>1. Before(audit[m], audit[n]) /\ audit[m].id \in Nat /\ audit[n].id \in Nat
      BY <2>1, <2>2, <2>6 DEF AuditSound
    <3>2. audit[m] # audit[n] /\ ~Before(audit[n], audit[m])  BY <3>1, BeforeIsStrict
    <3>3. /\ i \in 1..Len(mirror) /\ mirror[i].event = audit[m] /\ IsWhole(mirror[i])
          /\ j \in 1..Len(mirror) /\ mirror[j].event = audit[n] /\ IsWhole(mirror[j])
      BY <2>2 DEF IsWhole
    <3>4. i # j /\ ~(j < i)  BY <2>4, <3>2, <3>3
    <3> QED  BY <2>2, <3>3, <3>4
  <2>7. /\ Expected = UNION {Range(NewEvents(r)) : r \in Posted}
        /\ rows = UNION {NewRows(r) : r \in Posted}
        /\ \A r, s \in Posted : (r.table = s.table /\ r.body.token = s.body.token) => r = s
    BY <2>1 DEF RowsSound
  <2>8. \A t \in {u \in told : u.ask.kind = "post"} :
          t.made.row \in rows /\ t.made.row.body = t.ask.body /\ t.made.row.about = t.ask.about
    BY <1>1 DEF StoreInv, InStore
  <2>9. \A m, n \in DOMAIN audit : m < n => \A i \in Lines(audit[m]), j \in Lines(audit[n]) : i < j
    BY <2>6
  <2> QED  BY <2>3, <2>5, <2>7, <2>8, <2>9 DEF MutationsAreMirrored, Posted
<1> QED  BY <1>1, StoreSound, PTL

----------------------------------------
(* What a gate has made of the record *)

\* Prompts and approvals are about code.
ScopesSound ==
  /\ \A prompt \in metadata : prompt.allowed \subseteq Code
  /\ \A p \in Procs : Kind(p) \in {"prompt", "commit"} => proc[p].ask.allowed \subseteq Code

\* The task the gate has found, and that it found it ready.
Chosen(kind, made) ==
  LET queue == made.before["queue"]
  IN  /\ made.task \in DOMAIN queue
      /\ kind = "authorize" => queue[made.task] = "Planned" /\ InState(queue, "Current") = {}
      /\ kind = "approve" => queue[made.task] = "Current"

\* What is still to be written: each document once, and after the handover only
\* the checksum.
Unwritten(todo) ==
  /\ Numbered(todo)
  /\ \A m, n \in 1..Len(todo) : m < n =>
       todo[m] # todo[n] /\ (todo[m] = "handover" => todo[n] = "checksum")
  /\ "handover" \notin Range(todo) => Range(todo) \subseteq {"checksum"}

Summarized == {"project", "queue", "current", "remaining"}

\* The queue and the registry are as they were found until they are written, and
\* the handover is newer than what it summarizes.
Rewritten(kind, made) ==
  LET queue == made.before["queue"]
      registry == made.before["registry"]
      status == IF kind = "authorize" THEN "Current" ELSE "Done"
      state == IF kind = "authorize" THEN "AUTHORIZED" ELSE "COMPLETE"
  IN  /\ tree["queue"] = IF "queue" \in Range(made.todo) THEN queue ELSE [queue EXCEPT ![made.task] = status]
      /\ tree["registry"] =
           IF "registry" \in Range(made.todo) THEN registry
           ELSE [t \in DOMAIN registry |-> IF t = made.task THEN state ELSE registry[t]]
      /\ "handover" \notin Range(made.todo) => \A d \in Summarized : stamps[d] <= stamps["handover"]

\* What a gate knows while nobody amends the record.
Undisturbed(kind, pc, made) ==
  /\ pc = "validate" =>
       tree["queue"] = made.before["queue"] /\ tree["registry"] = made.before["registry"]
  /\ pc # "validate" => Rewritten(kind, made)
  /\ pc = "write" => Unwritten(made.todo)
  /\ pc \in {"changed", "add", "countStaged", "gateCommit"} =>
       made.todo = <<>> /\ TaskStateHolds(tree) /\ HandoverHolds(tree)
  /\ pc = "add" => \A d \in Documents \ made.changed : index[d] = tree[d]
  /\ pc \in {"countStaged", "gateCommit"} => \A d \in Documents : index[d] = tree[d]

\* The points of a gate from its reading to its commit.
Sure == {"validate", "write", "changed", "add", "countStaged", "gateCommit"}

Handles(kind, pc, made) ==
  pc \in Sure =>
    /\ Gated(made) /\ Chosen(kind, made)
    /\ made.amends \in Nat /\ left["amend"] <= made.amends
    /\ made.amends = left["amend"] => Undisturbed(kind, pc, made)

RecordInv ==
  /\ ScopesSound
  /\ \A p \in Procs : Kind(p) \in OwnersGates => Handles(Kind(p), proc[p].pc, proc[p].made)

\* Whoever goes on keeps asking what was asked.
AsksStay ==
  \A p \in Procs :
    \/ proc'[p] = proc[p]
    \/ proc'[p] = Idle
    \/ proc'[p].ask = proc[p].ask
    \/ Kind(p)' \notin {"prompt", "commit"}

LEMMA ScopesGoOn ==
  ASSUME ScopesSound, AsksStay, UNCHANGED metadata
  PROVE  ScopesSound'
BY DEF ScopesSound, AsksStay, Kind, Idle, Nothing

LEMMA WorkKeepsAsks ==
  ASSUME NEW p \in Procs, NEW kind, Works(p, kind),
         kind \notin {"prompt", "commit"} \/ proc[p] # Idle
  PROVE  AsksStay
BY DEF Works, AsksStay, Kind

\* Prompts and approvals go on being about code.
LEMMA ScopesStay ==
  ASSUME WorkspaceInv, ScopesSound, [Next]_vars
  PROVE  ScopesSound'
<1>1. ProcsShaped  BY DEF WorkspaceInv
<1>2. ASSUME NEW p \in Procs, NEW ask, NEW pc, Begin(p, ask, pc), UNCHANGED metadata, ask.allowed \subseteq Code
      PROVE  ScopesSound'
  <2>1. Becomes(p, pc, ask, Nothing, Nothing, Nothing, Nothing)  BY <1>1, <1>2, Begins DEF Begin
  <2>2. proc'[p].ask = ask /\ \A q \in Procs : q # p => proc'[q] = proc[q]  BY <2>1 DEF Becomes
  <2> QED  BY <1>2, <2>2 DEF ScopesSound, Kind
<1>3. ASSUME NEW p \in Procs, Prompting(p) PROVE ScopesSound'
  <2>1. CASE StartsPrompt(p)
    <3>1. PICK stage \in PromptStages, allowed \in SUBSET Code, bundled \in BOOLEAN :
            Begin(p, [kind |-> "prompt", stage |-> stage, allowed |-> allowed,
                      bundled |-> bundled, engine |-> engine], "head")  BY <2>1 DEF StartsPrompt
    <3>2. PICK ask : ask = [kind |-> "prompt", stage |-> stage, allowed |-> allowed,
                            bundled |-> bundled, engine |-> engine]  OBVIOUS
    <3>3. Begin(p, ask, "head") /\ ask.allowed \subseteq Code  BY <3>1, <3>2
    <3>4. UNCHANGED metadata  BY <2>1 DEF StartsPrompt, stores
    <3> QED  BY <1>2, <3>3, <3>4
  <2>2. CASE ~StartsPrompt(p)
    <3>1. Kind(p) = "prompt"
      BY <1>3, <2>2 DEF Prompting, PromptReadsStatus, PromptReadsStatusAgain, PromptLinksMetadata,
         PromptLinksMarkdown, At
    <3>2. proc[p] # Idle  BY <3>1 DEF Kind, Idle, Nothing
    <3>3. AsksStay  BY <1>1, <1>3, <3>2, PromptingWorks, WorkKeepsAsks
    <3>4. CASE PromptLinksMetadata(p)
      <4>1. metadata' = metadata \cup {Rendered(p)}  BY <3>4 DEF PromptLinksMetadata
      <4>2. Rendered(p).allowed \subseteq Code  BY <3>1 DEF ScopesSound, Rendered
      <4> QED  BY <3>3, <4>1, <4>2 DEF ScopesSound, AsksStay, Kind, Idle, Nothing
    <3>5. CASE UNCHANGED metadata  BY <3>3, <3>5, ScopesGoOn
    <3> QED  BY <1>3, <2>2, <3>4, <3>5 DEF Prompting, PromptReadsStatus, PromptReadsStatusAgain,
       PromptLinksMarkdown, stores
  <2> QED  BY <2>1, <2>2
<1>4. ASSUME NEW p \in Procs, Committing(p) PROVE ScopesSound'
  <2>1. UNCHANGED metadata  BY <1>4, DeliveriesLeave DEF stores
  <2>2. CASE StartsCommit(p)
    <3>1. PICK parent \in Commits, allowed \in SUBSET Code \ {{}}, message \in Messages :
            Begin(p, [kind |-> "commit", head |-> parent, allowed |-> allowed, message |-> message], "head")
      BY <2>2 DEF StartsCommit
    <3>2. PICK ask : ask = [kind |-> "commit", head |-> parent, allowed |-> allowed, message |-> message]
      OBVIOUS
    <3>3. Begin(p, ask, "head") /\ ask.allowed \subseteq Code  BY <3>1, <3>2
    <3> QED  BY <1>2, <2>1, <3>3
  <2>3. CASE ~StartsCommit(p)
    <3>1. Kind(p) = "commit"
      BY <1>4, <2>3 DEF Committing, CommitReadsStatus, CommitStages, CommitChecksStaged,
         CommitUnstages, CommitCommits, CommitVerifies, At
    <3>2. proc[p] # Idle  BY <3>1 DEF Kind, Idle, Nothing
    <3>3. AsksStay  BY <1>1, <1>4, <3>2, CommittingWorks, WorkKeepsAsks
    <3> QED  BY <2>1, <3>3, ScopesGoOn
  <2> QED  BY <2>2, <2>3
<1>5. ASSUME NEW p \in Procs,
             \/ Running(p) \/ Recording(p) \/ Pushing(p) \/ Applying(p) \/ Gating(p) \/ Proposing(p)
             \/ Posting(p) \/ Generating(p)
      PROVE  AsksStay
  <2>1. PICK kind : kind \notin {"prompt", "commit"} /\ Works(p, kind)
    BY <1>1, <1>5, RunningWorks, RecordingWorks, PushingWorks, ApplyingWorks, GatingWorks,
       ProposingWorks, PostingWorks, GeneratingWorks
  <2> QED  BY <2>1, WorkKeepsAsks
<1>6. ASSUME NEW p \in Procs, Running(p) \/ Recording(p) \/ Pushing(p) \/ Applying(p) PROVE UNCHANGED metadata
  BY <1>6, DeliveriesLeave DEF Running, StartsRun, RunReadsStatus, RunResolvesEngine, AgentEnds,
     RunReadsStatusAgain, RunLinksRecord, RunLinksPatch, Recording, StartsRecord, RecordReadsHead,
     AppendsEvent, RecordAnswers, stores
<1>7. ASSUME NEW p \in Procs, Statuses(p) PROVE AsksStay
  <2>1. CASE Dies(p)  BY <1>1, <2>1, IdlesWork DEF Dies, Refuses, AsksStay
  <2>2. CASE ReadsHead(p) \/ ReadsHeadAgain(p)
    <3>1. PICK pc, seen, again : Becomes(p, pc, proc[p].ask, seen, proc[p].status, again, proc[p].made)
      BY <1>1, <2>2, HeadIsAnswered
    <3> QED  BY <3>1 DEF Becomes, AsksStay
  <2> QED  BY <1>7, <2>1, <2>2 DEF Statuses
<1>8. CASE Steps
  <2>1. CASE People /\ UNCHANGED <<proc, told, files>>
    <3>1. UNCHANGED metadata  BY <2>1 DEF People, EngineChanges, stores
    <3> QED  BY <2>1, <3>1, ScopesGoOn DEF AsksStay
  <2>2. ASSUME NEW p \in Procs, Statuses(p) PROVE ScopesSound'
    BY <1>7, <2>2, ScopesGoOn DEF Statuses, stores
  <2>3. ASSUME NEW p \in Procs, Gating(p) /\ UNCHANGED <<stores, files>> PROVE ScopesSound'
    BY <1>5, <2>3, ScopesGoOn DEF stores
  <2>4. ASSUME NEW p \in Procs, Running(p) \/ Recording(p) \/ Pushing(p) \/ Applying(p) PROVE ScopesSound'
    BY <1>5, <1>6, <2>4, ScopesGoOn
  <2> QED  BY <1>3, <1>4, <1>8, <2>1, <2>2, <2>3, <2>4 DEF Steps
<1>9. CASE (\E p \in Procs : Proposing(p)) /\ UNCHANGED <<stores, files, dashboard>>
  BY <1>5, <1>9, ScopesGoOn DEF stores
<1>10. CASE Serving /\ UNCHANGED <<git, stores, files, artifacts>>
  <2>1. CASE ServerStarts  BY <1>10, <2>1, ScopesGoOn DEF ServerStarts, AsksStay, stores
  <2>2. CASE ServerStops
    <3>1. \A p \in Procs : proc'[p] = proc[p] \/ proc'[p] = Idle  BY <2>2 DEF ServerStops
    <3> QED  BY <1>10, <3>1, ScopesGoOn DEF AsksStay, stores
  <2> QED  BY <1>5, <1>10, <2>1, <2>2, ScopesGoOn DEF Serving, stores
<1>11. CASE UNCHANGED vars  BY <1>11, ScopesGoOn DEF vars, cmds, stores, AsksStay
<1> QED  BY <1>8, <1>9, <1>10, <1>11 DEF Next

----------------------------------------
(* What the others leave of the documents *)

\* No document is written; what is staged of them stays what is in the tree.
DocumentsRest ==
  \A d \in Documents :
    /\ tree'[d] = tree[d] /\ stamps'[d] = stamps[d]
    /\ index[d] = tree[d] => index'[d] = tree[d]

LEMMA CodeIsElsewhere ==
  /\ Documents \subseteq Paths
  /\ \A ps : ps \subseteq Code => \A d \in Documents : d \notin ps
BY GitAssumption DEF Code

\* The operations of Git.
LEMMA OperationsRest ==
  ASSUME IsClone(tree), IsClone(index)
  PROVE  /\ UNCHANGED <<disk, index>> => DocumentsRest
         /\ UNCHANGED git => DocumentsRest
         /\ \A ps : GitAdd(ps) => DocumentsRest
         /\ \A ps : (ps \subseteq Code /\ GitRestoreStaged(ps)) => DocumentsRest
         /\ \A message : GitCommit(message) => DocumentsRest
         /\ GitPush => DocumentsRest
<1>1. UNCHANGED <<disk, index>> => DocumentsRest  BY DEF disk, DocumentsRest
<1>2. UNCHANGED git => DocumentsRest  BY <1>1 DEF git
<1>3. ASSUME NEW ps, GitAdd(ps) PROVE DocumentsRest
  BY <1>3, CodeIsElsewhere DEF GitAdd, disk, DocumentsRest
<1>4. ASSUME NEW ps, ps \subseteq Code, GitRestoreStaged(ps) PROVE DocumentsRest
  BY <1>4, CodeIsElsewhere DEF GitRestoreStaged, disk, DocumentsRest
<1>5. ASSUME NEW message, GitCommit(message) PROVE DocumentsRest  BY <1>1, <1>5 DEF GitCommit
<1>6. GitPush => DocumentsRest  BY <1>1 DEF GitPush
<1> QED  BY <1>1, <1>2, <1>3, <1>4, <1>5, <1>6

\* People, unless they amend the record.
LEMMA PeopleRest ==
  ASSUME IsClone(tree), IsClone(index), People, ~(PersonAmends /\ Spend("amend"))
  PROVE  DocumentsRest
<1>1. CASE PersonEdits  BY <1>1, CodeIsElsewhere DEF PersonEdits, Code, DocumentsRest
<1>2. CASE PersonStages  BY <1>2, OperationsRest DEF PersonStages
<1>3. CASE PersonCommits
  <2>1. PICK ps \in SUBSET Modified : index' = [p \in Paths |-> IF p \in ps THEN tree[p] ELSE index[p]]
    BY <1>3 DEF PersonCommits
  <2>2. UNCHANGED disk  BY <1>3 DEF PersonCommits
  <2> QED  BY <2>1, <2>2, CodeIsElsewhere DEF disk, DocumentsRest
<1>4. CASE UNCHANGED <<disk, index>>  BY <1>4, OperationsRest
<1> QED  BY <1>1, <1>2, <1>3, <1>4 DEF People, PersonFetches, OthersPush, EngineChanges, git

\* apply-patch writes code.
LEMMA ApplyingRests ==
  ASSUME WorkspaceInv, ScopesSound, NEW p \in Procs, Applying(p)
  PROVE  DocumentsRest
<1>1. IsClone(tree) /\ IsClone(index)  BY DEF WorkspaceInv, RepositorySound
<1>2. CASE ApplyApplies(p) /\ ~(UNCHANGED git)
  <2>1. PICK run : run = proc[p].ask.run  OBVIOUS
  <2>2. GitApply(BaseFiles(run), run.files)  BY <1>2, <2>1 DEF ApplyApplies
  <2>3. run \in records /\ run.passed
    BY <1>2, <2>1 DEF WorkspaceInv, Knows, ApplyKnows, ApplyApplies, At
  <2>4. Changed(run) \subseteq run.prompt.allowed /\ run.prompt \in metadata
    BY <2>3 DEF WorkspaceInv, StoresSound, RunSound
  <2>5. Changed(run) \subseteq Code  BY <2>4 DEF ScopesSound
  <2>6. PICK base, files_ : base = BaseFiles(run) /\ files_ = run.files  OBVIOUS
  <2>7. \A d \in Documents : base[d] = files_[d]
    BY <2>5, <2>6, CodeIsElsewhere DEF Changed, DiffNames
  <2>8. GitApply(base, files_)  BY <2>2, <2>6
  <2> QED  BY <2>7, <2>8, CodeIsElsewhere DEF GitApply, DocumentsRest
<1>3. CASE UNCHANGED git  BY <1>1, <1>3, OperationsRest
<1> QED
  BY <1>2, <1>3 DEF Applying, StartsApply, ApplyReadsHead, ApplyReadsStatus, ApplyChecks, ApplyAnswers

\* The commit gate stages and unstages what it was asked.
LEMMA CommittingRests ==
  ASSUME WorkspaceInv, ScopesSound, NEW p \in Procs, Committing(p)
  PROVE  DocumentsRest
<1>1. IsClone(tree) /\ IsClone(index)  BY DEF WorkspaceInv, RepositorySound
<1>2. CASE CommitStages(p)  BY <1>1, <1>2, OperationsRest DEF CommitStages
<1>3. CASE CommitUnstages(p)
  <2>1. proc[p].ask.allowed \subseteq Code  BY <1>3 DEF ScopesSound, CommitUnstages, At
  <2> QED  BY <1>1, <1>3, <2>1, OperationsRest DEF CommitUnstages
<1>4. CASE CommitCommits(p)  BY <1>1, <1>4, OperationsRest DEF CommitCommits
<1>5. CASE UNCHANGED git  BY <1>1, <1>5, OperationsRest
<1> QED
  BY <1>2, <1>3, <1>4, <1>5 DEF Committing, StartsCommit, CommitReadsStatus, CommitChecksStaged, CommitVerifies

\* All steps but the gates' and the amendments.
LEMMA StepRests ==
  ASSUME WorkspaceInv, ScopesSound, [Next]_vars, \A p \in Procs : ~Gating(p)
  PROVE  DocumentsRest \/ (People /\ Spend("amend") /\ UNCHANGED proc)
<1>1. IsClone(tree) /\ IsClone(index)  BY DEF WorkspaceInv, RepositorySound
<1>2. ASSUME NEW p \in Procs, Prompting(p) \/ Running(p) \/ Recording(p) \/ Statuses(p) \/ Proposing(p)
      PROVE  DocumentsRest
  <2>1. UNCHANGED git
    BY <1>2, PromptingRests, RunningRests, RecordingRests, ProposingRests DEF Statuses
  <2> QED  BY <1>1, <2>1, OperationsRest
<1>3. ASSUME NEW p \in Procs, Pushing(p) PROVE DocumentsRest
  <2>1. CASE PushPushes(p)  BY <1>1, <2>1, OperationsRest DEF PushPushes
  <2>2. CASE UNCHANGED git  BY <1>1, <2>2, OperationsRest
  <2> QED  BY <1>3, <2>1, <2>2 DEF Pushing, StartsPush, PushReadsStatus, PushCounts
<1>4. CASE Steps
  <2>1. CASE People /\ UNCHANGED <<proc, told, files>>  BY <1>1, <2>1, PeopleRest
  <2> QED  BY <1>2, <1>3, <1>4, <2>1, ApplyingRests, CommittingRests DEF Steps
<1>5. CASE UNCHANGED git  BY <1>1, <1>5, OperationsRest
<1> QED  BY <1>2, <1>4, <1>5 DEF Next, vars

----------------------------------------
(* A gate goes on *)

\* Two trees with the same documents: the checks make no difference between them.
LEMMA SameRecord ==
  ASSUME NEW f, NEW g, \A d \in Documents : f[d] = g[d]
  PROVE  /\ f["queue"] = g["queue"] /\ f["registry"] = g["registry"]
         /\ TaskStateHolds(f) <=> TaskStateHolds(g)
         /\ HandoverHolds(f) <=> HandoverHolds(g)
<1>1. /\ f["queue"] = g["queue"] /\ f["current"] = g["current"] /\ f["remaining"] = g["remaining"]
      /\ f["project"] = g["project"] /\ f["registry"] = g["registry"]
      /\ f["checksum"] = g["checksum"] /\ f["handover"] = g["handover"]  BY TheDocuments
<1>2. CurrentTasks(f) = CurrentTasks(g)  BY <1>1 DEF CurrentTasks
<1>3. MirrorsAgree(f) <=> MirrorsAgree(g)  BY <1>1, <1>2 DEF MirrorsAgree, Mirrors
<1>4. TaskStateHolds(f) <=> TaskStateHolds(g)  BY <1>2, <1>3 DEF TaskStateHolds
<1>5. HandoverHolds(f) <=> HandoverHolds(g)  BY <1>1 DEF HandoverHolds
<1> QED  BY <1>1, <1>4, <1>5

\* The amendments that are left only become fewer.
LEMMA AmendsDown ==
  ASSUME left \in [Limited -> Nat], Ticks
  PROVE  /\ left["amend"] \in Nat /\ left'["amend"] \in Nat /\ left'["amend"] <= left["amend"]
         /\ Spend("amend") => left'["amend"] < left["amend"]
<1>1. "amend" \in Limited  BY DEF Limited
<1>2. ASSUME NEW kind, Spend(kind)
      PROVE  /\ left'["amend"] \in Nat /\ left'["amend"] <= left["amend"]
             /\ kind = "amend" => left'["amend"] < left["amend"]
  <2>1. left' = [left EXCEPT ![kind] = left[kind] - 1] /\ left[kind] > 0  BY <1>2 DEF Spend
  <2>2. left' = [x \in Limited |-> IF x = kind THEN left[x] - 1 ELSE left[x]]  BY <2>1
  <2>3. left'["amend"] = IF kind = "amend" THEN left["amend"] - 1 ELSE left["amend"]  BY <1>1, <2>2
  <2>4. left["amend"] \in Nat /\ (kind = "amend" => left["amend"] > 0)  BY <1>1, <2>1
  <2> QED  BY <2>3, <2>4
<1>3. left["amend"] \in Nat  BY <1>1
<1>4. left' = left => left'["amend"] = left["amend"]  OBVIOUS
<1> QED  BY <1>2, <1>3, <1>4 DEF Ticks

\* What a gate knows stays true while the documents rest.
LEMMA KnowledgeRests ==
  ASSUME DocumentsRest, NEW kind, NEW pc, NEW made, Undisturbed(kind, pc, made)
  PROVE  Undisturbed(kind, pc, made)'
<1>1. \A d \in Documents : tree'[d] = tree[d]  BY DEF DocumentsRest
<1>2. /\ tree'["queue"] = tree["queue"] /\ tree'["registry"] = tree["registry"]
      /\ TaskStateHolds(tree') <=> TaskStateHolds(tree)
      /\ HandoverHolds(tree') <=> HandoverHolds(tree)
  <2>1. PICK f, g : f = tree' /\ g = tree  OBVIOUS
  <2>2. \A d \in Documents : f[d] = g[d]  BY <1>1, <2>1
  <2>3. /\ f["queue"] = g["queue"] /\ f["registry"] = g["registry"]
        /\ TaskStateHolds(f) <=> TaskStateHolds(g)
        /\ HandoverHolds(f) <=> HandoverHolds(g)  BY <2>2, SameRecord
  <2> QED  BY <2>1, <2>3
<1>3. "handover" \in Documents /\ Summarized \subseteq Documents  BY TheDocuments DEF Summarized
<1>4. stamps'["handover"] = stamps["handover"] /\ \A d \in Summarized : stamps'[d] = stamps[d]
  BY <1>3 DEF DocumentsRest
<1>5. Rewritten(kind, made) => Rewritten(kind, made)'  BY <1>2, <1>4 DEF Rewritten
<1>6. \A d \in Documents : index[d] = tree[d] => index'[d] = tree'[d]  BY DEF DocumentsRest
<1>7. TaskStateHolds(tree)' <=> TaskStateHolds(tree')
  BY DEF TaskStateHolds, MirrorsAgree, CurrentTasks, InState
<1>8. HandoverHolds(tree)' <=> HandoverHolds(tree')  BY DEF HandoverHolds
<1> QED  BY <1>2, <1>5, <1>6, <1>7, <1>8 DEF Undisturbed

\* So it does while others act.
LEMMA HandlingRests ==
  ASSUME DocumentsRest \/ left'["amend"] < left["amend"],
         left["amend"] \in Nat, left'["amend"] \in Nat, left'["amend"] <= left["amend"],
         NEW kind, NEW pc, NEW made, Handles(kind, pc, made)
  PROVE  Handles(kind, pc, made)'
<1>1. SUFFICES ASSUME pc \in Sure
               PROVE  /\ Gated(made) /\ Chosen(kind, made)
                      /\ made.amends \in Nat /\ left'["amend"] <= made.amends
                      /\ made.amends = left'["amend"] => Undisturbed(kind, pc, made)'
  BY DEF Handles, Gated, Chosen, InState
<1>2. /\ Gated(made) /\ Chosen(kind, made)
      /\ made.amends \in Nat /\ left["amend"] <= made.amends
      /\ made.amends = left["amend"] => Undisturbed(kind, pc, made)  BY <1>1 DEF Handles
<1>3. left'["amend"] <= made.amends  BY <1>2
<1>4. made.amends = left'["amend"] => made.amends = left["amend"] /\ DocumentsRest  BY <1>2
<1> QED  BY <1>2, <1>3, <1>4, KnowledgeRests

----------------------------------------
(* The steps of a gate *)

\* What the gate itself has to know after its step.
Keeps(p) == Kind(p) \in OwnersGates => Handles(Kind(p), proc[p].pc, proc[p].made)

LEMMA KeepsAfter ==
  ASSUME NEW p \in Procs, NEW kind, Kind(p) = kind, NEW pc, NEW made,
         Becomes(p, pc, proc[p].ask, proc[p].seen, proc[p].status, proc[p].again, made),
         Handles(kind, pc, made)'
  PROVE  Keeps(p)'
<1>1. Kind(p)' = kind /\ proc'[p].pc = pc /\ proc'[p].made = made  BY DEF Becomes, Kind
<1> QED
  BY <1>1 DEF Keeps, Handles, Gated, Chosen, InState, Undisturbed, Rewritten, TaskStateHolds,
     MirrorsAgree, CurrentTasks, HandoverHolds

LEMMA KeepsNothing ==
  ASSUME NEW p \in Procs, Kind(p)' \notin OwnersGates \/ proc'[p].pc \notin Sure
  PROVE  Keeps(p)'
BY DEF Keeps, Handles

\* A gate that goes on to where it need know nothing.
LEMMA GoesAnywhere ==
  ASSUME NEW p \in Procs, ProcsShaped
  PROVE  /\ \A pc : (pc \notin Sure /\ Goes(p, pc)) => Keeps(p)'
         /\ proc' = [proc EXCEPT ![p] = Idle] => Keeps(p)'
         /\ Fails(p) => Keeps(p)'
<1>1. ASSUME NEW pc, pc \notin Sure, Goes(p, pc) PROVE Keeps(p)'
  <2>1. Becomes(p, pc, proc[p].ask, proc[p].seen, proc[p].status, proc[p].again, proc[p].made)
    BY <1>1, GoesOn DEF Goes
  <2>2. proc'[p].pc = pc  BY <2>1 DEF Becomes
  <2> QED  BY <1>1, <2>2, KeepsNothing
<1>2. ASSUME proc' = [proc EXCEPT ![p] = Idle] PROVE Keeps(p)'
  <2>1. Kind(p)' = "nothing"  BY <1>2, Ends
  <2> QED  BY <2>1, KeepsNothing DEF OwnersGates
<1>3. ASSUME Fails(p) PROVE Keeps(p)'  BY <1>1, <1>2, <1>3 DEF Fails, Refuses, Sure
<1> QED  BY <1>1, <1>2, <1>3

\* What is known of notes that are the same but for what is not said of them.
LEMMA StillChosen ==
  ASSUME NEW kind, NEW made, Chosen(kind, made), NEW new, new.before = made.before, new.task = made.task
  PROVE  Chosen(kind, new)
BY DEF Chosen

\* It has read the record.
LEMMA ReadingKeeps ==
  ASSUME ProcsShaped, NEW p \in Procs, Kind(p) \in OwnersGates, left["amend"] \in Nat, UNCHANGED git,
         NEW task, NEW impl, Remembers(p, Found(task, impl)),
         Chosen(Kind(p), Found(task, impl))
  PROVE  Keeps(p)'
<1>1. PICK made : made = Found(task, impl)  OBVIOUS
<1>2. PICK kind : kind = Kind(p)  OBVIOUS
<1>3. Becomes(p, "validate", proc[p].ask, proc[p].seen, proc[p].status, proc[p].again, made) /\ UNCHANGED left
  BY <1>1, GoesOn DEF Remembers
<1>4. Gated(made) /\ made.amends = left["amend"] /\ made.before = Record(tree)
  BY <1>1 DEF Found, Gated, GateFields
<1>5. tree["queue"] = made.before["queue"] /\ tree["registry"] = made.before["registry"]
  BY <1>4, TheDocuments DEF Record
<1>6. Chosen(kind, made)  BY <1>1, <1>2
<1>7. left' = left /\ tree' = tree  BY <1>3 DEF git, disk
<1>8. Handles(kind, "validate", made)'
  BY <1>4, <1>5, <1>6, <1>7 DEF Handles, Undisturbed, Gated, Chosen, InState
<1> QED  BY <1>2, <1>3, <1>8, KeepsAfter

\* authorize and approve, at their first reading.
LEMMA FirstReadingKeeps ==
  ASSUME ProcsShaped, NEW p \in Procs, left["amend"] \in Nat, AuthorizeReads(p) \/ ApproveReads(p)
  PROVE  Keeps(p)'
<1>1. UNCHANGED git  BY DEF AuthorizeReads, ApproveReads
<1>3. \A task, impl : Found(task, impl).before = Record(tree) /\ Found(task, impl).task = task
  BY DEF Found
<1>4. Record(tree)["queue"] = tree["queue"]  BY TheDocuments DEF Record
<1>5. CASE AuthorizeReads(p)
  <2>1. Kind(p) = "authorize"  BY <1>5 DEF AuthorizeReads, At
  <2>2. CASE Refuses(p)  BY <2>2, GoesAnywhere DEF Refuses
  <2>3. CASE ~Refuses(p)
    <3>1. PICK task : task = proc[p].ask.task  OBVIOUS
    <3>2. task \in DOMAIN tree["queue"] /\ MayBeAuthorized(task) /\ Remembers(p, Found(task, {}))
      BY <1>5, <2>3, <3>1 DEF AuthorizeReads
    <3>3. Chosen("authorize", Found(task, {}))
      BY <1>3, <1>4, <3>2 DEF Chosen, MayBeAuthorized, CurrentTasks
    <3> QED  BY <1>1, <2>1, <3>2, <3>3, ReadingKeeps DEF OwnersGates
  <2> QED  BY <2>2, <2>3
<1>6. CASE ApproveReads(p)
  <2>1. Kind(p) = "approve"  BY <1>6 DEF ApproveReads, At
  <2>2. CASE Refuses(p)  BY <2>2, GoesAnywhere DEF Refuses
  <2>3. CASE ~Refuses(p)
    <3>1. PICK task : CurrentTasks(tree) = {task} /\ Remembers(p, Found(task, proc[p].ask.impl))
      BY <1>6, <2>3 DEF ApproveReads
    <3>2. task \in DOMAIN tree["queue"] /\ tree["queue"][task] = "Current"
      BY <3>1 DEF CurrentTasks, InState
    <3>3. Chosen("approve", Found(task, proc[p].ask.impl))  BY <1>3, <1>4, <3>2 DEF Chosen
    <3> QED  BY <1>1, <2>1, <3>1, <3>3, ReadingKeeps DEF OwnersGates
  <2> QED  BY <2>2, <2>3
<1> QED  BY <1>5, <1>6

\* What a gate has to write.
LEMMA AllUnwritten ==
  \A todo \in {AuthorizeWrites, ApproveWrites} :
    Unwritten(todo) /\ {"queue", "registry", "handover"} \subseteq Range(todo)
<1>1. ASSUME NEW todo, todo = AuthorizeWrites
      PROVE  Unwritten(todo) /\ {"queue", "registry", "handover"} \subseteq Range(todo)
  <2>1. /\ Len(todo) = 7 /\ DOMAIN todo = 1..7
        /\ todo[1] = "queue" /\ todo[2] = "remaining" /\ todo[3] = "current" /\ todo[4] = "project"
        /\ todo[5] = "registry" /\ todo[6] = "handover" /\ todo[7] = "checksum"
    BY <1>1 DEF AuthorizeWrites
  <2>2. Numbered(todo)  BY <1>1, <2>1 DEF Numbered, AuthorizeWrites
  <2>3. {"queue", "registry", "handover"} \subseteq Range(todo)  BY <2>1 DEF Range
  <2>4. \A m, n \in 1..7 : m < n => todo[m] # todo[n] /\ (todo[m] = "handover" => todo[n] = "checksum")
    BY <2>1
  <2> QED  BY <2>1, <2>2, <2>3, <2>4 DEF Unwritten
<1>2. ASSUME NEW todo, todo = ApproveWrites
      PROVE  Unwritten(todo) /\ {"queue", "registry", "handover"} \subseteq Range(todo)
  <2>1. /\ Len(todo) = 8 /\ DOMAIN todo = 1..8
        /\ todo[1] = "queue" /\ todo[2] = "current" /\ todo[3] = "remaining" /\ todo[4] = "project"
        /\ todo[5] = "registry" /\ todo[6] = "reports" /\ todo[7] = "handover" /\ todo[8] = "checksum"
    BY <1>2 DEF ApproveWrites
  <2>2. Numbered(todo)  BY <1>2, <2>1 DEF Numbered, ApproveWrites
  <2>3. {"queue", "registry", "handover"} \subseteq Range(todo)  BY <2>1 DEF Range
  <2>4. \A m, n \in 1..8 : m < n => todo[m] # todo[n] /\ (todo[m] = "handover" => todo[n] = "checksum")
    BY <2>1
  <2> QED  BY <2>1, <2>2, <2>3, <2>4 DEF Unwritten
<1> QED  BY <1>1, <1>2

\* Notes with other things to do.
NotesLike(new, made, field) == \A x \in GateFields \ {field, "backup"} : new[x] = made[x]

LEMMA NotesAreLike ==
  ASSUME NEW made, Gated(made), NEW x, NEW y
  PROVE  /\ Gated([made EXCEPT !.todo = x]) /\ NotesLike([made EXCEPT !.todo = x], made, "todo")
         /\ [made EXCEPT !.todo = x].todo = x
         /\ Gated([made EXCEPT !.backup = y, !.todo = x]) /\ NotesLike([made EXCEPT !.backup = y, !.todo = x], made, "todo")
         /\ [made EXCEPT !.backup = y, !.todo = x].todo = x
         /\ Gated([made EXCEPT !.changed = x]) /\ NotesLike([made EXCEPT !.changed = x], made, "changed")
         /\ [made EXCEPT !.changed = x].changed = x
BY DEF Gated, GateFields, NotesLike

\* It begins to write.
LEMMA BeginningKeeps ==
  ASSUME NEW p \in Procs, Keeps(p), Kind(p) \in OwnersGates, proc[p].pc = "validate",
         NEW todo, Unwritten(todo), {"queue", "registry", "handover"} \subseteq Range(todo),
         NEW new, Gated(new), NotesLike(new, proc[p].made, "todo"), new.todo = todo,
         Becomes(p, "write", proc[p].ask, proc[p].seen, proc[p].status, proc[p].again, new),
         UNCHANGED left, UNCHANGED git
  PROVE  Keeps(p)'
<1>1. PICK made : made = proc[p].made  OBVIOUS
<1>2. PICK kind : kind = Kind(p)  OBVIOUS
<1>3. /\ Chosen(kind, made) /\ made.amends \in Nat /\ left["amend"] <= made.amends
      /\ made.amends = left["amend"] => Undisturbed(kind, "validate", made)
  BY <1>1, <1>2 DEF Keeps, Handles, Sure
<1>4. new.before = made.before /\ new.task = made.task /\ new.amends = made.amends
  BY <1>1 DEF NotesLike, GateFields
<1>5. Chosen(kind, new)  BY <1>3, <1>4, StillChosen
<1>6. left' = left /\ tree' = tree  BY DEF git, disk
<1>7. ASSUME new.amends = left["amend"] PROVE Undisturbed(kind, "write", new)'
  <2>1. tree["queue"] = new.before["queue"] /\ tree["registry"] = new.before["registry"]
    BY <1>3, <1>4, <1>7 DEF Undisturbed
  <2>2. Rewritten(kind, new)'  BY <1>6, <2>1 DEF Rewritten
  <2>3. Unwritten(new.todo)  OBVIOUS
  <2> QED  BY <2>2, <2>3 DEF Undisturbed, Unwritten, Numbered, Range
<1>8. Handles(kind, "write", new)'
  BY <1>3, <1>4, <1>5, <1>6, <1>7 DEF Handles, Gated, Chosen, InState
<1> QED  BY <1>2, <1>8, KeepsAfter

LEMMA AuthorizeValidatingKeeps ==
  ASSUME ProcsShaped, NEW p \in Procs, Keeps(p), AuthorizeValidates(p)
  PROVE  Keeps(p)'
<1>1. Kind(p) = "authorize" /\ proc[p].pc = "validate" /\ UNCHANGED git
  BY DEF AuthorizeValidates, At
<1>2. CASE Refuses(p)  BY <1>2, GoesAnywhere DEF Refuses
<1>3. CASE ~Refuses(p)
  <2>1. PICK made : made = proc[p].made  OBVIOUS
  <2>2. PICK todo : todo = AuthorizeWrites  OBVIOUS
  <2>3. PICK new : new = [made EXCEPT !.todo = todo]  OBVIOUS
  <2>4. proc' = [proc EXCEPT ![p].pc = "write", ![p].made = new] /\ UNCHANGED left
    <3>1. proc' = [proc EXCEPT ![p].pc = "write", ![p].made.todo = AuthorizeWrites] /\ UNCHANGED left
      BY <1>3 DEF AuthorizeValidates, AuthorizeWrites
    <3>2. proc' = [proc EXCEPT ![p].pc = "write", ![p].made.todo = todo]  BY <2>2, <3>1
    <3>3. proc' = [proc EXCEPT ![p].pc = "write", ![p].made = new]
      BY <2>1, <2>3, <3>2 DEF ProcsShaped
    <3> QED  BY <3>1, <3>3
  <2>5. Becomes(p, "write", proc[p].ask, proc[p].seen, proc[p].status, proc[p].again, new)
    BY <2>4, GoesOn
  <2>6. Gated(made)  BY <1>1, <2>1 DEF Keeps, Handles, OwnersGates, Sure
  <2>7. Gated(new) /\ NotesLike(new, made, "todo") /\ new.todo = todo  BY <2>3, <2>6, NotesAreLike
  <2>8. Unwritten(todo) /\ {"queue", "registry", "handover"} \subseteq Range(todo)
    BY <2>2, AllUnwritten
  <2>9. Kind(p) \in OwnersGates /\ NotesLike(new, proc[p].made, "todo")
    BY <1>1, <2>1, <2>7 DEF OwnersGates
  <2> QED  BY <1>1, <2>4, <2>5, <2>7, <2>8, <2>9, BeginningKeeps
<1> QED  BY <1>2, <1>3

LEMMA CopyingKeeps ==
  ASSUME ProcsShaped, NEW p \in Procs, Keeps(p), ApproveCopies(p)
  PROVE  Keeps(p)'
<1>1. Kind(p) = "approve" /\ proc[p].pc = "validate" /\ UNCHANGED git  BY DEF ApproveCopies, At
<1>2. PICK made : made = proc[p].made  OBVIOUS
<1>3. PICK todo : todo = ApproveWrites  OBVIOUS
<1>4. PICK backup : backup = [at |-> writes, files |-> Record(tree), stamps |-> stamps]  OBVIOUS
<1>5. PICK new : new = [made EXCEPT !.backup = backup, !.todo = todo]  OBVIOUS
<1>6. proc' = [proc EXCEPT ![p].pc = "write", ![p].made = new] /\ UNCHANGED left
  BY <1>2, <1>3, <1>4, <1>5, ZenonT(40) DEF ApproveCopies, ApproveWrites, ProcsShaped
<1>7. Becomes(p, "write", proc[p].ask, proc[p].seen, proc[p].status, proc[p].again, new)
  BY <1>6, GoesOn
<1>8. Gated(made)  BY <1>1, <1>2 DEF Keeps, Handles, OwnersGates, Sure
<1>9. Gated(new) /\ NotesLike(new, made, "todo") /\ new.todo = todo
  BY <1>5, <1>8, NotesAreLike, ZenonT(40)
<1>10. Unwritten(todo) /\ {"queue", "registry", "handover"} \subseteq Range(todo)
  BY <1>3, AllUnwritten
<1>11. Kind(p) \in OwnersGates /\ NotesLike(new, proc[p].made, "todo")
  BY <1>1, <1>2, <1>9 DEF OwnersGates
<1> QED  BY <1>1, <1>6, <1>7, <1>9, <1>10, <1>11, BeginningKeeps

\* What is left when the first has been written.
LEMMA UnwrittenTail ==
  ASSUME NEW todo, Unwritten(todo), todo # <<>>
  PROVE  /\ Unwritten(Tail(todo))
         /\ \A d : d \in Range(Tail(todo)) <=> d \in Range(todo) /\ d # Head(todo)
         /\ Head(todo) \in Range(todo)
<1> DEFINE tail == Tail(todo)
<1>1. /\ Numbered(tail) /\ Len(todo) \in Nat \ {0} /\ Len(tail) = Len(todo) - 1
      /\ \A n \in 1..Len(tail) : tail[n] = todo[n + 1]  BY NumberedTail DEF Unwritten
<1>2. /\ Range(todo) = {todo[n] : n \in 1..Len(todo)} /\ DOMAIN todo = 1..Len(todo)
      /\ Range(tail) = {tail[n] : n \in 1..Len(tail)}
  <2>1. Numbered(todo)  BY DEF Unwritten
  <2> HIDE DEF tail
  <2> QED  BY <1>1, <2>1, RangeNumbered
<1>3. Head(todo) = todo[1] /\ 1 \in 1..Len(todo)  BY <1>1
<1> HIDE DEF tail
<1>4. \A m, n \in 1..Len(todo) : m < n =>
        todo[m] # todo[n] /\ (todo[m] = "handover" => todo[n] = "checksum")  BY DEF Unwritten
<1>5. \A n \in 1..Len(tail) : n + 1 \in 1..Len(todo) /\ 1 < n + 1  BY <1>1
<1>6. \A m, n \in 1..Len(tail) : m < n =>
        tail[m] # tail[n] /\ (tail[m] = "handover" => tail[n] = "checksum")
  <2> SUFFICES ASSUME NEW m \in 1..Len(tail), NEW n \in 1..Len(tail), m < n
               PROVE  tail[m] # tail[n] /\ (tail[m] = "handover" => tail[n] = "checksum")  OBVIOUS
  <2>1. m + 1 \in 1..Len(todo) /\ n + 1 \in 1..Len(todo) /\ m + 1 < n + 1  BY <1>5
  <2> QED  BY <1>1, <1>4, <2>1
<1>7. \A d \in Range(tail) : d \in Range(todo) /\ d # Head(todo)
  <2> SUFFICES ASSUME NEW n \in 1..Len(tail) PROVE tail[n] \in Range(todo) /\ tail[n] # Head(todo)
    BY <1>2
  <2>1. tail[n] = todo[n + 1] /\ todo[1] # todo[n + 1]  BY <1>1, <1>3, <1>4, <1>5
  <2> QED  BY <1>2, <1>3, <1>5, <2>1
<1>8. \A d \in Range(todo) : d # Head(todo) => d \in Range(tail)
  <2> SUFFICES ASSUME NEW n \in 1..Len(todo), todo[n] # Head(todo) PROVE todo[n] \in Range(tail)
    BY <1>2
  <2>1. n # 1  BY <1>3
  <2>2. n - 1 \in 1..Len(tail) /\ (n - 1) + 1 = n  BY <1>1, <2>1
  <2>3. tail[n - 1] = todo[n]  BY <1>1, <2>2
  <2> QED  BY <1>2, <2>2, <2>3
<1>9. ASSUME "handover" \notin Range(tail) PROVE Range(tail) \subseteq {"checksum"}
  <2>1. CASE Head(todo) = "handover"
    <3>1. \A n \in 1..Len(tail) : tail[n] = "checksum"  BY <1>1, <1>3, <1>4, <1>5, <2>1
    <3> QED  BY <1>2, <3>1
  <2>2. CASE Head(todo) # "handover"
    <3>1. "handover" \notin Range(todo)  BY <1>8, <1>9, <2>2
    <3>2. Range(todo) \subseteq {"checksum"}  BY <3>1 DEF Unwritten
    <3> QED  BY <1>7, <3>2
  <2> QED  BY <2>1, <2>2
<1>10. Unwritten(tail)  BY <1>1, <1>6, <1>9 DEF Unwritten
<1>11. Head(todo) \in Range(todo)  BY <1>2, <1>3
<1> QED  BY <1>7, <1>8, <1>10, <1>11 DEF tail

\* A gate that goes on with what it knows.
LEMMA KnowingKeeps ==
  ASSUME NEW p \in Procs, Keeps(p), proc[p].pc \in Sure,
         NEW kind \in OwnersGates, kind = Kind(p), NEW made, made = proc[p].made,
         NEW pc, NEW new, Gated(new),
         new.before = made.before, new.task = made.task, new.amends = made.amends,
         Becomes(p, pc, proc[p].ask, proc[p].seen, proc[p].status, proc[p].again, new),
         UNCHANGED left,
         Undisturbed(kind, proc[p].pc, made) => Undisturbed(kind, pc, new)'
  PROVE  Keeps(p)'
<1>1. /\ Chosen(kind, made) /\ made.amends \in Nat /\ left["amend"] <= made.amends
      /\ made.amends = left["amend"] => Undisturbed(kind, proc[p].pc, made)  BY DEF Keeps, Handles
<1>2. Chosen(kind, new)  BY <1>1, StillChosen
<1>3. left' = left  OBVIOUS
<1>4. new.amends = left["amend"] => Undisturbed(kind, pc, new)'  BY <1>1
<1>5. Handles(kind, pc, new)'  BY <1>1, <1>2, <1>3, <1>4 DEF Handles, Gated, Chosen, InState
<1> QED  BY <1>5, KeepsAfter

\* The next document is written.
LEMMA WritingRewrites ==
  ASSUME IsClone(tree), DiskSound, NEW kind \in OwnersGates, NEW made, NEW new,
         Rewritten(kind, made), Unwritten(made.todo), made.todo # <<>>,
         new.todo = Tail(made.todo), new.task = made.task, new.before = made.before,
         NEW document, document = Head(made.todo), NEW content, WritesDocument(document, content),
         document = "queue" =>
           content = [tree["queue"] EXCEPT ![made.task] = IF kind = "authorize" THEN "Current" ELSE "Done"],
         document = "registry" =>
           content = [t \in DOMAIN tree["registry"] |->
                        IF t = made.task THEN IF kind = "authorize" THEN "AUTHORIZED" ELSE "COMPLETE"
                        ELSE tree["registry"][t]]
  PROVE  Unwritten(new.todo) /\ Rewritten(kind, new)'
<1>1. PICK todo, rest : todo = made.todo /\ rest = new.todo  OBVIOUS
<1>2. /\ Unwritten(rest) /\ document \in Range(todo)
      /\ \A d : d \in Range(rest) <=> d \in Range(todo) /\ d # document  BY <1>1, UnwrittenTail
<1>3. {"queue", "registry"} \subseteq Paths /\ Summarized \cup {"handover"} \subseteq Documents
  BY TheDocuments, GitAssumption DEF Summarized
<1>4. \A d \in Paths : tree'[d] = IF d = document THEN content ELSE tree[d]
  BY DEF WritesDocument, IsClone
<1>5. /\ writes' = writes + 1
      /\ \A d \in Documents : stamps'[d] = (IF d = document THEN writes + 1 ELSE stamps[d])
                              /\ stamps[d] \in Int /\ stamps[d] <= writes
      /\ writes \in Int  BY DEF WritesDocument, DiskSound
<1> DEFINE status == IF kind = "authorize" THEN "Current" ELSE "Done"
           state == IF kind = "authorize" THEN "AUTHORIZED" ELSE "COMPLETE"
           queue == made.before["queue"]
           registry == made.before["registry"]
<1>6. /\ tree["queue"] = IF "queue" \in Range(todo) THEN queue ELSE [queue EXCEPT ![made.task] = status]
      /\ tree["registry"] =
           IF "registry" \in Range(todo) THEN registry
           ELSE [t \in DOMAIN registry |-> IF t = made.task THEN state ELSE registry[t]]
      /\ "handover" \notin Range(todo) => \A d \in Summarized : stamps[d] <= stamps["handover"]
  BY <1>1 DEF Rewritten
<1>7. /\ document = "queue" => content = [tree["queue"] EXCEPT ![made.task] = status]
      /\ document = "registry" =>
           content = [t \in DOMAIN tree["registry"] |-> IF t = made.task THEN state ELSE tree["registry"][t]]
  OBVIOUS
<1> HIDE DEF status, state, queue, registry
<1>8. tree'["queue"] = IF "queue" \in Range(rest) THEN queue ELSE [queue EXCEPT ![made.task] = status]
  BY <1>2, <1>3, <1>4, <1>6, <1>7
<1>9. tree'["registry"] =
        IF "registry" \in Range(rest) THEN registry
        ELSE [t \in DOMAIN registry |-> IF t = made.task THEN state ELSE registry[t]]
  <2>1. CASE document = "registry"  BY <1>2, <1>3, <1>4, <1>6, <1>7, <2>1
  <2>2. CASE document # "registry"  BY <1>2, <1>3, <1>4, <1>6, <2>2
  <2> QED  BY <2>1, <2>2
<1>10. ASSUME "handover" \notin Range(rest), NEW d \in Summarized PROVE stamps'[d] <= stamps'["handover"]
  <2>1. CASE document = "handover"  BY <1>3, <1>5, <2>1
  <2>2. CASE document # "handover"
    <3>1. "handover" \notin Range(todo)  BY <1>2, <1>10, <2>2
    <3>2. Range(todo) \subseteq {"checksum"}  BY <1>1, <3>1 DEF Unwritten
    <3>3. document = "checksum"  BY <1>2, <3>2
    <3>4. d # "checksum"  BY <1>10 DEF Summarized
    <3> QED  BY <1>3, <1>5, <1>6, <3>1, <3>3, <3>4
  <2> QED  BY <2>1, <2>2
<1> QED  BY <1>1, <1>2, <1>8, <1>9, <1>10 DEF Rewritten, status, state, queue, registry

LEMMA WritingKeeps ==
  ASSUME ProcsShaped, IsClone(tree), DiskSound, NEW p \in Procs, Keeps(p), GateWrites(p)
  PROVE  Keeps(p)'
<1>1. PICK made, kind : made = proc[p].made /\ kind = Kind(p)  OBVIOUS
<1>2. kind \in OwnersGates /\ proc[p].pc = "write" /\ made.todo # <<>>
  BY <1>1 DEF GateWrites, AtGate
<1>3. PICK document : document = Head(made.todo)  OBVIOUS
<1>4. CASE Fails(p)  BY <1>4, GoesAnywhere
<1>5. CASE /\ StillThere(document, made)
           /\ WritesDocument(document, IF kind = "authorize" THEN Authorized(document, made.task)
                                                             ELSE Closed(document, made.task))
           /\ proc' = [proc EXCEPT ![p].made.todo = Tail(@)]
           /\ UNCHANGED <<told, left>>
  <2>1. PICK new : new = [made EXCEPT !.todo = Tail(made.todo)]  OBVIOUS
  <2>2. proc' = [proc EXCEPT ![p].made = new]  BY <1>1, <1>5, <2>1 DEF ProcsShaped
  <2>3. Becomes(p, "write", proc[p].ask, proc[p].seen, proc[p].status, proc[p].again, new)
    BY <1>2, <2>2, GoesOn
  <2>4. Gated(made)  BY <1>1, <1>2 DEF Keeps, Handles, Sure
  <2>5. Gated(new) /\ NotesLike(new, made, "todo") /\ new.todo = Tail(made.todo)
    BY <2>1, <2>4, NotesAreLike
  <2>6. new.before = made.before /\ new.task = made.task /\ new.amends = made.amends
    BY <2>5 DEF NotesLike, GateFields
  <2>7. PICK content : content = IF kind = "authorize" THEN Authorized(document, made.task)
                                                       ELSE Closed(document, made.task)  OBVIOUS
  <2>8. WritesDocument(document, content)  BY <1>5, <2>7
  <2>9. document = "queue" =>
          content = [tree["queue"] EXCEPT ![made.task] = IF kind = "authorize" THEN "Current" ELSE "Done"]
    BY <1>2, <2>7 DEF Authorized, Closed
  <2>10. document = "registry" =>
           content = [t \in DOMAIN tree["registry"] |->
                        IF t = made.task THEN IF kind = "authorize" THEN "AUTHORIZED" ELSE "COMPLETE"
                        ELSE tree["registry"][t]]  BY <1>2, <2>7 DEF Authorized, Closed
  <2>11. ASSUME Undisturbed(kind, "write", made) PROVE Undisturbed(kind, "write", new)'
    <3>1. Rewritten(kind, made) /\ Unwritten(made.todo)  BY <2>11 DEF Undisturbed
    <3>2. Unwritten(new.todo) /\ Rewritten(kind, new)'
      BY <1>2, <1>3, <2>5, <2>6, <2>8, <2>9, <2>10, <3>1, WritingRewrites
    <3> QED  BY <3>2 DEF Undisturbed, Unwritten, Numbered, Range
  <2>12. proc[p].pc \in Sure  BY <1>2 DEF Sure
  <2> QED  BY <1>1, <1>2, <1>5, <2>3, <2>5, <2>6, <2>11, <2>12, KnowingKeeps
<1> QED  BY <1>1, <1>3, <1>4, <1>5 DEF GateWrites

\* The checks after the writing.
LEMMA ValidatingKeeps ==
  ASSUME ProcsShaped, NEW p \in Procs, Keeps(p), GateValidates(p)
  PROVE  Keeps(p)'
<1>1. PICK made, kind : made = proc[p].made /\ kind = Kind(p)  OBVIOUS
<1>2. kind \in OwnersGates /\ proc[p].pc = "write" /\ proc[p].pc \in Sure /\ made.todo = <<>> /\ UNCHANGED git
  BY <1>1 DEF GateValidates, AtGate, Sure
<1>3. CASE Fails(p)  BY <1>3, GoesAnywhere
<1>4. CASE TaskStateHolds(tree) /\ HandoverHolds(tree) /\ Goes(p, "changed")
  <2>1. Becomes(p, "changed", proc[p].ask, proc[p].seen, proc[p].status, proc[p].again, made) /\ UNCHANGED left
    BY <1>1, <1>4, GoesOn DEF Goes
  <2>2. Gated(made)  BY <1>1, <1>2 DEF Keeps, Handles
  <2>3. UNCHANGED <<tree, stamps, index>>  BY <1>2 DEF git, disk
  <2>4. ASSUME Undisturbed(kind, "write", made) PROVE Undisturbed(kind, "changed", made)'
    <3>1. Rewritten(kind, made)'  BY <2>3, <2>4 DEF Undisturbed, Rewritten
    <3>2. TaskStateHolds(tree)' /\ HandoverHolds(tree)'
      BY <1>4, <2>3 DEF TaskStateHolds, MirrorsAgree, CurrentTasks, InState, HandoverHolds
    <3> QED  BY <1>2, <3>1, <3>2 DEF Undisturbed
  <2> QED  BY <1>1, <1>2, <2>1, <2>2, <2>4, KnowingKeeps
<1> QED  BY <1>1, <1>3, <1>4 DEF GateValidates

\* What it has to stage.
LEMMA ChangedKeeps ==
  ASSUME ProcsShaped, NEW p \in Procs, Keeps(p), GateReadsChanged(p)
  PROVE  Keeps(p)'
<1>1. PICK made, kind : made = proc[p].made /\ kind = Kind(p)  OBVIOUS
<1>2. kind \in OwnersGates /\ proc[p].pc = "changed" /\ proc[p].pc \in Sure /\ UNCHANGED git
  BY <1>1 DEF GateReadsChanged, AtGate, Sure
<1>3. CASE Fails(p)  BY <1>3, GoesAnywhere
<1>4. CASE ~Fails(p)
  <2>1. PICK x : x = IF Kind(p) = "approve" THEN GateFiles(p) \cup proc[p].made.impl ELSE Modified \cup StagedNames
    OBVIOUS
  <2>2. /\ Modified \cup StagedNames \subseteq GateFiles(p) \cup proc[p].made.impl
        /\ proc' = [proc EXCEPT ![p].pc = "add", ![p].made.changed = x]
        /\ UNCHANGED left  BY <1>4, <2>1 DEF GateReadsChanged
  <2>3. Modified \subseteq x  BY <2>1, <2>2
  <2>4. PICK new : new = [made EXCEPT !.changed = x]  OBVIOUS
  <2>5. proc' = [proc EXCEPT ![p].pc = "add", ![p].made = new]  BY <1>1, <2>2, <2>4 DEF ProcsShaped
  <2>6. Becomes(p, "add", proc[p].ask, proc[p].seen, proc[p].status, proc[p].again, new)
    BY <2>5, GoesOn
  <2>7. Gated(made)  BY <1>1, <1>2 DEF Keeps, Handles
  <2>8. Gated(new) /\ NotesLike(new, made, "changed") /\ new.changed = x
    BY <2>4, <2>7, NotesAreLike
  <2>9. new.before = made.before /\ new.task = made.task /\ new.amends = made.amends /\ new.todo = made.todo
    BY <2>8 DEF NotesLike, GateFields
  <2>10. UNCHANGED <<tree, stamps, index>>  BY <1>2 DEF git, disk
  <2>11. \A d \in Documents \ x : index[d] = tree[d]  BY <2>3, GitAssumption DEF Modified, DiffNames
  <2>12. ASSUME Undisturbed(kind, "changed", made) PROVE Undisturbed(kind, "add", new)'
    <3>1. Rewritten(kind, new)'  BY <2>9, <2>10, <2>12 DEF Undisturbed, Rewritten
    <3>2. TaskStateHolds(tree)' /\ HandoverHolds(tree)'
      BY <2>10, <2>12 DEF Undisturbed, TaskStateHolds, MirrorsAgree, CurrentTasks, InState, HandoverHolds
    <3>3. new.todo = <<>>  BY <2>9, <2>12 DEF Undisturbed
    <3>4. \A d \in Documents \ new.changed : index'[d] = tree'[d]  BY <2>8, <2>10, <2>11
    <3> QED  BY <3>1, <3>2, <3>3, <3>4 DEF Undisturbed
  <2> QED  BY <1>1, <1>2, <2>2, <2>6, <2>8, <2>9, <2>12, KnowingKeeps
<1> QED  BY <1>3, <1>4

\* It stages them, and authorize counts what it has staged.
LEMMA StagingKeeps ==
  ASSUME ProcsShaped, NEW p \in Procs, Keeps(p), GateStages(p) \/ AuthorizeCountsStaged(p)
  PROVE  Keeps(p)'
<1>1. PICK made, kind : made = proc[p].made /\ kind = Kind(p)  OBVIOUS
<1>2. ASSUME kind \in OwnersGates, proc[p].pc \in {"add", "countStaged"}, NEW pc \in {"countStaged", "gateCommit"},
             Goes(p, pc), UNCHANGED <<tree, stamps>>,
             proc[p].pc = "add" => index' = [d \in Paths |-> IF d \in made.changed THEN tree[d] ELSE index[d]],
             proc[p].pc = "countStaged" => UNCHANGED index
      PROVE  Keeps(p)'
  <2>1. Becomes(p, pc, proc[p].ask, proc[p].seen, proc[p].status, proc[p].again, made) /\ UNCHANGED left
    BY <1>1, <1>2, GoesOn DEF Goes
  <2>2. proc[p].pc \in Sure  BY <1>2 DEF Sure
  <2>3. Gated(made)  BY <1>1, <1>2, <2>2 DEF Keeps, Handles
  <2>4. ASSUME Undisturbed(kind, proc[p].pc, made) PROVE Undisturbed(kind, pc, made)'
    <3>1. /\ Rewritten(kind, made) /\ made.todo = <<>> /\ TaskStateHolds(tree) /\ HandoverHolds(tree)
          /\ proc[p].pc = "add" => \A d \in Documents \ made.changed : index[d] = tree[d]
          /\ proc[p].pc = "countStaged" => \A d \in Documents : index[d] = tree[d]
      BY <1>2, <2>4 DEF Undisturbed
    <3>2. Rewritten(kind, made)'  BY <1>2, <3>1 DEF Rewritten
    <3>3. TaskStateHolds(tree)' /\ HandoverHolds(tree)'
      BY <1>2, <3>1 DEF TaskStateHolds, MirrorsAgree, CurrentTasks, InState, HandoverHolds
    <3>4. \A d \in Documents : index'[d] = tree'[d]  BY <1>2, <3>1, GitAssumption
    <3> QED  BY <1>2, <3>1, <3>2, <3>3, <3>4 DEF Undisturbed
  <2> QED  BY <1>1, <1>2, <2>1, <2>2, <2>3, <2>4, KnowingKeeps
<1>3. CASE GateStages(p)
  <2>1. /\ kind \in OwnersGates /\ proc[p].pc = "add" /\ UNCHANGED <<tree, stamps>>
        /\ index' = [d \in Paths |-> IF d \in made.changed THEN tree[d] ELSE index[d]]
    BY <1>1, <1>3 DEF GateStages, AtGate, GitAdd, disk
  <2>2. Goes(p, "countStaged") \/ Goes(p, "gateCommit")  BY <1>3 DEF GateStages
  <2> QED  BY <1>2, <2>1, <2>2
<1>4. CASE AuthorizeCountsStaged(p)
  <2>1. kind \in OwnersGates /\ proc[p].pc = "countStaged" /\ UNCHANGED <<tree, stamps, index>>
    BY <1>1, <1>4 DEF AuthorizeCountsStaged, At, OwnersGates, git, disk
  <2>2. Goes(p, "gateCommit") \/ Goes(p, "restore")  BY <1>4 DEF AuthorizeCountsStaged
  <2>3. Goes(p, "restore") => Keeps(p)'  BY GoesAnywhere DEF Sure
  <2> QED  BY <1>2, <2>1, <2>2, <2>3
<1> QED  BY <1>3, <1>4

\* A gate, at whatever point it is.
LEMMA GatingKeeps ==
  ASSUME ProcsShaped, IsClone(tree), DiskSound, left["amend"] \in Nat, NEW p \in Procs, Keeps(p), Gating(p)
  PROVE  Keeps(p)'
<1>1. ASSUME NEW ask, NEW pc, pc \notin Sure, Begin(p, ask, pc) PROVE Keeps(p)'
  <2>1. Becomes(p, pc, ask, Nothing, Nothing, Nothing, Nothing)  BY <1>1, Begins
  <2>2. proc'[p].pc = pc  BY <2>1 DEF Becomes
  <2> QED  BY <1>1, <2>2, KeepsNothing
<1>2. CASE StartsAuthorize(p) \/ StartsApprove(p)
  <2>1. \E ask, pc : pc \in {"authorizeHead", "approveReads"} /\ Begin(p, ask, pc)
    BY <1>2 DEF StartsAuthorize, StartsApprove
  <2> QED  BY <1>1, <2>1 DEF Sure
<1>3. CASE AuthorizeReadsHead(p)
  <2>1. Becomes(p, "authorizeReads", proc[p].ask, HeadAnswer, proc[p].status, proc[p].again, proc[p].made)
    BY <1>3, GoesOn DEF AuthorizeReadsHead
  <2>2. proc'[p].pc = "authorizeReads"  BY <2>1 DEF Becomes
  <2> QED  BY <2>2, KeepsNothing DEF Sure
<1>4. CASE GateCommits(p)
  <2>1. Goes(p, "gateVerify") \/ Goes(p, "restore")  BY <1>4 DEF GateCommits
  <2> QED  BY <2>1, GoesAnywhere DEF Sure
<1>5. CASE GateVerifies(p) \/ GateRestores(p)
  <2>1. proc' = [proc EXCEPT ![p] = Idle]  BY <1>5 DEF GateVerifies, GateRestores, Answers, Refuses
  <2> QED  BY <2>1, GoesAnywhere
<1> QED
  BY <1>2, <1>3, <1>4, <1>5, FirstReadingKeeps, AuthorizeValidatingKeeps, CopyingKeeps,
     WritingKeeps, ValidatingKeeps, ChangedKeeps, StagingKeeps DEF Gating

\* A step that is none of a gate's leaves every gate where it is, or ends it.
GatesStand ==
  \A q \in Procs :
    (Kind(q) \in OwnersGates \/ Kind(q)' \in OwnersGates) =>
      proc'[q] = proc[q] \/ proc'[q] = Idle \/ proc'[q].pc \in {"status", "statusAgain"}

LEMMA StepsLeaveGates ==
  ASSUME ProcsShaped, [Next]_vars, \A p \in Procs : ~Gating(p)
  PROVE  GatesStand
<1>1. ASSUME NEW p \in Procs,
             \/ Prompting(p) \/ Running(p) \/ Recording(p) \/ Committing(p) \/ Pushing(p) \/ Applying(p)
             \/ Proposing(p) \/ Posting(p) \/ Generating(p)
      PROVE  GatesStand
  <2>1. \E kind : kind \notin OwnersGates /\ Works(p, kind)
    BY <1>1, PromptingWorks, RunningWorks, RecordingWorks, CommittingWorks, PushingWorks,
       ApplyingWorks, ProposingWorks, PostingWorks, GeneratingWorks DEF OwnersGates
  <2> QED  BY <2>1 DEF Works, GatesStand, Kind, Idle, Nothing, OwnersGates
<1>2. ASSUME \A p \in Procs : proc'[p] = proc[p] \/ proc'[p] = Idle PROVE GatesStand
  BY <1>2 DEF GatesStand
<1>3. ASSUME NEW p \in Procs, Statuses(p) PROVE GatesStand
  <2>1. CASE ReadsHead(p) \/ ReadsHeadAgain(p)
    <3>1. PICK pc \in {"status", "statusAgain"} :
            \E seen, again : Becomes(p, pc, proc[p].ask, seen, proc[p].status, again, proc[p].made)
      BY <2>1, HeadIsAnswered
    <3> QED  BY <3>1 DEF Becomes, GatesStand
  <2>2. CASE Dies(p)  BY <1>2, <2>2, IdlesWork DEF Dies, Refuses
  <2> QED  BY <1>3, <2>1, <2>2 DEF Statuses
<1>4. CASE Steps
  <2>1. CASE People /\ UNCHANGED <<proc, told, files>>  BY <1>2, <2>1
  <2> QED  BY <1>1, <1>3, <1>4, <2>1 DEF Steps
<1>5. CASE Serving
  <2>1. CASE ServerStarts  BY <1>2, <2>1 DEF ServerStarts
  <2>2. CASE ServerStops
    <3>1. \A p \in Procs : proc'[p] = proc[p] \/ proc'[p] = Idle  BY <2>2 DEF ServerStops
    <3> QED  BY <1>2, <3>1
  <2> QED  BY <1>1, <1>5, <2>1, <2>2 DEF Serving
<1>6. CASE UNCHANGED vars  BY <1>2, <1>6 DEF vars, cmds
<1> QED  BY <1>1, <1>4, <1>5, <1>6 DEF Next

\* What the gates know goes on being so.
LEMMA RecordInvStays ==
  ASSUME WorkspaceInv, DiskInv, left \in [Limited -> Nat], RecordInv, [Next]_vars
  PROVE  RecordInv'
<1>1. ProcsShaped /\ IsClone(tree) /\ DiskSound  BY DEF WorkspaceInv, RepositorySound, DiskInv
<1>2. ScopesSound'  BY ScopesStay DEF RecordInv
<1>3. /\ left["amend"] \in Nat /\ left'["amend"] \in Nat /\ left'["amend"] <= left["amend"]
      /\ Spend("amend") => left'["amend"] < left["amend"]  BY StepTicks, AmendsDown
<1>4. \A p \in Procs : Keeps(p)  BY DEF RecordInv, Keeps
<1> SUFFICES ASSUME NEW q \in Procs PROVE Keeps(q)'  BY <1>2 DEF RecordInv, Keeps
<1>5. ASSUME NEW p \in Procs, Gating(p) PROVE Keeps(q)'
  <2>1. CASE q = p  BY <1>1, <1>3, <1>4, <1>5, <2>1, GatingKeeps
  <2>2. CASE q # p
    <3>1. Kind(p) \in OwnersGates \/ \A r \in Procs : Kind(r) \notin OwnersGates
      BY <1>5, GatesOwnTheirSteps
    <3>2. Kind(q) \notin OwnersGates  BY <2>2, <3>1 DEF DiskInv, OneGate
    <3>3. proc'[q] = proc[q]  BY <1>1, <1>5, <2>2, GatingWorks DEF Works
    <3> QED  BY <3>2, <3>3, KeepsNothing DEF Kind
  <2> QED  BY <2>1, <2>2
<1>6. CASE \A p \in Procs : ~Gating(p)
  <2>1. DocumentsRest \/ left'["amend"] < left["amend"]  BY <1>3, <1>6, StepRests DEF RecordInv
  <2>2. CASE Kind(q)' \notin OwnersGates \/ proc'[q].pc \notin Sure  BY <2>2, KeepsNothing
  <2>3. CASE Kind(q)' \in OwnersGates /\ proc'[q] = proc[q]
    <3>1. PICK kind, pc, made : kind = Kind(q) /\ pc = proc[q].pc /\ made = proc[q].made  OBVIOUS
    <3>2. Handles(kind, pc, made)  BY <1>4, <2>3, <3>1 DEF Keeps, Kind
    <3>3. Handles(kind, pc, made)'  BY <1>3, <2>1, <3>2, HandlingRests
    <3>4. Kind(q)' = kind /\ proc'[q].pc = pc /\ proc'[q].made = made  BY <2>3, <3>1 DEF Kind
    <3> QED  BY <3>3, <3>4 DEF Keeps, Handles, Gated, Chosen, InState, Undisturbed, Rewritten,
       TaskStateHolds, MirrorsAgree, CurrentTasks, HandoverHolds
  <2>4. CASE Kind(q)' \in OwnersGates /\ proc'[q].pc \in Sure
    <3>1. GatesStand  BY <1>1, <1>6, StepsLeaveGates
    <3>2. Kind(q)' = Idle.ask.kind => FALSE  BY <2>4 DEF Idle, Nothing, OwnersGates
    <3> QED  BY <2>3, <2>4, <3>1, <3>2 DEF GatesStand, Kind, Sure
  <2> QED  BY <2>2, <2>4
<1> QED  BY <1>5, <1>6

LEMMA RecordInvStarts ==
  ASSUME Init
  PROVE  RecordInv
<1>1. proc = [p \in Procs |-> Idle] /\ \E b \in Beginnings : metadata = b.prompts  BY DEF Init
<1>2. \A p \in Procs : Kind(p) = "nothing"  BY <1>1 DEF Kind, Idle, Nothing
<1>3. \A prompt \in metadata : prompt.allowed \subseteq Code  BY <1>1, BeginningsAssumption
<1> QED  BY <1>2, <1>3 DEF RecordInv, ScopesSound, OwnersGates

\* A gate knows, as long as nobody else amends the record, what it has made of
\* the documents so far: which task it moved and where it is in their order.
THEOREM RecordSound == Spec => []RecordInv
<1>1. Init => RecordInv  BY RecordInvStarts
<1>2. WorkspaceInv /\ DiskInv /\ SightInv /\ StoreInv /\ RecordInv /\ [Next]_vars => RecordInv'
  BY RecordInvStays DEF StoreInv
<1> QED  BY <1>1, <1>2, WorkspaceSound, ProposalsSound, StoreSound, PTL DEF Spec

----------------------------------------
\* Only a gate takes itself past its commit, and it has committed then.
LEMMA OnlyGatesCommit ==
  ASSUME ProcsShaped, [Next]_vars, NEW p \in Procs, AtGate(p, "gateCommit"), proc'[p].pc = "gateVerify"
  PROVE  GateCommits(p) /\ GitCommit(Kind(p))
<1>1. Kind(p) \in OwnersGates /\ proc[p].pc = "gateCommit" /\ proc[p] # Idle
  BY DEF AtGate, Kind, Idle, Nothing, OwnersGates
<1>2. proc'[p] # proc[p] /\ proc'[p] # Idle  BY <1>1 DEF Idle
<1>3. \E q \in Procs : Gating(q)
  <2> SUFFICES ASSUME \A q \in Procs : ~Gating(q) PROVE FALSE  OBVIOUS
  <2>1. GatesStand  BY StepsLeaveGates
  <2> QED  BY <1>1, <1>2, <2>1 DEF GatesStand
<1>4. Gating(p)  BY <1>2, <1>3, GatingWorks DEF Works
<1>5. GateCommits(p)
  BY <1>1, <1>4 DEF Gating, StartsAuthorize, StartsApprove, Begin, AuthorizeReadsHead,
     AuthorizeReads, AuthorizeValidates, ApproveReads, ApproveCopies, GateWrites, GateValidates,
     GateReadsChanged, GateStages, AuthorizeCountsStaged, GateVerifies, GateRestores, At, AtGate
<1>6. ~Goes(p, "restore")
  <2> SUFFICES ASSUME Goes(p, "restore") PROVE FALSE  OBVIOUS
  <2>1. Becomes(p, "restore", proc[p].ask, proc[p].seen, proc[p].status, proc[p].again, proc[p].made)
    BY GoesOn DEF Goes
  <2> QED  BY <2>1 DEF Becomes
<1> QED  BY <1>5, <1>6 DEF GateCommits

\* A record that agreed agrees when a gate has moved its task in it.
LEMMA MovedRecordAgrees ==
  ASSUME DiskSound, NEW kind \in OwnersGates, NEW made, Chosen(kind, made), Undisturbed(kind, "gateCommit", made),
         NEW before, before = made.before, RecordAgrees(before),
         NEW after, \A d \in Documents : after[d] = tree[d]
  PROVE  TaskMoves(kind, made.task, before, after)
<1> PICK task, queue, registry, status, state :
      /\ task = made.task /\ queue = before["queue"] /\ registry = before["registry"]
      /\ status = (IF kind = "authorize" THEN "Current" ELSE "Done")
      /\ state = (IF kind = "authorize" THEN "AUTHORIZED" ELSE "COMPLETE")  OBVIOUS
<1>1. Range(<<>>) = {}  BY DEF Range
<1>2. Rewritten(kind, made) /\ made.todo = <<>> /\ TaskStateHolds(tree) /\ HandoverHolds(tree)
  BY DEF Undisturbed
<1>3. /\ tree["queue"] = [queue EXCEPT ![task] = status]
      /\ tree["registry"] = [t \in DOMAIN registry |-> IF t = task THEN state ELSE registry[t]]
      /\ \A d \in Summarized : stamps[d] <= stamps["handover"]  BY <1>1, <1>2 DEF Rewritten
<1>4. TaskStateHolds(after) /\ HandoverHolds(after) /\ after["queue"] = tree["queue"] /\ after["registry"] = tree["registry"]
  <2>1. PICK files_ : files_ = tree  OBVIOUS
  <2>2. \A d \in Documents : after[d] = files_[d]  BY <2>1
  <2>3. /\ after["queue"] = files_["queue"] /\ after["registry"] = files_["registry"]
        /\ TaskStateHolds(after) <=> TaskStateHolds(files_)
        /\ HandoverHolds(after) <=> HandoverHolds(files_)  BY <2>2, SameRecord
  <2> QED  BY <1>2, <2>1, <2>3
<1>5. /\ task \in DOMAIN queue
      /\ kind = "authorize" => queue[task] = "Planned" /\ InState(queue, "Current") = {}
      /\ kind = "approve" => queue[task] = "Current"  BY DEF Chosen
<1>6. /\ DOMAIN after["queue"] = DOMAIN queue /\ after["queue"][task] = status
      /\ \A t \in DOMAIN queue \ {task} : after["queue"][t] = queue[t]  BY <1>3, <1>4, <1>5
<1>7. /\ DOMAIN after["registry"] = DOMAIN registry
      /\ \A t \in DOMAIN registry : after["registry"][t] = IF t = task THEN state ELSE registry[t]
  BY <1>3, <1>4
<1>8. RegistriesHold(after)
  <2> SUFFICES ASSUME NEW stage \in DOMAIN registry PROVE RowAgrees(after, stage)
    BY <1>7 DEF RegistriesHold
  <2>1. registry[stage] \in RegistryStates /\ stage \in DOMAIN queue /\ queue[stage] = MapsTo(registry[stage])
    BY DEF RecordAgrees, RegistriesHold, RowAgrees
  <2>2. state \in RegistryStates /\ MapsTo(state) = status  BY DEF RegistryStates, MapsTo
  <2>3. CASE stage = task  BY <1>6, <1>7, <2>1, <2>2, <2>3 DEF RowAgrees
  <2>4. CASE stage # task  BY <1>6, <1>7, <2>1, <2>4 DEF RowAgrees
  <2> QED  BY <2>3, <2>4
<1>9. DashboardAgrees(after)
  <2>1. MirrorsAgree(after) /\ Cardinality(CurrentTasks(after)) <= MaximumCurrentTasks
    BY <1>4 DEF TaskStateHolds
  <2>2. MirrorsFollowQueue(after)
    BY <2>1 DEF MirrorsAgree, MirrorsFollowQueue, CurrentTasks, Mirrors
  <2>3. SoleCurrent(after)  BY <2>1 DEF SoleCurrent, CurrentTasks
  <2>4. CompletedAreDone(after)
    <3>1. \A t \in DOMAIN after["project"] \cap DOMAIN after["queue"] : after["project"][t] = after["queue"][t]
      BY <2>1 DEF MirrorsAgree, Mirrors
    <3> QED  BY <3>1 DEF CompletedAreDone, InState
  <2>5. ManifestMatches(after)  BY <1>4 DEF HandoverHolds, ManifestMatches
  <2> QED  BY <2>2, <2>3, <2>4, <2>5 DEF DashboardAgrees
<1>10. ~HandoverIsStale(stamps)
  <2>1. "handover" \in Documents /\ Summarized \subseteq Documents  BY TheDocuments DEF Summarized
  <2>2. \A d \in Summarized : stamps[d] \in Int /\ stamps["handover"] \in Int /\ ~(stamps["handover"] < stamps[d])
    BY <1>3, <2>1 DEF DiskSound
  <2> QED  BY <2>2 DEF HandoverIsStale, Summarized
<1>11. BoardOffers(queue, task) = {status}
  <2>1. CASE kind = "authorize"  BY <1>5, <2>1 DEF BoardOffers
  <2>2. CASE kind = "approve"  BY <1>5, <2>2 DEF BoardOffers
  <2> QED  BY <2>1, <2>2 DEF OwnersGates
<1> QED  BY <1>4, <1>6, <1>8, <1>9, <1>10, <1>11 DEF RecordAgrees, TaskMoves

\* A gate that found the record in agreement commits a record in agreement in
\* which its own task has moved and no other, and the dashboard thinks so too,
\* when nobody else has amended the record since.
THEOREM RecordsAlwaysAgree == Spec => RecordsAgree
<1>1. ASSUME WorkspaceInv, DiskInv, RecordInv, [Next]_vars, NEW p \in Procs,
             AtGate(p, "gateCommit"), proc'[p].pc = "gateVerify",
             proc[p].made.amends = left["amend"], RecordAgrees(proc[p].made.before)
      PROVE  TaskMoves(Kind(p), proc[p].made.task, proc[p].made.before, commits'[head'].files)
  <2>1. PICK kind, made, before, after :
          kind = Kind(p) /\ made = proc[p].made /\ before = made.before /\ after = commits'[head'].files
    OBVIOUS
  <2>2. kind \in OwnersGates /\ proc[p].pc = "gateCommit"  BY <1>1, <2>1 DEF AtGate
  <2>3. Chosen(kind, made) /\ Undisturbed(kind, "gateCommit", made)
    <3>1. Handles(kind, "gateCommit", made)  BY <1>1, <2>1, <2>2 DEF RecordInv
    <3> QED  BY <1>1, <2>1, <3>1 DEF Handles, Sure
  <2>4. GitCommit(kind)  BY <1>1, <2>1, OnlyGatesCommit DEF WorkspaceInv
  <2>5. after = index
    <3>1. Numbered(commits)  BY <1>1 DEF WorkspaceInv, RepositorySound
    <3>2. PICK new : new = [parent |-> head, files |-> index, message |-> kind]  OBVIOUS
    <3>3. commits' = Append(commits, new) /\ head' = Len(commits) + 1  BY <2>4, <3>2 DEF GitCommit
    <3>4. Append(commits, new)[Len(commits) + 1] = new  BY <3>1, NumberedAppend
    <3> QED  BY <2>1, <3>2, <3>3, <3>4
  <2>6. \A d \in Documents : after[d] = tree[d]  BY <2>3, <2>5 DEF Undisturbed
  <2>7. DiskSound  BY <1>1 DEF DiskInv
  <2>8. RecordAgrees(before) /\ before = made.before  BY <1>1, <2>1
  <2>9. TaskMoves(kind, made.task, before, after)
    BY ONLY <2>2, <2>3, <2>6, <2>7, <2>8, MovedRecordAgrees
  <2> QED  BY <2>1, <2>9
<1>2. WorkspaceInv /\ DiskInv /\ SightInv /\ RecordInv /\ [Next]_vars =>
        [\A p \in Procs : CommitAgrees(p)]_vars  BY <1>1 DEF CommitAgrees
<1> QED  BY <1>2, WorkspaceSound, ProposalsSound, RecordSound, PTL DEF Spec, RecordsAgree
=============================================================================
