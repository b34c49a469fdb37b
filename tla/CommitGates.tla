---------------------------- MODULE CommitGates -----------------------------
(***************************************************************************)
(* The three commands that write to the target repository, each behind a   *)
(* gate that reads live Git state, acts, and reads again (commit/gates.py):*)
(*                                                                         *)
(*   commit        stages and commits exactly what a human approved;       *)
(*   push          publishes the HEAD a human approved;                    *)
(*   apply-patch   applies the patch of a verified agent run to the tree.  *)
(*                                                                         *)
(* An approval is a file a human wrote: nothing consumes it, and two       *)
(* invocations can hold the same one.                                      *)
(***************************************************************************)
EXTENDS WorkflowEvents

CONSTANT Messages   \* what an approval may ask a commit to say

-----------------------------------------------------------------------------
(* commit --approval                                                       *)

\* an approval that lists a protected path is refused before Git is read
StartsCommit(p) ==
  \E parent \in Commits, allowed \in SUBSET Code \ {{}}, message \in Messages :
    /\ allowed \cap Protected = {}
    /\ Begin(p, [kind |-> "commit", head |-> parent, allowed |-> allowed,
                 message |-> message], "head")
    /\ UNCHANGED <<git, stores, files>>

\* HEAD as approved, a clean index, and the changed paths exactly the approved
CommitReadsStatus(p) ==
  LET ask == proc[p].ask
  IN  /\ At(p, "commit", "status")
      /\ IF /\ proc[p].seen.head = ask.head
            /\ Porcelain.staged = {}
            /\ Porcelain.modified = ask.allowed
         THEN Goes(p, "stage")
         ELSE Refuses(p)
      /\ UNCHANGED <<git, stores, files>>

CommitStages(p) ==
  /\ At(p, "commit", "stage")
  /\ GitAdd(proc[p].ask.allowed)
  /\ Goes(p, "staged")
  /\ UNCHANGED <<stores, files>>

CommitChecksStaged(p) ==
  /\ At(p, "commit", "staged")
  /\ Goes(p, IF StagedNames = proc[p].ask.allowed THEN "commit" ELSE "unstage")
  /\ UNCHANGED <<git, stores, files>>

CommitUnstages(p) ==
  /\ At(p, "commit", "unstage")
  /\ GitRestoreStaged(proc[p].ask.allowed)
  /\ Refuses(p)
  /\ UNCHANGED <<stores, files>>

\* git commit takes the index as it is now; with nothing in it, it fails
CommitCommits(p) ==
  /\ At(p, "commit", "commit")
  /\ \/ /\ StagedNames # {}
        /\ Len(commits) < MaxCommits
        /\ GitCommit(proc[p].ask.message)
        /\ Goes(p, "verify")
     \/ StagedNames = {} /\ Refuses(p) /\ UNCHANGED git
  /\ UNCHANGED <<stores, files>>

\* Mutated form: the parent is not compared.
CommitVerifies_Names(p) ==
  LET ask == proc[p].ask
  IN  /\ At(p, "commit", "verify")
      /\ IF /\ CommitChangeNames(ask.head, head) = ask.allowed
            /\ commits[head].message = ask.message
         THEN Answers(p, [commit |-> head])
         ELSE Refuses(p)
      /\ UNCHANGED <<git, stores, files>>

\* the post-hoc verification, of the HEAD that is there now
CommitVerifies(p) ==
  LET ask == proc[p].ask
      new == commits[head]
  IN  /\ At(p, "commit", "verify")
      /\ IF /\ new.parent = ask.head
            /\ CommitChangeNames(ask.head, head) = ask.allowed
            /\ new.message = ask.message
         THEN Answers(p, [commit |-> head])
         ELSE Refuses(p)
      /\ UNCHANGED <<git, stores, files>>

-----------------------------------------------------------------------------
(* push --approval                                                         *)

StartsPush(p) ==
  \E approved \in Commits :
    /\ Begin(p, [kind |-> "push", head |-> approved], "head")
    /\ UNCHANGED <<git, stores, files>>

PushReadsStatus(p) ==
  /\ At(p, "push", "status")
  /\ IF proc[p].seen.head = proc[p].ask.head /\ IsClean(Porcelain)
     THEN Goes(p, "count")
     ELSE Refuses(p)
  /\ UNCHANGED <<git, stores, files>>

\* strict_left_right_count and diff_check: a tree with conflict markers or
\* whitespace errors is one of the trees that are not clean
PushCounts(p) ==
  /\ At(p, "push", "count")
  /\ \/ Behind = 0 /\ Ahead > 0 /\ Goes(p, "push")
     \/ (Behind # 0 \/ Ahead = 0 \/ Modified # {}) /\ Refuses(p)
  /\ UNCHANGED <<git, stores, files>>

\* "git push", whatever HEAD is by now; the remote refuses what is not a
\* fast-forward and the gate ends with an ERROR
PushPushes(p) ==
  /\ At(p, "push", "push")
  /\ \/ GitPush /\ Answers(p, [published |-> head])
     \/ remote \notin Ancestors(head) /\ Refuses(p) /\ UNCHANGED git
  /\ UNCHANGED <<stores, files>>

-----------------------------------------------------------------------------
(* apply-patch                                                             *)

\* Mutated form: a run need not have passed.
StartsApply_Unverified(p) ==
  \E run \in records :
    /\ RunLoads(run)
    /\ run.prompt.stage \in ScopedWriteStages
    /\ Begin(p, [kind |-> "apply", run |-> run], "applyHead")
    /\ UNCHANGED <<git, stores, files>>

\* load_run, then the gates on what the record says
StartsApply(p) ==
  \E run \in records :
    /\ RunLoads(run)
    /\ run.passed
    /\ run.prompt.stage \in ScopedWriteStages
    /\ Begin(p, [kind |-> "apply", run |-> run], "applyHead")
    /\ UNCHANGED <<git, stores, files>>

ApplyReadsHead(p) ==
  /\ At(p, "apply", "applyHead")
  /\ IF head = proc[p].ask.run.prompt.head THEN Goes(p, "applyStatus") ELSE Refuses(p)
  /\ UNCHANGED <<git, stores, files>>

\* the status of the tree; the HEAD this status read is not looked at again
ApplyReadsStatus(p) ==
  /\ At(p, "apply", "applyStatus")
  /\ IF IsClean(Porcelain) THEN Goes(p, "applyCheck") ELSE Refuses(p)
  /\ UNCHANGED <<git, stores, files>>

ApplyChecks(p) ==
  LET run == proc[p].ask.run
  IN  /\ At(p, "apply", "applyCheck")
      /\ IF PatchFits(BaseFiles(run), run.files) THEN Goes(p, "apply") ELSE Refuses(p)
      /\ UNCHANGED <<git, stores, files>>

ApplyApplies(p) ==
  LET run == proc[p].ask.run
  IN  /\ At(p, "apply", "apply")
      /\ \/ GitApply(BaseFiles(run), run.files) /\ Goes(p, "applied")
         \/ ~PatchFits(BaseFiles(run), run.files) /\ Refuses(p) /\ UNCHANGED git
      /\ UNCHANGED <<stores, files>>

ApplyAnswers(p) ==
  /\ At(p, "apply", "applied")
  /\ Answers(p, [paths |-> Modified])
  /\ UNCHANGED <<git, stores, files>>
=============================================================================
