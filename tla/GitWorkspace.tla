---------------------------- MODULE GitWorkspace ----------------------------
(***************************************************************************)
(* The target repository as the engine's ordinary commands meet it: one    *)
(* branch with its upstream, the work tree and the index, and the people   *)
(* who use the repository while commands run.  Every Git process the       *)
(* engine starts (git/client.py for reading, git/writer.py for writing) is *)
(* one step or one value here; GitClient.status is several processes, so a *)
(* command takes its answer in two steps: HEAD with its distance from the  *)
(* upstream first, the porcelain records later.                            *)
(*                                                                         *)
(* A commit is its place in the order in which commits were made; a path   *)
(* holds one of a few contents, so modified, untracked and deleted are one *)
(* thing, a path whose content differs.  The repository stays on one       *)
(* branch, and nobody rewinds it.                                          *)
(*                                                                         *)
(* Some paths are governance documents.  Their readers also look at what   *)
(* the file system says of them (inode, size, mtime): a stamp, new at each *)
(* write.                                                                  *)
(***************************************************************************)
EXTENDS Integers, Sequences, FiniteSets

CONSTANTS
  Paths,       \* the paths of the repository
  Documents,   \* the governance documents among them; the others are code
  Contents,    \* what a path of code can hold, its absence included
  Amendments,  \* bound: what people write into which document
  MaxCommits   \* bound: the commits that are ever made

ASSUME GitAssumption ==
  /\ Paths # {} /\ IsFiniteSet(Paths)
  /\ Documents \subseteq Paths
  /\ Contents # {}
  /\ \A a \in Amendments : a.document \in Documents
  /\ MaxCommits \in Nat \ {0}

VARIABLES
  commits,    \* every commit: its parent, its files, its message
  head,       \* HEAD
  tracking,   \* the remote-tracking ref, @{upstream}
  remote,     \* the branch as the remote repository has it
  tree,       \* the work tree
  index,      \* the index
  stamps,     \* per document: what the file system says of the file
  writes,     \* how often documents have been written
  cleanAt     \* history: the HEADs at which tree, index and HEAD agreed

disk == <<tree, stamps, writes>>
git == <<commits, head, tracking, remote, disk, index, cleanAt>>

Code == Paths \ Documents

\* what a clone of these files can come to when its code is worked on
Worked(files) ==
  {[p \in Paths |-> IF p \in Code THEN code[p] ELSE files[p]] : code \in [Code -> Contents]}

Commits == DOMAIN commits

Ancestors(c) ==
  LET upTo[i \in 0..c] == IF i = 0 THEN {} ELSE {i} \cup upTo[commits[i].parent]
  IN  upTo[c]

DiffNames(f, g) == {p \in Paths : f[p] # g[p]}

-----------------------------------------------------------------------------
(* What a reading Git process answers.                                     *)

\* status --porcelain: the second column, untracked paths included
Modified == DiffNames(tree, index)

\* status --porcelain: the first column, and diff --cached --name-only
StagedNames == DiffNames(index, commits[head].files)

\* rev-list --left-right --count @{upstream}...HEAD
Behind == Cardinality(Ancestors(tracking) \ Ancestors(head))
Ahead == Cardinality(Ancestors(head) \ Ancestors(tracking))

HeadAnswer == [head |-> head, behind |-> Behind, ahead |-> Ahead]
Porcelain == [modified |-> Modified, staged |-> StagedNames]
IsClean(porcelain) == porcelain.modified = {} /\ porcelain.staged = {}

CommitChangeNames(parent, c) == DiffNames(commits[parent].files, commits[c].files)

\* git apply --check; an empty patch is refused as well
PatchFits(from, to) ==
  /\ from # to
  /\ \A p \in DiffNames(from, to) : tree[p] = from[p]

-----------------------------------------------------------------------------
(* What a writing Git process does.                                        *)

\* taken by every step that changes the repository
SeenClean ==
  cleanAt' = cleanAt \cup IF tree' = index' /\ index' = commits'[head'].files
                          THEN {head'} ELSE {}

GitAdd(ps) ==
  /\ index' = [p \in Paths |-> IF p \in ps THEN tree[p] ELSE index[p]]
  /\ UNCHANGED <<commits, head, tracking, remote, disk>>
  /\ SeenClean

GitRestoreStaged(ps) ==
  /\ index' = [p \in Paths |-> IF p \in ps THEN commits[head].files[p] ELSE index[p]]
  /\ UNCHANGED <<commits, head, tracking, remote, disk>>
  /\ SeenClean

\* fails when the index holds nothing new
GitCommit(message) ==
  /\ StagedNames # {}
  /\ commits' = Append(commits, [parent |-> head, files |-> index, message |-> message])
  /\ head' = Len(commits) + 1
  /\ UNCHANGED <<tracking, remote, disk, index>>
  /\ SeenClean

\* refused by the remote unless it is a fast-forward
GitPush ==
  /\ remote \in Ancestors(head)
  /\ remote' = head
  /\ tracking' = head
  /\ UNCHANGED <<commits, head, disk, index, cleanAt>>

\* git apply checks again that the patch fits, and writes all of it or nothing
GitApply(from, to) ==
  /\ PatchFits(from, to)
  /\ tree' = [p \in Paths |-> IF from[p] # to[p] THEN to[p] ELSE tree[p]]
  /\ writes' = writes + 1
  /\ stamps' = [d \in Documents |-> IF from[d] # to[d] THEN writes' ELSE stamps[d]]
  /\ UNCHANGED <<commits, head, tracking, remote, index>>
  /\ SeenClean

\* one document written, by whatever program
WritesDocument(document, content) ==
  /\ tree' = [tree EXCEPT ![document] = content]
  /\ writes' = writes + 1
  /\ stamps' = [stamps EXCEPT ![document] = writes']
  /\ UNCHANGED <<commits, head, tracking, remote, index>>
  /\ SeenClean

-----------------------------------------------------------------------------
(* People, at their own keyboards.                                         *)

PersonEdits ==
  \E p \in Code, c \in Contents :
    /\ tree[p] # c
    /\ tree' = [tree EXCEPT ![p] = c]
    /\ UNCHANGED <<commits, head, tracking, remote, stamps, writes, index>>
    /\ SeenClean

PersonAmends ==
  \E a \in Amendments :
    /\ tree[a.document] # a.content
    /\ WritesDocument(a.document, a.content)

PersonStages == \E p \in Modified : GitAdd({p})

PersonCommits ==
  \E ps \in SUBSET Modified :
    LET files == [p \in Paths |-> IF p \in ps THEN tree[p] ELSE index[p]]
    IN  /\ Len(commits) < MaxCommits
        /\ files # commits[head].files
        /\ commits' = Append(commits, [parent |-> head, files |-> files, message |-> "theirs"])
        /\ head' = Len(commits) + 1
        /\ index' = files
        /\ UNCHANGED <<tracking, remote, disk>>
        /\ SeenClean

PersonFetches ==
  /\ tracking # remote
  /\ tracking' = remote
  /\ UNCHANGED <<commits, head, remote, disk, index, cleanAt>>

\* someone with another clone pushes a commit of theirs
OthersPush ==
  \E files \in Worked(commits[remote].files) \ {commits[remote].files} :
    /\ Len(commits) < MaxCommits
    /\ commits' = Append(commits, [parent |-> remote, files |-> files, message |-> "theirs"])
    /\ remote' = Len(commits) + 1
    /\ UNCHANGED <<head, tracking, disk, index, cleanAt>>
=============================================================================
