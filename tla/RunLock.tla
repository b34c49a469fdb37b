-------------------------------- MODULE RunLock --------------------------------
(***************************************************************************)
(* The run lock of a repository and the publications made under it, while  *)
(* others may move away and recreate any directory or file on the way to   *)
(* the lock and to the record.  Inodes are numbered as they are created; a *)
(* descriptor that is open keeps its inode from being used again, and what *)
(* was moved away does not come back.                                      *)
(***************************************************************************)
EXTENDS Naturals, FiniteSets

CONSTANTS
    Procs,      \* processes that run commands
    MaxInodes,  \* bounds what is recreated
    MaxWrites   \* bounds the publications

ASSUME BoundsAssumption == MaxInodes \in Nat /\ MaxInodes >= 4 /\ MaxWrites \in Nat

VARIABLES
    canon,      \* the inode each canonical path leads to
    fresh,      \* the number of the next inode
    document,   \* the record in each run directory: its version and those it is built from
    writes,     \* publications so far; a document's version is its number
    confirmed,  \* versions whose publication was reported a success
    proc

vars == <<canon, fresh, document, writes, confirmed, proc>>

\* What _Ownership records of a hold: the target repository, the storage
\* root and run.lock.  The run directory is found below the root.
Bound == {"repository", "root", "lock"}
Places == Bound \union {"directory"}
Inodes == 1 .. MaxInodes
Versions == 1 .. MaxWrites

Empty == [version |-> 0, includes |-> {}]
Documents ==
    {d \in [version : 0 .. MaxWrites, includes : SUBSET Versions] :
        d = Empty \/ d.version \in d.includes}

\* own: the identities captured; lost: RunLock._lost; base: the versions the
\* record in memory is built from; directory: the descriptor a publication
\* opened; mine: the version it wrote; blind: did it replace a success it had
\* not read?
Exited == [pc |-> "idle", own |-> [b \in Bound |-> 1], lost |-> FALSE, base |-> {},
           directory |-> 1, mine |-> 0, blind |-> FALSE]

\* Program points at which the process holds the flock, has read the record,
\* and has replaced it.
Holding == {"locked", "held", "ready", "opened", "checked", "replaced", "synced", "verified"}
Loaded == Holding \ {"locked", "held"}
Wrote == {"replaced", "synced", "verified"}

Processes ==
    [pc : Holding \union {"idle", "open"}, own : [Bound -> Inodes], lost : BOOLEAN,
     base : SUBSET Versions, directory : Inodes, mine : 0 .. MaxWrites, blind : BOOLEAN]

At(p, pc) == proc[p].pc = pc
Goto(p, pc) == proc' = [proc EXCEPT ![p].pc = pc]
Storage == <<canon, fresh, document, writes, confirmed>>

Init ==
    /\ canon = [repository |-> 1, root |-> 2, lock |-> 3, directory |-> 4]
    /\ fresh = 5
    /\ document = [i \in Inodes |-> Empty]
    /\ writes = 0
    /\ confirmed = {}
    /\ proc = [p \in Procs |-> Exited]

(***************************************************************************)
(* Acquisition                                                             *)
(***************************************************************************)

\* The walk by descriptors, which follows no link: what each name leads to now.
Walked == [b \in Bound |-> canon[b]]

\* RunLock._open_confined_retaining: the walk to run.lock, which creates
\* what is missing; a place emptied and a place refilled look alike here.
OpenLock(p) ==
    /\ At(p, "idle")
    /\ proc' = [proc EXCEPT ![p].pc = "open", ![p].own = Walked]
    /\ UNCHANGED Storage

\* The kernel gives an inode's exclusive flock to one open file description.
\* Mutated form: LOCK_SH for LOCK_EX.
Locked_Shared(p) == FALSE
Locked(p) ==
    \E q \in Procs : q # p /\ proc[q].pc \in Holding /\ proc[q].own["lock"] = proc[p].own["lock"]

Flock(p) ==
    /\ At(p, "open")
    /\ ~Locked(p)
    /\ Goto(p, "locked")
    /\ UNCHANGED Storage

\* LockContention.
Contend(p) ==
    /\ At(p, "open")
    /\ Locked(p)
    /\ proc' = [proc EXCEPT ![p] = Exited]
    /\ UNCHANGED Storage

\* _write_holder and _capture_ownership: the root and the lock are captured
\* from their descriptors, the repository from its path.  Captured or not,
\* nothing is compared with the paths yet.
Capture(p) ==
    /\ At(p, "locked")
    /\ proc' = [proc EXCEPT ![p].pc = "held", ![p].own["repository"] = canon["repository"]]
    /\ UNCHANGED Storage

(***************************************************************************)
(* Ownership                                                               *)
(***************************************************************************)

\* RunLock.verify_ownership succeeds.  The walk compares one place after the
\* other; since nothing comes back, all of them agree when it begins.
\* Mutated form: is_held and an equal identity string are sufficient.
Owns_IsHeld(p) == proc[p].pc \in Holding \ {"locked"} /\ ~proc[p].lost
Owns(p) ==
    /\ proc[p].pc \in Holding \ {"locked"}
    /\ ~proc[p].lost
    /\ \A b \in Bound : proc[p].own[b] = canon[b]

\* verify_descriptor_ancestry: the run directory opened is still the one of that name.
DirectoryStands(p) == proc[p].directory = canon["directory"]

\* DurableTarget.guard.
Guard(p) == Owns(p) /\ DirectoryStands(p)

\* RunLock._lose, at any guard: a place disagrees, or could not be walked.
\* Whoever handles LockOwnershipLost still has the instance.
Lose(p) ==
    /\ proc[p].pc \in {"ready", "opened", "checked", "replaced", "synced"}
    /\ proc' = [proc EXCEPT ![p].lost = TRUE, ![p].pc = "ready"]
    /\ UNCHANGED Storage

(***************************************************************************)
(* A publication                                                           *)
(***************************************************************************)

\* RunStateStore.load reads by path.
Load(p) ==
    /\ At(p, "held")
    /\ proc' = [proc EXCEPT ![p].pc = "ready",
                            ![p].base = document[canon["directory"]].includes]
    /\ UNCHANGED Storage

\* _require_lock and DurableTarget.open_parent.
OpenParent(p) ==
    /\ At(p, "ready")
    /\ Owns(p)
    /\ proc' = [proc EXCEPT ![p].pc = "opened", ![p].directory = canon["directory"]]
    /\ UNCHANGED Storage

\* The temporary file is written and synced between two guards.
WriteTemporary(p) ==
    /\ At(p, "opened")
    /\ Guard(p)
    /\ Goto(p, "checked")
    /\ UNCHANGED Storage

\* The record that RunStateStore.publish serialises.
Updated(p, version) == proc[p].base \union {version}

\* os.replace, through the descriptor.
Replace(p) ==
    LET version == writes + 1
        directory == proc[p].directory
        includes == Updated(p, version)
    IN  /\ At(p, "checked")
        /\ version <= MaxWrites
        /\ writes' = version
        /\ document' = [document EXCEPT ![directory] = [version |-> version, includes |-> includes]]
        /\ proc' = [proc EXCEPT
               ![p].pc = "replaced", ![p].base = includes, ![p].mine = version,
               ![p].blind = document[directory].version \in confirmed \ proc[p].base]
        /\ UNCHANGED <<canon, fresh, confirmed>>

\* The guard after the replacement.
CheckReplaced(p) ==
    /\ At(p, "replaced")
    /\ Guard(p)
    /\ Goto(p, "synced")
    /\ UNCHANGED Storage

\* _fsync_ancestry: the barrier, and the last guard.
SyncAncestry(p) ==
    /\ At(p, "synced")
    /\ Guard(p)
    /\ Goto(p, "verified")
    /\ UNCHANGED Storage

\* The canonical name still has the inode written: a success.  The command
\* goes on to its next publication.
Acknowledge(p) ==
    /\ At(p, "verified")
    /\ document[proc[p].directory].version = proc[p].mine
    /\ confirmed' = confirmed \union {proc[p].mine}
    /\ proc' = [proc EXCEPT ![p].pc = "ready", ![p].blind = FALSE]
    /\ UNCHANGED <<canon, fresh, document, writes>>

\* PublicationUncertain, a failed write, the end of the command (release) or
\* of the process: the kernel drops the flock, the file stays.
Exit(p) ==
    /\ ~At(p, "idle")
    /\ proc' = [proc EXCEPT ![p] = Exited]
    /\ UNCHANGED Storage

(***************************************************************************)
(* The file system                                                         *)
(***************************************************************************)

\* Somebody moves a place away, or removes it, and there is a new one.
Recreate(place) ==
    /\ fresh <= MaxInodes
    /\ canon' = [canon EXCEPT ![place] = fresh]
    /\ fresh' = fresh + 1
    /\ UNCHANGED <<document, writes, confirmed, proc>>

Acquiring(p) == OpenLock(p) \/ Flock(p) \/ Contend(p) \/ Capture(p) \/ Load(p)
Publishing(p) ==
    \/ OpenParent(p) \/ WriteTemporary(p) \/ Replace(p)
    \/ CheckReplaced(p) \/ SyncAncestry(p) \/ Acknowledge(p)

Next ==
    \/ \E p \in Procs : Acquiring(p) \/ Publishing(p) \/ Lose(p) \/ Exit(p)
    \/ \E place \in Places : Recreate(place)

Spec == Init /\ [][Next]_vars

(***************************************************************************)
(* Properties                                                              *)
(***************************************************************************)

\* Every variable has its type.
TypeOK ==
    /\ canon \in [Places -> Inodes]
    /\ fresh \in 5 .. MaxInodes + 1
    /\ document \in [Inodes -> Documents]
    /\ writes \in 0 .. MaxWrites
    /\ confirmed \subseteq Versions
    /\ proc \in [Procs -> Processes]

\* Whatever is replaced, no two processes pass verify_ownership at the same
\* time (AUTO-018, INV-018-02): the lock is taken by inode, and an inode that
\* is locked but no longer canonical gives no authority.
OneOwner == \A p, q \in Procs : Owns(p) /\ Owns(q) => p = q

\* A publication that passed its last guard did not replace a success its
\* process had not read.  Between a guard and os.replace another process may
\* take over, so a success can be overwritten; then the one that did it is
\* told (LockOwnershipLost), and nothing of it is acknowledged.
NoBlindSuccess == \A p \in Procs : At(p, "verified") => ~proc[p].blind

\* Once a loss is detected, the process writes nothing under this hold.
LostIsSilent ==
    [][\A p \in Procs : proc[p].lost => proc'[p].mine \in {proc[p].mine, Exited.mine}]_vars
================================================================================
