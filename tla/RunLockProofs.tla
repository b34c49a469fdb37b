----------------------------- MODULE RunLockProofs -----------------------------
(***************************************************************************)
(* Theorems about RunLock, for any number of processes and any bounds,     *)
(* and, in its second half, about FeatureState.                            *)
(***************************************************************************)
EXTENDS RunLock, FeatureState, TLAPS

\* The kernel's part: an inode's flock has one holder.
FlockExclusive ==
    \A p, q \in Procs :
        /\ proc[p].pc \in Holding /\ proc[q].pc \in Holding
        /\ proc[p].own["lock"] = proc[q].own["lock"]
        => p = q

\* What is created next is unlike everything seen so far.
NothingReturns ==
    /\ \A place \in Places : canon[place] < fresh
    /\ \A p \in Procs : proc[p].directory < fresh /\ \A b \in Bound : proc[p].own[b] < fresh
    /\ \A i \in Inodes : i >= fresh => document[i] = Empty

\* Versions are those of past publications, and a writer's own is in its
\* record.
VersionsArePast ==
    /\ \A v \in confirmed : v <= writes
    /\ \A p \in Procs :
        /\ proc[p].mine <= writes
        /\ proc[p].pc \in Wrote => proc[p].mine \in proc[p].base

LostWaits == \A p \in Procs : proc[p].lost => At(p, "ready")

\* The owner has read whatever success it may overwrite, and whatever a
\* process it took over from may still acknowledge.
CanonVersion == document[canon["directory"]].version

OwnerHasRead ==
    \A p \in Procs : proc[p].pc \in Loaded /\ Owns(p) =>
        /\ CanonVersion \in confirmed => CanonVersion \in proc[p].base
        /\ \A q \in Procs : At(q, "verified") /\ CanonVersion = proc[q].mine
               => proc[q].mine \in proc[p].base

OwnerIsNotBlind ==
    \A p \in Procs :
        /\ proc[p].pc \in Wrote /\ Guard(p) => ~proc[p].blind
        /\ At(p, "verified") => ~proc[p].blind

LockInv ==
    /\ TypeOK
    /\ FlockExclusive
    /\ NothingReturns
    /\ VersionsArePast
    /\ LostWaits
    /\ OwnerHasRead
    /\ OwnerIsNotBlind

\* Two owners would hold the flock of one inode.
LEMMA OwnersAreOne ==
    ASSUME FlockExclusive
    PROVE  OneOwner
BY DEF FlockExclusive, OneOwner, Owns, Holding, Bound

--------------------------------------------------------------------------------
\* A document's fields.
LEMMA DocumentType ==
    ASSUME NEW d \in Documents
    PROVE  /\ d.version \in 0 .. MaxWrites
           /\ d.includes \subseteq Versions
           /\ d.version # 0 => d.version \in d.includes
BY DEF Documents, Empty

\* A process whose fields are replaced, one or several.
LEMMA FieldType ==
    ASSUME NEW r \in Processes
    PROVE  /\ \A pc \in Holding \union {"idle", "open"} : [r EXCEPT !.pc = pc] \in Processes
           /\ \A own \in [Bound -> Inodes] : [r EXCEPT !.own = own] \in Processes
           /\ \A base \in SUBSET Versions : [r EXCEPT !.base = base] \in Processes
           /\ \A i \in Inodes : [r EXCEPT !.directory = i] \in Processes
           /\ \A v \in 0 .. MaxWrites : [r EXCEPT !.mine = v] \in Processes
           /\ \A b \in BOOLEAN : [r EXCEPT !.blind = b] \in Processes
           /\ \A b \in BOOLEAN : [r EXCEPT !.lost = b] \in Processes
BY SMTT(30) DEF Processes

LEMMA FieldsType ==
    ASSUME NEW r \in Processes, NEW pc \in Holding \union {"idle", "open"}
    PROVE  /\ \A own \in [Bound -> Inodes] : [r EXCEPT !.pc = pc, !.own = own] \in Processes
           /\ \A base \in SUBSET Versions : [r EXCEPT !.pc = pc, !.base = base] \in Processes
           /\ \A i \in Inodes : [r EXCEPT !.pc = pc, !.directory = i] \in Processes
           /\ \A base \in SUBSET Versions, v \in 0 .. MaxWrites, b \in BOOLEAN :
                  [r EXCEPT !.pc = pc, !.base = base, !.mine = v, !.blind = b] \in Processes
<1> DEFINE q == [r EXCEPT !.pc = pc]
<1>1. q \in Processes
  BY FieldType
<1>2. ASSUME NEW own \in [Bound -> Inodes] PROVE [r EXCEPT !.pc = pc, !.own = own] \in Processes
  <2>1. [q EXCEPT !.own = own] \in Processes
    <3> HIDE DEF q
    <3> QED
      BY <1>1, FieldType
  <2> QED
    BY <2>1
<1>3. ASSUME NEW base \in SUBSET Versions PROVE [r EXCEPT !.pc = pc, !.base = base] \in Processes
  <2>1. [q EXCEPT !.base = base] \in Processes
    <3> HIDE DEF q
    <3> QED
      BY <1>1, FieldType
  <2> QED
    BY <2>1
<1>4. ASSUME NEW i \in Inodes PROVE [r EXCEPT !.pc = pc, !.directory = i] \in Processes
  <2>1. [q EXCEPT !.directory = i] \in Processes
    <3> HIDE DEF q
    <3> QED
      BY <1>1, FieldType
  <2> QED
    BY <2>1
<1>5. ASSUME NEW base \in SUBSET Versions, NEW v \in 0 .. MaxWrites, NEW b \in BOOLEAN
      PROVE  [r EXCEPT !.pc = pc, !.base = base, !.mine = v, !.blind = b] \in Processes
  <2> DEFINE with == [r EXCEPT !.pc = pc, !.base = base]
             then == [with EXCEPT !.mine = v]
  <2>1. with \in Processes
    BY <1>3
  <2>2. then \in Processes
    <3> HIDE DEF with
    <3> QED
      BY <2>1, FieldType
  <2>3. [then EXCEPT !.blind = b] \in Processes
    <3> HIDE DEF then
    <3> QED
      BY <2>2, FieldType
  <2> QED
    BY <2>3
<1> QED
  BY <1>2, <1>3, <1>4, <1>5

\* A process moves to another program point.
LEMMA GotoMoves ==
    ASSUME TypeOK, NEW s \in Procs, NEW pc \in Holding \union {"idle", "open"}, Goto(s, pc)
    PROVE  /\ proc' \in [Procs -> Processes]
           /\ \A q \in Procs \ {s} : proc'[q] = proc[q]
           /\ proc'[s].pc = pc /\ proc'[s].own = proc[s].own /\ proc'[s].lost = proc[s].lost
           /\ proc'[s].base = proc[s].base /\ proc'[s].directory = proc[s].directory
           /\ proc'[s].mine = proc[s].mine /\ proc'[s].blind = proc[s].blind
<1> DEFINE moved == [proc[s] EXCEPT !.pc = pc]
<1>1. proc' = [proc EXCEPT ![s] = moved] /\ proc \in [Procs -> Processes]
  BY DEF Goto, TypeOK
<1>2. proc[s] \in Processes
  BY <1>1
<1>3. moved \in Processes
  BY <1>2, FieldType
<1>4. /\ moved.pc = pc /\ moved.own = proc[s].own /\ moved.lost = proc[s].lost
      /\ moved.base = proc[s].base /\ moved.directory = proc[s].directory
      /\ moved.mine = proc[s].mine /\ moved.blind = proc[s].blind
  BY <1>2 DEF Processes
<1> HIDE DEF moved
<1>5. proc' \in [Procs -> Processes] /\ proc'[s] = moved
  BY <1>1, <1>3
<1>6. \A q \in Procs \ {s} : proc'[q] = proc[q]
  BY <1>1
<1> QED
  BY <1>4, <1>5, <1>6

\* What the replacement leaves of a process, and what it changes.
LEMMA ReplaceMoves ==
    ASSUME TypeOK, NEW s \in Procs, Replace(s)
    PROVE  /\ \A q \in Procs \ {s} : proc'[q] = proc[q]
           /\ proc[s].pc = "checked" /\ proc'[s].pc = "replaced" /\ proc'[s].own = proc[s].own
           /\ proc'[s].lost = proc[s].lost /\ proc'[s].directory = proc[s].directory
           /\ proc'[s].base = proc[s].base \union {writes + 1}
           /\ proc'[s].blind = (document[proc[s].directory].version \in confirmed \ proc[s].base)
<1> DEFINE blind == document[proc[s].directory].version \in confirmed \ proc[s].base
           updated == Updated(s, writes + 1)
           version == writes + 1
           wrote == [proc[s] EXCEPT !.pc = "replaced", !.base = updated, !.mine = version,
                                    !.blind = blind]
<1>1. proc' = [proc EXCEPT ![s] = wrote] /\ proc \in [Procs -> Processes] /\ proc[s].pc = "checked"
  BY DEF TypeOK, Replace, At
<1>2. proc[s] \in Processes
  BY <1>1
<1>3. updated = proc[s].base \union {version}
  BY DEF Updated
<1>4. /\ wrote.pc = "replaced" /\ wrote.base = updated /\ wrote.blind = blind
      /\ wrote.own = proc[s].own /\ wrote.lost = proc[s].lost
      /\ wrote.directory = proc[s].directory
  <2> HIDE DEF updated, version, blind
  <2> QED
    BY <1>2 DEF Processes
<1> HIDE DEF wrote
<1>5. proc'[s] = wrote /\ \A q \in Procs \ {s} : proc'[q] = proc[q]
  BY <1>1
<1> QED
  BY <1>1, <1>3, <1>4, <1>5

\* A process that has ended.
LEMMA ExitedType ==
    ASSUME TypeOK, NEW s \in Procs, proc' = [proc EXCEPT ![s] = Exited]
    PROVE  /\ proc' \in [Procs -> Processes]
           /\ proc'[s] = Exited
           /\ \A q \in Procs \ {s} : proc'[q] = proc[q]
<1>1. Exited \in Processes
  BY BoundsAssumption DEF Exited, Processes, Inodes
<1> QED
  BY <1>1 DEF TypeOK

\* Every step keeps the types.
LEMMA TypeStep ==
    ASSUME LockInv, [Next]_vars
    PROVE  TypeOK'
<1>1. CASE UNCHANGED vars
  BY <1>1 DEF LockInv, vars, TypeOK
<1>2. ASSUME NEW s \in Procs, OpenLock(s) PROVE TypeOK'
  <2> USE <1>2 DEF LockInv, OpenLock, Walked, TypeOK
  <2> DEFINE walked == [b \in Bound |-> canon[b]]
  <2>1. proc' = [proc EXCEPT ![s].pc = "open", ![s].own = walked] /\ walked \in [Bound -> Inodes]
    BY DEF Places
  <2> DEFINE opened == [proc[s] EXCEPT !.pc = "open", !.own = walked]
  <2>2. proc' = [proc EXCEPT ![s] = opened] /\ proc[s] \in Processes
    BY <2>1
  <2> HIDE DEF walked
  <2>3. opened \in Processes
    BY <2>1, <2>2, FieldsType DEF Holding
  <2> HIDE DEF opened
  <2>4. proc' \in [Procs -> Processes]
    BY <2>2, <2>3
  <2> QED
    BY <2>4 DEF Storage
<1>3. ASSUME NEW s \in Procs, Flock(s) PROVE TypeOK'
  <2>1. proc' \in [Procs -> Processes]
    BY <1>3, GotoMoves DEF LockInv, Flock, Holding
  <2> QED
    BY <1>3, <2>1 DEF LockInv, Flock, Storage, TypeOK
<1>4. ASSUME NEW s \in Procs, Contend(s) PROVE TypeOK'
  <2>1. proc' \in [Procs -> Processes]
    BY <1>4, ExitedType DEF LockInv, Contend
  <2> QED
    BY <1>4, <2>1 DEF LockInv, Contend, Storage, TypeOK
<1>5. ASSUME NEW s \in Procs, Capture(s) PROVE TypeOK'
  <2> USE <1>5 DEF LockInv, Capture, Storage, TypeOK
  <2>1. canon["repository"] \in Inodes /\ proc[s].own \in [Bound -> Inodes] /\ proc[s] \in Processes
    BY DEF Places, Bound, Processes
  <2>2. [proc[s] EXCEPT !.pc = "held", !.own["repository"] = canon["repository"]] \in Processes
    BY <2>1 DEF Processes, Holding
  <2> QED
    BY <2>2
<1>6. ASSUME NEW s \in Procs, Load(s) PROVE TypeOK'
  <2> USE <1>6 DEF LockInv, Load, Storage, TypeOK
  <2>1. canon["directory"] \in Inodes
    BY DEF Places
  <2>2. document[canon["directory"]].includes \subseteq Versions
    BY <2>1, DocumentType
  <2> DEFINE read == document[canon["directory"]].includes
  <2>3. proc' = [proc EXCEPT ![s].pc = "ready", ![s].base = read] /\ read \in SUBSET Versions
    BY <2>2
  <2> DEFINE loaded == [proc[s] EXCEPT !.pc = "ready", !.base = read]
  <2>4. proc' = [proc EXCEPT ![s] = loaded] /\ proc[s] \in Processes
    BY <2>3
  <2> HIDE DEF read
  <2>5. loaded \in Processes
    BY <2>3, <2>4, FieldsType DEF Holding
  <2> HIDE DEF loaded
  <2>6. proc' \in [Procs -> Processes]
    BY <2>4, <2>5
  <2> QED
    BY <2>6
<1>7. ASSUME NEW s \in Procs, OpenParent(s) PROVE TypeOK'
  <2> USE <1>7 DEF LockInv, OpenParent, TypeOK
  <2>1. canon["directory"] \in Inodes
    BY DEF Places
  <2> DEFINE opened == [proc[s] EXCEPT !.pc = "opened", !.directory = canon["directory"]]
  <2>2. proc' = [proc EXCEPT ![s] = opened] /\ proc[s] \in Processes
    OBVIOUS
  <2>3. opened \in Processes
    BY <2>1, <2>2, FieldsType DEF Holding
  <2> HIDE DEF opened
  <2>4. proc' \in [Procs -> Processes]
    BY <2>2, <2>3
  <2> QED
    BY <2>4 DEF Storage
<1>8. ASSUME NEW s \in Procs, WriteTemporary(s) PROVE TypeOK'
  <2>1. proc' \in [Procs -> Processes]
    BY <1>8, GotoMoves DEF LockInv, WriteTemporary, Holding
  <2> QED
    BY <1>8, <2>1 DEF LockInv, WriteTemporary, Storage, TypeOK
<1>9. ASSUME NEW s \in Procs, Replace(s) PROVE TypeOK'
  <2> USE <1>9 DEF LockInv, Replace, TypeOK
  <2>1. writes + 1 \in Versions /\ proc[s].base \subseteq Versions /\ proc[s].directory \in Inodes
    BY BoundsAssumption DEF Versions, Processes
  <2>2. Updated(s, writes + 1) \subseteq Versions
    BY <2>1 DEF Updated
  <2>3. writes + 1 \in 0 .. MaxWrites
    BY <2>1 DEF Versions
  <2>4. [version |-> writes + 1, includes |-> Updated(s, writes + 1)] \in Documents
    <3>1. writes + 1 \in Updated(s, writes + 1)
      BY DEF Updated
    <3> QED
      BY <2>2, <2>3, <3>1 DEF Documents
  <2>5. document' \in [Inodes -> Documents]
    BY <2>4
  <2> DEFINE blind == document[proc[s].directory].version \in confirmed \ proc[s].base
             updated == Updated(s, writes + 1)
             version == writes + 1
             wrote == [proc[s] EXCEPT !.pc = "replaced", !.base = updated, !.mine = version,
                                      !.blind = blind]
  <2>6. proc' = [proc EXCEPT ![s] = wrote]
    OBVIOUS
  <2>7. blind \in BOOLEAN /\ updated \in SUBSET Versions /\ version \in 0 .. MaxWrites
    BY <2>2, <2>3
  <2>8. proc[s] \in Processes
    OBVIOUS
  <2> HIDE DEF blind, updated, version
  <2>9. wrote \in Processes
    BY <2>7, <2>8, FieldsType DEF Holding
  <2> HIDE DEF wrote
  <2>10. proc' \in [Procs -> Processes]
    BY <2>6, <2>9
  <2>11. /\ canon' \in [Places -> Inodes] /\ fresh' \in 5 .. MaxInodes + 1
         /\ confirmed' \subseteq Versions /\ writes' \in 0 .. MaxWrites
    BY <2>3
  <2> QED
    BY <2>5, <2>10, <2>11
<1>10. ASSUME NEW s \in Procs, CheckReplaced(s) PROVE TypeOK'
  <2>1. proc' \in [Procs -> Processes]
    BY <1>10, GotoMoves DEF LockInv, CheckReplaced, Holding
  <2> QED
    BY <1>10, <2>1 DEF LockInv, CheckReplaced, Storage, TypeOK
<1>11. ASSUME NEW s \in Procs, SyncAncestry(s) PROVE TypeOK'
  <2>1. proc' \in [Procs -> Processes]
    BY <1>11, GotoMoves DEF LockInv, SyncAncestry, Holding
  <2> QED
    BY <1>11, <2>1 DEF LockInv, SyncAncestry, Storage, TypeOK
<1>12. ASSUME NEW s \in Procs, Acknowledge(s) PROVE TypeOK'
  <2> USE <1>12 DEF LockInv, Acknowledge, TypeOK
  <2> DEFINE then == [proc[s] EXCEPT !.pc = "ready"]
             acknowledged == [then EXCEPT !.blind = FALSE]
  <2>1. proc[s] \in Processes
    OBVIOUS
  <2>2. then \in Processes
    BY <2>1, FieldType DEF Holding
  <2>3. acknowledged \in Processes
    <3> HIDE DEF then
    <3> QED
      BY <2>2, FieldType
  <2>4. proc' = [proc EXCEPT ![s] = acknowledged]
    OBVIOUS
  <2>5. proc' \in [Procs -> Processes]
    <3> HIDE DEF acknowledged
    <3> QED
      BY <2>3, <2>4
  <2>6. confirmed' \subseteq Versions
    <3>1. proc[s].mine \in Versions
      BY <2>1, BoundsAssumption DEF VersionsArePast, Wrote, Processes, At, Versions
    <3> QED
      BY <3>1
  <2> QED
    BY <2>5, <2>6
<1>13. ASSUME NEW s \in Procs, Lose(s) PROVE TypeOK'
  <2> USE <1>13 DEF LockInv, Lose, TypeOK
  <2> DEFINE lost == [proc[s] EXCEPT !.lost = TRUE]
             back == [lost EXCEPT !.pc = "ready"]
  <2>1. lost \in Processes
    BY FieldType
  <2>2. back \in Processes
    <3> HIDE DEF lost
    <3> QED
      BY <2>1, FieldType DEF Holding
  <2>3. proc' = [proc EXCEPT ![s] = back]
    OBVIOUS
  <2>4. proc' \in [Procs -> Processes]
    <3> HIDE DEF back
    <3> QED
      BY <2>2, <2>3
  <2> QED
    BY <2>4 DEF Storage
<1>14. ASSUME NEW s \in Procs, Exit(s) PROVE TypeOK'
  <2>1. proc' \in [Procs -> Processes]
    BY <1>14, ExitedType DEF LockInv, Exit
  <2> QED
    BY <1>14, <2>1 DEF LockInv, Exit, Storage, TypeOK
<1>15. ASSUME NEW place \in Places, Recreate(place) PROVE TypeOK'
  BY <1>15, BoundsAssumption DEF LockInv, Recreate, TypeOK, Inodes
<1>16. QED
  BY <1>1, <1>2, <1>3, <1>4, <1>5, <1>6, <1>7, <1>8, <1>9, <1>10, <1>11, <1>12, <1>13, <1>14,
     <1>15 DEF Next, Acquiring, Publishing

\* Every step keeps the flock exclusive.
LEMMA FlockStep ==
    ASSUME LockInv, [Next]_vars
    PROVE  FlockExclusive'
<1>1. CASE UNCHANGED vars
  BY <1>1 DEF LockInv, vars, TypeOK, FlockExclusive, Holding, Bound
<1>2. ASSUME NEW s \in Procs, OpenLock(s) PROVE FlockExclusive'
  BY <1>2 DEF LockInv, OpenLock, Walked, At, Storage, TypeOK, FlockExclusive, Holding, Bound
<1>3. ASSUME NEW s \in Procs, Flock(s) PROVE FlockExclusive'
  BY <1>3 DEF LockInv, Flock, At, Goto, Storage, TypeOK, FlockExclusive, Holding, Bound, Locked
<1>4. ASSUME NEW s \in Procs, Contend(s) PROVE FlockExclusive'
  BY <1>4 DEF LockInv, Contend, At, Storage, Exited, TypeOK, FlockExclusive, Holding, Bound
<1>5. ASSUME NEW s \in Procs, Capture(s) PROVE FlockExclusive'
  BY <1>5 DEF LockInv, Capture, At, Storage, TypeOK, FlockExclusive, Holding, Bound
<1>6. ASSUME NEW s \in Procs, Load(s) PROVE FlockExclusive'
  BY <1>6 DEF LockInv, Load, At, Storage, TypeOK, FlockExclusive, Holding, Bound
<1>7. ASSUME NEW s \in Procs, OpenParent(s) PROVE FlockExclusive'
  BY <1>7 DEF LockInv, OpenParent, At, Storage, TypeOK, FlockExclusive, Holding, Bound
<1>8. ASSUME NEW s \in Procs, WriteTemporary(s) PROVE FlockExclusive'
  BY <1>8 DEF LockInv, WriteTemporary, At, Goto, Storage, TypeOK, FlockExclusive, Holding, Bound
<1>9. ASSUME NEW s \in Procs, Replace(s) PROVE FlockExclusive'
  BY <1>9 DEF LockInv, Replace, At, TypeOK, FlockExclusive, Holding, Bound
<1>10. ASSUME NEW s \in Procs, CheckReplaced(s) PROVE FlockExclusive'
  BY <1>10 DEF LockInv, CheckReplaced, At, Goto, Storage, TypeOK, FlockExclusive, Holding, Bound
<1>11. ASSUME NEW s \in Procs, SyncAncestry(s) PROVE FlockExclusive'
  BY <1>11 DEF LockInv, SyncAncestry, At, Goto, Storage, TypeOK, FlockExclusive, Holding, Bound
<1>12. ASSUME NEW s \in Procs, Acknowledge(s) PROVE FlockExclusive'
  BY <1>12 DEF LockInv, Acknowledge, At, TypeOK, FlockExclusive, Holding, Bound
<1>13. ASSUME NEW s \in Procs, Lose(s) PROVE FlockExclusive'
  BY <1>13 DEF LockInv, Lose, Storage, TypeOK, FlockExclusive, Holding, Bound
<1>14. ASSUME NEW s \in Procs, Exit(s) PROVE FlockExclusive'
  BY <1>14 DEF LockInv, Exit, At, Storage, Exited, TypeOK, FlockExclusive, Holding, Bound
<1>15. ASSUME NEW place \in Places, Recreate(place) PROVE FlockExclusive'
  BY <1>15 DEF LockInv, Recreate, TypeOK, FlockExclusive, Holding, Bound
<1>16. QED
  BY <1>1, <1>2, <1>3, <1>4, <1>5, <1>6, <1>7, <1>8, <1>9, <1>10, <1>11, <1>12, <1>13, <1>14,
     <1>15 DEF Next, Acquiring, Publishing

\* Nothing comes back.
LEMMA FreshStep ==
    ASSUME LockInv, [Next]_vars
    PROVE  NothingReturns'
<1>1. CASE UNCHANGED vars
  BY <1>1 DEF LockInv, vars, TypeOK, NothingReturns, Places, Bound, Inodes
<1>2. ASSUME NEW s \in Procs, OpenLock(s) PROVE NothingReturns'
  BY <1>2 DEF LockInv, OpenLock, Walked, At, Storage, TypeOK, NothingReturns, Places, Bound, Inodes
<1>3. ASSUME NEW s \in Procs, Flock(s) PROVE NothingReturns'
  BY <1>3 DEF LockInv, Flock, At, Goto, Storage, TypeOK, NothingReturns, Places, Bound, Inodes
<1>4. ASSUME NEW s \in Procs, Contend(s) PROVE NothingReturns'
  BY <1>4 DEF LockInv, Contend, At, Storage, Exited, TypeOK, NothingReturns, Places, Bound, Inodes
<1>5. ASSUME NEW s \in Procs, Capture(s) PROVE NothingReturns'
  BY <1>5 DEF LockInv, Capture, At, Storage, TypeOK, NothingReturns, Places, Bound, Inodes
<1>6. ASSUME NEW s \in Procs, Load(s) PROVE NothingReturns'
  BY <1>6 DEF LockInv, Load, At, Storage, TypeOK, NothingReturns, Places, Bound, Inodes
<1>7. ASSUME NEW s \in Procs, OpenParent(s) PROVE NothingReturns'
  BY <1>7 DEF LockInv, OpenParent, At, Storage, TypeOK, NothingReturns, Places, Bound, Inodes
<1>8. ASSUME NEW s \in Procs, WriteTemporary(s) PROVE NothingReturns'
  BY <1>8 DEF LockInv, WriteTemporary, At, Goto, Storage, TypeOK, NothingReturns, Places, Bound,
    Inodes
<1>9. ASSUME NEW s \in Procs, Replace(s) PROVE NothingReturns'
  BY <1>9 DEF LockInv, Replace, At, TypeOK, NothingReturns, Places, Bound, Inodes
<1>10. ASSUME NEW s \in Procs, CheckReplaced(s) PROVE NothingReturns'
  BY <1>10 DEF LockInv, CheckReplaced, At, Goto, Storage, TypeOK, NothingReturns, Places, Bound,
    Inodes
<1>11. ASSUME NEW s \in Procs, SyncAncestry(s) PROVE NothingReturns'
  BY <1>11 DEF LockInv, SyncAncestry, At, Goto, Storage, TypeOK, NothingReturns, Places, Bound,
    Inodes
<1>12. ASSUME NEW s \in Procs, Acknowledge(s) PROVE NothingReturns'
  BY <1>12 DEF LockInv, Acknowledge, At, TypeOK, NothingReturns, Places, Bound, Inodes
<1>13. ASSUME NEW s \in Procs, Lose(s) PROVE NothingReturns'
  BY <1>13 DEF LockInv, Lose, Storage, TypeOK, NothingReturns, Places, Bound, Inodes
<1>14. ASSUME NEW s \in Procs, Exit(s) PROVE NothingReturns'
  BY <1>14 DEF LockInv, Exit, At, Storage, Exited, TypeOK, NothingReturns, Places, Bound, Inodes
<1>15. ASSUME NEW place \in Places, Recreate(place) PROVE NothingReturns'
  <2> USE <1>15 DEF LockInv, Recreate, TypeOK, NothingReturns
  <2>1. fresh \in Nat /\ \A q \in Places : canon[q] \in Nat
    BY DEF Inodes
  <2>2. \A p \in Procs : proc[p].directory \in Nat /\ \A b \in Bound : proc[p].own[b] \in Nat
    BY DEF Processes, Inodes
  <2>3. \A q \in Places : canon'[q] < fresh'
    BY <2>1
  <2>4. \A p \in Procs : proc'[p].directory < fresh' /\ \A b \in Bound : proc'[p].own[b] < fresh'
    BY <2>1, <2>2
  <2>5. \A i \in Inodes : i >= fresh' => document'[i] = Empty
    BY <2>1 DEF Inodes
  <2> QED
    BY <2>3, <2>4, <2>5
<1>16. QED
  BY <1>1, <1>2, <1>3, <1>4, <1>5, <1>6, <1>7, <1>8, <1>9, <1>10, <1>11, <1>12, <1>13, <1>14,
     <1>15 DEF Next, Acquiring, Publishing

\* Versions are past.
LEMMA PastStep ==
    ASSUME LockInv, [Next]_vars
    PROVE  VersionsArePast'
<1>1. CASE UNCHANGED vars
  BY <1>1 DEF LockInv, vars, TypeOK, VersionsArePast, Wrote, Versions
<1>2. ASSUME NEW s \in Procs, OpenLock(s) PROVE VersionsArePast'
  BY <1>2 DEF LockInv, OpenLock, Walked, At, Storage, TypeOK, VersionsArePast, Wrote, Versions
<1>3. ASSUME NEW s \in Procs, Flock(s) PROVE VersionsArePast'
  BY <1>3 DEF LockInv, Flock, At, Goto, Storage, TypeOK, VersionsArePast, Wrote, Versions
<1>4. ASSUME NEW s \in Procs, Contend(s) PROVE VersionsArePast'
  BY <1>4 DEF LockInv, Contend, At, Storage, Exited, TypeOK, VersionsArePast, Wrote, Versions
<1>5. ASSUME NEW s \in Procs, Capture(s) PROVE VersionsArePast'
  BY <1>5 DEF LockInv, Capture, At, Storage, TypeOK, VersionsArePast, Wrote, Versions
<1>6. ASSUME NEW s \in Procs, Load(s) PROVE VersionsArePast'
  BY <1>6 DEF LockInv, Load, At, Storage, TypeOK, VersionsArePast, Wrote, Versions
<1>7. ASSUME NEW s \in Procs, OpenParent(s) PROVE VersionsArePast'
  BY <1>7 DEF LockInv, OpenParent, At, Storage, TypeOK, VersionsArePast, Wrote, Versions
<1>8. ASSUME NEW s \in Procs, WriteTemporary(s) PROVE VersionsArePast'
  BY <1>8 DEF LockInv, WriteTemporary, At, Goto, Storage, TypeOK, VersionsArePast, Wrote, Versions
<1>9. ASSUME NEW s \in Procs, Replace(s) PROVE VersionsArePast'
  <2> USE <1>9 DEF LockInv, Replace, TypeOK, VersionsArePast
  <2>1. \A v \in confirmed : v \in Nat
    BY DEF Versions
  <2>2. \A p \in Procs : proc[p].mine \in Nat
    BY DEF Processes
  <2>3. \A p \in Procs \ {s} : proc'[p] = proc[p]
    OBVIOUS
  <2>4. proc'[s].mine = writes + 1 /\ proc'[s].base = proc[s].base \union {writes + 1}
    BY DEF Updated
  <2> QED
    BY <2>1, <2>2, <2>3, <2>4 DEF Wrote
<1>10. ASSUME NEW s \in Procs, CheckReplaced(s) PROVE VersionsArePast'
  BY <1>10 DEF LockInv, CheckReplaced, At, Goto, Storage, TypeOK, VersionsArePast, Wrote, Versions
<1>11. ASSUME NEW s \in Procs, SyncAncestry(s) PROVE VersionsArePast'
  BY <1>11 DEF LockInv, SyncAncestry, At, Goto, Storage, TypeOK, VersionsArePast, Wrote, Versions
<1>12. ASSUME NEW s \in Procs, Acknowledge(s) PROVE VersionsArePast'
  BY <1>12 DEF LockInv, Acknowledge, At, TypeOK, VersionsArePast, Wrote, Versions
<1>13. ASSUME NEW s \in Procs, Lose(s) PROVE VersionsArePast'
  BY <1>13 DEF LockInv, Lose, Storage, TypeOK, VersionsArePast, Wrote, Versions
<1>14. ASSUME NEW s \in Procs, Exit(s) PROVE VersionsArePast'
  BY <1>14 DEF LockInv, Exit, At, Storage, Exited, TypeOK, VersionsArePast, Wrote, Versions
<1>15. ASSUME NEW place \in Places, Recreate(place) PROVE VersionsArePast'
  BY <1>15 DEF LockInv, Recreate, TypeOK, VersionsArePast, Wrote, Versions
<1>16. QED
  BY <1>1, <1>2, <1>3, <1>4, <1>5, <1>6, <1>7, <1>8, <1>9, <1>10, <1>11, <1>12, <1>13, <1>14,
     <1>15 DEF Next, Acquiring, Publishing

\* A process that lost its hold waits.
LEMMA LostStep ==
    ASSUME LockInv, [Next]_vars
    PROVE  LostWaits'
<1>1. CASE UNCHANGED vars
  BY <1>1 DEF LockInv, vars, TypeOK, Processes, LostWaits, At
<1>2. ASSUME NEW s \in Procs, OpenLock(s) PROVE LostWaits'
  BY <1>2 DEF LockInv, OpenLock, Walked, At, Storage, TypeOK, Processes, LostWaits
<1>3. ASSUME NEW s \in Procs, Flock(s) PROVE LostWaits'
  BY <1>3 DEF LockInv, Flock, At, Goto, Storage, TypeOK, Processes, LostWaits
<1>4. ASSUME NEW s \in Procs, Contend(s) PROVE LostWaits'
  BY <1>4 DEF LockInv, Contend, At, Storage, Exited, TypeOK, Processes, LostWaits
<1>5. ASSUME NEW s \in Procs, Capture(s) PROVE LostWaits'
  BY <1>5 DEF LockInv, Capture, At, Storage, TypeOK, Processes, LostWaits
<1>6. ASSUME NEW s \in Procs, Load(s) PROVE LostWaits'
  BY <1>6 DEF LockInv, Load, At, Storage, TypeOK, Processes, LostWaits
<1>7. ASSUME NEW s \in Procs, OpenParent(s) PROVE LostWaits'
  BY <1>7 DEF LockInv, OpenParent, At, Storage, TypeOK, Processes, LostWaits, Owns
<1>8. ASSUME NEW s \in Procs, WriteTemporary(s) PROVE LostWaits'
  BY <1>8 DEF LockInv, WriteTemporary, At, Goto, Storage, TypeOK, Processes, LostWaits
<1>9. ASSUME NEW s \in Procs, Replace(s) PROVE LostWaits'
  BY <1>9 DEF LockInv, Replace, At, TypeOK, Processes, LostWaits
<1>10. ASSUME NEW s \in Procs, CheckReplaced(s) PROVE LostWaits'
  BY <1>10 DEF LockInv, CheckReplaced, At, Goto, Storage, TypeOK, Processes, LostWaits
<1>11. ASSUME NEW s \in Procs, SyncAncestry(s) PROVE LostWaits'
  BY <1>11 DEF LockInv, SyncAncestry, At, Goto, Storage, TypeOK, Processes, LostWaits
<1>12. ASSUME NEW s \in Procs, Acknowledge(s) PROVE LostWaits'
  BY <1>12 DEF LockInv, Acknowledge, At, TypeOK, Processes, LostWaits
<1>13. ASSUME NEW s \in Procs, Lose(s) PROVE LostWaits'
  BY <1>13 DEF LockInv, Lose, At, Storage, TypeOK, Processes, LostWaits
<1>14. ASSUME NEW s \in Procs, Exit(s) PROVE LostWaits'
  BY <1>14 DEF LockInv, Exit, At, Storage, Exited, TypeOK, Processes, LostWaits
<1>15. ASSUME NEW place \in Places, Recreate(place) PROVE LostWaits'
  BY <1>15 DEF LockInv, Recreate, TypeOK, Processes, LostWaits, At
<1>16. QED
  BY <1>1, <1>2, <1>3, <1>4, <1>5, <1>6, <1>7, <1>8, <1>9, <1>10, <1>11, <1>12, <1>13, <1>14,
     <1>15 DEF Next, Acquiring, Publishing

\* No hold survives the recreation of a place it was captured at, and
\* a new run directory has no record.
LEMMA RecreateDisowns ==
    ASSUME LockInv, NEW place \in Places, Recreate(place)
    PROVE  /\ \A p \in Procs : Owns(p)' => Owns(p) /\ place = "directory"
           /\ place = "directory" =>
                /\ CanonVersion' = 0
                /\ \A p \in Procs : proc[p].directory # canon'["directory"]
<1> USE DEF LockInv, Recreate, TypeOK, NothingReturns
<1>1. fresh \in Inodes /\ canon'[place] = fresh /\ \A q \in Places \ {place} : canon'[q] = canon[q]
  BY BoundsAssumption DEF Inodes
<1>2. \A p \in Procs : proc[p].directory < fresh /\ \A b \in Bound : proc[p].own[b] < fresh
  OBVIOUS
<1>3. \A p \in Procs : proc[p].directory # fresh /\ \A b \in Bound : proc[p].own[b] # fresh
  BY <1>1, <1>2 DEF Processes, Inodes
<1>4. ASSUME NEW p \in Procs, Owns(p)' PROVE Owns(p) /\ place = "directory"
  <2>1. place \notin Bound
    BY <1>1, <1>3, <1>4 DEF Owns
  <2>2. \A b \in Bound : canon'[b] = canon[b]
    BY <1>1, <2>1 DEF Places
  <2> QED
    BY <1>4, <2>1, <2>2 DEF Owns, Places
<1>5. document[fresh] = Empty
  BY <1>1 DEF Inodes
<1>6. QED
  BY <1>1, <1>3, <1>4, <1>5 DEF CanonVersion, Empty

\* The owner has read what it may overwrite.
LEMMA ReadStep ==
    ASSUME LockInv, [Next]_vars
    PROVE  OwnerHasRead'
<1>1. CASE UNCHANGED vars
  BY <1>1 DEF LockInv, vars, TypeOK, OwnerHasRead, Owns, At, Loaded, CanonVersion
<1>2. ASSUME NEW s \in Procs, OpenLock(s) PROVE OwnerHasRead'
  BY <1>2 DEF LockInv, OpenLock, Walked, At, Storage, OwnerHasRead, Owns, Loaded, Holding, CanonVersion,
    TypeOK, Processes
<1>3. ASSUME NEW s \in Procs, Flock(s) PROVE OwnerHasRead'
  BY <1>3 DEF LockInv, Flock, At, Goto, Storage, OwnerHasRead, Owns, Loaded, Holding,
    CanonVersion, TypeOK, Processes
<1>4. ASSUME NEW s \in Procs, Contend(s) PROVE OwnerHasRead'
  BY <1>4 DEF LockInv, Contend, At, Storage, OwnerHasRead, Owns, Loaded, Holding, CanonVersion,
    Exited, TypeOK, Processes
<1>5. ASSUME NEW s \in Procs, Capture(s) PROVE OwnerHasRead'
  BY <1>5 DEF LockInv, Capture, At, Storage, OwnerHasRead, Owns, Loaded, Holding, CanonVersion,
    TypeOK, Processes
<1>6. ASSUME NEW s \in Procs, Load(s) PROVE OwnerHasRead'
  <2> USE <1>6 DEF LockInv, Load, Storage
  <2> SUFFICES ASSUME NEW p \in Procs, proc'[p].pc \in Loaded, Owns(p)', NEW q \in Procs
               PROVE  /\ (CanonVersion \in confirmed => CanonVersion \in proc[p].base)'
                      /\ (At(q, "verified") /\ CanonVersion = proc[q].mine
                            => proc[q].mine \in proc[p].base)'
    BY DEF OwnerHasRead
  <2>1. /\ \A r \in Procs \ {s} : proc'[r] = proc[r]
        /\ proc'[s].pc = "ready" /\ proc'[s].mine = proc[s].mine
        /\ proc'[s].base = document[canon["directory"]].includes
        /\ CanonVersion' = CanonVersion
    BY DEF TypeOK, Processes, CanonVersion
  <2>2. CanonVersion # 0 => CanonVersion \in document[canon["directory"]].includes
    BY DocumentType DEF TypeOK, Places, CanonVersion
  <2>3. 0 \notin confirmed
    BY DEF TypeOK, Versions
  <2>4. At(q, "verified") => proc[q].mine # 0
    BY BoundsAssumption DEF TypeOK, Processes, Versions, VersionsArePast, At, Wrote
  <2>5. CASE p = s
    BY <2>1, <2>2, <2>3, <2>4, <2>5 DEF At
  <2>6. CASE p # s
    <3>1. proc'[p] = proc[p] /\ proc[p].pc \in Loaded /\ Owns(p)
      <4>1. canon' = canon
        OBVIOUS
      <4> HIDE <1>6 DEF LockInv, Load
      <4> QED
        BY <2>1, <2>6, <4>1 DEF Owns
    <3>2. At(q, "verified")' => At(q, "verified")
      BY <2>1 DEF At
    <3>3. proc'[q].mine = proc[q].mine
      BY <2>1
    <3> QED
      BY <2>1, <3>1, <3>2, <3>3 DEF OwnerHasRead
  <2> QED
    BY <2>5, <2>6
<1>7. ASSUME NEW s \in Procs, OpenParent(s) PROVE OwnerHasRead'
  BY <1>7 DEF LockInv, OpenParent, At, Storage, OwnerHasRead, Owns, Loaded, Holding,
    CanonVersion, TypeOK, Processes
<1>8. ASSUME NEW s \in Procs, WriteTemporary(s) PROVE OwnerHasRead'
  <2>1. At(s, "opened") /\ Goto(s, "checked") /\ UNCHANGED Storage
    BY <1>8 DEF WriteTemporary
  <2>2. /\ \A q \in Procs \ {s} : proc'[q] = proc[q]
        /\ proc'[s].pc = "checked" /\ proc'[s].own = proc[s].own /\ proc'[s].lost = proc[s].lost
        /\ proc'[s].base = proc[s].base
    BY <2>1, GotoMoves DEF LockInv, Holding
  <2>3. proc[s].pc = "opened"
    BY <2>1 DEF At
  <2>4. \A p \in Procs : proc'[p].pc \in Loaded /\ Owns(p)' => proc[p].pc \in Loaded /\ Owns(p)
    BY <2>1, <2>2, <2>3 DEF Storage, Owns, Loaded, Holding
  <2> QED
    BY <2>1, <2>2, <2>4 DEF LockInv, OwnerHasRead, At, CanonVersion, Storage
<1>9. ASSUME NEW s \in Procs, Replace(s) PROVE OwnerHasRead'
  <2> SUFFICES ASSUME NEW p \in Procs, proc'[p].pc \in Loaded, Owns(p)', NEW q \in Procs
               PROVE  /\ (CanonVersion \in confirmed => CanonVersion \in proc[p].base)'
                      /\ (At(q, "verified") /\ CanonVersion = proc[q].mine
                            => proc[q].mine \in proc[p].base)'
    BY DEF OwnerHasRead
  <2>1. /\ \A r \in Procs \ {s} : proc'[r] = proc[r]
        /\ proc[s].pc = "checked" /\ proc'[s].pc = "replaced" /\ proc'[s].own = proc[s].own
        /\ proc'[s].lost = proc[s].lost /\ proc'[s].base = proc[s].base \union {writes + 1}
    BY <1>9, ReplaceMoves DEF LockInv
  <2>2. canon' = canon /\ confirmed' = confirmed
    BY <1>9 DEF Replace
  <2>3. Owns(p) /\ proc[p].pc \in Loaded /\ proc[p].base \subseteq proc'[p].base
    <3>1. CASE p = s
      BY <2>1, <2>2, <3>1 DEF Owns, Loaded, Holding
    <3>2. CASE p # s
      BY <2>1, <2>2, <3>2 DEF Owns
    <3> QED
      BY <3>1, <3>2
  <2>4. At(q, "verified")' => At(q, "verified") /\ proc'[q].mine = proc[q].mine
    BY <2>1 DEF At
  <2>5. CASE CanonVersion' = CanonVersion
    BY <2>2, <2>3, <2>4, <2>5 DEF LockInv, OwnerHasRead
  <2>6. CASE CanonVersion' # CanonVersion
    <3>1. CanonVersion' = writes + 1
      BY <1>9, <2>6 DEF LockInv, Replace, CanonVersion, TypeOK, Places
    <3>2. writes + 1 \notin confirmed /\ proc[q].mine # writes + 1
      BY DEF LockInv, VersionsArePast, TypeOK, Processes
    <3> QED
      BY <2>2, <2>4, <3>1, <3>2
  <2> QED
    BY <2>5, <2>6
<1>10. ASSUME NEW s \in Procs, CheckReplaced(s) PROVE OwnerHasRead'
  <2>1. At(s, "replaced") /\ Goto(s, "synced") /\ UNCHANGED Storage
    BY <1>10 DEF CheckReplaced
  <2>2. /\ \A q \in Procs \ {s} : proc'[q] = proc[q]
        /\ proc'[s].pc = "synced" /\ proc'[s].own = proc[s].own /\ proc'[s].lost = proc[s].lost
        /\ proc'[s].base = proc[s].base
    BY <2>1, GotoMoves DEF LockInv, Holding
  <2>3. proc[s].pc = "replaced"
    BY <2>1 DEF At
  <2>4. \A p \in Procs : proc'[p].pc \in Loaded /\ Owns(p)' => proc[p].pc \in Loaded /\ Owns(p)
    BY <2>1, <2>2, <2>3 DEF Storage, Owns, Loaded, Holding
  <2> QED
    BY <2>1, <2>2, <2>4 DEF LockInv, OwnerHasRead, At, CanonVersion, Storage
<1>11. ASSUME NEW s \in Procs, SyncAncestry(s) PROVE OwnerHasRead'
  <2> USE <1>11 DEF LockInv, SyncAncestry, Storage
  <2> SUFFICES ASSUME NEW p \in Procs, proc'[p].pc \in Loaded, Owns(p)', NEW q \in Procs
               PROVE  /\ (CanonVersion \in confirmed => CanonVersion \in proc[p].base)'
                      /\ (At(q, "verified") /\ CanonVersion = proc[q].mine
                            => proc[q].mine \in proc[p].base)'
    BY DEF OwnerHasRead
  <2>1. /\ \A r \in Procs \ {s} : proc'[r] = proc[r]
        /\ proc[s].pc = "synced" /\ proc'[s].pc = "verified" /\ proc'[s].own = proc[s].own
        /\ proc'[s].lost = proc[s].lost /\ proc'[s].base = proc[s].base
        /\ proc'[s].mine = proc[s].mine /\ CanonVersion' = CanonVersion
    BY GotoMoves DEF At, CanonVersion, Holding
  <2>2. Owns(p) /\ proc[p].pc \in Loaded
    BY <2>1 DEF Owns, Holding, Loaded
  <2>3. Owns(s)
    BY DEF Guard, DirectoryStands
  <2>4. CASE q = s
    <3>1. p = s
      BY <2>2, <2>3, OwnersAreOne DEF OneOwner
    <3>2. proc[s].mine \in proc[s].base
      BY <2>1 DEF VersionsArePast, Wrote
    <3> QED
      BY <2>1, <2>2, <2>4, <3>1, <3>2 DEF OwnerHasRead
  <2>5. CASE q # s
    BY <2>1, <2>2, <2>5 DEF OwnerHasRead, At
  <2> QED
    BY <2>4, <2>5
<1>12. ASSUME NEW s \in Procs, Acknowledge(s) PROVE OwnerHasRead'
  BY <1>12 DEF LockInv, Acknowledge, At, OwnerHasRead, Owns, Loaded, Holding, CanonVersion,
    TypeOK, Processes
<1>13. ASSUME NEW s \in Procs, Lose(s) PROVE OwnerHasRead'
  BY <1>13 DEF LockInv, Lose, At, Storage, OwnerHasRead, Owns, Loaded, Holding, CanonVersion,
    TypeOK, Processes
<1>14. ASSUME NEW s \in Procs, Exit(s) PROVE OwnerHasRead'
  BY <1>14 DEF LockInv, Exit, At, Storage, OwnerHasRead, Owns, Loaded, Holding, CanonVersion,
    Exited, TypeOK, Processes
<1>15. ASSUME NEW place \in Places, Recreate(place) PROVE OwnerHasRead'
  <2> USE DEF LockInv
  <2>1. /\ \A p \in Procs : Owns(p)' => Owns(p) /\ place = "directory"
        /\ place = "directory" => CanonVersion' = 0
    BY <1>15, RecreateDisowns
  <2>2. proc' = proc /\ confirmed' = confirmed
    BY <1>15 DEF Recreate
  <2>3. 0 \notin confirmed
    BY DEF TypeOK, Versions
  <2>4. \A q \in Procs : At(q, "verified") => proc[q].mine # 0
    BY BoundsAssumption DEF TypeOK, Processes, Versions, VersionsArePast, At, Wrote
  <2> QED
    BY <2>1, <2>2, <2>3, <2>4 DEF OwnerHasRead, At
<1>16. QED
  BY <1>1, <1>2, <1>3, <1>4, <1>5, <1>6, <1>7, <1>8, <1>9, <1>10, <1>11, <1>12, <1>13, <1>14,
     <1>15 DEF Next, Acquiring, Publishing

\* The owner is not blind.
LEMMA BlindStep ==
    ASSUME LockInv, [Next]_vars
    PROVE  OwnerIsNotBlind'
<1>1. CASE UNCHANGED vars
  BY <1>1 DEF LockInv, vars, TypeOK, OwnerIsNotBlind, Owns, Guard, DirectoryStands, At
<1>2. ASSUME NEW s \in Procs, OpenLock(s) PROVE OwnerIsNotBlind'
  BY <1>2 DEF LockInv, OpenLock, Walked, At, Storage, OwnerIsNotBlind, Owns,
      Guard, DirectoryStands, Wrote, Holding,
    TypeOK, Processes
<1>3. ASSUME NEW s \in Procs, Flock(s) PROVE OwnerIsNotBlind'
  BY <1>3 DEF LockInv, Flock, At, Goto, Storage, OwnerIsNotBlind, Owns,
      Guard, DirectoryStands, Wrote, Holding,
    TypeOK, Processes
<1>4. ASSUME NEW s \in Procs, Contend(s) PROVE OwnerIsNotBlind'
  BY <1>4 DEF LockInv, Contend, At, Storage, OwnerIsNotBlind, Owns,
      Guard, DirectoryStands, Wrote, Holding,
    Exited, TypeOK, Processes
<1>5. ASSUME NEW s \in Procs, Capture(s) PROVE OwnerIsNotBlind'
  BY <1>5 DEF LockInv, Capture, At, Storage, OwnerIsNotBlind, Owns,
      Guard, DirectoryStands, Wrote, Holding,
    TypeOK, Processes
<1>6. ASSUME NEW s \in Procs, Load(s) PROVE OwnerIsNotBlind'
  BY <1>6 DEF LockInv, Load, At, Storage, OwnerIsNotBlind, Owns,
      Guard, DirectoryStands, Wrote, Holding, TypeOK,
    Processes
<1>7. ASSUME NEW s \in Procs, OpenParent(s) PROVE OwnerIsNotBlind'
  BY <1>7 DEF LockInv, OpenParent, At, Storage, OwnerIsNotBlind, Owns,
      Guard, DirectoryStands, Wrote, Holding,
    TypeOK, Processes
<1>8. ASSUME NEW s \in Procs, WriteTemporary(s) PROVE OwnerIsNotBlind'
  <2>1. At(s, "opened") /\ Guard(s) /\ Goto(s, "checked") /\ UNCHANGED Storage
    BY <1>8 DEF WriteTemporary
  <2>2. /\ \A q \in Procs \ {s} : proc'[q] = proc[q]
        /\ proc'[s].pc = "checked" /\ proc'[s].blind = proc[s].blind
    BY <2>1, GotoMoves DEF LockInv, Holding
  <2>3. \A p \in Procs \ {s} : Guard(p)' => Guard(p)
    BY <2>1, <2>2 DEF Storage, Owns, Guard, DirectoryStands
  <2>4. \A p \in Procs \ {s} : /\ proc'[p].pc \in Wrote /\ Guard(p)' => ~proc'[p].blind
                               /\ proc'[p].pc = "verified" => ~proc'[p].blind
    BY <2>2, <2>3 DEF LockInv, OwnerIsNotBlind, At
  <2>5. proc'[s].pc \notin Wrote
    BY <2>2 DEF Wrote
  <2> QED
    BY <2>2, <2>4, <2>5 DEF OwnerIsNotBlind, At, Wrote
<1>9. ASSUME NEW s \in Procs, Replace(s) PROVE OwnerIsNotBlind'
  <2>1. /\ \A r \in Procs \ {s} : proc'[r] = proc[r]
        /\ proc[s].pc = "checked" /\ proc'[s].pc = "replaced" /\ proc'[s].own = proc[s].own
        /\ proc'[s].lost = proc[s].lost /\ proc'[s].directory = proc[s].directory
        /\ proc'[s].blind = (document[proc[s].directory].version \in confirmed \ proc[s].base)
    BY <1>9, ReplaceMoves DEF LockInv
  <2>2. canon' = canon
    BY <1>9 DEF Replace
  <2>3. ASSUME Guard(s)' PROVE ~proc'[s].blind
    <3>1. Owns(s) /\ proc[s].directory = canon["directory"]
      BY <2>1, <2>2, <2>3 DEF Guard, DirectoryStands, Owns, Holding
    <3>2. proc[s].pc \in Loaded
      BY <2>1 DEF Loaded, Holding
    <3> QED
      BY <2>1, <3>1, <3>2 DEF LockInv, OwnerHasRead, CanonVersion
  <2>4. \A p \in Procs \ {s} : Guard(p)' => Guard(p)
    BY <2>1, <2>2 DEF Guard, DirectoryStands, Owns
  <2>5. \A p \in Procs \ {s} : /\ proc'[p].pc \in Wrote /\ Guard(p)' => ~proc'[p].blind
                               /\ proc'[p].pc = "verified" => ~proc'[p].blind
    BY <2>1, <2>4 DEF LockInv, OwnerIsNotBlind, At
  <2> QED
    BY <2>1, <2>3, <2>5 DEF OwnerIsNotBlind, At, Wrote
<1>10. ASSUME NEW s \in Procs, CheckReplaced(s) PROVE OwnerIsNotBlind'
  <2>1. At(s, "replaced") /\ Guard(s) /\ Goto(s, "synced") /\ UNCHANGED Storage
    BY <1>10 DEF CheckReplaced
  <2>2. /\ \A q \in Procs \ {s} : proc'[q] = proc[q]
        /\ proc'[s].pc = "synced" /\ proc'[s].blind = proc[s].blind
    BY <2>1, GotoMoves DEF LockInv, Holding
  <2>3. \A p \in Procs \ {s} : Guard(p)' => Guard(p)
    BY <2>1, <2>2 DEF Storage, Owns, Guard, DirectoryStands
  <2>4. \A p \in Procs \ {s} : /\ proc'[p].pc \in Wrote /\ Guard(p)' => ~proc'[p].blind
                               /\ proc'[p].pc = "verified" => ~proc'[p].blind
    BY <2>2, <2>3 DEF LockInv, OwnerIsNotBlind, At
  <2>5. proc[s].pc \in Wrote /\ ~proc[s].blind
    BY <2>1 DEF At, Wrote, LockInv, OwnerIsNotBlind
  <2> QED
    BY <2>2, <2>4, <2>5 DEF OwnerIsNotBlind, At, Wrote
<1>11. ASSUME NEW s \in Procs, SyncAncestry(s) PROVE OwnerIsNotBlind'
  <2>1. At(s, "synced") /\ Guard(s) /\ Goto(s, "verified") /\ UNCHANGED Storage
    BY <1>11 DEF SyncAncestry
  <2>2. /\ \A q \in Procs \ {s} : proc'[q] = proc[q]
        /\ proc'[s].pc = "verified" /\ proc'[s].blind = proc[s].blind
    BY <2>1, GotoMoves DEF LockInv, Holding
  <2>3. \A p \in Procs \ {s} : Guard(p)' => Guard(p)
    BY <2>1, <2>2 DEF Storage, Owns, Guard, DirectoryStands
  <2>4. \A p \in Procs \ {s} : /\ proc'[p].pc \in Wrote /\ Guard(p)' => ~proc'[p].blind
                               /\ proc'[p].pc = "verified" => ~proc'[p].blind
    BY <2>2, <2>3 DEF LockInv, OwnerIsNotBlind, At
  <2>5. proc[s].pc \in Wrote /\ ~proc[s].blind
    BY <2>1 DEF At, Wrote, LockInv, OwnerIsNotBlind
  <2> QED
    BY <2>2, <2>4, <2>5 DEF OwnerIsNotBlind, At, Wrote
<1>12. ASSUME NEW s \in Procs, Acknowledge(s) PROVE OwnerIsNotBlind'
  BY <1>12 DEF LockInv, Acknowledge, At, OwnerIsNotBlind, Owns,
      Guard, DirectoryStands, Wrote, Holding, TypeOK,
    Processes
<1>13. ASSUME NEW s \in Procs, Lose(s) PROVE OwnerIsNotBlind'
  BY <1>13 DEF LockInv, Lose, At, Storage, OwnerIsNotBlind, Owns,
      Guard, DirectoryStands, Wrote, Holding, TypeOK,
    Processes
<1>14. ASSUME NEW s \in Procs, Exit(s) PROVE OwnerIsNotBlind'
  BY <1>14 DEF LockInv, Exit, At, Storage, OwnerIsNotBlind, Owns,
      Guard, DirectoryStands, Wrote, Holding, Exited,
    TypeOK, Processes
<1>15. ASSUME NEW place \in Places, Recreate(place) PROVE OwnerIsNotBlind'
  <2>1. \A p \in Procs : Guard(p)' => Guard(p)
    BY <1>15, RecreateDisowns DEF Guard, DirectoryStands, Recreate
  <2>2. proc' = proc
    BY <1>15 DEF Recreate
  <2> QED
    BY <2>1, <2>2 DEF LockInv, OwnerIsNotBlind, At
<1>16. QED
  BY <1>1, <1>2, <1>3, <1>4, <1>5, <1>6, <1>7, <1>8, <1>9, <1>10, <1>11, <1>12, <1>13, <1>14,
     <1>15 DEF Next, Acquiring, Publishing

\* The invariant holds initially.
LEMMA LockInit ==
    ASSUME Init
    PROVE  LockInv
<1> USE DEF Init
<1>1. \A p \in Procs : proc[p] = Exited
  OBVIOUS
<1>2. TypeOK
  BY BoundsAssumption
     DEF TypeOK, Places, Bound, Inodes, Documents, Empty, Versions, Processes, Exited, Holding
<1>3. FlockExclusive /\ LostWaits /\ OwnerHasRead /\ OwnerIsNotBlind
  BY <1>1 DEF FlockExclusive, LostWaits, OwnerHasRead, OwnerIsNotBlind, Exited, Holding, Loaded,
     Wrote, At
<1>4. NothingReturns
  BY <1>1 DEF NothingReturns, Exited, Places, Bound
<1>5. VersionsArePast
  BY <1>1 DEF VersionsArePast, Exited, Wrote
<1>6. QED
  BY <1>2, <1>3, <1>4, <1>5 DEF LockInv

\* The invariant holds in every state.
THEOREM Invariance == Spec => []LockInv
<1>1. LockInv /\ [Next]_vars => LockInv'
  BY TypeStep, FlockStep, FreshStep, PastStep, LostStep, ReadStep, BlindStep DEF LockInv
<1>2. QED
  BY LockInit, <1>1, PTL DEF Spec

\* Type correctness, whatever the processes and the bounds.
THEOREM LockTyped == Spec => []TypeOK
<1>1. LockInv => TypeOK
  BY DEF LockInv
<1>2. QED
  BY Invariance, <1>1, PTL

\* At most one process passes RunLock.verify_ownership at any time.
THEOREM OneOwnerAlways == Spec => []OneOwner
<1>1. LockInv => OneOwner
  BY OwnersAreOne DEF LockInv
<1>2. QED
  BY Invariance, <1>1, PTL

\* A publication that passed the last guard of publish_atomically replaced no
\* success its process had not read.
THEOREM SuccessIsNeverBlind == Spec => []NoBlindSuccess
<1>1. LockInv => NoBlindSuccess
  BY DEF LockInv, OwnerIsNotBlind, NoBlindSuccess
<1>2. QED
  BY Invariance, <1>1, PTL

\* A process whose hold was found lost writes nothing more under it: it is
\* refused wherever a publication begins.
THEOREM LostStaysSilent == Spec => LostIsSilent
<1> DEFINE Silent == \A p \in Procs : proc[p].lost => proc'[p].mine \in {proc[p].mine, Exited.mine}
<1>1. ASSUME LockInv, [Next]_vars PROVE Silent
  <2> SUFFICES ASSUME NEW p \in Procs, proc[p].lost
               PROVE  proc'[p].mine \in {proc[p].mine, Exited.mine}
    OBVIOUS
  <2>1. At(p, "ready") /\ ~Owns(p)
    BY <1>1 DEF LockInv, LostWaits, Owns
  <2>2. ASSUME NEW s \in Procs, Replace(s) PROVE s # p
    BY <2>1, <2>2 DEF Replace, At
  <2>3. ASSUME NEW s \in Procs, Replace(s) PROVE proc'[p] = proc[p]
    BY <2>2, <2>3, <1>1 DEF Replace, LockInv, TypeOK
  <2>4. ASSUME NEW s \in Procs, Contend(s) \/ Exit(s) PROVE proc'[p] \in {proc[p], Exited}
    BY <2>4, <1>1 DEF Contend, Exit, LockInv, TypeOK
  <2>5. ASSUME NEW s \in Procs,
               \/ OpenLock(s) \/ Flock(s) \/ Capture(s) \/ Load(s) \/ OpenParent(s)
               \/ WriteTemporary(s) \/ CheckReplaced(s) \/ SyncAncestry(s) \/ Acknowledge(s)
               \/ Lose(s)
        PROVE  proc'[p].mine = proc[p].mine
    <3>1. proc \in [Procs -> Processes]
      BY <1>1 DEF LockInv, TypeOK
    <3>2. CASE OpenLock(s) \/ Capture(s) \/ Load(s) \/ OpenParent(s)
      BY <3>1, <3>2 DEF OpenLock, Walked, Capture, Load, OpenParent, Processes
    <3>3. CASE Flock(s) \/ WriteTemporary(s) \/ CheckReplaced(s) \/ SyncAncestry(s)
      BY <3>1, <3>3 DEF Flock, WriteTemporary, CheckReplaced, SyncAncestry, Goto, Processes
    <3>4. CASE Acknowledge(s)
      BY <3>1, <3>4 DEF Acknowledge, Processes
    <3>5. CASE Lose(s)
      BY <3>1, <3>5 DEF Lose, Processes
    <3> QED
      BY <2>5, <3>2, <3>3, <3>4, <3>5
  <2>6. ASSUME NEW place \in Places, Recreate(place) PROVE proc'[p] = proc[p]
    BY <2>6 DEF Recreate
  <2>7. CASE UNCHANGED vars
    BY <2>7 DEF vars
  <2>8. QED
    BY <1>1, <2>3, <2>4, <2>5, <2>6, <2>7 DEF Next, Acquiring, Publishing
<1>2. QED
  BY Invariance, <1>1, PTL DEF Spec, LostIsSilent

-----------------------------------------------------------------------------
(***************************************************************************)
(* What holds of the feature's state file for any stages, any prerequi-    *)
(* sites and any order of delivery (FeatureState).                         *)
(*                                                                         *)
(* The invariant says of every content, of the file or in the hands of a   *)
(* session, that an open stage is the first eligible one: a stage that     *)
(* comes earlier in the order and is not approved misses a prerequisite.   *)
(* Only an approval can change who is eligible, and what is approved is    *)
(* the open stage itself; this is why the start alone need ask.            *)
(***************************************************************************)

SoundFile(f) ==
    /\ f \in FeatureFiles
    /\ ValidFile(f)
    /\ \A s \in Stages : Open(f, s) => FirstEligible(f, s)
    /\ \A s \in Stages : Open(f, s) \/ ApprovedStage(f, s) => PrerequisitesApproved(f, s)
    /\ \A s \in Stages : ApprovedStage(f, s) => f.stages[s].reviewer \in People
    /\ f.next # Nobody => f.current = f.next
    /\ \A s \in Stages : Open(f, s) => f.current = s

FeatureInv ==
    /\ SoundFile(file)
    /\ session \in [Sessions -> [pc : {"idle", "holding"}, seen : {Nobody} \cup FeatureFiles,
                                 new : {Nobody} \cup FeatureFiles]]
    /\ \A p \in Sessions : session[p].pc = "holding" => SoundFile(session[p].new)

-----------------------------------------------------------------------------

\* Two stages cannot both be the first.
LEMMA OneFirst ==
    ASSUME NEW f, NEW s, NEW t, FirstEligible(f, s), FirstEligible(f, t)
    PROVE  s = t
<1>1. PICK i \in DOMAIN Delivery :
        Delivery[i] = s /\ Eligible(f, s) /\ \A k \in 1..(i - 1) : ~Eligible(f, Delivery[k])
  BY DEF FirstEligible
<1>2. PICK j \in DOMAIN Delivery :
        Delivery[j] = t /\ Eligible(f, t) /\ \A k \in 1..(j - 1) : ~Eligible(f, Delivery[k])
  BY DEF FirstEligible
<1>3. i \in Nat \ {0} /\ j \in Nat \ {0}
  BY DeliveryAssumption
<1>4. ~(i < j) /\ ~(j < i)
  BY <1>1, <1>2, <1>3
<1> QED BY <1>1, <1>2, <1>3, <1>4

\* What recompute_next_eligible returns is the first eligible stage or nothing.
LEMMA NextIsFirst ==
    ASSUME NEW f
    PROVE  /\ NextEligible(f) \in Stages \cup {Nobody}
           /\ NextEligible(f) # Nobody => FirstEligible(f, NextEligible(f))
           /\ \A s \in Stages : FirstEligible(f, s) => NextEligible(f) \in {s, Nobody}
<1>1. CASE OpenGlobalBlocker(f) \/ ~\E s \in Stages : FirstEligible(f, s)
  BY <1>1 DEF NextEligible
<1>2. CASE ~OpenGlobalBlocker(f) /\ \E s \in Stages : FirstEligible(f, s)
  <2>1. NextEligible(f) = CHOOSE s \in Stages : FirstEligible(f, s)
    BY <1>2 DEF NextEligible
  <2>2. NextEligible(f) \in Stages /\ FirstEligible(f, NextEligible(f))
    BY <1>2, <2>1
  <2> QED BY <2>2, OneFirst
<1> QED BY <1>1, <1>2

\* Eligibility depends on nothing but which stages are approved.
LEMMA FirstDependsOnApproved ==
    ASSUME NEW f, NEW g, \A s \in Stages : ApprovedStage(f, s) <=> ApprovedStage(g, s)
    PROVE  \A s \in Stages : FirstEligible(f, s) <=> FirstEligible(g, s)
<1>1. \A s \in Stages : Eligible(f, s) <=> Eligible(g, s)
  BY StagesAssumption DEF Eligible, PrerequisitesApproved
<1>2. \A i \in DOMAIN Delivery : Delivery[i] \in Stages /\ \A j \in 1..(i - 1) : Delivery[j] \in Stages
  BY DeliveryAssumption
<1> QED BY <1>1, <1>2 DEF FirstEligible

LEMMA AfterFields ==
    ASSUME NEW f \in FeatureFiles, NEW q \in RequestRecords, f.history < MaxHistory
    PROVE  /\ After(f, q) \in FeatureFiles
           /\ After(f, q).stages =
                [f.stages EXCEPT ![q.stage] = StageAfter(f.stages[q.stage], q)]
           /\ After(f, q).next = NextEligible(Moved(f, q))
           /\ After(f, q).current = IF After(f, q).next = Nobody THEN f.current ELSE After(f, q).next
<1> DEFINE s == StageAfter(f.stages[q.stage], q)
           m == Moved(f, q)
           next == NextEligible(m)
<1>1. q.stage \in Stages /\ f.stages[q.stage] \in StageRecords
  BY DEF FeatureFiles, RequestRecords
<1>2. BlockersAfter(f.stages[q.stage].blockers, q.adds, q.resolves) \in Blockers
  BY <1>1 DEF BlockersAfter, Blockers, StageRecords
<1>3. BlockersAfter(f.blockers, q.addsGlobal, q.resolvesGlobal) \in Blockers
  BY DEF BlockersAfter, Blockers, FeatureFiles
<1>4. /\ s.status \in StageStatus
      /\ s.implementer \in People \cup {Nobody}
      /\ s.reviewer \in People \cup {Nobody}
      /\ s.review \in ReviewStatus
      /\ s.verification \in VerificationStatus
      /\ s.commit \in BOOLEAN /\ s.base \in BOOLEAN
      /\ s.evidence \in BOOLEAN /\ s.reviewEvidence \in BOOLEAN
  BY <1>1 DEF StageAfter, StageRecords, RequestRecords, Given, Disposition, EffectiveReviewer,
              ReviewStatus
<1>5. s \in StageRecords
  <2>1. s = [status |-> s.status, implementer |-> s.implementer, reviewer |-> s.reviewer,
             review |-> s.review, verification |-> s.verification, commit |-> s.commit,
             base |-> s.base, evidence |-> s.evidence, reviewEvidence |-> s.reviewEvidence,
             blockers |-> BlockersAfter(f.stages[q.stage].blockers, q.adds, q.resolves)]
    BY DEF StageAfter
  <2> HIDE DEF s
  <2> QED BY <1>2, <1>4, <2>1 DEF StageRecords
<1>6. m.stages = [f.stages EXCEPT ![q.stage] = s]
  BY DEF Moved, FeatureFiles
<1>7. m \in FeatureFiles
  <2> HIDE DEF s
  <2>1. [f.stages EXCEPT ![q.stage] = s] \in [Stages -> StageRecords]
    BY <1>5 DEF FeatureFiles
  <2>2. f.history + 1 \in 0..MaxHistory
    BY StagesAssumption DEF FeatureFiles
  <2>3. m = [f EXCEPT !.stages = [f.stages EXCEPT ![q.stage] = s],
                      !.blockers = BlockersAfter(f.blockers, q.addsGlobal, q.resolvesGlobal),
                      !.history = f.history + 1]
    BY DEF Moved, s
  <2> QED BY <1>3, <2>1, <2>2, <2>3 DEF FeatureFiles
<1>8. next \in Stages \cup {Nobody}
  BY NextIsFirst
<1>9. After(f, q) = [m EXCEPT !.next = next, !.candidate = next,
                              !.current = IF next = Nobody THEN f.current ELSE next]
  BY DEF After
<1>10. f.current \in Stages \cup {Nobody}
  BY DEF FeatureFiles
<1> HIDE DEF m, next, s
<1>11. After(f, q) \in FeatureFiles
  BY <1>7, <1>8, <1>9, <1>10 DEF FeatureFiles
<1>12. /\ After(f, q).stages = m.stages
       /\ After(f, q).next = next
       /\ After(f, q).current = IF next = Nobody THEN f.current ELSE next
  BY <1>7, <1>9 DEF FeatureFiles
<1> QED BY <1>6, <1>11, <1>12 DEF s, next, m

\* A transition the tool accepts and validates leads from a sound file to one.
LEMMA AfterIsSound ==
    ASSUME NEW f, SoundFile(f), NEW q \in Requests, f.history < MaxHistory,
           Accepts(f, q), ValidFile(After(f, q))
    PROVE  SoundFile(After(f, q))
<1> DEFINE g == After(f, q)
           s == q.stage
<1>1. f \in FeatureFiles /\ q \in RequestRecords /\ s \in Stages
  BY StagesAssumption DEF SoundFile, RequestRecords
<1>2. g \in FeatureFiles
  BY <1>1, AfterFields
<1>3. /\ g.stages[s] = StageAfter(f.stages[s], q)
      /\ \A t \in Stages \ {s} : g.stages[t] = f.stages[t]
      /\ \A t \in Stages : g.stages[t].status = IF t = s THEN q.to ELSE f.stages[t].status
  <2>1. g.stages = [f.stages EXCEPT ![s] = StageAfter(f.stages[s], q)]
    BY <1>1, AfterFields
  <2>2. DOMAIN f.stages = Stages
    BY <1>1 DEF FeatureFiles
  <2>3. StageAfter(f.stages[s], q).status = q.to
    BY DEF StageAfter
  <2> HIDE DEF g
  <2> QED BY <1>1, <2>1, <2>2, <2>3
<1>4. Legal(f.stages[s].status, q.to, q.role)
  BY DEF Accepts
<1>5. ~ApprovedStage(f, s) /\ f.stages[s].status # "SUPERSEDED"
  BY <1>4 DEF Legal, ApprovedStage
<1>6. \A t \in Stages : ApprovedStage(g, t) <=>
        ApprovedStage(f, t) \/ (t = s /\ q.to = "REVIEW_APPROVED")
  BY <1>3, <1>5 DEF ApprovedStage
<1>7. \A t \in Stages : PrerequisitesApproved(f, t) => PrerequisitesApproved(g, t)
  BY <1>6, StagesAssumption DEF PrerequisitesApproved
<1>8. g.next = NextEligible(g)
  BY DEF ValidFile
<1>9. f.next = NextEligible(f) /\ (f.next # Nobody => f.current = f.next)
  BY DEF SoundFile, ValidFile
<1>10. \A t \in Stages : Open(g, t) /\ t # s => Open(f, t)
  BY <1>3 DEF Open
<1>11. ASSUME q.to = "REVIEW_APPROVED"
       PROVE  (\A t \in Stages : ~Open(g, t)) /\ PrerequisitesApproved(f, s)
  <2>1. Open(f, s)
    BY <1>4, <1>11 DEF Legal, Open
  <2>2. \A t \in Stages : Open(f, t) => t = s
    BY <1>1, <2>1, OneFirst DEF SoundFile
  <2>3. ~Open(g, s)
    BY <1>1, <1>3, <1>11 DEF Open
  <2> QED BY <1>1, <1>10, <2>1, <2>2, <2>3 DEF SoundFile
<1>12. ASSUME q.to # "REVIEW_APPROVED"
       PROVE  \A t \in Stages : FirstEligible(f, t) <=> FirstEligible(g, t)
  BY <1>6, <1>12, FirstDependsOnApproved
<1>13. ASSUME Open(g, s)
       PROVE  /\ FirstEligible(f, s)
              /\ f.current = s
              /\ q.to # "REVIEW_APPROVED"
  <2>1. q.to \in {"IN_PROGRESS", "IMPLEMENTED", "VERIFIED", "REVIEW_REJECTED", "BLOCKED"}
    BY <1>1, <1>3, <1>13 DEF Open
  <2>2. Open(f, s) \/ (f.stages[s].status = "NOT_STARTED" /\ q.to = "IN_PROGRESS")
    BY <1>4, <2>1 DEF Legal, Open
  <2>3. CASE Open(f, s)
    BY <1>1, <2>1, <2>3 DEF SoundFile
  <2>4. CASE f.stages[s].status = "NOT_STARTED" /\ q.to = "IN_PROGRESS"
    <3>1. NextEligible(f) = s
      BY <2>4 DEF Accepts
    <3>2. s # Nobody
      BY <1>1, StagesAssumption
    <3> QED BY <1>9, <2>1, <3>1, <3>2, NextIsFirst
  <2> QED BY <2>2, <2>3, <2>4
<1>14. \A t \in Stages : Open(g, t) => FirstEligible(f, t) /\ f.current = t
                                       /\ q.to # "REVIEW_APPROVED"
  BY <1>10, <1>11, <1>13 DEF SoundFile
<1>15. \A t \in Stages : Open(g, t) => FirstEligible(g, t)
  BY <1>12, <1>14
<1>16. \A t \in Stages : Open(g, t) \/ ApprovedStage(g, t) => PrerequisitesApproved(g, t)
  <2>1. \A t \in Stages : Open(g, t) => PrerequisitesApproved(g, t)
    BY <1>15 DEF FirstEligible, Eligible
  <2>2. \A t \in Stages : ApprovedStage(g, t) => PrerequisitesApproved(g, t)
    BY <1>6, <1>7, <1>11 DEF SoundFile
  <2> QED BY <2>1, <2>2
<1>17. \A t \in Stages : ApprovedStage(g, t) => g.stages[t].reviewer \in People
  <2> SUFFICES ASSUME NEW t \in Stages, ApprovedStage(g, t)
               PROVE  g.stages[t].reviewer \in People
    OBVIOUS
  <2>1. CASE t # s
    <3>1. g.stages[t] = f.stages[t] /\ ApprovedStage(f, t)
      BY <1>3, <1>6, <2>1
    <3> QED BY <3>1 DEF SoundFile
  <2>2. CASE t = s
    <3>1. q.to = "REVIEW_APPROVED"
      BY <1>5, <1>6, <2>2
    <3>2. EffectiveReviewer(q) \in People
      BY <1>1 DEF EffectiveReviewer, RequestRecords
    <3> QED BY <1>3, <2>2, <3>1, <3>2 DEF StageAfter, Disposition
  <2> QED BY <2>1, <2>2
<1>18. g.next # Nobody => g.current = g.next
  BY <1>1, AfterFields
<1>19. \A t \in Stages : Open(g, t) => g.current = t
  <2> SUFFICES ASSUME NEW t \in Stages, Open(g, t)
               PROVE  g.current = t
    OBVIOUS
  <2>1. g.next \in {t, Nobody}
    BY <1>8, <1>15, NextIsFirst
  <2>2. g.next = Nobody => g.current = f.current
    BY <1>1, AfterFields
  <2> QED BY <1>14, <1>18, <2>1, <2>2
<1> QED BY <1>2, <1>15, <1>16, <1>17, <1>18, <1>19 DEF SoundFile

\* Nothing is begun in the package as it is published.
LEMMA PublishedIsSound == SoundFile(Published)
<1> DEFINE f == [stages |-> [s \in Stages |-> Fresh], blockers |-> [c \in Codes |-> "absent"],
                 next |-> Nobody, candidate |-> Nobody, current |-> Nobody, history |-> 0]
           next == NextEligible(f)
<1>1. next \in Stages \cup {Nobody}
  BY NextIsFirst
<1>2. Published = [stages |-> [s \in Stages |-> Fresh], blockers |-> [c \in Codes |-> "absent"],
                   next |-> next, candidate |-> next, current |-> next, history |-> 0]
  <2>1. Published = [f EXCEPT !.next = next, !.candidate = next, !.current = next]
    BY DEF Published
  <2> HIDE DEF next
  <2> QED BY <2>1
<1>3. Fresh \in StageRecords
  BY DEF Fresh, StageRecords, StageStatus, ReviewStatus, VerificationStatus, Blockers
<1>4. /\ Published.stages = f.stages /\ Published.blockers = f.blockers
      /\ Published.next = next /\ Published.candidate = next /\ Published.current = next
  BY <1>2
<1>5. Published \in FeatureFiles
  <2>1. [s \in Stages |-> Fresh] \in [Stages -> StageRecords]
    BY <1>3
  <2>2. [c \in Codes |-> "absent"] \in Blockers
    BY DEF Blockers
  <2>3. 0 \in 0..MaxHistory
    BY StagesAssumption
  <2> HIDE DEF next
  <2> QED BY <1>1, <1>2, <2>1, <2>2, <2>3 DEF FeatureFiles
<1>6. \A s \in Stages : Published.stages[s] = Fresh
  BY <1>4
<1>7. \A s \in Stages : ~Open(Published, s) /\ ~ApprovedStage(Published, s)
                        /\ ValidStage(Published.stages[s])
  BY <1>6 DEF Open, ApprovedStage, ValidStage, Fresh
<1>8. NextEligible(Published) = next
  <2>1. OpenGlobalBlocker(Published) <=> OpenGlobalBlocker(f)
    BY <1>4 DEF OpenGlobalBlocker
  <2>2. \A s \in Stages : FirstEligible(Published, s) <=> FirstEligible(f, s)
    <3>1. \A s \in Stages : ApprovedStage(Published, s) <=> ApprovedStage(f, s)
      BY <1>4 DEF ApprovedStage
    <3> QED BY <3>1, FirstDependsOnApproved
  <2>3. CASE NextEligible(f) = Nobody
    <3>1. OpenGlobalBlocker(f) \/ ~\E s \in Stages : FirstEligible(f, s)
      BY <2>3, NextIsFirst, StagesAssumption DEF NextEligible
    <3> QED BY <2>1, <2>2, <2>3, <3>1 DEF NextEligible
  <2>4. CASE NextEligible(f) # Nobody
    <3>1. ~OpenGlobalBlocker(f) /\ \E s \in Stages : FirstEligible(f, s)
      BY <2>4 DEF NextEligible
    <3>2. ~OpenGlobalBlocker(Published) /\ \E s \in Stages : FirstEligible(Published, s)
      BY <2>1, <2>2, <3>1
    <3>3. NextEligible(Published) = CHOOSE s \in Stages : FirstEligible(Published, s)
      BY <3>2 DEF NextEligible
    <3>4. NextEligible(Published) \in Stages /\ FirstEligible(Published, NextEligible(Published))
      BY <3>2, <3>3
    <3>5. FirstEligible(f, NextEligible(f))
      BY <2>4, NextIsFirst
    <3> QED BY <2>2, <3>4, <3>5, OneFirst
  <2> QED BY <2>3, <2>4
<1> HIDE DEF next, f
<1>9. ValidFile(Published)
  BY <1>4, <1>7, <1>8 DEF ValidFile
<1> QED BY <1>4, <1>5, <1>7, <1>9 DEF SoundFile

-----------------------------------------------------------------------------

LEMMA InvInit == FeatureInit => FeatureInv
<1> SUFFICES ASSUME FeatureInit PROVE FeatureInv
  OBVIOUS
<1> QED BY PublishedIsSound DEF FeatureInit, FeatureInv, IdleSession

LEMMA InvStep == FeatureInv /\ [FeatureNext]_featureVars => FeatureInv'
<1> SUFFICES ASSUME FeatureInv, [FeatureNext]_featureVars PROVE FeatureInv'
  OBVIOUS
<1> USE DEF FeatureInv
<1>1. CASE UNCHANGED featureVars
  BY <1>1 DEF featureVars
<1>2. ASSUME NEW p \in Sessions, Looks(p)
      PROVE  FeatureInv'
  <2>1. file' = file /\ file \in FeatureFiles
    BY <1>2 DEF Looks, SoundFile
  <2>2. session' = [session EXCEPT ![p].seen = file]
    BY <1>2 DEF Looks
  <2> QED BY <2>1, <2>2
<1>3. ASSUME NEW p \in Sessions, NEW q \in Requests, NEW guarded \in BOOLEAN,
             Applies(p, q, guarded)
      PROVE  FeatureInv'
  <2>1. SoundFile(After(file, q))
    BY <1>3, AfterIsSound DEF Applies
  <2>2. file' = file /\ file \in FeatureFiles /\ After(file, q) \in FeatureFiles
    BY <1>3, <2>1 DEF Applies, SoundFile
  <2>3. session' = [session EXCEPT ![p] = [pc |-> "holding", seen |-> file,
                                           new |-> After(file, q)]]
    BY <1>3 DEF Applies
  <2> QED BY <2>1, <2>2, <2>3
<1>4. ASSUME NEW p \in Sessions, Replaces(p)
      PROVE  FeatureInv'
  BY <1>4 DEF Replaces, IdleSession
<1>5. ASSUME NEW p \in Sessions, Dies(p)
      PROVE  FeatureInv'
  BY <1>5 DEF Dies, IdleSession
<1> QED BY <1>1, <1>2, <1>3, <1>4, <1>5 DEF FeatureNext

LEMMA SoundIsInOrder == FeatureInv => FeatureInOrder /\ ReviewedByAnother
<1> SUFFICES ASSUME FeatureInv PROVE FeatureInOrder /\ ReviewedByAnother
  OBVIOUS
<1>1. SoundFile(file)
  BY DEF FeatureInv
<1>2. \A s, t \in Stages : Open(file, s) /\ Open(file, t) => s = t
  BY <1>1, OneFirst DEF SoundFile
<1>3. \A s \in Stages : Open(file, s) => file.next \in {s, Nobody} /\ file.current = s
  BY <1>1, NextIsFirst DEF SoundFile, ValidFile
<1>4. FeatureInOrder
  BY <1>1, <1>2, <1>3 DEF FeatureInOrder, InOrder, SoundFile
<1>5. ReviewedByAnother
  <2> SUFFICES ASSUME NEW s \in Stages, ApprovedStage(file, s)
               PROVE  LET r == file.stages[s] IN
                      /\ r.reviewer \in People /\ r.reviewer # r.implementer
                      /\ r.verification = "PASSED" /\ r.evidence /\ r.reviewEvidence /\ r.commit
    BY DEF ReviewedByAnother
  <2>1. file.stages[s].reviewer \in People /\ ValidStage(file.stages[s])
    BY <1>1 DEF SoundFile, ValidFile
  <2>2. file.stages[s].reviewer # Nobody
    BY <2>1, StagesAssumption
  <2> QED BY <2>1, <2>2 DEF ApprovedStage, ValidStage
<1> QED BY <1>4, <1>5

\* The feature is delivered one stage at a time and in order, whatever the
\* sessions ask for, in whatever order they replace the file, dead or alive.
THEOREM FeatureIsInOrder == FeatureSpec => []FeatureInOrder
<1>1. FeatureSpec => []FeatureInv
  BY InvInit, InvStep, PTL DEF FeatureSpec
<1> QED BY <1>1, SoundIsInOrder, PTL

\* An approval on record is by another than the implementer on record.
THEOREM ApprovalsAreByAnother == FeatureSpec => []ReviewedByAnother
<1>1. FeatureSpec => []FeatureInv
  BY InvInit, InvStep, PTL DEF FeatureSpec
<1> QED BY <1>1, SoundIsInOrder, PTL
================================================================================
