------------------------------ MODULE Proposals ------------------------------
(***************************************************************************)
(* governance propose-successor (successor_planning/proposal.py,           *)
(* snapshot.py, store.py): reads the whole record once for its identity,   *)
(* once for its evidence and piece by piece for the required checks,       *)
(* concludes, reads it all again, and publishes the conclusion when        *)
(* nothing has moved - or a refusal that says that something has.  It      *)
(* locks nothing: people, gates and other commands write the documents     *)
(* while it reads.                                                         *)
(*                                                                         *)
(* A proposal is stored under the digest of its payload, so the payload    *)
(* is its address here; the time it was generated at is in the document    *)
(* and not in the payload.                                                 *)
(***************************************************************************)
EXTENDS EngineCommands, SuccessorRules, Functions, TLC

CONSTANT ReadsAtOnce   \* bound: the documents, or checks, between which nobody else acts

ASSUME ReadsAssumption == ReadsAtOnce \in Nat \ {0}

VARIABLES
  artifacts,  \* the artifact store: [payload, at], one per payload
  moments,    \* history: the record and HEAD as they were, since each command began
  rewound     \* history: the commands since which the times of a document went back

proposals == <<artifacts, moments, rewound>>

\* take_snapshot, in the order of the paths
SnapshotOrder == <<"project", "queue", "current", "remaining", "reports", "questions",
                   "registry", "catalog", "checksum", "handover">>

ASSUME DocumentsAssumption == Documents = Range(SnapshotOrder)

\* read_evidence_set; the catalog is read later
EvidenceOrder == <<"queue", "current", "remaining", "project", "registry", "questions",
                   "reports", "checksum", "handover">>

Now == [docs |-> [d \in Documents |-> tree[d]], head |-> head, clean |-> IsClean(Porcelain)]

\* the commands that read the record piece by piece
Readers == {"propose", "generate"}

\* a moment that what the command has read so far may be of; after the
\* publication began none is asked for
StillMatters(p, moment) ==
  \/ proc[p].pc = "head" \/ Kind(p) # "propose"
  \/ proc[p].pc = "status" /\ moment.head = proc[p].seen.head
  \/ /\ proc[p].pc \notin {"head", "status", "lookAgain", "rename", "existing", "verify"}
     /\ moment.head = proc[p].seen.head
     /\ \A d \in DOMAIN proc[p].made.first : moment.docs[d] = proc[p].made.first[d].content

\* taken by every step
Remembered ==
  /\ moments' = [p \in Procs |->
       IF Kind(p)' \in Readers THEN {m \in moments[p] \cup {Now'} : StillMatters(p, m)'} ELSE {}]
  /\ rewound' = {p \in Procs :
       Kind(p)' = "propose" /\ (p \in rewound \/ \E d \in Documents : stamps'[d] < stamps[d])}

NothingRead ==
  [todo |-> SnapshotOrder, first |-> <<>>, last |-> <<>>, evidence |-> <<>>, failure |-> "none",
   moved |-> FALSE, result |-> Nothing, document |-> Nothing]

\* what is read next; "todo" without it
Reads(todo) == SubSeq(todo, 1, IF Len(todo) < ReadsAtOnce THEN Len(todo) ELSE ReadsAtOnce)
Unread(todo) == SubSeq(todo, ReadsAtOnce + 1, Len(todo))

\* some of "todo" done; on to "next" after the last
Proceeds(p, made, next, todo) ==
  LET unread == Unread(made.todo)
  IN  /\ proc' = [proc EXCEPT
           ![p].pc = IF unread = <<>> THEN next ELSE @,
           ![p].made = [made EXCEPT !.todo = IF unread = <<>> THEN todo ELSE unread]]
      /\ UNCHANGED <<told, left, git, artifacts>>

Moves(p, pc, made) ==
  /\ proc' = [proc EXCEPT ![p].pc = pc, ![p].made = made]
  /\ UNCHANGED <<told, left, git, artifacts>>

Drops(p) == Refuses(p) /\ UNCHANGED <<git, artifacts>>

\* the invocation, after check_no_unauthorized_successor let it pass
StartsPropose(p) ==
  \E stage \in KnownStages(tree) :
    /\ Begin(p, [kind |-> "propose", predecessor |-> stage, at |-> left["propose"]], "head")
    /\ UNCHANGED <<git, artifacts>>

\* resolve_repository_identity, after GitClient.status: of the baseline findings
\* only a protected path that is staged can appear
ProposeReadsStatus(p) ==
  /\ At(p, "propose", "status")
  /\ IF Porcelain.staged \cap Protected = {}
     THEN /\ proc' = [proc EXCEPT ![p].pc = "capture", ![p].status = Porcelain, ![p].made = NothingRead]
          /\ UNCHANGED <<told, left, git, artifacts>>
     ELSE Drops(p)

\* what has been read, with what is read now
Joined(old, new) ==
  [d \in DOMAIN old \cup DOMAIN new |-> IF d \in DOMAIN new THEN new[d] ELSE old[d]]

\* _capture_file, for some documents
Captured(todo) ==
  [d \in Range(Reads(todo)) |-> [content |-> tree[d], stamp |-> stamps[d]]]

ProposeCaptures(p) ==
  LET made == proc[p].made
  IN  /\ At(p, "propose", "capture")
      /\ Proceeds(p, [made EXCEPT !.first = Joined(@, Captured(made.todo))], "evidence", EvidenceOrder)

ProposeReadsEvidence(p) ==
  LET made == proc[p].made
      contents == [d \in Range(Reads(made.todo)) |-> tree[d]]
  IN  /\ At(p, "propose", "evidence")
      /\ Proceeds(p, [made EXCEPT !.evidence = Joined(@, contents)], "predecessor", RequiredChecks)

\* resolve_predecessor, and merge_evidence_manifest, which stops at a document
\* that was read twice and differed; neither failure leaves a record
ProposeResolves(p) ==
  LET made == proc[p].made
  IN  /\ At(p, "propose", "predecessor")
      /\ IF /\ PredecessorConfirmed(made.evidence, proc[p].ask.predecessor)
            /\ \A d \in DOMAIN made.evidence : made.evidence[d] = made.first[d].content
         THEN Moves(p, "checks", made)
         ELSE Drops(p)

\* run_required_governance_checks, each of which reads its documents again; the
\* first finding is kept
ProposeChecks(p) ==
  LET made == proc[p].made
  IN  /\ At(p, "propose", "checks")
      /\ Proceeds(p,
           [made EXCEPT !.failure = IF @ = "none" THEN FirstFailure(Reads(made.todo), tree) ELSE @],
           "reconcile", SnapshotOrder)

\* the first failure, the reconciliation of what was read as evidence, and a
\* Current task each refuse
ProposeReconciles(p) ==
  LET made == proc[p].made
      Concludes(code) == Moves(p, "headAgain", [made EXCEPT !.result = Refusal(code)])
      evidence == made.evidence
  IN  /\ At(p, "propose", "reconcile")
      /\ CASE made.failure # "none" -> Concludes(made.failure)
           [] made.failure = "none" /\ ~MirrorsReconcile(evidence) -> Concludes("MIRROR_CONTRADICTION")
           [] made.failure = "none" /\ MirrorsReconcile(evidence) /\ CurrentTasks(evidence) # {} ->
                Concludes("CONFLICTING_CURRENT_TASK")
           [] OTHER -> Moves(p, "catalog", made)

\* read_catalog and the evaluation
ProposeReadsCatalog(p) ==
  LET made == proc[p].made
  IN  /\ At(p, "propose", "catalog")
      /\ Moves(p, "headAgain", [made EXCEPT !.result = Proposal(tree["catalog"], made.evidence)])

-----------------------------------------------------------------------------
(* The second snapshot                                                     *)

\* a refusal of the second snapshot is published without a third
ProposeReadsStatusAgain(p) ==
  LET made == proc[p].made
  IN  /\ At(p, "propose", "statusAgain")
      /\ IF Porcelain.staged \cap Protected = {}
         THEN Moves(p, "captureAgain",
                [made EXCEPT !.moved = proc[p].again # proc[p].seen \/ Porcelain # proc[p].status])
         ELSE Moves(p, "publish", [made EXCEPT !.result = Refusal("DIRTY_BASELINE")])

ProposeCapturesAgain(p) ==
  LET made == proc[p].made
  IN  /\ At(p, "propose", "captureAgain")
      /\ Proceeds(p, [made EXCEPT !.last = Joined(@, Captured(made.todo))], "compare", <<>>)

\* Mutated form: the contents alone are compared.
Drifted_Contents(made) ==
  made.moved \/ \E d \in Documents : made.first[d].content # made.last[d].content

\* compare_snapshots
Drifted(made) == made.moved \/ made.first # made.last

ProposeCompares(p) ==
  LET made == proc[p].made
  IN  /\ At(p, "propose", "compare")
      /\ Moves(p, "publish",
               IF Drifted(made) THEN [made EXCEPT !.result = Refusal("INPUT_DRIFT")] ELSE made)

-----------------------------------------------------------------------------
(* Publication                                                             *)

\* the canonical payload, which is what a proposal's digest is of
Payload(p) ==
  [identity |-> [head |-> proc[p].seen, status |-> proc[p].status],
   predecessor |-> proc[p].ask.predecessor,
   evidence |-> [d \in Documents |-> proc[p].made.first[d].content],
   result |-> proc[p].made.result]

Stored(payload) == {a \in artifacts : a.payload = payload}

\* a conclusion is a PASS; a refusal is reported as a failure, published or not
Concluded(p, payload, published) ==
  IF proc[p].made.result.class = "PROPOSAL_READY"
  THEN Answers(p, [payload |-> payload, published |-> published])
  ELSE Refuses(p)

\* --dry-run, which nothing has looked at before
ProposeEndsDry(p) ==
  /\ At(p, "propose", "publish")
  /\ Concluded(p, Payload(p), FALSE)
  /\ UNCHANGED <<git, artifacts>>

\* ArtifactStore.publish: is something published there already?
ProposeLooks(p) ==
  LET document == [payload |-> Payload(p), at |-> proc[p].ask.at]
  IN  /\ At(p, "propose", "publish")
      /\ Moves(p, IF Stored(Payload(p)) = {} THEN "lookAgain" ELSE "existing",
               [proc[p].made EXCEPT !.document = document])

\* ... and once more when the temporary file is there
ProposeLooksAgain(p) ==
  /\ At(p, "propose", "lookAgain")
  /\ Moves(p, IF Stored(Payload(p)) = {} THEN "rename" ELSE "existing", proc[p].made)

\* os.rename, which replaces what was published since
ProposeRenames(p) ==
  /\ At(p, "propose", "rename")
  /\ artifacts' = (artifacts \ Stored(Payload(p))) \cup {proc[p].made.document}
  /\ Goes(p, "verify")
  /\ UNCHANGED git

\* _reconcile_existing: the same payload, generated at whatever time
ProposeReconcilesExisting(p) ==
  /\ At(p, "propose", "existing")
  /\ \E existing \in Stored(Payload(p)) : Moves(p, "verify", [proc[p].made EXCEPT !.document = existing])

\* _verify_published compares the bytes
ProposeVerifies(p) ==
  /\ At(p, "propose", "verify")
  /\ IF proc[p].made.document \in artifacts THEN Concluded(p, Payload(p), TRUE) ELSE Refuses(p)
  /\ UNCHANGED <<git, artifacts>>
=============================================================================
