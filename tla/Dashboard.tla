------------------------------ MODULE Dashboard ------------------------------
(***************************************************************************)
(* The local dashboard's server (agentos_dashboard): the two things it     *)
(* does besides showing pages.                                             *)
(*                                                                         *)
(*   POST runs, approvals, findings, notes   a row of the SQLite store and *)
(*     its audit events in one transaction, whose events are appended to   *)
(*     the JSONL mirror before the commit (storage/db.py, services/)       *)
(*   POST prompts/generate   the prompt of a stage, when its preconditions *)
(*     hold, twice (services/stages.py, services/prompts.py)               *)
(*                                                                         *)
(* One server runs per repository, behind a lock, and its handlers never   *)
(* await: it works on one request at a time.  It can be killed anywhere;   *)
(* then the prompts, which are only in memory, are gone, and a transaction *)
(* that was under way is rolled back.  Clients repeat requests, with the   *)
(* same token or not.  Other commands, gates and people use the repository *)
(* meanwhile.  The texts of prompts, the log of prompt requests in memory, *)
(* the validation entries of a run and redaction are left out.             *)
(***************************************************************************)
EXTENDS Proposals, DashboardRules

CONSTANTS
  Posts,   \* bound: the bodies that are posted: [table, token, target, text]
  Tokens   \* bound: the client tokens of prompt requests

\* a body is of one of the four tables and has a token, which "none" is not
ASSUME PostsAssumption ==
  \A body \in Posts :
    /\ body.table \in {"stage_runs", "approvals", "findings", "user_notes"}
    /\ body.token # "none"

VARIABLES
  rows,    \* the committed rows of the store
  audit,   \* audit_events, in the order of their rowids
  mirror,  \* audit.jsonl, line by line
  server   \* the process: its prompts by token, or Down

dashboard == <<rows, audit, mirror, server>>

Down == [up |-> FALSE]
Requests == {"post", "generate"}

\* handlers run one after another
TakesRequest == server # Down /\ \A q \in Procs : Kind(q) \notin Requests

\* acquire_lock, create_app: another server is refused
ServerStarts ==
  /\ server = Down
  /\ Spend("server")
  /\ server' = [up |-> TRUE, prompts |-> <<>>]
  /\ UNCHANGED <<proc, told, rows, audit, mirror>>

ServerStops ==
  /\ server # Down
  /\ server' = Down
  /\ proc' = [p \in Procs |-> IF Kind(p) \in Requests THEN Idle ELSE proc[p]]
  /\ UNCHANGED <<told, left, rows, audit, mirror>>

-----------------------------------------------------------------------------
(* The store                                                               *)

Created ==
  [stage_runs |-> "run_created", approvals |-> "approval_created",
   findings |-> "finding_created", user_notes |-> "note_created"]

\* resolve_revision knows what this clone has
Resolves(commit) == commit \in Ancestors(head) \cup Ancestors(tracking)

\* a post is about a run by its uuid; the operator may have it from the mirror
StartsPost(p) ==
  \E body \in Posts, about \in {0} \cup {mirror[n].event.id : n \in DOMAIN mirror} :
    /\ TakesRequest
    /\ about = 0 \/ body.table \in {"approvals", "findings"}
    /\ Begin(p, [kind |-> "post", id |-> left["post"], about |-> about, body |-> body], "look")
    /\ UNCHANGED dashboard

Existing(ask) == {r \in rows : r.table = ask.body.table /\ r.body.token = ask.body.token}

RunExists(about) == about = 0 \/ \E r \in rows : r.table = "stage_runs" /\ r.id = about

\* create_run, create_approval, create_finding and create_note do the same to
\* four tables: refuse, replay, or create the row and what record_audit_event queues
NewRow(ask) ==
  [table |-> ask.body.table, id |-> ask.id, about |-> ask.about, body |-> ask.body,
   resolved |-> ask.body.target = 0 \/ Resolves(ask.body.target)]

Divergence(row) == [row EXCEPT !.table = "findings", !.body = [token |-> "none"]]

NewRows(row) == {row} \cup IF row.resolved THEN {} ELSE {Divergence(row)}

NewEvents(row) ==
  LET Event(kind) == [kind |-> kind, id |-> row.id]
  IN  IF row.resolved THEN <<Event(Created[row.table])>>
      ELSE <<Event(Created[row.table]), Event("reconciliation_divergence")>>

\* canonical_request_hash: the same request again
Replays(ask) == {r \in Existing(ask) : r.body = ask.body /\ r.about = ask.about}

PostCreates(p) ==
  LET ask == proc[p].ask
      row == NewRow(ask)
      events == NewEvents(row)
  IN  /\ At(p, "post", "look")
      /\ RunExists(ask.about) /\ Existing(ask) = {}
      /\ proc' = [proc EXCEPT ![p].pc = "append",
           ![p].made = [row |-> row, rows |-> NewRows(row), events |-> events, todo |-> events]]
      /\ UNCHANGED <<told, left, dashboard>>

PostReplays(p) ==
  /\ At(p, "post", "look")
  /\ RunExists(proc[p].ask.about)
  /\ \E r \in Replays(proc[p].ask) :
       proc' = [proc EXCEPT ![p].pc = "answer", ![p].made = [row |-> r]]
  /\ UNCHANGED <<told, left, dashboard>>

\* no such run, or IdempotencyConflict
PostRefuses(p) ==
  LET ask == proc[p].ask
  IN  /\ At(p, "post", "look")
      /\ RunExists(ask.about) => Existing(ask) # {} /\ Replays(ask) = {}
      /\ Refuses(p)
      /\ UNCHANGED dashboard

\* _append_audit_lines ends a line that was cut short before it appends another
Delimited(lines) ==
  [n \in DOMAIN lines |->
     IF lines[n].state = "unended" THEN [lines[n] EXCEPT !.state = "whole"] ELSE lines[n]]

MirrorAppends(event, state) == mirror' = Append(Delimited(mirror), [event |-> event, state |-> state])

PostAppends(p) ==
  LET todo == proc[p].made.todo
  IN  /\ At(p, "post", "append")
      /\ todo # <<>>
      /\ MirrorAppends(todo[1], "whole")
      /\ proc' = [proc EXCEPT ![p].made.todo = Tail(todo)]
      /\ UNCHANGED <<told, left, rows, audit, server>>

\* the write is cut short, by an error or with the server: a fragment, or a line
\* that only lacks its end
PostTears(p) ==
  /\ At(p, "post", "append")
  /\ proc[p].made.todo # <<>>
  /\ \E state \in {"fragment", "unended"} : MirrorAppends(proc[p].made.todo[1], state)
  /\ Refuses(p)
  /\ UNCHANGED <<rows, audit, server>>

\* Mutated form: the mirror is kept as well as it can be.
PostFails_Ignores(p) ==
  /\ At(p, "post", "append")
  /\ proc' = [proc EXCEPT ![p].made.todo = <<>>]
  /\ UNCHANGED <<told, left, dashboard>>

\* the mirror cannot be opened or synced, or the commit fails: rolled back
PostFails(p) ==
  /\ At(p, "post", "append")
  /\ Refuses(p)
  /\ UNCHANGED dashboard

PostCommits(p) ==
  LET made == proc[p].made
  IN  /\ At(p, "post", "append")
      /\ made.todo = <<>>
      /\ rows' = rows \cup made.rows
      /\ audit' = audit \o made.events
      /\ proc' = [proc EXCEPT ![p].pc = "answer", ![p].made = [row |-> made.row]]
      /\ UNCHANGED <<told, left, mirror, server>>

PostAnswers(p) ==
  /\ At(p, "post", "answer")
  /\ Answers(p, [row |-> proc[p].made.row])
  /\ UNCHANGED dashboard

-----------------------------------------------------------------------------
(* inspect_audit_mirror                                                    *)

Seen == {mirror[n].event : n \in {m \in DOMAIN mirror : mirror[m].state # "fragment"}}
Expected == {audit[n] : n \in DOMAIN audit}

Missing == Expected \ Seen
Duplicated ==
  {event \in Seen :
     Cardinality({n \in DOMAIN mirror : mirror[n].event = event /\ mirror[n].state # "fragment"}) > 1}

-----------------------------------------------------------------------------
(* Prompts                                                                 *)

\* evaluate_preconditions, in the order of its reads
EvaluationOrder == <<"queue", "registry", "status", "current", "remaining", "questions">>

Evaluation == [todo |-> EvaluationOrder, read |-> <<>>]

StartsGenerate(p) ==
  \E stage \in DOMAIN tree["registry"], token \in Tokens :
    /\ TakesRequest
    /\ Begin(p, [kind |-> "generate", stage |-> stage, token |-> token, amends |-> left["amend"]], "look")
    /\ UNCHANGED dashboard

\* PromptStore.get_by_token
GenerateLooks(p) ==
  LET token == proc[p].ask.token
  IN  /\ At(p, "generate", "look")
      /\ \/ /\ token \in DOMAIN server.prompts
            /\ Answers(p, server.prompts[token])
         \/ /\ token \notin DOMAIN server.prompts
            /\ proc' = [proc EXCEPT ![p].pc = "evaluate", ![p].made = Evaluation]
            /\ UNCHANGED <<told, left>>
      /\ UNCHANGED dashboard

\* Mutated form: the preconditions are evaluated once.
AfterPassing_Once(pc) == "summarize"

\* the first report, the texts, the final report
AfterPassing(pc) == IF pc = "evaluate" THEN "evaluateAgain" ELSE "summarize"

GenerateReads(p) ==
  LET made == proc[p].made
      document == made.todo[1]
      seen == IF document = "status" THEN IsClean(Porcelain) ELSE tree[document]
      read == (document :> seen) @@ made.read
      passes == AllPassed(proc[p].ask.stage, read, read["status"])
  IN  /\ At(p, "generate", "evaluate") \/ At(p, "generate", "evaluateAgain")
      /\ \/ /\ Len(made.todo) > 1
            /\ proc' = [proc EXCEPT ![p].made = [todo |-> Tail(made.todo), read |-> read]]
            /\ UNCHANGED <<told, left>>
         \/ /\ Len(made.todo) = 1 /\ passes
            /\ proc' = [proc EXCEPT ![p].pc = AfterPassing(@), ![p].made = Evaluation]
            /\ UNCHANGED <<told, left>>
         \/ /\ Len(made.todo) = 1 /\ ~passes
            /\ Refuses(p)
      /\ UNCHANGED dashboard

\* _tree_state_summary
GenerateSummarizes(p) ==
  /\ At(p, "generate", "summarize")
  /\ proc' = [proc EXCEPT ![p].pc = "store",
       ![p].made = [stage |-> proc[p].ask.stage, head |-> head, clean |-> IsClean(Porcelain)]]
  /\ UNCHANGED <<told, left, dashboard>>

\* PromptStore.add
GenerateStores(p) ==
  /\ At(p, "generate", "store")
  /\ server' = [server EXCEPT !.prompts = (proc[p].ask.token :> proc[p].made) @@ @]
  /\ Answers(p, proc[p].made)
  /\ UNCHANGED <<rows, audit, mirror>>
=============================================================================
