--------------------------- MODULE EngineCommands ---------------------------
(***************************************************************************)
(* How one invocation of the engine's command line runs (cli.py): the      *)
(* operator's request, a series of steps on the repository and the stores, *)
(* and the answer printed at the end.  Several invocations run at once and *)
(* nothing locks them against each other; any of them can be killed        *)
(* between two steps.                                                      *)
(***************************************************************************)
EXTENDS GitWorkspace

CONSTANTS
  Procs,      \* bound: the invocations that can run at the same time
  Protected   \* the paths of never_stage and never_commit

VARIABLES
  proc,   \* per invocation: the step it is at and what it has read
  told,   \* history: the PASS answers that have been printed
  left    \* bound: how often each kind of command, or of person, still acts

cmds == <<proc, told, left>>

Nothing == [kind |-> "nothing"]

Idle == [pc |-> "idle", ask |-> Nothing, seen |-> Nothing, status |-> Nothing,
         again |-> Nothing, made |-> Nothing]

Kind(p) == proc[p].ask.kind
At(p, kind, pc) == Kind(p) = kind /\ proc[p].pc = pc

Spend(kind) == left[kind] > 0 /\ left' = [left EXCEPT ![kind] = @ - 1]

\* a command line that passed its own parsing and first checks
Begin(p, ask, pc) ==
  /\ proc[p] = Idle
  /\ Spend(ask.kind)
  /\ proc' = [proc EXCEPT ![p] = [Idle EXCEPT !.pc = pc, !.ask = ask]]
  /\ UNCHANGED told

Goes(p, pc) ==
  /\ proc' = [proc EXCEPT ![p].pc = pc]
  /\ UNCHANGED <<told, left>>

\* the PASS answer, with what it reports
Answers(p, report) ==
  /\ proc' = [proc EXCEPT ![p] = Idle]
  /\ told' = told \cup {[ask |-> proc[p].ask, made |-> report]}
  /\ UNCHANGED left

\* a FAIL or an ERROR, after which the invocation is over
Refuses(p) ==
  /\ proc' = [proc EXCEPT ![p] = Idle]
  /\ UNCHANGED <<told, left>>

\* GitClient.status: HEAD and the upstream first
ReadsHead(p) ==
  /\ proc[p].pc = "head"
  /\ proc' = [proc EXCEPT ![p].pc = "status", ![p].seen = HeadAnswer]
  /\ UNCHANGED <<told, left>>

\* the same, for a command that reads the status once more at its end
ReadsHeadAgain(p) ==
  /\ proc[p].pc = "headAgain"
  /\ proc' = [proc EXCEPT ![p].pc = "statusAgain", ![p].again = HeadAnswer]
  /\ UNCHANGED <<told, left>>

\* the process is killed, or the machine goes down, between two steps
Dies(p) ==
  /\ proc[p] # Idle
  /\ Refuses(p)
=============================================================================
