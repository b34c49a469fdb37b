----------------------------- MODULE AgentRuns ------------------------------
(***************************************************************************)
(* The governed prompts and the agent runs made from them:                 *)
(*                                                                         *)
(*   prompt <stage>   collects the context of the target repository, with  *)
(*                    the evidence of verification bundles when some are   *)
(*                    selected, renders it and publishes the pair          *)
(*                    metadata, Markdown (prompt/context.py, store.py);    *)
(*   agent run        runs one configured agent on a stored prompt in a    *)
(*                    clone, judges what it did and publishes the pair     *)
(*                    record, patch (agents/runner.py, verification.py,    *)
(*                    artifacts.py).                                       *)
(*                                                                         *)
(* Both bind what they saw to the HEAD they read; both know that the       *)
(* repository and the engine's own code can change under them.  A prompt   *)
(* id and a run id are content hashes: a prompt and a run are their        *)
(* contents here, and the stores are the members that exist.               *)
(***************************************************************************)
EXTENDS EngineCommands

CONSTANTS
  PromptStages,  \* bound: the stages prompts are asked for
  Engines,    \* what the engine's own worktree can be; "dirty" when uncommitted
  Editable    \* TRUE when the engine is installed editable

VARIABLES
  metadata,   \* the prompts whose .json member exists
  markdown,   \* the prompts whose .md member exists
  records,    \* the runs whose .json member exists
  patches,    \* the runs whose .patch member exists
  engine      \* the state of the engine's own worktree

stores == <<metadata, markdown, records, patches, engine>>

VERDICT_STAGES == {"plan-review", "implementation-review", "governance-review"}

\* the stages whose agent may write, and whose prompt takes --allowed-path
ScopedWriteStages == {"implementation", "remediation"}

Verdicts == {"APPROVED", "REJECTED"}

\* resolve_engine_provenance refuses uncommitted code of an editable engine
EngineResolves == ~(Editable /\ engine = "dirty")

\* load: both members, and every digest in them recomputed
PromptLoads(prompt) == prompt \in metadata \cap markdown

\* Mutated form: the record alone stands for the run.
RunLoads_Record(run) == run \in records

RunLoads(run) == run \in records \cap patches

BaseFiles(run) == commits[run.prompt.head].files
Changed(run) == DiffNames(BaseFiles(run), run.files)

-----------------------------------------------------------------------------
(* prompt <stage>                                                          *)

\* allowed paths are required of the writing stages and refused of the others
StartsPrompt(p) ==
  \E stage \in PromptStages, allowed \in SUBSET Code, bundled \in BOOLEAN :
    /\ Begin(p, [kind |-> "prompt", stage |-> stage, allowed |-> allowed,
                 bundled |-> bundled, engine |-> engine], "head")
    /\ (stage \in ScopedWriteStages) = (allowed # {})
    /\ EngineResolves
    /\ UNCHANGED <<git, stores>>

\* the status of the target; bundles run only against a clean one
PromptReadsStatus(p) ==
  /\ At(p, "prompt", "status")
  /\ CASE ~proc[p].ask.bundled -> Goes(p, "render")
       [] proc[p].ask.bundled /\ ~IsClean(Porcelain) -> Refuses(p)
       [] OTHER -> Goes(p, "headAgain")
  /\ UNCHANGED <<git, stores>>

\* Mutated form: the status is not read again after the bundles.
PromptReadsStatusAgain_Never(p) ==
  /\ At(p, "prompt", "statusAgain")
  /\ Goes(p, "render")
  /\ UNCHANGED <<git, stores>>

\* _require_target_unchanged and _require_engine_unchanged, after the bundles
PromptReadsStatusAgain(p) ==
  /\ At(p, "prompt", "statusAgain")
  /\ IF /\ proc[p].again.head = proc[p].seen.head
        /\ IsClean(Porcelain)
        /\ engine = proc[p].ask.engine
     THEN Goes(p, "render")
     ELSE Refuses(p)
  /\ UNCHANGED <<git, stores>>

Rendered(p) ==
  [stage |-> proc[p].ask.stage, allowed |-> proc[p].ask.allowed,
   bundled |-> proc[p].ask.bundled, head |-> proc[p].seen.head,
   engine |-> proc[p].ask.engine]

\* save: the metadata member is linked first
PromptLinksMetadata(p) ==
  /\ At(p, "prompt", "render")
  /\ metadata' = metadata \cup {Rendered(p)}
  /\ Goes(p, "markdown")
  /\ UNCHANGED <<git, markdown, records, patches, engine>>

PromptLinksMarkdown(p) ==
  /\ At(p, "prompt", "markdown")
  /\ markdown' = markdown \cup {Rendered(p)}
  /\ Answers(p, Rendered(p))
  /\ UNCHANGED <<git, metadata, records, patches, engine>>

-----------------------------------------------------------------------------
(* agent run                                                               *)

StartsRun(p) ==
  \E prompt \in metadata :
    /\ PromptLoads(prompt)
    /\ Begin(p, [kind |-> "run", prompt |-> prompt], "head")
    /\ UNCHANGED <<git, stores>>

\* the gates before a sandbox exists
RunReadsStatus(p) ==
  /\ At(p, "run", "status")
  /\ IF IsClean(Porcelain) /\ proc[p].seen.head = proc[p].ask.prompt.head
     THEN /\ proc' = [proc EXCEPT ![p].pc = "engine", ![p].status = Porcelain]
          /\ UNCHANGED <<told, left>>
     ELSE Refuses(p)
  /\ UNCHANGED <<git, stores>>

RunResolvesEngine(p) ==
  /\ At(p, "run", "engine")
  /\ IF EngineResolves
     THEN /\ proc' = [proc EXCEPT ![p].pc = "sandbox", ![p].made = [engine |-> engine]]
          /\ UNCHANGED <<told, left>>
     ELSE Refuses(p)
  /\ UNCHANGED <<git, stores>>

\* verify_run, over what the runner observed
Verified(run, claimed, checksPass) ==
  /\ claimed = Changed(run)
  /\ Changed(run) \subseteq run.prompt.allowed
  /\ Changed(run) \cap Protected = {}
  /\ checksPass

\* what _parse_report and _binding_failure make of the agent's output: nothing
\* (a timeout, a nonzero exit, a report that does not parse or does not bind),
\* or a report whose verdict is there exactly when the stage takes one
Reported(prompt) ==
  {[code |-> "agent_failed", verdict |-> "none"]} \cup
  {[code |-> "none", verdict |-> verdict] :
     verdict \in IF prompt.stage \in VERDICT_STAGES THEN Verdicts ELSE {"none"}}

\* the agent has ended in its clone of prompt.head, whatever it did there; the
\* verification commands have been run when it reported, and the engine's own
\* provenance is resolved once more: drift leaves nothing to store
AgentEnds(p) ==
  LET prompt == proc[p].ask.prompt
      engineThen == proc[p].made.engine
      drifted == ~EngineResolves \/ engine # engineThen
  IN  /\ At(p, "run", "sandbox")
      /\ \E report \in Reported(prompt), ended \in Worked(commits[prompt.head].files), claimed \in SUBSET Code, checksPass \in BOOLEAN :
           LET run == [prompt |-> prompt, engine |-> engineThen, code |-> report.code,
                       verdict |-> report.verdict, files |-> ended]
           IN  /\ report.code # "none" => claimed = {} /\ ~checksPass
               /\ prompt.stage \notin ScopedWriteStages => claimed = {}
               /\ proc' = [proc EXCEPT
                    ![p].pc = "headAgain",
                    ![p].made = [run |-> run, drifted |-> drifted,
                                 passed |-> /\ report.code = "none"
                                            /\ Verified(run, claimed, checksPass)]]
      /\ UNCHANGED <<told, left, git, stores>>

\* a run that changed the target fails regardless of everything else, and
\* regardless of the drift: what is stored then names the engine it began with
RunReadsStatusAgain(p) ==
  LET mutated == proc[p].again # proc[p].seen \/ Porcelain # proc[p].status
      run == proc[p].made.run
      record == [prompt |-> run.prompt, engine |-> run.engine, files |-> run.files,
                 code |-> IF mutated THEN "repository_mutated" ELSE run.code,
                 verdict |-> IF mutated THEN "none" ELSE run.verdict,
                 passed |-> proc[p].made.passed /\ ~mutated]
  IN  /\ At(p, "run", "statusAgain")
      /\ IF proc[p].made.drifted /\ ~mutated
         THEN Refuses(p)
         ELSE /\ proc' = [proc EXCEPT ![p].pc = "record", ![p].made = record]
              /\ UNCHANGED <<told, left>>
      /\ UNCHANGED <<git, stores>>

\* save_run: the record is linked first
RunLinksRecord(p) ==
  /\ At(p, "run", "record")
  /\ records' = records \cup {proc[p].made}
  /\ Goes(p, "patch")
  /\ UNCHANGED <<git, metadata, markdown, patches, engine>>

RunLinksPatch(p) ==
  /\ At(p, "run", "patch")
  /\ patches' = patches \cup {proc[p].made}
  /\ IF proc[p].made.passed THEN Answers(p, proc[p].made) ELSE Refuses(p)
  /\ UNCHANGED <<git, metadata, markdown, records, engine>>

-----------------------------------------------------------------------------
\* somebody works on the engine itself
EngineChanges ==
  /\ engine' \in Engines \ {engine}
  /\ UNCHANGED <<metadata, markdown, records, patches>>
=============================================================================
