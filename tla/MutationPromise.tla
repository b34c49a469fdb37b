----------------------------- MODULE MutationPromise -----------------------------
(***************************************************************************)
(* What the event chain of a run promises: mutations follow one another    *)
(* whole.  A mutation of several effects is declared first; while it is    *)
(* incomplete only the command that declared it goes on, and when that     *)
(* command has ended nobody does.  What may have been lost with the power  *)
(* stops the run: it is never continued from a shorter history.            *)
(***************************************************************************)
EXTENDS Naturals, Sequences, SequencesExt

VARIABLES
    log,        \* entries: mutation of, its size, and which of its effects (0: the declaration)
    atWork,     \* is the command that declared the last mutation still running?
    stopped

Whole == log = <<>> \/ Last(log).index = Last(log).size

Init == log = <<>> /\ atWork = FALSE /\ stopped = FALSE

\* A mutation of one effect, or the declaration of a larger one.
BeginMutation ==
    /\ Whole /\ ~stopped
    /\ log' # <<>> /\ Front(log') = log
    /\ LET new == Last(log')
       IN  /\ \A i \in DOMAIN log : log[i].of # new.of
           /\ (new.index = 0) = (new.size > 1) /\ new.index <= 1
    /\ atWork' = TRUE
    /\ UNCHANGED stopped

\* The next effect of the mutation declared.
ContinueMutation ==
    /\ ~Whole /\ atWork /\ ~stopped
    /\ log' = Append(log, [Last(log) EXCEPT !.index = @ + 1])
    /\ UNCHANGED <<atWork, stopped>>

EndCommand ==
    /\ atWork' = FALSE
    /\ UNCHANGED <<log, stopped>>

\* The run is over, with or without the last entry.
Stop ==
    /\ ~stopped /\ stopped' = TRUE
    /\ \/ log' = log
       \/ log # <<>> /\ log' = Front(log)
    /\ atWork' = FALSE

Next == BeginMutation \/ ContinueMutation \/ EndCommand \/ Stop

Spec == Init /\ [][Next]_<<log, atWork, stopped>>
================================================================================
