---------------------------- MODULE AtomicMutations ----------------------------
(***************************************************************************)
(* What an account sees of the browser gateway's mutations: each mutation  *)
(* happens at once and whole, together with the memory of its answer; the  *)
(* memory may be lost with time; and an answer always reports a mutation   *)
(* that happened, for the very request that asks.                          *)
(***************************************************************************)
CONSTANTS
    Slots,   \* an account with one idempotency key
    Bodies,  \* operations with their parameters
    Ids,     \* executions
    None     \* no execution

VARIABLES
    done,    \* the executions that happened
    memory,  \* the execution remembered for each slot
    given    \* the answers that were delivered

vars == <<done, memory, given>>

Executions == [slot : Slots, body : Bodies, id : Ids]

Init ==
    /\ done = {}
    /\ memory = [s \in Slots |-> None]
    /\ given = {}

\* Memory may be lost together with anything that looks at it.
Forget(old) == [s \in Slots |-> IF s \in old THEN None ELSE memory[s]]

Execute(run, old) ==
    /\ Forget(old)[run.slot] = None
    /\ \A other \in done : other.id # run.id
    /\ done' = done \cup {run}
    /\ memory' = [Forget(old) EXCEPT ![run.slot] = run.id]
    /\ UNCHANGED given

Lose(old) ==
    /\ memory' = Forget(old)
    /\ UNCHANGED <<done, given>>

Answer(run) ==
    /\ run \in done
    /\ given' = given \cup {run}
    /\ UNCHANGED <<done, memory>>

Next ==
    \/ \E run \in Executions, old \in SUBSET Slots : Execute(run, old)
    \/ \E old \in SUBSET Slots : Lose(old)
    \/ \E run \in done : Answer(run)

Spec == Init /\ [][Next]_vars
=============================================================================
