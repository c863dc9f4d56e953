------------------------------ MODULE RemoteCall ------------------------------
(***************************************************************************)
(* What a script may rely on when it calls the server through one object:  *)
(* one call at a time, each executed at most once; a call that returns an  *)
(* answer was executed, once, before it returned; a call whose write       *)
(* failed is never executed; any other failure leaves the script in doubt, *)
(* and the execution may still come.                                       *)
(***************************************************************************)
EXTENDS Integers

CONSTANT Calls

VARIABLES
    phase,  \* what the script knows of each call
    runs    \* how often the server executed it

Phases == {"new", "pending", "answered", "refused", "unknown"}

PromiseTypeOK ==
    /\ phase \in [Calls -> Phases]
    /\ runs \in [Calls -> 0 .. 1]

PromiseInit ==
    /\ phase = [c \in Calls |-> "new"]
    /\ runs = [c \in Calls |-> 0]

Move(c, from, to) ==
    /\ phase[c] = from
    /\ phase' = [phase EXCEPT ![c] = to]
    /\ UNCHANGED runs

(***************************************************************************)
(* The script blocks in one call at a time.                                *)
(***************************************************************************)
Begin(c) ==
    /\ \A d \in Calls : phase[d] # "pending"
    /\ Move(c, "new", "pending")

(***************************************************************************)
(* A method that sends nothing of its own.                                 *)
(***************************************************************************)
Skip(c) ==
    /\ \A d \in Calls : phase[d] # "pending"
    /\ Move(c, "new", "unknown")

Run(c) ==
    /\ phase[c] \in {"pending", "unknown"}
    /\ runs[c] = 0
    /\ runs' = [runs EXCEPT ![c] = 1]
    /\ UNCHANGED phase

Answer(c) == runs[c] = 1 /\ Move(c, "pending", "answered")

Refuse(c) == runs[c] = 0 /\ Move(c, "pending", "refused")

GiveUp(c) == Move(c, "pending", "unknown")

PromiseNext ==
    \E c \in Calls :
        Begin(c) \/ Skip(c) \/ Run(c) \/ Answer(c) \/ Refuse(c) \/ GiveUp(c)

Promise == PromiseInit /\ [][PromiseNext]_<<phase, runs>>
=============================================================================
