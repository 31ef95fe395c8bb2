------------------------------ MODULE CommandOnce ------------------------------
(***************************************************************************)
(* What a production scan promises: a command is carried out at most once,    *)
(* only a command that was carried out is acknowledged, and an acknowledged   *)
(* one is not carried out any more.  A refused one still may be, by a request *)
(* that is late.                                                             *)
(***************************************************************************)
EXTENDS Naturals

CONSTANT Commands

VARIABLES
    executed,  \* how often each command was carried out
    told       \* what its operator was told

vars == <<executed, told>>

Init ==
    /\ executed = [i \in Commands |-> 0]
    /\ told = [i \in Commands |-> "open"]

Execute(i) ==
    /\ executed[i] = 0 /\ told[i] # "ok"
    /\ executed' = [executed EXCEPT ![i] = 1]
    /\ UNCHANGED told

Acknowledge(i) ==
    /\ executed[i] = 1 /\ told[i] = "open"
    /\ told' = [told EXCEPT ![i] = "ok"]
    /\ UNCHANGED executed

Refuse(i) ==
    /\ told[i] = "open"
    /\ told' = [told EXCEPT ![i] = "refused"]
    /\ UNCHANGED executed

Next == \E i \in Commands : Execute(i) \/ Acknowledge(i) \/ Refuse(i)

Spec == Init /\ [][Next]_vars

=============================================================================
