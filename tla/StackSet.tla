------------------------------ MODULE StackSet ------------------------------
(***************************************************************************)
(* What stack provisioning promises (spec sections 6 and 7), with no       *)
(* listing, ids or program counter: each stack of the file is created at   *)
(* most once and then brought to the catalog template; a call that        *)
(* changes a stack may still report an error; Initialize reports success   *)
(* only when every stack exists once and has the template; a failed run    *)
(* may be started again; and a run that has started ends.                  *)
(***************************************************************************)
EXTENDS Naturals

CONSTANTS StackNames, Procs

VARIABLES
    copies,    \* copies[s]: number of stacks named s on the platform
    upgraded,  \* upgraded[s]: whether a stack named s has the template
    status     \* status[p]: "running", "ok" or "err"

avars == <<copies, upgraded, status>>

Init ==
    /\ copies \in [StackNames -> {0, 1}]
    /\ upgraded = [s \in StackNames |-> FALSE]
    /\ status = [p \in Procs |-> "running"]

\* A change to the platform made by run p, which may also end p with an error.
EndsOrNot(p) == status' \in {status, [status EXCEPT ![p] = "err"]}

Create(p, s) ==
    /\ status[p] = "running"
    /\ copies[s] = 0
    /\ copies' = [copies EXCEPT ![s] = 1]
    /\ EndsOrNot(p)
    /\ UNCHANGED upgraded

Upgrade(p, s) ==
    /\ status[p] = "running"
    /\ copies[s] = 1
    /\ upgraded' = [upgraded EXCEPT ![s] = TRUE]
    /\ EndsOrNot(p)
    /\ UNCHANGED copies

Succeed(p) ==
    /\ status[p] = "running"
    /\ \A s \in StackNames : copies[s] = 1 /\ upgraded[s]
    /\ status' = [status EXCEPT ![p] = "ok"]
    /\ UNCHANGED <<copies, upgraded>>

Fail(p) ==
    /\ status[p] = "running"
    /\ status' = [status EXCEPT ![p] = "err"]
    /\ UNCHANGED <<copies, upgraded>>

Restart(p) ==
    /\ status[p] = "err"
    /\ status' = [status EXCEPT ![p] = "running"]
    /\ UNCHANGED <<copies, upgraded>>

Next ==
    \E p \in Procs :
        \/ \E s \in StackNames : Create(p, s) \/ Upgrade(p, s)
        \/ Succeed(p) \/ Fail(p) \/ Restart(p)

\* A run that has started returns, with success or an error.
Spec == Init /\ [][Next]_avars /\ \A p \in Procs : WF_avars(Succeed(p) \/ Fail(p))

=============================================================================
