----------------------------- MODULE ServiceSet -----------------------------
(***************************************************************************)
(* What the Up and Create handlers promise about the services of a stack   *)
(* (spec sections 4.7 and 7), with no ids, copies, links or program        *)
(* counter: a handler creates its service only where the stack has none of *)
(* that name, a call that creates it may still end the handler with an     *)
(* error, a handler reports success only when its service exists (or when  *)
(* it was asked to roll back), and every handler returns.                  *)
(***************************************************************************)
EXTENDS Naturals

CONSTANTS Services, Procs, Target

VARIABLES
    copies,    \* copies[s]: number of services named s in the stack
    result,    \* result[p]: "running", "ok" or "err"
    rollback   \* whether the handlers were asked to roll back

svars == <<copies, result, rollback>>

Init ==
    /\ copies \in [Services -> {0, 1}]
    /\ result = [p \in Procs |-> "running"]
    /\ rollback \in BOOLEAN

Create(p) ==
    /\ result[p] = "running"
    /\ copies[Target[p]] = 0
    /\ copies' = [copies EXCEPT ![Target[p]] = 1]
    /\ result' \in {result, [result EXCEPT ![p] = "err"]}
    /\ UNCHANGED rollback

Succeed(p) ==
    /\ result[p] = "running"
    /\ copies[Target[p]] = 1 \/ rollback
    /\ result' = [result EXCEPT ![p] = "ok"]
    /\ UNCHANGED <<copies, rollback>>

Fail(p) ==
    /\ result[p] = "running"
    /\ result' = [result EXCEPT ![p] = "err"]
    /\ UNCHANGED <<copies, rollback>>

Next == \E p \in Procs : Create(p) \/ Succeed(p) \/ Fail(p)

\* Every handler that has started returns, with success or an error.
Spec == Init /\ [][Next]_svars /\ \A p \in Procs : WF_svars(Succeed(p) \/ Fail(p))

\* The safety part alone: what a handler may do, without that it returns.
SafetySpec == Init /\ [][Next]_svars

=============================================================================
