------------------------------ MODULE HostSet ------------------------------
(***************************************************************************)
(* What host provisioning promises (spec section 6, hosts), with no       *)
(* listing, template lookup or program counter: a run creates only hosts *)
(* the file asks for, and each only where the platform has none of that   *)
(* name; a create may still end the run with an error; Initialize reports *)
(* success only when every host the file asks for exists; a failed run may *)
(* be started again; and a run that has started returns.                   *)
(***************************************************************************)
EXTENDS Naturals

CONSTANTS
    Names,     \* host names that can exist on the platform
    Wanted,    \* the names the hosts: section asks for (a subset of Names)
    Procs

VARIABLES
    copies,    \* copies[n]: number of hosts named n on the platform
    status     \* status[p]: "running", "ok" or "err"

hvars == <<copies, status>>

Init ==
    /\ copies \in [Names -> {0, 1}]
    /\ status = [p \in Procs |-> "running"]

Create(p, n) ==
    /\ status[p] = "running"
    /\ n \in Wanted
    /\ copies[n] = 0
    /\ copies' = [copies EXCEPT ![n] = 1]
    /\ status' \in {status, [status EXCEPT ![p] = "err"]}

Succeed(p) ==
    /\ status[p] = "running"
    /\ \A n \in Wanted : copies[n] = 1
    /\ status' = [status EXCEPT ![p] = "ok"]
    /\ UNCHANGED copies

Fail(p) ==
    /\ status[p] = "running"
    /\ status' = [status EXCEPT ![p] = "err"]
    /\ UNCHANGED copies

Restart(p) ==
    /\ status[p] = "err"
    /\ status' = [status EXCEPT ![p] = "running"]
    /\ UNCHANGED copies

Next ==
    \E p \in Procs :
        \/ \E n \in Names : Create(p, n)
        \/ Succeed(p) \/ Fail(p) \/ Restart(p)

\* A run that has started returns, with success or an error.
Spec == Init /\ [][Next]_hvars /\ \A p \in Procs : WF_hvars(Succeed(p) \/ Fail(p))

=============================================================================
