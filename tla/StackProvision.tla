--------------------------- MODULE StackProvision ---------------------------
(***************************************************************************)
(* Stack provisioning (src/rancher/stack.go).                              *)
(*                                                                         *)
(* Stacks.Initialize runs EnsureItExists on every stack, in the order the  *)
(* factory built them from a Go map, and stops at the first error.         *)
(* EnsureItExists lists the stacks named "<project>-<name>"; when there is *)
(* none it creates one and upgrades it to the catalog template, otherwise  *)
(* it sleeps 60 s and upgrades the first one listed.  The platform keeps,  *)
(* per stack record, its name and whether this version of the template    *)
(* has been applied by an upgrade.                                         *)
(***************************************************************************)
EXTENDS Naturals, FiniteSets

CONSTANTS
    StackNames,   \* entries of the stacks: section (model values)
    Procs,        \* executors running Initialize
    Ids,          \* record identifiers of the platform
    InitialId,    \* InitialId[s]: id of stack s when it exists before the run
    MaxFaults,    \* bound on transport errors over a behaviour
    MaxReruns     \* bound on reruns of Initialize (after an error or a crash)

VARIABLES
    remote,   \* platform: id -> [name, upgraded] or Absent
    pc,       \* "next", "list", "create", "upgrade" or "Done"
    todo,     \* stacks Initialize has not finished
    cur,      \* the stack whose EnsureItExists is running
    target,   \* the id EnsureItExists will upgrade
    result,   \* "running", "ok" or "err"
    faults,
    reruns

vars == <<remote, pc, todo, cur, target, result, faults, reruns>>

Absent == [absent |-> TRUE]
NoId == 0

Used == {i \in Ids : remote[i] # Absent}
Named(s) == {i \in Used : remote[i].name = s}
FirstId(S) == CHOOSE i \in S : \A j \in S : i <= j
CanFault == faults < MaxFaults
Fail(p) == /\ pc' = [pc EXCEPT ![p] = "Done"]
           /\ result' = [result EXCEPT ![p] = "err"]

\* Stacks of a previous deployment may exist, none with this template.
Init ==
    /\ \E present \in SUBSET StackNames :
         remote = [i \in Ids |->
                     IF \E s \in present : InitialId[s] = i
                     THEN [name |-> CHOOSE s \in present : InitialId[s] = i, upgraded |-> FALSE]
                     ELSE Absent]
    /\ pc = [p \in Procs |-> "next"]
    /\ todo = [p \in Procs |-> StackNames]
    /\ cur = [p \in Procs |-> CHOOSE s \in StackNames : TRUE]
    /\ target = [p \in Procs |-> NoId]
    /\ result = [p \in Procs |-> "running"]
    /\ faults = 0
    /\ reruns = 0

-----------------------------------------------------------------------------
\* Stacks.Initialize, stack.go 40-47: the next stack, or return nil.
NextStack(p) ==
    /\ pc[p] = "next"
    /\ \/ /\ todo[p] = {}
          /\ pc' = [pc EXCEPT ![p] = "Done"]
          /\ result' = [result EXCEPT ![p] = "ok"]
          /\ UNCHANGED cur
       \/ /\ \E s \in todo[p] : cur' = [cur EXCEPT ![p] = s]
          /\ pc' = [pc EXCEPT ![p] = "list"]
          /\ UNCHANGED result
    /\ UNCHANGED <<remote, todo, target, faults, reruns>>

\* EnsureItExists, stack.go 59-78 and 93-95: list by name; none means
\* create, otherwise (after the 60 s sleep) upgrade Data[0].
ListStacks(p) ==
    /\ pc[p] = "list"
    /\ \/ /\ CanFault
          /\ faults' = faults + 1
          /\ Fail(p)
          /\ UNCHANGED target
       \/ /\ Named(cur[p]) = {}
          /\ pc' = [pc EXCEPT ![p] = "create"]
          /\ UNCHANGED <<target, result, faults>>
       \/ /\ Named(cur[p]) # {}
          /\ target' = [target EXCEPT ![p] = FirstId(Named(cur[p]))]
          /\ pc' = [pc EXCEPT ![p] = "upgrade"]
          /\ UNCHANGED <<result, faults>>
    /\ UNCHANGED <<remote, todo, cur, reruns>>

\* stack.go 79-88: Stack.Create; an error (the create may still have been
\* carried out) is returned.
CreateStack(p) ==
    /\ pc[p] = "create"
    /\ Used # Ids
    /\ LET i == FirstId(Ids \ Used)
           applied == [remote EXCEPT ![i] = [name |-> cur[p], upgraded |-> FALSE]]
       IN \/ /\ remote' = applied
             /\ target' = [target EXCEPT ![p] = i]
             /\ pc' = [pc EXCEPT ![p] = "upgrade"]
             /\ UNCHANGED <<result, faults>>
          \/ /\ CanFault
             /\ faults' = faults + 1
             /\ remote' \in {remote, applied}
             /\ Fail(p)
             /\ UNCHANGED target
    /\ UNCHANGED <<todo, cur, reruns>>

\* Mutant: a finished stack is not taken off the list of Initialize.
UpgradeStackKeepTodo(p) ==
    /\ pc[p] = "upgrade"
    /\ LET applied == [remote EXCEPT ![target[p]].upgraded = TRUE]
       IN \/ /\ remote' = applied
             /\ pc' = [pc EXCEPT ![p] = "next"]
             /\ UNCHANGED <<result, faults>>
          \/ /\ CanFault
             /\ faults' = faults + 1
             /\ remote' \in {remote, applied}
             /\ Fail(p)
    /\ UNCHANGED <<todo, cur, target, reruns>>

\* stack.go 89-92 and 96-103: ActionUpgrade to the catalog template; its
\* error is the result of EnsureItExists.
UpgradeStack(p) ==
    /\ pc[p] = "upgrade"
    /\ LET applied == [remote EXCEPT ![target[p]].upgraded = TRUE]
       IN \/ /\ remote' = applied
             /\ todo' = [todo EXCEPT ![p] = @ \ {cur[p]}]
             /\ pc' = [pc EXCEPT ![p] = "next"]
             /\ UNCHANGED <<result, faults>>
          \/ /\ CanFault
             /\ faults' = faults + 1
             /\ remote' \in {remote, applied}
             /\ Fail(p)
             /\ UNCHANGED todo
    /\ UNCHANGED <<cur, target, reruns>>

\* The executor fails or dies and Initialize is run again from the start.
Rerun(p) ==
    /\ reruns < MaxReruns
    /\ pc[p] # "Done" \/ result[p] = "err"
    /\ reruns' = reruns + 1
    /\ pc' = [pc EXCEPT ![p] = "next"]
    /\ todo' = [todo EXCEPT ![p] = StackNames]
    /\ target' = [target EXCEPT ![p] = NoId]
    /\ result' = [result EXCEPT ![p] = "running"]
    /\ UNCHANGED <<remote, cur, faults>>

Terminated ==
    /\ \A p \in Procs : pc[p] = "Done"
    /\ UNCHANGED vars

Step(p) == NextStack(p) \/ ListStacks(p) \/ CreateStack(p) \/ UpgradeStack(p)

Next == (\E p \in Procs : Step(p) \/ Rerun(p)) \/ Terminated

Spec == Init /\ [][Next]_vars /\ \A p \in Procs : WF_vars(Step(p))

-----------------------------------------------------------------------------
(* Properties                                                              *)

\* Refinement mapping to StackSet: the number of stacks listed under a name,
\* whether one of them has the template, and the result of Initialize.
Abstract == INSTANCE StackSet WITH
    copies <- [s \in StackNames |-> Cardinality(Named(s))],
    upgraded <- [s \in StackNames |-> \E i \in Named(s) : remote[i].upgraded],
    status <- result

\* Stacks.Initialize with EnsureItExists, reruns, lost answers and failed
\* calls implements StackSet: it creates a stack only where the list showed
\* none, never takes a template away, succeeds only when every stack exists
\* once with the template, and every run returns.
ImplementsStackSet == Abstract!Spec

=============================================================================
