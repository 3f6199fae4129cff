----------------------------- MODULE ContainerUp -----------------------------
(***************************************************************************)
(* Reconciliation of standalone containers (src/rancher/container.go).     *)
(*                                                                         *)
(* RancherContainer.Up and .Create both run up(): FindExisting of its own  *)
(* name, then config(), which resolves every link and external link to     *)
(* the id of an existing container (a name "stack/name" is looked up in    *)
(* the named stack), then returns if the container exists (warning on a    *)
(* differing content hash) or creates it with those links.  One            *)
(* reconciler per container; the orchestrator may run them in dependency   *)
(* order (Ordered) or all at once.  Links are fixed at creation.  A       *)
(* reconciler that dies is run again, and so is the executor when an up() *)
(* returned an error (together at most MaxCrashes times).                 *)
(***************************************************************************)
EXTENDS Naturals, FiniteSets

CONSTANTS
    Containers,     \* containers of this stack (model values)
    Foreign,        \* containers of the other stack, linked as "stack/name"
    Links,          \* Links[c]: targets in links of c
    ExternalLinks,  \* ExternalLinks[c]: targets in external_links of c
    Ids,            \* identifiers the platform can hand out (positive integers)
    InitialId,      \* InitialId[n]: id of container n when it exists before the run
    Ordered,        \* whether the scheduler starts c only after its targets are done
    MaxFaults,      \* bound on transport errors over a behaviour
    MaxCrashes      \* bound on reconciler crashes (rerun from the start)

Names == Containers \cup Foreign
ASSUME Links \in [Containers -> SUBSET Names]
ASSUME ExternalLinks \in [Containers -> SUBSET Names]
ASSUME InitialId \in [Names -> Ids]

VARIABLES
    remote,       \* platform: id -> container record, or Absent
    otherStack,   \* whether the other stack exists on the platform
    pc,           \* program counter of each reconciler
    existing,     \* the id FindExisting returned, or NoId
    linkIds,      \* InstanceLinks of the request config() built
    result,       \* "running", "ok" or "err"
    sawFault,     \* history: a remote call of this run of c failed
    faults,
    crashes

vars == <<remote, otherStack, pc, existing, linkIds, result, sawFault, faults, crashes>>

Absent == [absent |-> TRUE]
NoId == 0
Hashes == {"desired", "stale"}
\* fresh: created during this run (history, for the link property).
Record == [name: Names, links: SUBSET Ids, hash: Hashes, fresh: BOOLEAN]

Used == {i \in Ids : remote[i] # Absent}
\* FindExisting's list for a name (the stack is implied by the name).
Named(n) == {i \in Used : remote[i].name = n}
\* Data[0] of that list.
FirstId(S) == CHOOSE i \in S : \A j \in S : i <= j
CanFault == faults < MaxFaults

Return(c, r) == /\ pc' = [pc EXCEPT ![c] = "Done"]
                /\ result' = [result EXCEPT ![c] = r]
Faulted(c) == /\ CanFault
              /\ faults' = faults + 1
              /\ sawFault' = [sawFault EXCEPT ![c] = TRUE]

\* Mutant: the loop of getLinks ranges over links only.
LinkNamesNoExternal(c) == Links[c]
\* append(r.serviceConfig.Links, r.serviceConfig.ExternalLinks...), line 160.
LinkNames(c) == Links[c] \cup ExternalLinks[c]

\* getLinks, container.go 157-188: alias -> id of each found target; a
\* missing target is skipped with a warning.
ResolvedLinks(c) == {FirstId(Named(t)) : t \in {u \in LinkNames(c) : Named(u) # {}}}

\* resolveContainerAndStackId, container.go 214-235: a "stack/name" link
\* (a Foreign name) is looked up in the stack of that name, and the call
\* fails when no such stack exists; a plain name is in the own stack.
StackMissing(c) == LinkNames(c) \cap Foreign # {} /\ ~otherStack

Init ==
    /\ otherStack \in BOOLEAN
    /\ \E present \in SUBSET Names, h \in [Names -> Hashes], linked \in [Names -> BOOLEAN] :
         /\ otherStack \/ present \cap Foreign = {}
         /\ remote = [i \in Ids |->
              IF \E n \in present : InitialId[n] = i
              THEN LET n == CHOOSE n \in present : InitialId[n] = i IN
                   [name |-> n, hash |-> h[n], fresh |-> FALSE,
                    links |-> IF n \in Containers /\ linked[n]
                              THEN {InitialId[t] : t \in (Links[n] \cup ExternalLinks[n]) \cap present}
                              ELSE {}]
              ELSE Absent]
    /\ pc = [c \in Containers |-> "find"]
    /\ existing = [c \in Containers |-> NoId]
    /\ linkIds = [c \in Containers |-> {}]
    /\ result = [c \in Containers |-> "running"]
    /\ sawFault = [c \in Containers |-> FALSE]
    /\ faults = 0
    /\ crashes = 0

-----------------------------------------------------------------------------
\* up, container.go 96-100: FindExisting; an error makes up return nil.
\* The scheduler (outside the sources) starts c after the reconcilers of
\* its local targets when Ordered.
Find(c) ==
    /\ pc[c] = "find"
    /\ Ordered => \A d \in (Links[c] \cup ExternalLinks[c]) \cap Containers : pc[d] = "Done"
    /\ \/ /\ Faulted(c)
          /\ Return(c, "ok")
          /\ UNCHANGED existing
       \/ /\ existing' = [existing EXCEPT ![c] =
                            IF Named(c) = {} THEN NoId ELSE FirstId(Named(c))]
          /\ pc' = [pc EXCEPT ![c] = "config"]
          /\ UNCHANGED <<result, sawFault, faults>>
    /\ UNCHANGED <<remote, otherStack, linkIds, crashes>>

\* Mutant: config() without the "existing != nil" return.
ConfigNoExistingCheck(c) ==
    /\ pc[c] = "config"
    /\ \/ /\ Faulted(c)
          /\ Return(c, "err")
          /\ UNCHANGED linkIds
       \/ /\ ~StackMissing(c)
          /\ linkIds' = [linkIds EXCEPT ![c] = ResolvedLinks(c)]
          /\ pc' = [pc EXCEPT ![c] = "create"] /\ UNCHANGED result
          /\ UNCHANGED <<sawFault, faults>>
    /\ UNCHANGED <<remote, otherStack, existing, crashes>>

\* config(), container.go 102-113 with getLinks 157-188 and
\* resolveContainerAndStackId 214-235: a lookup error, or a "stack/name"
\* whose stack does not exist, is returned; then an existing container
\* ends the call (the hash comparison only logs).
Config(c) ==
    /\ pc[c] = "config"
    /\ \/ /\ Faulted(c)
          /\ Return(c, "err")
          /\ UNCHANGED linkIds
       \/ /\ StackMissing(c)
          /\ Return(c, "err")
          /\ UNCHANGED <<linkIds, sawFault, faults>>
       \/ /\ ~StackMissing(c)
          /\ linkIds' = [linkIds EXCEPT ![c] = ResolvedLinks(c)]
          /\ IF existing[c] # NoId
             THEN Return(c, "ok")
             ELSE pc' = [pc EXCEPT ![c] = "create"] /\ UNCHANGED result
          /\ UNCHANGED <<sawFault, faults>>
    /\ UNCHANGED <<remote, otherStack, existing, crashes>>

\* Container.Create, container.go 115-120, with the links config() built
\* (other reconcilers may have created targets since).
CreateContainer(c) ==
    /\ pc[c] = "create"
    /\ Used # Ids
    /\ LET i == FirstId(Ids \ Used)
           applied == [remote EXCEPT ![i] = [name |-> c, hash |-> "desired",
                                             fresh |-> TRUE, links |-> linkIds[c]]]
       IN \/ /\ Faulted(c)
             /\ remote' \in {remote, applied}
             /\ Return(c, "err")
          \/ /\ remote' = applied
             /\ Return(c, "ok")
             /\ UNCHANGED <<sawFault, faults>>
    /\ UNCHANGED <<otherStack, existing, linkIds, crashes>>

\* The orchestrator dies at any point of up() and runs it again.
Crash(c) ==
    /\ crashes < MaxCrashes
    /\ pc[c] # "Done"
    /\ crashes' = crashes + 1
    /\ pc' = [pc EXCEPT ![c] = "find"]
    /\ existing' = [existing EXCEPT ![c] = NoId]
    /\ linkIds' = [linkIds EXCEPT ![c] = {}]
    /\ sawFault' = [sawFault EXCEPT ![c] = FALSE]
    /\ UNCHANGED <<remote, otherStack, result, faults>>

\* Every up() has returned and one returned an error: the executor is run
\* again and every reconciler starts over (a new run: nothing is fresh).
Rerun ==
    /\ crashes < MaxCrashes
    /\ \A c \in Containers : pc[c] = "Done"
    /\ \E c \in Containers : result[c] = "err"
    /\ crashes' = crashes + 1
    /\ pc' = [c \in Containers |-> "find"]
    /\ existing' = [c \in Containers |-> NoId]
    /\ linkIds' = [c \in Containers |-> {}]
    /\ result' = [c \in Containers |-> "running"]
    /\ sawFault' = [c \in Containers |-> FALSE]
    /\ remote' = [i \in Ids |-> IF remote[i] = Absent THEN Absent
                                ELSE [remote[i] EXCEPT !.fresh = FALSE]]
    /\ UNCHANGED <<otherStack, faults>>

Terminated ==
    /\ \A c \in Containers : pc[c] = "Done"
    /\ UNCHANGED vars

Next ==
    \/ \E c \in Containers : Find(c) \/ Config(c) \/ CreateContainer(c) \/ Crash(c)
    \/ Rerun
    \/ Terminated

Spec == Init /\ [][Next]_vars /\ \A c \in Containers : WF_vars(Find(c) \/ Config(c) \/ CreateContainer(c))

-----------------------------------------------------------------------------
(* Properties                                                              *)

\* A container is created once: up never creates a second container of a
\* name that FindExisting can see, also when a create whose error hid
\* that the platform carried it out (container.go 115-120) is followed by
\* a rerun of the executor, or a run dies between FindExisting and the
\* create.
NoDuplicateNames ==
    \A i, j \in Used : i # j => remote[i].name # remote[j].name

\* With the dependency order of the scheduler, a container created by this
\* run is linked to every link or external-link target that exists: the
\* link set built by config()/getLinks is complete.
LinkedWhenOrdered ==
    \A i \in Used :
        remote[i].fresh =>
            \A t \in Links[remote[i].name] \cup ExternalLinks[remote[i].name] :
                Named(t) # {} => remote[i].links \cap Named(t) # {}

\* Spec section 7: a transport error reaches the caller; up never reports
\* success for a run in which a remote call failed.
ErrorsSurface ==
    \A c \in Containers : result[c] = "ok" => ~sawFault[c]


=============================================================================
