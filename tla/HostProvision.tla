---------------------------- MODULE HostProvision ----------------------------
(***************************************************************************)
(* Host provisioning (src/resources/host.go).                              *)
(*                                                                         *)
(* HostsCreate turns each hosts: entry into a Host with count (0 becomes   *)
(* 1); Hosts.Initialize runs EnsureItExists on each, in Go map order, and  *)
(* stops at the first error.  EnsureItExists lists the stack's hosts,      *)
(* builds the config of every missing "<stack>-<name>-<i>", i in 1..count *)
(* (looking the host template up when one is named), then creates them one *)
(* by one, stopping at the first error.  A host is the pair <<set, i>>;    *)
(* the platform keeps how many hosts carry each name.  An executor that    *)
(* fails or dies is run again, up to MaxReruns times in all.              *)
(***************************************************************************)
EXTENDS Naturals, Sequences, FiniteSets

CONSTANTS
    HostSets,        \* entries of the hosts: section (model values)
    Count,           \* Count[h]: config.Count of entry h
    Template,        \* Template[h]: whether entry h names a host template
    Procs,           \* executors running Initialize
    MaxIndex,        \* largest i of a host name that can exist on the platform
    MaxCopies,       \* bound on hosts of one name
    MaxFaults,       \* bound on transport errors over a behaviour
    MaxReruns        \* bound on reruns of Initialize (after an error or a crash)

ASSUME Count \in [HostSets -> Nat] /\ Template \in [HostSets -> BOOLEAN]

VARIABLES
    hosts,      \* platform: name -> number of hosts with that name
    templateExists, \* whether the named host template exists on the platform
    pc,         \* "next", "list", "config", "create" or "Done"
    todo,       \* host sets Initialize has not finished
    cur,        \* the Host whose EnsureItExists is running
    seen,       \* existingNames: indices of cur listed on the platform
    toCreate,   \* hostsToCreate: indices still to create, in order
    result,     \* "running", "ok" or "err"
    faults,
    reruns

vars == <<hosts, templateExists, pc, todo, cur, seen, toCreate, result, faults, reruns>>

Indices == 1..MaxIndex
HostNames == HostSets \X Indices

TypeOK ==
    /\ hosts \in [HostNames -> 0..MaxCopies]
    /\ templateExists \in BOOLEAN
    /\ pc \in [Procs -> {"next", "list", "config", "create", "Done"}]
    /\ todo \in [Procs -> SUBSET HostSets]
    /\ cur \in [Procs -> HostSets]
    /\ seen \in [Procs -> SUBSET Indices]
    /\ toCreate \in [Procs -> Seq(Indices)]
    /\ result \in [Procs -> {"running", "ok", "err"}]
    /\ faults \in 0..MaxFaults
    /\ reruns \in 0..MaxReruns

\* HostsCreate, host.go 19-22: a count of 0 means one host.
HostCount(h) == IF Count[h] = 0 THEN 1 ELSE Count[h]

\* Ascending sequence of the indices in S.
RECURSIVE AscendingSeq(_)
AscendingSeq(S) ==
    IF S = {} THEN <<>>
    ELSE LET m == CHOOSE i \in S : \A j \in S : i <= j
         IN <<m>> \o AscendingSeq(S \ {m})

\* Mutant: the loop runs i from 0 while i < count + 1.
MissingFromZero(p) == {i \in 0..HostCount(cur[p]) : i \notin seen[p]}
\* Mutant: the loop runs i from 1 while i <= count + 1.
MissingLong(p) == {i \in 1..(HostCount(cur[p]) + 1) : i \notin seen[p]}
\* The loop of host.go 123-132: i from 1 to count whose name is not listed.
Missing(p) == {i \in 1..HostCount(cur[p]) : i \notin seen[p]}

CanFault == faults < MaxFaults
Fail(p) == /\ pc' = [pc EXCEPT ![p] = "Done"]
           /\ result' = [result EXCEPT ![p] = "err"]

Init ==
    /\ hosts \in [HostNames -> 0..1]
    /\ templateExists \in BOOLEAN
    /\ pc = [p \in Procs |-> "next"]
    /\ todo = [p \in Procs |-> HostSets]
    /\ cur = [p \in Procs |-> CHOOSE h \in HostSets : TRUE]
    /\ seen = [p \in Procs |-> {}]
    /\ toCreate = [p \in Procs |-> <<>>]
    /\ result = [p \in Procs |-> "running"]
    /\ faults = 0
    /\ reruns = 0

-----------------------------------------------------------------------------
\* Hosts.Initialize, host.go 86-93: the next Host in map order, or return.
NextHost(p) ==
    /\ pc[p] = "next"
    /\ \/ /\ todo[p] = {}
          /\ pc' = [pc EXCEPT ![p] = "Done"]
          /\ result' = [result EXCEPT ![p] = "ok"]
          /\ UNCHANGED cur
       \/ /\ \E h \in todo[p] : cur' = [cur EXCEPT ![p] = h]
          /\ pc' = [pc EXCEPT ![p] = "list"]
          /\ UNCHANGED result
    /\ UNCHANGED <<hosts, templateExists, todo, seen, toCreate, faults, reruns>>

\* EnsureItExists, host.go 103-120: list the hosts of the stack.  The
\* count = 0 return of line 104 cannot be taken after HostsCreate.
ListHosts(p) ==
    /\ pc[p] = "list"
    /\ \/ /\ CanFault
          /\ faults' = faults + 1
          /\ Fail(p)
          /\ UNCHANGED seen
       \/ /\ seen' = [seen EXCEPT ![p] = {i \in Indices : hosts[<<cur[p], i>>] > 0}]
          /\ pc' = [pc EXCEPT ![p] = "config"]
          /\ UNCHANGED <<result, faults>>
    /\ UNCHANGED <<hosts, templateExists, todo, cur, toCreate, reruns>>

\* host.go 122-132 with createHostConfig 144-173: the config of every
\* missing host; a named template is listed for each, and an error or a
\* missing template returns before anything is created.
BuildConfigs(p) ==
    /\ pc[p] = "config"
    /\ \/ /\ Template[cur[p]] /\ Missing(p) # {}
          /\ \/ CanFault /\ faults' = faults + 1
             \/ ~templateExists /\ UNCHANGED faults
          /\ Fail(p)
          /\ UNCHANGED toCreate
       \/ /\ ~Template[cur[p]] \/ templateExists \/ Missing(p) = {}
          /\ toCreate' = [toCreate EXCEPT ![p] = AscendingSeq(Missing(p))]
          /\ pc' = [pc EXCEPT ![p] = "create"]
          /\ UNCHANGED <<result, faults>>
    /\ UNCHANGED <<hosts, templateExists, todo, cur, seen, reruns>>

\* host.go 134-141: create the hosts in order; a failed create (which the
\* platform may have carried out) returns the error.
CreateHost(p) ==
    /\ pc[p] = "create"
    /\ \/ /\ toCreate[p] = <<>>
          /\ todo' = [todo EXCEPT ![p] = @ \ {cur[p]}]
          /\ pc' = [pc EXCEPT ![p] = "next"]
          /\ UNCHANGED <<hosts, templateExists, toCreate, result, faults>>
       \/ /\ toCreate[p] # <<>>
          /\ LET n == <<cur[p], Head(toCreate[p])>>
             IN /\ hosts[n] < MaxCopies
                /\ \/ /\ hosts' = [hosts EXCEPT ![n] = @ + 1]
                      /\ toCreate' = [toCreate EXCEPT ![p] = Tail(@)]
                      /\ UNCHANGED <<pc, result, faults>>
                   \/ /\ CanFault
                      /\ faults' = faults + 1
                      /\ hosts' \in {hosts, [hosts EXCEPT ![n] = @ + 1]}
                      /\ Fail(p)
                      /\ UNCHANGED toCreate
          /\ UNCHANGED todo
    /\ UNCHANGED <<templateExists, cur, seen, reruns>>

\* The executor fails or dies and Initialize is run again from the start.
Rerun(p) ==
    /\ reruns < MaxReruns
    /\ pc[p] # "Done" \/ result[p] = "err"
    /\ reruns' = reruns + 1
    /\ pc' = [pc EXCEPT ![p] = "next"]
    /\ todo' = [todo EXCEPT ![p] = HostSets]
    /\ seen' = [seen EXCEPT ![p] = {}]
    /\ toCreate' = [toCreate EXCEPT ![p] = <<>>]
    /\ result' = [result EXCEPT ![p] = "running"]
    /\ UNCHANGED <<hosts, templateExists, cur, faults>>

Terminated ==
    /\ \A p \in Procs : pc[p] = "Done"
    /\ UNCHANGED vars

Step(p) == NextHost(p) \/ ListHosts(p) \/ BuildConfigs(p) \/ CreateHost(p)

Next == (\E p \in Procs : Step(p) \/ Rerun(p)) \/ Terminated

Spec == Init /\ [][Next]_vars /\ \A p \in Procs : WF_vars(Step(p))

-----------------------------------------------------------------------------
(* Properties                                                              *)

\* The names <stack>-<name>-i, i in 1..count, the hosts: section asks for.
WantedHosts == UNION {{<<h, i>> : i \in 1..HostCount(h)} : h \in HostSets}

\* Refinement mapping to HostSet: the names the file asks for, the number
\* of hosts of each name, and the result of Initialize.
Abstract == INSTANCE HostSet WITH
    Names <- HostNames,
    Wanted <- WantedHosts,
    copies <- hosts,
    status <- result

\* Hosts.Initialize with EnsureItExists, reruns, failed template lookups and
\* lost create answers implements HostSet: it creates only the hosts
\* <stack>-<name>-i the file asks for, each only where the list showed none,
\* succeeds only when all of them exist, and every run returns.
ImplementsHostSet == Abstract!Spec

=============================================================================
