------------------------------ MODULE ServiceUp ------------------------------
(***************************************************************************)
(* Reconciliation of Rancher services (src/rancher/service.go, wait.go).   *)
(*                                                                         *)
(* Several reconcilers run concurrently, one per (service, handler) pair   *)
(* handed out by the project's orchestrator: RancherService.Up (which      *)
(* calls up(true)) or RancherService.Create.  Every remote call is one     *)
(* atomic step against the shared platform state `remote`; between two    *)
(* calls of one reconciler, other reconcilers and the platform itself      *)
(* (which finishes transitions asynchronously) may move.  A reconciler     *)
(* holds a stale local copy `snap` of the service it acts on, refreshed    *)
(* only by the responses of actions and by reloads in Wait, exactly as the *)
(* *client.Service pointer of the code.                                    *)
(*                                                                         *)
(* Transport errors are bounded by MaxFaults; a failed mutating call may   *)
(* or may not have been applied by the platform (the answer is lost).     *)
(* The generated client returns an empty, non-nil resource together with   *)
(* the error, which is what `snap` becomes when an action fails.           *)
(***************************************************************************)
EXTENDS Naturals, FiniteSets

CONSTANTS
    Services,       \* service names of the project (model values)
    Procs,          \* reconciler identities
    Target,         \* Target[p]: the service reconciler p works on
    LinkTargets,    \* LinkTargets[s]: names in links and external_links of s
    NoLinkSetup,    \* services whose links setupLinks leaves alone (selector, LB, external)
    Ids,            \* identifiers the platform can hand out (positive integers)
    InitialId,      \* InitialId[s]: id of s when it exists before the run
    MaxFaults,      \* bound on transport errors over a behaviour
    MaxCrashes,     \* bound on reconciler process crashes (rerun from the start)
    RemoteErrors    \* whether the platform may end a transition with "error"

ASSUME Target \in [Procs -> Services]
ASSUME LinkTargets \in [Services -> SUBSET Services]
ASSUME NoLinkSetup \subseteq Services
ASSUME InitialId \in [Services -> Ids]
ASSUME MaxFaults \in Nat /\ MaxCrashes \in Nat /\ RemoteErrors \in BOOLEAN

VARIABLES
    remote,     \* platform: id -> service record, or Absent
    ctx,        \* the project context flags (Rollback, ConfirmUpgrade, Pull)
    op,         \* op[p]: "up" (RancherService.Up) or "create" (RancherService.Create)
    pc,         \* program counter of each reconciler
    snap,       \* the reconciler's *client.Service copy, or NoService (nil)
    links,      \* links computed by getServiceLinks, held until SetServiceLinks
    update,     \* the update argument of the running setupLinks call
    lret,       \* where setupLinks returns to
    wret,       \* where Wait returns to
    result,     \* "running", or the value the handler returned: "ok" / "err"
    sawFault,   \* history: a remote call of this run of p failed
    faults,     \* transport errors so far
    crashes     \* crashes so far

vars == <<remote, ctx, op, pc, snap, links, update, lret, wret, result,
          sawFault, faults, crashes>>

Absent == [absent |-> TRUE]
NoId == 0
NoService == [id |-> NoId, state |-> "nil", trans |-> ""]
\* What the generated client returns next to an error: an empty resource.
EmptyResponse == [id |-> NoId, state |-> "", trans |-> ""]

SettledStates == {"inactive", "active", "upgraded"}
TransitionalStates == {"registering", "activating", "upgrading",
                       "finishing-upgrade", "rolling-back"}
\* The state a platform transition ends in.
Settle(s) ==
    CASE s = "registering"       -> "inactive"
      [] s = "activating"        -> "active"
      [] s = "upgrading"         -> "upgraded"
      [] s = "finishing-upgrade" -> "active"
      [] s = "rolling-back"      -> "active"

Record == [name: Services, state: SettledStates \cup TransitionalStates,
           trans: {"yes", "no", "error"}, links: SUBSET Ids, inSync: BOOLEAN]
Snapshot == [id: Ids \cup {NoId}, state: SettledStates \cup TransitionalStates \cup {"", "nil"},
             trans: {"yes", "no", "error", ""}]

PCs == {"find", "rollback", "pull", "upgrade", "create", "createFind",
        "linksList", "linksResolve", "linksSet", "wait", "checkUpgraded",
        "finishUpgrade", "checkActive", "activate", "Done"}

TypeOK ==
    /\ remote \in [Ids -> Record \cup {Absent}]
    /\ ctx \in [rollback: BOOLEAN, confirmUpgrade: BOOLEAN, pull: BOOLEAN]
    /\ op \in [Procs -> {"up", "create"}]
    /\ pc \in [Procs -> PCs]
    /\ snap \in [Procs -> Snapshot]
    /\ links \in [Procs -> SUBSET Ids]
    /\ update \in [Procs -> BOOLEAN]
    /\ lret \in [Procs -> PCs]
    /\ wret \in [Procs -> PCs]
    /\ result \in [Procs -> {"running", "ok", "err"}]
    /\ sawFault \in [Procs -> BOOLEAN]
    /\ faults \in 0..MaxFaults
    /\ crashes \in 0..MaxCrashes

-----------------------------------------------------------------------------
(* Helpers                                                                 *)

Used == {i \in Ids : remote[i] # Absent}
\* FindExisting(n): the services of the stack with name n.
Named(n) == {i \in Used : remote[i].name = n}
\* A reconciler's copy of the platform record i.
SnapOf(i) == [id |-> i, state |-> remote[i].state, trans |-> remote[i].trans]
\* Data[0] of a list filtered by name: the oldest record of that name.
FirstId(S) == CHOOSE i \in S : \A j \in S : i <= j
CanFault == faults < MaxFaults
\* The "activate" link is offered by the platform on inactive services only.
ActivateAvailable(s) == s = "inactive"
\* shouldUpgrade: the stored content hash differs from the desired one on an
\* active service (spec 4.7 step 3; the function is not in the sources).
shouldUpgrade(i) == remote[i].state = "active" /\ ~remote[i].inSync

\* Return from the handler with value r.
Return(p, r) == /\ pc' = [pc EXCEPT ![p] = "Done"]
                /\ result' = [result EXCEPT ![p] = r]
\* A remote call of p failed: the handler returns the error.
Fail(p) == /\ CanFault
           /\ faults' = faults + 1
           /\ sawFault' = [sawFault EXCEPT ![p] = TRUE]
           /\ Return(p, "err")
\* Record a transport error whose handling the action describes itself.
Faulted(p) == /\ CanFault
              /\ faults' = faults + 1
              /\ sawFault' = [sawFault EXCEPT ![p] = TRUE]
\* Continue at r; reaching "Done" this way returns the nil error.
Goto(p, r) == IF r = "Done" THEN Return(p, "ok")
              ELSE pc' = [pc EXCEPT ![p] = r] /\ UNCHANGED result
\* Call setupLinks(service, u), returning to r.
CallSetupLinks(p, u, r) == /\ pc' = [pc EXCEPT ![p] = "linksList"]
                           /\ update' = [update EXCEPT ![p] = u]
                           /\ lret' = [lret EXCEPT ![p] = r]
\* Call Wait(service), returning to r.
CallWait(p, r) == /\ pc' = [pc EXCEPT ![p] = "wait"]
                  /\ wret' = [wret EXCEPT ![p] = r]
\* A platform action applied to record i: it enters transitional state s.
StartTransition(i, s) ==
    remote' = [remote EXCEPT ![i].state = s, ![i].trans = "yes"]

-----------------------------------------------------------------------------
(* Initial states: the services a previous run left settled on the         *)
(* platform, with or without their links and with an up-to-date or stale  *)
(* content hash; the context flags and the handler of each reconciler.     *)

Init ==
    /\ \E present \in SUBSET Services, st \in [Services -> SettledStates],
          sync \in [Services -> BOOLEAN], linked \in [Services -> BOOLEAN] :
         remote = [i \in Ids |->
            IF \E s \in present : InitialId[s] = i
            THEN LET s == CHOOSE s \in present : InitialId[s] = i IN
                 [name |-> s, state |-> st[s], trans |-> "no", inSync |-> sync[s],
                  links |-> IF linked[s]
                            THEN {InitialId[t] : t \in LinkTargets[s] \cap present}
                            ELSE {}]
            ELSE Absent]
    /\ ctx \in [rollback: BOOLEAN, confirmUpgrade: BOOLEAN, pull: BOOLEAN]
    /\ op \in [Procs -> {"up", "create"}]
    /\ pc = [p \in Procs |-> "find"]
    /\ snap = [p \in Procs |-> NoService]
    /\ links = [p \in Procs |-> {}]
    /\ update = [p \in Procs |-> FALSE]
    /\ lret = [p \in Procs |-> "Done"]
    /\ wret = [p \in Procs |-> "Done"]
    /\ result = [p \in Procs |-> "running"]
    /\ sawFault = [p \in Procs |-> FALSE]
    /\ faults = 0
    /\ crashes = 0

-----------------------------------------------------------------------------
(* up(create=true), service.go 84-118: FindExisting, then rollback, the    *)
(* upgrade, creation or link setup of the existing service.               *)

FindUp(p) ==
    /\ pc[p] = "find" /\ op[p] = "up"
    /\ \/ /\ Fail(p)
          /\ UNCHANGED <<remote, snap, links, update, lret, wret>>
       \/ LET found == Named(Target[p])
              s == IF found = {} THEN NoService ELSE SnapOf(FirstId(found))
          IN /\ snap' = [snap EXCEPT ![p] = s]
             /\ CASE ctx.rollback /\ found = {} ->
                       Return(p, "ok") /\ UNCHANGED <<update, lret>>
                  [] ctx.rollback ->
                       pc' = [pc EXCEPT ![p] = "rollback"] /\ UNCHANGED <<result, update, lret>>
                  [] found # {} /\ shouldUpgrade(s.id) ->
                       /\ pc' = [pc EXCEPT ![p] = IF ctx.pull THEN "pull" ELSE "upgrade"]
                       /\ UNCHANGED <<result, update, lret>>
                  [] found = {} ->
                       pc' = [pc EXCEPT ![p] = "create"] /\ UNCHANGED <<result, update, lret>>
                  [] OTHER ->
                       CallSetupLinks(p, TRUE, "checkUpgraded") /\ UNCHANGED result
             /\ UNCHANGED <<remote, links, wret, sawFault, faults>>
    /\ UNCHANGED <<ctx, op, crashes>>

\* Mutant: Create returns when FindExisting finds nothing, instead of
\* creating the service.
FindCreateNoCreate(p) ==
    /\ pc[p] = "find" /\ op[p] = "create"
    /\ \/ /\ Fail(p)
          /\ UNCHANGED <<snap, update, lret>>
       \/ LET found == Named(Target[p])
              s == IF found = {} THEN NoService ELSE SnapOf(FirstId(found))
          IN /\ snap' = [snap EXCEPT ![p] = s]
             /\ IF found = {}
                THEN Return(p, "ok") /\ UNCHANGED <<update, lret>>
                ELSE CallSetupLinks(p, s.state = "inactive", "Done") /\ UNCHANGED result
             /\ UNCHANGED <<sawFault, faults>>
    /\ UNCHANGED <<remote, ctx, op, links, wret, crashes>>

\* Create(ctx, options), service.go 63-73.
FindCreate(p) ==
    /\ pc[p] = "find" /\ op[p] = "create"
    /\ \/ /\ Fail(p)
          /\ UNCHANGED <<snap, update, lret>>
       \/ LET found == Named(Target[p])
              s == IF found = {} THEN NoService ELSE SnapOf(FirstId(found))
          IN /\ snap' = [snap EXCEPT ![p] = s]
             /\ IF found = {}
                THEN pc' = [pc EXCEPT ![p] = "create"] /\ UNCHANGED <<update, lret>>
                ELSE CallSetupLinks(p, s.state = "inactive", "Done")
             /\ UNCHANGED <<result, sawFault, faults>>
    /\ UNCHANGED <<remote, ctx, op, links, wret, crashes>>

\* r.rollback(service), service.go 94-95: the action, and return.
Rollback(p) ==
    /\ pc[p] = "rollback"
    /\ LET i == snap[p].id IN
       \/ /\ Fail(p)
          /\ \/ StartTransition(i, "rolling-back")
             \/ UNCHANGED remote
       \/ /\ StartTransition(i, "rolling-back")
          /\ Return(p, "ok")
          /\ UNCHANGED <<sawFault, faults>>
    /\ UNCHANGED <<ctx, op, snap, links, update, lret, wret, crashes>>

\* r.Pull, service.go 99-103 and 311-348: one goroutine per image; the
\* aggregate returns the error of a failed pull.  It does not touch remote.
PullImages(p) ==
    /\ pc[p] = "pull"
    /\ \/ Fail(p)
       \/ /\ pc' = [pc EXCEPT ![p] = "upgrade"]
          /\ UNCHANGED <<result, sawFault, faults>>
    /\ UNCHANGED <<remote, ctx, op, snap, links, update, lret, wret, crashes>>

\* r.upgrade, service.go 105-108 (the function is not in the sources: the
\* upgrade action, then a wait until the service is "upgraded", spec 4.7);
\* afterwards up continues with setupLinks(service, true).
Upgrade(p) ==
    /\ pc[p] = "upgrade"
    /\ LET i == snap[p].id
           applied == [remote EXCEPT ![i].state = "upgrading", ![i].trans = "yes",
                                     ![i].inSync = TRUE]
       IN \/ /\ Fail(p)
             /\ remote' \in {remote, applied}
             /\ UNCHANGED <<snap, wret, update, lret>>
          \/ /\ remote' = applied
             /\ snap' = [snap EXCEPT ![p] = [id |-> i, state |-> "upgrading", trans |-> "yes"]]
             /\ CallWait(p, "linksList")
             /\ update' = [update EXCEPT ![p] = TRUE]
             /\ lret' = [lret EXCEPT ![p] = "checkUpgraded"]
             /\ UNCHANGED <<result, sawFault, faults>>
    /\ UNCHANGED <<ctx, op, links, crashes>>
-----------------------------------------------------------------------------
(* createService, service.go 169-191: factory.Create, FindExisting,        *)
(* setupLinks(service, true), Wait(service).                               *)

CreateServiceCreate(p) ==
    /\ pc[p] = "create"
    /\ Used # Ids
    /\ LET i == FirstId(Ids \ Used)
           applied == [remote EXCEPT ![i] = [name |-> Target[p], state |-> "registering",
                                            trans |-> "yes", links |-> {}, inSync |-> TRUE]]
       IN \/ Fail(p) /\ remote' \in {remote, applied}
          \/ /\ remote' = applied
             /\ pc' = [pc EXCEPT ![p] = "createFind"]
             /\ UNCHANGED <<result, sawFault, faults>>
    /\ UNCHANGED <<ctx, op, snap, links, update, lret, wret, crashes>>

\* The service was just created and nothing deletes services, so the list
\* is never empty here (an empty one would be a nil dereference in setupLinks).
CreateServiceFind(p) ==
    /\ pc[p] = "createFind"
    /\ \/ /\ Fail(p)
          /\ UNCHANGED <<snap, update, lret, wret>>
       \/ /\ Named(Target[p]) # {}
          /\ snap' = [snap EXCEPT ![p] = SnapOf(FirstId(Named(Target[p])))]
          /\ CallSetupLinks(p, TRUE, "wait")
          /\ wret' = [wret EXCEPT ![p] = IF op[p] = "up" THEN "checkUpgraded" ELSE "Done"]
          /\ UNCHANGED <<result, sawFault, faults>>
    /\ UNCHANGED <<remote, ctx, op, links, crashes>>

-----------------------------------------------------------------------------
(* setupLinks(service, update), service.go 193-218.                        *)

SetupLinksList(p) ==
    /\ pc[p] = "linksList"
    /\ \/ /\ Target[p] \in NoLinkSetup
          /\ Goto(p, lret[p])
          /\ UNCHANGED <<sawFault, faults>>
       \/ /\ Target[p] \notin NoLinkSetup
          /\ Fail(p)
       \/ /\ Target[p] \notin NoLinkSetup
          /\ IF remote[snap[p].id].links # {} /\ ~update[p]
             THEN Goto(p, lret[p])
             ELSE pc' = [pc EXCEPT ![p] = "linksResolve"] /\ UNCHANGED result
          /\ UNCHANGED <<sawFault, faults>>
    /\ UNCHANGED <<remote, ctx, op, snap, links, update, lret, wret, crashes>>

\* Mutant: the link list carries the target names where ids belong.
SetupLinksResolveNames(p) ==
    /\ pc[p] = "linksResolve"
    /\ links' = [links EXCEPT ![p] = LinkTargets[Target[p]]]
    /\ pc' = [pc EXCEPT ![p] = "linksSet"]
    /\ UNCHANGED <<remote, ctx, op, snap, update, lret, wret, result, sawFault,
                   faults, crashes>>

\* getServiceLinks (line 213; getLinks is spec 4.8): one lookup per declared
\* target, Data[0] of each found one.  Its error is overwritten by the next
\* line, so a failed lookup leaves the nil link list to be submitted.
SetupLinksResolve(p) ==
    /\ pc[p] = "linksResolve"
    /\ \/ /\ Faulted(p)
          /\ links' = [links EXCEPT ![p] = {}]
       \/ /\ links' = [links EXCEPT ![p] =
                         {FirstId(Named(t)) : t \in {u \in LinkTargets[Target[p]] : Named(u) # {}}}]
          /\ UNCHANGED <<sawFault, faults>>
    /\ pc' = [pc EXCEPT ![p] = "linksSet"]
    /\ UNCHANGED <<remote, ctx, op, snap, update, lret, wret, result, crashes>>

\* ActionSetservicelinks: the link set replaces the service's links.
SetupLinksSet(p) ==
    /\ pc[p] = "linksSet"
    /\ LET applied == [remote EXCEPT ![snap[p].id].links = links[p]] IN
       \/ Fail(p) /\ remote' \in {remote, applied}
       \/ /\ remote' = applied
          /\ Goto(p, lret[p])
          /\ UNCHANGED <<sawFault, faults>>
    /\ UNCHANGED <<ctx, op, snap, links, update, lret, wret, crashes>>

-----------------------------------------------------------------------------
(* WaitFor, wait.go 31-44: poll until the copy's Transitioning is no     *)
(* longer "yes"; a reload error ends the wait with that error.             *)

WaitDone(p) ==
    /\ pc[p] = "wait"
    /\ snap[p].trans # "yes"
    /\ Goto(p, wret[p])
    /\ UNCHANGED <<remote, ctx, op, snap, links, update, lret, wret, sawFault,
                   faults, crashes>>

\* Mutant: the reload result is not stored into the polled copy.
WaitReloadStale(p) ==
    /\ pc[p] = "wait"
    /\ snap[p].trans = "yes"
    /\ \/ /\ Fail(p)
          /\ UNCHANGED snap
       \/ UNCHANGED <<snap, pc, result, sawFault, faults>>
    /\ UNCHANGED <<remote, ctx, op, links, update, lret, wret, crashes>>

WaitReload(p) ==
    /\ pc[p] = "wait"
    /\ snap[p].trans = "yes"
    /\ \/ /\ Fail(p)
          /\ UNCHANGED snap
       \/ /\ snap' = [snap EXCEPT ![p] = SnapOf(snap[p].id)]
          /\ UNCHANGED <<pc, result, sawFault, faults>>
    /\ UNCHANGED <<remote, ctx, op, links, update, lret, wret, crashes>>

-----------------------------------------------------------------------------
(* up, service.go 125-145: finish a confirmed upgrade, or activate.        *)

\* Lines 136-145 on the copy s of the service.
ActivateOrReturn(p, s) ==
    IF s.state # "active" /\ ActivateAvailable(s.state)
    THEN pc' = [pc EXCEPT ![p] = "activate"] /\ UNCHANGED result
    ELSE Return(p, "ok")

CheckUpgraded(p) ==
    /\ pc[p] = "checkUpgraded"
    /\ IF snap[p].state = "upgraded" /\ ctx.confirmUpgrade
       THEN pc' = [pc EXCEPT ![p] = "finishUpgrade"] /\ UNCHANGED result
       ELSE ActivateOrReturn(p, snap[p])
    /\ UNCHANGED <<remote, ctx, op, snap, links, update, lret, wret, sawFault,
                   faults, crashes>>

CheckActive(p) ==
    /\ pc[p] = "checkActive"
    /\ ActivateOrReturn(p, snap[p])
    /\ UNCHANGED <<remote, ctx, op, snap, links, update, lret, wret, sawFault,
                   faults, crashes>>

FinishUpgrade(p) ==
    /\ pc[p] = "finishUpgrade"
    /\ LET i == snap[p].id IN
       \/ /\ Fail(p)
          /\ \/ StartTransition(i, "finishing-upgrade")
             \/ UNCHANGED remote
          /\ UNCHANGED <<snap, wret>>
       \/ /\ StartTransition(i, "finishing-upgrade")
          /\ snap' = [snap EXCEPT ![p] = [id |-> i, state |-> "finishing-upgrade", trans |-> "yes"]]
          /\ CallWait(p, "checkActive")
          /\ UNCHANGED <<result, sawFault, faults>>
    /\ UNCHANGED <<ctx, op, links, update, lret, crashes>>

\* Mutant: return right after ActionActivate, without Wait.
ActivateNoWait(p) ==
    /\ pc[p] = "activate"
    /\ LET i == snap[p].id IN
       \/ /\ Faulted(p)
          /\ \/ StartTransition(i, "activating")
             \/ UNCHANGED remote
       \/ /\ StartTransition(i, "activating")
          /\ UNCHANGED <<sawFault, faults>>
    /\ Return(p, "ok")
    /\ UNCHANGED <<ctx, op, snap, links, update, lret, wret, crashes>>

\* Lines 141-142: the error of ActionActivate is overwritten by the one of
\* Wait, which is handed the empty resource returned with the error.
Activate(p) ==
    /\ pc[p] = "activate"
    /\ LET i == snap[p].id IN
       \/ /\ Faulted(p)
          /\ \/ StartTransition(i, "activating")
             \/ UNCHANGED remote
          /\ snap' = [snap EXCEPT ![p] = EmptyResponse]
       \/ /\ StartTransition(i, "activating")
          /\ snap' = [snap EXCEPT ![p] = [id |-> i, state |-> "activating", trans |-> "yes"]]
          /\ UNCHANGED <<sawFault, faults>>
    /\ CallWait(p, "Done")
    /\ UNCHANGED <<ctx, op, links, update, lret, result, crashes>>

-----------------------------------------------------------------------------
(* The platform finishes transitions on its own; the orchestrator may die  *)
(* and be run again, which restarts the handler from the beginning.        *)

Complete(i) ==
    /\ remote[i] # Absent
    /\ remote[i].trans = "yes"
    /\ remote' = [remote EXCEPT ![i].state = Settle(@), ![i].trans = "no"]
    /\ UNCHANGED <<ctx, op, pc, snap, links, update, lret, wret, result,
                   sawFault, faults, crashes>>

FailTransition(i) ==
    /\ RemoteErrors
    /\ remote[i] # Absent
    /\ remote[i].trans = "yes"
    /\ remote' = [remote EXCEPT ![i].trans = "error"]
    /\ UNCHANGED <<ctx, op, pc, snap, links, update, lret, wret, result,
                   sawFault, faults, crashes>>

Crash(p) ==
    /\ crashes < MaxCrashes
    /\ pc[p] # "Done"
    /\ crashes' = crashes + 1
    /\ pc' = [pc EXCEPT ![p] = "find"]
    /\ snap' = [snap EXCEPT ![p] = NoService]
    /\ links' = [links EXCEPT ![p] = {}]
    /\ sawFault' = [sawFault EXCEPT ![p] = FALSE]
    /\ UNCHANGED <<remote, ctx, op, update, lret, wret, result, faults>>

\* All handlers returned and the platform is quiet.
Terminated ==
    /\ \A p \in Procs : pc[p] = "Done"
    /\ \A i \in Used : remote[i].trans # "yes"
    /\ UNCHANGED vars

Step(p) ==
    \/ FindUp(p) \/ FindCreate(p) \/ Rollback(p) \/ PullImages(p) \/ Upgrade(p)
    \/ CreateServiceCreate(p) \/ CreateServiceFind(p)
    \/ SetupLinksList(p) \/ SetupLinksResolve(p) \/ SetupLinksSet(p)
    \/ WaitDone(p) \/ WaitReload(p)
    \/ CheckUpgraded(p) \/ CheckActive(p) \/ FinishUpgrade(p) \/ Activate(p)

Next ==
    \/ \E p \in Procs : Step(p) \/ Crash(p)
    \/ \E i \in Ids : Complete(i) \/ FailTransition(i)
    \/ Terminated

\* Reconcilers are goroutines that keep running; the platform eventually
\* finishes every transition it started (the code waits on it unboundedly).
Fairness ==
    /\ \A p \in Procs : WF_vars(Step(p))
    /\ \A i \in Ids : WF_vars(Complete(i) \/ FailTransition(i))

Spec == Init /\ [][Next]_vars /\ Fairness

-----------------------------------------------------------------------------
(* Properties                                                              *)

\* When Up returns success for a service, without rollback and without a
\* transport error in its run, the service is settled on the platform:
\* active, or left upgraded because the upgrade was not confirmed
\* (service.go 83-146 with WaitFor, wait.go 31-44).
FaultFreeSuccessMeansActive ==
    \A p \in Procs :
        (result[p] = "ok" /\ op[p] = "up" /\ ~ctx.rollback /\ ~sawFault[p])
        => \E i \in Named(Target[p]) :
             /\ remote[i].trans = "no"
             /\ \/ remote[i].state = "active"
                \/ remote[i].state = "upgraded" /\ ~ctx.confirmUpgrade

\* Spec section 7: a transport error always aborts the handler and reaches
\* its caller; Up and Create never report success for a run in which a
\* remote call failed (service.go 141-142 and 213 are where this is at stake).
ErrorsSurface ==
    \A p \in Procs : result[p] = "ok" => ~sawFault[p]

\* Every handler eventually returns, given that the platform finishes every
\* transition it starts (WaitFor has no timeout).
Termination ==
    <>(\A p \in Procs : pc[p] = "Done")

-----------------------------------------------------------------------------
(* Refinement: the handlers implement ServiceSet, with the number of      *)
(* records of each name as the copies and the rollback flag of the        *)
(* context.                                                                *)

Abstract == INSTANCE ServiceSet WITH
    copies <- [s \in Services |-> Cardinality(Named(s))],
    rollback <- ctx.rollback

\* Spec sections 4.7 and 7: Up and Create create their service only when
\* FindExisting found none, also across crashes and reruns (service.go
\* 84-118, 63-73, 169-191); they report success only when the service
\* exists, unless Up was asked to roll back; and every handler returns.
ImplementsServiceSet == Abstract!Spec

\* The safety part of ImplementsServiceSet, for runs with crashes and
\* reruns: a rerun after a crash (service.go 84, the handler called again)
\* still creates its service only where none exists and reports success
\* only when it exists or Up was asked to roll back.
ImplementsServiceSetSafety == Abstract!SafetySpec
=============================================================================
