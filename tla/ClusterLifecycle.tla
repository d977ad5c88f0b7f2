-------------------------- MODULE ClusterLifecycle ---------------------------
(***************************************************************************)
(* The life of a cluster row under concurrent HTTP requests, executor      *)
(* goroutines, cancellations, client disconnects and restarts of the API   *)
(* process: api/internal/deployments (executor.go, upgrade.go, cancel.go,  *)
(* mutex.go) and the handlers of api/internal/clusters that write the same *)
(* rows without taking the same lock.                                      *)
(*                                                                         *)
(* One element of Ops is one HTTP request together with the goroutine it   *)
(* starts; its deployment id is the element itself.  pc[o] says which      *)
(* store, lock or context operation o performs next, so that everything    *)
(* the code does between two such operations is one action, and requests   *)
(* interleave exactly where the code lets them.                            *)
(***************************************************************************)
EXTENDS ClusterStatus, Naturals

CONSTANTS Clusters,     \* cluster ids
          Ops,          \* requests (bound: how many arrive in a behaviour)
          Kinds,        \* the kinds of request that may arrive
          NoOp,         \* "no deployment"
          MaxCrashes    \* bound: how often the API process is restarted

JobKinds == {"deploy", "destroy", "upgrade", "cascade"}
AllKinds == JobKinds \cup {"forget", "initialize", "app"}

ASSUME KindsAssumption == Kinds \subseteq AllKinds
ASSUME NoOpAssumption  == NoOp \notin Ops
ASSUME BoundAssumption == MaxCrashes \in Nat

VARIABLES
    kind,       \* kind[o]: what request o asks for (never changes)
    target,     \* target[o]: the cluster it is about (never changes)
    pc,         \* pc[o]: the next operation of request o or its goroutine
    ctx,        \* ctx[o]: the context o passes to its next store call
    result,     \* result[o]: status o's goroutine publishes when it ends
    asked,      \* cancel requests that have read row o as "running"
    locked,     \* ClusterMutex, one sync.Mutex per cluster
    boot,       \* "up", or the step of RecoverOrphanedDeployments
    orphan,     \* the row RecoverOrphanedDeployments is working on
    crashes,    \* restarts so far
    status,     \* clusters.status, "none" before and "gone" after the row
    latch,      \* clusters.pending_forget
    depRow,     \* deployments.status of row o
    infra       \* the VMs of the cluster, as terraform left them

rows    == <<status, latch, depRow>>
process == <<asked, locked, boot, orphan, crashes>>
vars    == <<kind, target, pc, ctx, result, asked, locked, boot, orphan,
             crashes, status, latch, depRow, infra>>
------------------------------------------------------------------------------
Exists(c) == status[c] \in Status

\* A store call succeeds for o unless its context has been cancelled.
Live(o) == ctx[o] = "live"

InFlight(k) == IF k = "deploy" THEN "deploying"
               ELSE IF k = "upgrade" THEN "upgrading" ELSE "destroying"

Settled(k) == IF k \in {"deploy", "upgrade"} THEN "ready" ELSE "destroyed"

Destroys(o) == kind[o] \in {"destroy", "cascade"}

Terminal == {"succeeded", "failed", "cancelled"}

\* Where o is: in its HTTP handler; in its goroutine; between TryLock and
\* Unlock; with a cancel function in the executor's cancelMap.
HandlerPC  == {"latch", "check", "lock", "insert", "mark", "rollback",
               "forget", "init", "inited"}
WorkerPC   == {"terraform", "configure", "okrow", "okstatus", "okforget",
               "drop", "badrow", "badstatus", "badlatch", "publish", "unlock"}
LockedPC   == {"insert", "mark", "apprun"} \cup WorkerPC
CancelPC   == WorkerPC \cup {"dereg"}
PCs        == HandlerPC \cup LockedPC \cup CancelPC \cup {"new", "done", "killed"}

Goto(o, l) == pc' = [pc EXCEPT ![o] = l]

\* An executor entry point returned an error: the cascade DELETE handler
\* rolls its latch back, every other handler just answers the request.
Refused(o) == IF kind[o] = "cascade" THEN "rollback" ELSE "done"

SetStatus(c, s) == status' = [status EXCEPT ![c] = s]

\* FinishDeployment: UPDATE ... WHERE id = o, whatever the row says already;
\* there may be no such row any more.
SetRow(o, s) == depRow' = [depRow EXCEPT ![o] = IF @ \in {"none", "gone"} THEN @ ELSE s]

\* What o may leave of the VMs when it fails or is killed where it is.
InfraStates == {"absent", "partial", "present"}

LeftBehind(o) ==
    IF pc[o] = "terraform"
    THEN {infra[target[o]], "partial", IF Destroys(o) THEN "absent" ELSE "present"}
    ELSE {infra[target[o]]}

GivesUp(o) ==
    /\ pc[o] \in {"terraform", "configure"}
    /\ \E left \in LeftBehind(o) : infra' = [infra EXCEPT ![target[o]] = left]
------------------------------------------------------------------------------
\* The API process starts on the database and the VMs an earlier, idle one
\* left behind: no deployment running, no latch set, and the VMs that go with
\* the status (a failed deploy may have been initialized again since).
StoredCluster ==
    {<<"none", "absent">>, <<"pending", "absent">>, <<"ready", "present">>,
     <<"destroyed", "absent">>}
    \cup ({"initializing", "initialized", "error"} \X InfraStates)

Init ==
    /\ kind \in [Ops -> Kinds]
    /\ target \in [Ops -> Clusters]
    /\ pc = [o \in Ops |-> "new"]
    /\ ctx = [o \in Ops |-> "live"]
    /\ result = [o \in Ops |-> "none"]
    /\ asked = {}
    /\ locked = [c \in Clusters |-> FALSE]
    /\ boot = "up"
    /\ orphan = NoOp
    /\ crashes = 0
    /\ \E stored \in [Clusters -> StoredCluster] :
          /\ status = [c \in Clusters |-> stored[c][1]]
          /\ infra = [c \in Clusters |-> stored[c][2]]
    /\ latch = [c \in Clusters |-> FALSE]
    /\ depRow = [o \in Ops |-> "none"]

\* POST /api/clusters: a new row in "pending".
CreateCluster(c) ==
    /\ boot = "up"
    /\ status[c] = "none"
    /\ SetStatus(c, "pending")
    /\ UNCHANGED <<kind, target, pc, ctx, result, process, latch, depRow, infra>>

------------------------------------------------------------------------------
(* Requests.  Arrive is the first store read and the decisions taken on it; *)
(* a request refused here changes nothing and is left out.                  *)

\* The status s that o read permits the request, and o goes on to step l:
\* Executor.Deploy, Destroy and Upgrade,
AdmitsJob(o, s, l) ==
    /\ kind[o] \in {"deploy", "upgrade", "destroy"}
    /\ CanTransition(s, InFlight(kind[o]))
    /\ l = "lock"

\* the DELETE handler (a cascade on a cluster that is not live is a plain forget),
AdmitsDelete(o, s, l) ==
    \/ /\ kind[o] = "cascade"
       /\ s \in CascadeDeletable
       /\ l = "latch"
    \/ /\ kind[o] \in {"cascade", "forget"}
       /\ s \in DirectDeletable
       /\ l = "forget"

\* Initializer.Handle,
AdmitsInitialize(o, s, l) ==
    /\ kind[o] = "initialize"
    /\ CanTransition(s, "initializing")
    /\ l = "init"

\* and apps.Executor, which never looks at the status.
AdmitsApp(o, l) == kind[o] = "app" /\ l = "lock"

Admits(o, s, l) ==
    \/ AdmitsJob(o, s, l)
    \/ AdmitsDelete(o, s, l)
    \/ AdmitsInitialize(o, s, l)
    \/ AdmitsApp(o, l)

Arrive(o) ==
    /\ boot = "up"
    /\ pc[o] = "new"
    /\ Exists(target[o])
    /\ \E l \in HandlerPC : Admits(o, status[target[o]], l) /\ Goto(o, l)
    /\ UNCHANGED <<kind, target, ctx, result, process, rows, infra>>

\* The client goes away: the request's context is cancelled.
Disconnect(o) ==
    /\ pc[o] \in HandlerPC
    /\ kind[o] # "app"
    /\ ctx' = [ctx EXCEPT ![o] = "cancelled"]
    /\ UNCHANGED <<kind, target, pc, result, process, rows, infra>>

\* DELETE ?cascade=destroy: SetPendingForget(true), then Executor.Destroy.
SetLatch(o) ==
    /\ pc[o] = "latch"
    /\ IF Live(o) /\ Exists(target[o])
       THEN latch' = [latch EXCEPT ![target[o]] = TRUE] /\ Goto(o, "check")
       ELSE Goto(o, "done") /\ UNCHANGED latch
    /\ UNCHANGED <<kind, target, ctx, result, process, status, depRow, infra>>

\* Executor.Destroy, called by the cascade handler, reads the row again.
CheckAgain(o) ==
    /\ pc[o] = "check"
    /\ IF /\ Live(o)
          /\ Exists(target[o])
          /\ CanTransition(status[target[o]], "destroying")
       THEN Goto(o, "lock")
       ELSE Goto(o, "rollback")
    /\ UNCHANGED <<kind, target, ctx, result, process, rows, infra>>

\* The kick-off failed: SetPendingForget(false) with the request's context.
RollBackLatch(o) ==
    /\ pc[o] = "rollback"
    /\ latch' = IF Live(o) THEN [latch EXCEPT ![target[o]] = FALSE] ELSE latch
    /\ Goto(o, "done")
    /\ UNCHANGED <<kind, target, ctx, result, process, status, depRow, infra>>

\* TryLock without its test.
TakeLockBlindly(o) ==
    /\ pc[o] = "lock"
    /\ locked' = [locked EXCEPT ![target[o]] = TRUE]
    /\ Goto(o, IF kind[o] = "app" THEN "apprun" ELSE "insert")
    /\ UNCHANGED <<kind, target, ctx, result, asked, boot, orphan, crashes, rows, infra>>

\* ClusterMutex.TryLock: the status read before is not read again.
TakeLock(o) ==
    /\ pc[o] = "lock"
    /\ IF locked[target[o]]
       THEN Goto(o, Refused(o)) /\ UNCHANGED locked
       ELSE /\ locked' = [locked EXCEPT ![target[o]] = TRUE]
            /\ Goto(o, IF kind[o] = "app" THEN "apprun" ELSE "insert")
    /\ UNCHANGED <<kind, target, ctx, result, asked, boot, orphan, crashes, rows, infra>>

\* The log file is there and the deployments row is inserted as "running".
InsertRow(o) ==
    /\ pc[o] = "insert"
    /\ Live(o)
    /\ Exists(target[o])
    /\ depRow' = [depRow EXCEPT ![o] = "running"]
    /\ Goto(o, "mark")
    /\ UNCHANGED <<kind, target, ctx, result, process, status, latch, infra>>

\* No log file, no row (cancelled context, cluster gone): unlock and return.
InsertFails(o) ==
    /\ pc[o] = "insert"
    /\ locked' = [locked EXCEPT ![target[o]] = FALSE]
    /\ Goto(o, Refused(o))
    /\ UNCHANGED <<kind, target, ctx, result, asked, boot, orphan, crashes, rows, infra>>

\* UpdateClusterStatus to the in-flight status.  On success the goroutine
\* starts with a fresh context; on failure the row stays "running".
MarkInFlight(o) ==
    /\ pc[o] = "mark"
    /\ IF Live(o) /\ Exists(target[o])
       THEN /\ SetStatus(target[o], InFlight(kind[o]))
            /\ Goto(o, IF kind[o] = "upgrade" THEN "configure" ELSE "terraform")
            /\ UNCHANGED locked
       ELSE /\ locked' = [locked EXCEPT ![target[o]] = FALSE]
            /\ Goto(o, Refused(o))
            /\ UNCHANGED status
    /\ UNCHANGED <<kind, target, ctx, result, asked, boot, orphan, crashes,
                   latch, depRow, infra>>

\* DeleteCluster: the row goes, and the deployments rows with it.
DropRow(c) ==
    /\ SetStatus(c, "gone")
    /\ latch' = [latch EXCEPT ![c] = FALSE]
    /\ depRow' = [o \in Ops |-> IF target[o] = c /\ depRow[o] # "none"
                                THEN "gone" ELSE depRow[o]]

\* ForgetCluster called by the DELETE handler, which holds no lock.
Forget(o) ==
    /\ pc[o] = "forget"
    /\ IF Live(o) /\ Exists(target[o]) THEN DropRow(target[o]) ELSE UNCHANGED rows
    /\ Goto(o, "done")
    /\ UNCHANGED <<kind, target, ctx, result, process, infra>>

\* Initializer.Handle: "initializing" before the Vault writes (its error is
\* ignored), then "initialized", or "error" when one of them fails.
BeginInitialize(o) ==
    /\ pc[o] = "init"
    /\ IF Live(o) /\ Exists(target[o])
       THEN SetStatus(target[o], "initializing")
       ELSE UNCHANGED status
    /\ Goto(o, "inited")
    /\ UNCHANGED <<kind, target, ctx, result, process, latch, depRow, infra>>

EndInitialize(o) ==
    /\ pc[o] = "inited"
    /\ IF Live(o) /\ Exists(target[o])
       THEN \E s \in {"initialized", "error"} : SetStatus(target[o], s)
       ELSE UNCHANGED status
    /\ Goto(o, "done")
    /\ UNCHANGED <<kind, target, ctx, result, process, latch, depRow, infra>>
------------------------------------------------------------------------------
(* The goroutine: run, runDestroy and runUpgrade.                           *)

\* Deploy: terraform apply, with the setup before it.
Apply(o) ==
    /\ pc[o] = "terraform"
    /\ ~Destroys(o)
    /\ Live(o)
    /\ infra' = [infra EXCEPT ![target[o]] = "present"]
    /\ Goto(o, "configure")
    /\ UNCHANGED <<kind, target, ctx, result, process, rows>>

\* Destroy: terraform destroy; the hook after it can only warn.
TearDown(o) ==
    /\ pc[o] = "terraform"
    /\ Destroys(o)
    /\ Live(o)
    /\ infra' = [infra EXCEPT ![target[o]] = "absent"]
    /\ Goto(o, "okrow")
    /\ UNCHANGED <<kind, target, ctx, result, process, rows>>

\* The steps that need running VMs: SSH, ansible, DNS, TLS and Traefik for a
\* deploy,
Configure(o) ==
    /\ pc[o] = "configure"
    /\ kind[o] = "deploy"
    /\ Live(o)
    /\ infra[target[o]] = "present"
    /\ Goto(o, "okrow")
    /\ UNCHANGED <<kind, target, ctx, result, process, rows, infra>>

\* and the ansible playbook of an upgrade.
UpgradeNodes(o) ==
    /\ pc[o] = "configure"
    /\ kind[o] = "upgrade"
    /\ Live(o)
    /\ infra[target[o]] = "present"
    /\ Goto(o, "okrow")
    /\ UNCHANGED <<kind, target, ctx, result, process, rows, infra>>

\* finishStatus(ctx.Err(), true)
FailureStatus(o) == IF Live(o) THEN "failed" ELSE "cancelled"

\* A step that fails with a warning only, as PostDestroy does.
StepWarns(o) ==
    /\ GivesUp(o)
    /\ Goto(o, "okrow")
    /\ UNCHANGED <<kind, target, ctx, result, process, rows>>

\* A step that waits for good when it fails under a cancelled context.
StepHangs(o) ==
    /\ GivesUp(o)
    /\ Live(o)
    /\ result' = [result EXCEPT ![o] = "failed"]
    /\ Goto(o, "badrow")
    /\ UNCHANGED <<kind, target, ctx, process, rows>>

\* A step that returns on error without calling fail().
StepReturns(o) ==
    /\ GivesUp(o)
    /\ Goto(o, "unlock")
    /\ UNCHANGED <<kind, target, ctx, result, process, rows>>

\* Any step may fail, of its own or because the context was cancelled;
\* fail() settles what will be written and published.
StepFails(o) ==
    /\ GivesUp(o)
    /\ result' = [result EXCEPT ![o] = FailureStatus(o)]
    /\ Goto(o, "badrow")
    /\ UNCHANGED <<kind, target, ctx, process, rows>>

\* FinishDeployment(ctx, "succeeded"): its error is ignored.
FinishSucceeded(o) ==
    /\ pc[o] = "okrow"
    /\ result' = [result EXCEPT ![o] = "succeeded"]
    /\ IF Live(o) THEN SetRow(o, "succeeded") ELSE UNCHANGED depRow
    /\ Goto(o, "okstatus")
    /\ UNCHANGED <<kind, target, ctx, process, status, latch, infra>>

\* A destroy that does not look whether it was part of a DELETE.
SettleWithoutForget(o) ==
    /\ pc[o] = "okstatus"
    /\ IF Live(o) /\ Exists(target[o])
       THEN SetStatus(target[o], Settled(kind[o]))
       ELSE UNCHANGED status
    /\ Goto(o, "publish")
    /\ UNCHANGED <<kind, target, ctx, result, process, latch, depRow, infra>>

\* UpdateClusterStatus(ctx, "ready" or "destroyed"): its error is ignored.
SettleStatus(o) ==
    /\ pc[o] = "okstatus"
    /\ IF Live(o) /\ Exists(target[o])
       THEN SetStatus(target[o], Settled(kind[o]))
       ELSE UNCHANGED status
    /\ Goto(o, IF Destroys(o) THEN "okforget" ELSE "publish")
    /\ UNCHANGED <<kind, target, ctx, result, process, latch, depRow, infra>>

\* runDestroy reads pending_forget back.
ReadLatch(o) ==
    /\ pc[o] = "okforget"
    /\ Goto(o, IF Live(o) /\ Exists(target[o]) /\ latch[target[o]]
               THEN "drop" ELSE "publish")
    /\ UNCHANGED <<kind, target, ctx, result, process, rows, infra>>

\* ForgetCluster called by runDestroy.
CascadeForget(o) ==
    /\ pc[o] = "drop"
    /\ IF Live(o) /\ Exists(target[o]) THEN DropRow(target[o]) ELSE UNCHANGED rows
    /\ Goto(o, "publish")
    /\ UNCHANGED <<kind, target, ctx, result, process, infra>>

\* fail(): the three writes use a background context and cannot be cancelled.
FinishFailed(o) ==
    /\ pc[o] = "badrow"
    /\ SetRow(o, result[o])
    /\ Goto(o, "badstatus")
    /\ UNCHANGED <<kind, target, ctx, result, process, status, latch, infra>>

\* A fail() that leaves the cluster row as it is.
KeepStatus(o) ==
    /\ pc[o] = "badstatus"
    /\ Goto(o, IF Destroys(o) THEN "badlatch" ELSE "publish")
    /\ UNCHANGED <<kind, target, ctx, result, process, rows, infra>>

MarkError(o) ==
    /\ pc[o] = "badstatus"
    /\ IF Exists(target[o]) THEN SetStatus(target[o], "error") ELSE UNCHANGED status
    /\ Goto(o, IF Destroys(o) THEN "badlatch" ELSE "publish")
    /\ UNCHANGED <<kind, target, ctx, result, process, latch, depRow, infra>>

\* A failed destroy that keeps the cascade latch.
KeepLatch(o) ==
    /\ pc[o] = "badlatch"
    /\ Goto(o, "publish")
    /\ UNCHANGED <<kind, target, ctx, result, process, rows, infra>>

ClearLatch(o) ==
    /\ pc[o] = "badlatch"
    /\ latch' = [latch EXCEPT ![target[o]] = FALSE]
    /\ Goto(o, "publish")
    /\ UNCHANGED <<kind, target, ctx, result, process, status, depRow, infra>>

\* deployment_complete on the hub, then the deferred Unlock and deregister.
Publish(o) ==
    /\ pc[o] = "publish"
    /\ Goto(o, "unlock")
    /\ UNCHANGED <<kind, target, ctx, result, process, rows, infra>>

Unlock(o) ==
    /\ pc[o] = "unlock"
    /\ locked' = [locked EXCEPT ![target[o]] = FALSE]
    /\ Goto(o, "dereg")
    /\ UNCHANGED <<kind, target, ctx, result, asked, boot, orphan, crashes, rows, infra>>

Deregister(o) ==
    /\ pc[o] = "dereg"
    /\ Goto(o, "done")
    /\ UNCHANGED <<kind, target, ctx, result, process, rows, infra>>

\* A helm operation of apps.Executor: it holds the same lock and writes no
\* row of this module.
RunApp(o) ==
    /\ pc[o] = "apprun"
    /\ locked' = [locked EXCEPT ![target[o]] = FALSE]
    /\ Goto(o, "done")
    /\ UNCHANGED <<kind, target, ctx, result, asked, boot, orphan, crashes, rows, infra>>

------------------------------------------------------------------------------
(* POST /api/deployments/{id}/cancel: the row is read, then the cancel      *)
(* function is looked up; the goroutine moves in between.                   *)
AskCancel(o) ==
    /\ boot = "up"
    /\ depRow[o] = "running"
    /\ o \notin asked
    /\ asked' = asked \cup {o}
    /\ UNCHANGED <<kind, target, pc, ctx, result, locked, boot, orphan, crashes, rows, infra>>

SignalCancel(o) ==
    /\ o \in asked
    /\ asked' = asked \ {o}
    /\ ctx' = IF pc[o] \in CancelPC THEN [ctx EXCEPT ![o] = "cancelled"] ELSE ctx
    /\ UNCHANGED <<kind, target, pc, result, locked, boot, orphan, crashes, rows, infra>>

------------------------------------------------------------------------------
(* The process dies, with every request, goroutine and lock in it, and the  *)
(* next one runs RecoverOrphanedDeployments before it serves requests.      *)
Crash ==
    /\ crashes < MaxCrashes
    /\ crashes' = crashes + 1
    /\ pc' = [o \in Ops |-> IF pc[o] \in {"new", "done"} THEN pc[o] ELSE "killed"]
    /\ infra' \in {vms \in [Clusters -> InfraStates] :
                     \A c \in Clusters :
                        \/ vms[c] = infra[c]
                        \/ \E o \in Ops : target[o] = c /\ vms[c] \in LeftBehind(o)}
    /\ locked' = [c \in Clusters |-> FALSE]
    /\ asked' = {}
    /\ boot' = "list"
    /\ orphan' = NoOp
    /\ UNCHANGED <<kind, target, ctx, result, rows>>

\* Recovery that takes every row of the table for an orphan.
RecoverAnyRow(o) ==
    /\ boot = "list"
    /\ depRow[o] \in {"running", "succeeded", "cancelled"}
    /\ depRow' = [depRow EXCEPT ![o] = "failed"]
    /\ orphan' = o
    /\ boot' = "status"
    /\ UNCHANGED <<kind, target, pc, ctx, result, asked, locked, crashes,
                   status, latch, infra>>

RecoverRow(o) ==
    /\ boot = "list"
    /\ depRow[o] = "running"
    /\ SetRow(o, "failed")
    /\ orphan' = o
    /\ boot' = "status"
    /\ UNCHANGED <<kind, target, pc, ctx, result, asked, locked, crashes,
                   status, latch, infra>>

RecoverStatus ==
    /\ boot = "status"
    /\ SetStatus(target[orphan], "error")
    /\ boot' = "latch"
    /\ UNCHANGED <<kind, target, pc, ctx, result, asked, locked, orphan, crashes,
                   latch, depRow, infra>>

RecoverLatch ==
    /\ boot = "latch"
    /\ latch' = [latch EXCEPT ![target[orphan]] = FALSE]
    /\ boot' = "list"
    /\ orphan' = NoOp
    /\ UNCHANGED <<kind, target, pc, ctx, result, asked, locked, crashes,
                   status, depRow, infra>>

Serve ==
    /\ boot = "list"
    /\ \A o \in Ops : depRow[o] # "running"
    /\ boot' = "up"
    /\ UNCHANGED <<kind, target, pc, ctx, result, asked, locked, orphan, crashes,
                   rows, infra>>
------------------------------------------------------------------------------
\* What request o or its goroutine does next once it has been admitted.
Handle(o) ==
    \/ SetLatch(o) \/ CheckAgain(o) \/ RollBackLatch(o)
    \/ TakeLock(o) \/ InsertRow(o) \/ InsertFails(o) \/ MarkInFlight(o)
    \/ Forget(o) \/ BeginInitialize(o) \/ EndInitialize(o)

Work(o) ==
    \/ Apply(o) \/ TearDown(o) \/ Configure(o) \/ UpgradeNodes(o) \/ StepFails(o)
    \/ FinishSucceeded(o) \/ SettleStatus(o) \/ ReadLatch(o) \/ CascadeForget(o)
    \/ FinishFailed(o) \/ MarkError(o) \/ ClearLatch(o)
    \/ Publish(o) \/ Unlock(o) \/ Deregister(o) \/ RunApp(o)

Recover == (\E o \in Ops : RecoverRow(o)) \/ RecoverStatus \/ RecoverLatch \/ Serve

Next ==
    \/ \E c \in Clusters : CreateCluster(c)
    \/ \E o \in Ops : Arrive(o) \/ Disconnect(o) \/ AskCancel(o) \/ SignalCancel(o)
    \/ \E o \in Ops : Handle(o)
    \/ \E o \in Ops : Work(o)
    \/ Crash
    \/ Recover

Spec == Init /\ [][Next]_vars

\* Go schedules every runnable goroutine, a store call returns, and each
\* terraform, ssh or ansible step ends by itself or is killed by its
\* context; nothing makes a client, an operator or a crash act.
FairSpec == Spec /\ \A o \in Ops : WF_vars(Handle(o)) /\ WF_vars(Work(o))
                 /\ WF_vars(Recover)
------------------------------------------------------------------------------
(* Properties.                                                              *)

TypeOK ==
    /\ kind \in [Ops -> AllKinds]
    /\ target \in [Ops -> Clusters]
    /\ pc \in [Ops -> PCs]
    /\ ctx \in [Ops -> {"live", "cancelled"}]
    /\ result \in [Ops -> Terminal \cup {"none"}]
    /\ asked \subseteq Ops
    /\ locked \in [Clusters -> BOOLEAN]
    /\ boot \in {"up", "list", "status", "latch"}
    /\ orphan \in Ops \cup {NoOp}
    /\ crashes \in Nat
    /\ status \in [Clusters -> Status \cup {"none", "gone"}]
    /\ latch \in [Clusters -> BOOLEAN]
    /\ depRow \in [Ops -> Terminal \cup {"none", "running", "gone"}]
    /\ infra \in [Clusters -> InfraStates]

Holds(o) == pc[o] \in LockedPC
Working(o) == pc[o] \in WorkerPC

\* Per cluster, one operation at a time is between TryLock and Unlock (deploy,
\* destroy, upgrade and helm alike), and the mutex is locked exactly then: no
\* early return of an executor entry point leaks it or unlocks it twice.
LockOwnership ==
    /\ \A o, p \in Ops : Holds(o) /\ Holds(p) /\ target[o] = target[p] => o = p
    /\ \A c \in Clusters : locked[c] <=> \E o \in Ops : Holds(o) /\ target[o] = c

\* A row that says "ready" has its VMs and a row that says "destroyed" has
\* none, whatever requests raced, were cancelled or were cut by a restart.
StatusTellsInfra ==
    \A c \in Clusters : /\ status[c] = "ready" => infra[c] = "present"
                        /\ status[c] = "destroyed" => infra[c] = "absent"

\* runDestroy forgets a cluster only when its VMs are gone (the cascade of
\* DELETE ?cascade=destroy never drops the row of a half-destroyed cluster).
CascadeAfterDestroy ==
    \A o \in Ops : pc[o] = "drop" => infra[target[o]] = "absent"

\* While the API serves, a deployment row is "running" only if its request or
\* goroutine is at work on it, or a cancelled context made its last store
\* write fail: nothing else leaves a row behind.
RunningRowExplained ==
    boot = "up" =>
        \A o \in Ops : depRow[o] = "running" => Holds(o) \/ ctx[o] = "cancelled"

\* The same of the cluster row: "deploying", "destroying" and "upgrading" mean
\* that a goroutine is at work, that the context of one was cancelled, or that
\* one was killed by a restart.
InFlightExplained ==
    \A c \in Clusters : status[c] \in InFlightStatus =>
        \E o \in Ops : target[o] = c /\ (Working(o) \/ ctx[o] = "cancelled" \/ pc[o] = "killed")

\* A set cascade latch belongs to a cascade request that is still under way,
\* unless a cancelled context or a restart kept it from being cleared: no
\* ordinary failure leaves a live cluster marked for silent removal.
LatchExplained ==
    \A c \in Clusters : latch[c] =>
        \E o \in Ops : /\ target[o] = c /\ kind[o] = "cascade"
                       /\ \/ pc[o] \in {"check", "rollback", "lock", "insert", "mark"} \cup WorkerPC
                          \/ ctx[o] = "cancelled"
                          \/ pc[o] = "killed"

\* What a DELETE of another request may do to the latch: a cascade that was
\* refused rolls it back, a destroy that failed clears it.
TookTheLatch(o, p) ==
    /\ p # o /\ Destroys(p) /\ target[p] = target[o]
    /\ \/ kind[p] = "cascade" /\ pc[p] = "done" /\ result[p] = "none"
       \/ result[p] \in {"failed", "cancelled"}

\* A cascade whose destroy succeeded, and was not cancelled, has also removed
\* the cluster row when it publishes its end, unless another DELETE of that
\* cluster was refused or another destroy failed and took the one latch the
\* requests share with it (handlers.go:459, executor.go:411, read at 505).
CascadeForgets ==
    \A o \in Ops :
        /\ kind[o] = "cascade" /\ result[o] = "succeeded" /\ Live(o)
        /\ pc[o] \in {"publish", "unlock", "dereg", "done"}
        => ~Exists(target[o]) \/ \E p \in Ops : TookTheLatch(o, p)

\* What the log stream announced is what the deployments row says: a failure
\* or cancellation always, a success unless the cancel came after the last
\* step.
EventMatchesRow ==
    \A o \in Ops : pc[o] \in {"unlock", "dereg", "done"} /\ result[o] # "none" =>
        depRow[o] \in {result[o], "gone"} \/ (result[o] = "succeeded" /\ ctx[o] = "cancelled")

\* A terminal deployments row is never rewritten, neither by a late write of
\* its goroutine nor by the recovery of a later process; it can only go with
\* its cluster.
TerminalRowsStable ==
    [][\A o \in Ops : depRow[o] \in Terminal => depRow'[o] \in {depRow[o], "gone"}]_depRow

\* The owner of a cluster is whoever is between TryLock and Unlock.
Owner(c) == IF \E o \in Ops : Holds(o) /\ target[o] = c
            THEN CHOOSE o \in Ops : Holds(o) /\ target[o] = c
            ELSE NoOp

Serial == INSTANCE SerialJobs WITH owner <- [c \in Clusters |-> Owner(c)],
                                   vms <- infra, VMStates <- InfraStates

\* Requests, goroutines, mutex and recovery together implement SerialJobs:
\* jobs of a cluster are serialised and only the current one moves its VMs.
ImplementsSerialJobs == Serial!Spec

\* Every admitted request comes to its end, its goroutine included: no step
\* of an executor waits for another request, for the lock or for a client.
RequestsEnd ==
    \A o \in Ops : pc[o] \notin {"new", "done", "killed"} ~> pc[o] \in {"done", "killed"}

------------------------------------------------------------------------------
(* What comments of the code say, and the code does not keep.               *)

\* cancel.go:36-39: the transition running -> cancelled "happens inside the
\* goroutine"; a goroutine that has ended leaves no row in "running".
EndedGoroutineSettlesRow ==
    \A o \in Ops : pc[o] = "done" /\ result[o] # "none" => depRow[o] # "running"

\* handlers.go:488 answers an accepted cascade with "cluster will be forgotten on
\* success"; CascadeForgets without its exception.
ForgottenOnSuccess ==
    \A o \in Ops :
        /\ kind[o] = "cascade" /\ result[o] = "succeeded" /\ Live(o)
        /\ pc[o] = "done"
        => ~Exists(target[o])

\* executor.go:507-510: if the API restarts in the middle of a destroy, what
\* recovers "will still see the latch" of the cascade.
LatchSurvivesRestart ==
    \A o \in Ops :
        /\ kind[o] = "cascade" /\ pc[o] = "killed" /\ result[o] = "none"
        /\ depRow[o] = "failed"
        => latch[target[o]]

\* handlers.go:369-372: DELETE is gated "to terminal/idle states only", because
\* dropping a deploying cluster "would orphan in-flight infra".
NoOrphanedInfra ==
    \A o \in Ops : pc[o] \in {"terraform", "configure"} => Exists(target[o])
==============================================================================
