----------------------- MODULE ClusterLifecycleProofs ------------------------
EXTENDS ClusterLifecycle, TLAPS

\* The state spaces that every step of the proofs needs to see.
PCValues == {"new", "latch", "check", "lock", "insert", "mark", "rollback", "forget",
             "init", "inited", "terraform", "configure", "okrow", "okstatus", "okforget",
             "drop", "badrow", "badstatus", "badlatch", "publish", "unlock", "apprun",
             "dereg", "done", "killed"}

\* The program counters, written out.
LEMMA PCsAre == PCs = PCValues
BY DEF PCs, PCValues, HandlerPC, LockedPC, CancelPC, WorkerPC

\* Every initial state is well typed.
LEMMA TypeInit == Init => TypeOK
<1> SUFFICES ASSUME Init PROVE TypeOK
    OBVIOUS
<1>1. PICK stored \in [Clusters -> StoredCluster] :
        /\ status = [c \in Clusters |-> stored[c][1]]
        /\ infra = [c \in Clusters |-> stored[c][2]]
    BY DEF Init
<1>2. ASSUME NEW x \in StoredCluster
      PROVE  x[1] \in Status \cup {"none", "gone"} /\ x[2] \in InfraStates
    BY DEF StoredCluster, Status, InfraStates
<1>3. status \in [Clusters -> Status \cup {"none", "gone"}] /\ infra \in [Clusters -> InfraStates]
    BY <1>1, <1>2
<1>4. QED
    BY <1>3, KindsAssumption, PCsAre DEF Init, TypeOK, PCValues, Terminal

\* Every step keeps the variables in their ranges.
LEMMA TypeStep == TypeOK /\ [Next]_vars => TypeOK'
<1> SUFFICES ASSUME TypeOK, [Next]_vars PROVE TypeOK'
    OBVIOUS
<1> USE PCsAre DEF TypeOK, PCValues, Goto, SetStatus, process, rows
<1>1. ASSUME NEW c \in Clusters, CreateCluster(c) PROVE TypeOK'
    BY <1>1 DEF CreateCluster, Status
<1>2. ASSUME NEW o \in Ops, Handle(o) PROVE TypeOK'
  <2>1. CASE SetLatch(o)
    BY <2>1 DEF SetLatch
  <2>2. CASE CheckAgain(o)
    BY <2>2 DEF CheckAgain
  <2>3. CASE RollBackLatch(o)
    BY <2>3 DEF RollBackLatch
  <2>4. CASE TakeLock(o)
    BY <2>4 DEF TakeLock, Refused
  <2>5. CASE InsertRow(o)
    BY <2>5 DEF InsertRow
  <2>6. CASE InsertFails(o)
    BY <2>6 DEF InsertFails, Refused
  <2>7. CASE MarkInFlight(o)
    BY <2>7 DEF MarkInFlight, Refused, InFlight, Status
  <2>8. CASE Forget(o)
    BY <2>8 DEF Forget, DropRow
  <2>9. CASE BeginInitialize(o)
    BY <2>9 DEF BeginInitialize, Status
  <2>10. CASE EndInitialize(o)
    BY <2>10 DEF EndInitialize, Status
  <2>11. QED
    BY <1>2, <2>1, <2>2, <2>3, <2>4, <2>5, <2>6, <2>7, <2>8, <2>9, <2>10 DEF Handle
<1>3. ASSUME NEW o \in Ops, Work(o) PROVE TypeOK'
  <2>1. CASE Apply(o) \/ TearDown(o)
    BY <2>1 DEF Apply, TearDown, InfraStates
  <2>2. CASE Configure(o) \/ UpgradeNodes(o)
    BY <2>2 DEF Configure, UpgradeNodes
  <2>3. CASE StepFails(o)
    BY <2>3 DEF StepFails, GivesUp, LeftBehind, InfraStates, FailureStatus, Terminal
  <2>4. CASE FinishSucceeded(o)
    BY <2>4 DEF FinishSucceeded, SetRow, Terminal
  <2>5. CASE SettleStatus(o)
    BY <2>5 DEF SettleStatus, Settled, Status
  <2>6. CASE ReadLatch(o)
    BY <2>6 DEF ReadLatch
  <2>7. CASE CascadeForget(o)
    BY <2>7 DEF CascadeForget, DropRow
  <2>8. CASE FinishFailed(o)
    BY <2>8 DEF FinishFailed, SetRow
  <2>9. CASE MarkError(o)
    BY <2>9 DEF MarkError, Status
  <2>10. CASE ClearLatch(o)
    BY <2>10 DEF ClearLatch
  <2>11. CASE Publish(o) \/ Unlock(o) \/ Deregister(o) \/ RunApp(o)
    BY <2>11 DEF Publish, Unlock, Deregister, RunApp
  <2>12. QED
    BY <1>3, <2>1, <2>2, <2>3, <2>4, <2>5, <2>6, <2>7, <2>8, <2>9, <2>10, <2>11 DEF Work
<1>4. ASSUME NEW o \in Ops, Arrive(o) \/ Disconnect(o) \/ AskCancel(o) \/ SignalCancel(o)
      PROVE  TypeOK'
    BY <1>4 DEF Arrive, Disconnect, AskCancel, SignalCancel, HandlerPC
<1>5. CASE Crash
    BY <1>5, BoundAssumption DEF Crash
<1>6. CASE Recover
    BY <1>6 DEF Recover, RecoverRow, RecoverStatus, RecoverLatch, Serve, SetRow, Terminal, Status
<1>7. CASE UNCHANGED vars
    BY <1>7 DEF vars
<1>8. QED
    BY <1>1, <1>2, <1>3, <1>4, <1>5, <1>6, <1>7 DEF Next

\* Every variable stays in its range, for any number of clusters and requests.
THEOREM TypeCorrect == Spec => []TypeOK
BY TypeInit, TypeStep, PTL DEF Spec
------------------------------------------------------------------------------
(* Mutual exclusion.  LockOwnership is inductive by itself: TryLock succeeds *)
(* only on a free mutex, and only a holder reaches a step that unlocks.      *)

\* A step that changes no pc into or out of LockedPC, and no mutex, keeps it.
LEMMA HoldersKept ==
    ASSUME LockOwnership, \A o \in Ops : Holds(o)' <=> Holds(o),
           UNCHANGED <<target, locked>>
    PROVE  LockOwnership'
BY DEF LockOwnership

\* One that releases the lock of a holder keeps it.
LEMMA HolderLeaves ==
    ASSUME TypeOK, LockOwnership, NEW h \in Ops, Holds(h), ~Holds(h)',
           \A o \in Ops \ {h} : Holds(o)' <=> Holds(o),
           UNCHANGED target, locked' = [locked EXCEPT ![target[h]] = FALSE]
    PROVE  LockOwnership'
BY DEF LockOwnership, TypeOK

\* One that takes a free lock keeps it.
LEMMA HolderComes ==
    ASSUME TypeOK, LockOwnership, NEW h \in Ops, ~locked[target[h]], Holds(h)',
           \A o \in Ops \ {h} : Holds(o)' <=> Holds(o),
           UNCHANGED target, locked' = [locked EXCEPT ![target[h]] = TRUE]
    PROVE  LockOwnership'
BY DEF LockOwnership, TypeOK

\* A process that has just started holds no mutex.
LEMMA LockInit == Init => LockOwnership
BY DEF Init, LockOwnership, Holds, LockedPC, WorkerPC

\* Every step keeps "locked exactly while one operation holds it".
LEMMA LockStep == TypeOK /\ LockOwnership /\ [Next]_vars => LockOwnership'
<1> SUFFICES ASSUME TypeOK, LockOwnership, [Next]_vars PROVE LockOwnership'
    OBVIOUS
<1> USE DEF Goto, process, rows, Holds, LockedPC, WorkerPC
<1>a. pc \in [Ops -> PCs] /\ target \in [Ops -> Clusters]
    BY DEF TypeOK
<1>1. ASSUME NEW c \in Clusters, CreateCluster(c) PROVE LockOwnership'
    BY <1>1, HoldersKept DEF CreateCluster
<1>2. ASSUME NEW o \in Ops, Handle(o) PROVE LockOwnership'
  <2>1. CASE SetLatch(o) \/ CheckAgain(o) \/ RollBackLatch(o)
    BY <1>a, <2>1, HoldersKept DEF SetLatch, CheckAgain, RollBackLatch
  <2>2. CASE TakeLock(o)
    <3>1. CASE locked[target[o]]
      BY <1>a, <2>2, <3>1, HoldersKept DEF TakeLock, Refused
    <3>2. CASE ~locked[target[o]]
      <4>1. pc' = [pc EXCEPT ![o] = IF kind[o] = "app" THEN "apprun" ELSE "insert"]
        BY <2>2, <3>2 DEF TakeLock
      <4>2. Holds(o)' /\ \A p \in Ops \ {o} : Holds(p)' <=> Holds(p)
        BY <1>a, <4>1
      <4>3. QED
        BY <2>2, <3>2, <4>2, HolderComes DEF TakeLock
    <3>3. QED
      BY <3>1, <3>2
  <2>3. CASE InsertRow(o)
    BY <1>a, <2>3, HoldersKept DEF InsertRow
  <2>4. CASE InsertFails(o)
    BY <1>a, <2>4, HolderLeaves DEF InsertFails, Refused
  <2>5. CASE MarkInFlight(o)
    <3>1. CASE Live(o) /\ Exists(target[o])
      BY <1>a, <2>5, <3>1, HoldersKept DEF MarkInFlight
    <3>2. CASE ~(Live(o) /\ Exists(target[o]))
      BY <1>a, <2>5, <3>2, HolderLeaves DEF MarkInFlight, Refused
    <3>3. QED
      BY <3>1, <3>2
  <2>6. CASE Forget(o) \/ BeginInitialize(o) \/ EndInitialize(o)
    BY <1>a, <2>6, HoldersKept DEF Forget, BeginInitialize, EndInitialize
  <2>7. QED
    BY <1>2, <2>1, <2>2, <2>3, <2>4, <2>5, <2>6 DEF Handle
<1>3. ASSUME NEW o \in Ops, Work(o) PROVE LockOwnership'
  <2>1. CASE Apply(o) \/ TearDown(o) \/ Configure(o) \/ UpgradeNodes(o) \/ StepFails(o)
    BY <1>a, <2>1, HoldersKept DEF Apply, TearDown, Configure, UpgradeNodes, StepFails, GivesUp
  <2>2. CASE FinishSucceeded(o) \/ SettleStatus(o) \/ ReadLatch(o) \/ CascadeForget(o)
    BY <1>a, <2>2, HoldersKept DEF FinishSucceeded, SettleStatus, ReadLatch, CascadeForget
  <2>3. CASE FinishFailed(o) \/ MarkError(o) \/ ClearLatch(o) \/ Publish(o) \/ Deregister(o)
    BY <1>a, <2>3, HoldersKept DEF FinishFailed, MarkError, ClearLatch, Publish, Deregister
  <2>4. CASE Unlock(o) \/ RunApp(o)
    BY <1>a, <2>4, HolderLeaves DEF Unlock, RunApp
  <2>5. QED
    BY <1>3, <2>1, <2>2, <2>3, <2>4 DEF Work
<1>4. ASSUME NEW o \in Ops, Arrive(o) \/ Disconnect(o) \/ AskCancel(o) \/ SignalCancel(o)
      PROVE  LockOwnership'
  <2>1. CASE Arrive(o)
    <3>1. PICK l \in HandlerPC : Admits(o, status[target[o]], l) /\ Goto(o, l)
      BY <2>1 DEF Arrive
    <3>2. ~Holds(o) /\ ~Holds(o)'
      BY <1>a, <2>1, <3>1 DEF Arrive, Admits, AdmitsJob, AdmitsDelete, AdmitsInitialize, AdmitsApp
    <3>3. QED
      BY <1>a, <2>1, <3>1, <3>2, HoldersKept DEF Arrive
  <2>2. CASE Disconnect(o) \/ AskCancel(o) \/ SignalCancel(o)
    BY <2>2, HoldersKept DEF Disconnect, AskCancel, SignalCancel
  <2>3. QED
    BY <1>4, <2>1, <2>2
<1>5. CASE Crash
  <2>1. \A o \in Ops : ~Holds(o)'
    BY <1>5 DEF Crash
  <2>2. QED
    BY <1>5, <2>1 DEF Crash, LockOwnership
<1>6. CASE Recover
    BY <1>6, HoldersKept DEF Recover, RecoverRow, RecoverStatus, RecoverLatch, Serve
<1>7. CASE UNCHANGED vars
    BY <1>7, HoldersKept DEF vars
<1>8. QED
    BY <1>1, <1>2, <1>3, <1>4, <1>5, <1>6, <1>7 DEF Next

\* Per cluster at most one deploy, destroy, upgrade or helm operation is between
\* TryLock and Unlock, and its mutex is locked exactly while there is one.
THEOREM MutualExclusion == Spec => []LockOwnership
BY TypeInit, TypeStep, LockInit, LockStep, PTL DEF Spec
------------------------------------------------------------------------------
(* The inductive invariant.  Each part says what a program point tells about *)
(* the rows; LockOwnership is what keeps other requests from changing that.  *)

\* A goroutine that has not yet settled the status of its cluster.
BusyPC == {"terraform", "configure", "okrow", "okstatus", "badrow", "badstatus"}

\* One that has not yet written its deployments row.
OpenPC == {"mark", "terraform", "configure", "okrow", "badrow"}

\* Only requests of the right kind come to a program point.
KindInv ==
    \A o \in Ops :
        /\ pc[o] \in {"latch", "check", "rollback"} => kind[o] = "cascade"
        /\ pc[o] = "lock" => kind[o] \in JobKinds \cup {"app"}
        /\ pc[o] \in {"insert", "mark"} \cup BusyPC => kind[o] \in JobKinds
        /\ pc[o] = "terraform" => kind[o] # "upgrade"
        /\ pc[o] = "configure" => ~Destroys(o)
        /\ pc[o] \in {"okforget", "drop", "badlatch"} => Destroys(o)

\* A restarting process has no request under way.
BootInv == boot # "up" => \A o \in Ops : pc[o] \in {"new", "done", "killed"}

\* While VMs may change the row does not vouch for them, and a job that has
\* passed its last step left them as its outcome says.
VMInv ==
    /\ StatusTellsInfra
    /\ \A o \in Ops :
        /\ pc[o] \in BusyPC => status[target[o]] \notin {"ready", "destroyed"}
        /\ pc[o] \in {"okrow", "okstatus"} =>
              infra[target[o]] = IF Destroys(o) THEN "absent" ELSE "present"
        /\ pc[o] \in {"okforget", "drop"} => infra[target[o]] = "absent"

\* What the deployments row of a request says at each of its points.
RowInv ==
    \A o \in Ops :
        /\ pc[o] \in {"new", "latch", "check", "lock", "insert"} => depRow[o] = "none"
        /\ pc[o] \in OpenPC => depRow[o] \in {"running", "gone"}
        /\ depRow[o] = "running" =>
              /\ Exists(target[o])
              /\ boot = "up" => pc[o] \in OpenPC \/ ctx[o] = "cancelled"
        /\ pc[o] \in HandlerPC \cup {"new", "apprun", "terraform", "configure", "okrow"}
              => result[o] = "none"
        /\ pc[o] = "badrow" => result[o] \in {"failed", "cancelled"}
        /\ /\ pc[o] \in {"okstatus", "okforget", "drop", "badstatus", "badlatch",
                         "publish", "unlock", "dereg", "done"}
           /\ result[o] # "none"
           => depRow[o] \in {result[o], "gone"} \/ (result[o] = "succeeded" /\ ctx[o] = "cancelled")

\* A latch belongs to a cascade that has yet to read or clear it.
LatchPC == {"check", "rollback", "lock", "insert", "mark", "okforget", "drop",
            "badlatch"} \cup BusyPC

LatchInv ==
    \A c \in Clusters : latch[c] =>
        /\ Exists(c)
        /\ \E o \in Ops : /\ target[o] = c /\ kind[o] = "cascade"
                          /\ pc[o] \in LatchPC \/ ctx[o] = "cancelled" \/ pc[o] = "killed"

\* A goroutine that has settled the status left no in-flight one behind.
FlightInv ==
    /\ InFlightExplained
    /\ \A o \in Ops :
          pc[o] \in {"okforget", "drop", "badlatch", "publish", "unlock"} /\ Live(o)
             => status[target[o]] \notin InFlightStatus

IInv == TypeOK /\ LockOwnership /\ KindInv /\ BootInv /\ VMInv /\ RowInv /\ LatchInv /\ FlightInv

\* KindInv: a step moves one request along the path of its kind.
LEMMA KindStep == TypeOK /\ KindInv /\ [Next]_vars => KindInv'
<1> SUFFICES ASSUME TypeOK, KindInv, [Next]_vars PROVE KindInv'
    OBVIOUS
<1> USE DEF KindInv, BusyPC, JobKinds, Destroys, Goto, process, rows
<1>a. pc \in [Ops -> PCs]
    BY DEF TypeOK
<1>1. ASSUME NEW c \in Clusters, CreateCluster(c) PROVE KindInv'
    BY <1>1 DEF CreateCluster
<1>2. ASSUME NEW o \in Ops, Handle(o) PROVE KindInv'
  <2>1. CASE SetLatch(o) \/ CheckAgain(o) \/ RollBackLatch(o)
    BY <1>a, <2>1 DEF SetLatch, CheckAgain, RollBackLatch
  <2>2. CASE TakeLock(o) \/ InsertRow(o) \/ InsertFails(o)
    BY <1>a, <2>2 DEF TakeLock, InsertRow, InsertFails, Refused
  <2>3. CASE MarkInFlight(o)
    BY <1>a, <2>3 DEF MarkInFlight, Refused
  <2>4. CASE Forget(o) \/ BeginInitialize(o) \/ EndInitialize(o)
    BY <1>a, <2>4 DEF Forget, BeginInitialize, EndInitialize
  <2>5. QED
    BY <1>2, <2>1, <2>2, <2>3, <2>4 DEF Handle
<1>3. ASSUME NEW o \in Ops, Work(o) PROVE KindInv'
  <2>1. CASE Apply(o) \/ TearDown(o) \/ Configure(o) \/ UpgradeNodes(o) \/ StepFails(o)
    BY <1>a, <2>1 DEF Apply, TearDown, Configure, UpgradeNodes, StepFails, GivesUp
  <2>2. CASE FinishSucceeded(o) \/ SettleStatus(o) \/ ReadLatch(o) \/ CascadeForget(o)
    BY <1>a, <2>2 DEF FinishSucceeded, SettleStatus, ReadLatch, CascadeForget
  <2>3. CASE FinishFailed(o) \/ MarkError(o) \/ ClearLatch(o)
    BY <1>a, <2>3 DEF FinishFailed, MarkError, ClearLatch
  <2>4. CASE Publish(o) \/ Unlock(o) \/ Deregister(o) \/ RunApp(o)
    BY <1>a, <2>4 DEF Publish, Unlock, Deregister, RunApp
  <2>5. QED
    BY <1>3, <2>1, <2>2, <2>3, <2>4 DEF Work
<1>4. ASSUME NEW o \in Ops, Arrive(o) PROVE KindInv'
    BY <1>a, <1>4 DEF Arrive, Admits, AdmitsJob, AdmitsDelete, AdmitsInitialize, AdmitsApp
<1>5. ASSUME NEW o \in Ops, Disconnect(o) \/ AskCancel(o) \/ SignalCancel(o) PROVE KindInv'
    BY <1>5 DEF Disconnect, AskCancel, SignalCancel
<1>6. CASE Crash
    BY <1>a, <1>6 DEF Crash
<1>7. CASE Recover
    BY <1>7 DEF Recover, RecoverRow, RecoverStatus, RecoverLatch, Serve
<1>8. CASE UNCHANGED vars
    BY <1>8 DEF vars
<1>9. QED
    BY <1>1, <1>2, <1>3, <1>4, <1>5, <1>6, <1>7, <1>8 DEF Next

\* BootInv: requests arrive only once the process is up.
LEMMA BootStep == TypeOK /\ BootInv /\ [Next]_vars => BootInv'
<1> SUFFICES ASSUME TypeOK, BootInv, [Next]_vars PROVE BootInv'
    OBVIOUS
<1> USE DEF BootInv, Goto, process, rows
<1>a. pc \in [Ops -> PCs]
    BY DEF TypeOK
<1>1. ASSUME NEW c \in Clusters, CreateCluster(c) PROVE BootInv'
    BY <1>1 DEF CreateCluster
<1>2. ASSUME NEW o \in Ops, Handle(o) PROVE BootInv'
    BY <1>a, <1>2 DEF Handle, SetLatch, CheckAgain, RollBackLatch, TakeLock, InsertRow,
                      InsertFails, MarkInFlight, Forget, BeginInitialize, EndInitialize
<1>3. ASSUME NEW o \in Ops, Work(o) PROVE BootInv'
    BY <1>a, <1>3 DEF Work, Apply, TearDown, Configure, UpgradeNodes, StepFails, GivesUp,
                      FinishSucceeded, SettleStatus, ReadLatch, CascadeForget, FinishFailed, MarkError,
                      ClearLatch, Publish, Unlock, Deregister, RunApp
<1>4. ASSUME NEW o \in Ops, Arrive(o) \/ Disconnect(o) \/ AskCancel(o) \/ SignalCancel(o)
      PROVE  BootInv'
    BY <1>a, <1>4 DEF Arrive, Disconnect, AskCancel, SignalCancel
<1>5. CASE Crash
    BY <1>a, <1>5 DEF Crash
<1>6. CASE Recover
    BY <1>6 DEF Recover, RecoverRow, RecoverStatus, RecoverLatch, Serve
<1>7. CASE UNCHANGED vars
    BY <1>7 DEF vars
<1>8. QED
    BY <1>1, <1>2, <1>3, <1>4, <1>5, <1>6, <1>7 DEF Next

\* VMInv: the VMs of a cluster change only under its lock, after its status has
\* left "ready" and "destroyed", and only the owner brings one of these back.
LEMMA VMStep ==
    TypeOK /\ LockOwnership /\ KindInv /\ VMInv /\ [Next]_vars => VMInv'
<1> SUFFICES ASSUME TypeOK, LockOwnership, KindInv, VMInv, [Next]_vars PROVE VMInv'
    OBVIOUS
<1> USE DEF VMInv, StatusTellsInfra, BusyPC, Destroys, Goto, SetStatus, process, rows
<1>a. /\ pc \in [Ops -> PCs] /\ target \in [Ops -> Clusters]
      /\ status \in [Clusters -> Status \cup {"none", "gone"}]
      /\ infra \in [Clusters -> InfraStates]
    BY DEF TypeOK
<1>b. \A o, p \in Ops : /\ pc[o] \in {"insert", "mark"} \cup WorkerPC
                       /\ pc[p] \in {"insert", "mark"} \cup WorkerPC
                       /\ target[o] = target[p] => o = p
    BY DEF LockOwnership, Holds, LockedPC
<1>1. ASSUME NEW c \in Clusters, CreateCluster(c) PROVE VMInv'
    BY <1>a, <1>1 DEF CreateCluster
<1>2. ASSUME NEW o \in Ops, Handle(o) PROVE VMInv'
  <2>1. CASE SetLatch(o) \/ CheckAgain(o) \/ RollBackLatch(o)
    BY <1>a, <2>1 DEF SetLatch, CheckAgain, RollBackLatch
  <2>2. CASE TakeLock(o) \/ InsertRow(o) \/ InsertFails(o)
    BY <1>a, <2>2 DEF TakeLock, InsertRow, InsertFails, Refused
  <2>3. CASE MarkInFlight(o)
    BY <1>a, <2>3 DEF MarkInFlight, Refused, InFlight
  <2>4. CASE Forget(o)
    BY <1>a, <2>4 DEF Forget, DropRow
  <2>5. CASE BeginInitialize(o) \/ EndInitialize(o)
    BY <1>a, <2>5 DEF BeginInitialize, EndInitialize
  <2>6. QED
    BY <1>2, <2>1, <2>2, <2>3, <2>4, <2>5 DEF Handle
<1>3. ASSUME NEW o \in Ops, Work(o) PROVE VMInv'
  <2>1. CASE Apply(o) \/ TearDown(o)
    BY <1>a, <1>b, <2>1 DEF Apply, TearDown, WorkerPC, KindInv
  <2>2. CASE Configure(o) \/ UpgradeNodes(o)
    BY <1>a, <1>b, <2>2 DEF Configure, UpgradeNodes, WorkerPC, KindInv
  <2>3. CASE StepFails(o)
    BY <1>a, <1>b, <2>3 DEF StepFails, GivesUp, WorkerPC
  <2>4. CASE FinishSucceeded(o) \/ FinishFailed(o)
    BY <1>a, <2>4 DEF FinishSucceeded, FinishFailed
  <2>5. CASE SettleStatus(o)
    BY <1>a, <1>b, <2>5 DEF SettleStatus, Settled, Destroys, KindInv, JobKinds, WorkerPC
  <2>6. CASE ReadLatch(o) \/ ClearLatch(o)
    BY <1>a, <2>6 DEF ReadLatch, ClearLatch
  <2>7. CASE CascadeForget(o)
    BY <1>a, <2>7 DEF CascadeForget, DropRow
  <2>8. CASE MarkError(o)
    BY <1>a, <2>8 DEF MarkError
  <2>9. CASE Publish(o) \/ Unlock(o) \/ Deregister(o) \/ RunApp(o)
    BY <1>a, <2>9 DEF Publish, Unlock, Deregister, RunApp
  <2>10. QED
    BY <1>3, <2>1, <2>2, <2>3, <2>4, <2>5, <2>6, <2>7, <2>8, <2>9 DEF Work
<1>4. ASSUME NEW o \in Ops, Arrive(o) \/ Disconnect(o) \/ AskCancel(o) \/ SignalCancel(o)
      PROVE  VMInv'
    BY <1>a, <1>4 DEF Arrive, HandlerPC, Disconnect, AskCancel, SignalCancel
<1>5. CASE Crash
  <2>1. \A o \in Ops : pc'[o] \in {"new", "done", "killed"}
    BY <1>5 DEF Crash
  <2>2. ASSUME NEW c \in Clusters, status[c] \in {"ready", "destroyed"}
        PROVE  infra'[c] = infra[c]
    BY <1>a, <1>5, <2>2 DEF Crash, LeftBehind
  <2>3. QED
    BY <1>5, <2>1, <2>2 DEF Crash
<1>6. CASE Recover
    BY <1>a, <1>6 DEF Recover, RecoverRow, RecoverStatus, RecoverLatch, Serve
<1>7. CASE UNCHANGED vars
    BY <1>7 DEF vars
<1>8. QED
    BY <1>1, <1>2, <1>3, <1>4, <1>5, <1>6, <1>7 DEF Next

\* RowInv: a deployments row is inserted once, then written once by its own
\* goroutine or by recovery, unless it went with its cluster.
LEMMA RowStep == TypeOK /\ BootInv /\ RowInv /\ [Next]_vars => RowInv'
<1> SUFFICES ASSUME TypeOK, BootInv, RowInv, [Next]_vars PROVE RowInv'
    OBVIOUS
<1> USE DEF RowInv, OpenPC, HandlerPC, Goto, SetStatus, SetRow, Exists, Live, process, rows
<1>a. /\ pc \in [Ops -> PCs] /\ target \in [Ops -> Clusters]
      /\ status \in [Clusters -> Status \cup {"none", "gone"}]
      /\ ctx \in [Ops -> {"live", "cancelled"}]
      /\ result \in [Ops -> Terminal \cup {"none"}]
      /\ depRow \in [Ops -> Terminal \cup {"none", "running", "gone"}]
    BY DEF TypeOK
<1>1. ASSUME NEW c \in Clusters, CreateCluster(c) PROVE RowInv'
    BY <1>a, <1>1 DEF CreateCluster, Status
<1>2. ASSUME NEW o \in Ops, Handle(o) PROVE RowInv'
  <2>1. CASE SetLatch(o) \/ CheckAgain(o) \/ RollBackLatch(o)
    BY <1>a, <2>1 DEF SetLatch, CheckAgain, RollBackLatch
  <2>2. CASE TakeLock(o) \/ InsertRow(o) \/ InsertFails(o)
    BY <1>a, <2>2 DEF TakeLock, InsertRow, InsertFails, Refused
  <2>3. CASE MarkInFlight(o)
    BY <1>a, <2>3 DEF MarkInFlight, Refused, InFlight, Status
  <2>4. CASE Forget(o)
    BY <1>a, <2>4 DEF Forget, DropRow
  <2>5. CASE BeginInitialize(o) \/ EndInitialize(o)
    BY <1>a, <2>5 DEF BeginInitialize, EndInitialize, Status
  <2>6. QED
    BY <1>2, <2>1, <2>2, <2>3, <2>4, <2>5 DEF Handle
<1>3. ASSUME NEW o \in Ops, Work(o) PROVE RowInv'
  <2>1. CASE Apply(o) \/ TearDown(o) \/ Configure(o) \/ UpgradeNodes(o)
    BY <1>a, <2>1 DEF Apply, TearDown, Configure, UpgradeNodes
  <2>2. CASE StepFails(o)
    BY <1>a, <2>2 DEF StepFails, GivesUp, FailureStatus
  <2>3. CASE FinishSucceeded(o)
    BY <1>a, <2>3 DEF FinishSucceeded, Terminal
  <2>4. CASE FinishFailed(o)
    BY <1>a, <2>4 DEF FinishFailed, Terminal
  <2>5. CASE SettleStatus(o)
    BY <1>a, <2>5 DEF SettleStatus, Settled, Status
  <2>6. CASE ReadLatch(o) \/ ClearLatch(o)
    BY <1>a, <2>6 DEF ReadLatch, ClearLatch
  <2>7. CASE CascadeForget(o)
    BY <1>a, <2>7 DEF CascadeForget, DropRow
  <2>8. CASE MarkError(o)
    BY <1>a, <2>8 DEF MarkError, Status
  <2>9. CASE Publish(o) \/ Unlock(o) \/ Deregister(o) \/ RunApp(o)
    BY <1>a, <2>9 DEF Publish, Unlock, Deregister, RunApp
  <2>10. QED
    BY <1>3, <2>1, <2>2, <2>3, <2>4, <2>5, <2>6, <2>7, <2>8, <2>9 DEF Work
<1>4. ASSUME NEW o \in Ops, Arrive(o) PROVE RowInv'
    BY <1>a, <1>4 DEF Arrive, Admits, AdmitsJob, AdmitsDelete, AdmitsInitialize, AdmitsApp
<1>5. ASSUME NEW o \in Ops, Disconnect(o) \/ AskCancel(o) \/ SignalCancel(o) PROVE RowInv'
    BY <1>a, <1>5 DEF Disconnect, AskCancel, SignalCancel
<1>6. CASE Crash
    BY <1>a, <1>6 DEF Crash
<1>7. CASE Recover
    BY <1>a, <1>7 DEF Recover, RecoverRow, RecoverStatus, RecoverLatch, Serve, BootInv,
                      Status, Terminal
<1>8. CASE UNCHANGED vars
    BY <1>8 DEF vars
<1>9. QED
    BY <1>1, <1>2, <1>3, <1>4, <1>5, <1>6, <1>7, <1>8 DEF Next

\* LatchInv: whoever lets go of the latch has cleared it, or found it clear, or
\* runs under a cancelled context.
LEMMA LatchStep == TypeOK /\ KindInv /\ LatchInv /\ [Next]_vars => LatchInv'
<1> SUFFICES ASSUME TypeOK, KindInv, LatchInv, [Next]_vars PROVE LatchInv'
    OBVIOUS
<1> USE DEF LatchInv, LatchPC, BusyPC, Goto, SetStatus, Exists, Live, process, rows
<1>a. /\ pc \in [Ops -> PCs] /\ target \in [Ops -> Clusters]
      /\ ctx \in [Ops -> {"live", "cancelled"}] /\ latch \in [Clusters -> BOOLEAN]
      /\ status \in [Clusters -> Status \cup {"none", "gone"}]
    BY DEF TypeOK
<1>1. ASSUME NEW c \in Clusters, CreateCluster(c) PROVE LatchInv'
    BY <1>a, <1>1 DEF CreateCluster, Status
<1>2. ASSUME NEW o \in Ops, Handle(o) PROVE LatchInv'
  <2>1. CASE SetLatch(o)
    BY <1>a, <2>1 DEF SetLatch, KindInv
  <2>2. CASE CheckAgain(o) \/ RollBackLatch(o)
    BY <1>a, <2>2 DEF CheckAgain, RollBackLatch
  <2>3. CASE TakeLock(o) \/ InsertRow(o) \/ InsertFails(o)
    BY <1>a, <2>3 DEF TakeLock, InsertRow, InsertFails, Refused
  <2>4. CASE MarkInFlight(o)
    BY <1>a, <2>4 DEF MarkInFlight, Refused, InFlight, Status
  <2>5. CASE Forget(o)
    BY <1>a, <2>5 DEF Forget, DropRow
  <2>6. CASE BeginInitialize(o) \/ EndInitialize(o)
    BY <1>a, <2>6 DEF BeginInitialize, EndInitialize, Status
  <2>7. QED
    BY <1>2, <2>1, <2>2, <2>3, <2>4, <2>5, <2>6 DEF Handle
<1>3. ASSUME NEW o \in Ops, Work(o) PROVE LatchInv'
  <2>1. CASE Apply(o) \/ TearDown(o) \/ Configure(o) \/ UpgradeNodes(o) \/ StepFails(o)
    BY <1>a, <2>1 DEF Apply, TearDown, Configure, UpgradeNodes, StepFails, GivesUp,
                      KindInv, Destroys
  <2>2. CASE FinishSucceeded(o) \/ FinishFailed(o)
    BY <1>a, <2>2 DEF FinishSucceeded, FinishFailed
  <2>3. CASE SettleStatus(o)
    BY <1>a, <2>3 DEF SettleStatus, Settled, Status, Destroys
  <2>4. CASE ReadLatch(o)
    BY <1>a, <2>4 DEF ReadLatch
  <2>5. CASE CascadeForget(o)
    BY <1>a, <2>5 DEF CascadeForget, DropRow
  <2>6. CASE MarkError(o)
    BY <1>a, <2>6 DEF MarkError, Status, Destroys
  <2>7. CASE ClearLatch(o)
    BY <1>a, <2>7 DEF ClearLatch
  <2>8. CASE Publish(o) \/ Unlock(o) \/ Deregister(o) \/ RunApp(o)
    BY <1>a, <2>8 DEF Publish, Unlock, Deregister, RunApp
  <2>9. QED
    BY <1>3, <2>1, <2>2, <2>3, <2>4, <2>5, <2>6, <2>7, <2>8 DEF Work
<1>4. ASSUME NEW o \in Ops, Arrive(o) \/ Disconnect(o) \/ AskCancel(o) \/ SignalCancel(o)
      PROVE  LatchInv'
    BY <1>a, <1>4 DEF Arrive, Disconnect, AskCancel, SignalCancel
<1>5. CASE Crash
    BY <1>a, <1>5 DEF Crash
<1>6. CASE Recover
    BY <1>a, <1>6 DEF Recover, RecoverRow, RecoverStatus, RecoverLatch, Serve, Status
<1>7. CASE UNCHANGED vars
    BY <1>7 DEF vars
<1>8. QED
    BY <1>1, <1>2, <1>3, <1>4, <1>5, <1>6, <1>7 DEF Next

\* FlightInv: only the owner of a cluster gives it an in-flight status, and it
\* does not leave before it has replaced it, unless it was cancelled or killed.
LEMMA FlightStep == TypeOK /\ LockOwnership /\ KindInv /\ FlightInv /\ [Next]_vars => FlightInv'
<1> SUFFICES ASSUME TypeOK, LockOwnership, KindInv, FlightInv, [Next]_vars PROVE FlightInv'
    OBVIOUS
<1> USE DEF FlightInv, InFlightExplained, InFlightStatus, Working, WorkerPC, Goto, SetStatus,
            Exists, Live, Destroys, process, rows
<1>a. /\ pc \in [Ops -> PCs] /\ target \in [Ops -> Clusters]
      /\ ctx \in [Ops -> {"live", "cancelled"}]
      /\ status \in [Clusters -> Status \cup {"none", "gone"}]
    BY DEF TypeOK
<1>b. \A o, p \in Ops : /\ pc[o] \in {"insert", "mark"} \cup WorkerPC
                       /\ pc[p] \in {"insert", "mark"} \cup WorkerPC
                       /\ target[o] = target[p] => o = p
    BY DEF LockOwnership, Holds, LockedPC
<1>1. ASSUME NEW c \in Clusters, CreateCluster(c) PROVE FlightInv'
    BY <1>a, <1>1 DEF CreateCluster
<1>2. ASSUME NEW o \in Ops, Handle(o) PROVE FlightInv'
  <2>1. CASE SetLatch(o) \/ CheckAgain(o) \/ RollBackLatch(o)
    BY <1>a, <2>1 DEF SetLatch, CheckAgain, RollBackLatch
  <2>2. CASE TakeLock(o) \/ InsertRow(o) \/ InsertFails(o)
    BY <1>a, <2>2 DEF TakeLock, InsertRow, InsertFails, Refused
  <2>3. CASE MarkInFlight(o)
    BY <1>a, <1>b, <2>3 DEF MarkInFlight, Refused, InFlight
  <2>4. CASE Forget(o)
    BY <1>a, <2>4 DEF Forget, DropRow
  <2>5. CASE BeginInitialize(o) \/ EndInitialize(o)
    BY <1>a, <2>5 DEF BeginInitialize, EndInitialize
  <2>6. QED
    BY <1>2, <2>1, <2>2, <2>3, <2>4, <2>5 DEF Handle
<1>3. ASSUME NEW o \in Ops, Work(o) PROVE FlightInv'
  <2>1. CASE Apply(o) \/ TearDown(o) \/ Configure(o) \/ UpgradeNodes(o) \/ StepFails(o)
    BY <1>a, <2>1 DEF Apply, TearDown, Configure, UpgradeNodes, StepFails, GivesUp
  <2>2. CASE FinishSucceeded(o) \/ FinishFailed(o)
    BY <1>a, <2>2 DEF FinishSucceeded, FinishFailed
  <2>3. CASE SettleStatus(o)
    BY <1>a, <1>b, <2>3 DEF SettleStatus, Settled, Status
  <2>4. CASE ReadLatch(o) \/ ClearLatch(o)
    BY <1>a, <2>4 DEF ReadLatch, ClearLatch
  <2>5. CASE CascadeForget(o)
    BY <1>a, <2>5 DEF CascadeForget, DropRow
  <2>6. CASE MarkError(o)
    BY <1>a, <2>6 DEF MarkError, Status
  <2>7. CASE Publish(o) \/ Unlock(o) \/ Deregister(o) \/ RunApp(o)
    BY <1>a, <2>7 DEF Publish, Unlock, Deregister, RunApp
  <2>8. QED
    BY <1>3, <2>1, <2>2, <2>3, <2>4, <2>5, <2>6, <2>7 DEF Work
<1>4. ASSUME NEW o \in Ops, Arrive(o) \/ Disconnect(o) \/ AskCancel(o) \/ SignalCancel(o)
      PROVE  FlightInv'
    BY <1>a, <1>4 DEF Arrive, HandlerPC, Disconnect, AskCancel, SignalCancel
<1>5. CASE Crash
    BY <1>a, <1>5 DEF Crash
<1>6. CASE Recover
    BY <1>a, <1>6 DEF Recover, RecoverRow, RecoverStatus, RecoverLatch, Serve
<1>7. CASE UNCHANGED vars
    BY <1>7 DEF vars
<1>8. QED
    BY <1>1, <1>2, <1>3, <1>4, <1>5, <1>6, <1>7 DEF Next

\* The database an idle process left behind satisfies every part.
LEMMA IInvInit == Init => IInv
<1> SUFFICES ASSUME Init PROVE IInv
    OBVIOUS
<1>1. TypeOK /\ LockOwnership
    BY TypeInit, LockInit
<1>2. PICK stored \in [Clusters -> StoredCluster] :
        /\ status = [c \in Clusters |-> stored[c][1]]
        /\ infra = [c \in Clusters |-> stored[c][2]]
    BY DEF Init
<1>3. ASSUME NEW x \in StoredCluster
      PROVE  /\ x[1] = "ready" => x[2] = "present"
             /\ x[1] = "destroyed" => x[2] = "absent"
             /\ x[1] \notin InFlightStatus
    BY DEF StoredCluster, InFlightStatus
<1>4. StatusTellsInfra /\ \A c \in Clusters : status[c] \notin InFlightStatus
    BY <1>2, <1>3 DEF StatusTellsInfra
<1>5. KindInv /\ BootInv /\ VMInv
    BY <1>4 DEF Init, KindInv, BootInv, VMInv, BusyPC
<1>6. RowInv
    BY DEF Init, RowInv, OpenPC
<1>7. LatchInv /\ FlightInv
    BY <1>4 DEF Init, LatchInv, FlightInv, InFlightExplained
<1>8. QED
    BY <1>1, <1>5, <1>6, <1>7 DEF IInv

\* Together the parts are inductive: each step lemma needs only parts of it.
LEMMA IInvStep == IInv /\ [Next]_vars => IInv'
BY TypeStep, LockStep, KindStep, BootStep, VMStep, RowStep, LatchStep, FlightStep DEF IInv

\* All parts together hold in every state, for any clusters, requests and number
\* of restarts.
THEOREM Inductive == Spec => []IInv
BY IInvInit, IInvStep, PTL DEF Spec

\* "ready" clusters have their VMs and "destroyed" ones have none.
THEOREM StatusIsTrue == Spec => []StatusTellsInfra
<1>1. IInv => StatusTellsInfra
    BY DEF IInv, VMInv
<1>2. QED
    BY <1>1, Inductive, PTL

\* A cascade drops the row of a cluster only after its VMs.
THEOREM CascadeIsLast == Spec => []CascadeAfterDestroy
<1>1. IInv => CascadeAfterDestroy
    BY DEF IInv, VMInv, CascadeAfterDestroy
<1>2. QED
    BY <1>1, Inductive, PTL

\* Only a cancelled context leaves a deployments row "running" for good.
THEOREM RunningRows == Spec => []RunningRowExplained
<1>1. IInv => RunningRowExplained
    BY DEF IInv, RowInv, RunningRowExplained, OpenPC, Holds, LockedPC, WorkerPC
<1>2. QED
    BY <1>1, Inductive, PTL

\* Only a cancelled context or a restart leaves a cluster row in flight.
THEOREM InFlightRows == Spec => []InFlightExplained
<1>1. IInv => InFlightExplained
    BY DEF IInv, FlightInv
<1>2. QED
    BY <1>1, Inductive, PTL

\* No ordinary failure of a cascade leaves its latch on the cluster.
THEOREM Latches == Spec => []LatchExplained
<1>1. IInv => LatchExplained
    BY DEF IInv, LatchInv, LatchPC, BusyPC, LatchExplained, WorkerPC
<1>2. QED
    BY <1>1, Inductive, PTL

\* The last event of a log stream agrees with the deployments row.
THEOREM Events == Spec => []EventMatchesRow
<1>1. IInv => EventMatchesRow
    BY DEF IInv, RowInv, EventMatchesRow
<1>2. QED
    BY <1>1, Inductive, PTL

\* A step leaves a terminal deployments row alone or takes it away.
LEMMA RowsStep ==
    ASSUME TypeOK, RowInv, [Next]_vars, NEW p \in Ops, depRow[p] \in Terminal
    PROVE  depRow'[p] \in {depRow[p], "gone"}
<1> USE DEF RowInv, OpenPC, Terminal, SetRow, process, rows
<1>a. depRow \in [Ops -> Terminal \cup {"none", "running", "gone"}]
    BY DEF TypeOK
<1>1. ASSUME NEW c \in Clusters, CreateCluster(c) PROVE depRow' = depRow
    BY <1>1 DEF CreateCluster
<1>2. ASSUME NEW o \in Ops, Handle(o) PROVE depRow'[p] \in {depRow[p], "gone"}
  <2>1. CASE InsertRow(o) \/ Forget(o)
    BY <1>a, <2>1 DEF InsertRow, Forget, DropRow
  <2>2. CASE ~InsertRow(o) /\ ~Forget(o)
    BY <1>2, <2>2 DEF Handle, SetLatch, CheckAgain, RollBackLatch, TakeLock, InsertFails,
                      MarkInFlight, BeginInitialize, EndInitialize
  <2>3. QED
    BY <2>1, <2>2
<1>3. ASSUME NEW o \in Ops, Work(o) PROVE depRow'[p] \in {depRow[p], "gone"}
  <2>1. CASE FinishSucceeded(o) \/ FinishFailed(o) \/ CascadeForget(o)
    BY <1>a, <2>1 DEF FinishSucceeded, FinishFailed, CascadeForget, DropRow
  <2>2. CASE ~(FinishSucceeded(o) \/ FinishFailed(o) \/ CascadeForget(o))
    BY <1>3, <2>2 DEF Work, Apply, TearDown, Configure, UpgradeNodes, StepFails,
                      SettleStatus, ReadLatch, MarkError, ClearLatch, Publish, Unlock, Deregister, RunApp
  <2>3. QED
    BY <2>1, <2>2
<1>4. ASSUME NEW o \in Ops, Arrive(o) \/ Disconnect(o) \/ AskCancel(o) \/ SignalCancel(o)
      PROVE  depRow' = depRow
    BY <1>4 DEF Arrive, Disconnect, AskCancel, SignalCancel
<1>5. CASE Crash
    BY <1>5 DEF Crash
<1>6. CASE Recover
    BY <1>a, <1>6 DEF Recover, RecoverRow, RecoverStatus, RecoverLatch, Serve
<1>7. CASE UNCHANGED vars
    BY <1>7 DEF vars
<1>8. QED
    BY <1>1, <1>2, <1>3, <1>4, <1>5, <1>6, <1>7 DEF Next

\* A terminal deployments row is final.
THEOREM TerminalRows == Spec => TerminalRowsStable
<1> DEFINE Stable == \A o \in Ops : depRow[o] \in Terminal => depRow'[o] \in {depRow[o], "gone"}
<1>1. IInv /\ [Next]_vars => Stable
    BY RowsStep DEF IInv
<1>2. IInv /\ [Next]_vars => [Stable]_depRow
    BY <1>1
<1>3. QED
    BY <1>2, Inductive, PTL DEF Spec, TerminalRowsStable
------------------------------------------------------------------------------
(* The cascade.  CascadeForgets is about the end of a request and about what *)
(* others did before: its invariant follows the latch from the moment it is  *)
(* set, and keeps the record of whoever took it away.                        *)

\* Where a cascade is between setting the latch and reading it back.
AwaitsForget == {"check", "lock", "insert", "mark", "terraform", "okrow", "okstatus", "okforget"}

\* Where it is once it has dropped the row, or could not.
EndedPC == {"publish", "unlock", "dereg", "done"}

\* A cascade that has nothing more to do, or will find nothing to do.
Forgotten(o) == ~Exists(target[o]) \/ \E p \in Ops : TookTheLatch(o, p)

\* A row that was there when a request was admitted can only be dropped, and the
\* recovery works on rows that are there; a failing job keeps its outcome.
OriginInv ==
    /\ boot \in {"status", "latch"} => orphan \in Ops /\ Exists(target[orphan])
    /\ \A o \in Ops :
        /\ pc[o] # "new" => status[target[o]] # "none"
        /\ pc[o] \in {"badrow", "badstatus", "badlatch"} => result[o] \in {"failed", "cancelled"}

\* A cascade finds the latch as it set it, unless the row has gone or another
\* DELETE took it.
PromiseInv ==
    /\ \A o \in Ops : kind[o] = "cascade" /\ Live(o) /\ pc[o] \in AwaitsForget =>
          latch[target[o]] \/ Forgotten(o)
    /\ CascadeForgets

\* What no step takes back: requests and their outcomes, ends, cancellations and
\* dropped rows.
Lasting ==
    /\ UNCHANGED <<kind, target>>
    /\ \A o \in Ops : /\ pc[o] = "done" => pc'[o] = "done"
                      /\ pc[o] # "new" => pc'[o] # "new"
                      /\ pc[o] = "done" \/ result[o] # "none" => result'[o] = result[o]
                      /\ ctx[o] = "cancelled" => ctx'[o] = "cancelled"
    /\ \A c \in Clusters : /\ status[c] = "gone" => status'[c] = "gone"
                           /\ status[c] # "none" => status'[c] # "none"

\* Every step is lasting in this sense.
LEMMA LastingStep == TypeOK /\ RowInv /\ OriginInv /\ [Next]_vars => Lasting
<1> SUFFICES ASSUME TypeOK, RowInv, OriginInv, [Next]_vars PROVE Lasting
    OBVIOUS
<1> USE DEF Lasting, Goto, SetStatus, Exists, process, rows
<1>a. /\ pc \in [Ops -> PCs] /\ target \in [Ops -> Clusters]
      /\ status \in [Clusters -> Status \cup {"none", "gone"}]
      /\ ctx \in [Ops -> {"live", "cancelled"}]
      /\ result \in [Ops -> Terminal \cup {"none"}]
    BY DEF TypeOK
<1>b. "none" \notin Status /\ "gone" \notin Status
    BY DEF Status
<1>1. ASSUME NEW c \in Clusters, CreateCluster(c) PROVE Lasting
    BY <1>a, <1>1 DEF CreateCluster
<1>2. ASSUME NEW o \in Ops, Handle(o) PROVE Lasting
  <2>1. CASE SetLatch(o) \/ CheckAgain(o) \/ RollBackLatch(o)
    BY <1>a, <2>1 DEF SetLatch, CheckAgain, RollBackLatch
  <2>2. CASE TakeLock(o) \/ InsertRow(o) \/ InsertFails(o)
    BY <1>a, <2>2 DEF TakeLock, InsertRow, InsertFails, Refused
  <2>3. CASE MarkInFlight(o)
    BY <1>a, <1>b, <2>3 DEF MarkInFlight, Refused, InFlight
  <2>4. CASE Forget(o) \/ BeginInitialize(o) \/ EndInitialize(o)
    BY <1>a, <1>b, <2>4 DEF Forget, DropRow, BeginInitialize, EndInitialize
  <2>5. QED
    BY <1>2, <2>1, <2>2, <2>3, <2>4 DEF Handle
<1>3. ASSUME NEW o \in Ops, Work(o) PROVE Lasting
  <2>1. CASE Apply(o) \/ TearDown(o) \/ Configure(o) \/ UpgradeNodes(o)
    BY <1>a, <2>1 DEF Apply, TearDown, Configure, UpgradeNodes
  <2>2. CASE StepFails(o) \/ FinishSucceeded(o)
    BY <1>a, <2>2 DEF StepFails, GivesUp, FinishSucceeded, RowInv
  <2>3. CASE SettleStatus(o) \/ MarkError(o)
    BY <1>a, <1>b, <2>3 DEF SettleStatus, Settled, MarkError
  <2>4. CASE ReadLatch(o) \/ CascadeForget(o)
    BY <1>a, <1>b, <2>4 DEF ReadLatch, CascadeForget, DropRow
  <2>5. CASE FinishFailed(o) \/ ClearLatch(o)
    BY <1>a, <2>5 DEF FinishFailed, ClearLatch
  <2>6. CASE Publish(o) \/ Unlock(o) \/ Deregister(o) \/ RunApp(o)
    BY <1>a, <2>6 DEF Publish, Unlock, Deregister, RunApp
  <2>7. QED
    BY <1>3, <2>1, <2>2, <2>3, <2>4, <2>5, <2>6 DEF Work
<1>4. ASSUME NEW o \in Ops, Arrive(o) \/ Disconnect(o) \/ AskCancel(o) \/ SignalCancel(o)
      PROVE  Lasting
    BY <1>a, <1>4 DEF Arrive, HandlerPC, Disconnect, AskCancel, SignalCancel
<1>5. CASE Crash
    BY <1>a, <1>5 DEF Crash
<1>6. CASE Recover
    BY <1>a, <1>b, <1>6 DEF Recover, RecoverRow, RecoverStatus, RecoverLatch, Serve, OriginInv
<1>7. CASE UNCHANGED vars
    BY <1>7 DEF vars
<1>8. QED
    BY <1>1, <1>2, <1>3, <1>4, <1>5, <1>6, <1>7 DEF Next

\* So a row that has gone, and a latch that was taken, stay so.
LEMMA ForgottenKept ==
    ASSUME TypeOK, Lasting, NEW o \in Ops, status[target[o]] # "none", Forgotten(o)
    PROVE  Forgotten(o)'
<1>1. CASE ~Exists(target[o])
    BY <1>1 DEF TypeOK, Exists, Lasting, Forgotten, Status
<1>2. CASE \E p \in Ops : TookTheLatch(o, p)
    BY <1>2 DEF TookTheLatch, Lasting, Forgotten, Destroys
<1>3. QED
    BY <1>1, <1>2 DEF Forgotten

\* OriginInv: the orphan of a recovery had a running row, so its cluster is there,
\* and no request is served that could drop it.
LEMMA OriginStep == TypeOK /\ BootInv /\ RowInv /\ OriginInv /\ [Next]_vars => OriginInv'
<1> SUFFICES ASSUME TypeOK, BootInv, RowInv, OriginInv, [Next]_vars PROVE OriginInv'
    OBVIOUS
<1> USE DEF OriginInv, BootInv, Goto, SetStatus, Exists, process, rows
<1>a. /\ pc \in [Ops -> PCs] /\ target \in [Ops -> Clusters]
      /\ status \in [Clusters -> Status \cup {"none", "gone"}]
      /\ ctx \in [Ops -> {"live", "cancelled"}]
      /\ result \in [Ops -> Terminal \cup {"none"}]
    BY DEF TypeOK
<1>b. "none" \notin Status /\ "gone" \notin Status
    BY DEF Status
<1>1. ASSUME NEW c \in Clusters, CreateCluster(c) PROVE OriginInv'
    BY <1>a, <1>b, <1>1 DEF CreateCluster
<1>2. ASSUME NEW o \in Ops, Handle(o) PROVE OriginInv'
  <2>1. boot = "up" \/ UNCHANGED <<status, pc>>
    BY <1>a, <1>2 DEF Handle, SetLatch, CheckAgain, RollBackLatch, TakeLock, InsertRow,
                      InsertFails, MarkInFlight, Forget, BeginInitialize, EndInitialize
  <2>2. CASE SetLatch(o) \/ CheckAgain(o) \/ RollBackLatch(o)
    BY <1>a, <2>1, <2>2 DEF SetLatch, CheckAgain, RollBackLatch
  <2>3. CASE TakeLock(o) \/ InsertRow(o) \/ InsertFails(o)
    BY <1>a, <2>1, <2>3 DEF TakeLock, InsertRow, InsertFails, Refused
  <2>4. CASE MarkInFlight(o)
    BY <1>a, <1>b, <2>1, <2>4 DEF MarkInFlight, Refused, InFlight
  <2>5. CASE Forget(o) \/ BeginInitialize(o) \/ EndInitialize(o)
    BY <1>a, <1>b, <2>1, <2>5 DEF Forget, DropRow, BeginInitialize, EndInitialize
  <2>6. QED
    BY <1>2, <2>2, <2>3, <2>4, <2>5 DEF Handle
<1>3. ASSUME NEW o \in Ops, Work(o) PROVE OriginInv'
  <2>1. boot = "up"
    BY <1>a, <1>3 DEF Work, Apply, TearDown, Configure, UpgradeNodes, StepFails, GivesUp,
                      FinishSucceeded, SettleStatus, ReadLatch, CascadeForget, FinishFailed,
                      MarkError, ClearLatch, Publish, Unlock, Deregister, RunApp, TypeOK
  <2>2. CASE Apply(o) \/ TearDown(o) \/ Configure(o) \/ UpgradeNodes(o)
    BY <1>a, <2>1, <2>2 DEF Apply, TearDown, Configure, UpgradeNodes
  <2>3. CASE StepFails(o)
    BY <1>a, <2>1, <2>3 DEF StepFails, GivesUp, FailureStatus
  <2>4. CASE FinishSucceeded(o) \/ FinishFailed(o)
    BY <1>a, <2>1, <2>4 DEF FinishSucceeded, FinishFailed
  <2>5. CASE SettleStatus(o) \/ MarkError(o)
    BY <1>a, <1>b, <2>1, <2>5 DEF SettleStatus, Settled, MarkError
  <2>6. CASE ReadLatch(o) \/ CascadeForget(o)
    BY <1>a, <1>b, <2>1, <2>6 DEF ReadLatch, CascadeForget, DropRow
  <2>7. CASE ClearLatch(o) \/ Publish(o) \/ Unlock(o) \/ Deregister(o) \/ RunApp(o)
    BY <1>a, <2>1, <2>7 DEF ClearLatch, Publish, Unlock, Deregister, RunApp
  <2>8. QED
    BY <1>3, <2>2, <2>3, <2>4, <2>5, <2>6, <2>7 DEF Work
<1>4. ASSUME NEW o \in Ops, Arrive(o) \/ Disconnect(o) \/ AskCancel(o) \/ SignalCancel(o)
      PROVE  OriginInv'
    BY <1>a, <1>b, <1>4 DEF Arrive, HandlerPC, Disconnect, AskCancel, SignalCancel
<1>5. CASE Crash
    BY <1>a, <1>5 DEF Crash
<1>6. CASE Recover
    BY <1>a, <1>b, <1>6 DEF Recover, RecoverRow, RecoverStatus, RecoverLatch, Serve, RowInv, Status
<1>7. CASE UNCHANGED vars
    BY <1>7 DEF vars
<1>8. QED
    BY <1>1, <1>2, <1>3, <1>4, <1>5, <1>6, <1>7 DEF Next

\* A step keeps PromiseInv when the cascades that wait keep their latch, or are
\* forgotten now, and those that end have waited to the end or are forgotten now.
LEMMA PromiseKept ==
    ASSUME TypeOK, OriginInv, PromiseInv, Lasting,
           \A o \in Ops : kind[o] = "cascade" /\ Live(o)' /\ pc'[o] \in AwaitsForget =>
              \/ latch'[target[o]] \/ Forgotten(o)'
              \/ pc[o] \in AwaitsForget /\ latch'[target[o]] = latch[target[o]],
           \A o \in Ops : kind[o] = "cascade" /\ Live(o)' /\ result'[o] = "succeeded"
                             /\ pc'[o] \in EndedPC =>
              Forgotten(o)' \/ (result[o] = "succeeded" /\ pc[o] \in EndedPC)
    PROVE  PromiseInv'
<1>1. \A o \in Ops : Live(o)' => Live(o)
    BY DEF Live, Lasting, TypeOK
<1>2. \A o \in Ops : Forgotten(o) /\ pc[o] # "new" => Forgotten(o)'
    BY ForgottenKept DEF OriginInv
<1>3. ASSUME NEW o \in Ops, kind'[o] = "cascade", Live(o)', pc'[o] \in AwaitsForget
      PROVE  latch'[target'[o]] \/ Forgotten(o)'
  <2>1. kind[o] = "cascade" /\ Live(o) /\ target'[o] = target[o]
    BY <1>1, <1>3 DEF Lasting
  <2>2. CASE latch'[target[o]] \/ Forgotten(o)'
    BY <2>1, <2>2
  <2>3. CASE pc[o] \in AwaitsForget /\ latch'[target[o]] = latch[target[o]]
    BY <1>2, <2>1, <2>3 DEF PromiseInv, AwaitsForget
  <2>4. QED
    BY <1>3, <2>1, <2>2, <2>3
<1>4. ASSUME NEW o \in Ops, kind'[o] = "cascade", result'[o] = "succeeded", Live(o)',
             pc'[o] \in EndedPC
      PROVE  Forgotten(o)'
  <2>1. kind[o] = "cascade" /\ Live(o)
    BY <1>1, <1>4 DEF Lasting
  <2>2. result[o] = "succeeded" /\ pc[o] \in EndedPC => Forgotten(o)
    BY <2>1 DEF PromiseInv, CascadeForgets, EndedPC, Forgotten
  <2>3. QED
    BY <1>2, <1>4, <2>1, <2>2 DEF EndedPC
<1>5. CascadeForgets'
    BY <1>4 DEF CascadeForgets, EndedPC, Forgotten
<1>6. QED
    BY <1>3, <1>5 DEF PromiseInv

\* PromiseInv: whoever clears the latch of a waiting cascade has dropped the row
\* or counts as one that took it; and one that reads the latch drops the row.
LEMMA PromiseStep ==
    TypeOK /\ KindInv /\ BootInv /\ RowInv /\ OriginInv /\ PromiseInv /\ [Next]_vars => PromiseInv'
<1> SUFFICES ASSUME TypeOK, KindInv, BootInv, RowInv, OriginInv, PromiseInv, [Next]_vars
             PROVE  PromiseInv'
    OBVIOUS
<1> USE DEF AwaitsForget, EndedPC, Goto, Live, process, rows
<1>a. /\ pc \in [Ops -> PCs] /\ target \in [Ops -> Clusters]
      /\ ctx \in [Ops -> {"live", "cancelled"}]
      /\ result \in [Ops -> Terminal \cup {"none"}]
      /\ latch \in [Clusters -> BOOLEAN]
    BY DEF TypeOK
<1>b. Lasting
    BY LastingStep
<1>c. \A o \in Ops : Forgotten(o) /\ pc[o] # "new" => Forgotten(o)'
    BY <1>b, ForgottenKept DEF OriginInv
<1>d. "none" \notin Status /\ "gone" \notin Status
    BY DEF Status
<1>1. ASSUME NEW c \in Clusters, CreateCluster(c) PROVE PromiseInv'
    BY <1>a, <1>b, <1>1, PromiseKept DEF CreateCluster
<1>2. ASSUME NEW o \in Ops, Handle(o) PROVE PromiseInv'
  <2>1. CASE SetLatch(o) \/ CheckAgain(o)
    BY <1>a, <1>b, <2>1, PromiseKept DEF SetLatch, CheckAgain, RowInv, HandlerPC
  <2>2. CASE RollBackLatch(o)
    <3>1. ASSUME NEW p \in Ops \ {o}, Live(o), target[p] = target[o] PROVE TookTheLatch(p, o)'
      BY <1>a, <1>b, <2>2, <3>1 DEF RollBackLatch, TookTheLatch, KindInv, RowInv, HandlerPC,
                                    Destroys, Lasting
    <3>2. ASSUME NEW p \in Ops, p # o, latch'[target[p]] # latch[target[p]] PROVE Forgotten(p)'
      BY <1>a, <2>2, <3>1, <3>2 DEF RollBackLatch, Forgotten
    <3>3. QED
      BY <1>a, <1>b, <2>2, <3>2, PromiseKept DEF RollBackLatch, RowInv, HandlerPC
  <2>3. CASE TakeLock(o)
    BY <1>a, <1>b, <2>3, PromiseKept DEF TakeLock, Refused, RowInv, HandlerPC
  <2>4. CASE InsertRow(o) \/ InsertFails(o)
    BY <1>a, <1>b, <2>4, PromiseKept DEF InsertRow, InsertFails, Refused, RowInv, HandlerPC
  <2>5. CASE MarkInFlight(o)
    BY <1>a, <1>b, <2>5, PromiseKept DEF MarkInFlight, Refused, RowInv, HandlerPC
  <2>6. CASE Forget(o)
    <3>1. ASSUME NEW p \in Ops, latch'[target[p]] # latch[target[p]] PROVE Forgotten(p)'
      BY <1>a, <1>b, <1>d, <2>6, <3>1 DEF Forget, DropRow, SetStatus, Forgotten, Exists, Lasting, TypeOK
    <3>2. QED
      BY <1>a, <1>b, <2>6, <3>1, PromiseKept DEF Forget, RowInv, HandlerPC
  <2>7. CASE BeginInitialize(o) \/ EndInitialize(o)
    BY <1>a, <1>b, <2>7, PromiseKept DEF BeginInitialize, EndInitialize, RowInv, HandlerPC
  <2>8. QED
    BY <1>2, <2>1, <2>2, <2>3, <2>4, <2>5, <2>6, <2>7 DEF Handle
<1>3. ASSUME NEW o \in Ops, Work(o) PROVE PromiseInv'
  <2>1. CASE Apply(o) \/ TearDown(o) \/ Configure(o) \/ UpgradeNodes(o)
    BY <1>a, <1>b, <2>1, PromiseKept DEF Apply, TearDown, Configure, UpgradeNodes, Destroys
  <2>2. CASE StepFails(o) \/ FinishSucceeded(o)
    BY <1>a, <1>b, <2>2, PromiseKept DEF StepFails, FinishSucceeded
  <2>3. CASE SettleStatus(o)
    BY <1>a, <1>b, <2>3, PromiseKept DEF SettleStatus, Destroys
  <2>4. CASE ReadLatch(o)
    <3>1. ASSUME kind[o] = "cascade", Live(o), pc'[o] = "publish" PROVE Forgotten(o)
      BY <1>a, <2>4, <3>1 DEF ReadLatch, PromiseInv, Forgotten
    <3>2. QED
      BY <1>a, <1>b, <1>c, <2>4, <3>1, PromiseKept DEF ReadLatch
  <2>5. CASE CascadeForget(o)
    <3>1. ASSUME NEW p \in Ops, latch'[target[p]] # latch[target[p]] PROVE Forgotten(p)'
      BY <1>a, <1>b, <1>d, <2>5, <3>1 DEF CascadeForget, DropRow, SetStatus, Forgotten, Exists,
                                          Lasting, TypeOK
    <3>2. Live(o) => Forgotten(o)'
      BY <1>a, <1>b, <1>d, <2>5 DEF CascadeForget, DropRow, SetStatus, Forgotten, Exists,
                                    Lasting, TypeOK
    <3>3. QED
      BY <1>a, <1>b, <2>5, <3>1, <3>2, PromiseKept DEF CascadeForget
  <2>6. CASE FinishFailed(o) \/ MarkError(o)
    BY <1>a, <1>b, <2>6, PromiseKept DEF FinishFailed, MarkError, Destroys
  <2>7. CASE ClearLatch(o)
    <3>1. ASSUME NEW p \in Ops \ {o}, target[p] = target[o] PROVE TookTheLatch(p, o)'
      BY <1>a, <1>b, <2>7, <3>1 DEF ClearLatch, TookTheLatch, KindInv, OriginInv, Destroys, Lasting
    <3>2. ASSUME NEW p \in Ops, p # o, latch'[target[p]] # latch[target[p]] PROVE Forgotten(p)'
      BY <1>a, <2>7, <3>1, <3>2 DEF ClearLatch, Forgotten
    <3>3. QED
      BY <1>a, <1>b, <2>7, <3>2, PromiseKept DEF ClearLatch, OriginInv
  <2>8. CASE Publish(o) \/ Unlock(o) \/ Deregister(o) \/ RunApp(o)
    BY <1>a, <1>b, <2>8, PromiseKept DEF Publish, Unlock, Deregister, RunApp, RowInv
  <2>9. QED
    BY <1>3, <2>1, <2>2, <2>3, <2>4, <2>5, <2>6, <2>7, <2>8 DEF Work
<1>4. ASSUME NEW o \in Ops, Arrive(o) PROVE PromiseInv'
  <2>1. PICK l \in HandlerPC : Admits(o, status[target[o]], l) /\ Goto(o, l)
    BY <1>4 DEF Arrive
  <2>2. kind[o] = "cascade" => pc'[o] \notin AwaitsForget \cup EndedPC
    BY <1>a, <2>1 DEF Admits, AdmitsJob, AdmitsDelete, AdmitsInitialize, AdmitsApp
  <2>3. QED
    BY <1>a, <1>b, <1>4, <2>1, <2>2, PromiseKept DEF Arrive
<1>5. ASSUME NEW o \in Ops, Disconnect(o) \/ AskCancel(o) \/ SignalCancel(o) PROVE PromiseInv'
    BY <1>a, <1>b, <1>5, PromiseKept DEF Disconnect, AskCancel, SignalCancel
<1>6. CASE Crash
    BY <1>a, <1>b, <1>6, PromiseKept DEF Crash
<1>7. CASE Recover
    BY <1>a, <1>b, <1>7, PromiseKept DEF Recover, RecoverRow, RecoverStatus, RecoverLatch, Serve, BootInv
<1>8. CASE UNCHANGED vars
    BY <1>a, <1>b, <1>8, PromiseKept DEF vars
<1>9. QED
    BY <1>1, <1>2, <1>3, <1>4, <1>5, <1>6, <1>7, <1>8 DEF Next

\* Where nothing has been asked yet, nothing was promised.
LEMMA CascadeInit == Init => OriginInv /\ PromiseInv
BY DEF Init, OriginInv, PromiseInv, CascadeForgets, AwaitsForget

\* A cascade that reports success has dropped the row of its cluster, unless
\* another DELETE took the latch, for any number of requests and restarts.
THEOREM CascadesForget == Spec => []CascadeForgets
<1>1. IInv /\ OriginInv /\ PromiseInv /\ [Next]_vars => OriginInv' /\ PromiseInv'
    BY OriginStep, PromiseStep DEF IInv
<1>2. PromiseInv => CascadeForgets
    BY DEF PromiseInv
<1>3. QED
    BY CascadeInit, <1>1, <1>2, Inductive, PTL DEF Spec
------------------------------------------------------------------------------
(* The refinement.  The owner of a cluster is the one request between        *)
(* TryLock and Unlock; taking and releasing the lock are Begin and End of    *)
(* SerialJobs, and only the owner touches VMs.                               *)

\* What Owner means: the holder where there is one, and NoOp elsewhere.
OwnerIsHolder ==
    \A c \in Clusters :
        /\ Owner(c) \in Ops \cup {NoOp}
        /\ \A o \in Ops : Owner(c) = o <=> Holds(o) /\ target[o] = c

\* LockOwnership makes the CHOOSE of Owner a choice of one.
LEMMA OwnerKnown == LockOwnership => OwnerIsHolder
BY NoOpAssumption DEF LockOwnership, OwnerIsHolder, Owner

\* The same in the next state.
LEMMA OwnerKnownNext == LockOwnership' => OwnerIsHolder'
BY OwnerKnown, PTL

\* A step that moves no lock and no VM is a stuttering step.
LEMMA Stutters ==
    ASSUME OwnerIsHolder, OwnerIsHolder', \A o \in Ops : Holds(o)' <=> Holds(o),
           UNCHANGED <<target, infra>>
    PROVE  UNCHANGED Serial!vars
<1>1. ASSUME NEW c \in Clusters PROVE Owner(c)' = Owner(c)
    BY NoOpAssumption DEF OwnerIsHolder
<1>2. QED
    BY <1>1 DEF Serial!vars

\* TryLock that succeeds is Begin.
LEMMA Begins ==
    ASSUME OwnerIsHolder, OwnerIsHolder', NEW h \in Ops, target[h] \in Clusters,
           ~Holds(h), Holds(h)', \A o \in Ops \ {h} : Holds(o)' <=> Holds(o),
           \A o \in Ops : Holds(o) => target[o] # target[h],
           UNCHANGED <<target, infra>>
    PROVE  Serial!Begin(target[h], h)
<1>1. Owner(target[h]) = NoOp /\ Owner(target[h])' = h
    BY NoOpAssumption DEF OwnerIsHolder
<1>2. ASSUME NEW c \in Clusters \ {target[h]} PROVE Owner(c)' = Owner(c)
    BY NoOpAssumption DEF OwnerIsHolder
<1>3. QED
    BY <1>1, <1>2 DEF Serial!Begin

\* Unlock is End.
LEMMA Ends ==
    ASSUME OwnerIsHolder, OwnerIsHolder', NEW h \in Ops, target[h] \in Clusters,
           Holds(h), ~Holds(h)', \A o \in Ops \ {h} : Holds(o)' <=> Holds(o),
           UNCHANGED <<target, infra>>
    PROVE  Serial!End(target[h])
<1>1. Owner(target[h]) = h /\ Owner(target[h])' = NoOp
    BY NoOpAssumption DEF OwnerIsHolder
<1>2. ASSUME NEW c \in Clusters \ {target[h]} PROVE Owner(c)' = Owner(c)
    BY NoOpAssumption, <1>1 DEF OwnerIsHolder
<1>3. QED
    BY <1>1, <1>2, NoOpAssumption DEF Serial!End

\* A terraform step of the holder is Touch.
LEMMA Touches ==
    ASSUME OwnerIsHolder, OwnerIsHolder', NEW h \in Ops, target[h] \in Clusters,
           Holds(h), \A o \in Ops : Holds(o)' <=> Holds(o), UNCHANGED target,
           NEW v \in InfraStates, infra' = [infra EXCEPT ![target[h]] = v]
    PROVE  Serial!Touch(target[h])
<1>1. Owner(target[h]) = h
    BY DEF OwnerIsHolder
<1>2. ASSUME NEW c \in Clusters PROVE Owner(c)' = Owner(c)
    BY NoOpAssumption DEF OwnerIsHolder
<1>3. QED
    BY <1>1, <1>2, NoOpAssumption DEF Serial!Touch

\* A restart takes every owner away, and changes VMs only where there was one.
LEMMA Restarts == ASSUME IInv, OwnerIsHolder, OwnerIsHolder', Crash PROVE Serial!Restart
<1>1. \A o \in Ops : ~Holds(o)'
    BY DEF Crash, Holds, LockedPC, WorkerPC
<1>2. ASSUME NEW c \in Clusters PROVE Owner(c)' = NoOp
    BY <1>1, NoOpAssumption DEF OwnerIsHolder
<1>3. ASSUME NEW c \in Clusters, Owner(c) = NoOp PROVE infra'[c] = infra[c]
  <2>1. \A o \in Ops : target[o] = c => pc[o] # "terraform"
    BY <1>3, NoOpAssumption DEF OwnerIsHolder, Holds, LockedPC, WorkerPC
  <2>2. QED
    BY <2>1 DEF Crash, LeftBehind
<1>4. infra' \in [Clusters -> InfraStates]
    BY DEF Crash
<1>5. QED
    BY <1>2, <1>3, <1>4 DEF Serial!Restart
------------------------------------------------------------------------------
\* Every step of the program is a step of SerialJobs or leaves its state alone.
LEMMA StepMaps == IInv /\ IInv' /\ [Next]_vars => [Serial!Next]_(Serial!vars)
<1> SUFFICES ASSUME IInv, IInv', [Next]_vars PROVE [Serial!Next]_(Serial!vars)
    OBVIOUS
<1> USE DEF Goto, process, rows, Holds, LockedPC, WorkerPC
<1>a. /\ OwnerIsHolder /\ OwnerIsHolder'
      /\ pc \in [Ops -> PCs] /\ target \in [Ops -> Clusters]
      /\ infra \in [Clusters -> InfraStates]
    BY OwnerKnown, OwnerKnownNext DEF IInv, TypeOK
<1>1. ASSUME NEW c \in Clusters, CreateCluster(c) PROVE UNCHANGED Serial!vars
    BY <1>a, <1>1, Stutters DEF CreateCluster
<1>2. ASSUME NEW o \in Ops, Handle(o) PROVE [Serial!Next]_(Serial!vars)
  <2>1. CASE SetLatch(o) \/ CheckAgain(o) \/ RollBackLatch(o)
    BY <1>a, <2>1, Stutters DEF SetLatch, CheckAgain, RollBackLatch
  <2>2. CASE TakeLock(o) /\ locked[target[o]]
    BY <1>a, <2>2, Stutters DEF TakeLock, Refused
  <2>3. CASE TakeLock(o) /\ ~locked[target[o]]
    <3>1. pc' = [pc EXCEPT ![o] = IF kind[o] = "app" THEN "apprun" ELSE "insert"]
      BY <2>3 DEF TakeLock
    <3>2. ~Holds(o) /\ Holds(o)' /\ \A p \in Ops \ {o} : Holds(p)' <=> Holds(p)
      BY <1>a, <2>3, <3>1 DEF TakeLock
    <3>3. \A p \in Ops : Holds(p) => target[p] # target[o]
      BY <1>a, <2>3 DEF IInv, LockOwnership
    <3>4. Serial!Begin(target[o], o)
      BY <1>a, <2>3, <3>2, <3>3, Begins DEF TakeLock
    <3>5. QED
      BY <1>a, <3>4 DEF Serial!Next
  <2>4. CASE InsertRow(o)
    BY <1>a, <2>4, Stutters DEF InsertRow
  <2>5. CASE InsertFails(o) \/ (MarkInFlight(o) /\ ~(Live(o) /\ Exists(target[o])))
    <3>1. Serial!End(target[o])
      BY <1>a, <2>5, Ends DEF InsertFails, MarkInFlight, Refused
    <3>2. QED
      BY <1>a, <3>1 DEF Serial!Next
  <2>6. CASE MarkInFlight(o) /\ Live(o) /\ Exists(target[o])
    BY <1>a, <2>6, Stutters DEF MarkInFlight
  <2>7. CASE Forget(o) \/ BeginInitialize(o) \/ EndInitialize(o)
    BY <1>a, <2>7, Stutters DEF Forget, BeginInitialize, EndInitialize
  <2>8. QED
    BY <1>2, <2>1, <2>2, <2>3, <2>4, <2>5, <2>6, <2>7 DEF Handle
<1>3. ASSUME NEW o \in Ops, Work(o) PROVE [Serial!Next]_(Serial!vars)
  <2>1. CASE Apply(o) \/ TearDown(o)
    <3>1. Serial!Touch(target[o])
      BY <1>a, <2>1, Touches DEF Apply, TearDown, InfraStates
    <3>2. QED
      BY <1>a, <3>1 DEF Serial!Next
  <2>2. CASE StepFails(o)
    <3>1. PICK left \in LeftBehind(o) : infra' = [infra EXCEPT ![target[o]] = left]
      BY <2>2 DEF StepFails, GivesUp
    <3>2. left \in InfraStates
      BY <1>a, <3>1 DEF LeftBehind, InfraStates
    <3>3. Serial!Touch(target[o])
      BY <1>a, <2>2, <3>1, <3>2, Touches DEF StepFails, GivesUp
    <3>4. QED
      BY <1>a, <3>3 DEF Serial!Next
  <2>3. CASE \/ Configure(o) \/ UpgradeNodes(o) \/ FinishSucceeded(o)
             \/ SettleStatus(o) \/ ReadLatch(o) \/ CascadeForget(o)
    BY <1>a, <2>3, Stutters DEF Configure, UpgradeNodes, FinishSucceeded, SettleStatus,
                                ReadLatch, CascadeForget
  <2>4. CASE FinishFailed(o) \/ MarkError(o) \/ ClearLatch(o) \/ Publish(o) \/ Deregister(o)
    BY <1>a, <2>4, Stutters DEF FinishFailed, MarkError, ClearLatch, Publish, Deregister
  <2>5. CASE Unlock(o) \/ RunApp(o)
    <3>1. Serial!End(target[o])
      BY <1>a, <2>5, Ends DEF Unlock, RunApp
    <3>2. QED
      BY <1>a, <3>1 DEF Serial!Next
  <2>6. QED
    BY <1>3, <2>1, <2>2, <2>3, <2>4, <2>5 DEF Work
<1>4. ASSUME NEW o \in Ops, Arrive(o) PROVE UNCHANGED Serial!vars
  <2>1. PICK l \in HandlerPC : Admits(o, status[target[o]], l) /\ Goto(o, l)
    BY <1>4 DEF Arrive
  <2>2. ~Holds(o) /\ ~Holds(o)'
    BY <1>a, <1>4, <2>1 DEF Arrive, Admits, AdmitsJob, AdmitsDelete, AdmitsInitialize, AdmitsApp
  <2>3. QED
    BY <1>a, <1>4, <2>1, <2>2, Stutters DEF Arrive
<1>5. ASSUME NEW o \in Ops, Disconnect(o) \/ AskCancel(o) \/ SignalCancel(o)
      PROVE  UNCHANGED Serial!vars
    BY <1>a, <1>5, Stutters DEF Disconnect, AskCancel, SignalCancel
<1>6. CASE Crash
    BY <1>a, <1>6, Restarts DEF Serial!Next
<1>7. CASE Recover
    BY <1>a, <1>7, Stutters DEF Recover, RecoverRow, RecoverStatus, RecoverLatch, Serve
<1>8. CASE UNCHANGED vars
    BY <1>a, <1>8, Stutters DEF vars
<1>9. QED
    BY <1>1, <1>2, <1>3, <1>4, <1>5, <1>6, <1>7, <1>8 DEF Next

\* An idle process is one without owners.
LEMMA InitMaps == Init => Serial!Init
<1> SUFFICES ASSUME Init PROVE Serial!Init
    OBVIOUS
<1>1. \A c \in Clusters : Owner(c) = NoOp
    BY DEF Init, Owner, Holds, LockedPC, WorkerPC
<1>2. infra \in [Clusters -> InfraStates]
    BY TypeInit DEF TypeOK
<1>3. QED
    BY <1>1, <1>2 DEF Serial!Init

\* Requests, goroutines, mutex and recovery implement serialised jobs, for any
\* number of clusters, requests and restarts.
THEOREM Implements == Spec => ImplementsSerialJobs
<1>1. IInv /\ IInv' /\ [Next]_vars => [Serial!Next]_(Serial!vars)
    BY StepMaps
<1>2. QED
    BY InitMaps, <1>1, Inductive, PTL DEF Spec, ImplementsSerialJobs, Serial!Spec
==============================================================================
