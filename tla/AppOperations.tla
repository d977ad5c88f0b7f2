---------------------------- MODULE AppOperations ----------------------------
(***************************************************************************)
(* Helm operations on one cluster: install, upgrade, uninstall and the     *)
(* bundle install with its reverse-order rollback                          *)
(* (api/internal/apps/executor.go, bundle.go), the apps_installs rows      *)
(* (store.go) and the cache of the release list (handlers.go).             *)
(*                                                                         *)
(* One element of Ops is one accepted HTTP request with its goroutine; a   *)
(* request that finds the cluster busy is answered 409 and changes         *)
(* nothing.  A single-chart operation is a list of one choice.  helm       *)
(* itself is external: it knows each release as absent, deployed or        *)
(* failed.                                                                 *)
(***************************************************************************)
EXTENDS Naturals, Sequences

CONSTANTS Ops,          \* requests (bound: how many are accepted)
          NoOp,         \* "no request"
          Readers,      \* GET .../apps/releases requests that miss the cache (bound)
          Releases,     \* release names
          Requests,     \* what a request may ask for
          Stored,       \* what helm may know when the behaviour starts
          NoList,       \* "no list of releases"
          MaxCrashes    \* bound: how often the API process is restarted

OpKinds  == {"install", "upgrade", "uninstall", "bundle"}
Choice   == [release : Releases, skip : BOOLEAN]
States   == {"absent", "deployed", "failed"}
Lists    == [Releases -> States]
Outcomes == {"not_attempted", "skipped", "succeeded", "failed", "rolled_back"}

ASSUME RequestsAssumption ==
    \A q \in Requests :
        /\ q.kind \in OpKinds
        /\ q.choices \in Seq(Choice)
        /\ q.choices # <<>>
        /\ q.kind # "bundle" => Len(q.choices) = 1 /\ ~q.choices[1].skip
ASSUME StoredAssumption == Stored \subseteq Lists
ASSUME NullAssumption   == NoOp \notin Ops /\ NoList \notin Lists
ASSUME CrashAssumption  == MaxCrashes \in Nat

VARIABLES
    request,    \* request[o] (never changes)
    pc,         \* pc[o]: the next operation of request o's goroutine
    at,         \* at[o]: the chart o is at
    outcomes,   \* outcomes[o]: the outcome of each chart, for the audit row
    logged,     \* logged[o]: releases whose rollback failed, told in the log only
    before,     \* the releases when the lock was last taken (history variable)
    row,        \* apps_installs.status of o
    answer,     \* the handler of o: "none", "pending" (row inserted), "sent"
    locked,     \* the cluster's mutex
    releases,   \* what helm knows on the cluster
    cached,     \* the release cache
    coming,     \* readers that are still to come
    listing,    \* listing[d]: what helm told reader d, not yet in the cache
    crashes     \* restarts so far

cache == <<cached, coming, listing>>
vars  == <<request, pc, at, outcomes, logged, before, row, answer, locked,
           releases, cached, coming, listing, crashes>>
------------------------------------------------------------------------------
Choices(o) == request[o].choices
Charts(o)  == DOMAIN Choices(o)
Goto(o, l) == pc' = [pc EXCEPT ![o] = l]

LockedPC == {"insert", "chart", "rollback", "unlock"}
Holds(o) == pc[o] \in LockedPC

\* In which state helm can do what it is asked, and what is there afterwards;
\* upgrade runs with --install, install refuses a name in use.
CanDo(k, s)  == IF k = "uninstall" THEN s # "absent"
                ELSE k = "upgrade" \/ s = "absent"
Done(k)      == IF k = "uninstall" THEN "absent" ELSE "deployed"

\* What a helm that fails may leave behind.
FailsTo(k, s) ==
    {s} \cup (IF k = "uninstall"
              THEN IF s = "absent" THEN {} ELSE {"failed", "absent"}
              ELSE IF k = "upgrade" \/ s = "absent" THEN {"failed"} ELSE {})

SetRelease(r, s) == releases' = [releases EXCEPT ![r] = s]

\* The outcomes before the first chart: those that will be skipped are known.
Seed(o) == [i \in Charts(o) |-> IF Choices(o)[i].skip THEN "skipped" ELSE "not_attempted"]

Init ==
    /\ request \in [Ops -> Requests]
    /\ pc = [o \in Ops |-> "new"]
    /\ at = [o \in Ops |-> 1]
    /\ outcomes = [o \in Ops |-> Seed(o)]
    /\ logged = [o \in Ops |-> {}]
    /\ releases \in Stored
    /\ before = releases
    /\ row = [o \in Ops |-> "none"]
    /\ answer = [o \in Ops |-> "none"]
    /\ locked = FALSE
    /\ cached = NoList
    /\ coming = Readers
    /\ listing = [d \in Readers |-> NoList]
    /\ crashes = 0
------------------------------------------------------------------------------
(* The front half: run, Uninstall and InstallBundle.                        *)

\* TryLock without its test.
TakeLockBlindly(o) ==
    /\ pc[o] = "new"
    /\ locked' = TRUE
    /\ before' = releases
    /\ Goto(o, "insert")
    /\ UNCHANGED <<request, at, outcomes, logged, row, answer, releases, cache, crashes>>

TakeLock(o) ==
    /\ pc[o] = "new"
    /\ ~locked
    /\ locked' = TRUE
    /\ before' = releases
    /\ Goto(o, "insert")
    /\ UNCHANGED <<request, at, outcomes, logged, row, answer, releases, cache, crashes>>

\* CreateInstall, the goroutine is started, and the handler can answer.
InsertRow(o) ==
    /\ pc[o] = "insert"
    /\ row' = [row EXCEPT ![o] = "running"]
    /\ answer' = [answer EXCEPT ![o] = "pending"]
    /\ Goto(o, "chart")
    /\ UNCHANGED <<request, at, outcomes, logged, before, locked, releases, cache, crashes>>

\* A failed insert that forgets to unlock.
InsertFailsLocked(o) ==
    /\ pc[o] = "insert"
    /\ Goto(o, "done")
    /\ UNCHANGED <<request, at, outcomes, logged, before, row, answer, locked,
                   releases, cache, crashes>>

\* No log file, or no row (client gone, cluster gone): unlock and return.
InsertFails(o) ==
    /\ pc[o] = "insert"
    /\ locked' = FALSE
    /\ Goto(o, "done")
    /\ UNCHANGED <<request, at, outcomes, logged, before, row, answer, releases, cache, crashes>>

\* The handler drops the cached list and answers 202, at any time after the
\* goroutine was started.
Invalidate(o) ==
    /\ answer[o] = "pending"
    /\ answer' = [answer EXCEPT ![o] = "sent"]
    /\ cached' = NoList
    /\ UNCHANGED <<request, pc, at, outcomes, logged, before, row, locked,
                   releases, coming, listing, crashes>>
------------------------------------------------------------------------------
(* The goroutine: runInstallOrUpgrade, runUninstall and runBundleInstall.   *)

\* An exit that does not go through finish().
ConnectReturns(o) ==
    /\ pc[o] = "chart"
    /\ at[o] = 1
    /\ Goto(o, "unlock")
    /\ UNCHANGED <<request, at, outcomes, logged, before, row, answer, locked,
                   releases, cache, crashes>>

\* "helm unavailable": there is no kubeconfig for the cluster.
ConnectFails(o) ==
    /\ pc[o] = "chart"
    /\ at[o] = 1
    /\ row' = [row EXCEPT ![o] = "failed"]
    /\ Goto(o, "unlock")
    /\ UNCHANGED <<request, at, outcomes, logged, before, answer, locked,
                   releases, cache, crashes>>

SkipChart(o) ==
    /\ pc[o] = "chart"
    /\ at[o] \in Charts(o)
    /\ Choices(o)[at[o]].skip
    /\ at' = [at EXCEPT ![o] = @ + 1]
    /\ UNCHANGED <<request, pc, outcomes, logged, before, row, answer, locked,
                   releases, cache, crashes>>

AtChart(o) == /\ pc[o] = "chart"
              /\ at[o] \in Charts(o)
              /\ ~Choices(o)[at[o]].skip

ChartSucceeds(o) ==
    /\ AtChart(o)
    /\ LET r == Choices(o)[at[o]].release
           k == request[o].kind
       IN  CanDo(k, releases[r]) /\ SetRelease(r, Done(k))
    /\ outcomes' = [outcomes EXCEPT ![o][at[o]] = "succeeded"]
    /\ at' = [at EXCEPT ![o] = @ + 1]
    /\ UNCHANGED <<request, pc, logged, before, row, answer, locked, cache, crashes>>

\* helm fails (or the values file cannot be written); only a bundle has
\* charts to roll back then.
ChartFails(o) ==
    /\ AtChart(o)
    /\ LET r == Choices(o)[at[o]].release
       IN  \E s \in FailsTo(request[o].kind, releases[r]) : SetRelease(r, s)
    /\ outcomes' = [outcomes EXCEPT ![o][at[o]] = "failed"]
    /\ Goto(o, "rollback")
    /\ UNCHANGED <<request, at, logged, before, row, answer, locked, cache, crashes>>

\* A rollback that walks the request instead of the charts it installed.
InstalledOrSkipped(o) ==
    {i \in Charts(o) : i < at[o] /\ outcomes[o][i] \in {"succeeded", "skipped"}}

\* The charts rollbackInstalled has still to uninstall, and the next one.
Installed(o) == {i \in Charts(o) : i < at[o] /\ outcomes[o][i] = "succeeded"}

Undoing(o, i) == /\ pc[o] = "rollback"
                 /\ i \in Installed(o)
                 /\ \A j \in Installed(o) : j <= i
                 /\ at' = [at EXCEPT ![o] = i]

Undo(o) ==
    /\ \E i \in Charts(o) :
          /\ Undoing(o, i)
          /\ LET r == Choices(o)[i].release
             IN  CanDo("uninstall", releases[r]) /\ SetRelease(r, Done("uninstall"))
    /\ UNCHANGED <<request, pc, outcomes, logged, before, row, answer, locked, cache, crashes>>

\* An uninstall that fails is logged and the rollback goes on.
UndoFails(o) ==
    /\ \E i \in Charts(o) :
          /\ Undoing(o, i)
          /\ LET r == Choices(o)[i].release
             IN  /\ \E s \in FailsTo("uninstall", releases[r]) : SetRelease(r, s)
                 /\ logged' = [logged EXCEPT ![o] = @ \cup {r}]
    /\ UNCHANGED <<request, pc, outcomes, before, row, answer, locked, cache, crashes>>

\* finish(): FinishInstall and the terminal audit row, with a background context.
RecordSuccess(o) ==
    /\ pc[o] = "chart"
    /\ at[o] > Len(Choices(o))
    /\ row' = [row EXCEPT ![o] = "succeeded"]
    /\ Goto(o, "unlock")
    /\ UNCHANGED <<request, at, outcomes, logged, before, answer, locked,
                   releases, cache, crashes>>

RollbackEnds(o) ==
    /\ pc[o] = "rollback"
    /\ Installed(o) = {}
    /\ row' = [row EXCEPT ![o] = "failed"]
    /\ Goto(o, "unlock")
    /\ UNCHANGED <<request, at, logged, before, answer, locked, releases, cache, crashes>>

Marked(o) == [i \in Charts(o) |-> IF outcomes[o][i] = "succeeded" THEN "rolled_back"
                                 ELSE outcomes[o][i]]

\* markRolledBack takes the rollback for done, then finish().
RecordFailure(o) == RollbackEnds(o) /\ outcomes' = [outcomes EXCEPT ![o] = Marked(o)]

\* The deferred Unlock; the goroutine's variables end with it.
Unlock(o) ==
    /\ pc[o] = "unlock"
    /\ locked' = FALSE
    /\ Goto(o, "done")
    /\ at' = [at EXCEPT ![o] = 1]
    /\ outcomes' = [outcomes EXCEPT ![o] = Seed(o)]
    /\ logged' = [logged EXCEPT ![o] = {}]
    /\ UNCHANGED <<request, before, row, answer, releases, cache, crashes>>
------------------------------------------------------------------------------
(* GET /api/clusters/{id}/apps/releases.  A cache hit changes nothing.      *)
ListReleases(d) ==
    /\ d \in coming
    /\ cached = NoList
    /\ coming' = coming \ {d}
    /\ listing' = [listing EXCEPT ![d] = releases]
    /\ UNCHANGED <<request, pc, at, outcomes, logged, before, row, answer, locked,
                   releases, cached, crashes>>

PutList(d) ==
    /\ listing[d] # NoList
    /\ cached' = listing[d]
    /\ listing' = [listing EXCEPT ![d] = NoList]
    /\ UNCHANGED <<request, pc, at, outcomes, logged, before, row, answer, locked,
                   releases, coming, crashes>>

\* The entry is older than releasesCacheTTL.
Expire ==
    /\ cached # NoList
    /\ cached' = NoList
    /\ UNCHANGED <<request, pc, at, outcomes, logged, before, row, answer, locked,
                   releases, coming, listing, crashes>>

------------------------------------------------------------------------------
\* What the helm process that o runs may leave of release r when it is killed.
Touches(o, r) ==
    \/ AtChart(o) /\ r = Choices(o)[at[o]].release
    \/ \E i \in Installed(o) : pc[o] = "rollback" /\ r = Choices(o)[i].release
                               /\ \A j \in Installed(o) : j <= i

Killed(o, r) ==
    LET k == IF pc[o] = "rollback" THEN "uninstall" ELSE request[o].kind
    IN  FailsTo(k, releases[r]) \cup (IF CanDo(k, releases[r]) THEN {Done(k)} ELSE {})

\* The API process dies with its goroutines, mutexes and caches.  Nothing
\* looks at apps_installs when the next one starts.
Crash ==
    /\ crashes < MaxCrashes
    /\ crashes' = crashes + 1
    /\ \E left \in Lists :
          /\ \A r \in Releases :
                \/ left[r] = releases[r]
                \/ \E o \in Ops : Touches(o, r) /\ left[r] \in Killed(o, r)
          /\ releases' = left
    /\ pc' = [o \in Ops |-> IF Holds(o) THEN "killed" ELSE pc[o]]
    /\ answer' = [o \in Ops |-> IF answer[o] = "pending" THEN "none" ELSE answer[o]]
    /\ at' = [o \in Ops |-> 1]
    /\ outcomes' = [o \in Ops |-> Seed(o)]
    /\ logged' = [o \in Ops |-> {}]
    /\ locked' = FALSE
    /\ cached' = NoList
    /\ listing' = [d \in Readers |-> NoList]
    /\ UNCHANGED <<request, before, row, coming>>

Work(o) ==
    \/ InsertRow(o) \/ InsertFails(o) \/ ConnectFails(o)
    \/ SkipChart(o) \/ ChartSucceeds(o) \/ ChartFails(o) \/ RecordSuccess(o)
    \/ Undo(o) \/ UndoFails(o) \/ RecordFailure(o) \/ Unlock(o)

Next ==
    \/ \E o \in Ops : TakeLock(o) \/ Work(o) \/ Invalidate(o)
    \/ \E d \in Readers : ListReleases(d) \/ PutList(d)
    \/ Expire
    \/ Crash

Spec == Init /\ [][Next]_vars

\* Every helm process ends (install and upgrade have --timeout), and Go
\* schedules the goroutine that waits for it.
FairSpec == Spec /\ \A o \in Ops : WF_vars(Work(o))
------------------------------------------------------------------------------
(* Properties.                                                              *)

TypeOK ==
    /\ request \in [Ops -> Requests]
    /\ pc \in [Ops -> LockedPC \cup {"new", "done", "killed"}]
    /\ at \in [Ops -> Nat]
    /\ \A o \in Ops : outcomes[o] \in [Charts(o) -> Outcomes]
    /\ logged \in [Ops -> SUBSET Releases]
    /\ before \in Lists
    /\ row \in [Ops -> {"none", "running", "succeeded", "failed"}]
    /\ answer \in [Ops -> {"none", "pending", "sent"}]
    /\ locked \in BOOLEAN
    /\ releases \in Lists
    /\ cached \in Lists \cup {NoList}
    /\ coming \subseteq Readers
    /\ listing \in [Readers -> Lists \cup {NoList}]
    /\ crashes \in Nat

Ended(o, status) == pc[o] = "unlock" /\ row[o] = status

\* When an operation records "succeeded", every chart it did not skip is in
\* the state it was asked for, and no other release has changed since it took
\* the lock: one operation's success is never another one's doing.
SuccessIsReal ==
    \A o \in Ops : Ended(o, "succeeded") =>
        \A r \in Releases :
            releases[r] = IF \E i \in Charts(o) : /\ ~Choices(o)[i].skip
                                                  /\ Choices(o)[i].release = r
                          THEN Done(request[o].kind)
                          ELSE before[r]

\* A bundle that fails puts the cluster back as it was: releases that existed
\* before are untouched, and of the new ones only the failed chart itself and
\* those whose failed rollback is in the log may be left.
FailedBundleRestores ==
    \A o \in Ops : Ended(o, "failed") /\ request[o].kind = "bundle" =>
        \A r \in Releases :
            \/ releases[r] = before[r]
            \/ /\ before[r] = "absent"
               /\ \/ r \in logged[o]
                  \/ \E i \in Charts(o) : /\ outcomes[o][i] = "failed"
                                          /\ Choices(o)[i].release = r

\* The audit row of a bundle tells its story in order: all charts succeeded or
\* skipped; or none attempted; or one failed, with everything before it rolled
\* back and nothing after it attempted.
OutcomesTellTheStory ==
    \A o \in Ops : request[o].kind = "bundle" =>
        /\ Ended(o, "succeeded") =>
             \A i \in Charts(o) : outcomes[o][i] \in {"succeeded", "skipped"}
        /\ Ended(o, "failed") =>
             \/ outcomes[o] = Seed(o)
             \/ \E f \in Charts(o) :
                   /\ outcomes[o][f] = "failed"
                   /\ \A i \in Charts(o) :
                        /\ i < f => outcomes[o][i] \in {"rolled_back", "skipped"}
                        /\ i > f => outcomes[o][i] \in {"not_attempted", "skipped"}

\* An apps_installs row that says "running" has a goroutine at work on it, or
\* had one when the process was killed (no recovery ends it then).
RunningInstallExplained ==
    \A o \in Ops : row[o] = "running" => Holds(o) \/ pc[o] = "killed"

Owner == IF \E o \in Ops : Holds(o) THEN CHOOSE o \in Ops : Holds(o) ELSE NoOp

Serial == INSTANCE SerialJobs WITH Clusters <- {"cluster"},
                                   owner <- [c \in {"cluster"} |-> Owner],
                                   vms <- [c \in {"cluster"} |-> releases],
                                   VMStates <- Lists

\* Helm operations are serialised jobs, like deployments, with the releases of
\* the cluster in the place of its VMs.
ImplementsSerialJobs == Serial!Spec

\* Whatever fails in an operation, its rollback included, the cluster's mutex
\* is free again later; with RunningInstallExplained, every row that says
\* "running" then ends, but for those of a killed process.
LockReleased == locked ~> ~locked
------------------------------------------------------------------------------
(* What a comment says, and the code does not do.                           *)

\* handlers.go:69-72: the cache is used "to drop stale cache rows after a
\* successful operation"; it is dropped when the operation is accepted.
FreshListAfterOperation ==
    \A o \in Ops : pc[o] = "done" /\ row[o] = "succeeded" /\ answer[o] = "sent" /\ ~locked =>
        cached \in {NoList, releases}
==============================================================================
