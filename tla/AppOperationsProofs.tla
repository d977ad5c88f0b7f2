------------------------- MODULE AppOperationsProofs --------------------------
(***************************************************************************)
(* The safety properties of AppOperations, for every number of operations, *)
(* releases, charts of a bundle, readers and restarts, and that helm       *)
(* operations are serialised jobs.                                         *)
(***************************************************************************)
EXTENDS AppOperations, TLAPS

Wanted(o, i)  == i \in Charts(o) /\ ~Choices(o)[i].skip
Release(o, i) == Choices(o)[i].release

\* The mutex is locked while somebody holds it, and nobody else does.
MutexInv ==
    /\ \A o \in Ops : Holds(o) => locked
    /\ locked => \E o \in Ops : Holds(o)
    /\ \A o, p \in Ops : Holds(o) /\ Holds(p) => o = p

\* Where the row and the answer of a request stand.
RowInv ==
    \A o \in Ops :
        /\ row[o] = "running" => pc[o] \in {"chart", "rollback", "killed"}
        /\ pc[o] \in {"chart", "rollback"} => row[o] = "running"
        /\ pc[o] \in {"new", "insert"} => row[o] = "none"

\* Before an operation comes to its charts, and when it has none to undo.
EarlyInv ==
    \A o \in Ops :
        /\ at[o] >= 1
        /\ pc[o] \in {"new", "insert"} => at[o] = 1
        /\ pc[o] \in {"new", "insert"} => outcomes[o] = Seed(o)
        /\ pc[o] = "insert" => releases = before

\* While the charts are taken in turn, those before the present one are done,
\* and all else is as it was.
ChartOK(o) == pc[o] = "chart" =>
    /\ at[o] <= Len(Choices(o)) + 1
    /\ \A i \in Charts(o) :
          outcomes[o][i] = IF Wanted(o, i) /\ i < at[o] THEN "succeeded" ELSE Seed(o)[i]
    /\ \A r \in Releases :
          releases[r] = IF \E i \in Charts(o) : i < at[o] /\ Wanted(o, i) /\ Release(o, i) = r
                        THEN Done(request[o].kind)
                        ELSE before[r]
    /\ request[o].kind = "bundle" =>
          \A i \in Charts(o) : i < at[o] /\ Wanted(o, i) => before[Release(o, i)] = "absent"

\* The chart a rollback began at.
FailedAt(o, f) ==
    /\ Wanted(o, f)
    /\ at[o] <= f
    /\ \A i \in Charts(o) :
          outcomes[o][i] = IF i = f THEN "failed"
                           ELSE IF Wanted(o, i) /\ i < f THEN "succeeded" ELSE Seed(o)[i]

\* A release is as it was, or it is new and still to be undone, or its undoing is
\* known to have failed, or it is that of the failed chart.
Restored(o, f, r) ==
    \/ releases[r] = before[r]
    \/ /\ before[r] = "absent"
       /\ \/ r \in logged[o]
          \/ r = Release(o, f)
          \/ \E i \in Charts(o) : i < at[o] /\ Wanted(o, i) /\ Release(o, i) = r

RollbackOK(o) == pc[o] = "rollback" =>
    \E f \in Charts(o) :
        /\ FailedAt(o, f)
        /\ request[o].kind = "bundle" =>
             /\ \A i \in Charts(o) : i < f /\ Wanted(o, i) => before[Release(o, i)] = "absent"
             /\ \A r \in Releases : Restored(o, f, r)

\* The three properties, of one operation.
SuccessOK(o) == Ended(o, "succeeded") =>
    \A r \in Releases :
        releases[r] = IF \E i \in Charts(o) : Wanted(o, i) /\ Release(o, i) = r
                      THEN Done(request[o].kind)
                      ELSE before[r]

FailureOK(o) == Ended(o, "failed") /\ request[o].kind = "bundle" =>
    \A r \in Releases :
        \/ releases[r] = before[r]
        \/ /\ before[r] = "absent"
           /\ \/ r \in logged[o]
              \/ \E i \in Charts(o) : outcomes[o][i] = "failed" /\ Release(o, i) = r

StoryOK(o) == request[o].kind = "bundle" =>
    /\ Ended(o, "succeeded") => \A i \in Charts(o) : outcomes[o][i] \in {"succeeded", "skipped"}
    /\ Ended(o, "failed") =>
         \/ outcomes[o] = Seed(o)
         \/ \E f \in Charts(o) :
               /\ outcomes[o][f] = "failed"
               /\ \A i \in Charts(o) :
                    /\ i < f => outcomes[o][i] \in {"rolled_back", "skipped"}
                    /\ i > f => outcomes[o][i] \in {"not_attempted", "skipped"}

EndOK(o) == SuccessOK(o) /\ FailureOK(o) /\ StoryOK(o)

JobOK(o) == ChartOK(o) /\ RollbackOK(o) /\ EndOK(o)

\* What TypeOK does not say of a function it describes value by value.
Shape == outcomes = [o \in Ops |-> outcomes[o]]

Inv == TypeOK /\ Shape /\ MutexInv /\ RowInv /\ EarlyInv /\ \A o \in Ops : JobOK(o)
------------------------------------------------------------------------------
\* What the assumption on requests says of one of them.
LEMMA RequestShape ==
    ASSUME request \in [Ops -> Requests], NEW o \in Ops
    PROVE  /\ request[o].kind \in OpKinds
           /\ Choices(o) \in Seq(Choice)
           /\ Len(Choices(o)) \in Nat \ {0}
           /\ Charts(o) = 1 .. Len(Choices(o))
           /\ \A i \in Charts(o) : Release(o, i) \in Releases /\ Choices(o)[i].skip \in BOOLEAN
           /\ request[o].kind # "bundle" => Len(Choices(o)) = 1 /\ ~Choices(o)[1].skip
<1>1. request[o].kind \in OpKinds /\ Choices(o) \in Seq(Choice) /\ Choices(o) # <<>>
  BY RequestsAssumption DEF Choices
<1>2. Len(Choices(o)) \in Nat \ {0} /\ Charts(o) = 1 .. Len(Choices(o))
  BY <1>1 DEF Charts
<1>3. \A i \in Charts(o) : Choices(o)[i] \in Choice
  BY <1>1, <1>2
<1>4. \A i \in Charts(o) : Release(o, i) \in Releases /\ Choices(o)[i].skip \in BOOLEAN
  BY <1>3 DEF Choice, Release
<1>5. request[o].kind # "bundle" => Len(Choices(o)) = 1 /\ ~Choices(o)[1].skip
  BY RequestsAssumption DEF Choices
<1> QED
  BY <1>1, <1>2, <1>4, <1>5

\* The outcomes before the first chart have their type.
LEMMA SeedType ==
    ASSUME request \in [Ops -> Requests], NEW o \in Ops
    PROVE  /\ Seed(o) \in [Charts(o) -> Outcomes]
           /\ \A i \in Charts(o) : Seed(o)[i] \in {"skipped", "not_attempted"}
BY DEF Seed, Outcomes

\* What an operation may make of a release is a state of a release.
LEMMA HelmStates ==
    ASSUME NEW k, NEW s \in States
    PROVE  Done(k) \in States /\ FailsTo(k, s) \subseteq States
BY DEF Done, FailsTo, States
------------------------------------------------------------------------------
\* A process that has just started satisfies the invariant.
LEMMA InvInit == Init => Inv
<1> SUFFICES ASSUME Init PROVE Inv
  OBVIOUS
<1>1. request \in [Ops -> Requests]
  BY DEF Init
<1>2. releases \in Lists /\ before = releases
  BY StoredAssumption DEF Init
<1>3. \A o \in Ops : outcomes[o] = Seed(o) /\ pc[o] = "new" /\ at[o] = 1 /\ row[o] = "none"
  BY DEF Init
<1>4. TypeOK
  <2>1. \A o \in Ops : outcomes[o] \in [Charts(o) -> Outcomes]
    BY <1>1, <1>3, SeedType
  <2> QED
    BY <1>1, <1>2, <2>1, CrashAssumption DEF Init, TypeOK, LockedPC
<1>5. Shape /\ MutexInv /\ RowInv /\ EarlyInv
  BY <1>3 DEF Init, Shape, MutexInv, RowInv, EarlyInv, Holds, LockedPC
<1>6. \A o \in Ops : JobOK(o)
  BY <1>3 DEF JobOK, ChartOK, RollbackOK, EndOK, SuccessOK, FailureOK, StoryOK, Ended
<1> QED
  BY <1>4, <1>5, <1>6 DEF Inv

\* The variables keep their types.
LEMMA TypeStep == Inv /\ [Next]_vars => TypeOK' /\ Shape'
<1> SUFFICES ASSUME Inv, [Next]_vars PROVE TypeOK' /\ Shape'
  OBVIOUS
<1> USE DEF Inv, TypeOK, Shape, Goto, LockedPC, cache
<1>0. ASSUME NEW o \in Ops, request' = request
      PROVE  Charts(o)' = Charts(o) /\ Seed(o)' = Seed(o) /\ Seed(o) \in [Charts(o) -> Outcomes]
  BY <1>0, SeedType DEF Charts, Choices, Seed
<1>1. ASSUME NEW o \in Ops, TakeLock(o) \/ InsertRow(o) \/ InsertFails(o) \/ ConnectFails(o)
                            \/ Invalidate(o)
      PROVE  TypeOK' /\ Shape'
  BY <1>0, <1>1 DEF TakeLock, InsertRow, InsertFails, ConnectFails, Invalidate
<1>2. ASSUME NEW o \in Ops, SkipChart(o) \/ RecordSuccess(o) PROVE TypeOK' /\ Shape'
  <2>1. at' \in [Ops -> Nat]
    BY <1>2 DEF SkipChart, RecordSuccess
  <2>2. row' \in [Ops -> {"none", "running", "succeeded", "failed"}]
    BY <1>2 DEF SkipChart, RecordSuccess
  <2>3. pc' \in [Ops -> LockedPC \cup {"new", "done", "killed"}]
    BY <1>2 DEF SkipChart, RecordSuccess
  <2>4. UNCHANGED <<request, outcomes, logged, before, answer, locked, releases, cache, crashes>>
    BY <1>2 DEF SkipChart, RecordSuccess
  <2> QED
    BY <1>0, <2>1, <2>2, <2>3, <2>4
<1>3. ASSUME NEW o \in Ops, NEW r \in Releases, NEW s \in States, SetRelease(r, s)
      PROVE  releases' \in Lists
  BY <1>3 DEF SetRelease, Lists
<1>4. ASSUME NEW o \in Ops, NEW i \in Charts(o), NEW s \in Outcomes, request' = request,
             outcomes' = [outcomes EXCEPT ![o][i] = s]
      PROVE  Shape' /\ \A p \in Ops : outcomes'[p] \in [Charts(p)' -> Outcomes]
  <2>1. outcomes' = [outcomes EXCEPT ![o] = [outcomes[o] EXCEPT ![i] = s]]
    BY <1>4
  <2>2. [outcomes[o] EXCEPT ![i] = s] \in [Charts(o) -> Outcomes]
    OBVIOUS
  <2> QED
    BY <1>0, <1>4, <2>1, <2>2
<1>5. ASSUME NEW o \in Ops, ChartSucceeds(o) PROVE TypeOK' /\ Shape'
  <2>1. at[o] \in Charts(o) /\ Release(o, at[o]) \in Releases
    BY <1>5, RequestShape DEF ChartSucceeds, AtChart
  <2>2. releases' \in Lists
    BY <1>3, <1>5, <2>1, HelmStates DEF ChartSucceeds, Release, Done, States
  <2>3. Shape' /\ \A p \in Ops : outcomes'[p] \in [Charts(p)' -> Outcomes]
    BY <1>4, <1>5, <2>1 DEF ChartSucceeds, Outcomes
  <2> QED
    BY <1>5, <2>2, <2>3 DEF ChartSucceeds
<1>6. ASSUME NEW o \in Ops, ChartFails(o) PROVE TypeOK' /\ Shape'
  <2>1. at[o] \in Charts(o) /\ Release(o, at[o]) \in Releases
    BY <1>6, RequestShape DEF ChartFails, AtChart
  <2>2. PICK s \in FailsTo(request[o].kind, releases[Release(o, at[o])]) :
          SetRelease(Release(o, at[o]), s)
    BY <1>6 DEF ChartFails, Release
  <2>3. releases' \in Lists
    BY <1>3, <2>1, <2>2, HelmStates DEF Lists
  <2>4. Shape' /\ \A p \in Ops : outcomes'[p] \in [Charts(p)' -> Outcomes]
    BY <1>4, <1>6, <2>1 DEF ChartFails, Outcomes
  <2> QED
    BY <1>6, <2>3, <2>4 DEF ChartFails
<1>7. ASSUME NEW o \in Ops, Undo(o) \/ UndoFails(o) PROVE TypeOK' /\ Shape'
  <2>1. PICK i \in Charts(o) : Undoing(o, i) /\ \E s \in States : SetRelease(Release(o, i), s)
    <3>1. CASE Undo(o)
      BY <3>1 DEF Undo, Release, Done, States
    <3>2. CASE UndoFails(o)
      <4>1. PICK i \in Charts(o) :
              /\ Undoing(o, i)
              /\ \E s \in FailsTo("uninstall", releases[Release(o, i)]) : SetRelease(Release(o, i), s)
        BY <3>2 DEF UndoFails, Release
      <4>2. FailsTo("uninstall", releases[Release(o, i)]) \subseteq States
        BY <4>1, HelmStates, RequestShape DEF Lists
      <4> QED
        BY <4>1, <4>2
    <3> QED
      BY <1>7, <3>1, <3>2
  <2>2. i \in Nat /\ Release(o, i) \in Releases
    BY <2>1, RequestShape
  <2>3. releases' \in Lists /\ at' \in [Ops -> Nat]
    BY <1>3, <2>1, <2>2 DEF Undoing
  <2>4. logged' \in [Ops -> SUBSET Releases]
    <3>1. CASE Undo(o)
      BY <3>1 DEF Undo
    <3>2. CASE UndoFails(o)
      <4>1. PICK i2 \in Charts(o) : logged' = [logged EXCEPT ![o] = @ \cup {Release(o, i2)}]
        BY <3>2 DEF UndoFails, Release
      <4> QED
        BY <4>1, RequestShape
    <3> QED
      BY <1>7, <3>1, <3>2
  <2> QED
    BY <1>0, <1>7, <2>3, <2>4 DEF Undo, UndoFails
<1>8. ASSUME NEW o \in Ops, RecordFailure(o) \/ Unlock(o) PROVE TypeOK' /\ Shape'
  <2>1. Marked(o) \in [Charts(o) -> Outcomes]
    BY DEF Marked, Outcomes
  <2>2. CASE RecordFailure(o)
    BY <1>0, <2>1, <2>2 DEF RecordFailure, RollbackEnds
  <2>3. CASE Unlock(o)
    BY <1>0, <2>3 DEF Unlock
  <2> QED
    BY <1>8, <2>2, <2>3
<1>9. ASSUME NEW d \in Readers, ListReleases(d) \/ PutList(d) PROVE TypeOK' /\ Shape'
  BY <1>0, <1>9 DEF ListReleases, PutList
<1>10. CASE Expire
  BY <1>0, <1>10 DEF Expire
<1>11. CASE Crash
  <2>1. releases' \in Lists /\ UNCHANGED <<request, before, row, coming>> /\ crashes' = crashes + 1
    BY <1>11 DEF Crash
  <2>2. outcomes' = [o \in Ops |-> Seed(o)] /\ at' = [o \in Ops |-> 1]
    BY <1>11 DEF Crash
  <2>3. pc' \in [Ops -> LockedPC \cup {"new", "done", "killed"}]
    BY <1>11 DEF Crash
  <2>4. answer' \in [Ops -> {"none", "pending", "sent"}]
    BY <1>11 DEF Crash
  <2>5. /\ logged' \in [Ops -> SUBSET Releases]
        /\ locked' \in BOOLEAN
        /\ cached' \in Lists \cup {NoList}
        /\ listing' \in [Readers -> Lists \cup {NoList}]
    BY <1>11 DEF Crash
  <2> QED
    BY <1>0, <2>1, <2>2, <2>3, <2>4, <2>5
<1>12. CASE UNCHANGED vars
  BY <1>0, <1>12 DEF vars
<1> QED
  BY <1>1, <1>2, <1>5, <1>6, <1>7, <1>8, <1>9, <1>10, <1>11, <1>12 DEF Next, Work
------------------------------------------------------------------------------
\* A step that moves no lock keeps the mutex invariant.
LEMMA MutexFrame ==
    ASSUME MutexInv, UNCHANGED locked, \A o \in Ops : Holds(o)' <=> Holds(o)
    PROVE  MutexInv'
BY DEF MutexInv

\* One holder: TryLock succeeds on a free mutex only, and only the holder unlocks.
LEMMA MutexStep == Inv /\ [Next]_vars => MutexInv'
<1> SUFFICES ASSUME Inv, [Next]_vars PROVE MutexInv'
  OBVIOUS
<1>a. MutexInv /\ pc \in [Ops -> LockedPC \cup {"new", "done", "killed"}]
  BY DEF Inv, TypeOK
<1> USE DEF Goto, Holds, LockedPC
<1>1. ASSUME NEW o \in Ops, TakeLock(o) PROVE MutexInv'
  BY <1>a, <1>1 DEF TakeLock, MutexInv
<1>2. ASSUME NEW o \in Ops, InsertFails(o) \/ Unlock(o) PROVE MutexInv'
  BY <1>a, <1>2 DEF InsertFails, Unlock, MutexInv
<1>3. ASSUME NEW o \in Ops, InsertRow(o) \/ ConnectFails(o) \/ RecordSuccess(o) PROVE MutexInv'
  BY <1>a, <1>3, MutexFrame DEF InsertRow, ConnectFails, RecordSuccess
<1>4. ASSUME NEW o \in Ops, SkipChart(o) \/ ChartSucceeds(o) \/ ChartFails(o) PROVE MutexInv'
  BY <1>a, <1>4, MutexFrame DEF SkipChart, ChartSucceeds, ChartFails, AtChart
<1>5. ASSUME NEW o \in Ops, Undo(o) \/ UndoFails(o) \/ RecordFailure(o) PROVE MutexInv'
  BY <1>a, <1>5, MutexFrame DEF Undo, UndoFails, Undoing, RecordFailure, RollbackEnds
<1>6. ASSUME NEW o \in Ops, Invalidate(o) PROVE MutexInv'
  BY <1>a, <1>6, MutexFrame DEF Invalidate
<1>7. ASSUME NEW d \in Readers, ListReleases(d) \/ PutList(d) PROVE MutexInv'
  BY <1>a, <1>7, MutexFrame DEF ListReleases, PutList
<1>8. CASE Crash
  BY <1>a, <1>8 DEF Crash, MutexInv
<1>9. CASE Expire \/ UNCHANGED vars
  BY <1>a, <1>9, MutexFrame DEF Expire, vars
<1> QED
  BY <1>1, <1>2, <1>3, <1>4, <1>5, <1>6, <1>7, <1>8, <1>9 DEF Next, Work

\* While one operation holds the mutex, no other does.
LEMMA Alone ==
    ASSUME MutexInv, NEW o \in Ops, Holds(o), NEW p \in Ops, p # o
    PROVE  pc[p] \notin LockedPC
BY DEF MutexInv, Holds

\* Rows are written by the operation that owns them, at the end it has come to.
LEMMA RowStep == Inv /\ [Next]_vars => RowInv'
<1> SUFFICES ASSUME Inv, [Next]_vars PROVE RowInv'
  OBVIOUS
<1>a. /\ RowInv
      /\ pc \in [Ops -> LockedPC \cup {"new", "done", "killed"}]
      /\ row \in [Ops -> {"none", "running", "succeeded", "failed"}]
  BY DEF Inv, TypeOK
<1> USE DEF Goto, RowInv
<1>1. ASSUME NEW o \in Ops, TakeLock(o) \/ InsertRow(o) \/ InsertFails(o) PROVE RowInv'
  BY <1>a, <1>1 DEF TakeLock, InsertRow, InsertFails
<1>2. ASSUME NEW o \in Ops, ConnectFails(o) \/ RecordSuccess(o) \/ RecordFailure(o) PROVE RowInv'
  BY <1>a, <1>2 DEF ConnectFails, RecordSuccess, RecordFailure, RollbackEnds
<1>3. ASSUME NEW o \in Ops, SkipChart(o) \/ ChartSucceeds(o) \/ ChartFails(o) PROVE RowInv'
  BY <1>a, <1>3 DEF SkipChart, ChartSucceeds, ChartFails, AtChart
<1>4. ASSUME NEW o \in Ops, Undo(o) \/ UndoFails(o) \/ Unlock(o) \/ Invalidate(o) PROVE RowInv'
  BY <1>a, <1>4 DEF Undo, UndoFails, Unlock, Invalidate
<1>5. ASSUME NEW d \in Readers, ListReleases(d) \/ PutList(d) PROVE RowInv'
  BY <1>a, <1>5 DEF ListReleases, PutList
<1>6. CASE Crash
  BY <1>a, <1>6 DEF Crash, Holds, LockedPC
<1>7. CASE Expire \/ UNCHANGED vars
  BY <1>a, <1>7 DEF Expire, vars
<1> QED
  BY <1>1, <1>2, <1>3, <1>4, <1>5, <1>6, <1>7 DEF Next, Work

\* An operation comes to its first chart with nothing done.
LEMMA EarlyStep == Inv /\ [Next]_vars => EarlyInv'
<1> SUFFICES ASSUME Inv, [Next]_vars PROVE EarlyInv'
  OBVIOUS
<1>a. /\ EarlyInv /\ MutexInv /\ Shape
      /\ pc \in [Ops -> LockedPC \cup {"new", "done", "killed"}]
      /\ at \in [Ops -> Nat] /\ request \in [Ops -> Requests]
  BY DEF Inv, TypeOK
<1>b. request' = request
  BY DEF Next, Work, TakeLock, InsertRow, InsertFails, ConnectFails, SkipChart, ChartSucceeds,
         ChartFails, RecordSuccess, Undo, UndoFails, RecordFailure, RollbackEnds, Unlock,
         Invalidate, ListReleases, PutList, Expire, Crash, vars
<1>c. \A o \in Ops : Seed(o)' = Seed(o)
  BY <1>b DEF Seed, Charts, Choices
<1>d. \A o, p \in Ops : pc[o] \in LockedPC /\ p # o => pc[p] \notin LockedPC
  BY <1>a, Alone DEF Holds
<1> USE DEF Goto, EarlyInv, LockedPC
<1>1. ASSUME NEW o \in Ops, TakeLock(o) PROVE EarlyInv'
  BY <1>a, <1>c, <1>1 DEF TakeLock, MutexInv, Holds
<1>2. ASSUME NEW o \in Ops, InsertRow(o) \/ InsertFails(o) \/ ConnectFails(o) \/ RecordSuccess(o)
      PROVE EarlyInv'
  BY <1>a, <1>c, <1>2 DEF InsertRow, InsertFails, ConnectFails, RecordSuccess
<1>3. ASSUME NEW o \in Ops, SkipChart(o) PROVE EarlyInv'
  BY <1>a, <1>c, <1>3 DEF SkipChart
<1>4. ASSUME NEW o \in Ops, ChartSucceeds(o) PROVE EarlyInv'
  <2>1. /\ pc' = pc /\ pc[o] = "chart" /\ at' = [at EXCEPT ![o] = @ + 1]
        /\ outcomes' = [outcomes EXCEPT ![o][at[o]] = "succeeded"]
    BY <1>4 DEF ChartSucceeds, AtChart
  <2>2. \A p \in Ops \ {o} : outcomes'[p] = outcomes[p]
    BY <1>a, <2>1 DEF Shape
  <2> QED
    BY <1>a, <1>c, <1>d, <2>1, <2>2
<1>5. ASSUME NEW o \in Ops, ChartFails(o) PROVE EarlyInv'
  <2>1. /\ pc' = [pc EXCEPT ![o] = "rollback"] /\ pc[o] = "chart" /\ at' = at
        /\ outcomes' = [outcomes EXCEPT ![o][at[o]] = "failed"]
    BY <1>5 DEF ChartFails, AtChart
  <2>2. \A p \in Ops \ {o} : outcomes'[p] = outcomes[p]
    BY <1>a, <2>1 DEF Shape
  <2> QED
    BY <1>a, <1>c, <1>d, <2>1, <2>2
<1>6. ASSUME NEW o \in Ops, Undo(o) \/ UndoFails(o) PROVE EarlyInv'
  <2>1. PICK i \in Charts(o) : Undoing(o, i)
    BY <1>6 DEF Undo, UndoFails
  <2>2. i \in Nat /\ i >= 1
    BY <1>a, RequestShape
  <2>3. pc[o] = "rollback" /\ at' = [at EXCEPT ![o] = i] /\ UNCHANGED <<pc, outcomes>>
    BY <1>6, <2>1 DEF Undoing, Undo, UndoFails
  <2> QED
    BY <1>a, <1>c, <1>d, <2>2, <2>3
<1>7. ASSUME NEW o \in Ops, RecordFailure(o) PROVE EarlyInv'
  <2>1. pc' = [pc EXCEPT ![o] = "unlock"] /\ pc[o] = "rollback" /\ at' = at
    BY <1>7 DEF RecordFailure, RollbackEnds
  <2>2. \A p \in Ops \ {o} : outcomes'[p] = outcomes[p]
    BY <1>a, <1>7 DEF Shape, RecordFailure
  <2> QED
    BY <1>a, <1>c, <1>d, <2>1, <2>2
<1>8. ASSUME NEW o \in Ops, Unlock(o) PROVE EarlyInv'
  BY <1>a, <1>c, <1>8 DEF Unlock, Shape
<1>9. ASSUME NEW o \in Ops, Invalidate(o) PROVE EarlyInv'
  BY <1>a, <1>c, <1>9 DEF Invalidate
<1>10. ASSUME NEW d \in Readers, ListReleases(d) \/ PutList(d) PROVE EarlyInv'
  BY <1>a, <1>c, <1>10 DEF ListReleases, PutList
<1>11. CASE Crash
  <2>1. \A o \in Ops : at'[o] = 1 /\ outcomes'[o] = Seed(o) /\ pc'[o] # "insert"
    BY <1>a, <1>11 DEF Crash, Holds
  <2> QED
    BY <1>c, <2>1
<1>12. CASE Expire \/ UNCHANGED vars
  BY <1>a, <1>c, <1>12 DEF Expire, vars
<1> QED
  BY <1>1, <1>2, <1>3, <1>4, <1>5, <1>6, <1>7, <1>8, <1>9, <1>10, <1>11, <1>12 DEF Next, Work
------------------------------------------------------------------------------
\* What an operation was asked for does not change.
LEMMA Same ==
    ASSUME request' = request, NEW o \in Ops
    PROVE  /\ Choices(o)' = Choices(o) /\ Charts(o)' = Charts(o) /\ Seed(o)' = Seed(o)
           /\ \A i : (Wanted(o, i)' <=> Wanted(o, i)) /\ Release(o, i)' = Release(o, i)
BY DEF Seed, Charts, Choices, Wanted, Release

\* An operation that is not at work has nothing to keep.
LEMMA JobIdle ==
    ASSUME NEW o \in Ops, pc'[o] \notin {"chart", "rollback", "unlock"}
    PROVE  JobOK(o)'
BY DEF JobOK, ChartOK, RollbackOK, EndOK, SuccessOK, FailureOK, StoryOK, Ended

\* A step that touches neither an operation nor the releases keeps what holds of it.
LEMMA JobFrame ==
    ASSUME NEW o \in Ops, JobOK(o), UNCHANGED <<request, releases, before>>,
           pc'[o] = pc[o], at'[o] = at[o], outcomes'[o] = outcomes[o],
           logged'[o] = logged[o], row'[o] = row[o]
    PROVE  JobOK(o)'
<1> USE Same DEF JobOK
<1>1. ChartOK(o)'
  BY DEF ChartOK
<1>2. RollbackOK(o)'
  BY DEF RollbackOK, FailedAt, Restored
<1>3. EndOK(o)'
  BY DEF EndOK, SuccessOK, FailureOK, StoryOK, Ended
<1> QED
  BY <1>1, <1>2, <1>3

\* Before the first chart nothing has changed.
LEMMA JobInsertRow == ASSUME Inv, NEW o \in Ops, InsertRow(o) PROVE JobOK(o)'
<1>1. /\ pc'[o] = "chart" /\ pc[o] = "insert" /\ at'[o] = 1 /\ outcomes'[o] = Seed(o)
      /\ releases = before /\ UNCHANGED <<request, releases, before>>
  BY DEF InsertRow, Goto, Inv, TypeOK, EarlyInv
<1>2. Len(Choices(o)) \in Nat \ {0} /\ Charts(o) = 1 .. Len(Choices(o))
  BY RequestShape DEF Inv, TypeOK
<1>3. ChartOK(o)'
  BY <1>1, <1>2, Same DEF ChartOK
<1>4. (RollbackOK(o) /\ EndOK(o))'
  BY <1>1 DEF RollbackOK, EndOK, SuccessOK, FailureOK, StoryOK, Ended
<1> QED
  BY <1>3, <1>4 DEF JobOK

\* An operation without a cluster ends with everything as it was.
LEMMA JobConnectFails == ASSUME Inv, NEW o \in Ops, ConnectFails(o) PROVE JobOK(o)'
<1>1. /\ pc'[o] = "unlock" /\ pc[o] = "chart" /\ at[o] = 1 /\ row'[o] = "failed"
      /\ UNCHANGED <<request, outcomes, releases, before, logged>>
  BY DEF ConnectFails, Goto, Inv, TypeOK
<1>2. Charts(o) = 1 .. Len(Choices(o)) /\ outcomes[o] \in [Charts(o) -> Outcomes] /\ ChartOK(o)
  BY RequestShape DEF Inv, TypeOK, JobOK
<1>3. \A r \in Releases : releases[r] = before[r]
  BY <1>1, <1>2 DEF ChartOK
<1>4. outcomes[o] = Seed(o)
  <2>1. \A i \in Charts(o) : outcomes[o][i] = Seed(o)[i]
    BY <1>1, <1>2 DEF ChartOK
  <2> QED
    BY <1>2, <2>1 DEF Seed
<1>5. EndOK(o)'
  BY <1>1, <1>3, <1>4, Same DEF EndOK, SuccessOK, FailureOK, StoryOK, Ended
<1>6. (ChartOK(o) /\ RollbackOK(o))'
  BY <1>1 DEF ChartOK, RollbackOK
<1> QED
  BY <1>5, <1>6 DEF JobOK

\* A chart that is skipped changes nothing.
LEMMA JobSkipChart == ASSUME Inv, NEW o \in Ops, SkipChart(o) PROVE JobOK(o)'
<1>1. /\ pc'[o] = "chart" /\ pc[o] = "chart" /\ at'[o] = at[o] + 1 /\ at[o] \in Charts(o)
      /\ ~Wanted(o, at[o]) /\ UNCHANGED <<request, outcomes, releases, before, logged>>
  BY DEF SkipChart, Inv, TypeOK, Wanted
<1>2. /\ Len(Choices(o)) \in Nat /\ Charts(o) = 1 .. Len(Choices(o)) /\ ChartOK(o)
  BY RequestShape DEF Inv, TypeOK, JobOK
<1>3. \A i \in Charts(o) : i < at'[o] /\ Wanted(o, i) <=> i < at[o] /\ Wanted(o, i)
  BY <1>1, <1>2
<1>4. ChartOK(o)'
  BY <1>1, <1>2, <1>3, Same DEF ChartOK
<1>5. (RollbackOK(o) /\ EndOK(o))'
  BY <1>1 DEF RollbackOK, EndOK, SuccessOK, FailureOK, StoryOK, Ended
<1> QED
  BY <1>4, <1>5 DEF JobOK

\* In a bundle, helm installs only what was not there when the operation began.
LEMMA AbsentBefore ==
    ASSUME Inv, NEW o \in Ops, ChartOK(o), AtChart(o), request[o].kind = "bundle",
           releases[Release(o, at[o])] = "absent"
    PROVE  before[Release(o, at[o])] = "absent"
<1>1. pc[o] = "chart" /\ Release(o, at[o]) \in Releases
  BY RequestShape DEF AtChart, Inv, TypeOK
<1>2. Done(request[o].kind) = "deployed"
  BY DEF Done
<1> QED
  BY <1>1, <1>2 DEF ChartOK

\* A chart that succeeds leaves its release in the state it was asked for.
LEMMA JobChartSucceeds == ASSUME Inv, NEW o \in Ops, ChartSucceeds(o) PROVE JobOK(o)'
<1> DEFINE a == at[o]
<1>1. /\ pc'[o] = "chart" /\ pc[o] = "chart" /\ at'[o] = a + 1 /\ a \in Charts(o) /\ Wanted(o, a)
      /\ UNCHANGED <<request, before, logged>>
      /\ CanDo(request[o].kind, releases[Release(o, a)])
      /\ releases' = [releases EXCEPT ![Release(o, a)] = Done(request[o].kind)]
  BY DEF ChartSucceeds, AtChart, Inv, TypeOK, Wanted, Release, SetRelease
<1>2. /\ Len(Choices(o)) \in Nat /\ Charts(o) = 1 .. Len(Choices(o)) /\ ChartOK(o)
      /\ Release(o, a) \in Releases
  BY <1>1, RequestShape DEF Inv, TypeOK, JobOK
<1>3. \A i \in Charts(o) : i < at'[o] <=> i < a \/ i = a
  BY <1>1, <1>2
<1>4. \A i \in Charts(o) :
        outcomes'[o][i] = IF Wanted(o, i) /\ i < at'[o] THEN "succeeded" ELSE Seed(o)[i]
  <2>1. outcomes'[o] = [outcomes[o] EXCEPT ![a] = "succeeded"] /\ outcomes[o] \in [Charts(o) -> Outcomes]
    BY DEF ChartSucceeds, Inv, Shape, TypeOK
  <2> QED
    BY <1>1, <1>2, <1>3, <2>1 DEF ChartOK
<1>5. \A r \in Releases :
        releases'[r] = IF \E i \in Charts(o) : i < at'[o] /\ Wanted(o, i) /\ Release(o, i) = r
                       THEN Done(request[o].kind) ELSE before[r]
  <2> TAKE r \in Releases
  <2>1. releases \in Lists
    BY DEF Inv, TypeOK
  <2>2. CASE r = Release(o, a)
    BY <1>1, <1>2, <1>3, <2>1, <2>2 DEF Lists
  <2>3. CASE r # Release(o, a)
    <3>1. releases'[r] = releases[r]
      BY <1>1, <2>1, <2>3 DEF Lists
    <3> QED
      BY <1>1, <1>2, <1>3, <2>3, <3>1 DEF ChartOK
  <2> QED
    BY <2>2, <2>3
<1>6. request[o].kind = "bundle" =>
        \A i \in Charts(o) : i < at'[o] /\ Wanted(o, i) => before[Release(o, i)] = "absent"
  <2>1. request[o].kind = "bundle" => before[Release(o, a)] = "absent"
    BY <1>1, <1>2, AbsentBefore DEF CanDo, AtChart, Wanted
  <2> QED
    BY <1>1, <1>2, <1>3, <2>1 DEF ChartOK
<1>7. at'[o] <= Len(Choices(o)) + 1
  BY <1>1, <1>2
<1>8. ChartOK(o)'
  BY <1>1, <1>4, <1>5, <1>6, <1>7, Same DEF ChartOK
<1>9. (RollbackOK(o) /\ EndOK(o))'
  BY <1>1 DEF RollbackOK, EndOK, SuccessOK, FailureOK, StoryOK, Ended
<1> QED
  BY <1>8, <1>9 DEF JobOK

\* helm fails at a chart: what the rollback finds.
LEMMA JobChartFails == ASSUME Inv, NEW o \in Ops, ChartFails(o) PROVE JobOK(o)'
<1> DEFINE a == at[o]
           k == request[o].kind
<1>1. /\ pc'[o] = "rollback" /\ pc[o] = "chart" /\ at'[o] = a /\ a \in Charts(o) /\ Wanted(o, a)
      /\ AtChart(o) /\ UNCHANGED <<request, before, logged>>
  BY DEF ChartFails, AtChart, Inv, TypeOK, Wanted, Goto
<1>2. PICK s \in FailsTo(k, releases[Release(o, a)]) :
        releases' = [releases EXCEPT ![Release(o, a)] = s]
  BY DEF ChartFails, Release, SetRelease
<1>3. /\ Len(Choices(o)) \in Nat /\ Charts(o) = 1 .. Len(Choices(o)) /\ ChartOK(o)
      /\ Release(o, a) \in Releases /\ releases \in Lists
  BY <1>1, RequestShape DEF Inv, TypeOK, JobOK
<1>4. FailedAt(o, a)'
  <2>1. outcomes'[o] = [outcomes[o] EXCEPT ![a] = "failed"] /\ outcomes[o] \in [Charts(o) -> Outcomes]
    BY DEF ChartFails, Inv, Shape, TypeOK
  <2>2. \A i \in Charts(o) :
          outcomes'[o][i] = IF i = a THEN "failed"
                            ELSE IF Wanted(o, i) /\ i < a THEN "succeeded" ELSE Seed(o)[i]
    BY <1>1, <1>3, <2>1 DEF ChartOK
  <2> QED
    BY <1>1, <1>3, <2>2, Same DEF FailedAt
<1>5. ASSUME k = "bundle"
      PROVE  /\ \A i \in Charts(o) : i < a /\ Wanted(o, i) => before[Release(o, i)] = "absent"
             /\ \A r \in Releases : Restored(o, a, r)'
  <2>1. \A i \in Charts(o) : i < a /\ Wanted(o, i) => before[Release(o, i)] = "absent"
    BY <1>1, <1>3, <1>5 DEF ChartOK
  <2>2. ASSUME NEW r \in Releases PROVE Restored(o, a, r)'
    <3>1. CASE r = Release(o, a) /\ releases[r] = "absent"
      <4>1. before[r] = "absent"
        BY <1>1, <1>3, <1>5, <3>1, AbsentBefore
      <4> QED
        BY <1>1, <3>1, <4>1, Same DEF Restored
    <3>2. CASE ~(r = Release(o, a) /\ releases[r] = "absent")
      <4>1. releases'[r] = releases[r]
        BY <1>2, <1>3, <1>5, <3>2 DEF FailsTo, Lists
      <4>2. releases[r] = before[r]
            \/ \E i \in Charts(o) : i < a /\ Wanted(o, i) /\ Release(o, i) = r
        BY <1>1, <1>3 DEF ChartOK
      <4> QED
        BY <1>1, <2>1, <4>1, <4>2, Same DEF Restored
    <3> QED
      BY <3>1, <3>2
  <2> QED
    BY <2>1, <2>2
<1>6. RollbackOK(o)'
  BY <1>1, <1>4, <1>5, Same DEF RollbackOK
<1>7. (ChartOK(o) /\ EndOK(o))'
  BY <1>1 DEF ChartOK, EndOK, SuccessOK, FailureOK, StoryOK, Ended
<1> QED
  BY <1>6, <1>7 DEF JobOK

\* The charts a rollback still has to uninstall are those that were wanted, up
\* to where it has come.
LEMMA ToUndo ==
    ASSUME Inv, NEW o \in Ops, NEW f \in Charts(o), FailedAt(o, f)
    PROVE  \A i \in Charts(o) : i \in Installed(o) <=> i < at[o] /\ Wanted(o, i)
<1>1. /\ Charts(o) = 1 .. Len(Choices(o)) /\ Len(Choices(o)) \in Nat /\ at[o] \in Nat
      /\ \A i \in Charts(o) : Seed(o)[i] \in {"skipped", "not_attempted"}
  BY RequestShape, SeedType DEF Inv, TypeOK
<1> QED
  BY <1>1 DEF FailedAt, Installed

\* One step of the rollback: its release is absent again, or told in the log.
LEMMA JobUndo == ASSUME Inv, NEW o \in Ops, Undo(o) \/ UndoFails(o) PROVE JobOK(o)'
<1>1. PICK i \in Charts(o) :
        /\ Undoing(o, i)
        /\ \/ releases' = [releases EXCEPT ![Release(o, i)] = "absent"] /\ logged' = logged
           \/ /\ \E s : releases' = [releases EXCEPT ![Release(o, i)] = s]
              /\ logged' = [logged EXCEPT ![o] = @ \cup {Release(o, i)}]
  BY DEF Undo, UndoFails, Release, SetRelease, Done
<1>2. /\ pc'[o] = "rollback" /\ pc[o] = "rollback" /\ at'[o] = i
      /\ UNCHANGED <<request, before, outcomes>>
      /\ i \in Installed(o) /\ \A j \in Installed(o) : j <= i
  BY <1>1 DEF Undoing, Undo, UndoFails, Inv, TypeOK
<1>3. PICK f \in Charts(o) :
        /\ FailedAt(o, f)
        /\ request[o].kind = "bundle" =>
             /\ \A j \in Charts(o) : j < f /\ Wanted(o, j) => before[Release(o, j)] = "absent"
             /\ \A r \in Releases : Restored(o, f, r)
  BY <1>2 DEF Inv, JobOK, RollbackOK
<1>4. /\ Charts(o) = 1 .. Len(Choices(o)) /\ Len(Choices(o)) \in Nat /\ at[o] \in Nat
      /\ releases \in Lists /\ logged \in [Ops -> SUBSET Releases] /\ Release(o, i) \in Releases
  BY RequestShape DEF Inv, TypeOK
<1>5. i < at[o] /\ Wanted(o, i) /\ i < f
  BY <1>2, <1>3, <1>4, ToUndo DEF FailedAt
<1>6. FailedAt(o, f)'
  BY <1>2, <1>3, <1>4, <1>5, Same DEF FailedAt
<1>7. ASSUME request[o].kind = "bundle", NEW r \in Releases PROVE Restored(o, f, r)'
  <2>1. Restored(o, f, r) /\ before[Release(o, i)] = "absent"
    BY <1>3, <1>5, <1>7
  <2>2. CASE r = Release(o, i)
    <3>1. releases'[r] = before[r] \/ r \in logged'[o]
      BY <1>1, <1>2, <1>4, <2>1, <2>2 DEF Lists
    <3> QED
      BY <1>2, <2>1, <2>2, <3>1 DEF Restored
  <2>3. CASE r # Release(o, i)
    <3>1. releases'[r] = releases[r] /\ (r \in logged[o] => r \in logged'[o])
      BY <1>1, <1>4, <2>3 DEF Lists
    <3>2. \A j \in Charts(o) : j < at[o] /\ Wanted(o, j) /\ Release(o, j) = r => j < i
      BY <1>2, <1>3, <1>4, <2>3, ToUndo
    <3> QED
      BY <1>2, <2>1, <3>1, <3>2, Same DEF Restored
  <2> QED
    BY <2>2, <2>3
<1>8. RollbackOK(o)'
  BY <1>2, <1>3, <1>6, <1>7, Same DEF RollbackOK
<1>9. (ChartOK(o) /\ EndOK(o))'
  BY <1>2 DEF ChartOK, EndOK, SuccessOK, FailureOK, StoryOK, Ended
<1> QED
  BY <1>8, <1>9 DEF JobOK

\* After the last chart every release is as the operation left or found it.
LEMMA JobRecordSuccess == ASSUME Inv, NEW o \in Ops, RecordSuccess(o) PROVE JobOK(o)'
<1>1. /\ pc'[o] = "unlock" /\ pc[o] = "chart" /\ at[o] > Len(Choices(o)) /\ row'[o] = "succeeded"
      /\ UNCHANGED <<request, outcomes, releases, before, logged>>
  BY DEF RecordSuccess, Goto, Inv, TypeOK
<1>2. /\ Charts(o) = 1 .. Len(Choices(o)) /\ Len(Choices(o)) \in Nat /\ at[o] \in Nat /\ ChartOK(o)
      /\ \A i \in Charts(o) : Choices(o)[i].skip \in BOOLEAN
  BY RequestShape DEF Inv, TypeOK, JobOK
<1>3. \A i \in Charts(o) : i < at[o]
  BY <1>1, <1>2
<1>4. SuccessOK(o)'
  BY <1>1, <1>2, <1>3, Same DEF ChartOK, SuccessOK
<1>5. \A i \in Charts(o) : outcomes[o][i] \in {"succeeded", "skipped"}
  BY <1>1, <1>2, <1>3 DEF ChartOK, Seed, Wanted
<1>6. (FailureOK(o) /\ StoryOK(o))'
  BY <1>1, <1>5, Same DEF FailureOK, StoryOK, Ended
<1>7. (ChartOK(o) /\ RollbackOK(o))'
  BY <1>1 DEF ChartOK, RollbackOK
<1> QED
  BY <1>4, <1>6, <1>7 DEF JobOK, EndOK

\* After the last rollback what is new is in the log or that of the failed chart.
LEMMA JobRecordFailure == ASSUME Inv, NEW o \in Ops, RecordFailure(o) PROVE JobOK(o)'
<1>1. /\ pc'[o] = "unlock" /\ pc[o] = "rollback" /\ Installed(o) = {} /\ row'[o] = "failed"
      /\ outcomes'[o] = Marked(o)
      /\ UNCHANGED <<request, releases, before, logged>>
  BY DEF RecordFailure, RollbackEnds, Goto, Inv, Shape, TypeOK
<1>2. PICK f \in Charts(o) :
        /\ FailedAt(o, f)
        /\ request[o].kind = "bundle" => \A r \in Releases : Restored(o, f, r)
  BY <1>1 DEF Inv, JobOK, RollbackOK
<1>3. /\ Charts(o) = 1 .. Len(Choices(o)) /\ Len(Choices(o)) \in Nat
      /\ \A i \in Charts(o) : Choices(o)[i].skip \in BOOLEAN
  BY RequestShape DEF Inv, TypeOK
<1>4. \A i \in Charts(o) :
        outcomes'[o][i] = IF outcomes[o][i] = "succeeded" THEN "rolled_back" ELSE outcomes[o][i]
  BY <1>1 DEF Marked
<1>5. outcomes'[o][f] = "failed"
  BY <1>2, <1>4 DEF FailedAt
<1>6. \A i \in Charts(o) :
        /\ i < f => outcomes'[o][i] \in {"rolled_back", "skipped"}
        /\ i > f => outcomes'[o][i] \in {"not_attempted", "skipped"}
  BY <1>2, <1>3, <1>4 DEF FailedAt, Seed, Wanted
<1>7. FailureOK(o)'
  <2>1. ASSUME request[o].kind = "bundle", NEW r \in Releases
        PROVE  \/ releases[r] = before[r]
               \/ before[r] = "absent" /\ (r \in logged[o] \/ r = Release(o, f))
    BY <1>1, <1>2, <2>1, ToUndo DEF Restored
  <2> QED
    BY <1>1, <1>5, <2>1, Same DEF FailureOK
<1>8. (SuccessOK(o) /\ StoryOK(o))'
  BY <1>1, <1>5, <1>6, Same DEF SuccessOK, StoryOK, Ended
<1>9. (ChartOK(o) /\ RollbackOK(o))'
  BY <1>1 DEF ChartOK, RollbackOK
<1> QED
  BY <1>7, <1>8, <1>9 DEF JobOK, EndOK

\* What holds of every operation is kept by every step.
LEMMA JobStep == Inv /\ [Next]_vars => \A o \in Ops : JobOK(o)'
<1> SUFFICES ASSUME Inv, [Next]_vars, NEW p \in Ops PROVE JobOK(p)'
  OBVIOUS
<1>a. /\ MutexInv /\ Shape /\ JobOK(p) /\ at \in [Ops -> Nat]
      /\ pc \in [Ops -> LockedPC \cup {"new", "done", "killed"}]
  BY DEF Inv, TypeOK
<1> USE DEF Goto, LockedPC
<1>1. ASSUME NEW o \in Ops, Holds(o), p # o, pc'[p] = pc[p] PROVE JobOK(p)'
  BY <1>a, <1>1, Alone, JobIdle
<1>2. ASSUME NEW o \in Ops, TakeLock(o) PROVE JobOK(p)'
  BY <1>a, <1>2, JobIdle DEF TakeLock, MutexInv, Holds
<1>3. ASSUME NEW o \in Ops, InsertRow(o) \/ InsertFails(o) \/ ConnectFails(o) PROVE JobOK(p)'
  <2>1. Holds(o) /\ (p # o => pc'[p] = pc[p])
    BY <1>a, <1>3 DEF InsertRow, InsertFails, ConnectFails, Holds
  <2>2. CASE p = o
    BY <1>a, <1>3, <2>2, JobInsertRow, JobConnectFails, JobIdle DEF InsertFails
  <2> QED
    BY <1>1, <2>1, <2>2
<1>4. ASSUME NEW o \in Ops, SkipChart(o) \/ ChartSucceeds(o) \/ ChartFails(o) PROVE JobOK(p)'
  <2>1. Holds(o) /\ (p # o => pc'[p] = pc[p])
    BY <1>a, <1>4 DEF SkipChart, ChartSucceeds, ChartFails, AtChart, Holds
  <2> QED
    BY <1>1, <1>4, <2>1, JobSkipChart, JobChartSucceeds, JobChartFails
<1>5. ASSUME NEW o \in Ops, Undo(o) \/ UndoFails(o) \/ RecordSuccess(o) \/ RecordFailure(o)
      PROVE JobOK(p)'
  <2>1. Holds(o) /\ (p # o => pc'[p] = pc[p])
    BY <1>a, <1>5 DEF Undo, UndoFails, Undoing, RecordSuccess, RecordFailure, RollbackEnds, Holds
  <2> QED
    BY <1>1, <1>5, <2>1, JobUndo, JobRecordSuccess, JobRecordFailure
<1>6. ASSUME NEW o \in Ops, Unlock(o) PROVE JobOK(p)'
  <2>1. Holds(o) /\ (p # o => pc'[p] = pc[p]) /\ (p = o => pc'[p] = "done")
    BY <1>a, <1>6 DEF Unlock, Holds
  <2> QED
    BY <1>1, <2>1, JobIdle
<1>7. ASSUME NEW o \in Ops, Invalidate(o) PROVE JobOK(p)'
  BY <1>a, <1>7, JobFrame DEF Invalidate
<1>8. ASSUME NEW d \in Readers, ListReleases(d) \/ PutList(d) PROVE JobOK(p)'
  BY <1>a, <1>8, JobFrame DEF ListReleases, PutList
<1>9. CASE Crash
  BY <1>a, <1>9, JobIdle DEF Crash, Holds
<1>10. CASE Expire \/ UNCHANGED vars
  BY <1>a, <1>10, JobFrame DEF Expire, vars
<1> QED
  BY <1>2, <1>3, <1>4, <1>5, <1>6, <1>7, <1>8, <1>9, <1>10 DEF Next, Work
------------------------------------------------------------------------------
\* The invariant holds in every reachable state.
THEOREM Inductive == Spec => []Inv
<1>1. Inv /\ [Next]_vars => Inv'
  BY TypeStep, MutexStep, RowStep, EarlyStep, JobStep DEF Inv
<1> QED
  BY InvInit, <1>1, PTL DEF Spec

\* TypeOK, in every reachable state.
THEOREM TypeCorrect == Spec => []TypeOK
<1>1. Inv => TypeOK
  BY DEF Inv
<1> QED
  BY <1>1, Inductive, PTL

\* An operation recorded as succeeded (executor.go, finish) did all it was asked,
\* and nothing else has changed under its lock.
THEOREM SuccessesAreReal == Spec => []SuccessIsReal
<1>1. Inv => SuccessIsReal
  BY DEF Inv, JobOK, EndOK, SuccessOK, SuccessIsReal, Wanted, Release, Charts
<1> QED
  BY <1>1, Inductive, PTL

\* A bundle that failed (bundle.go, rollbackInstalled) left nothing behind but
\* its failed chart and what the log says.
THEOREM BundlesAreUndone == Spec => []FailedBundleRestores
<1>1. Inv => FailedBundleRestores
  BY DEF Inv, JobOK, EndOK, FailureOK, FailedBundleRestores, Release, Charts
<1> QED
  BY <1>1, Inductive, PTL

\* The outcomes of a bundle's audit row (bundle.go, markRolledBack) are its story.
THEOREM OutcomesAreTrue == Spec => []OutcomesTellTheStory
<1>1. Inv => OutcomesTellTheStory
  BY DEF Inv, JobOK, EndOK, StoryOK, OutcomesTellTheStory
<1> QED
  BY <1>1, Inductive, PTL

\* A row that says "running" (store.go, CreateInstall) has a goroutine, or had one
\* that was killed.
THEOREM RunningInstalls == Spec => []RunningInstallExplained
<1>1. Inv => RunningInstallExplained
  BY DEF Inv, RowInv, RunningInstallExplained, Holds, LockedPC
<1> QED
  BY <1>1, Inductive, PTL
------------------------------------------------------------------------------
\* What Owner means: the holder where there is one, else NoOp.
OwnerIsHolder ==
    /\ Owner \in Ops \cup {NoOp}
    /\ \A o \in Ops : Owner = o <=> Holds(o)

\* The mutex makes the CHOOSE of Owner a choice of one.
LEMMA OwnerKnown == MutexInv => OwnerIsHolder
BY NullAssumption DEF MutexInv, OwnerIsHolder, Owner

\* The same in the next state.
LEMMA OwnerKnownNext == MutexInv' => OwnerIsHolder'
BY OwnerKnown, PTL

\* A step that moves neither the mutex nor a release is a stuttering step.
LEMMA Stutters ==
    ASSUME OwnerIsHolder, OwnerIsHolder', \A o \in Ops : Holds(o)' <=> Holds(o),
           releases' = releases
    PROVE  UNCHANGED Serial!vars
<1>1. Owner' = Owner
  BY NullAssumption DEF OwnerIsHolder
<1> QED
  BY <1>1 DEF Serial!vars

\* TryLock that succeeds is Begin.
LEMMA Begins ==
    ASSUME OwnerIsHolder, OwnerIsHolder', NEW h \in Ops, Holds(h)',
           \A o \in Ops : ~Holds(o), releases' = releases
    PROVE  Serial!Next
<1>1. Owner = NoOp /\ Owner' = h
  BY NullAssumption DEF OwnerIsHolder
<1>2. Serial!Begin("cluster", h)
  BY <1>1 DEF Serial!Begin
<1> QED
  BY <1>2 DEF Serial!Next

\* Unlock is End.
LEMMA Ends ==
    ASSUME OwnerIsHolder, OwnerIsHolder', NEW h \in Ops, Holds(h),
           \A o \in Ops : ~Holds(o)', releases' = releases
    PROVE  Serial!Next
<1>1. Owner # NoOp /\ Owner' = NoOp
  BY NullAssumption DEF OwnerIsHolder
<1>2. Serial!End("cluster")
  BY <1>1 DEF Serial!End
<1> QED
  BY <1>2 DEF Serial!Next

\* What helm does for the holder is Touch.
LEMMA HelmTouches ==
    ASSUME OwnerIsHolder, OwnerIsHolder', NEW h \in Ops, Holds(h),
           \A o \in Ops : Holds(o)' <=> Holds(o), releases' \in Lists
    PROVE  Serial!Next
<1>1. Owner # NoOp /\ Owner' = Owner
  BY NullAssumption DEF OwnerIsHolder
<1>2. Serial!Touch("cluster")
  BY <1>1 DEF Serial!Touch
<1> QED
  BY <1>2 DEF Serial!Next

\* A restart takes the owner away, and touches releases only if there was one.
LEMMA Restarts ==
    ASSUME OwnerIsHolder, OwnerIsHolder', Crash, releases \in Lists
    PROVE  Serial!Next
<1>1. \A o \in Ops : ~Holds(o)'
  BY DEF Crash, Holds, LockedPC
<1>2. Owner' = NoOp
  BY <1>1, NullAssumption DEF OwnerIsHolder
<1>3. releases' \in Lists
  BY DEF Crash
<1>4. ASSUME Owner = NoOp PROVE releases' = releases
  <2>1. \A o \in Ops, r \in Releases : ~Touches(o, r)
    BY <1>4, NullAssumption DEF OwnerIsHolder, Holds, LockedPC, Touches, AtChart
  <2>2. \A r \in Releases : releases'[r] = releases[r]
    BY <2>1 DEF Crash
  <2> QED
    BY <1>3, <2>2 DEF Lists
<1>5. Serial!Restart
  BY <1>2, <1>3, <1>4 DEF Serial!Restart
<1> QED
  BY <1>5 DEF Serial!Next

\* Every step of the program is a step of SerialJobs or leaves its state alone.
LEMMA StepMaps == Inv /\ Inv' /\ [Next]_vars => [Serial!Next]_(Serial!vars)
<1> SUFFICES ASSUME Inv, Inv', [Next]_vars PROVE [Serial!Next]_(Serial!vars)
  OBVIOUS
<1>a. /\ OwnerIsHolder /\ OwnerIsHolder' /\ MutexInv /\ releases \in Lists /\ releases' \in Lists
      /\ pc \in [Ops -> LockedPC \cup {"new", "done", "killed"}]
  BY OwnerKnown, OwnerKnownNext DEF Inv, TypeOK
<1> USE DEF Goto, Holds, LockedPC
<1>1. ASSUME NEW o \in Ops, TakeLock(o) PROVE Serial!Next
  <2>1. Holds(o)' /\ releases' = releases
    BY <1>a, <1>1 DEF TakeLock
  <2>2. \A p \in Ops : ~Holds(p)
    BY <1>a, <1>1 DEF TakeLock, MutexInv
  <2> QED
    BY <1>a, <2>1, <2>2, Begins
<1>2. ASSUME NEW o \in Ops, InsertFails(o) \/ Unlock(o) PROVE Serial!Next
  <2>1. Holds(o) /\ ~Holds(o)' /\ releases' = releases /\ \A p \in Ops \ {o} : pc'[p] = pc[p]
    BY <1>a, <1>2 DEF InsertFails, Unlock
  <2>2. \A p \in Ops : ~Holds(p)'
    BY <1>a, <2>1 DEF MutexInv
  <2> QED
    BY <1>a, <2>1, <2>2, Ends
<1>3. ASSUME NEW o \in Ops, \/ InsertRow(o) \/ ConnectFails(o) \/ SkipChart(o)
                            \/ RecordSuccess(o) \/ RecordFailure(o) \/ Invalidate(o)
      PROVE  UNCHANGED Serial!vars
  BY <1>a, <1>3, Stutters DEF InsertRow, ConnectFails, SkipChart, RecordSuccess, RecordFailure,
                              RollbackEnds, Invalidate
<1>4. ASSUME NEW o \in Ops, ChartSucceeds(o) \/ ChartFails(o) \/ Undo(o) \/ UndoFails(o)
      PROVE  Serial!Next
  <2>1. Holds(o) /\ \A p \in Ops : Holds(p)' <=> Holds(p)
    BY <1>a, <1>4 DEF ChartSucceeds, ChartFails, AtChart, Undo, UndoFails, Undoing
  <2> QED
    BY <1>a, <2>1, HelmTouches
<1>5. ASSUME NEW d \in Readers, ListReleases(d) \/ PutList(d) PROVE UNCHANGED Serial!vars
  BY <1>a, <1>5, Stutters DEF ListReleases, PutList
<1>6. CASE Crash
  BY <1>a, <1>6, Restarts
<1>7. CASE Expire \/ UNCHANGED vars
  BY <1>a, <1>7, Stutters DEF Expire, vars
<1> QED
  BY <1>1, <1>2, <1>3, <1>4, <1>5, <1>6, <1>7 DEF Next, Work

\* A process that has just started owns nothing.
LEMMA InitMaps == Init => Serial!Init
<1> SUFFICES ASSUME Init PROVE Serial!Init
  OBVIOUS
<1>1. Owner = NoOp
  BY DEF Init, Owner, Holds, LockedPC
<1>2. releases \in Lists
  BY StoredAssumption DEF Init
<1> QED
  BY <1>1, <1>2 DEF Serial!Init

\* Helm operations under the cluster's mutex (executor.go) are serialised jobs,
\* for any number of operations, releases and restarts.
THEOREM HelmIsSerial == Spec => ImplementsSerialJobs
<1>1. Inv /\ Inv' /\ [Next]_vars => [Serial!Next]_(Serial!vars)
  BY StepMaps
<1> QED
  BY InitMaps, <1>1, Inductive, PTL DEF Spec, ImplementsSerialJobs, Serial!Spec
==============================================================================
