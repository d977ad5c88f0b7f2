------------------------- MODULE NodeTelemetryProofs --------------------------
(***************************************************************************)
(* The safety properties of NodeTelemetry, for every number of pages and   *)
(* every pair of times to live.                                            *)
(***************************************************************************)
EXTENDS NodeTelemetry, TLAPS

\* One flight at a time: in the goroutine of its leader, and of nobody else.
FlightInv ==
    /\ \A p \in Pages : pc[p] \in Flying => leader = p
    /\ leader # Nobody => leader \in Pages /\ pc[leader] \in Flying

\* A flight that has met no trouble has found what there is to find.
RowsInv ==
    \A p \in Pages :
        /\ pc[p] \in Flying /\ ~tainted => ~Trouble /\ Live(p)
        /\ pc[p] = "creds" /\ ~tainted => rows = "bare"
        /\ pc[p] = "vms" /\ ~tainted => rows = "bare"
        /\ pc[p] \in {"put", "end"} /\ ~tainted => rows = "full"

\* An entry is as old as its time to live has run down, and one that is not
\* complete was put when there was trouble.
EntryInv ==
    left >= 0 => /\ cache # "none"
                 /\ age + left = TTL(cache)
                 /\ cache # "full" => quiet <= age

\* Whoever is on his way to the services, and does not know of good rows, looked
\* before they were there.
LateInv ==
    \A p \in Pages : pc[p] \in {"do"} \cup Probing /\ cache \in {"bare", "full"} /\ left >= 0
                        => p \in blind

AnswerInv == RecoversInTime /\ AnswersAreFresh

Inv == TypeOK /\ FlightInv /\ RowsInv /\ EntryInv /\ LateInv /\ AnswerInv

------------------------------------------------------------------------------
\* The invariant holds of a process that has just started.
LEMMA InvInit == Init => Inv
<1> SUFFICES ASSUME Init PROVE Inv
  OBVIOUS
<1>1. TypeOK
  <2>1. got \in [Pages -> [level : Levels, calm : {"no", "short", "long"}, late : BOOLEAN]]
    BY DEF Init, Levels
  <2>2. -1 \in -1 .. Long /\ 0 \in 0 .. Long + 1
    BY TTLAssumption
  <2> QED
    BY <2>1, <2>2 DEF Init, TypeOK, Levels
<1>2. FlightInv /\ RowsInv
  BY DEF Init, FlightInv, RowsInv, Flying, Probing
<1>3. EntryInv /\ LateInv
  BY DEF Init, EntryInv, LateInv, Probing
<1>4. AnswerInv
  BY DEF Init, AnswerInv, RecoversInTime, AnswersAreFresh
<1> QED
  BY <1>1, <1>2, <1>3, <1>4 DEF Inv

\* The variables keep their types.
LEMMA TypeStep == Inv /\ [Next]_vars => TypeOK'
<1> SUFFICES ASSUME Inv, [Next]_vars PROVE TypeOK'
  OBVIOUS
<1> USE NobodyAssumption, TTLAssumption
        DEF Inv, TypeOK, Goto, Flying, Probing, Levels, flight, entry, outside, history
<1>0. 0 \in 0 .. Long + 1
  OBVIOUS
<1>1. ASSUME NEW p \in Pages, Poll(p) \/ Join(p) PROVE TypeOK'
  BY <1>1 DEF Poll, Join
<1>12. ASSUME NEW p \in Pages, Disconnect(p) PROVE TypeOK'
  <2>1. quiet' \in {0, quiet} /\ tainted' \in BOOLEAN
    BY <1>12 DEF Disconnect
  <2> QED
    BY <1>0, <1>12, <2>1 DEF Disconnect
<1>2. ASSUME NEW p \in Pages, Look(p) PROVE TypeOK'
  <2>1. Calm \in {"no", "short", "long"}
    BY DEF Calm
  <2>2. CASE cache # "none" /\ left >= 0
    <3>1. [level |-> cache, calm |-> Calm, late |-> age > TTL(cache)]
            \in [level : Levels, calm : {"no", "short", "long"}, late : BOOLEAN]
      BY <2>1, <2>2
    <3> HIDE DEF Levels
    <3>2. got' \in [Pages -> [level : Levels, calm : {"no", "short", "long"}, late : BOOLEAN]]
      BY <1>2, <2>2, <3>1 DEF Look, Serve
    <3>3. pc' = [pc EXCEPT ![p] = "idle"] /\ UNCHANGED <<ctx, flight, entry, outside, history>>
      BY <1>2, <2>2 DEF Look, Serve
    <3> QED
      BY <3>2, <3>3
  <2>3. CASE ~(cache # "none" /\ left >= 0)
    BY <1>2, <2>3 DEF Look
  <2> QED
    BY <2>2, <2>3
<1>3. ASSUME NEW p \in Pages, Lead(p) PROVE TypeOK'
  BY <1>3 DEF Lead, Trouble, Live
<1>4. ASSUME NEW p \in Pages, ReadKubeconfig(p) \/ GetNodes(p) \/ ReadCreds(p) \/ GetVMs(p)
      PROVE  TypeOK'
  BY <1>4 DEF ReadKubeconfig, GetNodes, ReadCreds, GetVMs
<1>5. ASSUME NEW p \in Pages, Put(p) PROVE TypeOK'
  BY <1>5 DEF Put, TTL
<1>6. ASSUME NEW p \in Pages, End(p) PROVE TypeOK'
  BY <1>6 DEF End
<1>7. ASSUME NEW s \in Failing, Outage(s) \/ Recover(s) PROVE TypeOK'
  <2>1. out' \subseteq Failing /\ quiet' \in {0, quiet} /\ tainted' \in BOOLEAN
    BY <1>7 DEF Outage, Recover
  <2>2. UNCHANGED <<pc, ctx, got, flight, entry, up, blind>>
    BY <1>7 DEF Outage, Recover
  <2> QED
    BY <1>0, <2>1, <2>2
<1>8. CASE Change
  BY <1>8 DEF Change
<1>9. CASE Tick
  <2>1. left' \in -1 .. Long /\ age' \in 0 .. Long + 1 /\ quiet' \in 0 .. Long + 1
    BY <1>9 DEF Tick
  <2>2. UNCHANGED <<pc, ctx, got, flight, cache, outside, tainted, blind>>
    BY <1>9 DEF Tick
  <2> QED
    BY <2>1, <2>2
<1>10. CASE Crash
  BY <1>10 DEF Crash
<1>11. CASE UNCHANGED vars
  BY <1>11 DEF vars
<1> QED
  BY <1>1, <1>2, <1>3, <1>4, <1>5, <1>6, <1>7, <1>8, <1>9, <1>10, <1>11,
     <1>12 DEF Next, Handle

\* Only who finds no flight begins one, and whoever ends one was its leader.
LEMMA FlightStep == Inv /\ [Next]_vars => FlightInv'
<1> SUFFICES ASSUME Inv, [Next]_vars PROVE FlightInv'
  OBVIOUS
<1> USE NobodyAssumption
        DEF Inv, TypeOK, FlightInv, Goto, Flying, Probing, flight, entry, outside, history
<1>1. ASSUME NEW p \in Pages, Poll(p) \/ Join(p) \/ Disconnect(p) PROVE FlightInv'
  BY <1>1 DEF Poll, Join, Disconnect
<1>2. ASSUME NEW p \in Pages, Look(p) PROVE FlightInv'
  BY <1>2 DEF Look, Serve
<1>3. ASSUME NEW p \in Pages, Lead(p) PROVE FlightInv'
  BY <1>3 DEF Lead
<1>4. ASSUME NEW p \in Pages, ReadKubeconfig(p) \/ GetNodes(p) \/ ReadCreds(p) \/ GetVMs(p) \/ Put(p)
      PROVE  FlightInv'
  <2>1. /\ leader = p /\ leader' = leader
        /\ pc[p] \in Probing /\ pc' = [pc EXCEPT ![p] = pc'[p]] /\ pc'[p] \in Flying
    BY <1>4 DEF ReadKubeconfig, GetNodes, ReadCreds, GetVMs, Put
  <2> QED
    BY <2>1
<1>5. ASSUME NEW p \in Pages, End(p) PROVE FlightInv'
  BY <1>5 DEF End, Shares
<1>6. CASE (\E s \in Failing : Outage(s) \/ Recover(s)) \/ Change \/ Tick \/ UNCHANGED vars
  <2>1. UNCHANGED <<pc, leader>>
    BY <1>6 DEF Outage, Recover, Change, Tick, vars
  <2> QED
    BY <2>1
<1>7. CASE Crash
  BY <1>7 DEF Crash
<1> QED
  BY <1>1, <1>2, <1>3, <1>4, <1>5, <1>6, <1>7 DEF Next, Handle

\* Trouble taints the flight it meets; without it every probe succeeds.
LEMMA RowsStep == Inv /\ [Next]_vars => RowsInv'
<1> SUFFICES ASSUME Inv, [Next]_vars PROVE RowsInv'
  OBVIOUS
<1> USE NobodyAssumption
        DEF Inv, TypeOK, FlightInv, RowsInv, Goto, Flying, Probing, Live, Trouble,
            flight, entry, outside, history
<1>1. ASSUME NEW p \in Pages, Poll(p) \/ Join(p) PROVE RowsInv'
  BY <1>1 DEF Poll, Join
<1>2. ASSUME NEW p \in Pages, Look(p) PROVE RowsInv'
  BY <1>2 DEF Look, Serve
<1>3. ASSUME NEW p \in Pages, Lead(p) PROVE RowsInv'
  BY <1>3 DEF Lead
<1>4. ASSUME NEW p \in Pages, ReadKubeconfig(p) \/ GetNodes(p) \/ ReadCreds(p) \/ GetVMs(p) \/ Put(p)
      PROVE  RowsInv'
  <2>1. /\ leader = p /\ UNCHANGED <<ctx, up, out, tainted>>
        /\ \A q \in Pages \ {p} : pc'[q] = pc[q] /\ pc[q] \notin Flying
    BY <1>4 DEF ReadKubeconfig, GetNodes, ReadCreds, GetVMs, Put
  <2>2. CASE tainted
    BY <2>1, <2>2
  <2>3. CASE ~tainted
    <3>1. out = {} /\ up /\ Live(p)
      BY <1>4, <2>3 DEF ReadKubeconfig, GetNodes, ReadCreds, GetVMs, Put
    <3>2. \A s : Answers(s, p)
      BY <3>1 DEF Answers
    <3>3. /\ pc'[p] \in {"creds", "vms"} => rows' = "bare"
          /\ pc'[p] \in {"put", "end"} => rows' = "full"
      BY <1>4, <2>3, <3>1, <3>2 DEF ReadKubeconfig, GetNodes, ReadCreds, GetVMs, Put
    <3> QED
      BY <2>1, <3>1, <3>3
  <2> QED
    BY <2>2, <2>3
<1>5. ASSUME NEW p \in Pages, End(p) PROVE RowsInv'
  BY <1>5 DEF End, Shares
<1>6. ASSUME NEW p \in Pages, Disconnect(p) PROVE RowsInv'
  BY <1>6 DEF Disconnect
<1>7. CASE (\E s \in Failing : Outage(s)) \/ Change
  <2>1. tainted' = TRUE
    BY <1>7 DEF Outage, Change
  <2> QED
    BY <2>1
<1>8. CASE (\E s \in Failing : Recover(s)) \/ Tick \/ UNCHANGED vars
  <2>1. UNCHANGED <<pc, ctx, up, rows, tainted>> /\ (out = {} => out' = {})
    BY <1>8 DEF Recover, Tick, vars
  <2> QED
    BY <2>1
<1>9. CASE Crash
  BY <1>9 DEF Crash
<1> QED
  BY <1>1, <1>2, <1>3, <1>4, <1>5, <1>6, <1>7, <1>8, <1>9 DEF Next, Handle

\* Only Put writes the entry, and time ages it.
LEMMA EntryStep == Inv /\ [Next]_vars => EntryInv'
<1> SUFFICES ASSUME Inv, [Next]_vars PROVE EntryInv'
  OBVIOUS
<1> USE TTLAssumption DEF Inv, TypeOK, EntryInv, flight, entry, outside, history
<1>1. ASSUME UNCHANGED entry, quiet' \in {0, quiet} PROVE EntryInv'
  BY <1>1 DEF TTL
<1>2. ASSUME NEW p \in Pages, Poll(p) \/ Look(p) \/ Join(p) \/ Lead(p) \/ ReadKubeconfig(p)
                              \/ GetNodes(p) \/ ReadCreds(p) \/ GetVMs(p) \/ End(p) \/ Disconnect(p)
      PROVE  UNCHANGED entry /\ quiet' \in {0, quiet}
  BY <1>2 DEF Poll, Look, Join, Lead, ReadKubeconfig, GetNodes, ReadCreds, GetVMs, End, Disconnect
<1>3. ASSUME NEW p \in Pages, Put(p) PROVE EntryInv'
  <2>1. tainted \/ rows = "full"
    BY <1>3 DEF Put, RowsInv
  <2>2. cache' = rows /\ left' = TTL(rows) /\ age' = 0 /\ (tainted => quiet' = 0)
    BY <1>3 DEF Put
  <2>3. TTL(rows) \in Nat
    BY DEF TTL
  <2> QED
    BY <2>1, <2>2, <2>3 DEF Levels
<1>4. CASE (\E s \in Failing : Outage(s) \/ Recover(s)) \/ Change \/ UNCHANGED vars
  <2>1. UNCHANGED entry /\ quiet' \in {0, quiet}
    BY <1>4 DEF Outage, Recover, Change, vars
  <2> QED
    BY <1>1, <2>1
<1>5. CASE Tick
  BY <1>5 DEF Tick, TTL
<1>6. CASE Crash
  BY <1>6 DEF Crash
<1> QED
  BY <1>1, <1>2, <1>3, <1>4, <1>5, <1>6 DEF Next, Handle

\* Good rows are put by the leader; at that time only pages at sf.Do have looked.
LEMMA LateStep == Inv /\ [Next]_vars => LateInv'
<1> SUFFICES ASSUME Inv, [Next]_vars PROVE LateInv'
  OBVIOUS
<1> USE NobodyAssumption
        DEF Inv, TypeOK, FlightInv, LateInv, Goto, Flying, Probing, flight, entry, outside, history
<1>1. ASSUME NEW p \in Pages, Poll(p) \/ Join(p) \/ Disconnect(p) PROVE LateInv'
  BY <1>1 DEF Poll, Join, Disconnect
<1>2. ASSUME NEW p \in Pages, Look(p) PROVE LateInv'
  BY <1>2 DEF Look, Serve
<1>3. ASSUME NEW p \in Pages, Lead(p) PROVE LateInv'
  BY <1>3 DEF Lead
<1>4. ASSUME NEW p \in Pages, ReadKubeconfig(p) \/ GetNodes(p) \/ ReadCreds(p) \/ GetVMs(p)
      PROVE  LateInv'
  <2>1. /\ UNCHANGED <<cache, left, blind>> /\ pc[p] \in Probing
        /\ \A q \in Pages \ {p} : pc'[q] = pc[q]
    BY <1>4 DEF ReadKubeconfig, GetNodes, ReadCreds, GetVMs
  <2> QED
    BY <2>1
<1>5. ASSUME NEW p \in Pages, Put(p) PROVE LateInv'
  <2>1. /\ cache' = rows /\ pc' = [pc EXCEPT ![p] = "end"] /\ pc[p] = "put"
        /\ rows # "empty" => blind' = {q \in Pages : pc[q] = "do"}
    BY <1>5 DEF Put
  <2>2. \A q \in Pages : pc'[q] \in {"do"} \cup Probing => pc[q] = "do"
    BY <2>1
  <2> QED
    BY <2>1, <2>2
<1>6. ASSUME NEW p \in Pages, End(p) PROVE LateInv'
  BY <1>6 DEF End, Shares
<1>7. CASE (\E s \in Failing : Outage(s) \/ Recover(s)) \/ Change \/ Tick \/ UNCHANGED vars
  <2>1. /\ UNCHANGED <<pc, cache, blind>>
        /\ left' >= 0 => left >= 0
    BY <1>7, TTLAssumption DEF Outage, Recover, Change, Tick, vars
  <2> QED
    BY <2>1
<1>8. CASE Crash
  BY <1>8 DEF Crash
<1> QED
  BY <1>1, <1>2, <1>3, <1>4, <1>5, <1>6, <1>7, <1>8 DEF Next, Handle

\* An answer comes from an entry that has not expired, or from a flight.
LEMMA AnswerStep == Inv /\ [Next]_vars => AnswerInv'
<1> SUFFICES ASSUME Inv, [Next]_vars PROVE AnswerInv'
  OBVIOUS
<1> USE DEF Inv, TypeOK, AnswerInv, RecoversInTime, AnswersAreFresh, flight, entry, outside, history
<1>1. ASSUME UNCHANGED got PROVE AnswerInv'
  BY <1>1
<1>2. ASSUME NEW p \in Pages, Look(p) PROVE AnswerInv'
  <2>1. CASE left >= 0 /\ cache # "none"
    <3> DEFINE g == [level |-> cache, calm |-> Calm, late |-> age > TTL(cache)]
    <3>1. got' = [got EXCEPT ![p] = g]
      BY <1>2, <2>1 DEF Look, Serve
    <3>2. TTL(cache) \in Nat /\ age + left = TTL(cache) /\ (cache # "full" => quiet <= age)
      BY <2>1, TTLAssumption DEF EntryInv, TTL
    <3>3. age <= TTL(cache)
      BY <2>1, <3>2, TTLAssumption
    <3>4. /\ cache = "empty" => quiet <= Short
          /\ cache # "full" => quiet <= Long
      BY <3>2, <3>3, TTLAssumption DEF TTL
    <3>5. /\ g.calm # "no" => g.level # "empty"
          /\ g.calm = "long" => g.level = "full"
          /\ ~g.late
      BY <3>2, <3>3, <3>4, TTLAssumption DEF Calm
    <3> HIDE DEF g
    <3> QED
      BY <3>1, <3>5
  <2>2. CASE ~(left >= 0 /\ cache # "none")
    BY <1>2, <2>2 DEF Look
  <2> QED
    BY <2>1, <2>2
<1>3. ASSUME NEW p \in Pages, End(p) PROVE AnswerInv'
  <2> DEFINE g == [level |-> rows, calm |-> IF tainted THEN "no" ELSE "long", late |-> FALSE]
  <2>1. got' = [q \in Pages |-> IF Shares(p, q) THEN g ELSE got[q]]
    BY <1>3 DEF End
  <2>2. tainted \/ rows = "full"
    BY <1>3 DEF End, RowsInv
  <2>3. g.calm # "no" => g.level = "full" /\ ~g.late
    BY <2>2
  <2>4. ~g.late
    OBVIOUS
  <2> HIDE DEF g
  <2> QED
    BY <2>1, <2>3, <2>4
<1>4. ASSUME NEW p \in Pages, Poll(p) \/ Join(p) \/ Lead(p) \/ ReadKubeconfig(p) \/ GetNodes(p)
                              \/ ReadCreds(p) \/ GetVMs(p) \/ Put(p) \/ Disconnect(p)
      PROVE  UNCHANGED got
  BY <1>4 DEF Poll, Join, Lead, ReadKubeconfig, GetNodes, ReadCreds, GetVMs, Put, Disconnect
<1>5. CASE (\E s \in Failing : Outage(s) \/ Recover(s)) \/ Change \/ Tick \/ Crash \/ UNCHANGED vars
  <2>1. UNCHANGED got
    BY <1>5 DEF Outage, Recover, Change, Tick, Crash, vars
  <2> QED
    BY <1>1, <2>1
<1> QED
  BY <1>1, <1>2, <1>3, <1>4, <1>5 DEF Next, Handle

\* The invariant is inductive.
LEMMA InvStep == Inv /\ [Next]_vars => Inv'
BY TypeStep, FlightStep, RowsStep, EntryStep, LateStep, AnswerStep DEF Inv
------------------------------------------------------------------------------
\* Every variable keeps its type.
THEOREM TypeCorrect == Spec => []TypeOK
<1>1. Inv => TypeOK
  BY DEF Inv
<1> QED
  BY InvInit, InvStep, <1>1, PTL DEF Spec

\* Trouble is over soon after it is over (aggregator.go:63-69): whatever failed,
\* whoever left, answers have rows after the short time to live, and are complete
\* after the long one.
THEOREM TroubleIsOver == Spec => []RecoversInTime
<1>1. Inv => RecoversInTime
  BY DEF Inv, AnswerInv
<1> QED
  BY InvInit, InvStep, <1>1, PTL DEF Spec

\* No answer was in the cache for longer than its time to live (cache.go:27, 45).
THEOREM Fresh == Spec => []AnswersAreFresh
<1>1. Inv => AnswersAreFresh
  BY DEF Inv, AnswerInv
<1> QED
  BY InvInit, InvStep, <1>1, PTL DEF Spec

\* While good rows are cached nobody but a page that looked too early asks the
\* services (aggregator.go:31-35).
THEOREM CacheSpares == Spec => []NoIdleProbe
<1>1. Inv => NoIdleProbe
  BY DEF Inv, LateInv, NoIdleProbe
<1> QED
  BY InvInit, InvStep, <1>1, PTL DEF Spec
==============================================================================
