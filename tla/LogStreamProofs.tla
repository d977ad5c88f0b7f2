--------------------------- MODULE LogStreamProofs ----------------------------
(***************************************************************************)
(* The safety properties of LogStream, for every number of pages,          *)
(* connections and events, every size of history and channel, and every    *)
(* number of restarts.                                                     *)
(***************************************************************************)
EXTENDS LogStream, SequenceTheorems, TLAPS

\* The history is an interval of the events, which ends at the last one.
HistoryInv ==
    /\ Len(history) <= published /\ Len(history) <= HistoryCap
    /\ \A i \in 1 .. Len(history) : history[i] = published - Len(history) + i
    /\ alive => Len(history) = published \/ Len(history) = HistoryCap

Increasing(q)  == \A i, j \in 1 .. Len(q) : i < j => q[i] < q[j]
Before(q, r)   == \A i \in 1 .. Len(q), j \in 1 .. Len(r) : q[i] < r[j]
UpTo(q, n)     == \A i \in 1 .. Len(q) : q[i] <= n

\* What a session has told, will replay and has in its channel, each in order
\* and one before the other.
OrderOK(s) ==
    /\ Increasing(got[s]) /\ Increasing(todo[s]) /\ Increasing(queue[s])
    /\ Before(got[s], todo[s]) /\ Before(got[s], queue[s]) /\ Before(todo[s], queue[s])
    /\ UpTo(got[s], published) /\ UpTo(todo[s], published) /\ UpTo(queue[s], published)

OrderInv == \A s \in Sessions : OrderOK(s)

\* A connection is open at both ends, and belongs to one page.
LinkInv ==
    /\ \A v \in Viewers :
          /\ page[v] = "open" <=> link[v] # NoSession
          /\ page[v] = "open" => link[v] \in Sessions /\ state[link[v]] = "open"
    /\ \A v, w \in Viewers : link[v] = link[w] /\ link[v] # NoSession => v = w
    /\ \A s \in Sessions : state[s] = "idle" =>
          got[s] = <<>> /\ todo[s] = <<>> /\ queue[s] = <<>> /\ dropped[s] = {}

\* Where the events of a session are; a page knows of all that were published
\* since its snapshot begins.
Known(s) == ToSet(got[s]) \cup ToSet(todo[s]) \cup ToSet(queue[s]) \cup dropped[s]

WholeInv ==
    /\ \A s \in Sessions : from[s] <= published + 1
    /\ \A v \in Viewers : page[v] = "open" => Known(link[v]) = from[link[v]] .. published

Inv == TypeOK /\ HistoryInv /\ OrderInv /\ LinkInv /\ WholeInv /\ EndIsLast
------------------------------------------------------------------------------
(* Sequences of events.                                                     *)

\* What Append adds.
LEMMA Appended ==
    ASSUME NEW q \in Seq(Events), NEW e \in Events
    PROVE  /\ Append(q, e) \in Seq(Events) /\ Len(Append(q, e)) = Len(q) + 1
           /\ \A i \in 1 .. Len(q) : Append(q, e)[i] = q[i]
           /\ Append(q, e)[Len(q) + 1] = e
           /\ ToSet(Append(q, e)) = ToSet(q) \cup {e}
<1>1. /\ Append(q, e) \in Seq(Events) /\ Len(Append(q, e)) = Len(q) + 1
      /\ \A i \in 1 .. Len(q) : Append(q, e)[i] = q[i]
      /\ Append(q, e)[Len(q) + 1] = e
  OBVIOUS
<1>2. DOMAIN Append(q, e) = (1 .. Len(q)) \cup {Len(q) + 1} /\ DOMAIN q = 1 .. Len(q)
  BY <1>1
<1>3. ToSet(Append(q, e)) = ToSet(q) \cup {e}
  BY <1>1, <1>2 DEF ToSet
<1> QED
  BY <1>1, <1>3

\* What Tail leaves.
LEMMA Taken ==
    ASSUME NEW q \in Seq(Events), q # <<>>
    PROVE  /\ Head(q) \in Events /\ Head(q) = q[1] /\ Len(q) >= 1
           /\ Tail(q) \in Seq(Events) /\ Len(Tail(q)) = Len(q) - 1
           /\ \A i \in 1 .. Len(Tail(q)) : Tail(q)[i] = q[i + 1]
           /\ ToSet(q) = {Head(q)} \cup ToSet(Tail(q))
<1>1. /\ Head(q) \in Events /\ Head(q) = q[1] /\ Len(q) >= 1
      /\ Tail(q) \in Seq(Events) /\ Len(Tail(q)) = Len(q) - 1
      /\ \A i \in 1 .. Len(Tail(q)) : Tail(q)[i] = q[i + 1]
  BY HeadTailProperties
<1>2. DOMAIN Tail(q) = 1 .. (Len(q) - 1) /\ DOMAIN q = 1 .. Len(q)
  BY <1>1
<1>3. ASSUME NEW i \in 1 .. Len(q) PROVE q[i] = Head(q) \/ \E j \in DOMAIN Tail(q) : q[i] = Tail(q)[j]
  <2>1. i = 1 \/ (i - 1 \in 1 .. Len(Tail(q)) /\ q[i] = Tail(q)[i - 1])
    BY <1>1
  <2> QED
    BY <1>1, <1>2, <2>1
<1>4. \A j \in DOMAIN Tail(q) : j + 1 \in 1 .. Len(q) /\ Tail(q)[j] = q[j + 1]
  BY <1>1, <1>2
<1>5. ToSet(q) = {Head(q)} \cup ToSet(Tail(q))
  BY <1>1, <1>2, <1>3, <1>4 DEF ToSet
<1> QED
  BY <1>1, <1>5

\* Taking the first event of one sequence to the end of another keeps both in order.
LEMMA Moved ==
    ASSUME NEW g \in Seq(Events), NEW t \in Seq(Events), t # <<>>,
           Increasing(g), Increasing(t), Before(g, t)
    PROVE  /\ Increasing(Append(g, Head(t))) /\ Increasing(Tail(t))
           /\ Before(Append(g, Head(t)), Tail(t))
<1> DEFINE h == Append(g, Head(t))
           u == Tail(t)
<1>1. /\ Len(h) = Len(g) + 1 /\ Len(g) \in Nat /\ Len(t) \in Nat /\ Len(t) >= 1
      /\ \A i \in 1 .. Len(g) : h[i] = g[i]
      /\ h[Len(g) + 1] = t[1]
      /\ Len(u) = Len(t) - 1 /\ \A i \in 1 .. Len(u) : u[i] = t[i + 1]
      /\ \A i \in 1 .. Len(t) : t[i] \in Int
      /\ \A i \in 1 .. Len(g) : g[i] \in Int
  BY Appended, Taken, EventAssumption DEF Events
<1> HIDE DEF h, u
<1>2. ASSUME NEW i \in 1 .. Len(h), NEW j \in 1 .. Len(h), i < j PROVE h[i] < h[j]
  <2>1. i \in 1 .. Len(g) /\ h[i] = g[i]
    BY <1>1, <1>2
  <2>2. CASE j \in 1 .. Len(g)
    BY <1>1, <1>2, <2>1, <2>2 DEF Increasing
  <2>3. CASE j = Len(g) + 1
    <3>1. 1 \in 1 .. Len(t)
      BY <1>1
    <3> QED
      BY <1>1, <2>1, <2>3, <3>1 DEF Before
  <2> QED
    BY <1>1, <2>2, <2>3
<1>3. \A i \in 1 .. Len(u) : i + 1 \in 1 .. Len(t)
  BY <1>1
<1>4. ASSUME NEW i \in 1 .. Len(u), NEW j \in 1 .. Len(u), i < j PROVE u[i] < u[j]
  <2>1. i + 1 < j + 1
    BY <1>1, <1>4
  <2> QED
    BY <1>1, <1>3, <1>4, <2>1 DEF Increasing
<1>5. ASSUME NEW i \in 1 .. Len(h), NEW j \in 1 .. Len(u) PROVE h[i] < u[j]
  <2>1. u[j] = t[j + 1] /\ j + 1 \in 1 .. Len(t) /\ 1 < j + 1 /\ 1 \in 1 .. Len(t)
    BY <1>1, <1>3
  <2>2. CASE i \in 1 .. Len(g)
    BY <1>1, <2>1, <2>2 DEF Before
  <2>3. CASE i = Len(g) + 1
    BY <1>1, <2>1, <2>3 DEF Increasing
  <2> QED
    BY <1>1, <2>2, <2>3
<1> QED
  BY <1>2, <1>4, <1>5 DEF h, u, Increasing, Before

\* A third sequence, after both, stays so.
LEMMA MovedBefore ==
    ASSUME NEW g \in Seq(Events), NEW t \in Seq(Events), NEW r \in Seq(Events), t # <<>>,
           Before(g, r), Before(t, r)
    PROVE  Before(Append(g, Head(t)), r) /\ Before(Tail(t), r)
BY Appended, Taken DEF Before

\* No event is newer for being moved.
LEMMA MovedUpTo ==
    ASSUME NEW g \in Seq(Events), NEW t \in Seq(Events), t # <<>>, NEW n,
           UpTo(g, n), UpTo(t, n)
    PROVE  UpTo(Append(g, Head(t)), n) /\ UpTo(Tail(t), n)
BY Appended, Taken DEF UpTo

\* A new event comes after all.
LEMMA Newest ==
    ASSUME NEW g \in Seq(Events), NEW q \in Seq(Events), NEW n \in Nat, n + 1 \in Events,
           UpTo(g, n), UpTo(q, n), Increasing(q), Before(g, q)
    PROVE  /\ Increasing(Append(q, n + 1)) /\ Before(g, Append(q, n + 1))
           /\ UpTo(Append(q, n + 1), n + 1) /\ UpTo(g, n + 1)
<1> DEFINE r == Append(q, n + 1)
<1>1. /\ Len(r) = Len(q) + 1 /\ Len(q) \in Nat /\ Len(g) \in Nat
      /\ \A i \in 1 .. Len(q) : r[i] = q[i]
      /\ r[Len(q) + 1] = n + 1
      /\ \A i \in 1 .. Len(g) : g[i] \in Int
      /\ \A i \in 1 .. Len(q) : q[i] \in Int
  BY Appended, EventAssumption DEF Events
<1> HIDE DEF r
<1>2. ASSUME NEW i \in 1 .. Len(r), NEW j \in 1 .. Len(r), i < j PROVE r[i] < r[j]
  <2>1. i \in 1 .. Len(q) /\ r[i] = q[i] /\ q[i] <= n
    BY <1>1, <1>2 DEF UpTo
  <2>2. CASE j \in 1 .. Len(q)
    BY <1>1, <1>2, <2>1, <2>2 DEF Increasing
  <2>3. CASE j = Len(q) + 1
    BY <1>1, <2>1, <2>3
  <2> QED
    BY <1>1, <2>2, <2>3
<1>3. Before(g, r)
  BY <1>1 DEF Before, UpTo
<1>4. UpTo(r, n + 1) /\ UpTo(g, n + 1)
  BY <1>1 DEF UpTo
<1> QED
  BY <1>2, <1>3, <1>4 DEF r, Increasing

\* What is left of a sequence is in order with what was before it.
LEMMA Shortened ==
    ASSUME NEW g \in Seq(Events), NEW t \in Seq(Events), t # <<>>, Before(g, t)
    PROVE  Before(g, Tail(t))
<1>1. \A i \in 1 .. Len(Tail(t)) : i + 1 \in 1 .. Len(t) /\ Tail(t)[i] = t[i + 1]
  BY Taken
<1> QED
  BY <1>1 DEF Before

\* The empty sequence is in order with everything.
LEMMA Nothing ==
    ASSUME NEW q, NEW n
    PROVE  /\ Increasing(<<>>) /\ Before(<<>>, q) /\ Before(q, <<>>) /\ UpTo(<<>>, n)
           /\ ToSet(<<>>) = {}
BY DEF Increasing, Before, UpTo, ToSet

\* What publishing an event makes of the history.
LEMMA Evicts ==
    ASSUME TypeOK, HistoryInv, NEW e \in Events, e = published + 1
    PROVE  LET h == Append(Evicted, e)
           IN  /\ h \in Seq(Events)
               /\ Len(h) <= e /\ Len(h) <= HistoryCap
               /\ \A i \in 1 .. Len(h) : h[i] = e - Len(h) + i
               /\ alive => Len(h) = e \/ Len(h) = HistoryCap
<1> DEFINE n == Len(history)
<1>1. /\ n \in Nat /\ HistoryCap \in Nat \ {0} /\ published \in Nat /\ n <= HistoryCap
      /\ history \in Seq(Events)
  BY CapAssumption, EventAssumption DEF TypeOK, HistoryInv
<1>2. CASE n >= HistoryCap
  <2>1. n = HistoryCap /\ Evicted = SubSeq(history, 2, n)
    BY <1>1, <1>2 DEF Evicted
  <2>2. \A i \in 2 .. n : history[i] \in Events
    BY <1>1
  <2>3. /\ Evicted \in Seq(Events) /\ Len(Evicted) = n - 1
        /\ \A i \in 1 .. n - 1 : Evicted[i] = history[i + 1]
    BY <1>1, <1>2, <2>1, <2>2, SubSeqProperties
  <2>4. \A i \in 1 .. n - 1 : Evicted[i] = e - n + i
    BY <1>1, <2>3 DEF HistoryInv
  <2> DEFINE h == Append(Evicted, e)
  <2>5. /\ h \in Seq(Events) /\ Len(h) = n
        /\ \A i \in 1 .. n - 1 : h[i] = Evicted[i]
        /\ h[n] = e
    BY <1>1, <2>3, Appended
  <2>6. \A i \in 1 .. n : h[i] = e - n + i
    BY <1>1, <2>4, <2>5
  <2>7. n <= e
    BY <1>1 DEF HistoryInv
  <2> HIDE DEF h
  <2>8. /\ h \in Seq(Events) /\ Len(h) <= e /\ Len(h) <= HistoryCap
        /\ \A i \in 1 .. Len(h) : h[i] = e - Len(h) + i
        /\ Len(h) = HistoryCap
    BY <2>1, <2>5, <2>6, <2>7
  <2> QED
    BY <2>8 DEF h
<1>3. CASE n < HistoryCap
  <2>1. Evicted = history
    BY <1>1, <1>3 DEF Evicted
  <2> QED
    BY <1>1, <1>3, <2>1, Appended DEF HistoryInv
<1> QED
  BY <1>1, <1>2, <1>3
------------------------------------------------------------------------------
\* A hub that has told nobody anything satisfies the invariant.
LEMMA InvInit == Init => Inv
<1> SUFFICES ASSUME Init PROVE Inv
  OBVIOUS
<1>1. TypeOK
  BY EventAssumption, EmptySeq DEF Init, TypeOK, Pages, Events
<1>2. HistoryInv
  BY CapAssumption DEF Init, HistoryInv
<1>3. OrderInv /\ LinkInv /\ WholeInv
  BY Nothing DEF Init, OrderInv, OrderOK, LinkInv, WholeInv
<1>4. EndIsLast
  BY DEF Init, EndIsLast
<1> QED
  BY <1>1, <1>2, <1>3, <1>4 DEF Inv

\* The parts of Publish that the lemmas use.
LEMMA PublishIs ==
    ASSUME TypeOK, Publish
    PROVE  \E e \in Events :
             /\ e = published + 1 /\ published' = e /\ alive
             /\ history' = Append(Evicted, e)
             /\ \A s \in Sessions :
                   \/ /\ state[s] = "open"
                      /\ queue'[s] = Append(queue[s], e) /\ dropped'[s] = dropped[s]
                   \/ /\ state[s] = "open"
                      /\ queue'[s] = queue[s] /\ dropped'[s] = dropped[s] \cup {e}
                   \/ state[s] # "open" /\ queue'[s] = queue[s] /\ dropped'[s] = dropped[s]
             /\ queue' = [s \in Sessions |-> queue'[s]]
             /\ dropped' = [s \in Sessions |-> dropped'[s]]
             /\ UNCHANGED <<alive, state, todo, from, got, viewers, restarts>>
BY DEF Publish, Publishes, FanOut, TypeOK

\* The handler of a session: what it takes, and from where, and whether it is told.
Takes(s, e, told) ==
    /\ e \in Events
    /\ state[s] = "open"
    /\ \/ /\ todo[s] # <<>> /\ e = Head(todo[s])
          /\ todo' = [todo EXCEPT ![s] = Tail(todo[s])] /\ queue' = queue
       \/ /\ todo[s] = <<>> /\ queue[s] # <<>> /\ e = Head(queue[s])
          /\ queue' = [queue EXCEPT ![s] = Tail(queue[s])] /\ todo' = todo
    /\ got' = IF told THEN [got EXCEPT ![s] = Append(got[s], e)] ELSE got
    /\ UNCHANGED <<hub, from, dropped, restarts>>

LEMMA HandlerTakes ==
    ASSUME TypeOK, NEW s \in Sessions, Replay(s) \/ Drain(s)
    PROVE  \E e \in Events :
             \/ /\ Takes(s, e, TRUE)
                /\ Sends(s, e)
             \/ /\ Takes(s, e, FALSE)
                /\ SendsInVain(s)
<1>1. CASE Replay(s)
  <2>1. todo[s] \in Seq(Events) /\ todo[s] # <<>> /\ state[s] = "open"
        /\ todo' = [todo EXCEPT ![s] = Tail(todo[s])] /\ queue' = queue
        /\ UNCHANGED <<hub, from, dropped, restarts>>
    BY <1>1 DEF Replay, TypeOK
  <2>2. Head(todo[s]) \in Events
    BY <2>1, Taken
  <2>3. CASE Sends(s, Head(todo[s]))
    BY <2>1, <2>2, <2>3 DEF Sends, Takes
  <2>4. CASE SendsInVain(s)
    BY <2>1, <2>2, <2>4 DEF SendsInVain, Takes
  <2> QED
    BY <1>1, <2>3, <2>4 DEF Replay
<1>2. CASE Drain(s)
  <2>1. queue[s] \in Seq(Events) /\ queue[s] # <<>> /\ todo[s] = <<>> /\ state[s] = "open"
        /\ queue' = [queue EXCEPT ![s] = Tail(queue[s])] /\ todo' = todo
        /\ UNCHANGED <<hub, from, dropped, restarts>>
    BY <1>2 DEF Drain, TypeOK
  <2>2. Head(queue[s]) \in Events
    BY <2>1, Taken
  <2>3. CASE Sends(s, Head(queue[s]))
    BY <2>1, <2>2, <2>3 DEF Sends, Takes
  <2>4. CASE SendsInVain(s)
    BY <2>1, <2>2, <2>4 DEF SendsInVain, Takes
  <2> QED
    BY <1>2, <2>3, <2>4 DEF Drain
<1> QED
  BY <1>1, <1>2

\* The variables keep their types.
LEMMA TypeStep == Inv /\ [Next]_vars => TypeOK'
<1> SUFFICES ASSUME Inv, [Next]_vars PROVE TypeOK'
  OBVIOUS
<1>a. TypeOK /\ HistoryInv
  BY DEF Inv
<1> USE DEF hub, sessions, viewers
<1>1. CASE Publish
  <2>1. PICK e \in Events :
             /\ e = published + 1 /\ published' = e
             /\ history' = Append(Evicted, e)
             /\ \A s \in Sessions : queue'[s] \in {queue[s], Append(queue[s], e)}
             /\ \A s \in Sessions : dropped'[s] \in {dropped[s], dropped[s] \cup {e}}
             /\ queue' = [s \in Sessions |-> queue'[s]]
             /\ dropped' = [s \in Sessions |-> dropped'[s]]
             /\ UNCHANGED <<alive, state, todo, from, got, viewers, restarts>>
    BY <1>a, <1>1, PublishIs
  <2>2. history' \in Seq(Events)
    BY <1>a, <2>1, Evicts
  <2>3. queue' \in [Sessions -> Seq(Events)]
    <3>1. ASSUME NEW s \in Sessions PROVE queue'[s] \in Seq(Events)
      <4>1. queue[s] \in Seq(Events)
        BY <1>a DEF TypeOK
      <4>2. Append(queue[s], e) \in Seq(Events)
        BY <4>1, Appended
      <4> QED
        BY <2>1, <4>1, <4>2
    <3> QED
      BY <2>1, <3>1
  <2>4. dropped' \in [Sessions -> SUBSET Events]
    <3>1. ASSUME NEW s \in Sessions PROVE dropped'[s] \in SUBSET Events
      <4>1. dropped[s] \in SUBSET Events
        BY <1>a DEF TypeOK
      <4> QED
        BY <2>1, <4>1
    <3> QED
      BY <2>1, <3>1
  <2>5. published' \in 0 .. LastEvent
    BY <2>1, EventAssumption DEF Events
  <2> QED
    BY <1>a, <2>1, <2>2, <2>3, <2>4, <2>5 DEF TypeOK
<1>2. ASSUME NEW v \in Viewers, NEW s \in Sessions, Subscribe(v, s) PROVE TypeOK'
  <2>1. (published + 1) - Len(history) \in Nat
    BY <1>a, EventAssumption DEF TypeOK, HistoryInv
  <2>2. from' \in [Sessions -> Nat] /\ todo' \in [Sessions -> Seq(Events)]
    BY <1>a, <1>2, <2>1 DEF Subscribe, Opens, TypeOK
  <2>3. state' \in [Sessions -> {"idle", "open", "closed"}] /\ page' \in [Viewers -> Pages]
        /\ link' \in [Viewers -> Sessions \cup {NoSession}]
    BY <1>a, <1>2 DEF Subscribe, Opens, TypeOK, Pages
  <2> QED
    BY <1>a, <1>2, <2>2, <2>3 DEF Subscribe, Opens, TypeOK
<1>3. ASSUME NEW v \in Viewers, NoToken(v) \/ Break(v) \/ Reconnect(v) PROVE TypeOK'
  BY <1>a, <1>3 DEF NoToken, Break, Reconnect, TypeOK, Pages
<1>4. ASSUME NEW s \in Sessions, Replay(s) \/ Drain(s) PROVE TypeOK'
  <2>1. PICK e \in Events, told \in BOOLEAN : Takes(s, e, told) /\ (Sends(s, e) \/ SendsInVain(s))
    BY <1>a, <1>4, HandlerTakes
  <2>2. todo' \in [Sessions -> Seq(Events)] /\ queue' \in [Sessions -> Seq(Events)]
    BY <1>a, <2>1, Taken DEF Takes, TypeOK
  <2>3. got' \in [Sessions -> Seq(Events)]
    BY <1>a, <2>1, Appended DEF Takes, TypeOK
  <2>4. state' \in [Sessions -> {"idle", "open", "closed"}] /\ page' \in [Viewers -> Pages]
        /\ link' \in [Viewers -> Sessions \cup {NoSession}]
    BY <1>a, <2>1 DEF Sends, SendsInVain, TypeOK, Pages
  <2> QED
    BY <1>a, <2>1, <2>2, <2>3, <2>4 DEF Takes, TypeOK
<1>5. ASSUME NEW s \in Sessions, TimesOut(s) PROVE TypeOK'
  BY <1>a, <1>5 DEF TimesOut, TypeOK, Pages
<1>6. CASE Restart
  <2>1. <<>> \in Seq(Events)
    BY EmptySeq
  <2>2. state' \in [Sessions -> {"idle", "open", "closed"}] /\ page' \in [Viewers -> Pages]
    BY <1>a, <1>6 DEF Restart, TypeOK, Pages
  <2>3. alive' = FALSE /\ restarts' = restarts + 1 /\ link' = [v \in Viewers |-> NoSession]
    BY <1>6 DEF Restart
  <2>6. link' \in [Viewers -> Sessions \cup {NoSession}]
    BY <2>3
  <2>7. restarts' \in Nat
    BY <1>a, <2>3 DEF TypeOK
  <2>4. history' \in Seq(Events) /\ todo' \in [Sessions -> Seq(Events)]
        /\ queue' \in [Sessions -> Seq(Events)]
    BY <1>6, <2>1 DEF Restart
  <2>5. UNCHANGED <<published, from, got, dropped>>
    BY <1>6 DEF Restart
  <2> QED
    BY <1>a, <2>2, <2>3, <2>4, <2>5, <2>6, <2>7 DEF TypeOK
<1>7. CASE UNCHANGED vars
  BY <1>a, <1>7 DEF vars, TypeOK
<1> QED
  BY <1>1, <1>2, <1>3, <1>4, <1>5, <1>6, <1>7 DEF Next, Connect

\* The history stays an interval that ends at the last event.
LEMMA HistoryStep == Inv /\ [Next]_vars => HistoryInv'
<1> SUFFICES ASSUME Inv, [Next]_vars PROVE HistoryInv'
  OBVIOUS
<1>a. TypeOK /\ HistoryInv
  BY DEF Inv
<1>1. CASE Publish
  <2>1. PICK e \in Events : /\ e = published + 1 /\ published' = e /\ alive' = alive
                            /\ history' = Append(Evicted, e)
    BY <1>a, <1>1, PublishIs
  <2> QED
    BY <1>a, <2>1, Evicts DEF HistoryInv
<1>2. CASE Restart
  BY <1>a, <1>2, CapAssumption, EventAssumption DEF Restart, HistoryInv, TypeOK
<1>3. CASE UNCHANGED hub
  BY <1>a, <1>3 DEF hub, HistoryInv
<1>4. Publish \/ Restart \/ UNCHANGED hub
  BY DEF Next, Connect, NoToken, Subscribe, Opens, Break, Reconnect, Replay, Drain, TimesOut,
         hub, vars
<1> QED
  BY <1>1, <1>2, <1>3, <1>4

\* Snapshot and channel keep the order of publication on every connection.
LEMMA OrderStep == Inv /\ [Next]_vars => OrderInv'
<1> SUFFICES ASSUME Inv, [Next]_vars, NEW s \in Sessions PROVE OrderOK(s)'
  BY DEF OrderInv
<1>a. /\ TypeOK /\ HistoryInv /\ OrderOK(s)
      /\ got[s] \in Seq(Events) /\ todo[s] \in Seq(Events) /\ queue[s] \in Seq(Events)
      /\ published \in Nat
  BY EventAssumption DEF Inv, OrderInv, TypeOK
<1>b. ASSUME UNCHANGED <<got, todo, queue, published>> PROVE OrderOK(s)'
  BY <1>a, <1>b DEF OrderOK
<1>1. CASE Publish
  <2>1. PICK e \in Events :
             /\ e = published + 1 /\ published' = e
             /\ queue'[s] \in {queue[s], Append(queue[s], e)}
             /\ UNCHANGED <<todo, got>>
    BY <1>a, <1>1, PublishIs
  <2>2. UpTo(queue[s], published + 1) /\ UpTo(todo[s], published + 1) /\ UpTo(got[s], published + 1)
    <3>1. ASSUME NEW q \in Seq(Events), UpTo(q, published) PROVE UpTo(q, published + 1)
      <4>1. \A i \in 1 .. Len(q) : q[i] \in Int
        BY EventAssumption DEF Events
      <4> QED
        BY <1>a, <3>1, <4>1 DEF UpTo
    <3> QED
      BY <1>a, <3>1 DEF OrderOK
  <2>3. CASE queue'[s] = queue[s]
    BY <1>a, <2>1, <2>2, <2>3 DEF OrderOK
  <2>4. CASE queue'[s] = Append(queue[s], published + 1)
    <3>1. /\ Increasing(queue'[s]) /\ Before(got[s], queue'[s]) /\ Before(todo[s], queue'[s])
          /\ UpTo(queue'[s], published + 1)
      BY <1>a, <2>1, <2>4, Newest DEF OrderOK
    <3> QED
      BY <1>a, <2>1, <2>2, <3>1 DEF OrderOK
  <2> QED
    BY <2>1, <2>3, <2>4
<1>2. ASSUME NEW v \in Viewers, NEW r \in Sessions, Subscribe(v, r) PROVE OrderOK(s)'
  <2>1. UNCHANGED <<got, queue, published>> /\ todo' = [todo EXCEPT ![r] = history]
        /\ state[r] = "idle"
    BY <1>2 DEF Subscribe, Opens, hub
  <2>2. CASE r # s
    BY <1>a, <2>1, <2>2 DEF OrderOK, TypeOK
  <2>3. CASE r = s
    <3>1. got[s] = <<>> /\ queue[s] = <<>> /\ todo'[s] = history
      BY <1>a, <2>1, <2>3 DEF Inv, LinkInv, TypeOK
    <3>2. Increasing(history) /\ UpTo(history, published)
      BY <1>a DEF HistoryInv, Increasing, UpTo, TypeOK
    <3> QED
      BY <2>1, <3>1, <3>2, Nothing DEF OrderOK
  <2> QED
    BY <2>2, <2>3
<1>3. ASSUME NEW r \in Sessions, Replay(r) \/ Drain(r) PROVE OrderOK(s)'
  <2>1. PICK e \in Events, told \in BOOLEAN : Takes(r, e, told)
    BY <1>a, <1>3, HandlerTakes
  <2>2. CASE r # s
    <3>1. got'[s] = got[s] /\ todo'[s] = todo[s] /\ queue'[s] = queue[s] /\ published' = published
      BY <1>a, <2>1, <2>2 DEF Takes, TypeOK, hub
    <3> QED
      BY <1>a, <3>1 DEF OrderOK
  <2>3. CASE r = s /\ todo[s] # <<>>
    <3>1. /\ todo'[s] = Tail(todo[s]) /\ queue'[s] = queue[s] /\ published' = published
          /\ got'[s] \in {got[s], Append(got[s], Head(todo[s]))}
      BY <1>a, <2>1, <2>3 DEF Takes, TypeOK, hub
    <3>2. /\ Increasing(todo'[s]) /\ Before(todo'[s], queue'[s]) /\ UpTo(todo'[s], published)
      BY <1>a, <2>3, <3>1, Moved, MovedBefore, MovedUpTo DEF OrderOK
    <3>3. CASE got'[s] = got[s]
      BY <1>a, <2>3, <3>1, <3>2, <3>3, Shortened DEF OrderOK
    <3>4. CASE got'[s] = Append(got[s], Head(todo[s]))
      BY <1>a, <2>3, <3>1, <3>2, <3>4, Moved, MovedBefore, MovedUpTo DEF OrderOK
    <3> QED
      BY <3>1, <3>3, <3>4
  <2>4. CASE r = s /\ todo[s] = <<>>
    <3>1. /\ todo'[s] = <<>> /\ queue[s] # <<>> /\ queue'[s] = Tail(queue[s])
          /\ published' = published
          /\ got'[s] \in {got[s], Append(got[s], Head(queue[s]))}
      BY <1>a, <2>1, <2>4 DEF Takes, TypeOK, hub
    <3>2. Increasing(queue'[s]) /\ UpTo(queue'[s], published)
      BY <1>a, <3>1, Moved, MovedUpTo DEF OrderOK
    <3>3. CASE got'[s] = got[s]
      BY <1>a, <3>1, <3>2, <3>3, Shortened, Nothing DEF OrderOK
    <3>4. CASE got'[s] = Append(got[s], Head(queue[s]))
      BY <1>a, <3>1, <3>2, <3>4, Moved, MovedUpTo, Nothing DEF OrderOK
    <3> QED
      BY <3>1, <3>3, <3>4
  <2> QED
    BY <2>2, <2>3, <2>4
<1>4. CASE Restart
  <2>1. todo'[s] = <<>> /\ queue'[s] = <<>> /\ UNCHANGED <<got, published>>
    BY <1>4 DEF Restart
  <2> QED
    BY <1>a, <2>1, Nothing DEF OrderOK
<1>5. ASSUME NEW v \in Viewers, NoToken(v) \/ Break(v) \/ Reconnect(v) PROVE OrderOK(s)'
  BY <1>b, <1>5 DEF NoToken, Break, Reconnect, hub, sessions
<1>6. ASSUME NEW r \in Sessions, TimesOut(r) PROVE OrderOK(s)'
  BY <1>b, <1>6 DEF TimesOut, hub
<1>7. CASE UNCHANGED vars
  BY <1>b, <1>7 DEF vars
<1> QED
  BY <1>1, <1>2, <1>3, <1>4, <1>5, <1>6, <1>7 DEF Next, Connect

\* A connection is open at both ends: it closes for the page when the handler
\* closes it, and the handler of another page's connection does not.
LEMMA LinkStep == Inv /\ [Next]_vars => LinkInv'
<1> SUFFICES ASSUME Inv, [Next]_vars PROVE LinkInv'
  OBVIOUS
<1>a. TypeOK /\ LinkInv /\ NoSession \notin Sessions
  BY SessionAssumption DEF Inv
<1> USE DEF hub, sessions, viewers
<1>1. CASE Publish
  BY <1>a, <1>1, PublishIs DEF LinkInv
<1>2. ASSUME NEW v \in Viewers, NEW s \in Sessions, Subscribe(v, s) PROVE LinkInv'
  <2>1. /\ page[v] = "connecting" /\ state[s] = "idle"
        /\ state' = [state EXCEPT ![s] = "open"] /\ page' = [page EXCEPT ![v] = "open"]
        /\ link' = [link EXCEPT ![v] = s] /\ todo' = [todo EXCEPT ![s] = history]
        /\ UNCHANGED <<got, queue, dropped>>
    BY <1>2 DEF Subscribe, Opens
  <2>2. \A w \in Viewers : link[w] # s
    BY <1>a, <2>1 DEF LinkInv
  <2> QED
    BY <1>a, <2>1, <2>2 DEF LinkInv, TypeOK
<1>3. ASSUME NEW v \in Viewers, NoToken(v) \/ Break(v) \/ Reconnect(v) PROVE LinkInv'
  <2>2. /\ page[v] \in {"connecting", "waiting", "open"}
        /\ \E l \in Pages \ {"open"} : page' = [page EXCEPT ![v] = l]
        /\ link' = IF page[v] = "open" THEN [link EXCEPT ![v] = NoSession] ELSE link
    BY <1>3 DEF NoToken, Break, Reconnect, Pages
  <2>3. UNCHANGED <<state, got, todo, queue, dropped>>
    BY <1>3 DEF NoToken, Break, Reconnect
  <2> QED
    BY <1>a, <2>2, <2>3 DEF LinkInv, TypeOK
<1>4. ASSUME NEW s \in Sessions, Replay(s) \/ Drain(s) PROVE LinkInv'
  <2>1. PICK e \in Events, told \in BOOLEAN : Takes(s, e, told) /\ (Sends(s, e) \/ SendsInVain(s))
    BY <1>a, <1>4, HandlerTakes
  <2>2. \A r \in Sessions : /\ dropped'[r] = dropped[r]
                            /\ r # s => /\ got'[r] = got[r] /\ todo'[r] = todo[r]
                                        /\ queue'[r] = queue[r]
    BY <1>a, <2>1 DEF Takes, TypeOK
  <2>3. state[s] = "open"
    BY <2>1 DEF Takes
  <2>4. CASE UNCHANGED <<state, viewers>>
    BY <1>a, <2>2, <2>3, <2>4 DEF LinkInv
  <2>5. CASE SendsInVain(s)
    BY <1>a, <2>2, <2>3, <2>5 DEF LinkInv, SendsInVain, Orphaned, Linked, TypeOK
  <2>6. ASSUME NEW v \in Viewers, link[v] = s, state' = [state EXCEPT ![s] = "closed"],
               page' = [page EXCEPT ![v] = "done"], link' = [link EXCEPT ![v] = NoSession]
        PROVE  LinkInv'
    BY <1>a, <2>2, <2>3, <2>6 DEF LinkInv, TypeOK
  <2> QED
    BY <2>1, <2>4, <2>5, <2>6 DEF Sends, Linked
<1>5. ASSUME NEW s \in Sessions, TimesOut(s) PROVE LinkInv'
  <2>1. \A v \in Viewers : IF link[v] = s THEN page'[v] = "waiting" /\ link'[v] = NoSession
                            ELSE page'[v] = page[v] /\ link'[v] = link[v]
    BY <1>5 DEF TimesOut, Linked
  <2>2. state[s] = "open" /\ state' = [state EXCEPT ![s] = "closed"]
        /\ UNCHANGED <<got, todo, queue, dropped>>
    BY <1>5 DEF TimesOut
  <2>3. state'[s] = "closed" /\ \A r \in Sessions : r # s => state'[r] = state[r]
    BY <1>a, <2>2 DEF TypeOK
  <2>4. \A v \in Viewers : /\ page'[v] = "open" <=> link'[v] # NoSession
                           /\ page'[v] = "open" => link'[v] \in Sessions /\ state'[link'[v]] = "open"
    BY <1>a, <2>1, <2>3 DEF LinkInv
  <2>5. \A v, w \in Viewers : link'[v] = link'[w] /\ link'[v] # NoSession => v = w
    BY <1>a, <2>1 DEF LinkInv
  <2>6. \A r \in Sessions : state'[r] = "idle" =>
          got'[r] = <<>> /\ todo'[r] = <<>> /\ queue'[r] = <<>> /\ dropped'[r] = {}
    BY <1>a, <2>2, <2>3 DEF LinkInv
  <2> QED
    BY <2>4, <2>5, <2>6 DEF LinkInv
<1>6. CASE Restart
  <2>1. \A v \in Viewers : link'[v] = NoSession /\ page'[v] # "open"
    BY <1>a, <1>6 DEF Restart, TypeOK
  <2>2. \A s \in Sessions : state'[s] = "idle" => /\ state[s] = "idle"
                                                  /\ todo'[s] = <<>> /\ queue'[s] = <<>>
    BY <1>a, <1>6 DEF Restart, TypeOK
  <2>3. UNCHANGED <<got, dropped>>
    BY <1>6 DEF Restart
  <2> QED
    BY <1>a, <2>1, <2>2, <2>3 DEF LinkInv
<1>7. CASE UNCHANGED vars
  BY <1>a, <1>7 DEF vars, LinkInv
<1> QED
  BY <1>1, <1>2, <1>3, <1>4, <1>5, <1>6, <1>7 DEF Next, Connect

\* The snapshot is the interval that ends at the last event.
LEMMA Snapshot ==
    ASSUME TypeOK, HistoryInv
    PROVE  ToSet(history) = (published + 1) - Len(history) .. published
<1> DEFINE n == Len(history)
<1>1. n \in Nat /\ published \in Nat /\ n <= published /\ DOMAIN history = 1 .. n
  BY EventAssumption DEF TypeOK, HistoryInv
<1>2. \A i \in 1 .. n : history[i] = published - n + i
  BY DEF HistoryInv
<1>3. ASSUME NEW i \in 1 .. n PROVE history[i] \in (published + 1) - n .. published
  BY <1>1, <1>2
<1>4. ASSUME NEW e \in (published + 1) - n .. published PROVE \E i \in 1 .. n : history[i] = e
  <2>1. e - published + n \in 1 .. n /\ published - n + (e - published + n) = e
    BY <1>1
  <2> QED
    BY <1>2, <2>1
<1> QED
  BY <1>1, <1>3, <1>4 DEF ToSet

\* What a handler tells its page, it has taken from the snapshot or the channel.
LEMMA TakesKnown ==
    ASSUME TypeOK, NEW s \in Sessions, NEW e, Takes(s, e, TRUE)
    PROVE  Known(s)' = Known(s) /\ \A r \in Sessions \ {s} : Known(r)' = Known(r)
<1>1. got[s] \in Seq(Events) /\ todo[s] \in Seq(Events) /\ queue[s] \in Seq(Events) /\ e \in Events
  BY DEF TypeOK, Takes
<1>2. got'[s] = Append(got[s], e) /\ dropped' = dropped
      /\ \A r \in Sessions \ {s} : got'[r] = got[r] /\ todo'[r] = todo[r] /\ queue'[r] = queue[r]
  BY DEF Takes, TypeOK
<1>3. ToSet(got'[s]) = ToSet(got[s]) \cup {e}
  BY <1>1, <1>2, Appended
<1>4. \/ ToSet(todo[s]) = {e} \cup ToSet(todo'[s]) /\ queue'[s] = queue[s]
      \/ ToSet(queue[s]) = {e} \cup ToSet(queue'[s]) /\ todo'[s] = todo[s]
  BY <1>1, Taken DEF Takes, TypeOK
<1> QED
  BY <1>2, <1>3, <1>4 DEF Known

\* Nothing falls between the snapshot and the channel.
LEMMA WholeStep == Inv /\ [Next]_vars => WholeInv'
<1> SUFFICES ASSUME Inv, [Next]_vars PROVE WholeInv'
  OBVIOUS
<1>a. /\ TypeOK /\ HistoryInv /\ LinkInv /\ WholeInv /\ published \in Nat
      /\ NoSession \notin Sessions
  BY EventAssumption, SessionAssumption DEF Inv, TypeOK
<1> USE DEF hub, sessions, viewers
<1>b. ASSUME UNCHANGED <<published, from>>,
             \A v \in Viewers : page'[v] = "open" =>
                 page[v] = "open" /\ link'[v] = link[v] /\ Known(link[v])' = Known(link[v])
      PROVE  WholeInv'
  <2>1. ASSUME NEW v \in Viewers, page'[v] = "open"
        PROVE  Known(link[v])' = from[link[v]] .. published /\ link'[v] = link[v]
    BY <1>a, <1>b, <2>1 DEF WholeInv
  <2>2. ASSUME NEW v \in Viewers, page'[v] = "open"
        PROVE  (Known(link[v]) = from[link[v]] .. published)'
    BY <1>b, <2>1, <2>2 DEF Known
  <2> QED
    BY <1>a, <1>b, <2>2 DEF WholeInv
<1>1. CASE Publish
  <2>1. PICK e \in Events :
             /\ e = published + 1 /\ published' = e
             /\ \A s \in Sessions : state[s] = "open" =>
                   \/ queue'[s] = Append(queue[s], e) /\ dropped'[s] = dropped[s]
                   \/ queue'[s] = queue[s] /\ dropped'[s] = dropped[s] \cup {e}
             /\ UNCHANGED <<state, todo, from, got, viewers>>
    BY <1>a, <1>1, PublishIs
  <2>2. \A s \in Sessions : from[s] \in Nat /\ from[s] <= published + 1
    BY <1>a DEF WholeInv, TypeOK
  <2>3. ASSUME NEW v \in Viewers, page[v] = "open"
        PROVE  (Known(link[v]) = from[link[v]] .. published)'
    <3>1. /\ link[v] \in Sessions /\ state[link[v]] = "open"
          /\ queue[link[v]] \in Seq(Events)
      BY <1>a, <2>3 DEF LinkInv, TypeOK
    <3>2. Known(link[v])' = Known(link[v]) \cup {e}
      <4>1. CASE queue'[link[v]] = Append(queue[link[v]], e) /\ dropped'[link[v]] = dropped[link[v]]
        <5>1. ToSet(queue'[link[v]]) = ToSet(queue[link[v]]) \cup {e}
          BY <3>1, <4>1, Appended
        <5> QED
          BY <2>1, <4>1, <5>1 DEF Known
      <4>2. CASE /\ queue'[link[v]] = queue[link[v]]
                 /\ dropped'[link[v]] = dropped[link[v]] \cup {e}
        BY <2>1, <4>2 DEF Known
      <4> QED
        BY <2>1, <3>1, <4>1, <4>2
    <3>3. Known(link[v]) = from[link[v]] .. published
      BY <1>a, <2>3 DEF WholeInv
    <3>4. from[link[v]] .. e = (from[link[v]] .. published) \cup {e}
      BY <1>a, <2>1, <2>2, <3>1
    <3> QED
      BY <2>1, <3>2, <3>3, <3>4 DEF Known
  <2>4. \A s \in Sessions : from'[s] <= published' + 1
    BY <1>a, <2>1, <2>2
  <2> QED
    BY <2>1, <2>3, <2>4 DEF WholeInv
<1>2. ASSUME NEW v \in Viewers, NEW s \in Sessions, Subscribe(v, s) PROVE WholeInv'
  <2>1. /\ page[v] = "connecting" /\ state[s] = "idle" /\ page' = [page EXCEPT ![v] = "open"]
        /\ link' = [link EXCEPT ![v] = s] /\ todo' = [todo EXCEPT ![s] = history]
        /\ from' = [from EXCEPT ![s] = (published + 1) - Len(history)]
        /\ UNCHANGED <<published, got, queue, dropped>>
    BY <1>2 DEF Subscribe, Opens
  <2>2. got'[s] = <<>> /\ queue'[s] = <<>> /\ dropped'[s] = {} /\ todo'[s] = history
    BY <1>a, <2>1 DEF LinkInv, TypeOK
  <2>3. Known(s)' = (published + 1) - Len(history) .. published
    BY <1>a, <2>2, Snapshot, Nothing DEF Known
  <2>4. from'[s] = (published + 1) - Len(history) /\ Len(history) \in Nat
        /\ \A r \in Sessions \ {s} : from'[r] = from[r]
    BY <1>a, <2>1 DEF TypeOK
  <2>5. (Known(link[v]) = from[link[v]] .. published)'
    <3>1. link'[v] = s /\ published' = published
      BY <1>a, <2>1 DEF TypeOK
    <3> QED
      BY <2>3, <2>4, <3>1 DEF Known
  <2>6. ASSUME NEW w \in Viewers \ {v}, page'[w] = "open"
        PROVE  (Known(link[w]) = from[link[w]] .. published)'
    <3>1. page[w] = "open" /\ link'[w] = link[w] /\ link[w] \in Sessions \ {s}
      BY <1>a, <2>1, <2>6 DEF LinkInv, TypeOK
    <3>2. /\ todo'[link[w]] = todo[link[w]] /\ from'[link[w]] = from[link[w]]
      BY <1>a, <2>1, <3>1 DEF TypeOK
    <3>3. Known(link[w])' = Known(link[w])
      BY <2>1, <3>1, <3>2 DEF Known
    <3>4. Known(link[w]) = from[link[w]] .. published
      BY <1>a, <3>1 DEF WholeInv
    <3> QED
      BY <2>1, <3>1, <3>2, <3>3, <3>4 DEF Known
  <2>7. \A r \in Sessions : from'[r] <= published' + 1
    BY <1>a, <2>1, <2>4 DEF WholeInv
  <2> QED
    BY <2>5, <2>6, <2>7 DEF WholeInv
<1>3. ASSUME NEW v \in Viewers, NoToken(v) \/ Break(v) \/ Reconnect(v) PROVE WholeInv'
  <2>1. /\ \E l \in Pages \ {"open"} : page' = [page EXCEPT ![v] = l]
        /\ link' = link \/ link' = [link EXCEPT ![v] = NoSession]
        /\ UNCHANGED <<published, state, got, todo, queue, dropped, from>>
    BY <1>3 DEF NoToken, Break, Reconnect, Pages
  <2>2. \A w \in Viewers : page'[w] = "open" => page[w] = "open" /\ link'[w] = link[w]
    BY <1>a, <2>1 DEF TypeOK
  <2>3. \A s \in Sessions : Known(s)' = Known(s)
    BY <2>1 DEF Known
  <2> QED
    BY <1>a, <1>b, <2>1, <2>2, <2>3 DEF LinkInv
<1>4. ASSUME NEW s \in Sessions, Replay(s) \/ Drain(s) PROVE WholeInv'
  <2>1. PICK e \in Events : \/ Takes(s, e, TRUE) /\ Sends(s, e)
                            \/ Takes(s, e, FALSE) /\ SendsInVain(s)
    BY <1>a, <1>4, HandlerTakes
  <2>2. UNCHANGED <<published, from>>
    BY <2>1 DEF Takes
  <2>3. CASE Takes(s, e, TRUE) /\ Sends(s, e)
    <3>1. \A r \in Sessions : Known(r)' = Known(r)
      BY <1>a, <2>3, TakesKnown
    <3>2. \A v \in Viewers : page'[v] = "open" => page[v] = "open" /\ link'[v] = link[v]
      BY <1>a, <2>3 DEF Sends, TypeOK
    <3> QED
      BY <1>a, <1>b, <2>2, <3>1, <3>2 DEF LinkInv
  <2>4. CASE Takes(s, e, FALSE) /\ SendsInVain(s)
    <3>1. \A r \in Sessions \ {s} : Known(r)' = Known(r)
      BY <1>a, <2>4 DEF Known, Takes, TypeOK
    <3>2. UNCHANGED viewers /\ \A v \in Viewers : link[v] # s
      BY <2>4 DEF SendsInVain, Orphaned, Linked
    <3> QED
      BY <1>a, <1>b, <2>2, <3>1, <3>2 DEF LinkInv
  <2> QED
    BY <2>1, <2>3, <2>4
<1>5. ASSUME NEW s \in Sessions, TimesOut(s) PROVE WholeInv'
  <2>1. \A v \in Viewers : page'[v] = "open" => page[v] = "open" /\ link'[v] = link[v]
    BY <1>5 DEF TimesOut, Linked
  <2>2. UNCHANGED <<published, from>> /\ \A r \in Sessions : Known(r)' = Known(r)
    BY <1>5 DEF TimesOut, Known
  <2> QED
    BY <1>a, <1>b, <2>1, <2>2 DEF LinkInv
<1>6. CASE Restart
  <2>1. \A v \in Viewers : page'[v] # "open"
    BY <1>6 DEF Restart
  <2> QED
    BY <1>b, <1>6, <2>1 DEF Restart
<1>7. CASE UNCHANGED vars
  <2>1. \A r \in Sessions : Known(r)' = Known(r)
    BY <1>7 DEF vars, Known
  <2> QED
    BY <1>a, <1>b, <1>7, <2>1 DEF vars, LinkInv
<1> QED
  BY <1>1, <1>2, <1>3, <1>4, <1>5, <1>6, <1>7 DEF Next, Connect

\* The end closes the connection that tells it.
LEMMA EndStep == Inv /\ [Next]_vars => EndIsLast'
<1> SUFFICES ASSUME Inv, [Next]_vars PROVE EndIsLast'
  OBVIOUS
<1>a. TypeOK /\ LinkInv /\ EndIsLast
  BY DEF Inv
<1> USE DEF hub, sessions, viewers
<1>b. ASSUME UNCHANGED got,
             \A s \in Sessions : state'[s] = state[s] \/ state'[s] = "closed" \/ state[s] = "idle",
             \A v \in Viewers : page'[v] = "done" => page[v] = "done"
      PROVE  EndIsLast'
  <2>1. ASSUME NEW s \in Sessions, NEW i \in 1 .. Len(got[s]), got[s][i] = LastEvent
        PROVE  i = Len(got[s]) /\ state'[s] = "closed"
    <3>1. i = Len(got[s]) /\ state[s] = "closed"
      BY <1>a, <2>1 DEF EndIsLast
    <3> QED
      BY <1>b, <3>1
  <2> QED
    BY <1>a, <1>b, <2>1 DEF EndIsLast
<1>1. CASE Publish
  BY <1>a, <1>b, <1>1, PublishIs
<1>2. ASSUME NEW v \in Viewers, NEW s \in Sessions, Subscribe(v, s) PROVE EndIsLast'
  BY <1>a, <1>b, <1>2 DEF Subscribe, Opens, TypeOK
<1>3. ASSUME NEW v \in Viewers, NoToken(v) \/ Break(v) \/ Reconnect(v) PROVE EndIsLast'
  BY <1>a, <1>b, <1>3 DEF NoToken, Break, Reconnect, TypeOK
<1>4. ASSUME NEW s \in Sessions, Replay(s) \/ Drain(s) PROVE EndIsLast'
  <2>1. PICK e \in Events : \/ Takes(s, e, TRUE) /\ Sends(s, e)
                            \/ Takes(s, e, FALSE) /\ SendsInVain(s)
    BY <1>a, <1>4, HandlerTakes
  <2>2. CASE Takes(s, e, FALSE) /\ SendsInVain(s)
    BY <1>a, <1>b, <2>2 DEF SendsInVain, TypeOK
  <2>3. CASE Takes(s, e, TRUE) /\ Sends(s, e)
    <3>1. /\ got' = [got EXCEPT ![s] = Append(got[s], e)] /\ state[s] = "open"
          /\ got[s] \in Seq(Events)
      BY <1>a, <2>3 DEF Takes, TypeOK
    <3>2. /\ Len(got'[s]) = Len(got[s]) + 1 /\ Len(got[s]) \in Nat
          /\ \A i \in 1 .. Len(got[s]) : got'[s][i] = got[s][i] /\ got[s][i] # LastEvent
          /\ got'[s][Len(got[s]) + 1] = e
          /\ ToSet(got'[s]) = ToSet(got[s]) \cup {e}
      BY <1>a, <3>1, Appended DEF TypeOK, EndIsLast
    <3>3. \A r \in Sessions \ {s} : got'[r] = got[r] /\ state'[r] = state[r]
      BY <1>a, <2>3, <3>1 DEF Sends, TypeOK
    <3>4. e = LastEvent => state'[s] = "closed"
      BY <1>a, <2>3 DEF Sends, TypeOK
    <3>5. ASSUME NEW i \in 1 .. Len(got'[s]), got'[s][i] = LastEvent
          PROVE  i = Len(got'[s]) /\ state'[s] = "closed"
      <4>1. i = Len(got[s]) + 1
        BY <3>2, <3>5
      <4> QED
        BY <3>2, <3>4, <3>5, <4>1
    <3>6. ASSUME NEW r \in Sessions, NEW i \in 1 .. Len(got'[r]), got'[r][i] = LastEvent
          PROVE  i = Len(got'[r]) /\ state'[r] = "closed"
      <4>1. CASE r = s
        BY <3>5, <3>6, <4>1
      <4>2. CASE r # s
        BY <1>a, <3>3, <3>6, <4>2 DEF EndIsLast
      <4> QED
        BY <4>1, <4>2
    <3>7. \A r \in Sessions : LastEvent \in ToSet(got[r]) => LastEvent \in ToSet(got'[r])
      BY <3>2, <3>3
    <3>8. ASSUME NEW v \in Viewers, page'[v] = "done"
          PROVE  \E r \in Sessions : LastEvent \in ToSet(got'[r])
      <4>1. page[v] = "done" \/ e = LastEvent
        BY <1>a, <2>3, <3>8 DEF Sends, TypeOK
      <4>2. page[v] = "done" => \E r \in Sessions : LastEvent \in ToSet(got[r])
        BY <1>a DEF EndIsLast
      <4> QED
        BY <3>2, <3>7, <4>1, <4>2
    <3> QED
      BY <3>6, <3>8 DEF EndIsLast
  <2> QED
    BY <2>1, <2>2, <2>3
<1>5. ASSUME NEW s \in Sessions, TimesOut(s) PROVE EndIsLast'
  BY <1>a, <1>b, <1>5 DEF TimesOut, TypeOK
<1>6. CASE Restart
  BY <1>a, <1>b, <1>6 DEF Restart
<1>7. CASE UNCHANGED vars
  BY <1>a, <1>b, <1>7 DEF vars
<1> QED
  BY <1>1, <1>2, <1>3, <1>4, <1>5, <1>6, <1>7 DEF Next, Connect
------------------------------------------------------------------------------
\* The invariant holds in every reachable state.
THEOREM Inductive == Spec => []Inv
<1>1. Inv /\ [Next]_vars => Inv'
  BY TypeStep, HistoryStep, OrderStep, LinkStep, WholeStep, EndStep DEF Inv
<1> QED
  BY InvInit, <1>1, PTL DEF Spec

\* TypeOK, in every reachable state.
THEOREM TypeCorrect == Spec => []TypeOK
<1>1. Inv => TypeOK
  BY DEF Inv
<1> QED
  BY <1>1, Inductive, PTL

\* The history of the hub (stream.go, Publish) is recent and has no hole.
THEOREM HistoriesAreRecent == Spec => []HistoryIsRecent
<1>1. ASSUME NEW n \in Nat, n = published \/ n = HistoryCap, n <= published, n <= HistoryCap,
             published \in Nat
      PROVE  n = Min({published, HistoryCap})
  <2>1. HistoryCap \in Nat
    BY CapAssumption
  <2>2. \A y \in {published, HistoryCap} : n <= y
    BY <1>1
  <2>3. ASSUME NEW x \in {published, HistoryCap}, \A y \in {published, HistoryCap} : x <= y
        PROVE  x = n
    BY <1>1, <2>1, <2>3
  <2> QED
    BY <1>1, <2>2, <2>3 DEF Min
<1>2. Inv => HistoryIsRecent
  <2> SUFFICES ASSUME Inv, alive
               PROVE  /\ Len(history) = Min({published, HistoryCap})
                      /\ \A i \in DOMAIN history : history[i] = published - Len(history) + i
    BY DEF HistoryIsRecent
  <2>1. /\ Len(history) \in Nat /\ published \in Nat /\ DOMAIN history = 1 .. Len(history)
        /\ HistoryInv
    BY EventAssumption DEF Inv, TypeOK
  <2> QED
    BY <1>1, <2>1 DEF HistoryInv
<1> QED
  BY <1>2, Inductive, PTL

\* Two sequences of events, one after the other.
LEMMA Joined ==
    ASSUME NEW a \in Seq(Events), NEW b \in Seq(Events)
    PROVE  /\ a \o b \in Seq(Events) /\ Len(a \o b) = Len(a) + Len(b)
           /\ \A i \in 1 .. Len(a) + Len(b) :
                 (a \o b)[i] = IF i <= Len(a) THEN a[i] ELSE b[i - Len(a)]
BY ConcatProperties

\* The story of a session, from its parts.
LEMMA StoryIs ==
    ASSUME TypeOK, NEW s \in Sessions
    PROVE  LET g == Len(got[s])
               t == Len(todo[s])
               q == Len(queue[s])
           IN  /\ g \in Nat /\ t \in Nat /\ q \in Nat
               /\ Story(s) \in Seq(Events) /\ Len(Story(s)) = g + t + q
               /\ \A i \in 1 .. g : Story(s)[i] = got[s][i]
               /\ \A i \in 1 .. t : Story(s)[g + i] = todo[s][i]
               /\ \A i \in 1 .. q : Story(s)[g + t + i] = queue[s][i]
<1> DEFINE g == Len(got[s])
           t == Len(todo[s])
           q == Len(queue[s])
           front == got[s] \o todo[s]
<1>1. /\ got[s] \in Seq(Events) /\ todo[s] \in Seq(Events) /\ queue[s] \in Seq(Events)
      /\ g \in Nat /\ t \in Nat /\ q \in Nat
  BY DEF TypeOK
<1>2. /\ front \in Seq(Events) /\ Len(front) = g + t
      /\ \A i \in 1 .. g + t : front[i] = IF i <= g THEN got[s][i] ELSE todo[s][i - g]
  BY <1>1, ConcatProperties
<1>3. Story(s) = front \o queue[s]
  BY DEF Story
<1> HIDE DEF front
<1>4. /\ front \o queue[s] \in Seq(Events)
      /\ Len(front \o queue[s]) = Len(front) + Len(queue[s])
      /\ \A i \in 1 .. Len(front) + Len(queue[s]) :
            (front \o queue[s])[i] = IF i <= Len(front) THEN front[i]
                                     ELSE queue[s][i - Len(front)]
  <2>1. front \in Seq(Events) /\ queue[s] \in Seq(Events)
    BY <1>1, <1>2
  <2> QED
    BY <2>1, Joined
<1>5. /\ Story(s) \in Seq(Events) /\ Len(Story(s)) = g + t + q
      /\ \A i \in 1 .. g + t + q :
            Story(s)[i] = IF i <= g + t THEN front[i] ELSE queue[s][i - (g + t)]
  BY <1>2, <1>3, <1>4
<1> HIDE DEF g, t, q
<1>6. ASSUME NEW i \in 1 .. g PROVE Story(s)[i] = got[s][i]
  <2>1. i \in 1 .. g + t /\ i \in 1 .. g + t + q /\ i <= g /\ i <= g + t
    BY <1>1
  <2> QED
    BY <1>2, <1>5, <2>1
<1>7. ASSUME NEW i \in 1 .. t PROVE Story(s)[g + i] = todo[s][i]
  <2>1. g + i \in 1 .. g + t /\ g + i \in 1 .. g + t + q /\ ~(g + i <= g) /\ (g + i) - g = i
        /\ g + i <= g + t
    BY <1>1
  <2>2. Story(s)[g + i] = front[g + i] /\ front[g + i] = todo[s][(g + i) - g]
    BY <1>2, <1>5, <2>1
  <2> QED
    BY <2>1, <2>2
<1>8. ASSUME NEW i \in 1 .. q PROVE Story(s)[g + t + i] = queue[s][i]
  <2>1. g + t + i \in 1 .. g + t + q /\ ~(g + t + i <= g + t) /\ (g + t + i) - (g + t) = i
    BY <1>1
  <2>2. Story(s)[g + t + i] = queue[s][(g + t + i) - (g + t)]
    BY <1>5, <2>1
  <2> QED
    BY <2>1, <2>2
<1> QED
  BY <1>1, <1>5, <1>6, <1>7, <1>8 DEF g, t, q

\* A place in the story is one in one of its parts.
LEMMA Places ==
    ASSUME NEW g \in Nat, NEW t \in Nat, NEW q \in Nat, NEW i \in 1 .. g + t + q
    PROVE  \/ i \in 1 .. g
           \/ i - g \in 1 .. t /\ i = g + (i - g)
           \/ i - g - t \in 1 .. q /\ i = g + t + (i - g - t)
OBVIOUS

\* On one connection (handlers.go, Logs) events arrive in order, and once.
THEOREM SessionsAreInOrder == Spec => []SessionInOrder
<1>1. ASSUME Inv, NEW s \in Sessions,
             NEW i \in 1 .. Len(Story(s)), NEW j \in 1 .. Len(Story(s)), i < j
      PROVE  Story(s)[i] < Story(s)[j]
  <2> DEFINE g == Len(got[s])
             t == Len(todo[s])
             q == Len(queue[s])
  <2>1. /\ g \in Nat /\ t \in Nat /\ q \in Nat
        /\ i \in 1 .. g + t + q /\ j \in 1 .. g + t + q
        /\ \A k \in 1 .. g : Story(s)[k] = got[s][k]
        /\ \A k \in 1 .. t : Story(s)[g + k] = todo[s][k]
        /\ \A k \in 1 .. q : Story(s)[g + t + k] = queue[s][k]
    BY <1>1, StoryIs DEF Inv
  <2>2. /\ Increasing(got[s]) /\ Increasing(todo[s]) /\ Increasing(queue[s])
        /\ Before(got[s], todo[s]) /\ Before(got[s], queue[s]) /\ Before(todo[s], queue[s])
    BY <1>1 DEF Inv, OrderInv, OrderOK
  <2> HIDE DEF g, t, q
  <2>3. CASE i \in 1 .. g
    <3>1. Story(s)[i] = got[s][i]
      BY <2>1, <2>3
    <3>2. CASE j \in 1 .. g
      BY <1>1, <2>1, <2>2, <2>3, <3>2 DEF Increasing, g
    <3>3. CASE j - g \in 1 .. t /\ j = g + (j - g)
      <4>1. Story(s)[j] = todo[s][j - g]
        BY <2>1, <3>3
      <4> QED
        BY <2>2, <2>3, <3>1, <3>3, <4>1 DEF Before, g, t
    <3>4. CASE j - g - t \in 1 .. q /\ j = g + t + (j - g - t)
      <4>1. Story(s)[j] = queue[s][j - g - t]
        BY <2>1, <3>4
      <4> QED
        BY <2>2, <2>3, <3>1, <3>4, <4>1 DEF Before, g, q
    <3> QED
      BY <2>1, <3>2, <3>3, <3>4, Places
  <2>4. CASE i - g \in 1 .. t /\ i = g + (i - g)
    <3>1. Story(s)[i] = todo[s][i - g] /\ ~(j \in 1 .. g)
      BY <1>1, <2>1, <2>4
    <3>2. CASE j - g \in 1 .. t /\ j = g + (j - g)
      <4>1. Story(s)[j] = todo[s][j - g] /\ i - g < j - g
        BY <1>1, <2>1, <3>2
      <4> QED
        BY <2>2, <2>4, <3>1, <3>2, <4>1 DEF Increasing, t
    <3>3. CASE j - g - t \in 1 .. q /\ j = g + t + (j - g - t)
      <4>1. Story(s)[j] = queue[s][j - g - t]
        BY <2>1, <3>3
      <4> QED
        BY <2>2, <2>4, <3>1, <3>3, <4>1 DEF Before, t, q
    <3> QED
      BY <2>1, <3>1, <3>2, <3>3, Places
  <2>5. CASE i - g - t \in 1 .. q /\ i = g + t + (i - g - t)
    <3>1. Story(s)[i] = queue[s][i - g - t]
      BY <2>1, <2>5
    <3>2. j - g - t \in 1 .. q /\ j = g + t + (j - g - t) /\ i - g - t < j - g - t
      BY <1>1, <2>1, <2>5
    <3>3. Story(s)[j] = queue[s][j - g - t]
      BY <2>1, <3>2
    <3> QED
      BY <2>2, <2>5, <3>1, <3>2, <3>3 DEF Increasing, q
  <2> QED
    BY <2>1, <2>3, <2>4, <2>5, Places
<1>2. Inv => SessionInOrder
  BY <1>1 DEF SessionInOrder
<1> QED
  BY <1>2, Inductive, PTL

\* What a page is told, will be told or has lost to a full channel (stream.go,
\* Publish and Subscribe) is everything since its snapshot began.
THEOREM NothingIsLost == Spec => []NothingSlipsThrough
<1>1. ASSUME Inv, NEW s \in Sessions PROVE ToSet(Story(s)) \cup dropped[s] = Known(s)
  <2> DEFINE g == Len(got[s])
             t == Len(todo[s])
             q == Len(queue[s])
  <2>1. /\ g \in Nat /\ t \in Nat /\ q \in Nat
        /\ DOMAIN Story(s) = 1 .. g + t + q
        /\ DOMAIN got[s] = 1 .. g /\ DOMAIN todo[s] = 1 .. t /\ DOMAIN queue[s] = 1 .. q
        /\ \A k \in 1 .. g : Story(s)[k] = got[s][k]
        /\ \A k \in 1 .. t : Story(s)[g + k] = todo[s][k]
        /\ \A k \in 1 .. q : Story(s)[g + t + k] = queue[s][k]
    BY <1>1, StoryIs DEF Inv, TypeOK
  <2> HIDE DEF g, t, q
  <2>2. ASSUME NEW i \in 1 .. g + t + q
        PROVE  Story(s)[i] \in ToSet(got[s]) \cup ToSet(todo[s]) \cup ToSet(queue[s])
    <3>1. CASE i \in 1 .. g
      BY <2>1, <3>1 DEF ToSet
    <3>2. CASE i - g \in 1 .. t /\ i = g + (i - g)
      <4>1. Story(s)[i] = todo[s][i - g]
        BY <2>1, <3>2
      <4> QED
        BY <2>1, <3>2, <4>1 DEF ToSet
    <3>3. CASE i - g - t \in 1 .. q /\ i = g + t + (i - g - t)
      <4>1. Story(s)[i] = queue[s][i - g - t]
        BY <2>1, <3>3
      <4> QED
        BY <2>1, <3>3, <4>1 DEF ToSet
    <3> QED
      BY <2>1, <3>1, <3>2, <3>3, Places
  <2>3. /\ \A k \in 1 .. g : k \in 1 .. g + t + q
        /\ \A k \in 1 .. t : g + k \in 1 .. g + t + q
        /\ \A k \in 1 .. q : g + t + k \in 1 .. g + t + q
    BY <2>1
  <2>4. /\ \A k \in 1 .. g : got[s][k] \in ToSet(Story(s))
        /\ \A k \in 1 .. t : todo[s][k] \in ToSet(Story(s))
        /\ \A k \in 1 .. q : queue[s][k] \in ToSet(Story(s))
    BY <2>1, <2>3 DEF ToSet
  <2>5. ToSet(Story(s)) = ToSet(got[s]) \cup ToSet(todo[s]) \cup ToSet(queue[s])
    <3>1. ToSet(Story(s)) \subseteq ToSet(got[s]) \cup ToSet(todo[s]) \cup ToSet(queue[s])
      <4>1. \A e \in ToSet(Story(s)) : \E i \in 1 .. g + t + q : e = Story(s)[i]
        BY <2>1 DEF ToSet
      <4> QED
        BY <2>2, <4>1
    <3>2. ToSet(got[s]) \subseteq ToSet(Story(s))
      BY <2>1, <2>4 DEF ToSet
    <3>3. ToSet(todo[s]) \subseteq ToSet(Story(s))
      BY <2>1, <2>4 DEF ToSet
    <3>4. ToSet(queue[s]) \subseteq ToSet(Story(s))
      BY <2>1, <2>4 DEF ToSet
    <3> QED
      BY <3>1, <3>2, <3>3, <3>4
  <2> QED
    BY <2>5 DEF Known
<1>2. Inv => NothingSlipsThrough
  BY <1>1 DEF Inv, LinkInv, WholeInv, NothingSlipsThrough
<1> QED
  BY <1>2, Inductive, PTL

\* Nothing follows the end on a connection (handlers.go, Logs), and a page that
\* does not connect again has been told it.
THEOREM EndsAreLast == Spec => []EndIsLast
<1>1. Inv => EndIsLast
  BY DEF Inv
<1> QED
  BY <1>1, Inductive, PTL
==============================================================================
