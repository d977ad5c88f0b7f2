----------------------------- MODULE LogStream ------------------------------
(***************************************************************************)
(* The log of one deployment or helm operation on its way to the browser:  *)
(* the hub with its bounded history and non-blocking fan-out               *)
(* (api/internal/deployments/stream.go), the WebSocket handler that        *)
(* replays a snapshot and then drains a channel (handlers.go, Logs), and   *)
(* the reconnecting viewer (ui/src/lib/ws.ts).                             *)
(*                                                                         *)
(* Events are numbered in the order they are published; the last one,      *)
(* LastEvent, is deployment_complete, after which an executor publishes    *)
(* nothing.  A session is one WebSocket connection with its handler and    *)
(* its channel.                                                            *)
(***************************************************************************)
EXTENDS Integers, Sequences, SequencesExt

CONSTANTS Viewers,      \* pages that show the log
          Sessions,     \* connections (bound: how many are ever made)
          NoSession,    \* "not connected"
          LastEvent,    \* number of deployment_complete (bound: how many events)
          HistoryCap,   \* events the hub keeps
          Buf,          \* events a session may be behind: its channel and the
                        \* event the handler is writing
          MaxRestarts   \* bound: how often the API process is restarted

ASSUME EventAssumption   == LastEvent \in Nat \ {0}
ASSUME CapAssumption     == HistoryCap \in Nat \ {0} /\ Buf \in Nat \ {0}
ASSUME SessionAssumption == NoSession \notin Sessions
ASSUME RestartAssumption == MaxRestarts \in Nat

Events == 1 .. LastEvent

VARIABLES
    published,  \* events published so far
    alive,      \* the process that runs the operation has not been restarted
    history,    \* Hub.history of the operation
    state,      \* state[s]: "idle", "open" (in Hub.subs) or "closed"
    todo,       \* todo[s]: the rest of the snapshot the handler replays
    queue,      \* queue[s]: the channel
    from,       \* from[s]: first event s could be told of (history variable)
    got,        \* got[s]: what the page has received on s
    dropped,    \* dropped[s]: what found the channel of s full (history variable)
    page,       \* page[v]: where the reconnecting hook of v is
    link,       \* link[v]: the session v is connected by
    restarts    \* restarts so far

hub      == <<published, alive, history>>
sessions == <<state, todo, queue, from, got, dropped>>
viewers  == <<page, link>>
vars     == <<published, alive, history, state, todo, queue, from, got, dropped,
              page, link, restarts>>

Pages == {"connecting", "open", "waiting", "done", "stopped"}

Init ==
    /\ published = 0
    /\ alive = TRUE
    /\ history = <<>>
    /\ state = [s \in Sessions |-> "idle"]
    /\ todo = [s \in Sessions |-> <<>>]
    /\ queue = [s \in Sessions |-> <<>>]
    /\ from = [s \in Sessions |-> 1]
    /\ got = [s \in Sessions |-> <<>>]
    /\ dropped = [s \in Sessions |-> {}]
    /\ page = [v \in Viewers |-> "connecting"]
    /\ link = [v \in Viewers |-> NoSession]
    /\ restarts = 0
------------------------------------------------------------------------------
(* The hub.  Each operation is one critical section of Hub.mu.              *)

\* FIFO eviction: the history keeps HistoryCap events with the new one.
Evicted == IF Len(history) >= HistoryCap
           THEN SubSeq(history, Len(history) - HistoryCap + 2, Len(history))
           ELSE history

Full(s) == Len(queue[s]) >= Buf

\* The select with a default: a full channel does not hold the publisher up.
FanOut(e) ==
    /\ queue' = [s \in Sessions |-> IF state[s] = "open" /\ ~Full(s)
                                    THEN Append(queue[s], e) ELSE queue[s]]
    /\ dropped' = [s \in Sessions |-> IF state[s] = "open" /\ Full(s)
                                      THEN dropped[s] \cup {e} ELSE dropped[s]]

Publishes(e) ==
    /\ alive
    /\ published < LastEvent
    /\ e = published + 1
    /\ published' = e
    /\ FanOut(e)
    /\ UNCHANGED <<alive, state, from, got, viewers, restarts>>

\* A history of log lines only, without the event that ends the stream.
PublishKeepsLogs ==
    \E e \in Events :
        /\ Publishes(e)
        /\ history' = IF e = LastEvent THEN history ELSE Append(Evicted, e)
        /\ UNCHANGED todo

\* A snapshot that shares its array with the history: an append shows in both.
PublishAliased ==
    \E e \in Events :
        /\ Publishes(e)
        /\ history' = Append(Evicted, e)
        /\ todo' = [s \in Sessions |-> IF todo[s] = <<>> THEN <<>> ELSE Append(todo[s], e)]

Publish ==
    \E e \in Events :
        /\ Publishes(e)
        /\ history' = Append(Evicted, e)
        /\ UNCHANGED todo

\* The page has a token and opens the WebSocket; Hub.Subscribe registers the
\* channel and copies the history in one critical section.
Opens(v, s) ==
    /\ page[v] = "connecting"
    /\ state[s] = "idle"
    /\ state' = [state EXCEPT ![s] = "open"]
    /\ from' = [from EXCEPT ![s] = (published + 1) - Len(history)]
    /\ page' = [page EXCEPT ![v] = "open"]
    /\ link' = [link EXCEPT ![v] = s]
    /\ UNCHANGED <<hub, queue, got, dropped, restarts>>

\* A subscription without the replay.
SubscribeLive(v, s) == Opens(v, s) /\ UNCHANGED todo

Subscribe(v, s) == Opens(v, s) /\ todo' = [todo EXCEPT ![s] = history]
------------------------------------------------------------------------------
(* The handler, Logs: first the snapshot, then the channel.                 *)
Linked(s, v) == link[v] = s
Orphaned(s) == \A v \in Viewers : ~Linked(s, v)

\* Writing e to a client that is there; deployment_complete closes the
\* connection with code 1000 and ends handler and subscription.
Sends(s, e) ==
    \E v \in Viewers :
        /\ Linked(s, v)
        /\ got' = [got EXCEPT ![s] = Append(@, e)]
        /\ IF e = LastEvent
           THEN /\ state' = [state EXCEPT ![s] = "closed"]
                /\ page' = [page EXCEPT ![v] = "done"]
                /\ link' = [link EXCEPT ![v] = NoSession]
           ELSE UNCHANGED <<state, viewers>>

\* Writing to a client that has gone: the write fails and the handler returns,
\* or it is still buffered and the handler goes on.
SendsInVain(s) ==
    /\ Orphaned(s)
    /\ state' \in {state, [state EXCEPT ![s] = "closed"]}
    /\ UNCHANGED <<got, viewers>>

Replay(s) ==
    /\ state[s] = "open"
    /\ todo[s] # <<>>
    /\ todo' = [todo EXCEPT ![s] = Tail(@)]
    /\ Sends(s, Head(todo[s])) \/ SendsInVain(s)
    /\ UNCHANGED <<hub, queue, from, dropped, restarts>>

Drain(s) ==
    /\ state[s] = "open"
    /\ todo[s] = <<>>
    /\ queue[s] # <<>>
    /\ queue' = [queue EXCEPT ![s] = Tail(@)]
    /\ Sends(s, Head(queue[s])) \/ SendsInVain(s)
    /\ UNCHANGED <<hub, todo, from, dropped, restarts>>

\* The handler's context ends after 24 hours; it closes with code 1011.
TimesOut(s) ==
    /\ state[s] = "open"
    /\ state' = [state EXCEPT ![s] = "closed"]
    /\ page' = [v \in Viewers |-> IF Linked(s, v) THEN "waiting" ELSE page[v]]
    /\ link' = [v \in Viewers |-> IF Linked(s, v) THEN NoSession ELSE link[v]]
    /\ UNCHANGED <<hub, todo, queue, from, got, dropped, restarts>>
------------------------------------------------------------------------------
(* The viewer, useReconnectingWS.                                           *)

\* The connection breaks; the handler never reads and does not notice.
Break(v) ==
    /\ page[v] = "open"
    /\ page' = [page EXCEPT ![v] = "waiting"]
    /\ link' = [link EXCEPT ![v] = NoSession]
    /\ UNCHANGED <<hub, sessions, restarts>>

\* The back-off timer fires.
Reconnect(v) ==
    /\ page[v] = "waiting"
    /\ page' = [page EXCEPT ![v] = "connecting"]
    /\ UNCHANGED <<hub, sessions, link, restarts>>

\* fetchWSToken fails: the hook returns without arming the timer.
NoToken(v) ==
    /\ page[v] = "connecting"
    /\ page' = [page EXCEPT ![v] = "stopped"]
    /\ UNCHANGED <<hub, sessions, link, restarts>>

\* The API process is restarted: the hub is empty, every connection breaks,
\* and the goroutine that published is gone.
Restart ==
    /\ restarts < MaxRestarts
    /\ restarts' = restarts + 1
    /\ alive' = FALSE
    /\ history' = <<>>
    /\ state' = [s \in Sessions |-> IF state[s] = "open" THEN "closed" ELSE state[s]]
    /\ todo' = [s \in Sessions |-> <<>>]
    /\ queue' = [s \in Sessions |-> <<>>]
    /\ page' = [v \in Viewers |-> IF page[v] = "open" THEN "waiting" ELSE page[v]]
    /\ link' = [v \in Viewers |-> NoSession]
    /\ UNCHANGED <<published, from, got, dropped>>

Connect(v) == NoToken(v) \/ \E s \in Sessions : Subscribe(v, s)

Next ==
    \/ Publish
    \/ \E v \in Viewers : Connect(v) \/ Break(v) \/ Reconnect(v)
    \/ \E s \in Sessions : Replay(s) \/ Drain(s) \/ TimesOut(s)
    \/ Restart

Spec == Init /\ [][Next]_vars

\* The operation goes on and ends; a handler that has an event writes it; the
\* browser runs its timer and answers its own token request one way or another.
FairSpec ==
    /\ Spec
    /\ WF_vars(Publish)
    /\ \A s \in Sessions : WF_vars(Replay(s)) /\ WF_vars(Drain(s))
    /\ \A v \in Viewers : WF_vars(Reconnect(v)) /\ WF_vars(Connect(v))
------------------------------------------------------------------------------
(* Properties.                                                              *)

TypeOK ==
    /\ published \in 0 .. LastEvent
    /\ alive \in BOOLEAN
    /\ history \in Seq(Events)
    /\ state \in [Sessions -> {"idle", "open", "closed"}]
    /\ todo \in [Sessions -> Seq(Events)]
    /\ queue \in [Sessions -> Seq(Events)]
    /\ from \in [Sessions -> Nat]
    /\ got \in [Sessions -> Seq(Events)]
    /\ dropped \in [Sessions -> SUBSET Events]
    /\ page \in [Viewers -> Pages]
    /\ link \in [Viewers -> Sessions \cup {NoSession}]
    /\ restarts \in Nat

\* The history is the last HistoryCap events without a hole, the newest one
\* included: a late viewer loses only the oldest part of a long log.
HistoryIsRecent ==
    alive => /\ Len(history) = Min({published, HistoryCap})
             /\ \A i \in DOMAIN history : history[i] = published - Len(history) + i

\* All that a session has told its page, or may still tell it, in order.
Story(s) == got[s] \o todo[s] \o queue[s]

\* On one connection, events arrive in the order they were published and none
\* arrives twice, although the snapshot and the channel overlap in time.
SessionInOrder ==
    \A s \in Sessions : \A i, j \in 1 .. Len(Story(s)) : i < j => Story(s)[i] < Story(s)[j]

\* While a page is connected, every event since the start of its snapshot has
\* been received, is on its way, or found the session's channel full: nothing
\* falls between the snapshot and the live stream.
NothingSlipsThrough ==
    \A v \in Viewers : page[v] = "open" =>
        ToSet(Story(link[v])) \cup dropped[link[v]] = from[link[v]] .. published

\* A page has seen deployment_complete exactly when it is done (it does not
\* connect again), and the session that told it told nothing after.
EndIsLast ==
    /\ \A s \in Sessions : \A i \in 1 .. Len(got[s]) :
          got[s][i] = LastEvent => i = Len(got[s]) /\ state[s] = "closed"
    /\ \A v \in Viewers : page[v] = "done" => \E s \in Sessions : LastEvent \in ToSet(got[s])

\* A page sees the end of the log whatever connections broke, unless the API
\* was restarted, the end found the channel of its own connection full, a token
\* request failed, or the model ran out of connections.
ViewerSeesEnd ==
    \A v \in Viewers :
        page[v] = "connecting" ~>
            \/ page[v] \in {"done", "stopped"}
            \/ ~alive
            \/ \E s \in Sessions : Linked(s, v) /\ LastEvent \in dropped[s]
            \/ \A s \in Sessions : state[s] # "idle" /\ ~Linked(s, v)
==============================================================================
