---------------------------- MODULE NodeTelemetry ----------------------------
(***************************************************************************)
(* The node table of a cluster: Aggregator.NodeTelemetry                   *)
(* (api/internal/telemetry/aggregator.go, cache.go, kube.go, proxmox.go)   *)
(* behind the nodes handler, with the pages that poll it.                  *)
(*                                                                         *)
(* Cache entries and flights of different clusters share nothing, so the   *)
(* module is about one cluster.  A page that finds no answer in the cache  *)
(* leads a flight, or joins the one under way; the flight runs in the      *)
(* goroutine and under the context of the page that leads it.              *)
(***************************************************************************)
EXTENDS Integers

CONSTANTS Pages,    \* pages that show the cluster
          Nobody,   \* no page
          Long,     \* 30 seconds, in ticks
          Short,    \* 5 seconds, in ticks
          Failing   \* the services that may be out of reach

ASSUME NobodyAssumption == Nobody \notin Pages
ASSUME FailingAssumption == Failing \subseteq {"vault", "kubernetes", "proxmox"}
ASSUME TTLAssumption    == Short \in Nat /\ Long \in Nat /\ Short < Long

VARIABLES
    pc,         \* pc[p]: what the request of p does next
    ctx,        \* ctx[p]: r.Context()
    got,        \* got[p]: the last answer to p, and whether it should be there
    leader,     \* the page whose goroutine runs the flight, or Nobody
    rows,       \* what the flight has found so far
    cache,      \* cacheEntry.data, "none" before the first
    left,       \* cacheEntry.expires - now; negative: expired
    up,         \* there are nodes, and the kubeconfig in Vault is theirs
    out,        \* the services that do not answer
    age,        \* ticks since the entry was put (history variable)
    quiet,      \* ticks since the last trouble (history)
    tainted,    \* there was trouble during the flight (history)
    blind       \* pages that missed an entry put since they looked (history)

flight  == <<leader, rows>>
entry   == <<cache, left, age>>
outside == <<up, out>>
history == <<quiet, tainted, blind>>
vars == <<pc, ctx, got, flight, entry, outside, history>>

Levels   == {"empty", "bare", "full"}     \* no rows, rows without and with the VMs
Probing  == {"kubeconfig", "nodes", "creds", "vms", "put"}
Flying   == Probing \cup {"end"}

Live(p) == ctx[p] = "live"

\* A call of the flight succeeds.
Answers(s, p) == s \notin out /\ Live(p)

Trouble == out # {} \/ ~up

\* How long putWithTTL keeps what was found.
TTL(l) == IF l = "empty" THEN Short ELSE Long

\* How long there has been no trouble.
Calm == IF quiet > Long THEN "long" ELSE IF quiet > Short THEN "short" ELSE "no"

Goto(p, l) == pc' = [pc EXCEPT ![p] = l]

Init ==
    /\ pc = [p \in Pages |-> "idle"]
    /\ ctx = [p \in Pages |-> "live"]
    /\ got = [p \in Pages |-> [level |-> "full", calm |-> "no", late |-> FALSE]]
    /\ leader = Nobody /\ rows = "empty"
    /\ cache = "none" /\ left = -1 /\ age = 0
    /\ up \in BOOLEAN /\ out = {}
    /\ quiet = 0 /\ tainted = FALSE /\ blind = {}
------------------------------------------------------------------------------
(* The request of a page.                                                    *)

\* The page asks again; the handler finds the row of the cluster.
Poll(p) ==
    /\ pc[p] = "idle"
    /\ Goto(p, "look")
    /\ ctx' = [ctx EXCEPT ![p] = "live"]
    /\ UNCHANGED <<got, flight, entry, outside, history>>

Serve(p) ==
    /\ got' = [got EXCEPT ![p] = [level |-> cache, calm |-> Calm, late |-> age > TTL(cache)]]
    /\ Goto(p, "idle")

\* A cache whose entries do not expire.
LookForever(p) ==
    /\ pc[p] = "look"
    /\ IF cache # "none" THEN Serve(p) ELSE Goto(p, "do") /\ UNCHANGED got
    /\ UNCHANGED <<ctx, flight, entry, outside, history>>

\* cache.get
Look(p) ==
    /\ pc[p] = "look"
    /\ IF cache # "none" /\ left >= 0 THEN Serve(p) ELSE Goto(p, "do") /\ UNCHANGED got
    /\ UNCHANGED <<ctx, flight, entry, outside, history>>

\* sf.Do while a flight is under way; the cache is not looked at again.
Join(p) ==
    /\ pc[p] = "do"
    /\ leader # Nobody
    /\ Goto(p, "join")
    /\ UNCHANGED <<ctx, got, flight, entry, outside, history>>

\* sf.Do otherwise.  A client that has gone brings its cancelled context along.
Lead(p) ==
    /\ pc[p] = "do"
    /\ leader = Nobody
    /\ leader' = p
    /\ rows' = "empty"
    /\ Goto(p, "kubeconfig")
    /\ tainted' = (Trouble \/ ~Live(p))
    /\ quiet' = IF Live(p) THEN quiet ELSE 0
    /\ UNCHANGED <<ctx, got, entry, outside, blind>>
------------------------------------------------------------------------------
(* The flight.  No failure ends it: a step that fails is left out.           *)

\* Vault.Get of the kubeconfig: without one kubectl is not run.
ReadKubeconfig(p) ==
    /\ pc[p] = "kubeconfig"
    /\ \/ Answers("vault", p) /\ Goto(p, "nodes")
       \/ ~(Answers("vault", p) /\ up) /\ Goto(p, "creds")
    /\ UNCHANGED <<ctx, got, flight, entry, outside, history>>

\* kubectl get nodes
GetNodes(p) ==
    /\ pc[p] = "nodes"
    /\ rows' = IF Answers("kubernetes", p) /\ up THEN "bare" ELSE rows
    /\ Goto(p, "creds")
    /\ UNCHANGED <<ctx, got, leader, entry, outside, history>>

\* Vault.Get of the Proxmox credentials
ReadCreds(p) ==
    /\ pc[p] = "creds"
    /\ Goto(p, IF Answers("vault", p) THEN "vms" ELSE "put")
    /\ UNCHANGED <<ctx, got, flight, entry, outside, history>>

\* GetVMs and enrichWithProxmox: there must be rows to enrich.
GetVMs(p) ==
    /\ pc[p] = "vms"
    /\ rows' = IF Answers("proxmox", p) /\ rows = "bare" THEN "full" ELSE rows
    /\ Goto(p, "put")
    /\ UNCHANGED <<ctx, got, leader, entry, outside, history>>

\* One time to live for whatever was found.
PutLong(p) ==
    /\ pc[p] = "put"
    /\ cache' = rows /\ left' = Long /\ age' = 0
    /\ quiet' = IF tainted THEN 0 ELSE quiet
    /\ blind' = IF rows = "empty" THEN blind ELSE {q \in Pages : pc[q] = "do"}
    /\ Goto(p, "end")
    /\ UNCHANGED <<ctx, got, flight, outside, tainted>>

\* cache.putWithTTL: what is there already is replaced.
Put(p) ==
    /\ pc[p] = "put"
    /\ cache' = rows /\ left' = TTL(rows) /\ age' = 0
    /\ quiet' = IF tainted THEN 0 ELSE quiet
    /\ blind' = IF rows = "empty" THEN blind ELSE {q \in Pages : pc[q] = "do"}
    /\ Goto(p, "end")
    /\ UNCHANGED <<ctx, got, flight, outside, tainted>>

Shares(p, q) == q = p \/ pc[q] = "join"

\* A flight that is not forgotten when it has returned: others go on to join it.
EndKept(p) ==
    /\ pc[p] = "end"
    /\ got' = [q \in Pages |-> IF Shares(p, q)
                               THEN [level |-> rows, calm |-> IF tainted THEN "no" ELSE "long",
                                     late |-> FALSE]
                               ELSE got[q]]
    /\ pc' = [q \in Pages |-> IF Shares(p, q) THEN "idle" ELSE pc[q]]
    /\ blind' = {q \in blind : ~Shares(p, q)}
    /\ UNCHANGED <<ctx, leader, rows, entry, outside, quiet, tainted>>

\* sf.Do returns, to the leader and to all who joined.
End(p) ==
    /\ pc[p] = "end"
    /\ leader' = Nobody
    /\ got' = [q \in Pages |-> IF Shares(p, q)
                               THEN [level |-> rows, calm |-> IF tainted THEN "no" ELSE "long",
                                     late |-> FALSE]
                               ELSE got[q]]
    /\ pc' = [q \in Pages |-> IF Shares(p, q) THEN "idle" ELSE pc[q]]
    /\ blind' = {q \in blind : ~Shares(p, q)}
    /\ UNCHANGED <<ctx, rows, entry, outside, quiet, tainted>>
------------------------------------------------------------------------------
(* What happens around it.                                                   *)

\* The page is left, or the browser closed.
Disconnect(p) ==
    /\ pc[p] # "idle" /\ Live(p)
    /\ ctx' = [ctx EXCEPT ![p] = "cancelled"]
    /\ IF p = leader THEN quiet' = 0 /\ tainted' = TRUE ELSE UNCHANGED <<quiet, tainted>>
    /\ UNCHANGED <<pc, got, flight, entry, outside, blind>>

\* Vault, the cluster or Proxmox is out of reach, and back.
Outage(s) ==
    /\ s \notin out
    /\ out' = out \cup {s}
    /\ quiet' = 0 /\ tainted' = TRUE
    /\ UNCHANGED <<pc, ctx, got, flight, entry, up, blind>>

Recover(s) ==
    /\ s \in out
    /\ out' = out \ {s}
    /\ UNCHANGED <<pc, ctx, got, flight, entry, up, history>>

\* A deploy or a destroy of the cluster takes effect.
Change ==
    /\ up' = ~up
    /\ quiet' = 0 /\ tainted' = TRUE
    /\ UNCHANGED <<pc, ctx, got, flight, entry, out, blind>>

Tick ==
    /\ left' = IF left >= 0 THEN left - 1 ELSE left
    /\ age' = IF age <= Long THEN age + 1 ELSE age
    /\ quiet' = IF Trouble THEN 0 ELSE IF quiet <= Long THEN quiet + 1 ELSE quiet
    /\ UNCHANGED <<pc, ctx, got, flight, cache, outside, tainted, blind>>

\* The process dies with its cache; the pages ask the next one.
Crash ==
    /\ pc' = [p \in Pages |-> "idle"]
    /\ leader' = Nobody /\ rows' = "empty"
    /\ cache' = "none" /\ left' = -1 /\ age' = 0
    /\ blind' = {}
    /\ UNCHANGED <<ctx, got, outside, quiet, tainted>>

Handle(p) ==
    \/ Look(p) \/ Join(p) \/ Lead(p)
    \/ ReadKubeconfig(p) \/ GetNodes(p) \/ ReadCreds(p) \/ GetVMs(p) \/ Put(p) \/ End(p)

Next ==
    \/ \E p \in Pages : Poll(p) \/ Handle(p) \/ Disconnect(p)
    \/ \E s \in Failing : Outage(s) \/ Recover(s)
    \/ Change \/ Tick \/ Crash

Spec == Init /\ [][Next]_vars

\* Calls return, a page polls by a timer of its own, and time goes on.
Fairness == WF_vars(Tick) /\ \A p \in Pages : WF_vars(Poll(p)) /\ WF_vars(Handle(p))

FairSpec == Spec /\ Fairness
------------------------------------------------------------------------------
(* Properties.                                                              *)

TypeOK ==
    /\ pc \in [Pages -> {"idle", "look", "do", "join"} \cup Flying]
    /\ ctx \in [Pages -> {"live", "cancelled"}]
    /\ got \in [Pages -> [level : Levels, calm : {"no", "short", "long"}, late : BOOLEAN]]
    /\ leader \in Pages \cup {Nobody} /\ rows \in Levels
    /\ cache \in Levels \cup {"none"}
    /\ left \in -1 .. Long /\ age \in 0 .. Long + 1 /\ quiet \in 0 .. Long + 1
    /\ up \in BOOLEAN /\ out \subseteq Failing
    /\ tainted \in BOOLEAN /\ blind \subseteq Pages

\* Trouble is over soon after it is over: when for longer than the short time
\* to live nothing was out of reach, the cluster has not changed, and neither a
\* page that led a flight went away nor a flight that met any of this ended,
\* every answer has rows; after the long one they are complete.
RecoversInTime ==
    \A p \in Pages : /\ got[p].calm # "no" => got[p].level # "empty"
                     /\ got[p].calm = "long" => got[p].level = "full"

\* Nobody is given an answer that had been in the cache for longer than its
\* time to live: nodes of a destroyed cluster do not stay on the page.
AnswersAreFresh == \A p \in Pages : ~got[p].late

\* The cache spares the services: while it holds rows that are still good,
\* nobody asks Vault, kubectl or Proxmox, but for a page that looked before the
\* rows were there and came to sf.Do when their flight had ended.
NoIdleProbe ==
    \A p \in Pages : pc[p] \in Probing /\ cache \in {"bare", "full"} /\ left >= 0 => p \in blind

\* Once services, cluster, clients and the process stay, every page shows its
\* rows complete.
PageRecovers ==
    <>[](~Trouble /\ \A p \in Pages : Live(p)) /\ <>[][~Crash]_vars
        => \A p \in Pages : <>[](got[p].level = "full")
------------------------------------------------------------------------------
(* What a comment says, and the code does not do.                           *)

\* aggregator.go:63: "empty results expire fast (5s) so transient probe failures
\* recover quickly".
FailuresAreBrief == \A p \in Pages : got[p].calm # "no" => got[p].level = "full"

\* aggregator.go:64: "healthy results cache for 30s".
HealthyLasts == [][(cache \in {"bare", "full"} /\ left >= 0) => cache' # "empty"]_vars
==============================================================================
