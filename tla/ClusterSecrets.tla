--------------------------- MODULE ClusterSecrets ----------------------------
(***************************************************************************)
(* The secrets of one cluster in Vault, and what is built from them:       *)
(* Initialize and its edit mode (api/internal/clusters/initialize.go), the *)
(* purge (forget.go), the reads and writes of a deploy and a destroy       *)
(* (deployments/executor.go, kubeconfig.go, join_token.go,                 *)
(* profiles/homelab), the two manual retrievals, and the renewal loop of   *)
(* the wildcard certificate (cert.go).                                     *)
(*                                                                         *)
(* Nothing in Vault is written under a lock: every path is one call, and   *)
(* requests interleave between calls.  A call may fail at any time (Vault  *)
(* sealed, token expired, client gone).  Clusters share no path, so there  *)
(* is one.  Locks, rows and cancellations are ClusterLifecycle's subject   *)
(* and appear here only as far as they order Vault calls.                  *)
(***************************************************************************)
EXTENDS ClusterStatus, Naturals, Sequences, FiniteSets

CONSTANTS Ops,          \* requests (bound: how many arrive in a behaviour)
          Kinds,        \* the kinds of request that may arrive
          Earlier,      \* who wrote what is there at the start
          NoOne,        \* "nothing at that path"
          MaxCerts,     \* bound: certificates ever issued, the one at the start included
          MaxMissed,    \* bound: paths that a failed delete has left behind
          MaxCrashes    \* bound: how often the API process is restarted

\* An Initialize request with its secret fields blank, or with its own; a
\* retrieval goes by the path it writes.
Initializes == {"edit", "replace"}
Retrieves   == {"kubeconfig", "join_token"}
Jobs        == {"deploy", "destroy", "cascade"}
AllKinds    == Initializes \cup Retrieves \cup Jobs \cup {"forget"}

\* The paths in the order Initialize puts them; those an edit merges, in the
\* order it gets them; those the purge deletes, in its order (and the path k3s,
\* which nothing writes); those terraform is given.
PutOrder  == <<"proxmox", "network", "ssh", "dns", "tls">>
GetOrder  == <<"proxmox", "dns", "ssh">>
Purged    == <<"proxmox", "network", "ssh", "kubeconfig", "join_token", "wildcard_cert">>
ConfigPaths == {"proxmox", "network", "ssh", "dns", "tls"}
HeldPaths   == {"kubeconfig", "join_token", "wildcard_cert"}
Tfvars      == {"proxmox", "network", "ssh"}
Merged      == {"proxmox", "dns", "ssh"}

Writers == Ops \cup {Earlier}

\* Who wrote a path, and whose secret (token, TSIG key, key pair) it holds.
Value == [by : Writers, secret : Writers \cup {NoOne}]

ASSUME KindsAssumption  == Kinds \subseteq AllKinds
ASSUME WriterAssumption == Earlier \notin Ops /\ NoOne \notin Writers \cup Value
ASSUME BoundAssumption  == MaxCerts \in Nat \ {0} /\ MaxMissed \in Nat /\ MaxCrashes \in Nat

VARIABLES
    kind,       \* kind[o]: what request o asks for (never changes)
    pc,         \* pc[o]: the next Vault, SSH or store operation of o
    at,         \* at[o]: how far o is in a list of paths
    carry,      \* carry[o]: the secrets o read, or brought, and will use
    fetched,    \* fetched[o]: the cluster o read from, or certificate it issued
    alone,      \* alone[o]: no other request, and no renewal, overlapped with o
                \* (history variable)
    status,     \* clusters.status
    config,     \* what Initialize put
    held,       \* the paths that deploys, retrievals and renewals write: which
                \* cluster a kubeconfig or join token is of, which certificate
    missed,     \* paths there still because their last delete failed (history variable)
    vms,        \* the VMs: how often they were built, whether they are there,
                \* and from which configuration
    served,     \* the certificate in the cluster's TLS secret
    issued,     \* certificates issued so far, numbered in order
    renew,      \* where the renewal loop is
    renewing,   \* the certificate it has stored and not pushed yet
    unpushed,   \* the last renewal stored a certificate and failed to push it
                \* (history variable)
    crashes     \* restarts so far

request == <<kind, fetched>>
secrets == <<config, held, missed>>
cluster == <<vms, served>>
renewal == <<renew, renewing, unpushed>>
vars    == <<kind, pc, at, carry, fetched, alone, status, config, held, missed,
             vms, served, issued, renew, renewing, unpushed, crashes>>
------------------------------------------------------------------------------
Exists == status \in Status
Idle(o) == pc[o] \in {"new", "done", "killed"}

\* Between TryLock and Unlock; the purge of a cascade runs under the lock.
JobPC    == {"apply", "configure", "kube", "token", "tls", "keep", "push", "traefik",
             "ready", "teardown", "post", "gone"}
Holds(o) == pc[o] \in JobPC \/ (kind[o] = "cascade" /\ pc[o] \in {"purge", "drop"})
PCs      == JobPC \cup {"new", "merge", "mark", "put", "settle", "lock", "get", "fetch",
                        "store", "purge", "drop", "done", "killed"}

Goto(o, l)   == pc' = [pc EXCEPT ![o] = l]
Start(o, l)  == Goto(o, l) /\ at' = [at EXCEPT ![o] = 1]
SetStatus(s) == status' = IF Exists THEN s ELSE status

There(p)  == config[p] # NoOne
Answers   == vms.there /\ held["kubeconfig"] = vms.gen

\* What the VMs are built from: the settings of a path, and of ssh the key.
Setting(p) == IF p = "ssh" THEN config[p].secret ELSE config[p].by
Current    == [p \in Tfvars |-> Setting(p)]

Known(w) == [p \in ConfigPaths |-> [by |-> w, secret |-> w]]
Nothing  == [p \in ConfigPaths |-> NoOne]

\* The database, Vault and Proxmox as an earlier, idle process may have left
\* them: never initialized, initialized, deployed, destroyed, or left with
\* VMs by a deploy that failed late.
Stored(s, c, k, t, n, there) ==
    [status |-> s, config |-> c, served |-> IF there THEN n ELSE 0, issued |-> n,
     held |-> [kubeconfig |-> k, join_token |-> t, wildcard_cert |-> n],
     vms |-> [gen |-> n, there |-> there, built |-> [p \in Tfvars |-> Earlier]]]

StoredStates == {Stored("pending", Nothing, 0, 0, 0, FALSE),
                 Stored("initialized", Known(Earlier), 0, 0, 0, FALSE),
                 Stored("ready", Known(Earlier), 1, 1, 1, TRUE),
                 Stored("error", Known(Earlier), 1, 1, 1, TRUE),
                 Stored("destroyed", Known(Earlier), 0, 1, 1, FALSE)}

Init ==
    /\ kind \in [Ops -> Kinds]
    /\ pc = [o \in Ops |-> "new"]
    /\ at = [o \in Ops |-> 1]
    /\ carry = [o \in Ops |-> [p \in Merged |-> IF kind[o] = "edit" THEN NoOne ELSE o]]
    /\ fetched = [o \in Ops |-> 0]
    /\ alone = [o \in Ops |-> TRUE]
    /\ \E s \in StoredStates :
          /\ status = s.status
          /\ config = s.config
          /\ held = s.held
          /\ vms = s.vms
          /\ served = s.served
          /\ issued = s.issued
    /\ missed = {}
    /\ renew = "idle"
    /\ renewing = 0
    /\ unpushed = FALSE
    /\ crashes = 0
------------------------------------------------------------------------------
(* A request arrives: the row is read and decided on, once.                 *)

\* Where o goes when it finds the row in status s (see ClusterLifecycle).
Admits(o, s, l) ==
    \/ /\ kind[o] \in Initializes
       /\ CanTransition(s, "initializing")
       /\ IF s = "pending" THEN kind[o] = "replace" /\ l = "mark" ELSE l = "merge"
    \/ kind[o] = "deploy"  /\ CanTransition(s, "deploying")  /\ l = "lock"
    \/ kind[o] = "destroy" /\ CanTransition(s, "destroying") /\ l = "lock"
    \/ kind[o] = "cascade" /\ s \in CascadeDeletable         /\ l = "lock"
    \/ kind[o] = "forget" /\ s \in DirectDeletable /\ l = "purge"
    \/ kind[o] \in Retrieves /\ s = "ready" /\ l = "get"

Arrive(o) ==
    /\ pc[o] = "new"
    /\ Exists
    /\ \E l \in PCs : Admits(o, status, l) /\ Goto(o, l)
    /\ alone' = [p \in Ops |-> IF p = o THEN renew = "idle" /\ \A q \in Ops : Idle(q)
                               ELSE alone[p] /\ Idle(p)]
    /\ UNCHANGED <<request, at, carry, status, secrets, cluster, issued, renewal, crashes>>
------------------------------------------------------------------------------
(* Initialize.                                                              *)

\* A merge that takes a path it cannot read for an empty one.
MergeLeniently(o) ==
    /\ pc[o] = "merge"
    /\ LET p == GetOrder[at[o]] IN
          \/ There(p) /\ kind[o] = "edit" /\ carry' = [carry EXCEPT ![o][p] = config[p].secret]
          \/ carry' = [carry EXCEPT ![o][p] = o]
    /\ IF at[o] = Len(GetOrder)
       THEN Goto(o, "mark") /\ UNCHANGED at
       ELSE at' = [at EXCEPT ![o] = @ + 1] /\ UNCHANGED pc
    /\ UNCHANGED <<request, alone, status, secrets, cluster, issued, renewal, crashes>>

\* Edit mode: a blank secret is taken from Vault, path by path.  When the DNS
\* path cannot be read, be it that there is none or that Vault does not answer,
\* the secret stays blank; when another cannot, the request is refused.
Merge(o) ==
    /\ pc[o] = "merge"
    /\ LET p == GetOrder[at[o]] IN
          \/ /\ There(p)
             /\ carry' = IF kind[o] = "edit" THEN [carry EXCEPT ![o][p] = config[p].secret]
                         ELSE carry
          \/ p = "dns" /\ UNCHANGED carry
    /\ IF at[o] = Len(GetOrder)
       THEN Goto(o, "mark") /\ UNCHANGED at
       ELSE at' = [at EXCEPT ![o] = @ + 1] /\ UNCHANGED pc
    /\ UNCHANGED <<request, alone, status, secrets, cluster, issued, renewal, crashes>>

Refused(o) ==
    /\ pc[o] = "merge"
    /\ Goto(o, "done")
    /\ UNCHANGED <<request, at, carry, alone, status, secrets, cluster, issued, renewal, crashes>>

\* "initializing"; its error is ignored, so the puts follow for a row that has
\* gone as well.  A client that has gone fails every call from here on.
MarkInitializing(o) ==
    /\ pc[o] = "mark"
    /\ \/ SetStatus("initializing") /\ Start(o, "put")
       \/ Goto(o, "done") /\ UNCHANGED <<status, at>>
    /\ UNCHANGED <<request, carry, alone, secrets, cluster, issued, renewal, crashes>>

Puts(o, p) ==
    config' = [config EXCEPT ![p] = [by |-> o, secret |-> IF p \in Merged THEN carry[o][p] ELSE o]]

\* A failed put that goes on to the next path.
PutSkips(o) ==
    /\ pc[o] = "put"
    /\ Puts(o, PutOrder[at[o]]) \/ UNCHANGED config
    /\ IF at[o] = Len(PutOrder)
       THEN Goto(o, "settle") /\ UNCHANGED at
       ELSE at' = [at EXCEPT ![o] = @ + 1] /\ UNCHANGED pc
    /\ UNCHANGED <<request, carry, alone, status, held, missed, cluster, issued, renewal, crashes>>

Put(o) ==
    /\ pc[o] = "put"
    /\ Puts(o, PutOrder[at[o]])
    /\ IF at[o] = Len(PutOrder)
       THEN Goto(o, "settle") /\ UNCHANGED at
       ELSE at' = [at EXCEPT ![o] = @ + 1] /\ UNCHANGED pc
    /\ UNCHANGED <<request, carry, alone, status, held, missed, cluster, issued, renewal, crashes>>

\* A put fails, or only its answer does: "error", unless the client has gone
\* and that write fails too.
PutFails(o) ==
    /\ pc[o] = "put"
    /\ Puts(o, PutOrder[at[o]]) \/ UNCHANGED config
    /\ SetStatus("error") \/ UNCHANGED status
    /\ Goto(o, "done")
    /\ UNCHANGED <<request, at, carry, alone, held, missed, cluster, issued, renewal, crashes>>

\* The DNS pre-flight, and "initialized"; the error of the write is ignored.
SettleInitialized(o) ==
    /\ pc[o] = "settle"
    /\ \/ \E s \in {"initialized", "error"} : SetStatus(s)
       \/ UNCHANGED status
    /\ Goto(o, "done")
    /\ UNCHANGED <<request, at, carry, alone, secrets, cluster, issued, renewal, crashes>>
------------------------------------------------------------------------------
(* Deploy and destroy.                                                      *)

\* The lock, the deployments row and the status in flight, or a refusal.
Begin(o) ==
    /\ pc[o] = "lock"
    /\ \/ /\ Exists
          /\ \A p \in Ops : ~Holds(p)
          /\ IF kind[o] = "deploy"
             THEN SetStatus("deploying") /\ Goto(o, "apply")
             ELSE SetStatus("destroying") /\ Goto(o, "teardown")
       \/ Goto(o, "done") /\ UNCHANGED status
    /\ UNCHANGED <<request, at, carry, alone, secrets, cluster, issued, renewal, crashes>>

Rebuilt == [gen |-> vms.gen + 1, there |-> TRUE, built |-> Current]
Gone    == [vms EXCEPT !.there = FALSE]
\* VMs that are there may be kept: then they have the old key.
Kept    == [vms EXCEPT !.built = [Current EXCEPT !["ssh"] = vms.built["ssh"]]]

\* A deploy that takes up the variables an earlier one wrote.
ApplyWritten(o) ==
    /\ pc[o] = "apply"
    /\ \A p \in Tfvars : There(p)
    /\ \/ vms' = Rebuilt /\ served' = 0
       \/ vms.there /\ UNCHANGED <<vms, served>>
    /\ Goto(o, "configure")
    /\ UNCHANGED <<request, at, carry, alone, status, secrets, issued, renewal, crashes>>

\* BuildTfvars reads the three paths; terraform builds the VMs.
Apply(o) ==
    /\ pc[o] = "apply"
    /\ \A p \in Tfvars : There(p)
    /\ \/ vms' = Rebuilt /\ served' = 0
       \/ vms.there /\ vms' = Kept /\ UNCHANGED served
    /\ Goto(o, "configure")
    /\ UNCHANGED <<request, at, carry, alone, status, secrets, issued, renewal, crashes>>

\* BuildInventory reads the key again, and ansible logs in with it.
Configure(o) ==
    /\ pc[o] = "configure"
    /\ There("network") /\ There("ssh")
    /\ Setting("ssh") = vms.built["ssh"]
    /\ Goto(o, "kube")
    /\ UNCHANGED <<request, at, carry, alone, status, secrets, cluster, issued, renewal, crashes>>

\* FetchKubeconfig and FetchJoinToken, best-effort.
FetchPath(o, here, p, next) ==
    /\ pc[o] = here
    /\ held' = [held EXCEPT ![p] = vms.gen] \/ UNCHANGED held
    /\ Goto(o, next)
    /\ UNCHANGED <<request, at, carry, alone, status, config, missed, cluster, issued, renewal, crashes>>

\* A deploy that stops where it cannot fetch the kubeconfig, and calls it done.
FetchOrStop(o) ==
    \/ FetchPath(o, "kube", "kubeconfig", "token")
    \/ /\ pc[o] = "kube"
       /\ Goto(o, "ready")
       /\ UNCHANGED <<request, at, carry, alone, status, secrets, cluster, issued, renewal, crashes>>

FetchKubeconfig(o) == FetchPath(o, "kube", "kubeconfig", "token")
FetchJoinToken(o)  == FetchPath(o, "token", "join_token", "tls")

\* Vault issues a certificate for the name in the network path, with the role
\* in the tls path,
Issues(n) ==
    /\ issued < MaxCerts
    /\ n = issued + 1
    /\ There("network") /\ There("tls")
    /\ issued' = n

IssueCert(o) ==
    /\ pc[o] = "tls"
    /\ \E n \in 1 .. MaxCerts : Issues(n) /\ fetched' = [fetched EXCEPT ![o] = n]
    /\ Goto(o, "keep")
    /\ UNCHANGED <<kind, at, carry, alone, status, secrets, cluster, renewal, crashes>>

\* and it is stored.
KeepCert(o) ==
    /\ pc[o] = "keep"
    /\ held' = [held EXCEPT !["wildcard_cert"] = fetched[o]]
    /\ Goto(o, "push")
    /\ UNCHANGED <<request, at, carry, alone, status, config, missed, cluster, issued, renewal, crashes>>

\* A push whose error is ignored, as the renewal loop ignores it.
PushIgnored(o) ==
    /\ pc[o] = "push"
    /\ (Answers /\ served' = fetched[o]) \/ UNCHANGED served
    /\ unpushed' = FALSE
    /\ Goto(o, "traefik")
    /\ UNCHANGED <<request, at, carry, alone, status, secrets, vms, issued, renew, renewing, crashes>>

\* kubectl applies the TLS secret, with the kubeconfig in Vault.
PushCert(o) ==
    /\ pc[o] = "push"
    /\ Answers
    /\ served' = fetched[o]
    /\ unpushed' = FALSE
    /\ Goto(o, "traefik")
    /\ UNCHANGED <<request, at, carry, alone, status, secrets, vms, issued, renew, renewing, crashes>>

\* helm, with the kubeconfig in Vault.
InstallTraefik(o) ==
    /\ pc[o] = "traefik"
    /\ Answers
    /\ Goto(o, "ready")
    /\ UNCHANGED <<request, at, carry, alone, status, secrets, cluster, issued, renewal, crashes>>

\* A deploy that writes a status the state machine does not know.
SettleRunning(o) ==
    /\ pc[o] = "ready"
    /\ SetStatus("running") \/ UNCHANGED status
    /\ Goto(o, "done")
    /\ UNCHANGED <<request, at, carry, alone, secrets, cluster, issued, renewal, crashes>>

\* "ready"; a cancel that comes this late makes the write fail.
SettleReady(o) ==
    /\ pc[o] = "ready"
    /\ SetStatus("ready") \/ UNCHANGED status
    /\ Goto(o, "done")
    /\ UNCHANGED <<request, at, carry, alone, secrets, cluster, issued, renewal, crashes>>

\* terraform destroy reads the same three paths.
TearDown(o) ==
    /\ pc[o] = "teardown"
    /\ \A p \in Tfvars : There(p)
    /\ vms' = Gone
    /\ served' = 0
    /\ Goto(o, "post")
    /\ UNCHANGED <<request, at, carry, alone, status, secrets, issued, renewal, crashes>>

Present(p) == IF p \in ConfigPaths THEN There(p) ELSE held[p] # 0

\* The delete of a path, which may fail.
Deletes(p) ==
    \/ /\ IF p \in ConfigPaths
          THEN config' = [config EXCEPT ![p] = NoOne] /\ UNCHANGED held
          ELSE held' = [held EXCEPT ![p] = 0] /\ UNCHANGED config
       /\ missed' = missed \ {p}
    \/ /\ Present(p)
       /\ Cardinality(missed \cup {p}) <= MaxMissed
       /\ missed' = missed \cup {p}
       /\ UNCHANGED <<config, held>>

\* A destroy that leaves Vault as it is.
PostDestroyKeeps(o) ==
    /\ pc[o] = "post"
    /\ Goto(o, "gone")
    /\ UNCHANGED <<request, at, carry, alone, status, secrets, cluster, issued, renewal, crashes>>

\* PostDestroy deletes the kubeconfig and, for the join token, the path k3s.
PostDestroy(o) ==
    /\ pc[o] = "post"
    /\ Deletes("kubeconfig")
    /\ Goto(o, "gone")
    /\ UNCHANGED <<request, at, carry, alone, status, cluster, issued, renewal, crashes>>

\* "destroyed"; a cascade goes on to forget the cluster, unless cancelled.
SettleDestroyed(o) ==
    /\ pc[o] = "gone"
    /\ \/ SetStatus("destroyed") /\ kind[o] = "cascade" /\ Exists /\ Start(o, "purge")
       \/ (SetStatus("destroyed") \/ UNCHANGED status) /\ Goto(o, "done") /\ UNCHANGED at
    /\ UNCHANGED <<request, carry, alone, secrets, cluster, issued, renewal, crashes>>

\* Any step of a job may fail before its last one; fail() writes "error".
JobFails(o) ==
    /\ pc[o] \in JobPC \ {"ready", "gone", "post", "kube", "token"}
    /\ SetStatus("error")
    /\ Goto(o, "done")
    /\ \/ UNCHANGED cluster
       \/ pc[o] \in {"apply", "teardown"} /\ vms' = Gone /\ served' = 0
    /\ UNCHANGED <<request, at, carry, alone, secrets, issued, renewal, crashes>>
------------------------------------------------------------------------------
(* ForgetCluster: PurgeVaultSecrets, then the row.                          *)
PurgePath(o) ==
    /\ pc[o] = "purge"
    /\ Deletes(Purged[at[o]])
    /\ IF at[o] = Len(Purged)
       THEN Goto(o, "drop") /\ UNCHANGED at
       ELSE at' = [at EXCEPT ![o] = @ + 1] /\ UNCHANGED pc
    /\ UNCHANGED <<request, carry, alone, status, cluster, issued, renewal, crashes>>

DropRow(o) ==
    /\ pc[o] = "drop"
    /\ status' \in {status, "gone"}
    /\ Goto(o, "done")
    /\ UNCHANGED <<request, at, carry, alone, secrets, cluster, issued, renewal, crashes>>
------------------------------------------------------------------------------
(* RetrieveKubeconfig and RetrieveJoinToken.                                *)

\* The network and the ssh path are read,
GetKey(o) ==
    /\ pc[o] = "get"
    /\ There("network") /\ There("ssh")
    /\ carry' = [carry EXCEPT ![o]["ssh"] = config["ssh"].secret]
    /\ Goto(o, "fetch")
    /\ UNCHANGED <<request, at, alone, status, secrets, cluster, issued, renewal, crashes>>

\* ssh logs in on the master,
Fetch(o) ==
    /\ pc[o] = "fetch"
    /\ vms.there
    /\ carry[o]["ssh"] = vms.built["ssh"]
    /\ fetched' = [fetched EXCEPT ![o] = vms.gen]
    /\ Goto(o, "store")
    /\ UNCHANGED <<kind, at, carry, alone, status, secrets, cluster, issued, renewal, crashes>>

\* and what it printed is stored.
StoreFetched(o) ==
    /\ pc[o] = "store"
    /\ held' = [held EXCEPT ![kind[o]] = fetched[o]]
    /\ Goto(o, "done")
    /\ UNCHANGED <<request, at, carry, alone, status, config, missed, cluster, issued, renewal, crashes>>

RetrieveFails(o) ==
    /\ pc[o] \in {"get", "fetch", "store"}
    /\ Goto(o, "done")
    /\ UNCHANGED <<request, at, carry, alone, status, secrets, cluster, issued, renewal, crashes>>
------------------------------------------------------------------------------
(* RenewLoop: ListReadyClusters, then renewOnce for the cluster.            *)
RenewTick ==
    /\ renew = "idle"
    /\ status = "ready"
    /\ renew' = "look"
    /\ alone' = [o \in Ops |-> alone[o] /\ Idle(o)]
    /\ UNCHANGED <<request, pc, at, carry, status, secrets, cluster, issued,
                   renewing, unpushed, crashes>>

\* The stored certificate, if there is one, may be within 7 days of its expiry.
RenewLook ==
    /\ renew = "look"
    /\ held["wildcard_cert"] # 0
    /\ renew' = "issue"
    /\ UNCHANGED <<request, pc, at, carry, alone, status, secrets, cluster, issued,
                   renewing, unpushed, crashes>>

RenewIssue ==
    /\ renew = "issue"
    /\ \E n \in 1 .. MaxCerts : Issues(n) /\ renewing' = n
    /\ renew' = "keep"
    /\ UNCHANGED <<request, pc, at, carry, alone, status, secrets, cluster, unpushed, crashes>>

RenewKeep ==
    /\ renew = "keep"
    /\ held' = [held EXCEPT !["wildcard_cert"] = renewing]
    /\ renew' = "push"
    /\ UNCHANGED <<request, pc, at, carry, alone, status, config, missed, cluster, issued,
                   renewing, unpushed, crashes>>

\* Not due yet, or a step fails.
RenewEnds ==
    /\ renew \in {"look", "issue", "keep"}
    /\ renew' = "idle"
    /\ renewing' = 0
    /\ UNCHANGED <<request, pc, at, carry, alone, status, secrets, cluster, issued,
                   unpushed, crashes>>

\* PushCertSecret, whose error is ignored.
RenewPush ==
    /\ renew = "push"
    /\ \/ Answers /\ served' = renewing /\ unpushed' = FALSE
       \/ unpushed' = TRUE /\ UNCHANGED served
    /\ renew' = "idle"
    /\ renewing' = 0
    /\ UNCHANGED <<request, pc, at, carry, alone, status, secrets, vms, issued, crashes>>
------------------------------------------------------------------------------
\* The API process dies; recovery marks the cluster of a running deployment.
Crash ==
    /\ crashes < MaxCrashes
    /\ crashes' = crashes + 1
    /\ pc' = [o \in Ops |-> IF Idle(o) THEN pc[o] ELSE "killed"]
    /\ \/ (\E o \in Ops : pc[o] \in JobPC) /\ SetStatus("error")
       \/ (\A o \in Ops : pc[o] \notin JobPC \ {"ready", "gone"}) /\ UNCHANGED status
    /\ \/ UNCHANGED cluster
       \/ (\E o \in Ops : pc[o] \in {"apply", "teardown"}) /\ vms' = Gone /\ served' = 0
    /\ renew' = "idle"
    /\ renewing' = 0
    /\ unpushed' = (unpushed \/ renew = "push")
    /\ UNCHANGED <<request, at, carry, alone, secrets, issued>>

InitializeStep(o) ==
    Merge(o) \/ Refused(o) \/ MarkInitializing(o) \/ Put(o) \/ PutFails(o) \/ SettleInitialized(o)

JobStep(o) ==
    \/ Begin(o) \/ Apply(o) \/ Configure(o) \/ FetchKubeconfig(o) \/ FetchJoinToken(o)
    \/ IssueCert(o) \/ KeepCert(o) \/ PushCert(o) \/ InstallTraefik(o) \/ SettleReady(o)
    \/ TearDown(o) \/ PostDestroy(o) \/ SettleDestroyed(o) \/ JobFails(o)

PurgeStep(o)    == PurgePath(o) \/ DropRow(o)
RetrieveStep(o) == GetKey(o) \/ Fetch(o) \/ StoreFetched(o) \/ RetrieveFails(o)
RenewStep       == RenewTick \/ RenewLook \/ RenewIssue \/ RenewKeep \/ RenewEnds \/ RenewPush

Next ==
    \/ \E o \in Ops : Arrive(o) \/ InitializeStep(o) \/ JobStep(o) \/ PurgeStep(o) \/ RetrieveStep(o)
    \/ RenewStep
    \/ Crash

Spec == Init /\ [][Next]_vars
------------------------------------------------------------------------------
VMRecords == [gen : Nat, there : BOOLEAN, built : [Tfvars -> Writers \cup {NoOne}]]

TypeOK ==
    /\ kind \in [Ops -> Kinds]
    /\ pc \in [Ops -> PCs]
    /\ at \in [Ops -> 1 .. Len(Purged)]
    /\ carry \in [Ops -> [Merged -> Writers \cup {NoOne}]]
    /\ fetched \in [Ops -> Nat]
    /\ alone \in [Ops -> BOOLEAN]
    /\ status \in Status \cup {"gone"}
    /\ config \in [ConfigPaths -> Value \cup {NoOne}]
    /\ held \in [HeldPaths -> Nat]
    /\ missed \subseteq ConfigPaths \cup HeldPaths
    /\ vms \in VMRecords
    /\ served \in 0 .. issued
    /\ issued \in 0 .. MaxCerts
    /\ renew \in {"idle", "look", "issue", "keep", "push"}
    /\ renewing \in 0 .. issued
    /\ unpushed \in BOOLEAN
    /\ crashes \in 0 .. MaxCrashes

\* No request of these kinds has overlapped with another, or with a renewal.
Undisturbed(K) == \A o \in Ops : kind[o] \in K => alone[o]
\* None of these kinds has passed its first check.
NoneOf(K) == \A o \in Ops : kind[o] \in K => pc[o] = "new"
Quiet == renew = "idle" /\ \A o \in Ops : Idle(o)

\* The VMs of a cluster that says "ready" are what the settings in Vault say,
\* unless an Initialize or a purge was under way together with something else:
\* neither takes the mutex, and a deploy reads what it finds.
NoDrift ==
    status = "ready" /\ Undisturbed(Initializes \cup {"forget"}) =>
        \A p \in Tfvars : There(p) /\ vms.built[p] = Setting(p)

\* A cluster that says "initialized" has all of its configuration, from one
\* request, although the five puts are separate and each may fail; but for
\* Initializes that overlapped, and a purge that ended before the row went.
InitializedIsWhole ==
    status = "initialized" /\ Undisturbed(Initializes) /\ NoneOf({"forget"}) =>
        /\ \A p \in ConfigPaths : There(p)
        /\ \A p, q \in ConfigPaths : config[p].by = config[q].by

\* Secrets left blank are kept: what Vault holds of the Proxmox token, the
\* TSIG key and the key pair changes only by a request that brings its own,
\* or one that merged while another was writing; but for the TSIG key of an
\* edit that could not read it.
KeysKept ==
    [][\A p \in Merged :
          There(p) /\ There(p)' /\ config[p].secret # config'[p].secret =>
              \E o \in Ops : /\ pc[o] = "put"
                             /\ \/ kind[o] = "replace" \/ ~alone[o]
                                \/ p = "dns" /\ carry[o][p] = NoOne]_vars

\* The kubeconfig in Vault of a cluster that says "ready" is that of its VMs,
\* although fetching it is best-effort; but for a retrieval that stored late,
\* and a purge that overlapped.
ReadyAnswers ==
    status = "ready" /\ Undisturbed({"kubeconfig", "forget"}) =>
        vms.there /\ held["kubeconfig"] = vms.gen

\* The renewal looks at the certificate in Vault, the cluster serves another
\* copy: they are the same, so that the served one is renewed in time, unless
\* the last push of the renewal failed, or a deploy did not run alone.
ServedIsStored ==
    status = "ready" /\ renew # "push" /\ ~unpushed /\ Undisturbed({"deploy"}) =>
        served = held["wildcard_cert"]

\* Once everything is quiet, a forgotten cluster leaves in Vault what the purge
\* has not in its list (dns, tls) and what it failed to delete, and a destroyed
\* one no kubeconfig; but for the requests that overlapped and wrote afterwards.
NoLeftovers ==
    Quiet /\ Undisturbed(Kinds) =>
        /\ status = "gone" =>
              \A p \in ConfigPaths \cup HeldPaths : Present(p) => p \in missed \cup {"dns", "tls"}
        /\ status = "destroyed" /\ Present("kubeconfig") => "kubeconfig" \in missed

\* initialize.go:116-117: edit mode is for a cluster that "has already been
\* initialized at least once", so it finds the secrets that it is to keep.
EditModeFindsSecrets ==
    \A o \in Ops : pc[o] = "merge" /\ alone[o] => There("proxmox") /\ There("ssh")
==============================================================================
