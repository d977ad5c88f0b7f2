------------------------ MODULE ClusterSecretsProofs -------------------------
(***************************************************************************)
(* Theorems about ClusterSecrets.  Nothing in Vault is locked, so two      *)
(* facts carry the proofs: a job holds the cluster mutex, and a request    *)
(* that has run alone so far is the only one that can have moved.          *)
(***************************************************************************)
EXTENDS ClusterSecrets, TLAPS

\* Only requests of the right kind come to a program point, and lists are read
\* within their length; a certificate in hand has been issued.
PathInv ==
    \A o \in Ops :
        /\ pc[o] = "new" => at[o] = 1
        /\ pc[o] = "merge" => at[o] \in 1 .. 3
        /\ pc[o] = "put" => at[o] \in 1 .. 5
        /\ pc[o] = "purge" => at[o] \in 1 .. 6
        /\ pc[o] \in {"merge", "mark", "put", "settle"} => kind[o] \in Initializes
        /\ pc[o] \in {"apply", "configure", "kube", "token", "tls", "keep", "push", "traefik", "ready"}
              => kind[o] = "deploy"
        /\ pc[o] \in {"teardown", "post", "gone"} => kind[o] \in {"destroy", "cascade"}
        /\ pc[o] = "lock" => kind[o] \in Jobs
        /\ pc[o] \in {"purge", "drop"} => kind[o] \in {"cascade", "forget"}
        /\ pc[o] \in {"get", "fetch", "store"} => kind[o] \in Retrieves
        /\ pc[o] \in {"keep", "push"} => fetched[o] \in 0 .. issued

\* The mutex: jobs of the cluster, and the purge of a cascade, exclude each other;
\* while one is under way the cluster does not say "ready".
MutexInv ==
    /\ \A o, p \in Ops : Holds(o) /\ Holds(p) => o = p
    /\ \A o \in Ops : Holds(o) => status # "ready"

\* o is under way and has been alone so far.
Solo(o) == alone[o] /\ ~Idle(o)

\* Then no other request and no renewal is under way.
AloneInv ==
    \A o \in Ops :
        /\ pc[o] = "new" => alone[o]
        /\ Solo(o) => renew = "idle" /\ \A q \in Ops \ {o} : Idle(q)
------------------------------------------------------------------------------
\* What a request that has been alone so far knows at each of its points.

\* The row is there, in the status that admitted it or that it wrote itself.
SoloStatus(o) ==
    /\ Exists
    /\ pc[o] \in {"put", "settle"} => status = "initializing"
    /\ pc[o] \in JobPC /\ kind[o] = "deploy" => status = "deploying"
    /\ kind[o] \in Retrieves => status = "ready"
    /\ pc[o] \in {"purge", "drop"} => status \in DirectDeletable

\* An edit carries no TSIG key until it reads one.
BlankInv ==
    \A o \in Ops : kind[o] = "edit" /\ pc[o] \in {"new", "merge"} /\ at[o] \in {1, 2}
                     => carry[o]["dns"] = NoOne

\* An edit carries the secrets it read, or none where it could not read DNS.
SoloMerge(o) ==
    \A i \in 1 .. 3 :
        /\ kind[o] = "edit"
        /\ pc[o] \in {"merge", "mark", "put"}
        /\ pc[o] = "merge" => i < at[o]
        => LET p == GetOrder[i] IN
              \/ There(p) /\ carry[o][p] = config[p].secret
              \/ p = "dns" /\ carry[o][p] = NoOne

\* The paths it has put are its own.
SoloPut(o) ==
    \A i \in 1 .. 5 :
        pc[o] = "settle" \/ (pc[o] = "put" /\ i < at[o])
        => There(PutOrder[i]) /\ config[PutOrder[i]].by = o

\* A retrieval has what the VMs have, a deploy serves what it has stored.
SoloCopies(o) ==
    /\ pc[o] = "store" => vms.there /\ fetched[o] = vms.gen
    /\ pc[o] = "push" => held["wildcard_cert"] = fetched[o]
    /\ pc[o] \in {"traefik", "ready"} => held["wildcard_cert"] = served

\* What it has deleted is gone, or counts as missed.
Cleared(p) == Present(p) => p \in missed

SoloPurge(o) ==
    /\ pc[o] = "gone" => Cleared("kubeconfig")
    /\ \A i \in 1 .. 6 :
          pc[o] = "drop" \/ (pc[o] = "purge" /\ i < at[o]) => Cleared(Purged[i])

SoloInv ==
    \A o \in Ops : Solo(o) =>
        SoloStatus(o) /\ SoloMerge(o) /\ SoloPut(o) /\ SoloCopies(o) /\ SoloPurge(o)
------------------------------------------------------------------------------
\* The properties, each with what keeps it true while a job is under way.

Aligned(p) == There(p) /\ vms.built[p] = Setting(p)

\* The VMs a deploy goes on with were built from the settings in Vault, but for
\* the key until it has logged in.
Late == {"kube", "token", "tls", "keep", "push", "traefik", "ready"}

JobAligned(o) ==
    /\ pc[o] = "configure" => Aligned("proxmox") /\ Aligned("network") /\ There("ssh")
    /\ pc[o] \in Late => \A p \in Tfvars : Aligned(p)

\* NoDrift, and the deploy that is about to claim it.
DriftInv ==
    Undisturbed(Initializes \cup {"forget"}) =>
        /\ status = "ready" => \A p \in Tfvars : Aligned(p)
        /\ \A o \in Ops : JobAligned(o)

\* ReadyAnswers, and the deploy that has just stored the kubeconfig.
AnswersInv ==
    Undisturbed({"kubeconfig", "forget"}) =>
        /\ status = "ready" => Answers
        /\ \A o \in Ops : pc[o] = "ready" => Answers

\* ServedIsStored, and between the renewal's put and its push: what it is about to
\* push is what it has put.
ServedInv ==
    Undisturbed({"deploy"}) =>
        /\ status = "ready" /\ renew # "push" /\ ~unpushed => served = held["wildcard_cert"]
        /\ status = "ready" /\ renew = "push" => renewing = held["wildcard_cert"]
        /\ \A o \in Ops : pc[o] = "purge" => status # "ready"

\* InitializedIsWhole; a purge never finds such a cluster, unless a forget runs it.
WholeInv ==
    Undisturbed(Initializes) /\ NoneOf({"forget"}) =>
        /\ status = "initialized" =>
              /\ \A p \in ConfigPaths : There(p)
              /\ \A p, q \in ConfigPaths : config[p].by = config[q].by
        /\ \A o \in Ops : pc[o] = "purge" => status # "initialized"

\* NoLeftovers, and nothing is under way once the row is gone.
LeftoverInv ==
    Undisturbed(Kinds) =>
        /\ status = "gone" =>
              /\ Quiet
              /\ \A p \in ConfigPaths \cup HeldPaths : Present(p) => p \in missed \cup {"dns", "tls"}
        /\ status = "destroyed" => Cleared("kubeconfig")
------------------------------------------------------------------------------
(* Types.                                                                   *)

\* The lists of paths, read out.
LEMMA Lists ==
    /\ Len(PutOrder) = 5 /\ Len(GetOrder) = 3 /\ Len(Purged) = 6
    /\ PutOrder[1] = "proxmox" /\ PutOrder[2] = "network" /\ PutOrder[3] = "ssh"
    /\ PutOrder[4] = "dns" /\ PutOrder[5] = "tls"
    /\ GetOrder[1] = "proxmox" /\ GetOrder[2] = "dns" /\ GetOrder[3] = "ssh"
    /\ Purged[1] = "proxmox" /\ Purged[2] = "network" /\ Purged[3] = "ssh"
    /\ Purged[4] = "kubeconfig" /\ Purged[5] = "join_token" /\ Purged[6] = "wildcard_cert"
BY DEF PutOrder, GetOrder, Purged

\* What an earlier process left behind is well typed.
StateTyped(s) ==
    /\ s.status \in Status
    /\ s.config \in [ConfigPaths -> Value \cup {NoOne}]
    /\ s.held \in [HeldPaths -> Nat]
    /\ s.vms \in VMRecords
    /\ s.served \in 0 .. s.issued
    /\ s.issued \in 0 .. 1

LEMMA StoredTypes == \A s \in StoredStates : StateTyped(s)
<1> SUFFICES ASSUME NEW s \in StoredStates PROVE StateTyped(s)
    OBVIOUS
<1>1. Known(Earlier) \in [ConfigPaths -> Value \cup {NoOne}] /\ Nothing \in [ConfigPaths -> Value \cup {NoOne}]
    BY DEF Known, Nothing, Value, Writers
<1>2. PICK st \in {"pending", "initialized", "ready", "error", "destroyed"},
           c \in {Known(Earlier), Nothing}, k \in {0, 1}, t \in {0, 1}, n \in {0, 1}, b \in BOOLEAN :
              s = [status |-> st, config |-> c, served |-> IF b THEN n ELSE 0, issued |-> n,
                   held |-> [kubeconfig |-> k, join_token |-> t, wildcard_cert |-> n],
                   vms |-> [gen |-> n, there |-> b, built |-> [p \in Tfvars |-> Earlier]]]
    BY DEF StoredStates, Stored
<1>3. s.held \in [HeldPaths -> Nat]
    BY <1>2 DEF HeldPaths
<1>4. s.vms \in VMRecords
    BY <1>2 DEF VMRecords, Writers
<1>5. QED
    BY <1>1, <1>2, <1>3, <1>4 DEF StateTyped, Status

\* Every initial state is well typed.
LEMMA TypeInit == Init => TypeOK /\ PathInv
<1> SUFFICES ASSUME Init PROVE TypeOK /\ PathInv
    OBVIOUS
<1>1. PICK s \in StoredStates : /\ status = s.status /\ config = s.config /\ held = s.held
                                /\ vms = s.vms /\ served = s.served /\ issued = s.issued
    BY DEF Init
<1>2. StateTyped(s)
    BY StoredTypes
<1>3. kind \in [Ops -> Kinds] /\ pc \in [Ops -> PCs] /\ carry \in [Ops -> [Merged -> Writers \cup {NoOne}]]
    BY DEF Init, PCs, Writers
<1>4. status \in Status \cup {"gone"} /\ issued \in 0 .. MaxCerts /\ served \in 0 .. issued
    BY <1>1, <1>2, BoundAssumption DEF StateTyped
<1>5. config \in [ConfigPaths -> Value \cup {NoOne}] /\ held \in [HeldPaths -> Nat] /\ vms \in VMRecords
    BY <1>1, <1>2 DEF StateTyped
<1>6. /\ at \in [Ops -> 1 .. Len(Purged)] /\ fetched \in [Ops -> Nat] /\ alone \in [Ops -> BOOLEAN]
      /\ renewing \in 0 .. issued /\ crashes \in 0 .. MaxCrashes
    BY <1>4, Lists, BoundAssumption DEF Init
<1>7. TypeOK
    BY <1>3, <1>4, <1>5, <1>6, Zenon DEF Init, TypeOK
<1>8. PathInv
    BY DEF Init, PathInv
<1>9. QED
    BY <1>7, <1>8
------------------------------------------------------------------------------
(* Which steps write which variable.                                        *)

\* What Initialize put changes by its puts and by the purge.
LEMMA ConfigMoves ==
    [Next]_vars =>
        \/ UNCHANGED config
        \/ \E o \in Ops : Put(o) \/ PutFails(o) \/ PurgePath(o)
BY DEF vars, Next, InitializeStep, JobStep, PurgeStep, RetrieveStep, RenewStep, secrets,
       Arrive, Merge, Refused, MarkInitializing, SettleInitialized, Begin, Apply,
       Configure, FetchKubeconfig, FetchJoinToken, IssueCert, KeepCert, PushCert,
       InstallTraefik, SettleReady, TearDown, PostDestroy, SettleDestroyed, JobFails,
       DropRow, GetKey, Fetch, StoreFetched, RetrieveFails, RenewTick, RenewLook,
       RenewIssue, RenewKeep, RenewEnds, RenewPush, Crash, FetchPath, Deletes,
       ConfigPaths, Start

\* The other paths change by fetches, retrievals, renewals and deletes.
LEMMA HeldMoves ==
    [Next]_vars =>
        \/ UNCHANGED held
        \/ \E o \in Ops : FetchKubeconfig(o) \/ FetchJoinToken(o) \/ KeepCert(o)
                           \/ StoreFetched(o) \/ PostDestroy(o) \/ PurgePath(o)
        \/ RenewKeep
BY DEF vars, Next, InitializeStep, JobStep, PurgeStep, RetrieveStep, RenewStep, secrets,
       Arrive, Merge, Refused, MarkInitializing, Put, PutFails, SettleInitialized, Begin,
       Apply, Configure, IssueCert, PushCert, InstallTraefik, SettleReady, TearDown,
       SettleDestroyed, JobFails, DropRow, GetKey, Fetch, RetrieveFails, RenewTick,
       RenewLook, RenewIssue, RenewEnds, RenewPush, Crash, Start

\* Deletes alone leave paths behind.
LEMMA MissedMoves ==
    [Next]_vars =>
        \/ UNCHANGED missed
        \/ \E o \in Ops : PostDestroy(o) \/ PurgePath(o)
BY DEF vars, Next, InitializeStep, JobStep, PurgeStep, RetrieveStep, RenewStep, secrets,
       Arrive, Merge, Refused, MarkInitializing, Put, PutFails, SettleInitialized, Begin,
       Apply, Configure, FetchKubeconfig, FetchJoinToken, IssueCert, KeepCert, PushCert,
       InstallTraefik, SettleReady, TearDown, SettleDestroyed, JobFails, DropRow, GetKey,
       Fetch, StoreFetched, RetrieveFails, RenewTick, RenewLook, RenewIssue, RenewKeep,
       RenewEnds, RenewPush, Crash, FetchPath, Start

\* The VMs change in terraform, be it cut short.
LEMMA VMMoves ==
    [Next]_vars =>
        \/ UNCHANGED vms
        \/ \E o \in Ops : Apply(o) \/ TearDown(o) \/ JobFails(o)
        \/ Crash
BY DEF vars, Next, InitializeStep, JobStep, PurgeStep, RetrieveStep, RenewStep, cluster,
       Arrive, Merge, Refused, MarkInitializing, Put, PutFails, SettleInitialized, Begin,
       Configure, FetchKubeconfig, FetchJoinToken, IssueCert, KeepCert, PushCert,
       InstallTraefik, SettleReady, PostDestroy, SettleDestroyed, PurgePath, DropRow,
       GetKey, Fetch, StoreFetched, RetrieveFails, RenewTick, RenewLook, RenewIssue,
       RenewKeep, RenewEnds, RenewPush, FetchPath, Deletes, Start

\* What the cluster serves changes with its VMs and by pushes.
LEMMA ServedMoves ==
    [Next]_vars =>
        \/ UNCHANGED served
        \/ \E o \in Ops : Apply(o) \/ TearDown(o) \/ JobFails(o) \/ PushCert(o)
        \/ RenewPush \/ Crash
BY DEF vars, Next, InitializeStep, JobStep, PurgeStep, RetrieveStep, RenewStep, cluster,
       Arrive, Merge, Refused, MarkInitializing, Put, PutFails, SettleInitialized, Begin,
       Configure, FetchKubeconfig, FetchJoinToken, IssueCert, KeepCert, InstallTraefik,
       SettleReady, PostDestroy, SettleDestroyed, PurgePath, DropRow, GetKey, Fetch,
       StoreFetched, RetrieveFails, RenewTick, RenewLook, RenewIssue, RenewKeep,
       RenewEnds, FetchPath, Deletes, Start

\* The steps that write the status of the row.
LEMMA StatusMoves ==
    [Next]_vars =>
        \/ UNCHANGED status
        \/ \E o \in Ops : MarkInitializing(o) \/ PutFails(o) \/ SettleInitialized(o)
                           \/ Begin(o) \/ SettleReady(o) \/ SettleDestroyed(o)
                           \/ JobFails(o) \/ DropRow(o)
        \/ Crash
BY DEF vars, Next, InitializeStep, JobStep, PurgeStep, RetrieveStep, RenewStep, Arrive,
       Merge, Refused, Put, Apply, Configure, FetchKubeconfig, FetchJoinToken, IssueCert,
       KeepCert, PushCert, InstallTraefik, TearDown, PostDestroy, PurgePath, GetKey,
       Fetch, StoreFetched, RetrieveFails, RenewTick, RenewLook, RenewIssue, RenewKeep,
       RenewEnds, RenewPush, FetchPath, Deletes

\* A request takes up secrets by a merge or a read of the key.
LEMMA CarryMoves ==
    [Next]_vars =>
        \/ UNCHANGED carry
        \/ \E o \in Ops : Merge(o) \/ GetKey(o)
BY DEF vars, Next, InitializeStep, JobStep, PurgeStep, RetrieveStep, RenewStep, Arrive,
       Refused, MarkInitializing, Put, PutFails, SettleInitialized, Begin, Apply,
       Configure, FetchKubeconfig, FetchJoinToken, IssueCert, KeepCert, PushCert,
       InstallTraefik, SettleReady, TearDown, PostDestroy, SettleDestroyed, JobFails,
       PurgePath, DropRow, Fetch, StoreFetched, RetrieveFails, RenewTick, RenewLook,
       RenewIssue, RenewKeep, RenewEnds, RenewPush, Crash, FetchPath, Deletes, Start

\* and what it fetched or had issued.
LEMMA FetchedMoves ==
    [Next]_vars =>
        \/ UNCHANGED fetched
        \/ \E o \in Ops : IssueCert(o) \/ Fetch(o)
BY DEF vars, Next, InitializeStep, JobStep, PurgeStep, RetrieveStep, RenewStep, request,
       Arrive, Merge, Refused, MarkInitializing, Put, PutFails, SettleInitialized, Begin,
       Apply, Configure, FetchKubeconfig, FetchJoinToken, KeepCert, PushCert,
       InstallTraefik, SettleReady, TearDown, PostDestroy, SettleDestroyed, JobFails,
       PurgePath, DropRow, GetKey, StoreFetched, RetrieveFails, RenewTick, RenewLook,
       RenewIssue, RenewKeep, RenewEnds, RenewPush, Crash, FetchPath, Deletes, Start

\* Certificates are issued to deploys and to the renewal.
LEMMA IssuedMoves ==
    [Next]_vars =>
        \/ UNCHANGED issued
        \/ \E o \in Ops : IssueCert(o)
        \/ RenewIssue
BY DEF vars, Next, InitializeStep, JobStep, PurgeStep, RetrieveStep, RenewStep, Arrive,
       Merge, Refused, MarkInitializing, Put, PutFails, SettleInitialized, Begin, Apply,
       Configure, FetchKubeconfig, FetchJoinToken, KeepCert, PushCert, InstallTraefik,
       SettleReady, TearDown, PostDestroy, SettleDestroyed, JobFails, PurgePath, DropRow,
       GetKey, Fetch, StoreFetched, RetrieveFails, RenewTick, RenewLook, RenewKeep,
       RenewEnds, RenewPush, Crash, FetchPath, Deletes, Start

\* The steps that move in a list of paths.
LEMMA AtMoves ==
    [Next]_vars =>
        \/ UNCHANGED at
        \/ \E o \in Ops : Merge(o) \/ MarkInitializing(o) \/ Put(o)
                           \/ SettleDestroyed(o) \/ PurgePath(o)
BY DEF vars, Next, InitializeStep, JobStep, PurgeStep, RetrieveStep, RenewStep, Arrive,
       Refused, PutFails, SettleInitialized, Begin, Apply, Configure, FetchKubeconfig,
       FetchJoinToken, IssueCert, KeepCert, PushCert, InstallTraefik, SettleReady,
       TearDown, PostDestroy, JobFails, DropRow, GetKey, Fetch, StoreFetched,
       RetrieveFails, RenewTick, RenewLook, RenewIssue, RenewKeep, RenewEnds, RenewPush,
       Crash, FetchPath, Deletes

\* Who has been alone is noted when a request or a renewal begins.
LEMMA AloneMoves ==
    [Next]_vars =>
        \/ UNCHANGED alone
        \/ \E o \in Ops : Arrive(o)
        \/ RenewTick
BY DEF vars, Next, InitializeStep, JobStep, PurgeStep, RetrieveStep, RenewStep, Merge,
       Refused, MarkInitializing, Put, PutFails, SettleInitialized, Begin, Apply,
       Configure, FetchKubeconfig, FetchJoinToken, IssueCert, KeepCert, PushCert,
       InstallTraefik, SettleReady, TearDown, PostDestroy, SettleDestroyed, JobFails,
       PurgePath, DropRow, GetKey, Fetch, StoreFetched, RetrieveFails, RenewLook,
       RenewIssue, RenewKeep, RenewEnds, RenewPush, Crash, FetchPath, Deletes, Start

\* The renewal moves by itself, or dies with the process.
LEMMA RenewMoves ==
    [Next]_vars =>
        \/ renew' = renew /\ renewing' = renewing
        \/ RenewStep \/ Crash
BY Zenon
DEF vars, Next, InitializeStep, JobStep, PurgeStep, RetrieveStep, renewal,
       Arrive, Merge, Refused, MarkInitializing, Put, PutFails, SettleInitialized, Begin,
       Apply, Configure, FetchKubeconfig, FetchJoinToken, IssueCert, KeepCert, PushCert,
       InstallTraefik, SettleReady, TearDown, PostDestroy, SettleDestroyed, JobFails,
       PurgePath, DropRow, GetKey, Fetch, StoreFetched, RetrieveFails, FetchPath,
       Deletes, Start

\* Pushes, and a crash before one, settle what is unpushed.
LEMMA UnpushedMoves ==
    [Next]_vars =>
        \/ UNCHANGED unpushed
        \/ \E o \in Ops : PushCert(o)
        \/ RenewStep \/ Crash
BY Zenon
DEF vars, Next, InitializeStep, JobStep, PurgeStep, RetrieveStep, renewal,
       Arrive, Merge, Refused, MarkInitializing, Put, PutFails, SettleInitialized, Begin,
       Apply, Configure, FetchKubeconfig, FetchJoinToken, IssueCert, KeepCert,
       InstallTraefik, SettleReady, TearDown, PostDestroy, SettleDestroyed, JobFails,
       PurgePath, DropRow, GetKey, Fetch, StoreFetched, RetrieveFails, FetchPath, Deletes, Start

\* Restarts are counted.
LEMMA CrashMoves ==
    [Next]_vars =>
        \/ UNCHANGED crashes
        \/ Crash
BY DEF vars, Next, InitializeStep, JobStep, PurgeStep, RetrieveStep, RenewStep, Arrive,
       Merge, Refused, MarkInitializing, Put, PutFails, SettleInitialized, Begin, Apply,
       Configure, FetchKubeconfig, FetchJoinToken, IssueCert, KeepCert, PushCert,
       InstallTraefik, SettleReady, TearDown, PostDestroy, SettleDestroyed, JobFails,
       PurgePath, DropRow, GetKey, Fetch, StoreFetched, RetrieveFails, RenewTick,
       RenewLook, RenewIssue, RenewKeep, RenewEnds, RenewPush, FetchPath, Deletes, Start
------------------------------------------------------------------------------
(* Types, one variable at a time.                                           *)

\* Vault holds records of who wrote what.
LEMMA ConfigType == TypeOK /\ [Next]_vars => config' \in [ConfigPaths -> Value \cup {NoOne}]
<1> SUFFICES ASSUME TypeOK, [Next]_vars PROVE config' \in [ConfigPaths -> Value \cup {NoOne}]
    OBVIOUS
<1>a. config \in [ConfigPaths -> Value \cup {NoOne}] /\ carry \in [Ops -> [Merged -> Writers \cup {NoOne}]]
    BY DEF TypeOK
<1>1. CASE UNCHANGED config
    BY <1>a, <1>1
<1>2. ASSUME NEW o \in Ops, Put(o) \/ PutFails(o) PROVE config' \in [ConfigPaths -> Value \cup {NoOne}]
  <2>1. ASSUME NEW p PROVE [by |-> o, secret |-> IF p \in Merged THEN carry[o][p] ELSE o] \in Value
    BY <1>a DEF Value, Writers
  <2>2. QED
    BY <1>a, <1>2, <2>1 DEF Put, PutFails, Puts
<1>3. ASSUME NEW o \in Ops, PurgePath(o) PROVE config' \in [ConfigPaths -> Value \cup {NoOne}]
    BY <1>a, <1>3 DEF PurgePath, Deletes
<1>4. QED
    BY <1>1, <1>2, <1>3, ConfigMoves

\* What a request carries came from itself or from there.
LEMMA CarryType == TypeOK /\ PathInv /\ [Next]_vars => carry' \in [Ops -> [Merged -> Writers \cup {NoOne}]]
<1> SUFFICES ASSUME TypeOK, PathInv, [Next]_vars PROVE carry' \in [Ops -> [Merged -> Writers \cup {NoOne}]]
    OBVIOUS
<1>a. config \in [ConfigPaths -> Value \cup {NoOne}] /\ carry \in [Ops -> [Merged -> Writers \cup {NoOne}]]
    BY DEF TypeOK
<1>b. ASSUME NEW p \in ConfigPaths, There(p) PROVE config[p].secret \in Writers \cup {NoOne}
    BY <1>a, <1>b DEF There, Value
<1>1. ASSUME NEW o \in Ops, NEW p \in ConfigPaths, There(p), carry' = [carry EXCEPT ![o][p] = config[p].secret]
      PROVE  carry' \in [Ops -> [Merged -> Writers \cup {NoOne}]]
    BY <1>a, <1>b, <1>1
<1>2. ASSUME NEW o \in Ops, Merge(o) PROVE carry' \in [Ops -> [Merged -> Writers \cup {NoOne}]]
  <2>1. GetOrder[at[o]] \in ConfigPaths
    BY <1>2, Lists DEF PathInv, Merge, ConfigPaths
  <2>2. CASE UNCHANGED carry
    BY <1>a, <2>2
  <2>3. CASE carry' # carry
    <3>1. /\ There(GetOrder[at[o]])
          /\ carry' = [carry EXCEPT ![o][GetOrder[at[o]]] = config[GetOrder[at[o]]].secret]
      BY <1>2, <2>3 DEF Merge
    <3>2. QED
      BY <1>1, <2>1, <3>1
  <2>4. QED
    BY <2>2, <2>3
<1>3. ASSUME NEW o \in Ops, GetKey(o) PROVE carry' \in [Ops -> [Merged -> Writers \cup {NoOne}]]
    BY <1>1, <1>3 DEF GetKey, ConfigPaths
<1>4. CASE UNCHANGED carry
    BY <1>a, <1>4
<1>5. QED
    BY <1>2, <1>3, <1>4, CarryMoves

\* Certificates are numbered, and so are the builds of the VMs.
LEMMA HeldType == TypeOK /\ [Next]_vars => held' \in [HeldPaths -> Nat]
<1> SUFFICES ASSUME TypeOK, [Next]_vars PROVE held' \in [HeldPaths -> Nat]
    OBVIOUS
<1>a. /\ held \in [HeldPaths -> Nat] /\ fetched \in [Ops -> Nat] /\ vms.gen \in Nat /\ renewing \in Nat
    BY DEF TypeOK, VMRecords
<1>1. ASSUME NEW o \in Ops, FetchKubeconfig(o) \/ FetchJoinToken(o) \/ KeepCert(o) \/ StoreFetched(o)
      PROVE  held' \in [HeldPaths -> Nat]
    BY <1>a, <1>1 DEF FetchKubeconfig, FetchJoinToken, FetchPath, KeepCert, StoreFetched
<1>2. ASSUME NEW o \in Ops, PostDestroy(o) \/ PurgePath(o) PROVE held' \in [HeldPaths -> Nat]
    BY <1>a, <1>2 DEF PostDestroy, PurgePath, Deletes
<1>3. CASE RenewKeep
    BY <1>a, <1>3 DEF RenewKeep
<1>4. CASE UNCHANGED held
    BY <1>a, <1>4
<1>5. QED
    BY <1>1, <1>2, <1>3, <1>4, HeldMoves

\* VMs are built from what Vault holds.
LEMMA VMType == TypeOK /\ [Next]_vars => vms' \in VMRecords
<1> SUFFICES ASSUME TypeOK, [Next]_vars PROVE vms' \in VMRecords
    OBVIOUS
<1>a. vms \in VMRecords /\ config \in [ConfigPaths -> Value \cup {NoOne}]
    BY DEF TypeOK
<1>1. ASSUME NEW o \in Ops, Apply(o) PROVE vms' \in VMRecords
  <2>1. Current \in [Tfvars -> Writers \cup {NoOne}]
    BY <1>a, <1>1 DEF Apply, Current, Setting, There, Tfvars, ConfigPaths, Value
  <2>2. [Current EXCEPT !["ssh"] = vms.built["ssh"]] \in [Tfvars -> Writers \cup {NoOne}]
    BY <1>a, <2>1 DEF VMRecords, Tfvars
  <2>3. Rebuilt \in VMRecords /\ Kept \in VMRecords
    BY <1>a, <2>1, <2>2 DEF VMRecords, Rebuilt, Kept
  <2>4. QED
    BY <1>1, <2>3 DEF Apply
<1>2. Gone \in VMRecords
    BY <1>a DEF VMRecords, Gone
<1>3. ASSUME NEW o \in Ops, TearDown(o) \/ JobFails(o) PROVE vms' \in VMRecords
    BY <1>a, <1>2, <1>3 DEF TearDown, JobFails, cluster
<1>4. CASE Crash
    BY <1>a, <1>2, <1>4 DEF Crash, cluster
<1>5. CASE UNCHANGED vms
    BY <1>a, <1>5
<1>6. QED
    BY <1>1, <1>3, <1>4, <1>5, VMMoves

\* The program counters.
LEMMA PCType == TypeOK /\ [Next]_vars => pc' \in [Ops -> PCs]
<1> SUFFICES ASSUME TypeOK, [Next]_vars PROVE pc' \in [Ops -> PCs]
    OBVIOUS
<1> USE DEF Goto, Start, PCs, JobPC
<1>a. pc \in [Ops -> PCs]
    BY DEF TypeOK
<1>1. ASSUME NEW o \in Ops, Arrive(o) PROVE pc' \in [Ops -> PCs]
    BY <1>a, <1>1 DEF Arrive
<1>2. ASSUME NEW o \in Ops, InitializeStep(o) PROVE pc' \in [Ops -> PCs]
    BY <1>a, <1>2 DEF InitializeStep, Merge, Refused, MarkInitializing, Put, PutFails, SettleInitialized
<1>3. ASSUME NEW o \in Ops, JobStep(o) PROVE pc' \in [Ops -> PCs]
    BY <1>a, <1>3 DEF JobStep, Begin, Apply, Configure, FetchKubeconfig, FetchJoinToken, FetchPath,
                      IssueCert, KeepCert, PushCert, InstallTraefik, SettleReady, TearDown,
                      PostDestroy, SettleDestroyed, JobFails
<1>4. ASSUME NEW o \in Ops, PurgeStep(o) \/ RetrieveStep(o) PROVE pc' \in [Ops -> PCs]
    BY <1>a, <1>4 DEF PurgeStep, PurgePath, DropRow, RetrieveStep, GetKey, Fetch, StoreFetched,
                      RetrieveFails
<1>5. CASE RenewStep
    BY <1>a, <1>5 DEF RenewStep, RenewTick, RenewLook, RenewIssue, RenewKeep, RenewEnds, RenewPush
<1>6. CASE Crash
    BY <1>a, <1>6 DEF Crash
<1>7. CASE UNCHANGED vars
    BY <1>a, <1>7 DEF vars
<1>8. QED
    BY <1>1, <1>2, <1>3, <1>4, <1>5, <1>6, <1>7 DEF Next

\* How far a request is in a list, what it fetched, and whether it was alone.
LEMMA RequestType ==
    TypeOK /\ PathInv /\ [Next]_vars =>
        /\ kind' = kind
        /\ at' \in [Ops -> 1 .. Len(Purged)] /\ fetched' \in [Ops -> Nat] /\ alone' \in [Ops -> BOOLEAN]
<1> SUFFICES ASSUME TypeOK, PathInv, [Next]_vars
             PROVE  /\ kind' = kind /\ at' \in [Ops -> 1 .. 6]
                    /\ fetched' \in [Ops -> Nat] /\ alone' \in [Ops -> BOOLEAN]
    BY Lists
<1>a. /\ at \in [Ops -> 1 .. 6] /\ fetched \in [Ops -> Nat] /\ alone \in [Ops -> BOOLEAN]
      /\ vms.gen \in Nat
    BY Lists DEF TypeOK, VMRecords
<1>1. kind' = kind
    BY DEF Next, vars, Arrive, InitializeStep, Merge, Refused, MarkInitializing, Put, PutFails,
           SettleInitialized, JobStep, Begin, Apply, Configure, FetchKubeconfig, FetchJoinToken,
           FetchPath, IssueCert, KeepCert, PushCert, InstallTraefik, SettleReady, TearDown,
           PostDestroy, SettleDestroyed, JobFails, PurgeStep, PurgePath, DropRow, RetrieveStep,
           GetKey, Fetch, StoreFetched, RetrieveFails, RenewStep, RenewTick, RenewLook, RenewIssue,
           RenewKeep, RenewEnds, RenewPush, Crash, request
<1>2. at' \in [Ops -> 1 .. 6]
  <2>1. ASSUME NEW o \in Ops, Merge(o) \/ Put(o) \/ PurgePath(o) PROVE at' \in [Ops -> 1 .. 6]
    BY <1>a, <2>1, Lists DEF Merge, Put, PurgePath, PathInv
  <2>2. ASSUME NEW o \in Ops, MarkInitializing(o) \/ SettleDestroyed(o) PROVE at' \in [Ops -> 1 .. 6]
    BY <1>a, <2>2 DEF MarkInitializing, SettleDestroyed, Start
  <2>3. QED
    BY <1>a, <2>1, <2>2, AtMoves
<1>3. fetched' \in [Ops -> Nat]
  <2>1. ASSUME NEW o \in Ops, IssueCert(o) \/ Fetch(o) PROVE fetched' \in [Ops -> Nat]
    BY <1>a, <2>1, BoundAssumption DEF IssueCert, Fetch
  <2>2. QED
    BY <1>a, <2>1, FetchedMoves
<1>4. alone' \in [Ops -> BOOLEAN]
  <2>1. ASSUME NEW o \in Ops, Arrive(o) PROVE alone' \in [Ops -> BOOLEAN]
    BY <1>a, <2>1 DEF Arrive
  <2>2. CASE RenewTick
    BY <1>a, <2>2 DEF RenewTick
  <2>3. QED
    BY <1>a, <2>1, <2>2, AloneMoves
<1>5. QED
    BY <1>1, <1>2, <1>3, <1>4

\* The rest: the row, the certificates and the renewal.
LEMMA RestType ==
    TypeOK /\ PathInv /\ [Next]_vars =>
        /\ status' \in Status \cup {"gone"}
        /\ missed' \subseteq ConfigPaths \cup HeldPaths
        /\ issued' \in 0 .. MaxCerts /\ served' \in 0 .. issued' /\ renewing' \in 0 .. issued'
        /\ renew' \in {"idle", "look", "issue", "keep", "push"}
        /\ unpushed' \in BOOLEAN
        /\ crashes' \in 0 .. MaxCrashes
<1> SUFFICES ASSUME TypeOK, PathInv, [Next]_vars
             PROVE  /\ status' \in Status \cup {"gone"}
                    /\ missed' \subseteq ConfigPaths \cup HeldPaths
                    /\ issued' \in 0 .. MaxCerts /\ served' \in 0 .. issued' /\ renewing' \in 0 .. issued'
                    /\ renew' \in {"idle", "look", "issue", "keep", "push"}
                    /\ unpushed' \in BOOLEAN
                    /\ crashes' \in 0 .. MaxCrashes
    OBVIOUS
<1>a. /\ status \in Status \cup {"gone"} /\ missed \subseteq ConfigPaths \cup HeldPaths
      /\ issued \in 0 .. MaxCerts /\ served \in 0 .. issued /\ renewing \in 0 .. issued
      /\ renew \in {"idle", "look", "issue", "keep", "push"} /\ unpushed \in BOOLEAN
      /\ crashes \in 0 .. MaxCrashes
    BY DEF TypeOK
<1>1. status' \in Status \cup {"gone"}
    BY <1>a, StatusMoves DEF MarkInitializing, PutFails, SettleInitialized, Begin, SettleReady,
                             SettleDestroyed, JobFails, DropRow, Crash, SetStatus, Status
<1>2. missed' \subseteq ConfigPaths \cup HeldPaths
  <2>1. "kubeconfig" \in HeldPaths /\ \A i \in 1 .. 6 : Purged[i] \in ConfigPaths \cup HeldPaths
    BY Lists DEF ConfigPaths, HeldPaths
  <2>2. ASSUME NEW o \in Ops, PostDestroy(o) \/ PurgePath(o)
        PROVE  missed' \subseteq ConfigPaths \cup HeldPaths
    BY <1>a, <2>1, <2>2 DEF PostDestroy, PurgePath, Deletes, PathInv
  <2>3. QED
    BY <1>a, <2>2, MissedMoves
<1>3. issued' \in issued .. MaxCerts
    BY <1>a, IssuedMoves, BoundAssumption DEF IssueCert, RenewIssue, Issues
<1>4. served' \in 0 .. issued'
  <2>1. ASSUME NEW o \in Ops, PushCert(o) PROVE served' \in 0 .. issued
    BY <2>1 DEF PushCert, PathInv
  <2>2. ASSUME RenewPush PROVE served' \in 0 .. issued
    BY <1>a, <2>2 DEF RenewPush
  <2>3. ASSUME NEW o \in Ops, Apply(o) \/ TearDown(o) \/ JobFails(o) PROVE served' \in 0 .. issued
    BY <1>a, <2>3, BoundAssumption DEF Apply, TearDown, JobFails, cluster
  <2>4. ASSUME Crash PROVE served' \in 0 .. issued
    BY <1>a, <2>4, BoundAssumption DEF Crash, cluster
  <2>5. served' \in 0 .. issued
    <3>1. ASSUME UNCHANGED served PROVE served' \in 0 .. issued
      BY <1>a, <3>1
    <3>2. QED
      BY <2>1, <2>2, <2>3, <2>4, <3>1, ServedMoves
  <2>6. QED
    BY <1>a, <1>3, <2>5, BoundAssumption
<1>5. renewing' \in 0 .. issued' /\ renew' \in {"idle", "look", "issue", "keep", "push"}
  <2>1. CASE RenewIssue
    BY <2>1, BoundAssumption DEF RenewIssue, Issues
  <2>2. CASE RenewTick \/ RenewLook \/ RenewKeep
    BY <1>a, <2>2 DEF RenewTick, RenewLook, RenewKeep
  <2>3. CASE RenewEnds \/ RenewPush \/ Crash
    BY <1>a, <1>3, <2>3, BoundAssumption DEF RenewEnds, RenewPush, Crash
  <2>4. QED
    BY <1>a, <1>3, <2>1, <2>2, <2>3, RenewMoves, BoundAssumption DEF RenewStep
<1>6. unpushed' \in BOOLEAN
    BY <1>a, UnpushedMoves DEF PushCert, RenewStep, RenewTick, RenewLook, RenewIssue, RenewKeep,
                               RenewEnds, RenewPush, Crash
<1>7. crashes' \in 0 .. MaxCrashes
    BY <1>a, CrashMoves, BoundAssumption DEF Crash
<1>8. issued' \in 0 .. MaxCerts
    BY <1>a, <1>3, BoundAssumption
<1>9. QED
    BY <1>1, <1>2, <1>4, <1>5, <1>6, <1>7, <1>8

\* Every step keeps the variables in their ranges.
LEMMA TypeStep == TypeOK /\ PathInv /\ [Next]_vars => TypeOK'
<1> SUFFICES ASSUME TypeOK, PathInv, [Next]_vars PROVE TypeOK'
    OBVIOUS
<1>1. kind' \in [Ops -> Kinds]
    BY RequestType DEF TypeOK
<1>2. /\ pc' \in [Ops -> PCs] /\ vms' \in VMRecords /\ held' \in [HeldPaths -> Nat]
      /\ config' \in [ConfigPaths -> Value \cup {NoOne}]
      /\ carry' \in [Ops -> [Merged -> Writers \cup {NoOne}]]
    BY PCType, VMType, HeldType, ConfigType, CarryType
<1>3. QED
    BY <1>1, <1>2, RequestType, RestType, Zenon DEF TypeOK
------------------------------------------------------------------------------
(* Program points, the mutex, and who is alone.                             *)

\* A step without progress in pc, at, or certificates keeps PathInv.
LEMMA PathKept ==
    ASSUME TypeOK, PathInv, UNCHANGED <<kind, fetched>>, issued' \in issued .. MaxCerts,
           \A o \in Ops : \/ pc'[o] = pc[o] /\ at'[o] = at[o]
                          \/ pc'[o] \in {"done", "killed"}
    PROVE  PathInv'
<1>1. issued \in Nat /\ issued' \in Nat /\ issued <= issued'
    BY BoundAssumption DEF TypeOK
<1>2. ASSUME NEW o \in Ops, pc'[o] \in {"keep", "push"} PROVE fetched'[o] \in 0 .. issued'
  <2>1. fetched[o] \in 0 .. issued
    BY <1>2 DEF PathInv
  <2>2. QED
    BY <1>1, <2>1
<1>3. QED
    BY <1>2 DEF PathInv

\* PathInv: a step moves one request along the path of its kind.
LEMMA PathStep == TypeOK /\ PathInv /\ [Next]_vars => PathInv'
<1> SUFFICES ASSUME TypeOK, PathInv, [Next]_vars PROVE PathInv'
    OBVIOUS
<1> USE Lists DEF Goto, Start, request, secrets, cluster, renewal
<1>a. /\ pc \in [Ops -> PCs] /\ at \in [Ops -> 1 .. 6] /\ fetched \in [Ops -> Nat]
      /\ issued \in 0 .. MaxCerts
    BY DEF TypeOK
<1>1. ASSUME NEW o \in Ops, Arrive(o) PROVE PathInv'
  <2>1. PICK l \in PCs : Admits(o, status, l) /\ pc' = [pc EXCEPT ![o] = l]
    BY <1>1 DEF Arrive
  <2>2. \/ l \in {"merge", "mark"} /\ kind[o] \in Initializes
        \/ l = "lock" /\ kind[o] \in Jobs
        \/ l = "purge" /\ kind[o] = "forget"
        \/ l = "get" /\ kind[o] \in Retrieves
    BY <2>1 DEF Admits, Jobs, Initializes
  <2>3. QED
    BY <1>a, <1>1, <2>1, <2>2 DEF Arrive, PathInv
<1>2. ASSUME NEW o \in Ops, InitializeStep(o) PROVE PathInv'
  <2>1. CASE Merge(o)
    BY <1>a, <2>1 DEF Merge, PathInv
  <2>2. CASE MarkInitializing(o)
    BY <1>a, <2>2 DEF MarkInitializing, PathInv
  <2>3. CASE Put(o)
    BY <1>a, <2>3 DEF Put, PathInv
  <2>4. CASE Refused(o) \/ PutFails(o) \/ SettleInitialized(o)
    BY <1>a, <2>4 DEF Refused, PutFails, SettleInitialized, PathInv
  <2>5. QED
    BY <1>2, <2>1, <2>2, <2>3, <2>4 DEF InitializeStep
<1>3. ASSUME NEW o \in Ops, JobStep(o) PROVE PathInv'
  <2>1. CASE Begin(o)
    BY <1>a, <2>1 DEF Begin, Jobs, PathInv
  <2>2. CASE Apply(o) \/ Configure(o) \/ FetchKubeconfig(o) \/ FetchJoinToken(o)
    BY <1>a, <2>2 DEF Apply, Configure, FetchKubeconfig, FetchJoinToken, FetchPath, PathInv
  <2>3. CASE IssueCert(o)
    BY <1>a, <2>3, BoundAssumption DEF IssueCert, Issues, PathInv
  <2>4. CASE KeepCert(o) \/ PushCert(o) \/ InstallTraefik(o) \/ SettleReady(o)
    BY <1>a, <2>4 DEF KeepCert, PushCert, InstallTraefik, SettleReady, PathInv
  <2>5. CASE TearDown(o) \/ PostDestroy(o)
    BY <1>a, <2>5 DEF TearDown, PostDestroy, PathInv
  <2>6. CASE SettleDestroyed(o)
    BY <1>a, <2>6 DEF SettleDestroyed, PathInv
  <2>7. CASE JobFails(o)
    BY <1>a, <2>7 DEF JobFails, PathInv
  <2>8. QED
    BY <1>3, <2>1, <2>2, <2>3, <2>4, <2>5, <2>6, <2>7 DEF JobStep
<1>4. ASSUME NEW o \in Ops, PurgeStep(o) \/ RetrieveStep(o) PROVE PathInv'
  <2>1. CASE PurgePath(o)
    BY <1>a, <2>1 DEF PurgePath, PathInv
  <2>2. CASE DropRow(o)
    BY <1>a, <2>2 DEF DropRow, PathInv
  <2>3. CASE GetKey(o) \/ Fetch(o) \/ StoreFetched(o) \/ RetrieveFails(o)
    BY <1>a, <2>3 DEF GetKey, Fetch, StoreFetched, RetrieveFails, PathInv
  <2>4. QED
    BY <1>4, <2>1, <2>2, <2>3 DEF PurgeStep, RetrieveStep
<1>5. CASE RenewStep
  <2>1. CASE RenewIssue
    BY <1>a, <2>1, BoundAssumption, PathKept DEF RenewIssue, Issues
  <2>2. CASE RenewTick \/ RenewLook \/ RenewKeep \/ RenewEnds \/ RenewPush
    BY <1>a, <2>2, BoundAssumption, PathKept DEF RenewTick, RenewLook, RenewKeep, RenewEnds, RenewPush
  <2>3. QED
    BY <1>5, <2>1, <2>2 DEF RenewStep
<1>6. CASE Crash
    BY <1>a, <1>6, BoundAssumption, PathKept DEF Crash
<1>7. CASE UNCHANGED vars
    BY <1>a, <1>7, BoundAssumption, PathKept DEF vars
<1>8. QED
    BY <1>1, <1>2, <1>3, <1>4, <1>5, <1>6, <1>7 DEF Next

\* MutexInv: Begin takes the mutex when no one holds it; "ready" is written by
\* the last step of a holder.
LEMMA MutexStep == TypeOK /\ PathInv /\ MutexInv /\ [Next]_vars => MutexInv'
<1> SUFFICES ASSUME TypeOK, PathInv, MutexInv, [Next]_vars PROVE MutexInv'
    OBVIOUS
<1> USE DEF MutexInv, Holds, JobPC, Goto, Start, SetStatus, request, secrets, cluster, renewal
<1>a. pc \in [Ops -> PCs]
    BY DEF TypeOK
<1>1. ASSUME NEW o \in Ops, Arrive(o) PROVE MutexInv'
  <2>1. PICK l \in PCs : Admits(o, status, l) /\ pc' = [pc EXCEPT ![o] = l]
    BY <1>1 DEF Arrive
  <2>2. l \in {"merge", "mark", "lock", "get"} \/ (l = "purge" /\ kind[o] = "forget")
    BY <2>1 DEF Admits
  <2>3. QED
    BY <1>a, <1>1, <2>1, <2>2 DEF Arrive
<1>2. ASSUME NEW o \in Ops, InitializeStep(o) PROVE MutexInv'
  <2>1. CASE Merge(o) \/ Refused(o)
    BY <1>a, <2>1 DEF Merge, Refused
  <2>2. CASE MarkInitializing(o)
    BY <1>a, <2>2 DEF MarkInitializing
  <2>3. CASE Put(o) \/ PutFails(o)
    BY <1>a, <2>3 DEF Put, PutFails
  <2>4. CASE SettleInitialized(o)
    BY <1>a, <2>4 DEF SettleInitialized
  <2>5. QED
    BY <1>2, <2>1, <2>2, <2>3, <2>4 DEF InitializeStep
<1>3. ASSUME NEW o \in Ops, JobStep(o) PROVE MutexInv'
  <2>1. CASE Begin(o)
    BY <1>a, <2>1 DEF Begin, Exists
  <2>2. CASE Apply(o) \/ Configure(o) \/ FetchKubeconfig(o) \/ FetchJoinToken(o)
    BY <1>a, <2>2 DEF Apply, Configure, FetchKubeconfig, FetchJoinToken, FetchPath
  <2>3. CASE IssueCert(o) \/ KeepCert(o) \/ PushCert(o) \/ InstallTraefik(o)
    BY <1>a, <2>3 DEF IssueCert, KeepCert, PushCert, InstallTraefik
  <2>4. CASE SettleReady(o)
    BY <1>a, <2>4 DEF SettleReady, PathInv
  <2>5. CASE TearDown(o) \/ PostDestroy(o)
    BY <1>a, <2>5 DEF TearDown, PostDestroy
  <2>6. CASE SettleDestroyed(o)
    BY <1>a, <2>6 DEF SettleDestroyed
  <2>7. CASE JobFails(o)
    BY <1>a, <2>7 DEF JobFails
  <2>8. QED
    BY <1>3, <2>1, <2>2, <2>3, <2>4, <2>5, <2>6, <2>7 DEF JobStep
<1>4. ASSUME NEW o \in Ops, PurgeStep(o) \/ RetrieveStep(o) PROVE MutexInv'
  <2>1. CASE PurgePath(o) \/ DropRow(o)
    BY <1>a, <2>1 DEF PurgePath, DropRow
  <2>2. CASE RetrieveStep(o)
    BY <1>a, <2>2 DEF RetrieveStep, GetKey, Fetch, StoreFetched, RetrieveFails
  <2>3. QED
    BY <1>4, <2>1, <2>2 DEF PurgeStep
<1>5. CASE RenewStep
    BY <1>5 DEF RenewStep, RenewTick, RenewLook, RenewIssue, RenewKeep, RenewEnds, RenewPush
<1>6. CASE Crash
    BY <1>a, <1>6 DEF Crash, Idle
<1>7. CASE UNCHANGED vars
    BY <1>7 DEF vars
<1>8. QED
    BY <1>1, <1>2, <1>3, <1>4, <1>5, <1>6, <1>7 DEF Next

\* Who is under way has passed Arrive, and every later step of its own shows it.
LEMMA BusyWhenMoving ==
    ASSUME TypeOK, NEW o \in Ops, InitializeStep(o) \/ JobStep(o) \/ PurgeStep(o) \/ RetrieveStep(o)
    PROVE  /\ ~Idle(o) /\ pc'[o] # "new" /\ UNCHANGED <<alone, renew>>
           /\ pc'[o] = "merge" => Merge(o)
           /\ \A q \in Ops \ {o} : pc'[q] = pc[q] /\ at'[q] = at[q] /\ carry'[q] = carry[q]
<1> USE DEF Goto, Start, Idle, renewal
<1>a. /\ pc \in [Ops -> PCs] /\ at \in [Ops -> 1 .. 6]
      /\ carry \in [Ops -> [Merged -> Writers \cup {NoOne}]]
    BY Lists DEF TypeOK
<1>1. CASE InitializeStep(o)
    BY <1>a, <1>1 DEF InitializeStep, Merge, Refused, MarkInitializing, Put, PutFails, SettleInitialized
<1>2. CASE JobStep(o)
  <2>1. CASE Begin(o) \/ Apply(o) \/ Configure(o) \/ FetchKubeconfig(o) \/ FetchJoinToken(o)
    BY <1>a, <2>1 DEF Begin, Apply, Configure, FetchKubeconfig, FetchJoinToken, FetchPath
  <2>2. CASE IssueCert(o) \/ KeepCert(o) \/ PushCert(o) \/ InstallTraefik(o) \/ SettleReady(o)
    BY <1>a, <2>2 DEF IssueCert, KeepCert, PushCert, InstallTraefik, SettleReady
  <2>3. CASE TearDown(o) \/ PostDestroy(o) \/ SettleDestroyed(o) \/ JobFails(o)
    BY <1>a, <2>3 DEF TearDown, PostDestroy, SettleDestroyed, JobFails, JobPC
  <2>4. QED
    BY <1>2, <2>1, <2>2, <2>3 DEF JobStep
<1>3. CASE PurgeStep(o) \/ RetrieveStep(o)
    BY <1>a, <1>3 DEF PurgeStep, PurgePath, DropRow, RetrieveStep, GetKey, Fetch, StoreFetched,
                      RetrieveFails
<1>4. QED
    BY <1>1, <1>2, <1>3

\* AloneInv: whoever arrives second, a renewal included, takes "alone" from the first.
LEMMA AloneStep == TypeOK /\ AloneInv /\ [Next]_vars => AloneInv'
<1> SUFFICES ASSUME TypeOK, AloneInv, [Next]_vars PROVE AloneInv'
    OBVIOUS
<1> USE DEF AloneInv, Solo, Idle
<1>a. pc \in [Ops -> PCs] /\ alone \in [Ops -> BOOLEAN]
    BY DEF TypeOK
<1>1. ASSUME NEW o \in Ops, Arrive(o) PROVE AloneInv'
  <2>1. PICK l \in PCs : pc' = [pc EXCEPT ![o] = l] /\ l # "new"
    BY <1>1 DEF Arrive, Admits, Goto
  <2>2. alone' = [p \in Ops |-> IF p = o THEN renew = "idle" /\ \A q \in Ops : Idle(q)
                                ELSE alone[p] /\ Idle(p)]
    BY <1>1 DEF Arrive
  <2>3. renew' = renew
    BY <1>1 DEF Arrive, renewal
  <2>4. QED
    BY <1>a, <2>1, <2>2, <2>3
<1>2. ASSUME NEW o \in Ops, InitializeStep(o) \/ JobStep(o) \/ PurgeStep(o) \/ RetrieveStep(o)
      PROVE  AloneInv'
  <2>1. /\ ~Idle(o) /\ pc'[o] # "new" /\ UNCHANGED <<alone, renew>>
        /\ \A q \in Ops \ {o} : pc'[q] = pc[q]
    BY <1>2, BusyWhenMoving
  <2>2. QED
    BY <1>a, <2>1
<1>3. CASE RenewTick
    BY <1>a, <1>3 DEF RenewTick
<1>4. CASE RenewStep /\ ~RenewTick
    BY <1>a, <1>4 DEF RenewStep, RenewLook, RenewIssue, RenewKeep, RenewEnds, RenewPush
<1>5. CASE Crash
    BY <1>a, <1>5 DEF Crash
<1>6. CASE UNCHANGED vars
    BY <1>6 DEF vars
<1>7. QED
    BY <1>1, <1>2, <1>3, <1>4, <1>5, <1>6 DEF Next

\* While o is alone, every step is one of its own.
LEMMA SoloStep ==
    ASSUME TypeOK, AloneInv, [Next]_vars, NEW o \in Ops, Solo(o)'
    PROVE  \/ Solo(o) /\ UNCHANGED vars
           \/ Arrive(o)
           \/ Solo(o) /\ (InitializeStep(o) \/ JobStep(o) \/ PurgeStep(o) \/ RetrieveStep(o))
<1> USE DEF Solo, Idle
<1>a. pc \in [Ops -> PCs] /\ alone \in [Ops -> BOOLEAN]
    BY DEF TypeOK
<1>1. ASSUME NEW q \in Ops, q # o, Arrive(q) PROVE FALSE
    BY <1>a, <1>1 DEF Arrive, Goto
<1>2. ASSUME NEW q \in Ops, InitializeStep(q) \/ JobStep(q) \/ PurgeStep(q) \/ RetrieveStep(q)
      PROVE  q = o /\ Solo(o)
    BY <1>a, <1>2, BusyWhenMoving DEF AloneInv
<1>3. ~RenewTick
    BY <1>a DEF RenewTick
<1>4. ~(RenewStep /\ ~RenewTick)
    BY <1>a DEF RenewStep, RenewLook, RenewIssue, RenewKeep, RenewEnds, RenewPush, AloneInv
<1>5. ~Crash
    BY <1>a DEF Crash
<1>6. CASE UNCHANGED vars
    BY <1>6 DEF vars
<1>7. QED
    BY <1>1, <1>2, <1>3, <1>4, <1>5, <1>6 DEF Next
------------------------------------------------------------------------------
(* What a request knows that has been alone so far.                         *)

\* SoloStatus: nobody else writes the row.
LEMMA SoloStatusStep ==
    ASSUME TypeOK, PathInv, AloneInv, [Next]_vars, NEW o \in Ops,
           Solo(o) => SoloStatus(o), Solo(o)'
    PROVE  SoloStatus(o)'
<1> USE DEF SoloStatus, JobPC, Initializes, Retrieves, DirectDeletable, Exists, Goto, Start,
            SetStatus, request, secrets, cluster, renewal
<1>a. pc \in [Ops -> PCs]
    BY DEF TypeOK
<1>b. "initializing" \in Status /\ "deploying" \in Status /\ "destroying" \in Status
      /\ "destroyed" \in Status
    BY DEF Status
<1>1. CASE UNCHANGED vars
    BY <1>1, SoloStep DEF vars, Solo, Idle
<1>2. CASE Arrive(o)
    BY <1>a, <1>2 DEF Arrive, Admits
<1>3. ASSUME Solo(o), InitializeStep(o) PROVE SoloStatus(o)'
    BY <1>a, <1>b, <1>3 DEF InitializeStep, Merge, Refused, MarkInitializing, Put, PutFails,
                            SettleInitialized, PathInv, Solo, Idle
<1>4. ASSUME Solo(o), JobStep(o) PROVE SoloStatus(o)'
  <2>1. CASE Begin(o)
    BY <1>a, <1>b, <1>4, <2>1 DEF Begin, PathInv, Jobs
  <2>2. CASE Apply(o) \/ Configure(o) \/ FetchKubeconfig(o) \/ FetchJoinToken(o)
    BY <1>a, <1>4, <2>2 DEF Apply, Configure, FetchKubeconfig, FetchJoinToken, FetchPath
  <2>3. CASE IssueCert(o) \/ KeepCert(o) \/ PushCert(o) \/ InstallTraefik(o)
    BY <1>a, <1>4, <2>3 DEF IssueCert, KeepCert, PushCert, InstallTraefik
  <2>4. CASE TearDown(o) \/ PostDestroy(o) \/ SettleDestroyed(o)
    BY <1>a, <1>b, <1>4, <2>4 DEF TearDown, PostDestroy, SettleDestroyed, PathInv, Solo, Idle
  <2>5. CASE SettleReady(o) \/ JobFails(o)
    BY <1>a, <2>5 DEF SettleReady, JobFails, Solo, Idle
  <2>6. QED
    BY <1>4, <2>1, <2>2, <2>3, <2>4, <2>5 DEF JobStep
<1>5. ASSUME Solo(o), PurgeStep(o) \/ RetrieveStep(o) PROVE SoloStatus(o)'
    BY <1>a, <1>5 DEF PurgeStep, PurgePath, DropRow, RetrieveStep, GetKey, Fetch, StoreFetched,
                      RetrieveFails, Solo, Idle
<1>6. QED
    BY <1>1, <1>2, <1>3, <1>4, <1>5, SoloStep

\* BlankInv: the DNS path is the second of the list.
LEMMA BlankStep == TypeOK /\ PathInv /\ BlankInv /\ [Next]_vars => BlankInv'
<1> SUFFICES ASSUME TypeOK, PathInv, BlankInv, [Next]_vars, NEW o \in Ops,
                    kind'[o] = "edit", pc'[o] \in {"new", "merge"}, at'[o] \in {1, 2}
             PROVE  carry'[o]["dns"] = NoOne
    BY DEF BlankInv
<1>a. /\ pc \in [Ops -> PCs] /\ at \in [Ops -> 1 .. 6]
      /\ carry \in [Ops -> [Merged -> Writers \cup {NoOne}]]
    BY Lists DEF TypeOK
<1>b. kind' = kind
    BY RequestType
<1>1. ASSUME pc[o] \in {"new", "merge"}, at[o] \in {1, 2}, carry'[o]["dns"] = carry[o]["dns"]
      PROVE  carry'[o]["dns"] = NoOne
    BY <1>1, <1>b DEF BlankInv
<1>2. CASE Arrive(o)
    BY <1>1, <1>2 DEF Arrive, PathInv
<1>3. ASSUME NEW q \in Ops, q # o,
             \/ Arrive(q) \/ InitializeStep(q) \/ JobStep(q) \/ PurgeStep(q) \/ RetrieveStep(q)
      PROVE  carry'[o]["dns"] = NoOne
  <2>1. CASE Arrive(q)
    BY <1>a, <1>1, <1>3, <2>1 DEF Arrive, Goto
  <2>2. CASE InitializeStep(q) \/ JobStep(q) \/ PurgeStep(q) \/ RetrieveStep(q)
    BY <1>1, <1>3, <2>2, BusyWhenMoving
  <2>3. QED
    BY <1>3, <2>1, <2>2
<1>4. ASSUME InitializeStep(o) \/ JobStep(o) \/ PurgeStep(o) \/ RetrieveStep(o)
      PROVE  carry'[o]["dns"] = NoOne
  <2>1. Merge(o)
    BY <1>4, BusyWhenMoving
  <2>2. at[o] = 1
    BY <1>a, <2>1, Lists DEF Merge, Goto, PathInv
  <2>3. carry'[o]["dns"] = carry[o]["dns"]
    BY <1>a, <2>1, <2>2, Lists DEF Merge, Merged
  <2>4. QED
    BY <1>1, <2>1, <2>2, <2>3 DEF Merge
<1>5. CASE RenewStep \/ UNCHANGED vars
    BY <1>1, <1>5 DEF RenewStep, RenewTick, RenewLook, RenewIssue, RenewKeep, RenewEnds, RenewPush, vars
<1>6. CASE Crash
    BY <1>a, <1>1, <1>6 DEF Crash
<1>7. QED
    BY <1>2, <1>3, <1>4, <1>5, <1>6 DEF Next

\* SoloMerge: nobody else writes what it reads.
LEMMA SoloMergeStep ==
    ASSUME TypeOK, PathInv, AloneInv, [Next]_vars, NEW o \in Ops,
           BlankInv, Solo(o) => SoloMerge(o), Solo(o)'
    PROVE  SoloMerge(o)'
<1> USE DEF SoloMerge, There, Goto, Start, request, secrets
<1>a. /\ pc \in [Ops -> PCs] /\ at \in [Ops -> 1 .. 6]
      /\ carry \in [Ops -> [Merged -> Writers \cup {NoOne}]]
      /\ config \in [ConfigPaths -> Value \cup {NoOne}]
    BY Lists DEF TypeOK
<1>b. \A i \in 1 .. 3 : GetOrder[i] \in Merged /\ GetOrder[i] \in ConfigPaths
    BY Lists DEF Merged, ConfigPaths
<1>c. \A i, j \in 1 .. 3 : GetOrder[i] = GetOrder[j] => i = j
    BY Lists
<1>1. CASE UNCHANGED vars
    BY <1>1, SoloStep DEF vars, Solo, Idle
<1>2. CASE Arrive(o)
    BY <1>a, <1>2 DEF Arrive, Admits, PathInv
<1>3. ASSUME Solo(o), Merge(o) PROVE SoloMerge(o)'
  <2>1. at[o] \in 1 .. 3 /\ pc[o] = "merge" /\ UNCHANGED <<config, kind>>
    BY <1>3 DEF Merge, PathInv
  <2>2. ASSUME kind[o] = "edit"
        PROVE  \/ /\ There(GetOrder[at[o]])
                  /\ carry' = [carry EXCEPT ![o][GetOrder[at[o]]] = config[GetOrder[at[o]]].secret]
               \/ /\ GetOrder[at[o]] = "dns"
                  /\ carry' = carry
                  /\ carry[o]["dns"] = NoOne
    BY <1>3, <2>1, <2>2, Lists DEF Merge, BlankInv
  <2>3. ASSUME NEW i \in 1 .. 3, kind[o] = "edit", pc'[o] = "merge" => i < at'[o]
        PROVE  i < at[o] \/ i = at[o]
    BY <1>a, <1>3, <2>1, <2>3, Lists DEF Merge
  <2>4. QED
    BY <1>a, <1>b, <1>c, <1>3, <2>1, <2>2, <2>3
<1>4. ASSUME Solo(o), Refused(o) \/ MarkInitializing(o) \/ PutFails(o) \/ SettleInitialized(o)
      PROVE  SoloMerge(o)'
    BY <1>a, <1>4 DEF Refused, MarkInitializing, PutFails, SettleInitialized
<1>5. ASSUME Solo(o), Put(o) PROVE SoloMerge(o)'
  <2>1. /\ pc[o] = "put" /\ UNCHANGED <<carry, kind>> /\ at[o] \in 1 .. 5
        /\ PutOrder[at[o]] \in ConfigPaths
    BY <1>5, Lists DEF Put, PathInv, ConfigPaths
  <2>2. ASSUME NEW i \in 1 .. 3, PutOrder[at[o]] = GetOrder[i]
        PROVE  There(GetOrder[i])' /\ config'[GetOrder[i]].secret = carry[o][GetOrder[i]]
    BY <1>a, <1>b, <1>5, <2>1, <2>2, WriterAssumption DEF Put, Puts, Value, Writers
  <2>3. ASSUME NEW i \in 1 .. 3, PutOrder[at[o]] # GetOrder[i]
        PROVE  config'[GetOrder[i]] = config[GetOrder[i]]
    BY <1>a, <1>b, <1>5, <2>1, <2>3 DEF Put, Puts
  <2>4. QED
    BY <1>a, <1>5, <2>1, <2>2, <2>3
<1>6. ASSUME Solo(o), JobStep(o) \/ PurgeStep(o) \/ RetrieveStep(o) PROVE SoloMerge(o)'
  <2>1. pc'[o] \notin {"merge", "mark", "put"}
    BY <1>a, <1>6 DEF JobStep, Begin, Apply, Configure, FetchKubeconfig, FetchJoinToken, FetchPath,
                      IssueCert, KeepCert, PushCert, InstallTraefik, SettleReady, TearDown,
                      PostDestroy, SettleDestroyed, JobFails, PurgeStep, PurgePath, DropRow,
                      RetrieveStep, GetKey, Fetch, StoreFetched, RetrieveFails
  <2>2. QED
    BY <2>1
<1>7. QED
    BY <1>1, <1>2, <1>3, <1>4, <1>5, <1>6, SoloStep DEF InitializeStep

\* What a put leaves behind.
LEMMA PutsValue ==
    ASSUME TypeOK, NEW o \in Ops, NEW p \in ConfigPaths, Puts(o, p)
    PROVE  /\ There(p)' /\ config'[p].by = o
           /\ p \in Merged => config'[p].secret = carry[o][p]
           /\ \A q \in ConfigPaths \ {p} : config'[q] = config[q]
<1>a. /\ carry \in [Ops -> [Merged -> Writers \cup {NoOne}]]
      /\ config \in [ConfigPaths -> Value \cup {NoOne}]
    BY DEF TypeOK
<1> DEFINE v == [by |-> o, secret |-> IF p \in Merged THEN carry[o][p] ELSE o]
<1>1. v \in Value
    BY <1>a DEF Value, Writers
<1>2. v # NoOne
    BY <1>1, WriterAssumption
<1>3. config' = [config EXCEPT ![p] = v]
    BY DEF Puts
<1>4. QED
    BY <1>a, <1>2, <1>3 DEF There

\* SoloPut: nobody else puts or deletes.
LEMMA SoloPutStep ==
    ASSUME TypeOK, PathInv, AloneInv, [Next]_vars, NEW o \in Ops,
           Solo(o) => SoloPut(o), Solo(o)'
    PROVE  SoloPut(o)'
<1> USE DEF SoloPut, There, Goto, Start, request, secrets
<1>a. /\ pc \in [Ops -> PCs] /\ at \in [Ops -> 1 .. 6]
      /\ config \in [ConfigPaths -> Value \cup {NoOne}]
    BY Lists DEF TypeOK
<1>b. \A i \in 1 .. 5 : PutOrder[i] \in ConfigPaths
    BY Lists DEF ConfigPaths
<1>c. \A i, j \in 1 .. 5 : PutOrder[i] = PutOrder[j] => i = j
    BY Lists
<1>1. CASE UNCHANGED vars
    BY <1>1, SoloStep DEF vars, Solo, Idle
<1>2. CASE Arrive(o)
    BY <1>a, <1>2 DEF Arrive, Admits
<1>3. ASSUME Solo(o), Put(o) PROVE SoloPut(o)'
  <2>1. PICK k \in 1 .. 5 : k = at[o] /\ pc[o] = "put" /\ Puts(o, PutOrder[k])
    BY <1>3 DEF Put, PathInv
  <2>2. There(PutOrder[k])' /\ config'[PutOrder[k]].by = o
    BY <1>b, <2>1, PutsValue
  <2>3. ASSUME NEW i \in 1 .. 5, i # k PROVE config'[PutOrder[i]] = config[PutOrder[i]]
    BY <1>b, <1>c, <2>1, <2>3, PutsValue
  <2>4. ASSUME NEW i \in 1 .. 5, pc'[o] = "settle" \/ (pc'[o] = "put" /\ i < at'[o])
        PROVE  i < k \/ i = k
    BY <1>a, <1>3, <2>1, <2>4, Lists DEF Put
  <2>5. ASSUME NEW i \in 1 .. 5, i < k
        PROVE  There(PutOrder[i])' /\ config'[PutOrder[i]].by = o
    <3>1. i # k /\ There(PutOrder[i]) /\ config[PutOrder[i]].by = o
      BY <1>3, <2>1, <2>5
    <3>2. QED
      BY <2>3, <3>1
  <2>6. QED
    BY <2>2, <2>4, <2>5
<1>4. ASSUME Solo(o), Merge(o) \/ Refused(o) \/ MarkInitializing(o) \/ PutFails(o) \/ SettleInitialized(o)
      PROVE  SoloPut(o)'
    BY <1>a, <1>4 DEF Merge, Refused, MarkInitializing, PutFails, SettleInitialized
<1>5. ASSUME JobStep(o) \/ PurgeStep(o) \/ RetrieveStep(o) PROVE SoloPut(o)'
  <2>1. pc'[o] \notin {"put", "settle"}
    BY <1>a, <1>5 DEF JobStep, Begin, Apply, Configure, FetchKubeconfig, FetchJoinToken, FetchPath,
                      IssueCert, KeepCert, PushCert, InstallTraefik, SettleReady, TearDown,
                      PostDestroy, SettleDestroyed, JobFails, PurgeStep, PurgePath, DropRow,
                      RetrieveStep, GetKey, Fetch, StoreFetched, RetrieveFails
  <2>2. QED
    BY <2>1
<1>6. QED
    BY <1>1, <1>2, <1>3, <1>4, <1>5, SoloStep DEF InitializeStep

\* SoloCopies: nobody else touches the VMs, the certificate or its copy.
LEMMA SoloCopiesStep ==
    ASSUME TypeOK, PathInv, AloneInv, [Next]_vars, NEW o \in Ops,
           Solo(o) => SoloCopies(o), Solo(o)'
    PROVE  SoloCopies(o)'
<1> USE DEF Goto, Start, request, secrets, cluster
<1>a. /\ pc \in [Ops -> PCs] /\ fetched \in [Ops -> Nat] /\ held \in [HeldPaths -> Nat]
    BY DEF TypeOK
<1>1. CASE UNCHANGED vars
    BY <1>1, SoloStep DEF vars, Solo, Idle, SoloCopies
<1>2. ASSUME \/ Arrive(o) \/ InitializeStep(o) \/ PurgeStep(o)
             \/ GetKey(o) \/ StoreFetched(o) \/ RetrieveFails(o) \/ Begin(o) \/ Apply(o) \/ Configure(o) \/ FetchKubeconfig(o) \/ FetchJoinToken(o)
             \/ IssueCert(o) \/ SettleReady(o) \/ TearDown(o) \/ PostDestroy(o)
             \/ SettleDestroyed(o) \/ JobFails(o)
      PROVE  SoloCopies(o)'
  <2>1. pc'[o] \notin {"store", "push", "traefik", "ready"}
    BY <1>a, <1>2 DEF Arrive, Admits, InitializeStep, Merge, Refused, MarkInitializing, Put, PutFails,
                      SettleInitialized, Begin, Apply, Configure, FetchKubeconfig, FetchJoinToken,
                      FetchPath, IssueCert, SettleReady, TearDown, PostDestroy, SettleDestroyed,
                      JobFails, PurgeStep, PurgePath, DropRow, GetKey, StoreFetched, RetrieveFails
  <2>2. QED
    BY <2>1 DEF SoloCopies
<1>3. ASSUME Fetch(o) PROVE SoloCopies(o)'
    BY <1>a, <1>3 DEF Fetch, SoloCopies
<1>4. ASSUME Solo(o), KeepCert(o) \/ PushCert(o) \/ InstallTraefik(o) PROVE SoloCopies(o)'
    BY <1>a, <1>4 DEF KeepCert, PushCert, InstallTraefik, HeldPaths, SoloCopies
<1>5. ASSUME Solo(o), JobStep(o) \/ RetrieveStep(o) PROVE SoloCopies(o)'
    BY <1>2, <1>3, <1>4, <1>5, Zenon DEF JobStep, RetrieveStep
<1>6. QED
    BY <1>1, <1>2, <1>5, SoloStep, Zenon

\* A delete leaves nothing, or is counted; what was cleared before stays so.
LEMMA DeleteClears ==
    ASSUME TypeOK, NEW p \in ConfigPaths \cup HeldPaths, Deletes(p)
    PROVE  /\ Cleared(p)'
           /\ \A q \in ConfigPaths \cup HeldPaths : Cleared(q) => Cleared(q)'
<1>a. config \in [ConfigPaths -> Value \cup {NoOne}] /\ held \in [HeldPaths -> Nat]
    BY DEF TypeOK
<1>b. ConfigPaths \cap HeldPaths = {}
    BY DEF ConfigPaths, HeldPaths
<1> USE DEF Cleared, Present, There
<1>1. CASE missed' = missed \cup {p} /\ UNCHANGED <<config, held>>
    BY <1>1
<1>2. CASE /\ p \in ConfigPaths /\ missed' = missed \ {p}
           /\ config' = [config EXCEPT ![p] = NoOne] /\ UNCHANGED held
    BY <1>a, <1>b, <1>2
<1>3. CASE /\ p \in HeldPaths /\ missed' = missed \ {p}
           /\ held' = [held EXCEPT ![p] = 0] /\ UNCHANGED config
    BY <1>a, <1>b, <1>3
<1>4. QED
    BY <1>b, <1>1, <1>2, <1>3 DEF Deletes

\* SoloPurge: nobody else writes a path again.
LEMMA SoloPurgeStep ==
    ASSUME TypeOK, PathInv, AloneInv, [Next]_vars, NEW o \in Ops,
           Solo(o) => SoloPurge(o), Solo(o)'
    PROVE  SoloPurge(o)'
<1> USE DEF SoloPurge, Goto, Start, request
<1>a. /\ pc \in [Ops -> PCs] /\ at \in [Ops -> 1 .. 6]
    BY Lists DEF TypeOK
<1>b. "kubeconfig" \in HeldPaths /\ \A i \in 1 .. 6 : Purged[i] \in ConfigPaths \cup HeldPaths
    BY Lists DEF ConfigPaths, HeldPaths
<1>1. CASE UNCHANGED vars
    BY <1>1, SoloStep DEF vars, Solo, Idle, Cleared, Present, There
<1>2. CASE Arrive(o)
    BY <1>a, <1>2 DEF Arrive, Admits, PathInv
<1>3. ASSUME Solo(o), PurgePath(o) PROVE SoloPurge(o)'
  <2>1. PICK k \in 1 .. 6 : k = at[o] /\ pc[o] = "purge" /\ Deletes(Purged[k])
    BY <1>3 DEF PurgePath, PathInv
  <2>2. /\ Cleared(Purged[k])'
        /\ \A q \in ConfigPaths \cup HeldPaths : Cleared(q) => Cleared(q)'
    BY <1>b, <2>1, DeleteClears
  <2>3. ASSUME NEW i \in 1 .. 6, pc'[o] = "drop" \/ (pc'[o] = "purge" /\ i < at'[o])
        PROVE  i < k \/ i = k
    BY <1>a, <1>3, <2>1, <2>3, Lists DEF PurgePath
  <2>4. pc'[o] # "gone"
    BY <1>a, <1>3 DEF PurgePath
  <2>5. ASSUME NEW i \in 1 .. 6, i < k PROVE Cleared(Purged[i])'
    BY <1>b, <1>3, <2>1, <2>2, <2>5
  <2>6. QED
    BY <2>2, <2>3, <2>4, <2>5
<1>4. ASSUME Solo(o), PostDestroy(o) PROVE SoloPurge(o)'
    BY <1>a, <1>b, <1>4, DeleteClears DEF PostDestroy
<1>5. ASSUME Solo(o), SettleDestroyed(o) PROVE SoloPurge(o)'
    BY <1>a, <1>5 DEF SettleDestroyed
<1>6. ASSUME \/ InitializeStep(o) \/ DropRow(o) \/ RetrieveStep(o)
             \/ JobStep(o) /\ ~PostDestroy(o) /\ ~SettleDestroyed(o)
      PROVE  SoloPurge(o)'
  <2>1. pc'[o] \notin {"gone", "drop", "purge"}
    BY <1>a, <1>6 DEF InitializeStep, Merge, Refused, MarkInitializing, Put, PutFails,
                      SettleInitialized, JobStep, Begin, Apply, Configure, FetchKubeconfig,
                      FetchJoinToken, FetchPath, IssueCert, KeepCert, PushCert, InstallTraefik,
                      SettleReady, TearDown, JobFails, DropRow, RetrieveStep, GetKey, Fetch,
                      StoreFetched, RetrieveFails
  <2>2. QED
    BY <2>1
<1>7. QED
    BY <1>1, <1>2, <1>3, <1>4, <1>5, <1>6, SoloStep DEF PurgeStep

\* All of it together.
LEMMA SoloInvStep ==
    TypeOK /\ PathInv /\ AloneInv /\ BlankInv /\ SoloInv /\ [Next]_vars => SoloInv'
BY SoloStatusStep, SoloMergeStep, SoloPutStep, SoloCopiesStep, SoloPurgeStep DEF SoloInv
------------------------------------------------------------------------------
(* Where a step can come from.                                              *)

\* The steps that lead to a program point.
EnteredFrom(q) ==
    /\ pc'[q] = "new" => pc[q] = "new"
    /\ pc'[q] = "configure" => pc[q] = "configure" \/ Apply(q)
    /\ pc'[q] \in Late => pc[q] \in Late \/ Configure(q)
    /\ pc'[q] = "ready" => pc[q] = "ready" \/ InstallTraefik(q)
    /\ pc'[q] = "purge" =>
          \/ pc[q] = "purge"
          \/ Arrive(q) /\ kind[q] = "forget" /\ status \in DirectDeletable
          \/ SettleDestroyed(q) /\ status' = "destroyed"

\* Every step that leads to one of these points is one of those.
LEMMA Entries == ASSUME TypeOK, [Next]_vars, NEW q \in Ops PROVE EnteredFrom(q)
<1> USE DEF Goto, Start
<1>a. pc \in [Ops -> PCs]
    BY DEF TypeOK
<1>1. ASSUME pc'[q] = pc[q] PROVE EnteredFrom(q)
    BY <1>1 DEF EnteredFrom
<1>2. ASSUME NEW o \in Ops, o # q,
             Arrive(o) \/ InitializeStep(o) \/ JobStep(o) \/ PurgeStep(o) \/ RetrieveStep(o)
      PROVE  EnteredFrom(q)
  <2>1. CASE Arrive(o)
    BY <1>a, <1>1, <1>2, <2>1 DEF Arrive
  <2>2. CASE InitializeStep(o) \/ JobStep(o) \/ PurgeStep(o) \/ RetrieveStep(o)
    BY <1>1, <1>2, <2>2, BusyWhenMoving
  <2>3. QED
    BY <1>2, <2>1, <2>2
<1>3. CASE Arrive(q)
  <2>1. PICK l \in PCs : Admits(q, status, l) /\ pc' = [pc EXCEPT ![q] = l]
    BY <1>3 DEF Arrive
  <2>2. \/ l \in {"merge", "mark", "lock", "get"}
        \/ l = "purge" /\ kind[q] = "forget" /\ status \in DirectDeletable
    BY <2>1 DEF Admits
  <2>3. QED
    BY <1>a, <1>3, <2>1, <2>2 DEF EnteredFrom, Late
<1>4. CASE InitializeStep(q)
    BY <1>a, <1>4 DEF InitializeStep, Merge, Refused, MarkInitializing, Put, PutFails, SettleInitialized, EnteredFrom, Late
<1>5. CASE JobStep(q)
  <2>1. CASE Begin(q) \/ Apply(q) \/ Configure(q) \/ FetchKubeconfig(q) \/ FetchJoinToken(q)
    BY <1>a, <2>1 DEF Begin, Apply, Configure, FetchKubeconfig, FetchJoinToken, FetchPath, EnteredFrom, Late
  <2>2. CASE IssueCert(q) \/ KeepCert(q) \/ PushCert(q) \/ InstallTraefik(q) \/ SettleReady(q)
    BY <1>a, <2>2 DEF IssueCert, KeepCert, PushCert, InstallTraefik, SettleReady, EnteredFrom, Late
  <2>3. CASE TearDown(q) \/ PostDestroy(q) \/ JobFails(q)
    BY <1>a, <2>3 DEF TearDown, PostDestroy, JobFails, EnteredFrom, Late
  <2>4. CASE SettleDestroyed(q)
    BY <1>a, <2>4 DEF SettleDestroyed, SetStatus, EnteredFrom, Late
  <2>5. QED
    BY <1>5, <2>1, <2>2, <2>3, <2>4 DEF JobStep
<1>6. CASE PurgeStep(q) \/ RetrieveStep(q)
  <2>1. CASE PurgePath(q)
    BY <1>a, <2>1 DEF PurgePath, EnteredFrom, Late
  <2>2. CASE DropRow(q) \/ RetrieveStep(q)
    BY <1>a, <2>2 DEF DropRow, RetrieveStep, GetKey, Fetch, StoreFetched, RetrieveFails, EnteredFrom, Late
  <2>3. QED
    BY <1>6, <2>1, <2>2 DEF PurgeStep
<1>7. CASE RenewStep \/ UNCHANGED vars
  <2>1. pc' = pc
    BY <1>7 DEF RenewStep, RenewTick, RenewLook, RenewIssue, RenewKeep, RenewEnds, RenewPush, vars
  <2>2. QED
    BY <1>1, <2>1
<1>8. CASE Crash
    BY <1>a, <1>8 DEF Crash, Idle, EnteredFrom, Late
<1>9. QED
    BY <1>2, <1>3, <1>4, <1>5, <1>6, <1>7, <1>8 DEF Next

\* The steps that write a status.
LEMMA StatusEntries ==
    [Next]_vars =>
        /\ status' = "ready" => status = "ready" \/ \E o \in Ops : SettleReady(o)
        /\ status' = "initialized" => status = "initialized" \/ \E o \in Ops : SettleInitialized(o)
        /\ status' = "destroyed" => status = "destroyed" \/ \E o \in Ops : SettleDestroyed(o)
        /\ status' = "gone" => status = "gone" \/ \E o \in Ops : DropRow(o)
BY StatusMoves DEF MarkInitializing, PutFails, Begin, SettleInitialized, SettleReady,
                   SettleDestroyed, JobFails, Crash, SetStatus, DropRow

\* Whoever is disturbed stays so.
LEMMA AloneBefore ==
    ASSUME TypeOK, PathInv, AloneInv, [Next]_vars, NEW K
    PROVE  /\ Undisturbed(K)' => Undisturbed(K)
           /\ NoneOf(K)' => NoneOf(K)
<1>a. kind' = kind /\ alone \in [Ops -> BOOLEAN]
    BY RequestType DEF TypeOK
<1>1. ASSUME NEW q \in Ops, alone'[q] PROVE alone[q]
    BY <1>a, <1>1, AloneMoves DEF Arrive, RenewTick, AloneInv
<1>2. QED
    BY <1>a, <1>1, Entries DEF Undisturbed, NoneOf, EnteredFrom

\* The VMs, and what the cluster serves, are rebuilt under the mutex.
LEMMA VMsByHolder ==
    ASSUME [Next]_vars, vms' # vms
    PROVE  \/ \E o \in Ops : Holds(o) /\ (Apply(o) \/ TearDown(o) \/ JobFails(o))
           \/ Crash /\ \E o \in Ops : Holds(o)
BY VMMoves DEF Apply, TearDown, JobFails, Crash, cluster, Holds, JobPC

\* Then the cluster is not ready, nor is any other job under way.
LEMMA HolderAlone ==
    ASSUME MutexInv, NEW o \in Ops, Holds(o)
    PROVE  status # "ready" /\ \A q \in Ops \ {o} : ~Holds(q)
BY DEF MutexInv

\* A purge is of a holder, or of a forget that started in a status without VMs.
LEMMA PurgeQuiet ==
    ASSUME PathInv, MutexInv, AloneInv, SoloInv, Undisturbed({"forget"}), NEW o \in Ops, pc[o] = "purge"
    PROVE  status # "ready" /\ \A q \in Ops \ {o} : ~Holds(q)
<1>1. CASE kind[o] = "cascade"
    BY <1>1, HolderAlone DEF Holds
<1>2. CASE kind[o] = "forget"
  <2>1. Solo(o) /\ SoloStatus(o)
    BY <1>2 DEF Undisturbed, Solo, Idle, SoloInv
  <2>2. QED
    BY <2>1 DEF SoloStatus, DirectDeletable, AloneInv, Idle, Holds, JobPC
<1>3. QED
    BY <1>1, <1>2 DEF PathInv

\* An Initialize that puts alone has the cluster for itself.
LEMMA PutQuiet ==
    ASSUME PathInv, AloneInv, SoloInv, Undisturbed(Initializes), NEW o \in Ops,
           pc[o] \in {"put", "settle"}
    PROVE  /\ Solo(o) /\ SoloPut(o)
           /\ status = "initializing" /\ renew = "idle" /\ \A q \in Ops \ {o} : Idle(q)
<1>1. Solo(o)
    BY DEF Undisturbed, Solo, Idle, PathInv
<1>2. QED
    BY <1>1 DEF SoloInv, SoloStatus, AloneInv
------------------------------------------------------------------------------
(* The properties.                                                          *)

\* DriftInv: settings and VMs change while nobody says "ready", and a deploy
\* that comes to the end has built its VMs from the settings that are there.
LEMMA DriftStep ==
    TypeOK /\ PathInv /\ MutexInv /\ AloneInv /\ SoloInv /\ DriftInv /\ [Next]_vars => DriftInv'
<1> SUFFICES ASSUME TypeOK, PathInv, MutexInv, AloneInv, SoloInv, DriftInv, [Next]_vars,
                    Undisturbed(Initializes \cup {"forget"})'
             PROVE  /\ status' = "ready" => \A p \in Tfvars : Aligned(p)'
                    /\ \A q \in Ops : JobAligned(q)'
    BY DEF DriftInv
<1>a. /\ Undisturbed(Initializes \cup {"forget"})
      /\ Undisturbed(Initializes) /\ Undisturbed({"forget"})
    BY AloneBefore DEF Undisturbed
<1>b. /\ status = "ready" => \A p \in Tfvars : Aligned(p)
      /\ \A q \in Ops : JobAligned(q)
    BY <1>a DEF DriftInv
<1>c. pc \in [Ops -> PCs]
    BY DEF TypeOK
<1>1. ASSUME NEW o \in Ops, Put(o) \/ PutFails(o)
      PROVE  status' # "ready" /\ \A q \in Ops : pc'[q] \notin {"configure"} \cup Late
  <2>1. pc[o] = "put"
    BY <1>1 DEF Put, PutFails
  <2>2. status = "initializing" /\ \A q \in Ops \ {o} : Idle(q)
    BY <1>a, <2>1, PutQuiet
  <2>3. QED
    BY <1>c, <1>1, <2>1, <2>2 DEF Put, PutFails, SetStatus, Goto, Late, Idle
<1>2. ASSUME NEW o \in Ops, PurgePath(o)
      PROVE  status' # "ready" /\ \A q \in Ops : pc'[q] \notin {"configure"} \cup Late
  <2>1. pc[o] = "purge"
    BY <1>2 DEF PurgePath
  <2>2. status # "ready" /\ \A q \in Ops \ {o} : ~Holds(q)
    BY <1>a, <2>1, PurgeQuiet
  <2>3. QED
    BY <1>c, <1>2, <2>1, <2>2 DEF PurgePath, Goto, Late, Holds, JobPC
<1>3. ASSUME NEW o \in Ops, Holds(o), TearDown(o) \/ JobFails(o)
      PROVE  status' # "ready" /\ \A q \in Ops : pc'[q] \notin {"configure"} \cup Late
    BY <1>c, <1>3, HolderAlone DEF TearDown, JobFails, Goto, SetStatus, Late, Holds, JobPC
<1>4. ASSUME NEW o \in Ops, Holds(o), Apply(o)
      PROVE  /\ status' # "ready"
             /\ Aligned("proxmox")' /\ Aligned("network")' /\ There("ssh")'
             /\ pc'[o] = "configure" /\ \A q \in Ops \ {o} : pc'[q] \notin {"configure"} \cup Late
  <2>1. status' # "ready"
    BY <1>4, HolderAlone DEF Apply
  <2>2. pc'[o] = "configure" /\ \A q \in Ops \ {o} : pc'[q] \notin {"configure"} \cup Late
    BY <1>c, <1>4, HolderAlone DEF Apply, Goto, Late, Holds, JobPC
  <2>3. /\ config' = config
        /\ There("proxmox") /\ There("network") /\ There("ssh")
        /\ vms' = Rebuilt \/ vms' = Kept
    BY <1>4 DEF Apply, secrets, Tfvars
  <2>4. vms'.built["proxmox"] = Setting("proxmox") /\ vms'.built["network"] = Setting("network")
    <3>1. vms \in VMRecords
      BY DEF TypeOK
    <3>2. CASE vms' = Rebuilt
      BY <3>2 DEF Rebuilt, Current, Tfvars
    <3>3. CASE vms' = Kept
      BY <3>1, <3>3 DEF Kept, Current, Tfvars, VMRecords
    <3>4. QED
      BY <2>3, <3>2, <3>3
  <2>5. QED
    BY <2>1, <2>2, <2>3, <2>4 DEF Aligned, There, Setting
<1>5. ASSUME NEW o \in Ops, Holds(o), Crash
      PROVE  status' # "ready" /\ \A q \in Ops : pc'[q] \notin {"configure"} \cup Late
    BY <1>c, <1>5, HolderAlone DEF Crash, SetStatus, Idle, Late
<1>6. CASE UNCHANGED <<config, vms>>
  <2>1. \A p \in Tfvars : Aligned(p)' = Aligned(p) /\ There(p)' = There(p)
    BY <1>6 DEF Aligned, There, Setting
  <2>2. ASSUME NEW o \in Ops, SettleReady(o) PROVE \A p \in Tfvars : Aligned(p)
    BY <1>b, <2>2 DEF SettleReady, JobAligned, Late
  <2>3. ASSUME NEW q \in Ops, Configure(q) PROVE \A p \in Tfvars : Aligned(p)
    BY <1>b, <2>3 DEF Configure, JobAligned, Aligned, Tfvars
  <2>4. ASSUME NEW q \in Ops, Apply(q) PROVE Aligned("proxmox") /\ Aligned("network") /\ There("ssh")
    BY <2>1, <2>4, <1>4 DEF Apply, Holds, JobPC, Tfvars
  <2>5. ASSUME NEW q \in Ops PROVE JobAligned(q)'
    BY <1>b, <2>1, <2>3, <2>4, Entries DEF EnteredFrom, JobAligned, Tfvars
  <2>6. QED
    BY <1>b, <2>1, <2>2, <2>5, StatusEntries
<1>7. CASE config' # config
    BY <1>1, <1>2, <1>7, ConfigMoves DEF JobAligned
<1>8. CASE vms' # vms
  <2>1. ASSUME NEW o \in Ops, Holds(o), Apply(o)
        PROVE  status' # "ready" /\ \A q \in Ops : JobAligned(q)'
    BY <1>4, <2>1 DEF JobAligned, Late
  <2>2. QED
    BY <1>3, <1>5, <1>8, <2>1, VMsByHolder DEF JobAligned
<1>9. QED
    BY <1>6, <1>7, <1>8

\* AnswersInv: a deploy ends with a cluster that answered to the kubeconfig in
\* Vault, and what is stored later was read from it.
LEMMA AnswersStep ==
    TypeOK /\ PathInv /\ MutexInv /\ AloneInv /\ SoloInv /\ AnswersInv /\ [Next]_vars => AnswersInv'
<1> SUFFICES ASSUME TypeOK, PathInv, MutexInv, AloneInv, SoloInv, AnswersInv, [Next]_vars,
                    Undisturbed({"kubeconfig", "forget"})'
             PROVE  /\ status' = "ready" => Answers'
                    /\ \A q \in Ops : pc'[q] = "ready" => Answers'
    BY DEF AnswersInv
<1>a. Undisturbed({"kubeconfig", "forget"}) /\ Undisturbed({"forget"})
    BY AloneBefore DEF Undisturbed
<1>b. /\ status = "ready" => Answers
      /\ \A q \in Ops : pc[q] = "ready" => Answers
    BY <1>a DEF AnswersInv
<1>c. pc \in [Ops -> PCs] /\ held \in [HeldPaths -> Nat] /\ "kubeconfig" \in HeldPaths
    BY DEF TypeOK, HeldPaths
<1>1. ASSUME NEW o \in Ops, Holds(o), \/ Apply(o) \/ TearDown(o) \/ JobFails(o)
                                      \/ FetchKubeconfig(o) \/ PostDestroy(o)
      PROVE  status' # "ready" /\ \A q \in Ops : pc'[q] # "ready"
    BY <1>c, <1>1, HolderAlone DEF Apply, TearDown, JobFails, FetchKubeconfig, FetchPath, PostDestroy,
                                   Goto, SetStatus, Holds, JobPC
<1>2. ASSUME NEW o \in Ops, PurgePath(o)
      PROVE  status' # "ready" /\ \A q \in Ops : pc'[q] # "ready"
  <2>1. pc[o] = "purge"
    BY <1>2 DEF PurgePath
  <2>2. status # "ready" /\ \A q \in Ops \ {o} : ~Holds(q)
    BY <1>a, <2>1, PurgeQuiet
  <2>3. QED
    BY <1>c, <1>2, <2>1, <2>2 DEF PurgePath, Goto, Holds, JobPC
<1>3. ASSUME NEW o \in Ops, Holds(o), Crash
      PROVE  status' # "ready" /\ \A q \in Ops : pc'[q] # "ready"
    BY <1>c, <1>3, HolderAlone DEF Crash, SetStatus, Idle
<1>4. ASSUME NEW o \in Ops, StoreFetched(o), kind[o] = "kubeconfig" PROVE Answers'
  <2>1. pc[o] = "store" /\ Solo(o)
    BY <1>a, <1>4 DEF StoreFetched, Undisturbed, Solo, Idle
  <2>2. vms.there /\ fetched[o] = vms.gen
    BY <2>1 DEF SoloInv, SoloCopies
  <2>3. QED
    BY <1>c, <1>4, <2>2 DEF StoreFetched, Answers, cluster
<1>5. CASE held'["kubeconfig"] = held["kubeconfig"] /\ UNCHANGED vms
  <2>1. Answers' = Answers
    BY <1>5 DEF Answers
  <2>2. status' = "ready" => Answers
    BY <1>b, StatusEntries DEF SettleReady
  <2>3. \A q \in Ops : pc'[q] = "ready" => Answers
    BY <1>b, Entries DEF EnteredFrom, InstallTraefik
  <2>4. QED
    BY <2>1, <2>2, <2>3
<1>6. CASE vms' # vms
    BY <1>1, <1>3, <1>6, VMsByHolder
<1>7. CASE held'["kubeconfig"] # held["kubeconfig"]
  <2>1. ASSUME NEW o \in Ops, FetchKubeconfig(o) \/ PostDestroy(o) PROVE Holds(o)
    BY <2>1 DEF FetchKubeconfig, FetchPath, PostDestroy, Holds, JobPC
  <2>2. ASSUME NEW o \in Ops, FetchJoinToken(o) \/ KeepCert(o) PROVE FALSE
    BY <1>c, <1>7, <2>2 DEF FetchJoinToken, FetchPath, KeepCert
  <2>3. ~RenewKeep
    BY <1>c, <1>7 DEF RenewKeep
  <2>4. ASSUME NEW o \in Ops, StoreFetched(o) PROVE kind[o] = "kubeconfig"
    BY <1>c, <1>7, <2>4 DEF StoreFetched
  <2>5. QED
    BY <1>1, <1>2, <1>4, <1>7, <2>1, <2>2, <2>3, <2>4, HeldMoves
<1>8. QED
    BY <1>5, <1>6, <1>7

\* ServedInv: what is stored is pushed next, and a push that fails is noted.
LEMMA ServedStep ==
    TypeOK /\ PathInv /\ MutexInv /\ AloneInv /\ SoloInv /\ ServedInv /\ [Next]_vars => ServedInv'
<1> SUFFICES ASSUME TypeOK, PathInv, MutexInv, AloneInv, SoloInv, ServedInv, [Next]_vars,
                    Undisturbed({"deploy"})'
             PROVE  /\ status' = "ready" /\ renew' # "push" /\ ~unpushed'
                          => served' = held'["wildcard_cert"]
                    /\ status' = "ready" /\ renew' = "push" => renewing' = held'["wildcard_cert"]
                    /\ \A q \in Ops : pc'[q] = "purge" => status' # "ready"
    BY DEF ServedInv
<1>a. Undisturbed({"deploy"})
    BY AloneBefore
<1>b. /\ status = "ready" /\ renew # "push" /\ ~unpushed => served = held["wildcard_cert"]
      /\ status = "ready" /\ renew = "push" => renewing = held["wildcard_cert"]
      /\ \A q \in Ops : pc[q] = "purge" => status # "ready"
    BY <1>a DEF ServedInv
<1>c. pc \in [Ops -> PCs] /\ held \in [HeldPaths -> Nat] /\ "wildcard_cert" \in HeldPaths
    BY DEF TypeOK, HeldPaths
<1>1. ASSUME NEW o \in Ops, SettleReady(o)
      PROVE  /\ served' = held'["wildcard_cert"] /\ renew' # "push"
             /\ \A q \in Ops : pc'[q] # "purge"
  <2>1. pc[o] = "ready" /\ Solo(o)
    BY <1>a, <1>1 DEF SettleReady, PathInv, Undisturbed, Solo, Idle
  <2>2. /\ held["wildcard_cert"] = served /\ renew = "idle" /\ \A q \in Ops \ {o} : Idle(q)
    BY <2>1 DEF SoloInv, SoloCopies, AloneInv
  <2>3. QED
    BY <1>c, <1>1, <2>1, <2>2 DEF SettleReady, Goto, Idle, secrets, cluster, renewal
<1>2. ASSUME NEW q \in Ops, pc'[q] = "purge" PROVE status' # "ready"
  <2>1. pc[q] = "purge" => status # "ready"
    BY <1>b
  <2>2. SettleDestroyed(q) /\ status' = "destroyed" => status' # "ready"
    OBVIOUS
  <2>3. Arrive(q) /\ status \in DirectDeletable => status' # "ready"
    BY DEF Arrive, DirectDeletable
  <2>4. pc[q] = "purge" => status' # "ready"
    BY <1>1, <1>2, <2>1, StatusEntries
  <2>5. QED
    BY <1>2, <2>2, <2>3, <2>4, Entries DEF EnteredFrom
<1>3. CASE UNCHANGED <<served, renew, renewing, unpushed>> /\ held'["wildcard_cert"] = held["wildcard_cert"]
    BY <1>b, <1>1, <1>2, <1>3, StatusEntries
<1>4. ASSUME NEW o \in Ops, Holds(o), \/ Apply(o) \/ TearDown(o) \/ JobFails(o)
                                      \/ KeepCert(o) \/ PushCert(o)
      PROVE  status' # "ready"
    BY <1>4, HolderAlone DEF Apply, TearDown, JobFails, KeepCert, PushCert, SetStatus
<1>5. ASSUME NEW o \in Ops, PurgePath(o) PROVE status' # "ready"
    BY <1>b, <1>5 DEF PurgePath
<1>6. CASE RenewStep
  <2>1. CASE RenewTick \/ RenewLook \/ RenewIssue
    BY <1>b, <1>2, <2>1 DEF RenewTick, RenewLook, RenewIssue, secrets, cluster
  <2>2. CASE RenewKeep
    BY <1>c, <1>2, <2>2 DEF RenewKeep
  <2>3. CASE RenewEnds
    BY <1>b, <1>2, <2>3 DEF RenewEnds, secrets, cluster
  <2>4. CASE RenewPush
    BY <1>b, <1>2, <2>4 DEF RenewPush, secrets
  <2>5. QED
    BY <1>6, <2>1, <2>2, <2>3, <2>4 DEF RenewStep
<1>7. CASE Crash
  <2>1. ASSUME NEW o \in Ops, Holds(o), status' = "ready" PROVE FALSE
    BY <1>7, <2>1, HolderAlone DEF Crash, SetStatus
  <2>2. ASSUME status' = "ready" PROVE status = "ready" /\ UNCHANGED <<served, held>>
    BY <1>7, <2>1, <2>2 DEF Crash, SetStatus, secrets, cluster, Holds, JobPC
  <2>3. renew' = "idle" /\ (~unpushed' => ~unpushed /\ renew # "push")
    BY <1>7 DEF Crash
  <2>4. QED
    BY <1>b, <1>2, <2>2, <2>3
<1>8. CASE served' # served
  <2>1. ASSUME NEW o \in Ops, Apply(o) \/ TearDown(o) \/ PushCert(o) PROVE status' # "ready"
    BY <1>4, <2>1 DEF Apply, TearDown, PushCert, Holds, JobPC
  <2>2. ASSUME NEW o \in Ops, JobFails(o) PROVE status' # "ready"
    BY <1>4, <1>8, <2>2 DEF JobFails, cluster, Holds, JobPC
  <2>3. QED
    BY <1>6, <1>7, <1>8, <2>1, <2>2, ServedMoves DEF RenewStep
<1>9. CASE held'["wildcard_cert"] # held["wildcard_cert"]
  <2>1. ASSUME NEW o \in Ops, \/ FetchKubeconfig(o) \/ FetchJoinToken(o) \/ StoreFetched(o)
                              \/ PostDestroy(o)
        PROVE  FALSE
    BY <1>c, <1>9, <2>1 DEF FetchKubeconfig, FetchJoinToken, FetchPath, StoreFetched, PostDestroy,
                            Deletes, PathInv, Retrieves, ConfigPaths
  <2>2. ASSUME NEW o \in Ops, KeepCert(o) PROVE status' # "ready"
    BY <1>4, <2>2 DEF KeepCert, Holds, JobPC
  <2>3. QED
    BY <1>5, <1>6, <1>9, <2>1, <2>2, HeldMoves DEF RenewStep
<1>10. CASE renew' # renew \/ renewing' # renewing \/ unpushed' # unpushed
  <2>1. ASSUME NEW o \in Ops, PushCert(o) PROVE status' # "ready"
    BY <1>4, <2>1 DEF PushCert, Holds, JobPC
  <2>2. QED
    BY <1>6, <1>7, <1>10, <2>1, RenewMoves, UnpushedMoves
<1>11. QED
    BY <1>3, <1>8, <1>9, <1>10

\* WholeInv: "initialized" is written after five puts of one request.
LEMMA WholeStep ==
    TypeOK /\ PathInv /\ MutexInv /\ AloneInv /\ SoloInv /\ WholeInv /\ [Next]_vars => WholeInv'
<1> SUFFICES ASSUME TypeOK, PathInv, MutexInv, AloneInv, SoloInv, WholeInv, [Next]_vars,
                    Undisturbed(Initializes)', NoneOf({"forget"})'
             PROVE  /\ status' = "initialized" =>
                          /\ \A p \in ConfigPaths : There(p)'
                          /\ \A p, q \in ConfigPaths : config'[p].by = config'[q].by
                    /\ \A q \in Ops : pc'[q] = "purge" => status' # "initialized"
    BY DEF WholeInv
<1>a. Undisturbed(Initializes) /\ NoneOf({"forget"}) /\ kind' = kind
    BY AloneBefore, RequestType
<1>b. /\ status = "initialized" =>
            /\ \A p \in ConfigPaths : There(p)
            /\ \A p, q \in ConfigPaths : config[p].by = config[q].by
      /\ \A q \in Ops : pc[q] = "purge" => status # "initialized"
    BY <1>a DEF WholeInv
<1>c. pc \in [Ops -> PCs]
    BY DEF TypeOK
<1>1. ASSUME NEW o \in Ops, SettleInitialized(o)
      PROVE  /\ \A p \in ConfigPaths : There(p)'
             /\ \A p \in ConfigPaths : config'[p].by = o
             /\ \A q \in Ops : pc'[q] # "purge"
  <2>1. pc[o] = "settle" /\ config' = config
    BY <1>1 DEF SettleInitialized, secrets
  <2>2. SoloPut(o) /\ \A q \in Ops \ {o} : Idle(q)
    BY <1>a, <2>1, PutQuiet
  <2>3. ASSUME NEW p \in ConfigPaths PROVE There(p)' /\ config'[p].by = o
    <3>1. PICK i \in 1 .. 5 : PutOrder[i] = p
      BY Lists DEF ConfigPaths
    <3>2. QED
      BY <2>1, <2>2, <3>1 DEF SoloPut, There
  <2>4. QED
    BY <1>c, <1>1, <2>2, <2>3 DEF SettleInitialized, Goto, Idle
<1>2. ASSUME NEW q \in Ops, pc'[q] = "purge" PROVE status' # "initialized"
  <2>1. kind[q] # "forget"
    BY <1>a, <1>2 DEF NoneOf
  <2>2. pc[q] = "purge" => status' # "initialized"
    BY <1>b, <1>1, <1>2, StatusEntries
  <2>3. QED
    BY <1>2, <2>1, <2>2, Entries DEF EnteredFrom
<1>3. ASSUME NEW o \in Ops, Put(o) \/ PutFails(o) PROVE status' # "initialized"
  <2>1. pc[o] = "put"
    BY <1>3 DEF Put, PutFails
  <2>2. status = "initializing"
    BY <1>a, <2>1, PutQuiet
  <2>3. QED
    BY <1>3, <2>2 DEF Put, PutFails, SetStatus
<1>4. ASSUME NEW o \in Ops, PurgePath(o) PROVE status' # "initialized"
    BY <1>b, <1>4 DEF PurgePath
<1>5. CASE UNCHANGED config
    BY <1>b, <1>1, <1>2, <1>5, StatusEntries DEF There
<1>6. CASE config' # config
    BY <1>2, <1>3, <1>4, <1>6, ConfigMoves
<1>7. QED
    BY <1>5, <1>6

\* LeftoverInv: the row goes last, when the purge has been through its list.
LEMMA LeftoverStep ==
    TypeOK /\ PathInv /\ AloneInv /\ SoloInv /\ LeftoverInv /\ [Next]_vars => LeftoverInv'
<1> DEFINE All == ConfigPaths \cup HeldPaths
           Left(p) == Present(p) => p \in missed \cup {"dns", "tls"}
<1> SUFFICES ASSUME TypeOK, PathInv, AloneInv, SoloInv, LeftoverInv, [Next]_vars, Undisturbed(Kinds)'
             PROVE  /\ status' = "gone" => Quiet' /\ \A p \in All : Left(p)'
                    /\ status' = "destroyed" => Cleared("kubeconfig")'
    BY DEF LeftoverInv
<1>a. /\ pc \in [Ops -> PCs] /\ held \in [HeldPaths -> Nat] /\ kind \in [Ops -> Kinds]
      /\ "kubeconfig" \in HeldPaths
    BY DEF TypeOK, HeldPaths
<1>b. Undisturbed(Kinds)
    BY AloneBefore
<1>c. \A o \in Ops : ~Idle(o) => Solo(o)
    BY <1>a, <1>b DEF Undisturbed, Solo
<1>d. /\ status = "gone" => Quiet /\ \A p \in All : Left(p)
      /\ status = "destroyed" => Cleared("kubeconfig")
    BY <1>b DEF LeftoverInv
<1>1. ASSUME NEW o \in Ops, DropRow(o) PROVE Quiet' /\ \A p \in All : Left(p)'
  <2>1. pc[o] = "drop" /\ pc'[o] = "done" /\ UNCHANGED <<config, held, missed, renew>>
    BY <1>a, <1>1 DEF DropRow, Goto, secrets, renewal
  <2>2. Solo(o)
    BY <1>c, <2>1 DEF Idle
  <2>3. renew = "idle" /\ \A q \in Ops \ {o} : Idle(q)
    BY <2>2 DEF AloneInv
  <2>4. Quiet'
    BY <1>a, <1>1, <2>1, <2>3 DEF Quiet, Idle, DropRow, Goto
  <2>5. ASSUME NEW p \in All PROVE Left(p)'
    <3>1. CASE p \in {"dns", "tls"}
      BY <3>1
    <3>2. CASE p \notin {"dns", "tls"}
      <4>1. PICK i \in 1 .. 6 : Purged[i] = p
        BY <3>2, Lists DEF ConfigPaths, HeldPaths
      <4>2. Cleared(p)
        BY <2>1, <2>2, <4>1 DEF SoloInv, SoloPurge
      <4>3. QED
        BY <2>1, <4>2 DEF Cleared, Present, There
    <3>3. QED
      BY <3>1, <3>2
  <2>6. QED
    BY <2>4, <2>5
<1>2. ASSUME status = "gone" PROVE Quiet' /\ \A p \in All : Left(p)'
  <2>1. renew = "idle" /\ \A o \in Ops : Idle(o)
    BY <1>2, <1>d DEF Quiet
  <2>2. ~Exists
    BY <1>2 DEF Exists, Status
  <2>3. ASSUME NEW o \in Ops,
               Arrive(o) \/ InitializeStep(o) \/ JobStep(o) \/ PurgeStep(o) \/ RetrieveStep(o)
        PROVE  FALSE
    BY <2>1, <2>2, <2>3, BusyWhenMoving DEF Arrive
  <2>4. ~RenewStep
    BY <1>2, <2>1 DEF RenewStep, RenewTick, RenewLook, RenewIssue, RenewKeep, RenewEnds, RenewPush
  <2>5. UNCHANGED <<pc, config, held, missed>> /\ renew' = "idle"
    <3>1. CASE Crash
      BY <1>a, <2>1, <3>1 DEF Crash, secrets
    <3>2. CASE UNCHANGED vars
      BY <2>1, <3>2 DEF vars
    <3>3. QED
      BY <2>3, <2>4, <3>1, <3>2 DEF Next
  <2>6. QED
    BY <1>2, <1>d, <2>5 DEF Quiet, Idle, Present, There
<1>3. ASSUME NEW o \in Ops, SettleDestroyed(o) PROVE Cleared("kubeconfig")'
  <2>1. pc[o] = "gone" /\ UNCHANGED <<config, held, missed>>
    BY <1>3 DEF SettleDestroyed, secrets
  <2>2. Solo(o)
    BY <1>c, <2>1 DEF Idle
  <2>3. Cleared("kubeconfig")
    BY <2>1, <2>2 DEF SoloInv, SoloPurge
  <2>4. QED
    BY <1>a, <2>1, <2>3 DEF Cleared, Present, ConfigPaths
<1>4. ASSUME status = "destroyed", status' = "destroyed" PROVE Cleared("kubeconfig")'
  <2>1. Cleared("kubeconfig")
    BY <1>4, <1>d
  <2>2. ASSUME NEW o \in Ops, FetchKubeconfig(o) \/ StoreFetched(o) PROVE FALSE
    <3>1. pc[o] \in {"kube", "store"} /\ Solo(o)
      BY <1>c, <2>2 DEF FetchKubeconfig, FetchPath, StoreFetched, Idle
    <3>2. SoloStatus(o)
      BY <3>1 DEF SoloInv
    <3>3. QED
      BY <1>4, <3>1, <3>2 DEF SoloStatus, PathInv, JobPC
  <2>3. ASSUME NEW o \in Ops, PostDestroy(o) PROVE Cleared("kubeconfig")'
    BY <1>a, <2>1, <2>3, DeleteClears DEF PostDestroy
  <2>4. ASSUME NEW o \in Ops, PurgePath(o) PROVE Cleared("kubeconfig")'
    <3>1. PICK k \in 1 .. 6 : Deletes(Purged[k])
      BY <2>4 DEF PurgePath, PathInv
    <3>2. Purged[k] \in ConfigPaths \cup HeldPaths
      BY Lists DEF ConfigPaths, HeldPaths
    <3>3. QED
      BY <1>a, <2>1, <3>1, <3>2, DeleteClears
  <2>5. ASSUME NEW o \in Ops, FetchJoinToken(o) \/ KeepCert(o) PROVE held'["kubeconfig"] = held["kubeconfig"]
    BY <1>a, <2>5 DEF FetchJoinToken, FetchPath, KeepCert
  <2>6. RenewKeep => held'["kubeconfig"] = held["kubeconfig"]
    BY <1>a DEF RenewKeep
  <2>7. ASSUME held'["kubeconfig"] = held["kubeconfig"], UNCHANGED missed PROVE Cleared("kubeconfig")'
    BY <1>a, <2>1, <2>7 DEF Cleared, Present, ConfigPaths
  <2>8. QED
    BY <2>2, <2>3, <2>4, <2>5, <2>6, <2>7, HeldMoves, MissedMoves
<1>5. QED
    BY <1>1, <1>2, <1>3, <1>4, StatusEntries
------------------------------------------------------------------------------
(* The invariant, and what it proves.                                       *)
IInv ==
    /\ TypeOK /\ PathInv
    /\ MutexInv /\ AloneInv
    /\ BlankInv /\ SoloInv
    /\ DriftInv /\ AnswersInv /\ ServedInv /\ WholeInv /\ LeftoverInv

\* A cluster that an earlier process left behind has all of its configuration,
\* one kubeconfig and one certificate, those of its VMs.
LEMMA InvInit == Init => IInv
<1> SUFFICES ASSUME Init PROVE IInv
    OBVIOUS
<1>1. TypeOK /\ PathInv
    BY TypeInit
<1>2. MutexInv /\ AloneInv /\ SoloInv
    BY DEF Init, MutexInv, AloneInv, SoloInv, Solo, Idle, Holds, JobPC
<1>3. BlankInv
    BY DEF Init, BlankInv, Merged
<1>a. PICK s \in StoredStates : /\ status = s.status /\ config = s.config /\ held = s.held
                                /\ vms = s.vms /\ served = s.served /\ issued = s.issued
    BY DEF Init
<1>b. renew = "idle" /\ \A o \in Ops : pc[o] = "new"
    BY DEF Init
<1>c. status # "gone" /\ (status = "destroyed" => held["kubeconfig"] = 0)
    BY <1>a DEF StoredStates, Stored
<1>d. status \in {"initialized", "ready"} => config = Known(Earlier)
    BY <1>a DEF StoredStates, Stored
<1>e. status = "ready" => /\ held["kubeconfig"] = 1 /\ vms.gen = 1 /\ vms.there
                          /\ held["wildcard_cert"] = 1 /\ served = 1
                          /\ vms.built = [p \in Tfvars |-> Earlier]
  <2>1. ASSUME status = "ready" PROVE s = Stored("ready", Known(Earlier), 1, 1, 1, TRUE)
    <3>1. s.status = "ready"
      BY <1>a, <2>1
    <3>2. QED
      BY <3>1 DEF StoredStates, Stored
  <2>2. QED
    BY <1>a, <2>1 DEF Stored
<1>f. \A p \in ConfigPaths : /\ Known(Earlier)[p] # NoOne
                             /\ Known(Earlier)[p].by = Earlier /\ Known(Earlier)[p].secret = Earlier
    BY WriterAssumption DEF Known, Value, Writers
<1>4. DriftInv
    BY <1>b, <1>d, <1>e, <1>f DEF DriftInv, JobAligned, Aligned, There, Setting, Late, Tfvars, ConfigPaths
<1>5. AnswersInv /\ ServedInv
    BY <1>b, <1>e DEF AnswersInv, ServedInv, Answers
<1>6. WholeInv
    BY <1>b, <1>d, <1>f DEF WholeInv, There
<1>7. LeftoverInv
    BY <1>c DEF LeftoverInv, Cleared, Present, ConfigPaths
<1>8. QED
    BY <1>1, <1>2, <1>3, <1>4, <1>5, <1>6, <1>7 DEF IInv

\* Every step keeps the invariant.
LEMMA InvStep == IInv /\ [Next]_vars => IInv'
BY TypeStep, PathStep, MutexStep, AloneStep, BlankStep, SoloInvStep, DriftStep, AnswersStep,
   ServedStep, WholeStep, LeftoverStep DEF IInv

\* All of it holds of every behaviour.
THEOREM Inductive == Spec => []IInv
BY InvInit, InvStep, PTL DEF Spec

\* The variables stay in their ranges, whatever fails between two Vault calls.
THEOREM TypeCorrect == Spec => []TypeOK
BY Inductive, PTL DEF IInv

\* A cluster that says "ready" runs on VMs built from the settings in Vault,
\* unless an Initialize or a purge overlapped with something else.
THEOREM ReadyNotDrifted == Spec => []NoDrift
<1>1. IInv => NoDrift
    BY DEF IInv, DriftInv, NoDrift, Aligned
<1>2. QED
    BY <1>1, Inductive, PTL

\* A cluster that says "initialized" has all five paths, from one request, unless
\* Initializes overlapped or a purge has begun.
THEOREM InitializedWhole == Spec => []InitializedIsWhole
<1>1. IInv => InitializedIsWhole
    BY DEF IInv, WholeInv, InitializedIsWhole
<1>2. QED
    BY <1>1, Inductive, PTL

\* The kubeconfig in Vault of a cluster that says "ready" opens it, unless a
\* retrieval or a purge overlapped with something else.
THEOREM ReadyHasAnswered == Spec => []ReadyAnswers
<1>1. IInv => ReadyAnswers
    BY DEF IInv, AnswersInv, ReadyAnswers, Answers
<1>2. QED
    BY <1>1, Inductive, PTL

\* The certificate the renewal looks at is the one the cluster serves, unless the
\* last push of the renewal failed, or a deploy did not run alone.
THEOREM ServedStored == Spec => []ServedIsStored
<1>1. IInv => ServedIsStored
    BY DEF IInv, ServedInv, ServedIsStored
<1>2. QED
    BY <1>1, Inductive, PTL

\* A forgotten cluster leaves behind what the purge does not list, or missed.
THEOREM LeavesNothing == Spec => []NoLeftovers
<1>1. IInv => NoLeftovers
    BY DEF IInv, LeftoverInv, NoLeftovers, Cleared
<1>2. QED
    BY <1>1, Inductive, PTL

\* A secret in Vault changes only by a request that brings its own, or that merged
\* while another was writing; the TSIG key also by an edit that could not read it.
THEOREM BlankKeepsSecrets == Spec => KeysKept
<1> DEFINE Kept1 == \A p \in Merged :
                       There(p) /\ There(p)' /\ config[p].secret # config'[p].secret =>
                          \E o \in Ops : /\ pc[o] = "put"
                                         /\ \/ kind[o] = "replace" \/ ~alone[o]
                                            \/ p = "dns" /\ carry[o][p] = NoOne
<1>1. ASSUME IInv, [Next]_vars PROVE [Kept1]_vars
  <2> SUFFICES ASSUME NEW p \in Merged, There(p), There(p)', config[p].secret # config'[p].secret
               PROVE  \E o \in Ops : /\ pc[o] = "put"
                                     /\ \/ kind[o] = "replace" \/ ~alone[o]
                                        \/ p = "dns" /\ carry[o][p] = NoOne
      OBVIOUS
  <2>a. TypeOK /\ PathInv /\ SoloInv /\ config \in [ConfigPaths -> Value \cup {NoOne}]
      BY <1>1 DEF IInv, TypeOK
  <2>b. p \in ConfigPaths
      BY DEF Merged, ConfigPaths
  <2>1. ASSUME NEW o \in Ops, PurgePath(o) PROVE FALSE
      BY <2>a, <2>b, <2>1 DEF PurgePath, Deletes, There
  <2>2. PICK o \in Ops : Put(o) \/ PutFails(o)
      BY <1>1, <2>1, ConfigMoves
  <2>3. PICK k \in 1 .. 5 : k = at[o] /\ pc[o] = "put" /\ Puts(o, PutOrder[k])
      BY <2>a, <2>2 DEF Put, PutFails, PathInv
  <2>4. PutOrder[k] \in ConfigPaths
      BY Lists DEF ConfigPaths
  <2>5. p = PutOrder[k] /\ config'[p].secret = carry[o][p]
      BY <2>a, <2>b, <2>3, <2>4, PutsValue
  <2>6. CASE kind[o] = "edit" /\ alone[o]
    <3>1. SoloMerge(o)
        BY <2>a, <2>3, <2>6 DEF SoloInv, Solo, Idle
    <3>2. PICK i \in 1 .. 3 : GetOrder[i] = p
        BY Lists DEF Merged
    <3>3. carry[o][p] = config[p].secret \/ (p = "dns" /\ carry[o][p] = NoOne)
        BY <2>3, <2>6, <3>1, <3>2 DEF SoloMerge
    <3>4. QED
        BY <2>3, <2>5, <3>3
  <2>7. kind[o] \in {"edit", "replace"}
      BY <2>a, <2>3 DEF PathInv, Initializes
  <2>8. QED
      BY <2>3, <2>6, <2>7
<1>2. QED
    BY <1>1, Inductive, PTL DEF Spec, KeysKept
==============================================================================
