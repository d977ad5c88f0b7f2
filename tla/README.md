# Bandolier: a verification project in TLA+

Bandolier is a control plane for home-lab k3s clusters: a Go API (`api/`) keeps cluster rows in SQLite,
drives terraform, ansible and helm as subprocesses, keeps every secret in Vault, and streams the output
of what it runs to a React interface. This directory models the parts of the API in which several actors
touch the same state, checks the models with TLC and proves the main results with TLAPS.

Everything is translated from the source. Paths below are relative to `api/internal/` unless they start
with another top-level directory.

## 1. Inventory

| Component | State | Operations | What is hard | What makes it correct |
|---|---|---|---|---|
| Cluster state machine (`clusters/statemachine.go`) | none (a table) | `CanTransition` | the callers consult it at different times | only permitted operations start |
| Cluster requests (`clusters/handlers.go`, `initialize.go`, `forget.go`, `upgrade_handler.go`) | `clusters.status`, `clusters.pending_forget` | create, initialize, deploy, destroy, upgrade, DELETE plain and cascading | DELETE and Initialize write the row **without** the cluster mutex; clients disconnect | the row tells the truth about the VMs; a row goes only when its VMs are gone |
| Deployment executor (`deployments/executor.go`, `upgrade.go`) | `deployments` rows, a goroutine per operation | Deploy, Destroy, Upgrade, `fail`, recovery at boot | check-then-lock, ignored write errors, cancelled contexts, restarts between two writes | every row reaches a terminal status; every mutex is released |
| Cluster mutex (`deployments/mutex.go`) | one `sync.Mutex` per cluster | TryLock, Unlock | many early returns | one holder, locked exactly while held |
| Cancellation (`deployments/cancel.go`, `cancel_handler.go`) | cancel functions by deployment id | register, deregister, cancel | row is read before the function is looked up | a cancelled deployment says so |
| Log hub (`deployments/stream.go`, `handlers.go`, `ui/src/lib/ws.ts`) | history and subscriber channels per deployment, in memory | publish, subscribe, replay, reconnect | bounded history, events dropped for slow viewers, restart | order, no gaps or duplicates while connected, the end is seen |
| Apps executor and bundles (`apps/executor.go`, `bundle.go`, `store.go`) | `apps_installs` rows, the releases on the cluster | install, upgrade, uninstall, bundle with rollback | partial failure, rollback that fails, restart | a bundle is all or nothing as far as helm allows; rows and releases agree |
| Release, catalog, repo caches (`apps/handlers.go`, `catalog.go`, `repos.go`, `clusters/factory_repo_reconcile.go`) | cached lists with a TTL, `apps_repos` rows, helm's `repositories.yaml` | get, put, invalidate, add and remove a repository, reconcile at boot | list racing invalidation; one file for all clusters | no stale list after an operation; a chart comes from its cluster's repository |
| Vault client (`vault/`) | token, lease | login, renew, relogin with back-off | expiry racing renewal, giving up | a serving process has a live token |
| Cluster secrets (`clusters/initialize*.go`, `forget.go`, `dns_handler.go`) | Vault paths of a cluster | initialize, edit, read, purge | several writes, one may fail | secrets of one generation; nothing left after purge |
| Certificates (`clusters/cert.go`) | certificate in Vault, TLS secret in the cluster | daily renewal | stale list of clusters, store succeeds and push fails | the served certificate is renewed before it expires |
| Configuration form (`clusters/initialize.go`, `initialize_get.go`, `ui/src/routes/clusters/$clusterId.initialize.tsx`) | the form, react-query's cache, fields of the Vault paths | load, edit, save, deploy of the DNS record | blank fields mean "keep"; decisions taken after the merge; a cached view | what is left blank is kept, a key pair stays a pair |
| Telemetry (`telemetry/`) | one cache entry and one flight per cluster | node telemetry | the flight runs under the first caller's context; long and short time to live | an answer no older than its TTL, and trouble that ends |
| Authentication (`auth/`, `store/users.go`, `store/sessions.go`) | users, sessions, WebSocket signing key | setup, login, logout, change of the password, whoami, ws tokens | check-then-create, reads before a slow hash, expiry, key overwritten on read error | an acknowledged password works, a logout is final; tokens verify |
| Audit log (`audit/`) | append-only rows | write | context cancelled | started rows have an end |
| terraform and ansible runners (`terraform/`, `ansible/`) | working directory | apply, destroy, playbook | killed half-way | – (external programs) |
| helm wrapper, DNS providers, profiles, proxmox probe, validation (`apps/helm*.go`, `dns/`, `profiles/`, `proxmox/`, `validate/`) | none | command lines, HTTP calls, parsing | – | – |
| Database, HTTP server, boot (`store/`, `httpserver/`, `api/cmd/api/main.go`) | SQLite file | migrations, routing, recovery before serving | restart in the middle of anything | recovery ends what the last process left |
| `deploy/`, `terraform/`, `ansible/`, `ui/` | – | one-shot scripts, declarative content, views | – | – |

How they interact. The HTTP handlers call the executors; `deployments.Executor` and `apps.Executor` share
one `ClusterMutex` and one log hub; both write terminal statuses from goroutines that outlive the request.
`clusters.Handler` (DELETE, Initialize) writes the same cluster row directly. At boot `main` runs
`RecoverOrphanedDeployments` before the server listens. The cascade latch `pending_forget` is a message
from the DELETE handler to the destroy goroutine, passed through the database.

## 2. The modules

| Module | Models | Kind |
|---|---|---|
| `ClusterStatus` | the transition table of `clusters/statemachine.go` and the two status sets of the DELETE handler | operators, no state |
| `SerialJobs` | what executors promise one another: one job per cluster, only the owner moves what it owns, a restart takes every owner away | abstract specification |
| `ClusterLifecycle` | cluster requests, deployment executor, mutex, cancellation, recovery at boot | component |
| `ClusterLifecycleProofs` | theorems about `ClusterLifecycle`, and that it implements `SerialJobs` | proofs |
| `AppOperationsProofs`, `LogStreamProofs`, `ClusterSecretsProofs`, `ChartReposProofs`, `NodeTelemetryProofs`, `ConfigFormProofs` | theorems about the component each is named after; the first also that `AppOperations` implements `SerialJobs` | proofs |
| `AuthProofs` | theorems about `AuthSessions` and `VaultToken`, whose names are kept apart (`VTSpec`, `VTNext`, `Restart`, `Elapse`) so that one module can extend both | proofs |
| `AppOperations` | helm operations and bundles on one cluster, `apps_installs` rows, the release cache | component |
| `LogStream` | the log hub, the WebSocket handler, the reconnecting viewer | component |
| `ClusterSecrets` | the Vault paths of one cluster: Initialize and edit mode, deploy and destroy, retrievals, renewal of the certificate, purge | component |
| `ChartRepos` | repository rows, the `repositories.yaml` that clusters share, the catalog and its cache, where a chart is taken from | component |
| `VaultToken` | the token of the API process, its lifetime watcher, the WebSocket signing key and tokens | component |
| `AuthSessions` | the account and its sessions: setup, login, logout, change of the password, `RequireSession` | component |
| `NodeTelemetry` | the node table of a cluster: cache, single flight, the pages that poll | component |
| `ConfigForm` | the round trip of a cluster's configuration: GET, page, save, and the DNS record a deploy writes | component |
| `MC*` | the instances TLC checks | instances |

`ClusterLifecycle` and `AppOperations` meet at the cluster mutex. `ClusterLifecycle` contains a helm
operation as the request kind `"app"`, which takes the mutex, holds it and lets it go; `AppOperations`
opens that step up. Both implement `SerialJobs`, once with the VMs of a cluster as what a job moves, once
with the releases on it: a reader of either module needs to know of the other only what `SerialJobs` says.

### ClusterLifecycle

One element of `Ops` is one HTTP request together with the goroutine it starts; the deployment id is the
element itself. `pc[o]` names the **next store, lock or context operation** of `o`, and everything the code
does between two of those is one action. So a check and the write that relies on it are two actions, and
other requests come between them exactly where they can in the code.

| State | In the code |
|---|---|
| `status`, `latch`, `depRow` | columns `clusters.status`, `clusters.pending_forget`, `deployments.status` |
| `locked` | `ClusterMutex` |
| `ctx`, `asked` | the context passed to the next store call; cancel requests between the read of the row and the lookup in `cancelMap` |
| `result` | the status `fail` or the success path publishes in `deployment_complete` |
| `boot`, `orphan` | where `RecoverOrphanedDeployments` is, before the server listens |
| `infra` | the VMs, as terraform left them: absent, partial, present |

| Actions | In the code |
|---|---|
| `Arrive` | the first read of the cluster row and the decision taken on it (`Executor.Deploy`, `Destroy`, `Upgrade`; DELETE; `Initializer.Handle`; helm operations look at nothing) |
| `SetLatch`, `CheckAgain`, `RollBackLatch`, `Forget` | the DELETE handler, with and without `cascade=destroy` |
| `BeginInitialize`, `EndInitialize` | the status writes of Initialize before and after its Vault writes, without the mutex |
| `TakeLock`, `InsertRow`, `InsertFails`, `MarkInFlight` | the front half of an executor entry point, with each early return |
| `Apply`, `TearDown`, `Configure`, `UpgradeNodes`, `StepFails` | the steps of `run`, `runDestroy`, `runUpgrade` |
| `FinishSucceeded`, `SettleStatus`, `ReadLatch`, `CascadeForget` | the success path, with the operation's own context and ignored errors |
| `FinishFailed`, `MarkError`, `ClearLatch` | `fail`, with a background context |
| `Publish`, `Unlock`, `Deregister` | the event, then the deferred calls |
| `AskCancel`, `SignalCancel`, `Disconnect` | the cancel handler in its two halves; a client that goes away |
| `Crash`, `RecoverRow`, `RecoverStatus`, `RecoverLatch`, `Serve` | a restart in any state, recovery included |

A request refused by its first read changes nothing and is left out. `Init` is a database an idle process
left behind: any status but an in-flight one, no running deployment, no latch, and VMs that go with the
status (`StoredCluster`). The status `degraded` is in the table of `ClusterStatus`, but no code writes it.

A cascade that succeeds drops the row (`CascadeForgets`), but for the one case its exception `TookTheLatch` names: a
second DELETE that read the cluster before the first marked it destroying sets the same latch, is refused by
`Executor.Destroy`, and rolls it back, as `pending_forget` does not say whose it is.

### AppOperations

One element of `Ops` is an accepted request with its goroutine, and a single-chart operation is a list of
one choice. `CanDo`, `Done` and `FailsTo` say what helm does to a release (absent, deployed or failed), from
the flags the wrapper passes: `install` refuses a name in use, `upgrade` runs with `--install`, and a helm
that fails may leave the release failed or as it was. `outcomes` is the list of the bundle's audit row;
`before` and `logged` are history variables: the releases when the lock was taken, and the failed rollbacks
that only the log tells of. The handler's answer (`Invalidate`) is a step of its own, as the goroutine is
already running. A reader of the release list asks helm in one step (`ListReleases`) and fills the cache in a
later one (`PutList`).

### LogStream

Events are numbered; the last is `deployment_complete`. A session is a connection with its handler and
channel. Publish and Subscribe are critical sections of `Hub.mu` and so one action each; replay and drain
send one event each; a page whose connection breaks waits, asks for a token and connects again. A handler
never reads from its connection, so a client that has gone is noticed at a write, or not yet (`SendsInVain`).
`Buf` is the channel together with the one event the handler has taken out and is writing, and stands for
the 64 of the code (`deployments/handlers.go:144`); `HistoryCap` stands for its 5000.

### ClusterSecrets

One element of `Ops` is again one request, but its steps are **Vault calls**: every put, get and delete is an
action, may fail, and other requests come between two of them. What `ClusterLifecycle` says of rows, locks and
contexts is reduced here to what orders Vault calls: a job of the executor holds the mutex (`Holds`),
Initialize, the retrievals, DELETE and the renewal hold nothing.

| State | In the code |
|---|---|
| `config` | the paths `proxmox`, `network`, `ssh`, `dns`, `tls`: which request wrote them, and whose secret they hold |
| `held` | the paths `kubeconfig`, `join_token` (of which generation of VMs) and `wildcard_cert` (which certificate) |
| `vms`, `served` | the VMs, from which settings and with which key they were built; the certificate in the TLS secret of the cluster |
| `carry`, `fetched` | what a request has read, or brought, and will write |
| `renew`, `renewing` | where the renewal loop is, and the certificate it has issued |
| `alone`, `missed`, `unpushed` | history: requests that overlapped with nothing; deletes that failed; a renewal that stored and did not push |

| Actions | In the code |
|---|---|
| `Merge`, `Refused`, `MarkInitializing`, `Put`, `PutFails`, `SettleInitialized` | `Initializer.Handle` |
| `Begin`, `Apply`, `Configure`, `FetchKubeconfig`, `FetchJoinToken`, `IssueCert`, `KeepCert`, `PushCert`, `InstallTraefik`, `SettleReady` | `Executor.run` and the homelab profile |
| `TearDown`, `PostDestroy`, `SettleDestroyed`, `PurgePath`, `DropRow` | `Executor.runDestroy`, `ForgetCluster` |
| `GetKey`, `Fetch`, `StoreFetched`, `RetrieveFails` | `RetrieveKubeconfig`, `RetrieveJoinToken` |
| `RenewTick` … `RenewPush` | `RenewLoop`, `renewOnce` |

Reading several paths in a row without writing is one step (`Apply`, `Configure`, `GetKey`), and so is a fetch
and its put inside a deploy; helm and kubectl read the kubeconfig and use it in one step (`Answers`). The path
`k3s` of the purge is left out, as nothing writes it. `Merge` may find the `dns` path unread, for there every error of
`Get` is taken for absence (`initialize.go:146`), and the edit then writes what the form brought. Whether a certificate is due is a free choice.

### ChartRepos

Rows belong to a cluster, but `HelmCLI.cmd` (`apps/helm.go:24`) sets nothing per cluster but `KUBECONFIG`, so
`host` is one `repositories.yaml` for all of them. One helm command is one step, as helm locks the file; the
commands of two requests alternate freely, but for two installs on one cluster, which the mutex orders
(`Holds`).

A chart is installed from the repository of exactly that name. A search is wider: `SearchRepo` (`apps/helm.go:62`) runs
`helm search repo "<name>/"`, which looks for that text in the names, keywords and descriptions of all charts of all
repositories in the file, and line 71 gives each of them the searched name as its source. `Matches` says which
repositories helm lists for which name: at least the one that was meant. `Search` therefore reads a whole row of
addresses, and a catalog holds, under each name it searched, the repositories whose charts are listed there.

| State | In the code |
|---|---|
| `rows`, `host`, `cache` | `apps_repos`; `repositories.yaml`; `catalogCache`, with the repositories whose charts an entry lists under each name |
| `listed`, `left`, `found` | the repositories a request looked up, those it has still to add or to read, and what it read under each name: the repositories, by address |
| `shaky`, `crossed`, `doubt` | history: names at which a helm call failed; names another request changed between two steps that belong together; the two at the time a catalog was cached |

| Actions | In the code |
|---|---|
| `Reconcile`, `Serve` | `ReconcileFactoryRepos`, then the server listens, also when a repository could not be added: that is only logged (`factory_repo_reconcile.go:57-70`, `main.go:143`) |
| `AddToHelm`, `AddFails`, `CreateRow`, `RemoveFromHelm`, `DeleteRow`, `RowFails`, `Invalidate` | `RepoHandler.Add` and `Remove`: helm, the row, the cache, each a step |
| `LookAtCache`, `ListRepos`, `Search`, `SearchFails`, `PutCatalog`, `Expire` | `Catalog.Aggregate`; the searches run side by side, and each shows what `Shown` says |
| `LookUp`, `Busy`, `TakeChart`, `ChartFails` | `lookupRepoURL` and the install of one chart, alone or in a bundle; the ingress controller of a deploy |
| `ReAdd`, `ReAddFails`, `Added` | `helm repo add --force-update` in the catalog, an install and a deploy |

A bundle is here the install of one of its charts, as each is added and installed on its own. `helm repo update`
refreshes the index of the same address and is part of `Added`. The curated entries, which replace those of the same chart
(`mergeCurated`), are the same for every cluster and are left out.

### VaultToken

| State | In the code |
|---|---|
| `proc` | how far `main` is: login, read the key, store a new one, serving |
| `lease`, `watcher`, `attempt`, `backoff`, `wait` | what the client's token has left, and `runWatcherLoop` with `relogin` |
| `stored`, `key`, `drawn` | the signing key in Vault, that of the process, and how many were drawn |
| `ticket` | a WebSocket token in a browser |
| `vaultUp`, `out`, `longest`, `outages`, `blind` | Vault, and the history of its outages; whether a start took an unreadable key for a missing one |

| Actions | In the code |
|---|---|
| `Login`, `GetKey`, `DrawKey`, `PutKey`, `PutFails` | `main` from `LoginAppRole` to `EnsureWSSigningKey`; a failure is `os.Exit(1)`, and compose starts the process again |
| `Renew`, `WatcherDone` | `RenewCh` and `DoneCh` of the SDK's watcher: it may renew or not, and stops when the lease nears its end; `Grace` is how early it may, the SDK's grace period and a sleep that would end in it |
| `ReloginSucceeds`, `ReloginFails`, `GiveUp` | `relogin` |
| `Mint`, `Verifies` | the `ws-token` handler, `VerifyWSToken` |
| `Elapse`, `VaultDown`, `VaultUp`, `Restart` | time, Vault, restarts |

`VTInit`, `VTNext` and `VTSpec` are its specification. `Slept` is the schedule of `relogin` (`lifetime.go:190-202`): what
has passed before each attempt, and what is slept after it; `Patience` is its last entry.

A tick is a second to `relogin` and a good deal longer to the lease (an hour, `deploy/vault-init/init.sh:169`).
The model does not tie one to the other: a renewal is never promised, and a call takes as long as anything else
does meanwhile.

### AuthSessions

One element of `Requests` is one HTTP request, and what it asks for is chosen when it arrives. Each SQL statement is
an action; the bcrypt hash between two of them takes as long as anything else does meanwhile, and stands for the
password it was made of. The session a login creates has the name of the login.

| State | In the code |
|---|---|
| `kind`, `given`, `wanted`, `cookie` | the request, with the password it claims to know, the one it sets, and its session |
| `users`, `row`, `expires` | the tables `users` and `sessions` |
| `pc`, `ctx`, `outcome` | the next statement, the context of the request, the answer |
| `wrote`, `era`, `before` | history: whether its write took effect; the passwords of the account since it came; the requests that had ended when it came |

| Actions | In the code |
|---|---|
| `CountUsers`, `CreateUser` | `Handler.Setup` |
| `CompareUser`, `CreateSession` | `Handler.Login` |
| `RequireSession`, `UpdatePassword` | the middleware; `Handler.ChangePassword` |
| `DeleteSession`, `DeleteFails` | `Handler.Logout`, whose DELETE has a background context and whose error nobody sees |
| `Fails`, `Respond`, `Disconnect`, `Tick`, `Crash` | a statement that fails, the answer, clients, time, restarts |

A read fails only under a cancelled context, a write also when the database is locked. Requests without a cookie or
with a password that is too short change nothing and are left out.

### NodeTelemetry

Entries and flights of different clusters share nothing, so the module is about one cluster. `pc[p]` is where the
request of a page is: before the cache, before `sf.Do`, joined to a flight, or at one of the calls of the flight it
leads, which run under its context. What a flight finds is a level: no rows, rows without the VMs, or all of it.

| State | In the code |
|---|---|
| `leader`, `rows` | `singleflight.Group`, what the flight has found so far |
| `cache`, `left` | the `cacheEntry` and what is left of its time to live |
| `up`, `out` | whether there are nodes that the kubeconfig fits; the services that do not answer |
| `got`, `age`, `quiet`, `tainted`, `blind` | the last answer to each page, and the history the properties speak of: how old the entry is, for how long there has been no trouble, whether a flight met some, which pages missed an entry put since they looked |

`Poll` includes the lookup of the cluster's row. A page that joined a flight waits without regard to its own context.

### ConfigForm

`ClusterSecrets` follows whole paths through many requests at once. `ConfigForm` opens the paths up into fields and
follows one browser, whose operator waits for each answer. Fields that are treated alike are one: `plain` is every
setting of `proxmox` and `network` that is sent back to the page, `token` the two secrets of Proxmox, `zone` the DNS
server, its zone and the name of its key.

| State | In the code |
|---|---|
| `form`, `cache` | the page; what react-query keeps of the last GET, for five minutes after the page closed |
| `req`, `byo` | the request as `Handle` fills it in; whether it takes the key pair for the operator's |
| `vault`, `status`, `record` | the paths `proxmox`, `ssh`, `dns`; `clusters.status`; the zone that has the wildcard record |
| `hands`, `blind`, `was`, `lost`, `overlap`, `unread` | history: the fields typed into; a page that could not load; the secrets when the form was saved; a DNS secret that could not be read; a deploy that began during a save; one that could not read the DNS path |

| Actions | In the code |
|---|---|
| `Load`, `LoadFails`, `ShowCached`, `Refetch`, `Evict` | `HandleGet` and `viewToInput`, with and without a cached view |
| `Types`, `Leave` | the operator; who types a private key has typed its public key |
| `Save`, `MergeProxmox`, `MergeDns`, `MergeSsh`, `MergeFails`, `Accept`, `Reject` | `Handle` up to `initializing` |
| `PutProxmox`, `PutSsh`, `PutDns`, `PutFails`, `Settle`, `PreflightFails` | its puts, the pre-flight, the last status |
| `StartDeploy`, `WriteWildcardDNS`, `DeployFails`, `Destroy`, `Crash` | what else moves the status and the record |

A GET reads its paths in one step, the put of `tls` is part of that of `dns`, and a client that goes away makes the
next status write or Vault call fail. The page's own checks (`ui/src/schemas/initialize.ts`) are left out: what it
would not send, another client of the API may.

## 3. What TLC checks

| Run | Instance | Result |
|---|---|---|
| `lifecycle` | two requests of any of the seven kinds on one cluster, cancels, disconnects, two restarts, fair goroutines | the row tells the truth about the VMs, what is left in flight is explained, a cascade forgets what it destroyed, terminal rows are stable, every request ends, and `SerialJobs` is implemented |
| `helm_operations` | two operations out of five requests on two releases, one list reader, one restart | success is real, a failed bundle restores the cluster, a running row is explained, the mutex is released |
| `secrets` | two requests of any of the eight kinds on one cluster, the renewal loop, three certificates, one restart, every Vault call failing | blank secrets are kept, an initialized cluster is whole, a ready one matches Vault, the served certificate is the stored one, a purge leaves what it does not list |
| `chart_repos` | two requests of five kinds on two clusters with two repositories, one restart, every helm call failing | a chart comes from the repository that was looked up; a cached catalog has what its cluster has, where its rows say, and nothing under a name it does not have |
| `vault_token` | a lease of three ticks, four logins, two outages, one restart | the watcher does not give up early; the token comes back; WebSocket tokens verify across restarts |
| `log_stream` | one page, two connections, five events, history of three, room for two, one restart | order, no silent gap, and an end that is seen |
| `auth_sessions` | three requests of any of the five kinds on a new or a configured installation, sessions of one tick, lost clients, failing writes, one restart | two setups create two users only when they overlap; a password was known when it opened or changed something; an acknowledged one works; a logout is final |
| `telemetry` | two pages, times to live of two ticks and one, Kubernetes and Proxmox failing, clients leaving, the cluster coming and going, restarts | no answer is older than its time to live; trouble is over soon after it is over; every page recovers |
| `config_form` | one page and its cache, two zones, two secrets, one field typed on each page, any number of pages, deploys, destroys and restarts | key pairs stay whole; a save stores what it was asked for; an initialized cluster has usable DNS, a ready one its record |

A theorem of section 4 stands for the type invariants of all components but `ClusterSecrets` and `ChartRepos`, whose
runs check them as well, and for those properties that are proved and not in a run (`CascadeAfterDestroy`, `EventMatchesRow`,
`OutcomesTellTheStory`, `HistoryIsRecent`, `EndIsLast`, `SessionsLast`, `NoIdleProbe`).

Three runs show where the code does something else than what a comment says of it. Each
checks one property that states the sentence, and TLC finds the counterexample.

| Run | The sentence | What happens |
|---|---|---|
| `forget_race` | `clusters/handlers.go:369`: DELETE never orphans in-flight infrastructure | the status is read once, without the mutex; a deploy starts before the row is dropped |
| `stale_list` | `apps/handlers.go:69`: the cache is dropped after a successful operation | it is dropped when the operation is accepted; a list taken while helm runs is cached |
| `retry_refused` | `clusters/initialize.go:116`: edit mode is for a cluster initialized at least once | it is for every status but `pending`: when the first put of the first Initialize fails, each retry is refused for the secrets that are not in Vault |

Other comments are contradicted inside properties that hold, as exceptions which TLC shows to be needed:

* `LatchExplained`: `clusters/handlers.go:455` rolls the latch back so that a later destroy does not "silently forget"
  the cluster; the roll-back runs with the context of a client that has gone, fails too, and the latch stays.
* `InFlightExplained`: `api/cmd/api/main.go:122` says that recovery unsticks clusters after a restart; a restart
  between the row's terminal write and the cluster's leaves the cluster in flight, as recovery looks at running
  rows only.
* `ViewerSeesEnd`: `deployments/handlers.go:147` says that the terminal event of a completed deployment is in
  the snapshot; after a restart the history is empty, and the page waits.
* `TokenComesBack`: `main.go:70` says that the watcher "falls back to a fresh login if renewal fails"; after
  five failed attempts (15 seconds between the first and the last) it ends, nothing starts it again, and the
  process serves on without a token until somebody restarts it. `GivesUpLate` says how long an outage that
  takes.
* `TicketsVerify`: `auth/ws_token.go:77` calls `EnsureWSSigningKey` idempotent; a start whose read fails while
  its put succeeds replaces the key, and the tokens in use are refused (they live for a minute).
* `RunningRowExplained`: `deployments/cancel.go:36` says that the transition to `cancelled` happens inside the
  goroutine; a cancel after the last step makes both success writes fail, and the row says `running` for good
  (`EndedGoroutineSettlesRow` is the sentence without the exception).
* `CascadeForgets`: an accepted cascade answers "cluster will be forgotten on success"
  (`clusters/handlers.go:488`; `ForgottenOnSuccess`), which a second one can undo.
* `LatchExplained`: `deployments/executor.go:507` says that a goroutine recovering at boot still sees the latch
  (`LatchSurvivesRestart`); no deployment is resumed, and recovery clears it.
* `SetupsOverlap`: `auth/handlers.go:83` speaks of the "first (and only) user" (`OnlyUser`); two setups that overlap
  create two and are both answered 201, and the second password never opens anything.
* `RecoversInTime`: `telemetry/aggregator.go:63` says that empty results expire fast, so that transient probe
  failures recover quickly (`FailuresAreBrief`); rows without their VMs are not empty and stay for 30 seconds.
* `NoIdleProbe`: "healthy results cache for 30s" (`telemetry/aggregator.go:64`; `HealthyLasts`); a page that looked
  before they were there leads a second flight, whose empty result replaces them.
* `SavedAsAsked`: a secret that is present may be left blank to keep it (`clusters/initialize_get.go:54`;
  `TsigIsKept`); when the one read of the DNS path fails, the blank is stored.
* `RecordIsThere`: the form promises a record at deploy time (`ui/src/components/InitializeForm.tsx:632`;
  `ManagedIsRecorded`); a DNS path that cannot be read is taken for DNS the operator manages.
* `KeysKept` knows the same exception for the DNS path.
* `CatalogFresh`: a search that fails, be it because the client has gone, leaves its repository out of the
  catalog, which is then cached for everybody; so does a repository changed while the catalog is made. It says nothing
  of other clusters' repositories: one whose name ends in a name of this cluster is listed under that name without any
  failure or race, although `apps/helm.go:57` speaks of "the given repo". TLC reaches such a catalog in `chart_repos`.
* `SourceExplained`: a failed `helm repo add` is only logged, and the chart comes from whatever the name meant before;
  and although `apps/executor.go:330` says that there is no repo cache (`OwnSource`), `repositories.yaml` is one for all
  clusters: another cluster that adds the same name between the add and the install decides where the chart comes from.

Three more sentences are definitions of `ConfigForm` that TLC refutes when one is added to a cfg, and that no checked
property weakens:

* `SettingsByHand` (`initialize_get.go:60`): a save invalidates no query, so a page opened again within five minutes
  is filled with what was stored before the save, and sends it back. (It takes a second value in
  `Plain`, as `config_form` has one.)
* `OptOutIsStored` (`initialize.go:251`): once a TSIG secret is stored, the merge fills the blank one in before the
  four fields are compared with nothing; the pre-flight asks a server without a name, and managed DNS cannot be left.
* `ResubmitIsAccepted` (`initialize_get.go:14`): an edit that keeps a generated key pair stores it as the operator's;
  the page then shows its public half, and the form sent back unchanged is refused as half a pair.

The properties of `ClusterSecrets` name the overlaps in which they fail, and TLC shows each exception to be
needed; they are what the code does not protect against:

* `NoDrift`: an Initialize admitted at `initialized` goes on writing while a deploy reads; the cluster becomes
  `ready` from a configuration that Vault no longer holds, which `CHANGELOG.md:221` sets out to avoid.
* `InitializedIsWhole`: two Initializes mix their paths; a DELETE killed in its purge leaves an `initialized` row
  without secrets.
* `KeysKept`: an edit writes back the key that another Initialize has just replaced.
* `ServedIsStored`: a renewal whose push fails is not tried again until the stored copy is due, a year later; a
  deploy and a renewal that cross push in another order than they stored.
* `ReadyAnswers`: a retrieval that began before a destroy stores the old kubeconfig over the new one. This one
  takes three requests and is not needed at the bound of two.
* `NoLeftovers`: a forgotten cluster leaves `dns` (with the TSIG secret) and `tls` in Vault, as the purge does not
  list them, although `clusters/forget.go:11` says that it removes the paths Bandolier writes to; a retrieval or
  a renewal may write a path again after the purge.

### Bounds, and why they are enough

* `Ops`: two requests. A hazard here is one request between two steps of another, and a third one meets
  the same rows and the same mutex. The safety results for any number of requests and clusters are theorems.
* `Clusters`: one, and two in `chart_repos`, where they share helm's file. Elsewhere clusters share no state but
  the process; the theorems are for any number.
* `MaxCrashes`: two in `lifecycle`, so that recovery itself is interrupted and runs again; one elsewhere.
* Two releases and bundles of two or three charts: enough for a chart that succeeds before one that fails, a
  skip in front, a release named twice, and two charts to roll back, one of which fails to go.
* Five events, a history of three, room for two: the history evicts, a channel overflows while another
  connection gets the same event, and the end may be the event that is dropped. Two connections: one
  reconnection, after which the replay overlaps what the page has seen.
* `MaxMissed`: one path left behind by a failed delete; each path of a purge is deleted by itself.
* `chart_repos`: two clusters that give one name two addresses, a second name that is a factory repository and that a
  search finds in the first name as well (as "traefik" in "my-traefik", on the same cluster or the other one), two
  requests: one between two steps of the other. The requests of `MCRequests` add, remove, list and install the
  first name on both clusters and the second on one.
* `vault_token`: four attempts and a limit of four make the back-off grow and meet its limit (in the code it
  never does: five attempts reach 16 seconds of 60); `MaxOutage` is at least the seven ticks between the attempts, which
  `OutageAssumption` asks of every instance: a clock that stops earlier could not tell how long an outage was;
  `Grace` is two of three ticks, so that the watcher may stop early or late;
  two outages, so that the watcher can fail in one and again in the other; `MaxKeys` three: the first key, one
  that replaces it, and one more.
* `MaxCerts`: three, so that a stored certificate, its renewal and that of a new deploy can be told apart.
* `auth_sessions`: three requests are a setup, a login and a third between their steps, or a change of the password
  between those of another and a login after both; a session of one tick expires or does not; one restart.
* `telemetry`: two pages are a leader and one who joins, looks too early or comes later. With two ticks and one, the
  two times to live differ and both run down. Vault out of reach is Kubernetes and Proxmox out at once.
* `config_form`: two zones and two secrets tell what was typed from what was stored and from `homelabDefaults`; one
  field (`MaxTyped`) on each page, and any number of pages. A bound of two fields on each was checked too, with one
  secret and two zones, and with two secrets and one zone.
* Symmetry (`OpSymmetry`, `AuthSymmetry`, `SecretSymmetry`) only where no property singles an element out, in
  `secrets`, `chart_repos`, `auth_sessions`, `config_form` and `forget_race`. Runs with liveness properties have none.
* Deadlock is checked in `vault_token`, `telemetry` and `config_form`, where something can always happen; elsewhere the
  requests of a bounded instance run out.

### Fairness

Weak fairness on the next step of a goroutine (`Work`), of an admitted request (`Handle`), of recovery, of the
publisher, of a WebSocket handler with an event to write, of the page's own timers and token request, and of every step
of a telemetry request. The code
justifies it so: Go schedules runnable goroutines; SQLite calls return; terraform and ansible end by themselves
or are killed with their context; helm installs and upgrades run with `--timeout`. `VaultToken` assumes it of
the login at start (compose restarts the container), of the watcher's goroutine and of time; it assumes no
renewal, and `TokenComesBack` has as its premise that Vault comes back. Nothing is assumed of clients, of
operators, of cancels, of disconnects or of restarts. `MaxCrashes` and `MaxRestarts` make a behaviour settle
after the last restart, which is what "restarts end" means here; in `NodeTelemetry` restarts have no bound, and
`PageRecovers` has their end as a premise, next to that of every other trouble.

### Assumptions about what is outside

* A SQLite statement is atomic and fails only because its context is cancelled or a constraint is violated; in
  `AuthSessions` a write may also find the database locked.
* A Vault call is atomic and may fail at any time; a put that fails may have been done. Nobody else writes the
  paths of a cluster.
* VMs accept the key they were built with; a kubeconfig works for the VMs it was fetched from only.
* What terraform leaves when it fails or is killed: anything between what was there and what was asked for.
* `helm search repo` finds text anywhere in a chart's line; what it finds is a function of the name searched, of a
  repository's name and of its address (`Matches`), the index at an address staying what it is.
* helm locks `repositories.yaml`; the file outlives a restart of the container, and is lost when it is created anew.
* A login fails only while Vault does not answer; the secret id never expires (`deploy/vault-init/init.sh:169`).
* The probes of telemetry have no timeout of their own; a call that gets no answer ends with the connection.
* A DNS server without a name cannot answer. react-query shows what it has cached when a page opens again.
* helm as described above; nobody but this process changes releases while an operation runs.

## 4. What is proved

`ClusterLifecycleProofs` holds for every set of clusters and requests, every choice of
request kinds and every number of restarts, from three assumptions: `Kinds` are kinds there are
(`KindsAssumption`), `NoOp` is no request (`NoOpAssumption`), and the bound is a number (`BoundAssumption`).

`LockOwnership` is inductive by itself: `TakeLock` succeeds only on a free mutex, and only a holder reaches a
step that unlocks (`MutualExclusion`). The others are not, and are proved from

    IInv == TypeOK /\ LockOwnership /\ KindInv /\ BootInv /\ VMInv /\ RowInv /\ LatchInv /\ FlightInv

| Part | Why it is needed |
|---|---|
| `KindInv` | a step such as "write the settled status" means something else for each kind; only the right kinds come to it |
| `BootInv` | recovery writes rows without any lock; it is safe because no request is under way |
| `VMInv` | between the first change of the VMs and the settled status, the row must not vouch for them; after the last step they are as the outcome says |
| `RowInv` | what the deployments row says at each point of its request, and what `result` will be |
| `LatchInv` | a latch is set only on a row that exists, and belongs to a cascade that has yet to read or clear it |
| `FlightInv` | a goroutine that has settled the status left no in-flight one behind |

Each part has a lemma "kept by every step", with one proof step per action; `LockOwnership` is what a lemma
cites when another request might have changed the row.

| Theorem | Says |
|---|---|
| `TypeCorrect`, `MutualExclusion`, `Inductive` | `TypeOK`, `LockOwnership` and `IInv` always hold |
| `StatusIsTrue`, `CascadeIsLast` | a cluster that says `ready` has its VMs and one that says `destroyed` has none; a cascade drops the row last |
| `RunningRows`, `InFlightRows`, `Latches` | whatever is left in flight is explained by a goroutine, a cancelled context or a restart |
| `Events` | what was published is what the row says |
| `TerminalRows` | no step rewrites a terminal row |
| `CascadesForget` | a cascade that succeeded and was not cancelled has dropped the row, unless another DELETE or a destroy that failed took the latch |
| `Implements` | `ClusterLifecycle` implements `SerialJobs` |

`CascadeForgets` speaks of a row that may go long before the cascade ends, by somebody else's hand, so that `IInv` is
not enough. `PromiseInv` follows each cascade from setting the latch to reading it: the latch is set, or the row has
gone, or another DELETE took it. `OriginInv` says that a row once there only goes, and that recovery works on rows that
are there. `Lasting` collects what no step takes back (outcomes, cancellations, a dropped row), which is what keeps
both for the cascades a step does not belong to.

`AppOperationsProofs` holds for every number of operations, releases, charts of a bundle, readers and restarts, from the
shape of requests (`RequestsAssumption`), of the stored releases (`StoredAssumption`), `NullAssumption` and
`CrashAssumption`. None of its properties is inductive; the invariant is

    Inv == TypeOK /\ Shape /\ MutexInv /\ RowInv /\ EarlyInv /\ \A o \in Ops : JobOK(o)

`MutexInv` makes `before` mean something: nobody else touches a release while an operation runs. `JobOK` follows one
operation through its charts: those before the present one are done and all else is as it was (`ChartOK`); while a
rollback runs, each release is as it was, or new and still to be undone, or known to have failed to go, or the failed
chart's own (`RollbackOK`); and what follows of that when the operation has ended (`EndOK`).

| Theorem | Says |
|---|---|
| `TypeCorrect`, `Inductive` | `TypeOK` and `Inv` always hold |
| `SuccessesAreReal`, `BundlesAreUndone`, `OutcomesAreTrue` | a success did what it says and nothing else; a failed bundle leaves only what failed to go; the outcomes are in the order of what happened |
| `RunningInstalls` | a running row has a goroutine or saw a restart |
| `HelmIsSerial` | `AppOperations` implements `SerialJobs` |

`LogStreamProofs` holds for every number of pages, connections and events, every size of history and channel and every
number of restarts, from `EventAssumption`, `CapAssumption` and `SessionAssumption`:

    Inv == TypeOK /\ HistoryInv /\ OrderInv /\ LinkInv /\ WholeInv /\ EndIsLast

The history is an interval of the events that ends at the last one (`HistoryInv`); what a session has told, will replay
and has in its channel are each in order, and one before the other (`OrderInv`); a connection is open at both ends and
belongs to one page (`LinkInv`); told, to be replayed, in the channel and dropped make up all events since the snapshot
(`WholeInv`), without which no statement about gaps is inductive.

| Theorem | Says |
|---|---|
| `TypeCorrect`, `Inductive` | `TypeOK` and `Inv` always hold |
| `HistoriesAreRecent`, `SessionsAreInOrder` | a new viewer is sent the newest events without a hole; a connection gets events in order and once |
| `NothingIsLost`, `EndsAreLast` | who was never too slow has every event since his snapshot; nothing follows the terminal event |

`AuthProofs` has two developments that do not use each other. That of `AuthSessions` holds for every number of
requests, passwords and restarts, from `RequestAssumption` and
`TimeAssumption`:

    Inv == TypeOK /\ Stages /\ Past /\ Late /\ Witnessed /\ Cookies

Where a request is tells what it is and has done (`Stages`); who had ended does nothing any more (`Past`); a setup about
to create a user found none, so whoever wrote since was under way when it came (`Late`); a password compared with was
that of the account while the request was served (`Witnessed`); sessions presented are known, and gone when logged out
(`Cookies`). The theorems about acknowledged passwords, logouts and sessions strengthen it further, each by the fact
its own steps keep.

| Theorem | Says |
|---|---|
| `TypeCorrect`, `SetupsAreSerial`, `PasswordsAreKnown` | `TypeOK`, `SetupsOverlap` and `PasswordWasKnown` always hold |
| `PasswordsWork`, `LogoutsAreFinal`, `SessionsStay` | so do `AcknowledgedPasswordWorks`, `LogoutIsFinal` and `SessionsLast` |

That of `VaultToken` holds for every lease, grace, number of attempts, ceiling of the back-off and token lifetime, and
every number of keys, outages and restarts, from `LeaseAssumption` (a lease is longer than its grace),
`RetryAssumption` (there is an attempt and a back-off), `BoundAssumption` and, for `HoldsOut`, `OutageAssumption` (the
clock of an outage runs at least as long as the schedule). `TicketsVerify` is not inductive: it says nothing of a
process that is still starting, nor of a token when no process serves. `KeyInv` does: unless a start was blind, who
serves has the key that is in Vault, so has every token still good, and a process that is about to store a key found
none there, when no token was good.

`GivesUpLate` compares the longest outage with the last entry of `Slept`. `SleepInv` follows the schedule: in a first
outage, before attempt n, the outage is at least as old as `Slept[n].passed` less what is still to be waited, and it was
at least `Slept[n-1].passed` when the last attempt was made. That the entries are numbers, that the delays keep to the
limit and that the sums only grow are inductions over the attempts: `SetInduction` states the principle for sets, and
is proved from the well-foundedness of the natural numbers, as the library's own form takes an operator.

| Theorem | Says |
|---|---|
| `TokenTypes` | `VTTypeOK` always holds; the back-off keeps to its limit |
| `TicketsAreAccepted` | `TicketsVerify` always holds: a token outlives any number of restarts and outages |
| `HoldsOut` | `GivesUpLate` always holds: the watcher gives up only after an outage as long as its schedule, or a second one |

`NodeTelemetryProofs` holds for every number of pages and every two times to live of which one is shorter, from
`NobodyAssumption` and `TTLAssumption`:

    Inv == TypeOK /\ FlightInv /\ RowsInv /\ EntryInv /\ LateInv /\ AnswerInv

There is one flight, in the goroutine of its leader (`FlightInv`); one that met no trouble found what there is
(`RowsInv`); an entry is as old as its time has run down, and one that is not complete was put in trouble (`EntryInv`);
who is on his way to the services without knowing of good rows looked before them (`LateInv`).

| Theorem | Says |
|---|---|
| `TypeCorrect` | `TypeOK` always holds |
| `TroubleIsOver`, `Fresh` | answers have rows again after the short time and are complete after the long one; none is older than its time |
| `CacheSpares` | while good rows are cached, only who looked too early asks the services |

`ConfigFormProofs` holds for every set of settings, secrets and zones and every number of pages and saves, from
`DefaultAssumption`, `BlankAssumption` and `NothingAssumption`:

    Inv == /\ TypeOK /\ FormInv /\ PendingInv /\ KeysMatch /\ StageInv /\ StatusInv
           /\ DnsIsUsable /\ RecordIsThere

`StageInv` says how far the request is filled in at each step of a save, and what of it is already in Vault:
`SavedAsAsked` is its last line. `PendingInv` tells a first save from an edit, `FormInv` what halves of a pair a page
can hold, and `StatusInv` keeps a save and what the status says apart.

| Theorem | Says |
|---|---|
| `TypeCorrect`, `PairsStay` | `TypeOK` always holds: no token in Vault is blank; the halves of the pair in Vault belong together |
| `SavesAreFaithful` | a save leaves the form in Vault, and the secrets that were there where it was blank, whatever failed before |
| `PreflightsHold`, `RecordsAreThere` | `DnsIsUsable` and `RecordIsThere` always hold |

`ClusterSecretsProofs` holds for every number of requests of every kind, of certificates, failed deletes and restarts,
from the assumptions of `ClusterSecrets` (`MaxCerts` is at least one: a deploy issues one). Nothing in Vault is locked,
and most of its properties excuse requests that overlapped; the invariant therefore says what a request knows *that has
been alone so far*:

    IInv == /\ TypeOK /\ PathInv /\ MutexInv /\ AloneInv /\ BlankInv /\ SoloInv
            /\ DriftInv /\ AnswersInv /\ ServedInv /\ WholeInv /\ LeftoverInv

| Part | Why it is needed |
|---|---|
| `PathInv` | a step "put the next path" means something else for each kind; the lists are read within their length |
| `MutexInv` | two jobs exclude each other, and while one runs the cluster does not say `ready` |
| `AloneInv` | the history `alone` means what it says: beside a request that has it, nobody is under way, nor is a renewal |
| `SoloInv`, `BlankInv` | what such a request has merged is what is in Vault, what it has put is its own, what it has deleted is gone or counted as missed; a retrieval that is about to store has fetched from the VMs there are |
| `DriftInv`, `AnswersInv`, `ServedInv`, `WholeInv`, `LeftoverInv` | the properties, each together with the job that is about to make its premise true |

| Theorem | Says |
|---|---|
| `TypeCorrect`, `Inductive` | `TypeOK` and `IInv` always hold |
| `ReadyNotDrifted`, `ReadyHasAnswered`, `ServedStored` | of a cluster that says `ready`: its VMs are what the settings say, the kubeconfig opens it, the certificate that is looked at is the one that is served |
| `InitializedWhole` | five separate puts, and yet a cluster that says `initialized` has them all, from one request |
| `LeavesNothing` | what a forgotten or destroyed cluster can leave in Vault |
| `BlankKeepsSecrets` | which steps may change a secret (an action property) |

`ChartReposProofs` holds for every set of clusters, names, addresses and requests, all factory repositories and every
number of restarts, and whatever helm's search matches, from `RepoAssumption`, `RequestAssumption`, `MatchAssumption`
and `BoundAssumption`:

    IInv == /\ TypeOK /\ PhaseInv /\ BootInv /\ HostInv /\ RowsInv /\ FoundInv
            /\ SourceExplained /\ CatalogFresh

helm still knows what an operation has added and not used yet by the address it gave (`HostInv`), and the rows a catalog
listed are still those of its cluster (`RowsInv`), but for the names marked as crossed, or as those helm failed at: every step that changes a name
marks whoever relies on it, which is the argument of both. A catalog relies on a repository until every search that may
list it is done, so what it has searched shows the repositories of its listing where the listing has them, and under a
name outside the listing there is nothing (`FoundInv`); what it puts into the cache then is what is there. Boot writes rows without marking anyone, and may,
since nothing is at work and nothing cached (`BootInv`).

| Theorem | Says |
|---|---|
| `RepoTypes`, `RepoInvariant` | `TypeOK` and `IInv` always hold |
| `SourceIsExplained` | `SourceExplained` always holds |
| `CatalogIsFresh` | `CatalogFresh` always holds: of the cluster's own repositories a cached catalog lists what helm's search shows, at the rows' addresses, and nothing under a name it does not have; of other clusters' repositories it says nothing |

Only model-checked: the liveness properties (`RequestsEnd`, `LockReleased`, `ViewerSeesEnd`, `TokenComesBack`,
`PageRecovers`). They need fairness, and with it ENABLED, which is out of the prover's reach. Every invariant and action
property that a run checks is a theorem as well.

## 5. What is not modelled

| Left out | Why |
|---|---|
| Audit rows | nothing reads them back to decide anything; they would be a history variable |
| Validation of single fields, routing, rate limits, headers, CSRF | stateless; a refused request changes nothing |
| Command lines and parsing of helm, kubectl, terraform, ansible, nsupdate; the Proxmox probe; the scripts of the DNS providers | no state of their own; they are in the models by what they leave behind |
| `apps.Executor.Cancel` | no route calls it: a helm operation cannot be cancelled |
| A DELETE of a cluster under a running helm operation | the row goes by `ON DELETE CASCADE` and every later write of the operation touches nothing; planned with `AppOperations` |
| The hostname probe after an install | writes one flag that nothing else reads |
| An empty FQDN | `initialize.go:197` calls it optional, `executor.go:673` fails the deploy without it: such a cluster never becomes ready, and the model has only clusters with one |
| `TokenStatus`, the renewal audit rows | report only |
| SQLite | a statement is atomic |
| Migrations (`store/store.go:41`) | each runs with the row of its version in one transaction, before anything else does: there is no state between two of them that another actor could meet |
| `deploy/`, `terraform/`, `ansible/` | scripts that run once before the API, declarative content |
| `ui/` but for the log viewer, the polling of the nodes and the configuration form | views of what they fetch |

Observations on the way that no run checks: `PostDestroy` (`profiles/homelab/homelab.go:206`) says that it
zeroes the join token, but deletes the path `k3s`, which nothing writes, and leaves `join_token`; a renewal that
fails to push is recorded in the audit log as a success (`clusters/cert.go:241-246`); the changelog
(`CHANGELOG.md:107`) says that a failure of the last chart of a bundle leaves the others installed, while
`apps/bundle.go:253` rolls all of them back. `factoryDefaultRepos` (`apps/executor.go:499`) mirrors the seed
loop but for `longhorn` and `wikijs`; adding a repository whose name the cluster has already overwrites helm's
entry and then fails at the row (`apps/repos.go:110-133`); an entry that a search has labelled
with the wrong source keeps its repository in `Chart` (`apps/helm.go:196`), so that a chart of another cluster's
repository can be installed: no address is looked up for it, nothing is added, and helm takes it from the shared file; a factory repository that an operator removed comes
back at the next start, which `factory_repo_reconcile.go` documents. The page's schema (`ui/src/schemas/initialize.ts:7,11`)
requires the secrets of Proxmox although the page says that a blank one is kept; nothing checks that the two halves of
a key pair belong together (`initialize.go:169`), and `KeysMatch` assumes an operator whose halves do; a page that gets
any error for its GET shows `homelabDefaults` as if the cluster had never been configured.

## 6. Plan

Done, in this order: `ClusterLifecycle` with `SerialJobs` and the proofs, `AppOperations`, `LogStream`,
`ClusterSecrets`, `ChartRepos`, `VaultToken` with its proofs, the second cascade in `ClusterLifecycle`, `AuthSessions`
and `NodeTelemetry` with their proofs, the proofs about `AppOperations` and `LogStream`, `ConfigForm` with its proofs.
Then the proofs about `ClusterSecrets` and `ChartRepos`, and those of `CascadeForgets` and `GivesUpLate`.

What is left:

1. `AppOperations` with a DELETE of its cluster: the rows go, the operation ends on a cluster nobody lists.
2. An abstract specification of what a viewer of `LogStream` is promised, one sequence of events with gaps only where he
   was too slow, and that the hub, the channels and the page implement it.
3. The safety half of the liveness properties: for each, the bounded measure that a fair step lowers.
