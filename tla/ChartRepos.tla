------------------------------ MODULE ChartRepos -----------------------------
(***************************************************************************)
(* The helm repositories of the clusters and what is read from them: the   *)
(* rows of apps_repos (api/internal/apps/repos.go, store.go), the catalog  *)
(* with its cache (catalog.go), and the repository a chart is taken from   *)
(* (executor.go, bundle.go, deployments/executor.go).                      *)
(*                                                                         *)
(* A row belongs to a cluster.  helm keeps one repositories.yaml, and all  *)
(* clusters share it: HelmCLI.cmd sets KUBECONFIG for each cluster, and    *)
(* nothing else.  The cluster mutex orders two installs on one cluster;    *)
(* nothing orders what two clusters, or the handlers of the repos tab, do  *)
(* with that file.  One helm command is one step (it locks the file).      *)
(***************************************************************************)
EXTENDS Naturals, FiniteSets

CONSTANTS Clusters,     \* clusters (a fixed set: they share rows with nobody)
          Names,        \* names of repositories
          Urls,         \* their addresses
          NoUrl,        \* "no repository of that name"
          NoCatalog,    \* "nothing cached"
          Factory,      \* [Names -> Urls or NoUrl]: FactoryRepos
          Default,      \* [Names -> Urls or NoUrl]: factoryDefaultRepos
          Matches,      \* <<n, m, u>>: helm search repo n/ lists charts of a repository
                        \* m at u: m is n, or ends in n, or these charts mention "n/"
          Stored,       \* the rows that a process may find when it starts
          Ops,          \* requests (bound: how many arrive in a behaviour)
          Requests,     \* what a request may ask for
          MaxCrashes    \* bound: how often the API process is restarted

Address == Urls \cup {NoUrl}
Repos   == [Names -> Address]
Charts  == [Names -> Repos]
Kinds   == {"add", "remove", "catalog", "install", "deploy"}
Request == [kind : Kinds, cluster : Clusters, name : Names, url : Urls]

ASSUME RepoAssumption    == NoUrl \notin Urls /\ Factory \in Repos /\ Default \in Repos
ASSUME RequestAssumption == Requests \subseteq Request /\ Stored \subseteq [Clusters -> Repos]
ASSUME MatchAssumption   == /\ Matches \subseteq Names \X Names \X Urls
                            /\ \A n \in Names, u \in Urls : <<n, n, u>> \in Matches
ASSUME BoundAssumption   == MaxCrashes \in Nat

VARIABLES
    rows,       \* rows[c]: apps_repos of cluster c, by name
    host,       \* repositories.yaml of the container, by name
    cache,      \* cache[c]: the catalog of c: the charts listed under each name, by
                \* repository and address; "doubt" is a history variable (PutCatalog)
    boot,       \* main has not begun to listen yet
    req,        \* req[o]: what o asks for (never changes)
    pc,         \* pc[o]: the next helm, store or cache operation of o
    listed,     \* listed[o]: the repositories o looked up
    left,       \* left[o]: those it has still to add, or to read
    found,      \* found[o]: under each name it read, the repositories that
                \* answered and their addresses
    shaky,      \* shaky[o]: names at which a helm call of o failed (history variable)
    crossed,    \* crossed[o]: names changed by another request between a step of o
                \* and a later one that relied on it (history variable)
    crashes     \* restarts so far

work == <<listed, left, found, shaky>>
vars == <<rows, host, cache, boot, req, pc, listed, left, found, shaky, crossed, crashes>>
------------------------------------------------------------------------------
None        == [n \in Names |-> NoUrl]
Nothing     == [n \in Names |-> None]
Known(r)    == {n \in Names : r[n] # NoUrl}
Goto(o, l)  == pc' = [pc EXCEPT ![o] = l]
Is(o, k, l) == ~boot /\ req[o].kind = k /\ pc[o] = l

\* An install holds the mutex of its cluster until it is done.
Holds(o) == req[o].kind \in {"install", "deploy"} /\ pc[o] \in {"readd", "chart"}

\* What a search for n lists of the repository m at u.
Shown(n, m, u) == IF <<n, m, u>> \in Matches THEN u ELSE NoUrl
MayShow(n, m)  == \E u \in Urls : <<n, m, u>> \in Matches

\* What o relies on: repositories it has added and not read yet, and, for a
\* catalog, the rows it has listed and not put into the cache yet.
UsesHost(o, m) == \/ pc[o] = "readd" /\ m \in Known(listed[o]) \ left[o]
                  \/ pc[o] = "search" /\ \E n \in left[o] : MayShow(n, m)
                  \/ pc[o] = "chart" /\ m \in left[o]
UsesRows(o, c) == /\ req[o].kind = "catalog" /\ req[o].cluster = c
                  /\ pc[o] \in {"readd", "search"}

\* helm repo add --force-update and helm repo remove: the name now means u.
SetHost(o, n, u) ==
    /\ host' = [host EXCEPT ![n] = u]
    /\ crossed' = [p \in Ops |-> IF p # o /\ UsesHost(p, n) THEN crossed[p] \cup {n}
                                 ELSE crossed[p]]

SetRow(o, u) ==
    LET c == req[o].cluster  n == req[o].name IN
    /\ rows' = [rows EXCEPT ![c][n] = u]
    /\ crossed' = [p \in Ops |-> IF UsesRows(p, c) THEN crossed[p] \cup {n} ELSE crossed[p]]

Init ==
    /\ rows \in Stored
    /\ host = None
    /\ cache = [c \in Clusters |-> NoCatalog]
    /\ boot = TRUE
    /\ req \in [Ops -> Requests]
    /\ pc = [o \in Ops |-> "new"]
    /\ listed = [o \in Ops |-> None]
    /\ left = [o \in Ops |-> {}]
    /\ found = [o \in Ops |-> Nothing]
    /\ shaky = [o \in Ops |-> {}]
    /\ crossed = [o \in Ops |-> {}]
    /\ crashes = 0
------------------------------------------------------------------------------
(* Boot: every cluster gets the factory repositories it lacks, but for those *)
(* that the store does not take, and then the process serves.                *)

Missing(c) == {n \in Known(Factory) : rows[c][n] = NoUrl}

Reconcile(c, n) ==
    /\ boot
    /\ n \in Missing(c)
    /\ rows' = [rows EXCEPT ![c][n] = Factory[n]]
    /\ UNCHANGED <<host, cache, boot, req, pc, work, crossed, crashes>>

Serve ==
    /\ boot
    /\ boot' = FALSE
    /\ UNCHANGED <<rows, host, cache, req, pc, work, crossed, crashes>>
------------------------------------------------------------------------------
(* The repos tab.  helm comes first, then the row, then the cache.           *)

AddToHelm(o) ==
    /\ Is(o, "add", "new")
    /\ SetHost(o, req[o].name, req[o].url)
    /\ Goto(o, "row")
    /\ UNCHANGED <<rows, cache, boot, req, work, crashes>>

\* Invalid body, no kubeconfig, or helm failed: no row is written.
AddFails(o) ==
    /\ Is(o, "add", "new")
    /\ Goto(o, "done")
    /\ UNCHANGED <<rows, host, cache, boot, req, work, crossed, crashes>>

CreateRow(o) ==
    /\ Is(o, "add", "row")
    /\ rows[req[o].cluster][req[o].name] = NoUrl
    /\ SetRow(o, req[o].url)
    /\ Goto(o, "invalidate")
    /\ UNCHANGED <<host, cache, boot, req, work, crashes>>

\* The best effort at helm failed: the row goes all the same.
RemoveFromHelm(o) ==
    /\ Is(o, "remove", "new")
    /\ \/ SetHost(o, req[o].name, NoUrl)
       \/ UNCHANGED <<host, crossed>>
    /\ Goto(o, "row")
    /\ UNCHANGED <<rows, cache, boot, req, work, crashes>>

\* A removal that forgets the cache.
DeleteRowOnly(o) ==
    /\ Is(o, "remove", "row")
    /\ rows[req[o].cluster][req[o].name] # NoUrl
    /\ SetRow(o, NoUrl)
    /\ Goto(o, "done")
    /\ UNCHANGED <<host, cache, boot, req, work, crashes>>

DeleteRow(o) ==
    /\ Is(o, "remove", "row")
    /\ rows[req[o].cluster][req[o].name] # NoUrl
    /\ SetRow(o, NoUrl)
    /\ Goto(o, "invalidate")
    /\ UNCHANGED <<host, cache, boot, req, work, crashes>>

\* The name is taken, or not there, or the client has gone: helm keeps what it
\* was told before.  A catalog that cannot list the rows is not made.
RowFails(o) ==
    /\ Is(o, "add", "row") \/ Is(o, "remove", "row") \/ Is(o, "catalog", "list")
    /\ Goto(o, "done")
    /\ UNCHANGED <<rows, host, cache, boot, req, work, crossed, crashes>>

Invalidate(o) ==
    /\ Is(o, "add", "invalidate") \/ Is(o, "remove", "invalidate")
    /\ cache' = [cache EXCEPT ![req[o].cluster] = NoCatalog]
    /\ Goto(o, "done")
    /\ UNCHANGED <<rows, host, boot, req, work, crossed, crashes>>
------------------------------------------------------------------------------
(* Adding repositories again: the catalog all those of its cluster, before   *)
(* it searches any; an install the one its chart comes from.                 *)

\* o goes to work on the repositories r.
Take(o, r) ==
    /\ listed' = [listed EXCEPT ![o] = r]
    /\ left' = [left EXCEPT ![o] = Known(r)]
    /\ Goto(o, "readd")

\* helm repo add without --force-update: a known name keeps its address.
ReAddUnforced(o, n) ==
    /\ ~boot /\ pc[o] = "readd"
    /\ n \in left[o]
    /\ left' = [left EXCEPT ![o] = @ \ {n}]
    /\ SetHost(o, n, IF host[n] = NoUrl THEN listed[o][n] ELSE host[n])
    /\ UNCHANGED <<rows, cache, boot, req, pc, listed, found, shaky, crashes>>

ReAdd(o, n) ==
    /\ ~boot /\ pc[o] = "readd"
    /\ n \in left[o]
    /\ left' = [left EXCEPT ![o] = @ \ {n}]
    /\ SetHost(o, n, listed[o][n])
    /\ UNCHANGED <<rows, cache, boot, req, pc, listed, found, shaky, crashes>>

\* A warning, except for the ingress controller of a deploy.
ReAddFails(o, n) ==
    /\ ~boot /\ pc[o] = "readd"
    /\ n \in left[o]
    /\ left' = [left EXCEPT ![o] = @ \ {n}]
    /\ shaky' = [shaky EXCEPT ![o] = @ \cup {n}]
    /\ IF req[o].kind = "deploy" THEN Goto(o, "done") ELSE UNCHANGED pc
    /\ UNCHANGED <<rows, host, cache, boot, req, listed, found, crossed, crashes>>

\* A catalog that searches every repository helm knows.
AddedAll(o) ==
    /\ ~boot /\ pc[o] = "readd"
    /\ left[o] = {}
    /\ IF req[o].kind = "catalog"
       THEN Goto(o, "search") /\ left' = [left EXCEPT ![o] = Known(host)]
       ELSE Goto(o, "chart") /\ left' = [left EXCEPT ![o] = {req[o].name}]
    /\ UNCHANGED <<rows, host, cache, boot, req, listed, found, shaky, crossed, crashes>>

\* All added: now the catalog searches each of them, and helm installs.
Added(o) ==
    /\ ~boot /\ pc[o] = "readd"
    /\ left[o] = {}
    /\ IF req[o].kind = "catalog"
       THEN Goto(o, "search") /\ left' = [left EXCEPT ![o] = Known(listed[o])]
       ELSE Goto(o, "chart") /\ left' = [left EXCEPT ![o] = {req[o].name}]
    /\ UNCHANGED <<rows, host, cache, boot, req, listed, found, shaky, crossed, crashes>>
------------------------------------------------------------------------------
(* The catalog.  Without a kubeconfig it is the curated list, and neither    *)
(* helm nor the cache is asked.                                              *)

LookAtCache(o) ==
    /\ Is(o, "catalog", "new")
    /\ Goto(o, IF cache[req[o].cluster] = NoCatalog THEN "list" ELSE "done")
    /\ UNCHANGED <<rows, host, cache, boot, req, work, crossed, crashes>>

ListRepos(o) ==
    /\ Is(o, "catalog", "list")
    /\ Take(o, rows[req[o].cluster])
    /\ UNCHANGED <<rows, host, cache, boot, req, found, shaky, crossed, crashes>>

\* The searches run side by side.  helm looks for "n/" in all it knows, and
\* SearchRepo says of each chart it is shown that it comes from n.
Search(o, n) ==
    /\ ~boot /\ pc[o] = "search"
    /\ n \in left[o]
    /\ left' = [left EXCEPT ![o] = @ \ {n}]
    /\ found' = [found EXCEPT ![o][n] = [m \in Names |-> Shown(n, m, host[m])]]
    /\ UNCHANGED <<rows, host, cache, boot, req, pc, listed, shaky, crossed, crashes>>

\* A search that fails, also because the client has gone, is left out of the
\* catalog, and what is left of the catalog is cached like a whole one.
SearchFails(o, n) ==
    /\ ~boot /\ pc[o] = "search"
    /\ n \in left[o]
    /\ left' = [left EXCEPT ![o] = @ \ {n}]
    /\ shaky' = [shaky EXCEPT ![o] = @ \cup {n}]
    /\ UNCHANGED <<rows, host, cache, boot, req, pc, listed, found, crossed, crashes>>

PutCatalog(o) ==
    /\ ~boot /\ pc[o] = "search"
    /\ left[o] = {}
    /\ cache' = [cache EXCEPT ![req[o].cluster] =
                    [charts |-> found[o], doubt |-> shaky[o] \cup crossed[o]]]
    /\ Goto(o, "done")
    /\ UNCHANGED <<rows, host, boot, req, work, crossed, crashes>>

Expire(c) ==
    /\ ~boot
    /\ cache[c] # NoCatalog
    /\ cache' = [cache EXCEPT ![c] = NoCatalog]
    /\ UNCHANGED <<rows, host, boot, req, pc, work, crossed, crashes>>
------------------------------------------------------------------------------
(* A chart.                                                                  *)

Only(n, u) == [m \in Names |-> IF m = n THEN u ELSE NoUrl]

\* The row of the cluster, and the built-in address when there is none or when
\* it cannot be read.  A deploy always takes the built-in one.
LookUp(o) ==
    LET n == req[o].name
        row == rows[req[o].cluster][n]
    IN
    /\ Is(o, "install", "new") \/ Is(o, "deploy", "new")
    /\ \A p \in Ops : Holds(p) => req[p].cluster # req[o].cluster
    /\ \/ /\ req[o].kind = "install" /\ row # NoUrl
          /\ Take(o, Only(n, row))
       \/ Take(o, Only(n, Default[n]))
    /\ UNCHANGED <<rows, host, cache, boot, req, found, shaky, crossed, crashes>>

\* The mutex is taken.
Busy(o) ==
    /\ Is(o, "install", "new") \/ Is(o, "deploy", "new")
    /\ \E p \in Ops : Holds(p) /\ req[p].cluster = req[o].cluster
    /\ Goto(o, "done")
    /\ UNCHANGED <<rows, host, cache, boot, req, work, crossed, crashes>>

\* helm takes the chart from wherever the name leads it now.
TakeChart(o) ==
    LET n == req[o].name IN
    /\ ~boot /\ pc[o] = "chart"
    /\ host[n] # NoUrl
    /\ found' = [found EXCEPT ![o][n] = Only(n, host[n])]
    /\ left' = [left EXCEPT ![o] = {}]
    /\ Goto(o, "done")
    /\ UNCHANGED <<rows, host, cache, boot, req, listed, shaky, crossed, crashes>>

ChartFails(o) ==
    /\ ~boot /\ pc[o] = "chart"
    /\ left' = [left EXCEPT ![o] = {}]
    /\ Goto(o, "done")
    /\ UNCHANGED <<rows, host, cache, boot, req, listed, found, shaky, crossed, crashes>>
------------------------------------------------------------------------------
\* A restart: requests and cache are gone.  A container that is started again
\* has its repositories.yaml, one that is created anew has none.
Crash ==
    /\ crashes < MaxCrashes
    /\ crashes' = crashes + 1
    /\ boot' = TRUE
    /\ pc' = [o \in Ops |-> IF pc[o] \in {"new", "done"} THEN pc[o] ELSE "killed"]
    /\ left' = [o \in Ops |-> {}]
    /\ cache' = [c \in Clusters |-> NoCatalog]
    /\ host' \in {host, None}
    /\ UNCHANGED <<rows, req, listed, found, shaky, crossed>>

Next ==
    \/ \E o \in Ops :
         \/ AddToHelm(o) \/ AddFails(o) \/ CreateRow(o) \/ RemoveFromHelm(o)
         \/ DeleteRow(o) \/ RowFails(o) \/ Invalidate(o) \/ Added(o)
         \/ LookAtCache(o) \/ ListRepos(o) \/ PutCatalog(o)
         \/ LookUp(o) \/ Busy(o) \/ TakeChart(o) \/ ChartFails(o)
         \/ \E n \in Names : ReAdd(o, n) \/ ReAddFails(o, n) \/ Search(o, n) \/ SearchFails(o, n)
    \/ \E c \in Clusters : Expire(c) \/ \E n \in Names : Reconcile(c, n)
    \/ Serve
    \/ Crash

Spec == Init /\ [][Next]_vars
------------------------------------------------------------------------------
(* Properties.                                                               *)

Catalog == [charts : Charts, doubt : SUBSET Names]

\* Types; and a request works only on names it has looked up: a catalog searches
\* the repositories it listed, an install has one chart.
TypeOK ==
    /\ rows \in [Clusters -> Repos]
    /\ host \in Repos
    /\ cache \in [Clusters -> Catalog \cup {NoCatalog}]
    /\ boot \in BOOLEAN
    /\ req \in [Ops -> Requests]
    /\ pc \in [Ops -> {"new", "row", "invalidate", "list", "readd", "search", "chart",
                       "done", "killed"}]
    /\ listed \in [Ops -> Repos]
    /\ found \in [Ops -> Charts]
    /\ shaky \in [Ops -> SUBSET Names]
    /\ crossed \in [Ops -> SUBSET Names]
    /\ crashes \in 0..MaxCrashes
    /\ \A o \in Ops : left[o] \subseteq Known(listed[o]) \cup
                         (IF pc[o] = "chart" THEN {req[o].name} ELSE {})

\* A chart comes from the repository its operation looked up (the cluster's own,
\* or the built-in one), whatever repositories.yaml said before
\* (executor.go:330-340, bundle.go:197-206).  The exceptions are a helm repo add
\* that failed, which is only logged, and another request, of this or of another
\* cluster, that gave the name another meaning between the add and the install.
SourceExplained ==
    \A o \in Ops :
        LET n == req[o].name IN
        /\ req[o].kind \in {"install", "deploy"}
        /\ listed[o][n] # NoUrl /\ found[o][n][n] # NoUrl
        /\ n \notin shaky[o] \cup crossed[o]
        => found[o][n][n] = listed[o][n]

\* Between two steps of a request of the repos tab that has changed a row and not
\* yet dropped the catalog.
ToInvalidate(c) == \E o \in Ops : req[o].cluster = c /\ pc[o] = "invalidate"

\* A cached catalog has, until it expires, nothing under a name that the cluster
\* does not have, and under one it has the charts of that repository and what
\* helm's search shows of the cluster's other ones, each at its row's address:
\* adding and removing a repository drop it (repos.go:135-137, 214-216).  Nothing
\* is said of other repositories: those of other clusters are in the same file,
\* and are listed under n when helm finds "n/" in them (helm.go:62-71).  The
\* exceptions are the names at which helm failed while the catalog was made, and
\* those that another request changed meanwhile.
CatalogFresh ==
    \A c \in Clusters : cache[c] # NoCatalog /\ ~ToInvalidate(c) =>
        LET sure   == Names \ cache[c].doubt
            charts == cache[c].charts
        IN  \A n \in sure :
                /\ rows[c][n] = NoUrl => charts[n] = None
                /\ rows[c][n] # NoUrl =>
                     \A m \in Known(rows[c]) \cap sure : charts[n][m] = Shown(n, m, rows[c][m])

\* What the comment says at executor.go:330-333: each helm invocation runs with
\* no repo cache, and so a chart comes from the repository that was just added.
OwnSource ==
    \A o \in Ops :
        LET n == req[o].name IN
        /\ req[o].kind \in {"install", "deploy"} /\ n \notin shaky[o]
        /\ listed[o][n] # NoUrl /\ found[o][n][n] # NoUrl
        => found[o][n][n] = listed[o][n]
==============================================================================
