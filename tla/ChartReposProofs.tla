-------------------------- MODULE ChartReposProofs ---------------------------
(* The cached catalog and the source of a chart, for any clusters, names,    *)
(* addresses and requests.                                                   *)
EXTENDS ChartRepos, TLAPS

\* Which operations work on which rows, and when nothing is read yet.
PhaseInv ==
    /\ left \in [Ops -> SUBSET Names]
    /\ \A o \in Ops :
         /\ pc[o] \in {"row", "invalidate"} => req[o].kind \in {"add", "remove"}
         /\ pc[o] \in {"list", "search"} => req[o].kind = "catalog"
         /\ pc[o] = "readd" => req[o].kind \in {"catalog", "install", "deploy"}
         /\ pc[o] = "chart" => req[o].kind \in {"install", "deploy"} /\ left[o] = {req[o].name}
         /\ pc[o] \in {"new", "list", "readd"} => found[o] = Nothing

\* While the process starts nothing is at work, and nothing is cached.
BootInv ==
    boot => /\ \A o \in Ops : pc[o] \in {"new", "done", "killed"}
            /\ \A c \in Clusters : cache[c] = NoCatalog

\* helm still knows a repository that an operation has added, and not used yet,
\* by the address the operation gave it.
HostInv ==
    \A o \in Ops, n \in Names :
        UsesHost(o, n) /\ listed[o][n] # NoUrl /\ n \notin shaky[o] \cup crossed[o]
        => host[n] = listed[o][n]

\* What a catalog has listed still is what the cluster has.
RowsInv ==
    \A o \in Ops, c \in Clusters :
        UsesRows(o, c) => \A n \in Names \ crossed[o] : listed[o][n] = rows[c][n]

\* What a catalog has searched shows the repositories of its listing where the
\* listing has them; and it has searched nothing else.
FoundInv ==
    \A o \in Ops : pc[o] = "search" =>
        \A n \in Names \ (left[o] \cup shaky[o] \cup crossed[o]) :
            /\ listed[o][n] = NoUrl => found[o][n] = None
            /\ listed[o][n] # NoUrl =>
                 \A m \in Known(listed[o]) \ (shaky[o] \cup crossed[o]) :
                     found[o][n][m] = Shown(n, m, listed[o][m])

IInv == /\ TypeOK /\ PhaseInv /\ BootInv /\ HostInv /\ RowsInv /\ FoundInv
        /\ SourceExplained /\ CatalogFresh
------------------------------------------------------------------------------
(* Types, and what the phase of an operation says of it.                     *)

Phases == {"new", "row", "invalidate", "list", "readd", "search", "chart", "done", "killed"}

\* The types, variable by variable.
Typed ==
    /\ rows \in [Clusters -> Repos]
    /\ host \in Repos
    /\ cache \in [Clusters -> Catalog \cup {NoCatalog}]
    /\ boot \in BOOLEAN
    /\ req \in [Ops -> Requests]
    /\ pc \in [Ops -> Phases]
    /\ listed \in [Ops -> Repos]
    /\ left \in [Ops -> SUBSET Names]
    /\ found \in [Ops -> Charts]
    /\ shaky \in [Ops -> SUBSET Names]
    /\ crossed \in [Ops -> SUBSET Names]
    /\ crashes \in 0..MaxCrashes

\* An operation works on names it has looked up.
LeftInv == \A o \in Ops : left[o] \subseteq Known(listed[o]) \cup
                             (IF pc[o] = "chart" THEN {req[o].name} ELSE {})

LEMMA Unfold == TypeOK /\ PhaseInv <=> Typed /\ LeftInv /\ PhaseInv
  BY DEF TypeOK, PhaseInv, Typed, LeftInv, Phases

LEMMA Asked ==
  ASSUME Typed, NEW o \in Ops
  PROVE  /\ req[o] \in Requests /\ req[o].kind \in Kinds /\ req[o].cluster \in Clusters
         /\ req[o].name \in Names /\ req[o].url \in Urls
  BY RequestAssumption DEF Typed, Request

LEMMA NoneIsRepos ==
  /\ None \in Repos /\ Nothing \in Charts
  /\ \A n \in Names : None[n] = NoUrl /\ Nothing[n] = None
  BY DEF None, Nothing, Charts, Repos, Address

LEMMA ShownTyped ==
  ASSUME NEW n \in Names, NEW r \in Repos
  PROVE  [m \in Names |-> Shown(n, m, r[m])] \in Repos
  BY DEF Shown, Repos, Address

LEMMA OnlyTyped ==
  ASSUME NEW n \in Names, NEW u \in Address
  PROVE  Only(n, u) \in Repos /\ Only(n, u)[n] = u
  BY DEF Only, Repos, Address

\* helm learns an address or forgets one.
LEMMA HostTyped ==
  ASSUME Typed, NEW o \in Ops, NEW n \in Names, NEW u \in Address, SetHost(o, n, u)
  PROVE  host' \in Repos /\ crossed' \in [Ops -> SUBSET Names]
  BY DEF Typed, SetHost, Repos

LEMMA RowTyped ==
  ASSUME Typed, NEW o \in Ops, NEW u \in Address, SetRow(o, u)
  PROVE  rows' \in [Clusters -> Repos] /\ crossed' \in [Ops -> SUBSET Names]
  BY Asked DEF Typed, SetRow, Repos

\* One more name read.
LEMMA FoundTyped ==
  ASSUME Typed, NEW o \in Ops, NEW n \in Names, NEW r \in Repos,
         found' = [found EXCEPT ![o][n] = r]
  PROVE  found' \in [Ops -> Charts]
<1>1. found \in [Ops -> Charts]
  BY DEF Typed
<1>2. [found[o] EXCEPT ![n] = r] \in Charts
  BY <1>1 DEF Charts
<1> QED
  BY <1>1, <1>2 DEF Charts

LEMMA TypedInit == Init => Typed /\ LeftInv /\ PhaseInv
  BY RequestAssumption, BoundAssumption, NoneIsRepos
     DEF Init, Typed, LeftInv, PhaseInv, Known, Phases

LEMMA TypedStep ==
  ASSUME Typed, LeftInv, PhaseInv, [Next]_vars
  PROVE  Typed'
<1> USE DEF Typed, Phases, work
<1>1. CASE UNCHANGED vars
  BY <1>1 DEF vars
<1>2. CASE \E c \in Clusters, n \in Names : Reconcile(c, n)
  <2>1. PICK c \in Clusters, n \in Names : Reconcile(c, n)
    BY <1>2
  <2>2. rows' \in [Clusters -> Repos]
    BY <2>1, RepoAssumption DEF Reconcile, Repos, Address
  <2> QED
    BY <2>1, <2>2 DEF Reconcile
<1>3. CASE Serve
  BY <1>3 DEF Serve
<1>4. CASE Crash
  BY <1>4, NoneIsRepos, BoundAssumption DEF Crash
<1>5. CASE \E c \in Clusters : Expire(c)
  BY <1>5 DEF Expire
<1>6. ASSUME NEW o \in Ops, AddToHelm(o) \/ RemoveFromHelm(o) PROVE Typed'
  <2>1. req[o].name \in Names /\ req[o].url \in Address /\ NoUrl \in Address
    BY Asked DEF Address
  <2>2. host' \in Repos /\ crossed' \in [Ops -> SUBSET Names]
    BY <1>6, <2>1, HostTyped DEF AddToHelm, RemoveFromHelm
  <2> QED
    BY <1>6, <2>2 DEF AddToHelm, RemoveFromHelm, Goto
<1>7. ASSUME NEW o \in Ops, CreateRow(o) \/ DeleteRow(o) PROVE Typed'
  <2>1. req[o].url \in Address /\ NoUrl \in Address
    BY Asked DEF Address
  <2>2. rows' \in [Clusters -> Repos] /\ crossed' \in [Ops -> SUBSET Names]
    BY <1>7, <2>1, RowTyped DEF CreateRow, DeleteRow
  <2> QED
    BY <1>7, <2>2 DEF CreateRow, DeleteRow, Goto
<1>8. ASSUME NEW o \in Ops, AddFails(o) \/ RowFails(o) \/ Busy(o) \/ LookAtCache(o) PROVE Typed'
  BY <1>8 DEF AddFails, RowFails, Busy, LookAtCache, Goto
<1>9. ASSUME NEW o \in Ops, Invalidate(o) PROVE Typed'
  BY <1>9, Asked DEF Invalidate, Goto
<1>10. ASSUME NEW o \in Ops, Added(o) PROVE Typed'
  <2>1. left' \in [Ops -> SUBSET Names]
    BY <1>10, Asked DEF Added, Known
  <2> QED
    BY <1>10, <2>1 DEF Added, Goto
<1>11. ASSUME NEW o \in Ops, NEW r \in Repos, Take(o, r) PROVE listed' \in [Ops -> Repos] /\ left' \in [Ops -> SUBSET Names] /\ pc' \in [Ops -> Phases]
  BY <1>11 DEF Take, Goto, Known
<1>12. ASSUME NEW o \in Ops, ListRepos(o) PROVE Typed'
  <2>1. rows[req[o].cluster] \in Repos
    BY Asked
  <2> QED
    BY <1>11, <1>12, <2>1 DEF ListRepos
<1>13. ASSUME NEW o \in Ops, LookUp(o) PROVE Typed'
  <2>1. \A n \in Names, u \in Address : Only(n, u) \in Repos
    BY DEF Only, Repos, Address
  <2>2. req[o].name \in Names /\ rows[req[o].cluster][req[o].name] \in Address /\ Default[req[o].name] \in Address
    BY Asked, RepoAssumption DEF Repos
  <2>3. PICK r \in Repos : Take(o, r)
    BY <1>13, <2>1, <2>2 DEF LookUp
  <2> QED
    BY <1>11, <1>13, <2>3 DEF LookUp
<1>14. ASSUME NEW o \in Ops, PutCatalog(o) PROVE Typed'
  <2>1. [charts |-> found[o], doubt |-> shaky[o] \cup crossed[o]] \in Catalog
    BY DEF Catalog
  <2> QED
    BY <1>14, <2>1, Asked DEF PutCatalog, Goto
<1>15. ASSUME NEW o \in Ops, TakeChart(o) \/ ChartFails(o) PROVE Typed'
  <2>1. req[o].name \in Names
    BY Asked
  <2>2. found' \in [Ops -> Charts]
    <3>1. PICK k \in Names : k = req[o].name
      BY <2>1
    <3>2. Only(k, host[k]) \in Repos
      BY OnlyTyped DEF Repos
    <3>3. PICK r \in Repos : found' = found \/ found' = [found EXCEPT ![o][k] = r]
      BY <1>15, <3>1, <3>2 DEF TakeChart, ChartFails
    <3> QED
      BY <3>3, FoundTyped
  <2> QED
    BY <1>15, <2>2 DEF TakeChart, ChartFails, Goto
<1>16. ASSUME NEW o \in Ops, NEW n \in Names, ReAdd(o, n) PROVE Typed'
  <2>1. listed[o][n] \in Address
    BY DEF Repos
  <2>2. host' \in Repos /\ crossed' \in [Ops -> SUBSET Names]
    BY <1>16, <2>1, HostTyped DEF ReAdd
  <2> QED
    BY <1>16, <2>2 DEF ReAdd
<1>17. ASSUME NEW o \in Ops, NEW n \in Names, ReAddFails(o, n) PROVE Typed'
  BY <1>17 DEF ReAddFails, Goto
<1>18. ASSUME NEW o \in Ops, NEW n \in Names, Search(o, n) \/ SearchFails(o, n) PROVE Typed'
  <2>1. found' \in [Ops -> Charts]
    <3>1. [m \in Names |-> Shown(n, m, host[m])] \in Repos
      BY ShownTyped
    <3>2. PICK r \in Repos : found' = found \/ found' = [found EXCEPT ![o][n] = r]
      BY <1>18, <3>1 DEF Search, SearchFails
    <3> QED
      BY <3>2, FoundTyped
  <2> QED
    BY <1>18, <2>1 DEF Search, SearchFails
<1> QED
  BY <1>1, <1>2, <1>3, <1>4, <1>5, <1>6, <1>7, <1>8, <1>9, <1>10, <1>12, <1>13, <1>14, <1>15,
     <1>16, <1>17, <1>18 DEF Next
\* A request of the repos tab, a failure, or a whole catalog.
Plain(o) == \/ AddToHelm(o) \/ AddFails(o) \/ CreateRow(o) \/ RemoveFromHelm(o) \/ DeleteRow(o)
            \/ RowFails(o) \/ Invalidate(o) \/ LookAtCache(o) \/ PutCatalog(o) \/ Busy(o)

LEMMA PlainPhases ==
  ASSUME Typed, PhaseInv, NEW o \in Ops, Plain(o)
  PROVE  /\ UNCHANGED <<req, work>>
         /\ \E l \in Phases : pc' = [pc EXCEPT ![o] = l]
         /\ pc[o] # "chart" /\ pc[o] # "readd" /\ pc'[o] \notin {"chart", "readd", "search", "new"}
         /\ pc'[o] \in {"row", "invalidate"} => req[o].kind \in {"add", "remove"}
         /\ pc'[o] = "list" => req[o].kind = "catalog" /\ found[o] = Nothing
  BY DEF Plain, Typed, PhaseInv, Phases, Is, Goto, work, AddToHelm, AddFails, CreateRow, RemoveFromHelm, DeleteRow,
         RowFails, Invalidate, LookAtCache, PutCatalog, Busy

LEMMA TakePhases ==
  ASSUME Typed, PhaseInv, NEW o \in Ops, ListRepos(o) \/ LookUp(o)
  PROVE  /\ pc[o] \in {"new", "list"} /\ UNCHANGED <<rows, host, cache, boot, req, found, shaky, crossed, crashes>>
         /\ req[o].kind \in {"catalog", "install", "deploy"}
         /\ req[o].kind = "catalog" => listed'[o] = rows[req[o].cluster]
         /\ \E r \in Repos : Take(o, r)
<1>1. rows[req[o].cluster] \in Repos /\ req[o].name \in Names
  BY Asked DEF Typed
<1>2. \A n \in Names, u \in Address : Only(n, u) \in Repos
  BY DEF Only, Repos, Address
<1>3. rows[req[o].cluster][req[o].name] \in Address /\ Default[req[o].name] \in Address
  BY <1>1, RepoAssumption DEF Repos
<1>4. \E r \in Repos : Take(o, r)
  BY <1>1, <1>2, <1>3 DEF ListRepos, LookUp
<1> QED
  BY <1>4 DEF ListRepos, LookUp, Typed, Is, Take

LEMMA PhaseStep ==
  ASSUME Typed, LeftInv, PhaseInv, [Next]_vars
  PROVE  LeftInv' /\ PhaseInv'
<1> SUFFICES LeftInv' /\ (\A q \in Ops : /\ pc'[q] \in {"row", "invalidate"} => req'[q].kind \in {"add", "remove"}
                                         /\ pc'[q] \in {"list", "search"} => req'[q].kind = "catalog"
                                         /\ pc'[q] = "readd" => req'[q].kind \in {"catalog", "install", "deploy"}
                                         /\ pc'[q] = "chart" =>
                                                req'[q].kind \in {"install", "deploy"} /\ left'[q] = {req'[q].name}
                                         /\ pc'[q] \in {"new", "list", "readd"} => found'[q] = Nothing)
  <2>1. left' \in [Ops -> SUBSET Names]
    BY TypedStep DEF Typed
  <2>2. Nothing' = Nothing
    BY DEF Nothing, None
  <2> QED
    BY <2>1, <2>2 DEF PhaseInv
<1> USE DEF PhaseInv, LeftInv, work
<1>1. CASE UNCHANGED vars
  BY <1>1 DEF vars, Known
<1>2. CASE Serve \/ \E c \in Clusters : Expire(c) \/ \E n \in Names : Reconcile(c, n)
  BY <1>2 DEF Serve, Expire, Reconcile, Known
<1>3. CASE Crash
  BY <1>3 DEF Crash, Typed
<1>4. ASSUME NEW o \in Ops, Plain(o)
      PROVE  LeftInv' /\ PhaseInv'
  BY <1>4, PlainPhases DEF Typed, Known, Nothing, None
<1>5. ASSUME NEW o \in Ops, ListRepos(o) \/ LookUp(o)
      PROVE  LeftInv' /\ PhaseInv'
  <2>1. PICK r \in Repos : Take(o, r)
    BY <1>5, TakePhases
  <2>2. /\ pc' = [pc EXCEPT ![o] = "readd"] /\ listed' = [listed EXCEPT ![o] = r]
        /\ left' = [left EXCEPT ![o] = Known(r)]
    BY <2>1 DEF Take, Goto
  <2>3. left' \in [Ops -> SUBSET Names]
    BY <2>2 DEF Known
  <2> QED
    BY <1>5, <2>2, <2>3, TakePhases DEF Typed, Known, Nothing, None
<1>6. ASSUME NEW o \in Ops, Added(o)
      PROVE  LeftInv' /\ PhaseInv'
  <2>1. req[o].name \in Names
    BY Asked
  <2>2. CASE req[o].kind = "catalog"
    BY <1>6, <2>2 DEF Added, Goto, Typed, Known, Nothing, None
  <2>3. CASE req[o].kind # "catalog"
    <3>1. /\ pc' = [pc EXCEPT ![o] = "chart"] /\ left' = [left EXCEPT ![o] = {req[o].name}]
          /\ UNCHANGED <<req, listed, found>> /\ pc[o] = "readd"
      BY <1>6, <2>3 DEF Added, Goto
    <3>2. req[o].kind \in {"install", "deploy"}
      BY <2>3, <3>1
    <3> QED
      BY <2>1, <3>1, <3>2 DEF Typed, Known, Nothing, None
  <2> QED
    BY <2>2, <2>3
<1>7. ASSUME NEW o \in Ops, TakeChart(o) \/ ChartFails(o)
      PROVE  LeftInv' /\ PhaseInv'
  <2>1. /\ left' = [left EXCEPT ![o] = {}] /\ UNCHANGED <<req, listed>> /\ pc[o] = "chart"
        /\ pc' = [pc EXCEPT ![o] = "done"]
        /\ \A q \in Ops \ {o} : found'[q] = found[q]
    BY <1>7 DEF TakeChart, ChartFails, Goto, Typed
  <2> QED
    BY <2>1 DEF Typed, Known, Nothing, None
<1>8. ASSUME NEW o \in Ops, NEW n \in Names, ReAdd(o, n) \/ ReAddFails(o, n)
      PROVE  LeftInv' /\ PhaseInv'
  <2>1. /\ left' = [left EXCEPT ![o] = @ \ {n}] /\ UNCHANGED <<req, listed, found>> /\ pc[o] = "readd"
        /\ pc' = pc \/ pc' = [pc EXCEPT ![o] = "done"]
    BY <1>8 DEF ReAdd, ReAddFails, Goto
  <2> QED
    BY <2>1 DEF Typed, Known, Nothing, None
<1>9. ASSUME NEW o \in Ops, NEW n \in Names, Search(o, n) \/ SearchFails(o, n)
      PROVE  LeftInv' /\ PhaseInv'
  <2>1. /\ left' = [left EXCEPT ![o] = @ \ {n}] /\ UNCHANGED <<req, listed, pc>> /\ pc[o] = "search"
        /\ \A q \in Ops \ {o} : found'[q] = found[q]
    BY <1>9 DEF Search, SearchFails, Typed
  <2> QED
    BY <2>1 DEF Typed, Known, Nothing, None
<1> QED
  BY <1>1, <1>2, <1>3, <1>4, <1>5, <1>6, <1>7, <1>8, <1>9 DEF Next, Plain
------------------------------------------------------------------------------
(* What an operation relies on.                                              *)

LEMMA BootStep == Typed /\ PhaseInv /\ BootInv /\ [Next]_vars => BootInv'
<1> SUFFICES ASSUME Typed, PhaseInv, BootInv, [Next]_vars PROVE BootInv'
  OBVIOUS
<1> USE DEF BootInv
<1>1. CASE UNCHANGED vars
  BY <1>1 DEF vars
<1>2. CASE Serve \/ Crash
  BY <1>2 DEF Serve, Crash, Typed, Phases
<1>3. CASE \E c \in Clusters, n \in Names : Reconcile(c, n)
  BY <1>3 DEF Reconcile
\* Everything else waits until the process serves.
<1>4. CASE ~boot /\ UNCHANGED boot
  BY <1>4
<1> QED
  BY <1>1, <1>2, <1>3, <1>4
     DEF Next, Is, AddToHelm, AddFails, CreateRow, RemoveFromHelm, DeleteRow, RowFails, Invalidate,
         Added, LookAtCache, ListRepos, PutCatalog, LookUp, Busy, TakeChart, ChartFails, ReAdd,
         ReAddFails, Search, SearchFails, Expire

\* A name that changes under an operation that uses it is marked.
LEMMA Crosses ==
  ASSUME Typed, HostInv, NEW o \in Ops, NEW n \in Names, NEW u, SetHost(o, n, u),
         NEW q \in Ops \ {o}, NEW m \in Names,
         UsesHost(q, m), listed[q][m] # NoUrl, m \notin shaky[q] \cup crossed'[q]
  PROVE  host'[m] = listed[q][m]
<1>1. host' = [host EXCEPT ![n] = u]
  BY DEF SetHost
<1>2. crossed'[q] = IF UsesHost(q, n) THEN crossed[q] \cup {n} ELSE crossed[q]
  BY DEF SetHost
<1>3. m # n /\ m \notin crossed[q]
  BY <1>2
<1> QED
  BY <1>1, <1>3 DEF HostInv, Typed, Repos

LEMMA HostStep ==
  ASSUME Typed, LeftInv, PhaseInv, HostInv, [Next]_vars
  PROVE  HostInv'
<1> SUFFICES ASSUME NEW q \in Ops, NEW m \in Names, UsesHost(q, m)', listed'[q][m] # NoUrl,
                    m \notin shaky'[q] \cup crossed'[q]
             PROVE  host'[m] = listed'[q][m]
  BY DEF HostInv
<1> USE DEF UsesHost, Known
<1>1. CASE UNCHANGED vars
  BY <1>1 DEF vars, HostInv, work
<1>2. CASE Serve \/ \E c \in Clusters : Expire(c) \/ \E n \in Names : Reconcile(c, n)
  BY <1>2 DEF Serve, Expire, Reconcile, HostInv, work
\* Nothing survives the process.
<1>3. CASE Crash
  BY <1>3 DEF Crash, Typed, Phases
\* An operation of the repos tab relies on nothing, but may disturb others.
<1>4. ASSUME NEW o \in Ops, Plain(o)
      PROVE  host'[m] = listed'[q][m]
  <2>1. q # o /\ UsesHost(q, m) /\ UNCHANGED <<listed, shaky>>
    BY <1>4, PlainPhases DEF Typed, work
  <2>2. CASE \E u : SetHost(o, req[o].name, u)
    BY <2>1, <2>2, Asked, Crosses
  <2>3. CASE UNCHANGED host
    <3>1. crossed[q] \subseteq crossed'[q]
      BY <1>4, <2>1, <2>3 DEF Plain, Typed, SetHost, SetRow, AddToHelm, AddFails, CreateRow,
         RemoveFromHelm, DeleteRow, RowFails, Invalidate, LookAtCache, PutCatalog, Busy
    <3> QED
      BY <2>1, <2>3, <3>1 DEF HostInv
  <2> QED
    BY <1>4, <2>2, <2>3 DEF Plain, AddToHelm, AddFails, CreateRow, RemoveFromHelm, DeleteRow,
       RowFails, Invalidate, LookAtCache, PutCatalog, Busy
<1>5. ASSUME NEW o \in Ops, ListRepos(o) \/ LookUp(o)
      PROVE  host'[m] = listed'[q][m]
  <2>1. PICK r \in Repos : Take(o, r)
    BY <1>5, TakePhases
  <2> QED
    BY <1>5, <2>1, TakePhases DEF Take, Goto, Typed, HostInv
\* What was added is what is searched, or installed from.
<1>6. ASSUME NEW o \in Ops, Added(o)
      PROVE  host'[m] = listed'[q][m]
  <2>1. /\ UNCHANGED <<host, listed, shaky, crossed>> /\ left[o] = {} /\ pc[o] = "readd"
        /\ \A p \in Ops \ {o} : pc'[p] = pc[p] /\ left'[p] = left[p]
    BY <1>6 DEF Added, Goto, Typed
  <2> QED
    BY <2>1 DEF HostInv
<1>7. ASSUME NEW o \in Ops, TakeChart(o) \/ ChartFails(o)
      PROVE  host'[m] = listed'[q][m]
  BY <1>7 DEF TakeChart, ChartFails, Goto, Typed, HostInv
<1>8. ASSUME NEW o \in Ops, NEW n \in Names, ReAdd(o, n)
      PROVE  host'[m] = listed'[q][m]
  <2>1. /\ left' = [left EXCEPT ![o] = @ \ {n}] /\ UNCHANGED <<pc, listed, shaky>> /\ pc[o] = "readd"
        /\ SetHost(o, n, listed[o][n])
    BY <1>8 DEF ReAdd
  <2>2. CASE q # o
    BY <2>1, <2>2, Crosses DEF Typed
  <2>3. CASE q = o
    <3>1. host' = [host EXCEPT ![n] = listed[o][n]] /\ crossed'[o] = crossed[o]
      BY <2>1 DEF SetHost
    <3> QED
      BY <2>1, <2>3, <3>1 DEF HostInv, Typed, Repos
  <2> QED
    BY <2>2, <2>3
<1>9. ASSUME NEW o \in Ops, NEW n \in Names, ReAddFails(o, n)
      PROVE  host'[m] = listed'[q][m]
  <2>1. /\ left' = [left EXCEPT ![o] = @ \ {n}] /\ UNCHANGED <<listed, host, crossed>> /\ pc[o] = "readd"
        /\ shaky' = [shaky EXCEPT ![o] = @ \cup {n}]
        /\ pc' = pc \/ pc' = [pc EXCEPT ![o] = "done"]
    BY <1>9 DEF ReAddFails, Goto
  <2> QED
    BY <2>1 DEF HostInv, Typed
<1>10. ASSUME NEW o \in Ops, NEW n \in Names, Search(o, n) \/ SearchFails(o, n)
       PROVE  host'[m] = listed'[q][m]
  <2>1. /\ left' = [left EXCEPT ![o] = @ \ {n}] /\ UNCHANGED <<listed, host, crossed, pc>> /\ pc[o] = "search"
        /\ shaky[q] \subseteq shaky'[q]
    BY <1>10 DEF Search, SearchFails, Typed
  <2> QED
    BY <2>1 DEF HostInv, Typed
<1> QED
  BY <1>1, <1>2, <1>3, <1>4, <1>5, <1>6, <1>7, <1>8, <1>9, <1>10 DEF Next, Plain
LEMMA SourceStep ==
  ASSUME Typed, LeftInv, PhaseInv, HostInv, SourceExplained, [Next]_vars
  PROVE  SourceExplained'
<1> SUFFICES ASSUME NEW q \in Ops, req'[q].kind \in {"install", "deploy"},
                    listed'[q][req'[q].name] # NoUrl, found'[q][req'[q].name][req'[q].name] # NoUrl,
                    req'[q].name \notin shaky'[q] \cup crossed'[q]
             PROVE  found'[q][req'[q].name][req'[q].name] = listed'[q][req'[q].name]
  BY DEF SourceExplained
\* Marks stay, so that what was explained still is.
<1>1. ASSUME UNCHANGED <<req, listed, found>>, shaky[q] \subseteq shaky'[q], crossed[q] \subseteq crossed'[q]
      PROVE  found'[q][req'[q].name][req'[q].name] = listed'[q][req'[q].name]
  BY <1>1 DEF SourceExplained
<1>2. CASE UNCHANGED vars \/ Serve \/ Crash \/ \E c \in Clusters : Expire(c) \/ \E n \in Names : Reconcile(c, n)
  BY <1>1, <1>2 DEF vars, work, Serve, Crash, Expire, Reconcile
<1>3. ASSUME NEW o \in Ops, Plain(o)
      PROVE  found'[q][req'[q].name][req'[q].name] = listed'[q][req'[q].name]
  <2>1. crossed[q] \subseteq crossed'[q]
    BY <1>3 DEF Plain, Typed, SetHost, SetRow, AddToHelm, AddFails, CreateRow,
       RemoveFromHelm, DeleteRow, RowFails, Invalidate, LookAtCache, PutCatalog, Busy
  <2> QED
    BY <1>1, <1>3, <2>1, PlainPhases DEF work
\* What looks up has found nothing yet.
<1>4. ASSUME NEW o \in Ops, ListRepos(o) \/ LookUp(o)
      PROVE  found'[q][req'[q].name][req'[q].name] = listed'[q][req'[q].name]
  <2>1. PICK r \in Repos : listed' = [listed EXCEPT ![o] = r]
    BY <1>4, TakePhases DEF Take
  <2>2. UNCHANGED <<req, found, shaky, crossed>> /\ pc[o] \in {"new", "list"}
    BY <1>4, TakePhases
  <2>3. CASE q = o
    BY <2>2, <2>3, Asked, NoneIsRepos DEF PhaseInv
  <2>4. CASE q # o
    BY <2>1, <2>2, <2>4 DEF Typed, SourceExplained
  <2> QED
    BY <2>3, <2>4
<1>5. ASSUME NEW o \in Ops, Added(o) \/ ChartFails(o)
      PROVE  found'[q][req'[q].name][req'[q].name] = listed'[q][req'[q].name]
  BY <1>1, <1>5 DEF Added, ChartFails
\* The chart: helm still has the address that was added.
<1>6. ASSUME NEW o \in Ops, TakeChart(o)
      PROVE  found'[q][req'[q].name][req'[q].name] = listed'[q][req'[q].name]
  <2>1. /\ UNCHANGED <<req, listed, shaky, crossed>> /\ pc[o] = "chart"
        /\ found' = [found EXCEPT ![o][req[o].name] = Only(req[o].name, host[req[o].name])]
    BY <1>6 DEF TakeChart
  <2>2. CASE q # o
    BY <2>1, <2>2 DEF Typed, SourceExplained
  <2>3. CASE q = o
    <3>1. PICK k \in Names : k = req[o].name
      BY Asked
    <3>2. found'[o][k][k] = host[k]
      <4>1. Only(k, host[k]) \in Repos /\ Only(k, host[k])[k] = host[k]
        BY OnlyTyped DEF Typed, Repos
      <4>2. PICK r \in Repos : r = Only(k, host[k])
        BY <4>1
      <4>3. found' = [found EXCEPT ![o][k] = r]
        BY <2>1, <3>1, <4>2
      <4>4. found'[o][k] = r
        BY <4>3 DEF Typed, Charts
      <4> QED
        BY <4>1, <4>2, <4>4
    <3>3. k \in left[o]
      BY <2>1, <3>1 DEF PhaseInv
    <3>4. host[k] = listed[o][k]
      BY <2>1, <2>3, <3>1, <3>3 DEF HostInv, UsesHost
    <3> QED
      BY <2>1, <2>3, <3>1, <3>2, <3>4
  <2> QED
    BY <2>2, <2>3
<1>7. ASSUME NEW o \in Ops, NEW n \in Names, ReAdd(o, n) \/ ReAddFails(o, n) \/ SearchFails(o, n)
      PROVE  found'[q][req'[q].name][req'[q].name] = listed'[q][req'[q].name]
  BY <1>1, <1>7 DEF ReAdd, ReAddFails, SearchFails, SetHost, Typed
\* A search is a catalog's.
<1>8. ASSUME NEW o \in Ops, NEW n \in Names, Search(o, n)
      PROVE  found'[q][req'[q].name][req'[q].name] = listed'[q][req'[q].name]
  <2>1. q # o /\ UNCHANGED <<req, listed, shaky, crossed>> /\ found'[q] = found[q]
    BY <1>8 DEF Search, PhaseInv, Typed
  <2> QED
    BY <2>1 DEF SourceExplained
<1> QED
  BY <1>2, <1>3, <1>4, <1>5, <1>6, <1>7, <1>8 DEF Next, Plain
------------------------------------------------------------------------------
(* The catalog.                                                              *)

\* A row that changes under a catalog that has listed it is marked.
LEMMA RowsStep ==
  ASSUME Typed, PhaseInv, BootInv, RowsInv, [Next]_vars
  PROVE  RowsInv'
<1> SUFFICES ASSUME NEW q \in Ops, NEW c \in Clusters, UsesRows(q, c)', NEW m \in Names \ crossed'[q]
             PROVE  listed'[q][m] = rows'[c][m]
  BY DEF RowsInv
<1> USE DEF UsesRows
<1>1. ASSUME UNCHANGED <<rows, req, listed>>, UsesRows(q, c), crossed[q] \subseteq crossed'[q]
      PROVE  listed'[q][m] = rows'[c][m]
  BY <1>1 DEF RowsInv
<1>2. CASE UNCHANGED vars \/ Serve \/ \E d \in Clusters : Expire(d)
  BY <1>1, <1>2 DEF vars, work, Serve, Expire
<1>3. CASE Crash \/ \E d \in Clusters, n \in Names : Reconcile(d, n)
  BY <1>3 DEF Crash, Reconcile, Typed, Phases, BootInv
<1>4. ASSUME NEW o \in Ops, CreateRow(o) \/ DeleteRow(o)
      PROVE  listed'[q][m] = rows'[c][m]
  <2>1. PICK d \in Clusters, k \in Names : d = req[o].cluster /\ k = req[o].name
    BY Asked
  <2>2. PICK u : SetRow(o, u)
    BY <1>4 DEF CreateRow, DeleteRow
  <2>3. UNCHANGED <<req, listed>> /\ UsesRows(q, c)
    BY <1>4 DEF CreateRow, DeleteRow, Goto, work, Typed
  <2>4. /\ rows' = [rows EXCEPT ![d][k] = u]
        /\ crossed'[q] = IF UsesRows(q, d) THEN crossed[q] \cup {k} ELSE crossed[q]
    BY <2>1, <2>2 DEF SetRow
  <2>5. m \notin crossed[q] /\ (c = d => m # k)
    BY <2>3, <2>4
  <2>6. rows'[c][m] = rows[c][m]
    BY <2>4, <2>5 DEF Typed, Repos
  <2> QED
    BY <2>3, <2>5, <2>6 DEF RowsInv
<1>5. ASSUME NEW o \in Ops, Plain(o), UNCHANGED rows
      PROVE  listed'[q][m] = rows'[c][m]
  <2>1. crossed[q] \subseteq crossed'[q]
    BY <1>5 DEF Plain, Typed, SetHost, SetRow, AddToHelm, AddFails, CreateRow,
       RemoveFromHelm, DeleteRow, RowFails, Invalidate, LookAtCache, PutCatalog, Busy
  <2> QED
    BY <1>1, <1>5, <2>1, PlainPhases DEF Typed, work
<1>6. ASSUME NEW o \in Ops, ListRepos(o) \/ LookUp(o)
      PROVE  listed'[q][m] = rows'[c][m]
  <2>1. PICK r \in Repos : Take(o, r)
    BY <1>6, TakePhases
  <2> QED
    BY <1>6, <2>1, TakePhases DEF Take, Goto, Typed, RowsInv
<1>7. ASSUME NEW o \in Ops, Added(o)
      PROVE  listed'[q][m] = rows'[c][m]
  BY <1>1, <1>7 DEF Added, Goto, Typed
<1>8. ASSUME NEW o \in Ops, TakeChart(o) \/ ChartFails(o)
      PROVE  listed'[q][m] = rows'[c][m]
  BY <1>1, <1>8 DEF TakeChart, ChartFails, Goto, Typed
<1>9. ASSUME NEW o \in Ops, NEW n \in Names,
             ReAdd(o, n) \/ ReAddFails(o, n) \/ Search(o, n) \/ SearchFails(o, n)
      PROVE  listed'[q][m] = rows'[c][m]
  BY <1>1, <1>9 DEF ReAdd, ReAddFails, Search, SearchFails, SetHost, Goto, Typed
<1> QED
  BY <1>2, <1>3, <1>4, <1>5, <1>6, <1>7, <1>8, <1>9
     DEF Next, Plain, AddToHelm, AddFails, RemoveFromHelm, RowFails, Invalidate, LookAtCache, PutCatalog, Busy

\* A search finds what was listed, since helm still has it.
LEMMA FoundStep ==
  ASSUME Typed, LeftInv, PhaseInv, HostInv, FoundInv, [Next]_vars
  PROVE  FoundInv'
\* What FoundInv says of an operation and of a name it has searched.
<1> DEFINE Right(q, n) ==
             /\ listed[q][n] = NoUrl => found[q][n] = None
             /\ listed[q][n] # NoUrl =>
                  \A m \in Known(listed[q]) \ (shaky[q] \cup crossed[q]) :
                      found[q][n][m] = Shown(n, m, listed[q][m])
<1> SUFFICES ASSUME NEW q \in Ops, pc'[q] = "search",
                    NEW n \in Names \ (left'[q] \cup shaky'[q] \cup crossed'[q])
             PROVE  Right(q, n)'
  BY DEF FoundInv
<1>0. pc[q] = "search" /\ n \notin left[q] \cup shaky[q] \cup crossed[q] => Right(q, n)
  BY DEF FoundInv
<1>1. ASSUME pc[q] = "search", listed'[q] = listed[q], found'[q] = found[q],
             left[q] = left'[q], shaky[q] \subseteq shaky'[q], crossed[q] \subseteq crossed'[q]
      PROVE  Right(q, n)'
  BY <1>0, <1>1 DEF Known, None, Shown
<1>2. CASE UNCHANGED vars \/ Serve \/ Crash \/ \E c \in Clusters : Expire(c) \/ \E k \in Names : Reconcile(c, k)
  BY <1>1, <1>2 DEF vars, work, Serve, Crash, Expire, Reconcile, Typed
<1>3. ASSUME NEW o \in Ops, Plain(o)
      PROVE  Right(q, n)'
  <2>1. crossed[q] \subseteq crossed'[q]
    BY <1>3 DEF Plain, Typed, SetHost, SetRow, AddToHelm, AddFails, CreateRow,
       RemoveFromHelm, DeleteRow, RowFails, Invalidate, LookAtCache, PutCatalog, Busy
  <2> QED
    BY <1>1, <1>3, <2>1, PlainPhases DEF Typed, work
<1>4. ASSUME NEW o \in Ops, ListRepos(o) \/ LookUp(o)
      PROVE  Right(q, n)'
  <2>1. PICK r \in Repos : Take(o, r)
    BY <1>4, TakePhases
  <2> QED
    BY <1>1, <1>4, <2>1, TakePhases DEF Take, Goto, Typed
\* At first only what is not in the listing counts as searched.
<1>5. ASSUME NEW o \in Ops, Added(o)
      PROVE  Right(q, n)'
  <2>1. UNCHANGED <<listed, found, shaky, crossed>> /\ pc[o] = "readd"
    BY <1>5 DEF Added
  <2>2. CASE q = o
    <3>1. left'[o] = Known(listed[o])
      BY <1>5, <2>2 DEF Added, Goto, Typed
    <3>2. listed[o][n] = NoUrl
      BY <2>2, <3>1 DEF Known
    <3> QED
      BY <2>1, <2>2, <3>2, NoneIsRepos DEF PhaseInv, None
  <2>3. CASE q # o
    BY <1>1, <1>5, <2>1, <2>3 DEF Added, Goto, Typed
  <2> QED
    BY <2>2, <2>3
<1>6. ASSUME NEW o \in Ops, TakeChart(o) \/ ChartFails(o)
      PROVE  Right(q, n)'
  BY <1>1, <1>6 DEF TakeChart, ChartFails, Goto, Typed
<1>7. ASSUME NEW o \in Ops, NEW k \in Names, ReAdd(o, k) \/ ReAddFails(o, k)
      PROVE  Right(q, n)'
  BY <1>1, <1>7 DEF ReAdd, ReAddFails, SetHost, Goto, Typed
<1>8. ASSUME NEW o \in Ops, NEW k \in Names, SearchFails(o, k)
      PROVE  Right(q, n)'
  <2>1. /\ UNCHANGED <<pc, listed, found, crossed>> /\ pc[o] = "search"
        /\ left' = [left EXCEPT ![o] = @ \ {k}] /\ shaky' = [shaky EXCEPT ![o] = @ \cup {k}]
    BY <1>8 DEF SearchFails
  <2>2. n \notin left[q] \cup shaky[q] \cup crossed[q] /\ shaky[q] \subseteq shaky'[q] /\ pc[q] = "search"
    BY <2>1 DEF Typed
  <2> QED
    BY <1>0, <2>1, <2>2 DEF Known, None, Shown
<1>9. ASSUME NEW o \in Ops, NEW k \in Names, Search(o, k)
      PROVE  Right(q, n)'
  <2> DEFINE r == [m \in Names |-> Shown(k, m, host[m])]
  <2>1. /\ UNCHANGED <<pc, listed, shaky, crossed>> /\ pc[o] = "search" /\ k \in left[o]
        /\ left' = [left EXCEPT ![o] = @ \ {k}] /\ found' = [found EXCEPT ![o][k] = r]
    BY <1>9 DEF Search
  <2>2. r \in Repos
    BY ShownTyped DEF Typed
  <2> HIDE DEF r
  <2>3. found'[o][k] = r /\ \A p \in Ops, i \in Names : p # o \/ i # k => found'[p][i] = found[p][i]
    BY <2>1, <2>2 DEF Typed, Charts
  <2>4. CASE q = o /\ n = k
    <3>1. listed[o][k] # NoUrl
      BY <2>1 DEF LeftInv, Known
    <3>2. found'[o][k] = r
      BY <2>3
    <3>3. ASSUME NEW m \in Known(listed[o]) \ (shaky[o] \cup crossed[o])
          PROVE  r[m] = Shown(k, m, listed[o][m])
      <4>1. m \in Names /\ listed[o][m] # NoUrl /\ listed[o][m] \in Address /\ host[m] \in Address
        BY DEF Known, Typed, Repos
      <4>2. r[m] = Shown(k, m, host[m])
        BY <4>1 DEF r
      <4>3. CASE MayShow(k, m)
        <5>1. UsesHost(o, m)
          BY <2>1, <4>3 DEF UsesHost
        <5> QED
          BY <4>1, <4>2, <5>1 DEF HostInv
      <4>4. CASE ~ MayShow(k, m)
        BY <4>1, <4>2, <4>4, MatchAssumption DEF Shown, MayShow
      <4> QED
        BY <4>3, <4>4
    <3> QED
      BY <2>1, <2>4, <3>1, <3>2, <3>3 DEF Known, Shown
  <2>5. CASE q # o \/ n # k
    <3>1. found'[q][n] = found[q][n]
      BY <2>5, <2>3
    <3>2. n \notin left[q] \cup shaky[q] \cup crossed[q] /\ pc[q] = "search"
      BY <2>1, <2>5 DEF Typed
    <3> QED
      BY <1>0, <2>1, <3>1, <3>2 DEF Known, None, Shown
  <2> QED
    BY <2>4, <2>5
<1> QED
  BY <1>2, <1>3, <1>4, <1>5, <1>6, <1>7, <1>8, <1>9 DEF Next, Plain

LEMMA FreshStep ==
  ASSUME Typed, LeftInv, PhaseInv, BootInv, RowsInv, FoundInv, CatalogFresh, [Next]_vars
  PROVE  CatalogFresh'
\* What CatalogFresh says of the catalog k of a cluster with the rows r.
<1> DEFINE Fresh(k, r) ==
             \A n \in Names \ k.doubt :
                /\ r[n] = NoUrl => k.charts[n] = None
                /\ r[n] # NoUrl => \A m \in Known(r) \cap (Names \ k.doubt) :
                                      k.charts[n][m] = Shown(n, m, r[m])
<1> SUFFICES ASSUME NEW c \in Clusters, cache'[c] # NoCatalog, ~ToInvalidate(c)'
             PROVE  Fresh(cache'[c], rows'[c])
  BY DEF CatalogFresh, None, Known, Shown
<1> USE DEF ToInvalidate
\* The catalog and the rows are what they were, and no request is done with both.
<1>1. ASSUME cache'[c] = cache[c], rows'[c] = rows[c], ~ToInvalidate(c)
      PROVE  Fresh(cache'[c], rows'[c])
  <2>1. Fresh(cache[c], rows[c])
    BY <1>1 DEF CatalogFresh
  <2> HIDE DEF Fresh
  <2> QED
    BY <1>1, <2>1
<1>2. CASE UNCHANGED vars \/ Serve
  BY <1>1, <1>2 DEF vars, Serve
<1>3. CASE Crash \/ \E d \in Clusters, n \in Names : Reconcile(d, n)
  BY <1>3 DEF Crash, Reconcile, BootInv
<1>4. CASE \E d \in Clusters : Expire(d)
  <2>1. PICK d \in Clusters : Expire(d)
    BY <1>4
  <2>2. c # d
    BY <2>1 DEF Expire, Typed
  <2> QED
    BY <1>1, <2>1, <2>2 DEF Expire, Typed
\* A row that changes leaves its request with the catalog to drop.
<1>5. ASSUME NEW o \in Ops, CreateRow(o) \/ DeleteRow(o)
      PROVE  Fresh(cache'[c], rows'[c])
  <2>1. PICK d \in Clusters : d = req[o].cluster
    BY Asked
  <2>2. /\ UNCHANGED <<cache, req>> /\ pc' = [pc EXCEPT ![o] = "invalidate"] /\ pc[o] = "row"
        /\ \E n, u : rows' = [rows EXCEPT ![d][n] = u]
    BY <1>5, <2>1 DEF CreateRow, DeleteRow, SetRow, Goto, Is
  <2>3. c # d
    BY <2>1, <2>2 DEF Typed
  <2>4. ~ToInvalidate(c)
    BY <2>2 DEF Typed
  <2> QED
    BY <1>1, <2>2, <2>3, <2>4 DEF Typed
<1>6. ASSUME NEW o \in Ops, Invalidate(o)
      PROVE  Fresh(cache'[c], rows'[c])
  <2>1. PICK d \in Clusters : d = req[o].cluster
    BY Asked
  <2>2. /\ UNCHANGED <<rows, req>> /\ pc' = [pc EXCEPT ![o] = "done"]
        /\ cache' = [cache EXCEPT ![d] = NoCatalog]
    BY <1>6, <2>1 DEF Invalidate, Goto
  <2>3. c # d
    BY <2>2 DEF Typed
  <2> QED
    BY <1>1, <2>1, <2>2, <2>3 DEF Typed
\* A whole catalog: what it found is what is listed, and that is what is there.
<1>7. ASSUME NEW o \in Ops, PutCatalog(o)
      PROVE  Fresh(cache'[c], rows'[c])
  <2>1. PICK d \in Clusters : d = req[o].cluster
    BY Asked
  <2>2. /\ UNCHANGED <<rows, req>> /\ pc' = [pc EXCEPT ![o] = "done"] /\ pc[o] = "search" /\ left[o] = {}
        /\ cache' = [cache EXCEPT ![d] = [charts |-> found[o], doubt |-> shaky[o] \cup crossed[o]]]
    BY <1>7, <2>1 DEF PutCatalog, Goto
  <2>3. CASE c = d
    <3>1. cache'[c].charts = found[o] /\ cache'[c].doubt = shaky[o] \cup crossed[o]
      BY <2>2, <2>3 DEF Typed
    <3>2. \A n \in Names \ (shaky[o] \cup crossed[o]) :
             /\ listed[o][n] = NoUrl => found[o][n] = None
             /\ listed[o][n] # NoUrl =>
                  \A m \in Known(listed[o]) \ (shaky[o] \cup crossed[o]) :
                      found[o][n][m] = Shown(n, m, listed[o][m])
      BY <2>2 DEF FoundInv
    <3>3. \A n \in Names \ (shaky[o] \cup crossed[o]) : listed[o][n] = rows[c][n]
      BY <2>1, <2>2, <2>3 DEF RowsInv, UsesRows, PhaseInv
    <3> QED
      BY <2>2, <3>1, <3>2, <3>3 DEF Known
  <2>4. CASE c # d
    BY <1>1, <2>2, <2>4 DEF Typed
  <2> QED
    BY <2>3, <2>4
<1>8. ASSUME NEW o \in Ops, Plain(o), UNCHANGED <<rows, cache>>, pc[o] # "invalidate"
      PROVE  Fresh(cache'[c], rows'[c])
  BY <1>1, <1>8, PlainPhases DEF Typed
<1>9. ASSUME NEW o \in Ops, ListRepos(o) \/ LookUp(o)
      PROVE  Fresh(cache'[c], rows'[c])
  <2>1. PICK r \in Repos : Take(o, r)
    BY <1>9, TakePhases
  <2> QED
    BY <1>1, <1>9, <2>1, TakePhases DEF Take, Goto, Typed
<1>10. ASSUME NEW o \in Ops, Added(o) \/ TakeChart(o) \/ ChartFails(o)
       PROVE  Fresh(cache'[c], rows'[c])
  BY <1>1, <1>10 DEF Added, TakeChart, ChartFails, Goto, Typed
<1>11. ASSUME NEW o \in Ops, NEW n \in Names,
              ReAdd(o, n) \/ ReAddFails(o, n) \/ Search(o, n) \/ SearchFails(o, n)
       PROVE  Fresh(cache'[c], rows'[c])
  BY <1>1, <1>11 DEF ReAdd, ReAddFails, Search, SearchFails, Goto, Typed
<1> QED
  BY <1>2, <1>3, <1>4, <1>5, <1>6, <1>7, <1>8, <1>9, <1>10, <1>11
     DEF Next, Plain, Is, AddToHelm, AddFails, RemoveFromHelm, RowFails, LookAtCache, Busy
------------------------------------------------------------------------------
(* The theorems.                                                             *)

LEMMA IInvInit == Init => IInv
<1> SUFFICES ASSUME Init PROVE IInv
  OBVIOUS
<1>1. Typed /\ LeftInv /\ PhaseInv
  BY TypedInit
<1>2. BootInv /\ HostInv /\ RowsInv /\ FoundInv
  BY DEF Init, BootInv, HostInv, UsesHost, RowsInv, UsesRows, FoundInv
<1>3. SourceExplained
  BY Asked, NoneIsRepos, <1>1 DEF Init, SourceExplained
<1>4. CatalogFresh
  BY DEF Init, CatalogFresh
<1> QED
  BY <1>1, <1>2, <1>3, <1>4, Unfold DEF IInv

LEMMA IInvStep == IInv /\ [Next]_vars => IInv'
<1> SUFFICES ASSUME IInv, [Next]_vars PROVE IInv'
  OBVIOUS
<1>1. /\ Typed /\ LeftInv /\ PhaseInv /\ BootInv /\ HostInv /\ RowsInv /\ FoundInv
      /\ SourceExplained /\ CatalogFresh
  BY Unfold DEF IInv
<1>2. Typed' /\ LeftInv' /\ PhaseInv'
  BY <1>1, TypedStep, PhaseStep
<1>3. TypeOK'
  BY <1>2 DEF TypeOK, Typed, LeftInv, Phases
<1> QED
  BY <1>1, <1>2, <1>3, BootStep, HostStep, RowsStep, FoundStep, SourceStep, FreshStep DEF IInv

THEOREM RepoInvariant == Spec => []IInv
  BY IInvInit, IInvStep, PTL DEF Spec

\* Types, and a request works only on names it has looked up.
THEOREM RepoTypes == Spec => []TypeOK
<1>1. IInv => TypeOK
  BY DEF IInv
<1> QED
  BY RepoInvariant, <1>1, PTL

\* A chart comes from where its operation looked it up, unless the add failed
\* or another request changed the name in between (executor.go:330-340).
THEOREM SourceIsExplained == Spec => []SourceExplained
<1>1. IInv => SourceExplained
  BY DEF IInv
<1> QED
  BY RepoInvariant, <1>1, PTL

\* Of the repositories of its cluster, a cached catalog lists under each name what
\* helm's search for it shows, at the addresses of the rows, and it lists nothing
\* under a name the cluster does not have; but for the names at which helm failed
\* and those changed while it was made (repos.go:135-137).  Of repositories that
\* are not the cluster's, and that helm finds by the same text, it says nothing.
THEOREM CatalogIsFresh == Spec => []CatalogFresh
<1>1. IInv => CatalogFresh
  BY DEF IInv
<1> QED
  BY RepoInvariant, <1>1, PTL
==============================================================================
