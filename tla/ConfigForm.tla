------------------------------ MODULE ConfigForm ------------------------------
(***************************************************************************)
(* The configuration of a cluster makes a round trip: a page loads it      *)
(* without its secrets (Initializer.HandleGet,                             *)
(* api/internal/clusters/initialize_get.go), the operator edits the form   *)
(* (ui/src/routes/clusters/$clusterId.initialize.tsx, InitializeForm.tsx), *)
(* and what was left blank is filled in again from Vault when it is saved  *)
(* (Initializer.Handle, initialize.go).  A deploy then writes the DNS      *)
(* record the configuration asks for (deployments/executor.go).            *)
(*                                                                         *)
(* ClusterSecrets follows whole paths through many requests at once; this  *)
(* module opens the paths up into fields and follows one browser, whose    *)
(* operator waits for each answer.  Fields that are treated alike are one: *)
(* "plain" is every setting of the paths proxmox and network that is sent  *)
(* back to the page, "token" the two required secrets of Proxmox, "zone"   *)
(* the DNS server, its zone and the name of its key.  The checks of the    *)
(* page itself (ui/src/schemas/initialize.ts) are left out: what it would  *)
(* not send, another client of the API may.                                *)
(***************************************************************************)
EXTENDS ClusterStatus, Naturals, FiniteSets

CONSTANTS Plain,     \* values of the settings
          Default,   \* homelabDefaults, for the settings
          Typed,     \* secrets an operator may type
          Zones,     \* zones an operator may type
          LabZone,   \* homelabDefaults, for the zone
          Own,       \* the key pair of the operator
          Generated, \* the key pair Bandolier makes
          Blank,     \* an empty field
          Nothing,   \* nothing in Vault, or in the browser's cache
          MaxTyped   \* bound: fields that are filled in before a page closes

Fields  == {"plain", "token", "key", "dns"}
Keys    == {Own, Generated}
Secrets == Typed \cup {Blank}
Form    == [plain : Plain, token : Secrets, pub : Keys \cup {Blank}, priv : Keys \cup {Blank},
            zone : Zones \cup {Blank}, tsig : Secrets]
Proxmox == [plain : Plain, token : Typed]
SSH     == [pub : Keys, priv : Keys, byo : BOOLEAN]
DNS     == [kind : {"none", "bind"}, zone : Zones \cup {Blank}, tsig : Secrets]
View    == [plain : Plain, pub : Keys \cup {Blank}, zone : Zones \cup {Blank}]

ASSUME DefaultAssumption == Default \in Plain /\ LabZone \in Zones
ASSUME BlankAssumption   == Blank \notin Typed \cup Zones \cup Keys /\ Own # Generated
ASSUME BoundAssumption   == MaxTyped \in Nat
ASSUME NothingAssumption == Nothing \notin Proxmox \cup SSH \cup DNS \cup View

VARIABLES
    pc,         \* what the page, or the handler that serves it, does next
    form,       \* the fields on the page
    cache,      \* what react-query keeps of the last GET
    req,        \* the request, as the handler fills it in
    byo,        \* the handler takes the key pair for the operator's
    vault,      \* the paths proxmox (with network), ssh and dns
    status,     \* clusters.status
    job,        \* a deploy is about to write the DNS record
    record,     \* the zone that has the wildcard record, or Blank
    hands,      \* what was typed since the page opened (history variable)
    blind,      \* the page could not load, and shows the first form (history)
    was,        \* the secrets in Vault when the form was saved (history)
    lost,       \* the DNS secret was there and could not be read (history)
    overlap,    \* the last deploy began during a save (history)
    unread      \* the last deploy could not read the DNS path (history)

page    == <<form, cache, hands, blind>>
handler == <<req, byo, was, lost>>
deploy  == <<job, record, overlap, unread>>
vars    == <<pc, form, cache, req, byo, vault, status, job, record, hands, blind, was, lost,
             overlap, unread>>

Putting  == {"put_proxmox", "put_ssh", "put_dns"}
Handling == {"merge_proxmox", "merge_dns", "merge_ssh", "check", "settle"} \cup Putting

There(path) == vault[path] # Nothing

FirstForm == [plain |-> Default, token |-> Blank, pub |-> Blank, priv |-> Blank,
              zone |-> LabZone, tsig |-> Blank]

\* A field left blank means what is stored.
Kept(new, old) == IF new = Blank THEN old ELSE new

\* The secrets in Vault, blank where there is no path.
Stored == [token |-> IF There("proxmox") THEN vault.proxmox.token ELSE Blank,
           tsig  |-> IF There("dns") THEN vault.dns.tsig ELSE Blank,
           pub   |-> IF There("ssh") THEN vault.ssh.pub ELSE Blank]

NoSecrets == [token |-> Blank, tsig |-> Blank, pub |-> Blank]

Init ==
    /\ pc = "closed" /\ form = FirstForm /\ cache = Nothing
    /\ req = FirstForm /\ byo = FALSE
    /\ vault = [proxmox |-> Nothing, ssh |-> Nothing, dns |-> Nothing]
    /\ status = "pending"
    /\ job = FALSE /\ record = Blank
    /\ hands = {} /\ blind = FALSE
    /\ was = NoSecrets /\ lost = FALSE
    /\ overlap = FALSE /\ unread = FALSE
------------------------------------------------------------------------------
(* The page: HandleGet, and viewToInput with what it found.                 *)

\* The view of a DNS path that is not there, or cannot be read, is blank; the
\* public half is shown of a pair the operator brought.
ViewOf(dns) == [plain |-> vault.proxmox.plain,
                pub   |-> IF vault.ssh.byo THEN vault.ssh.pub ELSE Blank,
                zone  |-> IF dns = Nothing THEN Blank ELSE dns.zone]

Answers(v) ==
    /\ status # "pending"
    /\ There("proxmox") /\ There("ssh")
    /\ v \in {ViewOf(vault.dns), ViewOf(Nothing)}

Shows(f, cannot) ==
    /\ form' = f
    /\ blind' = cannot
    /\ hands' = {}
    /\ pc' = "filling"
    /\ UNCHANGED <<handler, vault, status, deploy>>

Prefill(v) == [FirstForm EXCEPT !.plain = v.plain, !.pub = v.pub, !.zone = v.zone]

\* Without a cached view the page waits for the answer.
Load ==
    /\ pc = "closed"
    /\ cache = Nothing
    /\ \E v \in View : Answers(v) /\ Shows(Prefill(v), FALSE) /\ cache' = v

\* Whatever the error, the page goes on as if there were nothing to load; of a
\* cluster that is pending there is not.
LoadFails ==
    /\ pc = "closed"
    /\ cache = Nothing
    /\ Shows(FirstForm, status # "pending")
    /\ UNCHANGED cache

\* With one it shows that, and a form that shows something does not change by
\* the answer that follows.
ShowCached ==
    /\ pc = "closed"
    /\ cache # Nothing
    /\ Shows(Prefill(cache), FALSE)
    /\ UNCHANGED cache

Refetch ==
    /\ pc # "closed"
    /\ cache # Nothing
    /\ \E v \in View : Answers(v) /\ cache' = v
    /\ UNCHANGED <<pc, form, hands, blind, handler, vault, status, deploy>>

\* After five minutes without a page, or when the browser is reloaded.
Evict ==
    /\ pc = "closed"
    /\ cache' = Nothing
    /\ UNCHANGED <<pc, form, hands, blind, handler, vault, status, deploy>>

\* The fields that are filled in together: who types a private key has typed its
\* public key before, and the switch "manage DNS" clears both fields of DNS.
Filled(g) ==
    CASE g = "plain" -> {[form EXCEPT !.plain = x] : x \in Plain}
      [] g = "token" -> {[form EXCEPT !.token = t] : t \in Secrets}
      [] g = "key"   -> {[form EXCEPT !.pub = Own, !.priv = Own],
                         [form EXCEPT !.pub = Blank], [form EXCEPT !.priv = Blank]}
      [] g = "dns"   -> {[form EXCEPT !.zone = d.zone, !.tsig = d.tsig] :
                             d \in [zone : Zones \cup {Blank}, tsig : Secrets]}

\* The operator fills in a field.
Types ==
    /\ pc = "filling"
    /\ \E g \in Fields :
          /\ Cardinality(hands \cup {g}) <= MaxTyped
          /\ form' \in Filled(g) \ {form}
          /\ hands' = hands \cup {g}
    /\ UNCHANGED <<pc, cache, blind, handler, vault, status, deploy>>

\* The page closes, and its form is gone.
Closes ==
    /\ pc' = "closed"
    /\ form' = FirstForm
    /\ hands' = {}
    /\ blind' = FALSE
    /\ UNCHANGED cache

Leave ==
    /\ pc = "filling"
    /\ Closes
    /\ UNCHANGED <<handler, vault, status, deploy>>
------------------------------------------------------------------------------
(* Handle.                                                                  *)

\* The handler has answered, and its variables are gone.
Answered ==
    /\ req' = FirstForm
    /\ byo' = FALSE
    /\ was' = NoSecrets
    /\ lost' = FALSE

\* An answer that is not a success leaves the page and its form as they are.
Refused == pc' = "filling" /\ Answered /\ UNCHANGED page

\* The row is read, and whether this is an edit decided.
Save ==
    /\ pc = "filling"
    /\ CanTransition(status, "initializing")
    /\ pc' = IF status = "pending" THEN "check" ELSE "merge_proxmox"
    /\ req' = form
    /\ was' = Stored
    /\ UNCHANGED <<page, byo, lost, vault, status, deploy>>

MergeProxmox ==
    /\ pc = "merge_proxmox"
    /\ There("proxmox")
    /\ req' = [req EXCEPT !.token = Kept(@, vault.proxmox.token)]
    /\ pc' = "merge_dns"
    /\ UNCHANGED <<page, byo, was, lost, vault, status, deploy>>

\* A merge that takes the secret of the page, blank or not.
ForgetTsig ==
    /\ pc = "merge_dns"
    /\ pc' = "merge_ssh"
    /\ UNCHANGED <<page, handler, vault, status, deploy>>

\* Absence and failure are the same here.
MergeDns ==
    /\ pc = "merge_dns"
    /\ \/ /\ There("dns")
          /\ req' = [req EXCEPT !.tsig = Kept(@, vault.dns.tsig)]
          /\ UNCHANGED lost
       \/ /\ lost' = There("dns")
          /\ UNCHANGED req
    /\ pc' = "merge_ssh"
    /\ UNCHANGED <<page, byo, was, vault, status, deploy>>

\* A merge of each half by itself.
MergeHalves ==
    /\ pc = "merge_ssh"
    /\ There("ssh")
    /\ req' = [req EXCEPT !.pub = Kept(@, vault.ssh.pub), !.priv = Kept(@, vault.ssh.priv)]
    /\ pc' = "check"
    /\ UNCHANGED <<page, byo, was, lost, vault, status, deploy>>

\* Both halves of the pair are kept, or neither.
MergeSsh ==
    /\ pc = "merge_ssh"
    /\ There("ssh")
    /\ req' = IF req.pub = Blank /\ req.priv = Blank
              THEN [req EXCEPT !.pub = vault.ssh.pub, !.priv = vault.ssh.priv]
              ELSE req
    /\ pc' = "check"
    /\ UNCHANGED <<page, byo, was, lost, vault, status, deploy>>

\* 503 when Proxmox or SSH cannot be merged.
MergeFails ==
    /\ pc \in {"merge_proxmox", "merge_ssh"}
    /\ Refused
    /\ UNCHANGED <<vault, status, deploy>>

Whole(r)  == (r.pub = Blank) = (r.priv = Blank)
Usable(r) == Whole(r) /\ r.token # Blank

\* "initializing", and a key pair where there is none.
Accept ==
    /\ pc = "check"
    /\ Usable(req)
    /\ status' = "initializing"
    /\ byo' = (req.pub # Blank)
    /\ req' = [req EXCEPT !.pub = Kept(@, Generated), !.priv = Kept(@, Generated)]
    /\ pc' = "put_proxmox"
    /\ UNCHANGED <<page, was, lost, vault, deploy>>

\* 400; or the client has gone, and no write of this request succeeds any more.
Reject ==
    /\ pc = "check"
    /\ Refused
    /\ UNCHANGED <<vault, status, deploy>>

\* All four DNS fields empty: the operator manages DNS.
Kind(r) == IF r.zone = Blank /\ r.tsig = Blank THEN "none" ELSE "bind"

\* What is put at a path.
Content(path) ==
    CASE path = "proxmox" -> [plain |-> req.plain, token |-> req.token]
      [] path = "ssh"     -> [pub |-> req.pub, priv |-> req.priv, byo |-> byo]
      [] path = "dns"     -> [kind |-> Kind(req), zone |-> req.zone, tsig |-> req.tsig]

PutPath(here, path, next) ==
    /\ pc = here
    /\ vault' = [vault EXCEPT ![path] = Content(path)]
    /\ pc' = next
    /\ UNCHANGED <<page, handler, status, deploy>>

PutProxmox == PutPath("put_proxmox", "proxmox", "put_ssh")
PutSsh     == PutPath("put_ssh", "ssh", "put_dns")
PutDns     == PutPath("put_dns", "dns", "settle")

PathOf(l) == CASE l = "put_proxmox" -> "proxmox" [] l = "put_ssh" -> "ssh" [] l = "put_dns" -> "dns"

\* A put fails, or only its answer does, or the put of the path tls that follows
\* the one of dns: "error", unless that is not written either.
PutFails ==
    /\ pc \in Putting
    /\ \/ vault' = [vault EXCEPT ![PathOf(pc)] = Content(PathOf(pc))]
       \/ UNCHANGED vault
    /\ status' \in {status, "error"}
    /\ Refused
    /\ UNCHANGED deploy

\* "initialized" without the pre-flight.
SettleBlindly ==
    /\ pc = "settle"
    /\ status' \in {status, "initialized"}
    /\ Closes /\ Answered
    /\ UNCHANGED <<vault, deploy>>

\* The DNS pre-flight asks the server; "initialized".  A server that has no
\* name cannot answer.
Settle ==
    /\ pc = "settle"
    /\ Kind(req) = "bind" => req.zone # Blank
    /\ status' \in {status, "initialized"}
    /\ Closes /\ Answered
    /\ UNCHANGED <<vault, deploy>>

PreflightFails ==
    /\ pc = "settle"
    /\ Kind(req) = "bind"
    /\ status' \in {status, "error"}
    /\ Refused
    /\ UNCHANGED <<vault, deploy>>
------------------------------------------------------------------------------
(* Deploys and destroys, as far as DNS goes.                                *)

\* There is no last deploy that made the cluster ready.
NotDeployed == overlap' = FALSE /\ unread' = FALSE

StartDeploy ==
    /\ ~job
    /\ CanTransition(status, "deploying")
    /\ status' = "deploying"
    /\ job' = TRUE
    /\ overlap' = (pc \in Handling)
    /\ UNCHANGED <<pc, page, handler, vault, record, unread>>

\* A deploy that goes on without its record.
SkipWildcardDNS ==
    /\ job
    /\ unread' = FALSE
    /\ status' = "ready"
    /\ job' = FALSE
    /\ UNCHANGED <<pc, page, handler, vault, record, overlap>>

\* writeWildcardDNS; "ready".  No DNS path, and one that cannot be read, is DNS
\* that the operator manages.
WriteWildcardDNS ==
    /\ job
    /\ \/ /\ There("dns")
          /\ vault.dns.kind = "none" \/ vault.dns.zone # Blank
          /\ record' = IF vault.dns.kind = "bind" THEN vault.dns.zone ELSE record
          /\ unread' = FALSE
       \/ /\ unread' = There("dns")
          /\ UNCHANGED record
    /\ status' = "ready"
    /\ job' = FALSE
    /\ UNCHANGED <<pc, page, handler, vault, overlap>>

\* This step or a later one fails.
DeployFails ==
    /\ job
    /\ \/ /\ There("dns") /\ vault.dns.kind = "bind" /\ vault.dns.zone # Blank
          /\ record' = vault.dns.zone
       \/ UNCHANGED record
    /\ status' = "error"
    /\ job' = FALSE
    /\ NotDeployed
    /\ UNCHANGED <<pc, page, handler, vault>>

\* A destroy leaves the record, and the configuration for the next deploy.
Destroy ==
    /\ ~job
    /\ CanTransition(status, "destroying")
    /\ status' \in {"destroyed", "error"}
    /\ NotDeployed
    /\ UNCHANGED <<pc, page, handler, vault, job, record>>

\* The API process dies: the page keeps its form, a deploy ends in "error".
Crash ==
    /\ pc \in Handling \/ job
    /\ IF pc \in Handling THEN Refused ELSE UNCHANGED <<pc, page, handler>>
    /\ status' = IF job THEN "error" ELSE status
    /\ job' = FALSE
    /\ IF job THEN NotDeployed ELSE UNCHANGED <<overlap, unread>>
    /\ UNCHANGED <<vault, record>>

Page   == Load \/ LoadFails \/ ShowCached \/ Refetch \/ Evict \/ Types \/ Leave
Handle ==
    \/ Save \/ MergeProxmox \/ MergeDns \/ MergeSsh \/ MergeFails \/ Accept \/ Reject
    \/ PutProxmox \/ PutSsh \/ PutDns \/ PutFails \/ Settle \/ PreflightFails

Next ==
    \/ Page \/ Handle
    \/ StartDeploy \/ WriteWildcardDNS \/ DeployFails \/ Destroy
    \/ Crash

Spec == Init /\ [][Next]_vars
------------------------------------------------------------------------------
TypeOK ==
    /\ pc \in Handling \cup {"closed", "filling"}
    /\ form \in Form /\ req \in Form
    /\ cache \in View \cup {Nothing}
    /\ vault \in [proxmox : Proxmox \cup {Nothing}, ssh : SSH \cup {Nothing},
                  dns : DNS \cup {Nothing}]
    /\ status \in Status
    /\ record \in Zones \cup {Blank}
    /\ hands \subseteq Fields
    /\ was \in [token : Secrets, tsig : Secrets, pub : Keys \cup {Blank}]
    /\ byo \in BOOLEAN /\ job \in BOOLEAN /\ blind \in BOOLEAN
    /\ lost \in BOOLEAN /\ overlap \in BOOLEAN /\ unread \in BOOLEAN

\* The two halves in Vault belong together, although the page shows one of them
\* and may have loaded it long ago: ansible logs in with the one (BuildInventory)
\* where terraform installed the other (BuildTfvars).
KeysMatch == There("ssh") => vault.ssh.pub = vault.ssh.priv

\* When the last path is put (initialize.go), Vault holds the form, and where a
\* secret was left blank what it held when the form was saved, whichever saves
\* failed half way before; an edit never makes a new key pair.  But for a DNS
\* secret that could not be read.
SavedAsAsked ==
    pc = "settle" =>
        /\ vault.proxmox = [plain |-> form.plain, token |-> Kept(form.token, was.token)]
        /\ vault.ssh.pub = Kept(form.pub, Kept(was.pub, Generated))
        /\ vault.dns.zone = form.zone
        /\ vault.dns.tsig = Kept(form.tsig, IF lost THEN Blank ELSE was.tsig)

\* A cluster that says "initialized" has DNS that answered the pre-flight
\* (initialize.go), or none.
DnsIsUsable ==
    status = "initialized" => There("dns") /\ (vault.dns.kind = "bind" => vault.dns.zone # Blank)

\* A cluster that is ready has the record its configuration asks for
\* (executor.go, writeWildcardDNS); but for a configuration that could not be
\* read, and a deploy that began during a save.
RecordIsThere ==
    status = "ready" /\ ~overlap /\ ~unread /\ There("dns") =>
        (vault.dns.kind = "bind" => record = vault.dns.zone)

\* initialize_get.go:60: "HandleGet returns the cluster's current initialize
\* values for re-edit".  So a setting in Vault changes only by the hand of the
\* operator, however often it goes to the page and back; but for a page that
\* could not load and shows homelabDefaults.
SettingsByHand ==
    [][There("proxmox") /\ There("proxmox")' /\ vault.proxmox.plain # vault'.proxmox.plain =>
          "plain" \in hands \/ blind]_vars

\* initialize.go:251-252: "If all four DNS fields are empty, the operator manages
\* DNS themselves; persist kind=none and skip the BIND pre-flight."
OptOutIsStored ==
    pc = "settle" /\ form.zone = Blank /\ form.tsig = Blank => vault.dns.kind = "none"

\* initialize_get.go:14-16: "the operator is free to retrieve and re-submit
\* non-secret values for edit".
ResubmitIsAccepted == pc = "check" /\ "key" \notin hands => Whole(req)

\* initialize_get.go:54-57: the wizard treats the secrets that are present as
\* "already-set; leave the form input blank to keep", network.tsig_secret too.
TsigIsKept == pc = "settle" => vault.dns.tsig = Kept(form.tsig, was.tsig)

\* InitializeForm.tsx:632: "When enabled, Bandolier writes a wildcard DNS record
\* at deploy time."
ManagedIsRecorded ==
    status = "ready" /\ ~overlap /\ There("dns") =>
        (vault.dns.kind = "bind" => record = vault.dns.zone)
==============================================================================
