-------------------------- MODULE ConfigFormProofs ---------------------------
(***************************************************************************)
(* ConfigForm keeps its types, and what a save leaves in Vault is the form *)
(* with the secrets that were there, whatever failed before, for every set *)
(* of settings, secrets and zones and every number of pages and saves.     *)
(***************************************************************************)
EXTENDS ConfigForm, TLAPS

\* A private key is on the page only if it was typed, and then its public half
\* was too, or is blank.
Paired(r) == r.pub # Blank /\ r.priv # Blank => r.pub = r.priv
FormInv   == form.priv \in {Own, Blank} /\ Paired(form) /\ (form.priv = Own => form.pub \in {Own, Blank})

\* A cluster that is pending has nothing in Vault.
PendingInv == status = "pending" => \A path \in {"proxmox", "ssh", "dns"} : ~There(path)

\* How far the handler has filled the request in.
TokenIs == req.token = Kept(form.token, was.token)
TsigIs  == req.tsig = Kept(form.tsig, IF lost THEN Blank ELSE was.tsig)
KeysAre == IF form.pub = Blank /\ form.priv = Blank
           THEN req.pub = was.pub /\ req.priv = was.pub
           ELSE req.pub = form.pub /\ req.priv = form.priv
MadeAre == /\ req.pub = req.priv /\ req.pub # Blank
           /\ req.pub = Kept(form.pub, Kept(was.pub, Generated))

StageInv ==
    /\ pc \in Handling => req.plain = form.plain /\ req.zone = form.zone
    /\ pc \in {"merge_proxmox", "merge_dns", "merge_ssh", "check", "put_proxmox"} => was = Stored
    /\ pc \in {"closed", "filling", "merge_proxmox", "merge_dns"} => ~lost
    /\ pc = "merge_proxmox" => req = form
    /\ pc = "merge_dns" => TokenIs /\ req.tsig = form.tsig
    /\ pc \in {"merge_dns", "merge_ssh"} => req.pub = form.pub /\ req.priv = form.priv
    /\ pc \in {"merge_ssh", "check", "settle"} \cup Putting => TokenIs /\ TsigIs
    /\ pc = "check" => KeysAre
    /\ pc \in Putting \cup {"settle"} => MadeAre /\ req.token # Blank
    /\ pc \in {"put_ssh", "put_dns", "settle"} =>
          vault.proxmox = [plain |-> req.plain, token |-> req.token]
    /\ pc \in {"put_dns", "settle"} => vault.ssh.pub = req.pub /\ There("ssh")
    /\ pc = "settle" =>
          vault.dns = [kind |-> Kind(req), zone |-> req.zone, tsig |-> req.tsig]

\* While a save puts, its cluster is neither initialized nor, but for a deploy
\* that began during the save, ready.
StatusInv ==
    /\ pc \in Putting \cup {"settle"} => status \notin {"pending", "initialized"}
    /\ pc \in Putting \cup {"settle"} /\ status = "ready" => overlap
    /\ job => (status = "deploying" /\ pc \notin Handling) \/ overlap

\* The types, part by part.
PageTypes ==
    /\ pc \in Handling \cup {"closed", "filling"}
    /\ form \in Form
    /\ cache \in View \cup {Nothing}
    /\ hands \subseteq Fields
    /\ blind \in BOOLEAN
HandlerTypes ==
    /\ req \in Form
    /\ was \in [token : Secrets, tsig : Secrets, pub : Keys \cup {Blank}]
    /\ byo \in BOOLEAN
    /\ lost \in BOOLEAN
VaultTypes ==
    /\ vault \in [proxmox : Proxmox \cup {Nothing}, ssh : SSH \cup {Nothing}, dns : DNS \cup {Nothing}]
DeployTypes ==
    /\ status \in Status
    /\ record \in Zones \cup {Blank}
    /\ job \in BOOLEAN
    /\ overlap \in BOOLEAN
    /\ unread \in BOOLEAN

Inv == /\ TypeOK /\ FormInv /\ PendingInv /\ KeysMatch /\ StageInv /\ StatusInv
       /\ DnsIsUsable /\ RecordIsThere
------------------------------------------------------------------------------
LEMMA TypeParts == TypeOK <=> PageTypes /\ HandlerTypes /\ VaultTypes /\ DeployTypes
BY DEF TypeOK, PageTypes, HandlerTypes, VaultTypes, DeployTypes

\* The first form, and a view with its blanks, are forms.
LEMMA FirstForms ==
    /\ FirstForm \in Form
    /\ NoSecrets \in [token : Secrets, tsig : Secrets, pub : Keys \cup {Blank}]
    /\ \A v \in View : Prefill(v) \in Form
BY DefaultAssumption DEF FirstForm, NoSecrets, Form, View, Prefill, Secrets, Keys

\* A form that is filled from a view has no private key.
LEMMA Prefills == \A v \in View : Prefill(v).priv = Blank /\ Prefill(v).pub = v.pub
BY DEF Prefill, FirstForm, View

\* What is typed into a form makes a form.
LEMMA FilledForms == ASSUME form \in Form, NEW g \in Fields PROVE Filled(g) \subseteq Form
<1>1. /\ \A x \in Plain : [form EXCEPT !.plain = x] \in Form
      /\ \A s \in Secrets : [form EXCEPT !.token = s] \in Form
  BY DEF Form
<1>2. /\ [form EXCEPT !.pub = Own, !.priv = Own] \in Form
      /\ [form EXCEPT !.pub = Blank] \in Form
      /\ [form EXCEPT !.priv = Blank] \in Form
  BY DEF Form, Keys
<1>3. \A d \in [zone : Zones \cup {Blank}, tsig : Secrets] :
          [form EXCEPT !.zone = d.zone, !.tsig = d.tsig] \in Form
  BY DEF Form
<1>4. CASE g = "plain"
  BY <1>1, <1>4 DEF Filled
<1>5. CASE g = "token"
  BY <1>1, <1>5 DEF Filled
<1>6. CASE g = "key"
  BY <1>2, <1>6 DEF Filled
<1>7. CASE g = "dns"
  BY <1>3, <1>7 DEF Filled
<1> QED
  BY <1>4, <1>5, <1>6, <1>7 DEF Fields

\* A step keeps the types of the page.
LEMMA PageTypeStep == TypeOK /\ [Next]_vars => PageTypes'
<1> SUFFICES ASSUME TypeOK, [Next]_vars PROVE PageTypes'
  OBVIOUS
<1> USE TypeParts DEF PageTypes
<1>1. CASE Load
  BY <1>1, FirstForms DEF Load, Shows
<1>2. CASE LoadFails \/ ShowCached
  BY <1>2, FirstForms, NothingAssumption DEF LoadFails, ShowCached, Shows
<1>3. CASE Refetch \/ Evict
  BY <1>3 DEF Refetch, Evict
<1>4. CASE Types
  <2>1. PICK g \in Fields : form' \in Filled(g) /\ hands' = hands \cup {g}
    BY <1>4 DEF Types
  <2>2. form' \in Form
    BY <2>1, FilledForms
  <2> QED
    BY <1>4, <2>1, <2>2 DEF Types
<1>5. CASE Leave \/ Settle
  BY <1>5, FirstForms DEF Leave, Settle, Closes
<1>6. CASE Save \/ MergeProxmox \/ MergeDns \/ MergeSsh \/ Accept
  BY <1>6 DEF Save, MergeProxmox, MergeDns, MergeSsh, Accept, page, Handling, Putting
<1>7. CASE MergeFails \/ Reject \/ PutFails \/ PreflightFails \/ Crash
  BY <1>7 DEF MergeFails, Reject, PutFails, PreflightFails, Crash, Refused, page
<1>8. CASE PutProxmox \/ PutSsh \/ PutDns
  BY <1>8 DEF PutProxmox, PutSsh, PutDns, PutPath, page, Handling, Putting
<1>9. CASE StartDeploy \/ WriteWildcardDNS \/ DeployFails \/ Destroy \/ UNCHANGED vars
  BY <1>9 DEF StartDeploy, WriteWildcardDNS, DeployFails, Destroy, vars, page
<1> QED
  BY <1>1, <1>2, <1>3, <1>4, <1>5, <1>6, <1>7, <1>8, <1>9 DEF Next, Page, Handle

\* A step keeps the types of the handler.
LEMMA HandlerTypeStep == TypeOK /\ [Next]_vars => HandlerTypes'
<1> SUFFICES ASSUME TypeOK, [Next]_vars PROVE HandlerTypes'
  OBVIOUS
<1> USE TypeParts DEF HandlerTypes
<1>1. CASE Page
  BY <1>1 DEF Page, Load, LoadFails, ShowCached, Shows, Refetch, Evict, Types, Leave, handler
<1>2. CASE Save
  <2>1. Stored \in [token : Secrets, tsig : Secrets, pub : Keys \cup {Blank}]
    BY DEF Stored, There, VaultTypes, Proxmox, SSH, DNS, Secrets
  <2> QED
    BY <1>2, <2>1 DEF Save, PageTypes
<1>3. CASE MergeProxmox
  <2>1. Kept(req.token, vault.proxmox.token) \in Secrets
    BY <1>3 DEF MergeProxmox, There, Kept, VaultTypes, Proxmox, Form, Secrets
  <2> QED
    BY <1>3, <2>1 DEF MergeProxmox, Form
<1>4. CASE MergeDns
  <2>1. There("dns") => Kept(req.tsig, vault.dns.tsig) \in Secrets
    BY DEF There, Kept, VaultTypes, DNS, Form, Secrets
  <2> QED
    BY <1>4, <2>1 DEF MergeDns, Form, There
<1>5. CASE MergeSsh
  <2>1. vault.ssh.pub \in Keys /\ vault.ssh.priv \in Keys
    BY <1>5 DEF MergeSsh, There, VaultTypes, SSH
  <2> QED
    BY <1>5, <2>1 DEF MergeSsh, Form
<1>6. CASE Accept
  <2>1. Kept(req.pub, Generated) \in Keys /\ Kept(req.priv, Generated) \in Keys
    BY DEF Kept, Form, Keys
  <2> QED
    BY <1>6, <2>1 DEF Accept, Form
<1>7. CASE MergeFails \/ Reject \/ PutFails \/ PreflightFails \/ Settle \/ Crash
  BY <1>7, FirstForms DEF MergeFails, Reject, PutFails, PreflightFails, Settle, Crash, Refused, Answered, handler
<1>8. CASE PutProxmox \/ PutSsh \/ PutDns
  BY <1>8 DEF PutProxmox, PutSsh, PutDns, PutPath, handler
<1>9. CASE StartDeploy \/ WriteWildcardDNS \/ DeployFails \/ Destroy \/ UNCHANGED vars
  BY <1>9 DEF StartDeploy, WriteWildcardDNS, DeployFails, Destroy, vars, handler
<1> QED
  BY <1>1, <1>2, <1>3, <1>4, <1>5, <1>6, <1>7, <1>8, <1>9 DEF Next, Handle

\* What a handler puts at a path has the type of the path.
LEMMA Contents ==
    ASSUME TypeOK, StageInv
    PROVE /\ pc \in Putting => Content("proxmox") \in Proxmox /\ Content("ssh") \in SSH
          /\ Content("dns") \in DNS
<1>1. pc \in Putting => req.token \in Typed /\ req.pub \in Keys /\ req.priv \in Keys
  BY DEF TypeOK, StageInv, MadeAre, Form, Secrets
<1> QED
  BY <1>1 DEF TypeOK, Content, Proxmox, SSH, DNS, Form, Kind

\* A step writes no path, or the one that is the handler's turn.
LEMMA Steps == [Next]_vars => \/ UNCHANGED vault
                              \/ pc \in Putting /\ \E path \in {"proxmox", "ssh", "dns"} :
                                     vault' = [vault EXCEPT ![path] = Content(path)]
<1> SUFFICES ASSUME [Next]_vars, ~UNCHANGED vault
             PROVE  pc \in Putting /\ \E path \in {"proxmox", "ssh", "dns"} :
                        vault' = [vault EXCEPT ![path] = Content(path)]
  OBVIOUS
<1>1. CASE PutProxmox \/ PutSsh \/ PutDns
  BY <1>1 DEF PutProxmox, PutSsh, PutDns, PutPath, Putting
<1>2. CASE PutFails
  BY <1>2 DEF PutFails, PathOf, Putting
<1> QED
  BY <1>1, <1>2 DEF Next, Page, Handle, Load, LoadFails, ShowCached, Shows, Refetch, Evict,
     Types, Leave, Save, MergeProxmox, MergeDns, MergeSsh, MergeFails, Accept, Reject, Settle,
     PreflightFails, StartDeploy, WriteWildcardDNS, DeployFails, Destroy, Crash, vars

\* A step keeps the types of the paths.
LEMMA VaultTypeStep == TypeOK /\ StageInv /\ [Next]_vars => VaultTypes'
<1> SUFFICES ASSUME TypeOK, StageInv, [Next]_vars PROVE VaultTypes'
  OBVIOUS
<1> USE TypeParts DEF VaultTypes
<1>1. CASE UNCHANGED vault
  BY <1>1
<1>2. CASE pc \in Putting /\ \E path \in {"proxmox", "ssh", "dns"} :
              vault' = [vault EXCEPT ![path] = Content(path)]
  BY <1>2, Contents
<1> QED
  BY <1>1, <1>2, Steps

\* A step keeps the types of the row and the record.
LEMMA DeployTypeStep == TypeOK /\ [Next]_vars => DeployTypes'
<1> SUFFICES ASSUME TypeOK, [Next]_vars PROVE DeployTypes'
  OBVIOUS
<1> USE TypeParts DEF DeployTypes, deploy, Status
<1>1. CASE Page
  BY <1>1 DEF Page, Load, LoadFails, ShowCached, Shows, Refetch, Evict, Types, Leave
<1>2. CASE Handle
  BY <1>2 DEF Handle, Save, MergeProxmox, MergeDns, MergeSsh, MergeFails, Accept, Reject,
     PutProxmox, PutSsh, PutDns, PutPath, PutFails, Settle, PreflightFails
<1>3. CASE StartDeploy
  BY <1>3 DEF StartDeploy
<1>4. There("dns") => vault.dns.zone \in Zones \cup {Blank}
  BY DEF There, VaultTypes, DNS
<1>5. CASE WriteWildcardDNS
  BY <1>4, <1>5 DEF WriteWildcardDNS, There
<1>6. CASE DeployFails
  BY <1>4, <1>6 DEF DeployFails, NotDeployed
<1>7. CASE Destroy \/ Crash
  BY <1>7 DEF Destroy, Crash, NotDeployed
<1>8. CASE UNCHANGED vars
  BY <1>8 DEF vars
<1> QED
  BY <1>1, <1>2, <1>3, <1>5, <1>6, <1>7, <1>8 DEF Next

\* A step keeps the types.
LEMMA TypeStep == TypeOK /\ StageInv /\ [Next]_vars => TypeOK'
<1> SUFFICES ASSUME TypeOK, StageInv, [Next]_vars PROVE TypeOK'
  OBVIOUS
<1>1. PageTypes' /\ HandlerTypes' /\ VaultTypes' /\ DeployTypes'
  BY PageTypeStep, HandlerTypeStep, VaultTypeStep, DeployTypeStep
<1> QED
  BY <1>1 DEF TypeOK, PageTypes, HandlerTypes, VaultTypes, DeployTypes
------------------------------------------------------------------------------
\* A step leaves no form with two halves of different pairs.
LEMMA FormStep == TypeOK /\ FormInv /\ [Next]_vars => FormInv'
<1> SUFFICES ASSUME TypeOK, FormInv, [Next]_vars PROVE FormInv'
  OBVIOUS
<1> USE BlankAssumption DEF FormInv, Paired, page, handler, deploy, FirstForm
<1>1. CASE Load
  BY <1>1, Prefills DEF Load, Shows, Keys
<1>2. CASE LoadFails
  BY <1>2 DEF LoadFails, Shows
<1>3. CASE ShowCached
  BY <1>3, Prefills DEF ShowCached, Shows, TypeOK, Keys
<1>4. CASE Refetch
  BY <1>4 DEF Refetch, Answers, ViewOf
<1>5. CASE Evict
  BY <1>5 DEF Evict
<1>6. CASE Types
  <2>1. PICK g \in Fields : form' \in Filled(g)
    BY <1>6 DEF Types
  <2>2. CASE g = "key"
    <3>1. \/ form' = [form EXCEPT !.pub = Own, !.priv = Own]
          \/ form' = [form EXCEPT !.pub = Blank]
          \/ form' = [form EXCEPT !.priv = Blank]
      BY <2>1, <2>2 DEF Filled
    <3> QED
      BY <3>1 DEF TypeOK, Form
  <2>3. CASE g # "key"
    <3>1. form'.pub = form.pub /\ form'.priv = form.priv
      <4>1. CASE g = "plain"
        BY <2>1, <4>1 DEF Filled, TypeOK, Form
      <4>2. CASE g = "token"
        BY <2>1, <4>2 DEF Filled, TypeOK, Form
      <4>3. CASE g = "dns"
        <5>1. \E d \in [zone : Zones \cup {Blank}, tsig : Secrets] :
                  form' = [form EXCEPT !.zone = d.zone, !.tsig = d.tsig]
          BY <2>1, <4>3 DEF Filled
        <5> QED
          BY <5>1 DEF TypeOK, Form
      <4> QED
        BY <2>3, <4>1, <4>2, <4>3 DEF Fields
    <3> QED
      BY <3>1
  <2> QED
    BY <2>2, <2>3
<1>7. CASE Leave
  BY <1>7 DEF Leave, Closes
<1>8. CASE Save
  BY <1>8 DEF Save
<1>9. CASE MergeProxmox
  BY <1>9 DEF MergeProxmox
<1>10. CASE MergeDns
  BY <1>10 DEF MergeDns
<1>11. CASE MergeSsh
  BY <1>11 DEF MergeSsh
<1>12. CASE MergeFails
  BY <1>12 DEF MergeFails, Refused, Answered
<1>13. CASE Accept
  BY <1>13 DEF Accept, Usable, Whole
<1>14. CASE Reject
  BY <1>14 DEF Reject, Refused, Answered
<1>15. CASE PutProxmox
  BY <1>15 DEF PutProxmox, PutPath, Content
<1>16. CASE PutSsh
  BY <1>16 DEF PutSsh, PutPath, Content
<1>17. CASE PutDns
  BY <1>17 DEF PutDns, PutPath, Content
<1>18. CASE PutFails
  BY <1>18 DEF PutFails, Refused, Answered, Content, PathOf, Putting
<1>19. CASE Settle
  BY <1>19 DEF Settle, Closes, Answered
<1>20. CASE PreflightFails
  BY <1>20 DEF PreflightFails, Refused, Answered
<1>21. CASE StartDeploy
  BY <1>21 DEF StartDeploy
<1>22. CASE WriteWildcardDNS
  BY <1>22 DEF WriteWildcardDNS
<1>23. CASE DeployFails
  BY <1>23 DEF DeployFails, NotDeployed
<1>24. CASE Destroy
  BY <1>24 DEF Destroy, NotDeployed
<1>25. CASE Crash
  BY <1>25 DEF Crash, NotDeployed, Refused, Answered
<1>26. CASE UNCHANGED vars
  BY <1>26 DEF vars
<1> QED
  BY <1>1, <1>2, <1>3, <1>4, <1>5, <1>6, <1>7, <1>8, <1>9, <1>10, <1>11, <1>12, <1>13,
     <1>14, <1>15, <1>16, <1>17, <1>18, <1>19, <1>20, <1>21, <1>22, <1>23, <1>24, <1>25,
     <1>26 DEF Next, Page, Handle

\* While nothing of a save moves, its stage stays.
LEMMA StageStays ==
    StageInv /\ UNCHANGED <<pc, form, req, was, lost, vault>> => StageInv'
BY DEF StageInv, Handling, Putting, Stored, There, TokenIs, TsigIs, KeysAre, MadeAre, Kept, Kind

\* A step leaves the request filled in as far as it should be.
LEMMA StageStep == TypeOK /\ FormInv /\ PendingInv /\ KeysMatch /\ StageInv /\ [Next]_vars => StageInv'
<1> SUFFICES ASSUME TypeOK, FormInv, PendingInv, KeysMatch, StageInv, [Next]_vars PROVE StageInv'
  OBVIOUS
<1> USE DEF page, handler
<1>1. CASE pc' \notin Handling
  <2>1. ~lost'
    BY <1>1 DEF Next, Page, Handle, Load, LoadFails, ShowCached, Shows, Refetch, Evict, Types, Leave,
       Save, MergeProxmox, MergeDns, MergeSsh, MergeFails, Accept, Reject, PutProxmox, PutSsh, PutDns,
       PutPath, PutFails, Settle, PreflightFails, Closes, Refused, Answered, Handling, Putting,
       StartDeploy, WriteWildcardDNS, DeployFails, Destroy, Crash, vars, StageInv, TypeOK
  <2> QED
    BY <1>1, <2>1 DEF StageInv, Handling, Putting
<1>2. CASE pc' \in Handling /\ Save
  <2>1. /\ pc' \in {"check", "merge_proxmox"} /\ req' = form /\ form' = form /\ vault' = vault
        /\ was' = Stored /\ Stored' = Stored
        /\ pc' = "check" => status = "pending"
    BY <1>2 DEF Save, Stored, There
  <2>2. lost' = FALSE
    BY <1>2 DEF Save, StageInv
  <2>3. CASE pc' = "merge_proxmox"
    BY <2>1, <2>2, <2>3 DEF StageInv, Handling, Putting
  <2>4. CASE pc' = "check"
    <3>1. was' = NoSecrets
      BY <2>1, <2>4 DEF PendingInv, Stored, NoSecrets
    <3>2. TokenIs' /\ TsigIs' /\ KeysAre'
      BY <2>1, <3>1 DEF TokenIs, TsigIs, KeysAre, NoSecrets, Kept
    <3> QED
      BY <2>1, <2>4, <3>2 DEF StageInv, Handling, Putting
  <2> QED
    BY <2>1, <2>3, <2>4
<1>3. CASE MergeProxmox
  <2>1. /\ pc = "merge_proxmox" /\ pc' = "merge_dns" /\ UNCHANGED <<form, vault, was, lost>>
        /\ req' = [req EXCEPT !.token = Kept(req.token, vault.proxmox.token)] /\ There("proxmox")
    BY <1>3 DEF MergeProxmox
  <2>2. was = Stored /\ was' = Stored' /\ req = form /\ ~lost
    BY <2>1 DEF StageInv, Stored, There
  <2>3. was.token = vault.proxmox.token
    BY <2>1, <2>2 DEF Stored
  <2>4. /\ req'.token = Kept(form.token, was.token)
        /\ req'.plain = form.plain /\ req'.zone = form.zone /\ req'.tsig = form.tsig
        /\ req'.pub = form.pub /\ req'.priv = form.priv
    BY <2>1, <2>2, <2>3 DEF TypeOK, Form
  <2> QED
    BY <2>1, <2>2, <2>4 DEF StageInv, Handling, Putting, TokenIs, Kept
<1>4. CASE MergeDns
  <2>1. pc = "merge_dns" /\ pc' = "merge_ssh" /\ UNCHANGED <<form, vault, was>>
    BY <1>4 DEF MergeDns
  <2>2. was = Stored /\ was' = Stored' /\ TokenIs /\ req.tsig = form.tsig /\ ~lost
    BY <2>1 DEF StageInv, Stored, There
  <2>3. /\ req'.token = req.token /\ req'.plain = req.plain /\ req'.zone = req.zone
        /\ req'.pub = req.pub /\ req'.priv = req.priv
    BY <1>4 DEF MergeDns, TypeOK, Form
  <2>4. TsigIs'
    <3>1. CASE There("dns") /\ req' = [req EXCEPT !.tsig = Kept(req.tsig, vault.dns.tsig)] /\ lost' = lost
      <4>1. was.tsig = vault.dns.tsig
        BY <2>2, <3>1 DEF Stored
      <4>2. req'.tsig = Kept(form.tsig, was.tsig)
        BY <2>2, <3>1, <4>1 DEF TypeOK, Form
      <4> QED
        BY <2>1, <2>2, <3>1, <4>2 DEF TsigIs, Kept
    <3>2. CASE lost' = There("dns") /\ req' = req
      <4>1. ~There("dns") => was.tsig = Blank
        BY <2>2 DEF Stored
      <4> QED
        BY <2>1, <2>2, <3>2, <4>1 DEF TsigIs, Kept
    <3> QED
      BY <1>4, <3>1, <3>2 DEF MergeDns
  <2>5. TokenIs'
    BY <2>1, <2>2, <2>3 DEF TokenIs, Kept
  <2> QED
    BY <2>1, <2>2, <2>3, <2>4, <2>5 DEF StageInv, Handling, Putting
<1>5. CASE MergeSsh
  <2>1. pc = "merge_ssh" /\ pc' = "check" /\ UNCHANGED <<form, vault, was, lost>> /\ There("ssh")
    BY <1>5 DEF MergeSsh
  <2>2. was = Stored /\ was' = Stored' /\ TokenIs /\ TsigIs /\ req.pub = form.pub /\ req.priv = form.priv
    BY <2>1 DEF StageInv, Stored, There
  <2>3. /\ req'.token = req.token /\ req'.plain = req.plain /\ req'.zone = req.zone
        /\ req'.tsig = req.tsig
    BY <1>5 DEF MergeSsh, TypeOK, Form
  <2>4. TokenIs' /\ TsigIs'
    BY <2>1, <2>2, <2>3 DEF TokenIs, TsigIs, Kept
  <2>5. was.pub = vault.ssh.pub /\ was.pub = vault.ssh.priv
    BY <2>1, <2>2 DEF Stored, KeysMatch
  <2>6. KeysAre'
    <3>1. CASE req.pub = Blank /\ req.priv = Blank
      <4>1. req'.pub = was.pub /\ req'.priv = was.pub
        BY <1>5, <2>5, <3>1 DEF MergeSsh, TypeOK, Form
      <4> QED
        BY <2>1, <2>2, <3>1, <4>1 DEF KeysAre
    <3>2. CASE ~(req.pub = Blank /\ req.priv = Blank)
      BY <1>5, <2>1, <2>2, <3>2 DEF MergeSsh, KeysAre
    <3> QED
      BY <3>1, <3>2
  <2> QED
    BY <2>1, <2>2, <2>3, <2>4, <2>6 DEF StageInv, Handling, Putting
<1>6. CASE Accept
  <2>1. /\ pc = "check" /\ pc' = "put_proxmox" /\ UNCHANGED <<form, vault, was, lost>>
        /\ Whole(req) /\ req.token # Blank
        /\ req' = [req EXCEPT !.pub = Kept(req.pub, Generated), !.priv = Kept(req.priv, Generated)]
    BY <1>6 DEF Accept, Usable
  <2>2. was = Stored /\ was' = Stored' /\ TokenIs /\ TsigIs /\ KeysAre
    BY <2>1 DEF StageInv, Stored, There
  <2>3. /\ req'.token = req.token /\ req'.plain = req.plain /\ req'.zone = req.zone
        /\ req'.tsig = req.tsig
        /\ req'.pub = Kept(req.pub, Generated) /\ req'.priv = Kept(req.priv, Generated)
    BY <2>1 DEF TypeOK, Form
  <2>4. TokenIs' /\ TsigIs'
    BY <2>1, <2>2, <2>3 DEF TokenIs, TsigIs, Kept
  <2>5. MadeAre'
    <3>1. CASE form.pub = Blank /\ form.priv = Blank
      BY <2>1, <2>2, <2>3, <3>1, BlankAssumption DEF KeysAre, MadeAre, Kept, Keys
    <3>2. CASE ~(form.pub = Blank /\ form.priv = Blank)
      BY <2>1, <2>2, <2>3, <3>2 DEF KeysAre, MadeAre, Kept, Whole, FormInv, Paired
    <3> QED
      BY <3>1, <3>2
  <2> QED
    BY <2>1, <2>2, <2>3, <2>4, <2>5 DEF StageInv, Handling, Putting
<1>7. CASE PutProxmox \/ PutSsh \/ PutDns
  <2>1. pc \in Putting /\ UNCHANGED <<form, req, was, lost>>
    BY <1>7 DEF PutProxmox, PutSsh, PutDns, PutPath, Putting
  <2>2. TokenIs' /\ TsigIs' /\ MadeAre'
    BY <2>1 DEF StageInv, Putting, TokenIs, TsigIs, MadeAre, Kept
  <2>3. CASE PutProxmox
    <3>1. vault'.proxmox = [plain |-> req.plain, token |-> req.token] /\ pc' = "put_ssh"
      BY <2>3 DEF PutProxmox, PutPath, Content, TypeOK
    <3> QED
      BY <2>1, <2>2, <3>1 DEF StageInv, Handling, Putting
  <2>4. CASE PutSsh
    <3>1. /\ vault'.proxmox = vault.proxmox /\ pc = "put_ssh" /\ pc' = "put_dns"
          /\ vault'.ssh = [pub |-> req.pub, priv |-> req.priv, byo |-> byo]
      BY <2>4 DEF PutSsh, PutPath, Content, TypeOK
    <3>2. vault'.ssh \in SSH
      BY <2>1, <3>1, Contents DEF Content
    <3>3. There("ssh")' /\ vault'.ssh.pub = req'.pub
      BY <2>1, <3>1, <3>2, NothingAssumption DEF There
    <3> QED
      BY <2>1, <2>2, <3>1, <3>3 DEF StageInv, Handling, Putting
  <2>5. CASE PutDns
    <3>1. /\ vault'.proxmox = vault.proxmox /\ vault'.ssh = vault.ssh /\ pc = "put_dns" /\ pc' = "settle"
          /\ vault'.dns = [kind |-> Kind(req), zone |-> req.zone, tsig |-> req.tsig]
      BY <2>5 DEF PutDns, PutPath, Content, TypeOK
    <3>2. Kind(req)' = Kind(req)
      BY <2>1 DEF Kind
    <3> QED
      BY <2>1, <2>2, <3>1, <3>2 DEF StageInv, Handling, Putting, There
  <2> QED
    BY <1>7, <2>3, <2>4, <2>5
<1>8. CASE pc' \in Handling /\ ~(Save \/ MergeProxmox \/ MergeDns \/ MergeSsh \/ Accept
                                 \/ PutProxmox \/ PutSsh \/ PutDns)
  <2>1. UNCHANGED <<pc, form, req, was, lost, vault>>
    BY <1>8 DEF Next, Page, Handle, Load, LoadFails, ShowCached, Shows, Refetch, Evict, Types, Leave,
       MergeFails, Reject, PutFails, Settle, PreflightFails, Closes, Refused, Handling, Putting,
       StartDeploy, WriteWildcardDNS, DeployFails, Destroy, Crash, vars
  <2> QED
    BY <2>1, StageStays
<1> QED
  BY <1>1, <1>2, <1>3, <1>4, <1>5, <1>6, <1>7, <1>8

\* A cluster that leaves "pending" never comes back, and is not written before.
LEMMA PendingStep == TypeOK /\ PendingInv /\ StatusInv /\ [Next]_vars => PendingInv'
<1> SUFFICES ASSUME TypeOK, PendingInv, StatusInv, [Next]_vars, status' = "pending"
             PROVE  UNCHANGED vault /\ status = "pending"
  BY DEF PendingInv, There
<1> USE DEF CanTransition, Allowed, StatusInv, Putting
<1>1. CASE Page
  BY <1>1 DEF Page, Load, LoadFails, ShowCached, Shows, Refetch, Evict, Types, Leave
<1>2. CASE Handle
  BY <1>2 DEF Handle, Save, MergeProxmox, MergeDns, MergeSsh, MergeFails, Accept, Reject, PutProxmox,
     PutSsh, PutDns, PutPath, PutFails, Settle, PreflightFails
<1>3. CASE StartDeploy \/ WriteWildcardDNS \/ DeployFails \/ Destroy \/ Crash \/ UNCHANGED vars
  BY <1>3 DEF StartDeploy, WriteWildcardDNS, DeployFails, Destroy, Crash, vars
<1> QED
  BY <1>1, <1>2, <1>3 DEF Next

\* The two halves that are put are a pair.
LEMMA KeysStep == TypeOK /\ StageInv /\ KeysMatch /\ [Next]_vars => KeysMatch'
<1> SUFFICES ASSUME TypeOK, StageInv, KeysMatch, [Next]_vars PROVE KeysMatch'
  OBVIOUS
<1>1. pc \in Putting => req.pub = req.priv
  BY DEF StageInv, MadeAre
<1>2. CASE UNCHANGED vault
  BY <1>2 DEF KeysMatch, There
<1>3. CASE pc \in Putting /\ \E path \in {"proxmox", "ssh", "dns"} :
              vault' = [vault EXCEPT ![path] = Content(path)]
  <2>1. PICK path \in {"proxmox", "ssh", "dns"} : vault' = [vault EXCEPT ![path] = Content(path)]
    BY <1>3
  <2>2. CASE path = "ssh"
    BY <1>1, <1>3, <2>1, <2>2 DEF Content, KeysMatch, TypeOK
  <2>3. CASE path # "ssh"
    BY <2>1, <2>3 DEF KeysMatch, There, TypeOK
  <2> QED
    BY <2>2, <2>3
<1> QED
  BY <1>2, <1>3, Steps

\* The status while a save puts.
LEMMA StatusStep == TypeOK /\ StatusInv /\ [Next]_vars => StatusInv'
<1> SUFFICES ASSUME TypeOK, StatusInv, [Next]_vars PROVE StatusInv'
  OBVIOUS
<1> USE DEF StatusInv, Putting, Handling, deploy, NotDeployed, CanTransition, Allowed
<1>1. CASE Page
  BY <1>1 DEF Page, Load, LoadFails, ShowCached, Shows, Refetch, Evict, Types, Leave, Closes
<1>2. CASE Save
  BY <1>2 DEF Save
<1>3. CASE MergeProxmox \/ MergeDns \/ MergeSsh
  BY <1>3 DEF MergeProxmox, MergeDns, MergeSsh
<1>4. CASE Accept
  BY <1>4 DEF Accept
<1>5. CASE MergeFails \/ Reject \/ PutFails \/ PreflightFails
  BY <1>5 DEF MergeFails, Reject, PutFails, PreflightFails, Refused
<1>6. CASE PutProxmox \/ PutSsh \/ PutDns
  BY <1>6 DEF PutProxmox, PutSsh, PutDns, PutPath
<1>7. CASE Settle
  BY <1>7 DEF Settle, Closes
<1>8. CASE StartDeploy
  BY <1>8 DEF StartDeploy
<1>9. CASE WriteWildcardDNS
  BY <1>9 DEF WriteWildcardDNS
<1>10. CASE DeployFails \/ Destroy
  BY <1>10 DEF DeployFails, Destroy
<1>11. CASE Crash
  BY <1>11 DEF Crash, Refused
<1>12. CASE UNCHANGED vars
  BY <1>12 DEF vars
<1> QED
  BY <1>1, <1>2, <1>3, <1>4, <1>5, <1>6, <1>7, <1>8, <1>9, <1>10, <1>11, <1>12 DEF Next, Handle

\* "initialized" is written after the pre-flight, and nothing is put while it
\* stands.
LEMMA DnsStep == TypeOK /\ StageInv /\ StatusInv /\ DnsIsUsable /\ [Next]_vars => DnsIsUsable'
<1> SUFFICES ASSUME TypeOK, StageInv, StatusInv, DnsIsUsable, [Next]_vars, status' = "initialized"
             PROVE  There("dns")' /\ (vault'.dns.kind = "bind" => vault'.dns.zone # Blank)
  BY DEF DnsIsUsable
<1>1. CASE status = "initialized"
  <2>1. pc \notin Putting
    BY <1>1 DEF StatusInv
  <2>2. UNCHANGED vault
    BY <2>1, Steps
  <2> QED
    BY <1>1, <2>2 DEF DnsIsUsable, There
<1>2. CASE status # "initialized"
  <2>1. Settle
    BY <1>2 DEF Next, Page, Handle, Load, LoadFails, ShowCached, Shows, Refetch, Evict, Types, Leave,
       Save, MergeProxmox, MergeDns, MergeSsh, MergeFails, Accept, Reject, PutProxmox, PutSsh, PutDns,
       PutPath, PutFails, PreflightFails, StartDeploy, WriteWildcardDNS, DeployFails, Destroy, Crash, vars
  <2>2. vault' = vault /\ vault.dns = [kind |-> Kind(req), zone |-> req.zone, tsig |-> req.tsig]
    BY <2>1 DEF Settle, StageInv
  <2>3. There("dns")
    BY <2>2, Contents, NothingAssumption DEF Content, There
  <2> QED
    BY <2>1, <2>2, <2>3 DEF Settle, There
<1> QED
  BY <1>1, <1>2

\* "ready" is written with the record, and nothing is put while it stands but
\* by a save that overlapped.
LEMMA RecordStep == TypeOK /\ StatusInv /\ RecordIsThere /\ [Next]_vars => RecordIsThere'
<1> SUFFICES ASSUME TypeOK, StatusInv, RecordIsThere, [Next]_vars, status' = "ready", ~overlap',
                    ~unread', There("dns")', vault'.dns.kind = "bind"
             PROVE  record' = vault'.dns.zone
  BY DEF RecordIsThere
<1>1. CASE WriteWildcardDNS
  BY <1>1 DEF WriteWildcardDNS, There
<1>2. CASE ~WriteWildcardDNS
  <2>1. status = "ready" /\ UNCHANGED <<record, overlap, unread>>
    BY <1>2 DEF Next, Page, Handle, Load, LoadFails, ShowCached, Shows, Refetch, Evict, Types, Leave,
       Save, MergeProxmox, MergeDns, MergeSsh, MergeFails, Accept, Reject, PutProxmox, PutSsh, PutDns,
       PutPath, PutFails, Settle, PreflightFails, StartDeploy, DeployFails, Destroy, Crash, deploy, vars,
       StatusInv, NotDeployed
  <2>2. pc \notin Putting
    BY <2>1 DEF StatusInv
  <2>3. UNCHANGED vault
    BY <2>2, Steps
  <2> QED
    BY <2>1, <2>3 DEF RecordIsThere, There
<1> QED
  BY <1>1, <1>2

\* What a save leaves at its end.
LEMMA Saved == StageInv => SavedAsAsked
BY DEF StageInv, SavedAsAsked, TokenIs, TsigIs, MadeAre, Handling
------------------------------------------------------------------------------
LEMMA Inits == Init => Inv
<1> SUFFICES ASSUME Init PROVE Inv
  OBVIOUS
<1> USE DEF Init, There
<1>1. TypeOK
  BY FirstForms, BlankAssumption DEF TypeOK, Status
<1>2. FormInv
  BY BlankAssumption DEF FormInv, Paired, FirstForm, Keys
<1>3. StageInv /\ StatusInv
  BY DEF StageInv, StatusInv, Handling, Putting
<1>4. PendingInv /\ KeysMatch /\ DnsIsUsable /\ RecordIsThere
  BY DEF PendingInv, KeysMatch, DnsIsUsable, RecordIsThere
<1> QED
  BY <1>1, <1>2, <1>3, <1>4 DEF Inv

\* The parts hold together: each step needs some of the others.
LEMMA Invariant == Spec => []Inv
<1>1. Inv /\ [Next]_vars => Inv'
  BY TypeStep, FormStep, StageStep, PendingStep, KeysStep, StatusStep, DnsStep, RecordStep DEF Inv
<1> QED
  BY Inits, <1>1, PTL DEF Spec

\* Every variable keeps its type; a token in Vault is never blank.
THEOREM TypeCorrect == Spec => []TypeOK
<1>1. Inv => TypeOK
  BY DEF Inv
<1> QED
  BY Invariant, <1>1, PTL

\* The two halves of the key pair in Vault belong together.
THEOREM PairsStay == Spec => []KeysMatch
<1>1. Inv => KeysMatch
  BY DEF Inv
<1> QED
  BY Invariant, <1>1, PTL

\* A save leaves the form, and where it was blank the secrets that were there.
THEOREM SavesAreFaithful == Spec => []SavedAsAsked
<1>1. Inv => SavedAsAsked
  BY Saved DEF Inv
<1> QED
  BY Invariant, <1>1, PTL

\* An initialized cluster has no DNS to manage, or DNS that answered.
THEOREM PreflightsHold == Spec => []DnsIsUsable
<1>1. Inv => DnsIsUsable
  BY DEF Inv
<1> QED
  BY Invariant, <1>1, PTL

\* A ready cluster has the record it asks for.
THEOREM RecordsAreThere == Spec => []RecordIsThere
<1>1. Inv => RecordIsThere
  BY DEF Inv
<1> QED
  BY Invariant, <1>1, PTL
==============================================================================
