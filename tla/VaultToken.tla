----------------------------- MODULE VaultToken ------------------------------
(***************************************************************************)
(* What the API process holds of Vault for as long as it lives: its own    *)
(* token, with the lifetime watcher that renews it and logs in again       *)
(* (api/internal/vault/init.go, lifetime.go), and the key that signs the   *)
(* WebSocket tokens (auth/ws_token.go, ws_handler.go, ws.go), read when    *)
(* main starts (cmd/api/main.go).                                          *)
(*                                                                         *)
(* Time passes in ticks (Elapse), between any two steps: a call has no      *)
(* duration of its own, and the back-off is a lower bound on the time      *)
(* between two logins.                                                     *)
(***************************************************************************)
EXTENDS Naturals

CONSTANTS LeaseTTL,     \* ticks a token lives when it is issued
          Grace,        \* the watcher may stop when no more than this is left: the grace
                        \* period of the SDK, and a sleep that would end in it
          Attempts,     \* maxAttempts of relogin
          MaxBackoff,   \* maxBackoff of relogin
          TicketLife,   \* wsTokenTTL
          MaxKeys,      \* bound: how often a signing key is drawn
          MaxOutages,   \* bound: how often Vault goes away
          MaxOutage,    \* an outage this long counts as any longer one
          MaxRestarts   \* bound: how often the API process is restarted

ASSUME LeaseAssumption == LeaseTTL \in Nat /\ Grace \in Nat /\ Grace < LeaseTTL /\ TicketLife \in Nat
ASSUME RetryAssumption == Attempts \in Nat \ {0} /\ MaxBackoff \in Nat \ {0}
ASSUME BoundAssumption ==
    MaxKeys \in Nat /\ MaxOutages \in Nat /\ MaxOutage \in Nat /\ MaxRestarts \in Nat

VARIABLES
    vaultUp,    \* Vault answers
    outages,    \* outages so far
    out,        \* ticks of the outage under way, up to MaxOutage
    longest,    \* the longest outage so far (history variable)
    stored,     \* the signing key in Vault, 0 when there is none
    proc,       \* the step of main: "login", "key", "put", "up"
    lease,      \* ticks the token of the process still has
    watcher,    \* "none", "watch", "relogin", or "gone"
    attempt,    \* the login relogin makes next
    backoff,    \* how long it waits after the next failure
    wait,       \* how long it still waits
    key,        \* the signing key of this process, 0 when it has none
    drawn,      \* signing keys drawn so far
    blind,      \* a start could not read the key and took it for missing (history)
    ticket,     \* a WebSocket token in a browser: its key and the ticks it has left
    restarts    \* restarts so far

vault  == <<vaultUp, outages, out, longest>>
retry  == <<attempt, backoff, wait>>
signing == <<stored, key, drawn, blind>>
vtVars == <<vault, proc, lease, watcher, retry, signing, ticket, restarts>>

Least(a, b) == IF a < b THEN a ELSE b
Less(n)     == IF n = 0 THEN 0 ELSE n - 1

\* A call with the token of the process gets through.
Answers == vaultUp /\ lease > 0

VTInit ==
    /\ vaultUp = TRUE /\ outages = 0 /\ out = 0 /\ longest = 0
    /\ stored = 0
    /\ proc = "login"
    /\ lease = 0
    /\ watcher = "none"
    /\ attempt = 1 /\ backoff = 1 /\ wait = 0
    /\ key = 0 /\ drawn = 0 /\ blind = FALSE
    /\ ticket = [key |-> 0, left |-> 0]
    /\ restarts = 0
------------------------------------------------------------------------------
(* The start of the process.  A login that fails ends it, and compose starts *)
(* it again: it is where it was.                                             *)

\* LoginAppRole, and StartLifetimeWatcher.
Login ==
    /\ proc = "login"
    /\ vaultUp
    /\ lease' = LeaseTTL
    /\ watcher' = "watch"
    /\ proc' = "key"
    /\ UNCHANGED <<vault, retry, signing, ticket, restarts>>

\* EnsureWSSigningKey: the key that is there,
GetKey ==
    /\ proc = "key"
    /\ Answers
    /\ stored # 0
    /\ key' = stored
    /\ proc' = "up"
    /\ UNCHANGED <<vault, lease, watcher, retry, stored, drawn, blind, ticket, restarts>>

\* or a new one, when there is none and also when the read fails, whatever the error.
DrawKey ==
    /\ proc = "key"
    /\ stored = 0 \/ ~Answers
    /\ drawn < MaxKeys
    /\ drawn' = drawn + 1
    /\ key' = drawn'
    /\ blind' = (blind \/ stored # 0)
    /\ proc' = "put"
    /\ UNCHANGED <<vault, lease, watcher, retry, stored, ticket, restarts>>

PutKey ==
    /\ proc = "put"
    /\ Answers
    /\ stored' = key
    /\ proc' = "up"
    /\ UNCHANGED <<vault, lease, watcher, retry, key, drawn, blind, ticket, restarts>>

\* The process is gone, and what it held.
Exit ==
    /\ proc' = "login"
    /\ lease' = 0
    /\ watcher' = "none"
    /\ attempt' = 1 /\ backoff' = 1 /\ wait' = 0
    /\ key' = 0

\* A process that serves with a key it could not store.
PutIgnored ==
    /\ proc = "put"
    /\ ~Answers
    /\ proc' = "up"
    /\ UNCHANGED <<vault, lease, watcher, retry, signing, ticket, restarts>>

\* os.Exit; the answer of a put that was done may be what was lost.
PutFails ==
    /\ proc = "put"
    /\ ~Answers
    /\ Exit
    /\ stored' = stored \/ (lease > 0 /\ stored' = key)
    /\ UNCHANGED <<vault, drawn, blind, ticket, restarts>>
------------------------------------------------------------------------------
(* runWatcherLoop.                                                           *)

\* The SDK renews; a token near its maximal lifetime gains less than LeaseTTL.
Renew ==
    /\ watcher = "watch"
    /\ Answers
    /\ lease' \in lease + 1 .. LeaseTTL
    /\ UNCHANGED <<vault, proc, watcher, retry, signing, ticket, restarts>>

\* DoneCh: the lease is near its end, or could not be renewed until then.
WatcherDone ==
    /\ watcher = "watch"
    /\ lease <= Grace
    /\ watcher' = "relogin"
    /\ attempt' = 1 /\ backoff' = 1 /\ wait' = 0
    /\ UNCHANGED <<vault, proc, lease, signing, ticket, restarts>>

Attempt == watcher = "relogin" /\ wait = 0 /\ attempt <= Attempts

\* A login whose token is not given to the client.
ReloginUnused ==
    /\ Attempt
    /\ vaultUp
    /\ watcher' = "watch"
    /\ UNCHANGED <<vault, proc, lease, retry, signing, ticket, restarts>>

ReloginSucceeds ==
    /\ Attempt
    /\ vaultUp
    /\ lease' = LeaseTTL
    /\ watcher' = "watch"
    /\ UNCHANGED <<vault, proc, retry, signing, ticket, restarts>>

\* A back-off that does not grow.
ReloginHastily ==
    /\ Attempt
    /\ ~vaultUp
    /\ attempt' = attempt + 1
    /\ wait' = backoff
    /\ UNCHANGED <<vault, proc, lease, watcher, backoff, signing, ticket, restarts>>

\* Every failure is slept on, the last one too.
ReloginFails ==
    /\ Attempt
    /\ ~vaultUp
    /\ attempt' = attempt + 1
    /\ wait' = backoff
    /\ backoff' = Least(2 * backoff, MaxBackoff)
    /\ UNCHANGED <<vault, proc, lease, watcher, signing, ticket, restarts>>

\* The goroutine returns; nothing starts it again, and the process serves on.
GiveUp ==
    /\ watcher = "relogin" /\ wait = 0
    /\ attempt > Attempts
    /\ watcher' = "gone"
    /\ UNCHANGED <<vault, proc, lease, retry, signing, ticket, restarts>>
------------------------------------------------------------------------------
\* POST /api/auth/ws-token.
Mint ==
    /\ proc = "up"
    /\ ticket.left = 0
    /\ ticket' = [key |-> key, left |-> TicketLife]
    /\ UNCHANGED <<vault, proc, lease, watcher, retry, signing, restarts>>

\* VerifyWSToken: the signature first, then the time.
Verifies == ticket.key = key /\ ticket.left > 0
------------------------------------------------------------------------------
(* Around the process.                                                       *)

Elapse ==
    /\ out' = IF vaultUp THEN 0 ELSE Least(out + 1, MaxOutage)
    /\ longest' = IF out' > longest THEN out' ELSE longest
    /\ lease' = Less(lease)
    /\ wait' = Less(wait)
    /\ ticket' = [ticket EXCEPT !.left = Less(@)]
    /\ UNCHANGED <<vaultUp, outages, proc, watcher, attempt, backoff, signing, restarts>>

\* Down, sealed, or not to be reached.
VaultDown ==
    /\ vaultUp
    /\ outages < MaxOutages
    /\ vaultUp' = FALSE
    /\ outages' = outages + 1
    /\ UNCHANGED <<out, longest, proc, lease, watcher, retry, signing, ticket, restarts>>

VaultUp ==
    /\ ~vaultUp
    /\ vaultUp' = TRUE
    /\ out' = 0
    /\ UNCHANGED <<outages, longest, proc, lease, watcher, retry, signing, ticket, restarts>>

Restart ==
    /\ restarts < MaxRestarts
    /\ restarts' = restarts + 1
    /\ Exit
    /\ UNCHANGED <<vault, stored, drawn, blind, ticket>>

Relogin == ReloginSucceeds \/ ReloginFails \/ GiveUp

VTNext ==
    \/ Login \/ GetKey \/ DrawKey \/ PutKey \/ PutFails
    \/ Renew \/ WatcherDone \/ Relogin
    \/ Mint
    \/ Elapse \/ VaultDown \/ VaultUp \/ Restart

\* compose starts the process again, its goroutine runs, and time goes on; no
\* renewal is promised, and Vault need not come back.
Fairness ==
    WF_vtVars(Login) /\ WF_vtVars(WatcherDone) /\ WF_vtVars(Relogin) /\ WF_vtVars(Elapse)

VTSpec == VTInit /\ [][VTNext]_vtVars /\ Fairness
------------------------------------------------------------------------------
(* Properties.                                                               *)

\* Types; the back-off keeps to its limit (lifetime.go:198-201).
VTTypeOK ==
    /\ vaultUp \in BOOLEAN
    /\ outages \in 0 .. MaxOutages
    /\ out \in 0 .. MaxOutage /\ longest \in 0 .. MaxOutage
    /\ stored \in 0 .. drawn /\ key \in 0 .. drawn
    /\ ticket \in [key : 0 .. drawn, left : 0 .. TicketLife]
    /\ proc \in {"login", "key", "put", "up"}
    /\ lease \in 0 .. LeaseTTL
    /\ watcher \in {"none", "watch", "relogin", "gone"}
    /\ attempt \in 1 .. Attempts + 1
    /\ backoff \in 1 .. MaxBackoff
    /\ wait \in 0 .. MaxBackoff
    /\ drawn \in 0 .. MaxKeys
    /\ blind \in BOOLEAN
    /\ restarts \in 0 .. MaxRestarts

\* The back-off of relogin: what has passed since the first attempt when the nth
\* is made, and what is slept when that fails.
Slept[n \in 1 .. Attempts] ==
    IF n = 1 THEN [passed |-> 0, delay |-> 1]
    ELSE [passed |-> Slept[n-1].passed + Slept[n-1].delay,
          delay |-> Least(2 * Slept[n-1].delay, MaxBackoff)]

\* The time between the first attempt and the last: 15 seconds for five attempts.
Patience == Slept[Attempts].passed

\* The clock of an outage does not stop before the watcher would have given up.
ASSUME OutageAssumption == MaxOutage >= Patience

\* The watcher does not give up for a single outage that is shorter than the
\* back-off between its attempts adds up to (lifetime.go:156-205): it takes a
\* longer one, or another outage at the time of a later attempt.
GivesUpLate == watcher = "gone" => longest >= Patience \/ outages > 1

\* Once Vault is back for good, the process has a live token again and again,
\* whether its renewals succeed or not (lifetime.go:66-76), unless its watcher
\* gave up before and nobody restarts the process.
TokenComesBack ==
    <>[]vaultUp => ([]<>(lease > 0) \/ <>[](watcher = "gone"))

\* A WebSocket token that has not expired is accepted, by the process that signed
\* it and by those after it (ws_token.go:77-80), unless a start could not read
\* the key that was there, and put another one in its place.
TicketsVerify == proc = "up" /\ ticket.left > 0 /\ ~blind => Verifies
==============================================================================
