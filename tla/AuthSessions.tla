---------------------------- MODULE AuthSessions -----------------------------
(***************************************************************************)
(* The one account of the program and its sessions: api/internal/auth      *)
(* (handlers.go, middleware.go, session.go, password.go) on the tables     *)
(* users and sessions (store/users.go, store/sessions.go).                 *)
(*                                                                         *)
(* One element of Requests is one HTTP request; what it asks for and what  *)
(* it sends along is chosen when it arrives.  Each statement on the        *)
(* database is one action, so setups, logins, logouts and changes of the   *)
(* password interleave between them as they do in the code.  A hash stands *)
(* for the password it was made of.  The session a login creates has the   *)
(* name of the login.                                                      *)
(***************************************************************************)
EXTENDS Naturals, Sequences

CONSTANTS Requests,     \* requests (bound: how many arrive in a behaviour)
          Passwords,    \* what people type
          Earlier,      \* the session of a login before the behaviour begins
          Nobody,       \* no cookie, no password
          TTL,          \* SessionTTLSeconds, in ticks
          MaxTime,      \* bound: how far the clock goes
          MaxCrashes    \* bound: how often the API process is restarted

ASSUME RequestAssumption  == Earlier \notin Requests /\ Nobody \notin Requests \cup {Earlier}
ASSUME PasswordAssumption == Nobody \notin Passwords
ASSUME TimeAssumption     == TTL \in Nat \ {0} /\ MaxTime \in Nat /\ MaxCrashes \in Nat

VARIABLES
    kind,       \* kind[r]: what r asks for, "none" until it arrives
    given,      \* given[r]: the password r claims to know
    wanted,     \* wanted[r]: the password r wants to set
    cookie,     \* cookie[r]: the session r presents
    pc,         \* pc[r]: the statement r makes next
    ctx,        \* ctx[r]: r.Context()
    outcome,    \* outcome[r]: what r has been answered
    users,      \* the hashes in users, by id
    row,        \* row[s]: the sessions row s is "none", "live" or "deleted"
    expires,    \* expires[s]: sessions.expires_at
    now,        \* the clock
    crashes,    \* restarts so far
    wrote,      \* wrote[r]: its write took effect (history variable)
    era,        \* era[r]: passwords of the account since r came (history)
    before      \* before[r]: requests that had ended when r came (history)

request == <<kind, given, wanted, cookie>>
history == <<wrote, era, before>>
vars == <<request, pc, ctx, outcome, users, row, expires, now, crashes, history>>

Kinds    == {"setup", "login", "logout", "change", "whoami"}
Sessions == Requests \cup {Earlier}
Ended    == {"done", "killed"}
Outcomes == {"none", "ok", "conflict", "invalid", "unauthenticated", "error"}

Live(r) == ctx[r] = "live"

\* GetSession: there is such a row and it has not expired.
Admits(s) == s \in Sessions /\ row[s] = "live" /\ expires[s] > now

\* The password of user 1, the only one Login looks at.
Account == IF users = <<>> THEN {} ELSE {users[1]}

Answer(r, a) == pc' = [pc EXCEPT ![r] = "done"] /\ outcome' = [outcome EXCEPT ![r] = a]
Goto(r, l)   == pc' = [pc EXCEPT ![r] = l] /\ UNCHANGED outcome

\* Its write took effect, and what the account was open to since the others came.
Record(r) ==
    /\ wrote' = [wrote EXCEPT ![r] = TRUE]
    /\ era' = [p \in Requests |-> IF pc[p] \in {"session", "user", "insert", "update"}
                                  THEN era[p] \cup Account' ELSE era[p]]
    /\ UNCHANGED before

Init ==
    /\ kind = [r \in Requests |-> "none"]
    /\ given = [r \in Requests |-> Nobody]
    /\ wanted = [r \in Requests |-> Nobody]
    /\ cookie = [r \in Requests |-> Nobody]
    /\ pc = [r \in Requests |-> "new"]
    /\ ctx = [r \in Requests |-> "live"]
    /\ outcome = [r \in Requests |-> "none"]
    /\ users \in {<<>>} \cup {<<p>> : p \in Passwords}
    /\ row = [s \in Sessions |-> IF s = Earlier /\ users # <<>> THEN "live" ELSE "none"]
    /\ expires = [s \in Sessions |-> IF s = Earlier THEN TTL ELSE 0]
    /\ now = 0
    /\ crashes = 0
    /\ wrote = [r \in Requests |-> FALSE]
    /\ era = [r \in Requests |-> {}]
    /\ before = [r \in Requests |-> {}]
------------------------------------------------------------------------------
(* Requests arrive.  A client presents a session it was told of; a request   *)
(* without one, or with a password that is too short, changes nothing and    *)
(* is left out.                                                              *)

Known == {Earlier} \cup {r \in Requests : kind[r] = "login" /\ outcome[r] = "ok"}

Sends(r, k, p, q, s) ==
    /\ kind' = [kind EXCEPT ![r] = k]
    /\ given' = [given EXCEPT ![r] = p]
    /\ wanted' = [wanted EXCEPT ![r] = q]
    /\ cookie' = [cookie EXCEPT ![r] = s]

\* The body and the cookie a request of each kind brings, and its first step.
Arrive(r) ==
    /\ pc[r] = "new"
    /\ \/ \E q \in Passwords : Sends(r, "setup", Nobody, q, Nobody) /\ Goto(r, "count")
       \/ \E p \in Passwords : Sends(r, "login", p, Nobody, Nobody) /\ Goto(r, "user")
       \/ \E s \in Known : Sends(r, "logout", Nobody, Nobody, s) /\ Goto(r, "delete")
       \/ \E s \in Known : Sends(r, "whoami", Nobody, Nobody, s) /\ Goto(r, "session")
       \/ \E p, q \in Passwords, s \in Known :
             Sends(r, "change", p, q, s) /\ Goto(r, "session")
    /\ era' = [era EXCEPT ![r] = IF kind'[r] \in {"login", "change"} THEN Account ELSE {}]
    /\ before' = [before EXCEPT ![r] = {p \in Requests : pc[p] \in Ended}]
    /\ UNCHANGED <<ctx, users, row, expires, now, crashes, wrote>>

\* The client goes away.
Disconnect(r) ==
    /\ pc[r] \notin Ended \cup {"new", "answer"}
    /\ ctx' = [ctx EXCEPT ![r] = "cancelled"]
    /\ UNCHANGED <<request, pc, outcome, users, row, expires, now, crashes, history>>

\* What a failed statement is answered with: RequireSession, and Login and
\* ChangePassword when they read the user, take every error for a 401.
FailureAnswer(r) ==
    CASE pc[r] = "session" -> "unauthenticated"
      [] pc[r] = "user"    -> "invalid"
      [] OTHER             -> "error"

\* A statement under a cancelled context fails; a write may also find the
\* database locked.  The handler answers and has changed nothing.
Fails(r) ==
    /\ \/ pc[r] \in {"count", "user", "session"} /\ ~Live(r)
       \/ pc[r] \in {"create", "insert", "update"}
    /\ Answer(r, FailureAnswer(r))
    /\ UNCHANGED <<request, ctx, users, row, expires, now, crashes, history>>
------------------------------------------------------------------------------
\* A setup that does not look for an earlier one.
CountNothing(r) ==
    /\ pc[r] = "count"
    /\ Live(r)
    /\ Goto(r, "create")
    /\ UNCHANGED <<request, ctx, users, row, expires, now, crashes, history>>

\* Setup: CountUsers; the password is hashed when there is none.
CountUsers(r) ==
    /\ pc[r] = "count"
    /\ Live(r)
    /\ IF users = <<>> THEN Goto(r, "create") ELSE Answer(r, "conflict")
    /\ UNCHANGED <<request, ctx, users, row, expires, now, crashes, history>>

\* CreateUser: INSERT with the next id, whatever rows there are.
CreateUser(r) ==
    /\ pc[r] = "create"
    /\ Live(r)
    /\ users' = Append(users, wanted[r])
    /\ Record(r)
    /\ Goto(r, "answer")
    /\ UNCHANGED <<request, ctx, row, expires, now, crashes>>

\* A comparison whose error is not looked at.
AcceptUser(r) ==
    /\ pc[r] = "user"
    /\ Live(r)
    /\ users # <<>>
    /\ Goto(r, IF kind[r] = "login" THEN "insert" ELSE "update")
    /\ UNCHANGED <<request, ctx, users, row, expires, now, crashes, history>>

\* GetUserByID(1) and the comparison: Login, and ChangePassword with the id
\* of its session, which a login took from the same row.
CompareUser(r) ==
    /\ pc[r] = "user"
    /\ Live(r)
    /\ IF given[r] \in Account
       THEN Goto(r, IF kind[r] = "login" THEN "insert" ELSE "update")
       ELSE Answer(r, "invalid")
    /\ UNCHANGED <<request, ctx, users, row, expires, now, crashes, history>>

\* CreateSession under a fresh id.
CreateSession(r) ==
    /\ pc[r] = "insert"
    /\ Live(r)
    /\ row' = [row EXCEPT ![r] = "live"]
    /\ expires' = [expires EXCEPT ![r] = now + TTL]
    /\ wrote' = [wrote EXCEPT ![r] = TRUE]
    /\ Goto(r, "answer")
    /\ UNCHANGED <<request, ctx, users, now, crashes, era, before>>

\* RequireSession, before whoami and before ChangePassword.
RequireSession(r) ==
    /\ pc[r] = "session"
    /\ Live(r)
    /\ IF ~Admits(cookie[r]) THEN Answer(r, "unauthenticated")
       ELSE IF kind[r] = "whoami" THEN Answer(r, "ok")
       ELSE Goto(r, "user")
    /\ UNCHANGED <<request, ctx, users, row, expires, now, crashes, history>>

\* A change that stores the hash of the password it has just compared.
UpdateToCurrent(r) ==
    /\ pc[r] = "update"
    /\ Live(r)
    /\ users' = [users EXCEPT ![1] = given[r]]
    /\ Record(r)
    /\ Goto(r, "answer")
    /\ UNCHANGED <<request, ctx, row, expires, now, crashes>>

\* UpdateUserPassword: the hash read before is not part of the condition.
UpdatePassword(r) ==
    /\ pc[r] = "update"
    /\ Live(r)
    /\ users' = [users EXCEPT ![1] = wanted[r]]
    /\ Record(r)
    /\ Goto(r, "answer")
    /\ UNCHANGED <<request, ctx, row, expires, now, crashes>>

\* A logout that takes the context of the request.
DeleteWhileConnected(r) ==
    /\ pc[r] = "delete"
    /\ row' = IF Live(r) /\ cookie[r] \in Sessions /\ row[cookie[r]] = "live"
              THEN [row EXCEPT ![cookie[r]] = "deleted"] ELSE row
    /\ wrote' = [wrote EXCEPT ![r] = TRUE]
    /\ Goto(r, "answer")
    /\ UNCHANGED <<request, ctx, users, expires, now, crashes, era, before>>

\* Logout: DELETE with a background context, also of a row that is not there.
DeleteSession(r) ==
    /\ pc[r] = "delete"
    /\ row' = IF cookie[r] \in Sessions /\ row[cookie[r]] = "live"
              THEN [row EXCEPT ![cookie[r]] = "deleted"] ELSE row
    /\ wrote' = [wrote EXCEPT ![r] = TRUE]
    /\ Goto(r, "answer")
    /\ UNCHANGED <<request, ctx, users, expires, now, crashes, era, before>>

\* Its error is ignored: the cookie is cleared and the answer is the same.
DeleteFails(r) ==
    /\ pc[r] = "delete"
    /\ Goto(r, "answer")
    /\ UNCHANGED <<request, ctx, users, row, expires, now, crashes, history>>

Respond(r) ==
    /\ pc[r] = "answer"
    /\ Answer(r, "ok")
    /\ UNCHANGED <<request, ctx, users, row, expires, now, crashes, history>>
------------------------------------------------------------------------------
Tick ==
    /\ now < MaxTime
    /\ now' = now + 1
    /\ UNCHANGED <<request, pc, ctx, outcome, users, row, expires, crashes, history>>

\* The process dies with its requests; users and sessions are on disk.
Crash ==
    /\ crashes < MaxCrashes
    /\ crashes' = crashes + 1
    /\ pc' = [r \in Requests |-> IF pc[r] \in {"new", "done"} THEN pc[r] ELSE "killed"]
    /\ UNCHANGED <<request, ctx, outcome, users, row, expires, now, history>>

Handle(r) ==
    \/ CountUsers(r) \/ CreateUser(r) \/ CompareUser(r) \/ CreateSession(r)
    \/ RequireSession(r) \/ UpdatePassword(r)
    \/ DeleteSession(r) \/ DeleteFails(r) \/ Fails(r) \/ Respond(r)

Next ==
    \/ \E r \in Requests : Arrive(r) \/ Disconnect(r) \/ Handle(r)
    \/ Tick
    \/ Crash

Spec == Init /\ [][Next]_vars
------------------------------------------------------------------------------
(* Properties.                                                              *)

PCs == {"new", "count", "create", "user", "insert", "session", "update",
        "delete", "answer"} \cup Ended

\* The values of the variables; more than one user needs as many setups.
TypeOK ==
    /\ kind \in [Requests -> Kinds \cup {"none"}]
    /\ given \in [Requests -> Passwords \cup {Nobody}]
    /\ wanted \in [Requests -> Passwords \cup {Nobody}]
    /\ cookie \in [Requests -> Sessions \cup {Nobody}]
    /\ pc \in [Requests -> PCs]
    /\ ctx \in [Requests -> {"live", "cancelled"}]
    /\ outcome \in [Requests -> Outcomes]
    /\ users \in Seq(Passwords)
    /\ row \in [Sessions -> {"none", "live", "deleted"}]
    /\ expires \in [Sessions -> Nat]
    /\ now \in Nat /\ crashes \in Nat
    /\ wrote \in [Requests -> BOOLEAN]
    /\ era \in [Requests -> SUBSET Passwords]
    /\ before \in [Requests -> SUBSET Requests]

\* Two setups create a user each only when they overlap: one that begins
\* after another has ended, even by the death of the process, finds its user
\* (CountUsers, handlers.go:39, and CreateUser, handlers.go:73, are two steps).
SetupsOverlap ==
    \A r, p \in Requests :
        kind[r] = "setup" /\ wrote[r] /\ kind[p] = "setup" /\ wrote[p] => r \notin before[p]

\* A session is created, and the password replaced, only for somebody who
\* knew a password the account had at some time while the request was served,
\* however many changes and setups ran meanwhile (handlers.go:97-128, 207-227).
PasswordWasKnown ==
    \A r \in Requests : kind[r] \in {"login", "change"} /\ wrote[r] => given[r] \in era[r]

Writers == {r \in Requests : kind[r] \in {"setup", "change"} /\ wrote[r]}

\* A password that was acknowledged opens the account, until a setup or a
\* change that did not end before it began has written its own: a write is
\* never undone by a login, a logout, a restart or an older request.
AcknowledgedPasswordWorks ==
    \A r \in Writers :
        outcome[r] = "ok" /\ Writers \ {r} \subseteq before[r] => wanted[r] \in Account

\* A logout is final: a request that begins after the logout has ended is not
\* admitted with that session, whether the client waited for the answer or the
\* process was restarted since; only a DELETE that failed, of which the answer
\* says nothing, leaves the session open (handlers.go:152).
LogoutIsFinal ==
    \A r, p \in Requests :
        /\ kind[r] = "logout" /\ wrote[r]
        /\ kind[p] \in {"whoami", "change"} /\ r \in before[p] /\ cookie[p] = cookie[r]
        => pc[p] \in {"new", "session", "killed"} \/ outcome[p] \in {"unauthenticated", "error"}

\* A session lasts: whoever presents one he was given, and waits for the answer,
\* is told to log in again only when its time is over, when a logout of that
\* session has begun, or, for the session of before, when there was none.
\* Changes of the password, logins, logouts of other sessions and restarts end
\* no session (middleware.go:22 takes every error for an expired session).
SessionsLast ==
    \A r \in Requests :
        outcome[r] = "unauthenticated" =>
            \/ ctx[r] = "cancelled"
            \/ row[cookie[r]] = "none"
            \/ expires[cookie[r]] <= now
            \/ \E p \in Requests : kind[p] = "logout" /\ cookie[p] = cookie[r]
------------------------------------------------------------------------------
(* What a comment says, and the code does not do.                           *)

\* handlers.go:83: the user a setup creates is the "first (and only) user".
OnlyUser == Len(users) <= 1
==============================================================================
