----------------------------- MODULE AuthProofs ------------------------------
(***************************************************************************)
(* Who is let in, and with what: the users and their sessions              *)
(* (AuthSessions), for every number of requests, passwords and restarts;   *)
(* then the process's own token and its signing key (VaultToken), for      *)
(* every lease, back-off, number of outages and restarts.  Neither module  *)
(* uses the other: what follows is two independent developments.           *)
(***************************************************************************)
EXTENDS AuthSessions, VaultToken, SequenceTheorems, WellFoundedInduction, TLAPS

\* Where a request is tells what it is, and what it has done so far.
Stages ==
    \A r \in Requests :
        /\ pc[r] = "new" => kind[r] = "none"
        /\ kind[r] \in {"setup", "change"} => wanted[r] \in Passwords
        /\ pc[r] \in {"count", "create"} => kind[r] = "setup"
        /\ pc[r] = "user" => kind[r] \in {"login", "change"}
        /\ pc[r] = "insert" => kind[r] = "login"
        /\ pc[r] = "session" => kind[r] \in {"whoami", "change"}
        /\ pc[r] = "update" => kind[r] = "change"
        /\ pc[r] = "delete" => kind[r] = "logout"
        /\ wrote[r] => pc[r] \in {"answer"} \cup Ended
        /\ outcome[r] # "none" => pc[r] = "done"

\* Who had ended when a request came does nothing any more.
Past == \A r, p \in Requests : r \in before[p] => pc[r] \in Ended

\* A setup that is about to create a user found none, and whoever has written
\* since was still under way when it came.
Late ==
    /\ \A r \in Writers : users # <<>>
    /\ \A p \in Requests : pc[p] = "create" =>
          /\ \A r \in Writers : r \notin before[p]
          /\ users # <<>> => \E r \in Writers : TRUE

\* The passwords of the account while a request was served.
Witnessed ==
    \A r \in Requests :
        /\ pc[r] \in {"session", "user", "insert", "update"} /\ kind[r] # "whoami" =>
              Account \subseteq era[r]
        /\ pc[r] \in {"insert", "update"} => given[r] \in era[r] /\ users # <<>>
        /\ kind[r] \in {"login", "change"} /\ wrote[r] => given[r] \in era[r]

\* The sessions that requests present, and those that were logged out.
Cookies ==
    /\ \A r \in Requests : kind[r] \in {"logout", "whoami", "change"} => cookie[r] \in Known
    /\ \A r \in Requests : kind[r] = "logout" /\ wrote[r] => row[cookie[r]] # "live"
    /\ \A s \in Sessions : row[s] = "deleted" =>
          \E r \in Requests : kind[r] = "logout" /\ cookie[r] = s

Inv == TypeOK /\ Stages /\ Past /\ Late /\ Witnessed /\ Cookies

------------------------------------------------------------------------------
\* Replacing the first element of a sequence, if it has one.
LEMMA FirstReplaced ==
    ASSUME NEW S, NEW s \in Seq(S), NEW e \in S
    PROVE  [s EXCEPT ![1] = e] \in Seq(S)
<1>1. PICK n \in Nat : s \in [1 .. n -> S]
  BY SeqDef
<1>2. [s EXCEPT ![1] = e] \in [1 .. n -> S]
  BY <1>1
<1> QED
  BY <1>2, SeqDef

\* The initial states are of the types TypeOK names.
LEMMA TypeInit == Init => TypeOK
<1> SUFFICES ASSUME Init PROVE TypeOK
  OBVIOUS
<1>1. users \in Seq(Passwords)
  <2>1. CASE users = <<>>
    BY <2>1
  <2>2. ASSUME NEW p \in Passwords, users = <<p>> PROVE users \in Seq(Passwords)
    BY <2>2
  <2> QED
    BY <2>1, <2>2 DEF Init
<1>2. row \in [Sessions -> {"none", "live", "deleted"}]
  BY DEF Init
<1>3. expires \in [Sessions -> Nat]
  BY TimeAssumption DEF Init
<1> QED
  BY <1>1, <1>2, <1>3 DEF Init, TypeOK, Kinds, PCs, Ended, Outcomes

\* Every step keeps the types; Stages tells which password a write finds.
LEMMA TypeStep == TypeOK /\ Stages /\ [Next]_vars => TypeOK'
<1> SUFFICES ASSUME TypeOK, Stages, [Next]_vars PROVE TypeOK'
  OBVIOUS
<1> USE DEF TypeOK, request, history, Goto, Answer, PCs, Ended, Outcomes
<1>1. ASSUME NEW r \in Requests, Arrive(r) PROVE TypeOK'
  <2>1. Known \subseteq Sessions /\ Account \subseteq Passwords
    BY DEF Known, Sessions, Account
  <2>2. era' \in [Requests -> SUBSET Passwords]
    <3>1. \E own \in SUBSET Passwords : era' = [era EXCEPT ![r] = own]
      BY <1>1, <2>1 DEF Arrive
    <3> QED
      BY <3>1
  <2>3. before' \in [Requests -> SUBSET Requests]
    BY <1>1 DEF Arrive
  <2>4. /\ kind' \in [Requests -> Kinds \cup {"none"}]
        /\ given' \in [Requests -> Passwords \cup {Nobody}]
        /\ wanted' \in [Requests -> Passwords \cup {Nobody}]
        /\ cookie' \in [Requests -> Sessions \cup {Nobody}]
        /\ pc' \in [Requests -> PCs]
    <3>1. PICK k \in Kinds, p, q \in Passwords \cup {Nobody}, c \in Sessions \cup {Nobody},
                l \in PCs : Sends(r, k, p, q, c) /\ Goto(r, l)
      BY <1>1, <2>1 DEF Arrive, Kinds
    <3> QED
      BY <3>1 DEF Sends
  <2> QED
    BY <1>1, <2>2, <2>3, <2>4 DEF Arrive
<1>2. ASSUME NEW r \in Requests, Disconnect(r) PROVE TypeOK'
  BY <1>2 DEF Disconnect
<1>3. ASSUME NEW r \in Requests, Fails(r) PROVE TypeOK'
  BY <1>3 DEF Fails, FailureAnswer, Outcomes
<1>4. ASSUME NEW r \in Requests, CountUsers(r) PROVE TypeOK'
  BY <1>4 DEF CountUsers
<1>5. ASSUME NEW r \in Requests, CreateUser(r) \/ UpdatePassword(r) PROVE TypeOK'
  <2>0. wanted[r] \in Passwords
    BY <1>5 DEF CreateUser, UpdatePassword, Stages
  <2>a. ASSUME CreateUser(r) PROVE users' \in Seq(Passwords)
    BY <2>0, <2>a DEF CreateUser
  <2>b. ASSUME UpdatePassword(r) PROVE users' \in Seq(Passwords)
    BY <2>0, <2>b, FirstReplaced DEF UpdatePassword
  <2>1. users' \in Seq(Passwords)
    BY <1>5, <2>a, <2>b
  <2>2. Account' \subseteq Passwords
    BY <2>1 DEF Account
  <2>3. Record(r) /\ pc' = [pc EXCEPT ![r] = "answer"]
        /\ UNCHANGED <<request, ctx, outcome, row, expires, now, crashes>>
    BY <1>5 DEF CreateUser, UpdatePassword
  <2>4. era' \in [Requests -> SUBSET Passwords] /\ wrote' \in [Requests -> BOOLEAN]
    BY <2>2, <2>3 DEF Record
  <2> QED
    BY <2>1, <2>3, <2>4 DEF Record
<1>6. ASSUME NEW r \in Requests, CompareUser(r) PROVE TypeOK'
  BY <1>6 DEF CompareUser
<1>7. ASSUME NEW r \in Requests, CreateSession(r) PROVE TypeOK'
  BY <1>7, TimeAssumption DEF CreateSession, Sessions
<1>8. ASSUME NEW r \in Requests, RequireSession(r) PROVE TypeOK'
  BY <1>8 DEF RequireSession
<1>9. ASSUME NEW r \in Requests, DeleteSession(r) PROVE TypeOK'
  BY <1>9 DEF DeleteSession
<1>10. ASSUME NEW r \in Requests, DeleteFails(r) PROVE TypeOK'
  BY <1>10 DEF DeleteFails
<1>14. ASSUME NEW r \in Requests, Respond(r) PROVE TypeOK'
  BY <1>14 DEF Respond
<1>11. CASE Tick
  BY <1>11 DEF Tick
<1>12. CASE Crash
  BY <1>12 DEF Crash
<1>13. CASE UNCHANGED vars
  BY <1>13 DEF vars
<1> QED
  BY <1>1, <1>2, <1>3, <1>4, <1>5, <1>6, <1>7, <1>8, <1>9, <1>10, <1>11, <1>12, <1>13,
     <1>14 DEF Next, Handle
------------------------------------------------------------------------------
\* The inductive invariant holds of a new and of a configured installation.
LEMMA InvInit == Init => Inv
<1> SUFFICES ASSUME Init PROVE Inv
  OBVIOUS
<1>1. Stages /\ Past /\ Late /\ Witnessed
  BY DEF Init, Stages, Past, Late, Witnessed, Writers
<1>2. Cookies
  BY DEF Init, Cookies
<1> QED
  BY TypeInit, <1>1, <1>2 DEF Inv

\* A step keeps every request where its kind allows.
LEMMA StagesStep == TypeOK /\ Stages /\ [Next]_vars => Stages'
<1> SUFFICES ASSUME TypeOK, Stages, [Next]_vars PROVE Stages'
  OBVIOUS
<1> USE DEF TypeOK, Stages, request, history, Goto, Answer, Ended
<1>1. ASSUME NEW r \in Requests, Arrive(r) PROVE Stages'
  BY <1>1 DEF Arrive, Sends
<1>2. ASSUME NEW r \in Requests, Disconnect(r) PROVE Stages'
  BY <1>2 DEF Disconnect
<1>3. ASSUME NEW r \in Requests, Fails(r) PROVE Stages'
  BY <1>3 DEF Fails
<1>4. ASSUME NEW r \in Requests, CountUsers(r) \/ CompareUser(r) PROVE Stages'
  BY <1>4 DEF CountUsers, CompareUser
<1>5. ASSUME NEW r \in Requests, CreateUser(r) \/ UpdatePassword(r) PROVE Stages'
  BY <1>5 DEF CreateUser, UpdatePassword, Record
<1>6. ASSUME NEW r \in Requests, CreateSession(r) \/ DeleteSession(r) PROVE Stages'
  BY <1>6 DEF CreateSession, DeleteSession
<1>7. ASSUME NEW r \in Requests, RequireSession(r) PROVE Stages'
  BY <1>7 DEF RequireSession
<1>8. ASSUME NEW r \in Requests, DeleteFails(r) \/ Respond(r) PROVE Stages'
  BY <1>8 DEF DeleteFails, Respond
<1>9. CASE Tick \/ Crash \/ UNCHANGED vars
  BY <1>9 DEF Tick, Crash, vars
<1> QED
  BY <1>1, <1>2, <1>3, <1>4, <1>5, <1>6, <1>7, <1>8, <1>9 DEF Next, Handle

\* What a step leaves alone of requests that have ended, and of the kind of
\* those that have come.
LEMMA EndedRests ==
    ASSUME TypeOK, Stages, [Next]_vars, NEW q \in Requests
    PROVE  /\ pc[q] \in Ended => pc'[q] = pc[q] /\ outcome'[q] = outcome[q] /\ wrote'[q] = wrote[q]
           /\ pc[q] # "new" => /\ kind'[q] = kind[q] /\ cookie'[q] = cookie[q]
                               /\ wanted'[q] = wanted[q] /\ given'[q] = given[q]
                               /\ before'[q] = before[q] /\ pc'[q] # "new"
<1> USE DEF TypeOK, Stages, request, history, Goto, Answer, Ended
<1>1. ASSUME NEW r \in Requests, Arrive(r) PROVE pc[r] = "new" /\ UNCHANGED wrote
             /\ \A p \in Requests \ {r} :
                  /\ pc'[p] = pc[p] /\ outcome'[p] = outcome[p] /\ kind'[p] = kind[p]
                  /\ cookie'[p] = cookie[p] /\ wanted'[p] = wanted[p] /\ given'[p] = given[p]
                  /\ before'[p] = before[p]
  BY <1>1 DEF Arrive, Sends
<1>2. ASSUME NEW r \in Requests, Handle(r) \/ Disconnect(r)
      PROVE  /\ pc[r] \notin Ended \cup {"new"} /\ pc'[r] # "new"
             /\ UNCHANGED <<request, before>>
             /\ \A p \in Requests \ {r} :
                   pc'[p] = pc[p] /\ outcome'[p] = outcome[p] /\ wrote'[p] = wrote[p]
  BY <1>2 DEF Handle, Disconnect, CountUsers, CreateUser, CompareUser, CreateSession,
     RequireSession, UpdatePassword, DeleteSession, DeleteFails, Fails, FailureAnswer, Respond, Record
<1>3. CASE Tick \/ Crash \/ UNCHANGED vars
  BY <1>3 DEF Tick, Crash, vars
<1> QED
  BY <1>1, <1>2, <1>3 DEF Next

\* Who had ended when a request came has still ended.
LEMMA PastStep == TypeOK /\ Stages /\ Past /\ [Next]_vars => Past'
<1> SUFFICES ASSUME TypeOK, Stages, Past, [Next]_vars,
                    NEW r \in Requests, NEW p \in Requests, r \in before'[p]
             PROVE  pc'[r] \in Ended
  BY DEF Past
<1>1. pc[r] \in Ended
  <2>1. CASE before'[p] = before[p]
    BY <2>1 DEF Past
  <2>2. CASE before'[p] # before[p]
    <3>1. Arrive(p)
      BY <2>2 DEF Next, Handle, Arrive, Disconnect, CountUsers, CreateUser, CompareUser, CreateSession,
         RequireSession, UpdatePassword, DeleteSession, DeleteFails, Fails, FailureAnswer, Respond, Record, Tick, Crash,
         vars, history, TypeOK
    <3> QED
      BY <3>1 DEF Arrive, TypeOK
  <2> QED
    BY <2>1, <2>2
<1> QED
  BY <1>1, EndedRests

\* Neither a setup nor a change leaves an empty table.
LEMMA UserStays ==
    ASSUME TypeOK, Stages, NEW r \in Requests
    PROVE  /\ CreateUser(r) => users' # <<>>
           /\ UpdatePassword(r) /\ users # <<>> => users' # <<>>
BY DEF CreateUser, UpdatePassword, TypeOK, Stages

\* A user created since a setup looked was created by a request it overlaps.
LEMMA LateStep ==
    TypeOK /\ Stages /\ Past /\ Late /\ Witnessed /\ [Next]_vars => Late'
<1> SUFFICES ASSUME TypeOK, Stages, Past, Late, Witnessed, [Next]_vars PROVE Late'
  OBVIOUS
<1> USE DEF TypeOK, Stages, Past, Late, Writers, request, history, Goto, Answer, Ended
<1>1. ASSUME NEW r \in Requests, Arrive(r) PROVE Late'
  <2>1. /\ pc[r] = "new" /\ pc'[r] # "create" /\ UNCHANGED <<users, wrote>>
        /\ \A q \in Requests \ {r} :
              pc'[q] = pc[q] /\ kind'[q] = kind[q] /\ before'[q] = before[q]
    BY <1>1 DEF Arrive, Sends
  <2>2. Writers' = Writers
    BY <2>1
  <2> QED
    BY <2>1, <2>2
<1>2. ASSUME NEW r \in Requests, Disconnect(r) \/ DeleteFails(r) \/ CompareUser(r) PROVE Late'
  BY <1>2 DEF Disconnect, DeleteFails, CompareUser
<1>3. ASSUME NEW r \in Requests, Fails(r) \/ Respond(r) PROVE Late'
  BY <1>3 DEF Fails, FailureAnswer, Respond
<1>4. ASSUME NEW r \in Requests, CountUsers(r) PROVE Late'
  BY <1>4 DEF CountUsers
<1>5. ASSUME NEW r \in Requests, CreateUser(r) PROVE Late'
  <2>1. users' # <<>>
    BY <1>5 DEF CreateUser
  <2> QED
    BY <1>5, <2>1 DEF CreateUser, Record
<1>6. ASSUME NEW r \in Requests, UpdatePassword(r) PROVE Late'
  <2>1. users # <<>> /\ users' # <<>>
    BY <1>6 DEF UpdatePassword, Witnessed, Account
  <2>2. Writers' = Writers \cup {r} /\ UNCHANGED before
    BY <1>6 DEF UpdatePassword, Record
  <2>3. pc' = [pc EXCEPT ![r] = "answer"] /\ pc[r] = "update"
    BY <1>6 DEF UpdatePassword
  <2>4. \A q \in Requests : pc'[q] = "create" => pc[q] = "create" /\ q # r /\ r \notin before[q]
    BY <2>3
  <2> QED
    BY <2>1, <2>2, <2>4
<1>7. ASSUME NEW r \in Requests, CreateSession(r) \/ DeleteSession(r) PROVE Late'
  <2>1. /\ pc' = [pc EXCEPT ![r] = "answer"] /\ UNCHANGED <<users, before, kind>>
        /\ wrote' = [wrote EXCEPT ![r] = TRUE] /\ kind[r] \in {"login", "logout"}
    BY <1>7 DEF CreateSession, DeleteSession
  <2>2. Writers' = Writers
    BY <2>1
  <2> QED
    BY <2>1, <2>2
<1>8. ASSUME NEW r \in Requests, RequireSession(r) PROVE Late'
  BY <1>8 DEF RequireSession
<1>9. CASE Tick \/ Crash \/ UNCHANGED vars
  BY <1>9 DEF Tick, Crash, vars
<1> QED
  BY <1>1, <1>2, <1>3, <1>4, <1>5, <1>6, <1>7, <1>8, <1>9 DEF Next, Handle

\* era[r] keeps up with the account for as long as r may still compare or write.
LEMMA WitnessedStep == TypeOK /\ Stages /\ Witnessed /\ [Next]_vars => Witnessed'
<1> SUFFICES ASSUME TypeOK, Stages, Witnessed, [Next]_vars PROVE Witnessed'
  OBVIOUS
<1> USE DEF TypeOK, Stages, Witnessed, request, history, Goto, Answer, Ended
<1>1. ASSUME NEW r \in Requests, Arrive(r) PROVE Witnessed'
  <2>1. /\ pc[r] = "new" /\ pc'[r] \notin {"insert", "update"} /\ UNCHANGED <<users, wrote>>
        /\ \A q \in Requests \ {r} : /\ pc'[q] = pc[q] /\ kind'[q] = kind[q]
                                      /\ given'[q] = given[q] /\ era'[q] = era[q]
        /\ kind'[r] \in {"login", "change"} => era'[r] = Account
        /\ pc'[r] \in {"session", "user"} => kind'[r] \in {"login", "change", "whoami"}
    BY <1>1 DEF Arrive, Sends
  <2>2. Account' = Account /\ ~wrote[r]
    BY <2>1 DEF Account
  <2> QED
    BY <2>1, <2>2
<1>2. ASSUME NEW r \in Requests,
             Disconnect(r) \/ DeleteFails(r) \/ CountUsers(r) \/ Fails(r) \/ Respond(r)
             \/ CompareUser(r) \/ RequireSession(r)
      PROVE Witnessed'
  <2>1. /\ UNCHANGED <<users, wrote, kind, given, era>>
        /\ \A q \in Requests \ {r} : pc'[q] = pc[q]
        /\ pc'[r] \in {"insert", "update"} =>
              pc'[r] = pc[r] \/ (given[r] \in Account /\ pc[r] = "user")
        /\ pc'[r] \in {"session", "user"} => pc[r] \in {"session", "user"}
    <3>1. CASE Disconnect(r) \/ DeleteFails(r)
      BY <3>1 DEF Disconnect, DeleteFails
    <3>2. CASE Fails(r) \/ Respond(r)
      BY <3>2 DEF Fails, FailureAnswer, Respond
    <3>3. CASE CountUsers(r) \/ CompareUser(r)
      BY <3>3 DEF CountUsers, CompareUser
    <3>4. CASE RequireSession(r)
      BY <3>4 DEF RequireSession
    <3> QED
      BY <1>2, <3>1, <3>2, <3>3, <3>4
  <2>2. Account' = Account /\ (Account # {} => users # <<>>)
    BY <2>1 DEF Account
  <2> QED
    BY <2>1, <2>2
<1>5. ASSUME NEW r \in Requests, CreateUser(r) \/ UpdatePassword(r) PROVE Witnessed'
  <2>1. Record(r) /\ pc' = [pc EXCEPT ![r] = "answer"] /\ UNCHANGED request
    BY <1>5 DEF CreateUser, UpdatePassword
  <2>2. /\ \A q \in Requests : era[q] \subseteq era'[q]
        /\ \A q \in Requests : pc[q] \in {"session", "user", "insert", "update"}
              => Account' \subseteq era'[q]
    BY <2>1 DEF Record
  <2>3. wrote' = [wrote EXCEPT ![r] = TRUE]
    BY <2>1 DEF Record
  <2>4. users # <<>> => users' # <<>>
    BY <1>5, UserStays
  <2>5. kind[r] \in {"setup", "change"} /\ (kind[r] = "change" => given[r] \in era[r])
    BY <1>5 DEF CreateUser, UpdatePassword
  <2> QED
    BY <2>1, <2>2, <2>3, <2>4, <2>5
<1>7. ASSUME NEW r \in Requests, CreateSession(r) \/ DeleteSession(r) PROVE Witnessed'
  <2>1. /\ pc' = [pc EXCEPT ![r] = "answer"] /\ UNCHANGED <<users, kind, given, era>>
        /\ wrote' = [wrote EXCEPT ![r] = TRUE]
        /\ kind[r] = "logout" \/ given[r] \in era[r]
    BY <1>7 DEF CreateSession, DeleteSession
  <2>2. Account' = Account
    BY <2>1 DEF Account
  <2> QED
    BY <2>1, <2>2
<1>9. CASE Tick \/ Crash \/ UNCHANGED vars
  <2>1. /\ UNCHANGED <<users, wrote, kind, given, era>>
        /\ \A q \in Requests : pc'[q] \in {pc[q], "killed"}
    BY <1>9 DEF Tick, Crash, vars
  <2>2. Account' = Account
    BY <2>1 DEF Account
  <2> QED
    BY <2>1, <2>2
<1> QED
  BY <1>1, <1>2, <1>5, <1>7, <1>9 DEF Next, Handle

\* A session that a client was told of is not created again, and its row
\* changes only by a logout with that session.
LEMMA CookiesStep == TypeOK /\ Stages /\ Cookies /\ [Next]_vars => Cookies'
<1> SUFFICES ASSUME TypeOK, Stages, Cookies, [Next]_vars PROVE Cookies'
  OBVIOUS
<1> USE DEF TypeOK, Stages, Cookies, request, history, Goto, Answer, Ended
<1>0. Known \subseteq Sessions
  BY DEF Known, Sessions
<1>1. ASSUME NEW r \in Requests, Arrive(r) PROVE Cookies'
  <2>1. /\ pc[r] = "new" /\ UNCHANGED <<row, wrote, outcome>>
        /\ \A q \in Requests \ {r} : kind'[q] = kind[q] /\ cookie'[q] = cookie[q]
        /\ kind'[r] \in {"logout", "whoami", "change"} => cookie'[r] \in Known
    BY <1>1 DEF Arrive, Sends
  <2>2. Known \subseteq Known' /\ kind[r] = "none" /\ ~wrote[r]
    BY <2>1 DEF Known
  <2>3. \A s \in Sessions : row'[s] = "deleted" =>
          \E q \in Requests : kind'[q] = "logout" /\ cookie'[q] = s
    <3> SUFFICES ASSUME NEW s \in Sessions, row[s] = "deleted"
                 PROVE  \E q \in Requests : kind'[q] = "logout" /\ cookie'[q] = s
      BY <2>1
    <3>1. \A t \in Sessions : row[t] = "deleted" => \E q \in Requests : kind[q] = "logout" /\ cookie[q] = t
      BY DEF Cookies
    <3>2. PICK q \in Requests : kind[q] = "logout" /\ cookie[q] = s
      BY <3>1, Zenon
    <3>3. q # r
      BY <2>2, <3>2
    <3>4. kind'[q] = "logout" /\ cookie'[q] = s
      BY <2>1, <3>2, <3>3
    <3> QED
      BY <3>4, Zenon
  <2>4. \A q \in Requests : kind'[q] \in {"logout", "whoami", "change"} => cookie'[q] \in Known'
    BY <2>1, <2>2
  <2>5. \A q \in Requests : kind'[q] = "logout" /\ wrote'[q] => row'[cookie'[q]] # "live"
    BY <2>1, <2>2
  <2> QED
    BY <2>3, <2>4, <2>5
<1>2. ASSUME NEW r \in Requests, CreateSession(r) PROVE Cookies'
  <2>1. /\ row' = [row EXCEPT ![r] = "live"] /\ r \notin Known
        /\ wrote' = [wrote EXCEPT ![r] = TRUE] /\ kind[r] = "login"
        /\ UNCHANGED <<kind, cookie, outcome>>
    <3>1. pc[r] = "insert" /\ UNCHANGED <<kind, cookie, outcome>>
      BY <1>2 DEF CreateSession
    <3>2. kind[r] = "login" /\ outcome[r] = "none"
      BY <3>1
    <3>3. r \notin Known
      BY <3>2, RequestAssumption DEF Known
    <3> QED
      BY <1>2, <3>1, <3>2, <3>3 DEF CreateSession
  <2>2. Known' = Known
    BY <2>1 DEF Known
  <2> QED
    BY <1>0, <2>1, <2>2
<1>3. ASSUME NEW r \in Requests, DeleteSession(r) PROVE Cookies'
  <2>1. /\ \A s \in Sessions : row'[s] = IF s = cookie[r] /\ row[s] = "live" THEN "deleted" ELSE row[s]
        /\ wrote' = [wrote EXCEPT ![r] = TRUE] /\ kind[r] = "logout"
        /\ UNCHANGED <<kind, cookie, outcome>>
    BY <1>3 DEF DeleteSession
  <2>2. Known' = Known
    BY <2>1 DEF Known
  <2> QED
    BY <1>0, <2>1, <2>2
<1>4. ASSUME NEW r \in Requests, CreateUser(r) \/ UpdatePassword(r) PROVE Cookies'
  <2>1. /\ wrote' = [wrote EXCEPT ![r] = TRUE] /\ kind[r] \in {"setup", "change"}
        /\ UNCHANGED <<row, kind, cookie, outcome>>
    BY <1>4 DEF CreateUser, UpdatePassword, Record
  <2>2. Known' = Known
    BY <2>1 DEF Known
  <2> QED
    BY <2>1, <2>2
<1>5. ASSUME NEW r \in Requests,
             Disconnect(r) \/ DeleteFails(r) \/ CountUsers(r) \/ Fails(r) \/ Respond(r)
             \/ CompareUser(r) \/ RequireSession(r)
      PROVE Cookies'
  <2>1. UNCHANGED <<row, wrote, kind, cookie>>
    BY <1>5 DEF Disconnect, DeleteFails, CountUsers, Fails, FailureAnswer, Respond, CompareUser, RequireSession
  <2>2. /\ outcome[r] = "none"
        /\ \A q \in Requests \ {r} : outcome'[q] = outcome[q]
    BY <1>5 DEF Disconnect, DeleteFails, CountUsers, Fails, FailureAnswer, Respond, CompareUser, RequireSession
  <2>3. Known \subseteq Known'
    BY <2>1, <2>2 DEF Known
  <2> QED
    BY <2>1, <2>3
<1>6. CASE Tick \/ Crash \/ UNCHANGED vars
  <2>1. UNCHANGED <<row, wrote, kind, cookie, outcome>>
    BY <1>6 DEF Tick, Crash, vars
  <2>2. Known' = Known
    BY <2>1 DEF Known
  <2> QED
    BY <2>1, <2>2
<1> QED
  BY <1>1, <1>2, <1>3, <1>4, <1>5, <1>6 DEF Next, Handle

\* The invariant is inductive.
LEMMA InvStep == Inv /\ [Next]_vars => Inv'
BY TypeStep, StagesStep, PastStep, LateStep, WitnessedStep, CookiesStep DEF Inv

\* Every variable keeps its type.
THEOREM TypeCorrect == Spec => []TypeOK
<1>1. Inv => TypeOK
  BY DEF Inv
<1> QED
  BY InvInit, InvStep, <1>1, PTL DEF Spec

\* A login or a change that took effect knew a password of the account of its
\* time (handlers.go:97-128, 207-227).
THEOREM PasswordsAreKnown == Spec => []PasswordWasKnown
<1>1. Inv => PasswordWasKnown
  BY DEF Inv, Witnessed, PasswordWasKnown
<1> QED
  BY InvInit, InvStep, <1>1, PTL DEF Spec

\* Two setups create a user each only when they overlap (handlers.go:39, 73).
\* Whoever had ended when a setup came has left a user for CountUsers to find.
THEOREM SetupsAreSerial == Spec => []SetupsOverlap
<1>1. Init => SetupsOverlap
  BY DEF Init, SetupsOverlap
<1>2. Inv /\ SetupsOverlap /\ [Next]_vars => SetupsOverlap'
  <2> SUFFICES ASSUME Inv, SetupsOverlap, [Next]_vars,
                      NEW r \in Requests, NEW p \in Requests,
                      kind'[r] = "setup", wrote'[r], kind'[p] = "setup", wrote'[p],
                      r \in before'[p]
               PROVE  FALSE
    BY DEF SetupsOverlap
  <2> USE DEF Inv, TypeOK, Stages, Past, Late, Writers, Ended
  <2>1. pc'[p] \in {"answer", "done", "killed"} /\ pc[p] # "new"
    <3>1. Stages'
      BY StagesStep
    <3>2. pc'[p] \in {"answer", "done", "killed"}
      BY <3>1
    <3>3. CASE pc[p] = "new"
      BY <3>2, <3>3 DEF Next, Handle, Arrive, Sends, Goto, Disconnect, CountUsers, CreateUser,
         CompareUser, CreateSession, RequireSession, UpdatePassword, DeleteSession, DeleteFails,
         Fails, FailureAnswer, Respond, Tick, Crash, vars, Answer, request
    <3> QED
      BY <3>2, <3>3
  <2>2. kind[p] = "setup" /\ before'[p] = before[p]
    BY <2>1, EndedRests
  <2>3. pc[r] \in Ended /\ wrote[r] /\ kind[r] = "setup"
    BY <2>2, EndedRests
  <2>4. CASE wrote[p]
    BY <2>2, <2>3, <2>4 DEF SetupsOverlap
  <2>5. CASE ~wrote[p]
    <3>1. pc[p] = "create"
      BY <2>2, <2>5 DEF Next, Handle, Arrive, Sends, Goto, Disconnect, CountUsers, CreateUser,
         CompareUser, CreateSession, RequireSession, UpdatePassword, DeleteSession, DeleteFails,
         Fails, FailureAnswer, Respond, Record, Tick, Crash, vars, history
    <3> QED
      BY <3>1, <2>2, <2>3
  <2> QED
    BY <2>4, <2>5
<1>3. Inv /\ SetupsOverlap /\ [Next]_vars => (Inv /\ SetupsOverlap)'
  BY InvStep, <1>2
<1> QED
  BY InvInit, <1>1, <1>3, PTL DEF Spec

\* A password that was acknowledged opens the account until a request that did
\* not end before it has written its own (handlers.go:73, 227).
WrittenPasswordWorks ==
    \A r \in Writers : Writers \ {r} \subseteq before[r] => users # <<>> /\ users[1] = wanted[r]

\* A write that follows all others stands, and it stands as user 1.
LEMMA WrittenStep == Inv /\ WrittenPasswordWorks /\ [Next]_vars => WrittenPasswordWorks'
<1> SUFFICES ASSUME Inv, WrittenPasswordWorks, [Next]_vars, NEW r \in Writers',
                    Writers' \ {r} \subseteq before'[r]
             PROVE  users' # <<>> /\ users'[1] = wanted'[r]
  BY DEF WrittenPasswordWorks
<1> USE DEF Inv, TypeOK, Stages, Past, Late, Ended, request, history, Goto, Answer
<1>0. r \in Requests
  BY DEF Writers
<1>1. ASSUME NEW q \in Requests, CreateUser(q) \/ UpdatePassword(q)
      PROVE  users' # <<>> /\ users'[1] = wanted'[r]
  <2>1. /\ Writers' = Writers \cup {q} /\ q \notin Writers /\ UNCHANGED <<wanted, before>>
    <3>1. /\ wrote' = [wrote EXCEPT ![q] = TRUE] /\ UNCHANGED <<kind, wanted, before>>
          /\ kind[q] \in {"setup", "change"} /\ ~wrote[q]
      BY <1>1 DEF CreateUser, UpdatePassword, Record
    <3> QED
      BY <3>1 DEF Writers
  <2>2. r = q
    <3>1. q \notin before[r]
      BY <1>0, <1>1 DEF CreateUser, UpdatePassword
    <3> QED
      BY <2>1, <3>1
  <2>3. CASE UpdatePassword(q)
    <3>1. users # <<>>
      BY <2>3 DEF UpdatePassword, Witnessed
    <3> QED
      BY <2>1, <2>2, <2>3, <3>1 DEF UpdatePassword
  <2>4. CASE CreateUser(q)
    <3>1. Writers = {}
      BY <2>1, <2>2, <2>4 DEF CreateUser
    <3>2. users = <<>>
      BY <2>4, <3>1 DEF CreateUser
    <3>3. wanted[q] \in Passwords
      BY <2>4 DEF CreateUser
    <3> QED
      BY <2>1, <2>2, <2>4, <3>2, <3>3 DEF CreateUser
  <2> QED
    BY <1>1, <2>3, <2>4
<1>2. ASSUME NEW q \in Requests, Arrive(q)
      PROVE  users' # <<>> /\ users'[1] = wanted'[r]
  <2>1. /\ pc[q] = "new" /\ UNCHANGED <<users, wrote>>
        /\ \A p \in Requests \ {q} : /\ kind'[p] = kind[p] /\ wanted'[p] = wanted[p]
                                      /\ before'[p] = before[p]
    BY <1>2 DEF Arrive, Sends
  <2>2. Writers' = Writers /\ r # q
    BY <2>1 DEF Writers
  <2> QED
    BY <1>0, <2>1, <2>2 DEF WrittenPasswordWorks
<1>3. ASSUME UNCHANGED <<users, kind, wanted, before>>, Writers' = Writers
      PROVE  users' # <<>> /\ users'[1] = wanted'[r]
  BY <1>0, <1>3 DEF WrittenPasswordWorks
<1>4. ASSUME NEW q \in Requests, CreateSession(q) \/ DeleteSession(q)
      PROVE  UNCHANGED <<users, kind, wanted, before>> /\ Writers' = Writers
  <2>1. /\ UNCHANGED <<users, kind, wanted, before>>
        /\ wrote' = [wrote EXCEPT ![q] = TRUE] /\ kind[q] \in {"login", "logout"}
    BY <1>4 DEF CreateSession, DeleteSession
  <2> QED
    BY <2>1 DEF Writers
<1>5. ASSUME NEW q \in Requests,
             Disconnect(q) \/ DeleteFails(q) \/ CountUsers(q) \/ Fails(q) \/ Respond(q)
             \/ CompareUser(q) \/ RequireSession(q)
      PROVE  UNCHANGED <<users, kind, wanted, before>> /\ Writers' = Writers
  BY <1>5 DEF Disconnect, DeleteFails, CountUsers, Fails, FailureAnswer, Respond, CompareUser, RequireSession,
     Writers
<1>6. ASSUME Tick \/ Crash \/ UNCHANGED vars
      PROVE  UNCHANGED <<users, kind, wanted, before>> /\ Writers' = Writers
  BY <1>6 DEF Tick, Crash, vars, Writers
<1> QED
  BY <1>1, <1>2, <1>3, <1>4, <1>5, <1>6 DEF Next, Handle

\* A password that was acknowledged opens the account until a request that did
\* not end before it began has written its own (handlers.go:73, 227).
THEOREM PasswordsWork == Spec => []AcknowledgedPasswordWorks
<1>1. Init => WrittenPasswordWorks
  BY DEF Init, WrittenPasswordWorks, Writers
<1>2. WrittenPasswordWorks => AcknowledgedPasswordWorks
  BY DEF WrittenPasswordWorks, AcknowledgedPasswordWorks, Account
<1>3. Inv /\ WrittenPasswordWorks /\ [Next]_vars => (Inv /\ WrittenPasswordWorks)'
  BY InvStep, WrittenStep
<1> QED
  BY InvInit, <1>1, <1>2, <1>3, PTL DEF Spec

\* A logout that took effect is final (handlers.go:152, middleware.go:22): a
\* request that comes later finds the row gone, and nothing brings it back.
THEOREM LogoutsAreFinal == Spec => []LogoutIsFinal
<1>1. Init => LogoutIsFinal
  BY DEF Init, LogoutIsFinal
<1>2. Inv /\ LogoutIsFinal /\ [Next]_vars => LogoutIsFinal'
  <2> SUFFICES ASSUME Inv, LogoutIsFinal, [Next]_vars,
                      NEW r \in Requests, NEW p \in Requests,
                      kind'[r] = "logout", wrote'[r], kind'[p] \in {"whoami", "change"},
                      r \in before'[p], cookie'[p] = cookie'[r]
               PROVE  pc'[p] \in {"new", "session", "killed"} \/ outcome'[p] \in {"unauthenticated", "error"}
    BY DEF LogoutIsFinal
  <2> USE DEF Inv, TypeOK, Stages, Past, Ended, request, history, Goto, Answer
  <2>1. CASE pc[p] = "new"
    <3>1. pc'[p] \in {"new", "session"}
      BY <2>1 DEF Next, Handle, Arrive, Sends, Disconnect, CountUsers, CreateUser, CompareUser,
         CreateSession, RequireSession, UpdatePassword, DeleteSession, DeleteFails, Fails, FailureAnswer, Respond,
         Tick, Crash, vars
    <3> QED
      BY <3>1
  <2>2. CASE pc[p] # "new"
    <3>1. /\ kind[p] \in {"whoami", "change"} /\ r \in before[p] /\ cookie'[p] = cookie[p]
      BY <2>2, EndedRests
    <3>2. pc[r] \in Ended /\ kind[r] = "logout" /\ wrote[r] /\ cookie[p] = cookie[r]
      BY <3>1, EndedRests
    <3>3. pc[p] \in {"session", "killed"} \/ outcome[p] \in {"unauthenticated", "error"}
      BY <2>2, <3>1, <3>2 DEF LogoutIsFinal
    <3>4. CASE pc[p] \in {"done", "killed"}
      BY <3>3, <3>4, EndedRests
    <3>5. CASE pc[p] = "session"
      <4>1. ~Admits(cookie[p])
        BY <3>2 DEF Cookies, Admits
      <4>2. ASSUME NEW q \in Requests \ {p}, Handle(q) \/ Disconnect(q) \/ Arrive(q)
            PROVE  pc'[p] = pc[p]
        BY <4>2 DEF Handle, Arrive, Sends, Disconnect, CountUsers, CreateUser, CompareUser,
           CreateSession, RequireSession, UpdatePassword, DeleteSession, DeleteFails, Fails, FailureAnswer, Respond
      <4>3. CASE Handle(p) \/ Disconnect(p) \/ Arrive(p)
        BY <3>5, <4>1, <4>3 DEF Handle, Arrive, Disconnect, CountUsers, CreateUser, CompareUser,
           CreateSession, RequireSession, UpdatePassword, DeleteSession, DeleteFails, Fails, FailureAnswer, Respond
      <4>4. CASE Tick \/ Crash \/ UNCHANGED vars
        BY <3>5, <4>4 DEF Tick, Crash, vars
      <4> QED
        BY <3>5, <4>2, <4>3, <4>4 DEF Next
    <3> QED
      BY <3>3, <3>4, <3>5
  <2> QED
    BY <2>1, <2>2
<1>3. Inv /\ LogoutIsFinal /\ [Next]_vars => (Inv /\ LogoutIsFinal)'
  BY InvStep, <1>2
<1> QED
  BY InvInit, <1>1, <1>3, PTL DEF Spec

\* Who was turned away had gone, or presented a session that had never begun,
\* had run out or was logged out, and it stays so.
TurnedAway ==
    \A r \in Requests :
        outcome[r] = "unauthenticated" =>
            /\ kind[r] \in {"whoami", "change"}
            /\ \/ ctx[r] = "cancelled"
               \/ row[cookie[r]] = "none"
               \/ expires[cookie[r]] <= now
               \/ \E p \in Requests : kind[p] = "logout" /\ cookie[p] = cookie[r]

\* The rows a client knows of neither begin nor are prolonged; time goes on.
LEMMA RowsAge ==
    ASSUME Inv, [Next]_vars
    PROVE  /\ \A s \in Known : row[s] = "none" => row'[s] = "none"
           /\ \A s \in Known : expires'[s] = expires[s]
           /\ now' \in Nat /\ now <= now'
<1> USE DEF Inv, TypeOK, Stages, request, history
<1>1. ASSUME NEW r \in Requests, CreateSession(r)
      PROVE  /\ \A s \in Known : row'[s] = row[s] /\ expires'[s] = expires[s]
             /\ now' = now
  <2>1. r \notin Known
    BY <1>1, RequestAssumption DEF CreateSession, Known
  <2> QED
    BY <1>1, <2>1 DEF CreateSession, Known, Sessions
<1>2. ASSUME NEW r \in Requests, DeleteSession(r)
      PROVE  /\ \A s \in Sessions : row[s] = "none" => row'[s] = "none"
             /\ UNCHANGED <<expires, now>>
  BY <1>2 DEF DeleteSession
<1>3. ASSUME NEW r \in Requests,
             \/ Arrive(r) \/ Disconnect(r) \/ DeleteFails(r) \/ CountUsers(r) \/ Fails(r) \/ Respond(r)
             \/ CompareUser(r) \/ RequireSession(r) \/ CreateUser(r) \/ UpdatePassword(r)
      PROVE  UNCHANGED <<row, expires, now>>
  BY <1>3 DEF Arrive, Disconnect, DeleteFails, CountUsers, Fails, FailureAnswer, Respond, CompareUser,
     RequireSession, CreateUser, UpdatePassword
<1>4. ASSUME Tick \/ Crash \/ UNCHANGED vars
      PROVE  UNCHANGED <<row, expires>> /\ now' \in Nat /\ now <= now'
  BY <1>4 DEF Tick, Crash, vars
<1>5. Known \subseteq Sessions
  BY DEF Known, Sessions
<1> QED
  BY <1>1, <1>2, <1>3, <1>4, <1>5 DEF Next, Handle

\* A request that is turned away finds one of the three reasons.
LEMMA TurnedAwayStep == Inv /\ TurnedAway /\ [Next]_vars => TurnedAway'
<1> SUFFICES ASSUME Inv, TurnedAway, [Next]_vars, NEW r \in Requests,
                    outcome'[r] = "unauthenticated"
             PROVE  /\ kind'[r] \in {"whoami", "change"}
                    /\ \/ ctx'[r] = "cancelled"
                       \/ row'[cookie'[r]] = "none"
                       \/ expires'[cookie'[r]] <= now'
                       \/ \E p \in Requests : kind'[p] = "logout" /\ cookie'[p] = cookie'[r]
  BY DEF TurnedAway
<1> USE DEF Inv, TypeOK, Stages, request, history, Goto, Answer
<1>1. \/ outcome[r] = "unauthenticated"
      \/ RequireSession(r) /\ ~Admits(cookie[r])
      \/ pc[r] = "session" /\ ctx[r] = "cancelled"
  <2>1. ASSUME NEW q \in Requests, Handle(q) \/ Disconnect(q) \/ Arrive(q), q # r
        PROVE  outcome'[r] = outcome[r]
    BY <2>1 DEF Handle, Arrive, Disconnect, CountUsers, CreateUser, CompareUser, CreateSession,
       RequireSession, UpdatePassword, DeleteSession, DeleteFails, Fails, Respond
  <2>2. CASE Fails(r)
    <3>1. outcome'[r] = FailureAnswer(r) /\ (pc[r] = "session" => ctx[r] = "cancelled")
      BY <2>2 DEF Fails, Live
    <3> QED
      BY <3>1 DEF FailureAnswer
  <2>3. CASE RequireSession(r)
    BY <2>3 DEF RequireSession
  <2>4. CASE CountUsers(r) \/ CompareUser(r) \/ Respond(r)
    BY <2>4 DEF CountUsers, CompareUser, Respond
  <2>5. CASE \/ Arrive(r) \/ Disconnect(r) \/ CreateUser(r) \/ CreateSession(r) \/ UpdatePassword(r)
             \/ DeleteSession(r) \/ DeleteFails(r)
    BY <2>5 DEF Arrive, Disconnect, CreateUser, CreateSession, UpdatePassword, DeleteSession, DeleteFails
  <2>6. CASE Tick \/ Crash \/ UNCHANGED vars
    BY <2>6 DEF Tick, Crash, vars
  <2> QED
    BY <2>1, <2>2, <2>3, <2>4, <2>5, <2>6 DEF Next, Handle
<1>2. pc[r] # "new" /\ kind[r] \in {"whoami", "change"} /\ (ctx[r] = "cancelled" => ctx'[r] = "cancelled")
  <2>1. pc[r] # "new" /\ kind[r] \in {"whoami", "change"}
    BY <1>1 DEF RequireSession, TurnedAway
  <2>2. ctx[r] = "cancelled" => ctx'[r] = "cancelled"
    BY DEF Next, Handle, Arrive, Disconnect, CountUsers, CreateUser, CompareUser, CreateSession,
       RequireSession, UpdatePassword, DeleteSession, DeleteFails, Fails, Respond, Tick, Crash, vars
  <2> QED
    BY <2>1, <2>2
<1>3. kind'[r] = kind[r] /\ cookie'[r] = cookie[r]
  BY <1>2, EndedRests
<1>4. cookie[r] \in Known /\ cookie[r] \in Sessions
  BY <1>2 DEF Cookies, Known, Sessions
<1>5. \/ ctx[r] = "cancelled"
      \/ row[cookie[r]] = "none"
      \/ expires[cookie[r]] <= now
      \/ \E p \in Requests : kind[p] = "logout" /\ cookie[p] = cookie[r]
  <2>1. CASE outcome[r] = "unauthenticated"
    BY <2>1 DEF TurnedAway
  <2>2. CASE ~Admits(cookie[r])
    <3>1. row[cookie[r]] \in {"none", "deleted"} \/ ~(expires[cookie[r]] > now)
      BY <2>2, <1>4 DEF Admits
    <3>2. row[cookie[r]] = "deleted" => \E p \in Requests : kind[p] = "logout" /\ cookie[p] = cookie[r]
      BY <1>4 DEF Cookies
    <3> QED
      BY <3>1, <3>2, <1>4
  <2> QED
    BY <1>1, <2>1, <2>2
<1>6. CASE row[cookie[r]] = "none"
  BY <1>2, <1>3, <1>4, <1>6, RowsAge
<1>7. CASE expires[cookie[r]] <= now
  <2>1. expires[cookie[r]] \in Nat /\ now \in Nat
    BY <1>4
  <2>2. expires'[cookie'[r]] = expires[cookie[r]] /\ now' \in Nat /\ now <= now'
    BY <1>3, <1>4, RowsAge
  <2> QED
    BY <1>2, <1>3, <1>7, <2>1, <2>2
<1>8. ASSUME NEW p \in Requests, kind[p] = "logout", cookie[p] = cookie[r]
      PROVE  kind'[p] = "logout" /\ cookie'[p] = cookie'[r]
  <2>1. pc[p] # "new"
    BY <1>8
  <2> QED
    BY <1>3, <1>8, <2>1, EndedRests
<1> QED
  BY <1>2, <1>3, <1>5, <1>6, <1>7, <1>8

\* A session is over only by its time or by a logout of it (middleware.go:22,
\* sessions.go:24).
THEOREM SessionsStay == Spec => []SessionsLast
<1>1. Init => TurnedAway
  BY DEF Init, TurnedAway
<1>2. TurnedAway => SessionsLast
  BY DEF TurnedAway, SessionsLast
<1>3. Inv /\ TurnedAway /\ [Next]_vars => (Inv /\ TurnedAway)'
  BY InvStep, TurnedAwayStep
<1> QED
  BY InvInit, <1>1, <1>2, <1>3, PTL DEF Spec
------------------------------------------------------------------------------
(* VaultToken: it keeps its types, a WebSocket token that has not expired is *)
(* accepted, and the watcher does not give up early.                         *)

\* Unless a start was blind: the key of a process that serves is the one in
\* Vault, and so is that of every token still good; a process that is about to
\* store a new key found none, and then no token is good.
KeyInv ==
    ~blind =>
        /\ proc = "up" => key = stored /\ stored # 0
        /\ proc = "put" => stored = 0 /\ key # 0
        /\ ticket.left > 0 => ticket.key = stored /\ stored # 0

VTInv == VTTypeOK /\ KeyInv

------------------------------------------------------------------------------
\* A step keeps the types: one action at a time, and time itself.
LEMMA VTTypeStep == VTTypeOK /\ [VTNext]_vtVars => VTTypeOK'
<1> USE LeaseAssumption, RetryAssumption, BoundAssumption DEF VTTypeOK
<1> SUFFICES ASSUME VTTypeOK, [VTNext]_vtVars PROVE VTTypeOK'
  OBVIOUS
<1>1. CASE Login
  BY <1>1 DEF Login, vault, retry, signing
<1>2. CASE GetKey
  BY <1>2 DEF GetKey, vault, retry
<1>3. CASE DrawKey
  BY <1>3 DEF DrawKey, vault, retry
<1>4. CASE PutKey
  BY <1>4 DEF PutKey, vault, retry
<1>5. CASE PutFails
  BY <1>5 DEF PutFails, Exit, vault
<1>6. CASE Renew
  BY <1>6 DEF Renew, vault, retry, signing
<1>7. CASE WatcherDone
  BY <1>7 DEF WatcherDone, vault, signing
<1>8. CASE ReloginSucceeds
  BY <1>8 DEF ReloginSucceeds, vault, retry, signing
<1>9. CASE ReloginFails
  BY <1>9 DEF ReloginFails, Attempt, Least, vault, signing
<1>10. CASE GiveUp
  BY <1>10 DEF GiveUp, vault, retry, signing
<1>11. CASE Mint
  BY <1>11 DEF Mint, vault, retry, signing
<1>12. CASE Elapse
  BY <1>12 DEF Elapse, Least, Less, signing
<1>13. CASE VaultDown
  <2>1. vaultUp' \in BOOLEAN
    BY <1>13 DEF VaultDown
  <2>2. outages' \in 0 .. MaxOutages
    BY <1>13 DEF VaultDown
  <2> QED
    BY <1>13, <2>1, <2>2 DEF VaultDown, retry, signing
<1>16. CASE VaultUp
  BY <1>16 DEF VaultUp, retry, signing
<1>14. CASE Restart
  BY <1>14 DEF Restart, Exit, vault
<1>15. CASE UNCHANGED vtVars
  BY <1>15 DEF vtVars, vault, retry, signing
<1> QED
  BY <1>1, <1>2, <1>3, <1>4, <1>5, <1>6, <1>7, <1>8, <1>9, <1>10, <1>11, <1>12, <1>13,
     <1>14, <1>15, <1>16 DEF VTNext, Relogin

\* A step keeps the key of those who serve, and of the tokens, in Vault.
LEMMA KeyStep == VTTypeOK /\ KeyInv /\ [VTNext]_vtVars => KeyInv'
<1> USE LeaseAssumption DEF VTTypeOK, KeyInv
<1> SUFFICES ASSUME VTTypeOK, KeyInv, [VTNext]_vtVars PROVE KeyInv'
  OBVIOUS
\* Starting: the key is read, or drawn because there is none, or stored.
<1>1. CASE Login
  BY <1>1 DEF Login, signing
<1>2. CASE GetKey
  BY <1>2 DEF GetKey
<1>3. CASE DrawKey
  <2>1. key' # 0 /\ drawn' \in Nat /\ proc' = "put" /\ stored' = stored /\ ticket' = ticket
    BY <1>3, BoundAssumption DEF DrawKey
  <2>2. ~blind' => ~blind /\ stored = 0
    BY <1>3 DEF DrawKey
  <2> QED
    BY <2>1, <2>2
<1>4. CASE PutKey
  BY <1>4 DEF PutKey
<1>5. CASE PutFails
  BY <1>5 DEF PutFails, Exit
\* Serving.
<1>6. CASE Mint
  BY <1>6 DEF Mint, signing
<1>7. CASE Elapse
  BY <1>7 DEF Elapse, Less, signing
<1>8. CASE Restart
  BY <1>8 DEF Restart, Exit
\* The token of the process has nothing to do with keys.
<1>9. CASE Renew \/ WatcherDone \/ Relogin \/ VaultDown \/ VaultUp
  BY <1>9 DEF Renew, WatcherDone, Relogin, ReloginSucceeds, ReloginFails, GiveUp,
              VaultDown, VaultUp, signing
<1>10. CASE UNCHANGED vtVars
  BY <1>10 DEF vtVars, signing
<1> QED
  BY <1>1, <1>2, <1>3, <1>4, <1>5, <1>6, <1>7, <1>8, <1>9, <1>10 DEF VTNext

LEMMA VTInvInit == VTInit => VTInv
<1> SUFFICES ASSUME VTInit PROVE VTInv
  OBVIOUS
<1>1. VTTypeOK
  <2>1. ticket \in [key : 0 .. drawn, left : 0 .. TicketLife]
    BY LeaseAssumption DEF VTInit
  <2>2. vaultUp \in BOOLEAN /\ blind \in BOOLEAN
    BY DEF VTInit
  <2>3. backoff \in 1 .. MaxBackoff /\ wait \in 0 .. MaxBackoff /\ attempt \in 1 .. Attempts + 1
    BY RetryAssumption DEF VTInit
  <2>4. lease \in 0 .. LeaseTTL
    BY LeaseAssumption DEF VTInit
  <2> QED
    BY <2>1, <2>2, <2>3, <2>4, BoundAssumption DEF VTInit, VTTypeOK
<1>2. KeyInv
  BY DEF VTInit, KeyInv
<1> QED
  BY <1>1, <1>2 DEF VTInv

\* The variables of VaultToken keep their types (lifetime.go:156-205 for the
\* back-off and its limit).
THEOREM TokenTypes == VTSpec => []VTTypeOK
<1>1. VTInit => VTTypeOK
  BY VTInvInit DEF VTInv
<1> QED
  BY <1>1, VTTypeStep, PTL DEF VTSpec

\* A token that has not expired is accepted by whichever process serves, after
\* any number of restarts and outages (ws_token.go:77-102).
THEOREM TicketsAreAccepted == VTSpec => []TicketsVerify
<1>1. VTInv /\ [VTNext]_vtVars => VTInv'
  BY VTTypeStep, KeyStep DEF VTInv
<1>2. VTInv => TicketsVerify
  BY DEF VTInv, VTTypeOK, KeyInv, TicketsVerify, Verifies
<1> QED
  BY VTInvInit, <1>1, <1>2, PTL DEF VTSpec
------------------------------------------------------------------------------
(* The patience of the watcher.                                             *)

\* Induction, over a set: what holds of 0 and goes on from n to n + 1.
LEMMA SetInduction ==
    ASSUME NEW S, 0 \in S, \A n \in Nat : n \in S => n + 1 \in S
    PROVE  Nat \subseteq S
<1> SUFFICES ASSUME Nat \ S # {} PROVE FALSE
  OBVIOUS
<1>1. PICK x \in Nat \ S : \A y \in Nat \ S : ~ (<<y, x>> \in OpToRel(<, Nat))
  <2>1. Nat \ S \subseteq Nat
    OBVIOUS
  <2> QED
    BY <2>1, NatLessThanWellFounded, WFMin, Zenon
<1>2. x # 0 /\ x - 1 \in Nat /\ x - 1 < x
  OBVIOUS
<1>3. x - 1 \notin S
  BY <1>2
<1>4. <<x - 1, x>> \in OpToRel(<, Nat)
  BY <1>2, Zenon DEF OpToRel
<1> QED
  BY <1>1, <1>2, <1>3, <1>4, Zenon

\* What relogin sleeps is defined for every number of attempts.
SleptFrom(f, n) ==
    IF n = 1 THEN [passed |-> 0, delay |-> 1]
    ELSE [passed |-> f[n-1].passed + f[n-1].delay, delay |-> Least(2 * f[n-1].delay, MaxBackoff)]

\* The recursion has a solution, whose every value comes from the one before.
LEMMA SleptUnfolds == Slept = [n \in 1 .. Attempts |-> SleptFrom(Slept, n)]
<1> DEFINE Good == {m \in Nat : \E f : f = [n \in 1 .. m |-> SleptFrom(f, n)]}
<1>1. 0 \in Good
  <2>1. [n \in 1 .. 0 |-> 0] = [n \in 1 .. 0 |-> SleptFrom([k \in 1 .. 0 |-> 0], n)]
    OBVIOUS
  <2> QED
    BY <2>1
<1>2. ASSUME NEW m \in Nat, m \in Good PROVE m + 1 \in Good
  <2>1. PICK f : f = [n \in 1 .. m |-> SleptFrom(f, n)]
    BY <1>2
  <2> DEFINE g == [n \in 1 .. m + 1 |-> SleptFrom(f, n)]
  <2>2. ASSUME NEW n \in 1 .. m PROVE g[n] = f[n]
    BY <2>1
  <2>3. ASSUME NEW n \in 1 .. m + 1 PROVE SleptFrom(f, n) = SleptFrom(g, n)
    <3>1. CASE n = 1
      BY <3>1 DEF SleptFrom
    <3>2. CASE n # 1
      <4>1. n - 1 \in 1 .. m
        BY <3>2
      <4>2. g[n-1] = f[n-1]
        BY <2>2, <4>1
      <4> HIDE DEF g
      <4> QED
        BY <4>2 DEF SleptFrom
    <3> QED
      BY <3>1, <3>2
  <2>4. g = [n \in 1 .. m + 1 |-> SleptFrom(g, n)]
    BY <2>3
  <2>5. \E h : h = [n \in 1 .. m + 1 |-> SleptFrom(h, n)]
    <3> HIDE DEF g
    <3> QED
      BY <2>4
  <2> QED
    BY <2>5
<1>3. Attempts \in Good
  <2> HIDE DEF Good
  <2>1. Nat \subseteq Good
    BY <1>1, <1>2, SetInduction
  <2> QED
    BY <2>1, RetryAssumption
<1>4. PICK f : f = [n \in 1 .. Attempts |-> SleptFrom(f, n)]
  BY <1>3
<1> QED
  BY <1>4 DEF Slept, SleptFrom

\* Every attempt has its time, and its back-off.
LEMMA SleptType == Slept \in [1 .. Attempts -> [passed : Nat, delay : 1 .. MaxBackoff]]
<1> USE RetryAssumption
<1> DEFINE R == [passed : Nat, delay : 1 .. MaxBackoff]
           Good == {n \in Nat : n \in 1 .. Attempts => Slept[n] \in R}
<1>1. 0 \in Good
  OBVIOUS
<1>2. ASSUME NEW n \in Nat, n \in Good PROVE n + 1 \in Good
  <2> SUFFICES ASSUME n + 1 \in 1 .. Attempts PROVE Slept[n+1] \in R
    OBVIOUS
  <2>1. Slept[n+1] = SleptFrom(Slept, n + 1)
    BY SleptUnfolds
  <2>2. CASE n = 0
    BY <2>1, <2>2 DEF SleptFrom
  <2>3. CASE n # 0
    <3>1. n \in 1 .. Attempts /\ Slept[n] \in R
      BY <1>2, <2>3
    <3>2. /\ Slept[n].passed + Slept[n].delay \in Nat
          /\ Least(2 * Slept[n].delay, MaxBackoff) \in 1 .. MaxBackoff
      BY <3>1 DEF Least
    <3> QED
      BY <2>1, <2>3, <3>2 DEF SleptFrom
  <2> QED
    BY <2>2, <2>3
<1>3. \A n \in 1 .. Attempts : Slept[n] \in R
  <2> HIDE DEF R
  <2>1. Nat \subseteq Good
    BY <1>1, <1>2, SetInduction
  <2> QED
    BY <2>1
<1> QED
  BY <1>3, SleptUnfolds

\* No attempt comes later than the last.
LEMMA WithinPatience == \A n \in 1 .. Attempts : Slept[n].passed <= Patience
<1> USE RetryAssumption
<1> DEFINE Good == {k \in Nat : \A n \in 1 .. Attempts : n + k = Attempts => Slept[n].passed <= Patience}
<1>1. 0 \in Good
  BY SleptType DEF Patience
<1>2. ASSUME NEW k \in Nat, k \in Good PROVE k + 1 \in Good
  <2> SUFFICES ASSUME NEW n \in 1 .. Attempts, n + (k + 1) = Attempts PROVE Slept[n].passed <= Patience
    OBVIOUS
  <2>1. n + 1 \in 1 .. Attempts /\ Slept[n+1].passed <= Patience
    BY <1>2
  <2>2. Slept[n+1].passed = Slept[n].passed + Slept[n].delay
    BY <2>1, SleptUnfolds DEF SleptFrom
  <2>3. Slept[n].passed \in Nat /\ Slept[n].delay \in Nat /\ Patience \in Nat
    BY SleptType DEF Patience
  <2> QED
    BY <2>1, <2>2, <2>3
<1>3. Nat \subseteq Good
  <2> HIDE DEF Good
  <2> QED
    BY <1>1, <1>2, SetInduction
<1>4. ASSUME NEW n \in 1 .. Attempts PROVE Slept[n].passed <= Patience
  <2>1. Attempts - n \in Good
    BY <1>3
  <2> QED
    BY <2>1
<1> QED
  BY <1>4

\* While relogin retries, the one outage there was has lasted since its first
\* attempt: what it slept is on the clock of the outage, or still to come.
SleepInv ==
    /\ longest >= out
    /\ outages = 0 => vaultUp /\ (watcher = "relogin" => attempt = 1)
    /\ watcher = "relogin" /\ attempt <= Attempts => backoff = Slept[attempt].delay
    /\ watcher = "relogin" /\ outages <= 1 =>
          /\ attempt > 1 => longest >= Slept[attempt-1].passed
          /\ ~vaultUp /\ attempt <= Attempts => out + wait >= Slept[attempt].passed
    /\ GivesUpLate

\* What covered b before a tick covers it after.
LEMMA StillCovered ==
  ASSUME NEW u \in Nat, NEW v \in Nat, NEW x \in Nat, NEW y \in Nat, NEW b \in Nat, NEW p \in Nat,
         u + v >= b, b <= p, x + y >= u + v \/ x >= p
  PROVE  x + y >= b
  OBVIOUS

\* A step keeps the account of what was slept.
LEMMA SleepStep == VTTypeOK /\ SleepInv /\ [VTNext]_vtVars => SleepInv'
<1> SUFFICES ASSUME VTTypeOK, SleepInv, [VTNext]_vtVars PROVE SleepInv'
  OBVIOUS
<1> USE RetryAssumption, LeaseAssumption, BoundAssumption DEF SleepInv, GivesUpLate
<1>a. /\ outages \in Nat /\ out \in 0 .. MaxOutage /\ longest \in 0 .. MaxOutage
      /\ attempt \in 1 .. Attempts + 1 /\ backoff \in 1 .. MaxBackoff /\ wait \in 0 .. MaxBackoff
      /\ vaultUp \in BOOLEAN
  BY DEF VTTypeOK
<1>b. Patience \in Nat /\ \A n \in 1 .. Attempts : Slept[n].passed \in 0 .. Patience
  BY SleptType, WithinPatience DEF Patience
<1>c. Slept[1].passed = 0 /\ Slept[1].delay = 1
  BY SleptUnfolds DEF SleptFrom
\* What has nothing to do with the watcher.
<1>1. CASE GetKey \/ DrawKey \/ PutKey \/ PutFails \/ Mint \/ Restart \/ Login
  BY <1>a, <1>1 DEF GetKey, DrawKey, PutKey, PutFails, Mint, Restart, Login, Exit, vault, retry
<1>2. CASE Renew \/ ReloginSucceeds
  BY <1>2 DEF Renew, ReloginSucceeds, vault, retry
\* The first attempt is made at once.
<1>3. CASE WatcherDone
  BY <1>a, <1>c, <1>3 DEF WatcherDone, vault
\* A failed attempt finds the outage at least as old as what was slept before.
<1>4. CASE ReloginFails
  <2>1. /\ watcher = "relogin" /\ watcher' = "relogin" /\ wait = 0 /\ attempt \in 1 .. Attempts
        /\ ~vaultUp /\ attempt' = attempt + 1 /\ wait' = backoff
        /\ backoff' = Least(2 * backoff, MaxBackoff) /\ UNCHANGED <<vaultUp, outages, out, longest>>
    BY <1>a, <1>4 DEF ReloginFails, Attempt, vault
  <2>2. PICK a \in 1 .. Attempts : a = attempt
    BY <2>1
  <2>3. Slept[a].delay \in 1 .. MaxBackoff /\ backoff = Slept[a].delay
    BY <2>1, <2>2, SleptType
  <2>4. CASE a < Attempts
    <3>1. a + 1 \in 1 .. Attempts /\ a + 1 # 1
      BY <2>2, <2>4
    <3>2. Slept[a+1] = SleptFrom(Slept, a + 1)
      BY <3>1, SleptUnfolds
    <3>3. /\ Slept[a+1].passed = Slept[a].passed + Slept[a].delay
          /\ Slept[a+1].delay = Least(2 * Slept[a].delay, MaxBackoff)
      BY <3>1, <3>2 DEF SleptFrom
    <3>4. outages <= 1 => out >= Slept[a].passed /\ longest >= Slept[a].passed
      BY <1>a, <1>b, <2>1, <2>2
    <3> QED
      BY <1>a, <1>b, <2>1, <2>2, <2>3, <3>1, <3>3, <3>4
  <2>5. CASE a = Attempts
    BY <1>a, <1>b, <2>1, <2>2, <2>5
  <2> QED
    BY <2>4, <2>5
<1>5. CASE GiveUp
  <2>1. attempt = Attempts + 1
    BY <1>a, <1>5 DEF GiveUp
  <2> QED
    BY <1>a, <1>b, <1>5, <2>1 DEF GiveUp, vault, retry, Patience
\* A tick of sleep is a tick of the outage, whose clock does not stop too early.
<1>6. CASE Elapse
  <2>1. /\ UNCHANGED <<vaultUp, outages, watcher, attempt, backoff>> /\ longest' >= longest
        /\ longest' >= out'
    BY <1>a, <1>6 DEF Elapse, Least
  <2>2. ~vaultUp => out' + wait' >= out + wait \/ out' >= Patience
    BY <1>a, <1>b, <1>6, OutageAssumption DEF Elapse, Least, Less
  <2>3. out' \in Nat /\ wait' \in Nat /\ longest' \in Nat
    BY <1>a, <1>6 DEF Elapse, Least, Less
  <2>4. ASSUME watcher = "relogin", outages <= 1, attempt > 1
        PROVE  longest' >= Slept[attempt-1].passed
    BY <1>a, <1>b, <2>1, <2>3, <2>4
  <2>5. ASSUME watcher = "relogin", outages <= 1, ~vaultUp, attempt <= Attempts
        PROVE  out' + wait' >= Slept[attempt].passed
    <3>1. Slept[attempt].passed \in Nat /\ Slept[attempt].passed <= Patience
      BY <1>a, <1>b, <2>5
    <3>2. out + wait >= Slept[attempt].passed
      BY <2>5
    <3>3. out' + wait' >= out + wait \/ out' >= Patience
      BY <2>2, <2>5
    <3>4. PICK u \in Nat, v \in Nat, x \in Nat, y \in Nat, b \in Nat, p \in Nat :
            u = out /\ v = wait /\ x = out' /\ y = wait' /\ b = Slept[attempt].passed /\ p = Patience
      <4>1. out \in Nat /\ wait \in Nat /\ Patience \in Nat
        BY <1>a, <1>b
      <4> QED
        BY <2>3, <3>1, <4>1, Zenon
    <3>5. u + v >= b /\ b <= p /\ (x + y >= u + v \/ x >= p)
      BY <3>1, <3>2, <3>3, <3>4, Zenon
    <3>6. x + y >= b
      BY <3>5, StillCovered, Zenon
    <3> QED
      BY <3>4, <3>6, Zenon
  <2>6. GivesUpLate'
    BY <1>a, <1>b, <2>1, <2>3
  <2> QED
    BY <2>1, <2>4, <2>5, <2>6
\* A second outage is excused; the end of the first lets the next attempt through.
<1>7. CASE VaultDown
  BY <1>a, <1>b, <1>c, <1>7 DEF VaultDown, retry
<1>8. CASE VaultUp
  BY <1>a, <1>8 DEF VaultUp, retry
<1>9. CASE UNCHANGED vtVars
  BY <1>9 DEF vtVars, vault, retry
<1> QED
  BY <1>1, <1>2, <1>3, <1>4, <1>5, <1>6, <1>7, <1>8, <1>9 DEF VTNext, Relogin

\* The watcher holds out as long as its back-off says, for any number of attempts
\* and any limit of the back-off (lifetime.go:156-205).
THEOREM HoldsOut == VTSpec => []GivesUpLate
<1>1. VTInit => VTTypeOK /\ SleepInv
  <2>1. VTInit => SleepInv
    BY DEF VTInit, SleepInv, GivesUpLate
  <2> QED
    BY <2>1, VTInvInit DEF VTInv
<1>2. VTTypeOK /\ SleepInv /\ [VTNext]_vtVars => (VTTypeOK /\ SleepInv)'
  BY VTTypeStep, SleepStep
<1>3. SleepInv => GivesUpLate
  BY DEF SleepInv
<1> QED
  BY <1>1, <1>2, <1>3, PTL DEF VTSpec
==============================================================================
