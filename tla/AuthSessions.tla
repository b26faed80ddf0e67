---------------------------- MODULE AuthSessions ----------------------------
(***************************************************************************)
(* Authentication of the Results API's readers: one account and its opaque *)
(* sessions (auth/service.py, auth/repository.py).  HTTP handlers, the     *)
(* mail-results-auth commands and the bootstrap of every starting API      *)
(* process work on them in transactions of their own, READ COMMITTED,      *)
(* which meet at the row of the account: FOR UPDATE, or its insertion.     *)
(*                                                                         *)
(* A transaction computes hashes in a thread between its reading and its   *)
(* commit.  What it writes is seen at the commit.                          *)
(***************************************************************************)
EXTENDS Naturals, FiniteSets

CONSTANTS
  Processes,      \* each runs one operation at a time
  Tokens,         \* the tokens secrets.token_urlsafe may yield, each once
  Passwords,
  AdminPassword,  \* the configured password of the administrator
  Ttl, Retention, \* auth_session_ttl_seconds, auth_revoked_session_retention_seconds
  NoUser, Nobody,
  MaxOperations, MaxTime

ASSUME PasswordsAssumption == AdminPassword \in Passwords
ASSUME NobodyAssumption == Nobody \notin Processes
ASSUME TokensAssumption == Tokens # {}
ASSUME TimesAssumption == Ttl \in Nat \ {0} /\ Retention \in Nat \ {0} /\ MaxTime \in Nat /\ MaxOperations \in Nat

Users == [password : Passwords, active : BOOLEAN, weak : BOOLEAN]
ASSUME NoUserAssumption == NoUser \notin Users
Operations == {"bootstrap", "login", "logout", "password", "activate", "deactivate", "create", "cleanup"}
Stages == {"idle", "find", "insert", "inserted", "found"}

VARIABLES
  user,           \* the row of the account; weak: its hash needs a rehash
  lock,           \* who has locked the row, or inserted it and not committed
  sessions,       \* [Tokens -> session]
  now,
  op, stage, password, token, began,   \* per process: its operation and its arguments
  found,          \* per process: the row it read, and the era of that row (history)
  created,        \* how many operations reported that they created the account (history)
  era,            \* how often the password was changed or the account closed (history)
  operations      \* how many there were: bounded by MaxOperations

local == <<op, stage, password, token, began, found>>
vars == <<user, lock, sessions, now, local, created, era, operations>>

NoSession == [state |-> "none", expires |-> 0, revoked |-> 0, era |-> 0]
NotFound == [row |-> NoUser, era |-> 0]
AnyToken == CHOOSE t \in Tokens : TRUE

Init ==
  /\ user \in {NoUser} \cup [password : Passwords, active : {TRUE}, weak : BOOLEAN]
  /\ lock = Nobody
  /\ sessions = [t \in Tokens |-> NoSession]
  /\ now = 0
  /\ op = [p \in Processes |-> "login"]
  /\ stage = [p \in Processes |-> "idle"]
  /\ password = [p \in Processes |-> AdminPassword]
  /\ token = [p \in Processes |-> AnyToken]
  /\ began = [p \in Processes |-> 0]
  /\ found = [p \in Processes |-> NotFound]
  /\ created = IF user = NoUser THEN 0 ELSE 1
  /\ era = 0
  /\ operations = 0

\* find_active_user_for_token finds the user.
Usable(t) ==
  /\ sessions[t].state = "live" /\ sessions[t].expires > now
  /\ user # NoUser /\ user.active

-----------------------------------------------------------------------------
(* An operation begins: it takes the time and opens its transaction *)

Choices(p, o) ==
  /\ \E word \in (IF o \in {"login", "password", "create"} THEN Passwords ELSE {AdminPassword}) :
       password' = [password EXCEPT ![p] = word]
  /\ \/ /\ o \in {"login", "logout"}
        /\ \E t \in Tokens : /\ o = "login" => /\ sessions[t].state = "none"
                                               /\ \A q \in Processes : stage[q] # "idle" => token[q] # t
                             /\ o = "logout" => sessions[t].state # "none"
                             /\ token' = [token EXCEPT ![p] = t]
     \/ o \notin {"login", "logout"} /\ UNCHANGED token

Begin(p) ==
  /\ stage[p] = "idle" /\ operations < MaxOperations
  /\ \E o \in Operations :
       /\ op' = [op EXCEPT ![p] = o]
       /\ stage' = [stage EXCEPT ![p] = IF o = "create" THEN "insert" ELSE "find"]
       /\ Choices(p, o)
  /\ began' = [began EXCEPT ![p] = now]
  /\ operations' = operations + 1
  /\ UNCHANGED <<user, lock, sessions, now, found, created, era>>

Forget(p) ==
  /\ stage' = [stage EXCEPT ![p] = "idle"]
  /\ op' = [op EXCEPT ![p] = "login"]
  /\ password' = [password EXCEPT ![p] = AdminPassword]
  /\ token' = [token EXCEPT ![p] = AnyToken]
  /\ began' = [began EXCEPT ![p] = 0]
  /\ found' = [found EXCEPT ![p] = NotFound]

\* The transaction is over, committed or rolled back.
Ends(p) ==
  /\ Forget(p)
  /\ lock' = IF lock = p THEN Nobody ELSE lock

\* Mutant: the context manager does not end the transaction when the body raises.
RefusesOpen(p) ==
  /\ Forget(p)
  /\ UNCHANGED <<lock, user, sessions, now, created, era, operations>>

\* An exception leaves the transaction: nothing is written.
Refuses(p) ==
  /\ Ends(p)
  /\ UNCHANGED <<user, sessions, now, created, era, operations>>

GoesTo(p, s) ==
  /\ stage' = [stage EXCEPT ![p] = s]
  /\ UNCHANGED <<op, password, token, began>>

-----------------------------------------------------------------------------
(* The row of the account *)

LocksAccount(o) == o \in {"bootstrap", "login", "password", "activate", "deactivate"}

\* Mutant: find_user ignores for_update.
ForUpdateIgnored(p) == UNCHANGED lock

\* with_for_update: waits for the transaction that has the row, then has it.
ForUpdate(p) == lock = Nobody /\ lock' = p

FindUser(p) ==
  /\ stage[p] = "find" /\ LocksAccount(op[p]) /\ user # NoUser
  /\ ForUpdate(p)
  /\ GoesTo(p, "found")
  /\ found' = [found EXCEPT ![p] = [row |-> user, era |-> era]]
  /\ UNCHANGED <<user, sessions, now, created, era, operations>>

\* A row that is not committed is not seen; only the bootstrap then goes on.
FindNobody(p) ==
  /\ stage[p] = "find" /\ LocksAccount(op[p]) /\ user = NoUser
  /\ \/ /\ op[p] = "bootstrap"
        /\ GoesTo(p, "insert")
        /\ UNCHANGED <<user, lock, sessions, now, found, created, era, operations>>
     \/ op[p] # "bootstrap" /\ Refuses(p)

\* Mutant: IntegrityError of the savepoint is taken for success.
InsertAlways == TRUE

\* The unique name admits the insertion.
MayInsert == user = NoUser

\* The flush in the savepoint waits for another insertion of the same name.
Insert(p) ==
  /\ stage[p] = "insert" /\ MayInsert
  /\ lock = Nobody /\ lock' = p
  /\ GoesTo(p, "inserted")
  /\ UNCHANGED <<user, sessions, now, found, created, era, operations>>

\* IntegrityError: the bootstrap reads the row of the winner, create_user reports it.
InsertLoses(p) ==
  /\ stage[p] = "insert" /\ ~MayInsert /\ lock = Nobody
  /\ \/ /\ op[p] = "bootstrap"
        /\ GoesTo(p, "find")
        /\ UNCHANGED <<user, lock, sessions, now, found, created, era, operations>>
     \/ op[p] = "create" /\ Refuses(p)

CommitInsert(p) ==
  /\ stage[p] = "inserted"
  /\ user' = [password |-> password[p], active |-> TRUE, weak |-> FALSE]
  /\ created' = created + 1
  /\ Ends(p)
  /\ UNCHANGED <<sessions, now, era, operations>>

-----------------------------------------------------------------------------
(* What the operations write *)

\* revoke_user_sessions: those that are not revoked and had not expired when the operation began.
Revoked(p) ==
  [t \in Tokens |-> IF sessions[t].state = "live" /\ sessions[t].expires > began[p]
                    THEN [sessions[t] EXCEPT !.state = "revoked", !.revoked = began[p]] ELSE sessions[t]]

Login(p) ==
  /\ stage[p] = "found" /\ op[p] = "login"
  /\ LET row == found[p].row IN
       \/ /\ row.active /\ row.password = password[p]
          /\ user' = IF row.weak THEN [user EXCEPT !.password = password[p], !.weak = FALSE] ELSE user
          /\ sessions' = [sessions EXCEPT ![token[p]] =
               [state |-> "live", expires |-> began[p] + Ttl, revoked |-> 0, era |-> found[p].era]]
          /\ Ends(p)
          /\ UNCHANGED <<now, created, era, operations>>
       \/ ~(row.active /\ row.password = password[p]) /\ Refuses(p)

SetPassword(p) ==
  /\ stage[p] = "found" /\ op[p] = "password"
  /\ user' = [user EXCEPT !.password = password[p], !.weak = FALSE]
  /\ sessions' = Revoked(p)
  /\ era' = era + 1
  /\ Ends(p)
  /\ UNCHANGED <<now, created, operations>>

Activate(p) ==
  /\ stage[p] = "found" /\ op[p] = "activate"
  /\ user' = [user EXCEPT !.active = TRUE]
  /\ Ends(p)
  /\ UNCHANGED <<sessions, now, created, era, operations>>

\* Mutant: closing the account leaves its sessions, no one can use them anyway.
DeactivatedSessionsStay(p) == sessions

\* Closing the account revokes its sessions.
DeactivatedSessions(p) == Revoked(p)

Deactivate(p) ==
  /\ stage[p] = "found" /\ op[p] = "deactivate"
  /\ user' = [user EXCEPT !.active = FALSE]
  /\ sessions' = DeactivatedSessions(p)
  /\ era' = era + 1
  /\ Ends(p)
  /\ UNCHANGED <<now, created, operations>>

\* The administrator gets the configured password and an open account.
Bootstrap(p) ==
  /\ stage[p] = "found" /\ op[p] = "bootstrap"
  /\ \/ /\ found[p].row.password = AdminPassword
        /\ user' = [user EXCEPT !.active = TRUE]
        /\ UNCHANGED <<sessions, era>>
     \/ /\ found[p].row.password # AdminPassword
        /\ user' = [password |-> AdminPassword, active |-> TRUE, weak |-> FALSE]
        /\ sessions' = Revoked(p)
        /\ era' = era + 1
  /\ Ends(p)
  /\ UNCHANGED <<now, created, operations>>

\* The session row is locked and revoked; the account must be open, else all is rolled back.
Logout(p) ==
  /\ stage[p] = "find" /\ op[p] = "logout"
  /\ LET t == token[p]
         valid == sessions[t].state = "live" /\ sessions[t].expires > began[p] /\ user.active
     IN  \/ /\ valid
            /\ sessions' = [sessions EXCEPT ![t].state = "revoked", ![t].revoked = began[p]]
            /\ Ends(p)
            /\ UNCHANGED <<user, now, created, era, operations>>
         \/ ~valid /\ Refuses(p)

\* Expired sessions go, revoked ones after the retention.
Cleanup(p) ==
  /\ stage[p] = "find" /\ op[p] = "cleanup"
  /\ sessions' = [t \in Tokens |->
       IF \/ sessions[t].state \in {"live", "revoked"} /\ sessions[t].expires <= began[p]
          \/ sessions[t].state = "revoked" /\ sessions[t].revoked + Retention <= began[p]
       THEN [NoSession EXCEPT !.state = "deleted"] ELSE sessions[t]]
  /\ Ends(p)
  /\ UNCHANGED <<user, now, created, era, operations>>

\* PostgreSQL or the process fails before the commit.
Rollback(p) == stage[p] # "idle" /\ Refuses(p)

Tick ==
  /\ now < MaxTime /\ now' = now + 1
  /\ UNCHANGED <<user, lock, sessions, local, created, era, operations>>

Work(p) ==
  \/ FindUser(p) \/ FindNobody(p) \/ Insert(p) \/ InsertLoses(p) \/ CommitInsert(p)
  \/ Login(p) \/ SetPassword(p) \/ Activate(p) \/ Deactivate(p) \/ Bootstrap(p)
  \/ Logout(p) \/ Cleanup(p)

Next == Tick \/ \E p \in Processes : Begin(p) \/ Work(p) \/ Rollback(p)

Spec == Init /\ [][Next]_vars

\* A transaction that can go on does: PostgreSQL grants a lock that is free.
FairSpec == Spec /\ \A p \in Processes : WF_vars(Work(p))

-----------------------------------------------------------------------------
(* Properties *)

\* Every variable has its type; a process holds the row of the account exactly
\* between its locking read, or its insertion, and the end of its transaction.
TypeOK ==
  /\ user \in Users \cup {NoUser}
  /\ lock \in Processes \cup {Nobody}
  /\ sessions \in [Tokens -> [state : {"none", "live", "revoked", "deleted"},
                              expires : Nat, revoked : Nat, era : Nat]]
  /\ op \in [Processes -> Operations] /\ stage \in [Processes -> Stages]
  /\ password \in [Processes -> Passwords] /\ token \in [Processes -> Tokens]
  /\ began \in [Processes -> Nat] /\ found \in [Processes -> [row : Users \cup {NoUser}, era : Nat]]
  /\ now \in Nat /\ created \in Nat /\ era \in Nat /\ operations \in Nat
  /\ \A p \in Processes : lock = p <=> stage[p] \in {"found", "inserted"}

\* A token that is accepted was given for the password that is still set, and
\* the account has not been closed since: a login that verifies a hash in a
\* thread cannot outlive the change of that hash.
UsableIsCurrent == \A t \in Tokens : Usable(t) => sessions[t].era = era

\* However the operations interleave, bootstraps of several API processes and
\* the create command together, one of them creates the account, once.
CreatedOnce == created = IF user = NoUser THEN 0 ELSE 1

\* A token that has stopped being accepted never is again: not when a closed
\* account is reopened, not by a bootstrap, a rehash or a cleanup.
TokensNeverReturn ==
  [][\A t \in Tokens : sessions[t].state # "none" /\ ~Usable(t) => ~Usable(t)']_vars

\* No transaction waits for ever for another.
OperationsEnd == \A p \in Processes : stage[p] # "idle" ~> stage[p] = "idle"

=============================================================================
