-------------------------- MODULE AuthSessionsProofs --------------------------
(***************************************************************************)
(* Theorems of AuthSessions, for every number of processes, tokens and     *)
(* operations, every lifetime and every clock.                             *)
(*                                                                         *)
(* What makes a session sound is the lock on the account's row: who has    *)
(* found the row knows it as it is until it commits.  A session that has   *)
(* not expired by now had not expired when the operation that revokes it   *)
(* began, since no operation begins in the future.                         *)
(***************************************************************************)
EXTENDS AuthSessions, TLAPS

-----------------------------------------------------------------------------
(* Types *)

USE NobodyAssumption, TokensAssumption, NoUserAssumption, PasswordsAssumption, TimesAssumption

LEMMA AnyTokenIsToken == AnyToken \in Tokens
BY DEF AnyToken

\* What the operations make of a row of the account is one.
LEMMA RowsOfUsers ==
  ASSUME NEW u \in Users, NEW word \in Passwords, NEW open \in BOOLEAN
  PROVE  /\ [u EXCEPT !.active = open] \in Users
         /\ [u EXCEPT !.password = word, !.weak = FALSE] \in Users
BY DEF Users

LEMMA NewRow ==
  ASSUME NEW word \in Passwords
  PROVE  [password |-> word, active |-> TRUE, weak |-> FALSE] \in Users
BY DEF Users

LEMMA TypeInit == Init => TypeOK
<1> SUFFICES ASSUME Init PROVE TypeOK
  OBVIOUS
<1>1. user \in Users \cup {NoUser}
  BY DEF Init, Users
<1> QED BY <1>1, AnyTokenIsToken
  DEF Init, TypeOK, NoSession, NotFound, Operations, Stages

\* The end of an operation leaves its process idle, and the lock free if it had it.
LEMMA EndsType ==
  ASSUME TypeOK, NEW p \in Processes, Ends(p)
  PROVE  /\ lock' \in Processes \cup {Nobody}
         /\ op' \in [Processes -> Operations] /\ stage' \in [Processes -> Stages]
         /\ password' \in [Processes -> Passwords] /\ token' \in [Processes -> Tokens]
         /\ began' \in [Processes -> Nat]
         /\ found' \in [Processes -> [row : Users \cup {NoUser}, era : Nat]]
         /\ \A q \in Processes : (lock = q <=> stage[q] \in {"found", "inserted"})'
BY AnyTokenIsToken DEF TypeOK, Ends, Forget, NotFound, Operations, Stages

LEMMA RefusesType ==
  ASSUME TypeOK, NEW p \in Processes, Refuses(p)
  PROVE  TypeOK'
BY EndsType DEF TypeOK, Refuses

SessionType == [state : {"none", "live", "revoked", "deleted"}, expires : Nat, revoked : Nat, era : Nat]

LEMMA RevokedType ==
  ASSUME TypeOK, NEW p \in Processes
  PROVE  Revoked(p) \in [Tokens -> SessionType]
<1> SUFFICES ASSUME NEW t \in Tokens
             PROVE  Revoked(p)[t] \in SessionType
  BY DEF Revoked
<1>1. sessions[t] \in SessionType /\ began[p] \in Nat
  BY DEF TypeOK, SessionType
<1>2. [sessions[t] EXCEPT !.state = "revoked", !.revoked = began[p]] \in SessionType
  BY <1>1 DEF SessionType
<1> QED BY <1>1, <1>2 DEF Revoked

\* Who has found the row of the account knows it as it is; who has inserted it
\* is the first.
AccountIsHeld ==
  \A p \in Processes :
    /\ stage[p] = "found" => user # NoUser /\ found[p].row = user /\ found[p].era = era
    /\ stage[p] = "inserted" => user = NoUser

LEMMA TypeStep == TypeOK /\ AccountIsHeld /\ [Next]_vars => TypeOK'
<1> SUFFICES ASSUME TypeOK, AccountIsHeld, [Next]_vars PROVE TypeOK'
  OBVIOUS
<1>0. \A p \in Processes : stage[p] = "found" => user \in Users
  BY DEF TypeOK, AccountIsHeld
<1>1. CASE UNCHANGED vars
  BY <1>1 DEF vars, local, TypeOK
<1>2. CASE Tick
  BY <1>2 DEF Tick, local, TypeOK
<1>3. ASSUME NEW p \in Processes, Begin(p) PROVE TypeOK'
  <2>1. PICK o \in Operations : /\ op' = [op EXCEPT ![p] = o]
                                /\ stage' = [stage EXCEPT ![p] = IF o = "create" THEN "insert" ELSE "find"]
                                /\ Choices(p, o)
    BY <1>3 DEF Begin
  <2>2. password' \in [Processes -> Passwords] /\ token' \in [Processes -> Tokens]
    BY <2>1 DEF Choices, TypeOK
  <2>3. op' \in [Processes -> Operations] /\ stage' \in [Processes -> Stages]
    BY <2>1 DEF TypeOK, Stages
  <2>4. \A q \in Processes : (lock = q <=> stage[q] \in {"found", "inserted"})'
    BY <1>3, <2>1 DEF Begin, TypeOK
  <2> QED BY <1>3, <2>2, <2>3, <2>4 DEF Begin, TypeOK
<1>4. ASSUME NEW p \in Processes, Rollback(p) PROVE TypeOK'
  BY <1>4, RefusesType DEF Rollback
<1>5. ASSUME NEW p \in Processes, FindUser(p) PROVE TypeOK'
  BY <1>5 DEF FindUser, ForUpdate, GoesTo, TypeOK, Stages
<1>6. ASSUME NEW p \in Processes, FindNobody(p) PROVE TypeOK'
  BY <1>6, RefusesType DEF FindNobody, GoesTo, TypeOK, Stages
<1>7. ASSUME NEW p \in Processes, Insert(p) PROVE TypeOK'
  BY <1>7 DEF Insert, GoesTo, TypeOK, Stages
<1>8. ASSUME NEW p \in Processes, InsertLoses(p) PROVE TypeOK'
  BY <1>8, RefusesType DEF InsertLoses, GoesTo, TypeOK, Stages
<1>9. ASSUME NEW p \in Processes, CommitInsert(p) PROVE TypeOK'
  BY <1>9, EndsType DEF CommitInsert, TypeOK, Users
<1>10. ASSUME NEW p \in Processes, Login(p) PROVE TypeOK'
  <2>1. CASE Refuses(p)
    BY <2>1, RefusesType
  <2>2. CASE ~Refuses(p)
    <3>1. Ends(p)
      BY <1>10, <2>2 DEF Login
    <3>2. user' \in Users \cup {NoUser}
      <4>1. user \in Users /\ password[p] \in Passwords
        BY <1>0, <1>10 DEF Login, TypeOK
      <4>2. \/ user' = user
            \/ user' = [user EXCEPT !.password = password[p], !.weak = FALSE]
        BY <1>10, <2>2 DEF Login
      <4> QED BY <4>1, <4>2, RowsOfUsers
    <3>3. sessions' \in [Tokens -> SessionType]
      BY <1>10, <2>2 DEF Login, TypeOK, SessionType
    <3> QED BY <1>10, <2>2, <3>1, <3>2, <3>3, EndsType DEF Login, TypeOK, SessionType
  <2> QED BY <2>1, <2>2
<1>11. ASSUME NEW p \in Processes, SetPassword(p) PROVE TypeOK'
  <2>1. user' \in Users \cup {NoUser}
    BY <1>0, <1>11, RowsOfUsers DEF SetPassword, TypeOK
  <2> QED BY <1>11, <2>1, EndsType, RevokedType DEF SetPassword, TypeOK, SessionType
<1>12. ASSUME NEW p \in Processes, Activate(p) PROVE TypeOK'
  <2>1. user' \in Users \cup {NoUser}
    BY <1>0, <1>12, RowsOfUsers DEF Activate
  <2> QED BY <1>12, <2>1, EndsType DEF Activate, TypeOK
<1>13. ASSUME NEW p \in Processes, Deactivate(p) PROVE TypeOK'
  <2>1. user' \in Users \cup {NoUser}
    BY <1>0, <1>13, RowsOfUsers DEF Deactivate
  <2> QED BY <1>13, <2>1, EndsType, RevokedType
    DEF Deactivate, DeactivatedSessions, TypeOK, SessionType
<1>14. ASSUME NEW p \in Processes, Bootstrap(p) PROVE TypeOK'
  <2>1. user' \in Users \cup {NoUser}
    BY <1>0, <1>14, RowsOfUsers, NewRow DEF Bootstrap
  <2>2. sessions' \in [Tokens -> SessionType] /\ era' \in Nat
    BY <1>14, RevokedType DEF Bootstrap, TypeOK, SessionType
  <2> QED BY <1>14, <2>1, <2>2, EndsType DEF Bootstrap, TypeOK, SessionType
<1>15. ASSUME NEW p \in Processes, Logout(p) PROVE TypeOK'
  <2>1. CASE Refuses(p)
    BY <2>1, RefusesType
  <2>2. CASE ~Refuses(p)
    <3>1. PICK t \in Tokens :
            sessions' = [sessions EXCEPT ![t].state = "revoked", ![t].revoked = began[p]]
      BY <1>15, <2>2 DEF Logout, TypeOK
    <3>2. sessions' \in [Tokens -> SessionType]
      <4> SUFFICES ASSUME NEW u \in Tokens PROVE sessions'[u] \in SessionType
        BY <3>1 DEF TypeOK
      <4>1. sessions[u] \in SessionType /\ began[p] \in Nat
        BY DEF TypeOK, SessionType
      <4>2. [sessions[u] EXCEPT !.state = "revoked", !.revoked = began[p]] \in SessionType
        BY <4>1 DEF SessionType
      <4> QED BY <3>1, <4>1, <4>2 DEF TypeOK
    <3> QED BY <1>15, <2>2, <3>2, EndsType DEF Logout, TypeOK, SessionType
  <2> QED BY <2>1, <2>2
<1>16. ASSUME NEW p \in Processes, Cleanup(p) PROVE TypeOK'
  <2>1. sessions' \in [Tokens -> SessionType]
    BY <1>16 DEF Cleanup, TypeOK, SessionType, NoSession
  <2> QED BY <1>16, <2>1, EndsType DEF Cleanup, TypeOK, SessionType
<1> QED
  BY <1>1, <1>2, <1>3, <1>4, <1>5, <1>6, <1>7, <1>8, <1>9, <1>10, <1>11, <1>12, <1>13,
     <1>14, <1>15, <1>16 DEF Next, Work

-----------------------------------------------------------------------------
(* The row of the account *)

LEMMA HeldInit == Init => AccountIsHeld
BY DEF Init, AccountIsHeld

LEMMA HeldStep == TypeOK /\ AccountIsHeld /\ [Next]_vars => AccountIsHeld'
<1> SUFFICES ASSUME TypeOK, AccountIsHeld, [Next]_vars,
                    NEW q \in Processes
             PROVE  /\ (stage[q] = "found" => user # NoUser /\ found[q].row = user /\ found[q].era = era)'
                    /\ (stage[q] = "inserted" => user = NoUser)'
  BY DEF AccountIsHeld
<1> DEFINE Held == /\ (stage[q] = "found" => user # NoUser /\ found[q].row = user /\ found[q].era = era)'
                   /\ (stage[q] = "inserted" => user = NoUser)'
<1>0. ASSUME NEW p \in Processes, lock = p, Ends(p) PROVE Held
  BY <1>0 DEF Ends, Forget, TypeOK
<1>1. ASSUME NEW p \in Processes, Refuses(p) PROVE Held
  BY <1>1 DEF Refuses, Ends, Forget, TypeOK, AccountIsHeld
<1>2. CASE UNCHANGED vars \/ Tick
  BY <1>2 DEF vars, local, Tick, AccountIsHeld
<1>3. ASSUME NEW p \in Processes, Begin(p) PROVE Held
  BY <1>3 DEF Begin, TypeOK, AccountIsHeld
<1>4. ASSUME NEW p \in Processes, FindUser(p) PROVE Held
  BY <1>4 DEF FindUser, ForUpdate, GoesTo, TypeOK, AccountIsHeld
<1>5. ASSUME NEW p \in Processes, FindNobody(p) \/ Insert(p) \/ InsertLoses(p) PROVE Held
  BY <1>1, <1>5 DEF FindNobody, Insert, InsertLoses, MayInsert, GoesTo, TypeOK, AccountIsHeld
<1>6. ASSUME NEW p \in Processes, CommitInsert(p) PROVE Held
  BY <1>0, <1>6 DEF CommitInsert, TypeOK
<1>7. ASSUME NEW p \in Processes,
             SetPassword(p) \/ Activate(p) \/ Deactivate(p) \/ Bootstrap(p)
      PROVE  Held
  BY <1>0, <1>7 DEF SetPassword, Activate, Deactivate, Bootstrap, TypeOK
<1>8. ASSUME NEW p \in Processes, Login(p) PROVE Held
  BY <1>0, <1>1, <1>8 DEF Login, TypeOK
<1>9. ASSUME NEW p \in Processes, Logout(p) PROVE Held
  <2>1. CASE Refuses(p)
    BY <1>1, <2>1
  <2>2. CASE ~Refuses(p)
    BY <1>9, <2>2 DEF Logout, Ends, Forget, TypeOK, AccountIsHeld
  <2> QED BY <2>1, <2>2
<1>10. ASSUME NEW p \in Processes, Cleanup(p) PROVE Held
  BY <1>10 DEF Cleanup, Ends, Forget, TypeOK, AccountIsHeld
<1>11. ASSUME NEW p \in Processes, Rollback(p) PROVE Held
  BY <1>1, <1>11 DEF Rollback
<1> QED
  BY <1>2, <1>3, <1>4, <1>5, <1>6, <1>7, <1>8, <1>9, <1>10, <1>11 DEF Next, Work

\* Every variable has its type, and the account's row is locked by exactly the
\* process whose transaction has found or inserted it.
THEOREM AuthTypeCorrect == Spec => []TypeOK
<1>1. Init => TypeOK /\ AccountIsHeld
  BY TypeInit, HeldInit
<1>2. TypeOK /\ AccountIsHeld /\ [Next]_vars => (TypeOK /\ AccountIsHeld)'
  BY TypeStep, HeldStep
<1> QED BY <1>1, <1>2, PTL DEF Spec

\* The account is created once, however bootstraps and commands interleave.
THEOREM AccountIsCreatedOnce == Spec => []CreatedOnce
<1>1. Init => CreatedOnce
  BY DEF Init, CreatedOnce
<1>2. TypeOK /\ AccountIsHeld /\ CreatedOnce /\ [Next]_vars => CreatedOnce'
  <2> SUFFICES ASSUME TypeOK, AccountIsHeld, CreatedOnce, [Next]_vars PROVE CreatedOnce'
    OBVIOUS
  <2>0. \A p \in Processes : stage[p] = "found" => user \in Users
    BY DEF TypeOK, AccountIsHeld
  <2>1. ASSUME NEW p \in Processes, CommitInsert(p) PROVE CreatedOnce'
    <3>1. user = NoUser /\ created = 0
      BY <2>1 DEF CommitInsert, AccountIsHeld, CreatedOnce
    <3>2. user' # NoUser
      <4>1. password[p] \in Passwords
        BY DEF TypeOK
      <4>2. user' = [password |-> password[p], active |-> TRUE, weak |-> FALSE]
        BY <2>1 DEF CommitInsert
      <4>3. user' \in Users
        BY <4>1, <4>2, NewRow
      <4> QED BY <4>3
    <3> QED BY <2>1, <3>1, <3>2 DEF CommitInsert, CreatedOnce
  <2>2. ASSUME NEW p \in Processes,
               SetPassword(p) \/ Activate(p) \/ Deactivate(p) \/ Bootstrap(p)
        PROVE  CreatedOnce'
    <3>1. user \in Users /\ created' = created
      BY <2>0, <2>2 DEF SetPassword, Activate, Deactivate, Bootstrap
    <3>2. user' \in Users
      <4>1. CASE SetPassword(p)
        BY <3>1, <4>1, RowsOfUsers DEF SetPassword, TypeOK
      <4>2. CASE Activate(p) \/ Deactivate(p)
        BY <3>1, <4>2, RowsOfUsers DEF Activate, Deactivate
      <4>3. CASE Bootstrap(p)
        BY <3>1, <4>3, RowsOfUsers, NewRow DEF Bootstrap
      <4> QED BY <2>2, <4>1, <4>2, <4>3
    <3> QED BY <3>1, <3>2 DEF CreatedOnce
  <2>3. ASSUME NEW p \in Processes, Login(p) PROVE CreatedOnce'
    <3>1. user \in Users /\ created' = created
      BY <2>0, <2>3 DEF Login, Refuses
    <3>2. user' = user \/ user' = [user EXCEPT !.password = password[p], !.weak = FALSE]
      BY <2>3 DEF Login, Refuses
    <3>3. user' \in Users
      <4>1. password[p] \in Passwords
        BY DEF TypeOK
      <4> QED BY <3>1, <3>2, <4>1, RowsOfUsers
    <3> QED BY <3>1, <3>3 DEF CreatedOnce
  <2>4. ASSUME NEW p \in Processes,
               \/ Begin(p) \/ Rollback(p) \/ FindUser(p) \/ FindNobody(p) \/ Insert(p)
               \/ InsertLoses(p) \/ Logout(p) \/ Cleanup(p)
        PROVE  CreatedOnce'
    <3>1. user' = user /\ created' = created
      BY <2>4 DEF Begin, Rollback, FindUser, FindNobody, Insert, InsertLoses, Logout, Cleanup, Refuses
    <3> QED BY <3>1 DEF CreatedOnce
  <2>5. CASE UNCHANGED vars \/ Tick
    BY <2>5 DEF vars, Tick, CreatedOnce
  <2> QED BY <2>1, <2>2, <2>3, <2>4, <2>5 DEF Next, Work
<1>3. Init => TypeOK /\ AccountIsHeld
  BY TypeInit, HeldInit
<1>4. TypeOK /\ AccountIsHeld /\ [Next]_vars => (TypeOK /\ AccountIsHeld)'
  BY TypeStep, HeldStep
<1> QED BY <1>1, <1>2, <1>3, <1>4, PTL DEF Spec

-----------------------------------------------------------------------------
(* Sessions *)

\* No operation began in the future.
ClockRuns == \A p \in Processes : began[p] <= now

Logging(p) == stage[p] # "idle" /\ op[p] = "login"

\* A login under way has a token that no session and no other login has.
TokensAreNew ==
  \A p \in Processes : Logging(p) =>
    /\ sessions[token[p]].state = "none"
    /\ \A q \in Processes : Logging(q) /\ q # p => token[q] # token[p]

Live(t) == sessions[t].state = "live" /\ sessions[t].expires > now

\* A session that is neither revoked nor expired belongs to the account as it is.
LiveIsCurrent ==
  \A t \in Tokens : Live(t) => user # NoUser /\ user.active /\ sessions[t].era = era

AuthInv == TypeOK /\ AccountIsHeld /\ ClockRuns /\ TokensAreNew /\ LiveIsCurrent

LEMMA AuthInvInit == Init => AuthInv
<1> SUFFICES ASSUME Init PROVE ClockRuns /\ TokensAreNew /\ LiveIsCurrent
  BY TypeInit, HeldInit DEF AuthInv
<1>1. ClockRuns
  BY DEF Init, ClockRuns
<1>2. TokensAreNew
  BY DEF Init, TokensAreNew, Logging
<1>3. LiveIsCurrent
  BY DEF Init, LiveIsCurrent, Live, NoSession
<1> QED BY <1>1, <1>2, <1>3

LEMMA RevokedValue ==
  ASSUME TypeOK, NEW p \in Processes, NEW t \in Tokens
  PROVE  \/ /\ sessions[t].state = "live" /\ sessions[t].expires > began[p]
            /\ Revoked(p)[t].state = "revoked"
         \/ /\ ~(sessions[t].state = "live" /\ sessions[t].expires > began[p])
            /\ Revoked(p)[t] = sessions[t]
<1>1. sessions[t] \in SessionType
  BY DEF TypeOK, SessionType
<1>2. [sessions[t] EXCEPT !.state = "revoked", !.revoked = began[p]].state = "revoked"
  BY <1>1 DEF SessionType
<1> QED BY <1>2 DEF Revoked

\* What an operation may do to a session: nothing, or end it, or give a new one.
LEMMA SessionsStep ==
  ASSUME AuthInv, Next
  PROVE  /\ now <= now'
         /\ \A t \in Tokens :
              /\ sessions[t].state # "none" /\ sessions'[t].state = "live" => sessions'[t] = sessions[t]
              /\ sessions[t].state # "none" => sessions'[t].state # "none"
              /\ sessions[t].state = "none" =>
                   \/ sessions'[t].state = "none"
                   \/ \E p \in Processes : Login(p) /\ ~Refuses(p) /\ t = token[p]
<1> DEFINE Good ==
      /\ now <= now'
      /\ \A t \in Tokens :
           /\ sessions[t].state # "none" /\ sessions'[t].state = "live" => sessions'[t] = sessions[t]
           /\ sessions[t].state # "none" => sessions'[t].state # "none"
           /\ sessions[t].state = "none" =>
                \/ sessions'[t].state = "none"
                \/ \E p \in Processes : Login(p) /\ ~Refuses(p) /\ t = token[p]
<1>0. TypeOK
  BY DEF AuthInv
<1>1. ASSUME sessions' = sessions, now <= now' PROVE Good
  BY <1>1
<1>2. now <= now
  BY <1>0 DEF TypeOK
<1>3. CASE Tick
  <2>1. now <= now'
    BY <1>0, <1>3 DEF Tick, TypeOK
  <2> QED BY <1>1, <1>3, <2>1 DEF Tick
<1>4. ASSUME NEW p \in Processes,
             \/ Begin(p) \/ Rollback(p) \/ FindUser(p) \/ FindNobody(p) \/ Insert(p)
             \/ InsertLoses(p) \/ CommitInsert(p) \/ Activate(p)
      PROVE  Good
  BY <1>1, <1>2, <1>4
     DEF Begin, Rollback, FindUser, FindNobody, Insert, InsertLoses, CommitInsert, Activate, Refuses
<1>5. ASSUME NEW p \in Processes, Refuses(p) PROVE Good
  BY <1>1, <1>2, <1>5 DEF Refuses
<1>6. ASSUME NEW p \in Processes, sessions' = Revoked(p), now' = now PROVE Good
  <2> SUFFICES ASSUME NEW t \in Tokens
               PROVE  \/ sessions'[t] = sessions[t]
                      \/ sessions[t].state = "live" /\ sessions'[t].state = "revoked"
    BY <1>2, <1>6
  <2> QED BY <1>0, <1>6, RevokedValue
<1>7. ASSUME NEW p \in Processes, SetPassword(p) \/ Deactivate(p) \/ Bootstrap(p) PROVE Good
  BY <1>1, <1>2, <1>6, <1>7 DEF SetPassword, Deactivate, DeactivatedSessions, Bootstrap
<1>8. ASSUME NEW p \in Processes, Login(p), ~Refuses(p) PROVE Good
  <2>1. /\ sessions' = [sessions EXCEPT ![token[p]] =
                [state |-> "live", expires |-> began[p] + Ttl, revoked |-> 0, era |-> found[p].era]]
        /\ now' = now
        /\ Logging(p)
    BY <1>8 DEF Login, Logging
  <2>2. sessions[token[p]].state = "none"
    BY <2>1 DEF AuthInv, TokensAreNew
  <2> QED BY <1>0, <1>2, <1>8, <2>1, <2>2 DEF TypeOK
<1>9. ASSUME NEW p \in Processes, Logout(p), ~Refuses(p) PROVE Good
  <2>1. /\ sessions' = [sessions EXCEPT ![token[p]].state = "revoked", ![token[p]].revoked = began[p]]
        /\ sessions[token[p]].state = "live"
        /\ now' = now
    BY <1>9 DEF Logout
  <2> SUFFICES ASSUME NEW t \in Tokens
               PROVE  \/ sessions'[t] = sessions[t]
                      \/ sessions[t].state = "live" /\ sessions'[t].state = "revoked"
    BY <1>2, <2>1
  <2> QED BY <1>0, <2>1 DEF TypeOK
<1>10. ASSUME NEW p \in Processes, Cleanup(p) PROVE Good
  <2>1. now' = now
    BY <1>10 DEF Cleanup
  <2> SUFFICES ASSUME NEW t \in Tokens
               PROVE  \/ sessions'[t] = sessions[t]
                      \/ sessions[t].state # "none" /\ sessions'[t].state = "deleted"
    BY <1>2, <2>1
  <2> QED BY <1>10 DEF Cleanup, NoSession
<1> QED
  BY <1>3, <1>4, <1>5, <1>7, <1>8, <1>9, <1>10 DEF Next, Work

LEMMA ClockStep == AuthInv /\ [Next]_vars => ClockRuns'
<1> SUFFICES ASSUME AuthInv, [Next]_vars, NEW q \in Processes PROVE (began[q] <= now)'
  BY DEF ClockRuns
<1>0. /\ began \in [Processes -> Nat] /\ now \in Nat
      /\ began[q] <= now
  BY DEF AuthInv, TypeOK, ClockRuns
<1>1. ASSUME NEW p \in Processes, Ends(p), now' = now PROVE (began[q] <= now)'
  BY <1>0, <1>1 DEF Ends, Forget
<1>2. ASSUME NEW p \in Processes, Refuses(p) PROVE (began[q] <= now)'
  BY <1>1, <1>2 DEF Refuses
<1>3. CASE Tick \/ UNCHANGED vars
  BY <1>0, <1>3 DEF Tick, vars, local
<1>4. ASSUME NEW p \in Processes, Begin(p) PROVE (began[q] <= now)'
  BY <1>0, <1>4 DEF Begin
<1>5. ASSUME NEW p \in Processes, FindUser(p) \/ Insert(p) PROVE (began[q] <= now)'
  BY <1>0, <1>5 DEF FindUser, Insert, GoesTo
<1>6. ASSUME NEW p \in Processes, FindNobody(p) \/ InsertLoses(p) \/ Rollback(p)
      PROVE  (began[q] <= now)'
  BY <1>0, <1>2, <1>6 DEF FindNobody, InsertLoses, Rollback, GoesTo
<1>7. ASSUME NEW p \in Processes,
             \/ CommitInsert(p) \/ Login(p) \/ SetPassword(p) \/ Activate(p) \/ Deactivate(p)
             \/ Bootstrap(p) \/ Logout(p) \/ Cleanup(p)
      PROVE  (began[q] <= now)'
  BY <1>1, <1>2, <1>7
     DEF CommitInsert, Login, SetPassword, Activate, Deactivate, Bootstrap, Logout, Cleanup
<1> QED BY <1>3, <1>4, <1>5, <1>6, <1>7 DEF Next, Work

\* Only Begin makes a process log in, and it does so with a token of its own.
LEMMA LoggingStep ==
  ASSUME TypeOK, Next
  PROVE  \/ \A q \in Processes : Logging(q)' => Logging(q) /\ token'[q] = token[q]
         \/ \E p \in Processes :
              /\ Begin(p)
              /\ \A q \in Processes \ {p} : Logging(q)' => Logging(q) /\ token'[q] = token[q]
<1> DEFINE Kept(S) == \A q \in S : Logging(q)' => Logging(q) /\ token'[q] = token[q]
<1>1. ASSUME NEW p \in Processes, Ends(p) PROVE Kept(Processes)
  BY <1>1 DEF Ends, Forget, Logging, TypeOK
<1>2. ASSUME NEW p \in Processes, Refuses(p) PROVE Kept(Processes)
  BY <1>1, <1>2 DEF Refuses
<1>3. CASE Tick
  BY <1>3 DEF Tick, local, Logging
<1>4. ASSUME NEW p \in Processes, Begin(p) PROVE Kept(Processes \ {p})
  <2>1. PICK o \in Operations : /\ op' = [op EXCEPT ![p] = o]
                                /\ stage' = [stage EXCEPT ![p] = IF o = "create" THEN "insert" ELSE "find"]
                                /\ Choices(p, o)
    BY <1>4 DEF Begin
  <2>2. token' = token \/ \E t \in Tokens : token' = [token EXCEPT ![p] = t]
    BY <2>1 DEF Choices
  <2> QED BY <2>1, <2>2 DEF Logging, TypeOK
<1>5. ASSUME NEW p \in Processes, GoesTo(p, "find") \/ GoesTo(p, "insert") \/ GoesTo(p, "inserted")
                                     \/ GoesTo(p, "found"), stage[p] # "idle"
      PROVE  Kept(Processes)
  BY <1>5 DEF GoesTo, Logging, TypeOK
<1>6. ASSUME NEW p \in Processes, FindUser(p) \/ Insert(p) PROVE Kept(Processes)
  BY <1>5, <1>6 DEF FindUser, Insert
<1>7. ASSUME NEW p \in Processes, FindNobody(p) \/ InsertLoses(p) \/ Rollback(p)
      PROVE  Kept(Processes)
  BY <1>2, <1>5, <1>7 DEF FindNobody, InsertLoses, Rollback
<1>8. ASSUME NEW p \in Processes,
             \/ CommitInsert(p) \/ Login(p) \/ SetPassword(p) \/ Activate(p) \/ Deactivate(p)
             \/ Bootstrap(p) \/ Logout(p) \/ Cleanup(p)
      PROVE  Kept(Processes)
  BY <1>1, <1>2, <1>8
     DEF CommitInsert, Login, SetPassword, Activate, Deactivate, Bootstrap, Logout, Cleanup
<1> QED BY <1>3, <1>4, <1>6, <1>7, <1>8 DEF Next, Work

LEMMA TokensStep == AuthInv /\ [Next]_vars => TokensAreNew'
<1> SUFFICES ASSUME AuthInv, [Next]_vars PROVE TokensAreNew'
  OBVIOUS
<1>0. TypeOK /\ TokensAreNew
  BY DEF AuthInv
<1>1. CASE UNCHANGED vars
  BY <1>0, <1>1 DEF vars, local, TokensAreNew, Logging
<1>2. ASSUME NEW p \in Processes, Begin(p) PROVE TokensAreNew'
  <2>1. PICK o \in Operations : /\ op' = [op EXCEPT ![p] = o]
                                /\ stage' = [stage EXCEPT ![p] = IF o = "create" THEN "insert" ELSE "find"]
                                /\ Choices(p, o)
    BY <1>2 DEF Begin
  <2>2. token' = token \/ \E t \in Tokens : token' = [token EXCEPT ![p] = t]
    BY <2>1 DEF Choices
  <2>3. o = "login" => /\ sessions[token'[p]].state = "none"
                       /\ \A q \in Processes : stage[q] # "idle" => token[q] # token'[p]
    BY <1>0, <2>1 DEF Choices, TypeOK
  <2>4. sessions' = sessions /\ stage[p] = "idle"
    BY <1>2 DEF Begin
  <2>5. \A q \in Processes \ {p} : (Logging(q)' <=> Logging(q)) /\ token'[q] = token[q]
    BY <1>0, <2>1, <2>2 DEF Logging, TypeOK
  <2>6. Logging(p)' => o = "login"
    BY <1>0, <2>1 DEF Logging, TypeOK
  <2> QED BY <1>0, <2>3, <2>4, <2>5, <2>6 DEF TokensAreNew, Logging
<1>3. ASSUME Next, \A q \in Processes : Logging(q)' => Logging(q) /\ token'[q] = token[q]
      PROVE  TokensAreNew'
  <2> SUFFICES ASSUME NEW q \in Processes, Logging(q)'
               PROVE  /\ sessions'[token'[q]].state = "none"
                      /\ \A r \in Processes : Logging(r)' /\ r # q => token'[r] # token'[q]
    BY DEF TokensAreNew
  <2>1. Logging(q) /\ token'[q] = token[q] /\ token[q] \in Tokens
    BY <1>0, <1>3 DEF TypeOK
  <2>2. \A r \in Processes : Logging(r)' /\ r # q => token'[r] # token'[q]
    BY <1>0, <1>3, <2>1 DEF TokensAreNew
  <2>3. ASSUME NEW p \in Processes, Login(p), ~Refuses(p), token[q] = token[p] PROVE FALSE
    <3>1. Logging(p) /\ Ends(p)
      BY <2>3 DEF Login, Logging
    <3>2. p = q
      BY <1>0, <2>1, <2>3, <3>1 DEF TokensAreNew
    <3>3. ~Logging(p)'
      BY <1>0, <3>1 DEF Ends, Forget, Logging, TypeOK
    <3> QED BY <3>2, <3>3
  <2>4. sessions'[token[q]].state = "none"
    BY <1>0, <1>3, <2>1, <2>3, SessionsStep DEF TokensAreNew
  <2> QED BY <2>1, <2>2, <2>4
<1> QED BY <1>0, <1>1, <1>2, <1>3, LoggingStep

\* A change of the password and the closing of the account end every session
\* that is alive: those had not expired when the operation began.
LEMMA RevokedDies ==
  ASSUME AuthInv, NEW p \in Processes, sessions' = Revoked(p), now' = now, NEW t \in Tokens
  PROVE  ~Live(t)'
<1>1. /\ began[p] \in Nat /\ now \in Nat /\ sessions[t].expires \in Nat
      /\ began[p] <= now
  BY DEF AuthInv, TypeOK, ClockRuns
<1>2. TypeOK
  BY DEF AuthInv
<1> QED BY <1>1, <1>2, RevokedValue DEF Live

LEMMA LiveStep == AuthInv /\ [Next]_vars => LiveIsCurrent'
<1> SUFFICES ASSUME AuthInv, [Next]_vars, NEW t \in Tokens, Live(t)'
             PROVE  (user # NoUser /\ user.active /\ sessions[t].era = era)'
  BY DEF LiveIsCurrent
<1> DEFINE Current == user # NoUser /\ user.active /\ sessions[t].era = era
<1>0. TypeOK /\ AccountIsHeld /\ LiveIsCurrent
  BY DEF AuthInv
<1>1. CASE UNCHANGED vars
  BY <1>0, <1>1 DEF vars, LiveIsCurrent, Live
<1>2. ASSUME NEW p \in Processes, Login(p), ~Refuses(p) PROVE Current'
  <2>1. user \in Users /\ user # NoUser /\ found[p].row = user /\ found[p].era = era
    BY <1>0, <1>2 DEF Login, AccountIsHeld, TypeOK
  <2>2. /\ user.active
        /\ \/ user' = user
           \/ user' = [user EXCEPT !.password = password[p], !.weak = FALSE]
    BY <1>2, <2>1 DEF Login
  <2>3. user' # NoUser /\ user'.active
    <3>1. password[p] \in Passwords
      BY <1>0 DEF TypeOK
    <3>2. user' \in Users
      BY <2>1, <2>2, <3>1, RowsOfUsers
    <3>3. user'.active = user.active
      BY <2>1, <2>2 DEF Users
    <3> QED BY <2>2, <3>2, <3>3
  <2>4. era' = era
    BY <1>2 DEF Login
  <2>5. CASE t = token[p]
    BY <1>0, <1>2, <2>1, <2>3, <2>4, <2>5 DEF Login, TypeOK
  <2>6. CASE t # token[p]
    <3>1. sessions'[t] = sessions[t] /\ now' = now
      BY <1>0, <1>2, <2>6 DEF Login, TypeOK
    <3> QED BY <1>0, <2>3, <2>4, <3>1 DEF LiveIsCurrent, Live
  <2> QED BY <2>5, <2>6
<1>3. ASSUME Next, \A p \in Processes : Login(p) => Refuses(p) PROVE Current'
  <2>1. sessions[t].state # "none" /\ sessions'[t] = sessions[t] /\ now <= now'
    BY <1>3, SessionsStep DEF Live
  <2>2. Live(t)
    <3>1. now \in Nat /\ now' \in Nat /\ sessions[t].expires \in Nat
      BY <1>0, TypeStep DEF TypeOK
    <3> QED BY <2>1, <3>1 DEF Live
  <2>3. user \in Users /\ Current
    BY <1>0, <2>2 DEF LiveIsCurrent, TypeOK
  <2>4. ASSUME user' = user, era' = era PROVE Current'
    BY <2>1, <2>3, <2>4
  <2>5. ASSUME NEW p \in Processes, CommitInsert(p) PROVE Current'
    BY <1>0, <2>3, <2>5 DEF CommitInsert, AccountIsHeld
  <2>6. ASSUME NEW p \in Processes, SetPassword(p) \/ Deactivate(p) PROVE Current'
    BY <2>6, RevokedDies DEF SetPassword, Deactivate, DeactivatedSessions
  <2>7. ASSUME user' = [user EXCEPT !.active = TRUE], era' = era PROVE Current'
    <3>1. user' \in Users
      BY <2>3, <2>7, RowsOfUsers
    <3>2. user'.active
      BY <2>3, <2>7 DEF Users
    <3> QED BY <2>1, <2>3, <2>7, <3>1, <3>2
  <2>8. ASSUME NEW p \in Processes, Activate(p) \/ Bootstrap(p) PROVE Current'
    BY <2>7, <2>8, RevokedDies DEF Activate, Bootstrap
  <2>9. ASSUME NEW p \in Processes,
               \/ Begin(p) \/ Rollback(p) \/ FindUser(p) \/ FindNobody(p) \/ Insert(p)
               \/ InsertLoses(p) \/ Login(p) \/ Logout(p) \/ Cleanup(p)
        PROVE  Current'
    BY <1>3, <2>4, <2>9
       DEF Begin, Rollback, FindUser, FindNobody, Insert, InsertLoses, Logout, Cleanup, Refuses
  <2>10. CASE Tick
    BY <2>4, <2>10 DEF Tick
  <2> QED BY <1>3, <2>5, <2>6, <2>8, <2>9, <2>10 DEF Next, Work
<1> QED BY <1>1, <1>2, <1>3

LEMMA AuthInvStep == AuthInv /\ [Next]_vars => AuthInv'
BY TypeStep, HeldStep, ClockStep, TokensStep, LiveStep DEF AuthInv

LEMMA AuthInvariant == Spec => []AuthInv
<1>1. Init => AuthInv
  BY AuthInvInit
<1>2. AuthInv /\ [Next]_vars => AuthInv'
  BY AuthInvStep
<1> QED BY <1>1, <1>2, PTL DEF Spec

\* A token that is accepted belongs to the password that is set and to an
\* account that has not been closed since it was given.
THEOREM UsableIsAlwaysCurrent == Spec => []UsableIsCurrent
<1>1. AuthInv => UsableIsCurrent
  BY DEF AuthInv, UsableIsCurrent, Usable, LiveIsCurrent, Live
<1> QED BY <1>1, AuthInvariant, PTL

\* A token that is not accepted any more never is again.
THEOREM TokensNeverComeBack == Spec => TokensNeverReturn
<1>1. AuthInv /\ AuthInv' /\ [Next]_vars =>
        [\A t \in Tokens : sessions[t].state # "none" /\ ~Usable(t) => ~Usable(t)']_vars
  <2> SUFFICES ASSUME AuthInv, AuthInv', Next,
                      NEW t \in Tokens, sessions[t].state # "none", ~Usable(t), Usable(t)'
               PROVE  FALSE
    OBVIOUS
  <2>1. /\ now \in Nat /\ now' \in Nat /\ sessions[t].expires \in Nat
        /\ sessions'[t] = sessions[t] /\ now <= now'
    BY SessionsStep DEF AuthInv, TypeOK, Usable
  <2>2. Live(t)
    BY <2>1 DEF Usable, Live
  <2>3. Usable(t)
    BY <2>2 DEF AuthInv, LiveIsCurrent, Live, Usable
  <2> QED BY <2>3
<1> QED BY <1>1, AuthInvariant, PTL DEF Spec, TokensNeverReturn

=============================================================================
