--------------------------- MODULE CustomersProofs ---------------------------
(***************************************************************************)
(* Theorems about the services of Customers, for every set of users,       *)
(* tokens, products, order items and handlers, every stock, every lifetime *)
(* and every bound.  Those about AuthTokens are of its own specification;  *)
(* the others are proved of a service's specification and hold beside the  *)
(* others, which leave its variables alone.                                *)
(***************************************************************************)
EXTENDS Customers, SumTheorems

(***************************************************************************)
(* Accounts and tokens: types, with what a handler has at each of its      *)
(* steps.                                                                  *)
(***************************************************************************)
TaskSet == [pc : Steps, user : Users \union {None}, token : Tokens \union {None}, mail : MailTokens \union {None}]

ValidTask(t) ==
    /\ t \in TaskSet
    /\ t.pc \in {"insert", "sign", "find", "revoke", "check"} => t.user \in Users
    /\ t.pc \in {"answer", "check", "find", "revoke", "logout"} => t.token \in Tokens
    /\ t.pc \in Purposes \union {"delete"} => t.mail \in MailTokens /\ t.user \in Users

Tables ==
    /\ account \in [Users -> {"none", "unverified", "verified", "deleted"}]
    /\ given \subseteq Tokens
    /\ revoked \in [Tokens -> 0 .. MaxTime + RefreshTtl]
    /\ mailed \in [MailTokens -> Mail \union {None}]
    /\ uses \in [MailTokens -> Nat]
    /\ now \in 0 .. MaxTime
    /\ races \subseteq {"refresh", "mail"}
    /\ deaths \in 0 .. MaxDeaths

Tasks == task \in [Handlers -> TaskSet] /\ \A h \in Handlers : ValidTask(task[h])

LEMMA TypeParts == AuthTypeOK <=> Tables /\ Tasks
  BY DEF AuthTypeOK, Tables, Tasks, TaskSet, ValidTask

LEMMA TaskFacts ==
    ASSUME NEW h \in Handlers, Tasks, NEW t, task' = [task EXCEPT ![h] = t], ValidTask(t)
    PROVE  Tasks'
  BY DEF Tasks, ValidTask

LEMMA NoTaskValid == ValidTask(NoTask)
  BY DEF ValidTask, NoTask, Task, TaskSet, Steps, Purposes

\* A handler goes on with the user and the mailed token it has.
LEMMA GoOnValid ==
    ASSUME NEW h \in Handlers, Tasks, NEW pc, NEW token, GoOn(h, pc, token),
           pc \in Steps, token \in Tokens \union {None},
           pc \in {"insert", "sign", "find", "revoke", "check"} => task[h].user \in Users,
           pc \in {"answer", "check", "find", "revoke", "logout"} => token \in Tokens,
           pc \in Purposes \union {"delete"} => task[h].mail \in MailTokens /\ task[h].user \in Users
    PROVE  Tasks'
  <1> DEFINE t == Task(pc, task[h].user, token, task[h].mail)
  <1>1. ValidTask(t)
    BY DEF Task, ValidTask, TaskSet, Tasks
  <1> QED
    BY <1>1, TaskFacts DEF GoOn

LEMMA DoneValid ==
    ASSUME NEW h \in Handlers, Tasks, Done(h)
    PROVE  Tasks'
  BY NoTaskValid, TaskFacts DEF Done

\* What a step of the system is, without its grouping by operation.
Step ==
    \/ \E h \in Handlers :
        \/ \E u \in Users : StartRegister(h, u) \/ Login(h, u)
        \/ \E t \in given : StartRefresh(h, t) \/ StartLogout(h, t)
        \/ \E k \in MailTokens : GetMailed(h, k)
        \/ Insert(h) \/ Sign(h) \/ Answer(h)
        \/ CheckRevoked(h) \/ FindUser(h) \/ Revoke(h) \/ Logout(h)
        \/ ApplyMailed(h) \/ DeleteMailed(h) \/ Die(h)
    \/ \E k \in MailTokens, u \in Users, p \in Purposes : SendMail(k, u, p)
    \/ \E u \in Users : AdminCreate(u) \/ AdminDelete(u)
    \/ Tick

LEMMA NextIsStep == Next => Step
  BY DEF Next, Step, SignIn, Refresh, UseMail

LEMMA StepTypes ==
    ASSUME AuthTypeOK, Step
    PROVE  AuthTypeOK'
  <1> USE TtlAssumption, BoundsAssumption
  <1>a. Tables /\ Tasks
    BY TypeParts
  <1>b. Registered \subseteq Users
    BY DEF Registered
  <1>1. ASSUME NEW h \in Handlers, NEW u \in Users, StartRegister(h, u)
        PROVE  Tables' /\ Tasks'
    <2>1. ValidTask(Task("insert", u, None, None))
      BY DEF ValidTask, Task, TaskSet, Steps, Purposes
    <2> QED
      BY <1>1, <1>a, <2>1, TaskFacts DEF StartRegister, Start, Tables
  <1>2. ASSUME NEW h \in Handlers, NEW u \in Users, Login(h, u)
        PROVE  Tables' /\ Tasks'
    <2>1. ValidTask(Task("sign", u, None, None))
      BY DEF ValidTask, Task, TaskSet, Steps, Purposes
    <2> QED
      BY <1>2, <1>a, <2>1, TaskFacts DEF Login, Start, Tables
  <1>3. ASSUME NEW h \in Handlers, NEW t \in given, StartRefresh(h, t)
        PROVE  Tables' /\ Tasks'
    <2>1. t \in Tokens /\ t.user \in Users
      BY <1>a DEF Tables, Tokens
    <2>2. ValidTask(Task("check", t.user, t, None))
      BY <2>1 DEF ValidTask, Task, TaskSet, Steps, Purposes
    <2> QED
      BY <1>3, <1>a, <2>2, TaskFacts DEF StartRefresh, Start, Tables, RefreshRace
  <1>4. ASSUME NEW h \in Handlers, NEW t \in given, StartLogout(h, t)
        PROVE  Tables' /\ Tasks'
    <2>1. ValidTask(Task("logout", None, t, None))
      BY <1>a DEF ValidTask, Task, TaskSet, Steps, Purposes, Tables
    <2> QED
      BY <1>4, <1>a, <2>1, TaskFacts DEF StartLogout, Start, Tables, RefreshRace
  <1>5. ASSUME NEW h \in Handlers, NEW k \in MailTokens, GetMailed(h, k)
        PROVE  Tables' /\ Tasks'
    <2>1. mailed[k] \in Mail
      BY <1>5, <1>a DEF GetMailed, Waiting, Tables
    <2>2. ValidTask(Task(mailed[k].purpose, mailed[k].user, None, k))
      BY <2>1 DEF ValidTask, Task, TaskSet, Steps, Purposes, Mail
    <2> QED
      BY <1>5, <1>a, <2>2, TaskFacts DEF GetMailed, Start, Tables
  <1>6. ASSUME NEW h \in Handlers, Insert(h)
        PROVE  Tables' /\ Tasks'
    <2>1. task[h].user \in Users /\ task[h].token \in Tokens \union {None}
      BY <1>6, <1>a DEF Insert, At, Tasks, ValidTask, TaskSet
    <2>2. Tasks'
      BY <1>6, <1>a, <2>1, GoOnValid, DoneValid DEF Insert, Goto, Steps, Purposes
    <2> QED
      BY <1>6, <1>a, <2>1, <2>2 DEF Insert, Tables
  <1>7. ASSUME NEW h \in Handlers, Sign(h)
        PROVE  Tables' /\ Tasks'
    <2>1. [user |-> task[h].user, iat |-> now] \in Tokens
      BY <1>7, <1>a DEF Sign, At, Tasks, ValidTask, Tables, Tokens
    <2>2. Tasks'
      BY <1>7, <1>a, <2>1, GoOnValid DEF Sign, Steps, Purposes
    <2> QED
      BY <1>7, <1>a, <2>2 DEF Sign, Tables
  <1>8. ASSUME NEW h \in Handlers, Answer(h)
        PROVE  Tables' /\ Tasks'
    BY <1>8, <1>a, DoneValid DEF Answer, At, Tasks, ValidTask, Tables
  <1>9. ASSUME NEW h \in Handlers, CheckRevoked(h) \/ FindUser(h)
        PROVE  Tables' /\ Tasks'
    <2>1. task[h].user \in Users /\ task[h].token \in Tokens
      BY <1>9, <1>a DEF CheckRevoked, FindUser, At, Tasks, ValidTask
    <2>2. Tasks'
      BY <1>9, <1>a, <2>1, GoOnValid, DoneValid DEF CheckRevoked, FindUser, Goto, Steps, Purposes
    <2> QED
      BY <1>9, <1>a, <2>2 DEF CheckRevoked, FindUser, Tables
  <1>10. ASSUME NEW h \in Handlers, Revoke(h) \/ Logout(h)
         PROVE  Tables' /\ Tasks'
    <2>1. task[h].token \in Tokens /\ (Revoke(h) => task[h].user \in Users)
      BY <1>10, <1>a DEF Revoke, Logout, At, Tasks, ValidTask
    <2>2. Tasks'
      BY <1>10, <1>a, <2>1, GoOnValid, DoneValid DEF Revoke, Logout, Steps, Purposes
    <2>3. now + RefreshTtl \in 0 .. MaxTime + RefreshTtl
      BY <1>a DEF Tables
    <2>4. revoked' = [revoked EXCEPT ![task[h].token] = now + RefreshTtl]
      BY <1>10 DEF Revoke, Logout, Revoked
    <2>5. revoked' \in [Tokens -> 0 .. MaxTime + RefreshTtl]
      BY <1>a, <2>1, <2>3, <2>4 DEF Tables
    <2> QED
      BY <1>10, <1>a, <2>2, <2>5 DEF Revoke, Logout, Tables
  <1>11. ASSUME NEW h \in Handlers, ApplyMailed(h)
         PROVE  Tables' /\ Tasks'
    <2>1. task[h].mail \in MailTokens /\ task[h].user \in Users /\ task[h].token \in Tokens \union {None}
      BY <1>11, <1>a DEF ApplyMailed, Tasks, ValidTask, TaskSet
    <2>2. Tasks'
      BY <1>11, <1>a, <2>1, GoOnValid DEF ApplyMailed, Goto, Steps, Purposes
    <2> QED
      BY <1>11, <1>a, <2>1, <2>2 DEF ApplyMailed, Tables
  <1>12. ASSUME NEW h \in Handlers, DeleteMailed(h)
         PROVE  Tables' /\ Tasks'
    BY <1>12, <1>a, DoneValid DEF DeleteMailed, At, Tasks, ValidTask, Tables
  <1>13. ASSUME NEW h \in Handlers, Die(h)
         PROVE  Tables' /\ Tasks'
    BY <1>13, <1>a, DoneValid DEF Die, Tables
  <1>14. ASSUME NEW k \in MailTokens, NEW u \in Users, NEW p \in Purposes, SendMail(k, u, p)
         PROVE  Tables' /\ Tasks'
    <2>1. [user |-> u, purpose |-> p, until |-> now + MailTtl] \in Mail
      BY <1>a DEF Mail, Tables
    <2> QED
      BY <1>14, <1>a, <2>1 DEF SendMail, Tables, Tasks
  <1>15. ASSUME NEW u \in Users, AdminCreate(u) \/ AdminDelete(u)
         PROVE  Tables' /\ Tasks'
    BY <1>15, <1>a DEF AdminCreate, AdminDelete, Tables, Tasks
  <1>16. ASSUME Tick
         PROVE  Tables' /\ Tasks'
    BY <1>16, <1>a DEF Tick, Tables, Tasks
  <1>17. Tables' /\ Tasks'
    BY <1>1, <1>2, <1>3, <1>4, <1>5, <1>6, <1>7, <1>8, <1>9, <1>10, <1>11, <1>12, <1>13, <1>14,
       <1>15, <1>16 DEF Step
  <1>18. AuthTypeOK' <=> Tables' /\ Tasks'
    BY DEF AuthTypeOK, Tables, Tasks, TaskSet, ValidTask
  <1> QED
    BY <1>17, <1>18

\* Accounts, keys, mailed tokens and handlers keep their shapes, and a handler has the token and
\* the user its next step needs (auth.service.ts never asks again for either).
THEOREM TypesCorrect == Spec => []AuthTypeOK
  <1>1. Init => AuthTypeOK
    <2> SUFFICES ASSUME Init
                 PROVE  AuthTypeOK
      OBVIOUS
    <2>1. Tables
      BY TtlAssumption, BoundsAssumption DEF Init, Tables
    <2>2. Tasks
      BY NoTaskValid DEF Init, Tasks, ValidTask
    <2> QED
      BY <2>1, <2>2, TypeParts
  <1>2. AuthTypeOK /\ [Next]_vars => AuthTypeOK'
    <2>1. AuthTypeOK /\ UNCHANGED vars => AuthTypeOK'
      BY DEF vars, AuthTypeOK
    <2> QED
      BY <2>1, NextIsStep, StepTypes
  <1> QED
    BY <1>1, <1>2, PTL DEF Spec

-----------------------------------------------------------------------------
(***************************************************************************)
(* RevokedStaysRevoked: a token that is known was signed by now, so a key  *)
(* that revokes it now outlives it; and until two handlers have held one   *)
(* token, nobody revokes the token that another is about to exchange.      *)
(***************************************************************************)
Refreshing == {"check", "find", "revoke", "logout"}
Fresh(t) == revoked[t] = 0 \/ Expired(t)

KeyInv ==
    /\ \A t \in given : t.iat <= now
    /\ \A h \in Handlers : task[h].pc \in Refreshing \union {"answer"} => task[h].token.iat <= now
    /\ \A t \in Tokens : revoked[t] = 0 \/ revoked[t] >= t.iat + RefreshTtl
    /\ "refresh" \notin races =>
        \A h \in Handlers :
            /\ task[h].pc \in Refreshing =>
                \A g \in Handlers \ {h} : task[g].pc \in Refreshing => task[g].token # task[h].token
            /\ task[h].pc \in {"find", "revoke"} => Fresh(task[h].token)

\* A step of one handler that gives out and revokes no token.
LEMMA KeepsKeys ==
    ASSUME AuthTypeOK, KeyInv, NEW h \in Handlers, NEW t, task' = [task EXCEPT ![h] = t],
           UNCHANGED <<given, revoked, now>>, races \subseteq races',
           t.pc \in Refreshing \union {"answer"} => t.token.iat <= now,
           t.pc \in Refreshing /\ "refresh" \notin races' =>
                \A g \in Handlers \ {h} : task[g].pc \in Refreshing => task[g].token # t.token,
           t.pc \in {"find", "revoke"} /\ "refresh" \notin races' => Fresh(t.token)
    PROVE  KeyInv'
  <1>1. \A g \in Handlers : task'[g] = IF g = h THEN t ELSE task[g]
    BY DEF AuthTypeOK
  <1>2. \A q : Fresh(q)' <=> Fresh(q)
    BY DEF Fresh, Expired
  <1>3. "refresh" \notin races' => "refresh" \notin races
    OBVIOUS
  <1>4. /\ \A q \in given' : q.iat <= now'
        /\ \A g \in Handlers : task'[g].pc \in Refreshing \union {"answer"} => task'[g].token.iat <= now'
        /\ \A q \in Tokens : revoked'[q] = 0 \/ revoked'[q] >= q.iat + RefreshTtl
    BY <1>1 DEF KeyInv
  <1>5. ASSUME "refresh" \notin races', NEW g \in Handlers
        PROVE  /\ task'[g].pc \in Refreshing =>
                    \A k \in Handlers \ {g} : task'[k].pc \in Refreshing => task'[k].token # task'[g].token
               /\ task'[g].pc \in {"find", "revoke"} => Fresh(task'[g].token)
    <2>1. CASE g = h
      BY <1>1, <1>5, <2>1
    <2>2. CASE g # h
      BY <1>1, <1>3, <1>5, <2>2 DEF KeyInv
    <2> QED
      BY <2>1, <2>2
  <1> QED
    BY <1>2, <1>4, <1>5 DEF KeyInv

\* Whoever finds a token not revoked finds one that was never revoked, or has expired.
LEMMA NotRevoked ==
    ASSUME AuthTypeOK, KeyInv, NEW t \in Tokens, ~IsRevoked(t)
    PROVE  Fresh(t)
  <1>1. revoked[t] \in 0 .. MaxTime + RefreshTtl /\ now \in 0 .. MaxTime /\ t.iat \in 0 .. MaxTime
    BY DEF AuthTypeOK, Tokens
  <1>2. revoked[t] = 0 \/ revoked[t] >= t.iat + RefreshTtl
    BY DEF KeyInv
  <1>3. ~(now < revoked[t])
    BY DEF IsRevoked
  <1> QED
    BY <1>1, <1>2, <1>3, TtlAssumption, BoundsAssumption DEF Fresh, Expired

LEMMA StepKeys ==
    ASSUME AuthTypeOK, KeyInv, Step
    PROVE  KeyInv'
  <1>a. /\ \A h \in Handlers : task[h].pc \in Refreshing \union {"answer"} => task[h].token \in Tokens
        /\ now \in Nat /\ RefreshTtl \in Nat /\ \A t \in Tokens : t.iat \in Nat
        /\ given \subseteq Tokens
    BY TtlAssumption, BoundsAssumption DEF AuthTypeOK, Refreshing, Tokens
  <1>b. NoTask.pc \notin Refreshing \union {"answer"}
    BY DEF NoTask, Task, Refreshing
  <1>1. ASSUME NEW h \in Handlers, NEW u \in Users, StartRegister(h, u) \/ Login(h, u)
        PROVE  KeyInv'
    <2>1. PICK pc \in {"insert", "sign"} : task' = [task EXCEPT ![h] = Task(pc, u, None, None)]
      BY <1>1 DEF StartRegister, Login, Start
    <2>2. Task(pc, u, None, None).pc \notin Refreshing \union {"answer"}
      BY DEF Task, Refreshing
    <2> QED
      BY <1>1, <2>1, <2>2, KeepsKeys DEF StartRegister, Login, Refreshing
  <1>2. ASSUME NEW h \in Handlers, NEW t \in given, StartRefresh(h, t) \/ StartLogout(h, t)
        PROVE  KeyInv'
    <2>1. PICK x : /\ task' = [task EXCEPT ![h] = x]
                   /\ x.token = t /\ x.pc \in {"check", "logout"}
      <3>1. /\ Task("check", t.user, t, None).token = t /\ Task("check", t.user, t, None).pc = "check"
            /\ Task("logout", None, t, None).token = t /\ Task("logout", None, t, None).pc = "logout"
        BY DEF Task
      <3>2. \/ task' = [task EXCEPT ![h] = Task("check", t.user, t, None)]
            \/ task' = [task EXCEPT ![h] = Task("logout", None, t, None)]
        BY <1>2 DEF StartRefresh, StartLogout, Start
      <3> QED
        BY <3>1, <3>2
    <2>2. /\ UNCHANGED <<given, revoked, now>>
          /\ races' = races \union RefreshRace(h, t)
      BY <1>2 DEF StartRefresh, StartLogout
    <2>3. "refresh" \notin races' => \A g \in Handlers \ {h} : task[g].token # t
      BY <2>2 DEF RefreshRace, Others
    <2>4. t.iat <= now
      BY DEF KeyInv
    <2> QED
      BY <2>1, <2>2, <2>3, <2>4, KeepsKeys
  <1>3. ASSUME NEW h \in Handlers, NEW k \in MailTokens, GetMailed(h, k)
        PROVE  KeyInv'
    <2>1. mailed[k].purpose \in Purposes
      BY <1>3 DEF GetMailed, Waiting, AuthTypeOK, Mail
    <2>2. Task(mailed[k].purpose, mailed[k].user, None, k).pc \notin Refreshing \union {"answer"}
      BY <2>1 DEF Task, Refreshing, Purposes
    <2> QED
      BY <1>3, <2>2, KeepsKeys DEF GetMailed, Start, Refreshing
  <1>4. ASSUME NEW h \in Handlers, Insert(h) \/ ApplyMailed(h)
        PROVE  KeyInv'
    <2>1. \A pc \in {"sign", "delete"} :
              Task(pc, task[h].user, task[h].token, task[h].mail).pc \notin Refreshing \union {"answer"}
      BY DEF Task, Refreshing
    <2>2. PICK x : task' = [task EXCEPT ![h] = x] /\ x.pc \notin Refreshing \union {"answer"}
      BY <1>4, <1>b, <2>1 DEF Insert, ApplyMailed, Goto, GoOn, Done
    <2> QED
      BY <1>4, <2>2, KeepsKeys DEF Insert, ApplyMailed, Refreshing
  <1>5. ASSUME NEW h \in Handlers, Sign(h)
        PROVE  KeyInv'
    <2> DEFINE x == Task("answer", task[h].user, [user |-> task[h].user, iat |-> now], task[h].mail)
    <2>1. x.pc = "answer" /\ x.token.iat = now
      BY DEF Task
    <2>2. task' = [task EXCEPT ![h] = x]
      BY <1>5 DEF Sign, GoOn
    <2> HIDE DEF x
    <2>3. x.pc \notin Refreshing /\ x.token.iat <= now
      BY <1>a, <2>1 DEF Refreshing
    <2>4. UNCHANGED <<given, revoked, now>> /\ races \subseteq races'
      BY <1>5 DEF Sign
    <2> QED
      BY <2>1, <2>2, <2>3, <2>4, KeepsKeys DEF Refreshing
  <1>6. ASSUME NEW h \in Handlers, Answer(h)
        PROVE  KeyInv'
    <2>1. task[h].token.iat <= now
      BY <1>6 DEF Answer, At, KeyInv
    <2>2. \A g \in Handlers : task'[g] = IF g = h THEN NoTask ELSE task[g]
      BY <1>6 DEF Answer, Done, AuthTypeOK
    <2>3. given' = given \union {task[h].token} /\ UNCHANGED <<revoked, now, races>>
      BY <1>6 DEF Answer
    <2> QED
      BY <1>b, <2>1, <2>2, <2>3 DEF KeyInv, Fresh, Expired, Refreshing
  <1>7. ASSUME NEW h \in Handlers, CheckRevoked(h) \/ FindUser(h)
        PROVE  KeyInv'
    <2> DEFINE Moved(pc) == Task(pc, task[h].user, task[h].token, task[h].mail)
    <2>1. /\ task[h].pc \in Refreshing /\ task[h].token.iat <= now /\ task[h].token \in Tokens
          /\ UNCHANGED <<given, revoked, now, races>>
      BY <1>7, <1>a DEF CheckRevoked, FindUser, At, Refreshing, KeyInv
    <2>2. "refresh" \notin races =>
            \A g \in Handlers \ {h} : task[g].pc \in Refreshing => task[g].token # task[h].token
      BY <2>1 DEF KeyInv
    <2>3. CASE task' = [task EXCEPT ![h] = NoTask]
      BY <1>b, <2>1, <2>3, KeepsKeys DEF Refreshing
    <2>4. CASE CheckRevoked(h) /\ ~IsRevoked(task[h].token)
      <3>1. task' = [task EXCEPT ![h] = Moved("find")] /\ Moved("find").pc = "find" /\ Moved("find").token = task[h].token
        BY <2>4 DEF CheckRevoked, Goto, GoOn, Task
      <3>2. Fresh(task[h].token)
        BY <2>1, <2>4, NotRevoked
      <3> HIDE DEF Moved
      <3> QED
        BY <2>1, <2>2, <3>1, <3>2, KeepsKeys
    <2>5. CASE FindUser(h) /\ task[h].user \in Registered
      <3>1. task' = [task EXCEPT ![h] = Moved("revoke")] /\ Moved("revoke").pc = "revoke" /\ Moved("revoke").token = task[h].token
        BY <2>5 DEF FindUser, Goto, GoOn, Task
      <3>2. "refresh" \notin races => Fresh(task[h].token)
        BY <2>5 DEF FindUser, At, KeyInv
      <3> HIDE DEF Moved
      <3> QED
        BY <2>1, <2>2, <3>1, <3>2, KeepsKeys
    <2> QED
      BY <1>7, <2>3, <2>4, <2>5 DEF CheckRevoked, FindUser, Done
  <1>8. ASSUME NEW h \in Handlers, Revoke(h) \/ Logout(h)
        PROVE  KeyInv'
    <2> DEFINE t == task[h].token
    <2>1. task[h].pc \in Refreshing /\ t \in Tokens /\ t.iat <= now
      BY <1>8, <1>a DEF Revoke, Logout, At, Refreshing, KeyInv
    <2>2. revoked' = [revoked EXCEPT ![t] = now + RefreshTtl] /\ UNCHANGED <<given, now, races>>
      BY <1>8 DEF Revoke, Logout, Revoked
    <2>3. PICK x : task' = [task EXCEPT ![h] = x] /\ x.pc \notin Refreshing \union {"answer"}
      <3>1. Task("sign", task[h].user, None, task[h].mail).pc \notin Refreshing \union {"answer"}
        BY DEF Task, Refreshing
      <3> QED
        BY <1>8, <1>b, <3>1 DEF Revoke, Logout, GoOn, Done
    <2>4. \A g \in Handlers : task'[g] = IF g = h THEN x ELSE task[g]
      BY <2>3 DEF AuthTypeOK
    <2>5. \A q \in Tokens : revoked'[q] = IF q = t THEN now + RefreshTtl ELSE revoked[q]
      BY <2>2 DEF AuthTypeOK
    <2>6. \A q \in Tokens : revoked'[q] = 0 \/ revoked'[q] >= q.iat + RefreshTtl
      <3> SUFFICES ASSUME NEW q \in Tokens
                   PROVE  revoked'[q] = 0 \/ revoked'[q] >= q.iat + RefreshTtl
        OBVIOUS
      <3>1. CASE q = t
        BY <1>a, <2>1, <2>5, <3>1
      <3>2. CASE q # t
        BY <2>5, <3>2 DEF KeyInv
      <3> QED
        BY <3>1, <3>2
    <2>7. ASSUME "refresh" \notin races, NEW g \in Handlers, task'[g].pc \in {"find", "revoke"}
          PROVE  Fresh(task[g].token)'
      <3>1. g # h /\ task'[g] = task[g] /\ task[g].pc \in Refreshing
        BY <2>3, <2>4, <2>7 DEF Refreshing
      <3>2. task[g].token # t /\ task[g].token \in Tokens /\ Fresh(task[g].token)
        BY <1>a, <2>1, <2>7, <3>1 DEF KeyInv
      <3>3. PICK q \in Tokens : q = task'[g].token /\ q # t /\ Fresh(q)
        BY <3>1, <3>2
      <3>4. Fresh(q)'
        BY <2>2, <2>5, <3>3 DEF Fresh, Expired
      <3> QED
        BY <3>3, <3>4 DEF Fresh, Expired
    <2>8. /\ \A q \in given' : q.iat <= now'
          /\ \A g \in Handlers : task'[g].pc \in Refreshing \union {"answer"} => task'[g].token.iat <= now'
          /\ "refresh" \notin races => \A g \in Handlers : task'[g].pc \in Refreshing =>
                \A k \in Handlers \ {g} : task'[k].pc \in Refreshing => task'[k].token # task'[g].token
      BY <2>2, <2>3, <2>4 DEF KeyInv
    <2> QED
      BY <2>2, <2>6, <2>7, <2>8 DEF KeyInv
  <1>9. ASSUME NEW h \in Handlers, DeleteMailed(h) \/ Die(h)
        PROVE  KeyInv'
    BY <1>9, <1>b, KeepsKeys DEF DeleteMailed, Die, Done, Refreshing
  <1>10. ASSUME UNCHANGED <<given, revoked, now, races, task>>
         PROVE  KeyInv'
    BY <1>10 DEF KeyInv, Fresh, Expired
  <1>11. ASSUME Tick
         PROVE  KeyInv'
    <2>1. now' = now + 1 /\ UNCHANGED <<given, revoked, task, races>>
      BY <1>11 DEF Tick
    <2>2. \A t \in Tokens : Fresh(t) => Fresh(t)'
      BY <1>a, <2>1 DEF Fresh, Expired
    <2>3. \A h \in Handlers : task[h].pc \in {"find", "revoke"} => task[h].token \in Tokens
      BY <1>a DEF Refreshing
    <2>4. \A t \in Tokens : t.iat <= now => t.iat <= now'
      BY <1>a, <2>1
    <2>5. \A t \in given : t.iat <= now'
      BY <1>a, <2>4 DEF KeyInv
    <2>6. \A h \in Handlers : task[h].pc \in Refreshing \union {"answer"} => task[h].token.iat <= now'
      BY <1>a, <2>4 DEF KeyInv
    <2>7. ASSUME "refresh" \notin races, NEW h \in Handlers, task[h].pc \in {"find", "revoke"}
          PROVE  Fresh(task[h].token)'
      <3>1. PICK q \in Tokens : q = task[h].token /\ Fresh(q)
        BY <2>3, <2>7 DEF KeyInv
      <3>2. Fresh(q)'
        BY <2>2, <3>1
      <3> QED
        BY <2>1, <3>1, <3>2 DEF Fresh, Expired
    <2> QED
      BY <2>1, <2>5, <2>6, <2>7 DEF KeyInv
  <1> QED
    BY <1>1, <1>2, <1>3, <1>4, <1>5, <1>6, <1>7, <1>8, <1>9, <1>10, <1>11
       DEF Step, SendMail, AdminCreate, AdminDelete

\* Only CheckRevoked takes a handler past the check, and only Revoke exchanges a token.
LEMMA WhoGoesOn ==
    ASSUME AuthTypeOK, Step, NEW h \in Handlers
    PROVE  /\ At(h, "check") /\ task'[h].pc = "find" => CheckRevoked(h)
           /\ At(h, "revoke") /\ task'[h].pc = "sign" => Revoke(h)
  <1>1. ASSUME NEW g \in Handlers, g # h, NEW t, task' = [task EXCEPT ![g] = t]
        PROVE  task'[h] = task[h]
    BY <1>1 DEF AuthTypeOK
  <1>2. CASE UNCHANGED task
    BY <1>2 DEF At
  <1>3. ASSUME NEW g \in Handlers, At(g, "idle") \/ At(g, "insert") \/ At(g, "sign") \/ At(g, "answer")
                    \/ At(g, "find") \/ At(g, "logout") \/ At(g, "delete") \/ task[g].pc \in Purposes,
                 NEW t, task' = [task EXCEPT ![g] = t]
        PROVE  /\ ~(At(h, "check") /\ task'[h].pc = "find")
               /\ ~(At(h, "revoke") /\ task'[h].pc = "sign")
    BY <1>1, <1>3 DEF At, Purposes, AuthTypeOK
  <1>4. ASSUME NEW g \in Handlers, Die(g)
        PROVE  /\ ~(At(h, "check") /\ task'[h].pc = "find")
               /\ ~(At(h, "revoke") /\ task'[h].pc = "sign")
    <2>1. task'[h] = task[h] \/ task'[h] = NoTask
      BY <1>1, <1>4 DEF Die, Done, AuthTypeOK
    <2> QED
      BY <2>1 DEF At, NoTask, Task
  <1>5. ASSUME NEW g \in Handlers, CheckRevoked(g) \/ Revoke(g)
        PROVE  /\ At(h, "check") /\ task'[h].pc = "find" => CheckRevoked(h)
               /\ At(h, "revoke") /\ task'[h].pc = "sign" => Revoke(h)
    <2>1. CASE g # h
      BY <1>1, <1>5, <2>1 DEF CheckRevoked, Revoke, Goto, GoOn, Done, At
    <2>2. CASE g = h
      BY <1>5, <2>2 DEF CheckRevoked, Revoke, At
    <2> QED
      BY <2>1, <2>2
  <1> QED
    BY <1>2, <1>3, <1>4, <1>5
       DEF Step, StartRegister, Login, StartRefresh, StartLogout, GetMailed, Insert, Sign, Answer, FindUser,
           Logout, ApplyMailed, DeleteMailed, SendMail, AdminCreate, AdminDelete, Tick,
           Start, Goto, GoOn, Done

\* A revoked refresh token is not accepted again, although its key expires by itself, because a
\* token is known only from the second in which it was signed (auth.service.ts:264); and a token
\* is exchanged once, unless two handlers had it at the same time.
THEOREM RevokedForGood == Spec => RevokedStaysRevoked
  <1>1. Init => KeyInv
    <2> SUFFICES ASSUME Init
                 PROVE  KeyInv
      OBVIOUS
    <2>1. given = {} /\ (\A t \in Tokens : revoked[t] = 0) /\ \A h \in Handlers : task[h].pc = "idle"
      BY DEF Init, NoTask, Task
    <2> QED
      BY <2>1 DEF KeyInv, Refreshing
  <1>2. AuthTypeOK /\ KeyInv /\ [Next]_vars => KeyInv'
    <2>1. KeyInv /\ UNCHANGED vars => KeyInv'
      BY DEF vars, KeyInv, Fresh, Expired
    <2> QED
      BY <2>1, NextIsStep, StepKeys
  <1>3. AuthTypeOK /\ KeyInv /\ [Next]_vars =>
            [\A h \in Handlers :
                LET fresh == revoked[task[h].token] = 0 \/ Expired(task[h].token) IN
                /\ At(h, "check") /\ task'[h].pc = "find" => fresh
                /\ At(h, "revoke") /\ task'[h].pc = "sign" => fresh \/ "refresh" \in races]_vars
    <2> SUFFICES ASSUME AuthTypeOK, KeyInv, Step, NEW h \in Handlers
                 PROVE  /\ At(h, "check") /\ task'[h].pc = "find" => Fresh(task[h].token)
                        /\ At(h, "revoke") /\ task'[h].pc = "sign" => Fresh(task[h].token) \/ "refresh" \in races
      BY NextIsStep DEF Fresh
    <2>1. ASSUME At(h, "check"), task'[h].pc = "find"
          PROVE  Fresh(task[h].token)
      <3>1. CheckRevoked(h) /\ task[h].token \in Tokens
        BY <2>1, WhoGoesOn DEF At, AuthTypeOK
      <3>2. CASE IsRevoked(task[h].token)
        BY <2>1, <3>1, <3>2 DEF CheckRevoked, Done, NoTask, Task, AuthTypeOK
      <3> QED
        BY <3>1, <3>2, NotRevoked
    <2>2. At(h, "revoke") => Fresh(task[h].token) \/ "refresh" \in races
      BY DEF KeyInv, At
    <2> QED
      BY <2>1, <2>2
  <1> QED
    BY <1>1, <1>2, <1>3, TypesCorrect, PTL DEF Spec, RevokedStaysRevoked

-----------------------------------------------------------------------------
(***************************************************************************)
(* MailedTokenUsedOnce: as long as nobody dies and no two handlers get one *)
(* key, a used token whose key is still there is about to be deleted, so   *)
(* getting it again would be such an overlap.                              *)
(***************************************************************************)
Holding == Purposes \union {"delete"}

MailInv ==
    "mail" \notin races /\ deaths = 0 =>
        /\ \A k \in MailTokens : uses[k] <= 1
        /\ \A k \in MailTokens :
            mailed[k] # None /\ uses[k] # 0 => \E h \in Handlers : At(h, "delete") /\ task[h].mail = k
        /\ \A h \in Handlers : task[h].pc \in Purposes => uses[task[h].mail] = 0
        /\ \A h \in Handlers : task[h].pc \in Holding =>
            \A g \in Handlers \ {h} : task[g].pc \in Holding => task[g].mail # task[h].mail

\* A step of a handler that has no mailed token, neither before nor after it.
LEMMA KeepsMail ==
    ASSUME AuthTypeOK, MailInv, NEW h \in Handlers, NEW t, task' = [task EXCEPT ![h] = t],
           UNCHANGED <<mailed, uses, deaths>>, races \subseteq races',
           task[h].pc \notin Holding, t.pc \notin Holding
    PROVE  MailInv'
  <1>1. \A g \in Handlers : task'[g] = IF g = h THEN t ELSE task[g]
    BY DEF AuthTypeOK
  <1>2. SUFFICES ASSUME "mail" \notin races, deaths = 0
                 PROVE  MailInv'
    BY DEF MailInv
  <1>3. \A k \in MailTokens : mailed'[k] # None /\ uses'[k] # 0 =>
            \E g \in Handlers : task'[g].pc = "delete" /\ task'[g].mail = k
    <2> SUFFICES ASSUME NEW k \in MailTokens, mailed[k] # None, uses[k] # 0
                 PROVE  \E g \in Handlers : task'[g].pc = "delete" /\ task'[g].mail = k
      OBVIOUS
    <2>1. PICK g \in Handlers : task[g].pc = "delete" /\ task[g].mail = k
      BY <1>2 DEF MailInv, At
    <2> QED
      BY <1>1, <2>1 DEF Holding
  <1>4. \A g \in Handlers : task'[g].pc \in Holding => task[g].pc \in Holding /\ task'[g] = task[g]
    BY <1>1
  <1> QED
    BY <1>2, <1>3, <1>4 DEF MailInv, Holding, At

LEMMA StepMail ==
    ASSUME AuthTypeOK, MailInv, Step
    PROVE  MailInv'
  <1>a. \A pc \in Steps \ Holding : \A u, t, k : Task(pc, u, t, k).pc \notin Holding
    BY DEF Task
  <1>b. NoTask.pc \notin Holding
    BY DEF NoTask, Task, Holding, Purposes
  <1>c. {"idle", "insert", "sign", "answer", "check", "find", "revoke", "logout"} \subseteq Steps \ Holding
    BY DEF Steps, Holding, Purposes
  <1>1. ASSUME NEW h \in Handlers, NEW t, task' = [task EXCEPT ![h] = t], t.pc \notin Holding,
               At(h, "idle") \/ At(h, "insert") \/ At(h, "sign") \/ At(h, "answer")
               \/ At(h, "check") \/ At(h, "find") \/ At(h, "revoke") \/ At(h, "logout"),
               UNCHANGED <<mailed, uses, deaths>>, races \subseteq races'
        PROVE  MailInv'
    BY <1>1, <1>c, KeepsMail DEF At
  <1>2. ASSUME NEW h \in Handlers, NEW u \in Users, StartRegister(h, u) \/ Login(h, u)
        PROVE  MailInv'
    BY <1>2, <1>1, <1>a, <1>c DEF StartRegister, Login, Start
  <1>3. ASSUME NEW h \in Handlers, NEW t \in given, StartRefresh(h, t) \/ StartLogout(h, t)
        PROVE  MailInv'
    BY <1>3, <1>1, <1>a, <1>c DEF StartRefresh, StartLogout, Start
  <1>4. ASSUME NEW h \in Handlers,
               Insert(h) \/ Sign(h) \/ Answer(h) \/ CheckRevoked(h) \/ FindUser(h) \/ Revoke(h) \/ Logout(h)
        PROVE  MailInv'
    BY <1>4, <1>1, <1>a, <1>b, <1>c
       DEF Insert, Sign, Answer, CheckRevoked, FindUser, Revoke, Logout, Goto, GoOn, Done
  <1>5. ASSUME NEW h \in Handlers, NEW k \in MailTokens, GetMailed(h, k)
        PROVE  MailInv'
    <2>1. SUFFICES ASSUME "mail" \notin races', deaths = 0
                   PROVE  MailInv'
      BY <1>5 DEF MailInv, GetMailed
    <2>2. "mail" \notin races /\ \A g \in Handlers \ {h} : task[g].mail # k
      BY <1>5, <2>1 DEF GetMailed, Others
    <2>3. uses[k] = 0
      BY <1>5, <2>1, <2>2 DEF GetMailed, Waiting, Start, MailInv, At
    <2> DEFINE x == Task(mailed[k].purpose, mailed[k].user, None, k)
    <2>4. x.mail = k
      BY DEF Task
    <2>5. \A g \in Handlers : task'[g] = IF g = h THEN x ELSE task[g]
      BY <1>5 DEF GetMailed, Start, AuthTypeOK
    <2> HIDE DEF x
    <2>6. task[h].pc = "idle" /\ UNCHANGED <<mailed, uses>>
      BY <1>5 DEF GetMailed, Start, At
    <2>7. \A j \in MailTokens : mailed'[j] # None /\ uses'[j] # 0 =>
              \E g \in Handlers : task'[g].pc = "delete" /\ task'[g].mail = j
      BY <2>1, <2>2, <2>5, <2>6 DEF MailInv, At
    <2>8. \A g \in Handlers : task'[g].pc \in Purposes => uses'[task'[g].mail] = 0
      BY <2>1, <2>2, <2>3, <2>4, <2>5, <2>6 DEF MailInv
    <2>9. \A g \in Handlers : task'[g].pc \in Holding =>
              \A q \in Handlers \ {g} : task'[q].pc \in Holding => task'[q].mail # task'[g].mail
      BY <2>1, <2>2, <2>4, <2>5 DEF MailInv
    <2> QED
      BY <2>1, <2>2, <2>6, <2>7, <2>8, <2>9 DEF MailInv, At
  <1>6. ASSUME NEW h \in Handlers, ApplyMailed(h)
        PROVE  MailInv'
    <2>1. SUFFICES ASSUME "mail" \notin races, deaths = 0
                   PROVE  MailInv'
      BY <1>6 DEF MailInv, ApplyMailed
    <2> DEFINE k == task[h].mail
               x == Task("delete", task[h].user, task[h].token, task[h].mail)
    <2>2. k \in MailTokens /\ task[h].pc \in Purposes /\ task[h].pc \in Holding /\ uses[k] = 0
      BY <1>6, <2>1 DEF ApplyMailed, AuthTypeOK, MailInv, Holding
    <2>3. x.pc = "delete" /\ x.mail = k
      BY DEF Task
    <2>4. \A g \in Handlers : task'[g] = IF g = h THEN x ELSE task[g]
      BY <1>6 DEF ApplyMailed, Goto, GoOn, AuthTypeOK
    <2> HIDE DEF x
    <2>5. \A j \in MailTokens : uses'[j] = uses[j] \/ (j = k /\ uses'[j] = 1)
      BY <1>6, <2>2 DEF ApplyMailed, AuthTypeOK
    <2>6. UNCHANGED <<mailed, races, deaths>>
      BY <1>6 DEF ApplyMailed
    <2>7. \A g \in Handlers \ {h} : task'[g] = task[g] /\ (task[g].pc \in Holding => task[g].mail # k)
      BY <2>1, <2>2, <2>4 DEF MailInv
    <2>8. \A g \in Handlers : task[g].pc \in Purposes => task[g].mail \in MailTokens /\ task[g].pc \in Holding
      BY DEF AuthTypeOK, Holding
    <2>9. \A j \in MailTokens : uses'[j] <= 1
      BY <2>1, <2>5 DEF MailInv
    <2>10. \A j \in MailTokens : mailed'[j] # None /\ uses'[j] # 0 =>
               \E g \in Handlers : task'[g].pc = "delete" /\ task'[g].mail = j
      <3> SUFFICES ASSUME NEW j \in MailTokens, mailed[j] # None, uses'[j] # 0
                   PROVE  \E g \in Handlers : task'[g].pc = "delete" /\ task'[g].mail = j
        BY <2>6
      <3>1. CASE j = k
        BY <2>3, <2>4, <3>1
      <3>2. CASE j # k
        <4>1. PICK g \in Handlers : task[g].pc = "delete" /\ task[g].mail = j
          BY <2>1, <2>5, <3>2 DEF MailInv, At
        <4> QED
          BY <2>4, <3>2, <4>1
      <3> QED
        BY <3>1, <3>2
    <2>11. \A g \in Handlers : task'[g].pc \in Purposes => uses'[task'[g].mail] = 0
      <3> SUFFICES ASSUME NEW g \in Handlers, task'[g].pc \in Purposes
                   PROVE  uses'[task'[g].mail] = 0
        OBVIOUS
      <3>1. g # h
        BY <2>3, <2>4 DEF Purposes
      <3> QED
        BY <2>1, <2>5, <2>7, <2>8, <3>1 DEF MailInv
    <2>12. \A g \in Handlers : task'[g].pc \in Holding =>
               \A q \in Handlers \ {g} : task'[q].pc \in Holding => task'[q].mail # task'[g].mail
      BY <2>1, <2>3, <2>4, <2>7 DEF MailInv
    <2> QED
      BY <2>9, <2>10, <2>11, <2>12 DEF MailInv, At
  <1>7. ASSUME NEW h \in Handlers, DeleteMailed(h)
        PROVE  MailInv'
    <2>1. SUFFICES ASSUME "mail" \notin races, deaths = 0
                   PROVE  MailInv'
      BY <1>7 DEF MailInv, DeleteMailed
    <2>2. \A g \in Handlers : task'[g] = IF g = h THEN NoTask ELSE task[g]
      BY <1>7 DEF DeleteMailed, Done, AuthTypeOK
    <2>3. UNCHANGED <<uses, races, deaths>>
      BY <1>7 DEF DeleteMailed
    <2>4. \A j \in MailTokens : mailed'[j] = IF j = task[h].mail THEN None ELSE mailed[j]
      BY <1>7 DEF DeleteMailed, AuthTypeOK
    <2>5. \A j \in MailTokens : mailed'[j] # None /\ uses'[j] # 0 =>
              \E g \in Handlers : task'[g].pc = "delete" /\ task'[g].mail = j
      <3> SUFFICES ASSUME NEW j \in MailTokens, mailed'[j] # None, uses[j] # 0
                   PROVE  \E g \in Handlers : task'[g].pc = "delete" /\ task'[g].mail = j
        BY <2>3
      <3>1. PICK g \in Handlers : task[g].pc = "delete" /\ task[g].mail = j
        BY <2>1, <2>4 DEF MailInv, At
      <3> QED
        BY <2>2, <2>4, <3>1
    <2>6. \A g \in Handlers : task'[g].pc \in Holding => g # h /\ task'[g] = task[g]
      BY <1>b, <2>2
    <2> QED
      BY <2>1, <2>3, <2>5, <2>6 DEF MailInv, At, Holding
  <1>8. ASSUME NEW h \in Handlers, Die(h)
        PROVE  MailInv'
    BY <1>8, BoundsAssumption DEF Die, MailInv, AuthTypeOK
  <1>9. ASSUME NEW k \in MailTokens, NEW u \in Users, NEW p \in Purposes, SendMail(k, u, p)
        PROVE  MailInv'
    BY <1>9 DEF SendMail, MailInv, At, AuthTypeOK
  <1>10. ASSUME UNCHANGED <<mailed, uses, task, races, deaths>>
         PROVE  MailInv'
    BY <1>10 DEF MailInv, At
  <1> QED
    BY <1>2, <1>3, <1>4, <1>5, <1>6, <1>7, <1>8, <1>9, <1>10 DEF Step, AdminCreate, AdminDelete, Tick

\* A mailed token verifies an address or resets a password once, unless two handlers had it at the
\* same time or one died between the UPDATE and the deletion of the key (auth.service.ts:128).
THEOREM MailedOnce == Spec => []MailedTokenUsedOnce
  <1>1. Init => MailInv
    <2> SUFFICES ASSUME Init
                 PROVE  MailInv
      OBVIOUS
    <2>1. (\A k \in MailTokens : uses[k] = 0) /\ \A h \in Handlers : task[h].pc = "idle"
      BY DEF Init, NoTask, Task
    <2> QED
      BY <2>1 DEF MailInv, Holding, Purposes
  <1>2. AuthTypeOK /\ MailInv /\ [Next]_vars => MailInv'
    <2>1. MailInv /\ UNCHANGED vars => MailInv'
      BY DEF vars, MailInv, At
    <2> QED
      BY <2>1, NextIsStep, StepMail
  <1>3. MailInv => MailedTokenUsedOnce
    BY DEF MailInv, MailedTokenUsedOnce
  <1> QED
    BY <1>1, <1>2, <1>3, TypesCorrect, PTL DEF Spec

-----------------------------------------------------------------------------
LEMMA PartsRun == Customers => Spec /\ Cart!Spec /\ Review!Spec /\ Book!Spec
  <1>1. CustomersInit => Init /\ Cart!Init /\ Review!Init /\ Book!Init
    BY DEF CustomersInit
  <1>2. [CustomersNext]_<<part, vars, cartVars, reviewVars, addressVars>>
            => /\ [Next]_vars
               /\ [Cart!Next]_Cart!vars
               /\ [Review!Next]_Review!vars
               /\ [Book!Next]_Book!vars
    BY DEF CustomersNext, cartVars, reviewVars, addressVars, Cart!vars, Review!vars, Book!vars
  <1> QED
    BY <1>1, <1>2, PTL DEF Customers, Spec, Cart!Spec, Review!Spec, Book!Spec

-----------------------------------------------------------------------------
(***************************************************************************)
(* Addresses.                                                              *)
(***************************************************************************)
AddressStates == {"plain", "default", None}

AddressTask == [pc : {"idle", "reset", "write", "delete"}, id : 0 .. MaxAddresses, to : AddressStates]

AddressTypes ==
    /\ address \in [1 .. MaxAddresses -> AddressStates]
    /\ nextAddress \in Nat \ {0}
    /\ \A i \in 1 .. MaxAddresses : address[i] # None => i < nextAddress
    /\ addressTask \in [Handlers -> AddressTask]
    /\ addressRaces \in BOOLEAN
    /\ addressDeaths \in 0 .. MaxDeaths
    /\ \A h \in Handlers : addressTask[h].pc = "idle" => addressTask[h].to = None
    /\ \A h \in Handlers : addressTask[h].pc \in {"reset", "write"} /\ addressTask[h].id = 0 =>
            addressTask[h].to # None

\* While one request makes an address the default, it has reset all the others
\* before it writes its own.
DefaultInv ==
    ~addressRaces =>
        /\ \A i, j \in Book!Defaults : i = j
        /\ \A g, h \in Handlers : addressTask[g].to = "default" /\ addressTask[h].to = "default" => g = h
        /\ \A h \in Handlers : addressTask[h].to = "default" /\ addressTask[h].pc = "write" =>
                Book!Defaults = {}

\* How an address may change: to what a handler at its write asks for, or to plain or None.
LEMMA BookTaskFacts ==
    /\ Book!NoTask \in AddressTask
    /\ Book!NoTask.pc = "idle" /\ Book!NoTask.to = None
  BY AddressAssumption DEF Book!NoTask, AddressTask, AddressStates

LEMMA BookInit == Book!Init => AddressTypes /\ DefaultInv
  <1> SUFFICES ASSUME Book!Init
               PROVE  AddressTypes /\ DefaultInv
    OBVIOUS
  <1>1. PICK t : t = Book!NoTask
    OBVIOUS
  <1>2. t \in AddressTask /\ t.pc = "idle" /\ t.to = None
    BY <1>1, BookTaskFacts
  <1>3. addressTask = [h \in Handlers |-> t]
    BY <1>1 DEF Book!Init
  <1>4. \A h \in Handlers : addressTask[h] = t
    BY <1>3
  <1>5. Book!Ids = {} /\ Book!Defaults = {}
    BY DEF Book!Init, Book!Ids, Book!Defaults
  <1>6. AddressTypes
    <2>1. addressTask \in [Handlers -> AddressTask]
      BY <1>2, <1>3
    <2>2. nextAddress = 1 /\ addressRaces = FALSE /\ addressDeaths = 0
          /\ address = [i \in 1 .. MaxAddresses |-> None]
      BY DEF Book!Init
    <2>3. address \in [1 .. MaxAddresses -> AddressStates] /\ \A i \in 1 .. MaxAddresses : address[i] = None
      BY <2>2 DEF AddressStates
    <2>4. addressRaces \in BOOLEAN
      BY <2>2
    <2>6. addressDeaths \in 0 .. MaxDeaths /\ nextAddress \in Nat \ {0}
      BY <2>2, BoundsAssumption
    <2>5. \A h \in Handlers : addressTask[h].pc = "idle" /\ addressTask[h].to = None
      BY <1>2, <1>4
    <2> QED
      BY <2>1, <2>3, <2>4, <2>5, <2>6 DEF AddressTypes
  <1>7. DefaultInv
    BY <1>2, <1>4, <1>5, AddressAssumption DEF DefaultInv
  <1> QED
    BY <1>6, <1>7

\* A step changes one handler's task.
LEMMA BookTaskMoves ==
    ASSUME AddressTypes, NEW h \in Handlers, NEW t, addressTask' = [addressTask EXCEPT ![h] = t]
    PROVE  /\ DOMAIN addressTask' = Handlers
           /\ addressTask'[h] = t
           /\ \A g \in Handlers \ {h} : addressTask'[g] = addressTask[g]
           /\ t \in AddressTask => addressTask' \in [Handlers -> AddressTask]
  BY DEF AddressTypes

LEMMA BookStep == AddressTypes /\ DefaultInv /\ [Book!Next]_Book!vars => AddressTypes' /\ DefaultInv'
  <1> SUFFICES ASSUME AddressTypes, DefaultInv, [Book!Next]_Book!vars
               PROVE  AddressTypes' /\ DefaultInv'
    OBVIOUS
  <1>t. /\ address \in [1 .. MaxAddresses -> AddressStates]
        /\ nextAddress \in Nat \ {0}
        /\ \A i \in 1 .. MaxAddresses : address[i] # None => i < nextAddress
        /\ addressTask \in [Handlers -> AddressTask]
        /\ addressRaces \in BOOLEAN
        /\ addressDeaths \in 0 .. MaxDeaths
        /\ \A h \in Handlers : addressTask[h].pc = "idle" => addressTask[h].to = None
        /\ \A h \in Handlers : addressTask[h].pc \in {"reset", "write"} /\ addressTask[h].id = 0 =>
                addressTask[h].to # None
    BY DEF AddressTypes
  <1>n. MaxAddresses \in Nat /\ None \notin {"plain", "default"} /\ MaxDeaths \in Nat
    BY AddressAssumption, BoundsAssumption
  \* A handler that turns to idle, or has nothing to do with defaults any more.
  <1>done. ASSUME NEW h \in Handlers, Book!Done(h)
           PROVE  /\ addressTask' \in [Handlers -> AddressTask]
                  /\ addressTask'[h].pc = "idle" /\ addressTask'[h].to = None
                  /\ \A g \in Handlers \ {h} : addressTask'[g] = addressTask[g]
    <2>1. PICK t : t = Book!NoTask
      OBVIOUS
    <2>2. addressTask' = [addressTask EXCEPT ![h] = t] /\ t \in AddressTask /\ t.pc = "idle" /\ t.to = None
      BY <1>done, <2>1, BookTaskFacts DEF Book!Done
    <2> QED
      BY <2>2, BookTaskMoves
  <1>1. ASSUME NEW h \in Handlers, NEW i \in Book!Ids \union {0}, NEW to \in AddressStates,
               Book!Start(h, i, to), i = 0 => to # None
        PROVE  AddressTypes' /\ DefaultInv'
    <2>1. PICK t : t = [pc |-> IF to = "default" THEN "reset" ELSE "write", id |-> i, to |-> to]
      OBVIOUS
    <2>2. addressTask' = [addressTask EXCEPT ![h] = t]
      BY <1>1, <2>1 DEF Book!Start
    <2>3. t \in AddressTask /\ t.to = to /\ t.id = i /\ t.pc = IF to = "default" THEN "reset" ELSE "write"
      BY <1>n, <2>1 DEF AddressTask, AddressStates, Book!Ids
    <2>4. /\ addressTask' \in [Handlers -> AddressTask] /\ addressTask'[h] = t
          /\ \A g \in Handlers \ {h} : addressTask'[g] = addressTask[g]
      BY <2>2, <2>3, BookTaskMoves
    <2>5. UNCHANGED <<address, nextAddress, addressDeaths>>
      BY <1>1 DEF Book!Start
    <2>6. addressRaces' \in BOOLEAN
      BY <1>1, <1>t DEF Book!Start
    <2>7. AddressTypes'
      BY <1>1, <1>t, <2>3, <2>4, <2>5, <2>6 DEF AddressTypes
    <2>8. ~addressRaces' => ~addressRaces /\ (to = "default" => \A g \in Handlers \ {h} : addressTask[g].to # "default")
      BY <1>1 DEF Book!Start, Book!DefaultRace
    <2>9. Book!Defaults' = Book!Defaults
      BY <2>5 DEF Book!Defaults, Book!Ids
    <2>10. DefaultInv'
      BY <2>3, <2>4, <2>8, <2>9 DEF DefaultInv
    <2> QED
      BY <2>7, <2>10
  <1>2. ASSUME NEW h \in Handlers, NEW i \in Book!Ids, Book!StartDelete(h, i)
        PROVE  AddressTypes' /\ DefaultInv'
    <2>1. PICK t : t = [Book!NoTask EXCEPT !.pc = "delete", !.id = i]
      OBVIOUS
    <2>2. addressTask' = [addressTask EXCEPT ![h] = t]
      BY <1>2, <2>1 DEF Book!StartDelete
    <2>3. t \in AddressTask /\ t.to = None /\ t.pc = "delete"
      <3>1. t = [pc |-> "delete", id |-> i, to |-> None] /\ i \in 1 .. MaxAddresses
        BY <2>1 DEF Book!Ids, Book!NoTask
      <3> QED
        BY <1>n, <3>1 DEF AddressTask, AddressStates
    <2>4. /\ addressTask' \in [Handlers -> AddressTask] /\ addressTask'[h] = t
          /\ \A g \in Handlers \ {h} : addressTask'[g] = addressTask[g]
      BY <2>2, <2>3, BookTaskMoves
    <2>5. UNCHANGED <<address, nextAddress, addressRaces, addressDeaths>>
      BY <1>2 DEF Book!StartDelete
    <2>6. AddressTypes'
      BY <1>t, <2>3, <2>4, <2>5 DEF AddressTypes
    <2>7. Book!Defaults' = Book!Defaults
      BY <2>5 DEF Book!Defaults, Book!Ids
    <2>8. DefaultInv'
      BY <1>n, <2>3, <2>4, <2>5, <2>7 DEF DefaultInv
    <2> QED
      BY <2>6, <2>8
  <1>3. ASSUME NEW h \in Handlers, Book!ResetDefault(h)
        PROVE  AddressTypes' /\ DefaultInv'
    <2>1. PICK t : t = [addressTask[h] EXCEPT !.pc = "write"]
      OBVIOUS
    <2>2. addressTask' = [addressTask EXCEPT ![h] = t]
      BY <1>3, <2>1 DEF Book!ResetDefault
    <2>3. t \in AddressTask /\ t.to = addressTask[h].to /\ t.id = addressTask[h].id /\ t.pc = "write"
      BY <1>t, <2>1 DEF AddressTask
    <2>4. /\ addressTask' \in [Handlers -> AddressTask] /\ addressTask'[h] = t
          /\ \A g \in Handlers \ {h} : addressTask'[g] = addressTask[g]
      BY <2>2, <2>3, BookTaskMoves
    <2>5. /\ address' = [i \in 1 .. MaxAddresses |-> IF i \in Book!Ids THEN "plain" ELSE None]
          /\ UNCHANGED <<nextAddress, addressRaces, addressDeaths>>
          /\ addressTask[h].pc = "reset"
      BY <1>3 DEF Book!ResetDefault, Book!At
    <2>6. AddressTypes'
      BY <1>t, <2>3, <2>4, <2>5 DEF AddressTypes, AddressStates, Book!Ids
    <2>7. Book!Defaults' = {}
      BY <1>n, <2>5 DEF Book!Defaults, Book!Ids
    <2>8. DefaultInv'
      BY <2>3, <2>4, <2>5, <2>7 DEF DefaultInv
    <2> QED
      BY <2>6, <2>8
  <1>4. ASSUME NEW h \in Handlers, Book!CreateAddress(h)
        PROVE  AddressTypes' /\ DefaultInv'
    <2>1. PICK to : to = addressTask[h].to
      OBVIOUS
    <2>2. /\ address' = [address EXCEPT ![nextAddress] = to]
          /\ nextAddress' = nextAddress + 1
          /\ nextAddress \in 1 .. MaxAddresses
          /\ UNCHANGED <<addressRaces, addressDeaths>>
          /\ addressTask[h].pc = "write" /\ addressTask[h].id = 0 /\ Book!Done(h)
      BY <1>4, <1>t, <1>n, <2>1 DEF Book!CreateAddress, Book!At
    <2>3. to \in {"plain", "default"}
      BY <1>t, <2>1, <2>2 DEF AddressTask, AddressStates
    <2>4. AddressTypes'
      BY <1>done, <1>t, <2>2, <2>3 DEF AddressTypes, AddressStates
    <2>5. Book!Defaults' = Book!Defaults \union (IF to = "default" THEN {nextAddress} ELSE {})
      BY <1>n, <1>t, <2>2, <2>3 DEF Book!Defaults, Book!Ids
    <2>6. DefaultInv'
      BY <1>done, <1>n, <2>1, <2>2, <2>3, <2>5 DEF DefaultInv
    <2> QED
      BY <2>4, <2>6
  <1>5. ASSUME NEW h \in Handlers, Book!UpdateAddress(h)
        PROVE  AddressTypes' /\ DefaultInv'
    <2>1. PICK i : i = addressTask[h].id
      OBVIOUS
    <2>2. PICK to : to = IF address[i] = None \/ addressTask[h].to = None THEN address[i] ELSE addressTask[h].to
      OBVIOUS
    <2>3. /\ address' = [address EXCEPT ![i] = to]
          /\ i \in 1 .. MaxAddresses
          /\ UNCHANGED <<nextAddress, addressRaces, addressDeaths>>
          /\ addressTask[h].pc = "write" /\ Book!Done(h)
      BY <1>5, <1>t, <1>n, <2>1, <2>2 DEF Book!UpdateAddress, Book!At, AddressTask
    <2>4. to \in AddressStates /\ (address[i] = None => to = None)
      BY <1>t, <2>2, <2>3 DEF AddressTask
    <2>5. AddressTypes'
      BY <1>done, <1>t, <2>3, <2>4 DEF AddressTypes
    <2>6. Book!Defaults' \subseteq Book!Defaults \/ (addressTask[h].to = "default" /\ Book!Defaults' \subseteq Book!Defaults \union {i})
      BY <1>n, <1>t, <2>2, <2>3 DEF Book!Defaults, Book!Ids
    <2>7. DefaultInv'
      BY <1>done, <1>n, <2>3, <2>6 DEF DefaultInv
    <2> QED
      BY <2>5, <2>7
  <1>6. ASSUME NEW h \in Handlers, Book!DeleteAddress(h)
        PROVE  AddressTypes' /\ DefaultInv'
    <2>1. PICK i : i = addressTask[h].id
      OBVIOUS
    <2>2. /\ address' = [address EXCEPT ![i] = None]
          /\ UNCHANGED <<nextAddress, addressRaces, addressDeaths>>
          /\ Book!Done(h)
      BY <1>6, <2>1 DEF Book!DeleteAddress
    <2>3. AddressTypes'
      BY <1>done, <1>t, <2>2 DEF AddressTypes, AddressStates
    <2>4. Book!Defaults' \subseteq Book!Defaults
      BY <1>n, <1>t, <2>2 DEF Book!Defaults, Book!Ids
    <2>5. DefaultInv'
      BY <1>done, <1>n, <2>2, <2>4 DEF DefaultInv
    <2> QED
      BY <2>3, <2>5
  <1>7. ASSUME NEW h \in Handlers, Book!Die(h)
        PROVE  AddressTypes' /\ DefaultInv'
    <2>1. /\ UNCHANGED <<address, nextAddress, addressRaces>>
          /\ Book!Done(h) /\ addressDeaths' \in 0 .. MaxDeaths
      BY <1>7, <1>n, <1>t DEF Book!Die
    <2>2. AddressTypes'
      BY <1>done, <1>t, <2>1 DEF AddressTypes
    <2>3. Book!Defaults' = Book!Defaults
      BY <2>1 DEF Book!Defaults, Book!Ids
    <2>4. DefaultInv'
      BY <1>done, <1>n, <2>1, <2>3 DEF DefaultInv
    <2> QED
      BY <2>2, <2>4
  <1>8. CASE UNCHANGED Book!vars
    BY <1>8 DEF Book!vars, AddressTypes, DefaultInv, Book!Defaults, Book!Ids
  <1>9. CASE Book!Next
    <2>1. PICK h \in Handlers :
            \/ \E to \in {"plain", "default"} : Book!Start(h, 0, to)
            \/ \E i \in Book!Ids, to \in {"plain", "default", None} : Book!Start(h, i, to)
            \/ \E i \in Book!Ids : Book!StartDelete(h, i)
            \/ Book!ResetDefault(h) \/ Book!CreateAddress(h) \/ Book!UpdateAddress(h)
            \/ Book!DeleteAddress(h) \/ Book!Die(h)
      BY <1>9 DEF Book!Next
    <2>2. \A i \in Book!Ids : i # 0
      BY DEF Book!Ids
    <2> QED
      BY <1>1, <1>2, <1>3, <1>4, <1>5, <1>6, <1>7, <1>n, <2>1, <2>2 DEF AddressStates
  <1> QED
    BY <1>8, <1>9

LEMMA SameCardinality == \A S : Book!Cardinality(S) = Cardinality(S)
  BY DEF Cardinality, Book!Cardinality

\* A customer never has two default addresses, however many requests create,
\* change and delete addresses at the same time and wherever they die, unless
\* two of them made an address the default at once.
THEOREM DefaultIsUnique == Customers => []OneDefault
  <1>1. Book!Spec => [](AddressTypes /\ DefaultInv)
    BY BookInit, BookStep, PTL DEF Book!Spec
  <1>2. AddressTypes /\ DefaultInv => OneDefault
    <2> SUFFICES ASSUME AddressTypes, DefaultInv, ~addressRaces
                 PROVE  Cardinality(Book!Defaults) <= 1
      BY SameCardinality DEF OneDefault, Book!OneDefault
    <2>1. CASE Book!Defaults = {}
      BY <2>1, FS_EmptySet
    <2>2. ASSUME NEW i \in Book!Defaults
          PROVE  Cardinality(Book!Defaults) <= 1
      <3>1. Book!Defaults = {i}
        BY <2>2 DEF DefaultInv
      <3> QED
        BY <3>1, FS_Singleton
    <2> QED
      BY <2>1, <2>2
  <1> QED
    BY <1>1, <1>2, PartsRun, PTL
-----------------------------------------------------------------------------
(***************************************************************************)
(* Reviews.                                                                *)
(***************************************************************************)
ReviewRow == [item : OrderItems, rating : Ratings]

ReviewTaskOK(t, next) ==
    /\ DOMAIN t = {"pc", "id", "row", "found"}
    /\ t.id \in 0 .. next - 1
    /\ t.pc \in {"insert", "update"} => t.row \in ReviewRow
    /\ t.pc \in {"update", "remove"} => t.id # 0

ReviewTypes ==
    /\ review \in [1 .. MaxReviews -> ReviewRow \union {None}]
    /\ nextReview \in 1 .. MaxReviews + 1
    /\ \A i \in 1 .. MaxReviews : review[i] # None => i < nextReview
    /\ DOMAIN reviewTask = Handlers
    /\ \A h \in Handlers : ReviewTaskOK(reviewTask[h], nextReview)
    /\ reviewRaces \in BOOLEAN
    /\ reviewDeaths \in 0 .. MaxDeaths

Counting == {h \in Handlers : Review!At(h, "count")}
Storing == {h \in Handlers : Review!At(h, "stats")}

\* Whoever is about to store numbers has those of the reviews in the table,
\* unless somebody is going to count again.
StatsInv ==
    ~reviewRaces /\ reviewDeaths = 0 =>
        /\ \A g, h \in Storing : g = h
        /\ Counting = {} =>
            /\ \A h \in Storing : reviewTask[h].found = Review!Counted
            /\ Storing = {} => stats = Review!Counted

LEMMA ReviewSum == \A f, S : Review!SumFunctionOnSet(f, S) = SumFunctionOnSet(f, S)
  BY DEF SumFunctionOnSet, FoldFunctionOnSet, MapThenFoldSet,
         Review!SumFunctionOnSet, Review!FoldFunctionOnSet, Review!MapThenFoldSet

LEMMA ReviewCardinality == \A S : Review!Cardinality(S) = Cardinality(S)
  BY DEF Cardinality, Review!Cardinality

LEMMA NoReviews ==
    ASSUME \A i \in 1 .. MaxReviews : review[i] = None
    PROVE  Review!Counted = Review!NoStats
  <1>1. Review!Ids = {}
    BY DEF Review!Ids
  <1>2. Review!Cardinality({}) = 0
    BY ReviewCardinality, FS_EmptySet
  <1>3. Review!SumFunctionOnSet([i \in {} |-> review[i].rating], {}) = 0
    BY ReviewSum, SumEmpty
  <1>4. 0 * ShopSize = 0
    BY ReviewAssumption
  <1> QED
    BY <1>1, <1>2, <1>3, <1>4 DEF Review!Counted, Review!NoStats

LEMMA CountedFrame == UNCHANGED review => UNCHANGED Review!Counted
  BY DEF Review!Counted, Review!Ids

LEMMA ReviewTaskMoves ==
    ASSUME ReviewTypes, NEW h \in Handlers, NEW t, reviewTask' = [reviewTask EXCEPT ![h] = t]
    PROVE  /\ DOMAIN reviewTask' = Handlers
           /\ reviewTask'[h] = t
           /\ \A g \in Handlers \ {h} : reviewTask'[g] = reviewTask[g]
  BY DEF ReviewTypes

\* What a step does to the handlers' part of ReviewTypes.
LEMMA ReviewTasksKept ==
    ASSUME ReviewTypes, NEW h \in Handlers, NEW t, reviewTask' = [reviewTask EXCEPT ![h] = t],
           nextReview' \in Nat, nextReview' >= nextReview, ReviewTaskOK(t, nextReview')
    PROVE  DOMAIN reviewTask' = Handlers /\ \A g \in Handlers : ReviewTaskOK(reviewTask'[g], nextReview')
  <1>1. /\ DOMAIN reviewTask' = Handlers /\ reviewTask'[h] = t
        /\ \A g \in Handlers \ {h} : reviewTask'[g] = reviewTask[g]
    BY ReviewTaskMoves
  <1>2. ASSUME NEW g \in Handlers \ {h}
        PROVE  ReviewTaskOK(reviewTask'[g], nextReview')
    <2>1. ReviewTaskOK(reviewTask[g], nextReview) /\ nextReview \in Nat
      BY DEF ReviewTypes
    <2> QED
      BY <1>1, <1>2, <2>1 DEF ReviewTaskOK
  <1> QED
    BY <1>1, <1>2

LEMMA ReviewInit == Review!Init => ReviewTypes /\ StatsInv
  <1> SUFFICES ASSUME Review!Init
               PROVE  ReviewTypes /\ StatsInv
    OBVIOUS
  <1>1. PICK t : t = Review!NoTask
    OBVIOUS
  <1>2. DOMAIN t = {"pc", "id", "row", "found"} /\ t.pc = "idle" /\ t.id = 0
    BY <1>1 DEF Review!NoTask
  <1>3. DOMAIN reviewTask = Handlers /\ \A h \in Handlers : reviewTask[h] = t
    BY <1>1 DEF Review!Init
  <1>4. /\ review = [i \in 1 .. MaxReviews |-> None]
        /\ nextReview = 1 /\ stats = Review!NoStats /\ reviewDeaths = 0
    BY DEF Review!Init
  <1>5. reviewRaces \in BOOLEAN
    BY DEF Review!Init
  <1>6. nextReview \in 1 .. MaxReviews + 1 /\ reviewDeaths \in 0 .. MaxDeaths
    BY <1>4, ReviewAssumption, BoundsAssumption
  <1>7. ReviewTaskOK(t, nextReview)
    BY <1>2, <1>4 DEF ReviewTaskOK
  <1>8. ReviewTypes
    BY <1>3, <1>4, <1>5, <1>6, <1>7 DEF ReviewTypes
  <1>9. Counting = {} /\ Storing = {} /\ stats = Review!Counted
    BY <1>2, <1>3, <1>4, NoReviews DEF Counting, Storing, Review!At
  <1> QED
    BY <1>8, <1>9 DEF StatsInv

LEMMA ReviewQueues ==
    ASSUME ReviewTypes, NEW h \in Handlers, NEW t, reviewTask' = [reviewTask EXCEPT ![h] = t]
    PROVE  /\ Counting' = (Counting \ {h}) \union (IF t.pc = "count" THEN {h} ELSE {})
           /\ Storing' = (Storing \ {h}) \union (IF t.pc = "stats" THEN {h} ELSE {})
  <1>1. /\ reviewTask'[h] = t
        /\ \A g \in Handlers \ {h} : reviewTask'[g] = reviewTask[g]
    BY ReviewTaskMoves
  <1> QED
    BY <1>1 DEF Counting, Storing, Review!At

\* A handler that has changed the table goes on to count.
LEMMA ReviewChanged ==
    ASSUME ReviewTypes, StatsInv, NEW h \in Handlers, NEW t, t.pc = "count",
           reviewTask' = [reviewTask EXCEPT ![h] = t], ~Review!At(h, "stats"),
           UNCHANGED <<reviewRaces, reviewDeaths>>
    PROVE  StatsInv'
  <1>0. h \notin Storing
    BY DEF Storing
  <1>1. /\ Counting' = (Counting \ {h}) \union {h}
        /\ Storing' = (Storing \ {h}) \union {}
    BY ReviewQueues, Zenon
  <1>2. Counting' # {} /\ Storing' = Storing
    BY <1>0, <1>1
  <1> QED
    BY <1>2 DEF StatsInv

\* A handler that starts neither changes the table nor counts.
LEMMA ReviewBegun ==
    ASSUME ReviewTypes, StatsInv, NEW h \in Handlers, NEW t, t.pc \notin {"count", "stats"},
           reviewTask' = [reviewTask EXCEPT ![h] = t], Review!At(h, "idle"),
           UNCHANGED <<review, stats, reviewRaces, reviewDeaths>>
    PROVE  StatsInv'
  <1>1. Counting' = Counting /\ Storing' = Storing
    BY ReviewQueues DEF Counting, Storing, Review!At
  <1>2. Review!Counted' = Review!Counted
    BY CountedFrame
  <1>3. \A g \in Storing : reviewTask'[g] = reviewTask[g]
    BY ReviewTaskMoves DEF Storing, Review!At
  <1> QED
    BY <1>1, <1>2, <1>3 DEF StatsInv

LEMMA ReviewNoTask ==
    /\ DOMAIN Review!NoTask = {"pc", "id", "row", "found"}
    /\ Review!NoTask.pc = "idle" /\ Review!NoTask.id = 0
  BY DEF Review!NoTask

LEMMA ReviewStep == ReviewTypes /\ StatsInv /\ [Review!Next]_Review!vars => ReviewTypes' /\ StatsInv'
  <1> SUFFICES ASSUME ReviewTypes, StatsInv, [Review!Next]_Review!vars
               PROVE  ReviewTypes' /\ StatsInv'
    OBVIOUS
  <1>t. /\ review \in [1 .. MaxReviews -> ReviewRow \union {None}]
        /\ nextReview \in 1 .. MaxReviews + 1
        /\ \A i \in 1 .. MaxReviews : review[i] # None => i < nextReview
        /\ DOMAIN reviewTask = Handlers
        /\ \A h \in Handlers : ReviewTaskOK(reviewTask[h], nextReview)
        /\ reviewRaces \in BOOLEAN
        /\ reviewDeaths \in 0 .. MaxDeaths
    BY DEF ReviewTypes
  <1>n. MaxReviews \in Nat /\ MaxDeaths \in Nat /\ None \notin ReviewRow
    BY ReviewAssumption, BoundsAssumption DEF ReviewRow
  <1>p. PICK none : none = Review!NoTask
    OBVIOUS
  <1>q. DOMAIN none = {"pc", "id", "row", "found"} /\ none.pc = "idle" /\ none.id = 0
    BY <1>p, ReviewNoTask
  <1>q2. none = [pc |-> "idle", id |-> 0, row |-> None, found |-> Review!NoStats]
    BY <1>p DEF Review!NoTask
  <1>1. ASSUME NEW h \in Handlers, NEW item \in OrderItems, NEW r \in Ratings, Review!FindReview(h, item, r)
        PROVE  ReviewTypes' /\ StatsInv'
    <2>1. PICK t : t = [none EXCEPT !.pc = "insert", !.row = [item |-> item, rating |-> r]]
      OBVIOUS
    <2>2. /\ reviewTask' = [reviewTask EXCEPT ![h] = t] /\ Review!At(h, "idle")
          /\ UNCHANGED <<review, nextReview, stats, reviewRaces, reviewDeaths>>
      BY <1>1, <1>p, <2>1 DEF Review!FindReview, Review!Start
    <2>3. DOMAIN t = {"pc", "id", "row", "found"} /\ t.pc = "insert" /\ t.id = 0 /\ t.row \in ReviewRow
      BY <1>q2, <2>1 DEF ReviewRow
    <2>4. ReviewTaskOK(t, nextReview')
      BY <1>t, <1>n, <2>2, <2>3 DEF ReviewTaskOK
    <2>5. ReviewTypes'
      BY <1>t, <2>2, <2>4, ReviewTasksKept DEF ReviewTypes
    <2> QED
      BY <2>2, <2>3, <2>5, ReviewBegun
  <1>2. ASSUME NEW h \in Handlers, Review!InsertReview(h)
        PROVE  ReviewTypes' /\ StatsInv'
    <2>1. PICK t : t = [none EXCEPT !.pc = "count"]
      OBVIOUS
    <2>a. PICK new : new = reviewTask[h].row
      OBVIOUS
    <2>2. /\ reviewTask' = [reviewTask EXCEPT ![h] = t]
          /\ review' = [review EXCEPT ![nextReview] = new]
          /\ nextReview' = nextReview + 1 /\ nextReview <= MaxReviews
          /\ reviewTask[h].pc = "insert"
          /\ UNCHANGED <<stats, reviewRaces, reviewDeaths>>
      BY <1>2, <1>p, <2>1, <2>a DEF Review!InsertReview, Review!At
    <2>3. DOMAIN t = {"pc", "id", "row", "found"} /\ t.pc = "count" /\ t.id = 0
      BY <1>q2, <2>1
    <2>4. ReviewTaskOK(t, nextReview')
      BY <1>t, <1>n, <2>2, <2>3 DEF ReviewTaskOK
    <2>5. new \in ReviewRow
      BY <1>t, <2>2, <2>a DEF ReviewTaskOK
    <2>c. nextReview' \in Nat /\ nextReview' >= nextReview
      BY <1>t, <1>n, <2>2
    <2>6. ReviewTypes'
      <3>1. DOMAIN reviewTask' = Handlers /\ \A g \in Handlers : ReviewTaskOK(reviewTask'[g], nextReview')
        BY <2>2, <2>4, <2>c, ReviewTasksKept
      <3>2. /\ review' \in [1 .. MaxReviews -> ReviewRow \union {None}]
            /\ nextReview' \in 1 .. MaxReviews + 1
            /\ \A i \in 1 .. MaxReviews : review'[i] # None => i < nextReview'
        BY <1>t, <1>n, <2>2, <2>5
      <3> QED
        BY <1>t, <2>2, <3>1, <3>2 DEF ReviewTypes
    <2> QED
      BY <2>2, <2>3, <2>6, ReviewChanged DEF Review!At
  <1>3. ASSUME NEW h \in Handlers, NEW pc \in {"update", "remove"}, NEW i \in Review!Ids, Review!LoadReview(h, pc, i)
        PROVE  ReviewTypes' /\ StatsInv'
    <2>1. PICK t : t = [none EXCEPT !.pc = pc, !.id = i, !.row = review[i]]
      OBVIOUS
    <2>2. /\ reviewTask' = [reviewTask EXCEPT ![h] = t] /\ Review!At(h, "idle")
          /\ UNCHANGED <<review, nextReview, stats, reviewRaces, reviewDeaths>>
      BY <1>3, <1>p, <2>1 DEF Review!LoadReview, Review!Start
    <2>3. i \in 1 .. MaxReviews /\ review[i] \in ReviewRow /\ i < nextReview
      BY <1>t DEF Review!Ids
    <2>4. DOMAIN t = {"pc", "id", "row", "found"} /\ t.pc = pc /\ t.id = i /\ t.row \in ReviewRow
      BY <1>q2, <2>1, <2>3
    <2>5. ReviewTaskOK(t, nextReview')
      BY <1>t, <1>n, <2>2, <2>3, <2>4 DEF ReviewTaskOK
    <2>6. ReviewTypes'
      BY <1>t, <2>2, <2>5, ReviewTasksKept DEF ReviewTypes
    <2> QED
      BY <2>2, <2>4, <2>6, ReviewBegun
  <1>4. ASSUME NEW h \in Handlers, Review!SaveReview(h)
        PROVE  ReviewTypes' /\ StatsInv'
    <2>1. PICK t : t = [none EXCEPT !.pc = "count"]
      OBVIOUS
    <2>a. PICK i, old : i = reviewTask[h].id /\ old = reviewTask[h].row
      OBVIOUS
    <2>b. PICK r \in Ratings : review' = [review EXCEPT ![i] = [old EXCEPT !.rating = r]]
      BY <1>4, <2>a DEF Review!SaveReview
    <2>2. /\ reviewTask' = [reviewTask EXCEPT ![h] = t]
          /\ reviewTask[h].pc = "update"
          /\ UNCHANGED <<nextReview, stats, reviewRaces, reviewDeaths>>
      BY <1>4, <1>p, <2>1 DEF Review!SaveReview, Review!At
    <2>3. DOMAIN t = {"pc", "id", "row", "found"} /\ t.pc = "count" /\ t.id = 0
      BY <1>q2, <2>1
    <2>4. ReviewTaskOK(t, nextReview')
      BY <1>t, <1>n, <2>2, <2>3 DEF ReviewTaskOK
    <2>5. i \in 1 .. nextReview - 1 /\ old \in ReviewRow
      BY <1>t, <2>2, <2>a DEF ReviewTaskOK
    <2>6. [old EXCEPT !.rating = r] \in ReviewRow
      BY <2>5 DEF ReviewRow
    <2>7. ReviewTypes'
      <3>1. DOMAIN reviewTask' = Handlers /\ \A g \in Handlers : ReviewTaskOK(reviewTask'[g], nextReview')
        BY <1>t, <2>2, <2>4, ReviewTasksKept
      <3>2. /\ review' \in [1 .. MaxReviews -> ReviewRow \union {None}]
            /\ \A j \in 1 .. MaxReviews : review'[j] # None => j < nextReview'
        BY <1>t, <1>n, <2>2, <2>b, <2>5, <2>6
      <3> QED
        BY <1>t, <2>2, <3>1, <3>2 DEF ReviewTypes
    <2> QED
      BY <2>2, <2>3, <2>7, ReviewChanged DEF Review!At
  <1>5. ASSUME NEW h \in Handlers, Review!DeleteReview(h)
        PROVE  ReviewTypes' /\ StatsInv'
    <2>1. PICK t : t = [none EXCEPT !.pc = "count"]
      OBVIOUS
    <2>a. PICK i : i = reviewTask[h].id
      OBVIOUS
    <2>2. /\ reviewTask' = [reviewTask EXCEPT ![h] = t]
          /\ review' = [review EXCEPT ![i] = None]
          /\ reviewTask[h].pc = "remove"
          /\ UNCHANGED <<nextReview, stats, reviewRaces, reviewDeaths>>
      BY <1>5, <1>p, <2>1, <2>a DEF Review!DeleteReview, Review!At
    <2>3. DOMAIN t = {"pc", "id", "row", "found"} /\ t.pc = "count" /\ t.id = 0
      BY <1>q2, <2>1
    <2>4. ReviewTaskOK(t, nextReview')
      BY <1>t, <1>n, <2>2, <2>3 DEF ReviewTaskOK
    <2>5. ReviewTypes'
      <3>1. DOMAIN reviewTask' = Handlers /\ \A g \in Handlers : ReviewTaskOK(reviewTask'[g], nextReview')
        BY <1>t, <2>2, <2>4, ReviewTasksKept
      <3>2. /\ review' \in [1 .. MaxReviews -> ReviewRow \union {None}]
            /\ \A j \in 1 .. MaxReviews : review'[j] # None => j < nextReview'
        BY <1>t, <1>n, <2>2
      <3> QED
        BY <1>t, <2>2, <3>1, <3>2 DEF ReviewTypes
    <2> QED
      BY <2>2, <2>3, <2>5, ReviewChanged DEF Review!At
  <1>6. ASSUME NEW h \in Handlers, Review!CountReviews(h)
        PROVE  ReviewTypes' /\ StatsInv'
    <2>a. PICK counted : counted = Review!Counted
      OBVIOUS
    <2>1. PICK t : t = [reviewTask[h] EXCEPT !.pc = "stats", !.found = counted]
      OBVIOUS
    <2>2. /\ reviewTask' = [reviewTask EXCEPT ![h] = t]
          /\ Review!At(h, "count")
          /\ reviewRaces' = (reviewRaces \/ \E g \in Handlers \ {h} : Review!At(g, "stats"))
          /\ UNCHANGED <<review, nextReview, stats, reviewDeaths>>
      <3>1. reviewTask' = [reviewTask EXCEPT ![h].pc = "stats", ![h].found = counted]
        BY <1>6, <2>a DEF Review!CountReviews
      <3>2. reviewTask' = [reviewTask EXCEPT ![h] = t]
        BY <1>t, <2>1, <3>1
      <3> QED
        BY <1>6, <3>2 DEF Review!CountReviews
    <2>3. DOMAIN t = {"pc", "id", "row", "found"} /\ t.pc = "stats" /\ t.id = reviewTask[h].id /\ t.found = counted
      BY <1>t, <2>1 DEF ReviewTaskOK
    <2>4. ReviewTaskOK(t, nextReview')
      BY <1>t, <2>2, <2>3 DEF ReviewTaskOK
    <2>5. reviewRaces' \in BOOLEAN
      BY <1>t, <2>2
    <2>6. ReviewTypes'
      BY <1>t, <2>2, <2>4, <2>5, ReviewTasksKept DEF ReviewTypes
    <2>7. Storing' = Storing \union {h} /\ Storing' # {} /\ h \in Storing'
      BY <2>2, <2>3, ReviewQueues
    <2>8. ~reviewRaces' => ~reviewRaces /\ Storing \subseteq {h}
      BY <2>2 DEF Storing
    <2>9. Review!Counted' = counted
      BY <2>2, <2>a, CountedFrame
    <2>10. reviewTask'[h].found = counted
      BY <2>2, <2>3, ReviewTaskMoves
    <2>11. StatsInv'
      BY <2>7, <2>8, <2>9, <2>10 DEF StatsInv
    <2> QED
      BY <2>6, <2>11
  <1>7. ASSUME NEW h \in Handlers, Review!SaveStats(h)
        PROVE  ReviewTypes' /\ StatsInv'
    <2>1. /\ reviewTask' = [reviewTask EXCEPT ![h] = none]
          /\ stats' = reviewTask[h].found /\ Review!At(h, "stats")
          /\ UNCHANGED <<review, nextReview, reviewRaces, reviewDeaths>>
      BY <1>7, <1>p DEF Review!SaveStats, Review!Done
    <2>2. ReviewTaskOK(none, nextReview')
      BY <1>t, <1>q, <2>1 DEF ReviewTaskOK
    <2>3. ReviewTypes'
      BY <1>t, <2>1, <2>2, ReviewTasksKept DEF ReviewTypes
    <2>4. Storing' = Storing \ {h} /\ Counting' = Counting /\ h \in Storing
      BY <1>q, <2>1, ReviewQueues DEF Storing, Counting, Review!At
    <2>5. Review!Counted' = Review!Counted
      BY <2>1, CountedFrame
    <2>6. StatsInv'
      BY <2>1, <2>4, <2>5 DEF StatsInv
    <2> QED
      BY <2>3, <2>6
  <1>8. ASSUME NEW h \in Handlers, Review!Die(h)
        PROVE  ReviewTypes' /\ StatsInv'
    <2>1. /\ reviewTask' = [reviewTask EXCEPT ![h] = none]
          /\ reviewDeaths' \in 0 .. MaxDeaths /\ reviewDeaths' # 0
          /\ UNCHANGED <<review, nextReview, stats, reviewRaces>>
      BY <1>8, <1>p, <1>n, <1>t DEF Review!Die, Review!Done
    <2>2. ReviewTaskOK(none, nextReview')
      BY <1>t, <1>q, <2>1 DEF ReviewTaskOK
    <2>3. ReviewTypes'
      BY <1>t, <2>1, <2>2, ReviewTasksKept DEF ReviewTypes
    <2> QED
      BY <2>1, <2>3 DEF StatsInv
  <1>9. CASE UNCHANGED Review!vars
    <2>1. UNCHANGED <<review, nextReview, stats, reviewTask, reviewRaces, reviewDeaths>>
      BY <1>9 DEF Review!vars
    <2>2. ReviewTypes'
      BY <1>t, <2>1 DEF ReviewTypes, ReviewTaskOK
    <2>3. Review!Counted' = Review!Counted /\ Counting' = Counting /\ Storing' = Storing
      BY <2>1, CountedFrame DEF Counting, Storing, Review!At
    <2> QED
      BY <2>1, <2>2, <2>3 DEF StatsInv
  <1>10. CASE Review!Next
    BY <1>1, <1>2, <1>3, <1>4, <1>5, <1>6, <1>7, <1>8, <1>10 DEF Review!Next
  <1> QED
    BY <1>9, <1>10

\* Whenever no change of a review is under way, the product's sum of ratings is
\* that of the reviews in the table and its count their number times that of the
\* products, as the query counts (product.repository.ts:155), for any number of requests that create, change and
\* remove reviews at once, unless two of them were between their two statements
\* at the same time or one died there.
THEOREM StatsAreCurrent == Customers => []StatsCurrent
  <1>1. Review!Spec => [](ReviewTypes /\ StatsInv)
    BY ReviewInit, ReviewStep, PTL DEF Review!Spec
  <1>2. ReviewTypes /\ StatsInv => StatsCurrent
    <2> SUFFICES ASSUME ReviewTypes, StatsInv, ~reviewRaces, reviewDeaths = 0,
                        \A h \in Handlers : reviewTask[h].pc \notin {"count", "stats"}
                 PROVE  stats = Review!Counted
      BY DEF StatsCurrent, Review!StatsCurrent
    <2>1. Counting = {} /\ Storing = {}
      BY DEF Counting, Storing, Review!At
    <2> QED
      BY <2>1 DEF StatsInv
  <1> QED
    BY <1>1, <1>2, PartsRun, PTL
-----------------------------------------------------------------------------
(***************************************************************************)
(* The cart.                                                               *)
(***************************************************************************)
CartRow == [product : Products, qty : Nat]
CartTables == [1 .. MaxRows -> CartRow \union {None}]

\* The rows of a table r that hold product p, the units they hold together, and
\* what one entry of the table adds to them.
RowsWith(r, p) == {i \in {j \in 1 .. MaxRows : r[j] # None} : r[i].product = p}
Held(r, p) == SumFunctionOnSet([i \in RowsWith(r, p) |-> r[i].qty], RowsWith(r, p))
Share(v, p) == IF v # None /\ v.product = p THEN v.qty ELSE 0

LEMMA CartSum == \A f, S : Cart!SumFunctionOnSet(f, S) = SumFunctionOnSet(f, S)
  BY DEF SumFunctionOnSet, FoldFunctionOnSet, MapThenFoldSet,
         Cart!SumFunctionOnSet, Cart!FoldFunctionOnSet, Cart!MapThenFoldSet

LEMMA InCartIsHeld == \A p : Cart!InCart(p) = Held(row, p)
  <1> TAKE p
  <1>1. Cart!RowsOf(p) = RowsWith(row, p)
    BY DEF Cart!RowsOf, Cart!Ids, RowsWith
  <1>2. PICK S : S = RowsWith(row, p)
    OBVIOUS
  <1>3. Cart!InCart(p) = Cart!SumFunctionOnSet([i \in S |-> row[i].qty], S)
    BY <1>1, <1>2 DEF Cart!InCart
  <1>4. Held(row, p) = SumFunctionOnSet([i \in S |-> row[i].qty], S)
    BY <1>2 DEF Held
  <1> QED
    BY <1>3, <1>4, CartSum

\* The same of the next state, where a lemma about row says nothing.
LEMMA InCartIsHeldNext == \A p : Cart!InCart(p)' = Held(row', p)
  <1> TAKE p
  <1>1. Cart!RowsOf(p)' = RowsWith(row', p)
    BY DEF Cart!RowsOf, Cart!Ids, RowsWith
  <1>2. PICK S : S = RowsWith(row', p)
    OBVIOUS
  <1>3. Cart!InCart(p)' = Cart!SumFunctionOnSet([i \in S |-> row'[i].qty], S)
    BY <1>1, <1>2 DEF Cart!InCart
  <1>4. Held(row', p) = SumFunctionOnSet([i \in S |-> row'[i].qty], S)
    BY <1>2 DEF Held
  <1> QED
    BY <1>3, <1>4, CartSum

LEMMA RowsWithFinite == \A r, p : IsFiniteSet(RowsWith(r, p)) /\ RowsWith(r, p) \subseteq 1 .. MaxRows
  <1> TAKE r, p
  <1>1. IsFiniteSet(1 .. MaxRows)
    BY CartAssumption, FS_Interval
  <1>2. RowsWith(r, p) \subseteq 1 .. MaxRows
    BY DEF RowsWith
  <1> QED
    BY <1>1, <1>2, FS_Subset

LEMMA HeldNat ==
    ASSUME NEW r \in CartTables, NEW p
    PROVE  Held(r, p) \in Nat
  <1>1. PICK S : S = RowsWith(r, p)
    OBVIOUS
  <1>2. PICK f : f = [i \in S |-> r[i].qty]
    OBVIOUS
  <1>3. \A i \in S : f[i] \in Nat
    BY <1>1, <1>2 DEF RowsWith, CartRow, CartTables
  <1>4. Held(r, p) = SumFunctionOnSet(f, S) /\ IsFiniteSet(S)
    BY <1>1, <1>2, RowsWithFinite DEF Held
  <1> QED
    BY <1>3, <1>4, SumNat

LEMMA HeldNothing ==
    ASSUME NEW r, NEW p, \A i \in 1 .. MaxRows : r[i] = None
    PROVE  Held(r, p) = 0
  <1>1. RowsWith(r, p) = {}
    BY DEF RowsWith
  <1> QED
    BY <1>1, SumEmpty DEF Held

\* One row's share of what is held, and the rest.
LEMMA HeldSplit ==
    ASSUME NEW r \in CartTables, NEW p, NEW i \in 1 .. MaxRows,
           NEW S, S = RowsWith(r, p) \ {i}, NEW f, \A j \in S : f[j] = r[j].qty
    PROVE  Held(r, p) = SumFunctionOnSet(f, S) + Share(r[i], p)
  <1>1. PICK H : H = RowsWith(r, p)
    OBVIOUS
  <1>2. PICK g : g = [j \in H |-> r[j].qty]
    OBVIOUS
  <1>3. Held(r, p) = SumFunctionOnSet(g, H) /\ IsFiniteSet(H) /\ IsFiniteSet(S)
    BY <1>1, <1>2, RowsWithFinite, FS_Subset DEF Held
  <1>4. \A j \in H : g[j] \in Int
    BY <1>1, <1>2 DEF RowsWith, CartRow, CartTables
  <1>5. SumFunctionOnSet(f, S) = SumFunctionOnSet(g, S)
    <2>1. \A j \in S : f[j] = g[j]
      BY <1>1, <1>2
    <2> QED
      BY <1>3, <2>1, SumSame
  <1>6. SumFunctionOnSet(g, S) \in Int
    BY <1>1, <1>3, <1>4, SumInt
  <1>7. CASE i \in H
    <2>1. H = S \union {i} /\ i \notin S
      BY <1>1, <1>7
    <2>2. SumFunctionOnSet(g, H) = SumFunctionOnSet(g, S) + g[i]
      BY <1>3, <1>4, <2>1, SumAdd
    <2>3. Share(r[i], p) = g[i]
      BY <1>1, <1>2, <1>7 DEF Share, RowsWith
    <2> QED
      BY <1>3, <1>5, <2>2, <2>3
  <1>8. CASE i \notin H
    <2>1. H = S
      BY <1>1, <1>8
    <2>2. Share(r[i], p) = 0
      BY <1>1, <1>8 DEF Share, RowsWith
    <2> QED
      BY <1>3, <1>5, <1>6, <2>1, <2>2
  <1> QED
    BY <1>7, <1>8

\* Writing one row changes what is held by the difference of the two shares.
LEMMA HeldAfterWrite ==
    ASSUME NEW r \in CartTables, NEW i \in 1 .. MaxRows,
           NEW q \in CartTables, \A j \in 1 .. MaxRows \ {i} : q[j] = r[j],
           NEW p
    PROVE  Held(q, p) = Held(r, p) - Share(r[i], p) + Share(q[i], p)
  <1>3. PICK S : S = RowsWith(r, p) \ {i}
    OBVIOUS
  <1>4. S = RowsWith(q, p) \ {i} /\ S \subseteq 1 .. MaxRows \ {i}
    BY <1>3 DEF RowsWith
  <1>5. PICK f : f = [j \in S |-> r[j].qty]
    OBVIOUS
  <1>6. \A j \in S : f[j] = q[j].qty
    BY <1>4, <1>5
  <1>7. Held(r, p) = SumFunctionOnSet(f, S) + Share(r[i], p)
    BY <1>3, <1>5, HeldSplit
  <1>8. Held(q, p) = SumFunctionOnSet(f, S) + Share(q[i], p)
    <2>2. S = RowsWith(q, p) \ {i}
      BY <1>4
    <2> QED
      BY <1>6, <2>2, HeldSplit
  <1>9. SumFunctionOnSet(f, S) \in Int /\ Share(r[i], p) \in Int /\ Share(q[i], p) \in Int
    <2>1. IsFiniteSet(S)
      BY <1>3, RowsWithFinite, FS_Subset
    <2>2. \A j \in S : f[j] \in Int
      BY <1>3, <1>5 DEF RowsWith, CartRow, CartTables
    <2>3. Share(r[i], p) \in Int /\ Share(q[i], p) \in Int
      BY DEF Share, CartRow, CartTables
    <2> QED
      BY <2>1, <2>2, <2>3, SumInt
  <1> QED
    BY <1>7, <1>8, <1>9

LEMMA HeldNext ==
    ASSUME row \in CartTables, row' \in CartTables, NEW i \in 1 .. MaxRows,
           \A j \in 1 .. MaxRows \ {i} : row'[j] = row[j]
    PROVE  \A p : Held(row', p) = Held(row, p) - Share(row[i], p) + Share(row'[i], p)
  BY HeldAfterWrite

CartTaskOK(t, next) ==
    /\ DOMAIN t = {"pc", "about", "id", "qty", "change", "lines"}
    /\ t.pc \in {"idle", "create", "update", "delete", "reserve", "clear"}
    /\ t.about \subseteq Products /\ t.id \in 0 .. next - 1 /\ t.qty \in Nat /\ t.change \in Int
    /\ t.pc = "idle" => t.about = {}
    /\ t.pc \in {"create", "update", "delete"} => \E p \in Products : t.about = {p}
    /\ t.pc \in {"create", "update"} => \A p \in t.about : t.qty \in 1 .. Available[p]
    /\ t.pc \in {"update", "delete"} => t.id # 0
    /\ t.pc \in {"reserve", "clear"} => t.about = Products /\ t.lines \in [Products -> Nat]
    /\ t.pc \notin {"reserve", "clear"} => t.lines = None

\* What a handler is going to write is right for the table r.
RightFor(t, r) ==
    /\ t.pc = "create" => t.qty = t.change
    /\ t.pc = "update" => r[t.id] # None /\ t.about = {r[t.id].product} /\ t.qty = r[t.id].qty + t.change
    /\ t.pc = "delete" => r[t.id] # None /\ t.about = {r[t.id].product} /\ t.change = -r[t.id].qty
    /\ t.pc \in {"reserve", "clear"} => \A p \in Products : t.lines[p] = Held(r, p)

\* An id is given out once, so that a row keeps its product while a handler knows its id.
SameProduct(t, r) == t.pc = "update" => r[t.id] = None \/ r[t.id].product \in t.about

CartTypes ==
    /\ row \in CartTables
    /\ nextRow \in 1 .. MaxRows + 1
    /\ \A i \in 1 .. MaxRows : row[i] # None => i < nextRow /\ row[i].qty \in 1 .. Available[row[i].product]
    /\ wanted \in [Products -> -MaxUnits .. MaxUnits]
    /\ DOMAIN cartTask = Handlers
    /\ \A h \in Handlers : CartTaskOK(cartTask[h], nextRow)
    /\ \A h \in Handlers : SameProduct(cartTask[h], row)
    /\ cartRaces \in BOOLEAN
    /\ cartDeaths \in 0 .. MaxDeaths

\* The handlers are about different products and have read what is still in
\* the table; the units wanted are those in the table, until a checkout has
\* ordered them all.
UnitsInv ==
    ~cartRaces /\ cartDeaths = 0 =>
        /\ \A g, h \in Handlers : g # h => cartTask[g].about \cap cartTask[h].about = {}
        /\ \A h \in Handlers : RightFor(cartTask[h], row)
        /\ (\A h \in Handlers : cartTask[h].pc # "clear") => \A p \in Products : wanted[p] = Held(row, p)
        /\ \A h \in Handlers : cartTask[h].pc = "clear" => \A p \in Products : wanted[p] = 0

LEMMA CartNumbers == MaxRows \in Nat /\ MaxDeaths \in Nat /\ None \notin CartRow /\ None \notin [Products -> Nat]
  BY CartAssumption, BoundsAssumption DEF CartRow

LEMMA CartNoTask ==
    Cart!NoTask = [pc |-> "idle", about |-> {}, id |-> 0, qty |-> 0, change |-> 0, lines |-> None]
  BY DEF Cart!NoTask

LEMMA CartIdle ==
    ASSUME NEW t, t = [pc |-> "idle", about |-> {}, id |-> 0, qty |-> 0, change |-> 0, lines |-> None],
           NEW n \in Nat \ {0}
    PROVE  CartTaskOK(t, n) /\ t.pc = "idle" /\ t.about = {}
  <1>1. /\ DOMAIN t = {"pc", "about", "id", "qty", "change", "lines"}
        /\ t.pc = "idle" /\ t.about = {} /\ t.id = 0 /\ t.qty = 0 /\ t.change = 0 /\ t.lines = None
    OBVIOUS
  <1> QED
    BY <1>1 DEF CartTaskOK

LEMMA CartTaskMoves ==
    ASSUME CartTypes, NEW h \in Handlers, NEW t, cartTask' = [cartTask EXCEPT ![h] = t]
    PROVE  /\ DOMAIN cartTask' = Handlers
           /\ cartTask'[h] = t
           /\ \A g \in Handlers \ {h} : cartTask'[g] = cartTask[g]
  BY DEF CartTypes

\* What a step does to the handlers' part of CartTypes.
LEMMA CartTasksKept ==
    ASSUME CartTypes, NEW h \in Handlers, NEW t, cartTask' = [cartTask EXCEPT ![h] = t],
           nextRow' \in Nat, nextRow' >= nextRow, CartTaskOK(t, nextRow')
    PROVE  DOMAIN cartTask' = Handlers /\ \A g \in Handlers : CartTaskOK(cartTask'[g], nextRow')
  <1>1. /\ DOMAIN cartTask' = Handlers /\ cartTask'[h] = t
        /\ \A g \in Handlers \ {h} : cartTask'[g] = cartTask[g]
    BY CartTaskMoves
  <1>2. ASSUME NEW u, CartTaskOK(u, nextRow)
        PROVE  CartTaskOK(u, nextRow')
    <2>1. nextRow \in Nat
      BY CartNumbers DEF CartTypes
    <2>2. u.id \in 0 .. nextRow' - 1
      BY <1>2, <2>1 DEF CartTaskOK
    <2> QED
      BY <1>2, <2>2 DEF CartTaskOK
  <1>3. \A g \in Handlers : CartTaskOK(cartTask[g], nextRow)
    BY DEF CartTypes
  <1> QED
    BY <1>1, <1>2, <1>3

LEMMA CartInit == Cart!Init => CartTypes /\ UnitsInv
  <1> SUFFICES ASSUME Cart!Init
               PROVE  CartTypes /\ UnitsInv
    OBVIOUS
  <1>1. PICK t : t = Cart!NoTask
    OBVIOUS
  <1>2. /\ row = [i \in 1 .. MaxRows |-> None] /\ nextRow = 1 /\ cartDeaths = 0
        /\ wanted = [p \in Products |-> 0]
        /\ DOMAIN cartTask = Handlers /\ \A h \in Handlers : cartTask[h] = t
    BY <1>1 DEF Cart!Init
  <1>3. cartRaces \in BOOLEAN
    BY DEF Cart!Init
  <1>4. CartTaskOK(t, nextRow) /\ t.pc = "idle" /\ t.about = {}
    BY <1>1, <1>2, CartNoTask, CartIdle
  <1>5. nextRow \in 1 .. MaxRows + 1 /\ cartDeaths \in 0 .. MaxDeaths
    BY <1>2, CartNumbers
  <1>6. wanted \in [Products -> -MaxUnits .. MaxUnits] /\ \A p \in Products : wanted[p] = 0
    BY <1>2, CartAssumption
  <1>7. row \in CartTables /\ \A i \in 1 .. MaxRows : row[i] = None
    BY <1>2 DEF CartTables
  <1>8. \A h \in Handlers : SameProduct(cartTask[h], row) /\ RightFor(cartTask[h], row)
    BY <1>2, <1>4 DEF SameProduct, RightFor
  <1>9. CartTypes
    BY <1>2, <1>3, <1>4, <1>5, <1>6, <1>7, <1>8 DEF CartTypes
  <1>10. \A p \in Products : wanted[p] = Held(row, p)
    BY <1>6, <1>7, HeldNothing
  <1> QED
    BY <1>2, <1>4, <1>8, <1>9, <1>10 DEF UnitsInv

\* A handler that starts, with what it has read.
LEMMA CartBegun ==
    ASSUME CartTypes, UnitsInv, NEW h \in Handlers, NEW t, Cart!Start(h, t),
           t.pc \in {"create", "update", "delete", "reserve"}, CartTaskOK(t, nextRow), RightFor(t, row)
    PROVE  CartTypes' /\ UnitsInv'
  <1>1. /\ cartTask[h].pc = "idle" /\ cartTask' = [cartTask EXCEPT ![h] = t]
        /\ cartRaces' = (cartRaces \/ Cart!Overlaps(h, t.about))
        /\ UNCHANGED <<row, nextRow, wanted, cartDeaths>>
    BY DEF Cart!Start, Cart!At
  <1>2. /\ cartTask'[h] = t
        /\ \A g \in Handlers \ {h} : cartTask'[g] = cartTask[g]
    BY <1>1, CartTaskMoves
  <1>3. nextRow' \in Nat /\ nextRow' >= nextRow
    BY <1>1, CartNumbers DEF CartTypes
  <1>4. DOMAIN cartTask' = Handlers /\ \A g \in Handlers : CartTaskOK(cartTask'[g], nextRow')
    BY <1>1, <1>3, CartTasksKept
  <1>5. SameProduct(t, row)
    BY DEF SameProduct, RightFor
  <1>6. \A g \in Handlers : SameProduct(cartTask'[g], row')
    BY <1>1, <1>2, <1>5 DEF CartTypes
  <1>7. cartRaces' \in BOOLEAN
    BY <1>1 DEF CartTypes
  <1>8. CartTypes'
    BY <1>1, <1>4, <1>6, <1>7 DEF CartTypes
  <1>9. ASSUME ~cartRaces', cartDeaths' = 0
        PROVE  /\ \A f, g \in Handlers : f # g => cartTask'[f].about \cap cartTask'[g].about = {}
               /\ \A g \in Handlers : RightFor(cartTask'[g], row')
               /\ (\A g \in Handlers : cartTask'[g].pc # "clear") => \A p \in Products : wanted'[p] = Held(row', p)
               /\ \A g \in Handlers : cartTask'[g].pc = "clear" => \A p \in Products : wanted'[p] = 0
    <2>1. ~cartRaces /\ cartDeaths = 0 /\ ~Cart!Overlaps(h, t.about)
      BY <1>1, <1>9
    <2>2. \A g \in Handlers \ {h} : cartTask[g].about \cap t.about = {}
      BY <2>1 DEF Cart!Overlaps
    <2>3. \A f, g \in Handlers : f # g => cartTask[f].about \cap cartTask[g].about = {}
      BY <2>1 DEF UnitsInv
    <2>4. \A f, g \in Handlers : f # g => cartTask'[f].about \cap cartTask'[g].about = {}
      BY <1>2, <2>2, <2>3
    <2>5. \A g \in Handlers : RightFor(cartTask'[g], row')
      BY <1>1, <1>2, <2>1 DEF UnitsInv
    <2>6. \A g \in Handlers : (cartTask'[g].pc = "clear") = (cartTask[g].pc = "clear")
      BY <1>1, <1>2
    <2> QED
      BY <1>1, <2>1, <2>4, <2>5, <2>6 DEF UnitsInv
  <1> QED
    BY <1>8, <1>9 DEF UnitsInv

\* A handler that writes the one row it is about.
LEMMA CartWritten ==
    ASSUME CartTypes, UnitsInv, NEW h \in Handlers, NEW p \in Products, NEW i \in 1 .. MaxRows, NEW n \in Int,
           cartTask'[h].pc = "idle", cartTask'[h].about = {},
           \A g \in Handlers \ {h} : cartTask'[g] = cartTask[g],
           cartTask[h].pc \in {"create", "update", "delete"}, cartTask[h].about = {p},
           row' \in CartTables,
           \A j \in 1 .. MaxRows \ {i} : row'[j] = row[j],
           \A q \in Products : wanted'[q] = IF q = p THEN wanted[q] + n ELSE wanted[q],
           ~cartRaces /\ cartDeaths = 0 =>
                /\ row[i] = None \/ row[i].product = p
                /\ row'[i] = None \/ row'[i].product = p
                /\ Share(row'[i], p) - Share(row[i], p) = n,
           UNCHANGED <<cartRaces, cartDeaths>>
    PROVE  UnitsInv'
  <1>1. \A g \in Handlers \ {h} : cartTask'[g] = cartTask[g]
    OBVIOUS
  <1> SUFFICES ASSUME ~cartRaces, cartDeaths = 0
               PROVE  /\ \A f, g \in Handlers : f # g => cartTask'[f].about \cap cartTask'[g].about = {}
                      /\ \A g \in Handlers : RightFor(cartTask'[g], row')
                      /\ \A q \in Products : wanted'[q] = Held(row', q)
                      /\ \A g \in Handlers : cartTask'[g].pc # "clear"
    BY DEF UnitsInv
  <1>2. \A f, g \in Handlers : f # g => cartTask[f].about \cap cartTask[g].about = {}
    BY DEF UnitsInv
  <1>3. \A f, g \in Handlers : f # g => cartTask'[f].about \cap cartTask'[g].about = {}
    BY <1>1, <1>2
  <1>4. \A g \in Handlers \ {h} : p \notin cartTask[g].about
    BY <1>2
  <1>5. \A g \in Handlers \ {h} : cartTask[g].pc \notin {"reserve", "clear"}
    BY <1>4 DEF CartTypes, CartTaskOK
  <1>6. ASSUME NEW g \in Handlers \ {h}
        PROVE  RightFor(cartTask'[g], row')
    <2>1. PICK t : t = cartTask[g]
      OBVIOUS
    <2>2. RightFor(t, row) /\ t.pc \notin {"reserve", "clear"} /\ p \notin t.about /\ cartTask'[g] = t
      BY <1>1, <1>4, <1>5, <2>1 DEF UnitsInv
    <2>3. t.pc \in {"update", "delete"} => t.id # i
      BY <2>2 DEF RightFor
    <2>5. CartTaskOK(t, nextRow)
      BY <2>1 DEF CartTypes
    <2>6. t.pc \in {"update", "delete"} => t.id \in 1 .. MaxRows
      BY <2>5, CartNumbers DEF CartTypes, CartTaskOK
    <2>4. t.pc \in {"update", "delete"} => row'[t.id] = row[t.id]
      BY <2>3, <2>6
    <2> QED
      BY <2>2, <2>4 DEF RightFor
  <1>7. RightFor(cartTask'[h], row')
    BY DEF RightFor
  <1>8. \A q \in Products : wanted[q] = Held(row, q)
    BY <1>5 DEF UnitsInv
  <1>10. ASSUME NEW q \in Products
         PROVE  wanted'[q] = Held(row', q)
    <2>0. row \in CartTables
      BY DEF CartTypes
    <2>5. Held(row', q) = Held(row, q) - Share(row[i], q) + Share(row'[i], q)
      BY <2>0, HeldNext
    <2>1. /\ Held(row', q) = Held(row, q) - Share(row[i], q) + Share(row'[i], q)
          /\ Held(row, q) \in Nat
      BY <2>0, <2>5, HeldNat
    <2>2. CASE q = p
      <3>1. Share(row[i], p) \in Int /\ Share(row'[i], p) \in Int
        BY DEF Share, CartRow, CartTypes, CartTables
      <3> QED
        BY <1>8, <2>1, <2>2, <3>1
    <2>3. CASE q # p
      <3>1. Share(row[i], q) = 0 /\ Share(row'[i], q) = 0
        BY <2>3 DEF Share
      <3> QED
        BY <1>8, <2>1, <2>3, <3>1
    <2> QED
      BY <2>2, <2>3
  <1>11. \A g \in Handlers : cartTask'[g].pc # "clear"
    BY <1>1, <1>5
  <1>12. \A g \in Handlers : RightFor(cartTask'[g], row')
    BY <1>1, <1>6, <1>7
  <1> QED
    BY <1>3, <1>10, <1>11, <1>12

\* A handler that empties the cart, when no other has to do with it.
LEMMA CartEmptied ==
    ASSUME CartTypes, NEW h \in Handlers,
           \A g \in Handlers \ {h} : cartTask'[g] = cartTask[g],
           cartTask'[h].pc = "idle", cartTask'[h].about = {},
           \A i \in 1 .. MaxRows : row'[i] = None,
           ~cartRaces' /\ cartDeaths' = 0 =>
                /\ \A f, g \in Handlers \ {h} : f # g => cartTask[f].about \cap cartTask[g].about = {}
                /\ \A g \in Handlers \ {h} : cartTask[g].about \cap Products = {}
                /\ \A p \in Products : wanted'[p] = 0
    PROVE  UnitsInv'
  <1> SUFFICES ASSUME ~cartRaces', cartDeaths' = 0
               PROVE  /\ \A f, g \in Handlers : f # g => cartTask'[f].about \cap cartTask'[g].about = {}
                      /\ \A g \in Handlers : RightFor(cartTask'[g], row')
                      /\ \A p \in Products : wanted'[p] = 0 /\ Held(row', p) = 0
    BY DEF UnitsInv
  <1>1. \A g \in Handlers \ {h} : CartTaskOK(cartTask[g], nextRow)
    BY DEF CartTypes
  <1>2. ASSUME NEW g \in Handlers
        PROVE  RightFor(cartTask'[g], row')
    <2>1. CASE g = h
      BY <2>1 DEF RightFor
    <2>2. CASE g # h
      <3>1. PICK t : t = cartTask[g]
        OBVIOUS
      <3>2. CartTaskOK(t, nextRow) /\ cartTask'[g] = t /\ t.about \cap Products = {}
        BY <1>1, <2>2, <3>1
      <3>3. t.pc \notin {"create", "update", "delete"} /\ (t.pc \in {"reserve", "clear"} => Products = {})
        BY <3>2 DEF CartTaskOK
      <3> QED
        BY <3>2, <3>3 DEF RightFor
    <2> QED
      BY <2>1, <2>2
  <1>3. \A p \in Products : Held(row', p) = 0
    BY HeldNothing
  <1> QED
    BY <1>2, <1>3

\* The types after a step that changes one row, or none, and one handler.
LEMMA CartTypesKept ==
    ASSUME CartTypes, NEW h \in Handlers, NEW t, cartTask' = [cartTask EXCEPT ![h] = t],
           nextRow' \in 1 .. MaxRows + 1, nextRow' >= nextRow, CartTaskOK(t, nextRow'), t.pc # "update",
           row' \in CartTables,
           \A i \in 1 .. MaxRows : row'[i] # None =>
                /\ i < nextRow' /\ row'[i].qty \in 1 .. Available[row'[i].product]
                /\ i < nextRow => row[i] # None /\ row'[i].product = row[i].product,
           wanted' \in [Products -> -MaxUnits .. MaxUnits],
           cartRaces' \in BOOLEAN, cartDeaths' \in 0 .. MaxDeaths
    PROVE  CartTypes'
  <1>1. /\ cartTask'[h] = t
        /\ \A g \in Handlers \ {h} : cartTask'[g] = cartTask[g]
    BY CartTaskMoves
  <1>2. nextRow' \in Nat
    BY CartNumbers
  <1>3. DOMAIN cartTask' = Handlers /\ \A g \in Handlers : CartTaskOK(cartTask'[g], nextRow')
    BY <1>2, CartTasksKept
  <1>4. ASSUME NEW g \in Handlers
        PROVE  SameProduct(cartTask'[g], row')
    <2>1. PICK u : u = cartTask'[g]
      OBVIOUS
    <2>2. CASE g = h
      BY <1>1, <2>2 DEF SameProduct
    <2>3. CASE g # h
      <3>1. u = cartTask[g] /\ CartTaskOK(u, nextRow) /\ SameProduct(u, row)
        BY <1>1, <2>1, <2>3 DEF CartTypes
      <3>2. u.pc = "update" => u.id \in 1 .. MaxRows /\ u.id < nextRow
        BY <3>1, CartNumbers DEF CartTaskOK, CartTypes
      <3> QED
        BY <2>1, <3>1, <3>2 DEF SameProduct
    <2> QED
      BY <2>2, <2>3
  <1> QED
    BY <1>3, <1>4 DEF CartTypes

LEMMA CartStep == CartTypes /\ UnitsInv /\ [Cart!Next]_Cart!vars => CartTypes' /\ UnitsInv'
  <1> SUFFICES ASSUME CartTypes, UnitsInv, [Cart!Next]_Cart!vars
               PROVE  CartTypes' /\ UnitsInv'
    OBVIOUS
  <1>t. /\ row \in CartTables
        /\ nextRow \in 1 .. MaxRows + 1
        /\ \A i \in 1 .. MaxRows : row[i] # None => i < nextRow /\ row[i].qty \in 1 .. Available[row[i].product]
        /\ wanted \in [Products -> -MaxUnits .. MaxUnits]
        /\ DOMAIN cartTask = Handlers
        /\ \A h \in Handlers : CartTaskOK(cartTask[h], nextRow)
        /\ \A h \in Handlers : SameProduct(cartTask[h], row)
        /\ cartRaces \in BOOLEAN
        /\ cartDeaths \in 0 .. MaxDeaths
    BY DEF CartTypes
  <1>n. MaxRows \in Nat /\ MaxDeaths \in Nat /\ MaxUnits \in Nat /\ None \notin CartRow
        /\ None \notin [Products -> Nat] /\ Available \in [Products -> Nat]
    BY CartNumbers, CartAssumption
  <1>i. nextRow \in Nat \ {0}
    BY <1>t, <1>n
  <1>r. \A i \in 1 .. MaxRows : row[i] # None =>
            row[i] \in CartRow /\ row[i].product \in Products /\ row[i].qty \in Nat /\ i \in 1 .. nextRow - 1
    BY <1>t, <1>i DEF CartTables, CartRow
  <1>p. PICK none : none = Cart!NoTask
    OBVIOUS
  <1>q. none = [pc |-> "idle", about |-> {}, id |-> 0, qty |-> 0, change |-> 0, lines |-> None]
    BY <1>p, CartNoTask
  <1>k. \A n \in Nat \ {0} : CartTaskOK(none, n) /\ none.pc = "idle" /\ none.about = {}
    BY <1>q, CartIdle
  <1>1. ASSUME NEW h \in Handlers, NEW p \in Products, NEW q \in 1 .. MaxUnits, Cart!Add(h, p, q)
        PROVE  CartTypes' /\ UnitsInv'
    <2>1. PICK i \in (IF Cart!RowsOf(p) = {} THEN {0} ELSE Cart!RowsOf(p)) :
                LET found == IF i = 0 THEN 0 ELSE row[i].qty IN
                /\ Cart!Fits(p, found, q)
                /\ Cart!Start(h, [Cart!NoTask EXCEPT !.pc = IF i = 0 THEN "create" ELSE "update", !.about = {p},
                                                     !.id = i, !.qty = found + q, !.change = q])
      BY <1>1 DEF Cart!Add
    <2>2. PICK found : found = IF i = 0 THEN 0 ELSE row[i].qty
      OBVIOUS
    <2>3. PICK t : t = [none EXCEPT !.pc = IF i = 0 THEN "create" ELSE "update", !.about = {p},
                           !.id = i, !.qty = found + q, !.change = q]
      OBVIOUS
    <2>5. found + q <= Available[p] /\ Cart!Start(h, t)
      BY <1>p, <2>1, <2>2, <2>3 DEF Cart!Fits
    <2>6. i = 0 \/ (i \in 1 .. MaxRows /\ row[i] # None /\ row[i].product = p)
      BY <2>1 DEF Cart!RowsOf, Cart!Ids
    <2>7. found \in Nat /\ i \in 0 .. nextRow - 1 /\ found + q \in 1 .. Available[p]
      BY <1>i, <1>n, <1>r, <2>2, <2>5, <2>6
    <2>8. /\ DOMAIN t = {"pc", "about", "id", "qty", "change", "lines"}
          /\ t.pc = (IF i = 0 THEN "create" ELSE "update") /\ t.about = {p} /\ t.id = i
          /\ t.qty = found + q /\ t.change = q /\ t.lines = None
      BY <1>q, <2>3
    <2>9. CartTaskOK(t, nextRow)
      BY <1>n, <2>7, <2>8 DEF CartTaskOK
    <2>10. RightFor(t, row)
      BY <2>2, <2>6, <2>7, <2>8 DEF RightFor
    <2> QED
      BY <2>5, <2>8, <2>9, <2>10, CartBegun
  <1>2. ASSUME NEW h \in Handlers, NEW i \in Cart!Ids, NEW q \in 1 .. MaxUnits, Cart!SetQuantity(h, i, q)
        PROVE  CartTypes' /\ UnitsInv'
    <2>1. PICK old, p : old = row[i].qty /\ p = row[i].product
      OBVIOUS
    <2>2. i \in 1 .. MaxRows /\ row[i] # None /\ p \in Products /\ old \in Nat /\ i \in 1 .. nextRow - 1
      BY <1>r, <2>1 DEF Cart!Ids
    <2>3. PICK t : t = [none EXCEPT !.pc = "update", !.about = {p}, !.id = i, !.qty = q, !.change = q - old]
      OBVIOUS
    <2>5. 0 + q <= Available[p] /\ Cart!Start(h, t)
      BY <1>2, <1>p, <2>1, <2>3 DEF Cart!SetQuantity, Cart!Fits
    <2>6. q \in 1 .. Available[p] /\ q - old \in Int
      BY <1>n, <2>2, <2>5
    <2>7. /\ DOMAIN t = {"pc", "about", "id", "qty", "change", "lines"}
          /\ t.pc = "update" /\ t.about = {p} /\ t.id = i
          /\ t.qty = q /\ t.change = q - old /\ t.lines = None
      BY <1>q, <2>3
    <2>8. CartTaskOK(t, nextRow)
      BY <1>n, <1>i, <2>2, <2>6, <2>7 DEF CartTaskOK
    <2>9. RightFor(t, row)
      BY <2>1, <2>2, <2>7 DEF RightFor
    <2> QED
      BY <2>5, <2>7, <2>8, <2>9, CartBegun
  <1>3. ASSUME NEW h \in Handlers, NEW i \in Cart!Ids, Cart!Remove(h, i)
        PROVE  CartTypes' /\ UnitsInv'
    <2>1. PICK old, p : old = row[i].qty /\ p = row[i].product
      OBVIOUS
    <2>2. i \in 1 .. MaxRows /\ row[i] # None /\ p \in Products /\ old \in Nat /\ i \in 1 .. nextRow - 1
      BY <1>r, <2>1 DEF Cart!Ids
    <2>3. PICK t : t = [none EXCEPT !.pc = "delete", !.about = {p}, !.id = i, !.change = -old]
      OBVIOUS
    <2>5. Cart!Start(h, t)
      BY <1>3, <1>p, <2>1, <2>3 DEF Cart!Remove
    <2>6. -old \in Int
      BY <2>2
    <2>7. /\ DOMAIN t = {"pc", "about", "id", "qty", "change", "lines"}
          /\ t.pc = "delete" /\ t.about = {p} /\ t.id = i
          /\ t.qty = 0 /\ t.change = -old /\ t.lines = None
      BY <1>q, <2>3
    <2>8. CartTaskOK(t, nextRow)
      BY <1>n, <1>i, <2>2, <2>6, <2>7 DEF CartTaskOK
    <2>9. RightFor(t, row)
      BY <2>1, <2>2, <2>7 DEF RightFor
    <2> QED
      BY <2>5, <2>7, <2>8, <2>9, CartBegun
  <1>4. ASSUME NEW h \in Handlers, Cart!CreateRow(h)
        PROVE  CartTypes' /\ UnitsInv'
    <2>1. PICK t : t = cartTask[h]
      OBVIOUS
    <2>2. PICK p \in t.about :
            /\ t.pc = "create" /\ nextRow <= MaxRows
            /\ row' = [row EXCEPT ![nextRow] = [product |-> p, qty |-> t.qty]]
            /\ nextRow' = nextRow + 1
            /\ Cart!Change(p, t.change) /\ Cart!Done(h)
            /\ UNCHANGED <<cartRaces, cartDeaths>>
      BY <1>4, <2>1 DEF Cart!CreateRow, Cart!At
    <2>3. PICK n, v : n = t.change /\ v = [product |-> p, qty |-> t.qty]
      OBVIOUS
    <2>4. CartTaskOK(t, nextRow)
      BY <1>t, <2>1
    <2>5. p \in Products /\ t.about = {p} /\ t.qty \in 1 .. Available[p] /\ n \in Int /\ t.qty \in Nat
      BY <2>2, <2>3, <2>4 DEF CartTaskOK
    <2>6. v \in CartRow /\ v.product = p /\ v.qty = t.qty
      BY <2>3, <2>5 DEF CartRow
    <2>7. /\ cartTask' = [cartTask EXCEPT ![h] = none]
          /\ wanted' = [wanted EXCEPT ![p] = @ + n]
          /\ wanted' \in [Products -> -MaxUnits .. MaxUnits]
          /\ row' = [row EXCEPT ![nextRow] = v]
      BY <1>p, <2>2, <2>3 DEF Cart!Done, Cart!Change, Cart!Want
    <2>8. nextRow \in 1 .. MaxRows /\ row[nextRow] = None /\ nextRow' \in 1 .. MaxRows + 1 /\ nextRow' >= nextRow
          /\ nextRow' \in Nat \ {0}
      BY <1>t, <1>n, <1>i, <2>2
    <2>9. /\ row' \in CartTables
          /\ \A i \in 1 .. MaxRows : row'[i] = IF i = nextRow THEN v ELSE row[i]
      BY <1>t, <2>6, <2>7, <2>8 DEF CartTables
    <2>10. CartTypes'
      <3>1. \A i \in 1 .. MaxRows : row'[i] # None =>
                /\ i < nextRow' /\ row'[i].qty \in 1 .. Available[row'[i].product]
                /\ i < nextRow => row[i] # None /\ row'[i].product = row[i].product
        BY <1>t, <1>i, <2>2, <2>5, <2>6, <2>8, <2>9
      <3>2. cartRaces' \in BOOLEAN /\ cartDeaths' \in 0 .. MaxDeaths
        BY <1>t, <2>2
      <3>3. CartTaskOK(none, nextRow') /\ none.pc # "update"
        BY <1>k, <2>8
      <3> QED
        BY <2>7, <2>8, <2>9, <3>1, <3>2, <3>3, CartTypesKept
    <2>11. UnitsInv'
      <3>1. ~cartRaces /\ cartDeaths = 0 => Share(v, p) - Share(row[nextRow], p) = n
        <4>1. ~cartRaces /\ cartDeaths = 0 => t.qty = n
          BY <2>1, <2>2, <2>3 DEF UnitsInv, RightFor
        <4>2. Share(row[nextRow], p) = 0 /\ Share(v, p) = t.qty
          BY <1>n, <2>6, <2>8 DEF Share
        <4> QED
          BY <2>5, <4>1, <4>2
      <3>2. cartTask[h].pc \in {"create", "update", "delete"} /\ cartTask[h].about = {p}
        BY <2>1, <2>2, <2>5
      <3>3. /\ cartTask'[h].pc = "idle" /\ cartTask'[h].about = {}
            /\ \A g \in Handlers \ {h} : cartTask'[g] = cartTask[g]
        BY <1>k, <1>i, <2>7, CartTaskMoves
      <3>5. \A q \in Products : wanted'[q] = IF q = p THEN wanted[q] + n ELSE wanted[q]
        BY <1>t, <2>7
      <3>4. /\ row' \in CartTables
            /\ row[nextRow] = None /\ row'[nextRow] = v /\ v.product = p
            /\ \A j \in 1 .. MaxRows \ {nextRow} : row'[j] = row[j]
        BY <2>6, <2>8, <2>9
      <3>6. ~cartRaces /\ cartDeaths = 0 =>
                /\ row[nextRow] = None \/ row[nextRow].product = p
                /\ row'[nextRow] = None \/ row'[nextRow].product = p
                /\ Share(row'[nextRow], p) - Share(row[nextRow], p) = n
        BY <3>1, <3>4
      <3>7. UNCHANGED <<cartRaces, cartDeaths>> /\ n \in Int /\ p \in Products
        BY <2>2, <2>5
      <3> QED
        BY <2>8, <3>2, <3>3, <3>4, <3>5, <3>6, <3>7, CartWritten
    <2> QED
      BY <2>10, <2>11
  <1>5. ASSUME NEW h \in Handlers, Cart!UpdateRow(h)
        PROVE  CartTypes' /\ UnitsInv'
    <2>1. PICK t : t = cartTask[h]
      OBVIOUS
    <2>2. PICK p \in t.about :
            /\ t.pc = "update"
            /\ row' = [row EXCEPT ![t.id] = IF @ = None THEN None ELSE [@ EXCEPT !.qty = t.qty]]
            /\ Cart!Change(p, t.change) /\ Cart!Done(h)
            /\ UNCHANGED <<nextRow, cartRaces, cartDeaths>>
      BY <1>5, <2>1 DEF Cart!UpdateRow, Cart!At
    <2>3. PICK n, i : n = t.change /\ i = t.id
      OBVIOUS
    <2>4. CartTaskOK(t, nextRow) /\ SameProduct(t, row)
      BY <1>t, <2>1
    <2>5. p \in Products /\ t.about = {p} /\ t.qty \in 1 .. Available[p] /\ n \in Int /\ t.qty \in Nat
          /\ i \in 1 .. nextRow - 1
      BY <1>i, <2>2, <2>3, <2>4 DEF CartTaskOK
    <2>6. i \in 1 .. MaxRows /\ (row[i] = None \/ (row[i] \in CartRow /\ row[i].product = p))
      BY <1>t, <1>n, <1>r, <2>2, <2>3, <2>4, <2>5 DEF SameProduct
    <2>7. PICK v : v = IF row[i] = None THEN None ELSE [row[i] EXCEPT !.qty = t.qty]
      OBVIOUS
    <2>8. (row[i] = None => v = None) /\ (row[i] # None => v \in CartRow /\ v.product = p /\ v.qty = t.qty)
      BY <2>5, <2>6, <2>7 DEF CartRow
    <2>9. /\ cartTask' = [cartTask EXCEPT ![h] = none]
          /\ wanted' = [wanted EXCEPT ![p] = @ + n]
          /\ wanted' \in [Products -> -MaxUnits .. MaxUnits]
      BY <1>p, <2>2, <2>3 DEF Cart!Done, Cart!Change, Cart!Want
    <2>10. row' = [row EXCEPT ![i] = v]
      BY <2>2, <2>3, <2>7
    <2>11. /\ row' \in CartTables
           /\ \A j \in 1 .. MaxRows : row'[j] = IF j = i THEN v ELSE row[j]
      BY <1>t, <2>6, <2>8, <2>10 DEF CartTables
    <2>12. CartTypes'
      <3>1. \A j \in 1 .. MaxRows : row'[j] # None =>
                /\ j < nextRow' /\ row'[j].qty \in 1 .. Available[row'[j].product]
                /\ j < nextRow => row[j] # None /\ row'[j].product = row[j].product
        BY <1>t, <1>n, <2>2, <2>5, <2>6, <2>8, <2>11
      <3>2. cartRaces' \in BOOLEAN /\ cartDeaths' \in 0 .. MaxDeaths
        BY <1>t, <2>2
      <3>3. CartTaskOK(none, nextRow') /\ none.pc # "update" /\ nextRow' \in 1 .. MaxRows + 1 /\ nextRow' >= nextRow
        BY <1>k, <1>i, <1>t, <2>2
      <3> QED
        BY <2>9, <2>11, <3>1, <3>2, <3>3, CartTypesKept
    <2>13. UnitsInv'
      <3>1. ~cartRaces /\ cartDeaths = 0 => Share(v, p) - Share(row[i], p) = n
        <4> SUFFICES ASSUME ~cartRaces, cartDeaths = 0
                     PROVE  Share(v, p) - Share(row[i], p) = n
          OBVIOUS
        <4>1. RightFor(t, row)
          BY <2>1 DEF UnitsInv
        <4>2. row[i] # None /\ t.qty = row[i].qty + n
          BY <2>2, <2>3, <4>1 DEF RightFor
        <4>3. Share(row[i], p) = row[i].qty /\ Share(v, p) = t.qty /\ row[i].qty \in Nat
          BY <1>n, <1>r, <2>6, <2>8, <4>2 DEF Share
        <4> QED
          BY <2>5, <4>2, <4>3
      <3>2. cartTask[h].pc \in {"create", "update", "delete"} /\ cartTask[h].about = {p}
        BY <2>1, <2>2, <2>5
      <3>3. /\ cartTask'[h].pc = "idle" /\ cartTask'[h].about = {}
            /\ \A g \in Handlers \ {h} : cartTask'[g] = cartTask[g]
        BY <1>k, <1>i, <2>9, CartTaskMoves
      <3>5. \A q \in Products : wanted'[q] = IF q = p THEN wanted[q] + n ELSE wanted[q]
        BY <1>t, <2>9
      <3>4. /\ row' \in CartTables
            /\ (row[i] = None \/ row[i].product = p) /\ row'[i] = v /\ (v = None \/ v.product = p)
            /\ \A j \in 1 .. MaxRows \ {i} : row'[j] = row[j]
        BY <2>6, <2>8, <2>11
      <3>6. ~cartRaces /\ cartDeaths = 0 =>
                /\ row[i] = None \/ row[i].product = p
                /\ row'[i] = None \/ row'[i].product = p
                /\ Share(row'[i], p) - Share(row[i], p) = n
        BY <3>1, <3>4
      <3>7. UNCHANGED <<cartRaces, cartDeaths>> /\ n \in Int /\ p \in Products
        BY <2>2, <2>5
      <3> QED
        BY <2>6, <3>2, <3>3, <3>4, <3>5, <3>6, <3>7, CartWritten
    <2> QED
      BY <2>12, <2>13
  <1>6. ASSUME NEW h \in Handlers, Cart!DeleteRow(h)
        PROVE  CartTypes' /\ UnitsInv'
    <2>1. PICK t : t = cartTask[h]
      OBVIOUS
    <2>2. PICK p \in t.about :
            /\ t.pc = "delete"
            /\ row' = [row EXCEPT ![t.id] = None]
            /\ Cart!Change(p, t.change) /\ Cart!Done(h)
            /\ UNCHANGED <<nextRow, cartRaces, cartDeaths>>
      BY <1>6, <2>1 DEF Cart!DeleteRow, Cart!At
    <2>3. PICK n, i : n = t.change /\ i = t.id
      OBVIOUS
    <2>4. CartTaskOK(t, nextRow)
      BY <1>t, <2>1
    <2>5. p \in Products /\ t.about = {p} /\ n \in Int /\ i \in 1 .. nextRow - 1
      BY <1>i, <2>2, <2>3, <2>4 DEF CartTaskOK
    <2>6. i \in 1 .. MaxRows
      BY <1>t, <1>n, <2>5
    <2>9. /\ cartTask' = [cartTask EXCEPT ![h] = none]
          /\ wanted' = [wanted EXCEPT ![p] = @ + n]
          /\ wanted' \in [Products -> -MaxUnits .. MaxUnits]
      BY <1>p, <2>2, <2>3 DEF Cart!Done, Cart!Change, Cart!Want
    <2>10. row' = [row EXCEPT ![i] = None]
      BY <2>2, <2>3
    <2>11. /\ row' \in CartTables
           /\ \A j \in 1 .. MaxRows : row'[j] = IF j = i THEN None ELSE row[j]
      BY <1>t, <2>6, <2>10 DEF CartTables
    <2>12. CartTypes'
      <3>1. \A j \in 1 .. MaxRows : row'[j] # None =>
                /\ j < nextRow' /\ row'[j].qty \in 1 .. Available[row'[j].product]
                /\ j < nextRow => row[j] # None /\ row'[j].product = row[j].product
        BY <1>t, <1>n, <2>2, <2>11
      <3>2. cartRaces' \in BOOLEAN /\ cartDeaths' \in 0 .. MaxDeaths
        BY <1>t, <2>2
      <3>3. CartTaskOK(none, nextRow') /\ none.pc # "update" /\ nextRow' \in 1 .. MaxRows + 1 /\ nextRow' >= nextRow
        BY <1>k, <1>i, <1>t, <2>2
      <3> QED
        BY <2>9, <2>11, <3>1, <3>2, <3>3, CartTypesKept
    <2>13. UnitsInv'
      <3>0. ~cartRaces /\ cartDeaths = 0 => row[i] # None /\ row[i].product = p /\ n = -row[i].qty
        <4> SUFFICES ASSUME ~cartRaces, cartDeaths = 0
                     PROVE  row[i] # None /\ row[i].product = p /\ n = -row[i].qty
          OBVIOUS
        <4>1. RightFor(t, row)
          BY <2>1 DEF UnitsInv
        <4> QED
          BY <2>2, <2>3, <2>5, <4>1 DEF RightFor
      <3>1. ~cartRaces /\ cartDeaths = 0 => Share(None, p) - Share(row[i], p) = n
        <4> SUFFICES ASSUME ~cartRaces, cartDeaths = 0
                     PROVE  Share(None, p) - Share(row[i], p) = n
          OBVIOUS
        <4>3. Share(row[i], p) = row[i].qty /\ Share(None, p) = 0 /\ row[i].qty \in Nat
          BY <1>r, <2>6, <3>0 DEF Share
        <4> QED
          BY <2>5, <3>0, <4>3
      <3>2. cartTask[h].pc \in {"create", "update", "delete"} /\ cartTask[h].about = {p}
        BY <2>1, <2>2, <2>5
      <3>3. /\ cartTask'[h].pc = "idle" /\ cartTask'[h].about = {}
            /\ \A g \in Handlers \ {h} : cartTask'[g] = cartTask[g]
        BY <1>k, <1>i, <2>9, CartTaskMoves
      <3>5. \A q \in Products : wanted'[q] = IF q = p THEN wanted[q] + n ELSE wanted[q]
        BY <1>t, <2>9
      <3>4. /\ row' \in CartTables /\ row'[i] = None
            /\ \A j \in 1 .. MaxRows \ {i} : row'[j] = row[j]
        BY <2>6, <2>11
      <3>6. ~cartRaces /\ cartDeaths = 0 =>
                /\ row[i] = None \/ row[i].product = p
                /\ row'[i] = None \/ row'[i].product = p
                /\ Share(row'[i], p) - Share(row[i], p) = n
        BY <3>0, <3>1, <3>4
      <3>7. UNCHANGED <<cartRaces, cartDeaths>> /\ n \in Int /\ p \in Products
        BY <2>2, <2>5
      <3> QED
        BY <2>6, <3>2, <3>3, <3>4, <3>5, <3>6, <3>7, CartWritten
    <2> QED
      BY <2>12, <2>13
  \* Nobody else has to do with the products while a handler is about all of them.
  <1>a. ASSUME NEW h \in Handlers, ~cartRaces, cartDeaths = 0, cartTask[h].about = Products
        PROVE  \A g \in Handlers \ {h} : cartTask[g].about \cap Products = {}
    BY <1>a DEF UnitsInv
  <1>b. ASSUME NEW h \in Handlers, NEW p \in Products, \A g \in Handlers \ {h} : cartTask[g].about \cap Products = {}
        PROVE  \A g \in Handlers \ {h} : cartTask[g].pc # "clear"
    BY <1>b, <1>t DEF CartTaskOK
  <1>d. ASSUME ~cartRaces, cartDeaths = 0
        PROVE  \A f, g \in Handlers : f # g => cartTask[f].about \cap cartTask[g].about = {}
    BY <1>d DEF UnitsInv
  <1>e. Cart!Emptied \in CartTables /\ \A i \in 1 .. MaxRows : Cart!Emptied[i] = None
    BY DEF Cart!Emptied, CartTables
  <1>7. ASSUME NEW h \in Handlers, Cart!Clear(h)
        PROVE  CartTypes' /\ UnitsInv'
    <2>1. PICK f : f = [p \in Products |-> wanted[p] - Cart!InCart(p)]
      OBVIOUS
    <2>2. /\ cartTask[h].pc = "idle"
          /\ row' = Cart!Emptied
          /\ wanted' = f /\ f \in [Products -> -MaxUnits .. MaxUnits]
          /\ cartRaces' = (cartRaces \/ Cart!Overlaps(h, Products))
          /\ UNCHANGED <<nextRow, cartTask, cartDeaths>>
      BY <1>7, <2>1 DEF Cart!Clear, Cart!At, Cart!Want
    <2>3. row' \in CartTables /\ \A i \in 1 .. MaxRows : row'[i] = None
      BY <1>e, <2>2
    <2>4. cartRaces' \in BOOLEAN
      BY <1>t, <2>2
    <2>5. \A g \in Handlers : SameProduct(cartTask'[g], row')
      <3>1. \A t : CartTaskOK(t, nextRow) => SameProduct(t, row')
        BY <1>t, <1>n, <2>3 DEF CartTaskOK, SameProduct
      <3> QED
        BY <1>t, <2>2, <3>1
    <2>6. CartTypes'
      BY <1>t, <2>2, <2>3, <2>4, <2>5 DEF CartTypes
    <2>7. ~cartRaces' => ~cartRaces /\ \A g \in Handlers \ {h} : cartTask[g].about \cap Products = {}
      BY <2>2 DEF Cart!Overlaps
    <2>8. ~cartRaces' /\ cartDeaths' = 0 => \A p \in Products : wanted'[p] = 0
      <3> SUFFICES ASSUME ~cartRaces', cartDeaths' = 0, NEW p \in Products
                   PROVE  wanted'[p] = 0
        OBVIOUS
      <3>1. \A g \in Handlers : cartTask[g].pc # "clear"
        BY <1>b, <2>2, <2>7
      <3>2. wanted[p] = Held(row, p)
        BY <2>2, <2>7, <3>1 DEF UnitsInv
      <3>3. Cart!InCart(p) = Held(row, p) /\ Held(row, p) \in Nat
        BY <1>t, InCartIsHeld, HeldNat
      <3> QED
        BY <2>1, <2>2, <3>2, <3>3
    <2>9. cartTask'[h].pc = "idle" /\ cartTask'[h].about = {} /\ \A g \in Handlers \ {h} : cartTask'[g] = cartTask[g]
      BY <1>t, <2>2 DEF CartTaskOK
    <2>10. ~cartRaces' /\ cartDeaths' = 0 =>
                /\ \A g, k \in Handlers \ {h} : g # k => cartTask[g].about \cap cartTask[k].about = {}
                /\ \A g \in Handlers \ {h} : cartTask[g].about \cap Products = {}
                /\ \A p \in Products : wanted'[p] = 0
      BY <1>d, <2>2, <2>7, <2>8
    <2>11. UnitsInv'
      BY <2>3, <2>9, <2>10, CartEmptied
    <2> QED
      BY <2>6, <2>11
  <1>8. ASSUME NEW h \in Handlers, Cart!ReadCart(h)
        PROVE  CartTypes' /\ UnitsInv'
    <2>1. PICK lines : lines = Cart!Contents
      OBVIOUS
    <2>2. lines \in [Products -> Nat] /\ \A p \in Products : lines[p] = Held(row, p)
      <3>1. lines = [p \in Products |-> Cart!InCart(p)]
        BY <2>1 DEF Cart!Contents
      <3>2. \A p \in Products : Cart!InCart(p) = Held(row, p) /\ Held(row, p) \in Nat
        BY <1>t, InCartIsHeld, HeldNat
      <3> QED
        BY <3>1, <3>2
    <2>3. PICK t : t = [none EXCEPT !.pc = "reserve", !.about = Products, !.lines = lines]
      OBVIOUS
    <2>4. Cart!Start(h, t)
      BY <1>8, <1>p, <2>1, <2>3 DEF Cart!ReadCart
    <2>5. /\ DOMAIN t = {"pc", "about", "id", "qty", "change", "lines"}
          /\ t.pc = "reserve" /\ t.about = Products /\ t.id = 0
          /\ t.qty = 0 /\ t.change = 0 /\ t.lines = lines
      BY <1>q, <2>3
    <2>6. CartTaskOK(t, nextRow)
      BY <1>i, <2>2, <2>5 DEF CartTaskOK
    <2>7. RightFor(t, row)
      BY <2>2, <2>5 DEF RightFor
    <2> QED
      BY <2>4, <2>5, <2>6, <2>7, CartBegun
  <1>9. ASSUME NEW h \in Handlers, Cart!Reserve(h)
        PROVE  CartTypes' /\ UnitsInv'
    <2>1. PICK u : u = cartTask[h]
      OBVIOUS
    <2>2. PICK f : f = [p \in Products |-> wanted[p] - u.lines[p]]
      OBVIOUS
    <2>3. PICK t : t = [u EXCEPT !.pc = "clear"]
      OBVIOUS
    <2>4. /\ u.pc = "reserve"
          /\ wanted' = f /\ f \in [Products -> -MaxUnits .. MaxUnits]
          /\ UNCHANGED <<row, nextRow, cartRaces, cartDeaths>>
      BY <1>9, <2>1, <2>2 DEF Cart!Reserve, Cart!At, Cart!Want
    <2>5. cartTask' = [cartTask EXCEPT ![h] = t]
      <3>1. cartTask' = [cartTask EXCEPT ![h].pc = "clear"]
        BY <1>9 DEF Cart!Reserve
      <3> QED
        BY <1>t, <2>1, <2>3, <3>1
    <2>6. CartTaskOK(u, nextRow)
      BY <1>t, <2>1
    <2>7. /\ DOMAIN t = {"pc", "about", "id", "qty", "change", "lines"}
          /\ t.pc = "clear" /\ t.about = u.about /\ t.id = u.id
          /\ t.qty = u.qty /\ t.change = u.change /\ t.lines = u.lines
      BY <2>3, <2>6 DEF CartTaskOK
    <2>8. CartTaskOK(t, nextRow)
      BY <2>4, <2>6, <2>7 DEF CartTaskOK
    <2>9. cartTask'[h] = t /\ \A g \in Handlers \ {h} : cartTask'[g] = cartTask[g]
      BY <2>5, CartTaskMoves
    <2>10. CartTypes'
      <3>1. cartRaces' \in BOOLEAN /\ cartDeaths' \in 0 .. MaxDeaths /\ row' \in CartTables /\ t.pc # "update"
        BY <1>t, <2>4, <2>7
      <3>2. nextRow' \in 1 .. MaxRows + 1 /\ nextRow' >= nextRow /\ CartTaskOK(t, nextRow')
        BY <1>t, <1>i, <2>4, <2>8
      <3>3. \A i \in 1 .. MaxRows : row'[i] # None =>
                /\ i < nextRow' /\ row'[i].qty \in 1 .. Available[row'[i].product]
                /\ i < nextRow => row[i] # None /\ row'[i].product = row[i].product
        BY <1>t, <2>4
      <3> QED
        BY <2>4, <2>5, <3>1, <3>2, <3>3, CartTypesKept
    <2>11. ASSUME ~cartRaces', cartDeaths' = 0
           PROVE  /\ \A k, g \in Handlers : k # g => cartTask'[k].about \cap cartTask'[g].about = {}
                  /\ \A g \in Handlers : RightFor(cartTask'[g], row')
                  /\ \A p \in Products : wanted'[p] = 0
                  /\ cartTask'[h].pc = "clear"
      <3>1. ~cartRaces /\ cartDeaths = 0 /\ RightFor(u, row)
        BY <2>1, <2>4, <2>11 DEF UnitsInv
      <3>2. RightFor(t, row')
        BY <2>4, <2>7, <3>1 DEF RightFor
      <3>3. \A g \in Handlers : RightFor(cartTask'[g], row')
        BY <2>4, <2>9, <3>1, <3>2 DEF UnitsInv
      <3>4. \A k, g \in Handlers : k # g => cartTask'[k].about \cap cartTask'[g].about = {}
        BY <1>d, <2>1, <2>7, <2>9, <3>1
      <3>5. ASSUME NEW p \in Products
            PROVE  wanted'[p] = 0
        <4>1. \A g \in Handlers \ {h} : cartTask[g].about \cap Products = {}
          BY <1>a, <2>1, <2>4, <2>6, <3>1 DEF CartTaskOK
        <4>2. \A g \in Handlers : cartTask[g].pc # "clear"
          BY <1>b, <2>1, <2>4, <4>1
        <4>3. wanted[p] = Held(row, p)
          BY <3>1, <4>2 DEF UnitsInv
        <4>4. u.lines[p] = Held(row, p) /\ Held(row, p) \in Nat
          BY <1>t, <2>4, <3>1, HeldNat DEF RightFor
        <4> QED
          BY <2>2, <2>4, <4>3, <4>4
      <3> QED
        BY <2>7, <2>9, <3>3, <3>4, <3>5
    <2> QED
      BY <2>10, <2>11 DEF UnitsInv
  \* A handler that ends without a change of the cart.
  <1>c. ASSUME NEW h \in Handlers, Cart!Done(h), UNCHANGED <<row, nextRow, wanted, cartRaces>>, cartDeaths' \in 0 .. MaxDeaths
        PROVE  /\ CartTypes' /\ cartTask'[h] = none
               /\ \A g \in Handlers \ {h} : cartTask'[g] = cartTask[g]
    <2>1. cartTask' = [cartTask EXCEPT ![h] = none]
      BY <1>c, <1>p DEF Cart!Done
    <2>2. CartTaskOK(none, nextRow') /\ none.pc # "update" /\ nextRow' \in 1 .. MaxRows + 1 /\ nextRow' >= nextRow
      BY <1>k, <1>i, <1>t, <1>c
    <2>3. \A i \in 1 .. MaxRows : row'[i] # None =>
              /\ i < nextRow' /\ row'[i].qty \in 1 .. Available[row'[i].product]
              /\ i < nextRow => row[i] # None /\ row'[i].product = row[i].product
      BY <1>t, <1>c
    <2>4. cartRaces' \in BOOLEAN /\ cartDeaths' \in 0 .. MaxDeaths /\ row' \in CartTables
          /\ wanted' \in [Products -> -MaxUnits .. MaxUnits]
      BY <1>t, <1>c
    <2>5. CartTypes'
      BY <2>1, <2>2, <2>3, <2>4, CartTypesKept
    <2> QED
      BY <2>1, <2>5, CartTaskMoves
  <1>10. ASSUME NEW h \in Handlers, Cart!ReserveFails(h)
         PROVE  CartTypes' /\ UnitsInv'
    <2>1. /\ cartTask[h].pc = "reserve" /\ Cart!Done(h)
          /\ UNCHANGED <<row, nextRow, wanted, cartRaces, cartDeaths>>
      BY <1>10 DEF Cart!ReserveFails, Cart!At
    <2>2. /\ CartTypes' /\ cartTask'[h] = none
          /\ \A g \in Handlers \ {h} : cartTask'[g] = cartTask[g]
      BY <1>c, <1>t, <2>1
    <2>3. none.pc = "idle" /\ none.about = {}
      BY <1>k, <1>i
    <2>4. ASSUME ~cartRaces', cartDeaths' = 0
          PROVE  /\ \A k, g \in Handlers : k # g => cartTask'[k].about \cap cartTask'[g].about = {}
                 /\ \A g \in Handlers : RightFor(cartTask'[g], row')
                 /\ \A g \in Handlers : (cartTask'[g].pc = "clear") = (cartTask[g].pc = "clear")
      <3>1. RightFor(none, row')
        BY <2>3 DEF RightFor
      <3>2. \A k, g \in Handlers : k # g => cartTask'[k].about \cap cartTask'[g].about = {}
        BY <1>d, <2>1, <2>2, <2>3, <2>4
      <3>3. \A g \in Handlers : RightFor(cartTask'[g], row')
        BY <2>1, <2>2, <2>4, <3>1 DEF UnitsInv
      <3> QED
        BY <2>1, <2>2, <2>3, <3>2, <3>3
    <2> QED
      BY <2>1, <2>2, <2>4 DEF UnitsInv
  <1>11. ASSUME NEW h \in Handlers, Cart!ClearCart(h)
         PROVE  CartTypes' /\ UnitsInv'
    <2>1. /\ cartTask[h].pc = "clear" /\ Cart!Done(h) /\ row' = Cart!Emptied
          /\ UNCHANGED <<nextRow, wanted, cartRaces, cartDeaths>>
      BY <1>11 DEF Cart!ClearCart, Cart!At
    <2>2. cartTask' = [cartTask EXCEPT ![h] = none]
      BY <1>p, <2>1 DEF Cart!Done
    <2>3. cartTask'[h] = none /\ \A g \in Handlers \ {h} : cartTask'[g] = cartTask[g]
      BY <2>2, CartTaskMoves
    <2>4. none.pc = "idle" /\ none.about = {}
      BY <1>k, <1>i
    <2>5. row' \in CartTables /\ \A i \in 1 .. MaxRows : row'[i] = None
      BY <1>e, <2>1
    <2>6. CartTypes'
      <3>1. CartTaskOK(none, nextRow') /\ none.pc # "update" /\ nextRow' \in 1 .. MaxRows + 1 /\ nextRow' >= nextRow
        BY <1>k, <1>i, <1>t, <2>1
      <3>2. cartRaces' \in BOOLEAN /\ cartDeaths' \in 0 .. MaxDeaths /\ wanted' \in [Products -> -MaxUnits .. MaxUnits]
        BY <1>t, <2>1
      <3> QED
        BY <2>2, <2>5, <3>1, <3>2, CartTypesKept
    <2>7. ~cartRaces' /\ cartDeaths' = 0 =>
                /\ \A g, k \in Handlers \ {h} : g # k => cartTask[g].about \cap cartTask[k].about = {}
                /\ \A g \in Handlers \ {h} : cartTask[g].about \cap Products = {}
                /\ \A p \in Products : wanted'[p] = 0
      <3> SUFFICES ASSUME ~cartRaces, cartDeaths = 0
                   PROVE  /\ \A g, k \in Handlers \ {h} : g # k => cartTask[g].about \cap cartTask[k].about = {}
                          /\ \A g \in Handlers \ {h} : cartTask[g].about \cap Products = {}
                          /\ \A p \in Products : wanted[p] = 0
        BY <2>1
      <3>1. cartTask[h].about = Products
        BY <1>t, <2>1 DEF CartTaskOK
      <3>2. \A p \in Products : wanted[p] = 0
        BY <2>1 DEF UnitsInv
      <3> QED
        BY <1>a, <1>d, <3>1, <3>2
    <2>8. UnitsInv'
      BY <2>3, <2>4, <2>5, <2>7, CartEmptied
    <2> QED
      BY <2>6, <2>8
  <1>12. ASSUME NEW h \in Handlers, Cart!Die(h)
         PROVE  CartTypes' /\ UnitsInv'
    <2>1. /\ Cart!Done(h) /\ UNCHANGED <<row, nextRow, wanted, cartRaces>>
          /\ cartDeaths' \in 0 .. MaxDeaths /\ cartDeaths' # 0
      BY <1>12, <1>t, <1>n DEF Cart!Die
    <2> QED
      BY <1>c, <2>1 DEF UnitsInv
  <1>13. CASE UNCHANGED Cart!vars
    <2>1. UNCHANGED <<row, nextRow, wanted, cartTask, cartRaces, cartDeaths>>
      BY <1>13 DEF Cart!vars
    <2> QED
      BY <2>1 DEF CartTypes, UnitsInv
  <1>14. CASE Cart!Next
    BY <1>1, <1>2, <1>3, <1>4, <1>5, <1>6, <1>7, <1>8, <1>9, <1>10, <1>11, <1>12, <1>14 DEF Cart!Next
  <1> QED
    BY <1>13, <1>14

\* The one sum that is left: with no overlap there is at most one checkout that
\* has ordered and not cleared the cart.
LEMMA OneOrders ==
    ASSUME CartTypes, UnitsInv, ~cartRaces, cartDeaths = 0, NEW p \in Products
    PROVE  wanted[p] = Held(row, p) - Cart!Ordering(p)
  <1>1. PICK S : S = Cart!Clearing
    OBVIOUS
  <1>2. S = {h \in Handlers : cartTask[h].pc = "clear"}
    BY <1>1 DEF Cart!Clearing, Cart!At
  <1>3. PICK f : f = [h \in S |-> cartTask[h].lines[p]]
    OBVIOUS
  <1>4. Cart!Ordering(p) = SumFunctionOnSet(f, S)
    BY <1>1, <1>3, CartSum DEF Cart!Ordering
  <1>5. Held(row, p) \in Nat
    BY HeldNat DEF CartTypes
  <1>6. CASE S = {}
    <2>1. wanted[p] = Held(row, p)
      BY <1>2, <1>6 DEF UnitsInv
    <2>2. SumFunctionOnSet(f, S) = 0
      BY <1>6, SumEmpty
    <2> QED
      BY <1>4, <1>5, <2>1, <2>2
  <1>7. ASSUME NEW h \in S
        PROVE  wanted[p] = Held(row, p) - Cart!Ordering(p)
    <2>1. \A g \in S : cartTask[g].about = Products
      BY <1>2 DEF CartTypes, CartTaskOK
    <2>2. S = {h}
      BY <1>2, <1>7, <2>1 DEF UnitsInv
    <2>3. wanted[p] = 0 /\ cartTask[h].lines[p] = Held(row, p)
      BY <1>2, <1>7 DEF UnitsInv, RightFor
    <2>4. f[h] = Held(row, p)
      BY <1>3, <1>7, <2>3
    <2>5. SumFunctionOnSet(f, S) = Held(row, p)
      BY <1>5, <2>2, <2>4, SumOne
    <2> QED
      BY <1>4, <1>5, <2>3, <2>5
  <1> QED
    BY <1>6, <1>7

LEMMA CartRuns == Cart!Spec => [](CartTypes /\ UnitsInv)
  BY CartInit, CartStep, PTL DEF Cart!Spec

\* What the customer put into the cart, and neither took out nor ordered, is in
\* the cart: no unit disappears and none is ordered twice, for any number of
\* products, rows and requests, whether or not the stock could be reserved,
\* unless requests about one product overlap or one of them dies half-way.
THEOREM CartAddsUp == Customers => []UnitsAccounted
  <1>1. CartTypes /\ UnitsInv => UnitsAccounted
    <2> SUFFICES ASSUME CartTypes, UnitsInv, ~cartRaces, cartDeaths = 0, NEW p \in Products
                 PROVE  wanted[p] = Cart!InCart(p) - Cart!Ordering(p)
      BY DEF UnitsAccounted, Cart!UnitsAccounted
    <2> QED
      BY OneOrders, InCartIsHeld
  <1> QED
    BY <1>1, CartRuns, PartsRun, PTL

-----------------------------------------------------------------------------
\* The four services keep the shapes of their tables and of their handlers: a
\* row of the cart never asks for more than the inventory shows, no row has an
\* id that was not given out, and a checkout carries the cart it has read.
THEOREM AllTypesCorrect == Customers => []TypesOK
  <1>1. CartTypes => Cart!CartTypeOK
    <2> SUFFICES ASSUME CartTypes
                 PROVE  Cart!CartTypeOK
      OBVIOUS
    <2>1. /\ row \in CartTables
          /\ nextRow \in 1 .. MaxRows + 1
          /\ \A i \in 1 .. MaxRows : row[i] # None => i < nextRow /\ row[i].qty \in 1 .. Available[row[i].product]
          /\ wanted \in [Products -> -MaxUnits .. MaxUnits]
          /\ cartRaces \in BOOLEAN
          /\ cartDeaths \in 0 .. MaxDeaths
      BY DEF CartTypes
    <2>2. ASSUME NEW i \in Cart!Ids
          PROVE  row[i] \in [product : Products, qty : 1 .. Available[row[i].product]] /\ i < nextRow
      <3>1. PICK v : v = row[i]
        OBVIOUS
      <3>2. v \in CartRow /\ v.qty \in 1 .. Available[v.product] /\ i < nextRow
        BY <2>1, <3>1 DEF Cart!Ids, CartTables
      <3>3. v \in [product : Products, qty : 1 .. Available[v.product]]
        BY <3>2 DEF CartRow
      <3> QED
        BY <3>1, <3>2, <3>3
    <2>3. ASSUME NEW h \in Handlers
          PROVE  (cartTask[h].lines # None) = (cartTask[h].pc \in {"reserve", "clear"})
      <3>1. CartTaskOK(cartTask[h], nextRow)
        BY DEF CartTypes
      <3> QED
        BY <3>1, CartNumbers DEF CartTaskOK
    <2> QED
      BY <2>1, <2>2, <2>3 DEF Cart!CartTypeOK
  <1>2. ReviewTypes => Review!ReviewTypeOK
    BY DEF ReviewTypes, ReviewTaskOK, ReviewRow, Review!ReviewTypeOK
  <1>3. AddressTypes => Book!AddressTypeOK
    BY DEF AddressTypes, AddressTask, AddressStates, Book!AddressTypeOK, Book!Ids
  <1>4. Review!Spec => [](ReviewTypes /\ StatsInv)
    BY ReviewInit, ReviewStep, PTL DEF Review!Spec
  <1>5. Book!Spec => [](AddressTypes /\ DefaultInv)
    BY BookInit, BookStep, PTL DEF Book!Spec
  <1>6. AuthTypeOK /\ Cart!CartTypeOK /\ Review!ReviewTypeOK /\ Book!AddressTypeOK => TypesOK
    BY DEF TypesOK
  <1> QED
    BY <1>1, <1>2, <1>3, <1>4, <1>5, <1>6, CartRuns, TypesCorrect, PartsRun, PTL
=============================================================================
