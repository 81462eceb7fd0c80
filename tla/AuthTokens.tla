---------------------------- MODULE AuthTokens ----------------------------
(***************************************************************************)
(* AuthService: refresh tokens and the one-time tokens sent by mail.       *)
(* A refresh token is a JWT signed over the user and the second it is      *)
(* signed in, so it is the record of these two; a revoked one is a Redis   *)
(* key that expires.  Time advances in seconds; a step is what happens     *)
(* between two awaits.  Passwords and profiles are left out.               *)
(*                                                                         *)
(* races records which handlers have overlapped so far: "refresh", two had *)
(* the same refresh token; "mail", two had the same mailed token.          *)
(***************************************************************************)
EXTENDS Integers, FiniteSets

CONSTANTS
    None,
    Users,        \* ids the table may give out
    MailTokens,   \* random tokens that may be mailed
    Handlers,     \* requests that may be under way
    RefreshTtl,   \* REFRESH_TOKEN_TTL_SECONDS
    MailTtl,      \* lifetime of a mailed token (86400 and 3600 in the code)
    MaxTime,      \* bound on the clock
    MaxDeaths     \* bound on the handlers that die half-way

ASSUME TtlAssumption == RefreshTtl \in Nat \ {0} /\ MailTtl \in Nat \ {0}
ASSUME BoundsAssumption == MaxTime \in Nat /\ MaxDeaths \in Nat

VARIABLES
    account,   \* account[u]: "none", "unverified", "verified" or "deleted"
    given,     \* refresh tokens the clients have been given
    revoked,   \* revoked[t]: when the key revoked:t expires, 0 if it was never set
    mailed,    \* mailed[k]: the key verify:k or reset:k, or None
    uses,      \* uses[k]: how often the mailed token k has changed an account
    task,      \* task[h]: what handler h is doing
    now,
    races,
    deaths

vars == <<account, given, revoked, mailed, uses, task, now, races, deaths>>

Tokens == [user : Users, iat : 0 .. MaxTime]
Purposes == {"verify", "reset"}
Registered == {u \in Users : account[u] \in {"unverified", "verified"}}
\* token: the refresh token it was sent or has signed; mail: the mailed token it has or will send.
Task(pc, user, token, mail) == [pc |-> pc, user |-> user, token |-> token, mail |-> mail]
NoTask == Task("idle", None, None, None)

Init ==
    /\ account = [u \in Users |-> "none"]
    /\ given = {}
    /\ revoked = [t \in Tokens |-> 0]
    /\ mailed = [k \in MailTokens |-> None]
    /\ uses = [k \in MailTokens |-> 0]
    /\ task = [h \in Handlers |-> NoTask]
    /\ now = 0
    /\ races = {}
    /\ deaths = 0

At(h, pc) == task[h].pc = pc
Done(h) == task' = [task EXCEPT ![h] = NoTask]
GoOn(h, pc, token) == task' = [task EXCEPT ![h] = Task(pc, task[h].user, token, task[h].mail)]
Goto(h, pc) == GoOn(h, pc, task[h].token)
Start(h, t) == At(h, "idle") /\ task' = [task EXCEPT ![h] = t]
Others(h) == {task[g] : g \in Handlers \ {h}}

-----------------------------------------------------------------------------
(* register, login and googleLogin end in generateTokens, refreshTokens too. *)
StartRegister(h, u) ==
    /\ account[u] = "none"
    /\ Start(h, Task("insert", u, None, None))
    /\ UNCHANGED <<account, given, revoked, mailed, uses, now, races, deaths>>

\* The e-mail address is looked up once more, and is unique.
Insert(h) ==
    LET u == task[h].user IN
    /\ At(h, "insert")
    /\ IF account[u] = "none"
       THEN account' = [account EXCEPT ![u] = "unverified"] /\ Goto(h, "sign")
       ELSE UNCHANGED account /\ Done(h)
    /\ UNCHANGED <<given, revoked, mailed, uses, now, races, deaths>>

Login(h, u) ==
    /\ u \in Registered
    /\ Start(h, Task("sign", u, None, None))
    /\ UNCHANGED <<account, given, revoked, mailed, uses, now, races, deaths>>

\* The payload is the user and iat, the current second: one second, one token.
Sign(h) ==
    /\ At(h, "sign")
    /\ GoOn(h, "answer", [user |-> task[h].user, iat |-> now])
    /\ UNCHANGED <<account, given, revoked, mailed, uses, now, races, deaths>>

Answer(h) ==
    /\ At(h, "answer")
    /\ given' = given \union {task[h].token}
    /\ Done(h)
    /\ UNCHANGED <<account, revoked, mailed, uses, now, races, deaths>>

-----------------------------------------------------------------------------
RefreshRace(h, t) == IF \E g \in Others(h) : g.token = t THEN {"refresh"} ELSE {}
Expired(t) == now >= t.iat + RefreshTtl

StartRefresh(h, t) ==
    /\ ~Expired(t)
    /\ Start(h, Task("check", t.user, t, None))
    /\ races' = races \union RefreshRace(h, t)
    /\ UNCHANGED <<account, given, revoked, mailed, uses, now, deaths>>

IsRevoked(t) == now < revoked[t]

CheckRevoked(h) ==
    /\ At(h, "check")
    /\ IF IsRevoked(task[h].token) THEN Done(h) ELSE Goto(h, "find")
    /\ UNCHANGED <<account, given, revoked, mailed, uses, now, races, deaths>>

FindUser(h) ==
    /\ At(h, "find")
    /\ IF task[h].user \in Registered THEN Goto(h, "revoke") ELSE Done(h)
    /\ UNCHANGED <<account, given, revoked, mailed, uses, now, races, deaths>>

\* Mutant of Revoked: the key expires a second early.
RevokedTooShort(t) == [revoked EXCEPT ![t] = now + RefreshTtl - 1]

Revoked(t) == [revoked EXCEPT ![t] = now + RefreshTtl]

Revoke(h) ==
    /\ At(h, "revoke")
    /\ revoked' = Revoked(task[h].token)
    /\ GoOn(h, "sign", None)
    /\ UNCHANGED <<account, given, mailed, uses, now, races, deaths>>

StartLogout(h, t) ==
    /\ Start(h, Task("logout", None, t, None))
    /\ races' = races \union RefreshRace(h, t)
    /\ UNCHANGED <<account, given, revoked, mailed, uses, now, deaths>>

Logout(h) ==
    /\ At(h, "logout")
    /\ revoked' = Revoked(task[h].token)
    /\ Done(h)
    /\ UNCHANGED <<account, given, mailed, uses, now, races, deaths>>

-----------------------------------------------------------------------------
(* sendVerificationEmail, also at the end of register, and forgotPassword. *)
SendMail(k, u, purpose) ==
    /\ u \in Registered
    /\ purpose = "verify" => account[u] = "unverified"
    /\ mailed[k] = None /\ uses[k] = 0
    /\ mailed' = [mailed EXCEPT ![k] = [user |-> u, purpose |-> purpose, until |-> now + MailTtl]]
    /\ UNCHANGED <<account, given, revoked, uses, task, now, races, deaths>>

Waiting(k) == mailed[k] # None /\ now < mailed[k].until

(* verifyEmail and resetPassword. *)
GetMailed(h, k) ==
    /\ Waiting(k)
    /\ Start(h, Task(mailed[k].purpose, mailed[k].user, None, k))
    /\ races' = races \union (IF \E t \in Others(h) : t.mail = k THEN {"mail"} ELSE {})
    /\ UNCHANGED <<account, given, revoked, mailed, uses, now, deaths>>

\* An UPDATE by id; of a deleted user it changes no row.
ApplyMailed(h) ==
    LET t == task[h] IN
    /\ t.pc \in Purposes
    /\ IF t.user \in Registered
       THEN /\ account' = [account EXCEPT ![t.user] = IF t.pc = "verify" THEN "verified" ELSE @]
            /\ uses' = [uses EXCEPT ![t.mail] = @ + 1]
       ELSE UNCHANGED <<account, uses>>
    /\ Goto(h, "delete")
    /\ UNCHANGED <<given, revoked, mailed, now, races, deaths>>

\* Mutant of DeleteMailed: the key is left to expire.
DeleteMailedLater(h) ==
    /\ At(h, "delete")
    /\ Done(h)
    /\ UNCHANGED <<account, given, revoked, mailed, uses, now, races, deaths>>

DeleteMailed(h) ==
    /\ At(h, "delete")
    /\ mailed' = [mailed EXCEPT ![task[h].mail] = None]
    /\ Done(h)
    /\ UNCHANGED <<account, given, revoked, uses, now, races, deaths>>

-----------------------------------------------------------------------------
(* UserAdminController: adminCreate and adminDelete. *)
AdminCreate(u) ==
    /\ account[u] = "none"
    /\ account' = [account EXCEPT ![u] = "verified"]
    /\ UNCHANGED <<given, revoked, mailed, uses, task, now, races, deaths>>

AdminDelete(u) ==
    /\ u \in Registered
    /\ account' = [account EXCEPT ![u] = "deleted"]
    /\ UNCHANGED <<given, revoked, mailed, uses, task, now, races, deaths>>

Tick ==
    /\ now < MaxTime
    /\ now' = now + 1
    /\ UNCHANGED <<account, given, revoked, mailed, uses, task, races, deaths>>

\* The process, or its connection to MySQL or Redis, goes away.
Die(h) ==
    /\ ~At(h, "idle")
    /\ deaths < MaxDeaths
    /\ deaths' = deaths + 1
    /\ Done(h)
    /\ UNCHANGED <<account, given, revoked, mailed, uses, now, races>>

SignIn(h) ==
    \/ \E u \in Users : StartRegister(h, u) \/ Login(h, u)
    \/ Insert(h)
    \/ Sign(h)
    \/ Answer(h)

Refresh(h) ==
    \/ \E t \in given : StartRefresh(h, t) \/ StartLogout(h, t)
    \/ CheckRevoked(h)
    \/ FindUser(h)
    \/ Revoke(h)
    \/ Logout(h)

UseMail(h) ==
    \/ \E k \in MailTokens : GetMailed(h, k)
    \/ ApplyMailed(h)
    \/ DeleteMailed(h)

Next ==
    \/ \E h \in Handlers : SignIn(h) \/ Refresh(h) \/ UseMail(h) \/ Die(h)
    \/ \E k \in MailTokens, u \in Users, p \in Purposes : SendMail(k, u, p)
    \/ \E u \in Users : AdminCreate(u) \/ AdminDelete(u)
    \/ Tick

Spec == Init /\ [][Next]_vars

-----------------------------------------------------------------------------
Steps == {"idle", "insert", "sign", "answer", "check", "find", "revoke", "logout", "verify", "reset", "delete"}
Mail == [user : Users, purpose : Purposes, until : 0 .. MaxTime + MailTtl]

\* Accounts, keys and handlers have their shapes, and a handler has the token its step needs.
AuthTypeOK ==
    /\ account \in [Users -> {"none", "unverified", "verified", "deleted"}]
    /\ given \subseteq Tokens
    /\ revoked \in [Tokens -> 0 .. MaxTime + RefreshTtl]
    /\ mailed \in [MailTokens -> Mail \union {None}]
    /\ uses \in [MailTokens -> Nat]
    /\ task \in [Handlers -> [pc : Steps, user : Users \union {None}, token : Tokens \union {None},
                              mail : MailTokens \union {None}]]
    /\ \A h \in Handlers :
        /\ task[h].pc \in {"insert", "sign", "find", "revoke", "check"} => task[h].user \in Users
        /\ task[h].pc \in {"answer", "check", "find", "revoke", "logout"} => task[h].token \in Tokens
        /\ task[h].pc \in Purposes \union {"delete"} => task[h].mail \in MailTokens /\ task[h].user \in Users
    /\ now \in 0 .. MaxTime
    /\ races \subseteq {"refresh", "mail"}
    /\ deaths \in 0 .. MaxDeaths

\* The key of a revoked token expires by itself, and is looked at some awaits before the token
\* is exchanged.  It never expires while the token could still be used: whoever finds the token
\* not revoked finds one that nobody has revoked, or one that has expired since it was verified.
\* A token is exchanged once, unless two handlers had it at the same time.
RevokedStaysRevoked ==
    [][\A h \in Handlers :
        LET fresh == revoked[task[h].token] = 0 \/ Expired(task[h].token) IN
        /\ At(h, "check") /\ task'[h].pc = "find" => fresh
        /\ At(h, "revoke") /\ task'[h].pc = "sign" => fresh \/ "refresh" \in races]_vars

\* resetPassword and verifyEmail read the key, change the account and delete the key.  A mailed
\* token changes an account once, unless two handlers had it at once or one died before the
\* deletion.
MailedTokenUsedOnce ==
    "mail" \notin races /\ deaths = 0 => \A k \in MailTokens : uses[k] <= 1

\* "Refresh token rotation": register, login and refresh answer with a token that the next
\* refresh accepts.  (Within a second they sign the same token, and it may be revoked already.)
RotationGivesUsableToken ==
    [][\A h \in Handlers : At(h, "answer") /\ task'[h].pc = "idle" => ~IsRevoked(task[h].token)]_vars

=============================================================================
