------------------------------ MODULE Sessions ------------------------------
(***************************************************************************)
(* Sessions, their chains of refresh tokens, and everything that ends      *)
(* them: session.service.ts, with the parts of auth.service.ts,            *)
(* password.service.ts and user.service.ts that create or end sessions,    *)
(* over users, sessions, refresh_tokens and password_reset_tokens.         *)
(*                                                                         *)
(* As in the other modules a worker is a request being served, a read that *)
(* a later write relies on is a step before it, and Drop is an error, a    *)
(* rollback or a crash.  Here a crash matters: ending the sessions of an   *)
(* account is a statement of its own, after the transaction that calls for *)
(* it, and may never come.                                                 *)
(*                                                                         *)
(* Expiry and the lockout of an account only refuse requests and are left  *)
(* out, as are passwords and codes: a request that presents one presents   *)
(* the right one.  A client may present any refresh token it was ever      *)
(* given, which covers lost, repeated and delayed requests.                *)
(***************************************************************************)
EXTENDS Integers, FiniteSets

CONSTANTS
    Users,
    SessionIds,
    ResetIds,
    Workers,
    MaxTokens,      \* bound: refresh tokens of a session
    MaxVersion,     \* bound: changes of an account's status
    None            \* SQL NULL

Reasons ==
    {"logout", "logout_all", "token_reuse_detected", "password_changed",
     "account_suspended", "mfa_changed"}

ASSUME SessionAssumption ==
    /\ MaxTokens \in Nat \ {0}
    /\ MaxVersion \in Nat
    /\ None \notin Users \cup SessionIds \cup Reasons

VARIABLES
    users,          \* Users -> Account
    sessions,       \* SessionIds -> Session, or Absent
    tokens,         \* the set of refresh tokens
    challenges,     \* who holds an intermediate token, and what for
    resets,         \* ResetIds -> the reset link, or Absent
    task,           \* Workers -> the request being served, or Idle
    due             \* the live sessions that a request has yet to end (history)

vars == <<users, sessions, tokens, challenges, resets, task, due>>

-----------------------------------------------------------------------------
Absent == [user |-> None]

Idle == [op |-> "idle"]

\* pending: a second factor is being set up; privileged: a role is held that
\* requires one.
Account ==
    [status : {"INVITED", "ACTIVE", "SUSPENDED", "DISABLED"}, version : Nat,
     mfa : BOOLEAN, pending : BOOLEAN, privileged : BOOLEAN]

Session == [user : Users, mfa : BOOLEAN, revoked : Reasons \cup {None}]

\* A token is known by its session and its place in the chain.
Token ==
    {t \in [session : SessionIds, number : 1 .. MaxTokens, used : BOOLEAN,
            replacedBy : 1 .. MaxTokens \cup {None}] :
       t.replacedBy # None => t.used}

Reset == [user : Users, used : BOOLEAN]

Task ==
         {Idle}
    \cup [op : {"create"}, user : Users, mfa : BOOLEAN]
    \cup [op : {"reuse"}, session : SessionIds]
    \cup [op : {"rotate"}, session : SessionIds, number : Nat]
    \cup [op : {"start"}, user : Users]
    \cup [op : {"enrol"}, user : Users, signIn : BOOLEAN]
    \cup [op : {"disable"}, user : Users]
    \cup [op : {"change"}, user : Users, session : SessionIds]
    \cup [op : {"reset"}, user : Users, reset : ResetIds]
    \cup [op : {"status"}, user : Users, status : {"ACTIVE", "SUSPENDED", "DISABLED"},
          expectedVersion : Nat]
    \cup [op : {"end"}, user : Users, reason : Reasons, keep : SessionIds \cup {None},
          signIn : BOOLEAN]

TypeOK ==
    /\ users \in [Users -> Account]
    /\ sessions \in [SessionIds -> Session \cup {Absent}]
    /\ tokens \subseteq Token
    /\ challenges \subseteq Users \X {"verify", "enrol"}
    /\ resets \in [ResetIds -> Reset \cup {Absent}]
    /\ task \in [Workers -> Task]
    /\ due \subseteq SessionIds

Init ==
    /\ users \in [Users -> [status : {"INVITED", "ACTIVE"}, version : {1}, mfa : {FALSE},
                          pending : {FALSE}, privileged : BOOLEAN]]
    /\ sessions = [s \in SessionIds |-> Absent]
    /\ tokens = {}
    /\ challenges = {}
    /\ resets = [r \in ResetIds |-> Absent]
    /\ task = [w \in Workers |-> Idle]
    /\ due = {}

Begin(w, request) ==
    /\ task[w] = Idle
    /\ task' = [task EXCEPT ![w] = request]

RequiresMfa(u) == users[u].privileged

Active(u) == users[u].status = "ACTIVE"

Live(s) == sessions[s] # Absent /\ sessions[s].revoked = None

\* authenticate
Served(s) ==
    /\ Live(s)
    /\ Active(sessions[s].user)
    /\ RequiresMfa(sessions[s].user) => sessions[s].mfa

-----------------------------------------------------------------------------
(* session.service.ts *)

\* The conditional update of revokeSession, revokeAllSessionsForUser and
\* revokeOwnSession.
Revoked(session, reason) ==
    IF session.revoked = None THEN [session EXCEPT !.revoked = reason] ELSE session

RevokeSession(s, reason) == sessions' = [sessions EXCEPT ![s] = Revoked(@, reason)]

EndedBy(s, u, keep) == sessions[s].user = u /\ s # keep

RevokeAllSessionsForUser(u, reason, keep) ==
    sessions' = [s \in SessionIds |->
        IF EndedBy(s, u, keep) THEN Revoked(sessions[s], reason) ELSE sessions[s]]

StillDue == due' = {s \in due : sessions'[s].revoked = None}

\* createSession, at the end of a sign-in.
CreateSession(w, s) ==
    LET u == task[w].user IN
    /\ task[w].op = "create"
    /\ sessions[s] = Absent
    /\ sessions' = [sessions EXCEPT ![s] =
           [user |-> u, mfa |-> task[w].mfa, revoked |-> None]]
    /\ tokens' = tokens \cup
           {[session |-> s, number |-> 1, used |-> FALSE, replacedBy |-> None]}
    /\ task' = [task EXCEPT ![w] = Idle]
    /\ UNCHANGED <<users, challenges, resets, due>>

\* Mutant of Rotatable: the session is not looked at.
AlwaysRotatable(t) == t.used = FALSE

Rotatable(t) == ~t.used /\ sessions[t.session].revoked = None

\* rotateRefreshToken, its read: a used token is dealt with before all else.
RefreshLoad(w, t) ==
    /\ \/ /\ t.used
          /\ Begin(w, [op |-> "reuse", session |-> t.session])
       \/ /\ Rotatable(t)
          /\ t.number < MaxTokens
          /\ Begin(w, [op |-> "rotate", session |-> t.session, number |-> t.number])
    /\ UNCHANGED <<users, sessions, tokens, challenges, resets, due>>

ReuseDetected(w) ==
    /\ task[w].op = "reuse"
    /\ RevokeSession(task[w].session, "token_reuse_detected")
    /\ StillDue
    /\ task' = [task EXCEPT ![w] = Idle]
    /\ UNCHANGED <<users, tokens, challenges, resets>>

Presented(w) ==
    {t \in tokens : t.session = task[w].session /\ t.number = task[w].number}

\* Mutant of Consumable: the update is by id alone.
ConsumableById(w) == Presented(w)

\* updateMany({ id, usedAt: null })
Consumable(w) == {t \in Presented(w) : ~t.used}

\* Mutant of Exchanged: the next token is linked before this one is consumed.
ReplacedUnused(t, next) == [t EXCEPT !.replacedBy = next]

Exchanged(t, next) == [t EXCEPT !.used = TRUE, !.replacedBy = next]

\* The transaction: consume the token, issue the next, link them.  The unique
\* index on unused tokens is no guard: ChainsDoNotFork says that it has nothing
\* to refuse.  What follows it, the account's status included, writes nothing.
RotateCommit(w) ==
    /\ task[w].op = "rotate"
    /\ \E t \in Consumable(w) :
         LET next == Cardinality({x \in tokens : x.session = t.session}) + 1 IN
         tokens' = (tokens \ {t}) \cup
             {Exchanged(t, next),
              [session |-> t.session, number |-> next, used |-> FALSE, replacedBy |-> None]}
    /\ task' = [task EXCEPT ![w] = Idle]
    /\ UNCHANGED <<users, sessions, challenges, resets, due>>

\* logoutHandler and revokeSessionHandler: one of the caller's own sessions.
Logout(s, other) ==
    /\ Served(s)
    /\ Live(other)
    /\ sessions[other].user = sessions[s].user
    /\ RevokeSession(other, "logout")
    /\ StillDue
    /\ UNCHANGED <<users, tokens, challenges, resets, task>>

\* logoutAllHandler
LogoutAll(s) ==
    LET u == sessions[s].user IN
    /\ Served(s)
    /\ RevokeAllSessionsForUser(u, "logout_all", None)
    /\ StillDue
    /\ UNCHANGED <<users, tokens, challenges, resets, task>>

-----------------------------------------------------------------------------
(* Sign-in and the second factor: auth.service.ts *)

\* login: an intermediate token where a second factor is set up or required.
Login(w, u) ==
    /\ Active(u)
    /\ IF users[u].mfa \/ RequiresMfa(u)
         THEN /\ task[w] = Idle
              /\ challenges' = challenges \cup
                     {<<u, IF users[u].mfa THEN "verify" ELSE "enrol">>}
              /\ UNCHANGED task
         ELSE /\ Begin(w, [op |-> "create", user |-> u, mfa |-> FALSE])
              /\ UNCHANGED challenges
    /\ UNCHANGED <<users, sessions, tokens, resets, due>>

\* verifyMfa
VerifyMfa(w, u) ==
    /\ <<u, "verify">> \in challenges
    /\ users[u].mfa
    /\ Active(u)
    /\ Begin(w, [op |-> "create", user |-> u, mfa |-> TRUE])
    /\ UNCHANGED <<users, sessions, tokens, challenges, resets, due>>

MayEnrol(u, signIn) ==
    IF signIn THEN <<u, "enrol">> \in challenges
              ELSE \E s \in SessionIds : Served(s) /\ sessions[s].user = u

\* startMfaEnrolment, at a sign-in or in a session.
StartLoad(w, u) ==
    /\ \E signIn \in BOOLEAN : MayEnrol(u, signIn)
    /\ ~users[u].mfa
    /\ Begin(w, [op |-> "start", user |-> u])
    /\ UNCHANGED <<users, sessions, tokens, challenges, resets, due>>

StartCommit(w) ==
    /\ task[w].op = "start"
    /\ users' = [users EXCEPT ![task[w].user].pending = TRUE]
    /\ task' = [task EXCEPT ![w] = Idle]
    /\ UNCHANGED <<sessions, tokens, challenges, resets, due>>

\* confirmMfaEnrolment
EnrolLoad(w, u, signIn) ==
    /\ MayEnrol(u, signIn)
    /\ users[u].pending
    /\ Active(u)
    /\ Begin(w, [op |-> "enrol", user |-> u, signIn |-> signIn])
    /\ UNCHANGED <<users, sessions, tokens, challenges, resets, due>>

\* disableMfa
DisableLoad(w, s) ==
    LET u == sessions[s].user IN
    /\ Served(s)
    /\ users[u].mfa
    /\ ~RequiresMfa(u)
    /\ Begin(w, [op |-> "disable", user |-> u])
    /\ UNCHANGED <<users, sessions, tokens, challenges, resets, due>>

\* What each of the operations below goes on to when its transaction is done.
ThenEnd(w, reason, keep, signIn) ==
    task' = [task EXCEPT ![w] = [op |-> "end", user |-> task[w].user, reason |-> reason,
                                 keep |-> keep, signIn |-> signIn]]

NowDue(u, keep) ==
    due' = due \cup {s \in SessionIds : Live(s) /\ sessions[s].user = u /\ s # keep}

EnrolCommit(w) ==
    LET u == task[w].user IN
    /\ task[w].op = "enrol"
    /\ users' = [users EXCEPT ![u].mfa = TRUE, ![u].pending = FALSE]
    /\ NowDue(u, None)
    /\ ThenEnd(w, "mfa_changed", None, task[w].signIn)
    /\ UNCHANGED <<sessions, tokens, challenges, resets>>

DisableCommit(w) ==
    LET u == task[w].user IN
    /\ task[w].op = "disable"
    /\ users' = [users EXCEPT ![u].mfa = FALSE, ![u].pending = FALSE]
    /\ NowDue(u, None)
    /\ ThenEnd(w, "mfa_changed", None, FALSE)
    /\ UNCHANGED <<sessions, tokens, challenges, resets>>

-----------------------------------------------------------------------------
(* Passwords: password.service.ts *)

ChangePasswordLoad(w, s) ==
    /\ Served(s)
    /\ Begin(w, [op |-> "change", user |-> sessions[s].user, session |-> s])
    /\ UNCHANGED <<users, sessions, tokens, challenges, resets, due>>

ChangePasswordCommit(w) ==
    LET u == task[w].user
        s == task[w].session
    IN
    /\ task[w].op = "change"
    /\ NowDue(u, s)
    /\ ThenEnd(w, "password_changed", s, FALSE)
    /\ UNCHANGED <<users, sessions, tokens, challenges, resets>>

\* requestPasswordReset: the links sent before are used up.
RequestPasswordReset(u, r) ==
    /\ Active(u)
    /\ resets[r] = Absent
    /\ resets' = [x \in ResetIds |->
           IF x = r THEN [user |-> u, used |-> FALSE]
           ELSE IF resets[x].user = u THEN [resets[x] EXCEPT !.used = TRUE] ELSE resets[x]]
    /\ UNCHANGED <<users, sessions, tokens, challenges, task, due>>

ResetPasswordLoad(w, r) ==
    /\ resets[r] # Absent
    /\ ~resets[r].used
    /\ Active(resets[r].user)
    /\ Begin(w, [op |-> "reset", user |-> resets[r].user, reset |-> r])
    /\ UNCHANGED <<users, sessions, tokens, challenges, resets, due>>

ResetPasswordCommit(w) ==
    /\ task[w].op = "reset"
    /\ ~resets[task[w].reset].used
    /\ resets' = [resets EXCEPT ![task[w].reset].used = TRUE]
    /\ NowDue(task[w].user, None)
    /\ ThenEnd(w, "password_changed", None, FALSE)
    /\ UNCHANGED <<users, sessions, tokens, challenges>>

-----------------------------------------------------------------------------
(* Account status: setUserStatus, by an administrator who may *)

SetStatusLoad(w, u, status) ==
    /\ users[u].version < MaxVersion
    /\ Begin(w, [op |-> "status", user |-> u, status |-> status,
                 expectedVersion |-> users[u].version])
    /\ UNCHANGED <<users, sessions, tokens, challenges, resets, due>>

\* Mutant of LosingAccess: only a suspension is thought of.
LosingAccessBySuspension(status) == status = "SUSPENDED"

LosingAccess(status) == status # "ACTIVE"

SetStatusCommit(w) ==
    LET u == task[w].user
        status == task[w].status
    IN
    /\ task[w].op = "status"
    /\ users[u].version = task[w].expectedVersion
    /\ users' = [users EXCEPT ![u].status = status, ![u].version = @ + 1]
    /\ IF LosingAccess(status)
         THEN ThenEnd(w, "account_suspended", None, FALSE)
         ELSE task' = [task EXCEPT ![w] = Idle]
    /\ IF status = "ACTIVE" THEN UNCHANGED due ELSE NowDue(u, None)
    /\ UNCHANGED <<sessions, tokens, challenges, resets>>

-----------------------------------------------------------------------------
\* The revocation that follows, and for an enrolment at sign-in the session.
EndSessions(w) ==
    LET u == task[w].user IN
    /\ task[w].op = "end"
    /\ RevokeAllSessionsForUser(u, task[w].reason, task[w].keep)
    /\ StillDue
    /\ task' = [task EXCEPT ![w] =
           IF task[w].signIn THEN [op |-> "create", user |-> u, mfa |-> TRUE] ELSE Idle]
    /\ UNCHANGED <<users, tokens, challenges, resets>>

AboutToEnd(w, s) ==
    task[w].op = "end" /\ sessions[s].user = task[w].user /\ s # task[w].keep

\* The request ends before its next step; the sessions that only it was about to
\* end are no longer due.
Drop(w) ==
    /\ task[w] # Idle
    /\ task' = [task EXCEPT ![w] = Idle]
    /\ due' = IF task[w].op = "end"
                THEN {s \in due : \E other \in Workers \ {w} : AboutToEnd(other, s)}
                ELSE due
    /\ UNCHANGED <<users, sessions, tokens, challenges, resets>>

Next ==
    \/ \E w \in Workers, s \in SessionIds : CreateSession(w, s)
    \/ \E w \in Workers, t \in tokens : RefreshLoad(w, t)
    \/ \E w \in Workers : ReuseDetected(w)
    \/ \E w \in Workers : RotateCommit(w)
    \/ \E s, other \in SessionIds : Logout(s, other)
    \/ \E s \in SessionIds : LogoutAll(s)
    \/ \E w \in Workers, u \in Users : Login(w, u)
    \/ \E w \in Workers, u \in Users : VerifyMfa(w, u)
    \/ \E w \in Workers, u \in Users : StartLoad(w, u)
    \/ \E w \in Workers : StartCommit(w)
    \/ \E w \in Workers, u \in Users, signIn \in BOOLEAN : EnrolLoad(w, u, signIn)
    \/ \E w \in Workers : EnrolCommit(w)
    \/ \E w \in Workers, s \in SessionIds : DisableLoad(w, s)
    \/ \E w \in Workers : DisableCommit(w)
    \/ \E w \in Workers, s \in SessionIds : ChangePasswordLoad(w, s)
    \/ \E w \in Workers : ChangePasswordCommit(w)
    \/ \E u \in Users, r \in ResetIds : RequestPasswordReset(u, r)
    \/ \E w \in Workers, r \in ResetIds : ResetPasswordLoad(w, r)
    \/ \E w \in Workers : ResetPasswordCommit(w)
    \/ \E w \in Workers, u \in Users, status \in {"ACTIVE", "SUSPENDED", "DISABLED"} :
          SetStatusLoad(w, u, status)
    \/ \E w \in Workers : SetStatusCommit(w)
    \/ \E w \in Workers : EndSessions(w)
    \/ \E w \in Workers : Drop(w)

Spec == Init /\ [][Next]_vars

-----------------------------------------------------------------------------
ChainOf(s) == {t \in tokens : t.session = s}

\* However refreshes race, are lost or are repeated, the tokens of a session form
\* one chain, each replaced by the next, and only the last can be exchanged
\* (session.service.ts:85-91, authentication_constraints migration.sql:45-50).
ChainsDoNotFork ==
    \A s \in SessionIds :
        LET length == Cardinality(ChainOf(s)) IN
        /\ sessions[s] = Absent <=> length = 0
        /\ \A n \in 1 .. length :
             [session |-> s, number |-> n, used |-> n < length,
              replacedBy |-> IF n < length THEN n + 1 ELSE None] \in tokens

Over(s) ==
    /\ sessions[s] # Absent
    /\ ~Live(s)
    /\ \A w \in Workers : ~(task[w].op = "rotate" /\ task[w].session = s)

\* A session that was ended stays so, for the reason first recorded, and once the
\* refreshes that had found it live are done it is over for good: no request, and no
\* token it ever gave out, extends its chain or brings it back
\* (session.service.ts:199-203, SECURITY.md:102-104).
RevokedIsNotRenewed ==
    [][\A s \in SessionIds :
         /\ sessions[s] # Absent /\ ~Live(s) => sessions'[s].revoked = sessions[s].revoked
         /\ Over(s) => Over(s)' /\ ChainOf(s)' = ChainOf(s)]_vars

\* A password change ends every other session, a reset, a suspension and a change
\* of the second factor end them all (SECURITY.md:105-106): whichever of them
\* overlap, a session that one of them found is ended or about to be, unless the
\* request died in between.
EndedSessionsAreOver ==
    \A s \in due : \E w \in Workers : AboutToEnd(w, s)

=============================================================================
