------------------------------- MODULE Access --------------------------------
(***************************************************************************)
(* What a session may be used for while the roles, the second factor and    *)
(* the password of its account change under it: the middleware every route  *)
(* is behind (authenticate.ts, authorize.ts), over the role matrix and the  *)
(* routes of Authorization.                                                 *)
(*                                                                         *)
(* Sessions has how a session comes and goes in detail, Accounts who may    *)
(* grant what to whom; of both, what decides a call is here.                *)
(***************************************************************************)
EXTENDS Requests, Authorization

CONSTANTS
    Staff,
    StaffRoles,     \* the roles in play
    AskedRoles,     \* bound: those that are granted and revoked
    FirstRoles      \* who may hold what at the start

ASSUME AccessAssumption ==
    /\ AskedRoles \subseteq StaffRoles
    /\ StaffRoles \subseteq RoleKeys
    /\ FirstRoles \subseteq [Staff -> SUBSET StaffRoles]

VARIABLES
    held,           \* Staff -> the roles held
    mfaEnabled,     \* the accounts with a second factor
    ownPassword,    \* the accounts whose mustChangePassword is not set
    open,           \* the live sessions
    halfDone        \* a change of factor died before it ended the sessions (history)

access == <<held, mfaEnabled, ownPassword, open, halfDone>>

OpenSession == [user : Staff, mfaSatisfied : BOOLEAN]

-----------------------------------------------------------------------------
(* The middleware *)

\* authenticate: the roles are those held now.
Authenticated(s) ==
    /\ s \in open
    /\ RolesRequireMfa(held[s.user]) => s.mfaSatisfied

\* requirePermission, requireMfaSatisfied, requireUsablePassword
MayCall(s, handler) ==
    LET route == RouteOf[handler] IN
    /\ Authenticated(s)
    /\ route.permission \in PermissionsForRoles(held[s.user]) \cup {Nothing}
    /\ route.mfa => s.mfaSatisfied
    /\ route.ownPassword => s.user \in ownPassword

-----------------------------------------------------------------------------
(* Signing in, and the second factor *)

\* Who needs a second factor and has none is sent to set one up.
SignIn(w, u) ==
    /\ Begin(w, IF RolesRequireMfa(held[u]) /\ u \notin mfaEnabled
                  THEN [op |-> "enrol", user |-> u]
                  ELSE [op |-> "open", session |-> [user |-> u, mfaSatisfied |-> u \in mfaEnabled]])
    /\ UNCHANGED access

Open(w) ==
    /\ task[w].op = "open"
    /\ open' = open \cup {task[w].session}
    /\ Finish(w)
    /\ UNCHANGED <<held, mfaEnabled, ownPassword, halfDone>>

\* Only a set-up that was started while there was no factor is confirmed.
EnrolAtSignIn(w) ==
    /\ task[w].op = "enrol"
    /\ task[w].user \notin mfaEnabled
    /\ Proceed(w, [op |-> "enable", user |-> task[w].user, signIn |-> TRUE])
    /\ UNCHANGED access

EnableLoad(w, s) ==
    /\ MayCall(s, "confirmOwnEnrolment")
    /\ s.user \notin mfaEnabled
    /\ Begin(w, [op |-> "enable", user |-> s.user, signIn |-> FALSE])
    /\ UNCHANGED access

EnableCommit(w) ==
    LET u == task[w].user IN
    /\ task[w].op = "enable"
    /\ mfaEnabled' = mfaEnabled \cup {u}
    /\ Proceed(w, [op |-> "end", user |-> u, signIn |-> task[w].signIn])
    /\ UNCHANGED <<held, ownPassword, open, halfDone>>

DisableLoad(w, s) ==
    /\ MayCall(s, "disableMfa")
    /\ s.user \in mfaEnabled
    /\ ~RolesRequireMfa(held[s.user])
    /\ Begin(w, [op |-> "disable", user |-> s.user])
    /\ UNCHANGED access

DisableCommit(w) ==
    LET u == task[w].user IN
    /\ task[w].op = "disable"
    /\ mfaEnabled' = mfaEnabled \ {u}
    /\ Proceed(w, [op |-> "end", user |-> u, signIn |-> FALSE])
    /\ UNCHANGED <<held, ownPassword, open, halfDone>>

\* revokeAllSessionsForUser, and the sign-in that set up the factor goes on.
EndAllSessions(w) ==
    LET u == task[w].user IN
    /\ task[w].op = "end"
    /\ open' = {s \in open : s.user # u}
    /\ IF task[w].signIn
         THEN Proceed(w, [op |-> "open", session |-> [user |-> u, mfaSatisfied |-> TRUE]])
         ELSE Finish(w)
    /\ UNCHANGED <<held, mfaEnabled, ownPassword, halfDone>>

-----------------------------------------------------------------------------
(* Passwords and roles *)

\* The sessions this ends are in Sessions.
ChangeOwnPassword(w, s) ==
    /\ MayCall(s, "changePassword")
    /\ AtOnce(w)
    /\ ownPassword' = ownPassword \cup {s.user}
    /\ UNCHANGED <<held, mfaEnabled, open, halfDone>>

HeldRank(u) ==
    CHOOSE rank \in {Rank[role] : role \in held[u]} \cup {0} :
        \A role \in held[u] : Rank[role] <= rank

\* assertMayActOn and assertMayGrantRank
MayHandle(s, u, role) ==
    /\ s.user # u
    /\ HeldRank(u) <= HeldRank(s.user)
    /\ Rank[role] <= HeldRank(s.user)

GrantRoleLoad(w, s, u, role) ==
    /\ MayCall(s, "grantRole")
    /\ MayHandle(s, u, role)
    /\ role \notin held[u]
    /\ Begin(w, [op |-> "give", user |-> u, role |-> role])
    /\ UNCHANGED access

GrantRoleCommit(w) ==
    /\ task[w].op = "give"
    /\ held' = [held EXCEPT ![task[w].user] = @ \cup {task[w].role}]
    /\ Finish(w)
    /\ UNCHANGED <<mfaEnabled, ownPassword, open, halfDone>>

RevokeRoleLoad(w, s, u, role) ==
    /\ MayCall(s, "revokeRole")
    /\ MayHandle(s, u, role)
    /\ role \in held[u]
    /\ Begin(w, [op |-> "take", user |-> u, role |-> role])
    /\ UNCHANGED access

RevokeRoleCommit(w) ==
    /\ task[w].op = "take"
    /\ held' = [held EXCEPT ![task[w].user] = @ \ {task[w].role}]
    /\ Finish(w)
    /\ UNCHANGED <<mfaEnabled, ownPassword, open, halfDone>>

AccessDrop(w) ==
    /\ DropTask(w)
    /\ halfDone' = IF task[w].op = "end" THEN halfDone \cup {task[w].user} ELSE halfDone
    /\ UNCHANGED <<held, mfaEnabled, ownPassword, open>>

-----------------------------------------------------------------------------
AccessInit ==
    /\ held \in FirstRoles
    /\ mfaEnabled \in SUBSET Staff
    /\ ownPassword \in SUBSET Staff
    /\ open = {}
    /\ halfDone = {}

AccessNext ==
    \E w \in Workers :
        \/ \E u \in Staff : SignIn(w, u)
        \/ Open(w)
        \/ EnrolAtSignIn(w)
        \/ \E s \in open : EnableLoad(w, s)
        \/ EnableCommit(w)
        \/ \E s \in open : DisableLoad(w, s)
        \/ DisableCommit(w)
        \/ EndAllSessions(w)
        \/ \E s \in open : ChangeOwnPassword(w, s)
        \/ \E s \in open, u \in Staff, role \in AskedRoles : GrantRoleLoad(w, s, u, role)
        \/ GrantRoleCommit(w)
        \/ \E s \in open, u \in Staff, role \in AskedRoles : RevokeRoleLoad(w, s, u, role)
        \/ RevokeRoleCommit(w)
        \/ AccessDrop(w)

-----------------------------------------------------------------------------
AccessTask ==
         [op : {"open"}, session : OpenSession]
    \cup [op : {"enable", "end"}, user : Staff, signIn : BOOLEAN]
    \cup [op : {"enrol", "disable"}, user : Staff]
    \cup [op : {"give", "take"}, user : Staff, role : StaffRoles]

AccessTypeOK ==
    /\ held \in [Staff -> SUBSET StaffRoles]
    /\ UNION {mfaEnabled, ownPassword, halfDone} \subseteq Staff
    /\ open \subseteq OpenSession

MayDecide == {"FINANCE_MANAGER", "SUPER_ADMIN"}

\* The calls that change what is owed, and the roles that are to make each.
MoneyCalls ==
         [handler : {"createCharge", "applyChargeRun", "requestRelief", "cancelRelief"},
          roles : {MayDecide \cup {"BURSAR"}}]
    \cup [handler : {"voidCharge", "decideRelief", "reverseRelief"}, roles : {MayDecide}]
    \cup [handler : {"createStructure", "addStructureItem", "changeStructureStatus"},
          roles : {MayDecide \cup {"SCHOOL_ADMIN"}}]

\* However roles, factors and passwords change under open sessions, whoever may call what
\* changes a balance or a price has proved a second factor in that session, chosen the
\* password and holds a role meant to: a bursar neither sets prices nor writes off, a
\* school administrator raises no charge.  As long as requests do not overlap the account
\* still has the factor it proved, but for a change of factor that died half way
\* (fee.routes.ts:6-23, authorization.ts:241-246, authenticate.ts:94-103).
SeparationOfDuties ==
    \A s \in open, call \in MoneyCalls :
        MayCall(s, call.handler) =>
            /\ s.mfaSatisfied
            /\ s.user \in ownPassword
            /\ held[s.user] \cap call.roles # {}
            /\ (~overlapped /\ s.user \notin halfDone) =>
                   \/ s.user \in mfaEnabled
                   \/ \E w \in Workers : task[w].op = "end" /\ task[w].user = s.user

=============================================================================
