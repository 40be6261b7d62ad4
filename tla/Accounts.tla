------------------------------ MODULE Accounts ------------------------------
(***************************************************************************)
(* Accounts: who may sign in, with what, and who may say so.  login and     *)
(* verifyMfa of auth.service.ts up to the session, password.service.ts,     *)
(* user.service.ts, and the principal and scope every request is checked    *)
(* against, over users, user_roles, mfa_recovery_codes and                  *)
(* password_reset_tokens.                                                   *)
(*                                                                         *)
(* Sessions has the sessions and the setting up of a second factor; here    *)
(* one bit per account says whether it has a live session, and an account   *)
(* has its second factor from the start or never.  E-mail addresses, which  *)
(* only have to be unique, are left out.                                    *)
(***************************************************************************)
EXTENDS Requests, Authorization

CONSTANTS
    Users,
    Schools,
    Roles,              \* the roles in play
    RoleSets,           \* the roles clients ask for in a new account
    SecondFactor,       \* the accounts with a second factor set up
    Passwords,
    Counters,           \* the time steps of authenticator codes
    ResetLinks,         \* password reset tokens, in the order they are sent
    InitialAccounts,    \* what the table may hold at the start
    MaxAttempts,        \* config.auth.maxFailedLoginAttempts
    MaxCounted,         \* bound: the failed attempts after which locks stay
    MaxAccountVersion   \* bound: edits of an account

ASSUME AccountsAssumption ==
    /\ Roles \subseteq RoleKeys
    /\ RoleSets \subseteq (SUBSET Roles) \ {{}}
    /\ SecondFactor \subseteq Users
    /\ MaxAttempts \in Nat \ {0}
    /\ {MaxCounted, MaxAccountVersion} \subseteq Nat
    /\ Counters \subseteq Nat \ {0}
    /\ ResetLinks \subseteq Nat

VARIABLES
    accounts,       \* Users -> Account, or Absent
    signedIn,       \* the accounts with a live session
    challenged,     \* the accounts whose password was just proved
    resetLinks,     \* ResetLinks -> the token, or Absent
    ceiling,        \* the highest rank anyone had at the start (history)
    chosen,         \* the password each account last chose (history)
    guesses,        \* wrong answers since the account was locked or let in (history)
    accepted,       \* the one-time codes each account was let in with (history)
    replayed,       \* those of them it was let in with again (history)
    honoured,       \* how often each reset link set a password (history)
    cutShort        \* a suspension died before it ended the sessions (history)

accountTables == <<accounts, signedIn, challenged, resetLinks>>
accountHistory == <<ceiling, chosen, guesses, accepted, replayed, honoured, cutShort>>
office == <<accountTables, accountHistory>>

-----------------------------------------------------------------------------
\* stale: the hash was made at a lower cost than the policy asks for now.
Account ==
    [status : {"INVITED", "ACTIVE", "SUSPENDED", "DISABLED"}, version : Nat,
     school : Schools \cup {None}, isSystemAdministrator : BOOLEAN,
     roles : SUBSET Roles, password : Passwords, stale : BOOLEAN,
     attempts : Nat, locked : BOOLEAN, lastCounter : Nat, recovery : BOOLEAN]

ResetLink == [user : Users, used : BOOLEAN]

\* The accounts there are before anything happens are accounts.
ASSUME InitialAccountsAssumption == InitialAccounts \subseteq [Users -> Account \cup {Absent}]

\* The recovery code, among the one-time codes.
Recovery == 0

Member == {u \in Users : accounts[u] # Absent}

Active(u) == u \in Member /\ accounts[u].status = "ACTIVE"

\* highestRank, and highestRoleRank of loadUserWithGrants
HighestRank(account) ==
    IF account.roles = {} THEN 0
    ELSE CHOOSE r \in {Rank[role] : role \in account.roles} :
             \A role \in account.roles : Rank[role] <= r

-----------------------------------------------------------------------------
(* Signing in: auth.service.ts *)

\* registerFailedAttempt: the count comes from the row read at the start.
FailedAttempt(w) ==
    LET u == task[w].user
        attempts == task[w].attempts + 1
    IN
    /\ task[w].op = "fail"
    /\ accounts' = [accounts EXCEPT ![u].attempts = attempts,
                                    ![u].locked = @ \/ attempts >= MaxAttempts]
    /\ guesses' = [guesses EXCEPT ![u] = IF attempts >= MaxAttempts THEN 0 ELSE @ + 1]
    /\ Finish(w)
    /\ UNCHANGED <<signedIn, challenged, resetLinks, ceiling, chosen, accepted, replayed,
                   honoured, cutShort>>

\* Mutant of AfterPassword: the count is cleared as soon as the password is proved.
AfterPasswordAlone(u) ==
    [op |-> "clear", user |-> u, next |-> IF u \in SecondFactor THEN "challenge" ELSE "open"]

\* What a proved password leads to: a challenge, or the end of the sign-in.
AfterPassword(u) ==
    IF u \in SecondFactor
      THEN [op |-> "challenge", user |-> u]
      ELSE [op |-> "clear", user |-> u, next |-> "open"]

\* Mutant of Login: the hash is replaced before the password is looked at.
LoginRehashesFirst(w, u, given) ==
    /\ u \in Member
    /\ ~accounts[u].locked
    /\ Begin(w,
         IF accounts[u].stale
           THEN [op |-> "rehash", user |-> u, password |-> given]
         ELSE IF given # accounts[u].password
           THEN [op |-> "fail", user |-> u, attempts |-> accounts[u].attempts]
         ELSE AfterPassword(u))
    /\ UNCHANGED office

\* login, up to its first write: the lock is looked at before the password, the
\* status after it.
Login(w, u, given) ==
    /\ u \in Member
    /\ ~accounts[u].locked
    /\ given = accounts[u].password => Active(u)
    /\ Begin(w,
         IF given # accounts[u].password
           THEN [op |-> "fail", user |-> u, attempts |-> accounts[u].attempts]
         ELSE IF accounts[u].stale
           THEN [op |-> "rehash", user |-> u, password |-> given]
         ELSE AfterPassword(u))
    /\ UNCHANGED office

\* The upgrade of the stored hash, of the password that was given.
Rehash(w) ==
    LET u == task[w].user IN
    /\ task[w].op = "rehash"
    /\ accounts' = [accounts EXCEPT ![u].password = task[w].password, ![u].stale = FALSE]
    /\ Proceed(w, AfterPassword(u))
    /\ UNCHANGED <<signedIn, challenged, resetLinks, accountHistory>>

IssueChallenge(w) ==
    /\ task[w].op = "challenge"
    /\ challenged' = challenged \cup {task[w].user}
    /\ Finish(w)
    /\ UNCHANGED <<accounts, signedIn, resetLinks, accountHistory>>

\* verifyTotp
CodeIsRight(u, code) == code \in Counters /\ code > accounts[u].lastCounter

\* verifyMfa with an authenticator code, right or wrong (None); an intermediate
\* token lasts for several attempts.
VerifyTotp(w, u, code) ==
    /\ u \in challenged
    /\ Active(u)
    /\ ~accounts[u].locked
    /\ Begin(w,
         IF CodeIsRight(u, code)
           THEN [op |-> "totp", user |-> u, counter |-> code]
           ELSE [op |-> "fail", user |-> u, attempts |-> accounts[u].attempts])
    /\ UNCHANGED office

LetIn(u, code) ==
    /\ accepted' = [accepted EXCEPT ![u] = @ \cup {code}]
    /\ replayed' = [replayed EXCEPT ![u] = @ \cup (accepted[u] \cap {code})]

\* The counter is written as it was worked out, without a condition.
RecordCounter(w) ==
    LET u == task[w].user IN
    /\ task[w].op = "totp"
    /\ accounts' = [accounts EXCEPT ![u].lastCounter = task[w].counter]
    /\ LetIn(u, task[w].counter)
    /\ Proceed(w, [op |-> "clear", user |-> u, next |-> "open"])
    /\ UNCHANGED <<signedIn, challenged, resetLinks, ceiling, chosen, guesses, honoured,
                   cutShort>>

\* Mutant of Consumable: the recovery code is not required to be unused.
ConsumableAgain(u) == TRUE

\* updateMany({ usedAt: null })
Consumable(u) == accounts[u].recovery

VerifyRecoveryLoad(w, u) ==
    /\ u \in challenged
    /\ Active(u)
    /\ ~accounts[u].locked
    /\ Begin(w, [op |-> "recovery", user |-> u, attempts |-> accounts[u].attempts])
    /\ UNCHANGED office

\* verifyMfa with the recovery code: one statement looks for it and uses it up.
ConsumeRecoveryCode(w) ==
    LET u == task[w].user IN
    /\ task[w].op = "recovery"
    /\ IF Consumable(u)
         THEN /\ accounts' = [accounts EXCEPT ![u].recovery = FALSE]
              /\ LetIn(u, Recovery)
              /\ Proceed(w, [op |-> "clear", user |-> u, next |-> "open"])
         ELSE /\ Proceed(w, [op |-> "fail", user |-> u, attempts |-> task[w].attempts])
              /\ UNCHANGED <<accounts, accepted, replayed>>
    /\ UNCHANGED <<signedIn, challenged, resetLinks, ceiling, chosen, guesses, honoured,
                   cutShort>>

\* Mutant of Unlocked: the count is emptied instead of set back.
UnlockedToNull(account) == [account EXCEPT !.attempts = None, !.locked = FALSE]

Unlocked(account) == [account EXCEPT !.attempts = 0, !.locked = FALSE]

ClearFailedAttempts(w) ==
    LET u == task[w].user IN
    /\ task[w].op = "clear"
    /\ accounts' = [accounts EXCEPT ![u] = Unlocked(@)]
    /\ guesses' = IF task[w].next = "open" THEN [guesses EXCEPT ![u] = 0] ELSE guesses
    /\ Proceed(w, [op |-> task[w].next, user |-> u])
    /\ UNCHANGED <<signedIn, challenged, resetLinks, ceiling, chosen, accepted, replayed,
                   honoured, cutShort>>

\* establishSession; what was read of the account is not read again.
EstablishSession(w) ==
    /\ task[w].op = "open"
    /\ signedIn' = signedIn \cup {task[w].user}
    /\ challenged' = challenged \ {task[w].user}
    /\ Finish(w)
    /\ UNCHANGED <<accounts, resetLinks, accountHistory>>

\* The count stays where it was: the next wrong answer locks again.
LockExpires(u) ==
    /\ u \in Member
    /\ accounts[u].locked
    /\ accounts[u].attempts < MaxCounted
    /\ accounts' = [accounts EXCEPT ![u].locked = FALSE]
    /\ UNCHANGED <<signedIn, challenged, resetLinks, accountHistory, task, overlapped>>

-----------------------------------------------------------------------------
(* Passwords: password.service.ts *)

\* authenticate
Served(u) == u \in signedIn /\ Active(u)

ChangePasswordLoad(w, u, current, new) ==
    /\ Served(u)
    /\ current = accounts[u].password
    /\ new # current
    /\ Begin(w, [op |-> "change", user |-> u, password |-> new])
    /\ UNCHANGED office

ChangePasswordCommit(w) ==
    LET u == task[w].user IN
    /\ task[w].op = "change"
    /\ accounts' = [accounts EXCEPT ![u].password = task[w].password, ![u].stale = FALSE]
    /\ chosen' = [chosen EXCEPT ![u] = task[w].password]
    /\ Finish(w)
    /\ UNCHANGED <<signedIn, challenged, resetLinks, ceiling, guesses, accepted, replayed,
                   honoured, cutShort>>

\* requestPasswordReset: the tokens sent before are used up.
RequestPasswordReset(w, u, link) ==
    /\ Active(u)
    /\ resetLinks[link] = Absent
    /\ \A earlier \in {l \in ResetLinks : l < link} : resetLinks[earlier] # Absent
    /\ AtOnce(w)
    /\ resetLinks' = [l \in ResetLinks |->
           IF l = link THEN [user |-> u, used |-> FALSE]
           ELSE IF resetLinks[l] # Absent /\ resetLinks[l].user = u
             THEN [resetLinks[l] EXCEPT !.used = TRUE]
           ELSE resetLinks[l]]
    /\ UNCHANGED <<accounts, signedIn, challenged, accountHistory>>

ResetPasswordLoad(w, link, new) ==
    /\ resetLinks[link] # Absent
    /\ ~resetLinks[link].used
    /\ Active(resetLinks[link].user)
    /\ Begin(w, [op |-> "reset", user |-> resetLinks[link].user, link |-> link,
                 password |-> new])
    /\ UNCHANGED office

\* Mutant of LinkStands: the link is taken as it was found.
LinkStood(link) == TRUE

\* updateMany({ id, usedAt: null })
LinkStands(link) == ~resetLinks[link].used

ResetPasswordCommit(w) ==
    LET u == task[w].user
        link == task[w].link
    IN
    /\ task[w].op = "reset"
    /\ LinkStands(link)
    /\ resetLinks' = [resetLinks EXCEPT ![link].used = TRUE]
    /\ accounts' = [accounts EXCEPT
           ![u] = [Unlocked(@) EXCEPT !.password = task[w].password, !.stale = FALSE]]
    /\ chosen' = [chosen EXCEPT ![u] = task[w].password]
    /\ guesses' = [guesses EXCEPT ![u] = 0]
    /\ honoured' = [honoured EXCEPT ![link] = @ + 1]
    /\ Proceed(w, [op |-> "revoke", user |-> u])
    /\ UNCHANGED <<signedIn, challenged, ceiling, accepted, replayed, cutShort>>

\* revokeAllSessionsForUser
RevokeAllSessions(w) ==
    /\ task[w].op = "revoke"
    /\ signedIn' = signedIn \ {task[w].user}
    /\ Finish(w)
    /\ UNCHANGED <<accounts, challenged, resetLinks, accountHistory>>

-----------------------------------------------------------------------------
(* Administration: user.service.ts *)

\* buildPrincipal: an account of no school that is not the system's cannot be
\* served at all.
HasScope(account) == account.isSystemAdministrator \/ account.school # None

IsSystem(account) == account.isSystemAdministrator /\ account.school = None

\* AccessScope.permits
Permits(actor, target) == IsSystem(actor) \/ target.school = actor.school

\* requirePermission.  Whoever acts here proved a second factor and chose the
\* password: see Access.
MayManage(a, handler) ==
    /\ Served(a)
    /\ HasScope(accounts[a])
    /\ RouteOf[handler].permission \in PermissionsForRoles(accounts[a].roles)

\* assertMayActOn, in the scope of the caller.
MayActOn(a, u) ==
    /\ u \in Member
    /\ Permits(accounts[a], accounts[u])
    /\ HighestRank(accounts[u]) <= HighestRank(accounts[a])

\* Mutant of MayGrantRank: any role may be granted by who may grant.
MayGrantAny(a, role) == TRUE

\* assertMayGrantRank
MayGrantRank(a, role) == Rank[role] <= HighestRank(accounts[a])

\* resolveTargetSchool
TargetSchools(a) ==
    IF IsSystem(accounts[a]) THEN Schools \cup {None} ELSE {accounts[a].school}

\* Which password the server or the caller thinks of does not matter.
CreateUserLoad(w, a, u, roles) ==
    /\ MayManage(a, "createUser")
    /\ accounts[u] = Absent
    /\ \A role \in roles : MayGrantRank(a, role)
    /\ \E school \in TargetSchools(a) :
         Begin(w, [op |-> "create", user |-> u, roles |-> roles,
                   row |-> [status |-> "INVITED", version |-> 0, school |-> school,
                            isSystemAdministrator |-> FALSE, roles |-> {},
                            password |-> CHOOSE p \in Passwords : TRUE, stale |-> FALSE, attempts |-> 0,
                            locked |-> FALSE, lastCounter |-> 0, recovery |-> FALSE]])
    /\ UNCHANGED office

\* UserRepository.create; the roles follow one by one.
CreateUser(w) ==
    LET u == task[w].user IN
    /\ task[w].op = "create"
    /\ accounts[u] = Absent
    /\ accounts' = [accounts EXCEPT ![u] = task[w].row]
    /\ chosen' = [chosen EXCEPT ![u] = task[w].row.password]
    /\ Proceed(w, [op |-> "grant", user |-> u, roles |-> task[w].roles])
    /\ UNCHANGED <<signedIn, challenged, resetLinks, ceiling, guesses, accepted, replayed,
                   honoured, cutShort>>

GrantLoad(w, a, u, role) ==
    /\ MayManage(a, "grantRole")
    /\ a # u
    /\ MayActOn(a, u)
    /\ MayGrantRank(a, role)
    /\ role \notin accounts[u].roles
    /\ Begin(w, [op |-> "grant", user |-> u, roles |-> {role}])
    /\ UNCHANGED office

\* UserRepository.grantRole: a role already held is refused by the unique index.
GrantRole(w) ==
    LET u == task[w].user IN
    /\ task[w].op = "grant"
    /\ \E role \in task[w].roles \ accounts[u].roles :
         /\ accounts' = [accounts EXCEPT ![u].roles = @ \cup {role}]
         /\ IF task[w].roles = {role}
              THEN Finish(w)
              ELSE Proceed(w, [task[w] EXCEPT !.roles = @ \ {role}])
    /\ UNCHANGED <<signedIn, challenged, resetLinks, accountHistory>>

HighestRole(role) == \A other \in Roles : Rank[other] <= Rank[role]

\* countHoldersOfRole
Administrators == {u \in Member : Active(u) /\ \E r \in accounts[u].roles : HighestRole(r)}

\* assertNotLastSuperAdministrator
LeavesOne(u) ==
    (\E r \in accounts[u].roles : HighestRole(r)) => Cardinality(Administrators) > 1

RevokeLoad(w, a, u, role) ==
    /\ MayManage(a, "revokeRole")
    /\ a # u
    /\ MayActOn(a, u)
    /\ MayGrantRank(a, role)
    /\ HighestRole(role) => LeavesOne(u)
    /\ Begin(w, [op |-> "ungrant", user |-> u, role |-> role])
    /\ UNCHANGED office

RevokeRole(w) ==
    LET u == task[w].user IN
    /\ task[w].op = "ungrant"
    /\ task[w].role \in accounts[u].roles
    /\ accounts' = [accounts EXCEPT ![u].roles = @ \ {task[w].role}]
    /\ Finish(w)
    /\ UNCHANGED <<signedIn, challenged, resetLinks, accountHistory>>

\* updateUser: its fields are left out, its version is not.
UpdateUser(w, a, u) ==
    /\ MayManage(a, "updateUser")
    /\ MayActOn(a, u)
    /\ accounts[u].version < MaxAccountVersion
    /\ AtOnce(w)
    /\ accounts' = [accounts EXCEPT ![u].version = @ + 1]
    /\ UNCHANGED <<signedIn, challenged, resetLinks, accountHistory>>

UnlockLoad(w, a, u) ==
    /\ MayManage(a, "unlockUser")
    /\ MayActOn(a, u)
    /\ Begin(w, [op |-> "unlock", user |-> u])
    /\ UNCHANGED office

ClearLockout(w) ==
    LET u == task[w].user IN
    /\ task[w].op = "unlock"
    /\ accounts' = [accounts EXCEPT ![u] = Unlocked(@)]
    /\ guesses' = [guesses EXCEPT ![u] = 0]
    /\ Finish(w)
    /\ UNCHANGED <<signedIn, challenged, resetLinks, ceiling, chosen, accepted, replayed,
                   honoured, cutShort>>

SetStatusLoad(w, a, u, status) ==
    /\ MayManage(a, "setUserStatus")
    /\ a # u
    /\ MayActOn(a, u)
    /\ status # "ACTIVE" => LeavesOne(u)
    /\ accounts[u].version < MaxAccountVersion
    /\ Begin(w, [op |-> "setStatus", user |-> u, status |-> status,
                 expectedVersion |-> accounts[u].version])
    /\ UNCHANGED office

\* Mutant of LosingAccess: only a suspension is thought of.
LosingAccessBySuspension(status) == status = "SUSPENDED"

LosingAccess(status) == status # "ACTIVE"

\* The sessions are ended by a statement of its own.
SetUserStatus(w) ==
    LET u == task[w].user IN
    /\ task[w].op = "setStatus"
    /\ Matches(accounts[u], task[w].expectedVersion)
    /\ accounts' = [accounts EXCEPT ![u].status = task[w].status, ![u].version = @ + 1]
    /\ IF LosingAccess(task[w].status)
         THEN Proceed(w, [op |-> "revoke", user |-> u])
         ELSE Finish(w)
    /\ UNCHANGED <<signedIn, challenged, resetLinks, accountHistory>>

\* A suspension or a reset that dies before its last statement leaves the sessions.
AccountsDrop(w) ==
    /\ DropTask(w)
    /\ cutShort' = IF task[w].op = "revoke" THEN cutShort \cup {task[w].user} ELSE cutShort
    /\ UNCHANGED <<accountTables, ceiling, chosen, guesses, accepted, replayed, honoured>>

-----------------------------------------------------------------------------
AccountsInit ==
    /\ accounts \in InitialAccounts
    /\ signedIn \in {{}, {u \in Member : Active(u)}}
    /\ challenged = {}
    /\ resetLinks = [l \in ResetLinks |-> Absent]
    /\ ceiling = CHOOSE r \in {HighestRank(accounts[u]) : u \in Member} :
                     \A u \in Member : HighestRank(accounts[u]) <= r
    /\ chosen = [u \in Users |-> IF u \in Member THEN accounts[u].password ELSE None]
    /\ guesses = [u \in Users |-> 0]
    /\ accepted = [u \in Users |-> {}]
    /\ replayed = [u \in Users |-> {}]
    /\ honoured = [l \in ResetLinks |-> 0]
    /\ cutShort = {}

SignInStep(w) ==
    \/ \E u \in Users, given \in Passwords : Login(w, u, given)
    \/ FailedAttempt(w)
    \/ Rehash(w)
    \/ ClearFailedAttempts(w)
    \/ EstablishSession(w)
    \/ AccountsDrop(w)

SecondFactorStep(w) ==
    \/ IssueChallenge(w)
    \/ \E u \in Users, code \in Counters \cup {None} : VerifyTotp(w, u, code)
    \/ RecordCounter(w)
    \/ \E u \in Users : VerifyRecoveryLoad(w, u)
    \/ ConsumeRecoveryCode(w)

PasswordStep(w) ==
    \/ \E u \in Users, current, new \in Passwords : ChangePasswordLoad(w, u, current, new)
    \/ ChangePasswordCommit(w)
    \/ \E u \in Users, link \in ResetLinks : RequestPasswordReset(w, u, link)
    \/ \E link \in ResetLinks, new \in Passwords : ResetPasswordLoad(w, link, new)
    \/ ResetPasswordCommit(w)
    \/ RevokeAllSessions(w)

RoleStep(w) ==
    \/ \E a, u \in Users, roles \in RoleSets : CreateUserLoad(w, a, u, roles)
    \/ CreateUser(w)
    \/ \E a, u \in Users, role \in Roles : GrantLoad(w, a, u, role)
    \/ GrantRole(w)
    \/ \E a, u \in Users, role \in Roles : RevokeLoad(w, a, u, role)
    \/ RevokeRole(w)

StatusStep(w) ==
    \/ \E a, u \in Users : UpdateUser(w, a, u)
    \/ \E a, u \in Users : UnlockLoad(w, a, u)
    \/ ClearLockout(w)
    \/ \E a, u \in Users, status \in {"ACTIVE", "SUSPENDED", "DISABLED"} :
          SetStatusLoad(w, a, u, status)
    \/ SetUserStatus(w)
    \/ RevokeAllSessions(w)

SignInNext ==
    \/ \E w \in Workers : SignInStep(w) \/ SecondFactorStep(w)
    \/ \E u \in Users : LockExpires(u)

PasswordsNext == \E w \in Workers : SignInStep(w) \/ PasswordStep(w)

RolesNext == \E w \in Workers : RoleStep(w) \/ AccountsDrop(w)

StatusesNext == \E w \in Workers : SignInStep(w) \/ StatusStep(w)

-----------------------------------------------------------------------------
AccountsTask ==
         [op : {"fail"}, user : Users, attempts : Nat]
    \cup [op : {"rehash"}, user : Users, password : Passwords]
    \cup [op : {"challenge", "open", "revoke", "unlock"}, user : Users]
    \cup [op : {"clear"}, user : Users, next : {"open", "challenge"}]
    \cup [op : {"totp"}, user : Users, counter : Counters]
    \cup [op : {"recovery"}, user : Users, attempts : Nat]
    \cup [op : {"change"}, user : Users, password : Passwords]
    \cup [op : {"reset"}, user : Users, link : ResetLinks, password : Passwords]
    \cup [op : {"create"}, user : Users, roles : SUBSET Roles, row : Account]
    \cup [op : {"grant"}, user : Users, roles : SUBSET Roles]
    \cup [op : {"ungrant"}, user : Users, role : Roles]
    \cup [op : {"setStatus"}, user : Users, status : {"ACTIVE", "SUSPENDED", "DISABLED"},
          expectedVersion : Nat]

AccountsTypeOK ==
    /\ accounts \in [Users -> Account \cup {Absent}]
    /\ signedIn \subseteq Users
    /\ challenged \subseteq Users
    /\ resetLinks \in [ResetLinks -> ResetLink \cup {Absent}]
    /\ chosen \in [Users -> Passwords \cup {None}]
    /\ honoured \in [ResetLinks -> Nat]

\* As long as requests do not overlap, nobody gets MaxAttempts wrong answers to an
\* account without its being locked, whichever factor they guess at and however
\* passwords that are right come in between (auth.service.ts:311-320, 407-412).
GuessesAreBounded ==
    ~overlapped => \A u \in Member : guesses[u] < MaxAttempts

\* As long as requests do not overlap, the password that is accepted is the one that
\* was last chosen, though hashes are upgraded behind it (auth.service.ts:260-270).
NewPasswordStands ==
    ~overlapped => \A u \in Member : accounts[u].password = chosen[u]

\* A recovery code lets in once, however requests overlap; an authenticator code once
\* as long as they do not (auth.service.ts:462-468, 510-521).
OneTimeCodesWorkOnce ==
    \A u \in Users :
        /\ Recovery \notin replayed[u]
        /\ ~overlapped => replayed[u] = {}

\* Only the last link that was sent sets a password, and only once, though links are
\* requested and followed at the same time (password.service.ts:240-246, 336-342).
OnlyTheLastLink ==
    [][\A l \in ResetLinks :
         honoured'[l] > honoured[l] =>
             /\ honoured[l] = 0
             /\ \A later \in ResetLinks :
                  (later > l /\ resetLinks[later] # Absent) =>
                      resetLinks[later].user # resetLinks[l].user]_office

\* As long as requests do not overlap, an account that may not sign in has no session,
\* but for a suspension that died half way (user.service.ts:450-456).
SuspensionEndsSessions ==
    ~overlapped =>
        \A u \in signedIn \ cutShort :
            Active(u) \/ \E w \in Workers : task[w].op = "revoke" /\ task[w].user = u

\* However grants overlap with removals, nobody comes to outrank all who were there
\* before: rank is only handed down (user.service.ts:346-369).
NoRankFromNowhere ==
    \A u \in Member : HighestRank(accounts[u]) <= ceiling

=============================================================================
