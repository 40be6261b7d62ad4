----------------------------- MODULE StaffProofs -----------------------------
(***************************************************************************)
(* Accounts, Access and Setup, for any number of people, roles, sessions    *)
(* and requests in flight.                                                 *)
(***************************************************************************)
EXTENDS Accounts, Pages, Setup, SequenceTheorems, TLAPS

-----------------------------------------------------------------------------
(* Requests that do not overlap *)

\* No more is known of what requests remember.
Remembered == task = [w \in Workers |-> task[w]]

\* Unless requests overlapped, one of them is under way at most.
OneAtMost ==
    ~overlapped => \A v, w \in Workers : (task[v] # Idle /\ task[w] # Idle) => v = w

OneWay == Remembered /\ overlapped \in BOOLEAN /\ OneAtMost

LEMMA OneWayInit == RequestsInit => OneWay
  BY DEF RequestsInit, OneWay, Remembered, OneAtMost

\* A request that begins while none is under way is the only one.
LEMMA BeginsAlone ==
    ASSUME OneWay, NEW w \in Workers, NEW request, Begin(w, request)
    PROVE  /\ OneWay'
           /\ task' = [v \in Workers |-> IF v = w THEN request ELSE task[v]]
           /\ task[w] = Idle
           /\ ~overlapped' => ~overlapped /\ \A v \in Workers : task[v] = Idle
<1>1. task' = [v \in Workers |-> IF v = w THEN request ELSE task[v]]
  BY DEF Begin, OneWay, Remembered
<1>2. overlapped' \in BOOLEAN
  BY DEF Begin, Arrive, OneWay, Busy
<1>3. ~overlapped' => ~overlapped /\ \A v \in Workers : task[v] = Idle
  BY DEF Begin, Arrive, Busy, OneWay
<1>. QED
  BY <1>1, <1>2, <1>3 DEF OneWay, Remembered, OneAtMost, Begin, Arrive

\* A request that goes on stays the only one.
LEMMA ProceedsAlone ==
    ASSUME OneWay, NEW w \in Workers, NEW request, Proceed(w, request), task[w] # Idle
    PROVE  /\ OneWay'
           /\ task' = [v \in Workers |-> IF v = w THEN request ELSE task[v]]
           /\ overlapped' = overlapped
           /\ ~overlapped => \A v \in Workers \ {w} : task[v] = Idle
<1>1. task' = [v \in Workers |-> IF v = w THEN request ELSE task[v]]
  BY DEF Proceed, OneWay, Remembered
<1>2. overlapped' = overlapped
  BY DEF Proceed
<1>. QED
  BY <1>1, <1>2 DEF OneWay, Remembered, OneAtMost

LEMMA AtOnceAlone ==
    ASSUME OneWay, NEW w \in Workers, AtOnce(w)
    PROVE  /\ OneWay'
           /\ task' = task
           /\ ~overlapped' => ~overlapped /\ \A v \in Workers : task[v] = Idle
<1>1. task' = task
  BY DEF AtOnce
<1>2. overlapped' \in BOOLEAN
  BY DEF AtOnce, Arrive, OneWay, Busy
<1>3. ~overlapped' => ~overlapped /\ \A v \in Workers : task[v] = Idle
  BY DEF AtOnce, Arrive, Busy, OneWay
<1>. QED
  BY <1>1, <1>2, <1>3 DEF OneWay, Remembered, OneAtMost

-----------------------------------------------------------------------------
(* The routes that change what is owed *)

MoneyHandlers == {call.handler : call \in MoneyCalls}

MoneyPermission(handler) ==
    CASE handler \in {"createCharge", "applyChargeRun"} -> "charge.create"
      [] handler = "voidCharge" -> "charge.void"
      [] handler \in {"requestRelief", "cancelRelief"} -> "adjustment.request"
      [] handler \in {"decideRelief", "reverseRelief"} -> "adjustment.approve"
      [] OTHER -> "fee_structure.manage"

\* What a route that moves money is declared with.
GuardedRoute(route) ==
    route.handler \in MoneyHandlers =>
        /\ route.mfa
        /\ route.ownPassword
        /\ route.permission = MoneyPermission(route.handler)

LEMMA MoneyHandlersAre ==
    MoneyHandlers = {"createCharge", "applyChargeRun", "requestRelief", "cancelRelief",
                     "voidCharge", "decideRelief", "reverseRelief", "createStructure",
                     "addStructureItem", "changeStructureStatus"}
<1>. DEFINE Ask == {"createCharge", "applyChargeRun", "requestRelief", "cancelRelief"}
            Undo == {"voidCharge", "decideRelief", "reverseRelief"}
            Price == {"createStructure", "addStructureItem", "changeStructureStatus"}
<1>1. ASSUME NEW call \in MoneyCalls
      PROVE  call.handler \in Ask \cup Undo \cup Price
  BY DEF MoneyCalls
<1>2. ASSUME NEW handler \in Ask
      PROVE  \E call \in MoneyCalls : call.handler = handler
  <2>1. [handler |-> handler, roles |-> MayDecide \cup {"BURSAR"}] \in MoneyCalls
    BY DEF MoneyCalls
  <2>. QED
    BY <2>1
<1>3. ASSUME NEW handler \in Undo
      PROVE  \E call \in MoneyCalls : call.handler = handler
  <2>1. [handler |-> handler, roles |-> MayDecide] \in MoneyCalls
    BY DEF MoneyCalls
  <2>. QED
    BY <2>1
<1>4. ASSUME NEW handler \in Price
      PROVE  \E call \in MoneyCalls : call.handler = handler
  <2>1. [handler |-> handler, roles |-> MayDecide \cup {"SCHOOL_ADMIN"}] \in MoneyCalls
    BY DEF MoneyCalls
  <2>. QED
    BY <2>1
<1>. QED
  BY <1>1, <1>2, <1>3, <1>4 DEF MoneyHandlers

\* Of the whole catalogue, group by group.
LEMMA MoneyRoutesAreGuarded ==
    \A route \in Routes : GuardedRoute(route)
<1>. USE MoneyHandlersAre DEF GuardedRoute, Behind, TwiceBehind, MoneyPermission
<1>1. \A route \in PeriodRoutes : GuardedRoute(route)
  BY DEF PeriodRoutes
<1>2. \A route \in ProgramRoutes : GuardedRoute(route)
  BY DEF ProgramRoutes
<1>3. \A route \in LevelRoutes : GuardedRoute(route)
  BY DEF LevelRoutes
<1>4. \A route \in StudentRoutes : GuardedRoute(route)
  BY DEF StudentRoutes
<1>5. \A route \in GuardianRoutes : GuardedRoute(route)
  BY DEF GuardianRoutes
<1>6. \A route \in EnrollmentRoutes : GuardedRoute(route)
  BY DEF EnrollmentRoutes
<1>7. \A route \in FeeStructureRoutes : GuardedRoute(route)
  BY DEF FeeStructureRoutes
<1>8. \A route \in ChargeRoutes : GuardedRoute(route)
  BY DEF ChargeRoutes
<1>9. \A route \in ReliefRoutes : GuardedRoute(route)
  BY DEF ReliefRoutes
<1>10. \A route \in ScholarshipRoutes : GuardedRoute(route)
  BY DEF ScholarshipRoutes
<1>11. \A route \in StudentFinancialRoutes : GuardedRoute(route)
  BY DEF StudentFinancialRoutes
<1>12. \A route \in UserRoutes : GuardedRoute(route)
  BY DEF UserRoutes
<1>13. \A route \in OwnAccountRoutes : GuardedRoute(route)
  BY DEF OwnAccountRoutes
<1>. HIDE DEF GuardedRoute
<1>. QED
  BY <1>1, <1>2, <1>3, <1>4, <1>5, <1>6, <1>7, <1>8, <1>9, <1>10, <1>11, <1>12, <1>13
     DEF Routes

\* Each of them is there, so RouteOf finds it.
LEMMA MoneyRoutesExist ==
    ASSUME NEW handler \in MoneyHandlers
    PROVE  RouteOf[handler] \in Routes /\ RouteOf[handler].handler = handler
<1>1. \E route \in ChargeRoutes \cup ReliefRoutes \cup FeeStructureRoutes : route.handler = handler
  <2>. DEFINE Route(permission) ==
           [handler |-> handler, permission |-> permission, mfa |-> TRUE, ownPassword |-> TRUE]
  <2>0. \A permission, handlers :
          handler \in handlers => Route(permission) \in TwiceBehind(permission, handlers)
    BY DEF TwiceBehind
  <2>1. CASE handler = "voidCharge"
    <3>1. Route("charge.void") \in ChargeRoutes
      BY <2>0, <2>1 DEF ChargeRoutes
    <3>. QED
      BY <3>1
  <2>2. CASE handler \in {"createCharge", "applyChargeRun"}
    <3>1. Route("charge.create") \in ChargeRoutes
      BY <2>0, <2>2 DEF ChargeRoutes
    <3>. QED
      BY <3>1
  <2>3. CASE handler \in {"requestRelief", "cancelRelief"}
    <3>1. Route("adjustment.request") \in ReliefRoutes
      BY <2>0, <2>3 DEF ReliefRoutes
    <3>. QED
      BY <3>1
  <2>4. CASE handler \in {"decideRelief", "reverseRelief"}
    <3>1. Route("adjustment.approve") \in ReliefRoutes
      BY <2>0, <2>4 DEF ReliefRoutes
    <3>. QED
      BY <3>1
  <2>5. CASE handler \in {"createStructure", "addStructureItem", "changeStructureStatus"}
    <3>1. Route("fee_structure.manage") \in FeeStructureRoutes
      BY <2>0, <2>5 DEF FeeStructureRoutes
    <3>. QED
      BY <3>1
  <2>. QED
    BY <2>1, <2>2, <2>3, <2>4, <2>5, MoneyHandlersAre
<1>2. PICK route \in Routes : route.handler = handler
  BY <1>1 DEF Routes
<1>. QED
  BY <1>2 DEF RouteOf

\* Who holds the permission of such a route holds one of the roles meant to.
LEMMA MoneyRolesAreMeant ==
    ASSUME NEW roles \in SUBSET RoleKeys, NEW call \in MoneyCalls,
           MoneyPermission(call.handler) \in PermissionsForRoles(roles)
    PROVE  roles \cap call.roles # {}
<1>1. PICK role \in roles : MoneyPermission(call.handler) \in RolePermissions[role]
  BY DEF PermissionsForRoles
<1>2. role \in {"SUPER_ADMIN", "SCHOOL_ADMIN", "FINANCE_MANAGER", "BURSAR", "DOS", "PARENT",
                "STUDENT"}
  BY DEF RoleKeys, Rank
<1>3. role \in call.roles
  BY <1>1, <1>2 DEF MoneyCalls, MoneyPermission, RolePermissions, MayDecide,
     SchoolAdminPermissions, FinanceManagerPermissions, BursarPermissions, DosPermissions
<1>. QED
  BY <1>3

-----------------------------------------------------------------------------
(* Access *)

accessVars == <<task, overlapped, access>>

AccessSpec == RequestsInit /\ AccessInit /\ [][AccessNext]_accessVars

AccessTyped ==
    /\ AccessTypeOK
    /\ OneWay
    /\ \A w \in Workers : task[w] \in AccessTask \cup {Idle}

EndingFor(u) == \E w \in Workers : task[w].op = "end" /\ task[w].user = u

\* As long as requests do not overlap, a session that proved a second factor belongs to
\* an account that has one, and so does one a sign-in is about to open; or the sessions
\* of the account are about to be ended, or should have been.
FactorsStand ==
    ~overlapped =>
        /\ \A s \in open :
             s.mfaSatisfied =>
                \/ s.user \in mfaEnabled
                \/ s.user \in halfDone
                \/ EndingFor(s.user)
        /\ \A w \in Workers :
             (task[w].op = "open" /\ task[w].session.mfaSatisfied) =>
                 task[w].session.user \in mfaEnabled
        /\ \A w \in Workers :
             (task[w].op = "end" /\ task[w].signIn) => task[w].user \in mfaEnabled

AccessInv == AccessTyped /\ FactorsStand

LEMMA AccessInvInit == RequestsInit /\ AccessInit => AccessInv
<1>. SUFFICES ASSUME RequestsInit, AccessInit
              PROVE  AccessInv
  OBVIOUS
<1>1. AccessTypeOK
  BY AccessAssumption DEF AccessInit, AccessTypeOK
<1>2. \A w \in Workers : task[w] = Idle
  BY DEF RequestsInit
<1>3. FactorsStand
  BY <1>2 DEF FactorsStand, AccessInit, Idle
<1>. QED
  BY <1>1, <1>2, <1>3, OneWayInit DEF AccessInv, AccessTyped

\* What a request leaves behind where it stands.
LEMMA TaskTypedAfter ==
    ASSUME \A v \in Workers : task[v] \in AccessTask \cup {Idle}, NEW w \in Workers,
           NEW request \in AccessTask \cup {Idle},
           task' = [v \in Workers |-> IF v = w THEN request ELSE task[v]]
    PROVE  \A v \in Workers : task'[v] \in AccessTask \cup {Idle}
  OBVIOUS

\* A request that only begins.
LEMMA BeginStands ==
    ASSUME AccessInv, NEW w \in Workers, NEW request \in AccessTask, Begin(w, request),
           UNCHANGED access, request.op # "end",
           (request.op = "open" /\ request.session.mfaSatisfied) =>
               request.session.user \in mfaEnabled
    PROVE  AccessInv'
<1>1. /\ OneWay'
      /\ task' = [v \in Workers |-> IF v = w THEN request ELSE task[v]]
      /\ ~overlapped' => ~overlapped /\ \A v \in Workers : task[v] = Idle
  BY BeginsAlone DEF AccessInv, AccessTyped
<1>2. AccessTyped'
  BY <1>1, TaskTypedAfter DEF access, AccessInv, AccessTyped, AccessTypeOK
<1>3. ASSUME ~overlapped'
      PROVE  /\ \A s \in open : ~s.mfaSatisfied \/ s.user \in mfaEnabled \/ s.user \in halfDone
             /\ \A v \in Workers : v = w \/ task'[v] = Idle
             /\ task'[w] = request
  BY <1>1, <1>3 DEF AccessInv, FactorsStand, EndingFor, Idle
<1>4. FactorsStand'
  BY <1>3 DEF FactorsStand, access, Idle
<1>. QED
  BY <1>2, <1>4 DEF AccessInv

LEMMA SignInStands ==
    ASSUME AccessInv, NEW w \in Workers, NEW u \in Staff, SignIn(w, u)
    PROVE  AccessInv'
<1>1. PICK proved \in BOOLEAN : proved = (u \in mfaEnabled)
  <2>1. CASE u \in mfaEnabled
    <3>1. TRUE = (u \in mfaEnabled)
      BY <2>1
    <3>. QED
      BY <3>1
  <2>2. CASE u \notin mfaEnabled
    <3>1. FALSE = (u \in mfaEnabled)
      BY <2>2
    <3>. QED
      BY <3>1
  <2>. QED
    BY <2>1, <2>2
<1>2. PICK r : r = IF RolesRequireMfa(held[u]) /\ u \notin mfaEnabled
                     THEN [op |-> "enrol", user |-> u]
                     ELSE [op |-> "open", session |-> [user |-> u, mfaSatisfied |-> proved]]
  OBVIOUS
<1>3. Begin(w, r) /\ UNCHANGED access
  BY <1>1, <1>2 DEF SignIn
<1>4. r \in AccessTask
  BY <1>2 DEF AccessTask, OpenSession
<1>5. r.op # "end"
  BY <1>2
<1>6. (r.op = "open" /\ r.session.mfaSatisfied) => r.session.user \in mfaEnabled
  BY <1>1, <1>2
<1>. QED
  BY <1>3, <1>4, <1>5, <1>6, BeginStands

LEMMA LoadsStand ==
    ASSUME AccessInv, NEW w \in Workers, NEW s \in open,
           \/ EnableLoad(w, s)
           \/ DisableLoad(w, s)
           \/ \E u \in Staff, role \in AskedRoles : GrantRoleLoad(w, s, u, role)
           \/ \E u \in Staff, role \in AskedRoles : RevokeRoleLoad(w, s, u, role)
    PROVE  AccessInv'
<1>. s.user \in Staff /\ AskedRoles \subseteq StaffRoles
  BY AccessAssumption DEF AccessInv, AccessTyped, AccessTypeOK, OpenSession
<1>1. CASE EnableLoad(w, s)
  BY <1>1, BeginStands DEF EnableLoad, AccessTask
<1>2. CASE DisableLoad(w, s)
  BY <1>2, BeginStands DEF DisableLoad, AccessTask
<1>3. CASE \E u \in Staff, role \in AskedRoles : GrantRoleLoad(w, s, u, role)
  BY <1>3, BeginStands DEF GrantRoleLoad, AccessTask
<1>4. CASE \E u \in Staff, role \in AskedRoles : RevokeRoleLoad(w, s, u, role)
  BY <1>4, BeginStands DEF RevokeRoleLoad, AccessTask
<1>. QED
  BY <1>1, <1>2, <1>3, <1>4

\* A request that goes on: who else is under way may only be where requests overlap.
LEMMA ProceedTyped ==
    ASSUME AccessInv, NEW w \in Workers, NEW request \in AccessTask \cup {Idle},
           Proceed(w, request), task[w] # Idle, AccessTypeOK'
    PROVE  /\ AccessTyped'
           /\ task'[w] = request
           /\ overlapped' = overlapped
           /\ ~overlapped => \A v \in Workers : v = w \/ (task[v] = Idle /\ task'[v] = Idle)
<1>1. /\ OneWay'
      /\ task' = [v \in Workers |-> IF v = w THEN request ELSE task[v]]
      /\ overlapped' = overlapped
      /\ ~overlapped => \A v \in Workers \ {w} : task[v] = Idle
  BY ProceedsAlone DEF AccessInv, AccessTyped
<1>2. \A v \in Workers : task'[v] \in AccessTask \cup {Idle}
  BY <1>1, TaskTypedAfter DEF AccessInv, AccessTyped
<1>. QED
  BY <1>1, <1>2 DEF AccessTyped

LEMMA OpenStands ==
    ASSUME AccessInv, NEW w \in Workers, Open(w)
    PROVE  AccessInv'
<1>1. task[w] # Idle /\ task[w].session \in OpenSession
  BY DEF Open, AccessInv, AccessTyped, AccessTask, Idle
<1>2. AccessTypeOK'
  BY <1>1 DEF Open, AccessInv, AccessTyped, AccessTypeOK
<1>3. /\ AccessTyped'
      /\ task'[w] = Idle
      /\ overlapped' = overlapped
      /\ ~overlapped => \A v \in Workers : v = w \/ (task[v] = Idle /\ task'[v] = Idle)
  BY <1>1, <1>2, ProceedTyped DEF Open, Finish
<1>4. FactorsStand'
  BY <1>3 DEF Open, AccessInv, FactorsStand, EndingFor, Idle
<1>. QED
  BY <1>3, <1>4 DEF AccessInv

LEMMA EnrolStands ==
    ASSUME AccessInv, NEW w \in Workers, EnrolAtSignIn(w)
    PROVE  AccessInv'
<1>. DEFINE r == [op |-> "enable", user |-> task[w].user, signIn |-> TRUE]
<1>1. task[w] # Idle /\ r \in AccessTask
  BY DEF EnrolAtSignIn, AccessInv, AccessTyped, AccessTask, Idle
<1>2. AccessTypeOK'
  BY DEF EnrolAtSignIn, AccessInv, AccessTyped, AccessTypeOK, access
<1>3. /\ AccessTyped'
      /\ task'[w] = [op |-> "enable", user |-> task[w].user, signIn |-> TRUE]
      /\ overlapped' = overlapped
      /\ ~overlapped => \A v \in Workers : v = w \/ (task[v] = Idle /\ task'[v] = Idle)
  BY <1>1, <1>2, ProceedTyped DEF EnrolAtSignIn
<1>4. FactorsStand'
  BY <1>3 DEF EnrolAtSignIn, access, AccessInv, FactorsStand, EndingFor, Idle
<1>. QED
  BY <1>3, <1>4 DEF AccessInv

LEMMA EnableStands ==
    ASSUME AccessInv, NEW w \in Workers, EnableCommit(w)
    PROVE  AccessInv'
<1>. DEFINE r == [op |-> "end", user |-> task[w].user, signIn |-> task[w].signIn]
<1>1. task[w] # Idle /\ r \in AccessTask /\ task[w].user \in Staff
  BY DEF EnableCommit, AccessInv, AccessTyped, AccessTask, Idle
<1>2. AccessTypeOK'
  BY <1>1 DEF EnableCommit, AccessInv, AccessTyped, AccessTypeOK
<1>3. /\ AccessTyped'
      /\ task'[w] = [op |-> "end", user |-> task[w].user, signIn |-> task[w].signIn]
      /\ overlapped' = overlapped
      /\ ~overlapped => \A v \in Workers : v = w \/ (task[v] = Idle /\ task'[v] = Idle)
  BY <1>1, <1>2, ProceedTyped DEF EnableCommit
<1>4. FactorsStand'
  BY <1>3 DEF EnableCommit, AccessInv, FactorsStand, EndingFor, Idle
<1>. QED
  BY <1>3, <1>4 DEF AccessInv

LEMMA DisableStands ==
    ASSUME AccessInv, NEW w \in Workers, DisableCommit(w)
    PROVE  AccessInv'
<1>. DEFINE r == [op |-> "end", user |-> task[w].user, signIn |-> FALSE]
<1>1. task[w] # Idle /\ r \in AccessTask /\ task[w].user \in Staff
  BY DEF DisableCommit, AccessInv, AccessTyped, AccessTask, Idle
<1>2. AccessTypeOK'
  BY <1>1 DEF DisableCommit, AccessInv, AccessTyped, AccessTypeOK
<1>3. /\ AccessTyped'
      /\ task'[w] = [op |-> "end", user |-> task[w].user, signIn |-> FALSE]
      /\ overlapped' = overlapped
      /\ ~overlapped => \A v \in Workers : v = w \/ (task[v] = Idle /\ task'[v] = Idle)
  BY <1>1, <1>2, ProceedTyped DEF DisableCommit
<1>4. FactorsStand'
  BY <1>1, <1>3 DEF DisableCommit, AccessInv, FactorsStand, EndingFor, Idle
<1>. QED
  BY <1>3, <1>4 DEF AccessInv

LEMMA EndStands ==
    ASSUME AccessInv, NEW w \in Workers, EndAllSessions(w)
    PROVE  AccessInv'
<1>. DEFINE r == IF task[w].signIn
                   THEN [op |-> "open", session |-> [user |-> task[w].user, mfaSatisfied |-> TRUE]]
                   ELSE Idle
<1>1. task[w] # Idle /\ r \in AccessTask \cup {Idle} /\ task[w].user \in Staff
  BY DEF EndAllSessions, AccessInv, AccessTyped, AccessTask, OpenSession, Idle
<1>2. AccessTypeOK'
  BY <1>1 DEF EndAllSessions, AccessInv, AccessTyped, AccessTypeOK
<1>3. Proceed(w, r)
  BY DEF EndAllSessions, Finish
<1>4. PICK q : q = r
  OBVIOUS
<1>5. /\ AccessTyped'
      /\ task'[w] = q
      /\ overlapped' = overlapped
      /\ ~overlapped => \A v \in Workers : v = w \/ (task[v] = Idle /\ task'[v] = Idle)
  BY <1>1, <1>2, <1>3, <1>4, ProceedTyped
<1>6. FactorsStand'
  <2>. SUFFICES ASSUME ~overlapped'
                PROVE  FactorsStand'
    BY DEF FactorsStand
  <2>1. \A s \in open' : s \in open /\ s.user # task[w].user
    BY DEF EndAllSessions
  <2>2. \A s \in open' : s.mfaSatisfied => s.user \in mfaEnabled \/ s.user \in halfDone
    BY <1>5, <2>1 DEF AccessInv, FactorsStand, EndingFor, Idle, EndAllSessions
  <2>3. (q.op = "open" /\ q.session.mfaSatisfied) => q.session.user \in mfaEnabled
    BY <1>4, <1>5 DEF AccessInv, FactorsStand, Idle, EndAllSessions
  <2>4. q.op # "end"
    BY <1>4 DEF Idle
  <2>5. mfaEnabled' = mfaEnabled /\ halfDone' = halfDone
    BY DEF EndAllSessions
  <2>. QED
    BY <1>5, <2>2, <2>3, <2>4, <2>5 DEF FactorsStand, Idle
<1>. QED
  BY <1>5, <1>6 DEF AccessInv

LEMMA ChangePasswordStands ==
    ASSUME AccessInv, NEW w \in Workers, NEW s \in open, ChangeOwnPassword(w, s)
    PROVE  AccessInv'
<1>1. OneWay' /\ task' = task /\ (~overlapped' => ~overlapped)
  BY AtOnceAlone DEF ChangeOwnPassword, AccessInv, AccessTyped
<1>2. s.user \in Staff
  BY DEF AccessInv, AccessTyped, AccessTypeOK, OpenSession
<1>3. AccessTyped'
  BY <1>1, <1>2 DEF ChangeOwnPassword, AccessInv, AccessTyped, AccessTypeOK
<1>4. FactorsStand'
  BY <1>1 DEF ChangeOwnPassword, AccessInv, FactorsStand, EndingFor
<1>. QED
  BY <1>3, <1>4 DEF AccessInv

LEMMA RolesStand ==
    ASSUME AccessInv, NEW w \in Workers, GrantRoleCommit(w) \/ RevokeRoleCommit(w)
    PROVE  AccessInv'
<1>1. task[w] # Idle /\ task[w].user \in Staff /\ task[w].role \in StaffRoles
  BY DEF GrantRoleCommit, RevokeRoleCommit, AccessInv, AccessTyped, AccessTask, Idle
<1>2. AccessTypeOK'
  BY <1>1 DEF GrantRoleCommit, RevokeRoleCommit, AccessInv, AccessTyped, AccessTypeOK
<1>3. /\ AccessTyped'
      /\ task'[w] = Idle
      /\ overlapped' = overlapped
      /\ ~overlapped => \A v \in Workers : v = w \/ (task[v] = Idle /\ task'[v] = Idle)
  BY <1>1, <1>2, ProceedTyped DEF GrantRoleCommit, RevokeRoleCommit, Finish
<1>4. FactorsStand'
  BY <1>3 DEF GrantRoleCommit, RevokeRoleCommit, AccessInv, FactorsStand, EndingFor, Idle
<1>. QED
  BY <1>3, <1>4 DEF AccessInv

LEMMA DropStands ==
    ASSUME AccessInv, NEW w \in Workers, AccessDrop(w)
    PROVE  AccessInv'
<1>1. task[w] # Idle
  BY DEF AccessDrop, DropTask
<1>2. task[w].op = "end" => task[w].user \in Staff
  BY <1>1 DEF AccessInv, AccessTyped, AccessTask
<1>3. AccessTypeOK'
  BY <1>2 DEF AccessDrop, AccessInv, AccessTyped, AccessTypeOK
<1>4. /\ AccessTyped'
      /\ task'[w] = Idle
      /\ overlapped' = overlapped
      /\ ~overlapped => \A v \in Workers : v = w \/ (task[v] = Idle /\ task'[v] = Idle)
  BY <1>1, <1>3, ProceedTyped DEF AccessDrop, DropTask, Finish
<1>5. FactorsStand'
  BY <1>4 DEF AccessDrop, AccessInv, FactorsStand, EndingFor, Idle
<1>. QED
  BY <1>4, <1>5 DEF AccessInv

LEMMA AccessInvStep == AccessInv /\ [AccessNext]_accessVars => AccessInv'
<1>. SUFFICES ASSUME AccessInv, [AccessNext]_accessVars
              PROVE  AccessInv'
  OBVIOUS
<1>1. CASE UNCHANGED accessVars
  <2>1. OneWay' = OneWay
    BY <1>1 DEF accessVars, OneWay, Remembered, OneAtMost
  <2>2. AccessTypeOK' = AccessTypeOK
    BY <1>1 DEF accessVars, access, AccessTypeOK
  <2>3. FactorsStand'
    BY <1>1 DEF accessVars, access, AccessInv, FactorsStand, EndingFor
  <2>. QED
    BY <1>1, <2>1, <2>2, <2>3 DEF accessVars, AccessInv, AccessTyped
<1>2. CASE AccessNext
  <2>1. PICK w \in Workers :
          \/ \E u \in Staff : SignIn(w, u)
          \/ Open(w)
          \/ EnrolAtSignIn(w)
          \/ \E s \in open : EnableLoad(w, s)
          \/ EnableCommit(w)
          \/ \E s \in open : DisableLoad(w, s)
          \/ DisableCommit(w)
          \/ EndAllSessions(w)
          \/ \E s \in open : ChangeOwnPassword(w, s)
          \/ \E s \in open, u \in Staff, role \in AskedRoles : GrantRoleLoad(w, s, u, role)
          \/ GrantRoleCommit(w)
          \/ \E s \in open, u \in Staff, role \in AskedRoles : RevokeRoleLoad(w, s, u, role)
          \/ RevokeRoleCommit(w)
          \/ AccessDrop(w)
    BY <1>2, Zenon DEF AccessNext
  <2>. QED
    BY <2>1, SignInStands, OpenStands, EnrolStands, LoadsStand, EnableStands, DisableStands,
       EndStands, ChangePasswordStands, RolesStand, DropStands
<1>. QED
  BY <1>1, <1>2

LEMMA AccessInvHolds == AccessSpec => []AccessInv
  BY AccessInvInit, AccessInvStep, PTL DEF AccessSpec

\* What a session may call that moves money, from the catalogue and what stands.
LEMMA DutiesSeparate == AccessInv => SeparationOfDuties
<1>. SUFFICES ASSUME AccessInv, NEW s \in open, NEW call \in MoneyCalls,
                     MayCall(s, call.handler)
              PROVE  /\ s.mfaSatisfied
                     /\ s.user \in ownPassword
                     /\ held[s.user] \cap call.roles # {}
                     /\ (~overlapped /\ s.user \notin halfDone) =>
                           \/ s.user \in mfaEnabled
                           \/ \E w \in Workers : task[w].op = "end" /\ task[w].user = s.user
  BY DEF SeparationOfDuties
<1>1. call.handler \in MoneyHandlers
  BY DEF MoneyHandlers
<1>2. PICK route \in Routes : route = RouteOf[call.handler] /\ route.handler = call.handler
  BY <1>1, MoneyRoutesExist
<1>3. /\ route.mfa
      /\ route.ownPassword
      /\ route.permission = MoneyPermission(call.handler)
  BY <1>1, <1>2, MoneyRoutesAreGuarded DEF GuardedRoute
<1>4. s.mfaSatisfied /\ s.user \in ownPassword
  BY <1>2, <1>3 DEF MayCall
<1>5. MoneyPermission(call.handler) # Nothing
  BY <1>1, MoneyHandlersAre DEF MoneyPermission, Nothing
<1>6. MoneyPermission(call.handler) \in PermissionsForRoles(held[s.user])
  BY <1>2, <1>3, <1>5 DEF MayCall
<1>7. held[s.user] \in SUBSET RoleKeys
  BY AccessAssumption DEF AccessInv, AccessTyped, AccessTypeOK, OpenSession
<1>8. held[s.user] \cap call.roles # {}
  BY <1>6, <1>7, MoneyRolesAreMeant
<1>. QED
  BY <1>4, <1>8 DEF AccessInv, FactorsStand, EndingFor

\* Roles, factors and sessions have their types, whatever overlaps (session.repository.ts,
\* user.repository.ts).
THEOREM AccessTypeCorrect == AccessSpec => []AccessTypeOK
<1>1. AccessInv => AccessTypeOK
  BY DEF AccessInv, AccessTyped
<1>. QED
  BY <1>1, AccessInvHolds, PTL

\* For any number of staff, roles in play, sessions and requests in flight, whoever may
\* call what changes a balance or a price has proved a second factor, chosen the password
\* and holds a role meant to (authorize.ts, authorization.ts:241-246).
THEOREM DutiesStaySeparate == AccessSpec => []SeparationOfDuties
  BY AccessInvHolds, DutiesSeparate, PTL

-----------------------------------------------------------------------------
(* Accounts *)

accountsVars == <<task, overlapped, office>>

\* Every handler, side by side.
AccountsNext == SignInNext \/ PasswordsNext \/ RolesNext \/ StatusesNext

AccountsSpec == RequestsInit /\ AccountsInit /\ [][AccountsNext]_accountsVars

\* What a request remembers that stays so whatever others do.
Sound(request) ==
    /\ request.op # "create" => request.user \in Member
    /\ request.op = "clear" => request.next = "open"
    /\ request.op \in {"create", "grant"} =>
         ceiling \in Nat /\ \A role \in request.roles : Rank[role] <= ceiling
    /\ request.op = "create" =>
         /\ request.row.roles = {}
         /\ request.row.attempts = 0
         /\ ~request.row.recovery
    /\ request.op = "reset" =>
         /\ resetLinks[request.link] # Absent
         /\ resetLinks[request.link].user = request.user

\* What a request remembers of an account that nobody else is at.
Fresh(request) ==
    /\ request.op \in {"fail", "recovery"} => request.attempts = accounts[request.user].attempts
    /\ request.op = "rehash" => request.password = accounts[request.user].password
    /\ request.op = "totp" => request.counter > accounts[request.user].lastCounter
    /\ request.op \in {"rehash", "challenge", "totp", "recovery", "clear", "open"} =>
         Active(request.user)

RequestsSound == \A w \in Workers : task[w] = Idle \/ Sound(task[w])

RequestsFresh == ~overlapped => \A w \in Workers : task[w] = Idle \/ Fresh(task[w])

HistoryOK ==
    /\ guesses \in [Users -> Nat]
    /\ accepted \in [Users -> SUBSET (Counters \cup {Recovery})]
    /\ replayed \in [Users -> SUBSET (Counters \cup {Recovery})]
    /\ signedIn \cup challenged \subseteq Member

\* An account, or its place, however requests overlap.
AccountSound(u) ==
    /\ u \in Member =>
         ceiling \in Nat /\ \A role \in accounts[u].roles : Rank[role] <= ceiling
    /\ u \in Member => (accounts[u].recovery => Recovery \notin accepted[u])
    /\ u \notin Member => guesses[u] = 0 /\ accepted[u] = {}
    /\ Recovery \notin replayed[u]

\* And as long as they do not.
AccountInStep(u) ==
    /\ replayed[u] = {}
    /\ u \in Member =>
         /\ accounts[u].password = chosen[u]
         /\ guesses[u] <= accounts[u].attempts
         /\ guesses[u] < MaxAttempts
         /\ \A code \in accepted[u] : code <= accounts[u].lastCounter
    /\ u \in signedIn \ cutShort =>
           Active(u) \/ \E w \in Workers : task[w].op = "revoke" /\ task[w].user = u

LinksInOrder ==
    \A l \in ResetLinks :
        /\ resetLinks[l] = Absent =>
             /\ honoured[l] = 0
             /\ \A later \in ResetLinks : later > l => resetLinks[later] = Absent
        /\ (resetLinks[l] # Absent /\ ~resetLinks[l].used) =>
             /\ honoured[l] = 0
             /\ \A later \in ResetLinks :
                  (later > l /\ resetLinks[later] # Absent) =>
                      resetLinks[later].user # resetLinks[l].user

AccountsInv ==
    /\ AccountsTypeOK
    /\ OneWay
    /\ \A w \in Workers : task[w] \in AccountsTask \cup {Idle}
    /\ HistoryOK
    /\ RequestsSound
    /\ RequestsFresh
    /\ \A u \in Users : AccountSound(u)
    /\ ~overlapped => \A u \in Users : AccountInStep(u)
    /\ LinksInOrder

LEMMA AccountIsThere == \A a \in Account : a # Absent
  BY DEF Account, Absent

LEMMA MembersHaveAccounts ==
    ASSUME AccountsTypeOK, NEW u \in Users
    PROVE  u \in Member <=> accounts[u] \in Account
  BY AccountIsThere DEF AccountsTypeOK, Member

\* A request that is sound stays so while nobody leaves and links stay with who has them.
Keeps ==
    /\ Member \subseteq Member'
    /\ ceiling' = ceiling
    /\ \A l \in ResetLinks : resetLinks[l] # Absent =>
         resetLinks'[l] # Absent /\ resetLinks'[l].user = resetLinks[l].user

LEMMA SoundStays ==
    ASSUME Keeps, NEW request \in AccountsTask, Sound(request)
    PROVE  Sound(request)'
<1>1. request.op = "reset" => request.link \in ResetLinks
  BY DEF AccountsTask
<1>. QED
  BY <1>1 DEF Sound, Keeps

\* What is asked of a request where it stands.
Goes(request) ==
    /\ request \in AccountsTask \cup {Idle}
    /\ request = Idle \/ Sound(request)
    /\ ~overlapped => request = Idle \/ Fresh(request)

LEMMA RequestsGoOn ==
    ASSUME AccountsInv, Keeps, NEW w \in Workers, NEW request, Goes(request)',
           task' = [v \in Workers |-> IF v = w THEN request ELSE task[v]],
           ~overlapped' => \A v \in Workers \ {w} : task[v] = Idle
    PROVE  /\ \A v \in Workers : task'[v] \in AccountsTask \cup {Idle}
           /\ RequestsSound'
           /\ RequestsFresh'
<1>1. \A v \in Workers : task'[v] \in AccountsTask \cup {Idle}
  BY DEF Goes, AccountsInv
<1>2. ASSUME NEW v \in Workers
      PROVE  task'[v] = Idle \/ Sound(task[v])'
  <2>1. PICK t : t = task'[v]
    OBVIOUS
  <2>2. CASE v = w
    BY <2>1, <2>2 DEF Goes
  <2>3. CASE v # w
    <3>1. t = Idle \/ (t \in AccountsTask /\ Sound(t))
      BY <2>1, <2>3 DEF AccountsInv, RequestsSound
    <3>2. t = Idle \/ Sound(t)'
      BY <3>1, SoundStays
    <3>. QED
      BY <2>1, <3>2
  <2>. QED
    BY <2>2, <2>3
<1>3. ASSUME ~overlapped', NEW v \in Workers
      PROVE  task'[v] = Idle \/ Fresh(task[v])'
  BY <1>3 DEF Goes
<1>. QED
  BY <1>1, <1>2, <1>3 DEF RequestsSound, RequestsFresh

\* A request that only begins: it finds nobody else under way, or is one of several.
LEMMA AccountsRequestBegins ==
    ASSUME AccountsInv, NEW w \in Workers, NEW request \in AccountsTask, Begin(w, request),
           UNCHANGED office, Sound(request), Fresh(request)
    PROVE  AccountsInv'
<1>1. /\ OneWay'
      /\ task' = [v \in Workers |-> IF v = w THEN request ELSE task[v]]
      /\ task[w] = Idle
      /\ ~overlapped' => ~overlapped /\ \A v \in Workers : task[v] = Idle
  BY BeginsAlone DEF AccountsInv
<1>2. Keeps
  BY DEF Keeps, Member, office, accountTables, accountHistory
<1>3. Goes(request)'
  BY DEF Goes, Sound, Fresh, Member, Active, office, accountTables, accountHistory
<1>4. /\ \A v \in Workers : task'[v] \in AccountsTask \cup {Idle}
      /\ RequestsSound'
      /\ RequestsFresh'
  BY <1>1, <1>2, <1>3, RequestsGoOn
<1>5. AccountsTypeOK' /\ HistoryOK' /\ LinksInOrder'
  BY DEF AccountsInv, AccountsTypeOK, HistoryOK, LinksInOrder, Member, office, accountTables,
     accountHistory
<1>6. \A u \in Users : AccountSound(u)'
  BY DEF AccountsInv, AccountSound, Member, office, accountTables, accountHistory
<1>7. ASSUME ~overlapped', NEW u \in Users
      PROVE  AccountInStep(u)'
  <2>1. AccountInStep(u) /\ \A v \in Workers : task[v] = Idle
    BY <1>1, <1>7 DEF AccountsInv
  <2>. QED
    BY <2>1 DEF AccountInStep, Member, Active, Idle, office, accountTables, accountHistory
<1>. QED
  BY <1>1, <1>4, <1>5, <1>6, <1>7 DEF AccountsInv

LEMMA LoginSound ==
    ASSUME AccountsInv, NEW w \in Workers, NEW u \in Users, NEW given \in Passwords,
           Login(w, u, given)
    PROVE  AccountsInv'
<1>1. PICK r : r = IF given # accounts[u].password
                     THEN [op |-> "fail", user |-> u, attempts |-> accounts[u].attempts]
                   ELSE IF accounts[u].stale
                     THEN [op |-> "rehash", user |-> u, password |-> given]
                   ELSE IF u \in SecondFactor
                     THEN [op |-> "challenge", user |-> u]
                     ELSE [op |-> "clear", user |-> u, next |-> "open"]
  OBVIOUS
<1>2. Begin(w, r) /\ UNCHANGED office
  BY <1>1 DEF Login, AfterPassword
<1>3. u \in Member /\ accounts[u].attempts \in Nat
  BY MembersHaveAccounts DEF Login, AccountsInv, Account
<1>4. r \in AccountsTask
  BY <1>1, <1>3 DEF AccountsTask
<1>5. Sound(r)
  BY <1>1, <1>3 DEF Sound
<1>6. Fresh(r)
  BY <1>1 DEF Fresh, Login
<1>. QED
  BY <1>2, <1>4, <1>5, <1>6, AccountsRequestBegins

LEMMA VerifyTotpSound ==
    ASSUME AccountsInv, NEW w \in Workers, NEW u \in Users, NEW code \in Counters \cup {None},
           VerifyTotp(w, u, code)
    PROVE  AccountsInv'
<1>1. PICK r : r = IF code \in Counters /\ code > accounts[u].lastCounter
                     THEN [op |-> "totp", user |-> u, counter |-> code]
                     ELSE [op |-> "fail", user |-> u, attempts |-> accounts[u].attempts]
  OBVIOUS
<1>2. Begin(w, r) /\ UNCHANGED office
  BY <1>1 DEF VerifyTotp, CodeIsRight
<1>3. u \in Member /\ accounts[u].attempts \in Nat /\ Active(u)
  BY MembersHaveAccounts DEF VerifyTotp, Active, AccountsInv, Account
<1>4. r \in AccountsTask
  BY <1>1, <1>3 DEF AccountsTask
<1>5. Sound(r)
  BY <1>1, <1>3 DEF Sound
<1>6. Fresh(r)
  BY <1>1, <1>3 DEF Fresh
<1>. QED
  BY <1>2, <1>4, <1>5, <1>6, AccountsRequestBegins

LEMMA VerifyRecoverySound ==
    ASSUME AccountsInv, NEW w \in Workers, NEW u \in Users, VerifyRecoveryLoad(w, u)
    PROVE  AccountsInv'
<1>1. PICK r : r = [op |-> "recovery", user |-> u, attempts |-> accounts[u].attempts]
  OBVIOUS
<1>2. Begin(w, r) /\ UNCHANGED office
  BY <1>1 DEF VerifyRecoveryLoad
<1>3. u \in Member /\ accounts[u].attempts \in Nat /\ Active(u)
  BY MembersHaveAccounts DEF VerifyRecoveryLoad, Active, AccountsInv, Account
<1>4. r \in AccountsTask
  BY <1>1, <1>3 DEF AccountsTask
<1>5. Sound(r) /\ Fresh(r)
  BY <1>1, <1>3 DEF Sound, Fresh
<1>. QED
  BY <1>2, <1>4, <1>5, AccountsRequestBegins

LEMMA PasswordLoadsSound ==
    ASSUME AccountsInv, NEW w \in Workers, NEW new \in Passwords,
           \/ \E u \in Users, current \in Passwords : ChangePasswordLoad(w, u, current, new)
           \/ \E link \in ResetLinks : ResetPasswordLoad(w, link, new)
    PROVE  AccountsInv'
<1>1. CASE \E u \in Users, current \in Passwords : ChangePasswordLoad(w, u, current, new)
  <2>1. PICK u \in Users, current \in Passwords : ChangePasswordLoad(w, u, current, new)
    BY <1>1
  <2>2. PICK r : r = [op |-> "change", user |-> u, password |-> new]
    OBVIOUS
  <2>3. Begin(w, r) /\ UNCHANGED office /\ u \in Member
    BY <2>1, <2>2 DEF ChangePasswordLoad, Served, Active
  <2>4. r \in AccountsTask /\ Sound(r) /\ Fresh(r)
    BY <2>2, <2>3 DEF AccountsTask, Sound, Fresh
  <2>. QED
    BY <2>3, <2>4, AccountsRequestBegins
<1>2. CASE \E link \in ResetLinks : ResetPasswordLoad(w, link, new)
  <2>1. PICK link \in ResetLinks : ResetPasswordLoad(w, link, new)
    BY <1>2
  <2>2. PICK r : r = [op |-> "reset", user |-> resetLinks[link].user, link |-> link,
                      password |-> new]
    OBVIOUS
  <2>3. Begin(w, r) /\ UNCHANGED office
    BY <2>1, <2>2 DEF ResetPasswordLoad
  <2>4. resetLinks[link] # Absent /\ resetLinks[link].user \in Member
    BY <2>1 DEF ResetPasswordLoad, Active
  <2>5. r \in AccountsTask /\ Sound(r) /\ Fresh(r)
    BY <2>2, <2>4 DEF AccountsTask, Sound, Fresh, Member
  <2>. QED
    BY <2>3, <2>5, AccountsRequestBegins
<1>. QED
  BY <1>1, <1>2

\* HighestRank is the rank of a role held, and no role held ranks above it.
LEMMA HighestRankIs ==
    ASSUME NEW account, account.roles \in SUBSET RoleKeys
    PROVE  /\ HighestRank(account) \in Nat
           /\ \A role \in account.roles : Rank[role] <= HighestRank(account)
           /\ account.roles = {} => HighestRank(account) = 0
           /\ account.roles # {} => \E role \in account.roles : HighestRank(account) = Rank[role]
<1>. DEFINE ranks == {Rank[role] : role \in account.roles}
            top == CHOOSE r \in ranks : \A role \in account.roles : Rank[role] <= r
<1>1. \A role \in account.roles : Rank[role] \in {100, 80, 70, 60, 50, 10, 5}
  BY DEF RoleKeys, Rank
<1>2. CASE account.roles = {}
  BY <1>2 DEF HighestRank
<1>3. CASE account.roles # {}
  <2>1. \E r \in ranks : \A x \in ranks : x <= r
    <3>. HIDE DEF ranks
    <3>1. \A x \in ranks : x \in {100, 80, 70, 60, 50, 10, 5}
      BY <1>1 DEF ranks
    <3>2. ranks # {}
      BY <1>3 DEF ranks
    <3>. QED
      BY <3>1, <3>2
  <2>2. \E r \in ranks : \A role \in account.roles : Rank[role] <= r
    BY <2>1
  <2>3. top \in ranks /\ \A role \in account.roles : Rank[role] <= top
    BY <2>2
  <2>4. HighestRank(account) = top
    BY <1>3 DEF HighestRank
  <2>. HIDE DEF top
  <2>. QED
    BY <1>1, <1>3, <2>3, <2>4
<1>. QED
  BY <1>2, <1>3

\* Who acts for another may hand down no more than somebody had from the start.
LEMMA HandsDown ==
    ASSUME AccountsInv, NEW a \in Users, NEW role \in Roles, a \in Member, MayGrantRank(a, role),
           accounts[a].roles # {}
    PROVE  Rank[role] <= ceiling
<1>1. accounts[a].roles \in SUBSET RoleKeys
  BY MembersHaveAccounts, AccountsAssumption DEF AccountsInv, Account
<1>2. PICK top \in accounts[a].roles : HighestRank(accounts[a]) = Rank[top]
  BY <1>1, HighestRankIs
<1>3. Rank[top] <= ceiling /\ ceiling \in Nat
  BY DEF AccountsInv, AccountSound
<1>4. Rank[role] <= Rank[top]
  BY <1>2 DEF MayGrantRank
<1>5. \A r \in RoleKeys : Rank[r] \in Nat
  BY DEF RoleKeys, Rank
<1>. QED
  BY <1>1, <1>3, <1>4, <1>5, AccountsAssumption

\* Who may call a route of user administration holds a role.
LEMMA ManagersHoldRoles ==
    ASSUME NEW a, NEW handler, MayManage(a, handler)
    PROVE  a \in Member /\ accounts[a].roles # {}
  BY DEF MayManage, Served, Active, PermissionsForRoles

LEMMA CreateUserLoadSound ==
    ASSUME AccountsInv, NEW w \in Workers, NEW a \in Users, NEW u \in Users,
           NEW roles \in RoleSets, CreateUserLoad(w, a, u, roles)
    PROVE  AccountsInv'
<1>1. a \in Member /\ accounts[a].roles # {}
  BY ManagersHoldRoles DEF CreateUserLoad
<1>2. accounts[a] \in Account
  BY <1>1, MembersHaveAccounts DEF AccountsInv
<1>3. PICK p \in Passwords : p = CHOOSE q \in Passwords : TRUE
  BY <1>2 DEF Account
<1>4. PICK school \in TargetSchools(a) :
        Begin(w, [op |-> "create", user |-> u, roles |-> roles,
                  row |-> [status |-> "INVITED", version |-> 0, school |-> school,
                           isSystemAdministrator |-> FALSE, roles |-> {},
                           password |-> p, stale |-> FALSE, attempts |-> 0,
                           locked |-> FALSE, lastCounter |-> 0, recovery |-> FALSE]])
  BY <1>3 DEF CreateUserLoad
<1>5. school \in Schools \cup {None}
  BY <1>2, <1>4 DEF TargetSchools, Account
<1>6. PICK row : row = [status |-> "INVITED", version |-> 0, school |-> school,
                        isSystemAdministrator |-> FALSE, roles |-> {},
                        password |-> p, stale |-> FALSE, attempts |-> 0,
                        locked |-> FALSE, lastCounter |-> 0, recovery |-> FALSE]
  OBVIOUS
<1>7. row \in Account
  BY <1>5, <1>6 DEF Account
<1>8. PICK r : r = [op |-> "create", user |-> u, roles |-> roles, row |-> row]
  OBVIOUS
<1>9. Begin(w, r) /\ UNCHANGED office
  BY <1>4, <1>6, <1>8 DEF CreateUserLoad
<1>10. roles \subseteq Roles
  BY AccountsAssumption
<1>11. r \in AccountsTask
  BY <1>7, <1>8, <1>10 DEF AccountsTask
<1>12. ceiling \in Nat
  BY <1>1 DEF AccountsInv, AccountSound
<1>13. \A role \in roles : Rank[role] <= ceiling
  BY <1>1, <1>10, HandsDown DEF CreateUserLoad
<1>14. Sound(r)
  BY <1>6, <1>8, <1>12, <1>13 DEF Sound
<1>15. Fresh(r)
  BY <1>8 DEF Fresh
<1>. QED
  BY <1>9, <1>11, <1>14, <1>15, AccountsRequestBegins

LEMMA RoleLoadsSound ==
    ASSUME AccountsInv, NEW w \in Workers, NEW a \in Users, NEW u \in Users, NEW role \in Roles,
           GrantLoad(w, a, u, role) \/ RevokeLoad(w, a, u, role)
    PROVE  AccountsInv'
<1>0. a \in Member /\ accounts[a].roles # {}
  BY ManagersHoldRoles DEF GrantLoad, RevokeLoad
<1>1. CASE GrantLoad(w, a, u, role)
  <2>1. PICK r : r = [op |-> "grant", user |-> u, roles |-> {role}]
    OBVIOUS
  <2>2. Begin(w, r) /\ UNCHANGED office /\ u \in Member
    BY <1>1, <2>1 DEF GrantLoad, MayActOn
  <2>3. Rank[role] <= ceiling /\ ceiling \in Nat
    BY <1>0, <1>1, HandsDown DEF GrantLoad, AccountsInv, AccountSound
  <2>4. r \in AccountsTask
    BY <2>1 DEF AccountsTask
  <2>5. Sound(r) /\ Fresh(r)
    BY <2>1, <2>2, <2>3 DEF Sound, Fresh
  <2>. QED
    BY <2>2, <2>4, <2>5, AccountsRequestBegins
<1>2. CASE RevokeLoad(w, a, u, role)
  <2>1. PICK r : r = [op |-> "ungrant", user |-> u, role |-> role]
    OBVIOUS
  <2>2. Begin(w, r) /\ UNCHANGED office /\ u \in Member
    BY <1>2, <2>1 DEF RevokeLoad, MayActOn
  <2>3. r \in AccountsTask /\ Sound(r) /\ Fresh(r)
    BY <2>1, <2>2 DEF AccountsTask, Sound, Fresh
  <2>. QED
    BY <2>2, <2>3, AccountsRequestBegins
<1>. QED
  BY <1>1, <1>2

LEMMA StatusLoadsSound ==
    ASSUME AccountsInv, NEW w \in Workers, NEW a \in Users, NEW u \in Users,
           \/ UnlockLoad(w, a, u)
           \/ \E status \in {"ACTIVE", "SUSPENDED", "DISABLED"} : SetStatusLoad(w, a, u, status)
    PROVE  AccountsInv'
<1>1. CASE UnlockLoad(w, a, u)
  <2>1. PICK r : r = [op |-> "unlock", user |-> u]
    OBVIOUS
  <2>2. Begin(w, r) /\ UNCHANGED office /\ u \in Member
    BY <1>1, <2>1 DEF UnlockLoad, MayActOn
  <2>3. r \in AccountsTask /\ Sound(r) /\ Fresh(r)
    BY <2>1, <2>2 DEF AccountsTask, Sound, Fresh
  <2>. QED
    BY <2>2, <2>3, AccountsRequestBegins
<1>2. CASE \E status \in {"ACTIVE", "SUSPENDED", "DISABLED"} : SetStatusLoad(w, a, u, status)
  <2>1. PICK status \in {"ACTIVE", "SUSPENDED", "DISABLED"} : SetStatusLoad(w, a, u, status)
    BY <1>2
  <2>2. PICK r : r = [op |-> "setStatus", user |-> u, status |-> status,
                      expectedVersion |-> accounts[u].version]
    OBVIOUS
  <2>3. Begin(w, r) /\ UNCHANGED office /\ u \in Member
    BY <2>1, <2>2 DEF SetStatusLoad, MayActOn
  <2>4. accounts[u].version \in Nat
    BY <2>3, MembersHaveAccounts DEF AccountsInv, Account
  <2>5. r \in AccountsTask
    BY <2>2, <2>4 DEF AccountsTask
  <2>6. Sound(r) /\ Fresh(r)
    BY <2>2, <2>3 DEF Sound, Fresh
  <2>. QED
    BY <2>3, <2>5, <2>6, AccountsRequestBegins
<1>. QED
  BY <1>1, <1>2

\* A request that goes on, at one account.
LEMMA AccountsRequestGoesOn ==
    ASSUME AccountsInv, NEW w \in Workers, NEW request, Proceed(w, request), task[w] # Idle,
           Keeps, Goes(request)', AccountsTypeOK', HistoryOK', LinksInOrder',
           NEW u \in Users, task[w].op = "revoke" => task[w].user = u,
           \A v \in Users \ {u} :
               /\ accounts'[v] = accounts[v] /\ chosen'[v] = chosen[v]
               /\ guesses'[v] = guesses[v] /\ accepted'[v] = accepted[v]
               /\ replayed'[v] = replayed[v]
               /\ v \in signedIn' \ cutShort' => v \in signedIn \ cutShort,
           AccountSound(u)', ~overlapped => AccountInStep(u)'
    PROVE  AccountsInv'
<1>1. /\ OneWay'
      /\ task' = [v \in Workers |-> IF v = w THEN request ELSE task[v]]
      /\ overlapped' = overlapped
      /\ ~overlapped => \A v \in Workers \ {w} : task[v] = Idle
  BY ProceedsAlone DEF AccountsInv
<1>2. /\ \A v \in Workers : task'[v] \in AccountsTask \cup {Idle}
      /\ RequestsSound'
      /\ RequestsFresh'
  BY <1>1, RequestsGoOn
<1>3. ASSUME NEW v \in Users
      PROVE  AccountSound(v)'
  <2>1. CASE v = u
    BY <2>1
  <2>2. CASE v # u
    BY <2>2 DEF AccountsInv, AccountSound, Member, Keeps
  <2>. QED
    BY <2>1, <2>2
<1>4. ASSUME ~overlapped', NEW v \in Users
      PROVE  AccountInStep(v)'
  <2>1. CASE v = u
    BY <1>1, <1>4, <2>1
  <2>2. CASE v # u
    <3>1. AccountInStep(v)
      BY <1>1, <1>4 DEF AccountsInv
    <3>2. (\E x \in Workers : task[x].op = "revoke" /\ task[x].user = v) => FALSE
      BY <1>1, <1>4, <2>2 DEF Idle
    <3>3. v \in signedIn' \ cutShort' => Active(v)
      BY <2>2, <3>1, <3>2 DEF AccountInStep
    <3>4. Active(v) => Active(v)'
      BY <2>2 DEF Active, Member
    <3>5. v \in Member' <=> v \in Member
      BY <2>2 DEF Member
    <3>. QED
      BY <2>2, <3>1, <3>3, <3>4, <3>5 DEF AccountInStep
  <2>. QED
    BY <2>1, <2>2
<1>. QED
  BY <1>1, <1>2, <1>3, <1>4 DEF AccountsInv

\* What is known of the request that takes a step.
LEMMA AtTask ==
    ASSUME AccountsInv, NEW w \in Workers, task[w] # Idle
    PROVE  /\ task[w] \in AccountsTask
           /\ task[w].user \in Users
           /\ Sound(task[w])
           /\ ~overlapped => Fresh(task[w])
           /\ ~overlapped => \A v \in Workers \ {w} : task[v] = Idle
  BY DEF AccountsInv, RequestsSound, RequestsFresh, OneWay, OneAtMost, AccountsTask

\* What is kept of the history of one account is written.
HistoryWritten(u, n, p, A, R) ==
    /\ n \in Nat /\ guesses' = [guesses EXCEPT ![u] = n]
    /\ p \in Passwords \cup {None} /\ chosen' = [chosen EXCEPT ![u] = p]
    /\ A \in SUBSET (Counters \cup {Recovery}) /\ accepted' = [accepted EXCEPT ![u] = A]
    /\ R \in SUBSET (Counters \cup {Recovery}) /\ replayed' = [replayed EXCEPT ![u] = R]

\* A request that goes on and writes one account, and the history of it.
LEMMA AccountWritten ==
    ASSUME AccountsInv, NEW w \in Workers, NEW request, Proceed(w, request), task[w] # Idle,
           task[w].op # "revoke", Goes(request)',
           NEW u \in Member, NEW a \in Account, accounts' = [accounts EXCEPT ![u] = a],
           \A role \in a.roles : Rank[role] <= ceiling,
           NEW n, NEW p, NEW A, NEW R, HistoryWritten(u, n, p, A, R),
           Recovery \notin R, a.recovery => Recovery \notin A,
           UNCHANGED <<signedIn, challenged, ceiling, cutShort>>,
           resetLinks' \in [ResetLinks -> ResetLink \cup {Absent}],
           honoured' \in [ResetLinks -> Nat], LinksInOrder',
           \A l \in ResetLinks : resetLinks[l] # Absent =>
               resetLinks'[l] # Absent /\ resetLinks'[l].user = resetLinks[l].user,
           ~overlapped =>
               /\ R = {} /\ a.password = p /\ n <= a.attempts /\ n < MaxAttempts
               /\ \A code \in A : code <= a.lastCounter
               /\ \/ a.status \in {"ACTIVE", accounts[u].status}
                  \/ request.op = "revoke" /\ request.user = u
    PROVE  AccountsInv'
<1>. u \in Users /\ accounts[u] \in Account
  BY MembersHaveAccounts DEF Member, AccountsInv
<1>. USE DEF HistoryWritten
<1>1. /\ accounts'[u] = a /\ guesses'[u] = n /\ chosen'[u] = p /\ accepted'[u] = A
      /\ replayed'[u] = R
      /\ \A v \in Users \ {u} :
            /\ accounts'[v] = accounts[v] /\ chosen'[v] = chosen[v]
            /\ guesses'[v] = guesses[v] /\ accepted'[v] = accepted[v]
            /\ replayed'[v] = replayed[v]
  BY DEF AccountsInv, AccountsTypeOK, HistoryOK
<1>2. AccountsTypeOK'
  BY DEF AccountsInv, AccountsTypeOK
<1>3. Member' = Member
  BY <1>1, AccountIsThere DEF Member
<1>4. Keeps
  BY <1>3 DEF Keeps
<1>5. HistoryOK'
  <2>1. guesses' \in [Users -> Nat]
    BY DEF HistoryOK, AccountsInv
  <2>2. accepted' \in [Users -> SUBSET (Counters \cup {Recovery})]
    BY DEF HistoryOK, AccountsInv
  <2>3. replayed' \in [Users -> SUBSET (Counters \cup {Recovery})]
    BY DEF HistoryOK, AccountsInv
  <2>. QED
    BY <1>3, <2>1, <2>2, <2>3 DEF HistoryOK, AccountsInv
<1>6. ceiling \in Nat
  BY DEF AccountsInv, AccountSound
<1>7. AccountSound(u)'
  BY <1>1, <1>3, <1>6 DEF AccountSound
<1>8. ASSUME ~overlapped
      PROVE  AccountInStep(u)'
  <2>1. AccountInStep(u) /\ \A v \in Workers \ {w} : task[v] = Idle
    BY <1>8, AtTask DEF AccountsInv
  <2>2. u \in signedIn \ cutShort => accounts[u].status = "ACTIVE"
    BY <2>1 DEF AccountInStep, Active, Idle
  <2>3. task'[w] = request
    BY ProceedsAlone DEF AccountsInv
  <2>4. (u \in signedIn \ cutShort =>
            Active(u) \/ \E v \in Workers : task[v].op = "revoke" /\ task[v].user = u)'
    BY <1>1, <1>3, <1>8, <2>2, <2>3 DEF Active
  <2>. QED
    BY <1>1, <1>3, <1>8, <2>4 DEF AccountInStep
<1>9. \A v \in Users \ {u} : v \in signedIn' \ cutShort' => v \in signedIn \ cutShort
  OBVIOUS
<1>. QED
  BY <1>1, <1>2, <1>4, <1>5, <1>7, <1>8, <1>9, AccountsRequestGoesOn

\* What stays as it is, written as if it were written.
LEMMA WrittenAsItWas ==
    ASSUME AccountsInv, NEW u \in Users
    PROVE  /\ guesses = [guesses EXCEPT ![u] = guesses[u]] /\ guesses[u] \in Nat
           /\ chosen = [chosen EXCEPT ![u] = chosen[u]] /\ chosen[u] \in Passwords \cup {None}
           /\ accepted = [accepted EXCEPT ![u] = accepted[u]]
           /\ accepted[u] \in SUBSET (Counters \cup {Recovery})
           /\ replayed = [replayed EXCEPT ![u] = replayed[u]]
           /\ replayed[u] \in SUBSET (Counters \cup {Recovery})
  BY DEF AccountsInv, AccountsTypeOK, HistoryOK

\* Links that a step leaves alone.
LEMMA LinksAsTheyWere ==
    ASSUME AccountsInv, UNCHANGED <<resetLinks, honoured>>
    PROVE  /\ resetLinks' \in [ResetLinks -> ResetLink \cup {Absent}]
           /\ honoured' \in [ResetLinks -> Nat]
           /\ LinksInOrder'
           /\ \A l \in ResetLinks : resetLinks[l] # Absent =>
                  resetLinks'[l] # Absent /\ resetLinks'[l].user = resetLinks[l].user
  BY DEF AccountsInv, AccountsTypeOK, LinksInOrder

LEMMA FailedAttemptSound ==
    ASSUME AccountsInv, NEW w \in Workers, FailedAttempt(w)
    PROVE  AccountsInv'
<1>1. PICK t : t = task[w]
  OBVIOUS
<1>2. /\ task[w] # Idle /\ task[w].op # "revoke" /\ t.op = "fail"
      /\ t.user \in Member /\ t.attempts \in Nat
      /\ ~overlapped => t.attempts = accounts[t.user].attempts
  BY <1>1, AtTask DEF FailedAttempt, AccountsTask, Sound, Fresh, Idle
<1>3. PICK u \in Member, n \in Nat : u = t.user /\ n = t.attempts + 1
  BY <1>2
<1>4. accounts[u] \in Account /\ u \in Users
  BY <1>3, MembersHaveAccounts DEF AccountsInv, Member
<1>5. PICK a : a = [accounts[u] EXCEPT !.attempts = n, !.locked = @ \/ n >= MaxAttempts]
  OBVIOUS
<1>6. a \in Account /\ a.attempts = n /\ a.roles = accounts[u].roles
      /\ a.password = accounts[u].password /\ a.recovery = accounts[u].recovery
      /\ a.status = accounts[u].status /\ a.lastCounter = accounts[u].lastCounter
  BY <1>3, <1>4, <1>5 DEF Account
<1>7. accounts' = [accounts EXCEPT ![u] = a]
  BY <1>1, <1>3, <1>5 DEF FailedAttempt, AccountsInv, AccountsTypeOK
<1>8. PICK m \in Nat : m = IF n >= MaxAttempts THEN 0 ELSE guesses[u] + 1
  BY <1>4, WrittenAsItWas
<1>9. guesses' = [guesses EXCEPT ![u] = m]
  BY <1>1, <1>3, <1>8 DEF FailedAttempt
<1>10. AccountSound(u) /\ (~overlapped => AccountInStep(u))
  BY <1>4 DEF AccountsInv
<1>11. ~overlapped => m <= a.attempts /\ m < MaxAttempts
  BY <1>2, <1>3, <1>4, <1>6, <1>8, <1>10, WrittenAsItWas, AccountsAssumption DEF AccountInStep, Account
<1>12. ~overlapped => /\ replayed[u] = {} /\ a.password = chosen[u]
                      /\ \A code \in accepted[u] : code <= a.lastCounter
  BY <1>6, <1>10 DEF AccountInStep
<1>13. Goes(Idle)' /\ Proceed(w, Idle)
  BY DEF Goes, FailedAttempt, Finish
<1>14. /\ Recovery \notin replayed[u] /\ (a.recovery => Recovery \notin accepted[u])
       /\ \A role \in a.roles : Rank[role] <= ceiling
  BY <1>6, <1>10 DEF AccountSound
<1>15. PICK p \in Passwords \cup {None}, A \in SUBSET (Counters \cup {Recovery}),
            R \in SUBSET (Counters \cup {Recovery}) :
         p = chosen[u] /\ A = accepted[u] /\ R = replayed[u]
  BY <1>4, WrittenAsItWas
<1>16. HistoryWritten(u, m, p, A, R)
  BY <1>4, <1>9, <1>15, WrittenAsItWas DEF FailedAttempt, HistoryWritten
<1>17. UNCHANGED <<signedIn, challenged, ceiling, cutShort>>
  BY DEF FailedAttempt
<1>20. /\ resetLinks' \in [ResetLinks -> ResetLink \cup {Absent}]
       /\ honoured' \in [ResetLinks -> Nat]
       /\ LinksInOrder'
       /\ \A l \in ResetLinks : resetLinks[l] # Absent =>
              resetLinks'[l] # Absent /\ resetLinks'[l].user = resetLinks[l].user
  BY LinksAsTheyWere DEF FailedAttempt
<1>18. Recovery \notin R /\ (a.recovery => Recovery \notin A)
       /\ \A role \in a.roles : Rank[role] <= ceiling
  BY <1>14, <1>15
<1>19. ~overlapped =>
               /\ R = {} /\ a.password = p /\ m <= a.attempts /\ m < MaxAttempts
               /\ \A code \in A : code <= a.lastCounter
               /\ \/ a.status \in {"ACTIVE", accounts[u].status}
                  \/ Idle.op = "revoke" /\ Idle.user = u
  BY <1>6, <1>11, <1>12, <1>15
<1>21. a \in Account
  BY <1>6
<1>. QED
  BY <1>2, <1>3, <1>7, <1>13, <1>16, <1>17, <1>18, <1>19, <1>20, <1>21, AccountWritten,
     ZenonT(60)

\* A request that writes an account and nothing that is kept of its history.
LEMMA OnlyAccountWritten ==
    ASSUME AccountsInv, NEW w \in Workers, NEW request, Proceed(w, request), task[w] # Idle,
           task[w].op # "revoke", Goes(request)',
           NEW u \in Member, NEW a \in Account, accounts' = [accounts EXCEPT ![u] = a],
           UNCHANGED <<signedIn, challenged, resetLinks, accountHistory>>,
           \A role \in a.roles : Rank[role] <= ceiling,
           a.recovery => accounts[u].recovery,
           ~overlapped =>
               /\ a.password = accounts[u].password
               /\ a.attempts = accounts[u].attempts
               /\ a.lastCounter = accounts[u].lastCounter
               /\ \/ a.status \in {"ACTIVE", accounts[u].status}
                  \/ request.op = "revoke" /\ request.user = u
    PROVE  AccountsInv'
<1>1. u \in Users /\ AccountSound(u) /\ (~overlapped => AccountInStep(u))
  BY DEF Member, AccountsInv
<1>2. PICK n \in Nat, p \in Passwords \cup {None}, A \in SUBSET (Counters \cup {Recovery}),
           R \in SUBSET (Counters \cup {Recovery}) :
        n = guesses[u] /\ p = chosen[u] /\ A = accepted[u] /\ R = replayed[u]
  BY <1>1, WrittenAsItWas
<1>3. HistoryWritten(u, n, p, A, R)
  BY <1>1, <1>2, WrittenAsItWas DEF accountHistory, HistoryWritten
<1>4. Recovery \notin R /\ (a.recovery => Recovery \notin A)
  BY <1>1, <1>2 DEF AccountSound
<1>5. UNCHANGED <<signedIn, challenged, ceiling, cutShort>>
  BY DEF accountHistory
<1>6. /\ resetLinks' \in [ResetLinks -> ResetLink \cup {Absent}]
      /\ honoured' \in [ResetLinks -> Nat]
      /\ LinksInOrder'
      /\ \A l \in ResetLinks : resetLinks[l] # Absent =>
             resetLinks'[l] # Absent /\ resetLinks'[l].user = resetLinks[l].user
  BY LinksAsTheyWere DEF accountHistory
<1>7. ~overlapped =>
          /\ R = {} /\ a.password = p /\ n <= a.attempts /\ n < MaxAttempts
          /\ \A code \in A : code <= a.lastCounter
          /\ \/ a.status \in {"ACTIVE", accounts[u].status}
             \/ request.op = "revoke" /\ request.user = u
  BY <1>1, <1>2 DEF AccountInStep
<1>. QED
  BY <1>3, <1>4, <1>5, <1>6, <1>7, AccountWritten, ZenonT(60)

LEMMA RehashSound ==
    ASSUME AccountsInv, NEW w \in Workers, Rehash(w)
    PROVE  AccountsInv'
<1>1. PICK t : t = task[w]
  OBVIOUS
<1>2. /\ task[w] # Idle /\ task[w].op # "revoke" /\ t.op = "rehash"
      /\ t.user \in Member /\ t.password \in Passwords
      /\ ~overlapped => t.password = accounts[t.user].password /\ Active(t.user)
  BY <1>1, AtTask DEF Rehash, AccountsTask, Sound, Fresh, Idle
<1>3. PICK u \in Member : u = t.user
  BY <1>2
<1>4. accounts[u] \in Account /\ u \in Users
  BY <1>3, MembersHaveAccounts DEF AccountsInv, Member
<1>5. PICK a : a = [accounts[u] EXCEPT !.password = t.password, !.stale = FALSE]
  OBVIOUS
<1>6. a \in Account /\ a.attempts = accounts[u].attempts /\ a.roles = accounts[u].roles
      /\ a.password = t.password /\ a.recovery = accounts[u].recovery
      /\ a.status = accounts[u].status /\ a.lastCounter = accounts[u].lastCounter
  BY <1>2, <1>4, <1>5 DEF Account
<1>7. accounts' = [accounts EXCEPT ![u] = a] /\ a \in Account
  BY <1>1, <1>3, <1>5, <1>6 DEF Rehash, AccountsInv, AccountsTypeOK
<1>8. PICK r : r = IF u \in SecondFactor
                      THEN [op |-> "challenge", user |-> u]
                      ELSE [op |-> "clear", user |-> u, next |-> "open"]
  OBVIOUS
<1>9. Proceed(w, r)
  BY <1>1, <1>3, <1>8 DEF Rehash, AfterPassword
<1>10. u \in Member' /\ accounts'[u] = a
  BY <1>4, <1>7, AccountIsThere DEF Member, AccountsInv, AccountsTypeOK
<1>11. r \in AccountsTask /\ Sound(r)'
  BY <1>4, <1>8, <1>10 DEF AccountsTask, Sound
<1>12. ~overlapped' => Fresh(r)'
  BY <1>2, <1>3, <1>6, <1>8, <1>9, <1>10 DEF Fresh, Active, Proceed
<1>13. Goes(r)'
  BY <1>11, <1>12 DEF Goes
<1>14. UNCHANGED <<signedIn, challenged, resetLinks, accountHistory>>
  BY DEF Rehash
<1>15. (\A role \in a.roles : Rank[role] <= ceiling) /\ (a.recovery => accounts[u].recovery)
  BY <1>4, <1>6 DEF AccountsInv, AccountSound
<1>16. ~overlapped =>
               /\ a.password = accounts[u].password
               /\ a.attempts = accounts[u].attempts
               /\ a.lastCounter = accounts[u].lastCounter
               /\ \/ a.status \in {"ACTIVE", accounts[u].status}
                  \/ r.op = "revoke" /\ r.user = u
  BY <1>2, <1>3, <1>6
<1>. QED
  BY <1>2, <1>7, <1>9, <1>13, <1>14, <1>15, <1>16, OnlyAccountWritten

LEMMA GrantRoleSound ==
    ASSUME AccountsInv, NEW w \in Workers, GrantRole(w)
    PROVE  AccountsInv'
<1>1. PICK t : t = task[w]
  OBVIOUS
<1>2. /\ task[w] # Idle /\ task[w].op # "revoke" /\ t.op = "grant"
      /\ t.user \in Member /\ t.roles \in SUBSET Roles /\ ceiling \in Nat
      /\ \A role \in t.roles : Rank[role] <= ceiling
      /\ t = [op |-> "grant", user |-> t.user, roles |-> t.roles]
  BY <1>1, AtTask DEF GrantRole, AccountsTask, Sound, Idle
<1>3. PICK u \in Member : u = t.user
  BY <1>2
<1>4. accounts[u] \in Account /\ u \in Users
  BY <1>3, MembersHaveAccounts DEF AccountsInv, Member
<1>5. PICK role \in t.roles \ accounts[u].roles :
         /\ accounts' = [accounts EXCEPT ![u].roles = @ \cup {role}]
         /\ IF t.roles = {role}
              THEN Finish(w)
              ELSE Proceed(w, [t EXCEPT !.roles = @ \ {role}])
  BY <1>1, <1>3 DEF GrantRole
<1>6. PICK a : a = [accounts[u] EXCEPT !.roles = @ \cup {role}]
  OBVIOUS
<1>7. a \in Account /\ a.attempts = accounts[u].attempts /\ a.roles = accounts[u].roles \cup {role}
      /\ a.password = accounts[u].password /\ a.recovery = accounts[u].recovery
      /\ a.status = accounts[u].status /\ a.lastCounter = accounts[u].lastCounter
  BY <1>2, <1>4, <1>5, <1>6 DEF Account
<1>8. accounts' = [accounts EXCEPT ![u] = a] /\ a \in Account
  BY <1>5, <1>6, <1>7 DEF AccountsInv, AccountsTypeOK
<1>9. PICK r : r = IF t.roles = {role} THEN Idle
                   ELSE [op |-> "grant", user |-> u, roles |-> t.roles \ {role}]
  OBVIOUS
<1>10. Proceed(w, r)
  BY <1>2, <1>3, <1>5, <1>9 DEF Finish
<1>11. u \in Member' /\ accounts'[u] = a
  BY <1>4, <1>8, AccountIsThere DEF Member, AccountsInv, AccountsTypeOK
<1>12. UNCHANGED <<signedIn, challenged, resetLinks, accountHistory>>
  BY DEF GrantRole
<1>13. r = Idle \/ (r \in AccountsTask /\ Sound(r)')
  BY <1>2, <1>4, <1>9, <1>11, <1>12 DEF AccountsTask, Sound, accountHistory
<1>14. Goes(r)'
  BY <1>9, <1>13 DEF Goes, Fresh
<1>15. (\A q \in a.roles : Rank[q] <= ceiling) /\ (a.recovery => accounts[u].recovery)
  BY <1>2, <1>4, <1>7 DEF AccountsInv, AccountSound
<1>16. ~overlapped =>
               /\ a.password = accounts[u].password
               /\ a.attempts = accounts[u].attempts
               /\ a.lastCounter = accounts[u].lastCounter
               /\ \/ a.status \in {"ACTIVE", accounts[u].status}
                  \/ r.op = "revoke" /\ r.user = u
  BY <1>7
<1>. QED
  BY <1>2, <1>8, <1>10, <1>12, <1>14, <1>15, <1>16, OnlyAccountWritten

LEMMA RevokeRoleSound ==
    ASSUME AccountsInv, NEW w \in Workers, RevokeRole(w)
    PROVE  AccountsInv'
<1>1. PICK t : t = task[w]
  OBVIOUS
<1>2. /\ task[w] # Idle /\ task[w].op # "revoke" /\ t.op = "ungrant" /\ t.user \in Member
  BY <1>1, AtTask DEF RevokeRole, AccountsTask, Sound, Idle
<1>3. PICK u \in Member : u = t.user
  BY <1>2
<1>4. accounts[u] \in Account /\ u \in Users
  BY <1>3, MembersHaveAccounts DEF AccountsInv, Member
<1>5. PICK a : a = [accounts[u] EXCEPT !.roles = @ \ {t.role}]
  OBVIOUS
<1>6. a \in Account /\ a.attempts = accounts[u].attempts /\ a.roles \subseteq accounts[u].roles
      /\ a.password = accounts[u].password /\ a.recovery = accounts[u].recovery
      /\ a.status = accounts[u].status /\ a.lastCounter = accounts[u].lastCounter
  BY <1>4, <1>5 DEF Account
<1>7. accounts' = [accounts EXCEPT ![u] = a] /\ a \in Account
  BY <1>1, <1>3, <1>5, <1>6 DEF RevokeRole, AccountsInv, AccountsTypeOK
<1>8. Proceed(w, Idle) /\ UNCHANGED <<signedIn, challenged, resetLinks, accountHistory>>
  BY DEF RevokeRole, Finish
<1>9. Goes(Idle)'
  BY DEF Goes
<1>10. (\A role \in a.roles : Rank[role] <= ceiling) /\ (a.recovery => accounts[u].recovery)
  BY <1>4, <1>6 DEF AccountsInv, AccountSound
<1>11. ~overlapped =>
               /\ a.password = accounts[u].password
               /\ a.attempts = accounts[u].attempts
               /\ a.lastCounter = accounts[u].lastCounter
               /\ \/ a.status \in {"ACTIVE", accounts[u].status}
                  \/ Idle.op = "revoke" /\ Idle.user = u
  BY <1>6
<1>. QED
  BY <1>2, <1>7, <1>8, <1>9, <1>10, <1>11, OnlyAccountWritten

LEMMA SetUserStatusSound ==
    ASSUME AccountsInv, NEW w \in Workers, SetUserStatus(w)
    PROVE  AccountsInv'
<1>1. PICK t : t = task[w]
  OBVIOUS
<1>2. /\ task[w] # Idle /\ task[w].op # "revoke" /\ t.op = "setStatus" /\ t.user \in Member
      /\ t.status \in {"ACTIVE", "SUSPENDED", "DISABLED"}
  BY <1>1, AtTask DEF SetUserStatus, AccountsTask, Sound, Idle
<1>3. PICK u \in Member : u = t.user
  BY <1>2
<1>4. accounts[u] \in Account /\ u \in Users
  BY <1>3, MembersHaveAccounts DEF AccountsInv, Member
<1>5. PICK a : a = [accounts[u] EXCEPT !.status = t.status, !.version = @ + 1]
  OBVIOUS
<1>6. a \in Account /\ a.attempts = accounts[u].attempts /\ a.roles = accounts[u].roles
      /\ a.password = accounts[u].password /\ a.recovery = accounts[u].recovery
      /\ a.status = t.status /\ a.lastCounter = accounts[u].lastCounter
  <2>1. PICK version \in Nat : version = accounts[u].version + 1
    BY <1>4 DEF Account
  <2>2. a = [accounts[u] EXCEPT !.status = t.status, !.version = version]
    BY <1>5, <2>1
  <2>. QED
    BY <1>2, <1>4, <2>2 DEF Account
<1>7. accounts' = [accounts EXCEPT ![u] = a] /\ a \in Account
  BY <1>1, <1>3, <1>5, <1>6 DEF SetUserStatus, AccountsInv, AccountsTypeOK
<1>8. PICK r : r = IF t.status # "ACTIVE" THEN [op |-> "revoke", user |-> u] ELSE Idle
  OBVIOUS
<1>9. Proceed(w, r) /\ UNCHANGED <<signedIn, challenged, resetLinks, accountHistory>>
  BY <1>1, <1>3, <1>8 DEF SetUserStatus, Finish, LosingAccess
<1>10. u \in Member'
  BY <1>4, <1>7, AccountIsThere DEF Member, AccountsInv, AccountsTypeOK
<1>11. Goes(r)'
  BY <1>4, <1>8, <1>10 DEF Goes, AccountsTask, Sound, Fresh
<1>12. (\A role \in a.roles : Rank[role] <= ceiling) /\ (a.recovery => accounts[u].recovery)
  BY <1>4, <1>6 DEF AccountsInv, AccountSound
<1>13. ~overlapped =>
               /\ a.password = accounts[u].password
               /\ a.attempts = accounts[u].attempts
               /\ a.lastCounter = accounts[u].lastCounter
               /\ \/ a.status \in {"ACTIVE", accounts[u].status}
                  \/ r.op = "revoke" /\ r.user = u
  BY <1>6, <1>8
<1>. QED
  BY <1>2, <1>7, <1>9, <1>11, <1>12, <1>13, OnlyAccountWritten

\* The count of an account is set back, and the lock with it.
SetsBack(u) ==
    /\ accounts' = [accounts EXCEPT ![u] = Unlocked(@)]
    /\ guesses' = [guesses EXCEPT ![u] = 0]
    /\ UNCHANGED <<signedIn, challenged, resetLinks, ceiling, chosen, accepted, replayed,
                   honoured, cutShort>>

\* A request that sets the count back.
LEMMA CountSetBack ==
    ASSUME AccountsInv, NEW w \in Workers, NEW request, Proceed(w, request), task[w] # Idle,
           task[w].op # "revoke", Goes(request)', NEW u \in Member, SetsBack(u)
    PROVE  AccountsInv'
<1>1. u \in Users /\ accounts[u] \in Account /\ AccountSound(u) /\ (~overlapped => AccountInStep(u))
  BY MembersHaveAccounts DEF Member, AccountsInv
<1>2. PICK a : a = Unlocked(accounts[u])
  OBVIOUS
<1>3. a \in Account /\ a.attempts = 0 /\ a.roles = accounts[u].roles
      /\ a.password = accounts[u].password /\ a.recovery = accounts[u].recovery
      /\ a.status = accounts[u].status /\ a.lastCounter = accounts[u].lastCounter
  BY <1>1, <1>2 DEF Account, Unlocked
<1>4. accounts' = [accounts EXCEPT ![u] = a]
  BY <1>2 DEF AccountsInv, AccountsTypeOK, SetsBack
<1>5. PICK n \in Nat, p \in Passwords \cup {None}, A \in SUBSET (Counters \cup {Recovery}),
           R \in SUBSET (Counters \cup {Recovery}) :
        n = 0 /\ p = chosen[u] /\ A = accepted[u] /\ R = replayed[u]
  BY <1>1, WrittenAsItWas
<1>6. HistoryWritten(u, n, p, A, R)
  BY <1>1, <1>5, WrittenAsItWas DEF HistoryWritten, SetsBack
<1>7. Recovery \notin R /\ (a.recovery => Recovery \notin A)
      /\ \A role \in a.roles : Rank[role] <= ceiling
  BY <1>1, <1>3, <1>5 DEF AccountSound
<1>8. UNCHANGED <<signedIn, challenged, ceiling, cutShort>>
  BY DEF SetsBack
<1>9. /\ resetLinks' \in [ResetLinks -> ResetLink \cup {Absent}]
      /\ honoured' \in [ResetLinks -> Nat]
      /\ LinksInOrder'
      /\ \A l \in ResetLinks : resetLinks[l] # Absent =>
             resetLinks'[l] # Absent /\ resetLinks'[l].user = resetLinks[l].user
  BY LinksAsTheyWere DEF SetsBack
<1>10. ~overlapped =>
           /\ R = {} /\ a.password = p /\ n <= a.attempts /\ n < MaxAttempts
           /\ \A code \in A : code <= a.lastCounter
           /\ \/ a.status \in {"ACTIVE", accounts[u].status}
              \/ request.op = "revoke" /\ request.user = u
  BY <1>1, <1>3, <1>5, AccountsAssumption DEF AccountInStep
<1>11. a \in Account
  BY <1>3
<1>. QED
  BY <1>4, <1>6, <1>7, <1>8, <1>9, <1>10, <1>11, AccountWritten, ZenonT(60)

LEMMA ClearSound ==
    ASSUME AccountsInv, NEW w \in Workers, ClearFailedAttempts(w)
    PROVE  AccountsInv'
<1>1. PICK t : t = task[w]
  OBVIOUS
<1>2. /\ task[w] # Idle /\ task[w].op # "revoke" /\ t.op = "clear" /\ t.next = "open"
      /\ t.user \in Member /\ (~overlapped => Active(t.user))
  BY <1>1, AtTask DEF ClearFailedAttempts, AccountsTask, Sound, Fresh, Idle
<1>3. PICK u \in Member : u = t.user
  BY <1>2
<1>4. accounts[u] \in Account /\ u \in Users
  BY <1>3, MembersHaveAccounts DEF AccountsInv, Member
<1>5. SetsBack(u)
  BY <1>1, <1>2, <1>3 DEF ClearFailedAttempts, SetsBack
<1>6. PICK r : r = [op |-> "open", user |-> u]
  OBVIOUS
<1>7. Proceed(w, r)
  BY <1>1, <1>2, <1>3, <1>6 DEF ClearFailedAttempts
<1>8. Unlocked(accounts[u]) \in Account /\ Unlocked(accounts[u]).status = accounts[u].status
  BY <1>4 DEF Account, Unlocked
<1>9. accounts'[u] = Unlocked(accounts[u])
  BY <1>4, <1>5 DEF AccountsInv, AccountsTypeOK, SetsBack
<1>10. u \in Member' /\ (Active(u) => Active(u)')
  BY <1>4, <1>8, <1>9, AccountIsThere DEF Member, Active
<1>11. Goes(r)'
  BY <1>2, <1>3, <1>4, <1>6, <1>7, <1>10 DEF Goes, AccountsTask, Sound, Fresh, Proceed
<1>. QED
  BY <1>2, <1>5, <1>7, <1>11, CountSetBack

LEMMA ClearLockoutSound ==
    ASSUME AccountsInv, NEW w \in Workers, ClearLockout(w)
    PROVE  AccountsInv'
<1>1. PICK t : t = task[w]
  OBVIOUS
<1>2. task[w] # Idle /\ task[w].op # "revoke" /\ t.user \in Member
  BY <1>1, AtTask DEF ClearLockout, AccountsTask, Sound, Idle
<1>3. PICK u \in Member : u = t.user
  BY <1>2
<1>4. SetsBack(u)
  BY <1>1, <1>3 DEF ClearLockout, SetsBack
<1>5. Proceed(w, Idle) /\ Goes(Idle)'
  BY DEF ClearLockout, Finish, Goes
<1>. QED
  BY <1>2, <1>4, <1>5, CountSetBack

LEMMA ChangePasswordSound ==
    ASSUME AccountsInv, NEW w \in Workers, ChangePasswordCommit(w)
    PROVE  AccountsInv'
<1>1. PICK t : t = task[w]
  OBVIOUS
<1>2. /\ task[w] # Idle /\ task[w].op # "revoke" /\ t.user \in Member /\ t.password \in Passwords
  BY <1>1, AtTask DEF ChangePasswordCommit, AccountsTask, Sound, Idle
<1>3. PICK u \in Member : u = t.user
  BY <1>2
<1>4. u \in Users /\ accounts[u] \in Account /\ AccountSound(u) /\ (~overlapped => AccountInStep(u))
  BY <1>3, MembersHaveAccounts DEF Member, AccountsInv
<1>5. PICK a : a = [accounts[u] EXCEPT !.password = t.password, !.stale = FALSE]
  OBVIOUS
<1>6. a \in Account /\ a.attempts = accounts[u].attempts /\ a.roles = accounts[u].roles
      /\ a.password = t.password /\ a.recovery = accounts[u].recovery
      /\ a.status = accounts[u].status /\ a.lastCounter = accounts[u].lastCounter
  BY <1>2, <1>4, <1>5 DEF Account
<1>7. accounts' = [accounts EXCEPT ![u] = a] /\ a \in Account
  BY <1>1, <1>3, <1>5, <1>6 DEF ChangePasswordCommit, AccountsInv, AccountsTypeOK
<1>8. PICK n \in Nat, A \in SUBSET (Counters \cup {Recovery}),
           R \in SUBSET (Counters \cup {Recovery}) :
        n = guesses[u] /\ A = accepted[u] /\ R = replayed[u]
  BY <1>4, WrittenAsItWas
<1>9. HistoryWritten(u, n, t.password, A, R)
  BY <1>1, <1>2, <1>3, <1>4, <1>8, WrittenAsItWas DEF HistoryWritten, ChangePasswordCommit
<1>10. Recovery \notin R /\ (a.recovery => Recovery \notin A)
       /\ \A role \in a.roles : Rank[role] <= ceiling
  BY <1>4, <1>6, <1>8 DEF AccountSound
<1>11. UNCHANGED <<signedIn, challenged, ceiling, cutShort>>
  BY DEF ChangePasswordCommit
<1>12. /\ resetLinks' \in [ResetLinks -> ResetLink \cup {Absent}]
       /\ honoured' \in [ResetLinks -> Nat]
       /\ LinksInOrder'
       /\ \A l \in ResetLinks : resetLinks[l] # Absent =>
              resetLinks'[l] # Absent /\ resetLinks'[l].user = resetLinks[l].user
  BY LinksAsTheyWere DEF ChangePasswordCommit
<1>13. ~overlapped =>
           /\ R = {} /\ a.password = t.password /\ n <= a.attempts /\ n < MaxAttempts
           /\ \A code \in A : code <= a.lastCounter
           /\ \/ a.status \in {"ACTIVE", accounts[u].status}
              \/ Idle.op = "revoke" /\ Idle.user = u
  BY <1>4, <1>6, <1>8 DEF AccountInStep
<1>14. Proceed(w, Idle) /\ Goes(Idle)'
  BY DEF ChangePasswordCommit, Finish, Goes
<1>. QED
  BY <1>2, <1>7, <1>9, <1>10, <1>11, <1>12, <1>13, <1>14, AccountWritten, ZenonT(60)

LEMMA RecordCounterSound ==
    ASSUME AccountsInv, NEW w \in Workers, RecordCounter(w)
    PROVE  AccountsInv'
<1>1. PICK t : t = task[w]
  OBVIOUS
<1>2. /\ task[w] # Idle /\ task[w].op # "revoke" /\ t.op = "totp" /\ t.user \in Member
      /\ t.counter \in Counters
      /\ ~overlapped => t.counter > accounts[t.user].lastCounter /\ Active(t.user)
  BY <1>1, AtTask DEF RecordCounter, AccountsTask, Sound, Fresh, Idle
<1>3. PICK u \in Member, c \in Counters : u = t.user /\ c = t.counter
  BY <1>2
<1>4. u \in Users /\ accounts[u] \in Account /\ AccountSound(u) /\ (~overlapped => AccountInStep(u))
  BY <1>3, MembersHaveAccounts DEF Member, AccountsInv
<1>5. PICK a : a = [accounts[u] EXCEPT !.lastCounter = c]
  OBVIOUS
<1>6. c \in Nat /\ c # Recovery
  BY AccountsAssumption DEF Recovery
<1>7. a \in Account /\ a.attempts = accounts[u].attempts /\ a.roles = accounts[u].roles
      /\ a.password = accounts[u].password /\ a.recovery = accounts[u].recovery
      /\ a.status = accounts[u].status /\ a.lastCounter = c
  BY <1>4, <1>5, <1>6 DEF Account
<1>8. accounts' = [accounts EXCEPT ![u] = a] /\ a \in Account
  BY <1>1, <1>3, <1>5, <1>7 DEF RecordCounter, AccountsInv, AccountsTypeOK
<1>9. PICK n \in Nat, p \in Passwords \cup {None}, A \in SUBSET (Counters \cup {Recovery}),
           R \in SUBSET (Counters \cup {Recovery}) :
        /\ n = guesses[u] /\ p = chosen[u] /\ A = accepted[u] \cup {c}
        /\ R = replayed[u] \cup (accepted[u] \cap {c})
  BY <1>4, WrittenAsItWas
<1>10. HistoryWritten(u, n, p, A, R)
  BY <1>1, <1>3, <1>4, <1>9, WrittenAsItWas DEF HistoryWritten, RecordCounter, LetIn
<1>11. Recovery \notin R /\ (a.recovery => Recovery \notin A)
       /\ \A role \in a.roles : Rank[role] <= ceiling
  BY <1>4, <1>6, <1>7, <1>9 DEF AccountSound
<1>12. UNCHANGED <<signedIn, challenged, ceiling, cutShort>>
  BY DEF RecordCounter
<1>13. /\ resetLinks' \in [ResetLinks -> ResetLink \cup {Absent}]
       /\ honoured' \in [ResetLinks -> Nat]
       /\ LinksInOrder'
       /\ \A l \in ResetLinks : resetLinks[l] # Absent =>
              resetLinks'[l] # Absent /\ resetLinks'[l].user = resetLinks[l].user
  BY LinksAsTheyWere DEF RecordCounter
<1>14. ASSUME ~overlapped
       PROVE  R = {} /\ \A code \in A : code <= a.lastCounter
  <2>1. replayed[u] = {} /\ \A code \in accepted[u] : code <= accounts[u].lastCounter
    BY <1>4, <1>14 DEF AccountInStep
  <2>2. accounts[u].lastCounter \in Nat /\ c > accounts[u].lastCounter
    BY <1>2, <1>3, <1>4, <1>14 DEF Account
  <2>3. \A code \in accepted[u] : code \in Nat
    BY <1>4, AccountsAssumption DEF AccountsInv, HistoryOK, Recovery
  <2>4. c \notin accepted[u]
    BY <1>6, <2>1, <2>2
  <2>5. \A code \in accepted[u] : code <= c
    BY <1>6, <2>1, <2>2, <2>3
  <2>. QED
    BY <1>6, <1>7, <1>9, <2>1, <2>4, <2>5
<1>16. PICK r : r = [op |-> "clear", user |-> u, next |-> "open"]
  OBVIOUS
<1>17. Proceed(w, r)
  BY <1>1, <1>3, <1>16 DEF RecordCounter
<1>18. u \in Member' /\ accounts'[u] = a
  BY <1>4, <1>8, AccountIsThere DEF Member, AccountsInv, AccountsTypeOK
<1>19. Goes(r)'
  BY <1>2, <1>3, <1>4, <1>7, <1>16, <1>17, <1>18 DEF Goes, AccountsTask, Sound, Fresh, Active, Proceed
<1>20. ~overlapped =>
           /\ R = {} /\ a.password = p /\ n <= a.attempts /\ n < MaxAttempts
           /\ \A code \in A : code <= a.lastCounter
           /\ \/ a.status \in {"ACTIVE", accounts[u].status}
              \/ r.op = "revoke" /\ r.user = u
  BY <1>4, <1>7, <1>9, <1>14 DEF AccountInStep
<1>. QED
  BY <1>2, <1>8, <1>10, <1>11, <1>12, <1>13, <1>17, <1>19, <1>20, AccountWritten, ZenonT(60)

LEMMA ConsumeSound ==
    ASSUME AccountsInv, NEW w \in Workers, ConsumeRecoveryCode(w)
    PROVE  AccountsInv'
<1>1. PICK t : t = task[w]
  OBVIOUS
<1>2. /\ task[w] # Idle /\ task[w].op # "revoke" /\ t.op = "recovery" /\ t.user \in Member
      /\ t.attempts \in Nat
      /\ ~overlapped => t.attempts = accounts[t.user].attempts /\ Active(t.user)
  BY <1>1, AtTask DEF ConsumeRecoveryCode, AccountsTask, Sound, Fresh, Idle
<1>3. PICK u \in Member : u = t.user
  BY <1>2
<1>4. u \in Users /\ accounts[u] \in Account /\ AccountSound(u) /\ (~overlapped => AccountInStep(u))
  BY <1>3, MembersHaveAccounts DEF Member, AccountsInv
<1>5. PICK n \in Nat, p \in Passwords \cup {None} : n = guesses[u] /\ p = chosen[u]
  BY <1>4, WrittenAsItWas
<1>6. UNCHANGED <<signedIn, challenged, ceiling, cutShort>>
  BY DEF ConsumeRecoveryCode
<1>7. /\ resetLinks' \in [ResetLinks -> ResetLink \cup {Absent}]
      /\ honoured' \in [ResetLinks -> Nat]
      /\ LinksInOrder'
      /\ \A l \in ResetLinks : resetLinks[l] # Absent =>
             resetLinks'[l] # Absent /\ resetLinks'[l].user = resetLinks[l].user
  BY LinksAsTheyWere DEF ConsumeRecoveryCode
<1>8. CASE accounts[u].recovery
  <2>1. PICK a : a = [accounts[u] EXCEPT !.recovery = FALSE]
    OBVIOUS
  <2>2. a \in Account /\ a.attempts = accounts[u].attempts /\ a.roles = accounts[u].roles
        /\ a.password = accounts[u].password /\ ~a.recovery
        /\ a.status = accounts[u].status /\ a.lastCounter = accounts[u].lastCounter
    BY <1>4, <2>1 DEF Account
  <2>3. /\ accounts' = [accounts EXCEPT ![u] = a]
        /\ LetIn(u, Recovery)
        /\ Proceed(w, [op |-> "clear", user |-> u, next |-> "open"])
    BY <1>1, <1>3, <1>8, <2>1 DEF ConsumeRecoveryCode, Consumable, AccountsInv, AccountsTypeOK
  <2>4. Recovery \notin accepted[u] /\ Recovery \notin replayed[u]
    BY <1>3, <1>4, <1>8 DEF AccountSound
  <2>5. PICK A \in SUBSET (Counters \cup {Recovery}), R \in SUBSET (Counters \cup {Recovery}) :
          A = accepted[u] \cup {Recovery} /\ R = replayed[u]
    BY <1>4, WrittenAsItWas
  <2>6. accepted[u] \cap {Recovery} = {}
    BY <2>4
  <2>7. HistoryWritten(u, n, p, A, R)
    <3>1. replayed' = [replayed EXCEPT ![u] = R]
      BY <1>4, <2>3, <2>5, <2>6, WrittenAsItWas DEF LetIn
    <3>2. accepted' = [accepted EXCEPT ![u] = A]
      BY <2>3, <2>5 DEF LetIn
    <3>. QED
      BY <1>4, <1>5, <3>1, <3>2, WrittenAsItWas DEF HistoryWritten, ConsumeRecoveryCode
  <2>8. Recovery \notin R /\ (a.recovery => Recovery \notin A)
        /\ \A role \in a.roles : Rank[role] <= ceiling
    BY <1>3, <1>4, <2>2, <2>4, <2>5 DEF AccountSound
  <2>9. PICK r : r = [op |-> "clear", user |-> u, next |-> "open"]
    OBVIOUS
  <2>10. Proceed(w, r) /\ accounts' = [accounts EXCEPT ![u] = a] /\ a \in Account
    BY <2>2, <2>3, <2>9
  <2>11. u \in Member' /\ accounts'[u] = a
    BY <1>4, <2>10, AccountIsThere DEF Member, AccountsInv, AccountsTypeOK
  <2>12. Goes(r)'
    BY <1>2, <1>3, <1>4, <2>2, <2>9, <2>10, <2>11
       DEF Goes, AccountsTask, Sound, Fresh, Active, Proceed
  <2>13. ASSUME ~overlapped
         PROVE  R = {} /\ \A code \in A : code <= a.lastCounter
    <3>1. replayed[u] = {} /\ \A code \in accepted[u] : code <= accounts[u].lastCounter
      BY <1>4, <2>13 DEF AccountInStep
    <3>2. Recovery <= a.lastCounter
      BY <1>4, <2>2 DEF Account, Recovery
    <3>. QED
      BY <2>2, <2>5, <3>1, <3>2
  <2>14. ~overlapped =>
             /\ R = {} /\ a.password = p /\ n <= a.attempts /\ n < MaxAttempts
             /\ \A code \in A : code <= a.lastCounter
             /\ \/ a.status \in {"ACTIVE", accounts[u].status}
                \/ r.op = "revoke" /\ r.user = u
    BY <1>4, <1>5, <2>2, <2>13 DEF AccountInStep
  <2>. QED
    BY <1>2, <1>6, <1>7, <2>7, <2>8, <2>10, <2>12, <2>14, AccountWritten, ZenonT(60)
<1>9. CASE ~accounts[u].recovery
  <2>1. PICK r : r = [op |-> "fail", user |-> u, attempts |-> t.attempts]
    OBVIOUS
  <2>2. Proceed(w, r) /\ UNCHANGED office
    BY <1>1, <1>3, <1>9, <2>1
       DEF ConsumeRecoveryCode, Consumable, office, accountTables, accountHistory
  <2>3. PICK a \in Account : a = accounts[u]
    BY <1>4
  <2>4. accounts' = [accounts EXCEPT ![u] = a]
        /\ UNCHANGED <<signedIn, challenged, resetLinks, accountHistory>>
    BY <2>2, <2>3 DEF office, accountTables, AccountsInv, AccountsTypeOK
  <2>5. Goes(r)'
    BY <1>2, <1>3, <1>4, <2>1, <2>2
       DEF Goes, AccountsTask, Sound, Fresh, Member, Proceed, office, accountTables
  <2>6. (\A role \in a.roles : Rank[role] <= ceiling) /\ (a.recovery => accounts[u].recovery)
    BY <1>4, <2>3 DEF AccountSound
  <2>7. ~overlapped =>
               /\ a.password = accounts[u].password
               /\ a.attempts = accounts[u].attempts
               /\ a.lastCounter = accounts[u].lastCounter
               /\ \/ a.status \in {"ACTIVE", accounts[u].status}
                  \/ r.op = "revoke" /\ r.user = u
    BY <2>3
  <2>. QED
    BY <1>2, <2>2, <2>4, <2>5, <2>6, <2>7, OnlyAccountWritten
<1>. QED
  BY <1>8, <1>9

\* The link that sets a password was the last that was sent, and is used up.
LEMMA ResetLinksInOrder ==
    ASSUME AccountsInv, NEW l \in ResetLinks, resetLinks[l] # Absent, ~resetLinks[l].used,
           resetLinks' = [resetLinks EXCEPT ![l].used = TRUE],
           honoured' = [honoured EXCEPT ![l] = @ + 1]
    PROVE  /\ resetLinks' \in [ResetLinks -> ResetLink \cup {Absent}]
           /\ honoured' \in [ResetLinks -> Nat]
           /\ LinksInOrder'
           /\ \A k \in ResetLinks : resetLinks[k] # Absent =>
                  resetLinks'[k] # Absent /\ resetLinks'[k].user = resetLinks[k].user
<1>1. resetLinks[l] \in ResetLink
  BY DEF AccountsInv, AccountsTypeOK
<1>2. PICK row \in ResetLink : row.user = resetLinks[l].user /\ row.used
                               /\ resetLinks' = [resetLinks EXCEPT ![l] = row]
  <2>1. PICK row : row = [resetLinks[l] EXCEPT !.used = TRUE]
    OBVIOUS
  <2>2. row \in ResetLink /\ row.user = resetLinks[l].user /\ row.used
    BY <1>1, <2>1 DEF ResetLink
  <2>3. resetLinks' = [resetLinks EXCEPT ![l] = row]
    BY <2>1 DEF AccountsInv, AccountsTypeOK
  <2>. QED
    BY <2>2, <2>3
<1>3. row # Absent
  BY DEF ResetLink, Absent
<1>4. /\ resetLinks' \in [ResetLinks -> ResetLink \cup {Absent}]
      /\ honoured' \in [ResetLinks -> Nat]
  <2>1. resetLinks \in [ResetLinks -> ResetLink \cup {Absent}] /\ honoured \in [ResetLinks -> Nat]
    BY DEF AccountsInv, AccountsTypeOK
  <2>2. resetLinks' \in [ResetLinks -> ResetLink \cup {Absent}]
    BY <1>2, <2>1
  <2>3. honoured' \in [ResetLinks -> Nat]
    BY <2>1
  <2>. QED
    BY <2>2, <2>3
<1>5. /\ resetLinks'[l] = row
      /\ \A k \in ResetLinks \ {l} : resetLinks'[k] = resetLinks[k]
  <2>1. resetLinks \in [ResetLinks -> ResetLink \cup {Absent}]
    BY DEF AccountsInv, AccountsTypeOK
  <2>. QED
    BY <1>2, <2>1
<1>6. \A k \in ResetLinks \ {l} : honoured'[k] = honoured[k]
  BY DEF AccountsInv, AccountsTypeOK
<1>7. ASSUME NEW k \in ResetLinks
      PROVE  /\ resetLinks'[k] = Absent =>
                  /\ honoured'[k] = 0
                  /\ \A later \in ResetLinks : later > k => resetLinks'[later] = Absent
             /\ (resetLinks'[k] # Absent /\ ~resetLinks'[k].used) =>
                  /\ honoured'[k] = 0
                  /\ \A later \in ResetLinks :
                       (later > k /\ resetLinks'[later] # Absent) =>
                           resetLinks'[later].user # resetLinks'[k].user
  <2>1. CASE k = l
    BY <1>2, <1>3, <1>5, <2>1
  <2>2. CASE k # l
    BY <1>2, <1>3, <1>5, <1>6, <2>2 DEF AccountsInv, LinksInOrder
  <2>. QED
    BY <2>1, <2>2
<1>8. LinksInOrder'
  BY <1>7 DEF LinksInOrder
<1>. QED
  BY <1>2, <1>3, <1>4, <1>5, <1>8

LEMMA ResetPasswordSound ==
    ASSUME AccountsInv, NEW w \in Workers, ResetPasswordCommit(w)
    PROVE  AccountsInv'
<1>1. PICK t : t = task[w]
  OBVIOUS
<1>2. /\ task[w] # Idle /\ task[w].op # "revoke" /\ t.op = "reset" /\ t.user \in Member
      /\ t.password \in Passwords /\ t.link \in ResetLinks /\ resetLinks[t.link] # Absent
      /\ ~resetLinks[t.link].used
  BY <1>1, AtTask DEF ResetPasswordCommit, LinkStands, AccountsTask, Sound, Idle
<1>3. PICK u \in Member, l \in ResetLinks : u = t.user /\ l = t.link
  BY <1>2
<1>4. u \in Users /\ accounts[u] \in Account /\ AccountSound(u) /\ (~overlapped => AccountInStep(u))
  BY <1>3, MembersHaveAccounts DEF Member, AccountsInv
<1>5. PICK a : a = [Unlocked(accounts[u]) EXCEPT !.password = t.password, !.stale = FALSE]
  OBVIOUS
<1>6. a \in Account /\ a.attempts = 0 /\ a.roles = accounts[u].roles
      /\ a.password = t.password /\ a.recovery = accounts[u].recovery
      /\ a.status = accounts[u].status /\ a.lastCounter = accounts[u].lastCounter
  <2>1. PICK b : b = Unlocked(accounts[u])
    OBVIOUS
  <2>2. b \in Account /\ b.attempts = 0 /\ b.roles = accounts[u].roles
        /\ b.recovery = accounts[u].recovery /\ b.status = accounts[u].status
        /\ b.lastCounter = accounts[u].lastCounter
    BY <1>4, <2>1 DEF Account, Unlocked
  <2>3. a = [b EXCEPT !.password = t.password, !.stale = FALSE]
    BY <1>5, <2>1
  <2>. QED
    BY <1>2, <2>2, <2>3 DEF Account
<1>7. accounts' = [accounts EXCEPT ![u] = a] /\ a \in Account
  BY <1>1, <1>3, <1>5, <1>6 DEF ResetPasswordCommit, AccountsInv, AccountsTypeOK
<1>8. PICK n \in Nat, A \in SUBSET (Counters \cup {Recovery}),
           R \in SUBSET (Counters \cup {Recovery}) :
        n = 0 /\ A = accepted[u] /\ R = replayed[u]
  BY <1>4, WrittenAsItWas
<1>9. HistoryWritten(u, n, t.password, A, R)
  BY <1>1, <1>2, <1>3, <1>4, <1>8, WrittenAsItWas DEF HistoryWritten, ResetPasswordCommit
<1>10. Recovery \notin R /\ (a.recovery => Recovery \notin A)
       /\ \A role \in a.roles : Rank[role] <= ceiling
  BY <1>4, <1>6, <1>8 DEF AccountSound
<1>11. UNCHANGED <<signedIn, challenged, ceiling, cutShort>>
  BY DEF ResetPasswordCommit
<1>12. /\ resetLinks' = [resetLinks EXCEPT ![l].used = TRUE]
       /\ honoured' = [honoured EXCEPT ![l] = @ + 1]
  BY <1>1, <1>3 DEF ResetPasswordCommit
<1>13. /\ resetLinks' \in [ResetLinks -> ResetLink \cup {Absent}]
       /\ honoured' \in [ResetLinks -> Nat]
       /\ LinksInOrder'
       /\ \A k \in ResetLinks : resetLinks[k] # Absent =>
              resetLinks'[k] # Absent /\ resetLinks'[k].user = resetLinks[k].user
  BY <1>2, <1>3, <1>12, ResetLinksInOrder
<1>14. PICK r : r = [op |-> "revoke", user |-> u]
  OBVIOUS
<1>15. Proceed(w, r)
  BY <1>1, <1>3, <1>14 DEF ResetPasswordCommit
<1>16. u \in Member'
  BY <1>4, <1>7, AccountIsThere DEF Member, AccountsInv, AccountsTypeOK
<1>17. Goes(r)'
  BY <1>4, <1>14, <1>16 DEF Goes, AccountsTask, Sound, Fresh
<1>18. ~overlapped =>
           /\ R = {} /\ a.password = t.password /\ n <= a.attempts /\ n < MaxAttempts
           /\ \A code \in A : code <= a.lastCounter
           /\ \/ a.status \in {"ACTIVE", accounts[u].status}
              \/ r.op = "revoke" /\ r.user = u
  BY <1>4, <1>6, <1>8, <1>14, AccountsAssumption DEF AccountInStep
<1>. QED
  BY <1>2, <1>7, <1>9, <1>10, <1>11, <1>13, <1>15, <1>17, <1>18, AccountWritten, ZenonT(60)

\* A request that goes on and leaves the accounts as they are.
LEMMA SessionsWritten ==
    ASSUME AccountsInv, NEW w \in Workers, NEW u \in Users, task[w] # Idle, task[w].user = u,
           Finish(w),
           UNCHANGED <<accounts, resetLinks, ceiling, chosen, guesses, accepted, replayed, honoured>>,
           signedIn' \in SUBSET Member, challenged' \in SUBSET Member,
           \A v \in Users \ {u} : v \in signedIn' \ cutShort' => v \in signedIn \ cutShort,
           ~overlapped => (u \in signedIn' \ cutShort' => Active(u))
    PROVE  AccountsInv'
<1>1. Member' = Member /\ Member \subseteq Users
  BY DEF Member
<1>2. Keeps
  BY <1>1 DEF Keeps
<1>3. Goes(Idle)' /\ Proceed(w, Idle)
  BY DEF Goes, Finish
<1>4. AccountsTypeOK'
  BY <1>1 DEF AccountsInv, AccountsTypeOK
<1>5. HistoryOK'
  BY <1>1 DEF AccountsInv, HistoryOK
<1>6. LinksInOrder'
  BY DEF AccountsInv, LinksInOrder
<1>7. AccountSound(u)'
  BY <1>1 DEF AccountsInv, AccountSound
<1>8. ASSUME ~overlapped
      PROVE  AccountInStep(u)'
  <2>1. AccountInStep(u) /\ (Active(u) <=> Active(u)')
    BY <1>1, <1>8 DEF AccountsInv, Active
  <2>. QED
    BY <1>1, <1>8, <2>1 DEF AccountInStep
<1>9. \A v \in Users \ {u} :
               /\ accounts'[v] = accounts[v] /\ chosen'[v] = chosen[v]
               /\ guesses'[v] = guesses[v] /\ accepted'[v] = accepted[v]
               /\ replayed'[v] = replayed[v]
               /\ v \in signedIn' \ cutShort' => v \in signedIn \ cutShort
  OBVIOUS
<1>. QED
  BY <1>1, <1>2, <1>3, <1>4, <1>5, <1>6, <1>7, <1>8, <1>9, AccountsRequestGoesOn

LEMMA SessionStepsSound ==
    ASSUME AccountsInv, NEW w \in Workers,
           IssueChallenge(w) \/ EstablishSession(w) \/ RevokeAllSessions(w)
    PROVE  AccountsInv'
<1>0. signedIn \in SUBSET Member /\ challenged \in SUBSET Member
  BY DEF AccountsInv, HistoryOK
<1>1. /\ task[w] # Idle /\ task[w].user \in Member
      /\ (~overlapped /\ task[w].op \in {"open", "challenge"}) => Active(task[w].user)
  BY AtTask DEF IssueChallenge, EstablishSession, RevokeAllSessions, Sound, Fresh, Idle
<1>2. PICK u \in Users : u = task[w].user /\ u \in Member
  BY <1>1 DEF Member
<1>3. CASE IssueChallenge(w)
  <2>1. ~overlapped => (u \in signedIn' \ cutShort' => Active(u))
    BY <1>1, <1>2, <1>3 DEF IssueChallenge
  <2>2. signedIn' \in SUBSET Member /\ challenged' \in SUBSET Member
    BY <1>0, <1>2, <1>3 DEF IssueChallenge, accountHistory
  <2>3. /\ Finish(w)
        /\ UNCHANGED <<accounts, resetLinks, ceiling, chosen, guesses, accepted, replayed, honoured>>
        /\ \A v \in Users \ {u} : v \in signedIn' \ cutShort' => v \in signedIn \ cutShort
    BY <1>3 DEF IssueChallenge, accountHistory
  <2>. QED
    BY <1>1, <1>2, <2>1, <2>2, <2>3, SessionsWritten
<1>4. CASE EstablishSession(w)
  <2>1. ~overlapped => (u \in signedIn' \ cutShort' => Active(u))
    BY <1>1, <1>2, <1>4 DEF EstablishSession
  <2>2. signedIn' \in SUBSET Member /\ challenged' \in SUBSET Member
    BY <1>0, <1>2, <1>4 DEF EstablishSession
  <2>3. /\ Finish(w)
        /\ UNCHANGED <<accounts, resetLinks, ceiling, chosen, guesses, accepted, replayed, honoured>>
        /\ \A v \in Users \ {u} : v \in signedIn' \ cutShort' => v \in signedIn \ cutShort
    BY <1>2, <1>4 DEF EstablishSession, accountHistory
  <2>. QED
    BY <1>1, <1>2, <2>1, <2>2, <2>3, SessionsWritten
<1>5. CASE RevokeAllSessions(w)
  <2>1. ~overlapped => (u \in signedIn' \ cutShort' => Active(u))
    BY <1>2, <1>5 DEF RevokeAllSessions
  <2>2. signedIn' \in SUBSET Member /\ challenged' \in SUBSET Member
    BY <1>0, <1>5 DEF RevokeAllSessions
  <2>3. /\ Finish(w)
        /\ UNCHANGED <<accounts, resetLinks, ceiling, chosen, guesses, accepted, replayed, honoured>>
        /\ \A v \in Users \ {u} : v \in signedIn' \ cutShort' => v \in signedIn \ cutShort
    BY <1>5 DEF RevokeAllSessions, accountHistory
  <2>. QED
    BY <1>1, <1>2, <2>1, <2>2, <2>3, SessionsWritten
<1>. QED
  BY <1>3, <1>4, <1>5

LEMMA AccountsDropSound ==
    ASSUME AccountsInv, NEW w \in Workers, AccountsDrop(w)
    PROVE  AccountsInv'
<1>1. task[w] # Idle /\ task[w].user \in Users /\ Finish(w)
  BY AtTask DEF AccountsDrop, DropTask
<1>2. PICK u \in Users : u = task[w].user
  BY <1>1
<1>3. ASSUME ~overlapped, u \in signedIn' \ cutShort'
      PROVE  Active(u)
  <2>1. AccountInStep(u) /\ task[w].op # "revoke"
    BY <1>2, <1>3 DEF AccountsInv, AccountsDrop, accountTables
  <2>2. \A v \in Workers : task[v].op # "revoke"
    BY <1>1, <1>3, <2>1, AtTask DEF Idle
  <2>. QED
    BY <1>3, <2>1, <2>2 DEF AccountInStep, AccountsDrop, accountTables
<1>4. signedIn' \in SUBSET Member /\ challenged' \in SUBSET Member
  BY DEF AccountsInv, HistoryOK, AccountsDrop, accountTables
<1>5. /\ UNCHANGED <<accounts, resetLinks, ceiling, chosen, guesses, accepted, replayed, honoured>>
      /\ \A v \in Users \ {u} : v \in signedIn' \ cutShort' => v \in signedIn \ cutShort
  BY <1>2 DEF AccountsDrop, accountTables
<1>. QED
  BY <1>1, <1>2, <1>3, <1>4, <1>5, SessionsWritten

\* Changes of an account that no request goes by, at any time.
LEMMA AsideWritten ==
    ASSUME AccountsInv, NEW u \in Users, u \in Member, NEW a \in Account,
           accounts' = [accounts EXCEPT ![u] = a],
           a.status = accounts[u].status, a.roles = accounts[u].roles,
           a.recovery = accounts[u].recovery, a.attempts = accounts[u].attempts,
           a.password = accounts[u].password, a.lastCounter = accounts[u].lastCounter,
           UNCHANGED <<signedIn, challenged, resetLinks, accountHistory>>,
           task' = task, OneWay', ~overlapped' => ~overlapped
    PROVE  AccountsInv'
<1>1. /\ accounts'[u] = a
      /\ \A v \in Users \ {u} : accounts'[v] = accounts[v]
  BY DEF AccountsInv, AccountsTypeOK
<1>2. Member' = Member
  BY <1>1, AccountIsThere DEF Member
<1>3. AccountsTypeOK'
  BY DEF AccountsInv, AccountsTypeOK, accountHistory
<1>4. HistoryOK'
  BY <1>2 DEF AccountsInv, HistoryOK, accountHistory
<1>5. LinksInOrder'
  BY DEF AccountsInv, LinksInOrder, accountHistory
<1>6. Keeps
  BY <1>2 DEF Keeps, accountHistory
<1>7. RequestsSound'
  <2>1. ASSUME NEW w \in Workers
        PROVE  task[w] = Idle \/ Sound(task[w])'
    <3>1. PICK t : t = task[w]
      OBVIOUS
    <3>2. t = Idle \/ (t \in AccountsTask /\ Sound(t))
      BY <3>1 DEF AccountsInv, RequestsSound
    <3>3. t = Idle \/ Sound(t)'
      BY <1>6, <3>2, SoundStays
    <3>4. task'[w] = t
      BY <3>1
    <3>. QED
      BY <3>1, <3>3, <3>4
  <2>. QED
    BY <2>1 DEF RequestsSound
<1>8. \A v \in Users :
         /\ accounts'[v].status = accounts[v].status
         /\ accounts'[v].attempts = accounts[v].attempts
         /\ accounts'[v].password = accounts[v].password
         /\ accounts'[v].lastCounter = accounts[v].lastCounter
         /\ accounts'[v].roles = accounts[v].roles
         /\ accounts'[v].recovery = accounts[v].recovery
         /\ Active(v)' <=> Active(v)
  BY <1>1, <1>2 DEF Active
<1>9. RequestsFresh'
  <2>1. ASSUME ~overlapped', NEW w \in Workers
        PROVE  task'[w] = Idle \/ Fresh(task[w])'
    <3>1. task[w] = Idle \/ (task[w].user \in Users /\ Fresh(task[w]))
      BY <2>1, AtTask DEF AccountsInv, RequestsFresh
    <3>. QED
      BY <1>8, <3>1 DEF Fresh
  <2>. QED
    BY <2>1 DEF RequestsFresh
<1>10. ASSUME NEW v \in Users
       PROVE  AccountSound(v)'
  BY <1>2, <1>8 DEF AccountsInv, AccountSound, accountHistory
<1>11. ASSUME ~overlapped', NEW v \in Users
       PROVE  AccountInStep(v)'
  <2>1. AccountInStep(v)
    BY <1>11 DEF AccountsInv
  <2>. QED
    BY <1>2, <1>8, <2>1 DEF AccountInStep, accountHistory
<1>12. \A w \in Workers : task'[w] \in AccountsTask \cup {Idle}
  BY DEF AccountsInv
<1>. QED
  BY <1>3, <1>4, <1>5, <1>7, <1>9, <1>10, <1>11, <1>12 DEF AccountsInv

LEMMA LockExpiresSound ==
    ASSUME AccountsInv, NEW u \in Users, LockExpires(u)
    PROVE  AccountsInv'
<1>1. accounts[u] \in Account
  BY MembersHaveAccounts DEF AccountsInv, LockExpires
<1>2. PICK a : a = [accounts[u] EXCEPT !.locked = FALSE]
  OBVIOUS
<1>3. /\ a \in Account
      /\ a.status = accounts[u].status /\ a.roles = accounts[u].roles
      /\ a.recovery = accounts[u].recovery /\ a.attempts = accounts[u].attempts
      /\ a.password = accounts[u].password /\ a.lastCounter = accounts[u].lastCounter
  BY <1>1, <1>2 DEF Account
<1>4. accounts' = [accounts EXCEPT ![u] = a]
  BY <1>2 DEF LockExpires, AccountsInv, AccountsTypeOK
<1>5. OneWay'
  BY DEF LockExpires, AccountsInv, OneWay, Remembered, OneAtMost
<1>. QED
  BY <1>3, <1>4, <1>5, AsideWritten DEF LockExpires

LEMMA UpdateUserSound ==
    ASSUME AccountsInv, NEW w \in Workers, NEW b \in Users, NEW u \in Users, UpdateUser(w, b, u)
    PROVE  AccountsInv'
<1>1. u \in Member /\ accounts[u] \in Account
  BY MembersHaveAccounts DEF AccountsInv, UpdateUser, MayActOn
<1>2. PICK a : a = [accounts[u] EXCEPT !.version = @ + 1]
  OBVIOUS
<1>3. /\ a \in Account
      /\ a.status = accounts[u].status /\ a.roles = accounts[u].roles
      /\ a.recovery = accounts[u].recovery /\ a.attempts = accounts[u].attempts
      /\ a.password = accounts[u].password /\ a.lastCounter = accounts[u].lastCounter
  BY <1>1, <1>2 DEF Account
<1>4. accounts' = [accounts EXCEPT ![u] = a]
  BY <1>2 DEF UpdateUser, AccountsInv, AccountsTypeOK
<1>5. OneWay' /\ task' = task /\ (~overlapped' => ~overlapped)
  BY AtOnceAlone DEF UpdateUser, AccountsInv
<1>6. UNCHANGED <<signedIn, challenged, resetLinks, accountHistory>>
  BY DEF UpdateUser
<1>. QED
  BY <1>1, <1>3, <1>4, <1>5, <1>6, AsideWritten

\* A link is sent, and the links sent to the same account before are used up.
LEMMA LinkSentInOrder ==
    ASSUME AccountsInv, NEW u \in Users, NEW link \in ResetLinks, resetLinks[link] = Absent,
           resetLinks' = [l \in ResetLinks |->
               IF l = link THEN [user |-> u, used |-> FALSE]
               ELSE IF resetLinks[l] # Absent /\ resetLinks[l].user = u
                 THEN [resetLinks[l] EXCEPT !.used = TRUE]
               ELSE resetLinks[l]],
           \A earlier \in {l \in ResetLinks : l < link} : resetLinks[earlier] # Absent,
           honoured' = honoured
    PROVE  /\ resetLinks' \in [ResetLinks -> ResetLink \cup {Absent}]
           /\ LinksInOrder'
           /\ \A l \in ResetLinks : resetLinks[l] # Absent =>
                  resetLinks'[l] # Absent /\ resetLinks'[l].user = resetLinks[l].user
<1>1. PICK row : row = [user |-> u, used |-> FALSE]
  OBVIOUS
<1>2. row \in ResetLink /\ row.user = u /\ ~row.used
  BY <1>1 DEF ResetLink
<1>3. \A r \in ResetLink : r # Absent
  BY DEF ResetLink, Absent
<1>4. resetLinks'[link] = row
  BY <1>1
<1>5. ASSUME NEW l \in ResetLinks, l # link, resetLinks[l] # Absent
      PROVE  /\ resetLinks'[l] \in ResetLink
             /\ resetLinks'[l].user = resetLinks[l].user
             /\ resetLinks[l].user = u => resetLinks'[l].used
             /\ ~resetLinks'[l].used => ~resetLinks[l].used
  <2>1. PICK old \in ResetLink : old = resetLinks[l]
    BY <1>5 DEF AccountsInv, AccountsTypeOK
  <2>2. resetLinks'[l] = IF old.user = u THEN [old EXCEPT !.used = TRUE] ELSE old
    BY <1>5, <2>1
  <2>3. PICK new : new = [old EXCEPT !.used = TRUE]
    OBVIOUS
  <2>4. new \in ResetLink /\ new.user = old.user /\ new.used
    BY <2>1, <2>3 DEF ResetLink
  <2>5. resetLinks'[l] = IF old.user = u THEN new ELSE old
    BY <2>2, <2>3
  <2>. QED
    BY <2>1, <2>4, <2>5
<1>6. \A l \in ResetLinks : (l # link /\ resetLinks[l] = Absent) => resetLinks'[l] = Absent
  BY DEF Absent
<1>7. \A l \in ResetLinks : resetLinks'[l] \in ResetLink \cup {Absent}
  BY <1>2, <1>4, <1>5, <1>6
<1>8. resetLinks' \in [ResetLinks -> ResetLink \cup {Absent}]
  <2>1. resetLinks' = [l \in ResetLinks |-> resetLinks'[l]]
    OBVIOUS
  <2>. QED
    BY <1>7, <2>1
<1>9. \A later \in ResetLinks : later > link => resetLinks'[later] = Absent
  BY <1>6, AccountsAssumption DEF AccountsInv, LinksInOrder
<1>10. honoured'[link] = 0
  BY DEF AccountsInv, LinksInOrder
<1>11. ASSUME NEW k \in ResetLinks
       PROVE  /\ resetLinks'[k] = Absent =>
                   /\ honoured'[k] = 0
                   /\ \A later \in ResetLinks : later > k => resetLinks'[later] = Absent
              /\ (resetLinks'[k] # Absent /\ ~resetLinks'[k].used) =>
                   /\ honoured'[k] = 0
                   /\ \A later \in ResetLinks :
                        (later > k /\ resetLinks'[later] # Absent) =>
                            resetLinks'[later].user # resetLinks'[k].user
  <2>1. CASE k = link
    BY <1>2, <1>3, <1>4, <1>9, <1>10, <2>1
  <2>2. CASE k # link /\ resetLinks[k] = Absent
    <3>1. resetLinks'[k] = Absent
      BY <1>6, <2>2
    <3>2. honoured'[k] = 0 /\ \A later \in ResetLinks : later > k => resetLinks[later] = Absent
      BY <2>2 DEF AccountsInv, LinksInOrder
    <3>3. k > link
      BY <2>2, AccountsAssumption
    <3>4. \A later \in ResetLinks : later > k => later # link
      BY <3>3, AccountsAssumption
    <3>. QED
      BY <1>6, <3>1, <3>2, <3>4
  <2>3. CASE k # link /\ resetLinks[k] # Absent
    <3>1. resetLinks'[k] \in ResetLink /\ resetLinks'[k] # Absent
      BY <1>3, <1>5, <2>3
    <3>2. ASSUME ~resetLinks'[k].used
          PROVE  /\ honoured'[k] = 0
                 /\ \A later \in ResetLinks :
                      (later > k /\ resetLinks'[later] # Absent) =>
                          resetLinks'[later].user # resetLinks'[k].user
      <4>1. ~resetLinks[k].used /\ resetLinks[k].user # u
            /\ resetLinks'[k].user = resetLinks[k].user
        BY <1>5, <2>3, <3>2
      <4>2. honoured[k] = 0 /\ \A later \in ResetLinks :
                (later > k /\ resetLinks[later] # Absent) =>
                    resetLinks[later].user # resetLinks[k].user
        BY <2>3, <4>1 DEF AccountsInv, LinksInOrder
      <4>3. ASSUME NEW later \in ResetLinks, later > k, resetLinks'[later] # Absent
            PROVE  resetLinks'[later].user # resetLinks'[k].user
        <5>1. CASE later = link
          BY <1>2, <1>4, <4>1, <5>1
        <5>2. CASE later # link
          BY <1>5, <1>6, <4>1, <4>2, <4>3, <5>2
        <5>. QED
          BY <5>1, <5>2
      <4>. QED
        BY <4>2, <4>3
    <3>. QED
      BY <3>1, <3>2
  <2>. QED
    BY <2>1, <2>2, <2>3
<1>12. LinksInOrder'
  BY <1>11 DEF LinksInOrder
<1>13. \A l \in ResetLinks : resetLinks[l] # Absent =>
           resetLinks'[l] # Absent /\ resetLinks'[l].user = resetLinks[l].user
  BY <1>3, <1>5
<1>. QED
  BY <1>8, <1>12, <1>13

LEMMA RequestPasswordResetSound ==
    ASSUME AccountsInv, NEW w \in Workers, NEW u \in Users, NEW link \in ResetLinks,
           RequestPasswordReset(w, u, link)
    PROVE  AccountsInv'
<1>1. OneWay' /\ task' = task /\ (~overlapped' => ~overlapped)
  BY AtOnceAlone DEF RequestPasswordReset, AccountsInv
<1>2. UNCHANGED <<accounts, signedIn, challenged, accountHistory>>
  BY DEF RequestPasswordReset
<1>3. /\ resetLinks' \in [ResetLinks -> ResetLink \cup {Absent}]
      /\ LinksInOrder'
      /\ \A l \in ResetLinks : resetLinks[l] # Absent =>
             resetLinks'[l] # Absent /\ resetLinks'[l].user = resetLinks[l].user
  BY LinkSentInOrder DEF RequestPasswordReset, accountHistory
<1>4. Member' = Member
  BY <1>2 DEF Member
<1>5. Keeps
  BY <1>2, <1>3, <1>4 DEF Keeps, accountHistory
<1>6. AccountsTypeOK'
  BY <1>2, <1>3 DEF AccountsInv, AccountsTypeOK, accountHistory
<1>7. HistoryOK'
  BY <1>2, <1>4 DEF AccountsInv, HistoryOK, accountHistory
<1>8. RequestsSound'
  <2>1. ASSUME NEW v \in Workers
        PROVE  task[v] = Idle \/ Sound(task[v])'
    <3>1. PICK t : t = task[v]
      OBVIOUS
    <3>2. t = Idle \/ (t \in AccountsTask /\ Sound(t))
      BY <3>1 DEF AccountsInv, RequestsSound
    <3>3. t = Idle \/ Sound(t)'
      BY <1>5, <3>2, SoundStays
    <3>4. task'[v] = t
      BY <1>1, <3>1
    <3>. QED
      BY <3>1, <3>3, <3>4
  <2>. QED
    BY <1>1, <2>1 DEF RequestsSound
<1>9. RequestsFresh'
  BY <1>1, <1>2, <1>4 DEF AccountsInv, RequestsFresh, Fresh, Active
<1>10. \A v \in Users : AccountSound(v)'
  BY <1>2, <1>4 DEF AccountsInv, AccountSound, accountHistory
<1>11. ASSUME ~overlapped', NEW v \in Users
       PROVE  AccountInStep(v)'
  <2>1. AccountInStep(v)
    BY <1>1, <1>11 DEF AccountsInv
  <2>. QED
    BY <1>1, <1>2, <1>4, <2>1 DEF AccountInStep, Active, accountHistory
<1>12. \A v \in Workers : task'[v] \in AccountsTask \cup {Idle}
  BY <1>1 DEF AccountsInv
<1>. QED
  BY <1>1, <1>3, <1>6, <1>7, <1>8, <1>9, <1>10, <1>11, <1>12 DEF AccountsInv

LEMMA CreateUserSound ==
    ASSUME AccountsInv, NEW w \in Workers, CreateUser(w)
    PROVE  AccountsInv'
<1>1. PICK t : t = task[w]
  OBVIOUS
<1>2. /\ task[w] # Idle /\ task[w].op # "revoke" /\ t.op = "create" /\ t.user \in Users
      /\ t.row \in Account /\ t.roles \in SUBSET Roles
      /\ t.row.roles = {} /\ t.row.attempts = 0 /\ ~t.row.recovery
      /\ ceiling \in Nat /\ \A role \in t.roles : Rank[role] <= ceiling
  BY <1>1, AtTask DEF CreateUser, AccountsTask, Sound, Idle
<1>3. PICK u \in Users, a \in Account : u = t.user /\ a = t.row
  BY <1>2
<1>4. accounts[u] = Absent /\ u \notin Member
  BY <1>1, <1>3 DEF CreateUser, Member
<1>5. accounts' = [accounts EXCEPT ![u] = a] /\ chosen' = [chosen EXCEPT ![u] = a.password]
  BY <1>1, <1>3 DEF CreateUser
<1>6. UNCHANGED <<signedIn, challenged, resetLinks, ceiling, guesses, accepted, replayed,
                  honoured, cutShort>>
  BY DEF CreateUser
<1>7. /\ accounts'[u] = a /\ chosen'[u] = a.password
      /\ \A v \in Users \ {u} : accounts'[v] = accounts[v] /\ chosen'[v] = chosen[v]
  BY <1>5 DEF AccountsInv, AccountsTypeOK
<1>8. u \in Member' /\ Member \subseteq Member'
  BY <1>4, <1>7, AccountIsThere DEF Member
<1>9. Keeps
  BY <1>6, <1>8 DEF Keeps
<1>10. AccountsTypeOK'
  <2>1. a.password \in Passwords
    BY DEF Account
  <2>2. accounts' \in [Users -> Account \cup {Absent}]
    BY <1>5 DEF AccountsInv, AccountsTypeOK
  <2>3. chosen' \in [Users -> Passwords \cup {None}]
    BY <1>5, <2>1 DEF AccountsInv, AccountsTypeOK
  <2>. QED
    BY <1>6, <2>2, <2>3 DEF AccountsInv, AccountsTypeOK
<1>11. HistoryOK'
  BY <1>6, <1>8 DEF AccountsInv, HistoryOK
<1>12. LinksInOrder'
  BY <1>6 DEF AccountsInv, LinksInOrder
<1>13. PICK r : r = [op |-> "grant", user |-> u, roles |-> t.roles]
  OBVIOUS
<1>14. Proceed(w, r)
  BY <1>1, <1>3, <1>13 DEF CreateUser
<1>15. r \in AccountsTask
  BY <1>2, <1>13 DEF AccountsTask
<1>16. Goes(r)'
  BY <1>2, <1>6, <1>8, <1>13, <1>15 DEF Goes, Sound, Fresh
<1>17. AccountSound(u) /\ (~overlapped => AccountInStep(u))
  BY DEF AccountsInv
<1>18. guesses[u] = 0 /\ accepted[u] = {} /\ u \notin signedIn
  BY <1>4, <1>17 DEF AccountsInv, AccountSound, HistoryOK
<1>19. AccountSound(u)'
  BY <1>2, <1>3, <1>6, <1>7, <1>8, <1>17 DEF AccountSound
<1>20. ~overlapped => AccountInStep(u)'
  BY <1>2, <1>3, <1>6, <1>7, <1>8, <1>17, <1>18, AccountsAssumption DEF AccountInStep
<1>21. \A v \in Users \ {u} :
               /\ accounts'[v] = accounts[v] /\ chosen'[v] = chosen[v]
               /\ guesses'[v] = guesses[v] /\ accepted'[v] = accepted[v]
               /\ replayed'[v] = replayed[v]
               /\ v \in signedIn' \ cutShort' => v \in signedIn \ cutShort
  BY <1>6, <1>7
<1>. QED
  BY <1>2, <1>9, <1>10, <1>11, <1>12, <1>14, <1>16, <1>19, <1>20, <1>21, AccountsRequestGoesOn

\* Of finitely many ranks one is the highest.
LEMMA HighestRanks ==
    ASSUME NEW S, \A r \in S : r \in {0, 100, 80, 70, 60, 50, 10, 5}, S # {}
    PROVE  \E r \in S : \A x \in S : x <= r
  OBVIOUS

LEMMA AccountsInvInit == RequestsInit /\ AccountsInit => AccountsInv
<1> SUFFICES ASSUME RequestsInit, AccountsInit
             PROVE  AccountsInv
  OBVIOUS
<1>1. accounts \in [Users -> Account \cup {Absent}] /\ Member \subseteq Users
  BY InitialAccountsAssumption DEF AccountsInit, Member
<1>2. \A u \in Member : accounts[u] \in Account
  BY <1>1 DEF Member
<1>3. AccountsTypeOK
  <2>1. signedIn \subseteq Users
    BY <1>1 DEF AccountsInit
  <2>2. chosen \in [Users -> Passwords \cup {None}]
    BY <1>2 DEF AccountsInit, Account
  <2>. QED
    BY <1>1, <2>1, <2>2 DEF AccountsInit, AccountsTypeOK
<1>4. OneWay
  BY OneWayInit
<1>5. \A w \in Workers : task[w] = Idle
  BY DEF RequestsInit
<1>6. HistoryOK
  BY DEF AccountsInit, HistoryOK
<1>7. RequestsSound /\ RequestsFresh
  BY <1>5 DEF RequestsSound, RequestsFresh
<1>8. ASSUME NEW u \in Member
      PROVE  ceiling \in Nat /\ \A role \in accounts[u].roles : Rank[role] <= ceiling
  <2>. DEFINE ranks == {HighestRank(accounts[v]) : v \in Member}
  <2>1. \A v \in Member : accounts[v].roles \in SUBSET RoleKeys
    BY <1>2, AccountsAssumption DEF Account
  <2>2. \A v \in Member : HighestRank(accounts[v]) \in {0, 100, 80, 70, 60, 50, 10, 5}
    <3>1. \A role \in RoleKeys : Rank[role] \in {0, 100, 80, 70, 60, 50, 10, 5}
      BY DEF RoleKeys, Rank
    <3>. QED
      BY <2>1, <3>1, HighestRankIs
  <2>3. \E r \in ranks : \A x \in ranks : x <= r
    <3>1. ranks # {} /\ \A r \in ranks : r \in {0, 100, 80, 70, 60, 50, 10, 5}
      BY <1>8, <2>2
    <3>. HIDE DEF ranks
    <3>. QED
      BY <3>1, HighestRanks
  <2>4. \E r \in ranks : \A v \in Member : HighestRank(accounts[v]) <= r
    BY <2>3
  <2>5. ceiling \in ranks /\ \A v \in Member : HighestRank(accounts[v]) <= ceiling
    BY <2>4 DEF AccountsInit
  <2>6. ceiling \in {0, 100, 80, 70, 60, 50, 10, 5}
    BY <2>2, <2>5
  <2>7. HighestRank(accounts[u]) <= ceiling /\ HighestRank(accounts[u]) \in Nat
        /\ \A role \in accounts[u].roles : Rank[role] <= HighestRank(accounts[u])
    BY <1>8, <2>1, <2>5, HighestRankIs
  <2>8. \A role \in accounts[u].roles : Rank[role] \in Nat
    BY <1>8, <2>1 DEF RoleKeys, Rank
  <2>. HIDE DEF ranks
  <2>. QED
    BY <2>6, <2>7, <2>8
<1>9. ASSUME NEW u \in Users
      PROVE  AccountSound(u)
  BY <1>8 DEF AccountSound, AccountsInit
<1>10. ASSUME NEW u \in Users
       PROVE  AccountInStep(u)
  <2>1. u \in Member => accounts[u].attempts \in Nat
    BY <1>2 DEF Account
  <2>2. u \in signedIn => Active(u)
    BY DEF AccountsInit
  <2>. QED
    BY <2>1, <2>2, AccountsAssumption DEF AccountInStep, AccountsInit
<1>11. LinksInOrder
  BY DEF LinksInOrder, AccountsInit
<1>. QED
  BY <1>3, <1>4, <1>5, <1>6, <1>7, <1>9, <1>10, <1>11 DEF AccountsInv

LEMMA SignInStepSound ==
    ASSUME AccountsInv, NEW w \in Workers, SignInStep(w)
    PROVE  AccountsInv'
  BY LoginSound, FailedAttemptSound, RehashSound, ClearSound, SessionStepsSound, AccountsDropSound
     DEF SignInStep

LEMMA SecondFactorStepSound ==
    ASSUME AccountsInv, NEW w \in Workers, SecondFactorStep(w)
    PROVE  AccountsInv'
  BY SessionStepsSound, VerifyTotpSound, RecordCounterSound, VerifyRecoverySound, ConsumeSound
     DEF SecondFactorStep

LEMMA PasswordStepSound ==
    ASSUME AccountsInv, NEW w \in Workers, PasswordStep(w)
    PROVE  AccountsInv'
  BY PasswordLoadsSound, ChangePasswordSound, RequestPasswordResetSound, ResetPasswordSound,
     SessionStepsSound DEF PasswordStep

LEMMA RoleStepSound ==
    ASSUME AccountsInv, NEW w \in Workers, RoleStep(w)
    PROVE  AccountsInv'
  BY CreateUserLoadSound, CreateUserSound, RoleLoadsSound, GrantRoleSound, RevokeRoleSound
     DEF RoleStep

LEMMA StatusStepSound ==
    ASSUME AccountsInv, NEW w \in Workers, StatusStep(w)
    PROVE  AccountsInv'
  BY UpdateUserSound, StatusLoadsSound, ClearLockoutSound, SetUserStatusSound, SessionStepsSound
     DEF StatusStep

LEMMA AccountsInvStep == AccountsInv /\ [AccountsNext]_accountsVars => AccountsInv'
<1> SUFFICES ASSUME AccountsInv, [AccountsNext]_accountsVars
             PROVE  AccountsInv'
  OBVIOUS
<1>1. CASE SignInNext
  BY <1>1, SignInStepSound, SecondFactorStepSound, LockExpiresSound DEF SignInNext
<1>2. CASE PasswordsNext
  BY <1>2, SignInStepSound, PasswordStepSound DEF PasswordsNext
<1>3. CASE RolesNext
  BY <1>3, RoleStepSound, AccountsDropSound DEF RolesNext
<1>4. CASE StatusesNext
  BY <1>4, SignInStepSound, StatusStepSound DEF StatusesNext
<1>5. CASE UNCHANGED accountsVars
  <2>1. UNCHANGED <<task, overlapped, accounts, signedIn, challenged, resetLinks, ceiling, chosen,
                    guesses, accepted, replayed, honoured, cutShort>>
    BY <1>5 DEF accountsVars, office, accountTables, accountHistory
  <2>2. Member' = Member /\ \A u \in Users : Active(u)' <=> Active(u)
    BY <2>1 DEF Member, Active
  <2>3. AccountsTypeOK' /\ OneWay' /\ HistoryOK' /\ LinksInOrder'
    BY <2>1, <2>2 DEF AccountsInv, AccountsTypeOK, OneWay, Remembered, OneAtMost, HistoryOK,
       LinksInOrder
  <2>4. RequestsSound' /\ RequestsFresh'
    <3>1. Keeps
      BY <2>1, <2>2 DEF Keeps
    <3>2. ASSUME NEW w \in Workers
          PROVE  /\ task[w] = Idle \/ Sound(task[w])'
                 /\ ~overlapped => task[w] = Idle \/ Fresh(task[w])'
      <4>1. PICK t : t = task[w]
        OBVIOUS
      <4>2. t = Idle \/ (t \in AccountsTask /\ Sound(t) /\ (~overlapped => Fresh(t)))
        BY <4>1 DEF AccountsInv, RequestsSound, RequestsFresh
      <4>3. t = Idle \/ Sound(t)'
        BY <3>1, <4>2, SoundStays
      <4>4. ~overlapped => t = Idle \/ Fresh(t)'
        <5>1. t = Idle \/ t.user \in Users
          BY <4>2 DEF AccountsTask
        <5>. QED
          BY <2>1, <2>2, <4>2, <5>1 DEF Fresh
      <4>5. task'[w] = t
        BY <2>1, <4>1
      <4>. QED
        BY <4>1, <4>3, <4>4, <4>5
    <3>. QED
      BY <2>1, <3>2 DEF RequestsSound, RequestsFresh
  <2>5. \A u \in Users : AccountSound(u)'
    BY <2>1, <2>2 DEF AccountsInv, AccountSound
  <2>6. ASSUME ~overlapped', NEW u \in Users
        PROVE  AccountInStep(u)'
    <3>1. AccountInStep(u)
      BY <2>1, <2>6 DEF AccountsInv
    <3>. QED
      BY <2>1, <2>2, <3>1 DEF AccountInStep
  <2>. QED
    BY <2>1, <2>3, <2>4, <2>5, <2>6 DEF AccountsInv
<1>. QED
  BY <1>1, <1>2, <1>3, <1>4, <1>5 DEF AccountsNext

LEMMA AccountsInvHolds == AccountsSpec => []AccountsInv
  BY AccountsInvInit, AccountsInvStep, PTL DEF AccountsSpec

\* The tables of accounts, sessions and reset links hold what their types say,
\* whoever signs in, sets passwords, grants and suspends.
THEOREM AccountsTypeCorrect == AccountsSpec => []AccountsTypeOK
<1>1. AccountsInv => AccountsTypeOK
  BY DEF AccountsInv
<1>. QED
  BY <1>1, AccountsInvHolds, PTL

\* Rank is only handed down: however grants overlap with removals, nobody comes to
\* outrank all who were there before (assertMayGrantRank, assertMayActOn).
THEOREM RankIsHandedDown == AccountsSpec => []NoRankFromNowhere
<1>1. ASSUME AccountsInv, NEW u \in Member
      PROVE  HighestRank(accounts[u]) <= ceiling
  <2>1. accounts[u] \in Account /\ u \in Users /\ ceiling \in Nat
        /\ \A role \in accounts[u].roles : Rank[role] <= ceiling
    BY <1>1, MembersHaveAccounts DEF AccountsInv, AccountSound, Member
  <2>2. accounts[u].roles \in SUBSET RoleKeys
    BY <2>1, AccountsAssumption DEF Account
  <2>3. \/ HighestRank(accounts[u]) = 0
        \/ \E role \in accounts[u].roles : HighestRank(accounts[u]) = Rank[role]
    BY <2>2, HighestRankIs
  <2>. QED
    BY <2>1, <2>3
<1>2. AccountsInv => NoRankFromNowhere
  BY <1>1 DEF NoRankFromNowhere
<1>. QED
  BY <1>2, AccountsInvHolds, PTL

\* As long as requests do not overlap, nobody gets MaxAttempts wrong answers to an
\* account without its being locked, whichever factor they guess at
\* (registerFailedAttempt, clearFailedAttempts).
THEOREM GuessingIsBounded == AccountsSpec => []GuessesAreBounded
<1>1. AccountsInv => GuessesAreBounded
  BY DEF AccountsInv, AccountInStep, GuessesAreBounded, Member
<1>. QED
  BY <1>1, AccountsInvHolds, PTL

\* As long as requests do not overlap, the password that is accepted is the one last
\* chosen, though hashes are upgraded behind it (login, changePassword, resetPassword).
THEOREM ChosenPasswordStands == AccountsSpec => []NewPasswordStands
<1>1. AccountsInv => NewPasswordStands
  BY DEF AccountsInv, AccountInStep, NewPasswordStands, Member
<1>. QED
  BY <1>1, AccountsInvHolds, PTL

\* A recovery code lets in once, however requests overlap; an authenticator code once
\* as long as they do not (verifyMfa).
THEOREM CodesWorkOnce == AccountsSpec => []OneTimeCodesWorkOnce
<1>1. AccountsInv => OneTimeCodesWorkOnce
  BY DEF AccountsInv, AccountSound, AccountInStep, OneTimeCodesWorkOnce
<1>. QED
  BY <1>1, AccountsInvHolds, PTL

\* As long as requests do not overlap, an account that may not sign in has no session,
\* but for a suspension that died half way (setUserStatus).
THEOREM SuspendedAreSignedOut == AccountsSpec => []SuspensionEndsSessions
<1>1. AccountsInv => SuspensionEndsSessions
  BY DEF AccountsInv, AccountsTypeOK, AccountInStep, SuspensionEndsSessions
<1>. QED
  BY <1>1, AccountsInvHolds, PTL

\* Nothing but a link that is followed to its end sets a password by it.
LEMMA LinksAreHonouredByResets ==
    ASSUME AccountsNext
    PROVE  honoured' = honoured \/ \E w \in Workers : ResetPasswordCommit(w)
<1>1. ASSUME NEW w \in Workers, SignInStep(w)
      PROVE  honoured' = honoured
  BY <1>1 DEF SignInStep, Login, FailedAttempt, Rehash, ClearFailedAttempts, EstablishSession,
     AccountsDrop, office, accountHistory
<1>2. ASSUME NEW w \in Workers, SecondFactorStep(w)
      PROVE  honoured' = honoured
  BY <1>2 DEF SecondFactorStep, IssueChallenge, VerifyTotp, RecordCounter, VerifyRecoveryLoad,
     ConsumeRecoveryCode, office, accountHistory
<1>3. ASSUME NEW w \in Workers, PasswordStep(w)
      PROVE  honoured' = honoured \/ ResetPasswordCommit(w)
  BY <1>3 DEF PasswordStep, ChangePasswordLoad, ChangePasswordCommit, RequestPasswordReset,
     ResetPasswordLoad, RevokeAllSessions, office, accountHistory
<1>4. ASSUME NEW w \in Workers, RoleStep(w)
      PROVE  honoured' = honoured
  <2>1. (\E a, u \in Users, roles \in RoleSets : CreateUserLoad(w, a, u, roles))
           => honoured' = honoured
    BY DEF CreateUserLoad, office, accountHistory
  <2>2. (\E a, u \in Users, role \in Roles : GrantLoad(w, a, u, role) \/ RevokeLoad(w, a, u, role))
           => honoured' = honoured
    BY DEF GrantLoad, RevokeLoad, office, accountHistory
  <2>3. CreateUser(w) \/ GrantRole(w) \/ RevokeRole(w) => honoured' = honoured
    BY DEF CreateUser, GrantRole, RevokeRole, accountHistory
  <2>. QED
    BY <1>4, <2>1, <2>2, <2>3 DEF RoleStep
<1>5. ASSUME NEW w \in Workers, StatusStep(w)
      PROVE  honoured' = honoured
  BY <1>5 DEF StatusStep, UpdateUser, UnlockLoad, ClearLockout, SetStatusLoad, SetUserStatus,
     RevokeAllSessions, office, accountHistory
<1>6. ASSUME NEW w \in Workers, AccountsDrop(w)
      PROVE  honoured' = honoured
  BY <1>6 DEF AccountsDrop
<1>7. (\E u \in Users : LockExpires(u)) => honoured' = honoured
  BY DEF LockExpires, accountHistory
<1>8. CASE SignInNext
  BY <1>1, <1>2, <1>7, <1>8 DEF SignInNext
<1>9. CASE PasswordsNext
  BY <1>1, <1>3, <1>9 DEF PasswordsNext
<1>10. CASE RolesNext
  BY <1>4, <1>6, <1>10 DEF RolesNext
<1>11. CASE StatusesNext
  BY <1>1, <1>5, <1>11 DEF StatusesNext
<1>. QED
  BY <1>8, <1>9, <1>10, <1>11 DEF AccountsNext

\* Only the last link that was sent sets a password, and only once, though links are
\* requested and followed at the same time (requestPasswordReset, resetPassword).
THEOREM LastLinkAlone == AccountsSpec => OnlyTheLastLink
<1>1. ASSUME AccountsInv, [AccountsNext]_accountsVars, NEW l \in ResetLinks,
             honoured'[l] > honoured[l]
      PROVE  /\ honoured[l] = 0
             /\ \A later \in ResetLinks :
                  (later > l /\ resetLinks[later] # Absent) =>
                      resetLinks[later].user # resetLinks[l].user
  <2>1. honoured \in [ResetLinks -> Nat]
    BY <1>1 DEF AccountsInv, AccountsTypeOK
  <2>2. honoured' # honoured
    BY <1>1, <2>1
  <2>3. AccountsNext
    BY <1>1, <2>2 DEF accountsVars, office, accountHistory
  <2>4. PICK w \in Workers : ResetPasswordCommit(w)
    BY <2>2, <2>3, LinksAreHonouredByResets
  <2>5. honoured' = [honoured EXCEPT ![task[w].link] = @ + 1] /\ ~resetLinks[task[w].link].used
    BY <2>4 DEF ResetPasswordCommit, LinkStands
  <2>6. task[w].link = l
    BY <1>1, <2>1, <2>5
  <2>7. resetLinks[l] # Absent
    BY <1>1, <2>4, <2>6, AtTask DEF ResetPasswordCommit, Sound, Idle
  <2>. QED
    BY <1>1, <2>5, <2>6, <2>7 DEF AccountsInv, LinksInOrder
<1>2. AccountsInv /\ [AccountsNext]_accountsVars =>
        [\A l \in ResetLinks :
           honoured'[l] > honoured[l] =>
               /\ honoured[l] = 0
               /\ \A later \in ResetLinks :
                    (later > l /\ resetLinks[later] # Absent) =>
                        resetLinks[later].user # resetLinks[l].user]_office
  BY <1>1
<1>. QED
  BY <1>2, AccountsInvHolds, PTL DEF AccountsSpec, OnlyTheLastLink

-----------------------------------------------------------------------------
(* Settings and their trail *)

setupVars == <<task, overlapped, setup>>

SetupSpec == RequestsInit /\ SetupInit /\ [][SetupNext]_setupVars

\* The history of a setting ends with what it is.
PastStands ==
    /\ past \in [SettingIds -> Seq(Content)]
    /\ \A i \in SettingIds :
         /\ i \in KnownSettings =>
              /\ Len(past[i]) = settings[i].version + 1
              /\ past[i][settings[i].version + 1] = settings[i].content
         /\ i \notin KnownSettings => Len(past[i]) = 0

\* What an entry says was so.
IsTrue(e) ==
    /\ e.version < Len(past[e.id])
    /\ e.before = IF e.version = 0 THEN Absent ELSE past[e.id][e.version]
    /\ \E v \in Versions(e.id) : v >= e.version /\ e.after = past[e.id][v + 1]
    /\ ~overlapped => e.after = past[e.id][e.version + 1]

\* What a request has in hand is so, or was when it looked.
InHand(request) ==
    /\ request.op = "edit" =>
         /\ request.id \in KnownSettings
         /\ request.expectedVersion <= settings[request.id].version
         /\ request.expectedVersion = settings[request.id].version =>
              request.before = settings[request.id].content
    /\ request.op = "read" =>
         /\ request.id \in KnownSettings
         /\ 0 < request.version /\ request.version <= settings[request.id].version
         /\ request.before = past[request.id][request.version]
         /\ ~overlapped => request.version = settings[request.id].version
    /\ request.op = "record" => IsTrue(request.entry)
    /\ request.op = "use" =>
         request.id \in KnownSettings /\ (~overlapped => settings[request.id].content.isActive)

\* The change that a request has made and not put on the trail yet.
WrittenBy(request) ==
    CASE request.op = "read" -> {<<request.id, request.version>>}
      [] request.op = "record" -> {<<request.entry.id, request.entry.version>>}
      [] OTHER -> {}

\* No change is put on the trail twice.
OneEntryEach ==
    /\ \A e, f \in trail : (e.id = f.id /\ e.version = f.version) => e = f
    /\ \A e \in trail, w \in Workers : <<e.id, e.version>> \notin WrittenBy(task[w])
    /\ \A v, w \in Workers : v # w => WrittenBy(task[v]) \cap WrittenBy(task[w]) = {}

EveryChangeTold ==
    \A i \in KnownSettings :
        \A v \in Versions(i) :
            \/ \E e \in trail : e.id = i /\ e.version = v
            \/ <<i, v>> \in lost
            \/ \E w \in Workers : <<i, v>> \in WrittenBy(task[w])

UsedWhileActive == ~overlapped => \A use \in uses : use.whileActive

SetupInv ==
    /\ SetupTypeOK
    /\ OneWay
    /\ \A w \in Workers : task[w] \in SetupTask \cup {Idle}
    /\ PastStands
    /\ \A w \in Workers : InHand(task[w])
    /\ \A e \in trail : IsTrue(e)
    /\ OneEntryEach
    /\ EveryChangeTold
    /\ UsedWhileActive

LEMMA SettingsAreThere == \A s \in Setting : s # Absent
  BY DEF Setting, Absent

LEMMA NothingInHand == InHand(Idle) /\ WrittenBy(Idle) = {}
  BY DEF InHand, WrittenBy, Idle

LEMMA KnownAreTyped ==
    ASSUME SetupTypeOK, NEW i \in SettingIds
    PROVE  /\ i \in KnownSettings <=> settings[i] \in Setting
           /\ i \in KnownSettings =>
                settings[i].version \in Nat /\ settings[i].content \in Content
  BY SettingsAreThere DEF SetupTypeOK, KnownSettings, Setting

\* Settings are never removed, only changed, a version at a time, and their history grows.
Grows ==
    /\ KnownSettings \subseteq KnownSettings'
    /\ \A i \in KnownSettings :
         /\ settings'[i].version >= settings[i].version
         /\ settings'[i].version = settings[i].version => settings'[i].content = settings[i].content
    /\ \A i \in SettingIds :
         /\ Len(past'[i]) >= Len(past[i])
         /\ \A k \in 1 .. Len(past[i]) : past'[i][k] = past[i][k]
    /\ ~overlapped' => ~overlapped

LEMMA EntriesStayTrue ==
    ASSUME SetupInv, PastStands', Grows, NEW e \in Entry, IsTrue(e)
    PROVE  IsTrue(e)'
<1>1. /\ e.id \in SettingIds /\ e.version \in Nat
      /\ Len(past[e.id]) \in Nat /\ Len(past'[e.id]) \in Nat
      /\ Len(past'[e.id]) >= Len(past[e.id])
      /\ \A k \in 1 .. Len(past[e.id]) : past'[e.id][k] = past[e.id][k]
  BY DEF SetupInv, PastStands, Entry, Grows
<1>2. e.version < Len(past'[e.id])
  BY <1>1 DEF IsTrue
<1>3. e.before = IF e.version = 0 THEN Absent ELSE past'[e.id][e.version]
  BY <1>1 DEF IsTrue
<1>4. \E v \in Versions(e.id)' : v >= e.version /\ e.after = past'[e.id][v + 1]
  <2>1. PICK v \in Versions(e.id) : v >= e.version /\ e.after = past[e.id][v + 1]
    BY DEF IsTrue
  <2>2. v \in Versions(e.id)' /\ v + 1 \in 1 .. Len(past[e.id])
    BY <1>1, <2>1 DEF Versions
  <2>. QED
    BY <1>1, <2>1, <2>2
<1>5. ~overlapped' => e.after = past'[e.id][e.version + 1]
  BY <1>1 DEF IsTrue, Grows
<1>. QED
  BY <1>2, <1>3, <1>4, <1>5 DEF IsTrue

\* What others have in hand, of requests that overlap.
LEMMA StaysInHand ==
    ASSUME SetupInv, SetupTypeOK', PastStands', Grows, overlapped', NEW request \in SetupTask,
           InHand(request)
    PROVE  InHand(request)'
<1>1. CASE request.op = "edit"
  <2>1. request.id \in SettingIds /\ request.expectedVersion \in Nat
    BY <1>1 DEF SetupTask
  <2>2. request.id \in KnownSettings /\ request.id \in KnownSettings'
    BY <1>1 DEF InHand, Grows
  <2>3. settings[request.id].version \in Nat /\ settings'[request.id].version \in Nat
    BY <2>1, <2>2, KnownAreTyped DEF SetupInv, SetupTypeOK, KnownSettings, Setting, Absent
  <2>. QED
    BY <1>1, <2>1, <2>2, <2>3 DEF InHand, Grows
<1>2. CASE request.op = "read"
  <2>1. request.id \in SettingIds /\ request.version \in Nat
    BY <1>2 DEF SetupTask
  <2>2. request.id \in KnownSettings /\ request.id \in KnownSettings'
    BY <1>2 DEF InHand, Grows
  <2>3. settings[request.id].version \in Nat /\ settings'[request.id].version \in Nat
    BY <2>1, <2>2, KnownAreTyped DEF SetupInv, SetupTypeOK, KnownSettings, Setting, Absent
  <2>4. request.version \in 1 .. Len(past[request.id])
    BY <1>2, <2>1, <2>2, <2>3 DEF InHand, SetupInv, PastStands
  <2>. QED
    BY <1>2, <2>1, <2>2, <2>3, <2>4 DEF InHand, Grows
<1>3. CASE request.op = "record"
  <2>1. request.entry \in Entry
    BY <1>3 DEF SetupTask
  <2>. QED
    BY <1>3, <2>1, EntriesStayTrue DEF InHand
<1>4. CASE request.op = "use"
  BY <1>4 DEF InHand, Grows
<1>5. CASE request.op = "create"
  BY <1>5 DEF InHand
<1>. QED
  BY <1>1, <1>2, <1>3, <1>4, <1>5 DEF SetupTask

\* A request that only begins has written nothing.
LEMMA SetupRequestBegins ==
    ASSUME SetupInv, NEW w \in Workers, NEW request \in SetupTask, Begin(w, request),
           UNCHANGED setup, InHand(request), WrittenBy(request) = {}
    PROVE  SetupInv'
<1>1. /\ OneWay'
      /\ task' = [v \in Workers |-> IF v = w THEN request ELSE task[v]]
      /\ task[w] = Idle
      /\ ~overlapped' => ~overlapped /\ \A v \in Workers : task[v] = Idle
  BY BeginsAlone DEF SetupInv
<1>2. UNCHANGED <<settings, trail, uses, past, lost>>
  BY DEF setup
<1>3. KnownSettings' = KnownSettings /\ \A i \in SettingIds : Versions(i)' = Versions(i)
  BY <1>2 DEF KnownSettings, Versions
<1>4. SetupTypeOK'
  BY <1>2 DEF SetupInv, SetupTypeOK
<1>5. PastStands'
  BY <1>2, <1>3 DEF SetupInv, PastStands
<1>6. ASSUME NEW r, InHand(r)
      PROVE  InHand(r)'
  BY <1>1, <1>2, <1>3, <1>6 DEF InHand, IsTrue, Versions
<1>7. ASSUME NEW v \in Workers
      PROVE  /\ task'[v] \in SetupTask \cup {Idle}
             /\ InHand(task[v])'
             /\ WrittenBy(task'[v]) = WrittenBy(task[v])
  <2>1. PICK r : r = task'[v]
    OBVIOUS
  <2>2. InHand(r) /\ r \in SetupTask \cup {Idle} /\ WrittenBy(r) = WrittenBy(task[v])
    BY <1>1, <2>1, NothingInHand DEF SetupInv
  <2>3. InHand(r)'
    BY <1>6, <2>2
  <2>. QED
    BY <2>1, <2>2, <2>3
<1>8. \A e \in trail' : IsTrue(e)'
  BY <1>1, <1>2 DEF SetupInv, IsTrue, Versions
<1>9. OneEntryEach'
  BY <1>2, <1>7 DEF SetupInv, OneEntryEach
<1>10. EveryChangeTold'
  BY <1>2, <1>3, <1>7 DEF SetupInv, EveryChangeTold, KnownSettings
<1>11. UsedWhileActive'
  BY <1>1, <1>2 DEF SetupInv, UsedWhileActive
<1>. QED
  BY <1>1, <1>4, <1>5, <1>7, <1>8, <1>9, <1>10, <1>11 DEF SetupInv

LEMMA SetupLoadsSound ==
    ASSUME SetupInv, NEW w \in Workers,
           \/ \E code \in Codes, name \in Names : CreateLoad(w, code, name)
           \/ \E i \in SettingIds, version \in 0 .. MaxSettingVersion,
                 name \in Names \cup {None}, isActive \in {FALSE, None} :
                 EditLoad(w, i, version, name, isActive)
           \/ \E i \in SettingIds : UseLoad(w, i)
    PROVE  SetupInv'
<1>1. CASE \E code \in Codes, name \in Names : CreateLoad(w, code, name)
  <2>1. PICK code \in Codes, name \in Names : CreateLoad(w, code, name)
    BY <1>1
  <2>2. PICK content \in Content : content = [name |-> name, isActive |-> TRUE]
    BY DEF Content
  <2>3. PICK r : r = [op |-> "create", code |-> code, content |-> content]
    OBVIOUS
  <2>4. Begin(w, r) /\ UNCHANGED setup
    BY <2>1, <2>2, <2>3 DEF CreateLoad
  <2>5. r \in SetupTask /\ InHand(r) /\ WrittenBy(r) = {}
    BY <2>3 DEF SetupTask, InHand, WrittenBy
  <2>. QED
    BY <2>4, <2>5, SetupRequestBegins
<1>2. CASE \E i \in SettingIds, version \in 0 .. MaxSettingVersion,
              name \in Names \cup {None}, isActive \in {FALSE, None} :
              EditLoad(w, i, version, name, isActive)
  <2>1. PICK i \in SettingIds, version \in 0 .. MaxSettingVersion,
             name \in Names \cup {None}, isActive \in {FALSE, None} :
             EditLoad(w, i, version, name, isActive)
    BY <1>2
  <2>2. PICK r : r = [op |-> "edit", id |-> i, expectedVersion |-> version,
                      before |-> settings[i].content, name |-> name, isActive |-> isActive]
    OBVIOUS
  <2>3. Begin(w, r) /\ UNCHANGED setup /\ i \in KnownSettings /\ version <= settings[i].version
    BY <2>1, <2>2 DEF EditLoad
  <2>4. version \in Nat /\ settings[i].content \in Content
    BY <2>1, <2>3, SetupAssumption, KnownAreTyped DEF SetupInv
  <2>5. r \in SetupTask
    BY <2>1, <2>2, <2>4 DEF SetupTask
  <2>6. InHand(r) /\ WrittenBy(r) = {}
    BY <2>2, <2>3 DEF InHand, WrittenBy
  <2>. QED
    BY <2>3, <2>5, <2>6, SetupRequestBegins
<1>3. CASE \E i \in SettingIds : UseLoad(w, i)
  <2>1. PICK i \in SettingIds : UseLoad(w, i)
    BY <1>3
  <2>2. PICK r : r = [op |-> "use", id |-> i]
    OBVIOUS
  <2>3. Begin(w, r) /\ UNCHANGED setup
    BY <2>1, <2>2 DEF UseLoad
  <2>4. r \in SetupTask /\ InHand(r) /\ WrittenBy(r) = {}
    BY <2>1, <2>2 DEF SetupTask, InHand, WrittenBy, UseLoad, IsActive
  <2>. QED
    BY <2>3, <2>4, SetupRequestBegins
<1>. QED
  BY <1>1, <1>2, <1>3

\* A request that goes on, and what the others still have in hand.
LEMMA SetupRequestGoesOn ==
    ASSUME SetupInv, NEW w \in Workers, NEW request \in SetupTask \cup {Idle},
           Proceed(w, request), task[w] # Idle,
           SetupTypeOK', PastStands', Grows, InHand(request)'
    PROVE  /\ OneWay'
           /\ overlapped' = overlapped
           /\ \A v \in Workers : task'[v] \in SetupTask \cup {Idle}
           /\ \A v \in Workers : InHand(task[v])'
           /\ task'[w] = request
           /\ \A v \in Workers \ {w} : task'[v] = task[v]
<1>1. /\ OneWay'
      /\ task' = [v \in Workers |-> IF v = w THEN request ELSE task[v]]
      /\ overlapped' = overlapped
      /\ ~overlapped => \A v \in Workers \ {w} : task[v] = Idle
  BY ProceedsAlone DEF SetupInv
<1>2. \A v \in Workers : task'[v] \in SetupTask \cup {Idle}
  BY <1>1 DEF SetupInv
<1>3. ASSUME NEW v \in Workers
      PROVE  InHand(task[v])'
  <2>1. PICK r : r = task'[v]
    OBVIOUS
  <2>2. CASE v = w
    <3>1. r = request
      BY <1>1, <2>1, <2>2
    <3>2. InHand(r)'
      BY <3>1
    <3>. QED
      BY <2>1, <3>2
  <2>3. CASE v # w /\ task[v] = Idle
    <3>1. r = Idle
      BY <1>1, <2>1, <2>3
    <3>2. InHand(r)'
      BY <3>1 DEF InHand, Idle
    <3>. QED
      BY <2>1, <3>2
  <2>4. CASE v # w /\ task[v] # Idle
    <3>1. r \in SetupTask /\ InHand(r)
      BY <1>1, <2>1, <2>4 DEF SetupInv
    <3>2. overlapped \in BOOLEAN /\ overlapped'
      BY <1>1, <2>4 DEF SetupInv, OneWay
    <3>3. InHand(r)'
      BY <3>1, <3>2, StaysInHand
    <3>. QED
      BY <2>1, <3>3
  <2>. QED
    BY <2>2, <2>3, <2>4
<1>. QED
  BY <1>1, <1>2, <1>3

\* Settings that a step leaves alone.
LEMMA GrowsStill ==
    ASSUME SetupInv, UNCHANGED <<settings, past>>, overlapped' = overlapped
    PROVE  /\ Grows
           /\ PastStands'
           /\ KnownSettings' = KnownSettings
           /\ \A i \in SettingIds : Versions(i)' = Versions(i)
<1>1. KnownSettings' = KnownSettings
  BY DEF KnownSettings
<1>2. \A i \in KnownSettings : settings[i].version \in Nat
  BY KnownAreTyped DEF SetupInv, KnownSettings
<1>3. PastStands' /\ \A i \in SettingIds : Len(past[i]) \in Nat
  BY <1>1 DEF SetupInv, PastStands
<1>4. Grows
  BY <1>1, <1>2, <1>3 DEF Grows
<1>. QED
  BY <1>1, <1>3, <1>4 DEF Versions

\* What a step that leaves the settings alone has to show.
LEMMA SettingsAlone ==
    ASSUME SetupInv, NEW w \in Workers, NEW request \in SetupTask \cup {Idle},
           Proceed(w, request), task[w] # Idle, InHand(request)', SetupTypeOK',
           UNCHANGED <<settings, past>>, trail \subseteq trail',
           \A e \in trail' : IsTrue(e), OneEntryEach', EveryChangeTold', UsedWhileActive'
    PROVE  SetupInv'
<1>1. overlapped' = overlapped
  BY DEF Proceed
<1>2. Grows /\ PastStands'
  BY <1>1, GrowsStill
<1>3. /\ OneWay'
      /\ \A v \in Workers : task'[v] \in SetupTask \cup {Idle}
      /\ \A v \in Workers : InHand(task[v])'
  BY <1>2, SetupRequestGoesOn
<1>4. \A e \in trail' : IsTrue(e)'
  BY <1>1 DEF IsTrue, Versions
<1>. QED
  BY <1>2, <1>3, <1>4 DEF SetupInv

LEMMA RecordSound ==
    ASSUME SetupInv, NEW w \in Workers, Record(w)
    PROVE  SetupInv'
<1>1. /\ task[w] # Idle /\ task[w].op = "record" /\ Proceed(w, Idle) /\ overlapped' = overlapped
      /\ UNCHANGED <<settings, past, uses, lost>>
  BY DEF Record, Idle, Finish, Proceed
<1>2. PICK entry \in Entry : entry = task[w].entry /\ IsTrue(entry)
  BY <1>1 DEF SetupInv, SetupTask, InHand, Idle
<1>3. trail' = trail \cup {entry}
  BY <1>2 DEF Record
<1>4. WrittenBy(task[w]) = {<<entry.id, entry.version>>}
  BY <1>1, <1>2 DEF WrittenBy
<1>5. KnownSettings' = KnownSettings /\ \A i \in SettingIds : Versions(i)' = Versions(i)
  BY <1>1, GrowsStill
<1>6. SetupTypeOK'
  BY <1>1, <1>3 DEF SetupInv, SetupTypeOK
<1>7. /\ task'[w] = Idle
      /\ \A v \in Workers \ {w} : task'[v] = task[v]
  BY <1>1, ProceedsAlone DEF SetupInv
<1>8. InHand(Idle)'
  BY DEF InHand, Idle
<1>9. \A e \in trail' : IsTrue(e)
  BY <1>2, <1>3 DEF SetupInv
<1>10. /\ WrittenBy(task'[w]) = {}
       /\ \A v \in Workers \ {w} :
            /\ WrittenBy(task'[v]) = WrittenBy(task[v])
            /\ <<entry.id, entry.version>> \notin WrittenBy(task'[v])
  BY <1>4, <1>7, NothingInHand DEF SetupInv, OneEntryEach
<1>11. OneEntryEach'
  <2>1. \A e \in trail : ~(e.id = entry.id /\ e.version = entry.version)
    BY <1>4 DEF SetupInv, OneEntryEach
  <2>2. \A e, f \in trail' : (e.id = f.id /\ e.version = f.version) => e = f
    BY <1>3, <2>1 DEF SetupInv, OneEntryEach
  <2>3. ASSUME NEW e \in trail', NEW v \in Workers
        PROVE  <<e.id, e.version>> \notin WrittenBy(task'[v])
    <3>1. CASE v = w
      BY <1>10, <3>1
    <3>2. CASE v # w /\ e = entry
      BY <1>10, <3>2
    <3>3. CASE v # w /\ e \in trail
      BY <1>10, <3>3 DEF SetupInv, OneEntryEach
    <3>. QED
      BY <1>3, <2>3, <3>1, <3>2, <3>3
  <2>4. \A v, x \in Workers : v # x => WrittenBy(task'[v]) \cap WrittenBy(task'[x]) = {}
    BY <1>10 DEF SetupInv, OneEntryEach
  <2>. QED
    BY <2>2, <2>3, <2>4 DEF OneEntryEach
<1>12. EveryChangeTold'
  <2>1. ASSUME NEW i \in KnownSettings, NEW n \in Versions(i)
        PROVE  \/ \E e \in trail' : e.id = i /\ e.version = n
               \/ <<i, n>> \in lost
               \/ \E v \in Workers : <<i, n>> \in WrittenBy(task'[v])
    <3>1. CASE \E e \in trail : e.id = i /\ e.version = n
      BY <1>3, <3>1
    <3>2. CASE \E v \in Workers : <<i, n>> \in WrittenBy(task[v])
      <4>1. PICK v \in Workers : <<i, n>> \in WrittenBy(task[v])
        BY <3>2
      <4>2. CASE v = w
        BY <1>3, <1>4, <4>1, <4>2
      <4>3. CASE v # w
        BY <1>10, <4>1, <4>3
      <4>. QED
        BY <4>2, <4>3
    <3>. QED
      BY <3>1, <3>2 DEF SetupInv, EveryChangeTold
  <2>2. \A i \in KnownSettings : i \in SettingIds
    BY DEF KnownSettings
  <2>. QED
    BY <1>1, <1>5, <2>1, <2>2 DEF EveryChangeTold
<1>13. UsedWhileActive'
  BY <1>1 DEF SetupInv, UsedWhileActive
<1>14. UNCHANGED <<settings, past>> /\ trail \subseteq trail'
  BY <1>1, <1>3
<1>. QED
  BY <1>1, <1>6, <1>8, <1>9, <1>11, <1>12, <1>13, <1>14, SettingsAlone

\* Steps that put nothing on the trail and write no setting.
LEMMA TrailAsItWas ==
    ASSUME SetupInv, NEW w \in Workers, NEW request \in SetupTask \cup {Idle},
           Proceed(w, request), task[w] # Idle,
           UNCHANGED <<settings, past, trail>>, lost \subseteq lost',
           WrittenBy(request) \subseteq WrittenBy(task[w]),
           WrittenBy(task[w]) \subseteq WrittenBy(request) \cup lost'
    PROVE  OneEntryEach' /\ EveryChangeTold' /\ \A e \in trail' : IsTrue(e)
<1>1. overlapped' = overlapped
  BY DEF Proceed
<1>2. KnownSettings' = KnownSettings /\ \A i \in SettingIds : Versions(i)' = Versions(i)
  BY <1>1, GrowsStill
<1>3. /\ task'[w] = request
      /\ \A v \in Workers \ {w} : task'[v] = task[v]
  BY ProceedsAlone DEF SetupInv
<1>4. \A v \in Workers :
        /\ WrittenBy(task'[v]) \subseteq WrittenBy(task[v])
        /\ WrittenBy(task[v]) \subseteq WrittenBy(task'[v]) \cup lost'
  BY <1>3
<1>5. OneEntryEach'
  BY <1>4 DEF SetupInv, OneEntryEach
<1>6. EveryChangeTold'
  <2>1. ASSUME NEW i \in KnownSettings, NEW n \in Versions(i)
        PROVE  \/ \E e \in trail' : e.id = i /\ e.version = n
               \/ <<i, n>> \in lost'
               \/ \E v \in Workers : <<i, n>> \in WrittenBy(task'[v])
    BY <1>4 DEF SetupInv, EveryChangeTold
  <2>2. ASSUME NEW i \in KnownSettings', NEW n \in Versions(i)'
        PROVE  i \in KnownSettings /\ n \in Versions(i)
    BY <1>2 DEF KnownSettings
  <2>. QED
    BY <2>1, <2>2 DEF EveryChangeTold
<1>. QED
  BY <1>5, <1>6 DEF SetupInv

LEMMA ReadAgainSound ==
    ASSUME SetupInv, NEW w \in Workers, ReadAgain(w)
    PROVE  SetupInv'
<1>1. PICK t : t = task[w]
  OBVIOUS
<1>2. /\ task[w] # Idle /\ t.op = "read" /\ t.id \in SettingIds /\ t.version \in Nat
      /\ t.before \in Content
  BY <1>1 DEF ReadAgain, Idle, SetupInv, SetupTask
<1>3. PICK i \in SettingIds, n \in Nat : i = t.id /\ n = t.version
  BY <1>2
<1>4. /\ i \in KnownSettings /\ 0 < n /\ n <= settings[i].version
      /\ t.before = past[i][n] /\ (~overlapped => n = settings[i].version)
  BY <1>1, <1>2, <1>3 DEF SetupInv, InHand
<1>5. settings[i].version \in Nat /\ settings[i].content \in Content
  BY <1>4, KnownAreTyped DEF SetupInv
<1>6. PICK e : e = [id |-> i, version |-> n, before |-> t.before, after |-> settings[i].content]
  OBVIOUS
<1>7. e \in Entry
  BY <1>2, <1>5, <1>6 DEF Entry
<1>8. IsTrue(e)
  <2>1. Len(past[i]) = settings[i].version + 1 /\ past[i][settings[i].version + 1] = e.after
    BY <1>4, <1>6 DEF SetupInv, PastStands
  <2>2. settings[i].version \in Versions(i)
    BY <1>5, <2>1 DEF Versions
  <2>. QED
    BY <1>4, <1>5, <1>6, <2>1, <2>2 DEF IsTrue
<1>9. PICK r : r = [op |-> "record", entry |-> e]
  OBVIOUS
<1>10. Proceed(w, r) /\ UNCHANGED <<settings, trail, uses, past, lost>>
  BY <1>1, <1>3, <1>6, <1>9 DEF ReadAgain, EntryOf, setup
<1>11. r \in SetupTask
  BY <1>7, <1>9 DEF SetupTask
<1>12. overlapped' = overlapped
  BY <1>10 DEF Proceed
<1>13. InHand(r)'
  BY <1>8, <1>9, <1>10, <1>12 DEF InHand, IsTrue, Versions
<1>14. WrittenBy(r) = WrittenBy(task[w])
  BY <1>1, <1>2, <1>3, <1>6, <1>9 DEF WrittenBy
<1>15. OneEntryEach' /\ EveryChangeTold' /\ \A x \in trail' : IsTrue(x)
  BY <1>2, <1>10, <1>11, <1>14, TrailAsItWas
<1>16. SetupTypeOK' /\ UsedWhileActive'
  BY <1>10, <1>12 DEF SetupInv, SetupTypeOK, UsedWhileActive
<1>. QED
  BY <1>2, <1>10, <1>11, <1>13, <1>15, <1>16, SettingsAlone

LEMMA UseWriteSound ==
    ASSUME SetupInv, NEW w \in Workers, UseWrite(w)
    PROVE  SetupInv'
<1>1. /\ task[w] # Idle /\ task[w].op = "use" /\ task[w].id \in SettingIds /\ Proceed(w, Idle)
      /\ UNCHANGED <<settings, trail, past, lost>> /\ overlapped' = overlapped
  BY DEF UseWrite, Idle, SetupInv, SetupTask, Finish, Proceed
<1>2. PICK i \in SettingIds : i = task[w].id
  BY <1>1
<1>3. i \in KnownSettings /\ (~overlapped => settings[i].content.isActive)
  BY <1>1, <1>2 DEF SetupInv, InHand
<1>4. settings[i].content.isActive \in BOOLEAN
  BY <1>3, KnownAreTyped DEF SetupInv, Content
<1>5. PICK use : use = [of |-> i, whileActive |-> settings[i].content.isActive]
  OBVIOUS
<1>6. uses' = uses \cup {use}
  BY <1>2, <1>5 DEF UseWrite
<1>7. use \in [of : SettingIds, whileActive : BOOLEAN]
  BY <1>4, <1>5
<1>8. SetupTypeOK'
  BY <1>1, <1>6, <1>7 DEF SetupInv, SetupTypeOK
<1>9. ~overlapped => use.whileActive
  BY <1>3, <1>5
<1>10. UsedWhileActive'
  BY <1>1, <1>6, <1>9 DEF SetupInv, UsedWhileActive
<1>11. InHand(Idle)'
  BY DEF InHand, Idle
<1>12. WrittenBy(task[w]) = {}
  BY <1>1 DEF WrittenBy
<1>13. OneEntryEach' /\ EveryChangeTold' /\ \A e \in trail' : IsTrue(e)
  BY <1>1, <1>12, NothingInHand, TrailAsItWas
<1>. QED
  BY <1>1, <1>8, <1>10, <1>11, <1>13, SettingsAlone

LEMMA SetupDropSound ==
    ASSUME SetupInv, NEW w \in Workers, SetupDrop(w)
    PROVE  SetupInv'
<1>1. /\ task[w] # Idle /\ Proceed(w, Idle) /\ UNCHANGED <<settings, trail, past, uses>>
      /\ lost' = lost \cup Written(w) /\ overlapped' = overlapped
  BY DEF SetupDrop, DropTask, Finish, Proceed
<1>2. Written(w) = WrittenBy(task[w])
  BY DEF Written, WrittenBy
<1>3. SetupTypeOK' /\ UsedWhileActive'
  BY <1>1 DEF SetupInv, SetupTypeOK, UsedWhileActive
<1>4. InHand(Idle)'
  BY DEF InHand, Idle
<1>5. OneEntryEach' /\ EveryChangeTold' /\ \A e \in trail' : IsTrue(e)
  BY <1>1, <1>2, NothingInHand, TrailAsItWas
<1>. QED
  BY <1>1, <1>3, <1>4, <1>5, SettingsAlone

\* A change that is made, and that its request has yet to put on the trail.
LEMMA ChangeToBeTold ==
    ASSUME SetupInv, NEW w \in Workers, NEW request \in SetupTask, Proceed(w, request),
           task[w] # Idle, WrittenBy(task[w]) = {}, PastStands', Grows,
           NEW i \in SettingIds, NEW n \in Nat, WrittenBy(request) = {<<i, n>>},
           Len(past[i]) = n, Len(past'[i]) = n + 1,
           KnownSettings' = KnownSettings \cup {i},
           \A j \in SettingIds \ {i} : past'[j] = past[j],
           SetupTypeOK', InHand(request)', UNCHANGED <<trail, uses, lost>>
    PROVE  SetupInv'
<1>1. /\ OneWay'
      /\ overlapped' = overlapped
      /\ \A v \in Workers : task'[v] \in SetupTask \cup {Idle}
      /\ \A v \in Workers : InHand(task[v])'
      /\ task'[w] = request
      /\ \A v \in Workers \ {w} : task'[v] = task[v]
  BY SetupRequestGoesOn
<1>2. ASSUME NEW e \in trail
      PROVE  IsTrue(e)' /\ <<e.id, e.version>> # <<i, n>>
  <2>1. e \in Entry /\ IsTrue(e)
    BY DEF SetupInv, SetupTypeOK
  <2>2. IsTrue(e)'
    BY <2>1, EntriesStayTrue
  <2>3. e.version \in Nat /\ (e.id = i => e.version < n)
    BY <2>1 DEF IsTrue, Entry
  <2>. QED
    BY <2>2, <2>3
<1>3. ASSUME NEW v \in Workers
      PROVE  <<i, n>> \notin WrittenBy(task[v])
  <2>1. PICK r : r = task[v]
    OBVIOUS
  <2>2. r \in SetupTask \cup {Idle} /\ InHand(r)
    BY <2>1 DEF SetupInv
  <2>3. CASE r.op = "read"
    <3>1. /\ r.id \in SettingIds /\ r.id \in KnownSettings /\ r.version \in Nat
          /\ r.version <= settings[r.id].version /\ settings[r.id].version \in Nat
      BY <2>2, <2>3, KnownAreTyped DEF SetupTask, Idle, InHand, SetupInv
    <3>2. r.version < Len(past[r.id])
      BY <3>1 DEF SetupInv, PastStands
    <3>. QED
      BY <2>1, <2>3, <3>1, <3>2 DEF WrittenBy
  <2>4. CASE r.op = "record"
    <3>1. r.entry \in Entry /\ IsTrue(r.entry)
      BY <2>2, <2>4 DEF SetupTask, Idle, InHand
    <3>2. r.entry.version \in Nat /\ (r.entry.id = i => r.entry.version < n)
      BY <3>1 DEF IsTrue, Entry
    <3>. QED
      BY <2>1, <2>4, <3>2 DEF WrittenBy
  <2>5. CASE r.op \notin {"read", "record"}
    BY <2>1, <2>5 DEF WrittenBy
  <2>. QED
    BY <2>3, <2>4, <2>5
<1>4. \A v \in Workers \ {w} : WrittenBy(task'[v]) = WrittenBy(task[v])
  BY <1>1
<1>5. WrittenBy(task'[w]) = {<<i, n>>}
  BY <1>1
<1>6. OneEntryEach'
  <2>1. \A e \in trail, v \in Workers : <<e.id, e.version>> \notin WrittenBy(task'[v])
    BY <1>2, <1>4, <1>5 DEF SetupInv, OneEntryEach
  <2>2. ASSUME NEW v \in Workers, NEW x \in Workers, v # x
        PROVE  WrittenBy(task'[v]) \cap WrittenBy(task'[x]) = {}
    <3>1. CASE v = w
      BY <1>3, <1>4, <1>5, <2>2, <3>1
    <3>2. CASE x = w
      BY <1>3, <1>4, <1>5, <2>2, <3>2
    <3>3. CASE v # w /\ x # w
      BY <1>4, <2>2, <3>3 DEF SetupInv, OneEntryEach
    <3>. QED
      BY <3>1, <3>2, <3>3
  <2>. QED
    BY <2>1, <2>2 DEF SetupInv, OneEntryEach
<1>7. EveryChangeTold'
  <2>1. ASSUME NEW j \in KnownSettings', NEW v \in Versions(j)'
        PROVE  \/ \E e \in trail : e.id = j /\ e.version = v
               \/ <<j, v>> \in lost
               \/ \E x \in Workers : <<j, v>> \in WrittenBy(task'[x])
    <3>1. CASE j = i /\ v = n
      BY <1>5, <3>1
    <3>2. CASE ~(j = i /\ v = n)
      <4>1. j \in SettingIds /\ v \in Versions(j)
        <5>1. CASE j = i
          BY <2>1, <3>2, <5>1 DEF Versions
        <5>2. CASE j # i
          BY <2>1, <5>2 DEF Versions, KnownSettings
        <5>. QED
          BY <5>1, <5>2
      <4>2. j \in KnownSettings
        <5>1. Len(past[j]) # 0
          BY <4>1 DEF Versions
        <5>. QED
          BY <4>1, <5>1 DEF SetupInv, PastStands
      <4>3. CASE \E x \in Workers : <<j, v>> \in WrittenBy(task[x])
        <5>1. PICK x \in Workers : <<j, v>> \in WrittenBy(task[x])
          BY <4>3
        <5>2. x # w
          BY <5>1
        <5>. QED
          BY <1>4, <5>1, <5>2
      <4>. QED
        BY <4>1, <4>2, <4>3 DEF SetupInv, EveryChangeTold
    <3>. QED
      BY <3>1, <3>2
  <2>. QED
    BY <2>1 DEF EveryChangeTold
<1>8. UsedWhileActive'
  BY <1>1 DEF SetupInv, UsedWhileActive
<1>9. \A e \in trail' : IsTrue(e)'
  BY <1>2
<1>. QED
  BY <1>1, <1>6, <1>7, <1>8, <1>9 DEF SetupInv

LEMMA CreateWriteSound ==
    ASSUME SetupInv, NEW w \in Workers, CreateWrite(w)
    PROVE  SetupInv'
<1>1. PICK t : t = task[w]
  OBVIOUS
<1>2. /\ task[w] # Idle /\ t.op = "create" /\ t.code \in Codes /\ t.content \in Content
      /\ UNCHANGED <<trail, uses, lost>>
  BY <1>1 DEF CreateWrite, Idle, SetupInv, SetupTask
<1>3. PICK i \in SettingIds \ KnownSettings :
        /\ settings' = [settings EXCEPT ![i] =
               [code |-> t.code, content |-> t.content, version |-> 0]]
        /\ past' = [past EXCEPT ![i] = <<t.content>>]
        /\ Proceed(w, [op |-> "record", entry |-> EntryOf(i, 0, Absent, t.content)])
  BY <1>1 DEF CreateWrite
<1>4. PICK s : s = [code |-> t.code, content |-> t.content, version |-> 0]
  OBVIOUS
<1>5. s \in Setting /\ s.version = 0 /\ s.content = t.content
  BY <1>2, <1>4 DEF Setting
<1>6. PICK e : e = [id |-> i, version |-> 0, before |-> Absent, after |-> t.content]
  OBVIOUS
<1>7. e \in Entry
  BY <1>2, <1>6 DEF Entry
<1>8. PICK r : r = [op |-> "record", entry |-> e]
  OBVIOUS
<1>9. Proceed(w, r) /\ overlapped' = overlapped
  BY <1>3, <1>6, <1>8 DEF EntryOf, Proceed
<1>10. /\ settings'[i] = s
       /\ \A j \in SettingIds \ {i} : settings'[j] = settings[j]
       /\ settings' \in [SettingIds -> Setting \cup {Absent}]
  BY <1>3, <1>4, <1>5 DEF SetupInv, SetupTypeOK
<1>11. PICK h : h = <<t.content>>
  OBVIOUS
<1>12. h \in Seq(Content) /\ Len(h) = 1 /\ h[1] = t.content
  BY <1>2, <1>11
<1>13. /\ past'[i] = h
       /\ \A j \in SettingIds \ {i} : past'[j] = past[j]
       /\ past' \in [SettingIds -> Seq(Content)]
  BY <1>3, <1>11, <1>12 DEF SetupInv, PastStands
<1>14. KnownSettings' = KnownSettings \cup {i}
  BY <1>5, <1>10, SettingsAreThere DEF KnownSettings
<1>15. Len(past[i]) = 0
  BY <1>3 DEF SetupInv, PastStands
<1>16. SetupTypeOK'
  BY <1>2, <1>10 DEF SetupInv, SetupTypeOK
<1>17. PastStands'
  <2>1. ASSUME NEW j \in SettingIds
        PROVE  /\ j \in KnownSettings' =>
                    /\ Len(past'[j]) = settings'[j].version + 1
                    /\ past'[j][settings'[j].version + 1] = settings'[j].content
               /\ j \notin KnownSettings' => Len(past'[j]) = 0
    <3>1. CASE j = i
      BY <1>5, <1>10, <1>12, <1>13, <1>14, <3>1
    <3>2. CASE j # i
      BY <1>10, <1>13, <1>14, <3>2 DEF SetupInv, PastStands
    <3>. QED
      BY <3>1, <3>2
  <2>. QED
    BY <1>13, <2>1 DEF PastStands
<1>18. Grows
  <2>1. \A j \in KnownSettings : settings'[j] = settings[j] /\ settings[j].version \in Nat
    BY <1>3, <1>10, KnownAreTyped DEF KnownSettings, SetupInv
  <2>2. ASSUME NEW j \in SettingIds
        PROVE  /\ Len(past'[j]) >= Len(past[j])
               /\ \A k \in 1 .. Len(past[j]) : past'[j][k] = past[j][k]
    <3>1. CASE j = i
      BY <1>12, <1>13, <1>15, <3>1
    <3>2. CASE j # i
      <4>1. Len(past[j]) \in Nat
        BY DEF SetupInv, PastStands
      <4>. QED
        BY <1>13, <3>2, <4>1
    <3>. QED
      BY <3>1, <3>2
  <2>. QED
    BY <1>9, <1>14, <2>1, <2>2 DEF Grows
<1>19. IsTrue(e)'
  <2>1. past'[i][1] = e.after /\ Len(past'[i]) = 1
    BY <1>6, <1>12, <1>13
  <2>2. 0 \in Versions(i)'
    BY <2>1 DEF Versions
  <2>. QED
    BY <1>6, <2>1, <2>2 DEF IsTrue
<1>20. InHand(r)' /\ r \in SetupTask
  BY <1>7, <1>8, <1>19 DEF InHand, SetupTask
<1>21. WrittenBy(task[w]) = {} /\ WrittenBy(r) = {<<i, 0>>}
  BY <1>1, <1>2, <1>6, <1>8 DEF WrittenBy
<1>22. Len(past'[i]) = 0 + 1 /\ 0 \in Nat
  BY <1>12, <1>13
<1>. QED
  BY <1>2, <1>9, <1>13, <1>14, <1>15, <1>16, <1>17, <1>18, <1>20, <1>21, <1>22, ChangeToBeTold

LEMMA EditWriteSound ==
    ASSUME SetupInv, NEW w \in Workers, EditWrite(w)
    PROVE  SetupInv'
<1>1. PICK t : t = task[w]
  OBVIOUS
<1>2. /\ task[w] # Idle /\ t.op = "edit" /\ t.id \in SettingIds /\ t.before \in Content
      /\ t.name \in Names \cup {None} /\ t.isActive \in BOOLEAN \cup {None}
      /\ t.id \in KnownSettings /\ InHand(t) /\ UNCHANGED <<trail, uses, lost>>
  <2>1. t.op = "edit" /\ UNCHANGED <<trail, uses, lost>>
    BY <1>1 DEF EditWrite
  <2>2. t \in SetupTask \cup {Idle} /\ InHand(t)
    BY <1>1 DEF SetupInv
  <2>3. task[w] # Idle
    BY <1>1, <2>1 DEF Idle
  <2>4. /\ t.id \in SettingIds /\ t.before \in Content
        /\ t.name \in Names \cup {None} /\ t.isActive \in BOOLEAN \cup {None}
    BY <2>1, <2>2 DEF SetupTask, Idle
  <2>5. t.id \in KnownSettings
    BY <2>1, <2>2 DEF InHand
  <2>. QED
    BY <2>1, <2>2, <2>3, <2>4, <2>5
<1>3. PICK i \in SettingIds : i = t.id /\ i \in KnownSettings
  BY <1>2
<1>4. settings[i] \in Setting /\ settings[i].version \in Nat /\ settings[i].content \in Content
  BY <1>3, KnownAreTyped DEF SetupInv
<1>5. PICK n \in Nat : n = settings[i].version + 1
  BY <1>4
<1>6. PICK content : content = [name |-> Given(t.name, settings[i].content.name),
                                isActive |-> Given(t.isActive, settings[i].content.isActive)]
  OBVIOUS
<1>7. content \in Content
  <2>1. Given(t.name, settings[i].content.name) \in Names
    BY <1>2, <1>4 DEF Given, Content
  <2>2. Given(t.isActive, settings[i].content.isActive) \in BOOLEAN
    BY <1>2, <1>4 DEF Given, Content
  <2>. QED
    BY <1>6, <2>1, <2>2 DEF Content
<1>8. /\ settings' = [settings EXCEPT ![i].content = content, ![i].version = @ + 1]
      /\ past' = [past EXCEPT ![i] = Append(@, content)]
      /\ Proceed(w, [op |-> "read", id |-> i, version |-> n, before |-> t.before])
      /\ settings[i].version = t.expectedVersion
  BY <1>1, <1>3, <1>5, <1>6 DEF EditWrite, Matches
<1>9. PICK s : s = [settings[i] EXCEPT !.content = content, !.version = n]
  OBVIOUS
<1>10. s \in Setting /\ s.version = n /\ s.content = content
  BY <1>4, <1>7, <1>9 DEF Setting
<1>11. settings' = [settings EXCEPT ![i] = s]
  BY <1>5, <1>8, <1>9 DEF SetupInv, SetupTypeOK
<1>12. /\ settings'[i] = s
       /\ \A j \in SettingIds \ {i} : settings'[j] = settings[j]
       /\ settings' \in [SettingIds -> Setting \cup {Absent}]
  BY <1>10, <1>11 DEF SetupInv, SetupTypeOK
<1>13. past[i] \in Seq(Content) /\ Len(past[i]) = n /\ past[i][n] = settings[i].content
  BY <1>3, <1>5 DEF SetupInv, PastStands
<1>14. PICK h : h = Append(past[i], content)
  OBVIOUS
<1>15. /\ h \in Seq(Content) /\ Len(h) = n + 1 /\ h[n + 1] = content
       /\ \A k \in 1 .. n : h[k] = past[i][k]
  BY <1>7, <1>13, <1>14, AppendProperties
<1>16. /\ past'[i] = h
       /\ \A j \in SettingIds \ {i} : past'[j] = past[j]
       /\ past' \in [SettingIds -> Seq(Content)]
  BY <1>8, <1>14, <1>15 DEF SetupInv, PastStands
<1>17. KnownSettings' = KnownSettings /\ KnownSettings' = KnownSettings \cup {i}
  BY <1>3, <1>10, <1>12, SettingsAreThere DEF KnownSettings
<1>18. SetupTypeOK'
  BY <1>2, <1>12 DEF SetupInv, SetupTypeOK
<1>19. PastStands'
  <2>1. ASSUME NEW j \in SettingIds
        PROVE  /\ j \in KnownSettings' =>
                    /\ Len(past'[j]) = settings'[j].version + 1
                    /\ past'[j][settings'[j].version + 1] = settings'[j].content
               /\ j \notin KnownSettings' => Len(past'[j]) = 0
    <3>1. CASE j = i
      BY <1>3, <1>10, <1>12, <1>15, <1>16, <1>17, <3>1
    <3>2. CASE j # i
      BY <1>12, <1>16, <1>17, <3>2 DEF SetupInv, PastStands
    <3>. QED
      BY <3>1, <3>2
  <2>. QED
    BY <1>16, <2>1 DEF PastStands
<1>20. overlapped' = overlapped
  BY <1>8 DEF Proceed
<1>21. Grows
  <2>1. ASSUME NEW j \in KnownSettings
        PROVE  /\ settings'[j].version >= settings[j].version
               /\ settings'[j].version = settings[j].version =>
                    settings'[j].content = settings[j].content
    <3>1. CASE j = i
      BY <1>4, <1>5, <1>10, <1>12, <3>1
    <3>2. CASE j # i
      <4>1. settings'[j] = settings[j] /\ settings[j].version \in Nat
        BY <1>12, <3>2, KnownAreTyped DEF KnownSettings, SetupInv
      <4>. QED
        BY <4>1
    <3>. QED
      BY <3>1, <3>2
  <2>2. ASSUME NEW j \in SettingIds
        PROVE  /\ Len(past'[j]) >= Len(past[j])
               /\ \A k \in 1 .. Len(past[j]) : past'[j][k] = past[j][k]
    <3>1. CASE j = i
      BY <1>13, <1>15, <1>16, <3>1
    <3>2. CASE j # i
      <4>1. Len(past[j]) \in Nat
        BY DEF SetupInv, PastStands
      <4>. QED
        BY <1>16, <3>2, <4>1
    <3>. QED
      BY <3>1, <3>2
  <2>. QED
    BY <1>17, <1>20, <2>1, <2>2 DEF Grows
<1>22. PICK r : r = [op |-> "read", id |-> i, version |-> n, before |-> t.before]
  OBVIOUS
<1>23. t.before = past[i][n]
  BY <1>2, <1>3, <1>8, <1>13 DEF InHand
<1>24. n \in 1 .. n
  BY <1>4, <1>5
<1>25. t.before = past'[i][n]
  BY <1>15, <1>16, <1>23, <1>24
<1>26. InHand(r)'
  BY <1>3, <1>10, <1>12, <1>17, <1>22, <1>24, <1>25 DEF InHand
<1>27. r \in SetupTask /\ Proceed(w, r)
  BY <1>2, <1>8, <1>22 DEF SetupTask
<1>28. WrittenBy(task[w]) = {} /\ WrittenBy(r) = {<<i, n>>}
  BY <1>1, <1>2, <1>22 DEF WrittenBy
<1>29. Len(past[i]) = n /\ Len(past'[i]) = n + 1
  BY <1>13, <1>15, <1>16
<1>. QED
  BY <1>2, <1>16, <1>17, <1>18, <1>19, <1>21, <1>26, <1>27, <1>28, <1>29, ChangeToBeTold

LEMMA SetupInvInit == RequestsInit /\ SetupInit => SetupInv
<1> SUFFICES ASSUME RequestsInit, SetupInit
             PROVE  SetupInv
  OBVIOUS
<1>1. \A w \in Workers : task[w] = Idle
  BY DEF RequestsInit
<1>2. KnownSettings = {}
  BY DEF SetupInit, KnownSettings
<1>3. SetupTypeOK /\ OneWay
  BY OneWayInit DEF SetupInit, SetupTypeOK
<1>4. \A i \in SettingIds : past[i] \in Seq(Content) /\ Len(past[i]) = 0
  BY DEF SetupInit
<1>5. PastStands
  BY <1>2, <1>4 DEF PastStands, SetupInit
<1>6. \A w \in Workers : InHand(task[w]) /\ WrittenBy(task[w]) = {}
  BY <1>1, NothingInHand
<1>7. OneEntryEach /\ EveryChangeTold /\ UsedWhileActive
  BY <1>2, <1>6 DEF SetupInit, OneEntryEach, EveryChangeTold, UsedWhileActive
<1>8. \A e \in trail : IsTrue(e)
  BY DEF SetupInit
<1>. QED
  BY <1>1, <1>3, <1>5, <1>6, <1>7, <1>8 DEF SetupInv

LEMMA SetupInvStep == SetupInv /\ [SetupNext]_setupVars => SetupInv'
<1> SUFFICES ASSUME SetupInv, [SetupNext]_setupVars
             PROVE  SetupInv'
  OBVIOUS
<1>1. CASE SetupNext
  BY <1>1, RecordSound, SetupLoadsSound, CreateWriteSound, EditWriteSound, ReadAgainSound,
     UseWriteSound, SetupDropSound DEF SetupNext
<1>2. CASE UNCHANGED setupVars
  <2>1. UNCHANGED <<task, overlapped, settings, trail, uses, past, lost>>
    BY <1>2 DEF setupVars, setup
  <2>2. Grows /\ PastStands' /\ KnownSettings' = KnownSettings
        /\ \A i \in SettingIds : Versions(i)' = Versions(i)
    BY <2>1, GrowsStill
  <2>3. SetupTypeOK' /\ OneWay' /\ OneEntryEach' /\ UsedWhileActive'
    BY <2>1 DEF SetupInv, SetupTypeOK, OneWay, Remembered, OneAtMost, OneEntryEach,
       UsedWhileActive
  <2>4. EveryChangeTold'
    BY <2>1, <2>2 DEF SetupInv, EveryChangeTold, KnownSettings
  <2>5. \A e \in trail' : IsTrue(e)'
    BY <2>1 DEF SetupInv, IsTrue, Versions
  <2>6. ASSUME NEW w \in Workers
        PROVE  task'[w] \in SetupTask \cup {Idle} /\ InHand(task[w])'
    <3>1. PICK r : r = task[w] /\ InHand(r)
      BY DEF SetupInv
    <3>2. InHand(r)'
      BY <2>1, <2>2, <3>1 DEF InHand, IsTrue, Versions
    <3>. QED
      BY <2>1, <3>1, <3>2 DEF SetupInv
  <2>. QED
    BY <2>2, <2>3, <2>4, <2>5, <2>6 DEF SetupInv
<1>. QED
  BY <1>1, <1>2

LEMMA SetupInvHolds == SetupSpec => []SetupInv
  BY SetupInvInit, SetupInvStep, PTL DEF SetupSpec

\* Settings, their versions and the trail have their types, whatever overlaps
\* (fee-category.service.ts, relief.service.ts).
THEOREM SetupTypeCorrect == SetupSpec => []SetupTypeOK
<1>1. SetupInv => SetupTypeOK
  BY DEF SetupInv
<1>. QED
  BY <1>1, SetupInvHolds, PTL

\* The trail tells what was done, and what a change replaced, however many edits are
\* under way; and what it made, as long as requests do not overlap (audit.service.ts,
\* fee-category.service.ts, relief.service.ts).
THEOREM TrailStaysTrue == SetupSpec => []TrailIsTrue
<1>1. SetupInv => TrailIsTrue
  <2> SUFFICES ASSUME SetupInv
               PROVE  TrailIsTrue
    OBVIOUS
  <2>1. \A w \in Workers : Written(w) = WrittenBy(task[w])
    BY DEF Written, WrittenBy
  <2>2. \A i \in KnownSettings :
          \A v \in Versions(i) :
              \/ \E e \in trail : e.id = i /\ e.version = v
              \/ <<i, v>> \in lost
              \/ \E w \in Workers : <<i, v>> \in Written(w)
    BY <2>1 DEF SetupInv, EveryChangeTold
  <2>3. \A e \in trail : IsTrue(e)
    BY DEF SetupInv
  <2>. QED
    BY <2>2, <2>3 DEF SetupInv, OneEntryEach, IsTrue, UsedWhileActive, TrailIsTrue
<1>. QED
  BY <1>1, SetupInvHolds, PTL

-----------------------------------------------------------------------------
(* Pages *)

pagesVars == <<accessVars, browser>>

PagesSpec == RequestsInit /\ AccessInit /\ PagesInit /\ [][PagesNext]_pagesVars

OwnHandlers ==
    {"listSessions", "revokeSession", "logoutAll", "startOwnEnrolment", "confirmOwnEnrolment",
     "changePassword", "logout"}

PageHandlers ==
    OwnHandlers \cup
    {"getCurrentAcademicYear", "listAcademicYears", "listClassSections", "listLevels",
     "listPrograms", "setCurrentAcademicYear", "setCurrentTerm", "createAcademicYear",
     "listStudents", "getStudent", "previewImport", "registerStudent", "commitImport",
     "changeStudentStatus", "linkGuardian", "unlinkGuardian", "createGuardian", "listUsers",
     "listRoles", "grantRole", "revokeRole", "unlockUser", "setUserStatus", "createUser",
     "listCategories", "listStructures", "createCategory", "updateCategory",
     "createStructure", "changeStructureStatus", "previewChargeRun", "getStudentFinancials",
     "applyChargeRun", "requestRelief", "decideRelief", "reverseRelief"}

\* What routes ask a second factor for.
TwiceGuarded ==
    {"student.import", "guardian.link", "fee_structure.manage", "charge.create",
     "adjustment.request", "adjustment.approve", "user.assign_role"}

\* A route to one of these asks for the permission, and for no second factor.
Asks(route, permission, handlers) ==
    route.handler \in handlers => route.permission = permission /\ ~route.mfa

AsksTwice(route, permission, handlers) ==
    route.handler \in handlers => route.permission = permission

\* The routes pages call, by what they are declared with.
DeclaredAs(route) ==
    /\ route.handler \in OwnHandlers =>
         route.permission = Nothing /\ ~route.mfa /\ ~route.ownPassword
    /\ Asks(route, "academic.read",
           {"getCurrentAcademicYear", "listAcademicYears", "listClassSections", "listLevels",
            "listPrograms"})
    /\ Asks(route, "academic.manage",
           {"setCurrentAcademicYear", "setCurrentTerm", "createAcademicYear"})
    /\ Asks(route, "student.read", {"listStudents", "getStudent", "previewImport"})
    /\ Asks(route, "student.create", {"registerStudent"})
    /\ Asks(route, "student.archive", {"changeStudentStatus"})
    /\ Asks(route, "user.read", {"listUsers"})
    /\ Asks(route, "role.read", {"listRoles"})
    /\ Asks(route, "user.update", {"unlockUser"})
    /\ Asks(route, "user.deactivate", {"setUserStatus"})
    /\ Asks(route, "user.create", {"createUser"})
    /\ Asks(route, "fee_structure.read", {"listCategories", "listStructures"})
    /\ Asks(route, "charge.read", {"previewChargeRun", "getStudentFinancials"})
    /\ AsksTwice(route, "student.import", {"commitImport"})
    /\ AsksTwice(route, "guardian.link", {"linkGuardian", "unlinkGuardian"})
    /\ AsksTwice(route, "user.assign_role", {"grantRole", "revokeRole"})
    /\ AsksTwice(route, "fee_structure.manage",
           {"createCategory", "updateCategory", "createStructure", "changeStructureStatus"})
    /\ AsksTwice(route, "charge.create", {"applyChargeRun"})
    /\ AsksTwice(route, "adjustment.request", {"requestRelief"})
    /\ AsksTwice(route, "adjustment.approve", {"decideRelief", "reverseRelief"})

LEMMA RoutesBehind ==
    ASSUME NEW permission, NEW handlers
    PROVE  /\ \A route \in Behind(permission, handlers) :
                route.handler \in handlers /\ route.permission = permission /\ ~route.mfa
           /\ \A route \in TwiceBehind(permission, handlers) :
                route.handler \in handlers /\ route.permission = permission
  BY DEF Behind, TwiceBehind

LEMMA RoutesAreDeclared ==
    \A route \in Routes : DeclaredAs(route)
<1>. USE RoutesBehind DEF DeclaredAs, OwnHandlers, Asks, AsksTwice
<1>1. \A route \in PeriodRoutes : DeclaredAs(route)
  BY DEF PeriodRoutes
<1>2. \A route \in ProgramRoutes : DeclaredAs(route)
  BY DEF ProgramRoutes
<1>3. \A route \in LevelRoutes : DeclaredAs(route)
  BY DEF LevelRoutes
<1>4. \A route \in StudentRoutes : DeclaredAs(route)
  BY DEF StudentRoutes
<1>5. \A route \in GuardianRoutes : DeclaredAs(route)
  BY DEF GuardianRoutes
<1>6. \A route \in EnrollmentRoutes : DeclaredAs(route)
  BY DEF EnrollmentRoutes
<1>7. \A route \in FeeStructureRoutes : DeclaredAs(route)
  BY DEF FeeStructureRoutes
<1>8. \A route \in ChargeRoutes : DeclaredAs(route)
  BY DEF ChargeRoutes
<1>9. \A route \in ReliefRoutes : DeclaredAs(route)
  BY DEF ReliefRoutes
<1>10. \A route \in ScholarshipRoutes : DeclaredAs(route)
  BY DEF ScholarshipRoutes
<1>11. \A route \in StudentFinancialRoutes : DeclaredAs(route)
  BY DEF StudentFinancialRoutes
<1>12. \A route \in UserRoutes : DeclaredAs(route)
  BY DEF UserRoutes
<1>13. \A route \in OwnAccountRoutes : DeclaredAs(route)
  <2>. SUFFICES ASSUME NEW route \in OwnAccountRoutes
                PROVE  DeclaredAs(route)
    OBVIOUS
  <2>1. /\ route.permission = Nothing /\ ~route.ownPassword
        /\ route.handler \in OwnHandlers => ~route.mfa
        /\ route.handler \in OwnHandlers \cup {"me", "disableMfa", "regenerateRecoveryCodes"}
    BY DEF OwnAccountRoutes
  <2>. QED
    BY <2>1
<1>. HIDE DEF DeclaredAs
<1>. QED
  BY <1>1, <1>2, <1>3, <1>4, <1>5, <1>6, <1>7, <1>8, <1>9, <1>10, <1>11, <1>12, <1>13
     DEF Routes

LEMMA PageRoutesExist ==
    ASSUME NEW handler \in PageHandlers
    PROVE  \E route \in Routes : route.handler = handler
<1>. DEFINE Once(permission) ==
         [handler |-> handler, permission |-> permission, mfa |-> FALSE, ownPassword |-> TRUE]
            Twice(permission) ==
         [handler |-> handler, permission |-> permission, mfa |-> TRUE, ownPassword |-> TRUE]
            Own ==
         [handler |-> handler, permission |-> Nothing, mfa |-> FALSE, ownPassword |-> FALSE]
<1>0. \A permission, handlers :
        handler \in handlers =>
            /\ Once(permission) \in Behind(permission, handlers)
            /\ Twice(permission) \in TwiceBehind(permission, handlers)
  BY DEF Behind, TwiceBehind
<1>a. \A permission : Once(permission).handler = handler /\ Twice(permission).handler = handler
  OBVIOUS
<1>b. Own.handler = handler
  OBVIOUS
<1>1. CASE handler \in OwnHandlers
  <2>1. Own \in OwnAccountRoutes
    BY <1>1 DEF OwnHandlers, OwnAccountRoutes
  <2>. QED
    BY <1>b, <2>1 DEF Routes
<1>. HIDE DEF Once, Twice, Own
<1>2. CASE handler \in {"getCurrentAcademicYear", "listAcademicYears", "setCurrentAcademicYear",
                        "setCurrentTerm", "createAcademicYear"}
  <2>1. Once("academic.read") \in PeriodRoutes \/ Once("academic.manage") \in PeriodRoutes
    BY <1>0, <1>2 DEF PeriodRoutes
  <2>. QED
    BY <1>a, <2>1 DEF Routes
<1>3. CASE handler = "listPrograms"
  <2>1. Once("academic.read") \in ProgramRoutes
    BY <1>0, <1>3 DEF ProgramRoutes
  <2>. QED
    BY <1>a, <2>1 DEF Routes
<1>4. CASE handler \in {"listClassSections", "listLevels"}
  <2>1. Once("academic.read") \in LevelRoutes
    BY <1>0, <1>4 DEF LevelRoutes
  <2>. QED
    BY <1>a, <2>1 DEF Routes
<1>5. CASE handler \in {"listStudents", "getStudent", "previewImport", "registerStudent",
                        "commitImport", "changeStudentStatus", "linkGuardian"}
  <2>1. \/ Once("student.read") \in StudentRoutes
        \/ Once("student.create") \in StudentRoutes
        \/ Once("student.archive") \in StudentRoutes
        \/ Twice("student.import") \in StudentRoutes
        \/ Twice("guardian.link") \in StudentRoutes
    BY <1>0, <1>5 DEF StudentRoutes
  <2>. QED
    BY <1>a, <2>1 DEF Routes
<1>6. CASE handler \in {"unlinkGuardian", "createGuardian"}
  <2>1. Once("guardian.create") \in GuardianRoutes \/ Twice("guardian.link") \in GuardianRoutes
    BY <1>0, <1>6 DEF GuardianRoutes
  <2>. QED
    BY <1>a, <2>1 DEF Routes
<1>7. CASE handler \in {"listUsers", "listRoles", "grantRole", "revokeRole", "unlockUser",
                        "setUserStatus", "createUser"}
  <2>1. \/ Once("user.read") \in UserRoutes
        \/ Once("role.read") \in UserRoutes
        \/ Once("user.update") \in UserRoutes
        \/ Once("user.deactivate") \in UserRoutes
        \/ Once("user.create") \in UserRoutes
        \/ Twice("user.assign_role") \in UserRoutes
    BY <1>0, <1>7 DEF UserRoutes
  <2>. QED
    BY <1>a, <2>1 DEF Routes
<1>8. CASE handler \in {"listCategories", "listStructures", "createCategory", "updateCategory",
                        "createStructure", "changeStructureStatus"}
  <2>1. \/ Once("fee_structure.read") \in FeeStructureRoutes
        \/ Twice("fee_structure.manage") \in FeeStructureRoutes
    BY <1>0, <1>8 DEF FeeStructureRoutes
  <2>. QED
    BY <1>a, <2>1 DEF Routes
<1>9. CASE handler \in {"previewChargeRun", "applyChargeRun"}
  <2>1. Once("charge.read") \in ChargeRoutes \/ Twice("charge.create") \in ChargeRoutes
    BY <1>0, <1>9 DEF ChargeRoutes
  <2>. QED
    BY <1>a, <2>1 DEF Routes
<1>10. CASE handler = "getStudentFinancials"
  <2>1. Once("charge.read") \in StudentFinancialRoutes
    BY <1>0, <1>10 DEF StudentFinancialRoutes
  <2>. QED
    BY <1>a, <2>1 DEF Routes
<1>11. CASE handler \in {"requestRelief", "decideRelief", "reverseRelief"}
  <2>1. \/ Twice("adjustment.request") \in ReliefRoutes
        \/ Twice("adjustment.approve") \in ReliefRoutes
    BY <1>0, <1>11 DEF ReliefRoutes
  <2>. QED
    BY <1>a, <2>1 DEF Routes
<1>. QED
  BY <1>1, <1>2, <1>3, <1>4, <1>5, <1>6, <1>7, <1>8, <1>9, <1>10, <1>11 DEF PageHandlers

LEMMA PageRoutesAre ==
    ASSUME NEW handler \in PageHandlers
    PROVE  RouteOf[handler].handler = handler /\ DeclaredAs(RouteOf[handler])
<1>1. RouteOf[handler] \in Routes /\ RouteOf[handler].handler = handler
  BY PageRoutesExist DEF RouteOf
<1>. QED
  BY <1>1, RoutesAreDeclared

\* What comes with what, in every role and so in every set of them.
LEMMA PermissionsComeTogether ==
    ASSUME NEW roles \in SUBSET RoleKeys, NEW permission \in PermissionsForRoles(roles)
    PROVE  /\ permission \in {"student.read", "student.create", "charge.read",
                              "fee_structure.read"} =>
                "academic.read" \in PermissionsForRoles(roles)
           /\ permission \in {"student.create", "student.import"} =>
                "student.read" \in PermissionsForRoles(roles)
           /\ permission = "user.read" => "role.read" \in PermissionsForRoles(roles)
           /\ permission \in TwiceGuarded \ {"guardian.link"} => RolesRequireMfa(roles)
<1>1. PICK role \in roles : permission \in RolePermissions[role]
  BY DEF PermissionsForRoles
<1>2. role \in {"SUPER_ADMIN", "SCHOOL_ADMIN", "FINANCE_MANAGER", "BURSAR", "DOS", "PARENT",
                "STUDENT"}
  BY DEF RoleKeys, Rank
<1>3. /\ permission \in {"student.read", "student.create", "charge.read",
                         "fee_structure.read"} => "academic.read" \in RolePermissions[role]
      /\ permission \in {"student.create", "student.import"} =>
           "student.read" \in RolePermissions[role]
      /\ permission = "user.read" => "role.read" \in RolePermissions[role]
  BY <1>1, <1>2 DEF RolePermissions, Permissions, SchoolAdminPermissions,
     FinanceManagerPermissions, BursarPermissions, DosPermissions
<1>4. permission \in TwiceGuarded \ {"guardian.link"} => role \in MfaRequiredRoles
  BY <1>1, <1>2 DEF RolePermissions, SchoolAdminPermissions, FinanceManagerPermissions,
     BursarPermissions, DosPermissions, TwiceGuarded, MfaRequiredRoles
<1>. QED
  BY <1>3, <1>4 DEF PermissionsForRoles, RolesRequireMfa

LEMMA CallsAre ==
    ASSUME NEW page, NEW permissions, NEW handlers,
           NEW call \in Calls(page, permissions, handlers)
    PROVE  call.on = page /\ call.ifCan = permissions /\ call.handler \in handlers
  BY DEF Calls

LEMMA GuardsAre ==
    /\ DOMAIN Guard = {"status", "account", "password", "students", "register", "import",
                       "student", "academic", "users", "fees", "chargeRuns", "financials"}
    /\ Guard["status"] = {} /\ Guard["account"] = {} /\ Guard["password"] = {}
    /\ Guard["students"] = {"student.read"} /\ Guard["student"] = {"student.read"}
    /\ Guard["register"] = {"student.create"} /\ Guard["import"] = {"student.import"}
    /\ Guard["academic"] = {"academic.read"} /\ Guard["users"] = {"user.read"}
    /\ Guard["fees"] = {"fee_structure.read"}
    /\ Guard["chargeRuns"] = {"charge.read"} /\ Guard["financials"] = {"charge.read"}
  BY DEF Guard

\* What being let in to a page is enough for.
LEMMA PagesGrant ==
    ASSUME NEW b, b.roles \in SUBSET RoleKeys
    PROVE  /\ Admitted(b, "students") => {"student.read", "academic.read"} \subseteq Can(b)
           /\ Admitted(b, "register") =>
                {"student.create", "student.read", "academic.read"} \subseteq Can(b)
           /\ Admitted(b, "import") => {"student.import", "student.read"} \subseteq Can(b)
           /\ Admitted(b, "student") => "student.read" \in Can(b)
           /\ Admitted(b, "academic") => "academic.read" \in Can(b)
           /\ Admitted(b, "users") => {"user.read", "role.read"} \subseteq Can(b)
           /\ Admitted(b, "fees") =>
                {"fee_structure.read", "academic.read"} \subseteq Can(b)
           /\ Admitted(b, "chargeRuns") => {"charge.read", "academic.read"} \subseteq Can(b)
           /\ Admitted(b, "financials") => "charge.read" \in Can(b)
<1>1. \A permission \in Can(b) :
        /\ permission \in {"student.read", "student.create", "charge.read",
                           "fee_structure.read"} => "academic.read" \in Can(b)
        /\ permission \in {"student.create", "student.import"} => "student.read" \in Can(b)
        /\ permission = "user.read" => "role.read" \in Can(b)
  BY PermissionsComeTogether DEF Can
<1>. QED
  BY <1>1, GuardsAre DEF Admitted

\* A call needs a permission, and a second factor only with one whose roles are asked it.
Needs(call, permission) ==
    /\ RouteOf[call.handler].permission = permission
    /\ RouteOf[call.handler].mfa => permission \in TwiceGuarded \ {"guardian.link"}

LEMMA NeededAre ==
    ASSUME NEW call, call.handler \in PageHandlers
    PROVE  /\ call.handler \in {"getCurrentAcademicYear", "listAcademicYears",
                               "listClassSections", "listLevels", "listPrograms"} =>
                Needs(call, "academic.read")
           /\ call.handler \in {"setCurrentAcademicYear", "setCurrentTerm",
                               "createAcademicYear"} => Needs(call, "academic.manage")
           /\ call.handler \in {"listStudents", "getStudent", "previewImport"} =>
                Needs(call, "student.read")
           /\ call.handler = "registerStudent" => Needs(call, "student.create")
           /\ call.handler = "commitImport" => Needs(call, "student.import")
           /\ call.handler = "changeStudentStatus" => Needs(call, "student.archive")
           /\ call.handler = "listUsers" => Needs(call, "user.read")
           /\ call.handler = "listRoles" => Needs(call, "role.read")
           /\ call.handler \in {"grantRole", "revokeRole"} => Needs(call, "user.assign_role")
           /\ call.handler = "unlockUser" => Needs(call, "user.update")
           /\ call.handler = "setUserStatus" => Needs(call, "user.deactivate")
           /\ call.handler = "createUser" => Needs(call, "user.create")
           /\ call.handler \in {"listCategories", "listStructures"} =>
                Needs(call, "fee_structure.read")
           /\ call.handler \in {"createCategory", "updateCategory", "createStructure",
                               "changeStructureStatus"} => Needs(call, "fee_structure.manage")
           /\ call.handler \in {"previewChargeRun", "getStudentFinancials"} =>
                Needs(call, "charge.read")
           /\ call.handler = "applyChargeRun" => Needs(call, "charge.create")
           /\ call.handler = "requestRelief" => Needs(call, "adjustment.request")
           /\ call.handler \in {"decideRelief", "reverseRelief"} =>
                Needs(call, "adjustment.approve")
  BY PageRoutesAre DEF DeclaredAs, Asks, AsksTwice, Needs, TwiceGuarded

\* What the roles of a browser are enough for.
Granted(b, call) ==
    /\ RouteOf[call.handler].permission \in Can(b) \cup {Nothing}
    /\ RouteOf[call.handler].mfa => RolesRequireMfa(b.roles)

\* What the forms for guardians ask, with the second factor left to chance.
AskedOfGuardians(b, call) ==
    /\ call \in GuardiansCard \cup LinkGuardianForm
    /\ RouteOf[call.handler].permission \in Can(b) \/ call.handler = "createGuardian"

\* A call that is offered is one the roles are enough for, but for those forms.
Stands(b, call) ==
    (Admitted(b, call.on) /\ call.ifCan \subseteq Can(b)) =>
        /\ Granted(b, call) \/ AskedOfGuardians(b, call)
        /\ RouteOf[call.handler].ownPassword => b.ownPassword

LEMMA OwnCallsStand ==
    ASSUME NEW b, NEW call, call.handler \in OwnHandlers
    PROVE  Stands(b, call)
<1>1. call.handler \in PageHandlers
  BY DEF PageHandlers
<1>2. /\ RouteOf[call.handler].permission = Nothing
      /\ ~RouteOf[call.handler].mfa
      /\ ~RouteOf[call.handler].ownPassword
  BY <1>1, PageRoutesAre DEF DeclaredAs
<1>. QED
  BY <1>2 DEF Stands, Granted

\* A call stands where its page or its button asks for what it needs.
LEMMA GrantedCallsStand ==
    ASSUME NEW b, b.roles \in SUBSET RoleKeys, NEW call, NEW permission,
           Needs(call, permission), call.on # "password",
           (Admitted(b, call.on) /\ call.ifCan \subseteq Can(b)) => permission \in Can(b)
    PROVE  Stands(b, call)
<1>1. ASSUME permission \in TwiceGuarded \ {"guardian.link"}, permission \in Can(b)
      PROVE  RolesRequireMfa(b.roles)
  BY <1>1, PermissionsComeTogether DEF Can
<1>. QED
  BY <1>1 DEF Stands, Granted, Needs, Admitted

\* Page by page.
LEMMA AllCallsStand ==
    ASSUME NEW b, b.roles \in SUBSET RoleKeys, NEW call \in AllCalls
    PROVE  Stands(b, call)
<1>1. CASE call \in AccountPage \cup MfaEnrolment \cup ChangePasswordPage \cup SignOutButton
  <2>1. call.handler \in OwnHandlers
    BY <1>1, CallsAre DEF AccountPage, MfaEnrolment, ChangePasswordPage, SignOutButton,
       OwnHandlers
  <2>. QED
    BY <2>1, OwnCallsStand
<1>2. CASE call \in StudentsPage
  <2>1. call.on = "students" /\ call.handler \in {"getCurrentAcademicYear",
                 "listClassSections", "listStudents"}
    BY <1>2, CallsAre DEF StudentsPage
  <2>2. Needs(call, "academic.read") \/ Needs(call, "student.read")
    BY <2>1, NeededAre DEF PageHandlers
  <2>. QED
    BY <2>1, <2>2, PagesGrant, GrantedCallsStand
<1>3. CASE call \in StudentRegisterPage
  <2>1. call.on = "register" /\ call.handler \in {"getCurrentAcademicYear", "listLevels",
                 "listClassSections", "registerStudent"}
    BY <1>3, CallsAre DEF StudentRegisterPage
  <2>2. Needs(call, "academic.read") \/ Needs(call, "student.create")
    BY <2>1, NeededAre DEF PageHandlers
  <2>. QED
    BY <2>1, <2>2, PagesGrant, GrantedCallsStand
<1>4. CASE call \in StudentImportPage
  <2>1. call.on = "import" /\ call.handler \in {"previewImport", "commitImport"}
    BY <1>4, CallsAre DEF StudentImportPage
  <2>2. Needs(call, "student.read") \/ Needs(call, "student.import")
    BY <2>1, NeededAre DEF PageHandlers
  <2>. QED
    BY <2>1, <2>2, PagesGrant, GrantedCallsStand
<1>5. CASE call \in StudentDetailPage
  <2>1. call.on = "student" /\ call.handler \in {"getStudent"}
    BY <1>5, CallsAre DEF StudentDetailPage
  <2>2. Needs(call, "student.read")
    BY <2>1, NeededAre DEF PageHandlers
  <2>. QED
    BY <2>1, <2>2, PagesGrant, GrantedCallsStand
<1>6. CASE call \in UsersPage
  <2>1. call.on = "users" /\ call.handler \in {"listUsers", "listRoles"}
    BY <1>6, CallsAre DEF UsersPage
  <2>2. Needs(call, "user.read") \/ Needs(call, "role.read")
    BY <2>1, NeededAre DEF PageHandlers
  <2>. QED
    BY <2>1, <2>2, PagesGrant, GrantedCallsStand
<1>7. CASE call \in FeesPage
  <2>1. call.on = "fees" /\ call.handler \in {"listCategories", "listStructures",
                 "listAcademicYears"}
    BY <1>7, CallsAre DEF FeesPage
  <2>2. Needs(call, "fee_structure.read") \/ Needs(call, "academic.read")
    BY <2>1, NeededAre DEF PageHandlers
  <2>. QED
    BY <2>1, <2>2, PagesGrant, GrantedCallsStand
<1>8. CASE call \in ChargeRunPage
  <2>1. call.on = "chargeRuns" /\ call.handler \in {"listAcademicYears", "previewChargeRun"}
    BY <1>8, CallsAre DEF ChargeRunPage
  <2>2. Needs(call, "academic.read") \/ Needs(call, "charge.read")
    BY <2>1, NeededAre DEF PageHandlers
  <2>. QED
    BY <2>1, <2>2, PagesGrant, GrantedCallsStand
<1>9. CASE call \in StudentFinancialsPage
  <2>1. call.on = "financials" /\ call.handler \in {"getStudentFinancials"}
    BY <1>9, CallsAre DEF StudentFinancialsPage
  <2>2. Needs(call, "charge.read")
    BY <2>1, NeededAre DEF PageHandlers
  <2>. QED
    BY <2>1, <2>2, PagesGrant, GrantedCallsStand
<1>10. CASE call \in AddYearForm
  <2>1. call.on = "academic" /\ call.ifCan = {"academic.manage"}
    BY <1>10, CallsAre DEF AddYearForm
  <2>2. Needs(call, "academic.manage")
    BY <1>10, CallsAre, NeededAre DEF AddYearForm, PageHandlers
  <2>. QED
    BY <2>1, <2>2, GrantedCallsStand
<1>11. CASE call \in StatusCard
  <2>1. call.on = "student" /\ call.ifCan = {"student.archive"}
    BY <1>11, CallsAre DEF StatusCard
  <2>2. Needs(call, "student.archive")
    BY <1>11, CallsAre, NeededAre DEF StatusCard, PageHandlers
  <2>. QED
    BY <2>1, <2>2, GrantedCallsStand
<1>12. CASE call \in CreateUserForm
  <2>1. call.on = "users" /\ call.ifCan = {"user.create"}
    BY <1>12, CallsAre DEF CreateUserForm
  <2>2. Needs(call, "user.create")
    BY <1>12, CallsAre, NeededAre DEF CreateUserForm, PageHandlers
  <2>. QED
    BY <2>1, <2>2, GrantedCallsStand
<1>13. CASE call \in FeeCategoriesCard
  <2>1. call.on = "fees" /\ call.ifCan = {"fee_structure.manage"}
    BY <1>13, CallsAre DEF FeeCategoriesCard
  <2>2. Needs(call, "fee_structure.manage")
    BY <1>13, CallsAre, NeededAre DEF FeeCategoriesCard, PageHandlers
  <2>. QED
    BY <2>1, <2>2, GrantedCallsStand
<1>14. CASE call \in FeeStructuresCard
  <2>1. call.on = "fees" /\ call.ifCan = {"fee_structure.manage"}
    BY <1>14, CallsAre DEF FeeStructuresCard
  <2>2. Needs(call, "fee_structure.manage")
    BY <1>14, CallsAre, NeededAre DEF FeeStructuresCard, PageHandlers
  <2>. QED
    BY <2>1, <2>2, GrantedCallsStand
<1>15. CASE call \in ApplyButton
  <2>1. call.on = "chargeRuns" /\ call.ifCan = {"charge.create"}
    BY <1>15, CallsAre DEF ApplyButton
  <2>2. Needs(call, "charge.create")
    BY <1>15, CallsAre, NeededAre DEF ApplyButton, PageHandlers
  <2>. QED
    BY <2>1, <2>2, GrantedCallsStand
<1>16. CASE call \in RequestReliefForm
  <2>1. call.on = "financials" /\ call.ifCan = {"adjustment.request"}
    BY <1>16, CallsAre DEF RequestReliefForm
  <2>2. Needs(call, "adjustment.request")
    BY <1>16, CallsAre, NeededAre DEF RequestReliefForm, PageHandlers
  <2>. QED
    BY <2>1, <2>2, GrantedCallsStand
<1>17. CASE call \in ReliefCard
  <2>1. call.on = "financials" /\ call.ifCan = {"adjustment.approve"}
    BY <1>17, CallsAre DEF ReliefCard
  <2>2. Needs(call, "adjustment.approve")
    BY <1>17, CallsAre, NeededAre DEF ReliefCard, PageHandlers
  <2>. QED
    BY <2>1, <2>2, GrantedCallsStand
<1>18. CASE call \in AcademicPage
  <2>1. \/ Needs(call, "academic.read")
        \/ Needs(call, "academic.manage") /\ call.ifCan = {"academic.manage"}
    BY <1>18, CallsAre, NeededAre DEF AcademicPage, PageHandlers
  <2>2. call.on = "academic"
    BY <1>18, CallsAre DEF AcademicPage
  <2>. QED
    BY <2>1, <2>2, PagesGrant, GrantedCallsStand
<1>19. CASE call \in UserRow
  <2>1. \E permission \in {"user.assign_role", "user.update", "user.deactivate"} :
          Needs(call, permission) /\ call.ifCan = {permission}
    BY <1>19, CallsAre, NeededAre DEF UserRow, PageHandlers
  <2>2. call.on = "users"
    BY <1>19, CallsAre DEF UserRow
  <2>. QED
    BY <2>1, <2>2, GrantedCallsStand
<1>20. CASE call \in GuardiansCard \cup LinkGuardianForm
  <2>1. /\ call.on = "student"
        /\ call.ifCan = {"guardian.link"}
        /\ call.handler \in {"unlinkGuardian", "createGuardian", "linkGuardian"}
    BY <1>20, CallsAre DEF GuardiansCard, LinkGuardianForm
  <2>2. call.handler # "createGuardian" => RouteOf[call.handler].permission = "guardian.link"
    BY <2>1, PageRoutesAre DEF DeclaredAs, AsksTwice, PageHandlers
  <2>. QED
    BY <1>20, <2>1, <2>2 DEF Stands, AskedOfGuardians, Admitted
<1>. QED
  BY <1>1, <1>2, <1>3, <1>4, <1>5, <1>6, <1>7, <1>8, <1>9, <1>10, <1>11, <1>12, <1>13, <1>14,
     <1>15, <1>16, <1>17, <1>18, <1>19, <1>20 DEF AllCalls

LEMMA LinksAre ==
    ASSUME NEW link \in Navigation \cup PageLinks
    PROVE  \/ link.to \in {"status", "account", "password"}
           \/ link.ifCan = Guard[link.to]
           \/ link.on = "students" /\ link.to = "student"
           \/ link.on = "register" /\ link.to \in {"student", "students"}
           \/ link.on = "import" /\ link.to = "students"
           \/ link.on = "student" /\ link.to = "students"
<1>1. CASE link \in Navigation
  BY <1>1, GuardsAre DEF Navigation, LinkTo
<1>2. CASE link \in PageLinks
  BY <1>2, GuardsAre DEF PageLinks, LinkTo
<1>. QED
  BY <1>1, <1>2

\* Who is admitted where a link is, and can what it looks at, is admitted where it leads.
LEMMA LinksLeadIn ==
    ASSUME NEW b, b.roles \in SUBSET RoleKeys, b.ownPassword,
           NEW link \in Navigation \cup PageLinks,
           Admitted(b, link.on), link.ifCan \subseteq Can(b)
    PROVE  Admitted(b, link.to)
<1>1. Guard[link.to] \subseteq Can(b)
  BY LinksAre, GuardsAre, PagesGrant
<1>. QED
  BY <1>1 DEF Admitted

LEMMA PagesOffer == AccessInv => PagesOfferWhatIsGranted
<1>. SUFFICES ASSUME AccessInv, browser # Nobody, UpToDate(browser)
              PROVE  /\ \A call \in Offered(browser, AllCalls) :
                          MayCall(browser.session, call.handler) \/ AsksTooMuch(call, browser)
                     /\ browser.ownPassword =>
                          \A link \in Offered(browser, Navigation \cup PageLinks) :
                              Admitted(browser, link.to)
  BY DEF PagesOfferWhatIsGranted
<1>1. /\ Authenticated(browser.session)
      /\ browser.roles = held[browser.session.user]
      /\ browser.ownPassword = (browser.session.user \in ownPassword)
  BY DEF UpToDate, SessionPayload
<1>2. browser.roles \in SUBSET RoleKeys
  BY <1>1, AccessAssumption
     DEF Authenticated, AccessInv, AccessTyped, AccessTypeOK, OpenSession
<1>3. ASSUME NEW call \in Offered(browser, AllCalls)
      PROVE  MayCall(browser.session, call.handler) \/ AsksTooMuch(call, browser)
  <2>1. /\ Granted(browser, call) \/ AskedOfGuardians(browser, call)
        /\ RouteOf[call.handler].ownPassword => browser.ownPassword
    BY <1>2, <1>3, AllCallsStand DEF Offered, Stands
  <2>2. CASE Granted(browser, call)
    BY <1>1, <2>1, <2>2 DEF Granted, Can, MayCall, Authenticated
  <2>3. CASE AskedOfGuardians(browser, call)
    BY <1>1, <2>1, <2>3 DEF AskedOfGuardians, AsksTooMuch, Can, MayCall
  <2>. QED
    BY <2>1, <2>2, <2>3
<1>4. ASSUME browser.ownPassword, NEW link \in Offered(browser, Navigation \cup PageLinks)
      PROVE  Admitted(browser, link.to)
  BY <1>2, <1>4, LinksLeadIn DEF Offered
<1>. QED
  BY <1>3, <1>4

\* For any number of staff, roles in play, sessions and requests in flight, no page offers
\* a browser that is up to date what the API then refuses, but for the guardians of a
\* student, and no link leads where its guard turns the visitor away (App.tsx:30-38,
\* RequireAuth.tsx:19-22).
THEOREM PagesOfferTheGranted == PagesSpec => []PagesOfferWhatIsGranted
<1>1. RequestsInit /\ AccessInit => AccessInv
  BY AccessInvInit
<1>2. AccessInv /\ [PagesNext]_pagesVars => AccessInv'
  <2>1. [PagesNext]_pagesVars => [AccessNext]_accessVars
    BY DEF PagesNext, pagesVars, accessVars, Hear
  <2>. QED
    BY <2>1, AccessInvStep
<1>. QED
  BY <1>1, <1>2, PagesOffer, PTL DEF PagesSpec

\* The browser holds nothing, or what an answer to a sign-in or a renewal told it
\* (auth.controller.ts:159-173, AuthProvider.tsx:44-54).
THEOREM PagesTypeCorrect == PagesSpec => [](AccessTypeOK /\ PagesTypeOK)
<1>1. RequestsInit /\ AccessInit /\ PagesInit => AccessInv /\ PagesTypeOK
  BY AccessInvInit DEF PagesInit, PagesTypeOK
<1>2. AccessInv /\ PagesTypeOK /\ [PagesNext]_pagesVars => (AccessInv /\ PagesTypeOK)'
  <2>. SUFFICES ASSUME AccessInv, PagesTypeOK, [PagesNext]_pagesVars
                PROVE  (AccessInv /\ PagesTypeOK)'
    OBVIOUS
  <2>1. [AccessNext]_accessVars
    BY DEF PagesNext, pagesVars, accessVars, Hear
  <2>2. CASE UNCHANGED browser
    BY <2>1, <2>2, AccessInvStep DEF PagesTypeOK
  <2>3. ASSUME NEW s \in open, Hear(s)
        PROVE  PagesTypeOK'
    <3>1. s \in OpenSession /\ held[s.user] \in SUBSET StaffRoles
      BY AccessAssumption DEF AccessInv, AccessTyped, AccessTypeOK, OpenSession
    <3>. QED
      BY <2>3, <3>1 DEF Hear, SessionPayload, PagesTypeOK
  <2>. QED
    BY <2>1, <2>2, <2>3, AccessInvStep DEF PagesNext, pagesVars
<1>. QED
  BY <1>1, <1>2, PTL DEF PagesSpec, AccessInv, AccessTyped

=============================================================================
