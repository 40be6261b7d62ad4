--------------------------- MODULE Authorization ----------------------------
(***************************************************************************)
(* Who may do what: the role matrix of shared/src/authorization.ts and the  *)
(* guards each route of the API is declared with.                           *)
(*                                                                         *)
(* Of the permissions, those are kept that a route asks for.  A route is    *)
(* known by its handler.  What a handler then checks of the record it is    *)
(* about is in the module that models it.                                   *)
(***************************************************************************)
EXTENDS Naturals

-----------------------------------------------------------------------------
(* Roles *)

Rank ==
    [SUPER_ADMIN |-> 100, SCHOOL_ADMIN |-> 80, FINANCE_MANAGER |-> 70, BURSAR |-> 60,
     DOS |-> 50, PARENT |-> 10, STUDENT |-> 5]

RoleKeys == DOMAIN Rank

MfaRequiredRoles == {"SUPER_ADMIN", "SCHOOL_ADMIN", "FINANCE_MANAGER", "BURSAR"}

Permissions ==
    {"user.read", "user.create", "user.update", "user.deactivate", "user.assign_role",
     "role.read", "academic.read", "academic.manage", "student.read", "student.create",
     "student.update", "student.archive", "student.import", "guardian.read",
     "guardian.create", "guardian.update", "guardian.link", "fee_structure.read",
     "fee_structure.manage", "charge.read", "charge.create", "charge.void",
     "adjustment.read", "adjustment.request", "adjustment.approve"}

SchoolAdminPermissions ==
    {"user.read", "user.create", "user.update", "user.deactivate", "user.assign_role",
     "role.read", "academic.read", "academic.manage", "student.read", "student.create",
     "student.update", "student.archive", "student.import", "guardian.read",
     "guardian.create", "guardian.update", "guardian.link", "fee_structure.read",
     "fee_structure.manage", "charge.read", "adjustment.read"}

FinanceManagerPermissions ==
    {"academic.read", "student.read", "guardian.read", "fee_structure.read",
     "fee_structure.manage", "charge.read", "charge.create", "charge.void",
     "adjustment.read", "adjustment.request", "adjustment.approve"}

\* Mutant of BursarPermissions: a bursar decides requests as well.
BursarPermissionsAndDecisions ==
    {"academic.read", "student.read", "guardian.read", "fee_structure.read",
     "charge.read", "charge.create", "adjustment.read", "adjustment.request",
     "adjustment.approve"}

BursarPermissions ==
    {"academic.read", "student.read", "guardian.read", "fee_structure.read",
     "charge.read", "charge.create", "adjustment.read", "adjustment.request"}

DosPermissions ==
    {"academic.read", "academic.manage", "student.read", "student.create",
     "student.update", "guardian.read", "guardian.link"}

\* What a parent or a student holds, no route asks for yet.
RolePermissions ==
    [SUPER_ADMIN |-> Permissions, SCHOOL_ADMIN |-> SchoolAdminPermissions,
     FINANCE_MANAGER |-> FinanceManagerPermissions, BURSAR |-> BursarPermissions,
     DOS |-> DosPermissions, PARENT |-> {}, STUDENT |-> {}]

PermissionsForRoles(roles) == UNION {RolePermissions[role] : role \in roles}

RolesRequireMfa(roles) == roles \cap MfaRequiredRoles # {}

-----------------------------------------------------------------------------
(* Routes *)

Nothing == "nothing"

\* Behind a permission and a password its owner chose.
Behind(permission, handlers) ==
    [handler : handlers, permission : {permission}, mfa : {FALSE}, ownPassword : {TRUE}]

\* And behind a second factor.
TwiceBehind(permission, handlers) ==
    [handler : handlers, permission : {permission}, mfa : {TRUE}, ownPassword : {TRUE}]

PeriodRoutes ==
         Behind("academic.read", {"listAcademicYears", "getCurrentAcademicYear"})
    \cup Behind("academic.manage",
            {"createAcademicYear", "updateAcademicYear", "setCurrentAcademicYear",
             "createTerm", "updateTerm", "setCurrentTerm"})

ProgramRoutes ==
         Behind("academic.read", {"listDepartments", "listPrograms"})
    \cup Behind("academic.manage", {"createDepartment", "createProgram", "updateProgram"})

LevelRoutes ==
         Behind("academic.read", {"listLevels", "listClassSections"})
    \cup Behind("academic.manage",
            {"createLevel", "setLevelProgression", "createClassSection",
             "updateClassSection"})

StudentRoutes ==
         Behind("student.read",
            {"listStudents", "getStudent", "previewImport", "listStudentEnrollments"})
    \cup Behind("student.create", {"registerStudent"})
    \cup Behind("student.update", {"updateStudent"})
    \cup Behind("student.archive", {"changeStudentStatus"})
    \cup TwiceBehind("student.import", {"commitImport"})
    \cup Behind("guardian.read", {"listStudentGuardians"})
    \cup TwiceBehind("guardian.link", {"linkGuardian"})

GuardianRoutes ==
         Behind("guardian.read", {"listGuardians", "getGuardian"})
    \cup Behind("guardian.create", {"createGuardian"})
    \cup Behind("guardian.update", {"updateGuardian"})
    \cup TwiceBehind("guardian.link", {"updateLink", "unlinkGuardian"})

EnrollmentRoutes ==
    Behind("academic.manage", {"enrolStudent", "moveClass", "endEnrollment"})

FeeStructureRoutes ==
         Behind("fee_structure.read",
            {"listCategories", "getCategory", "listStructures", "getStructure"})
    \cup TwiceBehind("fee_structure.manage",
            {"createCategory", "updateCategory", "createStructure", "updateStructure",
             "changeStructureStatus", "addStructureItem", "updateStructureItem",
             "removeStructureItem"})

ChargeRoutes ==
         Behind("charge.read", {"listCharges", "getCharge", "previewChargeRun"})
    \cup TwiceBehind("charge.create", {"createCharge", "applyChargeRun"})
    \cup TwiceBehind("charge.void", {"voidCharge"})

ReliefRoutes ==
         Behind("adjustment.read", {"listReliefs", "getRelief"})
    \cup TwiceBehind("adjustment.request", {"requestRelief", "cancelRelief"})
    \cup TwiceBehind("adjustment.approve", {"decideRelief", "reverseRelief"})

ScholarshipRoutes ==
         Behind("adjustment.read", {"listScholarships", "getScholarship"})
    \cup TwiceBehind("fee_structure.manage", {"createScholarship", "updateScholarship"})

StudentFinancialRoutes ==
    Behind("charge.read", {"getStudentBalance", "getStudentFinancials"})

UserRoutes ==
         Behind("user.read", {"listUsers", "getUser"})
    \cup Behind("user.create", {"createUser"})
    \cup Behind("user.update", {"updateUser", "unlockUser"})
    \cup Behind("user.deactivate", {"setUserStatus"})
    \cup TwiceBehind("user.assign_role", {"grantRole", "revokeRole"})
    \cup Behind("role.read", {"listRoles"})

\* Of the routes of one's own account, those that take a session.
OwnAccountRoutes ==
    [handler : {"me", "logout", "logoutAll", "changePassword", "listSessions",
                "revokeSession", "startOwnEnrolment", "confirmOwnEnrolment", "disableMfa"},
     permission : {Nothing}, mfa : {FALSE}, ownPassword : {FALSE}]
    \cup
    [handler : {"regenerateRecoveryCodes"},
     permission : {Nothing}, mfa : {TRUE}, ownPassword : {FALSE}]

Routes ==
    PeriodRoutes \cup ProgramRoutes \cup LevelRoutes \cup StudentRoutes
        \cup GuardianRoutes \cup EnrollmentRoutes \cup FeeStructureRoutes
        \cup ChargeRoutes \cup ReliefRoutes \cup ScholarshipRoutes
        \cup StudentFinancialRoutes \cup UserRoutes \cup OwnAccountRoutes

RouteOf ==
    [handler \in {route.handler : route \in Routes} |->
        CHOOSE route \in Routes : route.handler = handler]

=============================================================================
