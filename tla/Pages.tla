-------------------------------- MODULE Pages ---------------------------------
(***************************************************************************)
(* What the pages of the web client ask of the API for whoever looks at     *)
(* them: the routes of App.tsx with the permission each is behind           *)
(* (RequireAuth), what each page loads, and what it offers to whom.          *)
(*                                                                         *)
(* A browser knows the roles of its visitor as they were when a sign-in or  *)
(* a renewal last told it; the API looks at those held now (Access).        *)
(***************************************************************************)
EXTENDS Access

CONSTANT Nobody

VARIABLE browser    \* what a browser holds of its session, or Nobody

-----------------------------------------------------------------------------
(* Routes and links *)

\* RequireAuth of each page in App.tsx
Guard ==
    [status |-> {}, account |-> {}, password |-> {}, students |-> {"student.read"},
     register |-> {"student.create"}, import |-> {"student.import"},
     student |-> {"student.read"}, academic |-> {"academic.read"}, users |-> {"user.read"},
     fees |-> {"fee_structure.read"}, chargeRuns |-> {"charge.read"},
     financials |-> {"charge.read"}]

Can(b) == PermissionsForRoles(b.roles)

\* RequireAuth: who has not chosen a password sees the one page where it is chosen.
Admitted(b, page) ==
    /\ b.ownPassword \/ page = "password"
    /\ Guard[page] \subseteq Can(b)

\* A link of a page, shown to who has the permissions it looks at.
LinkTo(page, permissions, to) == [on |-> page, ifCan |-> permissions, to |-> to]

\* NAVIGATION of AppLayout.tsx, on every page
Navigation ==
    UNION {{LinkTo(page, {}, "status"), LinkTo(page, {"student.read"}, "students"),
            LinkTo(page, {"academic.read"}, "academic"),
            LinkTo(page, {"fee_structure.read"}, "fees"),
            LinkTo(page, {"charge.read"}, "chargeRuns"), LinkTo(page, {"user.read"}, "users"),
            LinkTo(page, {}, "account")} : page \in DOMAIN Guard}

PageLinks ==
    {LinkTo("account", {}, "password"), LinkTo("students", {"student.import"}, "import"),
     LinkTo("students", {"student.create"}, "register"), LinkTo("students", {}, "student"),
     LinkTo("register", {}, "student"), LinkTo("import", {}, "students"),
     LinkTo("register", {}, "students"), LinkTo("student", {"charge.read"}, "financials"),
     LinkTo("student", {}, "students")}

-----------------------------------------------------------------------------
(* The pages: the calls of each, and the permissions it looks at before it    *)
(* offers them.                                                                *)

Calls(page, permissions, handlers) ==
    [on : {page}, ifCan : {permissions}, handler : handlers]

AccountPage ==
    Calls("account", {}, {"listSessions", "revokeSession", "logoutAll"})

MfaEnrolment == Calls("account", {}, {"startOwnEnrolment", "confirmOwnEnrolment"})

ChangePasswordPage == Calls("password", {}, {"changePassword"})

SignOutButton == UNION {Calls(page, {}, {"logout"}) : page \in DOMAIN Guard}

StudentsPage ==
    Calls("students", {}, {"getCurrentAcademicYear", "listClassSections", "listStudents"})

StudentRegisterPage ==
    Calls("register", {},
          {"getCurrentAcademicYear", "listLevels", "listClassSections", "registerStudent"})

StudentImportPage == Calls("import", {}, {"previewImport", "commitImport"})

StudentDetailPage == Calls("student", {}, {"getStudent"})

GuardiansCard == Calls("student", {"guardian.link"}, {"unlinkGuardian"})

LinkGuardianForm == Calls("student", {"guardian.link"}, {"createGuardian", "linkGuardian"})

StatusCard == Calls("student", {"student.archive"}, {"changeStudentStatus"})

AcademicPage ==
         Calls("academic", {},
               {"listAcademicYears", "listPrograms", "listLevels", "listClassSections"})
    \cup Calls("academic", {"academic.manage"}, {"setCurrentAcademicYear", "setCurrentTerm"})

AddYearForm == Calls("academic", {"academic.manage"}, {"createAcademicYear"})

UsersPage == Calls("users", {}, {"listUsers", "listRoles"})

UserRow ==
         Calls("users", {"user.assign_role"}, {"grantRole", "revokeRole"})
    \cup Calls("users", {"user.update"}, {"unlockUser"})
    \cup Calls("users", {"user.deactivate"}, {"setUserStatus"})

CreateUserForm == Calls("users", {"user.create"}, {"createUser"})

FeesPage == Calls("fees", {}, {"listCategories", "listStructures", "listAcademicYears"})

FeeCategoriesCard ==
    Calls("fees", {"fee_structure.manage"}, {"createCategory", "updateCategory"})

FeeStructuresCard ==
    Calls("fees", {"fee_structure.manage"}, {"createStructure", "changeStructureStatus"})

ChargeRunPage == Calls("chargeRuns", {}, {"listAcademicYears", "previewChargeRun"})

\* Mutant of ApplyButton: the button comes with the preview.
ApplyButtonForAll == Calls("chargeRuns", {}, {"applyChargeRun"})

ApplyButton == Calls("chargeRuns", {"charge.create"}, {"applyChargeRun"})

StudentFinancialsPage == Calls("financials", {}, {"getStudentFinancials"})

RequestReliefForm == Calls("financials", {"adjustment.request"}, {"requestRelief"})

ReliefCard == Calls("financials", {"adjustment.approve"}, {"decideRelief", "reverseRelief"})

AllCalls ==
    UNION {AccountPage, MfaEnrolment, ChangePasswordPage, SignOutButton, StudentsPage,
           StudentRegisterPage, StudentImportPage, StudentDetailPage, GuardiansCard,
           LinkGuardianForm, StatusCard, AcademicPage, AddYearForm, UsersPage, UserRow,
           CreateUserForm, FeesPage, FeeCategoriesCard, FeeStructuresCard, ChargeRunPage,
           ApplyButton, StudentFinancialsPage, RequestReliefForm, ReliefCard}

Offered(b, offers) ==
    {offer \in offers : Admitted(b, offer.on) /\ offer.ifCan \subseteq Can(b)}

-----------------------------------------------------------------------------
\* The answer to a sign-in or a renewal: the roles are read anew, and the second factor
\* is not asked for again.
SessionPayload(s) ==
    [session |-> s, roles |-> held[s.user], ownPassword |-> s.user \in ownPassword]

Hear(s) ==
    /\ s \in open
    /\ browser' = SessionPayload(s)
    /\ UNCHANGED <<task, overlapped, access>>

PagesInit == browser = Nobody

PagesNext ==
    \/ AccessNext /\ UNCHANGED browser
    \/ \E s \in open : Hear(s)

-----------------------------------------------------------------------------
PagesTypeOK ==
    \/ browser = Nobody
    \/ browser \in [session : OpenSession, roles : SUBSET StaffRoles, ownPassword : BOOLEAN]

\* Whether the browser knows all that the API will go by.
UpToDate(b) ==
    /\ Authenticated(b.session)
    /\ b = SessionPayload(b.session)

\* The forms for guardians look at guardian.link and at nothing else.
AsksTooMuch(call, b) ==
    /\ call \in GuardiansCard \cup LinkGuardianForm
    /\ \/ RouteOf[call.handler].mfa /\ ~b.session.mfaSatisfied
       \/ call.handler = "createGuardian"

\* A page neither loads nor offers what the API then refuses its visitor, and no link
\* leads where its guard turns the visitor away, unless the account has changed since
\* the browser was told.  The exception is the guardians of a student, which a director
\* of studies is offered and can neither add nor link (App.tsx:30-38,
\* RequireAuth.tsx:19-22, StudentDetailPage.tsx:192, 312).
PagesOfferWhatIsGranted ==
    (browser # Nobody /\ UpToDate(browser)) =>
        /\ \A call \in Offered(browser, AllCalls) :
             MayCall(browser.session, call.handler) \/ AsksTooMuch(call, browser)
        /\ browser.ownPassword =>
             \A link \in Offered(browser, Navigation \cup PageLinks) :
                 Admitted(browser, link.to)

=============================================================================
