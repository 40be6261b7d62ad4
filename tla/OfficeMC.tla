----------------------------- MODULE OfficeMC -------------------------------
(***************************************************************************)
(* Small instances of Calendar, Curriculum, Registry, Guardians, Accounts,  *)
(* Access, Pages and Setup for TLC.                                         *)
(*                                                                         *)
(* One run explores them one by one: part says which of them moves, and the *)
(* others stay where they started.  What Registry and Guardians need of the *)
(* years and the levels they compose with moves with them.                  *)
(***************************************************************************)
EXTENDS Guardians, Accounts, Pages, Setup, TLC

CONSTANTS
    Parts,
    Serial,     \* the parts in which requests do not overlap
    y1, y2, t1, t2, t3, d1, p1, p2, l1, l2, l3,
    s1, s2, e1, e2, e3, c1, c2, g1, g2, k1, k2, k3, n1, x1, x2, m1, r1, r2,
    u1, u2, u3, a1, w1, w2, old, new

VARIABLE part

variables == <<part, task, overlapped, calendar, curriculum, registry, office, access, browser, setup>>

-----------------------------------------------------------------------------
(* Constants that a configuration cannot write *)

OfficeSpans == {<<1, 2>>, <<2, 3>>, <<3, 4>>}

OfficeYearSpans == {<<1, 4>>}

\* Close, open, and move: a term onto another one, a year off its terms.
OfficeEdits ==
    {[status |-> "CLOSED", span |-> <<None, None>>],
     [status |-> "ACTIVE", span |-> <<None, None>>],
     [status |-> None, span |-> <<2, 3>>]}

OfficeFiles ==
    {<<[who |-> "A", level |-> l1, classSection |-> c1, guardianPhone |-> n1],
       [who |-> "B", level |-> l1, classSection |-> c1, guardianPhone |-> n1]>>,
     <<[who |-> "A", level |-> l1, classSection |-> None, guardianPhone |-> None]>>,
     <<[who |-> "A", level |-> l1, classSection |-> None, guardianPhone |-> n1],
       [who |-> "A", level |-> l1, classSection |-> c1, guardianPhone |-> None]>>}

OfficeClassLevel == c1 :> l1 @@ c2 :> l1

OfficeClassYear == c1 :> y1 @@ c2 :> y2

OfficeCapacities == c1 :> {1, None} @@ c2 :> {1}

Someone ==
    [status |-> "ACTIVE", version |-> 0, school |-> a1, isSystemAdministrator |-> FALSE,
     roles |-> {}, password |-> old, stale |-> FALSE, attempts |-> 0, locked |-> FALSE,
     lastCounter |-> 0, recovery |-> TRUE]

Administrator == [Someone EXCEPT !.roles = {"SCHOOL_ADMIN"}]

SuperAdministrator ==
    [Someone EXCEPT !.roles = {"SUPER_ADMIN"}, !.isSystemAdministrator = TRUE,
                    !.school = None]

\* An account at a sign-in, with an old hash or with a second factor.
AtOldCost == [Someone EXCEPT !.stale = TRUE]

SignInAccounts ==
    {u1 :> AtOldCost @@ u2 :> Absent @@ u3 :> Absent,
     u1 :> Absent @@ u2 :> Absent @@ u3 :> Someone}

\* A school on its own, or two Super Administrators.
SchoolAccounts ==
    {u1 :> Administrator @@ u2 :> [Someone EXCEPT !.roles = {"BURSAR"}] @@ u3 :> Absent}

SystemAccounts ==
    {u1 :> SuperAdministrator @@ u2 :> SuperAdministrator @@ u3 :> Absent}

OfficeAccounts == SignInAccounts \cup SchoolAccounts \cup SystemAccounts

\* A school administrator, and somebody who may rise to decide over money, from
\* nothing or from a director of studies.
OfficeFirstRoles ==
    {u1 :> {"SCHOOL_ADMIN"} @@ u2 :> {}, u1 :> {"SCHOOL_ADMIN"} @@ u2 :> {"DOS"}}

-----------------------------------------------------------------------------
YearRow(status, isCurrent, version) ==
    [status |-> status, isCurrent |-> isCurrent, startDate |-> 1, endDate |-> 4,
     version |-> version]

TwoYears == y1 :> YearRow("ACTIVE", TRUE, 1) @@ y2 :> YearRow("UPCOMING", FALSE, 2)

OneProgram ==
    [p \in Programs |->
        IF p = p1 THEN [department |-> None, status |-> "ACTIVE", version |-> 1] ELSE Absent]

OneLevel ==
    [l \in Levels |->
        IF l = l1 THEN [program |-> p1, isTerminal |-> TRUE, next |-> None] ELSE Absent]

OfficeInit ==
    /\ RequestsInit
    /\ part \in Parts
    /\ years = CASE part = "years" -> NoYears
                 [] part \in {"terms", "students", "seats", "guardians"} ->
                      [TwoYears EXCEPT ![y2] = Absent]
                 [] OTHER -> TwoYears
    /\ terms = NoTerms
    /\ departments = {}
    /\ programs = OneProgram
    /\ levels = IF part = "curriculum" THEN [l \in Levels |-> Absent] ELSE OneLevel
    /\ capacity = [c \in Classes |-> 1]
    /\ students = [s \in Students |-> Absent]
    /\ enrollments = [e \in EnrollmentIds |-> Absent]
    /\ lastValue = 0
    /\ guardians = [g \in GuardianIds |-> Absent]
    /\ links = [k \in LinkIds |-> Absent]
    /\ unplaced = {}
    /\ AccountsInit
    /\ CASE part = "sign-in" -> accounts \in SignInAccounts /\ signedIn = {}
         [] part = "passwords" -> accounts[u1] = AtOldCost /\ signedIn = {}
         [] part = "roles" -> accounts \in SchoolAccounts /\ signedIn # {}
         [] part = "system" -> accounts \in SystemAccounts /\ signedIn # {}
         [] part = "statuses" -> accounts \in SchoolAccounts \cup SystemAccounts /\ signedIn = {}
         [] OTHER -> accounts \in SignInAccounts /\ accounts[u1] = Absent /\ signedIn = {}
    /\ AccessInit
    /\ PagesInit
    /\ SetupInit
    /\ part # "pages" => held[u2] = {}
    /\ u1 \in mfaEnabled
    /\ ownPassword = {u1}
    /\ part \notin {"access", "pages"} => u2 \notin mfaEnabled

PartNext ==
    \/ /\ part = "years"
       /\ \E w \in Workers : YearStep(w) \/ CalendarDrop(w)
       /\ UNCHANGED <<part, curriculum, registry, office, access, browser, setup>>
    \/ /\ part = "terms"
       /\ \E w \in Workers : TermStep(w) \/ CalendarDrop(w)
       /\ UNCHANGED <<part, curriculum, registry, office, access, browser, setup>>
    \/ /\ part = "curriculum"
       /\ CurriculumNext
       /\ UNCHANGED <<part, calendar, registry, office, access, browser, setup>>
    \/ /\ part = "seats"
       /\ SeatsNext
       /\ UNCHANGED <<part, office, access, browser, setup, terms>>
    \/ /\ part = "arrivals"
       /\ ArrivalsNext
       /\ UNCHANGED <<part, office, access, browser, setup, terms>>
    \/ /\ part = "year-end"
       /\ YearEndsNext
       /\ UNCHANGED <<part, office, access, browser, setup, terms>>
    \/ /\ part = "students"
       /\ StudentsNext
       /\ UNCHANGED <<part, office, access, browser, setup, terms>>
    \/ /\ part = "guardians"
       /\ GuardiansNext
       /\ UNCHANGED <<part, office, access, browser, setup>>
    \/ /\ part = "sign-in"
       /\ SignInNext
       /\ UNCHANGED <<part, calendar, curriculum, registry, access, browser, setup>>
    \/ /\ part = "passwords"
       /\ PasswordsNext
       /\ UNCHANGED <<part, calendar, curriculum, registry, access, browser, setup>>
    \/ /\ part \in {"roles", "system"}
       /\ RolesNext
       /\ UNCHANGED <<part, calendar, curriculum, registry, access, browser, setup>>
    \/ /\ part = "statuses"
       /\ StatusesNext
       /\ UNCHANGED <<part, calendar, curriculum, registry, access, browser, setup>>
    \/ /\ part = "access"
       /\ AccessNext
       /\ UNCHANGED <<part, calendar, curriculum, registry, office, browser, setup>>
    \/ /\ part = "pages"
       /\ PagesNext
       /\ UNCHANGED <<part, calendar, curriculum, registry, office, setup>>
    \/ /\ part = "setup"
       /\ SetupNext
       /\ UNCHANGED <<part, calendar, curriculum, registry, office, access, browser>>

OfficeNext ==
    /\ PartNext
    /\ part \in Serial => ~overlapped'
    /\ part \in {"students", "guardians"} => lastValue' <= 1

OfficeSpec == OfficeInit /\ [][OfficeNext]_variables

OfficeSymmetry == Permutations(Workers) \cup Permutations(Names)

-----------------------------------------------------------------------------
OfficeTypeOK ==
    /\ PeriodsOK
    /\ CurriculumTypeOK
    /\ RegistryTypeOK
    /\ AccountsTypeOK
    /\ PagesTypeOK
    /\ SetupTypeOK
    /\ AccessTypeOK
    /\ \A w \in Workers :
         \/ task[w] \in {Idle}
         \/ part \in {"years", "terms"} /\ task[w] \in CalendarTask
         \/ part = "curriculum" /\ task[w] \in CurriculumTask
         \/ part \in {"seats", "arrivals", "year-end", "students"} /\ task[w] \in RegistryTask \cup CalendarTask
         \/ part = "guardians" /\ task[w] \in GuardiansTask
         \/ part \in {"seats", "arrivals", "year-end", "students", "guardians"} /\ Importing(w)
         \/ part \in {"sign-in", "passwords", "roles", "system", "statuses"} /\ task[w] \in AccountsTask
         \/ part = "setup" /\ task[w] \in SetupTask
         \/ part \in {"access", "pages"} /\ task[w] \in AccessTask

=============================================================================
