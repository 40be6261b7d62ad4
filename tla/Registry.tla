------------------------------ MODULE Registry ------------------------------
(***************************************************************************)
(* Students and where they are placed: student.service.ts,                  *)
(* enrollment.service.ts, the commit of student-import.service.ts and the   *)
(* counter of identifier-sequence.ts, over students, enrollments,           *)
(* class_sections, identifier_sequences, guardians and                      *)
(* student_guardians, on the years of Calendar and the levels of            *)
(* Curriculum.                                                              *)
(*                                                                         *)
(* One school and one year of admission, hence one counter, whose row lock  *)
(* makes imports and registrations take turns: an import is one step.       *)
(* Names and contact details are left out.  Dates are too: where a date     *)
(* given by the client lets a constraint refuse a statement, Drop stands    *)
(* for it.  Classes are there from the start; their level and year never    *)
(* change, their capacity does.                                             *)
(***************************************************************************)
EXTENDS Calendar, Curriculum, Sequences

CONSTANTS
    Students,
    EnrollmentIds,
    Classes,
    ClassLevel,         \* the level of each class
    ClassYear,          \* the year of each class
    Capacities,         \* what each class may be set to hold
    GuardianIds,
    Phones,             \* telephone numbers
    LinkIds,
    Files,              \* the files clients import
    AskedStatuses,      \* the statuses clients ask for
    Outcomes,           \* how clients end an enrolment
    MaxVersion          \* bound: edits of a student or an enrolment

SX == INSTANCE SequencesExt

\* The ids that generated ids are taken from are a bound too.  Where a client writes a
\* class or a telephone in a file, it is one of these.
ASSUME RegistryAssumption ==
    /\ IsFiniteSet(Students) /\ IsFiniteSet(EnrollmentIds)
    /\ IsFiniteSet(GuardianIds) /\ IsFiniteSet(LinkIds)
    /\ None \notin LinkIds \cup Classes
    /\ ClassLevel \in [Classes -> Levels]
    /\ ClassYear \in [Classes -> Years]
    /\ Capacities \in [Classes -> SUBSET (Nat \cup {None})]
    /\ \A file \in Files :
         /\ file \in Seq({file[i] : i \in DOMAIN file})
         /\ \A i \in DOMAIN file :
              /\ file[i].classSection \in Classes \cup {None}
              /\ file[i].guardianPhone \in Phones \cup {None}
    /\ Outcomes \subseteq
         {"ENROLLED", "PROMOTED", "REPEATED", "COMPLETED", "TRANSFERRED_OUT", "WITHDRAWN"}
    /\ MaxVersion \in Nat

VARIABLES
    capacity,       \* Classes -> places, None for no limit
    students,       \* Students -> Student, or Absent
    enrollments,    \* EnrollmentIds -> Enrollment, or Absent
    lastValue,      \* the counter of Student IDs
    guardians,      \* GuardianIds -> the telephone as it was written, or Absent
    links,          \* LinkIds -> Link, Absent, or Gone
    unplaced        \* students whose registration died half way (history)

placement == <<capacity, students, enrollments, lastValue, unplaced>>
family == <<guardians, links>>
registry == <<placement, family>>

-----------------------------------------------------------------------------
StudentStatuses ==
    {"ACTIVE", "SUSPENDED", "COMPLETED", "TRANSFERRED", "WITHDRAWN", "ARCHIVED"}

EnrollmentStatuses ==
    {"ENROLLED", "PROMOTED", "REPEATED", "COMPLETED", "TRANSFERRED_OUT", "WITHDRAWN"}

Student == [number : Nat, status : StudentStatuses, version : Nat]

Enrollment ==
    [student : Students, academicYear : Years, level : Levels,
     classSection : Classes \cup {None}, status : EnrollmentStatuses, version : Nat]

Gone == [row |-> "gone"]

Link ==
    [student : Students, guardian : GuardianIds, isPrimaryContact : BOOLEAN,
     version : Nat]

\* The importer writes a telephone in one form, a person in any.
Phone == [number : Phones, written : {"normal", "freely"}]

NormalisePhone(number) == [number |-> number, written |-> "normal"]

Known(rows) == {id \in DOMAIN rows : rows[id] \notin {Absent, Gone}}

\* Ids are generated; which of the unused ones is taken does not matter.
NewId(rows) == CHOOSE id \in DOMAIN rows : rows[id] = Absent

Full(rows) == \A id \in DOMAIN rows : rows[id] # Absent

Live(e) == enrollments[e] # Absent /\ enrollments[e].status = "ENROLLED"

LiveIn(s, y) ==
    {e \in Known(enrollments) :
        Live(e) /\ enrollments[e].student = s /\ enrollments[e].academicYear = y}

-----------------------------------------------------------------------------
(* Classes *)

\* countEnrolledInClassSection
Headcount(c) ==
    Cardinality({e \in Known(enrollments) : Live(e) /\ enrollments[e].classSection = c})

\* Mutant of HasRoom: one place too many.
HasRoomForOneMore(c) == capacity[c] # None => Headcount(c) <= capacity[c]

\* assertClassSectionHasRoom
HasRoom(c) == capacity[c] # None => Headcount(c) < capacity[c]

\* resolveClassSection
Resolves(c, level, year) ==
    c # None =>
        /\ ClassLevel[c] = level
        /\ ClassYear[c] = year
        /\ HasRoom(c)

\* A class may be set to hold fewer than it does.
UpdateClassSection(w, c, places) ==
    /\ capacity[c] # places
    /\ AtOnce(w)
    /\ capacity' = [capacity EXCEPT ![c] = places]
    /\ UNCHANGED <<students, enrollments, lastValue, unplaced, family, calendar, curriculum>>

-----------------------------------------------------------------------------
(* Registration and enrolment *)

NewEnrollment(s, y, level, c) ==
    [student |-> s, academicYear |-> y, level |-> level, classSection |-> c,
     status |-> "ENROLLED", version |-> 0]

\* The partial unique index enrollments_one_active_per_student_year.
OneActive(row) == LiveIn(row.student, row.academicYear) = {}

\* registerStudent, up to its first write; a current year that is closed is not
\* refused.
RegisterLoad(w, level, c) ==
    \E y \in CurrentYears :
        /\ levels[level] # Absent
        /\ Resolves(c, level, y)
        /\ Begin(w, [op |-> "register", academicYear |-> y, level |-> level,
                     classSection |-> c])
        /\ UNCHANGED <<registry, calendar, curriculum>>

\* nextSequenceValue, allocateStudentId
NextNumber == lastValue + 1

NewStudent(number) == [number |-> number, status |-> "ACTIVE", version |-> 0]

\* Mutant of WithNextNumber: a conflict on the row allocates once more.
WithNumberOfRetry(s) ==
    /\ students' = [students EXCEPT ![s] = NewStudent(NextNumber)]
    /\ lastValue' \in {NextNumber, NextNumber + 1}

\* StudentRepository.create: the identifier and the row in one transaction.
WithNextNumber(s) ==
    /\ students' = [students EXCEPT ![s] = NewStudent(NextNumber)]
    /\ lastValue' = NextNumber

RegisterStudent(w) ==
    LET s == NewId(students) IN
    /\ task[w].op = "register"
    /\ ~Full(students)
    /\ WithNextNumber(s)
    /\ Proceed(w, [op |-> "place",
                   row |-> NewEnrollment(s, task[w].academicYear, task[w].level,
                                         task[w].classSection)])
    /\ UNCHANGED <<capacity, enrollments, unplaced, family, calendar, curriculum>>

\* enrolStudent, up to its write.
EnrolLoad(w, s, y, level, c) ==
    /\ students[s] # Absent
    /\ students[s].status # "ARCHIVED"
    /\ years[y] # Absent
    /\ years[y].status # "CLOSED"
    /\ LiveIn(s, y) = {}
    /\ levels[level] # Absent
    /\ Resolves(c, level, y)
    /\ Begin(w, [op |-> "place", row |-> NewEnrollment(s, y, level, c)])
    /\ UNCHANGED <<registry, calendar, curriculum>>

\* EnrollmentRepository.create, for both.
CreateEnrollment(w) ==
    /\ task[w].op = "place"
    /\ ~Full(enrollments)
    /\ OneActive(task[w].row)
    /\ enrollments' = [enrollments EXCEPT ![NewId(enrollments)] = task[w].row]
    /\ Finish(w)
    /\ UNCHANGED <<capacity, students, lastValue, unplaced, family, calendar, curriculum>>

MoveLoad(w, e, c) ==
    /\ Live(e)
    /\ enrollments[e].version < MaxVersion
    /\ Resolves(c, enrollments[e].level, enrollments[e].academicYear)
    /\ Begin(w, [op |-> "move", enrollment |-> e, classSection |-> c,
                 expectedVersion |-> enrollments[e].version])
    /\ UNCHANGED <<registry, calendar, curriculum>>

MoveToClassSection(w) ==
    LET e == task[w].enrollment IN
    /\ task[w].op = "move"
    /\ Live(e)
    /\ Matches(enrollments[e], task[w].expectedVersion)
    /\ enrollments' = [enrollments EXCEPT ![e].classSection = task[w].classSection,
                                          ![e].version = @ + 1]
    /\ Finish(w)
    /\ UNCHANGED <<capacity, students, lastValue, unplaced, family, calendar, curriculum>>

EndLoad(w, e, outcome) ==
    /\ Live(e)
    /\ Begin(w, [op |-> "end", enrollment |-> e, status |-> outcome])
    /\ UNCHANGED <<registry, calendar, curriculum>>

\* Mutant of MayEnd: that the enrolment is still live is not looked at again.
MayEndAnyway(e) == enrollments[e] # Absent

\* The condition of EnrollmentRepository.end
MayEnd(e) == Live(e)

\* EnrollmentRepository.end, for endEnrollment and as the second statement of
\* changeStudentStatus.
EndEnrollment(w) ==
    LET e == task[w].enrollment IN
    /\ task[w].op = "end"
    /\ MayEnd(e)
    /\ enrollments' = [enrollments EXCEPT ![e].status = task[w].status,
                                          ![e].version = @ + 1]
    /\ Finish(w)
    /\ UNCHANGED <<capacity, students, lastValue, unplaced, family, calendar, curriculum>>

-----------------------------------------------------------------------------
(* The life of a student *)

AllowedStatusTransitions ==
    [ACTIVE |-> {"COMPLETED", "TRANSFERRED", "WITHDRAWN", "SUSPENDED", "ARCHIVED"},
     SUSPENDED |-> {"ACTIVE", "WITHDRAWN", "TRANSFERRED", "ARCHIVED"},
     COMPLETED |-> {"ARCHIVED"},
     TRANSFERRED |-> {"ARCHIVED"},
     WITHDRAWN |-> {"ACTIVE", "ARCHIVED"},
     ARCHIVED |-> {}]

ExitEnrollmentStatus ==
    [COMPLETED |-> "COMPLETED", TRANSFERRED |-> "TRANSFERRED_OUT",
     WITHDRAWN |-> "WITHDRAWN"]

\* The enrolments changeStudentStatus may find live: the newest by start date is
\* the one it ends, and dates are left out.
FoundLive(s) == UNION {LiveIn(s, y) : y \in Years}

UpdateStudent(w, s) ==
    /\ students[s] # Absent
    /\ students[s].version < MaxVersion
    /\ AtOnce(w)
    /\ students' = [students EXCEPT ![s].version = @ + 1]
    /\ UNCHANGED <<capacity, enrollments, lastValue, unplaced, family, calendar, curriculum>>

StatusLoad(w, s, status) ==
    /\ students[s] # Absent
    /\ students[s].version < MaxVersion
    /\ status \in AllowedStatusTransitions[students[s].status]
    /\ \E e \in IF FoundLive(s) = {} THEN {None} ELSE FoundLive(s) :
         Begin(w, [op |-> "status", student |-> s, status |-> status,
                   expectedVersion |-> students[s].version, live |-> e])
    /\ UNCHANGED <<registry, calendar, curriculum>>

SetStatus(w) ==
    LET s == task[w].student
        status == task[w].status
    IN
    /\ task[w].op = "status"
    /\ Matches(students[s], task[w].expectedVersion)
    /\ students' = [students EXCEPT ![s].status = status, ![s].version = @ + 1]
    /\ IF status \in DOMAIN ExitEnrollmentStatus /\ task[w].live # None
         THEN Proceed(w, [op |-> "end", enrollment |-> task[w].live,
                          status |-> ExitEnrollmentStatus[status]])
         ELSE Finish(w)
    /\ UNCHANGED <<capacity, enrollments, lastValue, unplaced, family, calendar, curriculum>>

-----------------------------------------------------------------------------

(* Import *)

\* What is known of the file and of the classes as the rows are walked.
NothingSeen(y) ==
    [seen |-> {}, occupied |-> [c \in Classes |-> Headcount(c)], valid |-> <<>>,
     issues |-> 0]

\* The class of the row, by its level and code, in the current year.
NamesClass(row, y) ==
    /\ row.classSection # None
    /\ ClassLevel[row.classSection] = row.level
    /\ ClassYear[row.classSection] = y

\* A row that names a class with room takes a seat there, whatever else is wrong
\* with it.
TakesSeat(walk, row, y) ==
    /\ NamesClass(row, y)
    /\ capacity[row.classSection] # None =>
          walk.occupied[row.classSection] < capacity[row.classSection]

HasIssue(walk, row, y) ==
    \/ row.who \in walk.seen
    \/ row.level \notin KnownLevels
    \/ row.classSection # None /\ ~TakesSeat(walk, row, y)

\* One row of validateRows.
ValidateRow(walk, row, y) ==
    [seen |-> walk.seen \cup {row.who},
     occupied |-> [c \in Classes |->
        walk.occupied[c] + IF c = row.classSection /\ TakesSeat(walk, row, y) THEN 1 ELSE 0],
     valid |-> IF HasIssue(walk, row, y) THEN walk.valid ELSE Append(walk.valid, row),
     issues |-> walk.issues + IF HasIssue(walk, row, y) THEN 1 ELSE 0]

ValidateRows(file, y) ==
    SX!FoldLeft(LAMBDA walk, row : ValidateRow(walk, row, y), NothingSeen(y), file)

\* commitStudentImport, up to its transaction; a preview ends here.
ImportLoad(w, file, allowPartial) ==
    \E y \in CurrentYears :
        LET outcome == ValidateRows(file, y) IN
        /\ outcome.issues = 0 \/ allowPartial
        /\ outcome.valid # <<>>
        /\ Begin(w, [op |-> "import", academicYear |-> y, rows |-> outcome.valid])
        /\ UNCHANGED <<registry, calendar, curriculum>>

HasPhone(db, number) ==
    {g \in Known(db.guardians) : db.guardians[g] = NormalisePhone(number)}

\* The guardian of a row: the one with that telephone, made if there is none.
ImportGuardian(db, number) ==
    IF HasPhone(db, number) # {}
      THEN db
      ELSE [db EXCEPT !.guardians[NewId(db.guardians)] = NormalisePhone(number)]

ImportLink(db, s, number) ==
    [db EXCEPT !.links[NewId(db.links)] =
        [student |-> s, guardian |-> CHOOSE g \in HasPhone(db, number) : TRUE,
         isPrimaryContact |-> TRUE, version |-> 0]]

\* Mutant of ImportRow: a row without a guardian is left before its enrolment.
ImportRowTooShort(db, row, y) ==
    LET s == NewId(db.students)
        withStudent ==
            [db EXCEPT !.lastValue = @ + 1, !.students[s] = NewStudent(db.lastValue + 1)]
        placed ==
            [withStudent EXCEPT !.enrollments[NewId(db.enrollments)] =
                NewEnrollment(s, y, row.level, row.classSection)]
    IN  IF row.guardianPhone = None
          THEN withStudent
          ELSE ImportLink(ImportGuardian(placed, row.guardianPhone), s, row.guardianPhone)

\* One row in the transaction: student, enrolment, guardian and link.
ImportRow(db, row, y) ==
    LET s == NewId(db.students)
        placed ==
            [db EXCEPT !.lastValue = @ + 1,
                       !.students[s] = NewStudent(db.lastValue + 1),
                       !.enrollments[NewId(db.enrollments)] =
                           NewEnrollment(s, y, row.level, row.classSection)]
    IN  IF row.guardianPhone = None
          THEN placed
          ELSE ImportLink(ImportGuardian(placed, row.guardianPhone), s, row.guardianPhone)

ImportRows(db, rows, y) ==
    SX!FoldLeft(LAMBDA now, row : ImportRow(now, row, y), db, rows)

Free(rows) == Cardinality({id \in DOMAIN rows : rows[id] = Absent})

ImportCommit(w) ==
    LET rows == task[w].rows
        db == ImportRows([students |-> students, enrollments |-> enrollments,
                          lastValue |-> lastValue, guardians |-> guardians, links |-> links],
                         rows, task[w].academicYear)
    IN
    /\ task[w].op = "import"
    /\ Free(students) >= Len(rows)
    /\ Free(enrollments) >= Len(rows)
    /\ Free(links) >= Len(rows)
    /\ Free(guardians) >= Cardinality({rows[i].guardianPhone : i \in DOMAIN rows} \ {None})
    /\ students' = db.students
    /\ enrollments' = db.enrollments
    /\ lastValue' = db.lastValue
    /\ guardians' = db.guardians
    /\ links' = db.links
    /\ Finish(w)
    /\ UNCHANGED <<capacity, unplaced, calendar, curriculum>>

-----------------------------------------------------------------------------
\* A registration that dies after its first statement leaves a student without
\* an enrolment.
RegistryDrop(w) ==
    /\ DropTask(w)
    /\ unplaced' =
         IF /\ task[w].op = "place"
            /\ \A e \in Known(enrollments) :
                  enrollments[e].student # task[w].row.student
            /\ \A v \in Workers \ {w} :
                  task[v].op = "place" => task[v].row.student # task[w].row.student
           THEN unplaced \cup {task[w].row.student}
           ELSE unplaced
    /\ UNCHANGED <<capacity, students, enrollments, lastValue, family, calendar, curriculum>>

\* Closing the year and moving on to the next, by the other half of the office.
YearEnds(w) ==
    /\ \/ \E y \in Years :
             UpdateAcademicYearLoad(w, y, [status |-> "CLOSED", span |-> <<None, None>>])
       \/ UpdateAcademicYearCommit(w)
       \/ \E y \in Years : SetCurrentYearLoad(w, y)
       \/ SetCurrentYearCommit(w)
    /\ UNCHANGED <<registry, curriculum>>

ImportStep(w) ==
    \/ \E file \in Files, allowPartial \in BOOLEAN : ImportLoad(w, file, allowPartial)
    \/ ImportCommit(w)

ClassStep(w) ==
    \/ \E c \in Classes : \E places \in Capacities[c] : UpdateClassSection(w, c, places)

RegistrationStep(w) ==
    \/ \E level \in Levels, c \in Classes \cup {None} : RegisterLoad(w, level, c)
    \/ RegisterStudent(w)
    \/ \E s \in Students, y \in Years, level \in Levels, c \in Classes \cup {None} :
          EnrolLoad(w, s, y, level, c)
    \/ CreateEnrollment(w)

PlacementStep(w) ==
    \/ \E e \in EnrollmentIds, c \in Classes \cup {None} : MoveLoad(w, e, c)
    \/ MoveToClassSection(w)
    \/ \E e \in EnrollmentIds, outcome \in Outcomes : EndLoad(w, e, outcome)
    \/ EndEnrollment(w)

StudentStep(w) ==
    \/ \E s \in Students : UpdateStudent(w, s)
    \/ \E s \in Students, status \in AskedStatuses : StatusLoad(w, s, status)
    \/ SetStatus(w)

\* Requests that bring students in, the end of a year, requests for the students
\* there are, and those that compete for the places in a class.
ArrivalsNext ==
    \E w \in Workers : RegistrationStep(w) \/ ImportStep(w) \/ RegistryDrop(w)

YearEndsNext == ArrivalsNext \/ \E w \in Workers : YearEnds(w)

StudentsNext ==
    \E w \in Workers :
        RegistrationStep(w) \/ PlacementStep(w) \/ StudentStep(w) \/ RegistryDrop(w)

SeatsNext ==
    \E w \in Workers :
        \/ RegistrationStep(w)
        \/ PlacementStep(w)
        \/ ImportStep(w)
        \/ ClassStep(w)
        \/ RegistryDrop(w)

-----------------------------------------------------------------------------
RegistryTask ==
         [op : {"register"}, academicYear : Years, level : Levels,
          classSection : Classes \cup {None}]
    \cup [op : {"place"}, row : Enrollment]
    \cup [op : {"move"}, enrollment : EnrollmentIds, classSection : Classes \cup {None},
          expectedVersion : Nat]
    \cup [op : {"end"}, enrollment : EnrollmentIds, status : EnrollmentStatuses]
    \cup [op : {"status"}, student : Students, status : StudentStatuses,
          expectedVersion : Nat, live : EnrollmentIds \cup {None}]

Importing(w) ==
    /\ task[w].op = "import"
    /\ task[w].academicYear \in Years
    /\ Len(task[w].rows) > 0

RegistryTypeOK ==
    /\ \A c \in Classes : capacity[c] \in Capacities[c]
    /\ students \in [Students -> Student \cup {Absent}]
    /\ enrollments \in [EnrollmentIds -> Enrollment \cup {Absent}]
    /\ lastValue \in Nat
    /\ guardians \in [GuardianIds -> Phone \cup {Absent}]
    /\ links \in [LinkIds -> Link \cup {Absent, Gone}]
    /\ unplaced \subseteq Students

\* However registrations, imports and enrolments overlap, a student is enrolled at
\* most once in a year, and in a class only where the class is taught: at its level,
\* in its year (enrollment.service.ts:6-14, domain_constraints migration.sql:70-79).
OnePlaceAYear ==
    /\ \A s \in Known(students), y \in Years : Cardinality(LiveIn(s, y)) <= 1
    /\ \A e \in Known(enrollments) :
         enrollments[e].classSection # None =>
             /\ ClassLevel[enrollments[e].classSection] = enrollments[e].level
             /\ ClassYear[enrollments[e].classSection] = enrollments[e].academicYear

\* Every student has been enrolled, once at most in a year, or is about to be by the
\* registration under way, unless that registration died between its two writes
\* (student.service.ts:12-14 says they are one transaction; they are not).
StudentsArePlaced ==
    /\ OnePlaceAYear
    /\ \A s \in Known(students) \ unplaced :
         \/ \E e \in Known(enrollments) : enrollments[e].student = s
         \/ \E w \in Workers : task[w].op = "place" /\ task[w].row.student = s

\* Student IDs are issued once each and leave no gap, whatever overlaps or is rolled
\* back (identifier-sequence.ts:4-20).
IdentifiersAreGapless ==
    /\ lastValue = Cardinality(Known(students))
    /\ {students[s].number : s \in Known(students)} = 1 .. lastValue

\* As long as requests do not overlap, whoever is placed in a class fits in it:
\* one student or a file of them (academic.service.ts:804-824,
\* student-import.service.ts:240-243).
SeatsFit ==
    [][~overlapped' =>
         \A c \in Classes :
             Headcount(c)' > Headcount(c) =>
                 (capacity[c] # None => Headcount(c)' <= capacity[c])]_registry

\* What is over stays as it ended, however requests overlap: an archived student is
\* never live again, and of two exits from one enrolment only the first is kept
\* (student.service.ts:391-399, enrollment.repository.ts:128-134).
EndsAreFinal ==
    [][/\ \A s \in Known(students) :
            students[s].status = "ARCHIVED" => students'[s].status = "ARCHIVED"
       /\ \A e \in Known(enrollments) :
            ~Live(e) => enrollments'[e] = enrollments[e]]_registry

=============================================================================
