------------------------------- MODULE SeedData -------------------------------
(***************************************************************************)
(* What the development seed executes, of the fixtures of fixtures.ts one   *)
(* of each kind, and what people may do with what it left.                  *)
(***************************************************************************)
EXTENDS Seed

AccessCatalogue ==
    <<Rewrite("permission", "charge.create", "", {}),
      Rewrite("role", "BURSAR", "", {}),
      Revoke("grant", {"BURSAR charge.create"}),
      KeepState("grant", "BURSAR charge.create", "", {"charge.create", "BURSAR"})>>

SchoolAndUsers ==
    <<Rewrite("school", "GSKICUKIRO", "", {}),
      KeepState("setting", "of GSKICUKIRO", "", {"GSKICUKIRO"}),
      Rewrite("user", "bursar", "ACTIVE", {"GSKICUKIRO"}),
      KeepState("userRole", "bursar BURSAR", "", {"bursar", "BURSAR"})>>

\* The levels of a programme are chained when all of them are there.
Curriculum ==
    <<Rewrite("department", "SCI", "", {"GSKICUKIRO"}),
      Rewrite("program", "OLEVEL", "", {"GSKICUKIRO"}),
      KeepState("level", "S1", "next: none", {"OLEVEL"}),
      KeepState("level", "S2", "next: none", {"OLEVEL"}),
      Rewrite("level", "S1", "next: S2", {"S2"})>>

Years ==
    <<Rewrite("year", "2025", "CLOSED", {"GSKICUKIRO"}),
      Rewrite("term", "2025/3", "CLOSED", {"2025"}),
      KeepState("class", "2025 S1 A", "", {"2025", "S1"}),
      Rewrite("year", "2026", "current", {"GSKICUKIRO"}),
      Rewrite("term", "2026/2", "CLOSED", {"2026"}),
      Rewrite("term", "2026/3", "current", {"2026"}),
      KeepState("class", "2026 S2 A", "", {"2026", "S2"})>>

Guardians == <<Rewrite("guardian", "Uwera", "", {"GSKICUKIRO"})>>

\* seedStudent: whoever is not a former student has a place in the current year.
SeedStudent(id, status, outcome) ==
    <<KeepState("student", id, status, {"GSKICUKIRO"}),
      KeepState("link", id \o " Uwera", "", {id, "Uwera"}),
      Rewrite("enrollment", id \o " in 2025", outcome, {id, "2025 S1 A"})>>
    \o IF status # "ACTIVE" THEN << >>
       ELSE <<Rewrite("enrollment", id \o " in 2026", "ENROLLED", {id, "2026 S2 A"})>>

\* Of the students, the counter that their numbers were not taken from is set past them.
Students ==
    SeedStudent("2025-001", "ACTIVE", "PROMOTED")
        \o SeedStudent("2025-002", "WITHDRAWN", "WITHDRAWN")

Counters == <<Rewrite("counter", "STUDENT", "002", {"GSKICUKIRO"})>>

Fees ==
    <<Rewrite("feeCategory", "TUITION", "", {"GSKICUKIRO"}),
      Rewrite("scholarship", "MERIT", "", {"GSKICUKIRO"}),
      Rewrite("feeStructure", "Tuition 2026", "ACTIVE", {"2026"}),
      Rewrite("feeStructureItem", "Tuition 2026 TUITION", "", {"Tuition 2026", "TUITION"})>>

SeedStatements ==
    AccessCatalogue \o SchoolAndUsers \o Curriculum \o Years \o Guardians \o Students
        \o Counters \o Fees

-----------------------------------------------------------------------------
(* People *)

\* A registration takes the number after the counter's.
Register ==
    LET student == Row("student", "2025-003", "ACTIVE") IN
    [gone |-> {Row("counter", "STUDENT", "002")},
     new |-> {Row("counter", "STUDENT", "003"), student},
     stands |-> {student}]

\* changeStudentStatus, its two writes together.  The seed enrols the student again.
Withdraw ==
    LET student == Row("student", "2025-001", "WITHDRAWN") IN
    [gone |-> {Row("student", "2025-001", "ACTIVE"),
               Row("enrollment", "2025-001 in 2026", "ENROLLED")},
     new |-> {student, Row("enrollment", "2025-001 in 2026", "WITHDRAWN")},
     stands |-> {student}]

\* createAcademicYear and setCurrentAcademicYear; from then on no seeding completes.
NextYear ==
    LET year == Row("year", "2027", "current") IN
    [gone |-> {Row("year", "2026", "current")},
     new |-> {Row("year", "2026", "ACTIVE"), year},
     stands |-> {year}]

\* changeFeeStructureStatus
ArchiveStructure ==
    [gone |-> {Row("feeStructure", "Tuition 2026", "ACTIVE")},
     new |-> {Row("feeStructure", "Tuition 2026", "ARCHIVED")},
     stands |-> {}]

SeedDeeds == {Register, Withdraw, NextYear, ArchiveStructure}

\* A database that is new, or that knows a grant the catalogue has dropped.
SeedDatabases == {{}, {Row("grant", "BURSAR charge.void", "")}}

=============================================================================
