----------------------------- MODULE Curriculum -----------------------------
(***************************************************************************)
(* Departments, programmes, levels and the progression from one level to    *)
(* the next: the second half of academic.service.ts over departments,       *)
(* programs and levels.                                                     *)
(*                                                                         *)
(* Promotion at the end of a year walks this progression; the walk itself   *)
(* is not in the program yet, but the rules are there to make it end.       *)
(* Codes and sequence numbers, which only have to be unique, are left out.  *)
(***************************************************************************)
EXTENDS Requests

CONSTANTS
    Departments,
    Programs,
    Levels,
    MaxProgramVersion   \* bound: edits of a programme

ASSUME CurriculumAssumption ==
    /\ None \notin Levels
    /\ MaxProgramVersion \in Nat

VARIABLES
    departments,    \* the departments there are
    programs,       \* Programs -> Program, or Absent
    levels          \* Levels -> Level, or Absent

curriculum == <<departments, programs, levels>>

-----------------------------------------------------------------------------
Program ==
    [department : Departments \cup {None}, status : {"ACTIVE", "DISCONTINUED"},
     version : Nat]

Level ==
    [program : Programs, isTerminal : BOOLEAN, next : Levels \cup {None}]

CurriculumTask ==
         [op : {"createLevel"}, level : Levels, row : Level]
    \cup [op : {"updateProgram"}, program : Programs, status : {"ACTIVE", "DISCONTINUED"},
          expectedVersion : Nat]
    \cup [op : {"setNext"}, level : Levels, next : Levels \cup {None}]

KnownLevels == {l \in Levels : levels[l] # Absent}

-----------------------------------------------------------------------------
(* Departments and programmes *)

CreateDepartment(w, d) ==
    /\ d \notin departments
    /\ AtOnce(w)
    /\ departments' = departments \cup {d}
    /\ UNCHANGED <<programs, levels>>

\* The foreign key refuses a department that is not there.
CreateProgram(w, p, d) ==
    /\ programs[p] = Absent
    /\ d \in departments \cup {None}
    /\ AtOnce(w)
    /\ programs' = [programs EXCEPT ![p] =
           [department |-> d, status |-> "ACTIVE", version |-> 0]]
    /\ UNCHANGED <<departments, levels>>

UpdateProgramLoad(w, p, status) ==
    /\ programs[p] # Absent
    /\ programs[p].version < MaxProgramVersion
    /\ Begin(w, [op |-> "updateProgram", program |-> p, status |-> status,
                 expectedVersion |-> programs[p].version])
    /\ UNCHANGED curriculum

UpdateProgramCommit(w) ==
    LET p == task[w].program IN
    /\ task[w].op = "updateProgram"
    /\ Matches(programs[p], task[w].expectedVersion)
    /\ programs' = [programs EXCEPT ![p].status = task[w].status, ![p].version = @ + 1]
    /\ Finish(w)
    /\ UNCHANGED <<departments, levels>>

-----------------------------------------------------------------------------
(* Levels and their progression *)

CreateLevelLoad(w, l, p, isTerminal) ==
    /\ programs[p] # Absent
    /\ levels[l] = Absent
    /\ Begin(w, [op |-> "createLevel", level |-> l,
                 row |-> [program |-> p, isTerminal |-> isTerminal, next |-> None]])
    /\ UNCHANGED curriculum

CreateLevelCommit(w) ==
    /\ task[w].op = "createLevel"
    /\ levels[task[w].level] = Absent
    /\ levels' = [levels EXCEPT ![task[w].level] = task[w].row]
    /\ Finish(w)
    /\ UNCHANGED <<departments, programs>>

Follow(l) == IF l = None THEN None ELSE levels[l].next

\* Where the walk of assertNoProgressionCycle is after so many steps.
Cursor(from, steps) ==
    LET at[n \in 0 .. steps] == IF n = 0 THEN from ELSE Follow(at[n - 1])
    IN  at[steps]

\* Mutant of WouldLoop: only the next level itself is looked at.
WouldLoopAtOnce(from, to) == Follow(from) = to

\* The walk takes as many steps as there are levels, so that it ends whatever
\* the table holds.
WouldLoop(from, to) ==
    \E n \in 0 .. Cardinality(KnownLevels) - 1 : Cursor(from, n) = to

SetNextLevelLoad(w, l, next) ==
    /\ levels[l] # Absent
    /\ next # None =>
         /\ next # l
         /\ levels[next] # Absent
         /\ levels[next].program = levels[l].program
         /\ ~WouldLoop(next, l)
    /\ Begin(w, [op |-> "setNext", level |-> l, next |-> next])
    /\ UNCHANGED curriculum

\* next_level_id is unique, and a terminal level has none.
ProgressionAllowed(l, next) ==
    next # None =>
        /\ ~levels[l].isTerminal
        /\ \A other \in KnownLevels \ {l} : levels[other].next # next

SetNextLevelCommit(w) ==
    LET l == task[w].level
        next == task[w].next
    IN
    /\ task[w].op = "setNext"
    /\ ProgressionAllowed(l, next)
    /\ levels' = [levels EXCEPT ![l].next = next]
    /\ Finish(w)
    /\ UNCHANGED <<departments, programs>>

-----------------------------------------------------------------------------
CurriculumInit ==
    /\ departments = {}
    /\ programs = [p \in Programs |-> Absent]
    /\ levels = [l \in Levels |-> Absent]

CurriculumDrop(w) == DropTask(w) /\ UNCHANGED curriculum

ProgramStep(w) ==
    \/ \E d \in Departments : CreateDepartment(w, d)
    \/ \E p \in Programs, d \in Departments \cup {None} : CreateProgram(w, p, d)
    \/ \E p \in Programs, status \in {"ACTIVE", "DISCONTINUED"} :
          UpdateProgramLoad(w, p, status)
    \/ UpdateProgramCommit(w)

LevelStep(w) ==
    \/ \E l \in Levels, p \in Programs, isTerminal \in BOOLEAN :
          CreateLevelLoad(w, l, p, isTerminal)
    \/ CreateLevelCommit(w)
    \/ \E l \in Levels, next \in Levels \cup {None} : SetNextLevelLoad(w, l, next)
    \/ SetNextLevelCommit(w)

CurriculumNext ==
    \E w \in Workers : ProgramStep(w) \/ LevelStep(w) \/ CurriculumDrop(w)

-----------------------------------------------------------------------------
CurriculumTypeOK ==
    /\ departments \subseteq Departments
    /\ programs \in [Programs -> Program \cup {Absent}]
    /\ levels \in [Levels -> Level \cup {Absent}]

\* As long as requests do not overlap, promotion from any level ends, and it ends
\* in the programme it started in (academic.service.ts:636-646, 691-715).
PromotionEnds ==
    ~overlapped =>
        \A l \in KnownLevels :
            /\ Cursor(l, Cardinality(KnownLevels)) = None
            /\ levels[l].next # None => levels[levels[l].next].program = levels[l].program

=============================================================================
