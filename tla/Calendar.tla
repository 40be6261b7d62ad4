------------------------------ MODULE Calendar ------------------------------
(***************************************************************************)
(* Academic years and terms: the first half of academic.service.ts over    *)
(* academic_years and terms.                                                *)
(*                                                                         *)
(* A day is a number.  Names and sequence numbers, which only have to be    *)
(* unique, are left out.  A client sends the version it last saw; one that  *)
(* saw an older version than the handler gets the conflict that Drop        *)
(* stands for.                                                              *)
(***************************************************************************)
EXTENDS Requests

CONSTANTS
    Years,
    Terms,
    Spans,              \* pairs of days that clients propose for a term
    YearSpans,          \* and for a year
    NewStatuses,        \* the statuses that clients propose for a new one
    Edits,              \* the changes that clients propose
    MaxPeriodVersion    \* bound: edits of one period

VARIABLES
    years,          \* Years -> Year, or Absent
    terms           \* Terms -> Term, or Absent

calendar == <<years, terms>>

-----------------------------------------------------------------------------
Statuses == {"UPCOMING", "ACTIVE", "CLOSED"}

Year ==
    [status : Statuses, isCurrent : BOOLEAN, startDate : Nat, endDate : Nat,
     version : Nat]

Term ==
    [academicYear : Years, status : Statuses, isCurrent : BOOLEAN,
     startDate : Nat, endDate : Nat, version : Nat]

\* The fields of an update, None where the request leaves one out.
PeriodChanges ==
    [status : Statuses \cup {None},
     span : Spans \cup YearSpans \cup {<<None, None>>}]

ASSUME CalendarAssumption ==
    /\ None \notin Terms
    /\ Spans \cup YearSpans \subseteq Nat \X Nat
    /\ NewStatuses \subseteq Statuses
    /\ Edits \subseteq PeriodChanges
    /\ MaxPeriodVersion \in Nat

CalendarTask ==
         [op : {"updateYear"}, year : Years, changes : PeriodChanges,
          expectedVersion : Nat]
    \cup [op : {"setYear"}, year : Years]
    \cup [op : {"createTerm"}, term : Terms, row : Term]
    \cup [op : {"updateTerm"}, term : Terms, changes : PeriodChanges,
          expectedVersion : Nat]
    \cup [op : {"setTerm"}, term : Terms]

NoYears == [y \in Years |-> Absent]

NoTerms == [t \in Terms |-> Absent]

Exists(rows, id) == rows[id] # Absent

Siblings(y) == {t \in Terms : Exists(terms, t) /\ terms[t].academicYear = y}

-----------------------------------------------------------------------------
(* The rules *)

DateOrdered(startDate, endDate) == startDate < endDate

Reopens(current, next) ==
    next \notin {None, "CLOSED"} /\ current = "CLOSED"

FitsYear(startDate, endDate, y) ==
    years[y].startDate <= startDate /\ endDate <= years[y].endDate

\* Mutant of OverlapsSibling: the day two terms share is forgotten.
OverlapsSiblingStrictly(startDate, endDate, y, except) ==
    \E t \in Siblings(y) \ {except} :
        startDate < terms[t].endDate /\ terms[t].startDate < endDate

OverlapsSibling(startDate, endDate, y, except) ==
    \E t \in Siblings(y) \ {except} :
        startDate <= terms[t].endDate /\ terms[t].startDate <= endDate

Merged(row, changes) ==
    [row EXCEPT !.status = Given(changes.status, @),
                !.startDate = Given(changes.span[1], @),
                !.endDate = Given(changes.span[2], @),
                !.version = @ + 1]

\* The two statements of setCurrentAcademicYear and setCurrentTerm, in their
\* transaction.
MadeCurrent(rows, id) ==
    [r \in DOMAIN rows |->
        IF Exists(rows, r) THEN [rows[r] EXCEPT !.isCurrent = (r = id)] ELSE Absent]

-----------------------------------------------------------------------------
(* Academic years *)

CurrentYears == {y \in Years : Exists(years, y) /\ years[y].isCurrent}

CreateAcademicYear(w, y, span, status) ==
    /\ ~Exists(years, y)
    /\ DateOrdered(span[1], span[2])
    /\ AtOnce(w)
    /\ years' = [years EXCEPT ![y] =
           [status |-> status, isCurrent |-> FALSE, startDate |-> span[1],
            endDate |-> span[2], version |-> 1]]
    /\ UNCHANGED terms

UpdateAcademicYearLoad(w, y, changes) ==
    /\ Exists(years, y)
    /\ years[y].version < MaxPeriodVersion
    /\ ~Reopens(years[y].status, changes.status)
    /\ DateOrdered(Given(changes.span[1], years[y].startDate),
                   Given(changes.span[2], years[y].endDate))
    /\ Begin(w, [op |-> "updateYear", year |-> y, changes |-> changes,
                 expectedVersion |-> years[y].version])
    /\ UNCHANGED calendar

UpdateAcademicYearCommit(w) ==
    LET y == task[w].year IN
    /\ task[w].op = "updateYear"
    /\ Matches(years[y], task[w].expectedVersion)
    /\ years' = [years EXCEPT ![y] = Merged(@, task[w].changes)]
    /\ Finish(w)
    /\ UNCHANGED terms

SetCurrentYearLoad(w, y) ==
    /\ Exists(years, y)
    /\ years[y].status # "CLOSED"
    /\ Begin(w, [op |-> "setYear", year |-> y])
    /\ UNCHANGED calendar

SetCurrentYearCommit(w) ==
    /\ task[w].op = "setYear"
    /\ years' = MadeCurrent(years, task[w].year)
    /\ Finish(w)
    /\ UNCHANGED terms

-----------------------------------------------------------------------------
(* Terms *)

CreateTermLoad(w, t, y, span, status) ==
    /\ Exists(years, y)
    /\ ~Exists(terms, t)
    /\ DateOrdered(span[1], span[2])
    /\ FitsYear(span[1], span[2], y)
    /\ ~OverlapsSibling(span[1], span[2], y, None)
    /\ Begin(w, [op |-> "createTerm", term |-> t,
                 row |-> [academicYear |-> y, status |-> status, isCurrent |-> FALSE,
                          startDate |-> span[1], endDate |-> span[2], version |-> 1]])
    /\ UNCHANGED calendar

CreateTermCommit(w) ==
    /\ task[w].op = "createTerm"
    /\ ~Exists(terms, task[w].term)
    /\ terms' = [terms EXCEPT ![task[w].term] = task[w].row]
    /\ Finish(w)
    /\ UNCHANGED years

UpdateTermLoad(w, t, changes) ==
    LET startDate == Given(changes.span[1], terms[t].startDate)
        endDate == Given(changes.span[2], terms[t].endDate)
        y == terms[t].academicYear
    IN
    /\ Exists(terms, t)
    /\ terms[t].version < MaxPeriodVersion
    /\ ~Reopens(terms[t].status, changes.status)
    /\ DateOrdered(startDate, endDate)
    /\ FitsYear(startDate, endDate, y)
    /\ ~OverlapsSibling(startDate, endDate, y, t)
    /\ Begin(w, [op |-> "updateTerm", term |-> t, changes |-> changes,
                 expectedVersion |-> terms[t].version])
    /\ UNCHANGED calendar

UpdateTermCommit(w) ==
    LET t == task[w].term IN
    /\ task[w].op = "updateTerm"
    /\ Matches(terms[t], task[w].expectedVersion)
    /\ terms' = [terms EXCEPT ![t] = Merged(@, task[w].changes)]
    /\ Finish(w)
    /\ UNCHANGED years

SetCurrentTermLoad(w, t) ==
    /\ Exists(terms, t)
    /\ terms[t].status # "CLOSED"
    /\ Begin(w, [op |-> "setTerm", term |-> t])
    /\ UNCHANGED calendar

SetCurrentTermCommit(w) ==
    /\ task[w].op = "setTerm"
    /\ terms' = MadeCurrent(terms, task[w].term)
    /\ Finish(w)
    /\ UNCHANGED years

-----------------------------------------------------------------------------
YearStep(w) ==
    \/ \E y \in Years, span \in YearSpans, status \in NewStatuses :
          CreateAcademicYear(w, y, span, status)
    \/ \E y \in Years, changes \in Edits : UpdateAcademicYearLoad(w, y, changes)
    \/ UpdateAcademicYearCommit(w)
    \/ \E y \in Years : SetCurrentYearLoad(w, y)
    \/ SetCurrentYearCommit(w)

TermStep(w) ==
    \/ \E t \in Terms, y \in Years, span \in Spans, status \in NewStatuses :
          CreateTermLoad(w, t, y, span, status)
    \/ CreateTermCommit(w)
    \/ \E t \in Terms, changes \in Edits : UpdateTermLoad(w, t, changes)
    \/ UpdateTermCommit(w)
    \/ \E t \in Terms : SetCurrentTermLoad(w, t)
    \/ SetCurrentTermCommit(w)

CalendarDrop(w) == DropTask(w) /\ UNCHANGED calendar

\* A school starts with neither.
CalendarInit ==
    /\ RequestsInit
    /\ years = NoYears
    /\ terms = NoTerms

CalendarNext == \E w \in Workers : YearStep(w) \/ TermStep(w) \/ CalendarDrop(w)

CalendarSpec == CalendarInit /\ [][CalendarNext]_<<calendar, task, overlapped>>

-----------------------------------------------------------------------------
PeriodsOK ==
    /\ years \in [Years -> Year \cup {Absent}]
    /\ terms \in [Terms -> Term \cup {Absent}]

CalendarTypeOK ==
    /\ PeriodsOK
    /\ task \in [Workers -> CalendarTask \cup {Idle}]
    /\ overlapped \in BOOLEAN

\* A year or a term that was closed is never open again: the check is made on an
\* earlier read, and the version ties the write to it (academic.service.ts:140-156).
ClosedStaysClosed ==
    [][/\ \A y \in Years : years[y] # Absent /\ years[y].status = "CLOSED" =>
             years'[y].status = "CLOSED"
       /\ \A t \in Terms : terms[t] # Absent /\ terms[t].status = "CLOSED" =>
             terms'[t].status = "CLOSED"]_calendar

\* As long as requests do not overlap, no day is in two terms of one year: "a
\* charge belongs to exactly one term" (academic.service.ts:304-340).
TermsDoNotOverlap ==
    ~overlapped =>
        \A t1, t2 \in Terms :
            (t1 # t2 /\ Exists(terms, t1) /\ Exists(terms, t2)
               /\ terms[t1].academicYear = terms[t2].academicYear) =>
            terms[t1].endDate < terms[t2].startDate \/ terms[t2].endDate < terms[t1].startDate

=============================================================================
