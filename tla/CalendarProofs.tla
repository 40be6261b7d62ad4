--------------------------- MODULE CalendarProofs ----------------------------
(***************************************************************************)
(* Years, terms and levels, for any number of them and of requests in       *)
(* flight: what was closed stays closed, terms do not overlap, promotion    *)
(* ends.  What requests that do not overlap may rely on comes first; the    *)
(* proofs about the registry use it too.                                    *)
(***************************************************************************)
EXTENDS Calendar, Curriculum, SumTheorems

-----------------------------------------------------------------------------
(* Requests that do not overlap *)

\* No more is known of what requests remember.
Remembered == task = [w \in Workers |-> task[w]]

\* Unless requests overlapped, one of them is under way at most.
OneAtMost ==
    ~overlapped => \A v, w \in Workers : (task[v] # Idle /\ task[w] # Idle) => v = w

OneWay == Remembered /\ overlapped \in BOOLEAN /\ OneAtMost

LEMMA OneWayInit == RequestsInit => OneWay
  BY DEF RequestsInit, OneWay, Remembered, OneAtMost

\* A request that begins while none is under way is the only one.
LEMMA BeginsAlone ==
    ASSUME OneWay, NEW w \in Workers, NEW request, Begin(w, request)
    PROVE  /\ OneWay'
           /\ task' = [v \in Workers |-> IF v = w THEN request ELSE task[v]]
           /\ task[w] = Idle
           /\ ~overlapped' => ~overlapped /\ \A v \in Workers : task[v] = Idle
<1>1. task' = [v \in Workers |-> IF v = w THEN request ELSE task[v]]
  BY DEF Begin, OneWay, Remembered
<1>2. overlapped' \in BOOLEAN
  BY DEF Begin, Arrive, OneWay, Busy
<1>3. ~overlapped' => ~overlapped /\ \A v \in Workers : task[v] = Idle
  BY DEF Begin, Arrive, Busy, OneWay
<1>. QED
  BY <1>1, <1>2, <1>3 DEF OneWay, Remembered, OneAtMost, Begin, Arrive

\* A request that goes on stays the only one.
LEMMA ProceedsAlone ==
    ASSUME OneWay, NEW w \in Workers, NEW request, Proceed(w, request), task[w] # Idle
    PROVE  /\ OneWay'
           /\ task' = [v \in Workers |-> IF v = w THEN request ELSE task[v]]
           /\ overlapped' = overlapped
           /\ ~overlapped => \A v \in Workers \ {w} : task[v] = Idle
<1>1. task' = [v \in Workers |-> IF v = w THEN request ELSE task[v]]
  BY DEF Proceed, OneWay, Remembered
<1>2. overlapped' = overlapped
  BY DEF Proceed
<1>. QED
  BY <1>1, <1>2 DEF OneWay, Remembered, OneAtMost

LEMMA AtOnceAlone ==
    ASSUME OneWay, NEW w \in Workers, AtOnce(w)
    PROVE  /\ OneWay'
           /\ task' = task
           /\ ~overlapped' => ~overlapped /\ \A v \in Workers : task[v] = Idle
<1>1. task' = task
  BY DEF AtOnce
<1>2. overlapped' \in BOOLEAN
  BY DEF AtOnce, Arrive, OneWay, Busy
<1>3. ~overlapped' => ~overlapped /\ \A v \in Workers : task[v] = Idle
  BY DEF AtOnce, Arrive, Busy, OneWay
<1>. QED
  BY <1>1, <1>2, <1>3 DEF OneWay, Remembered, OneAtMost

-----------------------------------------------------------------------------
(* Years and terms *)

\* The edit in flight was allowed of the row, unless the row has changed since.
StandsOf(request, row) ==
    /\ row # Absent
    /\ request.expectedVersion <= row.version
    /\ request.expectedVersion = row.version => ~Reopens(row.status, request.changes.status)

EditsStand ==
    \A w \in Workers :
        /\ task[w].op = "updateYear" => StandsOf(task[w], years[task[w].year])
        /\ task[w].op = "updateTerm" => StandsOf(task[w], terms[task[w].term])

IInv == CalendarTypeOK /\ EditsStand

\* What a step may make of a row: an edit moves its version, and nothing else its
\* status.
MovesOn(row, next) ==
    /\ next # Absent
    /\ \/ next.version = row.version /\ next.status = row.status
       \/ /\ next.version = row.version + 1
          /\ row.status = "CLOSED" => next.status = "CLOSED"

YearsMoveOn == \A y \in Years : years[y] # Absent => MovesOn(years[y], years'[y])

TermsMoveOn == \A t \in Terms : terms[t] # Absent => MovesOn(terms[t], terms'[t])

-----------------------------------------------------------------------------
(* Rows *)

LEMMA RowsAreThere == Absent \notin Year /\ Absent \notin Term
  BY DEF Absent, Year, Term

LEMMA RowsDiffer == \A row \in Year : row \notin Term
  BY DEF Year, Term

LEMMA MergedRow ==
    ASSUME NEW row \in Year \cup Term, NEW changes \in PeriodChanges
    PROVE  /\ row \in Year => Merged(row, changes) \in Year
           /\ row \in Term => Merged(row, changes) \in Term
           /\ Merged(row, changes).status = Given(changes.status, row.status)
           /\ Merged(row, changes).version = row.version + 1
<1>1. /\ Given(changes.status, row.status) \in Statuses
      /\ Given(changes.span[1], row.startDate) \in Nat
      /\ Given(changes.span[2], row.endDate) \in Nat
  <2>1. row.status \in Statuses /\ row.startDate \in Nat /\ row.endDate \in Nat
    BY DEF Year, Term
  <2>2. changes.status \in Statuses \cup {None}
    BY DEF PeriodChanges
  <2>3. changes.span \in (Nat \X Nat) \cup {<<None, None>>}
    BY CalendarAssumption DEF PeriodChanges
  <2>. QED
    BY <2>1, <2>2, <2>3 DEF Given
<1>2. row.version + 1 \in Nat
  BY DEF Year, Term
<1>3. PICK status \in Statuses, startDate \in Nat, endDate \in Nat, version \in Nat :
         /\ status = Given(changes.status, row.status)
         /\ startDate = Given(changes.span[1], row.startDate)
         /\ endDate = Given(changes.span[2], row.endDate)
         /\ version = row.version + 1
  BY <1>1, <1>2
<1>4. Merged(row, changes) =
        [row EXCEPT !.status = status, !.startDate = startDate, !.endDate = endDate,
                    !.version = version]
  BY <1>3 DEF Merged
<1>5. CASE row \in Year
  <2>1. /\ Merged(row, changes) \in Year
        /\ Merged(row, changes).status = status
        /\ Merged(row, changes).version = version
    BY <1>4, <1>5 DEF Year
  <2>2. row \notin Term
    BY <1>5, RowsDiffer
  <2>. QED
    BY <1>3, <2>1, <2>2
<1>6. CASE row \in Term
  <2>1. /\ Merged(row, changes) \in Term
        /\ Merged(row, changes).status = status
        /\ Merged(row, changes).version = version
    BY <1>4, <1>6 DEF Term
  <2>2. row \notin Year
    BY <1>6, RowsDiffer
  <2>. QED
    BY <1>3, <2>1, <2>2
<1>. QED
  BY <1>5, <1>6

\* An edit that does not reopen a row leaves a closed one closed.
LEMMA MergedMovesOn ==
    ASSUME NEW row \in Year \cup Term, NEW changes \in PeriodChanges,
           ~Reopens(row.status, changes.status)
    PROVE  MovesOn(row, Merged(row, changes))
<1>. QED
  BY MergedRow, RowsAreThere DEF MovesOn, Reopens, Given

LEMMA MadeCurrentYears ==
    ASSUME years \in [Years -> Year \cup {Absent}], NEW id
    PROVE  /\ MadeCurrent(years, id) \in [Years -> Year \cup {Absent}]
           /\ \A y \in Years : years[y] # Absent => MovesOn(years[y], MadeCurrent(years, id)[y])
<1>1. ASSUME NEW y \in Years, years[y] # Absent
      PROVE  /\ MadeCurrent(years, id)[y] \in Year
             /\ MovesOn(years[y], MadeCurrent(years, id)[y])
  <2>1. years[y] \in Year
    BY <1>1
  <2>2. (y = id) \in BOOLEAN
    OBVIOUS
  <2>3. MadeCurrent(years, id)[y] = [years[y] EXCEPT !.isCurrent = (y = id)]
    BY <1>1 DEF MadeCurrent, Exists
  <2>4. MadeCurrent(years, id)[y] \in Year
    BY <2>1, <2>2, <2>3 DEF Year
  <2>5. /\ MadeCurrent(years, id)[y].version = years[y].version
        /\ MadeCurrent(years, id)[y].status = years[y].status
    BY <2>1, <2>3 DEF Year
  <2>. QED
    BY <2>4, <2>5, RowsAreThere DEF MovesOn
<1>2. \A y \in Years : years[y] = Absent => MadeCurrent(years, id)[y] = Absent
  BY DEF MadeCurrent, Exists
<1>. QED
  BY <1>1, <1>2 DEF MadeCurrent

LEMMA MadeCurrentTerms ==
    ASSUME terms \in [Terms -> Term \cup {Absent}], NEW id
    PROVE  /\ MadeCurrent(terms, id) \in [Terms -> Term \cup {Absent}]
           /\ \A t \in Terms : terms[t] # Absent => MovesOn(terms[t], MadeCurrent(terms, id)[t])
<1>1. ASSUME NEW t \in Terms, terms[t] # Absent
      PROVE  /\ MadeCurrent(terms, id)[t] \in Term
             /\ MovesOn(terms[t], MadeCurrent(terms, id)[t])
  <2>1. terms[t] \in Term
    BY <1>1
  <2>2. (t = id) \in BOOLEAN
    OBVIOUS
  <2>3. MadeCurrent(terms, id)[t] = [terms[t] EXCEPT !.isCurrent = (t = id)]
    BY <1>1 DEF MadeCurrent, Exists
  <2>4. MadeCurrent(terms, id)[t] \in Term
    BY <2>1, <2>2, <2>3 DEF Term
  <2>5. /\ MadeCurrent(terms, id)[t].version = terms[t].version
        /\ MadeCurrent(terms, id)[t].status = terms[t].status
    BY <2>1, <2>3 DEF Term
  <2>. QED
    BY <2>4, <2>5, RowsAreThere DEF MovesOn
<1>2. \A t \in Terms : terms[t] = Absent => MadeCurrent(terms, id)[t] = Absent
  BY DEF MadeCurrent, Exists
<1>. QED
  BY <1>1, <1>2 DEF MadeCurrent

-----------------------------------------------------------------------------
(* Requests *)

LEMMA StandsOn ==
    ASSUME NEW row \in Year \cup Term, NEW next \in Year \cup Term, MovesOn(row, next),
           NEW request, request.expectedVersion \in Nat, StandsOf(request, row)
    PROVE  StandsOf(request, next)
<1>1. row.version \in Nat /\ next.version \in Nat
  BY DEF Year, Term
<1>. QED
  BY <1>1 DEF MovesOn, StandsOf

\* A request that is no edit, or the end of one, leaves the others standing.
LEMMA OthersStand ==
    ASSUME IInv, CalendarTypeOK', YearsMoveOn, TermsMoveOn, NEW w \in Workers,
           \A v \in Workers \ {w} : task'[v] = task[v]
    PROVE  \A v \in Workers \ {w} :
             /\ task'[v].op = "updateYear" => StandsOf(task'[v], years'[task'[v].year])
             /\ task'[v].op = "updateTerm" => StandsOf(task'[v], terms'[task'[v].term])
<1>. SUFFICES ASSUME NEW v \in Workers \ {w}
              PROVE  /\ task[v].op = "updateYear" => StandsOf(task[v], years'[task[v].year])
                     /\ task[v].op = "updateTerm" => StandsOf(task[v], terms'[task[v].term])
  OBVIOUS
<1>1. task[v] \in CalendarTask \cup {Idle}
  BY DEF IInv, CalendarTypeOK
<1>2. ASSUME task[v].op = "updateYear"
      PROVE  StandsOf(task[v], years'[task[v].year])
  <2>1. task[v].year \in Years /\ task[v].expectedVersion \in Nat
    BY <1>1, <1>2 DEF CalendarTask, Idle
  <2>2. StandsOf(task[v], years[task[v].year])
    BY <1>2 DEF IInv, EditsStand
  <2>3. years[task[v].year] \in Year /\ MovesOn(years[task[v].year], years'[task[v].year])
    BY <2>1, <2>2 DEF StandsOf, YearsMoveOn, IInv, CalendarTypeOK, PeriodsOK
  <2>4. years'[task[v].year] \in Year
    BY <2>1, <2>3 DEF MovesOn, CalendarTypeOK, PeriodsOK
  <2>. QED
    BY <2>1, <2>2, <2>3, <2>4, StandsOn
<1>3. ASSUME task[v].op = "updateTerm"
      PROVE  StandsOf(task[v], terms'[task[v].term])
  <2>1. task[v].term \in Terms /\ task[v].expectedVersion \in Nat
    BY <1>1, <1>3 DEF CalendarTask, Idle
  <2>2. StandsOf(task[v], terms[task[v].term])
    BY <1>3 DEF IInv, EditsStand
  <2>3. terms[task[v].term] \in Term /\ MovesOn(terms[task[v].term], terms'[task[v].term])
    BY <2>1, <2>2 DEF StandsOf, TermsMoveOn, IInv, CalendarTypeOK, PeriodsOK
  <2>4. terms'[task[v].term] \in Term
    BY <2>1, <2>3 DEF MovesOn, CalendarTypeOK, PeriodsOK
  <2>. QED
    BY <2>1, <2>2, <2>3, <2>4, StandsOn
<1>. QED
  BY <1>2, <1>3

\* Tables that stand still move on.
LEMMA StillMovesOn ==
    ASSUME CalendarTypeOK
    PROVE  /\ years' = years => YearsMoveOn
           /\ terms' = terms => TermsMoveOn
  BY DEF YearsMoveOn, TermsMoveOn, MovesOn

LEMMA BeginStep ==
    ASSUME CalendarTypeOK, NEW w \in Workers, NEW request \in CalendarTask, Begin(w, request)
    PROVE  /\ task' \in [Workers -> CalendarTask \cup {Idle}]
           /\ overlapped' \in BOOLEAN
           /\ task'[w] = request
           /\ \A v \in Workers \ {w} : task'[v] = task[v]
<1>1. /\ task' \in [Workers -> CalendarTask \cup {Idle}]
      /\ task'[w] = request
      /\ \A v \in Workers \ {w} : task'[v] = task[v]
  BY DEF Begin, CalendarTypeOK
<1>2. overlapped' \in BOOLEAN
  BY DEF Begin, Arrive, Busy
<1>. QED
  BY <1>1, <1>2

LEMMA FinishStep ==
    ASSUME CalendarTypeOK, NEW w \in Workers, Finish(w)
    PROVE  /\ task' \in [Workers -> CalendarTask \cup {Idle}]
           /\ overlapped' \in BOOLEAN
           /\ task'[w] = Idle
           /\ \A v \in Workers \ {w} : task'[v] = task[v]
  BY DEF Finish, Proceed, CalendarTypeOK

LEMMA AtOnceStep ==
    ASSUME CalendarTypeOK, NEW w \in Workers, AtOnce(w)
    PROVE  /\ task' \in [Workers -> CalendarTask \cup {Idle}]
           /\ overlapped' \in BOOLEAN
           /\ task'[w] = Idle
           /\ \A v \in Workers \ {w} : task'[v] = task[v]
<1>1. overlapped' \in BOOLEAN
  BY DEF AtOnce, Arrive, Busy
<1>. QED
  BY <1>1 DEF AtOnce, Arrive, CalendarTypeOK

-----------------------------------------------------------------------------
(* Steps *)

LEMMA Kept ==
    ASSUME IInv, PeriodsOK', YearsMoveOn, TermsMoveOn, NEW w \in Workers,
           task' \in [Workers -> CalendarTask \cup {Idle}], overlapped' \in BOOLEAN,
           \A v \in Workers \ {w} : task'[v] = task[v],
           task'[w].op = "updateYear" => StandsOf(task'[w], years'[task'[w].year]),
           task'[w].op = "updateTerm" => StandsOf(task'[w], terms'[task'[w].term])
    PROVE  IInv'
<1>1. CalendarTypeOK'
  BY DEF CalendarTypeOK
<1>2. EditsStand'
  BY <1>1, OthersStand DEF EditsStand
<1>. QED
  BY <1>1, <1>2 DEF IInv

LEMMA CreateAcademicYearSafe ==
    ASSUME IInv, NEW w \in Workers, NEW y \in Years, NEW span \in YearSpans,
           NEW status \in NewStatuses, CreateAcademicYear(w, y, span, status)
    PROVE  IInv' /\ YearsMoveOn /\ TermsMoveOn
<1>. DEFINE row == [status |-> status, isCurrent |-> FALSE, startDate |-> span[1],
                    endDate |-> span[2], version |-> 1]
<1>1. /\ CalendarTypeOK /\ AtOnce(w) /\ terms' = terms /\ years[y] = Absent
      /\ years' = [years EXCEPT ![y] = row]
  BY DEF IInv, CreateAcademicYear, Exists
<1>2. row \in Year
  BY CalendarAssumption DEF Year
<1>. HIDE DEF row
<1>3. PeriodsOK'
  BY <1>1, <1>2 DEF CalendarTypeOK, PeriodsOK
<1>4. YearsMoveOn /\ TermsMoveOn
  BY <1>1, StillMovesOn DEF CalendarTypeOK, PeriodsOK, YearsMoveOn, MovesOn
<1>. QED
  BY <1>1, <1>3, <1>4, AtOnceStep, Kept DEF Idle

LEMMA UpdateAcademicYearLoadSafe ==
    ASSUME IInv, NEW w \in Workers, NEW x \in Years, NEW changes \in Edits,
           UpdateAcademicYearLoad(w, x, changes)
    PROVE  IInv' /\ YearsMoveOn /\ TermsMoveOn
<1>. DEFINE request == [op |-> "updateYear", year |-> x, changes |-> changes,
                        expectedVersion |-> years[x].version]
<1>1. CalendarTypeOK /\ Begin(w, request)
  BY DEF IInv, UpdateAcademicYearLoad
<1>2. years[x] \in Year
  BY <1>1 DEF UpdateAcademicYearLoad, Exists, CalendarTypeOK, PeriodsOK
<1>3. request \in CalendarTask
  BY <1>2, CalendarAssumption DEF CalendarTask, Year
<1>4. PeriodsOK' /\ YearsMoveOn /\ TermsMoveOn /\ years' = years
  BY <1>1, StillMovesOn DEF UpdateAcademicYearLoad, calendar, CalendarTypeOK, PeriodsOK
<1>5. StandsOf(request, years[x])
  BY <1>2, RowsAreThere DEF UpdateAcademicYearLoad, StandsOf, Year
<1>. HIDE DEF request
<1>6. request.op = "updateYear" /\ request.year = x
  BY DEF request
<1>. QED
  BY <1>1, <1>3, <1>4, <1>5, <1>6, BeginStep, Kept

LEMMA UpdateAcademicYearCommitSafe ==
    ASSUME IInv, NEW w \in Workers, UpdateAcademicYearCommit(w)
    PROVE  IInv' /\ YearsMoveOn /\ TermsMoveOn
<1>. DEFINE x == task[w].year
            changes == task[w].changes
<1>1. CalendarTypeOK /\ Finish(w) /\ task[w].op = "updateYear" /\ terms' = terms
  BY DEF IInv, UpdateAcademicYearCommit
<1>2. x \in Years /\ changes \in PeriodChanges /\ task[w].expectedVersion \in Nat
  BY <1>1 DEF CalendarTypeOK, CalendarTask, Idle
<1>3. StandsOf(task[w], years[x])
  BY <1>1 DEF IInv, EditsStand
<1>4. years[x] \in Year /\ ~Reopens(years[x].status, changes.status)
  BY <1>1, <1>2, <1>3 DEF StandsOf, UpdateAcademicYearCommit, Matches, CalendarTypeOK, PeriodsOK
<1>5. /\ years'[x] = Merged(years[x], changes)
      /\ years' = [years EXCEPT ![x] = Merged(years[x], changes)]
      /\ \A o \in Years \ {x} : years'[o] = years[o]
  BY <1>1, <1>2 DEF UpdateAcademicYearCommit, CalendarTypeOK, PeriodsOK
<1>6. years'[x] \in Year /\ MovesOn(years[x], years'[x])
  BY <1>2, <1>4, <1>5, MergedRow, MergedMovesOn
<1>7. PeriodsOK'
  BY <1>1, <1>2, <1>5, <1>6 DEF CalendarTypeOK, PeriodsOK
<1>8. YearsMoveOn /\ TermsMoveOn
  BY <1>1, <1>2, <1>5, <1>6, StillMovesOn DEF YearsMoveOn, TermsMoveOn, MovesOn
<1>. QED
  BY <1>1, <1>7, <1>8, FinishStep, Kept DEF Idle

LEMMA SetCurrentYearLoadSafe ==
    ASSUME IInv, NEW w \in Workers, NEW y \in Years,
           SetCurrentYearLoad(w, y)
    PROVE  IInv' /\ YearsMoveOn /\ TermsMoveOn
<1>. DEFINE request == [op |-> "setYear", year |-> y]
<1>1. CalendarTypeOK /\ Begin(w, request)
  BY DEF IInv, SetCurrentYearLoad
<1>2. request \in CalendarTask
  BY DEF CalendarTask
<1>3. PeriodsOK' /\ YearsMoveOn /\ TermsMoveOn
  BY <1>1, StillMovesOn DEF SetCurrentYearLoad, calendar, CalendarTypeOK, PeriodsOK
<1>4. request.op \notin {"updateYear", "updateTerm"}
  OBVIOUS
<1>. HIDE DEF request
<1>. QED
  BY <1>1, <1>2, <1>3, <1>4, BeginStep, Kept

LEMMA SetCurrentYearCommitSafe ==
    ASSUME IInv, NEW w \in Workers, SetCurrentYearCommit(w)
    PROVE  IInv' /\ YearsMoveOn /\ TermsMoveOn
<1>1. CalendarTypeOK /\ Finish(w)
  BY DEF IInv, SetCurrentYearCommit
<1>2. PeriodsOK' /\ YearsMoveOn /\ TermsMoveOn
  BY <1>1, MadeCurrentYears, StillMovesOn
     DEF SetCurrentYearCommit, CalendarTypeOK, PeriodsOK, YearsMoveOn, TermsMoveOn
<1>. QED
  BY <1>1, <1>2, FinishStep, Kept DEF Idle

LEMMA CreateTermLoadSafe ==
    ASSUME IInv, NEW w \in Workers, NEW t \in Terms, NEW y \in Years, NEW span \in Spans,
           NEW status \in NewStatuses,
           CreateTermLoad(w, t, y, span, status)
    PROVE  IInv' /\ YearsMoveOn /\ TermsMoveOn
<1>. DEFINE request == [op |-> "createTerm", term |-> t,
                        row |-> [academicYear |-> y, status |-> status, isCurrent |-> FALSE,
                                 startDate |-> span[1], endDate |-> span[2], version |-> 1]]
<1>1. CalendarTypeOK /\ Begin(w, request)
  BY DEF IInv, CreateTermLoad
<1>2. request \in CalendarTask
  BY CalendarAssumption DEF Term, CalendarTask
<1>3. PeriodsOK' /\ YearsMoveOn /\ TermsMoveOn
  BY <1>1, StillMovesOn DEF CreateTermLoad, calendar, CalendarTypeOK, PeriodsOK
<1>4. request.op \notin {"updateYear", "updateTerm"}
  OBVIOUS
<1>. HIDE DEF request
<1>. QED
  BY <1>1, <1>2, <1>3, <1>4, BeginStep, Kept

LEMMA CreateTermCommitSafe ==
    ASSUME IInv, NEW w \in Workers, CreateTermCommit(w)
    PROVE  IInv' /\ YearsMoveOn /\ TermsMoveOn
<1>. DEFINE t == task[w].term
<1>1. /\ CalendarTypeOK /\ Finish(w) /\ years' = years /\ terms[t] = Absent
      /\ terms' = [terms EXCEPT ![t] = task[w].row]
      /\ task[w].op = "createTerm"
  BY DEF IInv, CreateTermCommit, Exists
<1>2. t \in Terms /\ task[w].row \in Term
  BY <1>1 DEF CalendarTypeOK, CalendarTask, Idle
<1>3. PeriodsOK'
  BY <1>1, <1>2 DEF CalendarTypeOK, PeriodsOK
<1>4. YearsMoveOn /\ TermsMoveOn
  BY <1>1, <1>2, StillMovesOn DEF CalendarTypeOK, PeriodsOK, TermsMoveOn, MovesOn
<1>. QED
  BY <1>1, <1>3, <1>4, FinishStep, Kept DEF Idle

LEMMA UpdateTermLoadSafe ==
    ASSUME IInv, NEW w \in Workers, NEW x \in Terms, NEW changes \in Edits,
           UpdateTermLoad(w, x, changes)
    PROVE  IInv' /\ YearsMoveOn /\ TermsMoveOn
<1>. DEFINE request == [op |-> "updateTerm", term |-> x, changes |-> changes,
                        expectedVersion |-> terms[x].version]
<1>1. CalendarTypeOK /\ Begin(w, request)
  BY DEF IInv, UpdateTermLoad
<1>2. terms[x] \in Term
  BY <1>1 DEF UpdateTermLoad, Exists, CalendarTypeOK, PeriodsOK
<1>3. request \in CalendarTask
  BY <1>2, CalendarAssumption DEF CalendarTask, Term
<1>4. PeriodsOK' /\ YearsMoveOn /\ TermsMoveOn /\ terms' = terms
  BY <1>1, StillMovesOn DEF UpdateTermLoad, calendar, CalendarTypeOK, PeriodsOK
<1>5. StandsOf(request, terms[x])
  BY <1>2, RowsAreThere DEF UpdateTermLoad, StandsOf, Term
<1>. HIDE DEF request
<1>6. request.op = "updateTerm" /\ request.term = x
  BY DEF request
<1>. QED
  BY <1>1, <1>3, <1>4, <1>5, <1>6, BeginStep, Kept

LEMMA UpdateTermCommitSafe ==
    ASSUME IInv, NEW w \in Workers, UpdateTermCommit(w)
    PROVE  IInv' /\ YearsMoveOn /\ TermsMoveOn
<1>. DEFINE x == task[w].term
            changes == task[w].changes
<1>1. CalendarTypeOK /\ Finish(w) /\ task[w].op = "updateTerm" /\ years' = years
  BY DEF IInv, UpdateTermCommit
<1>2. x \in Terms /\ changes \in PeriodChanges /\ task[w].expectedVersion \in Nat
  BY <1>1 DEF CalendarTypeOK, CalendarTask, Idle
<1>3. StandsOf(task[w], terms[x])
  BY <1>1 DEF IInv, EditsStand
<1>4. terms[x] \in Term /\ ~Reopens(terms[x].status, changes.status)
  BY <1>1, <1>2, <1>3 DEF StandsOf, UpdateTermCommit, Matches, CalendarTypeOK, PeriodsOK
<1>5. /\ terms'[x] = Merged(terms[x], changes)
      /\ terms' = [terms EXCEPT ![x] = Merged(terms[x], changes)]
      /\ \A o \in Terms \ {x} : terms'[o] = terms[o]
  BY <1>1, <1>2 DEF UpdateTermCommit, CalendarTypeOK, PeriodsOK
<1>6. terms'[x] \in Term /\ MovesOn(terms[x], terms'[x])
  BY <1>2, <1>4, <1>5, MergedRow, MergedMovesOn
<1>7. PeriodsOK'
  BY <1>1, <1>2, <1>5, <1>6 DEF CalendarTypeOK, PeriodsOK
<1>8. YearsMoveOn /\ TermsMoveOn
  BY <1>1, <1>2, <1>5, <1>6, StillMovesOn DEF YearsMoveOn, TermsMoveOn, MovesOn
<1>. QED
  BY <1>1, <1>7, <1>8, FinishStep, Kept DEF Idle

LEMMA SetCurrentTermLoadSafe ==
    ASSUME IInv, NEW w \in Workers, NEW t \in Terms,
           SetCurrentTermLoad(w, t)
    PROVE  IInv' /\ YearsMoveOn /\ TermsMoveOn
<1>. DEFINE request == [op |-> "setTerm", term |-> t]
<1>1. CalendarTypeOK /\ Begin(w, request)
  BY DEF IInv, SetCurrentTermLoad
<1>2. request \in CalendarTask
  BY DEF CalendarTask
<1>3. PeriodsOK' /\ YearsMoveOn /\ TermsMoveOn
  BY <1>1, StillMovesOn DEF SetCurrentTermLoad, calendar, CalendarTypeOK, PeriodsOK
<1>4. request.op \notin {"updateYear", "updateTerm"}
  OBVIOUS
<1>. HIDE DEF request
<1>. QED
  BY <1>1, <1>2, <1>3, <1>4, BeginStep, Kept

LEMMA SetCurrentTermCommitSafe ==
    ASSUME IInv, NEW w \in Workers, SetCurrentTermCommit(w)
    PROVE  IInv' /\ YearsMoveOn /\ TermsMoveOn
<1>1. CalendarTypeOK /\ Finish(w)
  BY DEF IInv, SetCurrentTermCommit
<1>2. PeriodsOK' /\ YearsMoveOn /\ TermsMoveOn
  BY <1>1, MadeCurrentTerms, StillMovesOn
     DEF SetCurrentTermCommit, CalendarTypeOK, PeriodsOK, YearsMoveOn, TermsMoveOn
<1>. QED
  BY <1>1, <1>2, FinishStep, Kept DEF Idle

LEMMA CalendarDropSafe ==
    ASSUME IInv, NEW w \in Workers, CalendarDrop(w)
    PROVE  IInv' /\ YearsMoveOn /\ TermsMoveOn
<1>1. CalendarTypeOK /\ Finish(w) /\ UNCHANGED calendar
  BY DEF IInv, CalendarDrop, DropTask
<1>2. PeriodsOK' /\ YearsMoveOn /\ TermsMoveOn
  BY <1>1, StillMovesOn DEF calendar, CalendarTypeOK, PeriodsOK
<1>. QED
  BY <1>1, <1>2, FinishStep, Kept DEF Idle

LEMMA StepSafe ==
    ASSUME IInv, CalendarNext
    PROVE  IInv' /\ YearsMoveOn /\ TermsMoveOn
<1>. PICK w \in Workers : YearStep(w) \/ TermStep(w) \/ CalendarDrop(w)
  BY DEF CalendarNext
<1>1. CASE YearStep(w)
  BY <1>1, CreateAcademicYearSafe, UpdateAcademicYearLoadSafe, UpdateAcademicYearCommitSafe,
     SetCurrentYearLoadSafe, SetCurrentYearCommitSafe DEF YearStep
<1>2. CASE TermStep(w)
  BY <1>2, CreateTermLoadSafe, CreateTermCommitSafe, UpdateTermLoadSafe, UpdateTermCommitSafe,
     SetCurrentTermLoadSafe, SetCurrentTermCommitSafe DEF TermStep
<1>. QED
  BY <1>1, <1>2, CalendarDropSafe

LEMMA InitSafe ==
    ASSUME CalendarInit
    PROVE  IInv
<1>1. CalendarTypeOK
  BY DEF CalendarInit, RequestsInit, NoYears, NoTerms, CalendarTypeOK, PeriodsOK
<1>2. EditsStand
  BY DEF CalendarInit, RequestsInit, EditsStand, Idle
<1>. QED
  BY <1>1, <1>2 DEF IInv

LEMMA Invariance == CalendarSpec => []IInv
<1>1. IInv /\ UNCHANGED <<calendar, task, overlapped>> => IInv'
  BY DEF IInv, CalendarTypeOK, PeriodsOK, EditsStand, StandsOf, calendar
<1>2. IInv /\ [CalendarNext]_<<calendar, task, overlapped>> => IInv'
  BY <1>1, StepSafe
<1>. QED
  BY InitSafe, <1>2, PTL DEF CalendarSpec

-----------------------------------------------------------------------------
(* Terms, as long as requests do not overlap *)

Apart(a, b) ==
    a.academicYear = b.academicYear => a.endDate < b.startDate \/ b.endDate < a.startDate

ClearOf(row, t) == \A s \in Terms \ {t} : terms[s] # Absent => Apart(row, terms[s])

TermsApart == \A t \in Terms : terms[t] # Absent => ClearOf(terms[t], t)

\* What a request is about to write shares no day with what is there.
PlanFits(request) ==
    /\ request.op = "createTerm" => ClearOf(request.row, request.term)
    /\ request.op = "updateTerm" =>
         ClearOf(Merged(terms[request.term], request.changes), request.term)

InStep ==
    /\ OneAtMost
    /\ ~overlapped => TermsApart /\ \A w \in Workers : PlanFits(task[w])

LEMMA IdleFits == PlanFits(Idle)
  BY DEF PlanFits, Idle

LEMMA BeginsInStep ==
    ASSUME IInv, InStep, NEW w \in Workers, NEW request \in CalendarTask, Begin(w, request),
           terms' = terms, ~overlapped => PlanFits(request)
    PROVE  InStep'
<1>1. /\ task'[w] = request
      /\ \A v \in Workers \ {w} : task'[v] = task[v]
  BY BeginStep DEF IInv
<1>2. ~overlapped' => ~overlapped /\ \A v \in Workers : task[v] = Idle
  BY DEF Begin, Arrive, Busy
<1>3. OneAtMost'
  BY <1>1, <1>2 DEF OneAtMost
<1>4. ASSUME ~overlapped'
      PROVE  TermsApart' /\ \A v \in Workers : PlanFits(task[v])'
  <2>1. TermsApart'
    BY <1>2, <1>4 DEF InStep, TermsApart, ClearOf
  <2>2. PlanFits(task[w])'
    BY <1>1, <1>2, <1>4 DEF PlanFits, ClearOf
  <2>3. ASSUME NEW v \in Workers \ {w}
        PROVE  PlanFits(task[v])'
    BY <1>1, <1>2, <1>4 DEF PlanFits, Idle
  <2>. QED
    BY <2>1, <2>2, <2>3
<1>. QED
  BY <1>3, <1>4 DEF InStep

LEMMA EndsInStep ==
    ASSUME IInv, InStep, NEW w \in Workers, Finish(w), task[w] # Idle,
           ~overlapped => TermsApart'
    PROVE  InStep'
<1>1. /\ task'[w] = Idle
      /\ \A v \in Workers \ {w} : task'[v] = task[v]
  BY FinishStep DEF IInv
<1>2. overlapped' = overlapped
  BY DEF Finish, Proceed
<1>3. OneAtMost'
  BY <1>1, <1>2 DEF InStep, OneAtMost
<1>4. ASSUME ~overlapped', NEW v \in Workers
      PROVE  PlanFits(task[v])'
  <2>1. task'[v] = Idle
    BY <1>1, <1>2, <1>4 DEF InStep, OneAtMost
  <2>. QED
    BY <2>1 DEF PlanFits, Idle
<1>. QED
  BY <1>2, <1>3, <1>4 DEF InStep

\* The terms are apart at the end of a step that moves none of them.
LEMMA SameDays ==
    ASSUME InStep, ~overlapped,
           \A t \in Terms :
               terms'[t] # Absent =>
                   /\ terms[t] # Absent
                   /\ terms'[t].academicYear = terms[t].academicYear
                   /\ terms'[t].startDate = terms[t].startDate
                   /\ terms'[t].endDate = terms[t].endDate
    PROVE  TermsApart'
  BY DEF InStep, TermsApart, ClearOf, Apart

\* The terms are apart at the end of a step that writes one of them clear of the others.
LEMMA OneTermWritten ==
    ASSUME IInv, InStep, ~overlapped, NEW t \in Terms, NEW row, ClearOf(row, t),
           terms' = [terms EXCEPT ![t] = row]
    PROVE  TermsApart'
<1>1. terms'[t] = row /\ \A s \in Terms \ {t} : terms'[s] = terms[s]
  BY DEF IInv, CalendarTypeOK, PeriodsOK
<1>2. ASSUME NEW a \in Terms, NEW b \in Terms \ {a}, terms'[a] # Absent, terms'[b] # Absent
      PROVE  Apart(terms'[a], terms'[b])
  <2>1. CASE a = t
    BY <1>1, <1>2, <2>1 DEF ClearOf
  <2>2. CASE b = t
    <3>1. Apart(terms'[b], terms'[a])
      BY <1>1, <1>2, <2>2 DEF ClearOf
    <3>. QED
      BY <3>1 DEF Apart
  <2>3. CASE a # t /\ b # t
    BY <1>1, <1>2, <2>3 DEF InStep, TermsApart, ClearOf
  <2>. QED
    BY <2>1, <2>2, <2>3
<1>. QED
  BY <1>2 DEF TermsApart, ClearOf

\* The test of the handlers.
LEMMA NoOverlapIsClear ==
    ASSUME IInv, NEW row \in Term, NEW t, NEW except, except = t \/ except \notin Terms,
           ~OverlapsSibling(row.startDate, row.endDate, row.academicYear, except)
    PROVE  ClearOf(row, t)
<1>. SUFFICES ASSUME NEW s \in Terms \ {t}, terms[s] # Absent,
                     row.academicYear = terms[s].academicYear
              PROVE  row.endDate < terms[s].startDate \/ terms[s].endDate < row.startDate
  BY DEF ClearOf, Apart
<1>1. terms[s] \in Term
  BY DEF IInv, CalendarTypeOK, PeriodsOK
<1>2. s \in Siblings(row.academicYear) \ {except}
  BY DEF Siblings, Exists
<1>3. ~(row.startDate <= terms[s].endDate /\ terms[s].startDate <= row.endDate)
  BY <1>2 DEF OverlapsSibling
<1>4. /\ row.startDate \in Nat /\ row.endDate \in Nat
      /\ terms[s].startDate \in Nat /\ terms[s].endDate \in Nat
  BY <1>1 DEF Term
<1>. QED
  BY <1>3, <1>4

LEMMA CreateTermInStep ==
    ASSUME IInv, InStep, NEW w \in Workers, NEW t \in Terms, NEW y \in Years, NEW span \in Spans,
           NEW status \in NewStatuses, CreateTermLoad(w, t, y, span, status)
    PROVE  InStep'
<1>1. PICK row : row = [academicYear |-> y, status |-> status, isCurrent |-> FALSE,
                        startDate |-> span[1], endDate |-> span[2], version |-> 1]
  OBVIOUS
<1>2. row \in Term /\ row.startDate = span[1] /\ row.endDate = span[2] /\ row.academicYear = y
  BY <1>1, CalendarAssumption DEF Term
<1>3. PICK request : request = [op |-> "createTerm", term |-> t, row |-> row]
  OBVIOUS
<1>4. Begin(w, request) /\ terms' = terms
  BY <1>1, <1>3 DEF CreateTermLoad, calendar
<1>5. request \in CalendarTask
  BY <1>2, <1>3 DEF CalendarTask
<1>6. ClearOf(row, t)
  BY <1>2, CalendarAssumption, NoOverlapIsClear DEF CreateTermLoad
<1>7. PlanFits(request)
  BY <1>3, <1>6 DEF PlanFits
<1>. QED
  BY <1>4, <1>5, <1>7, BeginsInStep

LEMMA UpdateTermInStep ==
    ASSUME IInv, InStep, NEW w \in Workers, NEW t \in Terms, NEW changes \in Edits,
           UpdateTermLoad(w, t, changes)
    PROVE  InStep'
<1>1. terms[t] \in Term /\ changes \in PeriodChanges
  BY CalendarAssumption DEF UpdateTermLoad, Exists, IInv, CalendarTypeOK, PeriodsOK
<1>2. PICK row : row = Merged(terms[t], changes)
  OBVIOUS
<1>3. /\ row.startDate = Given(changes.span[1], terms[t].startDate)
      /\ row.endDate = Given(changes.span[2], terms[t].endDate)
      /\ row.academicYear = terms[t].academicYear
  BY <1>1, <1>2 DEF Merged, Term
<1>4. row \in Term
  BY <1>1, <1>2, MergedRow
<1>5. PICK request : request = [op |-> "updateTerm", term |-> t, changes |-> changes,
                                expectedVersion |-> terms[t].version]
  OBVIOUS
<1>6. Begin(w, request) /\ terms' = terms
  BY <1>5 DEF UpdateTermLoad, calendar
<1>7. request \in CalendarTask
  BY <1>1, <1>5 DEF CalendarTask, Term
<1>8. ClearOf(row, t)
  BY <1>3, <1>4, NoOverlapIsClear DEF UpdateTermLoad
<1>9. PlanFits(request)
  BY <1>2, <1>5, <1>8 DEF PlanFits
<1>. QED
  BY <1>6, <1>7, <1>9, BeginsInStep

LEMMA TermWritesInStep ==
    ASSUME IInv, InStep, NEW w \in Workers, CreateTermCommit(w) \/ UpdateTermCommit(w)
    PROVE  InStep'
<1>1. Finish(w) /\ task[w] # Idle /\ task[w].term \in Terms
  BY DEF CreateTermCommit, UpdateTermCommit, IInv, CalendarTypeOK, CalendarTask, Idle
<1>2. ASSUME ~overlapped
      PROVE  TermsApart'
  <2>1. PICK request : request = task[w] /\ PlanFits(request)
    BY <1>2 DEF InStep
  <2>2. PICK t \in Terms : t = request.term
    BY <1>1, <2>1
  <2>3. CASE CreateTermCommit(w)
    <3>1. terms' = [terms EXCEPT ![t] = request.row] /\ ClearOf(request.row, t)
      BY <2>1, <2>2, <2>3 DEF CreateTermCommit, PlanFits
    <3>. QED
      BY <1>2, <3>1, OneTermWritten
  <2>4. CASE UpdateTermCommit(w)
    <3>1. /\ terms' = [terms EXCEPT ![t] = Merged(terms[t], request.changes)]
          /\ ClearOf(Merged(terms[t], request.changes), t)
      BY <2>1, <2>2, <2>4 DEF UpdateTermCommit, PlanFits
    <3>. QED
      BY <1>2, <3>1, OneTermWritten
  <2>. QED
    BY <2>3, <2>4
<1>. QED
  BY <1>1, <1>2, EndsInStep

LEMMA SetTermInStep ==
    ASSUME IInv, InStep, NEW w \in Workers, SetCurrentTermCommit(w)
    PROVE  InStep'
<1>1. ASSUME NEW t \in Terms, terms'[t] # Absent
      PROVE  /\ terms[t] # Absent
             /\ terms'[t].academicYear = terms[t].academicYear
             /\ terms'[t].startDate = terms[t].startDate
             /\ terms'[t].endDate = terms[t].endDate
  <2>1. terms[t] # Absent
    BY <1>1 DEF SetCurrentTermCommit, MadeCurrent, Exists, IInv, CalendarTypeOK, PeriodsOK
  <2>2. terms[t] \in Term
    BY <2>1 DEF IInv, CalendarTypeOK, PeriodsOK
  <2>3. terms'[t] = [terms[t] EXCEPT !.isCurrent = (t = task[w].term)]
    BY <2>1 DEF SetCurrentTermCommit, MadeCurrent, Exists, IInv, CalendarTypeOK, PeriodsOK
  <2>. QED
    BY <2>1, <2>2, <2>3 DEF Term
<1>2. ~overlapped => TermsApart'
  BY <1>1, SameDays
<1>3. Finish(w) /\ task[w] # Idle
  BY DEF SetCurrentTermCommit, Idle
<1>. QED
  BY <1>2, <1>3, EndsInStep

\* Requests that begin with no term in hand, and those that leave the terms alone.
LEMMA OtherLoadsInStep ==
    ASSUME IInv, InStep, NEW w \in Workers,
           \/ \E y \in Years, changes \in Edits : UpdateAcademicYearLoad(w, y, changes)
           \/ \E y \in Years : SetCurrentYearLoad(w, y)
           \/ \E t \in Terms : SetCurrentTermLoad(w, t)
    PROVE  InStep'
<1>1. CASE \E y \in Years, changes \in Edits : UpdateAcademicYearLoad(w, y, changes)
  <2>1. PICK y \in Years, changes \in Edits : UpdateAcademicYearLoad(w, y, changes)
    BY <1>1
  <2>2. PICK request : request = [op |-> "updateYear", year |-> y, changes |-> changes,
                                  expectedVersion |-> years[y].version]
    OBVIOUS
  <2>3. Begin(w, request) /\ terms' = terms
    BY <2>1, <2>2 DEF UpdateAcademicYearLoad, calendar
  <2>4. years[y] \in Year
    BY <2>1 DEF UpdateAcademicYearLoad, Exists, IInv, CalendarTypeOK, PeriodsOK
  <2>5. request \in CalendarTask /\ PlanFits(request)
    BY <2>2, <2>4, CalendarAssumption DEF CalendarTask, Year, PlanFits
  <2>. QED
    BY <2>3, <2>5, BeginsInStep
<1>2. CASE \E y \in Years : SetCurrentYearLoad(w, y)
  <2>1. PICK y \in Years : SetCurrentYearLoad(w, y)
    BY <1>2
  <2>2. PICK request : request = [op |-> "setYear", year |-> y]
    OBVIOUS
  <2>3. Begin(w, request) /\ terms' = terms /\ request \in CalendarTask /\ PlanFits(request)
    BY <2>1, <2>2 DEF SetCurrentYearLoad, calendar, CalendarTask, PlanFits
  <2>. QED
    BY <2>3, BeginsInStep
<1>3. CASE \E t \in Terms : SetCurrentTermLoad(w, t)
  <2>1. PICK t \in Terms : SetCurrentTermLoad(w, t)
    BY <1>3
  <2>2. PICK request : request = [op |-> "setTerm", term |-> t]
    OBVIOUS
  <2>3. Begin(w, request) /\ terms' = terms /\ request \in CalendarTask /\ PlanFits(request)
    BY <2>1, <2>2 DEF SetCurrentTermLoad, calendar, CalendarTask, PlanFits
  <2>. QED
    BY <2>3, BeginsInStep
<1>. QED
  BY <1>1, <1>2, <1>3

LEMMA YearWritesInStep ==
    ASSUME IInv, InStep, NEW w \in Workers,
           \/ UpdateAcademicYearCommit(w) \/ SetCurrentYearCommit(w) \/ CalendarDrop(w)
    PROVE  InStep'
<1>1. terms' = terms /\ Finish(w) /\ task[w] # Idle
  BY DEF UpdateAcademicYearCommit, SetCurrentYearCommit, CalendarDrop, DropTask, calendar, Idle
<1>2. ~overlapped => TermsApart'
  BY <1>1, SameDays
<1>. QED
  BY <1>1, <1>2, EndsInStep

LEMMA CreateYearInStep ==
    ASSUME IInv, InStep, NEW w \in Workers, NEW y \in Years, NEW span \in YearSpans,
           NEW status \in NewStatuses, CreateAcademicYear(w, y, span, status)
    PROVE  InStep'
<1>1. terms' = terms /\ task' = task /\ (~overlapped' => ~overlapped)
  BY DEF CreateAcademicYear, AtOnce, Arrive
<1>2. ~overlapped => TermsApart'
  BY <1>1, SameDays
<1>3. ASSUME ~overlapped', NEW v \in Workers
      PROVE  PlanFits(task[v])'
  BY <1>1, <1>3 DEF InStep, PlanFits, ClearOf
<1>. QED
  BY <1>1, <1>2, <1>3 DEF InStep, OneAtMost

LEMMA StepInStep ==
    ASSUME IInv, InStep, CalendarNext
    PROVE  InStep'
<1>. PICK w \in Workers : YearStep(w) \/ TermStep(w) \/ CalendarDrop(w)
  BY DEF CalendarNext
<1>1. CASE YearStep(w)
  BY <1>1, CreateYearInStep, OtherLoadsInStep, YearWritesInStep DEF YearStep
<1>2. CASE TermStep(w)
  BY <1>2, CreateTermInStep, TermWritesInStep, UpdateTermInStep, OtherLoadsInStep, SetTermInStep
     DEF TermStep
<1>. QED
  BY <1>1, <1>2, YearWritesInStep

LEMMA InStepHolds == CalendarSpec => []InStep
<1>1. CalendarInit => InStep
  <2>. SUFFICES ASSUME CalendarInit
                PROVE  InStep
    OBVIOUS
  <2>1. \A w \in Workers : task[w] = Idle
    BY DEF CalendarInit, RequestsInit
  <2>2. OneAtMost /\ \A w \in Workers : PlanFits(task[w])
    BY <2>1, IdleFits DEF OneAtMost
  <2>3. TermsApart
    BY DEF CalendarInit, NoTerms, TermsApart
  <2>. QED
    BY <2>2, <2>3 DEF InStep
<1>2. IInv /\ InStep /\ UNCHANGED <<calendar, task, overlapped>> => InStep'
  <2>. SUFFICES ASSUME InStep, terms' = terms, task' = task, overlapped' = overlapped
                PROVE  InStep'
    BY DEF calendar
  <2>1. TermsApart' <=> TermsApart
    BY DEF TermsApart, ClearOf
  <2>2. \A w \in Workers : PlanFits(task[w])' <=> PlanFits(task[w])
    BY DEF PlanFits, ClearOf
  <2>. QED
    BY <2>1, <2>2 DEF InStep, OneAtMost
<1>3. IInv /\ InStep /\ [CalendarNext]_<<calendar, task, overlapped>> => InStep'
  BY <1>2, StepInStep
<1>. QED
  BY <1>1, <1>3, Invariance, PTL DEF CalendarSpec

-----------------------------------------------------------------------------
(* Theorems *)

\* Every reachable state of the calendar is well typed, requests in flight included.
THEOREM CalendarTypeCorrect == CalendarSpec => []CalendarTypeOK
<1>1. IInv => CalendarTypeOK
  BY DEF IInv
<1>. QED
  BY <1>1, Invariance, PTL

\* A year or a term that was closed is never open again, however many requests to edit it
\* were checked while it was open (academic.service.ts:140-156).
THEOREM ClosedForGood == CalendarSpec => ClosedStaysClosed
<1>. DEFINE Stay ==
        /\ \A y \in Years : years[y] # Absent /\ years[y].status = "CLOSED" =>
              years'[y].status = "CLOSED"
        /\ \A t \in Terms : terms[t] # Absent /\ terms[t].status = "CLOSED" =>
              terms'[t].status = "CLOSED"
<1>1. IInv /\ CalendarNext => Stay
  BY StepSafe DEF YearsMoveOn, TermsMoveOn, MovesOn
<1>2. UNCHANGED <<calendar, task, overlapped>> => UNCHANGED calendar
  OBVIOUS
<1>3. IInv /\ [CalendarNext]_<<calendar, task, overlapped>> => [Stay]_calendar
  BY <1>1, <1>2
<1>. QED
  BY <1>3, Invariance, PTL DEF CalendarSpec, ClosedStaysClosed

\* As long as requests do not overlap, no two terms of one year share a day
\* (validateTermDates, academic.service.ts:304-340).
THEOREM TermsStayApart == CalendarSpec => []TermsDoNotOverlap
<1>1. InStep => TermsDoNotOverlap
  BY DEF InStep, TermsApart, ClearOf, Apart, TermsDoNotOverlap, Exists
<1>. QED
  BY <1>1, InStepHolds, PTL

-----------------------------------------------------------------------------
(* The walk along a progression *)

After(table, l) == IF l = None THEN None ELSE table[l].next

\* g is the walk over so many steps.
Walks(g, table, from, steps) ==
    g = [n \in 0 .. steps |-> IF n = 0 THEN from ELSE After(table, g[n - 1])]

\* Where it is at the end.
At(table, from, steps) == (CHOOSE g : Walks(g, table, from, steps))[steps]

LEMMA CursorIsAt ==
    ASSUME NEW from, NEW steps
    PROVE  Cursor(from, steps) = At(levels, from, steps)
  BY DEF Cursor, Follow, At, Walks, After

LEMMA CursorIsAtNext ==
    ASSUME NEW from, NEW steps
    PROVE  Cursor(from, steps)' = At(levels', from, steps)
  BY DEF Cursor, Follow, At, Walks, After

LEMMA WalkExists ==
    ASSUME NEW table, NEW from, NEW steps \in Nat
    PROVE  \E g : Walks(g, table, from, steps)
<1>. DEFINE Q == {n \in Nat : \E g : Walks(g, table, from, n)}
<1>1. 0 \in Q
  <2>1. Walks([n \in 0 .. 0 |-> from], table, from, 0)
    BY DEF Walks
  <2>. QED
    BY <2>1
<1>2. ASSUME NEW n \in Nat, n \in Q
      PROVE  n + 1 \in Q
  <2>1. PICK g : Walks(g, table, from, n)
    BY <1>2
  <2>. DEFINE h == [k \in 0 .. n + 1 |-> IF k = n + 1 THEN After(table, g[n]) ELSE g[k]]
  <2>2. ASSUME NEW k \in 0 .. n + 1
        PROVE  h[k] = IF k = 0 THEN from ELSE After(table, h[k - 1])
    <3>1. CASE k = n + 1
      BY <3>1
    <3>2. CASE k \in 0 .. n
      <4>1. g[k] = IF k = 0 THEN from ELSE After(table, g[k - 1])
        BY <2>1, <3>2 DEF Walks
      <4>2. k # 0 => k - 1 \in 0 .. n /\ h[k - 1] = g[k - 1]
        BY <3>2
      <4>. QED
        BY <3>2, <4>1, <4>2
    <3>. QED
      BY <3>1, <3>2
  <2>3. h = [k \in 0 .. n + 1 |-> h[k]]
    OBVIOUS
  <2>. HIDE DEF h
  <2>4. Walks(h, table, from, n + 1)
    BY <2>2, <2>3 DEF Walks
  <2>. QED
    BY <2>4
<1>. HIDE DEF Q
<1>3. steps \in Q
  BY <1>1, <1>2, NumberInduction
<1>. QED
  BY <1>3 DEF Q

LEMMA WalksAgree ==
    ASSUME NEW table, NEW from, NEW m \in Nat, NEW n \in Nat, NEW g, NEW h,
           Walks(g, table, from, m), Walks(h, table, from, n),
           NEW k \in Nat, k <= m, k <= n
    PROVE  g[k] = h[k]
<1>. DEFINE Q == {i \in Nat : i <= m /\ i <= n => g[i] = h[i]}
<1>1. 0 \in Q
  BY DEF Walks
<1>2. ASSUME NEW i \in Nat, i \in Q
      PROVE  i + 1 \in Q
  <2>1. ASSUME i + 1 <= m, i + 1 <= n
        PROVE  g[i + 1] = h[i + 1]
    <3>1. i + 1 \in 0 .. m /\ i + 1 \in 0 .. n /\ i + 1 # 0 /\ (i + 1) - 1 = i
      BY <2>1
    <3>2. g[i + 1] = After(table, g[i]) /\ h[i + 1] = After(table, h[i])
      BY <3>1 DEF Walks
    <3>3. g[i] = h[i]
      BY <1>2, <2>1
    <3>. QED
      BY <3>2, <3>3
  <2>. QED
    BY <2>1
<1>. HIDE DEF Q
<1>3. k \in Q
  BY <1>1, <1>2, NumberInduction
<1>. QED
  BY <1>3 DEF Q

\* The walk, a step at a time.
LEMMA AtSteps ==
    ASSUME NEW table, NEW from
    PROVE  /\ At(table, from, 0) = from
           /\ \A n \in Nat : At(table, from, n + 1) = After(table, At(table, from, n))
<1>1. \A n \in Nat : \E g : Walks(g, table, from, n) /\ At(table, from, n) = g[n]
  <2>. SUFFICES ASSUME NEW n \in Nat
                PROVE  \E g : Walks(g, table, from, n) /\ At(table, from, n) = g[n]
    OBVIOUS
  <2>1. PICK g : g = (CHOOSE h : Walks(h, table, from, n))
    OBVIOUS
  <2>. QED
    BY <2>1, WalkExists DEF At
<1>2. At(table, from, 0) = from
  <2>1. PICK g : Walks(g, table, from, 0) /\ At(table, from, 0) = g[0]
    BY <1>1
  <2>. QED
    BY <2>1 DEF Walks
<1>3. ASSUME NEW n \in Nat
      PROVE  At(table, from, n + 1) = After(table, At(table, from, n))
  <2>1. PICK g : Walks(g, table, from, n) /\ At(table, from, n) = g[n]
    BY <1>1
  <2>2. PICK h : Walks(h, table, from, n + 1) /\ At(table, from, n + 1) = h[n + 1]
    BY <1>1
  <2>3. g[n] = h[n]
    BY <2>1, <2>2, WalksAgree
  <2>4. n + 1 \in 0 .. n + 1 /\ n + 1 # 0 /\ (n + 1) - 1 = n
    OBVIOUS
  <2>5. h[n + 1] = After(table, h[n])
    BY <2>2, <2>4 DEF Walks
  <2>. QED
    BY <2>1, <2>2, <2>3, <2>5
<1>. QED
  BY <1>2, <1>3
\* Where a walk is after so many steps and more.
LEMMA AtFurther ==
    ASSUME NEW table, NEW from, NEW m \in Nat, NEW n \in Nat
    PROVE  At(table, from, m + n) = At(table, At(table, from, m), n)
<1>. DEFINE there == At(table, from, m)
            Q == {k \in Nat : At(table, from, m + k) = At(table, there, k)}
<1>1. 0 \in Q
  <2>1. m + 0 = m
    OBVIOUS
  <2>. QED
    BY <2>1, AtSteps
<1>2. ASSUME NEW k \in Nat, k \in Q
      PROVE  k + 1 \in Q
  <2>1. m + (k + 1) = (m + k) + 1 /\ m + k \in Nat
    OBVIOUS
  <2>2. At(table, from, (m + k) + 1) = After(table, At(table, from, m + k))
    <3>1. \A i \in Nat : At(table, from, i + 1) = After(table, At(table, from, i))
      BY AtSteps
    <3>. QED
      BY <2>1, <3>1
  <2>3. At(table, there, k + 1) = After(table, At(table, there, k))
    BY AtSteps
  <2>4. At(table, from, m + k) = At(table, there, k)
    BY <1>2
  <2>. QED
    BY <2>1, <2>2, <2>3, <2>4
<1>. HIDE DEF Q, there
<1>3. n \in Q
  BY <1>1, <1>2, NumberInduction
<1>. QED
  BY <1>3 DEF Q, there

\* From a known level the next is known, or there is none.
LeadsOn(table, known) ==
    /\ None \notin known
    /\ \A l \in known : table[l].next \in known \cup {None}

NoCycle(table, known) == \A l \in known, n \in Nat \ {0} : At(table, l, n) # l

LEMMA AtIsKnown ==
    ASSUME NEW table, NEW known, LeadsOn(table, known), NEW from \in known \cup {None},
           NEW n \in Nat
    PROVE  At(table, from, n) \in known \cup {None}
<1>. DEFINE Q == {k \in Nat : At(table, from, k) \in known \cup {None}}
<1>1. 0 \in Q
  BY AtSteps
<1>2. ASSUME NEW k \in Nat, k \in Q
      PROVE  k + 1 \in Q
  <2>1. At(table, from, k + 1) = After(table, At(table, from, k))
    BY AtSteps
  <2>2. At(table, from, k) \in known \cup {None}
    BY <1>2
  <2>3. At(table, from, k + 1) \in known \cup {None}
    BY <2>1, <2>2 DEF After, LeadsOn
  <2>. QED
    BY <2>3
<1>. HIDE DEF Q
<1>3. n \in Q
  BY <1>1, <1>2, NumberInduction
<1>. QED
  BY <1>3 DEF Q

LEMMA AtStaysNone ==
    ASSUME NEW table, NEW n \in Nat
    PROVE  At(table, None, n) = None
<1>. DEFINE Q == {k \in Nat : At(table, None, k) = None}
<1>1. 0 \in Q
  BY AtSteps
<1>2. ASSUME NEW k \in Nat, k \in Q
      PROVE  k + 1 \in Q
  <2>1. At(table, None, k + 1) = After(table, At(table, None, k))
    BY AtSteps
  <2>. QED
    BY <1>2, <2>1 DEF After
<1>. HIDE DEF Q
<1>3. n \in Q
  BY <1>1, <1>2, NumberInduction
<1>. QED
  BY <1>3 DEF Q

\* Without cycles the walk has ended after as many steps as there are levels: otherwise it
\* would have been somewhere twice.
LEMMA WalkEnds ==
    ASSUME NEW table, NEW known, IsFiniteSet(known), LeadsOn(table, known),
           NoCycle(table, known), NEW from \in known \cup {None}
    PROVE  At(table, from, Cardinality(known)) = None
<1>. DEFINE size == Cardinality(known)
<1>1. size \in Nat
  BY FS_CardinalityType
<1>2. SUFFICES ASSUME At(table, from, size) # None
               PROVE  FALSE
  OBVIOUS
<1>. HIDE DEF size
<1>3. ASSUME NEW k \in 0 .. size
      PROVE  At(table, from, k) \in known
  <2>1. k \in Nat /\ size - k \in Nat /\ k + (size - k) = size
    BY <1>1
  <2>2. At(table, from, size) = At(table, At(table, from, k), size - k)
    BY <2>1, AtFurther
  <2>3. At(table, from, k) # None
    BY <1>2, <2>1, <2>2, AtStaysNone
  <2>. QED
    BY <2>1, <2>3, AtIsKnown
<1>. DEFINE visit == [k \in 0 .. size |-> At(table, from, k)]
<1>4. visit \in [0 .. size -> known]
  BY <1>3
<1>5. IsFiniteSet(0 .. size) /\ Cardinality(0 .. size) = size + 1
  BY <1>1, FS_Interval
<1>6. Cardinality(known) < Cardinality(0 .. size)
  BY <1>1, <1>5 DEF size
<1>7. PICK i, j \in 0 .. size : i # j /\ visit[i] = visit[j]
  <2>. HIDE DEF visit
  <2>. QED
    BY <1>4, <1>5, <1>6, FS_PigeonHole
<1>8. \A i1, j1 \in 0 .. size : i1 < j1 => At(table, from, i1) # At(table, from, j1)
  <2>. SUFFICES ASSUME NEW i1 \in 0 .. size, NEW j1 \in 0 .. size, i1 < j1
                PROVE  At(table, from, i1) # At(table, from, j1)
    OBVIOUS
  <2>1. i1 \in Nat /\ j1 - i1 \in Nat \ {0} /\ i1 + (j1 - i1) = j1
    BY <1>1
  <2>2. At(table, from, j1) = At(table, At(table, from, i1), j1 - i1)
    BY <2>1, AtFurther
  <2>3. At(table, from, i1) \in known
    BY <1>3
  <2>. QED
    BY <2>1, <2>2, <2>3 DEF NoCycle
<1>. QED
  BY <1>1, <1>7, <1>8

\* Two tables that differ at one level take a walk the same way until it is there.
SameBut(table, other, l, known) == \A k \in known \ {l} : other[k].next = table[k].next

Avoids(table, from, n, l) == \A k \in 0 .. n - 1 : At(table, from, k) # l

LEMMA SameWalk ==
    ASSUME NEW table, NEW other, NEW l, NEW known, SameBut(table, other, l, known),
           LeadsOn(table, known), NEW from \in known \cup {None},
           NEW n \in Nat, Avoids(table, from, n, l)
    PROVE  \A k \in 0 .. n : At(other, from, k) = At(table, from, k)
<1>. DEFINE Q == {k \in Nat : k <= n => At(other, from, k) = At(table, from, k)}
<1>1. 0 \in Q
  BY AtSteps
<1>2. ASSUME NEW k \in Nat, k \in Q
      PROVE  k + 1 \in Q
  <2>. SUFFICES ASSUME k + 1 <= n
                PROVE  At(other, from, k + 1) = At(table, from, k + 1)
    OBVIOUS
  <2>. DEFINE here == At(table, from, k)
  <2>1. At(other, from, k) = here /\ here # l
    BY <1>2 DEF Avoids
  <2>2. here \in known \cup {None}
    BY AtIsKnown
  <2>3. At(other, from, k + 1) = After(other, At(other, from, k))
    <3>1. \A i \in Nat : At(other, from, i + 1) = After(other, At(other, from, i))
      BY AtSteps
    <3>. QED
      BY <1>2, <3>1
  <2>4. At(table, from, k + 1) = After(table, here)
    <3>1. \A i \in Nat : At(table, from, i + 1) = After(table, At(table, from, i))
      BY AtSteps
    <3>. QED
      BY <1>2, <3>1
  <2>. HIDE DEF here
  <2>. QED
    BY <2>1, <2>2, <2>3, <2>4 DEF After, SameBut
<1>. HIDE DEF Q
<1>3. Nat \subseteq Q
  BY <1>1, <1>2, NumberInduction
<1>. QED
  BY <1>3 DEF Q

\* A link from l to where no walk leads back to l closes no cycle: WouldLoop.
LEMMA NoCycleAfterLink ==
    ASSUME NEW table, NEW other, NEW known, IsFiniteSet(known), NEW l \in known,
           LeadsOn(table, known), LeadsOn(other, known), NoCycle(table, known),
           SameBut(table, other, l, known),
           other[l].next # None =>
               \A n \in 0 .. Cardinality(known) - 1 : At(table, other[l].next, n) # l
    PROVE  NoCycle(other, known)
<1>. DEFINE next == other[l].next
<1>1. next \in known \cup {None} /\ l # None
  BY DEF LeadsOn
<1>2. ASSUME NEW n \in Nat
      PROVE  At(other, next, n) # l
  <2>. SUFFICES ASSUME At(other, next, n) = l
                PROVE  FALSE
    OBVIOUS
  <2>. DEFINE Hits == {k \in Nat : At(other, next, k) = l}
  <2>1. PICK m \in Hits : \A k \in Hits : m <= k
    BY LeastNumber
  <2>2. \A k \in 0 .. m : At(table, next, k) = At(other, next, k)
    <3>1. Avoids(other, next, m, l)
      BY <2>1 DEF Avoids
    <3>2. m \in Nat /\ SameBut(other, table, l, known)
      BY <2>1 DEF SameBut
    <3>. HIDE DEF Hits, next
    <3>. QED
      BY <1>1, <3>1, <3>2, SameWalk
  <2>3. At(table, next, m) = l
    BY <2>1, <2>2
  <2>4. next # None
    BY <1>1, <2>1, <2>3, AtStaysNone
  <2>5. Cardinality(known) \in Nat
    BY FS_CardinalityType
  <2>6. m >= Cardinality(known)
    BY <2>1, <2>3, <2>4, <2>5
  <2>7. m - Cardinality(known) \in Nat /\ Cardinality(known) + (m - Cardinality(known)) = m
    BY <2>1, <2>5, <2>6
  <2>8. At(table, next, Cardinality(known)) = None
    <3>. HIDE DEF next
    <3>. QED
      BY <1>1, WalkEnds
  <2>9. At(table, next, m) = None
    <3>. HIDE DEF next
    <3>. QED
      BY <2>5, <2>7, <2>8, AtFurther, AtStaysNone
  <2>. QED
    BY <1>1, <2>3, <2>9
<1>. SUFFICES ASSUME NEW x \in known, NEW n \in Nat \ {0}, At(other, x, n) = x
              PROVE  FALSE
  BY DEF NoCycle
<1>3. CASE \A k \in 0 .. n - 1 : At(other, x, k) # l
  <2>1. At(table, x, n) = At(other, x, n)
    <3>1. SameBut(other, table, l, known) /\ Avoids(other, x, n, l)
      BY <1>3 DEF SameBut, Avoids
    <3>2. \A k \in 0 .. n : At(table, x, k) = At(other, x, k)
      BY <3>1, SameWalk
    <3>. QED
      BY <3>2
  <2>. QED
    BY <2>1 DEF NoCycle
<1>4. CASE \E k \in 0 .. n - 1 : At(other, x, k) = l
  <2>1. PICK k \in 0 .. n - 1 : At(other, x, k) = l
    BY <1>4
  <2>2. k \in Nat /\ n - 1 \in Nat /\ n = 1 + (n - 1) /\ n + k = k + n /\ 1 = 0 + 1
    BY <2>1
  <2>3. At(other, x, n + k) = At(other, At(other, x, n), k)
    BY <2>2, AtFurther
  <2>4. At(other, x, k + n) = At(other, At(other, x, k), n)
    BY <2>2, AtFurther
  <2>5. At(other, l, n) = l
    BY <2>1, <2>2, <2>3, <2>4
  <2>6. At(other, l, 1) = next
    <3>1. At(other, l, 0 + 1) = After(other, At(other, l, 0)) /\ At(other, l, 0) = l
      BY AtSteps
    <3>. QED
      BY <1>1, <2>2, <3>1 DEF After
  <2>7. At(other, l, 1 + (n - 1)) = At(other, At(other, l, 1), n - 1)
    BY <2>2, AtFurther
  <2>. QED
    BY <1>2, <2>2, <2>5, <2>6, <2>7
<1>. QED
  BY <1>3, <1>4


\* A new level that leads nowhere closes no cycle.
LEMMA NoCycleAfterNew ==
    ASSUME NEW table, NEW other, NEW known, NEW l, l \notin known, l # None,
           LeadsOn(table, known), NoCycle(table, known), SameBut(table, other, l, known),
           other[l].next = None
    PROVE  NoCycle(other, known \cup {l})
<1>1. ASSUME NEW x \in known, NEW n \in Nat \ {0}
      PROVE  At(other, x, n) # x
  <2>1. Avoids(table, x, n, l)
    <3>1. ASSUME NEW k \in 0 .. n - 1
          PROVE  At(table, x, k) # l
      <4>1. At(table, x, k) \in known \cup {None}
        BY AtIsKnown
      <4>. QED
        BY <4>1
    <3>. QED
      BY <3>1 DEF Avoids
  <2>2. At(other, x, n) = At(table, x, n)
    <3>1. \A k \in 0 .. n : At(other, x, k) = At(table, x, k)
      BY <2>1, SameWalk
    <3>. QED
      BY <3>1
  <2>. QED
    BY <2>2 DEF NoCycle
<1>2. ASSUME NEW n \in Nat \ {0}
      PROVE  At(other, l, n) # l
  <2>1. n - 1 \in Nat /\ n = 1 + (n - 1) /\ 1 = 0 + 1
    OBVIOUS
  <2>2. At(other, l, 0 + 1) = None
    <3>1. At(other, l, 0 + 1) = After(other, At(other, l, 0)) /\ At(other, l, 0) = l
      BY AtSteps
    <3>. QED
      BY <3>1 DEF After
  <2>3. At(other, l, 1 + (n - 1)) = At(other, At(other, l, 1), n - 1)
    BY <2>1, AtFurther
  <2>4. At(other, None, n - 1) = None
    BY <2>1, AtStaysNone
  <2>. QED
    BY <2>1, <2>2, <2>3, <2>4
<1>. QED
  BY <1>1, <1>2 DEF NoCycle

-----------------------------------------------------------------------------
(* The progression, as long as requests do not overlap *)

curriculumVars == <<task, overlapped, curriculum>>

CurriculumSpec == RequestsInit /\ CurriculumInit /\ [][CurriculumNext]_curriculumVars

\* The rows there are, and the requests that will write one.
CurriculumTyped ==
    /\ CurriculumTypeOK
    /\ \A w \in Workers : task[w] \in CurriculumTask \cup {Idle}
    /\ IsFiniteSet(KnownLevels)
    /\ LeadsOn(levels, KnownLevels)

\* What holds of a request in hand, whatever overlaps.
RequestStands(request) ==
    /\ request.op = "updateProgram" => programs[request.program] # Absent
    /\ request.op = "createLevel" => request.row.next = None
    /\ request.op = "setNext" =>
         request.level \in KnownLevels /\ request.next \in KnownLevels \cup {None}

\* What the checks of a request to link two levels have established.
LinkChecked(request) ==
    request.op = "setNext" /\ request.next # None =>
        /\ levels[request.next].program = levels[request.level].program
        /\ \A n \in 0 .. Cardinality(KnownLevels) - 1 : At(levels, request.next, n) # request.level

OneProgramme ==
    \A l \in KnownLevels :
        levels[l].next # None => levels[levels[l].next].program = levels[l].program

CurriculumInv ==
    /\ OneWay
    /\ CurriculumTyped
    /\ \A w \in Workers : RequestStands(task[w])
    /\ ~overlapped =>
         /\ NoCycle(levels, KnownLevels)
         /\ OneProgramme
         /\ \A w \in Workers : LinkChecked(task[w])

LEMMA LevelsAreThere == Absent \notin Level /\ Absent \notin Program
  BY DEF Absent, Level, Program

LEMMA CurriculumInitInv == RequestsInit /\ CurriculumInit => CurriculumInv
<1>. SUFFICES ASSUME RequestsInit, CurriculumInit
              PROVE  CurriculumInv
  OBVIOUS
<1>1. KnownLevels = {}
  BY DEF CurriculumInit, KnownLevels
<1>2. CurriculumTyped
  BY <1>1, FS_EmptySet, CurriculumAssumption
     DEF CurriculumTyped, CurriculumTypeOK, CurriculumInit, RequestsInit, LeadsOn
<1>3. \A w \in Workers : RequestStands(task[w]) /\ LinkChecked(task[w])
  BY DEF RequestsInit, RequestStands, LinkChecked, Idle
<1>4. NoCycle(levels, KnownLevels) /\ OneProgramme
  BY <1>1 DEF NoCycle, OneProgramme
<1>. QED
  BY <1>2, <1>3, <1>4, OneWayInit DEF CurriculumInv

\* A step that leaves the levels alone keeps what was said of them.
LEMMA LevelsKept ==
    ASSUME CurriculumInv, OneWay', CurriculumTypeOK', levels' = levels,
           ~overlapped' => ~overlapped,
           \A p \in Programs : programs[p] # Absent => programs'[p] # Absent,
           \A w \in Workers : \/ task'[w] = task[w]
                              \/ /\ task'[w] \in CurriculumTask \cup {Idle}
                                 /\ RequestStands(task[w])'
                                 /\ ~overlapped' => LinkChecked(task[w])'
    PROVE  CurriculumInv'
<1>1. KnownLevels' = KnownLevels
  BY DEF KnownLevels
<1>2. CurriculumTyped'
  BY <1>1 DEF CurriculumInv, CurriculumTyped
<1>3. ASSUME NEW w \in Workers
      PROVE  RequestStands(task[w])' /\ (~overlapped' => LinkChecked(task[w])')
  <2>1. RequestStands(task[w])'
    <3>1. CASE task'[w] = task[w]
      BY <1>1, <3>1 DEF CurriculumInv, CurriculumTyped, CurriculumTask, RequestStands, Idle
    <3>2. CASE task'[w] # task[w]
      BY <1>1, <3>2 DEF RequestStands, CurriculumTask, Idle
    <3>. QED
      BY <3>1, <3>2
  <2>. QED
    BY <1>1, <2>1 DEF CurriculumInv, RequestStands, LinkChecked
<1>4. ~overlapped' => NoCycle(levels, KnownLevels)' /\ OneProgramme'
  BY <1>1 DEF CurriculumInv, OneProgramme, NoCycle
<1>. QED
  BY <1>2, <1>3, <1>4 DEF CurriculumInv

LEMMA IdleLevels == RequestStands(Idle) /\ RequestStands(Idle)' /\ LinkChecked(Idle) /\ LinkChecked(Idle)'
  BY DEF RequestStands, LinkChecked, Idle

LEMMA CreateDepartmentSafe ==
    ASSUME CurriculumInv, NEW w \in Workers, NEW d \in Departments, CreateDepartment(w, d)
    PROVE  CurriculumInv'
<1>1. OneWay' /\ task' = task /\ (~overlapped' => ~overlapped)
  BY AtOnceAlone DEF CreateDepartment, CurriculumInv
<1>2. CurriculumTypeOK'
  BY DEF CreateDepartment, CurriculumInv, CurriculumTyped, CurriculumTypeOK
<1>. QED
  BY <1>1, <1>2, LevelsKept DEF CreateDepartment

LEMMA CreateProgramSafe ==
    ASSUME CurriculumInv, NEW w \in Workers, NEW p \in Programs, NEW d, CreateProgram(w, p, d)
    PROVE  CurriculumInv'
<1>1. OneWay' /\ task' = task /\ (~overlapped' => ~overlapped)
  BY AtOnceAlone DEF CreateProgram, CurriculumInv
<1>2. /\ CurriculumTypeOK'
      /\ \A q \in Programs : programs[q] # Absent => programs'[q] # Absent
  BY DEF CreateProgram, CurriculumInv, CurriculumTyped, CurriculumTypeOK, Program
<1>. QED
  BY <1>1, <1>2, LevelsKept DEF CreateProgram

\* A request that begins, having read what it read.
LEMMA CurriculumBegins ==
    ASSUME CurriculumInv, NEW w \in Workers, NEW request, Begin(w, request),
           UNCHANGED curriculum, request \in CurriculumTask, RequestStands(request),
           ~overlapped => LinkChecked(request)
    PROVE  CurriculumInv'
<1>1. /\ OneWay' /\ (~overlapped' => ~overlapped)
      /\ task' = [v \in Workers |-> IF v = w THEN request ELSE task[v]]
  BY BeginsAlone DEF CurriculumInv
<1>2. CurriculumTypeOK' /\ levels' = levels /\ programs' = programs
  BY DEF curriculum, CurriculumInv, CurriculumTyped, CurriculumTypeOK
<1>3. \A v \in Workers : task'[v] = IF v = w THEN request ELSE task[v]
  BY <1>1
<1>4. ASSUME NEW v \in Workers, task'[v] # task[v]
      PROVE  /\ task'[v] \in CurriculumTask \cup {Idle}
             /\ RequestStands(task[v])'
             /\ ~overlapped' => LinkChecked(task[v])'
  <2>1. task'[v] = request
    BY <1>3, <1>4
  <2>2. RequestStands(task[v])'
    BY <1>2, <2>1 DEF RequestStands, KnownLevels
  <2>3. ~overlapped' => LinkChecked(task[v])'
    BY <1>1, <1>2, <2>1 DEF LinkChecked, KnownLevels
  <2>. QED
    BY <2>1, <2>2, <2>3
<1>. QED
  BY <1>1, <1>2, <1>4, LevelsKept

LEMMA UpdateProgramLoadSafe ==
    ASSUME CurriculumInv, NEW w \in Workers, NEW p \in Programs,
           NEW status \in {"ACTIVE", "DISCONTINUED"}, UpdateProgramLoad(w, p, status)
    PROVE  CurriculumInv'
<1>. DEFINE request == [op |-> "updateProgram", program |-> p, status |-> status,
                        expectedVersion |-> programs[p].version]
<1>1. programs[p] \in Program
  BY DEF UpdateProgramLoad, CurriculumInv, CurriculumTyped, CurriculumTypeOK
<1>2. request \in CurriculumTask
  BY <1>1 DEF CurriculumTask, Program
<1>3. RequestStands(request) /\ LinkChecked(request)
  BY DEF RequestStands, LinkChecked, UpdateProgramLoad
<1>4. Begin(w, request) /\ UNCHANGED curriculum
  BY DEF UpdateProgramLoad
<1>. HIDE DEF request
<1>. QED
  BY <1>2, <1>3, <1>4, CurriculumBegins

\* A request that ends without a word about the levels.
LEMMA CurriculumEnds ==
    ASSUME CurriculumInv, NEW w \in Workers, task[w] # Idle, Finish(w),
           CurriculumTypeOK', levels' = levels,
           \A p \in Programs : programs[p] # Absent => programs'[p] # Absent
    PROVE  CurriculumInv'
<1>1. /\ OneWay' /\ overlapped' = overlapped
      /\ task' = [v \in Workers |-> IF v = w THEN Idle ELSE task[v]]
  BY ProceedsAlone DEF CurriculumInv, Finish
<1>2. \A v \in Workers : task'[v] = IF v = w THEN Idle ELSE task[v]
  BY <1>1
<1>. QED
  BY <1>1, <1>2, LevelsKept, IdleLevels

LEMMA UpdateProgramCommitSafe ==
    ASSUME CurriculumInv, NEW w \in Workers, UpdateProgramCommit(w)
    PROVE  CurriculumInv'
<1>1. task[w] \in [op : {"updateProgram"}, program : Programs,
                   status : {"ACTIVE", "DISCONTINUED"}, expectedVersion : Nat]
  BY DEF UpdateProgramCommit, CurriculumInv, CurriculumTyped, CurriculumTask, Idle
<1>2. task[w] # Idle
  BY DEF UpdateProgramCommit, Idle
<1>. DEFINE p == task[w].program
<1>3. programs[p] \in Program
  BY <1>1 DEF CurriculumInv, CurriculumTyped, CurriculumTypeOK, RequestStands
<1>4. /\ CurriculumTypeOK'
      /\ \A q \in Programs : programs[q] # Absent => programs'[q] # Absent
  <2>. DEFINE row == [programs[p] EXCEPT !.status = task[w].status,
                                          !.version = programs[p].version + 1]
  <2>1. row \in Program
    <3>1. PICK status \in {"ACTIVE", "DISCONTINUED"} : status = task[w].status
      BY <1>1
    <3>2. PICK old \in Program : old = programs[p]
      BY <1>3
    <3>3. PICK number \in Nat : number = old.version + 1
      BY DEF Program
    <3>4. [old EXCEPT !.status = status, !.version = number] \in Program
      BY DEF Program
    <3>. QED
      BY <3>1, <3>2, <3>3, <3>4
  <2>2. programs' = [programs EXCEPT ![p] = row]
    BY DEF UpdateProgramCommit
  <2>3. row # Absent
    BY <2>1, LevelsAreThere
  <2>. HIDE DEF row
  <2>. QED
    BY <2>1, <2>2, <2>3 DEF UpdateProgramCommit, CurriculumInv, CurriculumTyped, CurriculumTypeOK
<1>. QED
  BY <1>2, <1>4, CurriculumEnds DEF UpdateProgramCommit

\* The one level a request writes.
LEMMA WrittenLevels ==
    ASSUME CurriculumInv, NEW w \in Workers, task[w] # Idle, Finish(w),
           UNCHANGED <<departments, programs>>,
           NEW l \in Levels, NEW row \in Level, row.next \in KnownLevels \cup {None},
           levels' = [levels EXCEPT ![l] = row],
           ~overlapped => NoCycle(levels', KnownLevels') /\ OneProgramme'
    PROVE  CurriculumInv'
<1>1. /\ OneWay' /\ overlapped' = overlapped
      /\ task' = [v \in Workers |-> IF v = w THEN Idle ELSE task[v]]
      /\ ~overlapped => \A v \in Workers \ {w} : task[v] = Idle
  BY ProceedsAlone DEF CurriculumInv, Finish
<1>2. KnownLevels' = KnownLevels \cup {l}
  BY LevelsAreThere DEF KnownLevels, CurriculumInv, CurriculumTyped, CurriculumTypeOK
<1>3. IsFiniteSet(KnownLevels')
  BY <1>2, FS_AddElement DEF CurriculumInv, CurriculumTyped
<1>4. LeadsOn(levels', KnownLevels')
  BY <1>2, CurriculumAssumption DEF LeadsOn, CurriculumInv, CurriculumTyped, CurriculumTypeOK
<1>5. CurriculumTypeOK'
  BY DEF CurriculumInv, CurriculumTyped, CurriculumTypeOK
<1>6. \A v \in Workers : task'[v] \in {task[v], Idle}
  BY <1>1
<1>7. CurriculumTyped'
  BY <1>3, <1>4, <1>5, <1>6 DEF CurriculumInv, CurriculumTyped
<1>8. ASSUME NEW v \in Workers
      PROVE  RequestStands(task[v])'
  <2>1. RequestStands(task[v])
    BY DEF CurriculumInv
  <2>. QED
    BY <1>2, <1>6, <2>1 DEF RequestStands, Idle
<1>9. ASSUME ~overlapped', NEW v \in Workers
      PROVE  LinkChecked(task[v])'
  <2>1. task'[v] = Idle
    BY <1>1, <1>9
  <2>. QED
    BY <2>1 DEF LinkChecked, Idle
<1>. QED
  BY <1>1, <1>7, <1>8, <1>9 DEF CurriculumInv

LEMMA CreateLevelLoadSafe ==
    ASSUME CurriculumInv, NEW w \in Workers, NEW l \in Levels, NEW p \in Programs,
           NEW isTerminal \in BOOLEAN, CreateLevelLoad(w, l, p, isTerminal)
    PROVE  CurriculumInv'
<1>. DEFINE request == [op |-> "createLevel", level |-> l,
                        row |-> [program |-> p, isTerminal |-> isTerminal, next |-> None]]
<1>1. request \in CurriculumTask
  BY DEF CurriculumTask, Level
<1>2. RequestStands(request) /\ LinkChecked(request)
  BY DEF RequestStands, LinkChecked
<1>3. Begin(w, request) /\ UNCHANGED curriculum
  BY DEF CreateLevelLoad
<1>. HIDE DEF request
<1>. QED
  BY <1>1, <1>2, <1>3, CurriculumBegins

LEMMA CreateLevelCommitSafe ==
    ASSUME CurriculumInv, NEW w \in Workers, CreateLevelCommit(w)
    PROVE  CurriculumInv'
<1>1. task[w] \in [op : {"createLevel"}, level : Levels, row : Level]
  BY DEF CreateLevelCommit, CurriculumInv, CurriculumTyped, CurriculumTask, Idle
<1>2. task[w] # Idle /\ task[w].row.next = None
  BY DEF CreateLevelCommit, Idle, CurriculumInv, RequestStands
<1>3. PICK l \in Levels, row \in Level : l = task[w].level /\ row = task[w].row
  BY <1>1
<1>4. levels' = [levels EXCEPT ![l] = row] /\ levels[l] = Absent /\ l \notin KnownLevels
  BY <1>3 DEF CreateLevelCommit, KnownLevels
<1>5. KnownLevels' = KnownLevels \cup {l}
  BY <1>4, LevelsAreThere DEF KnownLevels, CurriculumInv, CurriculumTyped, CurriculumTypeOK
<1>6. levels'[l] = row /\ SameBut(levels, levels', l, KnownLevels)
  BY <1>4 DEF SameBut, CurriculumInv, CurriculumTyped, CurriculumTypeOK, KnownLevels
<1>7. ASSUME ~overlapped
      PROVE  NoCycle(levels', KnownLevels') /\ OneProgramme'
  <2>1. NoCycle(levels, KnownLevels) /\ LeadsOn(levels, KnownLevels)
    BY <1>7 DEF CurriculumInv, CurriculumTyped
  <2>2. NoCycle(levels', KnownLevels \cup {l})
    <3>1. l # None
      BY CurriculumAssumption
    <3>. QED
      BY <1>2, <1>3, <1>4, <1>6, <2>1, <3>1, NoCycleAfterNew
  <2>3. OneProgramme'
    <3>1. ASSUME NEW k \in KnownLevels, levels[k].next # None
          PROVE  levels'[levels'[k].next].program = levels'[k].program
      <4>1. levels[k].next \in KnownLevels
        BY <2>1, <3>1 DEF LeadsOn
      <4>2. \A j \in KnownLevels : levels'[j] = levels[j]
        BY <1>4 DEF CurriculumInv, CurriculumTyped, CurriculumTypeOK, KnownLevels
      <4>. QED
        BY <1>7, <3>1, <4>1, <4>2 DEF CurriculumInv, OneProgramme
    <3>2. \A k \in KnownLevels : levels'[k] = levels[k]
      BY <1>4 DEF CurriculumInv, CurriculumTyped, CurriculumTypeOK, KnownLevels
    <3>. QED
      BY <1>2, <1>3, <1>5, <1>6, <3>1, <3>2 DEF OneProgramme
  <2>. QED
    BY <1>5, <2>2, <2>3
<1>8. Finish(w) /\ UNCHANGED <<departments, programs>>
  BY DEF CreateLevelCommit
<1>9. row.next \in KnownLevels \cup {None}
  BY <1>2, <1>3
<1>. QED
  BY <1>2, <1>4, <1>7, <1>8, <1>9, WrittenLevels

LEMMA SetNextLevelLoadSafe ==
    ASSUME CurriculumInv, NEW w \in Workers, NEW l \in Levels, NEW next \in Levels \cup {None},
           SetNextLevelLoad(w, l, next)
    PROVE  CurriculumInv'
<1>. DEFINE request == [op |-> "setNext", level |-> l, next |-> next]
<1>1. request \in CurriculumTask
  BY DEF CurriculumTask
<1>2. RequestStands(request)
  BY CurriculumAssumption DEF RequestStands, SetNextLevelLoad, KnownLevels
<1>3. LinkChecked(request)
  <2>. SUFFICES ASSUME next # None
                PROVE  /\ levels[next].program = levels[l].program
                       /\ \A n \in 0 .. Cardinality(KnownLevels) - 1 : At(levels, next, n) # l
    BY DEF LinkChecked
  <2>1. levels[next].program = levels[l].program /\ ~WouldLoop(next, l)
    BY DEF SetNextLevelLoad
  <2>2. \A n \in 0 .. Cardinality(KnownLevels) - 1 : Cursor(next, n) # l
    BY <2>1 DEF WouldLoop
  <2>. QED
    BY <2>1, <2>2, CursorIsAt
<1>4. Begin(w, request) /\ UNCHANGED curriculum
  BY DEF SetNextLevelLoad
<1>. HIDE DEF request
<1>. QED
  BY <1>1, <1>2, <1>3, <1>4, CurriculumBegins

LEMMA SetNextLevelCommitSafe ==
    ASSUME CurriculumInv, NEW w \in Workers, SetNextLevelCommit(w)
    PROVE  CurriculumInv'
<1>1. task[w] \in [op : {"setNext"}, level : Levels, next : Levels \cup {None}]
  BY DEF SetNextLevelCommit, CurriculumInv, CurriculumTyped, CurriculumTask, Idle
<1>2. task[w] # Idle
  BY DEF SetNextLevelCommit, Idle
<1>3. PICK l \in KnownLevels, next \in KnownLevels \cup {None} :
        l = task[w].level /\ next = task[w].next
  BY DEF SetNextLevelCommit, CurriculumInv, RequestStands
<1>4. PICK old \in Level : old = levels[l]
  BY DEF KnownLevels, CurriculumInv, CurriculumTyped, CurriculumTypeOK
<1>5. l \in Levels /\ next \in Levels \cup {None}
  BY DEF KnownLevels
<1>6. PICK row \in Level : row = [old EXCEPT !.next = next]
  <2>1. [old EXCEPT !.next = next] \in Level
    BY <1>5 DEF Level
  <2>. QED
    BY <2>1
<1>7. row.next = next /\ row.program = old.program
  BY <1>6 DEF Level
<1>8. levels' = [levels EXCEPT ![l] = row]
  BY <1>3, <1>4, <1>6 DEF SetNextLevelCommit, CurriculumInv, CurriculumTyped, CurriculumTypeOK
<1>9. /\ KnownLevels' = KnownLevels
      /\ levels'[l] = row
      /\ \A k \in KnownLevels \ {l} : levels'[k] = levels[k]
  BY <1>8, <1>5, LevelsAreThere DEF KnownLevels, CurriculumInv, CurriculumTyped, CurriculumTypeOK
<1>10. ASSUME ~overlapped
       PROVE  NoCycle(levels', KnownLevels') /\ OneProgramme'
  <2>1. /\ NoCycle(levels, KnownLevels) /\ LeadsOn(levels, KnownLevels) /\ OneProgramme
        /\ LinkChecked(task[w]) /\ IsFiniteSet(KnownLevels)
    BY <1>10 DEF CurriculumInv, CurriculumTyped
  <2>2. next # None =>
          /\ levels[next].program = levels[l].program
          /\ \A n \in 0 .. Cardinality(KnownLevels) - 1 : At(levels, next, n) # l
    BY <1>3, <2>1 DEF LinkChecked, SetNextLevelCommit
  <2>3. SameBut(levels, levels', l, KnownLevels)
    BY <1>9 DEF SameBut
  <2>4. LeadsOn(levels', KnownLevels)
    BY <1>7, <1>9, <2>1 DEF LeadsOn
  <2>5. NoCycle(levels', KnownLevels)
    <3>1. levels'[l].next = next
      BY <1>7, <1>9
    <3>. QED
      BY <2>1, <2>2, <2>3, <2>4, <3>1, NoCycleAfterLink
  <2>6. OneProgramme'
    <3>1. \A k \in KnownLevels : levels'[k].program = levels[k].program
      BY <1>4, <1>7, <1>9
    <3>2. ASSUME NEW k \in KnownLevels, levels'[k].next # None
          PROVE  levels'[levels'[k].next].program = levels'[k].program
      <4>1. levels'[k].next \in KnownLevels
        BY <2>4, <3>2 DEF LeadsOn
      <4>2. CASE k = l
        BY <1>7, <1>9, <2>2, <3>1, <3>2, <4>1, <4>2
      <4>3. CASE k # l
        BY <1>9, <2>1, <3>1, <3>2, <4>1, <4>3 DEF OneProgramme
      <4>. QED
        BY <4>2, <4>3
    <3>. QED
      BY <1>9, <3>2 DEF OneProgramme
  <2>. QED
    BY <1>9, <2>5, <2>6
<1>11. Finish(w) /\ UNCHANGED <<departments, programs>>
  BY DEF SetNextLevelCommit
<1>. QED
  BY <1>2, <1>5, <1>7, <1>8, <1>10, <1>11, WrittenLevels

LEMMA CurriculumDropSafe ==
    ASSUME CurriculumInv, NEW w \in Workers, CurriculumDrop(w)
    PROVE  CurriculumInv'
<1>1. CurriculumTypeOK'
  BY DEF CurriculumDrop, curriculum, CurriculumInv, CurriculumTyped, CurriculumTypeOK
<1>. QED
  BY <1>1, CurriculumEnds DEF CurriculumDrop, DropTask, curriculum

LEMMA CurriculumInvariance == CurriculumSpec => []CurriculumInv
<1>1. ASSUME CurriculumInv, UNCHANGED curriculumVars
      PROVE  CurriculumInv'
  <2>1. /\ task' = task /\ overlapped' = overlapped /\ CurriculumTypeOK'
        /\ levels' = levels /\ programs' = programs
    BY <1>1 DEF curriculumVars, curriculum, CurriculumInv, CurriculumTyped, CurriculumTypeOK
  <2>2. OneWay'
    BY <1>1, <2>1 DEF CurriculumInv, OneWay, Remembered, OneAtMost
  <2>. QED
    BY <1>1, <2>1, <2>2, LevelsKept
<1>2. ASSUME CurriculumInv, CurriculumNext
      PROVE  CurriculumInv'
  <2>. PICK w \in Workers : ProgramStep(w) \/ LevelStep(w) \/ CurriculumDrop(w)
    BY <1>2 DEF CurriculumNext
  <2>1. CASE ProgramStep(w)
    BY <1>2, <2>1, CreateDepartmentSafe, CreateProgramSafe, UpdateProgramLoadSafe,
       UpdateProgramCommitSafe DEF ProgramStep
  <2>2. CASE LevelStep(w)
    BY <1>2, <2>2, CreateLevelLoadSafe, CreateLevelCommitSafe, SetNextLevelLoadSafe,
       SetNextLevelCommitSafe DEF LevelStep
  <2>. QED
    BY <1>2, <2>1, <2>2, CurriculumDropSafe
<1>. QED
  BY <1>1, <1>2, CurriculumInitInv, PTL DEF CurriculumSpec

\* The rows of Curriculum have their types, whatever overlaps (academic.repository.ts).
THEOREM CurriculumTypeCorrect == CurriculumSpec => []CurriculumTypeOK
<1>1. CurriculumInv => CurriculumTypeOK
  BY DEF CurriculumInv, CurriculumTyped
<1>. QED
  BY <1>1, CurriculumInvariance, PTL

\* As long as requests do not overlap, promotion from any level ends, after at most as many
\* steps as there are levels, and in the programme it started in: assertNoProgressionCycle
\* looks far enough (academic.service.ts:636-646, 691-715).
THEOREM PromotionAlwaysEnds == CurriculumSpec => []PromotionEnds
<1>1. ASSUME CurriculumInv
      PROVE  PromotionEnds
  <2>. SUFFICES ASSUME ~overlapped, NEW l \in KnownLevels
                PROVE  /\ Cursor(l, Cardinality(KnownLevels)) = None
                       /\ levels[l].next # None => levels[levels[l].next].program = levels[l].program
    BY DEF PromotionEnds
  <2>1. NoCycle(levels, KnownLevels) /\ LeadsOn(levels, KnownLevels) /\ IsFiniteSet(KnownLevels)
    BY <1>1 DEF CurriculumInv, CurriculumTyped
  <2>2. At(levels, l, Cardinality(KnownLevels)) = None
    BY <2>1, WalkEnds
  <2>. QED
    BY <1>1, <2>2, CursorIsAt DEF CurriculumInv, OneProgramme
<1>. QED
  BY <1>1, CurriculumInvariance, PTL

=============================================================================
