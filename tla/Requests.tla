------------------------------ MODULE Requests ------------------------------
(***************************************************************************)
(* What the modules of the school office share: requests served by workers  *)
(* side by side, each a few statements long, against rows that any of them  *)
(* may change in between.                                                   *)
(*                                                                         *)
(* A request begins with the reads and refusals its handler starts with,    *)
(* and keeps in task what it will go by; every later statement, or          *)
(* transaction, is a step of its own.  Drop is whatever ends a request      *)
(* before its next step: a conflict, an error, a rollback or a crash.       *)
(*                                                                         *)
(* Several rules of this code are a read and a later write with nothing in  *)
(* between to hold them together, so they hold as long as requests come one *)
(* after the other.  overlapped tells those runs from the others; it says   *)
(* nothing about the code.                                                  *)
(***************************************************************************)
EXTENDS Integers, FiniteSets

CONSTANTS
    Workers,
    None            \* SQL NULL, or an argument that was not given

VARIABLES
    task,           \* Workers -> the request being served, or Idle
    overlapped      \* two requests have been under way at once (history)

Idle == [op |-> "idle"]

Absent == [row |-> None]

RequestsInit ==
    /\ task = [w \in Workers |-> Idle]
    /\ overlapped = FALSE

Busy == \E w \in Workers : task[w] # Idle

Arrive(w) ==
    /\ task[w] = Idle
    /\ overlapped' = (overlapped \/ Busy)

\* The request will go on from what it has read.
Begin(w, request) ==
    /\ Arrive(w)
    /\ task' = [task EXCEPT ![w] = request]

\* The request is one statement.
AtOnce(w) ==
    /\ Arrive(w)
    /\ UNCHANGED task

Proceed(w, request) ==
    /\ task' = [task EXCEPT ![w] = request]
    /\ UNCHANGED overlapped

Finish(w) == Proceed(w, Idle)

DropTask(w) ==
    /\ task[w] # Idle
    /\ Finish(w)

\* A field of an update: left alone when it was not given.
Given(value, old) == IF value = None THEN old ELSE value

\* Mutant of Matches: the version is not looked at.
MatchesAnything(row, expectedVersion) == TRUE

\* requireVersionedUpdate
Matches(row, expectedVersion) == row.version = expectedVersion

=============================================================================
