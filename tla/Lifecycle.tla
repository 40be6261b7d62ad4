----------------------------- MODULE Lifecycle ------------------------------
(***************************************************************************)
(* The server process: backend/src/index.ts with connectDatabase and        *)
(* disconnectDatabase, and the probes of the health module.                 *)
(*                                                                         *)
(* The database comes and goes, and may leave a statement without an        *)
(* answer.  A request that does work is under no timeout here; a readiness  *)
(* probe is.                                                                *)
(***************************************************************************)
EXTENDS FiniteSets

CONSTANTS
    Arrivals        \* bound: the requests the process serves

VARIABLES
    stage,          \* of main and shutdown
    database,       \* it answers
    open,           \* Arrivals -> "new", "work", "probe", "answered" or "cut"
    reported,       \* what the last readiness probe said
    deadline,       \* the timer forceExit: "off", "armed" or "cleared"
    exit            \* "none", "ok" (code 0) or "failed"

process == <<stage, database, open, reported, deadline, exit>>

Under == {r \in Arrivals : open[r] \in {"work", "probe"}}

\* The process is gone, and the requests it had with it.
Exit(code) ==
    /\ stage' = "stopped"
    /\ exit' = code
    /\ open' = [r \in Arrivals |-> IF r \in Under THEN "cut" ELSE open[r]]

-----------------------------------------------------------------------------
\* PostgreSQL, or the way to it.
DatabaseTurns ==
    /\ stage # "stopped"
    /\ database' = ~database
    /\ UNCHANGED <<stage, open, reported, deadline, exit>>

\* parseEnv: what is not valid stops the process before anything else.
ReadConfiguration ==
    /\ stage = "configuring"
    /\ \/ stage' = "connecting" /\ UNCHANGED <<open, exit>>
       \/ Exit("failed")
    /\ UNCHANGED <<database, reported, deadline>>

ConnectDatabase ==
    /\ stage = "connecting"
    /\ IF database THEN stage' = "binding" /\ UNCHANGED <<open, exit>> ELSE Exit("failed")
    /\ UNCHANGED <<database, reported, deadline>>

\* The port may be taken.
Listen ==
    /\ stage = "binding"
    /\ \/ stage' = "serving" /\ UNCHANGED <<open, exit>>
       \/ Exit("failed")
    /\ UNCHANGED <<database, reported, deadline>>

\* A signal before the handlers are there.
KilledEarly ==
    /\ stage \in {"configuring", "connecting", "binding"}
    /\ Exit("failed")
    /\ UNCHANGED <<database, reported, deadline>>

-----------------------------------------------------------------------------
Accept(r, kind) ==
    /\ stage = "serving"
    /\ open[r] = "new"
    /\ open' = [open EXCEPT ![r] = kind]
    /\ UNCHANGED <<stage, database, reported, deadline, exit>>

FinishWork(r) ==
    /\ stage \in {"serving", "closing"}
    /\ open[r] = "work"
    /\ open' = [open EXCEPT ![r] = "answered"]
    /\ UNCHANGED <<stage, database, reported, deadline, exit>>

\* probeDatabase: in time, slowly, or not before the timeout of the probe.
Readiness(r) ==
    /\ stage \in {"serving", "closing"}
    /\ open[r] = "probe"
    /\ reported' \in IF database THEN {"ok", "degraded", "down"} ELSE {"down"}
    /\ open' = [open EXCEPT ![r] = "answered"]
    /\ UNCHANGED <<stage, database, deadline, exit>>

-----------------------------------------------------------------------------
\* Mutant of Deadline: the process waits for what is open, however long.
NoDeadline == "off"

Deadline == "armed"

\* A signal, a rejection nobody handled or an exception nobody caught.
Shutdown ==
    /\ stage = "serving"
    /\ stage' = "closing"
    /\ deadline' = Deadline
    /\ UNCHANGED <<database, open, reported, exit>>

\* server.close has no connection left.
Drained ==
    /\ stage = "closing"
    /\ Under = {}
    /\ stage' = "disconnecting"
    /\ UNCHANGED <<database, open, reported, deadline, exit>>

\* An error of it is caught; without a database it may never answer.
Disconnected ==
    /\ stage = "disconnecting"
    /\ deadline' = "cleared"
    /\ Exit("ok")
    /\ UNCHANGED <<database, reported>>

ForceExit ==
    /\ stage \in {"closing", "disconnecting"}
    /\ deadline = "armed"
    /\ Exit("failed")
    /\ UNCHANGED <<database, reported, deadline>>

-----------------------------------------------------------------------------
LifecycleInit ==
    /\ stage = "configuring"
    /\ database \in BOOLEAN
    /\ open = [r \in Arrivals |-> "new"]
    /\ reported = "none"
    /\ deadline = "off"
    /\ exit = "none"

LifecycleNext ==
    \/ DatabaseTurns
    \/ ReadConfiguration \/ ConnectDatabase \/ Listen \/ KilledEarly
    \/ \E r \in Arrivals : FinishWork(r) \/ Readiness(r)
    \/ \E r \in Arrivals, kind \in {"work", "probe"} : Accept(r, kind)
    \/ Shutdown \/ Drained \/ Disconnected \/ ForceExit

\* The timers fire, and a socket without requests is closed.  Neither the work of a
\* request nor the database has to come to an end.
LifecycleFairness ==
    /\ \A r \in Arrivals : WF_process(Readiness(r))
    /\ WF_process(Drained)
    /\ WF_process(ForceExit)

-----------------------------------------------------------------------------
Cut == {r \in Arrivals : open[r] = "cut"}

\* A process that was asked to stop does: either every request it had was answered and it
\* says so, or the deadline has passed and it says that -- it neither hangs on a request
\* that does not end nor passes a cut request off as a clean stop (index.ts:4-7, 52-75).
ShutdownEnds ==
    (stage = "closing") ~> (stage = "stopped" /\ (exit = "ok" => Cut = {}))

=============================================================================
