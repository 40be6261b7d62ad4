---------------------------- MODULE ProcessesMC -----------------------------
(***************************************************************************)
(* The processes around a request: the tab that sends it, the screens that  *)
(* wait for its answer, the server process that serves it, and the program   *)
(* that fills its database.  A behaviour is about one of them, chosen at     *)
(* the start; the others stand still, in states in which fairness asks       *)
(* nothing of them.                                                         *)
(***************************************************************************)
EXTENDS WebClient, Screens, Lifecycle, SeedData, TLC

CONSTANTS c1, c2, k1, k2, q1, q2

VARIABLE part

ProcessesCalls == {c1, c2}
ProcessesSessions == {1, 2}
ProcessesKeys == {k1, k2}
ProcessesArrivals == {q1, q2}

processes == <<web, screens, process, seed, part>>

ProcessesInit ==
    /\ part \in {"tab", "list", "preview", "server", "seed"}
    /\ IF part = "tab" THEN WebInit ELSE WebIdle
    /\ ScreensInit
    /\ LifecycleInit
    /\ SeedInit
    \* Of the modules that stand still one initial state is enough.
    /\ part # "list" => key = k1
    /\ part # "server" => database
    /\ part # "seed" => rows = {}

ProcessesNext ==
    /\ \/ part = "tab" /\ WebNext /\ UNCHANGED <<screens, process, seed>>
       \/ part = "list" /\ ListNext /\ UNCHANGED <<web, process, seed>>
       \/ part = "preview" /\ PageNext /\ UNCHANGED <<web, process, seed>>
       \/ part = "server" /\ LifecycleNext /\ UNCHANGED <<web, screens, seed>>
       \/ part = "seed" /\ SeedNext /\ UNCHANGED <<web, screens, process>>
    /\ UNCHANGED part

ProcessesSpec ==
    ProcessesInit /\ [][ProcessesNext]_processes /\ WebFairness /\ LifecycleFairness

=============================================================================
