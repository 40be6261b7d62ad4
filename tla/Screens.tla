------------------------------ MODULE Screens -------------------------------
(***************************************************************************)
(* Screens whose answers come late: a list that follows a filter and the    *)
(* actions taken on it (use-async-resource.ts, as UsersPage,                *)
(* StudentFinancialsPage and StudentDetailPage use it), and the two pages   *)
(* that show what a step would do before they do it (ChargeRunPage,         *)
(* StudentImportPage).                                                      *)
(*                                                                         *)
(* Of the server there is a row that actions change and fetches read, at    *)
(* some time between request and answer.  What the answers say is left out, *)
(* but for that row and for what they are an answer to.  An effect of       *)
(* React runs before anything else happens.                                 *)
(***************************************************************************)
EXTENDS Integers, FiniteSets

CONSTANTS
    Keys,           \* what a screen can be asked to show: a filter, a period, a file
    MaxRow,         \* bound: changes of the row
    Null            \* null

ASSUME ScreensAssumption == MaxRow \in Nat

VARIABLES
    key,            \* the key the list is to show
    resource,       \* what useAsyncResource returns
    fetches,        \* the requests of the hook that are out
    row,            \* how often the row on the server has changed
    actions,        \* the actions on the list that are out
    seen,           \* the row when the last action answered (history)
    chosen,         \* the period or file of the page, or Null
    preview,        \* what the page shows a preview of, or Null
    busy,           \* its buttons are off
    waitingFor,     \* the previews and applications it has out
    switched,       \* another choice was made while an answer was out (history)
    applied         \* what was applied, and what was shown then (history)

list == <<key, resource, fetches, row, actions, seen>>
page == <<chosen, preview, busy, waitingFor, switched, applied>>
screens == <<list, page>>

-----------------------------------------------------------------------------
(* useAsyncResource *)

\* The effect: what was out is cancelled, and the fetcher called again.
Fetch(k) ==
    /\ fetches' = {[f EXCEPT !.cancelled = TRUE] : f \in fetches}
                      \cup {[key |-> k, read |-> Null, cancelled |-> FALSE]}
    /\ resource' = IF resource.data # Null
                     THEN [resource EXCEPT !.isRefreshing = TRUE]
                     ELSE [resource EXCEPT !.status = "loading"]

ChangeKey(k) ==
    /\ k # key
    /\ key' = k
    /\ Fetch(k)
    /\ UNCHANGED <<row, actions, seen, page>>

Refresh ==
    /\ Fetch(key)
    /\ UNCHANGED <<key, row, actions, seen, page>>

\* The server reads for it.
ReadForFetch(f) ==
    /\ f \in fetches
    /\ f.read = Null
    /\ fetches' = (fetches \ {f}) \cup {[f EXCEPT !.read = row]}
    /\ UNCHANGED <<key, resource, row, actions, seen, page>>

\* Mutant of Cancelled: the answer is taken however late it is.
NeverCancelled(f) == FALSE

Cancelled(f) == f.cancelled

FetchDone(f) ==
    /\ f \in fetches
    /\ f.read # Null
    /\ fetches' = fetches \ {f}
    /\ resource' = IF Cancelled(f) THEN resource
                   ELSE [status |-> "success", isRefreshing |-> FALSE,
                         data |-> [key |-> f.key, row |-> f.read]]
    /\ UNCHANGED <<key, row, actions, seen, page>>

FetchFailed(f) ==
    /\ f \in fetches
    /\ fetches' = fetches \ {f}
    /\ resource' = IF Cancelled(f) THEN resource
                   ELSE [resource EXCEPT !.status = "error", !.isRefreshing = FALSE]
    /\ UNCHANGED <<key, row, actions, seen, page>>

-----------------------------------------------------------------------------
(* Actions on a list: perform, run and the forms of the other pages *)

Act ==
    /\ resource.data # Null
    /\ Cardinality(actions) < 2
    /\ \E id \in {1, 2} :
         actions' = actions \cup {[id |-> id, done |-> FALSE]}
    /\ actions' # actions
    /\ UNCHANGED <<key, resource, fetches, row, seen, page>>

ServeAction(a) ==
    /\ a \in actions
    /\ ~a.done
    /\ row < MaxRow
    /\ row' = row + 1
    /\ actions' = (actions \ {a}) \cup {[a EXCEPT !.done = TRUE]}
    /\ UNCHANGED <<key, resource, fetches, seen, page>>

\* The list is loaded again.
ActionDone(a) ==
    /\ a \in actions
    /\ a.done
    /\ actions' = actions \ {a}
    /\ seen' = row
    /\ Fetch(key)
    /\ UNCHANGED <<key, row, page>>

\* Refused, or the answer was lost: UsersPage loads the list again, the others do not.
ActionFailed(a) ==
    /\ a \in actions
    /\ actions' = actions \ {a}
    /\ Fetch(key) \/ UNCHANGED <<resource, fetches>>
    /\ UNCHANGED <<key, row, seen, page>>

-----------------------------------------------------------------------------
(* A preview and what follows it *)

\* A choice takes the preview away, whatever is out.
Choose(k) ==
    /\ chosen # k
    /\ chosen' = k
    /\ preview' = Null
    /\ switched' = (switched \/ waitingFor # {})
    /\ UNCHANGED <<busy, waitingFor, applied, list>>

RunPreview ==
    /\ chosen # Null
    /\ ~busy
    /\ waitingFor' = waitingFor \cup {[op |-> "preview", of |-> chosen]}
    /\ busy' = TRUE
    /\ UNCHANGED <<chosen, preview, switched, applied, list>>

PreviewDone(w) ==
    /\ w \in waitingFor
    /\ w.op = "preview"
    /\ \/ preview' = w.of
       \/ preview' = Null       \* the charge run, when the preview failed
       \/ UNCHANGED preview     \* the import
    /\ waitingFor' = waitingFor \ {w}
    /\ busy' = FALSE
    /\ UNCHANGED <<chosen, switched, applied, list>>

\* What is sent is the choice of the page, not what the preview was of.
Apply ==
    /\ preview # Null
    /\ chosen # Null
    /\ ~busy
    /\ waitingFor' = waitingFor \cup {[op |-> "apply", of |-> chosen]}
    /\ applied' = [what |-> chosen, shown |-> preview]
    /\ busy' = TRUE
    /\ UNCHANGED <<chosen, preview, switched, list>>

\* The charge run is previewed again, as it was chosen then, with the buttons on; the
\* import shows what was imported and starts over.
ApplyDone(w) ==
    /\ w \in waitingFor
    /\ w.op = "apply"
    /\ busy' = FALSE
    /\ \/ /\ waitingFor' = (waitingFor \ {w}) \cup {[op |-> "preview", of |-> w.of]}
          /\ UNCHANGED <<chosen, preview>>
       \/ /\ waitingFor' = waitingFor \ {w}
          /\ chosen' = Null
          /\ preview' = Null
    /\ UNCHANGED <<switched, applied, list>>

ApplyFailed(w) ==
    /\ w \in waitingFor
    /\ w.op = "apply"
    /\ busy' = FALSE
    /\ waitingFor' = waitingFor \ {w}
    /\ UNCHANGED <<chosen, preview, switched, applied, list>>

-----------------------------------------------------------------------------
ScreensInit ==
    /\ key \in Keys
    /\ resource = [status |-> "loading", isRefreshing |-> FALSE, data |-> Null]
    /\ fetches = {[key |-> key, read |-> Null, cancelled |-> FALSE]}
    /\ row = 0
    /\ actions = {}
    /\ seen = 0
    /\ chosen = Null
    /\ preview = Null
    /\ busy = FALSE
    /\ waitingFor = {}
    /\ switched = FALSE
    /\ applied = [what |-> Null, shown |-> Null]

ListNext ==
    \/ \E k \in Keys : ChangeKey(k)
    \/ Refresh
    \/ \E f \in fetches : ReadForFetch(f) \/ FetchDone(f) \/ FetchFailed(f)
    \/ Act
    \/ \E a \in actions : ServeAction(a) \/ ActionDone(a) \/ ActionFailed(a)

PageNext ==
    \/ \E k \in Keys \cup {Null} : Choose(k)
    \/ RunPreview
    \/ \E w \in waitingFor : PreviewDone(w) \/ ApplyDone(w) \/ ApplyFailed(w)
    \/ Apply

-----------------------------------------------------------------------------
\* A list that is not being refreshed shows what its filter asks for, and no less than
\* the last action on it that succeeded had done (use-async-resource.ts:21-25).
ListIsFresh ==
    (resource.status = "success" /\ ~resource.isRefreshing) =>
        /\ resource.data.key = key
        /\ resource.data.row >= seen

\* What is raised or imported is what was shown, as long as nobody chose anew while an
\* answer was out: then the preview of the one is taken for the other
\* (ChargeRunPage.tsx:4-8, StudentImportPage.tsx:4-12).
AppliedAsShown == ~switched => applied.what = applied.shown

\* Late answers do not pass for what a screen is asked for now, neither in a list nor in
\* the preview of a charge run or an import.
ScreensShowWhatIsAsked == ListIsFresh /\ AppliedAsShown

=============================================================================
