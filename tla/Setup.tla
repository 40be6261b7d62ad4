-------------------------------- MODULE Setup ---------------------------------
(***************************************************************************)
(* Fee categories and scholarship programmes, which the rest of the fees    *)
(* refers to, and the audit trail of what is done to them:                  *)
(* fee-category.service.ts, the scholarships of relief.service.ts and       *)
(* audit.service.ts.  The two tables are written in one way, so there is    *)
(* one here, of settings.                                                   *)
(*                                                                         *)
(* A change is a conditional UPDATE, then the row is read again for the     *)
(* answer, then the entry is written: three statements in no transaction.   *)
(* The other services that keep a trail outside a transaction do the same.  *)
(* A client sends a version that it was once shown.                         *)
(***************************************************************************)
EXTENDS Requests, Sequences

CONSTANTS
    SettingIds,
    Codes,
    Names,
    MaxSettingVersion   \* bound: edits of a setting

ASSUME SetupAssumption == MaxSettingVersion \in Nat

VARIABLES
    settings,       \* SettingIds -> Setting, or Absent
    trail,          \* the audit entries
    uses,           \* what names a setting: a line of a new structure, an award
    past,           \* SettingIds -> what the setting has been, version by version (history)
    lost            \* the changes whose request died before their entry (history)

setup == <<settings, trail, uses, past, lost>>

Content == [name : Names, isActive : BOOLEAN]

Setting == [code : Codes, content : Content, version : Nat]

Entry ==
    [id : SettingIds, version : Nat, before : Content \cup {Absent}, after : Content]

KnownSettings == {i \in SettingIds : settings[i] # Absent}

-----------------------------------------------------------------------------
(* audit.service.ts *)

\* record, with the states that the handler has in hand
EntryOf(id, version, before, after) ==
    [id |-> id, version |-> version, before |-> before, after |-> after]

Record(w) ==
    /\ task[w].op = "record"
    /\ trail' = trail \cup {task[w].entry}
    /\ Finish(w)
    /\ UNCHANGED <<settings, uses, past, lost>>

-----------------------------------------------------------------------------
(* createFeeCategory and createScholarship *)

CodeIsFree(code) == \A i \in KnownSettings : settings[i].code # code

CreateLoad(w, code, name) ==
    /\ CodeIsFree(code)
    /\ Begin(w, [op |-> "create", code |-> code, content |-> [name |-> name, isActive |-> TRUE]])
    /\ UNCHANGED setup

\* The unique index repeats the check.
CreateWrite(w) ==
    /\ task[w].op = "create"
    /\ CodeIsFree(task[w].code)
    /\ \E i \in SettingIds \ KnownSettings :
         /\ settings' = [settings EXCEPT ![i] =
                [code |-> task[w].code, content |-> task[w].content, version |-> 0]]
         /\ past' = [past EXCEPT ![i] = <<task[w].content>>]
         /\ Proceed(w, [op |-> "record", entry |-> EntryOf(i, 0, Absent, task[w].content)])
    /\ UNCHANGED <<trail, uses, lost>>

-----------------------------------------------------------------------------
(* updateFeeCategory and updateScholarship; the code is never changed *)

EditLoad(w, i, version, name, isActive) ==
    /\ i \in KnownSettings
    /\ version <= settings[i].version
    /\ Begin(w, [op |-> "edit", id |-> i, expectedVersion |-> version,
                 before |-> settings[i].content, name |-> name, isActive |-> isActive])
    /\ UNCHANGED setup

EditWrite(w) ==
    LET edit == task[w]
        i == edit.id
        content == [name |-> Given(edit.name, settings[i].content.name),
                    isActive |-> Given(edit.isActive, settings[i].content.isActive)]
    IN
    /\ edit.op = "edit"
    /\ Matches(settings[i], edit.expectedVersion)
    /\ settings[i].version < MaxSettingVersion
    /\ settings' = [settings EXCEPT ![i].content = content, ![i].version = @ + 1]
    /\ past' = [past EXCEPT ![i] = Append(@, content)]
    /\ Proceed(w, [op |-> "read", id |-> i, version |-> settings[i].version + 1,
                   before |-> edit.before])
    /\ UNCHANGED <<trail, uses, lost>>

\* What is read is the row as it is now.
ReadAgain(w) ==
    LET i == task[w].id IN
    /\ task[w].op = "read"
    /\ Proceed(w, [op |-> "record",
                   entry |-> EntryOf(i, task[w].version, task[w].before, settings[i].content)])
    /\ UNCHANGED setup

-----------------------------------------------------------------------------
(* A structure that charges a category, an award under a scholarship *)

\* Mutant of IsActive: to be there is enough.
IsThere(i) == i \in KnownSettings

\* validateCategories, and requestRelief of a scholarship
IsActive(i) == i \in KnownSettings /\ settings[i].content.isActive

UseLoad(w, i) ==
    /\ IsActive(i)
    /\ Begin(w, [op |-> "use", id |-> i])
    /\ UNCHANGED setup

UseWrite(w) ==
    LET i == task[w].id IN
    /\ task[w].op = "use"
    /\ uses' = uses \cup {[of |-> i, whileActive |-> settings[i].content.isActive]}
    /\ Finish(w)
    /\ UNCHANGED <<settings, trail, past, lost>>

-----------------------------------------------------------------------------
Written(w) ==
    CASE task[w].op = "read" -> {<<task[w].id, task[w].version>>}
      [] task[w].op = "record" -> {<<task[w].entry.id, task[w].entry.version>>}
      [] OTHER -> {}

\* The change stands, and the client is told that it failed.
SetupDrop(w) ==
    /\ DropTask(w)
    /\ lost' = lost \cup Written(w)
    /\ UNCHANGED <<settings, trail, uses, past>>

SetupInit ==
    /\ settings = [i \in SettingIds |-> Absent]
    /\ trail = {}
    /\ uses = {}
    /\ past = [i \in SettingIds |-> << >>]
    /\ lost = {}

SetupNext ==
    \E w \in Workers :
        \/ Record(w)
        \/ \E code \in Codes, name \in Names : CreateLoad(w, code, name)
        \/ CreateWrite(w)
        \/ \E i \in SettingIds, version \in 0 .. MaxSettingVersion,
              name \in Names \cup {None}, isActive \in {FALSE, None} :
              EditLoad(w, i, version, name, isActive)
        \/ EditWrite(w)
        \/ ReadAgain(w)
        \/ \E i \in SettingIds : UseLoad(w, i)
        \/ UseWrite(w)
        \/ SetupDrop(w)

-----------------------------------------------------------------------------
SetupTypeOK ==
    /\ settings \in [SettingIds -> Setting \cup {Absent}]
    /\ trail \subseteq Entry
    /\ uses \subseteq [of : SettingIds, whileActive : BOOLEAN]

SetupTask ==
         [op : {"create"}, code : Codes, content : Content]
    \cup [op : {"edit"}, id : SettingIds, expectedVersion : Nat, before : Content,
          name : Names \cup {None}, isActive : BOOLEAN \cup {None}]
    \cup [op : {"read"}, id : SettingIds, version : Nat, before : Content]
    \cup [op : {"record"}, entry : Entry]
    \cup [op : {"use"}, id : SettingIds]

Versions(i) == 0 .. Len(past[i]) - 1

\* The trail tells what was done: each change of a setting has one entry, unless its
\* request died after the change, or is about to write it; the entry says what the change
\* replaced, however many edits were under way; and it says what the change made of it,
\* or, of edits that overlapped, a later one.  What names a setting was made while it was
\* in use, as long as no deactivation overlapped (audit.service.ts:11-18,
\* fee-category.service.ts:102-125, fee-structure.service.ts:229-234).
TrailIsTrue ==
    /\ \A i \in KnownSettings :
         \A v \in Versions(i) :
             \/ \E e \in trail : e.id = i /\ e.version = v
             \/ <<i, v>> \in lost
             \/ \E w \in Workers : <<i, v>> \in Written(w)
    /\ \A e, f \in trail : (e.id = f.id /\ e.version = f.version) => e = f
    /\ \A e \in trail :
         /\ e.before = IF e.version = 0 THEN Absent ELSE past[e.id][e.version]
         /\ \E v \in Versions(e.id) : v >= e.version /\ e.after = past[e.id][v + 1]
         /\ ~overlapped => e.after = past[e.id][e.version + 1]
    /\ ~overlapped => \A use \in uses : use.whileActive

=============================================================================
