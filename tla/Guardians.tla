----------------------------- MODULE Guardians ------------------------------
(***************************************************************************)
(* Guardians and their links to students: guardian.service.ts over          *)
(* guardians and student_guardians, side by side with the imports of        *)
(* Registry, which write both tables too.                                   *)
(*                                                                         *)
(* Of a link, who is the primary contact is kept; the other rights on it    *)
(* are plain fields.                                                        *)
(***************************************************************************)
EXTENDS Registry

CONSTANT MaxLinkVersion     \* bound: edits of a link

-----------------------------------------------------------------------------
CreateGuardian(w, phone) ==
    /\ ~Full(guardians)
    /\ AtOnce(w)
    /\ guardians' = [guardians EXCEPT ![NewId(guardians)] = phone]
    /\ UNCHANGED <<links, placement, calendar, curriculum>>

UpdateGuardian(w, g, phone) ==
    /\ guardians[g] # Absent
    /\ AtOnce(w)
    /\ guardians' = [guardians EXCEPT ![g] = phone]
    /\ UNCHANGED <<links, placement, calendar, curriculum>>

-----------------------------------------------------------------------------
(* Links *)

LinksOf(s) == {k \in Known(links) : links[k].student = s}

\* clearPrimaryContact comes first, as a statement of its own.
LinkLoad(w, s, g, isPrimary) ==
    LET link == [op |-> "link", student |-> s, guardian |-> g,
                 isPrimaryContact |-> isPrimary]
    IN
    /\ s \in Known(students)
    /\ g \in Known(guardians)
    /\ \A k \in LinksOf(s) : links[k].guardian # g
    /\ Begin(w, IF isPrimary
                  THEN [op |-> "clear", student |-> s, except |-> None, then |-> link]
                  ELSE link)
    /\ UNCHANGED <<registry, calendar, curriculum>>

\* An update may leave the flag out.
UpdateLinkLoad(w, k, isPrimary) ==
    LET change == [op |-> "updateLink", link |-> k, isPrimaryContact |-> isPrimary,
                   expectedVersion |-> links[k].version]
    IN
    /\ k \in Known(links)
    /\ links[k].version < MaxLinkVersion
    /\ Begin(w, IF isPrimary = TRUE
                  THEN [op |-> "clear", student |-> links[k].student, except |-> k,
                        then |-> change]
                  ELSE change)
    /\ UNCHANGED <<registry, calendar, curriculum>>

\* Mutant of ClearPrimaryContact: the link to be kept is cleared, the others are not.
ClearOnlyExcepted(s, except) ==
    links' = [k \in LinkIds |->
        IF k = except /\ k \in LinksOf(s) THEN [links[k] EXCEPT !.isPrimaryContact = FALSE]
        ELSE links[k]]

ClearPrimaryContact(s, except) ==
    links' = [k \in LinkIds |->
        IF k \in LinksOf(s) \ {except} THEN [links[k] EXCEPT !.isPrimaryContact = FALSE]
        ELSE links[k]]

ClearStep(w) ==
    /\ task[w].op = "clear"
    /\ ClearPrimaryContact(task[w].student, task[w].except)
    /\ Proceed(w, task[w].then)
    /\ UNCHANGED <<guardians, placement, calendar, curriculum>>

\* student_guardians is unique by student and guardian.
CreateLink(w) ==
    LET row == [student |-> task[w].student, guardian |-> task[w].guardian,
                isPrimaryContact |-> task[w].isPrimaryContact, version |-> 0]
    IN
    /\ task[w].op = "link"
    /\ ~Full(links)
    /\ \A k \in LinksOf(row.student) : links[k].guardian # row.guardian
    /\ links' = [links EXCEPT ![NewId(links)] = row]
    /\ Finish(w)
    /\ UNCHANGED <<guardians, placement, calendar, curriculum>>

UpdateLink(w) ==
    LET k == task[w].link IN
    /\ task[w].op = "updateLink"
    /\ k \in Known(links)
    /\ Matches(links[k], task[w].expectedVersion)
    /\ links' = [links EXCEPT ![k].isPrimaryContact = Given(task[w].isPrimaryContact, @),
                              ![k].version = @ + 1]
    /\ Finish(w)
    /\ UNCHANGED <<guardians, placement, calendar, curriculum>>

Unlink(w, k) ==
    /\ k \in Known(links)
    /\ AtOnce(w)
    /\ links' = [links EXCEPT ![k] = Gone]
    /\ UNCHANGED <<guardians, placement, calendar, curriculum>>

-----------------------------------------------------------------------------
GuardiansStep(w) ==
    \/ \E phone \in Phone : CreateGuardian(w, phone)
    \/ \E g \in GuardianIds, phone \in Phone : UpdateGuardian(w, g, phone)
    \/ \E s \in Students, g \in GuardianIds, isPrimary \in BOOLEAN :
          LinkLoad(w, s, g, isPrimary)
    \/ \E k \in LinkIds, isPrimary \in BOOLEAN \cup {None} :
          UpdateLinkLoad(w, k, isPrimary)
    \/ ClearStep(w)
    \/ CreateLink(w)
    \/ UpdateLink(w)
    \/ \E k \in LinkIds : Unlink(w, k)
    \/ ImportStep(w)
    \/ RegistryDrop(w)

GuardiansNext == \E w \in Workers : GuardiansStep(w)

-----------------------------------------------------------------------------
NewLink ==
    [op : {"link"}, student : Students, guardian : GuardianIds, isPrimaryContact : BOOLEAN]

LinkChange ==
    [op : {"updateLink"}, link : LinkIds, isPrimaryContact : BOOLEAN \cup {None},
     expectedVersion : Nat]

GuardiansTask ==
         NewLink
    \cup LinkChange
    \cup [op : {"clear"}, student : Students, except : LinkIds \cup {None},
          then : NewLink \cup LinkChange]

\* As long as requests do not overlap, a student has at most one primary contact,
\* whichever links are made, changed, dropped half way or imported: "a student never
\* has two people the school considers the first to ring"
\* (guardian.repository.ts:240-241).
OnePrimaryContact ==
    ~overlapped =>
        \A s \in Known(students) :
            Cardinality({k \in LinksOf(s) : links[k].isPrimaryContact}) <= 1

=============================================================================
