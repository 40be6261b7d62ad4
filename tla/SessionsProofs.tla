--------------------------- MODULE SessionsProofs ----------------------------
(***************************************************************************)
(* For any number of users, sessions, tokens and requests in flight: chains *)
(* of refresh tokens do not fork, what was ended is over, and whatever ends *)
(* sessions spares none that it found.  Checked by TLAPS.                   *)
(***************************************************************************)
EXTENDS Sessions, FiniteSetTheorems, TLAPS

Link(s, k, n) ==
    [session |-> s, number |-> k, used |-> k < n,
     replacedBy |-> IF k < n THEN k + 1 ELSE None]

Chain(s, n) == {Link(s, k, n) : k \in 1 .. n}

\* The tokens of a session are a chain of some length; none has no tokens.
ChainsAreWhole ==
    \A s \in SessionIds : \E n \in 0 .. MaxTokens :
        /\ ChainOf(s) = Chain(s, n)
        /\ sessions[s] = Absent <=> n = 0

\* What a request in flight acts on is there, and a refresh has room for its token.
TaskStands(request) ==
    /\ request.op \in {"reuse", "rotate"} => sessions[request.session] # Absent
    /\ request.op = "rotate" => request.number < MaxTokens
    /\ request.op = "reset" => resets[request.reset] # Absent

TasksStand == \A w \in Workers : TaskStands(task[w])

IInv == TypeOK /\ ChainsAreWhole /\ TasksStand /\ EndedSessionsAreOver

\* What RevokedIsNotRenewed says of a step.
NothingRenewed ==
    \A s \in SessionIds :
        /\ sessions[s] # Absent /\ ~Live(s) => sessions'[s].revoked = sessions[s].revoked
        /\ Over(s) => Over(s)' /\ ChainOf(s)' = ChainOf(s)

-----------------------------------------------------------------------------
(* Chains *)

LEMMA ChainIsFinite ==
    ASSUME NEW s \in SessionIds, NEW n \in Nat
    PROVE  IsFiniteSet(Chain(s, n)) /\ Cardinality(Chain(s, n)) = n
<1>. DEFINE f == [k \in 1 .. n |-> Link(s, k, n)]
<1>1. IsFiniteSet(1 .. n) /\ Cardinality(1 .. n) = n
  BY FS_Interval
<1>2. f \in [1 .. n -> Chain(s, n)]
  BY DEF Chain
<1>3. \A k, l \in 1 .. n : f[k] = f[l] => k = l
  BY DEF Link
<1>4. \A t \in Chain(s, n) : \E k \in 1 .. n : f[k] = t
  BY DEF Chain
<1>5. f \in Bijection(1 .. n, Chain(s, n))
  BY <1>2, <1>3, <1>4 DEF Bijection, Injection, Surjection, IsInjective
<1>. QED
  BY <1>1, <1>5, FS_Bijection DEF ExistsBijection

\* Only the last token of a chain is unused.
LEMMA LastIsUnused ==
    ASSUME NEW s \in SessionIds, NEW n \in Nat, NEW t \in Chain(s, n), ~t.used
    PROVE  n # 0 /\ t = Link(s, n, n)
<1>1. PICK k \in 1 .. n : t = Link(s, k, n)
  BY DEF Chain
<1>2. ~(k < n)
  BY <1>1 DEF Link
<1>. QED
  BY <1>1, <1>2

TokenRecord ==
    [session : SessionIds, number : Nat, used : BOOLEAN, replacedBy : Nat \cup {None}]

LEMMA ExchangedRecord ==
    ASSUME NEW t \in TokenRecord, NEW next \in Nat
    PROVE  /\ Exchanged(t, next) \in TokenRecord
           /\ Exchanged(t, next).session = t.session
           /\ Exchanged(t, next).number = t.number
           /\ Exchanged(t, next).used = TRUE
           /\ Exchanged(t, next).replacedBy = next
  BY DEF Exchanged, TokenRecord

LEMMA LinkRecord ==
    ASSUME NEW s \in SessionIds, NEW k \in Nat, NEW n \in Nat
    PROVE  /\ Link(s, k, n) \in TokenRecord
           /\ Link(s, k, n).session = s
           /\ Link(s, k, n).number = k
           /\ Link(s, k, n).used <=> k < n
           /\ Link(s, k, n).replacedBy = IF k < n THEN k + 1 ELSE None
<1>1. /\ Link(s, k, n).session = s
      /\ Link(s, k, n).number = k
      /\ Link(s, k, n).used = (k < n)
      /\ Link(s, k, n).replacedBy = IF k < n THEN k + 1 ELSE None
  BY Zenon DEF Link
<1>2. (k < n) \in BOOLEAN /\ (IF k < n THEN k + 1 ELSE None) \in Nat \cup {None}
  OBVIOUS
<1>3. Link(s, k, n) \in TokenRecord
  BY <1>2, Zenon DEF Link, TokenRecord
<1>. QED
  BY <1>1, <1>3

LEMMA SameRecord ==
    ASSUME NEW t \in TokenRecord, NEW x \in TokenRecord, t.session = x.session,
           t.number = x.number, t.used <=> x.used, t.replacedBy = x.replacedBy
    PROVE  t = x
  BY DEF TokenRecord

\* The token a chain ends with.
LEMMA LastLink ==
    ASSUME NEW s \in SessionIds, NEW n \in Nat
    PROVE  Link(s, n, n) = [session |-> s, number |-> n, used |-> FALSE, replacedBy |-> None]
<1>1. /\ Link(s, n, n) \in TokenRecord
      /\ Link(s, n, n).session = s /\ Link(s, n, n).number = n
      /\ ~Link(s, n, n).used /\ Link(s, n, n).replacedBy = None
  BY LinkRecord
<1>. QED
  BY <1>1 DEF TokenRecord

\* The exchange of the last token makes a chain one longer.
LEMMA ChainGrows ==
    ASSUME NEW s \in SessionIds, NEW n \in Nat \ {0}
    PROVE  Chain(s, n + 1) =
             (Chain(s, n) \ {Link(s, n, n)}) \cup
               {Exchanged(Link(s, n, n), n + 1), Link(s, n + 1, n + 1)}
<1>1. \A k \in 1 .. (n - 1) : Link(s, k, n + 1) = Link(s, k, n)
  BY DEF Link
<1>2. Link(s, n, n + 1) = Exchanged(Link(s, n, n), n + 1)
  <2>. DEFINE x == Exchanged(Link(s, n, n), n + 1)
              y == Link(s, n, n + 1)
  <2>1. /\ x \in TokenRecord /\ x.session = s /\ x.number = n /\ x.used = TRUE
        /\ x.replacedBy = n + 1
    <3>1. Link(s, n, n) \in TokenRecord /\ Link(s, n, n).session = s /\ Link(s, n, n).number = n
      BY LinkRecord
    <3>. QED
      BY <3>1, n + 1 \in Nat, ExchangedRecord
  <2>2. /\ y \in TokenRecord /\ y.session = s /\ y.number = n /\ y.used = TRUE
        /\ y.replacedBy = n + 1
    BY LinkRecord
  <2>. HIDE DEF x, y
  <2>3. x = y
    BY <2>1, <2>2, SameRecord
  <2>. QED
    BY <2>3 DEF x, y
<1>3. \A k \in 1 .. (n - 1) : Link(s, k, n) # Link(s, n, n)
  BY DEF Link
<1>4. Chain(s, n) \ {Link(s, n, n)} = {Link(s, k, n) : k \in 1 .. (n - 1)}
  BY <1>3 DEF Chain
<1>5. Chain(s, n + 1) = {Link(s, k, n + 1) : k \in 1 .. (n - 1)} \cup
                        {Link(s, n, n + 1), Link(s, n + 1, n + 1)}
  <2>1. 1 .. (n + 1) = (1 .. (n - 1)) \cup {n, n + 1}
    OBVIOUS
  <2>. QED
    BY <2>1 DEF Chain
<1>. QED
  BY <1>1, <1>2, <1>4, <1>5

LEMMA ChainsGiveNoFork ==
    ASSUME TypeOK, ChainsAreWhole
    PROVE  ChainsDoNotFork
<1>. SUFFICES ASSUME NEW s \in SessionIds
              PROVE  LET length == Cardinality(ChainOf(s)) IN
                     /\ sessions[s] = Absent <=> length = 0
                     /\ \A n \in 1 .. length : Link(s, n, length) \in tokens
  BY DEF ChainsDoNotFork, Link
<1>1. PICK n \in 0 .. MaxTokens : ChainOf(s) = Chain(s, n) /\ (sessions[s] = Absent <=> n = 0)
  BY DEF ChainsAreWhole
<1>2. n \in Nat
  BY SessionAssumption
<1>3. Cardinality(ChainOf(s)) = n
  BY <1>1, <1>2, ChainIsFinite
<1>4. \A k \in 1 .. n : Link(s, k, n) \in ChainOf(s)
  BY <1>1 DEF Chain
<1>. QED
  BY <1>1, <1>3, <1>4 DEF ChainOf

-----------------------------------------------------------------------------
(* Rows and requests *)

LEMMA RowsAreThere == Absent \notin Session /\ Absent \notin Reset
  BY DEF Absent, Session, Reset

LEMMA RevokedSession ==
    ASSUME NEW session \in Session, NEW reason \in Reasons
    PROVE  /\ Revoked(session, reason) \in Session
           /\ Revoked(session, reason).user = session.user
           /\ Revoked(session, reason).revoked # None
           /\ session.revoked # None => Revoked(session, reason) = session
  BY SessionAssumption DEF Revoked, Session

LEMMA RequestFields ==
    ASSUME NEW request \in Task
    PROVE  /\ request.op = "create" => request.user \in Users /\ request.mfa \in BOOLEAN
           /\ request.op = "reuse" => request.session \in SessionIds
           /\ request.op = "rotate" => request.session \in SessionIds /\ request.number \in Nat
           /\ request.op \in {"start", "disable"} => request.user \in Users
           /\ request.op = "enrol" => request.user \in Users /\ request.signIn \in BOOLEAN
           /\ request.op = "change" => request.user \in Users /\ request.session \in SessionIds
           /\ request.op = "reset" => request.user \in Users /\ request.reset \in ResetIds
           /\ request.op = "status" =>
                /\ request.user \in Users
                /\ request.status \in {"ACTIVE", "SUSPENDED", "DISABLED"}
                /\ request.expectedVersion \in Nat
           /\ request.op = "end" =>
                /\ request.user \in Users
                /\ request.reason \in Reasons
                /\ request.keep \in SessionIds \cup {None}
                /\ request.signIn \in BOOLEAN
  BY DEF Task, Idle

LEMMA IdleRequest == Idle \in Task /\ Idle.op = "idle"
  BY DEF Task, Idle

-----------------------------------------------------------------------------
(* What steps have in common *)

\* A session is as it was or has been ended, by nobody twice.
Ends ==
    \A s \in SessionIds :
        \/ sessions'[s] = sessions[s]
        \/ /\ sessions[s] # Absent
           /\ \E reason \in Reasons : sessions'[s] = Revoked(sessions[s], reason)

LEMMA EndedRows ==
    ASSUME TypeOK, Ends, NEW s \in SessionIds
    PROVE  /\ sessions'[s] \in Session \cup {Absent}
           /\ sessions'[s] = Absent <=> sessions[s] = Absent
           /\ sessions'[s].user = sessions[s].user
           /\ sessions[s] # Absent /\ sessions[s].revoked # None => sessions'[s] = sessions[s]
<1>1. sessions[s] \in Session \cup {Absent}
  BY DEF TypeOK
<1>2. CASE sessions'[s] = sessions[s]
  BY <1>1, <1>2
<1>3. CASE sessions[s] # Absent /\ \E reason \in Reasons : sessions'[s] = Revoked(sessions[s], reason)
  <2>1. PICK reason \in Reasons : sessions'[s] = Revoked(sessions[s], reason)
    BY <1>3
  <2>2. sessions[s] \in Session
    BY <1>1, <1>3
  <2>. QED
    BY <2>1, <2>2, RevokedSession, RowsAreThere
<1>. QED
  BY <1>2, <1>3 DEF Ends

LEMMA ChainsKept ==
    ASSUME ChainsAreWhole, tokens' = tokens,
           \A s \in SessionIds : sessions'[s] = Absent <=> sessions[s] = Absent
    PROVE  ChainsAreWhole'
  BY DEF ChainsAreWhole, ChainOf, Chain, Link

\* No token is issued, and no refresh begins, of a session that was ended.
LEMMA RenewalsKept ==
    ASSUME TypeOK, Ends, tokens' = tokens,
           \A w \in Workers : task'[w].op = "rotate" =>
             task'[w] = task[w] \/ Live(task'[w].session)
    PROVE  NothingRenewed
<1>. SUFFICES ASSUME NEW s \in SessionIds, sessions[s] # Absent, ~Live(s)
              PROVE  /\ sessions'[s].revoked = sessions[s].revoked
                     /\ Over(s) => Over(s)' /\ ChainOf(s)' = ChainOf(s)
  BY DEF NothingRenewed, Over
<1>1. sessions'[s] = sessions[s]
  BY EndedRows DEF Live
<1>2. ChainOf(s)' = ChainOf(s)
  BY DEF ChainOf
<1>3. ASSUME Over(s)
      PROVE  Over(s)'
  <2>1. \A w \in Workers : ~(task'[w].op = "rotate" /\ task'[w].session = s)
    BY <1>3 DEF Over
  <2>. QED
    BY <1>1, <2>1 DEF Over, Live
<1>. QED
  BY <1>1, <1>2, <1>3

\* A step that leaves sessions and tokens alone, and takes no ending from a request.
LEMMA QuietStep ==
    ASSUME IInv, sessions' = sessions, tokens' = tokens, due' = due,
           users' \in [Users -> Account],
           challenges' \subseteq Users \X {"verify", "enrol"},
           resets' \in [ResetIds -> Reset \cup {Absent}],
           \A r \in ResetIds : resets[r] # Absent => resets'[r] # Absent,
           task' \in [Workers -> Task],
           \A w \in Workers :
             \/ task'[w] = task[w]
             \/ /\ task[w].op # "end"
                /\ TaskStands(task'[w])
                /\ task'[w].op = "rotate" => Live(task'[w].session)
    PROVE  IInv' /\ NothingRenewed
<1>1. TypeOK'
  BY DEF IInv, TypeOK
<1>2. ChainsAreWhole'
  BY ChainsKept DEF IInv
<1>3. TasksStand'
  <2>1. \A w \in Workers : TaskStands(task'[w])
    BY DEF IInv, TasksStand
  <2>2. \A w \in Workers : task'[w].op = "reset" => task'[w].reset \in ResetIds
    BY RequestFields
  <2>. QED
    BY <2>1, <2>2 DEF TasksStand, TaskStands
<1>4. EndedSessionsAreOver'
  BY DEF IInv, EndedSessionsAreOver, AboutToEnd
<1>5. NothingRenewed
  BY RenewalsKept DEF IInv, Ends
<1>. QED
  BY <1>1, <1>2, <1>3, <1>4, <1>5 DEF IInv

\* A transaction after which the sessions of u are to be ended.
LEMMA CallForEnding ==
    ASSUME IInv, NEW w \in Workers, NEW u \in Users, NEW keep \in SessionIds \cup {None},
           NEW reason \in Reasons, NEW signIn \in BOOLEAN,
           task[w].op # "end", task[w].user = u,
           NowDue(u, keep), ThenEnd(w, reason, keep, signIn),
           sessions' = sessions, tokens' = tokens, challenges' = challenges,
           users' \in [Users -> Account],
           resets' \in [ResetIds -> Reset \cup {Absent}],
           \A r \in ResetIds : resets[r] # Absent => resets'[r] # Absent
    PROVE  IInv' /\ NothingRenewed
<1>. DEFINE request == [op |-> "end", user |-> u, reason |-> reason, keep |-> keep,
                        signIn |-> signIn]
<1>1. task' = [task EXCEPT ![w] = request]
  BY DEF ThenEnd
<1>2. request \in Task /\ TaskStands(request) /\ request.op = "end"
  BY DEF Task, TaskStands
<1>3. request.user = u /\ request.keep = keep
  OBVIOUS
<1>. HIDE DEF request
<1>4. task' \in [Workers -> Task] /\ task'[w] = request
      /\ \A v \in Workers \ {w} : task'[v] = task[v]
  BY <1>1, <1>2 DEF IInv, TypeOK
<1>5. TypeOK'
  BY <1>4 DEF IInv, TypeOK, NowDue
<1>6. ChainsAreWhole'
  BY ChainsKept DEF IInv
<1>7. TasksStand'
  <2>1. \A v \in Workers : TaskStands(task'[v])
    BY <1>2, <1>4 DEF IInv, TasksStand
  <2>2. \A v \in Workers : task'[v].op = "reset" => task'[v].reset \in ResetIds
    BY <1>4, RequestFields
  <2>. QED
    BY <2>1, <2>2 DEF TasksStand, TaskStands
<1>8. EndedSessionsAreOver'
  <2>. SUFFICES ASSUME NEW s \in due'
                PROVE  \E v \in Workers : AboutToEnd(v, s)'
    BY DEF EndedSessionsAreOver
  <2>1. CASE s \in due
    <3>1. PICK v \in Workers : AboutToEnd(v, s)
      BY <2>1 DEF IInv, EndedSessionsAreOver
    <3>2. v # w
      BY <3>1 DEF AboutToEnd
    <3>. QED
      BY <1>4, <3>1, <3>2 DEF AboutToEnd
  <2>2. CASE s \notin due
    <3>1. sessions[s].user = u /\ s # keep
      BY <2>2 DEF NowDue
    <3>. QED
      BY <1>2, <1>3, <1>4, <3>1 DEF AboutToEnd
  <2>. QED
    BY <2>1, <2>2
<1>9. NothingRenewed
  BY <1>2, <1>4, RenewalsKept DEF IInv, Ends
<1>. QED
  BY <1>5, <1>6, <1>7, <1>8, <1>9 DEF IInv

\* A step that ends sessions, and takes an ending from a request only when it is done.
LEMMA EndingStep ==
    ASSUME IInv, Ends, sessions' \in [SessionIds -> Session \cup {Absent}], StillDue,
           tokens' = tokens, users' = users, challenges' = challenges, resets' = resets,
           task' \in [Workers -> Task],
           \A w \in Workers :
             \/ task'[w] = task[w]
             \/ /\ task'[w].op \notin {"rotate", "reuse", "reset"}
                /\ \A s \in due : AboutToEnd(w, s) => s \notin due'
    PROVE  IInv' /\ NothingRenewed
<1>1. TypeOK'
  BY DEF IInv, TypeOK, StillDue
<1>2. \A s \in SessionIds : /\ sessions'[s] = Absent <=> sessions[s] = Absent
                            /\ sessions'[s].user = sessions[s].user
  BY EndedRows DEF IInv
<1>3. ChainsAreWhole'
  BY <1>2, ChainsKept DEF IInv
<1>4. TasksStand'
  <2>. SUFFICES ASSUME NEW w \in Workers
                PROVE  TaskStands(task[w])'
    BY DEF TasksStand
  <2>1. CASE task'[w] = task[w]
    <3>1. task[w].op \in {"reuse", "rotate"} => task[w].session \in SessionIds
      BY RequestFields DEF IInv, TypeOK
    <3>. QED
      BY <1>2, <2>1, <3>1 DEF IInv, TasksStand, TaskStands
  <2>2. CASE task'[w].op \notin {"rotate", "reuse", "reset"}
    BY <2>2 DEF TaskStands
  <2>. QED
    BY <2>1, <2>2
<1>5. EndedSessionsAreOver'
  <2>. SUFFICES ASSUME NEW s \in due'
                PROVE  \E v \in Workers : AboutToEnd(v, s)'
    BY DEF EndedSessionsAreOver
  <2>1. s \in due /\ s \in SessionIds
    BY DEF StillDue, IInv, TypeOK
  <2>2. PICK v \in Workers : AboutToEnd(v, s)
    BY <2>1 DEF IInv, EndedSessionsAreOver
  <2>. QED
    BY <1>2, <2>1, <2>2 DEF AboutToEnd
<1>6. NothingRenewed
  BY RenewalsKept DEF IInv
<1>. QED
  BY <1>1, <1>3, <1>4, <1>5, <1>6 DEF IInv

\* A request begins; it has written nothing yet.
LEMMA BeginStep ==
    ASSUME IInv, NEW w \in Workers, NEW request \in Task, Begin(w, request),
           UNCHANGED <<users, sessions, tokens, challenges, resets, due>>,
           TaskStands(request), request.op = "rotate" => Live(request.session)
    PROVE  IInv' /\ NothingRenewed
<1>1. TypeOK /\ task[w].op # "end"
  BY IdleRequest DEF IInv, Begin
<1>2. /\ task' \in [Workers -> Task] /\ task'[w] = request
      /\ \A v \in Workers \ {w} : task'[v] = task[v]
  BY <1>1 DEF Begin, TypeOK
<1>. QED
  BY <1>1, <1>2, QuietStep DEF TypeOK

\* A request ends, or goes on to open a session; what it wrote was neither a session nor
\* a token.
LEMMA FinishStep ==
    ASSUME IInv, NEW w \in Workers, NEW request \in Task, task' = [task EXCEPT ![w] = request],
           request.op \in {"idle", "create"}, task[w].op # "end",
           sessions' = sessions, tokens' = tokens, due' = due, challenges' = challenges,
           resets' = resets, users' \in [Users -> Account]
    PROVE  IInv' /\ NothingRenewed
<1>1. /\ task' \in [Workers -> Task] /\ task'[w] = request
      /\ \A v \in Workers \ {w} : task'[v] = task[v]
  BY DEF IInv, TypeOK
<1>2. TaskStands(request) /\ request.op # "rotate"
  BY DEF TaskStands
<1>. QED
  BY <1>1, <1>2, QuietStep DEF IInv, TypeOK

-----------------------------------------------------------------------------
(* Steps: requests that begin *)

LEMMA VerifyMfaSafe ==
    ASSUME IInv, NEW w \in Workers, NEW u \in Users, VerifyMfa(w, u)
    PROVE  IInv' /\ NothingRenewed
<1>. DEFINE request == [op |-> "create", user |-> u, mfa |-> TRUE]
<1>1. Begin(w, request) /\ UNCHANGED <<users, sessions, tokens, challenges, resets, due>>
  BY DEF VerifyMfa
<1>2. request \in Task /\ TaskStands(request) /\ request.op # "rotate"
  BY DEF Task, TaskStands
<1>. HIDE DEF request
<1>. QED
  BY <1>1, <1>2, BeginStep

LEMMA StartLoadSafe ==
    ASSUME IInv, NEW w \in Workers, NEW u \in Users, StartLoad(w, u)
    PROVE  IInv' /\ NothingRenewed
<1>. DEFINE request == [op |-> "start", user |-> u]
<1>1. Begin(w, request) /\ UNCHANGED <<users, sessions, tokens, challenges, resets, due>>
  BY DEF StartLoad
<1>2. request \in Task /\ TaskStands(request) /\ request.op # "rotate"
  BY DEF Task, TaskStands
<1>. HIDE DEF request
<1>. QED
  BY <1>1, <1>2, BeginStep

LEMMA EnrolLoadSafe ==
    ASSUME IInv, NEW w \in Workers, NEW u \in Users, NEW signIn \in BOOLEAN, EnrolLoad(w, u, signIn)
    PROVE  IInv' /\ NothingRenewed
<1>. DEFINE request == [op |-> "enrol", user |-> u, signIn |-> signIn]
<1>1. Begin(w, request) /\ UNCHANGED <<users, sessions, tokens, challenges, resets, due>>
  BY DEF EnrolLoad
<1>2. request \in Task /\ TaskStands(request) /\ request.op # "rotate"
  BY DEF Task, TaskStands
<1>. HIDE DEF request
<1>. QED
  BY <1>1, <1>2, BeginStep

LEMMA DisableLoadSafe ==
    ASSUME IInv, NEW w \in Workers, NEW s \in SessionIds, DisableLoad(w, s)
    PROVE  IInv' /\ NothingRenewed
<1>. DEFINE request == [op |-> "disable", user |-> sessions[s].user]
<1>1. Begin(w, request) /\ UNCHANGED <<users, sessions, tokens, challenges, resets, due>>
  BY DEF DisableLoad
<1>3. sessions[s].user \in Users
  BY DEF DisableLoad, Served, Live, IInv, TypeOK, Session
<1>2. request \in Task /\ TaskStands(request) /\ request.op # "rotate"
  BY <1>3 DEF Task, TaskStands
<1>. HIDE DEF request
<1>. QED
  BY <1>1, <1>2, BeginStep

LEMMA ChangePasswordLoadSafe ==
    ASSUME IInv, NEW w \in Workers, NEW s \in SessionIds, ChangePasswordLoad(w, s)
    PROVE  IInv' /\ NothingRenewed
<1>. DEFINE request == [op |-> "change", user |-> sessions[s].user, session |-> s]
<1>1. Begin(w, request) /\ UNCHANGED <<users, sessions, tokens, challenges, resets, due>>
  BY DEF ChangePasswordLoad
<1>3. sessions[s].user \in Users
  BY DEF ChangePasswordLoad, Served, Live, IInv, TypeOK, Session
<1>2. request \in Task /\ TaskStands(request) /\ request.op # "rotate"
  BY <1>3 DEF Task, TaskStands
<1>. HIDE DEF request
<1>. QED
  BY <1>1, <1>2, BeginStep

LEMMA ResetPasswordLoadSafe ==
    ASSUME IInv, NEW w \in Workers, NEW r \in ResetIds, ResetPasswordLoad(w, r)
    PROVE  IInv' /\ NothingRenewed
<1>. DEFINE request == [op |-> "reset", user |-> resets[r].user, reset |-> r]
<1>1. Begin(w, request) /\ UNCHANGED <<users, sessions, tokens, challenges, resets, due>>
  BY DEF ResetPasswordLoad
<1>3. resets[r].user \in Users /\ resets[r] # Absent
  BY DEF ResetPasswordLoad, IInv, TypeOK, Reset
<1>2. request \in Task /\ TaskStands(request) /\ request.op # "rotate"
  BY <1>3 DEF Task, TaskStands
<1>. HIDE DEF request
<1>. QED
  BY <1>1, <1>2, BeginStep

LEMMA SetStatusLoadSafe ==
    ASSUME IInv, NEW w \in Workers, NEW u \in Users,
           NEW status \in {"ACTIVE", "SUSPENDED", "DISABLED"}, SetStatusLoad(w, u, status)
    PROVE  IInv' /\ NothingRenewed
<1>. DEFINE request == [op |-> "status", user |-> u, status |-> status,
                        expectedVersion |-> users[u].version]
<1>1. Begin(w, request) /\ UNCHANGED <<users, sessions, tokens, challenges, resets, due>>
  BY DEF SetStatusLoad
<1>3. users[u].version \in Nat
  BY DEF IInv, TypeOK, Account
<1>2. request \in Task /\ TaskStands(request) /\ request.op # "rotate"
  BY <1>3 DEF Task, TaskStands
<1>. HIDE DEF request
<1>. QED
  BY <1>1, <1>2, BeginStep

LEMMA LoginSafe ==
    ASSUME IInv, NEW w \in Workers, NEW u \in Users, Login(w, u)
    PROVE  IInv' /\ NothingRenewed
<1>1. UNCHANGED <<users, sessions, tokens, resets, due>>
  BY DEF Login
<1>2. CASE users[u].mfa \/ RequiresMfa(u)
  <2>1. UNCHANGED task /\ challenges' = challenges \cup
                             {<<u, IF users[u].mfa THEN "verify" ELSE "enrol">>}
    BY <1>2 DEF Login
  <2>2. challenges' \subseteq Users \X {"verify", "enrol"}
    BY <2>1 DEF IInv, TypeOK
  <2>. QED
    BY <1>1, <2>1, <2>2, QuietStep DEF IInv, TypeOK
<1>3. CASE ~(users[u].mfa \/ RequiresMfa(u))
  <2>. DEFINE request == [op |-> "create", user |-> u, mfa |-> FALSE]
  <2>1. Begin(w, request) /\ UNCHANGED challenges
    BY <1>3 DEF Login
  <2>2. request \in Task /\ TaskStands(request) /\ request.op # "rotate"
    BY DEF Task, TaskStands
  <2>. HIDE DEF request
  <2>. QED
    BY <1>1, <2>1, <2>2, BeginStep
<1>. QED
  BY <1>2, <1>3

\* A token is presented: a used one calls for the end of its session, an unused one is
\* exchanged if the session is live.
LEMMA RefreshLoadSafe ==
    ASSUME IInv, NEW w \in Workers, NEW t \in tokens, RefreshLoad(w, t)
    PROVE  IInv' /\ NothingRenewed
<1>1. UNCHANGED <<users, sessions, tokens, challenges, resets, due>>
  BY DEF RefreshLoad
<1>2. t.session \in SessionIds /\ t.number \in Nat
  BY SessionAssumption DEF IInv, TypeOK, Token
<1>3. sessions[t.session] # Absent
  BY <1>2 DEF IInv, ChainsAreWhole, ChainOf, Chain
<1>4. ASSUME Begin(w, [op |-> "reuse", session |-> t.session])
      PROVE  IInv' /\ NothingRenewed
  <2>. DEFINE request == [op |-> "reuse", session |-> t.session]
  <2>1. request \in Task /\ TaskStands(request) /\ request.op # "rotate"
    BY <1>2, <1>3 DEF Task, TaskStands
  <2>. HIDE DEF request
  <2>. QED
    BY <1>1, <1>4, <2>1, BeginStep DEF request
<1>5. ASSUME Rotatable(t), t.number < MaxTokens,
             Begin(w, [op |-> "rotate", session |-> t.session, number |-> t.number])
      PROVE  IInv' /\ NothingRenewed
  <2>. DEFINE request == [op |-> "rotate", session |-> t.session, number |-> t.number]
  <2>1. /\ request \in Task
        /\ TaskStands(request)
        /\ request.session = t.session
    BY <1>2, <1>3, <1>5 DEF Task, TaskStands
  <2>2. Live(request.session)
    BY <1>3, <1>5, <2>1 DEF Rotatable, Live
  <2>. HIDE DEF request
  <2>. QED
    BY <1>1, <1>5, <2>1, <2>2, BeginStep DEF request
<1>. QED
  BY <1>4, <1>5 DEF RefreshLoad

-----------------------------------------------------------------------------
(* Steps: transactions *)

LEMMA StartCommitSafe ==
    ASSUME IInv, NEW w \in Workers, StartCommit(w)
    PROVE  IInv' /\ NothingRenewed
<1>1. task[w].user \in Users
  BY RequestFields DEF StartCommit, IInv, TypeOK
<1>2. users' \in [Users -> Account]
  <2>1. users' = [users EXCEPT ![task[w].user].pending = TRUE]
    BY DEF StartCommit
  <2>2. users \in [Users -> Account]
    BY DEF IInv, TypeOK
  <2>. QED
    BY <1>1, <2>1, <2>2 DEF Account
<1>. QED
  BY <1>2, IdleRequest, FinishStep DEF StartCommit

LEMMA EnrolCommitSafe ==
    ASSUME IInv, NEW w \in Workers, EnrolCommit(w)
    PROVE  IInv' /\ NothingRenewed
<1>1. /\ task[w].op = "enrol"
      /\ NowDue(task[w].user, None)
      /\ ThenEnd(w, "mfa_changed", None, task[w].signIn)
      /\ UNCHANGED <<sessions, tokens, challenges>>
  BY DEF EnrolCommit
<1>2. task[w] \in Task
  BY DEF IInv, TypeOK
<1>3. task[w].user \in Users /\ task[w].signIn \in BOOLEAN
  BY <1>1, <1>2, RequestFields
<1>4. users' \in [Users -> Account]
  <2>1. users' = [users EXCEPT ![task[w].user].mfa = TRUE, ![task[w].user].pending = FALSE]
    BY DEF EnrolCommit
  <2>2. users \in [Users -> Account] /\ users[task[w].user] \in Account
    BY <1>3 DEF IInv, TypeOK
  <2>3. PICK a : a = [users[task[w].user] EXCEPT !.mfa = TRUE, !.pending = FALSE]
    OBVIOUS
  <2>4. a \in Account
    BY <2>2, <2>3 DEF Account
  <2>5. users' = [users EXCEPT ![task[w].user] = a]
    BY <1>3, <2>1, <2>2, <2>3
  <2>. QED
    BY <1>3, <2>2, <2>4, <2>5
<1>5. /\ resets' \in [ResetIds -> Reset \cup {Absent}]
      /\ \A r \in ResetIds : resets[r] # Absent => resets'[r] # Absent
  BY DEF EnrolCommit, IInv, TypeOK
<1>6. "mfa_changed" \in Reasons
  BY DEF Reasons
<1>. QED
  BY <1>1, <1>3, <1>4, <1>5, <1>6, CallForEnding

LEMMA DisableCommitSafe ==
    ASSUME IInv, NEW w \in Workers, DisableCommit(w)
    PROVE  IInv' /\ NothingRenewed
<1>1. /\ task[w].op = "disable"
      /\ NowDue(task[w].user, None)
      /\ ThenEnd(w, "mfa_changed", None, FALSE)
      /\ UNCHANGED <<sessions, tokens, challenges>>
  BY DEF DisableCommit
<1>2. task[w] \in Task
  BY DEF IInv, TypeOK
<1>3. task[w].user \in Users
  BY <1>1, <1>2, RequestFields
<1>4. users' \in [Users -> Account]
  <2>1. users' = [users EXCEPT ![task[w].user].mfa = FALSE, ![task[w].user].pending = FALSE]
    BY DEF DisableCommit
  <2>2. users \in [Users -> Account] /\ users[task[w].user] \in Account
    BY <1>3 DEF IInv, TypeOK
  <2>3. PICK a : a = [users[task[w].user] EXCEPT !.mfa = FALSE, !.pending = FALSE]
    OBVIOUS
  <2>4. a \in Account
    BY <2>2, <2>3 DEF Account
  <2>5. users' = [users EXCEPT ![task[w].user] = a]
    BY <1>3, <2>1, <2>2, <2>3
  <2>. QED
    BY <1>3, <2>2, <2>4, <2>5
<1>5. /\ resets' \in [ResetIds -> Reset \cup {Absent}]
      /\ \A r \in ResetIds : resets[r] # Absent => resets'[r] # Absent
  BY DEF DisableCommit, IInv, TypeOK
<1>6. "mfa_changed" \in Reasons
  BY DEF Reasons
<1>. QED
  BY <1>1, <1>3, <1>4, <1>5, <1>6, CallForEnding

LEMMA ChangePasswordCommitSafe ==
    ASSUME IInv, NEW w \in Workers, ChangePasswordCommit(w)
    PROVE  IInv' /\ NothingRenewed
<1>1. /\ task[w].op = "change"
      /\ NowDue(task[w].user, task[w].session)
      /\ ThenEnd(w, "password_changed", task[w].session, FALSE)
      /\ UNCHANGED <<sessions, tokens, challenges>>
  BY DEF ChangePasswordCommit
<1>2. task[w] \in Task
  BY DEF IInv, TypeOK
<1>3. task[w].user \in Users /\ task[w].session \in SessionIds
  BY <1>1, <1>2, RequestFields
<1>4. users' \in [Users -> Account]
  BY DEF ChangePasswordCommit, IInv, TypeOK
<1>5. /\ resets' \in [ResetIds -> Reset \cup {Absent}]
      /\ \A r \in ResetIds : resets[r] # Absent => resets'[r] # Absent
  BY DEF ChangePasswordCommit, IInv, TypeOK
<1>6. "password_changed" \in Reasons
  BY DEF Reasons
<1>. QED
  BY <1>1, <1>3, <1>4, <1>5, <1>6, CallForEnding

LEMMA ResetPasswordCommitSafe ==
    ASSUME IInv, NEW w \in Workers, ResetPasswordCommit(w)
    PROVE  IInv' /\ NothingRenewed
<1>1. /\ task[w].op = "reset"
      /\ NowDue(task[w].user, None)
      /\ ThenEnd(w, "password_changed", None, FALSE)
      /\ UNCHANGED <<sessions, tokens, challenges>>
  BY DEF ResetPasswordCommit
<1>2. task[w] \in Task
  BY DEF IInv, TypeOK
<1>3. task[w].user \in Users /\ task[w].reset \in ResetIds
  BY <1>1, <1>2, RequestFields
<1>4. users' \in [Users -> Account]
  BY DEF ResetPasswordCommit, IInv, TypeOK
<1>5. /\ resets' \in [ResetIds -> Reset \cup {Absent}]
      /\ \A r \in ResetIds : resets[r] # Absent => resets'[r] # Absent
  <2>1. resets[task[w].reset] \in Reset
    BY <1>1, <1>3 DEF IInv, TypeOK, TasksStand, TaskStands
  <2>2. [resets[task[w].reset] EXCEPT !.used = TRUE] \in Reset
    BY <2>1 DEF Reset
  <2>3. resets' = [resets EXCEPT ![task[w].reset] = [resets[task[w].reset] EXCEPT !.used = TRUE]]
    BY DEF ResetPasswordCommit
  <2>. QED
    BY <1>3, <2>2, <2>3, RowsAreThere DEF IInv, TypeOK
<1>6. "password_changed" \in Reasons
  BY DEF Reasons
<1>. QED
  BY <1>1, <1>3, <1>4, <1>5, <1>6, CallForEnding

LEMMA SetStatusCommitSafe ==
    ASSUME IInv, NEW w \in Workers, SetStatusCommit(w)
    PROVE  IInv' /\ NothingRenewed
<1>1. task[w].op = "status" /\ UNCHANGED <<sessions, tokens, challenges, resets>>
  BY DEF SetStatusCommit
<1>2. /\ task[w].user \in Users
      /\ task[w].status \in {"ACTIVE", "SUSPENDED", "DISABLED"}
  BY <1>1, RequestFields DEF IInv, TypeOK
<1>3. users' \in [Users -> Account]
  <2>1. PICK u \in Users, status \in {"ACTIVE", "SUSPENDED", "DISABLED"} :
          u = task[w].user /\ status = task[w].status
    BY <1>2
  <2>2. users[u] \in Account /\ users[u].version + 1 \in Nat
    BY DEF IInv, TypeOK, Account
  <2>3. users' = [users EXCEPT ![u].status = status, ![u].version = @ + 1]
    BY <2>1 DEF SetStatusCommit
  <2>. QED
    BY <2>2, <2>3 DEF IInv, TypeOK, Account
<1>4. CASE task[w].status = "ACTIVE"
  <2>1. due' = due /\ task' = [task EXCEPT ![w] = Idle]
    BY <1>4 DEF SetStatusCommit, LosingAccess
  <2>. QED
    BY <1>1, <1>3, <2>1, IdleRequest, FinishStep
<1>5. CASE task[w].status # "ACTIVE"
  <2>1. NowDue(task[w].user, None) /\ ThenEnd(w, "account_suspended", None, FALSE)
    BY <1>5 DEF SetStatusCommit, LosingAccess
  <2>2. "account_suspended" \in Reasons
    BY DEF Reasons
  <2>. QED
    BY <1>1, <1>2, <1>3, <2>1, <2>2, CallForEnding DEF IInv, TypeOK
<1>. QED
  BY <1>4, <1>5

LEMMA RequestPasswordResetSafe ==
    ASSUME IInv, NEW u \in Users, NEW r \in ResetIds, RequestPasswordReset(u, r)
    PROVE  IInv' /\ NothingRenewed
<1>1. UNCHANGED <<users, sessions, tokens, challenges, task, due>>
  BY DEF RequestPasswordReset
<1>2. [user |-> u, used |-> FALSE] \in Reset
  BY DEF Reset
<1>3. ASSUME NEW x \in ResetIds
      PROVE  /\ resets'[x] \in Reset \cup {Absent}
             /\ resets[x] # Absent => resets'[x] # Absent
  <2>1. CASE x = r
    BY <1>2, <2>1, RowsAreThere DEF RequestPasswordReset
  <2>2. CASE x # r /\ resets[x].user = u
    <3>1. resets[x] \in Reset
      BY <2>2, SessionAssumption DEF IInv, TypeOK, Absent
    <3>2. resets'[x] = [resets[x] EXCEPT !.used = TRUE]
      BY <2>2 DEF RequestPasswordReset
    <3>. QED
      BY <3>1, <3>2, RowsAreThere DEF Reset
  <2>3. CASE x # r /\ resets[x].user # u
    BY <2>3 DEF RequestPasswordReset, IInv, TypeOK
  <2>. QED
    BY <2>1, <2>2, <2>3
<1>4. resets' \in [ResetIds -> Reset \cup {Absent}]
  BY <1>3 DEF RequestPasswordReset
<1>. QED
  BY <1>1, <1>3, <1>4, QuietStep DEF IInv, TypeOK

-----------------------------------------------------------------------------
(* Steps: sessions end *)

LEMMA OneEnds ==
    ASSUME TypeOK, NEW s \in SessionIds, sessions[s] # Absent, NEW reason \in Reasons,
           RevokeSession(s, reason)
    PROVE  Ends /\ sessions' \in [SessionIds -> Session \cup {Absent}]
<1>1. Revoked(sessions[s], reason) \in Session
  BY RevokedSession DEF TypeOK
<1>2. sessions' = [sessions EXCEPT ![s] = Revoked(sessions[s], reason)]
  BY DEF RevokeSession
<1>. QED
  BY <1>1, <1>2 DEF Ends, TypeOK

LEMMA AllEnd ==
    ASSUME TypeOK, NEW u \in Users, NEW keep, NEW reason \in Reasons,
           RevokeAllSessionsForUser(u, reason, keep)
    PROVE  /\ Ends /\ sessions' \in [SessionIds -> Session \cup {Absent}]
           /\ \A s \in SessionIds :
                sessions[s].user = u /\ s # keep => sessions'[s].revoked # None
<1>1. ASSUME NEW s \in SessionIds, sessions[s].user = u
      PROVE  /\ sessions[s] # Absent
             /\ Revoked(sessions[s], reason) \in Session
             /\ Revoked(sessions[s], reason).revoked # None
  <2>1. sessions[s] \in Session /\ sessions[s] # Absent
    BY <1>1, SessionAssumption DEF TypeOK, Absent
  <2>. QED
    BY <2>1, RevokedSession
<1>2. \A s \in SessionIds :
        sessions'[s] = IF sessions[s].user = u /\ s # keep
                         THEN Revoked(sessions[s], reason) ELSE sessions[s]
  BY DEF RevokeAllSessionsForUser, EndedBy
<1>3. sessions' \in [SessionIds -> Session \cup {Absent}]
  BY <1>1, <1>2 DEF RevokeAllSessionsForUser, TypeOK
<1>. QED
  BY <1>1, <1>2, <1>3 DEF Ends

LEMMA ReuseDetectedSafe ==
    ASSUME IInv, NEW w \in Workers, ReuseDetected(w)
    PROVE  IInv' /\ NothingRenewed
<1>1. task[w].session \in SessionIds /\ sessions[task[w].session] # Absent
  BY RequestFields DEF ReuseDetected, IInv, TypeOK, TasksStand, TaskStands
<1>2. "token_reuse_detected" \in Reasons
  BY DEF Reasons
<1>3. Ends /\ sessions' \in [SessionIds -> Session \cup {Absent}]
  BY <1>1, <1>2, OneEnds DEF ReuseDetected, IInv
<1>4. /\ task' \in [Workers -> Task] /\ task'[w].op = "idle"
      /\ \A v \in Workers \ {w} : task'[v] = task[v]
  BY IdleRequest DEF ReuseDetected, IInv, TypeOK
<1>5. \A s \in due : ~AboutToEnd(w, s)
  BY DEF ReuseDetected, AboutToEnd
<1>. QED
  BY <1>3, <1>4, <1>5, EndingStep DEF ReuseDetected

LEMMA LogoutSafe ==
    ASSUME IInv, NEW s \in SessionIds, NEW other \in SessionIds, Logout(s, other)
    PROVE  IInv' /\ NothingRenewed
<1>1. Ends /\ sessions' \in [SessionIds -> Session \cup {Absent}]
  BY OneEnds DEF Logout, Live, Reasons, IInv
<1>. QED
  BY <1>1, EndingStep DEF Logout, IInv, TypeOK

LEMMA LogoutAllSafe ==
    ASSUME IInv, NEW s \in SessionIds, LogoutAll(s)
    PROVE  IInv' /\ NothingRenewed
<1>1. sessions[s].user \in Users
  BY DEF LogoutAll, Served, Live, IInv, TypeOK, Session
<1>2. Ends /\ sessions' \in [SessionIds -> Session \cup {Absent}]
  BY <1>1, AllEnd DEF LogoutAll, Reasons, IInv
<1>. QED
  BY <1>2, EndingStep DEF LogoutAll, IInv, TypeOK

LEMMA EndSessionsSafe ==
    ASSUME IInv, NEW w \in Workers, EndSessions(w)
    PROVE  IInv' /\ NothingRenewed
<1>1. task[w].op = "end" /\ RevokeAllSessionsForUser(task[w].user, task[w].reason, task[w].keep)
  BY DEF EndSessions
<1>2. task[w].user \in Users /\ task[w].reason \in Reasons
  BY <1>1, RequestFields DEF IInv, TypeOK
<1>3. /\ Ends /\ sessions' \in [SessionIds -> Session \cup {Absent}]
      /\ \A s \in SessionIds : sessions[s].user = task[w].user /\ s # task[w].keep =>
           sessions'[s].revoked # None
  BY <1>1, <1>2, AllEnd DEF IInv
<1>4. PICK request \in Task :
        task' = [task EXCEPT ![w] = request] /\ request.op \in {"idle", "create"}
  <2>1. [op |-> "create", user |-> task[w].user, mfa |-> TRUE] \in Task
    BY <1>2 DEF Task
  <2>. QED
    BY <2>1, IdleRequest DEF EndSessions
<1>5. /\ task' \in [Workers -> Task] /\ task'[w] = request
      /\ \A v \in Workers \ {w} : task'[v] = task[v]
  BY <1>4 DEF IInv, TypeOK
<1>6. \A s \in due : AboutToEnd(w, s) => s \notin due'
  BY <1>3 DEF AboutToEnd, EndSessions, StillDue, IInv, TypeOK
<1>. QED
  BY <1>3, <1>4, <1>5, <1>6, EndingStep DEF EndSessions

LEMMA DropSafe ==
    ASSUME IInv, NEW w \in Workers, Drop(w)
    PROVE  IInv' /\ NothingRenewed
<1>1. UNCHANGED <<users, sessions, tokens, challenges, resets>>
  BY DEF Drop
<1>2. /\ task' \in [Workers -> Task] /\ task'[w] = Idle
      /\ \A v \in Workers \ {w} : task'[v] = task[v]
  BY IdleRequest DEF Drop, IInv, TypeOK
<1>3. CASE task[w].op # "end"
  BY <1>1, <1>2, <1>3, IdleRequest, FinishStep DEF Drop, IInv, TypeOK
<1>4. CASE task[w].op = "end"
  <2>1. due' = {s \in due : \E other \in Workers \ {w} : AboutToEnd(other, s)}
    BY <1>4 DEF Drop
  <2>2. TypeOK'
    BY <1>1, <1>2, <2>1 DEF IInv, TypeOK
  <2>3. ChainsAreWhole'
    BY <1>1, ChainsKept DEF IInv
  <2>4. TasksStand'
    BY <1>1, <1>2, IdleRequest DEF IInv, TasksStand, TaskStands
  <2>5. EndedSessionsAreOver'
    BY <1>1, <1>2, <2>1 DEF EndedSessionsAreOver, AboutToEnd
  <2>6. NothingRenewed
    BY <1>1, <1>2, IdleRequest, RenewalsKept DEF IInv, Ends
  <2>. QED
    BY <2>2, <2>3, <2>4, <2>5, <2>6 DEF IInv
<1>. QED
  BY <1>3, <1>4

-----------------------------------------------------------------------------
(* Steps: sessions are opened and renewed *)

\* Chains, for a session whose chain became n long, while the others stay as they were.
LEMMA ChainsAfter ==
    ASSUME ChainsAreWhole, NEW s \in SessionIds, NEW n \in 1 .. MaxTokens,
           ChainOf(s)' = Chain(s, n), sessions'[s] # Absent,
           \A x \in SessionIds \ {s} : ChainOf(x)' = ChainOf(x) /\ sessions'[x] = sessions[x]
    PROVE  ChainsAreWhole'
<1>. SUFFICES ASSUME NEW x \in SessionIds
              PROVE  \E k \in 0 .. MaxTokens :
                        ChainOf(x)' = Chain(x, k) /\ (sessions'[x] = Absent <=> k = 0)
  BY DEF ChainsAreWhole, Chain, Link
<1>1. CASE x = s
  BY <1>1, SessionAssumption
<1>2. CASE x # s
  <2>1. PICK k \in 0 .. MaxTokens : ChainOf(x) = Chain(x, k) /\ (sessions[x] = Absent <=> k = 0)
    BY DEF ChainsAreWhole
  <2>. QED
    BY <1>2, <2>1
<1>. QED
  BY <1>1, <1>2

LEMMA CreateSessionSafe ==
    ASSUME IInv, NEW w \in Workers, NEW s \in SessionIds, CreateSession(w, s)
    PROVE  IInv' /\ NothingRenewed
<1>. DEFINE session == [user |-> task[w].user, mfa |-> task[w].mfa, revoked |-> None]
            token == [session |-> s, number |-> 1, used |-> FALSE, replacedBy |-> None]
<1>1. /\ task[w].op = "create" /\ sessions[s] = Absent
      /\ sessions' = [sessions EXCEPT ![s] = session]
      /\ tokens' = tokens \cup {token}
      /\ task' = [task EXCEPT ![w] = Idle]
      /\ UNCHANGED <<users, challenges, resets, due>>
  BY DEF CreateSession
<1>2. session \in Session
  BY <1>1, RequestFields DEF IInv, TypeOK, Session
<1>3. token \in Token
  BY SessionAssumption DEF Token
<1>4. Chain(s, 1) = {token}
  <2>1. Link(s, 1, 1) = token
    BY LastLink
  <2>2. 1 .. 1 = {1}
    OBVIOUS
  <2>3. Chain(s, 1) = {Link(s, 1, 1)}
    BY <2>2 DEF Chain
  <2>. QED
    BY <2>1, <2>3
<1>5. token.session = s
  OBVIOUS
<1>. HIDE DEF session, token
<1>6. /\ task' \in [Workers -> Task] /\ task'[w] = Idle
      /\ \A v \in Workers \ {w} : task'[v] = task[v]
  BY <1>1, IdleRequest DEF IInv, TypeOK
<1>7. /\ sessions'[s] = session /\ session # Absent
      /\ \A x \in SessionIds \ {s} : sessions'[x] = sessions[x]
  BY <1>1, <1>2, RowsAreThere DEF IInv, TypeOK
<1>8. TypeOK'
  BY <1>1, <1>2, <1>3, <1>6 DEF IInv, TypeOK
<1>9. ChainOf(s) = {}
  BY <1>1 DEF IInv, ChainsAreWhole, Chain
<1>10. /\ ChainOf(s)' = {token}
       /\ \A x \in SessionIds \ {s} : ChainOf(x)' = ChainOf(x)
  BY <1>1, <1>5, <1>9 DEF ChainOf
<1>11. ChainsAreWhole'
  <2>1. 1 \in 1 .. MaxTokens
    BY SessionAssumption
  <2>. QED
    BY <1>4, <1>7, <1>10, <2>1, ChainsAfter DEF IInv
<1>12. TasksStand'
  <2>. SUFFICES ASSUME NEW v \in Workers
                PROVE  TaskStands(task[v])'
    BY DEF TasksStand
  <2>1. CASE v = w
    BY <1>6, <2>1, IdleRequest DEF TaskStands
  <2>2. CASE v # w
    <3>1. task'[v] = task[v] /\ TaskStands(task[v])
      BY <1>6, <2>2 DEF IInv, TasksStand
    <3>2. task[v].op \in {"reuse", "rotate"} => task[v].session \in SessionIds
      BY RequestFields DEF IInv, TypeOK
    <3>. QED
      BY <1>1, <1>7, <3>1, <3>2 DEF TaskStands
  <2>. QED
    BY <2>1, <2>2
<1>13. EndedSessionsAreOver'
  <2>. SUFFICES ASSUME NEW d \in due
                PROVE  \E v \in Workers : AboutToEnd(v, d)'
    BY <1>1 DEF EndedSessionsAreOver
  <2>1. PICK v \in Workers : AboutToEnd(v, d)
    BY DEF IInv, EndedSessionsAreOver
  <2>2. v # w
    BY <1>1, <2>1 DEF AboutToEnd
  <2>3. task[v].user \in Users
    BY <2>1, RequestFields DEF AboutToEnd, IInv, TypeOK
  <2>4. d # s
    BY <1>1, <2>1, <2>3, SessionAssumption DEF AboutToEnd, Absent
  <2>5. sessions'[d] = sessions[d]
    BY <1>7, <2>4 DEF IInv, TypeOK
  <2>. QED
    BY <1>6, <2>1, <2>2, <2>5 DEF AboutToEnd
<1>14. NothingRenewed
  <2>. SUFFICES ASSUME NEW x \in SessionIds, sessions[x] # Absent, ~Live(x)
                PROVE  /\ sessions'[x].revoked = sessions[x].revoked
                       /\ Over(x) => Over(x)' /\ ChainOf(x)' = ChainOf(x)
    BY DEF NothingRenewed, Over
  <2>1. x # s
    BY <1>1
  <2>2. sessions'[x] = sessions[x] /\ ChainOf(x)' = ChainOf(x)
    BY <1>7, <1>10, <2>1
  <2>3. ASSUME Over(x)
        PROVE  Over(x)'
    BY <1>6, <2>2, <2>3, IdleRequest DEF Over, Live
  <2>. QED
    BY <2>2, <2>3
<1>. QED
  BY <1>8, <1>11, <1>12, <1>13, <1>14 DEF IInv

LEMMA RotateCommitSafe ==
    ASSUME IInv, NEW w \in Workers, RotateCommit(w)
    PROVE  IInv' /\ NothingRenewed
<1>1. /\ task[w].op = "rotate" /\ task' = [task EXCEPT ![w] = Idle]
      /\ UNCHANGED <<users, sessions, challenges, resets, due>>
  BY DEF RotateCommit
<1>2. PICK t \in Consumable(w) :
        LET next == Cardinality({x \in tokens : x.session = t.session}) + 1 IN
        tokens' = (tokens \ {t}) \cup
            {Exchanged(t, next),
             [session |-> t.session, number |-> next, used |-> FALSE, replacedBy |-> None]}
  BY DEF RotateCommit
<1>3. t \in tokens /\ ~t.used /\ t.session = task[w].session /\ t.number = task[w].number
  BY DEF Consumable, Presented
<1>0. PICK s \in SessionIds : s = task[w].session
  BY <1>1, RequestFields DEF IInv, TypeOK
<1>4. s \in SessionIds /\ sessions[s] # Absent /\ t.number < MaxTokens
  BY <1>1, <1>3, <1>0 DEF IInv, TasksStand, TaskStands
<1>5. PICK n \in 0 .. MaxTokens : ChainOf(s) = Chain(s, n) /\ n # 0
  BY <1>4 DEF IInv, ChainsAreWhole
<1>6. n \in Nat \ {0}
  BY <1>5, SessionAssumption
<1>7. t = Link(s, n, n)
  <2>1. t \in Chain(s, n)
    BY <1>3, <1>5, <1>0 DEF ChainOf
  <2>. QED
    BY <1>3, <1>4, <1>6, <2>1, LastIsUnused
<1>8. t.number = n /\ t.session = s /\ n + 1 \in 1 .. MaxTokens
  <2>1. t.number = n /\ t.session = s
    BY <1>4, <1>6, <1>7, LinkRecord
  <2>. QED
    BY <1>4, <1>6, <2>1, SessionAssumption
<1>9. Cardinality({x \in tokens : x.session = t.session}) = n
  BY <1>4, <1>5, <1>6, <1>8, ChainIsFinite DEF ChainOf
<1>10. Link(s, n + 1, n + 1) =
         [session |-> s, number |-> n + 1, used |-> FALSE, replacedBy |-> None]
  BY <1>6, n + 1 \in Nat, LastLink
<1>11. tokens' = (tokens \ {Link(s, n, n)}) \cup
                   {Exchanged(Link(s, n, n), n + 1), Link(s, n + 1, n + 1)}
  BY <1>2, <1>7, <1>8, <1>9, <1>10
<1>12. /\ Exchanged(Link(s, n, n), n + 1) \in Token
       /\ Exchanged(Link(s, n, n), n + 1).session = s
  <2>1. Link(s, n, n) \in TokenRecord /\ Link(s, n, n).session = s /\ Link(s, n, n).number = n
    BY <1>4, <1>6, LinkRecord
  <2>2. n + 1 \in Nat
    BY <1>6
  <2>. DEFINE x == Exchanged(Link(s, n, n), n + 1)
  <2>3. /\ x \in TokenRecord /\ x.session = s /\ x.number = n /\ x.used = TRUE
        /\ x.replacedBy = n + 1
    BY <2>1, <2>2, ExchangedRecord
  <2>. HIDE DEF x
  <2>4. x \in Token
    BY <1>6, <1>8, <2>3, SessionAssumption DEF Token, TokenRecord
  <2>. QED
    BY <2>3, <2>4 DEF x
<1>13. Link(s, n + 1, n + 1) \in Token /\ Link(s, n + 1, n + 1).session = s
  <2>. DEFINE token == [session |-> s, number |-> n + 1, used |-> FALSE, replacedBy |-> None]
  <2>1. token \in Token /\ token.session = s
    BY <1>8 DEF Token
  <2>. HIDE DEF token
  <2>. QED
    BY <1>10, <2>1 DEF token
<1>14. /\ task' \in [Workers -> Task] /\ task'[w] = Idle
       /\ \A v \in Workers \ {w} : task'[v] = task[v]
  BY <1>1, IdleRequest DEF IInv, TypeOK
<1>15. TypeOK'
  BY <1>1, <1>11, <1>12, <1>13, <1>14 DEF IInv, TypeOK
<1>16. \A x \in SessionIds \ {s} : ChainOf(x)' = ChainOf(x)
  BY <1>7, <1>8, <1>11, <1>12, <1>13 DEF ChainOf
<1>17. ChainOf(s)' = Chain(s, n + 1)
  <2>1. ChainOf(s)' = (ChainOf(s) \ {Link(s, n, n)}) \cup
                        {Exchanged(Link(s, n, n), n + 1), Link(s, n + 1, n + 1)}
    <3>1. PICK a, b, c : /\ a = Link(s, n, n)
                         /\ b = Exchanged(Link(s, n, n), n + 1)
                         /\ c = Link(s, n + 1, n + 1)
      OBVIOUS
    <3>2. tokens' = (tokens \ {a}) \cup {b, c} /\ b.session = s /\ c.session = s
      BY <1>11, <1>12, <1>13, <3>1
    <3>3. ChainOf(s)' = (ChainOf(s) \ {a}) \cup {b, c}
      BY <3>2 DEF ChainOf
    <3>. QED
      BY <3>1, <3>3
  <2>. QED
    BY <1>4, <1>5, <1>6, <2>1, ChainGrows
<1>18. ChainsAreWhole'
  BY <1>1, <1>4, <1>8, <1>16, <1>17, ChainsAfter DEF IInv
<1>19. TasksStand'
  BY <1>1, <1>14, IdleRequest DEF IInv, TasksStand, TaskStands
<1>20. EndedSessionsAreOver'
  BY <1>1, <1>14 DEF IInv, EndedSessionsAreOver, AboutToEnd
<1>21. NothingRenewed
  <2>. SUFFICES ASSUME NEW x \in SessionIds
                PROVE  Over(x) => Over(x)' /\ ChainOf(x)' = ChainOf(x)
    BY <1>1 DEF NothingRenewed
  <2>1. ASSUME Over(x)
        PROVE  Over(x)' /\ ChainOf(x)' = ChainOf(x)
    <3>1. x # s
      BY <1>1, <1>0, <2>1 DEF Over
    <3>2. Over(x)'
      BY <1>1, <1>14, <2>1, IdleRequest DEF Over, Live
    <3>. QED
      BY <1>16, <3>1, <3>2
  <2>. QED
    BY <2>1
<1>. QED
  BY <1>15, <1>18, <1>19, <1>20, <1>21 DEF IInv

-----------------------------------------------------------------------------
(* The invariant *)

LEMMA InitSafe ==
    ASSUME Init
    PROVE  IInv
<1>1. TypeOK
  <2>1. users \in [Users -> Account]
    <3>. DEFINE Fresh == [status : {"INVITED", "ACTIVE"}, version : {1}, mfa : {FALSE},
                          pending : {FALSE}, privileged : BOOLEAN]
    <3>1. ASSUME NEW account \in Fresh
          PROVE  account \in Account
      <4>1. {"INVITED", "ACTIVE"} \subseteq {"INVITED", "ACTIVE", "SUSPENDED", "DISABLED"}
            /\ {1} \subseteq Nat /\ {FALSE} \subseteq BOOLEAN
        OBVIOUS
      <4>2. \A A, B, C, D, P, Q, X :
              A \subseteq B /\ C \subseteq D /\ P \subseteq Q =>
                [status : A, version : C, mfa : P, pending : P, privileged : X] \subseteq
                [status : B, version : D, mfa : Q, pending : Q, privileged : X]
        OBVIOUS
      <4>. QED
        BY <4>1, <4>2 DEF Account
    <3>2. users \in [Users -> Fresh]
      BY DEF Init
    <3>. HIDE DEF Fresh
    <3>. QED
      BY <3>1, <3>2
  <2>. QED
    BY <2>1, IdleRequest DEF Init, TypeOK
<1>2. ChainsAreWhole
  <2>1. \A s \in SessionIds : ChainOf(s) = {} /\ sessions[s] = Absent /\ Chain(s, 0) = {}
    BY DEF Init, ChainOf, Chain
  <2>2. 0 \in 0 .. MaxTokens
    BY SessionAssumption
  <2>. QED
    BY <2>1, <2>2 DEF ChainsAreWhole
<1>3. TasksStand
  BY IdleRequest DEF Init, TasksStand, TaskStands
<1>4. EndedSessionsAreOver
  BY DEF Init, EndedSessionsAreOver
<1>. QED
  BY <1>1, <1>2, <1>3, <1>4 DEF IInv

LEMMA StepSafe ==
    ASSUME IInv, Next
    PROVE  IInv' /\ NothingRenewed
<1>1. ASSUME NEW w \in Workers, \E s \in SessionIds : CreateSession(w, s)
      PROVE  IInv' /\ NothingRenewed
  BY <1>1, CreateSessionSafe
<1>2. ASSUME NEW w \in Workers, \E t \in tokens : RefreshLoad(w, t)
      PROVE  IInv' /\ NothingRenewed
  BY <1>2, RefreshLoadSafe
<1>3. ASSUME NEW w \in Workers, ReuseDetected(w) \/ RotateCommit(w) \/ EndSessions(w) \/ Drop(w)
      PROVE  IInv' /\ NothingRenewed
  BY <1>3, ReuseDetectedSafe, RotateCommitSafe, EndSessionsSafe, DropSafe
<1>4. ASSUME NEW s \in SessionIds, LogoutAll(s) \/ \E other \in SessionIds : Logout(s, other)
      PROVE  IInv' /\ NothingRenewed
  BY <1>4, LogoutAllSafe, LogoutSafe
<1>5. ASSUME NEW w \in Workers, NEW u \in Users,
             Login(w, u) \/ VerifyMfa(w, u) \/ StartLoad(w, u)
      PROVE  IInv' /\ NothingRenewed
  BY <1>5, LoginSafe, VerifyMfaSafe, StartLoadSafe
<1>6. ASSUME NEW w \in Workers, NEW u \in Users, \E signIn \in BOOLEAN : EnrolLoad(w, u, signIn)
      PROVE  IInv' /\ NothingRenewed
  BY <1>6, EnrolLoadSafe
<1>7. ASSUME NEW w \in Workers,
             \/ StartCommit(w) \/ EnrolCommit(w) \/ DisableCommit(w)
             \/ ChangePasswordCommit(w) \/ ResetPasswordCommit(w) \/ SetStatusCommit(w)
      PROVE  IInv' /\ NothingRenewed
  BY <1>7, StartCommitSafe, EnrolCommitSafe, DisableCommitSafe, ChangePasswordCommitSafe,
     ResetPasswordCommitSafe, SetStatusCommitSafe
<1>8. ASSUME NEW w \in Workers, NEW s \in SessionIds, DisableLoad(w, s) \/ ChangePasswordLoad(w, s)
      PROVE  IInv' /\ NothingRenewed
  BY <1>8, DisableLoadSafe, ChangePasswordLoadSafe
<1>9. ASSUME NEW u \in Users, NEW r \in ResetIds, RequestPasswordReset(u, r)
      PROVE  IInv' /\ NothingRenewed
  BY <1>9, RequestPasswordResetSafe
<1>10. ASSUME NEW w \in Workers, NEW r \in ResetIds, ResetPasswordLoad(w, r)
       PROVE  IInv' /\ NothingRenewed
  BY <1>10, ResetPasswordLoadSafe
<1>11. ASSUME NEW w \in Workers, NEW u \in Users,
              NEW status \in {"ACTIVE", "SUSPENDED", "DISABLED"}, SetStatusLoad(w, u, status)
       PROVE  IInv' /\ NothingRenewed
  BY <1>11, SetStatusLoadSafe
<1>. QED
  BY <1>1, <1>2, <1>3, <1>4, <1>5, <1>6, <1>7, <1>8, <1>9, <1>10, <1>11 DEF Next

LEMMA Invariance == Spec => []IInv
<1>1. IInv /\ UNCHANGED vars => IInv'
  BY DEF vars, IInv, TypeOK, ChainsAreWhole, ChainOf, Chain, Link, TasksStand, TaskStands,
     EndedSessionsAreOver, AboutToEnd
<1>2. IInv /\ [Next]_vars => IInv'
  BY <1>1, StepSafe
<1>. QED
  BY InitSafe, <1>2, PTL DEF Spec

-----------------------------------------------------------------------------
(* Theorems *)

\* Every reachable state of the sessions is well typed, requests in flight included.
THEOREM SessionsTypeCorrect == Spec => []TypeOK
<1>1. IInv => TypeOK
  BY DEF IInv
<1>. QED
  BY <1>1, Invariance, PTL

\* The refresh tokens of a session form one chain of which only the last can be exchanged,
\* however refreshes race, are lost or are repeated (session.service.ts:85-91).
THEOREM ChainsHold == Spec => []ChainsDoNotFork
<1>1. IInv => ChainsDoNotFork
  BY ChainsGiveNoFork DEF IInv
<1>. QED
  BY <1>1, Invariance, PTL

\* A session that was ended stays so for the reason first recorded, and once the refreshes
\* that had found it live are done, nothing extends its chain (session.service.ts:199-203).
THEOREM RevokedForGood == Spec => RevokedIsNotRenewed
<1>. DEFINE Stays ==
        \A s \in SessionIds :
          /\ sessions[s] # Absent /\ ~Live(s) => sessions'[s].revoked = sessions[s].revoked
          /\ Over(s) => Over(s)' /\ ChainOf(s)' = ChainOf(s)
<1>1. IInv /\ [Next]_vars => [Stays]_vars
  BY StepSafe DEF NothingRenewed
<1>. QED
  BY <1>1, Invariance, PTL DEF Spec, RevokedIsNotRenewed

\* A session that a change of password, second factor or status found live is ended, or
\* some request is about to end it, whichever of them overlap (SECURITY.md:105-106).
THEOREM EndingsSpareNone == Spec => []EndedSessionsAreOver
<1>1. IInv => EndedSessionsAreOver
  BY DEF IInv
<1>. QED
  BY <1>1, Invariance, PTL

=============================================================================
