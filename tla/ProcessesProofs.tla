--------------------------- MODULE ProcessesProofs ---------------------------
(***************************************************************************)
(* What the processes around the database promise: of WebClient, for any    *)
(* number of calls and sessions, that it is not taken for a thief and that   *)
(* nobody waits for a renewal that is over; of Screens, for any number of    *)
(* filters, files and changes, that nothing late is shown or applied; of     *)
(* Lifecycle, for any requests, that stopping is honest; of Seed, for any    *)
(* fixtures and any databases, that it may be run twice.                     *)
(***************************************************************************)
EXTENDS WebClient, Screens, Lifecycle, Seed, FiniteSetTheorems, TLAPS

WebSpec == WebInit /\ [][WebNext]_web

\* Lists and previews side by side.
ScreensSpec == ScreensInit /\ [][ListNext \/ PageNext]_screens

-----------------------------------------------------------------------------
(* The renewals that are out *)

Cookie == [session : begun, used : BOOLEAN]

RenewalState ==
    {Resting}
        \cup [stage : {"sent"}, presented : Cookie \cup {None}]
        \cup [stage : {"answered"}, granted : Cookie \cup {None}]

WebTyped ==
    /\ begun = 1 .. Cardinality(begun)
    /\ Cardinality(begun) \in Nat
    /\ cookie \in Cookie \cup {None}
    /\ renewals \in [Calls \cup {Startup} -> RenewalState]

\* The refresh cookie that a renewal has in hand: it shows it, or it was granted it.
InHand(r) ==
    CASE renewals[r].stage = "sent" -> renewals[r].presented
      [] renewals[r].stage = "answered" -> renewals[r].granted
      [] OTHER -> None

\* It has not been used, and it is of another session than that of any other renewal.
HandsApart ==
    \A r \in Calls \cup {Startup} : InHand(r) # None =>
        /\ ~InHand(r).used
        /\ \A q \in (Calls \cup {Startup}) \ {r} :
             InHand(q) # None => InHand(q).session # InHand(r).session

\* A call that renews is the one the others wait for.
OneRenews ==
    /\ \A c \in Calls : renewals[c] # Resting => inFlight = c
    /\ inFlight # None => inFlight \in Calls /\ renewals[inFlight] # Resting

\* The cookie of the browser is spent, or may be as soon as a renewal is answered.
Spent(c) ==
    \/ c.used
    \/ \E r \in Calls \cup {Startup} : InHand(r) # None /\ InHand(r).session = c.session

\* Nobody will show it: calls wait for the renewal that is out, or there are none before
\* the one at startup has settled.
NobodyRenews ==
    \/ inFlight # None
    \/ /\ status # "signed_in"
       /\ \A c \in Calls : calls[c] = Resting
       /\ renewals[Startup] # Resting

Honest ==
    /\ ~theft
    /\ HandsApart
    /\ OneRenews
    /\ cookie # None /\ Spent(cookie) => NobodyRenews

\* Once the client has given up on a renewal all that is left is that it has.
WebInv == WebTyped /\ (abandoned \/ Honest)

\* Nothing is in hand that the sessions do not know.
LEMMA InHandType ==
    ASSUME WebTyped, NEW r \in Calls \cup {Startup}
    PROVE  /\ InHand(r) \in Cookie \cup {None}
           /\ renewals[r] \in RenewalState
           /\ renewals[r].stage \in {"resting", "sent", "answered"}
           /\ renewals[r].stage = "resting" <=> renewals[r] = Resting
           /\ renewals[r].stage = "sent" => renewals[r].presented \in Cookie \cup {None}
           /\ renewals[r].stage = "answered" => renewals[r].granted \in Cookie \cup {None}
<1>1. renewals[r] \in RenewalState
  BY DEF WebTyped
<1>2. CASE renewals[r] = Resting
  BY <1>1, <1>2 DEF Resting, InHand
<1>3. CASE renewals[r] \in [stage : {"sent"}, presented : Cookie \cup {None}]
  BY <1>1, <1>3 DEF Resting, InHand
<1>4. CASE renewals[r] \in [stage : {"answered"}, granted : Cookie \cup {None}]
  BY <1>1, <1>4 DEF Resting, InHand
<1>. QED
  BY <1>1, <1>2, <1>3, <1>4 DEF RenewalState

-----------------------------------------------------------------------------
(* A renewal begins, is answered, and is settled *)

\* A renewal that begins shows the cookie of the browser, which nobody has in hand.
LEMMA RenewalBegins ==
    ASSUME WebTyped, NEW r \in Calls \cup {Startup}, renewals[r] = Resting,
           renewals' = [renewals EXCEPT ![r] = Renewal(cookie)], UNCHANGED <<begun, cookie>>
    PROVE  /\ WebTyped'
           /\ HandsApart /\ (cookie # None => ~Spent(cookie)) => HandsApart'
<1>1. r \in DOMAIN renewals
  BY DEF WebTyped
<1>2. /\ renewals'[r] = [stage |-> "sent", presented |-> cookie]
      /\ \A q \in (Calls \cup {Startup}) \ {r} : renewals'[q] = renewals[q]
  BY <1>1 DEF WebTyped, Renewal
<1>3. /\ InHand(r)' = cookie
      /\ \A q \in (Calls \cup {Startup}) \ {r} : InHand(q)' = InHand(q)
  BY <1>2 DEF InHand
<1>4. Renewal(cookie) \in RenewalState
  BY DEF Renewal, WebTyped, RenewalState
<1>5. RenewalState' = RenewalState /\ Cookie' = Cookie
  BY DEF RenewalState, Cookie
<1>6. renewals' \in [Calls \cup {Startup} -> RenewalState]
  BY <1>4 DEF WebTyped
<1>7. WebTyped'
  BY <1>5, <1>6 DEF WebTyped
<1>8. ASSUME HandsApart, cookie # None => ~Spent(cookie)
      PROVE  HandsApart'
  <2>1. cookie # None => ~cookie.used /\ \A q \in Calls \cup {Startup} :
             InHand(q) # None => InHand(q).session # cookie.session
    BY <1>8 DEF Spent
  <2>. QED
    BY <1>3, <1>8, <2>1 DEF HandsApart
<1>. QED
  BY <1>7, <1>8

\* What an answer does to the others' copies of the cookie: nothing, since they have none.
LEMMA OthersInHand ==
    ASSUME WebTyped, NEW q \in Calls \cup {Startup}, NEW s
    PROVE  LET used == RenewalUsedUp(renewals[q], s) IN
           /\ used \in RenewalState
           /\ used.stage = renewals[q].stage
           /\ (InHand(q) # None => InHand(q).session # s) => used = renewals[q]
<1>1. /\ renewals[q].stage = "resting" => renewals[q] = Resting
      /\ renewals[q].stage \in {"resting", "sent", "answered"}
      /\ renewals[q].stage = "sent" =>
           renewals[q] \in [stage : {"sent"}, presented : Cookie \cup {None}]
      /\ renewals[q].stage = "answered" =>
           renewals[q] \in [stage : {"answered"}, granted : Cookie \cup {None}]
  BY DEF WebTyped, RenewalState, Resting
<1>2. ASSUME NEW c \in Cookie \cup {None}
      PROVE  /\ UsedUp(c, s) \in Cookie \cup {None}
             /\ (c # None => c.session # s) => UsedUp(c, s) = c
  BY DEF UsedUp, Cookie
<1>3. CASE renewals[q].stage = "sent"
  <2>1. PICK c \in Cookie \cup {None} : renewals[q] = [stage |-> "sent", presented |-> c]
    BY <1>1, <1>3
  <2>2. RenewalUsedUp(renewals[q], s) = [stage |-> "sent", presented |-> UsedUp(c, s)]
    BY <2>1 DEF RenewalUsedUp
  <2>3. InHand(q) = c
    BY <2>1 DEF InHand
  <2>. QED
    BY <1>2, <2>1, <2>2, <2>3 DEF RenewalState
<1>4. CASE renewals[q].stage = "answered"
  <2>1. PICK c \in Cookie \cup {None} : renewals[q] = [stage |-> "answered", granted |-> c]
    BY <1>1, <1>4
  <2>2. RenewalUsedUp(renewals[q], s) = [stage |-> "answered", granted |-> UsedUp(c, s)]
    BY <2>1 DEF RenewalUsedUp
  <2>3. InHand(q) = c
    BY <2>1 DEF InHand
  <2>. QED
    BY <1>2, <2>1, <2>2, <2>3 DEF RenewalState
<1>5. CASE renewals[q].stage = "resting"
  <2>1. RenewalUsedUp(renewals[q], s) = renewals[q]
    BY <1>5 DEF RenewalUsedUp
  <2>. QED
    BY <2>1 DEF WebTyped
<1>. QED
  BY <1>1, <1>3, <1>4, <1>5

\* Nothing but the renewals has changed, and each has in hand what it had, or a newer token
\* of the same session, or nothing.
LEMMA AnsweredHonestly ==
    ASSUME Honest, ~theft', UNCHANGED client,
           \A q \in Calls \cup {Startup} :
               /\ renewals'[q] = Resting <=> renewals[q] = Resting
               /\ InHand(q)' # None =>
                    /\ InHand(q) # None
                    /\ InHand(q)'.session = InHand(q).session
                    /\ ~InHand(q)'.used,
           cookie' # None =>
               /\ cookie # None
               /\ cookie'.session = cookie.session
               /\ cookie' # cookie => Spent(cookie)
    PROVE  Honest'
<1>1. HandsApart'
  BY DEF Honest, HandsApart
<1>2. OneRenews'
  BY DEF Honest, OneRenews, client
<1>3. ASSUME cookie' # None, Spent(cookie)'
      PROVE  Spent(cookie)
  BY <1>3 DEF Spent
<1>4. NobodyRenews => NobodyRenews'
  BY DEF NobodyRenews, client
<1>. QED
  BY <1>1, <1>2, <1>3, <1>4 DEF Honest

\* The token a renewal shows is unused, so the server exchanges it or refuses it.
LEMMA AnswerRenewalSafe ==
    ASSUME WebInv, NEW r \in Calls \cup {Startup}, AnswerRenewal(r)
    PROVE  WebInv'
<1>. DEFINE c == InHand(r)
<1>1. renewals[r].stage = "sent" /\ renewals[r].presented = c
  BY DEF AnswerRenewal, InHand
<1>2. c \in Cookie \cup {None} /\ renewals[r] # Resting
  BY <1>1, InHandType DEF WebInv
<1>3. /\ UNCHANGED <<client, abandoned, begun>>
      /\ theft' = (theft \/ (c # None /\ c.used))
  BY <1>1 DEF AnswerRenewal, Presented
<1>4. WebTyped
  BY DEF WebInv
<1>5. RenewalState' = RenewalState /\ Cookie' = Cookie
  BY <1>3 DEF RenewalState, Cookie
<1>6. Honest => ~theft'
  BY <1>3 DEF Honest, HandsApart
<1>7. CASE ~Rotatable(c)
  <2>1. /\ renewals' = [renewals EXCEPT ![r] = [stage |-> "answered", granted |-> None]]
        /\ cookie' = cookie
    BY <1>1, <1>7 DEF AnswerRenewal
  <2>2. [stage |-> "answered", granted |-> None] \in RenewalState
    BY DEF RenewalState
  <2>3. WebTyped'
    BY <1>3, <1>4, <1>5, <2>1, <2>2 DEF WebTyped
  <2>4. /\ renewals'[r] = [stage |-> "answered", granted |-> None]
        /\ \A q \in (Calls \cup {Startup}) \ {r} : renewals'[q] = renewals[q]
    BY <1>4, <2>1 DEF WebTyped
  <2>5. /\ InHand(r)' = None /\ renewals'[r] # Resting
        /\ \A q \in (Calls \cup {Startup}) \ {r} : InHand(q)' = InHand(q)
    BY <2>4 DEF InHand, Resting
  <2>6. ASSUME Honest
        PROVE  Honest'
    <3>1. \A q \in Calls \cup {Startup} :
               /\ renewals'[q] = Resting <=> renewals[q] = Resting
               /\ InHand(q)' # None =>
                    /\ InHand(q) # None
                    /\ InHand(q)'.session = InHand(q).session
                    /\ ~InHand(q)'.used
      BY <1>2, <2>4, <2>5, <2>6 DEF Honest, HandsApart
    <3>. QED
      BY <1>3, <1>6, <2>1, <2>6, <3>1, AnsweredHonestly
  <2>. QED
    BY <1>3, <2>3, <2>6 DEF WebInv
<1>8. CASE Rotatable(c)
  <2>. DEFINE s == c.session
              fresh == [stage |-> "answered", granted |-> [session |-> s, used |-> FALSE]]
  <2>1. /\ renewals' = [q \in DOMAIN renewals |->
               IF q = r THEN fresh ELSE RenewalUsedUp(renewals[q], s)]
        /\ cookie' = UsedUp(cookie, s)
    BY <1>1, <1>8 DEF AnswerRenewal
  <2>2. c # None /\ c \in Cookie /\ s \in begun
    BY <1>2, <1>8 DEF Rotatable, Cookie
  <2>3. fresh \in RenewalState
    BY <2>2 DEF RenewalState, Cookie
  <2>4. DOMAIN renewals = Calls \cup {Startup}
    BY <1>4 DEF WebTyped
  <2>5. renewals' \in [Calls \cup {Startup} -> RenewalState]
    BY <1>4, <2>1, <2>3, <2>4, OthersInHand
  <2>6. cookie' \in Cookie \cup {None}
    BY <1>4, <2>1 DEF WebTyped, UsedUp, Cookie
  <2>7. WebTyped'
    BY <1>3, <1>4, <1>5, <2>5, <2>6 DEF WebTyped
  <2>8. renewals'[r] = fresh
    BY <2>1, <2>4
  <2>9. InHand(r)' = [session |-> s, used |-> FALSE] /\ renewals'[r] # Resting
    BY <2>8 DEF InHand, Resting
  <2>10. ASSUME Honest
         PROVE  Honest'
    <3>1. ASSUME NEW q \in (Calls \cup {Startup}) \ {r}
          PROVE  renewals'[q] = renewals[q] /\ InHand(q)' = InHand(q)
      <4>1. InHand(q) # None => InHand(q).session # s
        BY <2>2, <2>10 DEF Honest, HandsApart
      <4>2. renewals'[q] = RenewalUsedUp(renewals[q], s)
        BY <2>1, <2>4
      <4>3. renewals'[q] = renewals[q]
        BY <1>4, <4>1, <4>2, OthersInHand
      <4>. QED
        BY <4>3 DEF InHand
    <3>2. \A q \in Calls \cup {Startup} :
               /\ renewals'[q] = Resting <=> renewals[q] = Resting
               /\ InHand(q)' # None =>
                    /\ InHand(q) # None
                    /\ InHand(q)'.session = InHand(q).session
                    /\ ~InHand(q)'.used
      BY <1>2, <2>2, <2>9, <2>10, <3>1 DEF Honest, HandsApart
    <3>3. cookie' # None =>
               /\ cookie # None
               /\ cookie'.session = cookie.session
               /\ cookie' # cookie => Spent(cookie)
      BY <1>4, <2>1, <2>2 DEF UsedUp, Spent, WebTyped, Cookie
    <3>. QED
      BY <1>3, <1>6, <2>10, <3>2, <3>3, AnsweredHonestly
  <2>. QED
    BY <1>3, <2>7, <2>10 DEF WebInv
<1>. QED
  BY <1>7, <1>8

\* What was granted is in nobody else's hands when it becomes the cookie.
LEMMA ReceiveRenewalSafe ==
    ASSUME WebInv, NEW r \in Calls \cup {Startup}, ReceiveRenewal(r)
    PROVE  WebInv'
<1>. DEFINE c == InHand(r)
<1>1. renewals[r].stage = "answered" /\ renewals[r].granted = c
  BY DEF ReceiveRenewal, InHand
<1>2. WebTyped
  BY DEF WebInv
<1>3. c \in Cookie \cup {None}
  BY <1>2, InHandType
<1>4. /\ renewals' = [renewals EXCEPT ![r] = Resting]
      /\ cookie' = c
      /\ inFlight' = IF inFlight = r THEN None ELSE inFlight
      /\ UNCHANGED <<server, abandoned>>
  BY <1>1 DEF ReceiveRenewal, Resumed
<1>5. RenewalState' = RenewalState /\ Cookie' = Cookie
  BY <1>4 DEF RenewalState, Cookie, server
<1>6. Resting \in RenewalState
  BY DEF RenewalState
<1>7. WebTyped'
  BY <1>2, <1>3, <1>4, <1>5, <1>6 DEF WebTyped, server
<1>8. /\ renewals'[r] = Resting
      /\ \A q \in (Calls \cup {Startup}) \ {r} : renewals'[q] = renewals[q]
  BY <1>2, <1>4 DEF WebTyped
<1>9. /\ InHand(r)' = None
      /\ \A q \in (Calls \cup {Startup}) \ {r} : InHand(q)' = InHand(q)
  BY <1>8 DEF InHand, Resting
<1>10. ASSUME Honest
       PROVE  Honest'
  <2>1. HandsApart'
    BY <1>9, <1>10 DEF Honest, HandsApart
  <2>2. OneRenews'
    BY <1>4, <1>8, <1>10, WebAssumption DEF Honest, OneRenews
  <2>3. cookie' # None => ~Spent(cookie)'
    BY <1>4, <1>9, <1>10 DEF Honest, HandsApart, Spent
  <2>. QED
    BY <1>4, <1>10, <2>1, <2>2, <2>3 DEF Honest, server
<1>. QED
  BY <1>4, <1>7, <1>10 DEF WebInv

LEMMA FailRenewalSafe ==
    ASSUME WebInv, NEW r \in Calls \cup {Startup}, FailRenewal(r)
    PROVE  WebInv'
<1>1. renewals' = [renewals EXCEPT ![r] = Resting] /\ abandoned' /\ UNCHANGED <<cookie, server>>
  BY DEF FailRenewal
<1>2. RenewalState' = RenewalState /\ Cookie' = Cookie /\ Resting \in RenewalState
  BY <1>1 DEF RenewalState, Cookie, server
<1>. QED
  BY <1>1, <1>2 DEF WebInv, WebTyped, server

-----------------------------------------------------------------------------
(* Calls, and the session *)

\* A step of calls that no renewal is part of.
LEMMA QuietCalls ==
    ASSUME WebInv, UNCHANGED <<inFlight, renewals, begun, theft, abandoned>>,
           cookie' \in {cookie, None},
           NobodyRenews => NobodyRenews'
    PROVE  WebInv'
<1>1. RenewalState' = RenewalState /\ Cookie' = Cookie
  BY DEF RenewalState, Cookie
<1>2. WebTyped'
  BY <1>1 DEF WebInv, WebTyped
<1>3. \A r \in Calls \cup {Startup} : InHand(r)' = InHand(r)
  BY DEF InHand
<1>4. ASSUME Honest
      PROVE  Honest'
  <2>1. HandsApart'
    BY <1>3, <1>4 DEF Honest, HandsApart
  <2>2. OneRenews'
    BY <1>4 DEF Honest, OneRenews
  <2>3. cookie' # None /\ Spent(cookie)' => cookie # None /\ Spent(cookie)
    BY <1>3 DEF Spent
  <2>. QED
    BY <1>4, <2>1, <2>2, <2>3 DEF Honest
<1>. QED
  BY <1>2, <1>4 DEF WebInv

LEMMA CallsSafe ==
    ASSUME WebInv, NEW c \in Calls,
           \/ \E kind \in Kinds : Send(c, kind)
           \/ AnswerCall(c) \/ ReceiveCall(c) \/ FailCall(c)
    PROVE  WebInv'
<1>1. UNCHANGED <<inFlight, renewals, begun, theft, abandoned>> /\ cookie' \in {cookie, None}
  BY DEF Send, AnswerCall, ReceiveCall, FailCall, Settle, server
<1>2. status = "signed_in" \/ calls[c] # Resting
  <2>1. calls[c].stage # "resting" => calls[c] # Resting
    BY DEF Resting
  <2>2. CASE \E kind \in Kinds : Send(c, kind)
    BY <2>2 DEF Send
  <2>3. CASE AnswerCall(c)
    BY <2>1, <2>3 DEF AnswerCall
  <2>4. CASE ReceiveCall(c) \/ FailCall(c)
    <3>1. calls[c].stage \in {"sent", "expired", "refused", "served"}
      BY <2>4 DEF ReceiveCall, FailCall
    <3>. QED
      BY <2>1, <3>1
  <2>. QED
    BY <2>2, <2>3, <2>4
<1>3. NobodyRenews => NobodyRenews'
  BY <1>1, <1>2 DEF NobodyRenews
<1>. QED
  BY <1>1, <1>3, QuietCalls

\* A call that expired waits for the renewal that is out, or begins one with a cookie that
\* is in nobody's hands (auth-token.ts:39-53).
LEMMA AwaitRenewalSafe ==
    ASSUME WebInv, NEW c \in Calls, AwaitRenewal(c)
    PROVE  WebInv'
<1>. DEFINE r == RenewalFor(c)
<1>1. /\ calls[c] # Resting
      /\ inFlight' = r
      /\ UNCHANGED <<status, accessToken, cookie, server, abandoned>>
  BY DEF AwaitRenewal, WorthRenewal, Resting
<1>2. WebTyped
  BY DEF WebInv
<1>3. CASE renewals[r] # Resting
  <2>1. renewals' = renewals
    BY <1>3 DEF AwaitRenewal
  <2>2. RenewalState' = RenewalState /\ Cookie' = Cookie
    BY <1>1 DEF RenewalState, Cookie, server
  <2>3. WebTyped'
    BY <1>1, <1>2, <2>1, <2>2 DEF WebTyped, server
  <2>4. ASSUME Honest
        PROVE  Honest'
    <3>1. inFlight' = inFlight /\ inFlight # None
      BY <1>1, <1>3, <2>4, WebAssumption DEF RenewalFor, Honest, OneRenews
    <3>2. \A q \in Calls \cup {Startup} : InHand(q)' = InHand(q)
      BY <2>1 DEF InHand
    <3>3. HandsApart'
      BY <2>4, <3>2 DEF Honest, HandsApart
    <3>4. OneRenews'
      BY <2>1, <2>4, <3>1 DEF Honest, OneRenews
    <3>5. NobodyRenews'
      BY <3>1 DEF NobodyRenews
    <3>. QED
      BY <1>1, <2>4, <3>3, <3>4, <3>5 DEF Honest, server
  <2>. QED
    BY <1>1, <2>3, <2>4 DEF WebInv
<1>4. CASE renewals[r] = Resting /\ Honest
  <2>1. inFlight = None /\ r = c
    BY <1>4 DEF RenewalFor, Honest, OneRenews
  <2>2. renewals' = [renewals EXCEPT ![c] = Renewal(cookie)]
    BY <1>4, <2>1 DEF AwaitRenewal
  <2>3. cookie # None => ~Spent(cookie)
    BY <1>1, <1>4, <2>1 DEF Honest, NobodyRenews
  <2>4. WebTyped' /\ HandsApart'
    BY <1>1, <1>2, <1>4, <2>1, <2>2, <2>3, RenewalBegins DEF Honest, server
  <2>5. /\ renewals'[c] # Resting
        /\ \A q \in Calls \ {c} : renewals'[q] = renewals[q]
    BY <1>2, <2>2 DEF WebTyped, Renewal, Resting
  <2>6. inFlight' = c /\ inFlight' # None
    BY <1>1, <2>1, WebAssumption
  <2>7. OneRenews'
    BY <1>4, <2>1, <2>5, <2>6, WebAssumption DEF Honest, OneRenews
  <2>8. NobodyRenews'
    BY <2>6 DEF NobodyRenews
  <2>. QED
    BY <1>1, <1>4, <2>4, <2>7, <2>8 DEF WebInv, Honest, server
<1>5. CASE abandoned /\ renewals[r] = Resting
  <2>1. renewals' = [renewals EXCEPT ![r] = Renewal(cookie)]
    BY <1>5 DEF AwaitRenewal
  <2>2. /\ Renewal(cookie) \in RenewalState
        /\ RenewalState' = RenewalState /\ Cookie' = Cookie
    BY <1>1, <1>2 DEF WebTyped, Renewal, RenewalState, Cookie, server
  <2>3. WebTyped'
    BY <1>1, <1>2, <2>1, <2>2 DEF WebTyped, server
  <2>. QED
    BY <1>1, <1>5, <2>3 DEF WebInv
<1>. QED
  BY <1>3, <1>4, <1>5 DEF WebInv

\* A new session has a cookie that no renewal can have in hand.
LEMMA SignInSafe ==
    ASSUME WebInv, SignIn
    PROVE  WebInv'
<1>. DEFINE n == Cardinality(begun)
            new == [session |-> n + 1, used |-> FALSE]
<1>1. /\ begun' = begun \cup {n + 1}
      /\ cookie' = new
      /\ UNCHANGED <<inFlight, calls, renewals, ended, abandoned, theft>>
  BY DEF SignIn
<1>2. WebTyped /\ n \in Nat /\ begun = 1 .. n
  BY DEF WebInv, WebTyped
<1>3. n + 1 \notin begun /\ begun' = 1 .. n + 1
  BY <1>1, <1>2
<1>4. Cardinality(begun') = n + 1
  BY <1>2, <1>3, FS_Interval
<1>5. Cookie \subseteq Cookie' /\ new \in Cookie'
  BY <1>1 DEF Cookie
<1>6. RenewalState \subseteq RenewalState'
  BY <1>5 DEF RenewalState
<1>7. WebTyped'
  BY <1>1, <1>2, <1>3, <1>4, <1>5, <1>6 DEF WebTyped
<1>8. \A r \in Calls \cup {Startup} : InHand(r)' = InHand(r)
  BY <1>1 DEF InHand
<1>9. ASSUME Honest
      PROVE  Honest'
  <2>1. HandsApart'
    BY <1>8, <1>9 DEF Honest, HandsApart
  <2>2. OneRenews'
    BY <1>1, <1>9 DEF Honest, OneRenews
  <2>3. \A r \in Calls \cup {Startup} : InHand(r) # None => InHand(r).session # n + 1
    BY <1>2, <1>3, InHandType DEF Cookie
  <2>4. ~Spent(cookie)'
    BY <1>1, <1>8, <2>3 DEF Spent
  <2>. QED
    BY <1>1, <1>9, <2>1, <2>2, <2>4 DEF Honest
<1>. QED
  BY <1>1, <1>7, <1>9 DEF WebInv

LEMMA EndSessionSafe ==
    ASSUME WebInv, NEW s, EndSession(s)
    PROVE  WebInv'
<1>1. UNCHANGED <<client, renewals, cookie, begun, abandoned, theft>>
  BY DEF EndSession
<1>2. NobodyRenews => NobodyRenews'
  BY <1>1 DEF NobodyRenews, client
<1>. QED
  BY <1>1, <1>2, QuietCalls DEF client

-----------------------------------------------------------------------------
(* The page is loaded *)

\* Only the renewal at startup is out, and it shows the cookie as it is.
LEMMA LoadedHonestly ==
    ASSUME ~theft, status = "unknown", inFlight = None,
           \A c \in Calls : calls[c] = Resting,
           renewals = [r \in Calls \cup {Startup} |->
                          IF r = Startup THEN Renewal(cookie) ELSE Resting],
           cookie # None => ~cookie.used
    PROVE  Honest
<1>1. /\ renewals[Startup] = [stage |-> "sent", presented |-> cookie]
      /\ \A c \in Calls : renewals[c] = Resting
  BY WebAssumption DEF Renewal
<1>2. /\ InHand(Startup) = cookie /\ renewals[Startup] # Resting
      /\ \A c \in Calls : InHand(c) = None
  BY <1>1 DEF InHand, Resting
<1>3. HandsApart
  BY <1>2 DEF HandsApart
<1>4. OneRenews
  BY <1>1 DEF OneRenews
<1>5. NobodyRenews
  BY <1>2 DEF NobodyRenews
<1>. QED
  BY <1>3, <1>4, <1>5 DEF Honest

LEMMA LoadedTyped ==
    ASSUME cookie \in Cookie \cup {None},
           renewals = [r \in Calls \cup {Startup} |->
                          IF r = Startup THEN Renewal(cookie) ELSE Resting]
    PROVE  renewals \in [Calls \cup {Startup} -> RenewalState]
  BY DEF Renewal, RenewalState

LEMMA WebInitSafe == WebInit => WebInv
<1>. SUFFICES ASSUME WebInit
              PROVE  WebInv
  OBVIOUS
<1>. DEFINE first == [session |-> 1, used |-> FALSE]
<1>1. cookie \in {None, first}
  BY DEF WebInit
<1>2. /\ begun = 1 .. Cardinality(begun) /\ Cardinality(begun) \in Nat
      /\ cookie \in Cookie \cup {None}
  <2>1. CASE cookie = None
    <3>1. begun = {}
      BY <2>1 DEF WebInit
    <3>. QED
      BY <2>1, <3>1, FS_EmptySet
  <2>2. CASE cookie # None
    <3>1. cookie = first /\ begun = {1}
      BY <1>1, <2>2 DEF WebInit
    <3>2. Cardinality(begun) = 1
      BY <3>1, FS_Singleton
    <3>. QED
      BY <3>1, <3>2 DEF Cookie
  <2>. QED
    BY <2>1, <2>2
<1>3. renewals = [r \in Calls \cup {Startup} |->
                     IF r = Startup THEN Renewal(cookie) ELSE Resting]
  BY DEF WebInit
<1>4. WebTyped
  BY <1>2, <1>3, LoadedTyped DEF WebTyped
<1>5. Honest
  BY <1>1, <1>3, LoadedHonestly DEF WebInit
<1>. QED
  BY <1>4, <1>5 DEF WebInv

LEMMA ReloadSafe ==
    ASSUME WebInv, Reload
    PROVE  WebInv'
<1>1. /\ renewals' = [r \in Calls \cup {Startup} |->
                         IF r = Startup THEN Renewal(cookie') ELSE Resting]
      /\ status' = "unknown" /\ inFlight' = None
      /\ \A c \in Calls : calls'[c] = Resting
      /\ abandoned' = (abandoned \/ \E r \in Calls \cup {Startup} : renewals[r] # Resting)
      /\ UNCHANGED <<cookie, begun, theft>>
  BY DEF Reload, WebInv, WebTyped, server
<1>2. RenewalState' = RenewalState /\ Cookie' = Cookie
  BY <1>1 DEF RenewalState, Cookie
<1>3. cookie' \in Cookie' \cup {None}
  BY <1>1, <1>2 DEF WebInv, WebTyped
<1>4. (renewals \in [Calls \cup {Startup} -> RenewalState])'
  BY <1>1, <1>3 DEF Renewal, RenewalState
<1>5. WebTyped'
  BY <1>1, <1>2, <1>4 DEF WebInv, WebTyped
<1>6. ASSUME ~abandoned'
      PROVE  Honest'
  <2>1. Honest /\ \A r \in Calls \cup {Startup} : renewals[r] = Resting
    BY <1>1, <1>6 DEF WebInv
  <2>2. inFlight = None /\ ~NobodyRenews
    BY <2>1 DEF Honest, OneRenews, NobodyRenews
  <2>3. cookie' # None => ~cookie'.used
    BY <1>1, <2>1, <2>2 DEF Honest, Spent
  <2>4. /\ renewals'[Startup] = [stage |-> "sent", presented |-> cookie']
        /\ \A c \in Calls : renewals'[c] = Resting
    BY <1>1, WebAssumption DEF Renewal
  <2>5. /\ InHand(Startup)' = cookie' /\ renewals'[Startup] # Resting
        /\ \A c \in Calls : InHand(c)' = None
    BY <2>4 DEF InHand, Resting
  <2>6. HandsApart'
    BY <2>3, <2>5 DEF HandsApart
  <2>7. OneRenews'
    BY <1>1, <2>4 DEF OneRenews
  <2>8. NobodyRenews'
    BY <1>1, <2>5 DEF NobodyRenews
  <2>. QED
    BY <1>1, <2>1, <2>6, <2>7, <2>8 DEF Honest
<1>. QED
  BY <1>5, <1>6 DEF WebInv

LEMMA WebInvariance == WebSpec => []WebInv
<1>1. ASSUME WebInv, [WebNext]_web
      PROVE  WebInv'
  <2>1. CASE UNCHANGED web
    <3>1. NobodyRenews => NobodyRenews'
      BY <2>1 DEF NobodyRenews, web, client
    <3>. QED
      BY <1>1, <2>1, <3>1, QuietCalls DEF web, client, server
  <2>. QED
    BY <1>1, <2>1, SignInSafe, EndSessionSafe, AnswerRenewalSafe, ReceiveRenewalSafe,
       FailRenewalSafe, CallsSafe, AwaitRenewalSafe, ReloadSafe DEF WebNext
<1>. QED
  BY <1>1, WebInitSafe, PTL DEF WebSpec

\* Whatever calls expire together, and whoever signs in while a renewal is out, the server is
\* shown no refresh token twice, unless the client gave up on a renewal (auth-token.ts:39-46).
THEOREM NobodyPassesForAThief == WebSpec => []RenewalsAreNotTheft
<1>1. WebInv => RenewalsAreNotTheft
  BY DEF WebInv, Honest, RenewalsAreNotTheft
<1>. QED
  BY <1>1, WebInvariance, PTL

-----------------------------------------------------------------------------
(* Whoever waits waits for a renewal that is out *)

Token == begun \cup {None}

Call ==
    {Resting}
        \cup [stage : {"sent", "expired", "refused", "served"}, kind : Kinds, token : Token,
              retried : BOOLEAN]
        \cup [stage : {"waiting"}, kind : Kinds, for : Calls]

ClientTyped ==
    /\ status \in {"unknown", "signed_in", "signed_out"}
    /\ accessToken \in Token
    /\ inFlight \in Calls \cup {None}
    /\ calls \in [Calls -> Call]
    /\ ended \subseteq begun
    /\ abandoned \in BOOLEAN /\ theft \in BOOLEAN

\* A call waits for the shared renewal, and that is out: so it is also when the client has
\* given up on one.
WaitInv ==
    /\ ClientTyped
    /\ OneRenews
    /\ \A c \in Calls : calls[c].stage = "waiting" => inFlight # None /\ calls[c].for = inFlight

\* What the sessions there have been grow by is no less of a type.
LEMMA CallForms ==
    ASSUME ClientTyped, NEW c \in Calls
    PROVE  /\ calls[c].stage \in {"sent", "expired", "refused", "served"} =>
                calls[c] = [stage |-> calls[c].stage, kind |-> calls[c].kind,
                            token |-> calls[c].token, retried |-> calls[c].retried]
                /\ calls[c].kind \in Kinds /\ calls[c].token \in Token
                /\ calls[c].retried \in BOOLEAN
           /\ calls[c].stage = "waiting" => calls[c].kind \in Kinds /\ calls[c].for \in Calls
           /\ calls[c].stage \in {"resting", "sent", "expired", "refused", "served", "waiting"}
<1>1. calls[c] \in Call
  BY DEF ClientTyped
<1>. QED
  BY <1>1 DEF Call, Resting

\* One call changes.
LEMMA CallChanges ==
    ASSUME ClientTyped, NEW c \in Calls, NEW call \in Call, calls' = [calls EXCEPT ![c] = call],
           UNCHANGED <<begun, abandoned, theft>>, status' \in {status, "signed_out"},
           accessToken' \in {accessToken, None}, inFlight' \in Calls \cup {None},
           ended' \subseteq begun
    PROVE  ClientTyped'
<1>1. Token' = Token
  BY DEF Token
<1>2. Call' = Call
  BY <1>1 DEF Call
<1>. QED
  BY <1>1, <1>2 DEF ClientTyped, Token

\* A renewal ends, and the calls that waited for it go on.
LEMMA RenewalEndsWaiting ==
    ASSUME WebInv, WaitInv, NEW r \in Calls \cup {Startup}, NEW session \in Token,
           renewals' = [renewals EXCEPT ![r] = Resting], Resumed(r, session),
           SignedOut \/ SignedIn(session), UNCHANGED server, abandoned' \in BOOLEAN
    PROVE  WaitInv'
<1>1. /\ renewals'[r] = Resting
      /\ \A q \in (Calls \cup {Startup}) \ {r} : renewals'[q] = renewals[q]
  BY DEF WebInv, WebTyped
<1>2. OneRenews'
  BY <1>1, WebAssumption DEF WaitInv, OneRenews, Resumed
<1>3. ASSUME NEW c \in Calls, calls'[c].stage = "waiting"
      PROVE  inFlight' # None /\ calls'[c].for = inFlight'
  <2>1. ~(calls[c].stage = "waiting" /\ calls[c].for = r)
    BY <1>3 DEF Resumed, Resting
  <2>2. calls'[c] = calls[c]
    BY <2>1 DEF Resumed
  <2>. QED
    BY <1>3, <2>1, <2>2 DEF WaitInv, Resumed
<1>4. Token' = Token /\ Call' = Call
  BY DEF Token, Call, server
<1>5. calls' \in [Calls -> Call]
  <2>1. ASSUME NEW c \in Calls
        PROVE  /\ calls[c] \in Call
               /\ calls[c].stage = "waiting" =>
                    [stage |-> "sent", kind |-> calls[c].kind, token |-> session,
                     retried |-> TRUE] \in Call
    BY CallForms DEF WaitInv, ClientTyped, Call
  <2>2. Resting \in Call
    BY DEF Call
  <2>. QED
    BY <2>1, <2>2 DEF Resumed
<1>6. ClientTyped'
  BY <1>4, <1>5 DEF WaitInv, ClientTyped, Token, Resumed, SignedIn, SignedOut, server
<1>. QED
  BY <1>2, <1>3, <1>6 DEF WaitInv

LEMMA AwaitRenewalWaits ==
    ASSUME WebInv, WaitInv, NEW c \in Calls, AwaitRenewal(c)
    PROVE  WaitInv'
<1>. DEFINE r == RenewalFor(c)
            call == [stage |-> "waiting", kind |-> calls[c].kind, for |-> r]
<1>1. /\ inFlight' = r
      /\ calls' = [calls EXCEPT ![c] = call]
      /\ renewals' =
           IF renewals[r] = Resting THEN [renewals EXCEPT ![r] = Renewal(cookie)] ELSE renewals
      /\ calls[c].stage = "expired"
      /\ UNCHANGED <<status, accessToken, cookie, server, abandoned>>
  BY DEF AwaitRenewal, WorthRenewal
<1>2. r \in Calls /\ r # None
  BY WebAssumption DEF RenewalFor, WaitInv, OneRenews
<1>3. /\ calls'[c].for = r
      /\ \A d \in Calls \ {c} : calls'[d] = calls[d]
  BY <1>1 DEF WaitInv, ClientTyped
<1>4. renewals'[r] # Resting /\ \A q \in Calls \ {r} : renewals'[q] = renewals[q]
  BY <1>1, <1>2 DEF WebInv, WebTyped, Renewal, Resting
<1>5. \A q \in Calls \ {r} : renewals[q] = Resting
  BY WebAssumption DEF WaitInv, OneRenews, RenewalFor
<1>6. OneRenews'
  BY <1>1, <1>2, <1>4, <1>5 DEF OneRenews
<1>7. \A d \in Calls \ {c} : calls[d].stage = "waiting" => inFlight = r
  BY DEF WaitInv, RenewalFor
<1>8. call \in Call
  BY <1>1, <1>2, CallForms DEF WaitInv, Call
<1>9. ClientTyped'
  BY <1>1, <1>2, <1>8, CallChanges DEF WaitInv, ClientTyped, server
<1>. QED
  BY <1>1, <1>2, <1>3, <1>6, <1>7, <1>9 DEF WaitInv

LEMMA WaitStep ==
    ASSUME WebInv, WaitInv, [WebNext]_web
    PROVE  WaitInv'
<1>1. ASSUME UNCHANGED <<inFlight, renewals, calls>>, ClientTyped'
      PROVE  WaitInv'
  BY <1>1 DEF WaitInv, OneRenews
<1>2. CASE SignIn \/ \E s \in SessionIds : EndSession(s)
  <2>1. UNCHANGED <<inFlight, renewals, calls, abandoned, theft>>
    BY <1>2 DEF SignIn, EndSession, client
  <2>2. begun \subseteq begun' /\ ended' \subseteq begun'
    BY <1>2 DEF SignIn, EndSession, WaitInv, ClientTyped
  <2>3. Token \subseteq Token'
    BY <2>2 DEF Token
  <2>4. Call \subseteq Call'
    BY <2>3 DEF Call
  <2>5. status' \in {status, "signed_in"} /\ accessToken' \in Token'
    <3>1. CASE SignIn
      BY <3>1 DEF SignIn, SignedIn, Token
    <3>2. CASE \E s \in SessionIds : EndSession(s)
      BY <2>3, <3>2 DEF EndSession, client, WaitInv, ClientTyped
    <3>. QED
      BY <1>2, <3>1, <3>2
  <2>6. ClientTyped'
    BY <2>1, <2>2, <2>4, <2>5 DEF WaitInv, ClientTyped
  <2>. QED
    BY <1>1, <2>1, <2>6
<1>3. ASSUME NEW r \in Calls \cup {Startup}, AnswerRenewal(r)
      PROVE  WaitInv'
  <2>1. UNCHANGED <<inFlight, calls>>
    BY <1>3 DEF AnswerRenewal, client
  <2>3. ClientTyped'
    <3>1. /\ UNCHANGED <<status, accessToken, inFlight, calls, abandoned, begun>>
          /\ theft' = (theft \/ (renewals[r].presented # None /\ renewals[r].presented.used))
          /\ ended' \subseteq ended \cup
                 (IF renewals[r].presented = None THEN {} ELSE {renewals[r].presented.session})
          /\ renewals[r].stage = "sent"
      BY <1>3 DEF AnswerRenewal, Presented, client
    <3>2. renewals[r].presented \in Cookie \cup {None}
      BY <3>1, InHandType DEF WebInv
    <3>3. ended' \subseteq begun
      BY <3>1, <3>2 DEF Cookie, WaitInv, ClientTyped
    <3>4. Token' = Token /\ Call' = Call
      BY <3>1 DEF Token, Call
    <3>. QED
      BY <3>1, <3>3, <3>4 DEF WaitInv, ClientTyped
  <2>2. \A q \in Calls : renewals'[q] = Resting <=> renewals[q] = Resting
    <3>1. DOMAIN renewals = Calls \cup {Startup} /\ renewals[r].stage = "sent"
      BY <1>3 DEF WebInv, WebTyped, AnswerRenewal
    <3>2. ASSUME NEW q \in Calls, NEW s
          PROVE  RenewalUsedUp(renewals[q], s) = Resting <=> renewals[q] = Resting
      <4>1. RenewalUsedUp(renewals[q], s).stage = renewals[q].stage
        BY OthersInHand DEF WebInv
      <4>2. RenewalUsedUp(renewals[q], s) \in RenewalState
        BY OthersInHand DEF WebInv
      <4>3. \A x \in RenewalState : x.stage = "resting" <=> x = Resting
        BY DEF RenewalState, Resting
      <4>4. renewals[q] \in RenewalState
        BY DEF WebInv, WebTyped
      <4>. QED
        BY <4>1, <4>2, <4>3, <4>4
    <3>3. CASE ~Rotatable(renewals[r].presented)
      <4>1. renewals' = [renewals EXCEPT ![r] = [stage |-> "answered", granted |-> None]]
        BY <1>3, <3>3 DEF AnswerRenewal
      <4>. QED
        BY <3>1, <4>1 DEF Resting
    <3>4. CASE Rotatable(renewals[r].presented)
      <4>. DEFINE s == renewals[r].presented.session
                  fresh == [stage |-> "answered", granted |-> [session |-> s, used |-> FALSE]]
      <4>1. renewals' = [q \in DOMAIN renewals |->
                             IF q = r THEN fresh ELSE RenewalUsedUp(renewals[q], s)]
        BY <1>3, <3>4 DEF AnswerRenewal
      <4>2. renewals'[r] = fresh /\ \A q \in Calls \ {r} :
                renewals'[q] = RenewalUsedUp(renewals[q], s)
        BY <3>1, <4>1
      <4>3. fresh # Resting /\ renewals[r] # Resting
        BY <3>1 DEF Resting
      <4>. QED
        BY <3>2, <4>2, <4>3
    <3>. QED
      BY <3>3, <3>4
  <2>. QED
    BY <2>1, <2>2, <2>3 DEF WaitInv, OneRenews
<1>4. ASSUME NEW r \in Calls \cup {Startup}, ReceiveRenewal(r) \/ FailRenewal(r)
      PROVE  WaitInv'
  <2>1. CASE ReceiveRenewal(r)
    <3>1. renewals[r].granted \in Cookie \cup {None}
      BY <2>1, InHandType DEF ReceiveRenewal, WebInv
    <3>2. PICK session \in Token : /\ Resumed(r, session)
                                   /\ SignedOut \/ SignedIn(session)
      BY <2>1, <3>1 DEF ReceiveRenewal, Token, Cookie
    <3>. QED
      BY <2>1, <3>2, RenewalEndsWaiting DEF ReceiveRenewal, WaitInv, ClientTyped
  <2>2. CASE FailRenewal(r)
    BY <2>2, RenewalEndsWaiting DEF FailRenewal, Token
  <2>. QED
    BY <1>4, <2>1, <2>2
<1>5. ASSUME NEW c \in Calls,
             \/ \E kind \in Kinds : Send(c, kind)
             \/ AnswerCall(c) \/ ReceiveCall(c) \/ FailCall(c)
      PROVE  WaitInv'
  <2>1. UNCHANGED <<inFlight, renewals>>
    BY <1>5 DEF Send, AnswerCall, ReceiveCall, FailCall, Settle
  <2>2. \E call \in Call : calls' = [calls EXCEPT ![c] = call] /\ call.stage # "waiting"
    <3>1. ASSUME NEW kind \in Kinds, Send(c, kind)
          PROVE  \E call \in Call : calls' = [calls EXCEPT ![c] = call] /\ call.stage # "waiting"
      <4>. DEFINE call == [stage |-> "sent", kind |-> kind, token |-> accessToken,
                           retried |-> FALSE]
      <4>1. calls' = [calls EXCEPT ![c] = call] /\ call \in Call
        BY <3>1 DEF Send, Call, WaitInv, ClientTyped
      <4>. QED
        BY <4>1
    <3>2. CASE AnswerCall(c)
      <4>1. PICK s \in {"expired", "refused", "served"} :
                calls' = [calls EXCEPT ![c] = [calls[c] EXCEPT !.stage = s]]
        BY <3>2 DEF AnswerCall
      <4>2. calls[c].stage = "sent"
        BY <3>2 DEF AnswerCall
      <4>3. PICK kind \in Kinds, token \in Token, retried \in BOOLEAN :
                calls[c] = [stage |-> "sent", kind |-> kind, token |-> token,
                            retried |-> retried]
        <5>1. ClientTyped
          BY DEF WaitInv
        <5>2. /\ calls[c] = [stage |-> calls[c].stage, kind |-> calls[c].kind,
                             token |-> calls[c].token, retried |-> calls[c].retried]
              /\ calls[c].kind \in Kinds /\ calls[c].token \in Token
              /\ calls[c].retried \in BOOLEAN
          BY <4>2, <5>1, CallForms
        <5>. QED
          BY <4>2, <5>2
      <4>. DEFINE call == [stage |-> s, kind |-> kind, token |-> token, retried |-> retried]
      <4>4. [calls[c] EXCEPT !.stage = s] = call
        BY <4>3
      <4>5. call \in Call /\ call.stage # "waiting"
        BY DEF Call
      <4>. QED
        BY <4>1, <4>4, <4>5
    <3>3. CASE ReceiveCall(c) \/ FailCall(c)
      BY <3>3 DEF ReceiveCall, FailCall, Settle, Resting, Call
    <3>. QED
      BY <1>5, <3>1, <3>2, <3>3
  <2>3. /\ UNCHANGED <<begun, abandoned, theft>>
        /\ status' \in {status, "signed_out"} /\ accessToken' \in {accessToken, None}
    BY <1>5 DEF Send, AnswerCall, ReceiveCall, FailCall, Settle, SignedOut, server
  <2>4. ended' \subseteq begun
    <3>1. CASE AnswerCall(c)
      <4>1. ended' \in {ended, ended \cup {calls[c].token}}
        BY <3>1 DEF AnswerCall
      <4>2. ended' # ended => calls[c].token # None
        BY <3>1 DEF AnswerCall
      <4>3. calls[c].token \in Token
        BY <3>1, CallForms DEF AnswerCall, WaitInv
      <4>. QED
        BY <4>1, <4>2, <4>3 DEF Token, WaitInv, ClientTyped
    <3>2. CASE ~AnswerCall(c)
      BY <1>5, <3>2 DEF Send, ReceiveCall, FailCall, Settle, server, WaitInv, ClientTyped
    <3>. QED
      BY <3>1, <3>2
  <2>5. PICK call \in Call : calls' = [calls EXCEPT ![c] = call] /\ call.stage # "waiting"
    BY <2>2
  <2>6. ClientTyped'
    BY <2>1, <2>3, <2>4, <2>5, CallChanges DEF WaitInv, ClientTyped
  <2>. QED
    BY <2>1, <2>5, <2>6 DEF WaitInv, OneRenews, ClientTyped
<1>6. CASE \E c \in Calls : AwaitRenewal(c)
  BY <1>6, AwaitRenewalWaits
<1>7. CASE Reload
  <2>1. /\ inFlight' = None
        /\ calls' = [c \in Calls |-> Resting]
        /\ renewals' = [r \in DOMAIN renewals |->
                            IF r = Startup THEN Renewal(cookie) ELSE Resting]
        /\ DOMAIN renewals = Calls \cup {Startup}
        /\ status' = "unknown" /\ accessToken' = None
        /\ abandoned' \in BOOLEAN /\ UNCHANGED server
    BY <1>7 DEF Reload, WebInv, WebTyped, WaitInv, ClientTyped
  <2>2. ClientTyped'
    BY <2>1 DEF ClientTyped, Token, Call, server, WaitInv
  <2>. QED
    BY <2>1, <2>2, WebAssumption DEF WaitInv, OneRenews, Resting
<1>8. CASE UNCHANGED web
  <2>1. Token' = Token
    BY <1>8 DEF web, server, Token
  <2>2. Call' = Call
    BY <2>1 DEF Call
  <2>3. ClientTyped'
    BY <1>8, <2>1, <2>2 DEF web, client, server, WaitInv, ClientTyped
  <2>. QED
    BY <1>1, <1>8, <2>3 DEF web, client
<1>. QED
  BY <1>2, <1>3, <1>4, <1>5, <1>6, <1>7, <1>8 DEF WebNext

\* A call that waits for a renewal waits for one that is out, and that will be answered,
\* fail or time out: whatever is shared, abandoned, or begun while another one ends, nobody
\* waits for a renewal that is over (auth-token.ts:39-53, api-client.ts:270-294).
THEOREM NobodyWaitsInVain ==
    WebSpec => [](\A c \in Calls : calls[c].stage = "waiting" =>
                      calls[c].for \in Calls /\ renewals[calls[c].for] # Resting)
<1>1. WebInit => WaitInv
  <2>. SUFFICES ASSUME WebInit
                PROVE  WaitInv
    OBVIOUS
  <2>1. \A c \in Calls : renewals[c] = Resting /\ calls[c] = Resting
    BY WebAssumption DEF WebInit
  <2>2. Resting \in Call
    BY DEF Call
  <2>3. ClientTyped
    BY <2>2 DEF WebInit, ClientTyped, Token
  <2>. QED
    BY <2>1, <2>3 DEF WebInit, WaitInv, OneRenews, Resting
<1>2. WebInv /\ WaitInv /\ [WebNext]_web => WaitInv'
  BY WaitStep
<1>3. WaitInv => \A c \in Calls : calls[c].stage = "waiting" =>
                     calls[c].for \in Calls /\ renewals[calls[c].for] # Resting
  BY DEF WaitInv, OneRenews
<1>. QED
  BY <1>1, <1>2, <1>3, WebInvariance, PTL DEF WebSpec

-----------------------------------------------------------------------------
(* Lists *)

FetchState == [key : Keys, read : Nat \cup {Null}, cancelled : BOOLEAN]

Resource ==
    [status : {"loading", "success", "error"}, isRefreshing : BOOLEAN,
     data : [key : Keys, row : Nat] \cup {Null}]

\* A fetch that was not cancelled is for the key of now, and has read no less than the
\* last action is known to have done.
ListInv ==
    /\ key \in Keys
    /\ row \in Nat /\ seen \in Nat /\ seen <= row
    /\ fetches \subseteq FetchState
    /\ resource \in Resource
    /\ \A f \in fetches :
         ~f.cancelled => f.key = key /\ (f.read # Null => f.read >= seen)
    /\ ListIsFresh

\* A fetch leaves only itself to be heard, and the list to be waited for.
LEMMA FetchSafe ==
    ASSUME ListInv, Fetch(key'), key' \in Keys, row' = row, seen' \in {seen, row}
    PROVE  ListInv'
<1>. DEFINE new == [key |-> key', read |-> Null, cancelled |-> FALSE]
<1>1. fetches' = {[f EXCEPT !.cancelled = TRUE] : f \in fetches} \cup {new}
  BY DEF Fetch
<1>2. \A f \in fetches : /\ [f EXCEPT !.cancelled = TRUE] \in FetchState
                         /\ [f EXCEPT !.cancelled = TRUE].cancelled
  BY DEF ListInv, FetchState
<1>3. new \in FetchState
  BY DEF FetchState
<1>4. fetches' \subseteq FetchState /\ \A f \in fetches' : ~f.cancelled => f = new
  BY <1>1, <1>2, <1>3
<1>5. resource' \in Resource /\ (resource'.isRefreshing \/ resource'.status = "loading")
  BY DEF Fetch, ListInv, Resource
<1>. QED
  BY <1>4, <1>5 DEF ListInv, ListIsFresh

LEMMA ReadForFetchSafe ==
    ASSUME ListInv, NEW f \in fetches, ReadForFetch(f)
    PROVE  ListInv'
<1>. DEFINE g == [f EXCEPT !.read = row]
<1>1. fetches' = (fetches \ {f}) \cup {g} /\ UNCHANGED <<key, resource, row, seen>>
  BY DEF ReadForFetch
<1>2. g \in FetchState /\ g.key = f.key /\ g.cancelled = f.cancelled /\ g.read = row
  BY DEF ListInv, FetchState
<1>3. fetches' \subseteq FetchState
  BY <1>1, <1>2 DEF ListInv
<1>4. \A h \in fetches' : ~h.cancelled => h.key = key /\ (h.read # Null => h.read >= seen)
  BY <1>1, <1>2 DEF ListInv
<1>. QED
  BY <1>1, <1>3, <1>4 DEF ListInv, ListIsFresh

LEMMA FetchSettles ==
    ASSUME ListInv, NEW f \in fetches, FetchDone(f) \/ FetchFailed(f)
    PROVE  ListInv'
<1>1. fetches' = fetches \ {f} /\ UNCHANGED <<key, row, seen>>
  BY DEF FetchDone, FetchFailed
<1>2. f \in FetchState
  BY DEF ListInv
<1>3. CASE f.cancelled
  <2>1. resource' = resource
    BY <1>3 DEF FetchDone, FetchFailed, Cancelled
  <2>. QED
    BY <1>1, <2>1 DEF ListInv, ListIsFresh
<1>4. CASE ~f.cancelled /\ FetchDone(f)
  <2>1. /\ f.read # Null
        /\ resource' = [status |-> "success", isRefreshing |-> FALSE,
                        data |-> [key |-> f.key, row |-> f.read]]
    BY <1>4 DEF FetchDone, Cancelled
  <2>2. [key |-> f.key, row |-> f.read] \in [key : Keys, row : Nat]
    BY <1>2, <2>1 DEF FetchState
  <2>3. f.key = key /\ f.read >= seen
    BY <1>4, <2>1 DEF ListInv
  <2>4. resource' \in Resource
    BY <2>1, <2>2 DEF Resource
  <2>5. ListIsFresh'
    BY <1>1, <2>1, <2>3 DEF ListIsFresh
  <2>. QED
    BY <1>1, <2>4, <2>5 DEF ListInv
<1>5. CASE ~f.cancelled /\ FetchFailed(f)
  <2>1. resource' \in Resource /\ resource'.status = "error"
    BY <1>5 DEF FetchFailed, Cancelled, ListInv, Resource
  <2>. QED
    BY <1>1, <2>1 DEF ListInv, ListIsFresh
<1>. QED
  BY <1>3, <1>4, <1>5

LEMMA ListStepSafe ==
    ASSUME ListInv, ListNext
    PROVE  ListInv'
<1>1. ASSUME NEW k \in Keys, ChangeKey(k)
      PROVE  ListInv'
  BY <1>1, FetchSafe DEF ChangeKey
<1>2. ASSUME Refresh
      PROVE  ListInv'
  <2>1. key' = key /\ key \in Keys
    BY <1>2 DEF Refresh, ListInv
  <2>. QED
    BY <1>2, <2>1, FetchSafe DEF Refresh
<1>3. ASSUME Act
      PROVE  ListInv'
  BY <1>3 DEF Act, ListInv, ListIsFresh
<1>4. ASSUME NEW a \in actions, ServeAction(a)
      PROVE  ListInv'
  <2>1. row' = row + 1 /\ UNCHANGED <<key, resource, fetches, seen>>
    BY <1>4 DEF ServeAction
  <2>. QED
    BY <2>1 DEF ListInv, ListIsFresh
<1>5. ASSUME NEW a \in actions, ActionDone(a)
      PROVE  ListInv'
  <2>1. key' = key /\ key \in Keys
    BY <1>5 DEF ActionDone, ListInv
  <2>. QED
    BY <1>5, <2>1, FetchSafe DEF ActionDone
<1>6. ASSUME NEW a \in actions, ActionFailed(a)
      PROVE  ListInv'
  <2>1. key' = key /\ key \in Keys /\ UNCHANGED <<row, seen>>
    BY <1>6 DEF ActionFailed, ListInv
  <2>2. CASE Fetch(key)
    BY <2>1, <2>2, FetchSafe
  <2>3. CASE UNCHANGED <<resource, fetches>>
    BY <2>1, <2>3 DEF ListInv, ListIsFresh
  <2>. QED
    BY <1>6, <2>2, <2>3 DEF ActionFailed
<1>. QED
  BY <1>1, <1>2, <1>3, <1>4, <1>5, <1>6, ReadForFetchSafe, FetchSettles DEF ListNext

-----------------------------------------------------------------------------
(* Previews *)

\* As long as nobody chose anew behind an answer, all that is out, and all that is shown, is
\* of what is chosen, if anything is.
PageInv ==
    /\ AppliedAsShown
    /\ ~switched /\ chosen # Null =>
         /\ preview # Null => preview = chosen
         /\ \A w \in waitingFor : w.of = chosen

LEMMA PageStepSafe ==
    ASSUME PageInv, PageNext
    PROVE  PageInv'
<1>1. ASSUME NEW k \in Keys \cup {Null}, Choose(k)
      PROVE  PageInv'
  BY <1>1 DEF Choose, PageInv, AppliedAsShown
<1>2. ASSUME RunPreview
      PROVE  PageInv'
  BY <1>2 DEF RunPreview, PageInv, AppliedAsShown
<1>3. ASSUME NEW w \in waitingFor, PreviewDone(w)
      PROVE  PageInv'
  BY <1>3 DEF PreviewDone, PageInv, AppliedAsShown
<1>4. ASSUME NEW w \in waitingFor, ApplyDone(w) \/ ApplyFailed(w)
      PROVE  PageInv'
  <2>1. applied' = applied /\ switched' = switched
    BY <1>4 DEF ApplyDone, ApplyFailed
  <2>2. \/ chosen' = Null
        \/ /\ UNCHANGED <<chosen, preview>>
           /\ \A v \in waitingFor' : v \in waitingFor \/ v.of = w.of
    BY <1>4 DEF ApplyDone, ApplyFailed
  <2>. QED
    BY <2>1, <2>2 DEF PageInv, AppliedAsShown
<1>5. ASSUME Apply
      PROVE  PageInv'
  BY <1>5 DEF Apply, PageInv, AppliedAsShown
<1>. QED
  BY <1>1, <1>2, <1>3, <1>4, <1>5 DEF PageNext

\* What is out late -- an answer to another filter, a read from before an action, a preview
\* of another choice -- is neither shown for what is asked now nor applied, whatever is
\* clicked in between (use-async-resource.ts:21-25, ChargeRunPage.tsx:4-8).
THEOREM LateAnswersDoNotPass == ScreensSpec => []ScreensShowWhatIsAsked
<1>. DEFINE Inv == ListInv /\ PageInv
<1>1. ScreensInit => Inv
  BY DEF ScreensInit, ListInv, ListIsFresh, PageInv, FetchState, Resource, AppliedAsShown
<1>2. ASSUME Inv, [ListNext \/ PageNext]_screens
      PROVE  Inv'
  <2>1. ASSUME UNCHANGED list
        PROVE  ListInv'
    BY <1>2, <2>1 DEF list, ListInv, ListIsFresh
  <2>2. ASSUME UNCHANGED page
        PROVE  PageInv'
    BY <1>2, <2>2 DEF page, PageInv, AppliedAsShown
  <2>3. CASE ListNext
    <3>1. UNCHANGED page
      BY <2>3 DEF ListNext, ChangeKey, Refresh, ReadForFetch, FetchDone, FetchFailed, Act,
         ServeAction, ActionDone, ActionFailed
    <3>. QED
      BY <1>2, <2>2, <2>3, <3>1, ListStepSafe
  <2>4. CASE PageNext
    <3>1. UNCHANGED list
      BY <2>4 DEF PageNext, Choose, RunPreview, PreviewDone, Apply, ApplyDone, ApplyFailed
    <3>. QED
      BY <1>2, <2>1, <2>4, <3>1, PageStepSafe
  <2>5. CASE UNCHANGED screens
    BY <2>1, <2>2, <2>5 DEF screens
  <2>. QED
    BY <1>2, <2>3, <2>4, <2>5
<1>3. Inv => ScreensShowWhatIsAsked
  BY DEF ListInv, PageInv, ListIsFresh, ScreensShowWhatIsAsked
<1>. QED
  BY <1>1, <1>2, <1>3, PTL DEF ScreensSpec

-----------------------------------------------------------------------------
(* The server process *)

LifecycleSpec == LifecycleInit /\ [][LifecycleNext]_process

\* A request is cut only when the process goes, and a clean stop has none left to cut.
StopInv ==
    /\ stage \in {"configuring", "connecting", "binding"} => deadline = "off" /\ Under = {}
    /\ stage \in {"closing", "disconnecting"} => deadline = "armed"
    /\ stage = "disconnecting" => Under = {}
    /\ stage # "stopped" => exit = "none" /\ Cut = {}
    /\ exit = "ok" => Cut = {}
    /\ DOMAIN open = Arrivals

\* A process that was asked to stop keeps its deadline until it has stopped, so no request
\* and no database can hold it up; it reports a clean stop only when it cut nothing off; and
\* once it has stopped that is that (index.ts:4-7, 52-75).
THEOREM StopsAreHonest ==
    LifecycleSpec =>
        /\ [](stage \in {"closing", "disconnecting"} => deadline = "armed")
        /\ [](exit = "ok" => Cut = {})
        /\ [][stage = "stopped" => UNCHANGED process]_process
<1>1. LifecycleInit => StopInv
  BY DEF LifecycleInit, StopInv, Under, Cut
<1>2. ASSUME StopInv, NEW code \in {"ok", "failed"}, Exit(code), deadline' \in {"off", "armed", "cleared"},
             stage # "stopped", code = "ok" => Under = {}
      PROVE  StopInv'
  BY <1>2 DEF StopInv, Exit, Under, Cut
<1>3. ASSUME StopInv, [LifecycleNext]_process
      PROVE  StopInv' /\ (stage = "stopped" => UNCHANGED process)
  <2>1. CASE DatabaseTurns
    BY <1>3, <2>1 DEF DatabaseTurns, StopInv, Under, Cut
  <2>2. CASE ReadConfiguration \/ ConnectDatabase \/ Listen
    BY <1>2, <1>3, <2>2 DEF ReadConfiguration, ConnectDatabase, Listen, StopInv, Under, Cut
  <2>3. CASE KilledEarly
    BY <1>2, <1>3, <2>3 DEF KilledEarly, StopInv
  <2>4. ASSUME NEW r \in Arrivals, FinishWork(r) \/ Readiness(r)
        PROVE  StopInv' /\ (stage = "stopped" => UNCHANGED process)
    BY <1>3, <2>4 DEF FinishWork, Readiness, StopInv, Under, Cut
  <2>5. ASSUME NEW r \in Arrivals, NEW kind \in {"work", "probe"}, Accept(r, kind)
        PROVE  StopInv' /\ (stage = "stopped" => UNCHANGED process)
    BY <1>3, <2>5 DEF Accept, StopInv, Under, Cut
  <2>6. CASE Shutdown \/ Drained
    BY <1>3, <2>6 DEF Shutdown, Drained, Deadline, StopInv, Under, Cut
  <2>7. CASE Disconnected \/ ForceExit
    BY <1>3, <2>7 DEF Disconnected, ForceExit, Exit, StopInv, Under, Cut
  <2>8. CASE UNCHANGED process
    BY <1>3, <2>8 DEF process, StopInv, Under, Cut
  <2>. QED
    BY <1>3, <2>1, <2>2, <2>3, <2>4, <2>5, <2>6, <2>7, <2>8 DEF LifecycleNext
<1>. QED
  BY <1>1, <1>3, PTL DEF LifecycleSpec, StopInv

-----------------------------------------------------------------------------
(* Seeding *)

SeedSpec == SeedInit /\ [][SeedNext]_seed

\* The rows there may be: what was there first, what statements write and deeds make.
Known(r) ==
    \/ \E R \in FirstDatabases : r \in R
    \/ \E i \in Upserts : r = Statements[i].row
    \/ \E d \in done : r \in d.new

OneRowPerKey(R) == \A r, q \in R : Same(r, q) => r = q

OneOfEachIsCurrent(R) == \A table \in Current : AtMostOneCurrent(table, R)

\* What the first n statements leave: of each row they write there is one, as their last
\* word on it has it where that rewrites; and nothing that they remove.
Followed(n) ==
    /\ \A i \in Upserts : i <= n =>
         \E j \in LastWords(n), r \in rows :
             /\ Same(Statements[j].row, Statements[i].row)
             /\ Same(r, Statements[j].row)
             /\ Statements[j].again => r = Statements[j].row
    /\ \A i \in Revokes, r \in rows : i <= n => ~Removes(Statements[i], r)

SeedInv ==
    /\ seeding \in Nat
    /\ done \subseteq Deeds
    /\ \A r \in rows : Known(r)
    /\ OneRowPerKey(rows)
    /\ OneOfEachIsCurrent(rows)
    /\ \A d \in done : d.stands \subseteq rows
    /\ seeding # 0 => ~complete /\ Followed(seeding - 1)
    /\ complete /\ done = {} => Followed(Len(Statements))

LEMMA StatementsCounted ==
    /\ Len(Statements) \in Nat
    /\ DOMAIN Statements = 1 .. Len(Statements)
    /\ Upserts \subseteq Nat \ {0} /\ Revokes \subseteq Nat \ {0}
  BY StatementsAssumption DEF Upserts, Revokes

LEMMA SameIsEquivalence ==
    /\ \A a : Same(a, a)
    /\ \A a, b : Same(a, b) => Same(b, a)
    /\ \A a, b, c : Same(a, b) /\ Same(b, c) => Same(a, c)
  BY DEF Same

\* What a statement does to a row: it writes it, removes it, or leaves it.
LEMMA RowsAfter ==
    ASSUME NEW i \in DOMAIN Statements
    PROVE  /\ \A r \in After(Statements[i]) :
                \/ r \in rows
                \/ i \in Upserts /\ r = Statements[i].row
           /\ \A r \in rows :
                \/ r \in After(Statements[i])
                \/ i \in Revokes /\ Removes(Statements[i], r)
                \/ i \in Upserts /\ Same(r, Statements[i].row) /\ Statements[i].again
           /\ i \in Revokes => \A r \in After(Statements[i]) : ~Removes(Statements[i], r)
           /\ i \in Upserts => \E r \in After(Statements[i]) :
                /\ Same(r, Statements[i].row)
                /\ Statements[i].again => r = Statements[i].row
<1>1. CASE i \in Revokes
  BY <1>1 DEF After, Revokes, Upserts
<1>2. CASE i \in Upserts
  <2>1. After(Statements[i]) = AfterUpsert(Statements[i]) /\ i \notin Revokes
    BY <1>2 DEF After, Upserts, Revokes
  <2>2. Same(Statements[i].row, Statements[i].row)
    BY SameIsEquivalence
  <2>. QED
    BY <1>2, <2>1, <2>2 DEF AfterUpsert, Found
<1>. QED
  BY <1>1, <1>2, StatementsAssumption

\* The database keeps one row to a key.
LEMMA AfterOneRowPerKey ==
    ASSUME NEW i \in DOMAIN Statements, OneRowPerKey(rows)
    PROVE  OneRowPerKey(After(Statements[i]))
<1>1. CASE i \in Revokes
  BY <1>1 DEF After, Revokes, OneRowPerKey
<1>2. CASE i \in Upserts
  <2>1. After(Statements[i]) = AfterUpsert(Statements[i])
    BY <1>2 DEF After, Upserts
  <2>2. \A r \in rows \ Found(Statements[i].row) :
            ~Same(r, Statements[i].row) /\ ~Same(Statements[i].row, r)
    BY SameIsEquivalence DEF Found
  <2>. QED
    BY <2>1, <2>2 DEF AfterUpsert, OneRowPerKey
<1>. QED
  BY <1>1, <1>2, StatementsAssumption

\* One statement further.
LEMMA StepFollows ==
    ASSUME NEW n \in Nat, n + 1 \in DOMAIN Statements, Followed(n),
           rows' = After(Statements[n + 1])
    PROVE  Followed(n + 1)'
<1>. DEFINE st == Statements[n + 1]
<1>1. ASSUME NEW i \in Upserts, i <= n + 1
      PROVE  \E j \in LastWords(n + 1), r \in rows' :
                 /\ Same(Statements[j].row, Statements[i].row)
                 /\ Same(r, Statements[j].row)
                 /\ Statements[j].again => r = Statements[j].row
  <2>1. CASE n + 1 \in Upserts /\ Same(st.row, Statements[i].row)
    <3>1. n + 1 \in LastWords(n + 1)
      BY <2>1, StatementsCounted DEF LastWords
    <3>2. PICK r \in rows' : Same(r, st.row) /\ (st.again => r = st.row)
      BY <2>1, RowsAfter
    <3>. QED
      BY <2>1, <3>1, <3>2
  <2>2. CASE ~(n + 1 \in Upserts /\ Same(st.row, Statements[i].row))
    <3>1. i <= n
      BY <1>1, <2>2, SameIsEquivalence, StatementsCounted
    <3>2. PICK j \in LastWords(n), r \in rows :
                 /\ Same(Statements[j].row, Statements[i].row)
                 /\ Same(r, Statements[j].row)
                 /\ Statements[j].again => r = Statements[j].row
      BY <3>1 DEF Followed
    <3>3. n + 1 \in Upserts => ~Same(st.row, Statements[j].row)
      BY <2>2, <3>2, SameIsEquivalence
    <3>4. j \in LastWords(n + 1)
      BY <3>3, StatementsCounted DEF LastWords
    <3>5. n + 1 \in Upserts => ~Same(r, st.row)
      BY <3>2, <3>3, SameIsEquivalence
    <3>6. ~(n + 1 \in Revokes /\ Removes(st, r))
      <4>1. j \in Upserts /\ Same(r, Statements[j].row)
        BY <3>2 DEF LastWords
      <4>. QED
        BY <4>1, StatementsAssumption DEF Removes, Same
    <3>7. r \in rows'
      BY <3>5, <3>6, RowsAfter
    <3>. QED
      BY <3>2, <3>4, <3>7
  <2>. QED
    BY <2>1, <2>2
<1>2. ASSUME NEW i \in Revokes, NEW r \in rows', i <= n + 1
      PROVE  ~Removes(Statements[i], r)
  <2>1. CASE i = n + 1
    BY <2>1, RowsAfter
  <2>2. CASE i <= n
    <3>1. CASE r \in rows
      BY <2>2, <3>1 DEF Followed
    <3>2. CASE n + 1 \in Upserts /\ r = st.row
      BY <3>2, StatementsAssumption
    <3>. QED
      BY <3>1, <3>2, RowsAfter
  <2>. QED
    BY <1>2, <2>1, <2>2, StatementsCounted
<1>. QED
  BY <1>1, <1>2 DEF Followed

LEMMA SeedStepSafe ==
    ASSUME SeedInv, Step
    PROVE  SeedInv'
<1>. DEFINE st == Statements[seeding]
<1>1. /\ seeding \in DOMAIN Statements /\ Accepts(st)
      /\ rows' = After(st)
      /\ complete' = (seeding = Len(Statements))
      /\ seeding' = IF complete' THEN 0 ELSE seeding + 1
      /\ done' = done
  BY DEF Step
<1>2. seeding \in Nat /\ seeding # 0 /\ seeding - 1 \in Nat /\ (seeding - 1) + 1 = seeding
  BY <1>1, StatementsCounted
<1>3. Followed(seeding - 1)
  BY <1>2 DEF SeedInv
<1>4. PICK n : n = seeding
  OBVIOUS
<1>5. Followed(n)'
  <2>1. PICK m \in Nat : m = n - 1 /\ m + 1 = n
    BY <1>2, <1>4
  <2>2. Followed(m)
    BY <1>3, <1>4, <2>1
  <2>3. n \in DOMAIN Statements /\ rows' = After(Statements[n])
    BY <1>1, <1>4
  <2>. QED
    BY <2>1, <2>2, <2>3, StepFollows
<1>6. \A r \in rows' : Known(r)'
  BY <1>1, RowsAfter DEF SeedInv, Known
<1>7. OneRowPerKey(rows)'
  BY <1>1, AfterOneRowPerKey DEF SeedInv, OneRowPerKey
<1>8. OneOfEachIsCurrent(rows)'
  BY <1>1 DEF Accepts, OneOfEachIsCurrent, AtMostOneCurrent
<1>9. ASSUME NEW d \in done, NEW r \in d.stands
      PROVE  r \in rows'
  <2>1. d \in Deeds /\ r \in rows
    BY <1>9 DEF SeedInv
  <2>2. /\ \A i \in Upserts : Same(Statements[i].row, r) => ~Statements[i].again
        /\ \A i \in Revokes : ~Removes(Statements[i], r)
    BY <1>9, <2>1, DeedsAssumption
  <2>. QED
    BY <1>1, <2>1, <2>2, RowsAfter, SameIsEquivalence
<1>10. seeding' # 0 => ~complete' /\ seeding' - 1 = n
  BY <1>1, <1>2, <1>4
<1>11. complete' => n = Len(Statements)
  BY <1>1, <1>4
<1>12. seeding' \in Nat
  BY <1>1, <1>2
<1>. QED
  BY <1>1, <1>5, <1>6, <1>7, <1>8, <1>9, <1>10, <1>11, <1>12 DEF SeedInv

LEMMA WorkSafe ==
    ASSUME SeedInv, NEW d \in Deeds, Work(d)
    PROVE  SeedInv'
<1>1. /\ seeding = 0 /\ d \notin done /\ d.gone \subseteq rows
      /\ rows' = (rows \ d.gone) \cup d.new
      /\ done' = done \cup {d}
      /\ UNCHANGED <<seeding, seedings, complete>>
  BY DEF Work
<1>2. \A r \in rows' : Known(r)'
  BY <1>1 DEF SeedInv, Known
<1>3. ASSUME NEW r \in rows \ d.gone, NEW p \in d.new
      PROVE  ~Same(r, p) /\ ~Same(p, r)
  <2>1. CASE \E g \in d.gone : Same(g, p)
    <3>1. PICK g \in d.gone : Same(g, p)
      BY <2>1
    <3>2. ~Same(g, r)
      BY <1>1, <1>3, <3>1 DEF SeedInv, OneRowPerKey
    <3>. QED
      BY <3>1, <3>2, SameIsEquivalence
  <2>2. CASE ~\E g \in d.gone : Same(g, p)
    <3>1. /\ \A i \in Upserts : ~Same(Statements[i].row, p)
          /\ \A q \in UNION FirstDatabases : ~Same(q, p)
          /\ \A e \in Deeds \ {d} : \A q \in e.new : ~Same(q, p)
      BY <2>2, DeedsAssumption
    <3>2. \/ r \in UNION FirstDatabases
          \/ \E i \in Upserts : r = Statements[i].row
          \/ \E e \in done : r \in e.new
      BY <1>3 DEF SeedInv, Known
    <3>3. done \subseteq Deeds \ {d}
      BY <1>1 DEF SeedInv
    <3>4. ~Same(r, p)
      BY <3>1, <3>2, <3>3
    <3>. QED
      BY <3>4, SameIsEquivalence
  <2>. QED
    BY <2>1, <2>2
<1>4. OneRowPerKey(rows)'
  BY <1>1, <1>3, DeedsAssumption DEF SeedInv, OneRowPerKey
<1>5. ASSUME NEW table \in Current, NEW r \in rows \ d.gone, NEW p \in d.new,
             r.table = table, r.state = "current", p.table = table, p.state = "current"
      PROVE  FALSE
  <2>1. PICK g \in d.gone : g.table = table /\ g.state = "current"
    BY <1>5, DeedsAssumption
  <2>2. g = r
    BY <1>1, <1>5, <2>1 DEF SeedInv, OneOfEachIsCurrent, AtMostOneCurrent
  <2>. QED
    BY <1>5, <2>1, <2>2
<1>6. ASSUME NEW table \in Current
      PROVE  AtMostOneCurrent(table, rows)'
  <2>1. AtMostOneCurrent(table, rows) /\ AtMostOneCurrent(table, d.new)
    BY DeedsAssumption DEF SeedInv, OneOfEachIsCurrent
  <2>. QED
    BY <1>1, <1>5, <2>1 DEF AtMostOneCurrent
<1>7. ASSUME NEW e \in done', NEW r \in e.stands
      PROVE  r \in rows'
  <2>1. CASE e = d
    BY <1>1, <1>7, <2>1, DeedsAssumption
  <2>2. CASE e # d
    <3>1. e \in done /\ e \in Deeds /\ r \in rows
      BY <1>1, <1>7, <2>2 DEF SeedInv
    <3>2. r \notin d.gone
      BY <1>7, <2>2, <3>1, DeedsAssumption
    <3>. QED
      BY <1>1, <3>1, <3>2
  <2>. QED
    BY <2>1, <2>2
<1>8. done' # {} /\ done' \subseteq Deeds
  BY <1>1 DEF SeedInv
<1>. QED
  BY <1>1, <1>2, <1>4, <1>6, <1>7, <1>8 DEF SeedInv, OneOfEachIsCurrent

LEMMA StartSafe ==
    ASSUME SeedInv, Start
    PROVE  SeedInv'
<1>1. Followed(0)'
  BY StatementsCounted DEF Followed
<1>. QED
  BY <1>1 DEF SeedInv, Start, Known

LEMMA SeedInitSafe == SeedInit => SeedInv
  BY DatabasesAssumption DEF SeedInit, SeedInv, Known, OneRowPerKey, OneOfEachIsCurrent

LEMMA SeedInvariance == SeedSpec => []SeedInv
<1>1. ASSUME SeedInv, UNCHANGED <<rows, complete, done>>, seeding' \in {0, seeding}
      PROVE  SeedInv'
  BY <1>1 DEF SeedInv, Known, Followed, OneRowPerKey, OneOfEachIsCurrent, AtMostOneCurrent
<1>2. ASSUME SeedInv, [SeedNext]_seed
      PROVE  SeedInv'
  BY <1>1, <1>2, StartSafe, SeedStepSafe, WorkSafe DEF SeedNext, CutShort, seed
<1>. QED
  BY <1>2, SeedInitSafe, PTL DEF SeedSpec

\* At the end every row is one that statements write, in the form they leave it in.
LEMMA AllFollowed ==
    ASSUME SeedInv, done = {}, Followed(Len(Statements))
    PROVE  rows = Fixtures
<1>. DEFINE N == Len(Statements)
<1>1. ASSUME NEW i \in Upserts, NEW r \in rows, Same(r, Statements[i].row)
      PROVE  r \in Fixtures
  <2>1. i <= N
    BY StatementsCounted DEF Upserts
  <2>2. PICK j \in LastWords(N), q \in rows :
            /\ Same(Statements[j].row, Statements[i].row)
            /\ Same(q, Statements[j].row)
            /\ Statements[j].again => q = Statements[j].row
    BY <2>1 DEF Followed
  <2>3. q = r
    BY <1>1, <2>2, SameIsEquivalence DEF SeedInv, OneRowPerKey
  <2>4. j \in Upserts
    BY DEF LastWords
  <2>5. CASE Statements[j].again
    BY <2>2, <2>3, <2>5 DEF Fixtures
  <2>6. CASE ~Statements[j].again
    <3>1. PICK k \in Upserts : r = Statements[k].row
      <4>1. r \in UNION FirstDatabases => FALSE
        BY <1>1, DatabasesAssumption, SameIsEquivalence
      <4>. QED
        BY <4>1 DEF SeedInv, Known
    <3>2. Same(Statements[j].row, Statements[k].row)
      BY <2>2, <2>3, <3>1, SameIsEquivalence
    <3>3. r = Statements[j].row
      BY <2>6, <3>1, <3>2, StatementsAssumption
    <3>. QED
      BY <3>3 DEF Fixtures
  <2>. QED
    BY <2>5, <2>6
<1>2. ASSUME NEW r \in rows
      PROVE  r \in Fixtures
  <2>1. r \in UNION FirstDatabases => FALSE
    <3>. SUFFICES ASSUME NEW R \in FirstDatabases, r \in R
                  PROVE  FALSE
      OBVIOUS
    <3>1. PICK i \in Revokes : Removes(Statements[i], r)
      BY DatabasesAssumption
    <3>2. i <= N
      BY StatementsCounted DEF Revokes
    <3>. QED
      BY <3>1, <3>2 DEF Followed
  <2>2. PICK i \in Upserts : r = Statements[i].row
    BY <2>1 DEF SeedInv, Known
  <2>. QED
    BY <1>1, <2>2, SameIsEquivalence
<1>3. ASSUME NEW i \in LastWords(N)
      PROVE  Statements[i].row \in rows
  <2>1. i \in Upserts /\ i <= N /\ i \in Nat
    BY StatementsCounted DEF LastWords
  <2>2. PICK j \in LastWords(N), q \in rows :
            /\ Same(Statements[j].row, Statements[i].row)
            /\ Same(q, Statements[j].row)
    BY <2>1 DEF Followed
  <2>3. j \in Upserts /\ j <= N /\ j \in Nat
    BY StatementsCounted DEF LastWords
  <2>4. i = j
    BY <2>1, <2>2, <2>3, SameIsEquivalence DEF LastWords
  <2>5. q \in Fixtures
    BY <1>2
  <2>6. PICK k \in LastWords(N) : q = Statements[k].row
    BY <2>5 DEF Fixtures
  <2>7. k \in Upserts /\ k <= N /\ k \in Nat
    BY StatementsCounted DEF LastWords
  <2>8. k = i
    BY <2>1, <2>2, <2>4, <2>6, <2>7, SameIsEquivalence DEF LastWords
  <2>. QED
    BY <2>6, <2>8
<1>. QED
  BY <1>2, <1>3 DEF Fixtures

\* Whatever the fixtures and the database they are seeded into, a seeding that comes to its
\* end before anyone works leaves the fixtures and nothing else, however often those before
\* it were cut short; and no seeding makes a second row of a key, a second current year or
\* term, or takes back what people did since (seed/index.ts:6-7).
THEOREM SeedConverges == SeedSpec => []SeedingConverges
<1>1. SeedInv => SeedingConverges
  BY AllFollowed DEF SeedInv, SeedingConverges, OneRowPerKey, OneOfEachIsCurrent
<1>. QED
  BY <1>1, SeedInvariance, PTL

=============================================================================
