----------------------------- MODULE WebClient ------------------------------
(***************************************************************************)
(* One tab of the web client and the session behind it: api-client.ts and   *)
(* upload.ts with their one silent renewal, the shared renewal of           *)
(* auth-token.ts, AuthProvider.tsx, and of the server what they meet:       *)
(* refreshHandler and rotateRefreshToken.                                   *)
(*                                                                         *)
(* Requests may be slow, fail or time out, before the server has handled    *)
(* them or after.  An access token may have expired whenever the server     *)
(* looks at it.  Of the refresh tokens of a session only the last is        *)
(* unused, so a cookie is known by its session and whether the token in it  *)
(* was used; there is no bound on the number of renewals.                   *)
(***************************************************************************)
EXTENDS Integers, FiniteSets

CONSTANTS
    Calls,          \* what screens have under way at a time
    SessionIds,     \* bound: the sessions of one browser, 1 to a number
    Startup,        \* names the renewal the provider makes when it mounts
    None            \* null

ASSUME WebAssumption == Startup \notin Calls /\ None \notin Calls

VARIABLES
    status,         \* of the provider
    accessToken,    \* the session the token in memory is for, or None
    inFlight,       \* inFlightRefresh: the renewal shared by the calls, or None
    calls,          \* Calls -> Call, or Resting
    renewals,       \* Calls and Startup -> the renewal it began, or Resting
    cookie,         \* the refresh cookie of the browser, or None
    begun,          \* the sessions there have been
    ended,          \* the sessions the server has ended
    abandoned,      \* the client gave up on a renewal (history)
    theft           \* the server saw a refresh token twice (history)

client == <<status, accessToken, inFlight, calls>>
server == <<begun, ended, theft>>
web == <<client, renewals, cookie, server, abandoned>>

Resting == [stage |-> "resting"]

-----------------------------------------------------------------------------
(* The session in the tab *)

SignedIn(session) ==
    /\ accessToken' = session
    /\ status' = "signed_in"

SignedOut ==
    /\ accessToken' = None
    /\ status' = "signed_out"

\* Login, or a second factor, or its set-up: the sign-in page is there for whoever is
\* not signed in, so also before the first renewal has settled.
SignIn ==
    LET session == Cardinality(begun) + 1 IN
    /\ status # "signed_in"
    /\ session \in SessionIds
    /\ begun' = begun \cup {session}
    /\ cookie' = [session |-> session, used |-> FALSE]
    /\ SignedIn(session)
    /\ UNCHANGED <<inFlight, calls, renewals, ended, abandoned, theft>>

\* A sign-out elsewhere, a new password, a suspension, or the end of its time.
EndSession(session) ==
    /\ session \in begun \ ended
    /\ ended' = ended \cup {session}
    /\ UNCHANGED <<client, renewals, cookie, begun, abandoned, theft>>

-----------------------------------------------------------------------------
(* Renewals *)

Renewal(c) == [stage |-> "sent", presented |-> c]

\* The last unused token of a session was used: so are all the copies of it.
UsedUp(c, session) ==
    IF c # None /\ c.session = session THEN [c EXCEPT !.used = TRUE] ELSE c

RenewalUsedUp(r, session) ==
    CASE r.stage = "sent" -> [r EXCEPT !.presented = UsedUp(@, session)]
      [] r.stage = "answered" -> [r EXCEPT !.granted = UsedUp(@, session)]
      [] OTHER -> r

Rotatable(c) == c # None /\ ~c.used /\ c.session \notin ended

\* What the presented cookie does to the session: a used one ends it.
Presented(c) ==
    /\ theft' = (theft \/ (c # None /\ c.used))
    /\ ended' = IF c # None /\ c.used THEN ended \cup {c.session} ELSE ended
    /\ UNCHANGED begun

\* refreshHandler
AnswerRenewal(r) ==
    LET c == renewals[r].presented IN
    /\ renewals[r].stage = "sent"
    /\ Presented(c)
    /\ IF Rotatable(c)
         THEN /\ renewals' = [q \in DOMAIN renewals |->
                     IF q = r
                       THEN [stage |-> "answered",
                             granted |-> [session |-> c.session, used |-> FALSE]]
                       ELSE RenewalUsedUp(renewals[q], c.session)]
              /\ cookie' = UsedUp(cookie, c.session)
         ELSE /\ renewals' = [renewals EXCEPT ![r] = [stage |-> "answered", granted |-> None]]
              /\ UNCHANGED cookie
    /\ UNCHANGED <<client, abandoned>>

\* The calls that waited for r go on: with the new token, or with the error they had.
Resumed(r, session) ==
    /\ calls' = [c \in Calls |->
           IF calls[c].stage = "waiting" /\ calls[c].for = r
             THEN IF session = None THEN Resting
                  ELSE [stage |-> "sent", kind |-> calls[c].kind, token |-> session,
                        retried |-> TRUE]
             ELSE calls[c]]
    /\ inFlight' = IF inFlight = r THEN None ELSE inFlight

\* The refresh cookie is replaced, or cleared on any refusal.
ReceiveRenewal(r) ==
    LET granted == renewals[r].granted IN
    /\ renewals[r].stage = "answered"
    /\ renewals' = [renewals EXCEPT ![r] = Resting]
    /\ cookie' = granted
    /\ IF granted = None
         THEN SignedOut /\ Resumed(r, None)
         ELSE SignedIn(granted.session) /\ Resumed(r, granted.session)
    /\ UNCHANGED <<server, abandoned>>

\* A timeout, or the connection breaks.
FailRenewal(r) ==
    /\ renewals[r].stage # "resting"
    /\ renewals' = [renewals EXCEPT ![r] = Resting]
    /\ abandoned' = TRUE
    /\ SignedOut
    /\ Resumed(r, None)
    /\ UNCHANGED <<cookie, server>>

-----------------------------------------------------------------------------
(* Calls *)

\* A screen asks for something, signs out, or asks for the user again.
Send(c, kind) ==
    /\ calls[c] = Resting
    /\ status = "signed_in"
    /\ calls' = [calls EXCEPT ![c] =
           [stage |-> "sent", kind |-> kind, token |-> accessToken, retried |-> FALSE]]
    /\ UNCHANGED <<status, accessToken, inFlight, renewals, cookie, server, abandoned>>

\* authenticate and, for a sign-out, logoutHandler.  From here the timeout is off.
AnswerCall(c) ==
    LET call == calls[c] IN
    /\ call.stage = "sent"
    /\ \/ /\ calls' = [calls EXCEPT ![c] = [call EXCEPT !.stage = "expired"]]
          /\ UNCHANGED <<cookie, ended>>
       \/ /\ call.token = None \/ call.token \in ended
          /\ calls' = [calls EXCEPT ![c] = [call EXCEPT !.stage = "refused"]]
          /\ UNCHANGED <<cookie, ended>>
       \/ /\ call.token # None
          /\ call.token \notin ended
          /\ calls' = [calls EXCEPT ![c] = [call EXCEPT !.stage = "served"]]
          /\ IF call.kind = "signOut"
               THEN cookie' = None /\ ended' = ended \cup {call.token}
               ELSE UNCHANGED <<cookie, ended>>
    /\ UNCHANGED <<status, accessToken, inFlight, renewals, begun, theft, abandoned>>

\* Mutant of WorthRenewal: a retried request renews and retries again.
WorthRenewalAgain(c) == calls[c].stage = "expired"

\* shouldAttemptRefresh, and for uploads the same by the code alone.
WorthRenewal(c) ==
    /\ calls[c].stage = "expired"
    /\ ~calls[c].retried

\* Mutant of RenewalFor: every call renews for itself.
RenewalOfItsOwn(c) == c

\* refreshAccessToken
RenewalFor(c) == IF inFlight = None THEN c ELSE inFlight

AwaitRenewal(c) ==
    LET r == RenewalFor(c) IN
    /\ WorthRenewal(c)
    /\ inFlight' = r
    /\ renewals' =
           IF renewals[r] = Resting THEN [renewals EXCEPT ![r] = Renewal(cookie)] ELSE renewals
    /\ calls' = [calls EXCEPT ![c] = [stage |-> "waiting", kind |-> @.kind, for |-> r]]
    /\ UNCHANGED <<status, accessToken, cookie, server, abandoned>>

\* A sign-out clears the session whatever came of it, a failed reload of the user too.
ClearsSession(kind, served) == kind = "signOut" \/ (kind = "reload" /\ ~served)

Settle(c, served) ==
    /\ calls' = [calls EXCEPT ![c] = Resting]
    /\ IF ClearsSession(calls[c].kind, served) THEN SignedOut ELSE UNCHANGED <<status, accessToken>>
    /\ UNCHANGED <<inFlight, renewals, cookie, server, abandoned>>

ReceiveCall(c) ==
    /\ calls[c].stage \in {"expired", "refused", "served"}
    /\ ~WorthRenewal(c)
    /\ Settle(c, calls[c].stage = "served")

\* The timeout while there is no answer, a broken connection while its body is read.
FailCall(c) ==
    /\ calls[c].stage \in {"sent", "expired", "refused", "served"}
    /\ Settle(c, FALSE)

-----------------------------------------------------------------------------
\* The page is loaded again: what was in memory is gone, and the provider renews once.
Reload ==
    /\ status' = "unknown"
    /\ accessToken' = None
    /\ inFlight' = None
    /\ calls' = [c \in Calls |-> Resting]
    /\ renewals' = [r \in DOMAIN renewals |-> IF r = Startup THEN Renewal(cookie) ELSE Resting]
    /\ abandoned' = (abandoned \/ \E r \in DOMAIN renewals : renewals[r] # Resting)
    /\ UNCHANGED <<cookie, server>>

WebInit ==
    /\ status = "unknown"
    /\ accessToken = None
    /\ inFlight = None
    /\ calls = [c \in Calls |-> Resting]
    /\ cookie \in {None, [session |-> 1, used |-> FALSE]}
    /\ renewals = [r \in Calls \cup {Startup} |-> IF r = Startup THEN Renewal(cookie) ELSE Resting]
    /\ begun = IF cookie = None THEN {} ELSE {cookie.session}
    /\ ended \in SUBSET begun
    /\ abandoned = FALSE
    /\ theft = FALSE

\* No tab is open.
WebIdle ==
    /\ status = "signed_out"
    /\ accessToken = None
    /\ inFlight = None
    /\ calls = [c \in Calls |-> Resting]
    /\ cookie = None
    /\ renewals = [r \in Calls \cup {Startup} |-> Resting]
    /\ begun = {}
    /\ ended = {}
    /\ abandoned = FALSE
    /\ theft = FALSE

Kinds == {"read", "signOut", "reload"}

WebNext ==
    \/ SignIn
    \/ \E s \in SessionIds : EndSession(s)
    \/ \E r \in Calls \cup {Startup} : AnswerRenewal(r) \/ ReceiveRenewal(r) \/ FailRenewal(r)
    \/ \E c \in Calls, kind \in Kinds : Send(c, kind)
    \/ \E c \in Calls : AnswerCall(c) \/ AwaitRenewal(c) \/ ReceiveCall(c) \/ FailCall(c)
    \/ Reload

\* The timeout of every request fires, and an answer that has begun to arrive arrives or
\* breaks off.  Promises that are settled are acted on.  Nothing else has to happen.
WebFairness ==
    /\ \A c \in Calls : WF_web(AwaitRenewal(c) \/ ReceiveCall(c) \/ FailCall(c))
    /\ \A r \in Calls \cup {Startup} : WF_web(ReceiveRenewal(r) \/ FailRenewal(r))

-----------------------------------------------------------------------------
\* Whatever calls expire together, and though somebody signs in while the renewal at
\* startup is out, the server is never shown a refresh token twice -- which it takes for
\* theft and ends the session for -- unless the client gave up on a renewal, at a timeout
\* or a reload of the page (auth-token.ts:39-46).
RenewalsAreNotTheft == theft => abandoned

\* A call ends, with an answer or with an error: it does not wait for a renewal that is
\* never settled, nor renew and retry for ever (api-client.ts:270-294, upload.ts:108-131).
RequestsSettle == \A c \in Calls : calls[c] # Resting ~> calls[c] = Resting

=============================================================================
