-------------------------------- MODULE SignIn --------------------------------
(***************************************************************************)
(* Sign-in (app/security.py) and the members it rests on (app/members.py): *)
(* access tokens, sessions, the single-sign-on flow and the limits on      *)
(* attempts.  A token login is three transactions (test the token, close   *)
(* the browser's session, open the new one); a single-sign-on login starts *)
(* a flow and returns to it after the provider answered, minutes later.    *)
(* Administrators deactivate members and rotate tokens in between.         *)
(***************************************************************************)
EXTENDS Naturals, FiniteSets

CONSTANTS
    Browsers, Holders, Tokens, HolderOf,   \* HolderOf[k]: the member of a token
    SessionIds, Flows,                     \* opaque random ids, used once
    LoginLimit, StartLimit, Capacity,      \* limits of the deployment
    Window, FlowTTL,                       \* lifetimes of a limit and of a flow
    MaxClock,                              \* bound on the time
    NoOne

Limit == [attempts : Nat, expires : Nat]

FlowRow == [state : {"open", "taken", "over"}, browser : Browsers, expires : Nat,
            previous : SessionIds \cup {NoOne}, window : Nat]

LoginRow == [token : Tokens, phase : {"tested", "closed"}]

ASSUME SignInConstants ==
    /\ HolderOf \in [Tokens -> Holders]
    /\ {LoginLimit, StartLimit, Capacity, Window, FlowTTL, MaxClock} \subseteq Nat \ {0}
    /\ NoOne \notin SessionIds \cup Flows \cup Tokens \cup {"sso", "closed"}
    /\ NoOne \notin FlowRow /\ NoOne \notin LoginRow

VARIABLES
    token,      \* member_tokens: each is "unissued", "live" or "revoked"
    active,     \* the members who are active
    session,    \* auth_sessions: the token of an open session, or "sso"
    cookie,     \* the session id each browser holds
    login,      \* the token login each browser has open
    flow,       \* oidc_flows: each is "unused", "open", "taken" or "over"
    failures,   \* the limit of token logins:    [attempts, expires]
    starts,     \* the limit of started flows:   [attempts, expires]
    clock,
    refunded,   \* history: flows whose attempt was given back in its window
    outdated    \* history: sessions open when their member was deactivated or
                \* their token rotated

signVars == <<token, active, session, cookie, login, flow, failures, starts,
              clock, refunded, outdated>>

memberVars == <<token, active, outdated>>
loginVars  == <<login, failures>>
flowVars   == <<flow, starts, refunded>>

NoLimit == [attempts |-> 0, expires |-> 0]

------------------------------------------------------------------------------
(* Mistakes the code could contain; PROJECT.json pairs each with the        *)
(* definition it replaces and the property that must notice it.             *)

RefundAlways(f) == TRUE
ClosesNothing(m) == {}

------------------------------------------------------------------------------

SignInit ==
    /\ token = [k \in Tokens |-> "unissued"]
    /\ active = Holders
    /\ session = [s \in SessionIds |-> NoOne]
    /\ cookie = [b \in Browsers |-> NoOne]
    /\ login = [b \in Browsers |-> NoOne]
    /\ flow = [f \in Flows |-> NoOne]
    /\ failures = NoLimit /\ starts = NoLimit
    /\ clock = 1
    /\ refunded = {} /\ outdated = {}

OpenSessions == {s \in SessionIds : session[s] \notin {NoOne, "closed"}}

Close(ids) == [s \in SessionIds |-> IF s \in ids \cap OpenSessions THEN "closed"
                                    ELSE session[s]]

\* A limit is looked at after the rows that ran out were deleted.
Purged(limit) == IF limit.expires <= clock THEN NoLimit ELSE limit

Counted(limit) ==
    IF limit.attempts = 0 /\ limit.expires = 0
    THEN [attempts |-> 1, expires |-> clock + Window]
    ELSE [limit EXCEPT !.attempts = @ + 1]

\* A token counts while it is not revoked and its member is active.
Valid(k) == token[k] = "live" /\ HolderOf[k] \in active

------------------------------------------------------------------------------
(* Members.                                                                 *)

SessionsOf(m) == {s \in OpenSessions : session[s] \in Tokens /\ HolderOf[session[s]] = m}

\* What a deactivation or a rotation closes.
ClosedWith(m) == SessionsOf(m)

\* Creating a member and rotating a token both issue one; a rotation revokes
\* the member's earlier tokens and closes the sessions opened with them.  The
\* member was read as active before the transaction and need not be any more.
IssueToken(k) ==
    LET m == HolderOf[k]
        old == {j \in Tokens : HolderOf[j] = m /\ token[j] = "live"}
    IN  /\ token[k] = "unissued"
        /\ token' = [j \in Tokens |-> IF j = k THEN "live"
                                      ELSE IF j \in old THEN "revoked" ELSE token[j]]
        /\ session' = Close(ClosedWith(m))
        /\ outdated' = outdated \cup SessionsOf(m)
        /\ UNCHANGED <<active, cookie, login, flow, failures, starts, clock, refunded>>

Deactivate(m) ==
    /\ m \in active
    /\ active' = active \ {m}
    /\ session' = Close(ClosedWith(m))
    /\ outdated' = outdated \cup SessionsOf(m)
    /\ UNCHANGED <<token, cookie, loginVars, flowVars, clock>>

Reactivate(m) ==
    /\ m \notin active
    /\ active' = active \cup {m}
    /\ UNCHANGED <<token, session, cookie, loginVars, flowVars, clock, outdated>>

------------------------------------------------------------------------------
(* Token logins.                                                            *)

\* Under the write lock: refuse at the limit, else test the token and count a
\* failure.  k is NoOne for a token nobody issued.
TestToken(b, k) ==
    LET limit == Purged(failures)
    IN  /\ login[b] = NoOne
        /\ limit.attempts < LoginLimit
        /\ IF k # NoOne /\ Valid(k)
           THEN /\ login' = [login EXCEPT ![b] = [token |-> k, phase |-> "tested"]]
                /\ failures' = limit
           ELSE /\ failures' = Counted(limit)
                /\ UNCHANGED login
        /\ UNCHANGED <<memberVars, session, cookie, flowVars, clock>>

ClosePrevious(b) ==
    /\ login[b] # NoOne /\ login[b].phase = "tested"
    /\ session' = Close({cookie[b]})
    /\ login' = [login EXCEPT ![b].phase = "closed"]
    /\ UNCHANGED <<memberVars, cookie, failures, flowVars, clock>>

HasRoom == Cardinality(OpenSessions) < Capacity

OpenSession(b, s) ==
    /\ login[b] # NoOne /\ login[b].phase = "closed"
    /\ session[s] = NoOne
    /\ IF HasRoom
       THEN /\ session' = [session EXCEPT ![s] = login[b].token]
            /\ cookie' = [cookie EXCEPT ![b] = s]
       ELSE UNCHANGED <<session, cookie>>
    /\ login' = [login EXCEPT ![b] = NoOne]
    /\ UNCHANGED <<memberVars, failures, flowVars, clock>>

Logout(b) ==
    /\ cookie[b] # NoOne
    /\ session' = Close({cookie[b]})
    /\ cookie' = [cookie EXCEPT ![b] = NoOne]
    /\ UNCHANGED <<memberVars, loginVars, flowVars, clock>>

\* A session ends after eight hours, or half an hour without a request.
SessionExpires(s) ==
    /\ s \in OpenSessions
    /\ session' = Close({s})
    /\ UNCHANGED <<memberVars, cookie, loginVars, flowVars, clock>>

------------------------------------------------------------------------------
(* Single sign-on.                                                          *)

\* The flow keeps the browser's session and the window its attempt counts in.
StartFlow(b, f) ==
    LET limit == Counted(Purged(starts))
    IN  /\ flow[f] = NoOne
        /\ Purged(starts).attempts < StartLimit
        /\ starts' = limit
        /\ flow' = [flow EXCEPT ![f] =
                [state |-> "open", browser |-> b, expires |-> clock + FlowTTL,
                 previous |-> cookie[b], window |-> limit.expires]]
        /\ UNCHANGED <<memberVars, session, cookie, loginVars, clock, refunded>>

\* The callback claims the flow by deleting it; a second one finds nothing.
Claimable(f) == flow[f] # NoOne /\ flow[f].state = "open" /\ flow[f].expires > clock

ConsumeFlow(f) ==
    /\ Claimable(f)
    /\ flow' = [flow EXCEPT ![f].state = "taken"]
    /\ UNCHANGED <<memberVars, session, cookie, loginVars, starts, clock, refunded>>

\* The provider said no, failed, or knows nobody of that name.
ProviderRefuses(f) ==
    /\ flow[f] # NoOne /\ flow[f].state = "taken"
    /\ flow' = [flow EXCEPT ![f].state = "over"]
    /\ UNCHANGED <<memberVars, session, cookie, loginVars, starts, clock, refunded>>

\* The attempt is given back only in the window it was counted in.
Refund(f) == starts.expires = flow[f].window

Refunded(f) == IF Refund(f) /\ starts.attempts > 0
               THEN [starts EXCEPT !.attempts = @ - 1] ELSE starts

OpenFlowSession(f, s) ==
    LET left == OpenSessions \ {flow[f].previous}
        b == flow[f].browser
    IN  /\ flow[f] # NoOne /\ flow[f].state = "taken"
        /\ session[s] = NoOne
        /\ IF Cardinality(left) < Capacity
           THEN /\ session' = [Close({flow[f].previous}) EXCEPT ![s] = "sso"]
                /\ cookie' = [cookie EXCEPT ![b] = s]
                /\ starts' = Refunded(f)
                /\ refunded' = IF Refund(f) THEN refunded \cup {f} ELSE refunded
           ELSE UNCHANGED <<session, cookie, starts, refunded>>
        /\ flow' = [flow EXCEPT ![f].state = "over"]
        /\ UNCHANGED <<memberVars, loginVars, clock>>

Tick ==
    /\ clock < MaxClock
    /\ clock' = clock + 1
    /\ UNCHANGED <<memberVars, session, cookie, loginVars, flowVars>>

SignNext ==
    \/ \E k \in Tokens : IssueToken(k)
    \/ \E m \in Holders : Deactivate(m) \/ Reactivate(m)
    \/ \E b \in Browsers :
        \/ \E k \in Tokens \cup {NoOne} : TestToken(b, k)
        \/ ClosePrevious(b) \/ Logout(b)
        \/ \E s \in SessionIds : OpenSession(b, s)
        \/ \E f \in Flows : StartFlow(b, f)
    \/ \E s \in SessionIds : SessionExpires(s)
    \/ \E f \in Flows : ConsumeFlow(f) \/ ProviderRefuses(f)
                        \/ \E s \in SessionIds : OpenFlowSession(f, s)
    \/ Tick

SignSpec == SignInit /\ [][SignNext]_signVars

------------------------------------------------------------------------------
SignTypeOK ==
    /\ token \in [Tokens -> {"unissued", "live", "revoked"}]
    /\ active \subseteq Holders
    /\ session \in [SessionIds -> Tokens \cup {"sso", "closed", NoOne}]
    /\ cookie \in [Browsers -> SessionIds \cup {NoOne}]
    /\ login \in [Browsers -> LoginRow \cup {NoOne}]
    /\ flow \in [Flows -> FlowRow \cup {NoOne}]
    /\ failures \in Limit /\ starts \in Limit
    /\ clock \in 1 .. MaxClock
    /\ refunded \subseteq Flows /\ outdated \subseteq SessionIds

\* session_principal: whom a request with this session acts for.
Resolves(s) ==
    /\ s \in OpenSessions
    /\ session[s] \in Tokens => Valid(session[s])

\* While a window lasts, the attempts it shows are the flows started in it less
\* those it gave back, however late callbacks come ("a late callback must not
\* decrement a newer window's count", security.py).
AttemptsAreExact ==
    starts.expires > clock =>
        LET mine == {f \in Flows : flow[f] # NoOne /\ flow[f].window = starts.expires}
        IN  starts.attempts = Cardinality(mine \ refunded)

\* A session that was open when its member was deactivated or its token was
\* rotated never speaks for anyone again, even after the member is reactivated.
OutdatedSessionIsDead == \A s \in outdated : ~Resolves(s)
==============================================================================
