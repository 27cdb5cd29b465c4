------------------------- MODULE OAuthLogin_proofs -------------------------
(***************************************************************************)
(* Theorems about OAuthLogin, for any tabs, browsers, users and number of  *)
(* logins: a browser is logged in only through a login of its own, and a   *)
(* login is refused for its state only if its browser lost the state.      *)
(***************************************************************************)
EXTENDS OAuthLogin, TLAPS

Pending(t) == tab[t].at \in {"redirect", "provider"}
Own(b, f)  == f \in Flows /\ begun[f] = b

\* A tab that has not come back from the provider holds a login of its own that
\* nobody has approved.
PendingOwn == \A t \in Tabs : Pending(t) =>
    Own(BrowserOf[t], tab[t].flow) /\ approved[tab[t].flow] = Nobody

\* Such a login is in one tab only.
PendingAlone == \A s, t \in Tabs :
    Pending(s) /\ Pending(t) /\ tab[s].flow = tab[t].flow => s = t

\* A browser holds, and sends, the state of its own logins.
CookieOwn == \A b \in Browsers : cookie[b] # 0 => Own(b, cookie[b])
SentOwn   == \A t \in Tabs : tab[t].sent # 0 => Own(BrowserOf[t], tab[t].sent)

ApprovedBegun == \A f \in Flows : approved[f] # Nobody => begun[f] # Nobody

\* A callback with a code is one of a login that was approved.
CallbackApproved == \A t \in Tabs : At(t, "callback") /\ tab[t].outcome # "denied" =>
    tab[t].flow \in Flows /\ approved[tab[t].flow] # Nobody

\* A code is on its way to the provider for a login of the tab's browser.
TokenOwn == \A t \in Tabs : At(t, "token") =>
    Own(BrowserOf[t], tab[t].flow) /\ approved[tab[t].flow] # Nobody

InOwn == \A t \in Tabs : tab[t].outcome = "in" =>
    Own(BrowserOf[t], tab[t].flow) /\ approved[tab[t].flow] \in Admitted

\* A login is in its browser's cookie unless it is yet to be put there or was lost.
CookieKept == \A f \in Flows :
    \/ begun[f] = Nobody
    \/ f \in lost
    \/ \E t \in Tabs : At(t, "redirect") /\ tab[t].flow = f
    \/ cookie[begun[f]] = f

\* So it was sent with the callback unless it was lost.
SentKept == \A t \in Tabs : At(t, "callback") /\ tab[t].outcome # "denied" =>
    \/ tab[t].sent = tab[t].flow
    \/ tab[t].flow \in lost
    \/ begun[tab[t].flow] # BrowserOf[t]

HandshakeInv ==
    /\ TypeOK
    /\ PendingOwn /\ PendingAlone
    /\ CookieOwn /\ SentOwn
    /\ ApprovedBegun /\ CallbackApproved /\ TokenOwn /\ InOwn
    /\ LoggedInAsBegun

MismatchBegun == \A t \in Tabs : tab[t].outcome = "mismatch" =>
    tab[t].flow \in Flows /\ begun[tab[t].flow] # Nobody

CrossInv == CookieKept /\ SentKept /\ MismatchBegun /\ MismatchOnlyIfLost

-----------------------------------------------------------------------------
\* Before any login has begun both invariants hold.
LEMMA Start == Init => HandshakeInv /\ CrossInv
<1> SUFFICES ASSUME Init PROVE HandshakeInv /\ CrossInv
  OBVIOUS
<1> USE TabAssumption, MemberAssumption, FlowAssumption DEF Init, Admitted, Idle, At,
   Pending, Own,
   Flows, States
<1>1. TypeOK
  BY DEF TypeOK, Stages, Outcomes
<1>2. PendingOwn /\ PendingAlone /\ CookieOwn /\ SentOwn
  BY DEF PendingOwn, PendingAlone, CookieOwn, SentOwn
<1>3. ApprovedBegun /\ CallbackApproved /\ TokenOwn /\ InOwn /\ LoggedInAsBegun
  BY DEF ApprovedBegun, CallbackApproved, TokenOwn, InOwn, LoggedInAsBegun
<1>4. CrossInv
  BY DEF CrossInv, CookieKept, SentKept, MismatchBegun, MismatchOnlyIfLost
<1> QED
  BY <1>1, <1>2, <1>3, <1>4 DEF HandshakeInv

\* The states handed out never include the absent one.
LEMMA FlowFacts == Flows \subseteq States /\ 0 \in States /\ 0 \notin Flows
  BY FlowAssumption DEF Flows, States

\* authenticate settles the answer, for the better only if one who may log in approved.
LEMMA LoginFacts ==
    ASSUME NEW t \in Tabs, LoginUser(t), approved[tab[t].flow] \in Users
    PROVE  /\ At(t, "token") /\ UNCHANGED <<begun, approved, cookie, who, via, lost>>
           /\ redeemed' = redeemed \/ redeemed' = redeemed \cup {tab[t].flow}
           /\ \E outcome \in {"in", "refused", "error"} :
                /\ Settle(t, outcome)
                /\ outcome = "in" => approved[tab[t].flow] \in Admitted
<1>1. PICK token \in Responses, userdata \in Responses, claims \in SUBSET Claims :
        /\ GetToken(tab[t].flow, token)
        /\ Settle(t, Authenticate(approved[tab[t].flow], token, userdata, claims))
  BY DEF LoginUser
<1> DEFINE u == approved[tab[t].flow]
           data == GetUserData(u, claims)
<1>2. data.groups \cap {"allowed"} # {} => u \in Members
  BY DEF GetUserData
<1>3. Authenticate(u, token, userdata, claims) \in {"in", "refused", "error"}
  BY DEF Authenticate
<1>4. Authenticate(u, token, userdata, claims) = "in" => u \in Admitted
  BY <1>2 DEF Authenticate, CheckUserInGroups, Admitted
<1>5. redeemed' = redeemed \/ redeemed' = redeemed \cup {tab[t].flow}
  BY <1>1 DEF GetToken
<1> QED
  BY <1>1, <1>3, <1>4, <1>5 DEF LoginUser

\* HandshakeInv is inductive.
LEMMA Step == HandshakeInv /\ [Next]_vars => HandshakeInv'
<1> SUFFICES ASSUME HandshakeInv, [Next]_vars PROVE HandshakeInv'
  OBVIOUS
<1> USE TabAssumption, MemberAssumption, FlowFacts DEF HandshakeInv, TypeOK, At, Own,
   Pending
<1>1. ASSUME NEW t \in Tabs, Login(t) PROVE HandshakeInv'
  <2> PICK f \in Flows :
        /\ \A g \in Flows : begun[g] = Nobody <=> g >= f
        /\ begun' = [begun EXCEPT ![f] = BrowserOf[t]]
        /\ tab' = [tab EXCEPT ![t] = [Idle EXCEPT !.at = "redirect", !.flow = f]]
    BY <1>1 DEF Login
  <2> begun[f] = Nobody
    BY FlowAssumption DEF Flows
  <2> UNCHANGED <<approved, redeemed, cookie, who, via, lost>>
    BY <1>1 DEF Login
  <2>1. TypeOK'
    BY DEF Idle, Stages, Outcomes
  <2>2. PendingOwn'
    BY DEF Idle, PendingOwn, ApprovedBegun
  <2>3. PendingAlone'
    BY DEF Idle, PendingAlone, PendingOwn
  <2>4. CookieOwn'
    BY DEF Idle, CookieOwn
  <2>5. SentOwn'
    BY DEF Idle, SentOwn
  <2>6. ApprovedBegun'
    BY DEF Idle, ApprovedBegun
  <2>7. CallbackApproved'
    BY DEF Idle, CallbackApproved
  <2>8. TokenOwn'
    BY DEF Idle, TokenOwn
  <2>9. InOwn'
    BY DEF Idle, InOwn
  <2>10. LoggedInAsBegun'
    BY DEF Idle, LoggedInAsBegun
  <2> QED
    BY <2>1, <2>2, <2>3, <2>4, <2>5, <2>6, <2>7, <2>8, <2>9, <2>10
<1>2. ASSUME NEW t \in Tabs, Redirected(t) PROVE HandshakeInv'
  <2>1. TypeOK'
    BY <1>2 DEF Redirected, SetCookie, Move, Stages, Outcomes
  <2>2. PendingOwn'
    BY <1>2 DEF Redirected, SetCookie, Move, PendingOwn
  <2>3. PendingAlone'
    BY <1>2 DEF Redirected, SetCookie, Move, PendingAlone, PendingOwn
  <2>4. CookieOwn'
    BY <1>2 DEF Redirected, SetCookie, Move, CookieOwn, PendingOwn
  <2>5. SentOwn'
    BY <1>2 DEF Redirected, SetCookie, Move, SentOwn
  <2>6. ApprovedBegun'
    BY <1>2 DEF Redirected, SetCookie, Move, ApprovedBegun
  <2>7. CallbackApproved'
    BY <1>2 DEF Redirected, SetCookie, Move, CallbackApproved
  <2>8. TokenOwn'
    BY <1>2 DEF Redirected, SetCookie, Move, TokenOwn
  <2>9. InOwn'
    BY <1>2 DEF Redirected, SetCookie, Move, InOwn
  <2>10. LoggedInAsBegun'
    BY <1>2 DEF Redirected, SetCookie, Move, LoggedInAsBegun
  <2> QED
    BY <2>1, <2>2, <2>3, <2>4, <2>5, <2>6, <2>7, <2>8, <2>9, <2>10
<1>3. ASSUME NEW t \in Tabs, Deny(t) PROVE HandshakeInv'
  <2>1. TypeOK'
    BY <1>3 DEF Deny, Callback, Stages, Outcomes
  <2>2. PendingOwn'
    BY <1>3 DEF Deny, Callback, PendingOwn
  <2>3. PendingAlone'
    BY <1>3 DEF Deny, Callback, PendingAlone
  <2>4. CookieOwn'
    BY <1>3 DEF Deny, Callback, CookieOwn
  <2>5. SentOwn'
    BY <1>3 DEF Deny, Callback, SentOwn, CookieOwn
  <2>6. ApprovedBegun'
    BY <1>3 DEF Deny, Callback, ApprovedBegun
  <2>7. CallbackApproved'
    BY <1>3 DEF Deny, Callback, CallbackApproved
  <2>8. TokenOwn'
    BY <1>3 DEF Deny, Callback, TokenOwn
  <2>9. InOwn'
    BY <1>3 DEF Deny, Callback, InOwn
  <2>10. LoggedInAsBegun'
    BY <1>3 DEF Deny, Callback, LoggedInAsBegun
  <2> QED
    BY <2>1, <2>2, <2>3, <2>4, <2>5, <2>6, <2>7, <2>8, <2>9, <2>10
<1>4. ASSUME NEW t \in Tabs, CheckArguments(t) PROVE HandshakeInv'
  <2>1. TypeOK'
    BY <1>4 DEF CheckArguments, StateAgrees, Settle, Move, Stages, Outcomes
  <2>2. PendingOwn'
    BY <1>4 DEF CheckArguments, StateAgrees, Settle, Move, PendingOwn
  <2>3. PendingAlone'
    BY <1>4 DEF CheckArguments, StateAgrees, Settle, Move, PendingAlone
  <2>4. CookieOwn'
    BY <1>4 DEF CheckArguments, StateAgrees, Settle, Move, CookieOwn
  <2>5. SentOwn'
    BY <1>4 DEF CheckArguments, StateAgrees, Settle, Move, SentOwn
  <2>6. ApprovedBegun'
    BY <1>4 DEF CheckArguments, StateAgrees, Settle, Move, ApprovedBegun
  <2>7. CallbackApproved'
    <3> ~At(t, "callback")'
      BY <1>4 DEF CheckArguments, Settle, Move
    <3> \A s \in Tabs : s # t => tab'[s] = tab[s]
      BY <1>4 DEF CheckArguments, Settle, Move
    <3> UNCHANGED approved
      BY <1>4 DEF CheckArguments
    <3> QED
      BY DEF CallbackApproved
  <2>8. TokenOwn'
    BY <1>4 DEF CheckArguments, StateAgrees, Settle, Move, TokenOwn, SentOwn,
       CallbackApproved
  <2>9. InOwn'
    BY <1>4 DEF CheckArguments, StateAgrees, Settle, Move, InOwn
  <2>10. LoggedInAsBegun'
    BY <1>4 DEF CheckArguments, StateAgrees, Settle, Move, LoggedInAsBegun
  <2> QED
    BY <2>1, <2>2, <2>3, <2>4, <2>5, <2>6, <2>7, <2>8, <2>9, <2>10
<1>5. ASSUME NEW t \in Tabs, LoginUser(t) PROVE HandshakeInv'
  <2> approved[tab[t].flow] \in Users
    BY <1>5 DEF LoginUser, TokenOwn
  <2> PICK outcome \in {"in", "refused", "error"} :
        /\ Settle(t, outcome)
        /\ outcome = "in" => approved[tab[t].flow] \in Admitted
    BY <1>5, LoginFacts
  <2> /\ At(t, "token") /\ UNCHANGED <<begun, approved, cookie, who, via, lost>>
      /\ redeemed' = redeemed \/ redeemed' = redeemed \cup {tab[t].flow}
    BY <1>5, LoginFacts
  <2>1. TypeOK'
    <3>1. redeemed' \subseteq Flows
      BY DEF TokenOwn
    <3>2. tab' = [tab EXCEPT ![t].at = "answer", ![t].outcome = outcome]
      BY DEF Settle
    <3>3. tab' \in [Tabs -> [at : Stages, flow : States, sent : States, outcome : Outcomes]]
      BY <3>2 DEF Stages, Outcomes
    <3> QED
      BY <3>1, <3>3
  <2>2. PendingOwn'
    BY DEF Settle, PendingOwn
  <2>3. PendingAlone'
    BY DEF Settle, PendingAlone
  <2>4. CookieOwn'
    BY DEF Settle, CookieOwn
  <2>5. SentOwn'
    BY DEF Settle, SentOwn
  <2>6. ApprovedBegun'
    BY DEF Settle, ApprovedBegun
  <2>7. CallbackApproved'
    BY DEF Settle, CallbackApproved
  <2>8. TokenOwn'
    BY DEF Settle, TokenOwn
  <2>9. InOwn'
    BY DEF Settle, InOwn, TokenOwn
  <2>10. LoggedInAsBegun'
    BY DEF Settle, LoggedInAsBegun
  <2> QED
    BY <2>1, <2>2, <2>3, <2>4, <2>5, <2>6, <2>7, <2>8, <2>9, <2>10
<1>6. ASSUME NEW t \in Tabs, Answered(t) PROVE HandshakeInv'
  <2>1. TypeOK'
    BY <1>6 DEF Answered, SetCookie, Idle, Stages, Outcomes, InOwn
  <2>2. PendingOwn'
    BY <1>6 DEF Answered, SetCookie, Idle, PendingOwn
  <2>3. PendingAlone'
    BY <1>6 DEF Answered, SetCookie, Idle, PendingAlone
  <2>4. CookieOwn'
    BY <1>6 DEF Answered, SetCookie, Idle, CookieOwn
  <2>5. SentOwn'
    BY <1>6 DEF Answered, SetCookie, Idle, SentOwn
  <2>6. ApprovedBegun'
    BY <1>6 DEF Answered, SetCookie, Idle, ApprovedBegun
  <2>7. CallbackApproved'
    BY <1>6 DEF Answered, SetCookie, Idle, CallbackApproved
  <2>8. TokenOwn'
    BY <1>6 DEF Answered, SetCookie, Idle, TokenOwn
  <2>9. InOwn'
    BY <1>6 DEF Answered, SetCookie, Idle, InOwn
  <2>10. LoggedInAsBegun'
    <3> SUFFICES ASSUME NEW b \in Browsers, who'[b] # Nobody
                 PROVE  via'[b] # 0 /\ begun'[via'[b]] = b /\ who'[b] = approved'[via'[b]]
      BY DEF LoggedInAsBegun
    <3>1. CASE tab[t].outcome = "in" /\ b = BrowserOf[t]
      BY <1>6, <3>1 DEF Answered, InOwn
    <3>2. CASE ~(tab[t].outcome = "in" /\ b = BrowserOf[t])
      <4> who'[b] = who[b] /\ via'[b] = via[b]
        BY <1>6, <3>2 DEF Answered
      <4> QED
        BY <1>6 DEF Answered, LoggedInAsBegun
    <3> QED
      BY <3>1, <3>2
  <2> QED
    BY <2>1, <2>2, <2>3, <2>4, <2>5, <2>6, <2>7, <2>8, <2>9, <2>10
<1>7. ASSUME NEW t \in Tabs, Logout(t) PROVE HandshakeInv'
  <2>1. TypeOK'
    BY <1>7 DEF Logout, SetCookie, Stages, Outcomes
  <2>2. PendingOwn'
    BY <1>7 DEF Logout, SetCookie, PendingOwn
  <2>3. PendingAlone'
    BY <1>7 DEF Logout, SetCookie, PendingAlone
  <2>4. CookieOwn'
    BY <1>7 DEF Logout, SetCookie, CookieOwn
  <2>5. SentOwn'
    BY <1>7 DEF Logout, SetCookie, SentOwn
  <2>6. ApprovedBegun'
    BY <1>7 DEF Logout, SetCookie, ApprovedBegun
  <2>7. CallbackApproved'
    BY <1>7 DEF Logout, SetCookie, CallbackApproved
  <2>8. TokenOwn'
    BY <1>7 DEF Logout, SetCookie, TokenOwn
  <2>9. InOwn'
    BY <1>7 DEF Logout, SetCookie, InOwn
  <2>10. LoggedInAsBegun'
    BY <1>7 DEF Logout, SetCookie, LoggedInAsBegun
  <2> QED
    BY <2>1, <2>2, <2>3, <2>4, <2>5, <2>6, <2>7, <2>8, <2>9, <2>10
<1>8. ASSUME NEW t \in Tabs, NEW u \in Users, Approve(t, u) PROVE HandshakeInv'
  <2>1. TypeOK'
    BY <1>8 DEF Approve, Callback, Stages, Outcomes
  <2>2. PendingOwn'
    BY <1>8 DEF Approve, Callback, PendingOwn, PendingAlone
  <2>3. PendingAlone'
    BY <1>8 DEF Approve, Callback, PendingAlone
  <2>4. CookieOwn'
    BY <1>8 DEF Approve, Callback, CookieOwn
  <2>5. SentOwn'
    BY <1>8 DEF Approve, Callback, SentOwn, CookieOwn
  <2>6. ApprovedBegun'
    BY <1>8 DEF Approve, Callback, ApprovedBegun, PendingOwn
  <2>7. CallbackApproved'
    BY <1>8 DEF Approve, Callback, CallbackApproved, PendingOwn
  <2>8. TokenOwn'
    <3> ~At(t, "token")'
      BY <1>8 DEF Approve, Callback
    <3> \A s \in Tabs : s # t => tab'[s] = tab[s]
      BY <1>8 DEF Approve, Callback
    <3> \A f \in Flows : approved[f] # Nobody => approved'[f] # Nobody
      BY <1>8 DEF Approve
    <3> UNCHANGED begun
      BY <1>8 DEF Approve
    <3> QED
      BY DEF TokenOwn
  <2>9. InOwn'
    <3> tab'[t].outcome = "none" /\ UNCHANGED begun
      BY <1>8 DEF Approve, Callback
    <3> \A s \in Tabs : s # t => tab'[s] = tab[s]
      BY <1>8 DEF Approve, Callback
    <3> \A f \in Flows : approved[f] \in Admitted => approved'[f] \in Admitted
      BY <1>8 DEF Approve, PendingOwn, Admitted
    <3> QED
      BY DEF InOwn
  <2>10. LoggedInAsBegun'
    BY <1>8 DEF Approve, Callback, LoggedInAsBegun, PendingOwn
  <2> QED
    BY <2>1, <2>2, <2>3, <2>4, <2>5, <2>6, <2>7, <2>8, <2>9, <2>10
<1>9. ASSUME NEW t \in Tabs, NEW f \in Flows, Reopen(t, f) PROVE HandshakeInv'
  <2>1. TypeOK'
    BY <1>9 DEF Reopen, Callback, Stages, Outcomes
  <2>2. PendingOwn'
    BY <1>9 DEF Reopen, Callback, PendingOwn
  <2>3. PendingAlone'
    BY <1>9 DEF Reopen, Callback, PendingAlone
  <2>4. CookieOwn'
    BY <1>9 DEF Reopen, Callback, CookieOwn
  <2>5. SentOwn'
    BY <1>9 DEF Reopen, Callback, SentOwn, CookieOwn
  <2>6. ApprovedBegun'
    BY <1>9 DEF Reopen, Callback, ApprovedBegun
  <2>7. CallbackApproved'
    BY <1>9 DEF Reopen, Callback, CallbackApproved
  <2>8. TokenOwn'
    BY <1>9 DEF Reopen, Callback, TokenOwn
  <2>9. InOwn'
    BY <1>9 DEF Reopen, Callback, InOwn
  <2>10. LoggedInAsBegun'
    BY <1>9 DEF Reopen, Callback, LoggedInAsBegun
  <2> QED
    BY <2>1, <2>2, <2>3, <2>4, <2>5, <2>6, <2>7, <2>8, <2>9, <2>10
<1>10. ASSUME NEW b \in Browsers, Expire(b) PROVE HandshakeInv'
  <2>1. TypeOK'
    BY <1>10 DEF Expire, CookieOwn
  <2>2. PendingOwn'
    BY <1>10 DEF Expire, PendingOwn
  <2>3. PendingAlone'
    BY <1>10 DEF Expire, PendingAlone
  <2>4. CookieOwn'
    BY <1>10 DEF Expire, CookieOwn
  <2>5. SentOwn'
    BY <1>10 DEF Expire, SentOwn
  <2>6. ApprovedBegun'
    BY <1>10 DEF Expire, ApprovedBegun
  <2>7. CallbackApproved'
    BY <1>10 DEF Expire, CallbackApproved
  <2>8. TokenOwn'
    BY <1>10 DEF Expire, TokenOwn
  <2>9. InOwn'
    BY <1>10 DEF Expire, InOwn
  <2>10. LoggedInAsBegun'
    BY <1>10 DEF Expire, LoggedInAsBegun
  <2> QED
    BY <2>1, <2>2, <2>3, <2>4, <2>5, <2>6, <2>7, <2>8, <2>9, <2>10
<1>11. CASE UNCHANGED vars
  BY <1>11 DEF vars, PendingOwn, PendingAlone, CookieOwn, SentOwn, ApprovedBegun,
     CallbackApproved, TokenOwn, InOwn, LoggedInAsBegun
<1> QED
  BY <1>1, <1>2, <1>3, <1>4, <1>5, <1>6, <1>7, <1>8, <1>9, <1>10, <1>11 DEF Next, Handle

\* HandshakeInv holds of every handshake of the hub.
THEOREM Handshake == Spec => []HandshakeInv
<1>1. Init => HandshakeInv
  BY Start
<1> QED
  BY <1>1, Step, PTL DEF Spec

\* Every variable keeps its type: where allowed_groups is set, only their members are
\* ever logged in.
THEOREM TypeCorrect == Spec => []TypeOK
<1>1. HandshakeInv => TypeOK
  BY DEF HandshakeInv
<1> QED
  BY <1>1, Handshake, PTL

\* A browser is logged in through a login that it began itself, as the user who
\* approved that login, however the tabs' requests and responses cross and whenever
\* its cookie expires.
THEOREM AlwaysLoggedInAsBegun == Spec => []LoggedInAsBegun
<1>1. HandshakeInv => LoggedInAsBegun
  BY DEF HandshakeInv
<1> QED
  BY <1>1, Handshake, PTL

\* A code is sent to the provider only for a browser that holds the login's state.
THEOREM AlwaysRedeemedAtHome == Spec => RedeemedAtHome
<1>1. HandshakeInv =>
        [\A t \in Tabs : tab[t].at = "token" /\ redeemed' # redeemed /\ tab'[t] # tab[t] =>
            begun[tab[t].flow] = BrowserOf[t]]_vars
  BY DEF HandshakeInv, TokenOwn, Own, At
<1> QED
  BY <1>1, Handshake, PTL DEF RedeemedAtHome

-----------------------------------------------------------------------------
\* CrossInv is inductive, given HandshakeInv: a login leaves the cookie of its
\* browser only by a response or an expiry that records it in lost.
LEMMA CrossStep == HandshakeInv /\ CrossInv /\ [Next]_vars => CrossInv'
<1> SUFFICES ASSUME HandshakeInv, CrossInv, [Next]_vars PROVE CrossInv'
  OBVIOUS
<1> USE TabAssumption, MemberAssumption, FlowFacts DEF HandshakeInv, CrossInv, TypeOK,
   At, Own, Pending
<1>1. ASSUME NEW t \in Tabs, Login(t) PROVE CrossInv'
  <2> PICK f \in Flows :
        /\ \A g \in Flows : begun[g] = Nobody <=> g >= f
        /\ begun' = [begun EXCEPT ![f] = BrowserOf[t]]
        /\ tab' = [tab EXCEPT ![t] = [Idle EXCEPT !.at = "redirect", !.flow = f]]
    BY <1>1 DEF Login
  <2> begun[f] = Nobody
    BY FlowAssumption DEF Flows
  <2> ~At(t, "redirect") /\ UNCHANGED <<approved, redeemed, cookie, who, via, lost>>
    BY <1>1 DEF Login
  <2>1. CookieKept'
    BY DEF Idle, CookieKept
  <2>2. SentKept'
    BY DEF Idle, SentKept, CallbackApproved, ApprovedBegun
  <2>3. MismatchBegun'
    BY DEF Idle, MismatchBegun
  <2>4. MismatchOnlyIfLost'
    BY DEF Idle, MismatchOnlyIfLost, MismatchBegun
  <2> QED
    BY <2>1, <2>2, <2>3, <2>4
<1>2. ASSUME NEW t \in Tabs, Redirected(t) PROVE CrossInv'
  <2>1. CookieKept'
    BY <1>2 DEF Redirected, SetCookie, Move, CookieKept, PendingOwn
  <2>2. SentKept'
    BY <1>2 DEF Redirected, SetCookie, Move, SentKept
  <2>3. MismatchBegun'
    BY <1>2 DEF Redirected, SetCookie, Move, MismatchBegun
  <2>4. MismatchOnlyIfLost'
    BY <1>2 DEF Redirected, SetCookie, Move, MismatchOnlyIfLost
  <2> QED
    BY <2>1, <2>2, <2>3, <2>4
<1>3. ASSUME NEW t \in Tabs, Deny(t) PROVE CrossInv'
  <2>1. CookieKept'
    BY <1>3 DEF Deny, Callback, CookieKept
  <2>2. SentKept'
    BY <1>3 DEF Deny, Callback, SentKept
  <2>3. MismatchBegun'
    BY <1>3 DEF Deny, Callback, MismatchBegun
  <2>4. MismatchOnlyIfLost'
    BY <1>3 DEF Deny, Callback, MismatchOnlyIfLost
  <2> QED
    BY <2>1, <2>2, <2>3, <2>4
<1>4. ASSUME NEW t \in Tabs, CheckArguments(t) PROVE CrossInv'
  <2>1. CookieKept'
    BY <1>4 DEF CheckArguments, StateAgrees, Settle, Move, CookieKept
  <2>2. SentKept'
    BY <1>4 DEF CheckArguments, StateAgrees, Settle, Move, SentKept
  <2>3. MismatchBegun'
    BY <1>4 DEF CheckArguments, StateAgrees, Settle, Move, MismatchBegun,
       CallbackApproved, ApprovedBegun
  <2>4. MismatchOnlyIfLost'
    BY <1>4 DEF CheckArguments, StateAgrees, Settle, Move, MismatchOnlyIfLost,
       SentKept, SentOwn
  <2> QED
    BY <2>1, <2>2, <2>3, <2>4
<1>5. ASSUME NEW t \in Tabs, LoginUser(t) PROVE CrossInv'
  <2> approved[tab[t].flow] \in Users
    BY <1>5 DEF LoginUser, TokenOwn
  <2> PICK outcome \in {"in", "refused", "error"} : Settle(t, outcome)
    BY <1>5, LoginFacts
  <2> At(t, "token") /\ UNCHANGED <<begun, approved, cookie, who, via, lost>>
    BY <1>5, LoginFacts
  <2>1. CookieKept'
    BY DEF Settle, CookieKept
  <2>2. SentKept'
    BY DEF Settle, SentKept
  <2>3. MismatchBegun'
    BY DEF Settle, MismatchBegun
  <2>4. MismatchOnlyIfLost'
    BY DEF Settle, MismatchOnlyIfLost
  <2> QED
    BY <2>1, <2>2, <2>3, <2>4
<1>6. ASSUME NEW t \in Tabs, Answered(t) PROVE CrossInv'
  <2>1. CookieKept'
    BY <1>6 DEF Answered, SetCookie, Idle, CookieKept
  <2>2. SentKept'
    BY <1>6 DEF Answered, SetCookie, Idle, SentKept
  <2>3. MismatchBegun'
    BY <1>6 DEF Answered, SetCookie, Idle, MismatchBegun
  <2>4. MismatchOnlyIfLost'
    BY <1>6 DEF Answered, SetCookie, Idle, MismatchOnlyIfLost
  <2> QED
    BY <2>1, <2>2, <2>3, <2>4
<1>7. ASSUME NEW t \in Tabs, Logout(t) PROVE CrossInv'
  <2>1. CookieKept'
    BY <1>7 DEF Logout, SetCookie, CookieKept
  <2>2. SentKept'
    BY <1>7 DEF Logout, SetCookie, SentKept
  <2>3. MismatchBegun'
    BY <1>7 DEF Logout, SetCookie, MismatchBegun
  <2>4. MismatchOnlyIfLost'
    BY <1>7 DEF Logout, SetCookie, MismatchOnlyIfLost
  <2> QED
    BY <2>1, <2>2, <2>3, <2>4
<1>8. ASSUME NEW t \in Tabs, NEW u \in Users, Approve(t, u) PROVE CrossInv'
  <2>1. CookieKept'
    BY <1>8 DEF Approve, Callback, CookieKept
  <2>2. SentKept'
    BY <1>8 DEF Approve, Callback, SentKept, PendingOwn, PendingAlone, CookieKept
  <2>3. MismatchBegun'
    BY <1>8 DEF Approve, Callback, MismatchBegun
  <2>4. MismatchOnlyIfLost'
    BY <1>8 DEF Approve, Callback, MismatchOnlyIfLost
  <2> QED
    BY <2>1, <2>2, <2>3, <2>4
<1>9. ASSUME NEW t \in Tabs, NEW f \in Flows, Reopen(t, f) PROVE CrossInv'
  <2>1. CookieKept'
    BY <1>9 DEF Reopen, Callback, CookieKept
  <2>2. SentKept'
    BY <1>9 DEF Reopen, Callback, SentKept, PendingOwn, CookieKept, ApprovedBegun
  <2>3. MismatchBegun'
    BY <1>9 DEF Reopen, Callback, MismatchBegun
  <2>4. MismatchOnlyIfLost'
    BY <1>9 DEF Reopen, Callback, MismatchOnlyIfLost
  <2> QED
    BY <2>1, <2>2, <2>3, <2>4
<1>10. ASSUME NEW b \in Browsers, Expire(b) PROVE CrossInv'
  <2>1. CookieKept'
    BY <1>10 DEF Expire, CookieKept
  <2>2. SentKept'
    BY <1>10 DEF Expire, SentKept
  <2>3. MismatchBegun'
    BY <1>10 DEF Expire, MismatchBegun
  <2>4. MismatchOnlyIfLost'
    BY <1>10 DEF Expire, MismatchOnlyIfLost
  <2> QED
    BY <2>1, <2>2, <2>3, <2>4
<1>11. CASE UNCHANGED vars
  BY <1>11 DEF vars, CookieKept, SentKept, MismatchBegun, MismatchOnlyIfLost
<1> QED
  BY <1>1, <1>2, <1>3, <1>4, <1>5, <1>6, <1>7, <1>8, <1>9, <1>10, <1>11 DEF Next, Handle

\* A login is refused for its state only if another response replaced or cleared the
\* one cookie of its browser, the cookie expired, or its address was opened in another
\* browser.
THEOREM MismatchNeedsALoss == Spec => []MismatchOnlyIfLost
<1>1. Init => CrossInv
  BY Start
<1>2. CrossInv => MismatchOnlyIfLost
  BY DEF CrossInv
<1> QED
  BY <1>1, <1>2, CrossStep, Handshake, PTL DEF Spec
=============================================================================
