----------------------------- MODULE OAuthLogin -----------------------------
(***************************************************************************)
(* The OAuth handshake of the hub (oauthenticator-oauth2-14.2.0.py): the   *)
(* login handler gives the browser a state, in a cookie and in the URL it  *)
(* redirects to; the callback handler lets the browser in when both agree. *)
(* The tabs of a browser share its one state cookie. A request carries the *)
(* cookie of the moment it is sent, and a response changes it when it      *)
(* arrives, so that the requests of two tabs cross. The cookie is good for *)
(* a day: a login left at the provider for longer comes back without it.   *)
(*                                                                         *)
(* Browsers, users and the identity provider are external.                 *)
(***************************************************************************)
EXTENDS Naturals

CONSTANTS
    Tabs, Browsers, BrowserOf,   \* tabs, and the browser each belongs to
    Users, Members,              \* accounts at the provider, those in allowed_groups
    Grouped,                     \* allowed_groups is set
    Nobody,
    MaxFlows                     \* bound: logins begun

ASSUME TabAssumption == BrowserOf \in [Tabs -> Browsers] /\ Nobody \notin Browsers
ASSUME MemberAssumption == Members \subseteq Users /\ Nobody \notin Users
ASSUME GroupedAssumption == Grouped \in BOOLEAN
ASSUME FlowAssumption == MaxFlows \in Nat

\* A login is named by its state (state_id is fresh each time); 0 is no state.
Flows  == 1..MaxFlows
States == 0..MaxFlows

VARIABLES
    begun,     \* for each login, the browser the state was made for; Nobody if none yet
    approved,  \* for each login, the user for whom the provider issued a code
    redeemed,  \* logins whose code was exchanged
    cookie,    \* state cookie of each browser
    who,       \* login cookie of each browser: the user, or Nobody
    via,       \* history: the login that set it
    tab,       \* what each tab is doing
    lost       \* history: logins whose state left the cookie of their browser

vars == <<begun, approved, redeemed, cookie, who, via, tab, lost>>

\* Who may log in.
Admitted == IF Grouped THEN Members ELSE Users

\* "redirect" and "answer": a response is on its way; "callback": a request, with the
\* cookie sent; "token": the handler awaits authenticate.
Stages == {"idle", "redirect", "provider", "callback", "token", "answer"}
Outcomes == {"none", "in", "denied", "error", "mismatch", "refused"}
Idle == [at |-> "idle", flow |-> 0, sent |-> 0, outcome |-> "none"]

TypeOK ==
    /\ begun \in [Flows -> Browsers \cup {Nobody}]
    /\ approved \in [Flows -> Users \cup {Nobody}]
    /\ redeemed \subseteq Flows
    /\ cookie \in [Browsers -> States]
    /\ who \in [Browsers -> Admitted \cup {Nobody}]
    /\ via \in [Browsers -> States]
    /\ tab \in [Tabs -> [at : Stages, flow : States, sent : States, outcome : Outcomes]]
    /\ lost \subseteq Flows

Init ==
    /\ begun = [f \in Flows |-> Nobody]
    /\ approved = [f \in Flows |-> Nobody]
    /\ redeemed = {}
    /\ cookie = [b \in Browsers |-> 0]
    /\ who = [b \in Browsers |-> Nobody]
    /\ via = [b \in Browsers |-> 0]
    /\ tab = [t \in Tabs |-> Idle]
    /\ lost = {}

-----------------------------------------------------------------------------
At(t, stage) == tab[t].at = stage
Move(t, stage) == tab' = [tab EXCEPT ![t].at = stage]

\* The answer of the callback handler to tab t is settled.
Settle(t, outcome) == tab' = [tab EXCEPT ![t].at = "answer", ![t].outcome = outcome]

\* The cookie of browser b is replaced, for login f or for none.
SetCookie(b, f) ==
    /\ cookie' = [cookie EXCEPT ![b] = f]
    /\ lost' = lost \cup {g \in Flows : begun[g] = b /\ g # f}

-----------------------------------------------------------------------------
(* OAuthLoginHandler.get *)

\* The handler makes the state and redirects; it keeps nothing.
Login(t) ==
    /\ At(t, "idle")
    /\ \E f \in Flows :
        /\ \A g \in Flows : begun[g] = Nobody <=> g >= f
        /\ begun' = [begun EXCEPT ![f] = BrowserOf[t]]
        /\ tab' = [tab EXCEPT ![t] = [Idle EXCEPT !.at = "redirect", !.flow = f]]
    /\ UNCHANGED <<approved, redeemed, cookie, who, via, lost>>

\* Mutant: the cookie of a login that is under way is kept.
RedirectedKeeping(t) ==
    /\ At(t, "redirect")
    /\ IF cookie[BrowserOf[t]] = 0 THEN SetCookie(BrowserOf[t], tab[t].flow)
       ELSE UNCHANGED <<cookie, lost>>
    /\ Move(t, "provider")
    /\ UNCHANGED <<begun, approved, redeemed, who, via>>

Redirected(t) ==
    /\ At(t, "redirect")
    /\ SetCookie(BrowserOf[t], tab[t].flow)
    /\ Move(t, "provider")
    /\ UNCHANGED <<begun, approved, redeemed, who, via>>

\* expires_days=1: the browser drops the cookie, whatever its tabs are doing.
Expire(b) ==
    /\ cookie[b] # 0
    /\ cookie' = [cookie EXCEPT ![b] = 0]
    /\ lost' = lost \cup {cookie[b]}
    /\ UNCHANGED <<begun, approved, redeemed, who, via, tab>>

-----------------------------------------------------------------------------
(* The provider sends the browser to the callback *)

Callback(t, f) ==
    [tab EXCEPT ![t] = [at |-> "callback", flow |-> f, sent |-> cookie[BrowserOf[t]],
                        outcome |-> "none"]]

\* A user approves and the provider issues a code.
Approve(t, u) ==
    /\ At(t, "provider")
    /\ approved' = [approved EXCEPT ![tab[t].flow] = u]
    /\ tab' = Callback(t, tab[t].flow)
    /\ UNCHANGED <<begun, redeemed, cookie, who, via, lost>>

\* The user cancels, or the provider turns the request down: no code, an error instead.
Deny(t) ==
    /\ At(t, "provider")
    /\ tab' = [Callback(t, tab[t].flow) EXCEPT ![t].outcome = "denied"]
    /\ UNCHANGED <<begun, approved, redeemed, cookie, who, via, lost>>

\* The callback URL of a login is opened again, in any tab of any browser.
Reopen(t, f) ==
    /\ At(t, "idle")
    /\ approved[f] # Nobody
    /\ tab' = Callback(t, f)
    /\ UNCHANGED <<begun, approved, redeemed, cookie, who, via, lost>>

-----------------------------------------------------------------------------
(* OAuthCallbackHandler.get *)

\* Mutant: any state cookie will do.
StateAgreesAny(t) == tab[t].sent # 0

\* check_state: the state of the cookie is that of the URL.
StateAgrees(t) == tab[t].sent # 0 /\ tab[t].sent = tab[t].flow

\* check_error and check_code come first, and do not look at the cookie.
CheckArguments(t) ==
    /\ At(t, "callback")
    /\ IF tab[t].outcome = "denied" THEN Move(t, "answer")
       ELSE IF StateAgrees(t) THEN Move(t, "token")
       ELSE Settle(t, "mismatch")
    /\ UNCHANGED <<begun, approved, redeemed, cookie, who, via, lost>>

\* The provider's response to a request: a JSON body, none, one that is not JSON, an
\* HTTP error; or no connection.
Responses == {"json", "empty", "text", "error", "none"}

\* fetch: the parsed body, None when it is empty, else an exception.
Fetch(response) ==
    IF response = "json" THEN "parsed" ELSE IF response = "empty" THEN "None" ELSE "raised"

\* _get_token: the code is posted to the provider, which takes it once. Only an error or
\* a missing connection leaves the code as it was for certain.
GetToken(f, response) ==
    /\ response = "json" => f \notin redeemed
    /\ IF response = "json" THEN redeemed' = redeemed \cup {f}
       ELSE \/ UNCHANGED redeemed
            \/ response # "error" /\ redeemed' = redeemed \cup {f}

\* _get_user_data: of the token's owner, the claims that the provider has.
Claims == {"username", "groups"}
GetUserData(u, claims) ==
    [named |-> "username" \in claims,
     groups |-> IF "groups" \in claims /\ u \in Members THEN {"allowed"} ELSE {}]

\* Mutant: whoever the provider vouches for is let in.
CheckUserInGroupsAny(member_groups, allowed_groups) == TRUE
CheckUserInGroups(member_groups, allowed_groups) == member_groups \cap allowed_groups # {}

\* What authenticate makes of the two responses: subscripting None raises, as a failed
\* request does; without a name, or in none of the allowed groups that are set, there is
\* no user.
Authenticate(u, token, userdata, claims) ==
    LET data == GetUserData(u, claims) IN
    CASE Fetch(token) # "parsed" \/ Fetch(userdata) # "parsed" -> "error"
      [] ~data.named -> "refused"
      [] Grouped /\ ~CheckUserInGroups(data.groups, {"allowed"}) -> "refused"
      [] OTHER -> "in"

\* Mutant: a request to the provider that fails is made again, without end.
LoginUserRetries(t) ==
    /\ At(t, "token")
    /\ \E token, userdata \in Responses, claims \in SUBSET Claims :
        LET outcome == Authenticate(approved[tab[t].flow], token, userdata, claims) IN
        /\ GetToken(tab[t].flow, token)
        /\ IF outcome = "error" THEN Move(t, "callback") ELSE Settle(t, outcome)
    /\ UNCHANGED <<begun, approved, cookie, who, via, lost>>

\* login_user awaits authenticate: an exception, no user (403), or a user.
LoginUser(t) ==
    /\ At(t, "token")
    /\ \E token, userdata \in Responses, claims \in SUBSET Claims :
        /\ GetToken(tab[t].flow, token)
        /\ Settle(t, Authenticate(approved[tab[t].flow], token, userdata, claims))
    /\ UNCHANGED <<begun, approved, cookie, who, via, lost>>

\* The response clears the state cookie, whatever it holds by then, also when the
\* state did not agree; and it logs the browser in. What the page shows is left out.
Answered(t) ==
    /\ At(t, "answer")
    /\ IF tab[t].outcome = "denied" THEN UNCHANGED <<cookie, lost>>
       ELSE SetCookie(BrowserOf[t], 0)
    /\ IF tab[t].outcome = "in"
       THEN /\ who' = [who EXCEPT ![BrowserOf[t]] = approved[tab[t].flow]]
            /\ via' = [via EXCEPT ![BrowserOf[t]] = tab[t].flow]
       ELSE UNCHANGED <<who, via>>
    /\ tab' = [tab EXCEPT ![t] = Idle]
    /\ UNCHANGED <<begun, approved, redeemed>>

\* OAuthLogoutHandler
Logout(t) ==
    /\ At(t, "idle")
    /\ who[BrowserOf[t]] # Nobody
    /\ SetCookie(BrowserOf[t], 0)
    /\ who' = [who EXCEPT ![BrowserOf[t]] = Nobody]
    /\ via' = [via EXCEPT ![BrowserOf[t]] = 0]
    /\ UNCHANGED <<begun, approved, redeemed, tab>>

Handle(t) == Redirected(t) \/ CheckArguments(t) \/ LoginUser(t) \/ Answered(t)

Next ==
    \/ \E t \in Tabs :
        \/ Handle(t) \/ Login(t) \/ Logout(t) \/ Deny(t)
        \/ \E u \in Users : Approve(t, u)
        \/ \E f \in Flows : Reopen(t, f)
    \/ \E b \in Browsers : Expire(b)

\* Requests are served and responses arrive; what users do is up to them.
Spec == Init /\ [][Next]_vars /\ \A t \in Tabs : WF_vars(Handle(t))

-----------------------------------------------------------------------------
(* Properties *)

\* A browser is logged in through a login that it began itself, as the user who
\* approved that login.
LoggedInAsBegun ==
    \A b \in Browsers : who[b] # Nobody =>
        /\ via[b] # 0
        /\ begun[via[b]] = b
        /\ who[b] = approved[via[b]]

\* A login is turned away for its state only if the state was lost to its browser's one
\* cookie: another response replaced or cleared it, or it was left at the provider for
\* more than a day; or if the URL belongs to another browser.
MismatchOnlyIfLost ==
    \A t \in Tabs : tab[t].outcome = "mismatch" =>
        \/ tab[t].flow \in lost
        \/ begun[tab[t].flow] # BrowserOf[t]

\* A code is redeemed only for a browser that holds the login's state: an address
\* opened elsewhere does not use the code up.
RedeemedAtHome ==
    [][\A t \in Tabs : tab[t].at = "token" /\ redeemed' # redeemed /\ tab'[t] # tab[t] =>
        begun[tab[t].flow] = BrowserOf[t]]_vars

\* Every tab that waits for the hub is answered.
TabsAnswered == \A t \in Tabs : tab[t].at \in {"callback", "token"} ~> At(t, "idle")
=============================================================================
