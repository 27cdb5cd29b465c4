---------------------------- MODULE TokenRefresh ----------------------------
(***************************************************************************)
(* The access token of one user: from the identity provider into the hub's *)
(* auth_state and into the Kubernetes secret the user's pod mounts.        *)
(*   oauthenticator-generic.py     authenticate, refresh_user              *)
(*   oauthenticator-coffea.py      refresh_user, which also fills the      *)
(*                                 secret                                  *)
(*   secret_creation_hook.py       pre_spawn_hook, lines 106-120           *)
(* Requests of the user are coroutines of the hub: each action runs from   *)
(* one await to the next. JupyterHub, which saves the auth_state that      *)
(* authenticate and refresh_user return, and the provider are external.    *)
(*                                                                         *)
(* Time is counted in ticks and passes whatever the requests do. An access *)
(* token is named by the tick it was issued in, a refresh token by its     *)
(* serial number; 0 is "none" for both, as for a time of renewal.          *)
(***************************************************************************)
EXTENDS Integers, FiniteSets

CONSTANTS
    Requests,   \* coroutine slots for the user's requests
    Life,       \* ticks an access token is valid for
    Patience,   \* ticks a request lasts at most: its calls time out
    Horizon,    \* bound: the last tick
    MaxSerial,  \* bound: refresh tokens the provider hands out
    Relogin,    \* the user may log in again while the server runs
    Overlap,    \* two requests of the user may be under way at once
    Timed,      \* the provider states the lifetime of a token (expires_in)
    Rotates,    \* the provider replaces a refresh token when it is used
    Omits       \* the provider may leave the refresh token out of its answer

ASSUME LifeAssumption == Life \in Nat \ {0} /\ Life % 3 = 0
ASSUME PatienceAssumption == Patience \in Nat /\ 3 * Patience <= Life
ASSUME BoundAssumption == Horizon \in Nat \ {0} /\ MaxSerial \in Nat
ASSUME SwitchAssumption == {Relogin, Overlap, Timed, Rotates, Omits} \subseteq BOOLEAN

Ticks   == 0..Horizon
Serials == 0..MaxSerial
Absent  == -1      \* the secret does not exist

AuthState == [access : Ticks, refresh : Serials, renewAt : 0..(Horizon + Life)]
NoAuth    == [access |-> 0, refresh |-> 0, renewAt |-> 0]

VARIABLES
    now,       \* the time
    auth,      \* auth_state in the hub's database
    secret,    \* 'access_token' of the user's secret
    pod,       \* the user's server runs
    pc,        \* what each request awaits
    seen,      \* the auth_state a request has read
    got,       \* the auth_state a request is to have saved
    since,     \* the tick a request arrived in
    issued,    \* the provider: refresh tokens handed out so far
    accepted,  \* the provider: refresh tokens it still takes
    checked,   \* history: in this tick a session that can be renewed was found
               \* not yet due, or an auth_state was saved
    crossed,   \* history: requests beside which another wrote the secret or auth_state
    mixed,     \* history: the last to write one of the two was such a request, or
               \* a login has written auth_state beside the running pod
    lost       \* history: refresh tokens whose answer never reached auth_state

requests == <<pc, seen, got, since>>
provider == <<issued, accepted>>
history  == <<checked, crossed, mixed, lost>>
vars == <<now, auth, secret, pod, requests, provider, history>>

RefreshSteps == {"decrypt", "token", "userinfo"}
LoginSteps   == {"code", "claims", "enrol"}
Steps        == RefreshSteps \cup LoginSteps \cup {"idle", "save", "spawn"}

TypeOK ==
    /\ now \in 1..Horizon
    /\ auth \in AuthState
    /\ secret \in Ticks \cup {Absent}
    /\ pod \in BOOLEAN
    /\ pc \in [Requests -> Steps]
    /\ seen \in [Requests -> AuthState]
    /\ got \in [Requests -> AuthState]
    /\ since \in [Requests -> Ticks]
    /\ issued \in Serials
    /\ accepted \subseteq 1..issued
    /\ checked \in BOOLEAN
    /\ crossed \subseteq Requests
    /\ mixed \in BOOLEAN
    /\ lost \subseteq Serials

Init ==
    /\ now = 1
    /\ auth = NoAuth
    /\ secret = Absent
    /\ pod = FALSE
    /\ pc = [r \in Requests |-> "idle"]
    /\ seen = [r \in Requests |-> NoAuth]
    /\ got = [r \in Requests |-> NoAuth]
    /\ since = [r \in Requests |-> 0]
    /\ issued = 0
    /\ accepted = {}
    /\ checked = FALSE
    /\ crossed = {}
    /\ mixed = FALSE
    /\ lost = {}

-----------------------------------------------------------------------------
LoggedIn == auth.access # 0
InFlight == {r \in Requests : pc[r] # "idle"}
Logins   == {r \in Requests : pc[r] \in LoginSteps}

At(r, step)   == pc[r] = step
Goto(r, step) == pc' = [pc EXCEPT ![r] = step]

\* Requests that hold the provider's answer to a refresh token.
Holding == {r \in Requests : pc[r] \in {"userinfo", "save"}}

\* A request arrives, with the auth_state it has read.
Arrive(r, step, state) ==
    /\ At(r, "idle")
    /\ Overlap \/ InFlight = {}
    /\ Relogin \/ Logins = {}
    /\ Goto(r, step)
    /\ seen' = [seen EXCEPT ![r] = state]
    /\ since' = [since EXCEPT ![r] = now]

\* The request is over and its locals are gone.
Leave(r) ==
    /\ Goto(r, "idle")
    /\ seen' = [seen EXCEPT ![r] = NoAuth]
    /\ got' = [got EXCEPT ![r] = NoAuth]
    /\ since' = [since EXCEPT ![r] = 0]

\* What r, which goes on or leaves, has written is news to the others under way.
Wrote(r, goesOn) ==
    crossed' = (InFlight \ {r}) \cup (IF goesOn THEN crossed \cap {r} ELSE {})

\* Mutants: the renewal falls due when the token expires; the third is forgotten.
CreateAuthStateLate(answer) ==
    [access |-> answer.access, refresh |-> answer.refresh, renewAt |-> now + Life]
CreateAuthStateFar(answer) ==
    [access |-> answer.access, refresh |-> answer.refresh, renewAt |-> now + 2 * Life]

\* _create_auth_state: renewal is due after two thirds of the token's life.
CreateAuthState(answer) ==
    [access  |-> answer.access,
     refresh |-> answer.refresh,
     renewAt |-> IF Timed THEN now + (2 * Life) \div 3 ELSE 0]

-----------------------------------------------------------------------------
(* The identity provider *)

\* A new session: an access token and a refresh token.
Grant(answer) ==
    /\ issued < MaxSerial
    /\ issued' = issued + 1
    /\ accepted' = accepted \cup {issued + 1}
    /\ answer = [access |-> now, refresh |-> issued + 1]

\* A refresh token is exchanged for an access token: with a new refresh token,
\* with the same, or with none.
Exchange(token, answer) ==
    /\ token \in accepted
    /\ \/ /\ Rotates
          /\ issued < MaxSerial
          /\ issued' = issued + 1
          /\ accepted' = (accepted \ {token}) \cup {issued + 1}
          /\ answer = [access |-> now, refresh |-> issued + 1]
       \/ /\ ~Rotates
          /\ answer = [access |-> now, refresh |-> token]
          /\ UNCHANGED provider
       \/ /\ Omits
          /\ answer = [access |-> now, refresh |-> 0]
          /\ UNCHANGED provider

Answers == [access : {now}, refresh : Serials]

\* The answer waits in the request while the user data are fetched.
Kept(answer) == [NoAuth EXCEPT !.access = answer.access, !.refresh = answer.refresh]

\* The auth_state that the answer and the user data make.
NewState(r) == CreateAuthState([access |-> got[r].access, refresh |-> got[r].refresh])

-----------------------------------------------------------------------------
(* authenticate *)

BeginLogin(r) ==
    /\ Relogin \/ (~pod /\ InFlight = {})
    /\ Arrive(r, "code", NoAuth)
    /\ UNCHANGED <<now, auth, secret, pod, got, provider, history>>

\* The code is exchanged; an error, or a failed exchange, ends the login.
LoginToken(r) ==
    /\ At(r, "code")
    /\ \/ \E answer \in Answers :
             /\ Grant(answer)
             /\ Goto(r, "claims")
             /\ got' = [got EXCEPT ![r] = Kept(answer)]
             /\ UNCHANGED <<seen, since, crossed>>
       \/ Leave(r) /\ crossed' = crossed \ {r} /\ UNCHANGED provider
    /\ UNCHANGED <<now, auth, secret, pod, checked, mixed, lost>>

\* The claims arrive and name an allowed user, who is then saved; or the login
\* is refused.
LoginInfo(r) ==
    /\ At(r, "claims")
    /\ \/ /\ Goto(r, "enrol")
          /\ got' = [got EXCEPT ![r] = NewState(r)]
          /\ UNCHANGED <<seen, since, crossed>>
       \/ Leave(r) /\ crossed' = crossed \ {r}
    /\ UNCHANGED <<now, auth, secret, pod, provider, checked, mixed, lost>>

-----------------------------------------------------------------------------
(* refresh_user, called on a request once auth_refresh_age has passed *)

\* get_auth_state reads the database and awaits the decryption.
BeginRefresh(r) ==
    /\ LoggedIn
    /\ Arrive(r, "decrypt", auth)
    /\ UNCHANGED <<now, auth, secret, pod, got, provider, history>>

\* Without a refresh token, or without a time of renewal, there is no renewal.
NeverDue(state) == state.refresh = 0 \/ state.renewAt = 0

\* refresh_user returns True if there is nothing to do yet, or ever.
Decide(r) ==
    /\ At(r, "decrypt")
    /\ IF NeverDue(seen[r]) \/ now < seen[r].renewAt
       THEN /\ Leave(r)
            /\ crossed' = crossed \ {r}
            /\ checked' = (checked \/ ~NeverDue(seen[r]))
       ELSE /\ Goto(r, "token")
            /\ UNCHANGED <<seen, got, since, crossed, checked>>
    /\ UNCHANGED <<now, auth, secret, pod, provider, mixed, lost>>

\* _get_token: the answer arrives, or it is lost, or the provider refuses or is
\* silent. An exception makes JupyterHub turn the request away.
AskToken(r) ==
    /\ At(r, "token")
    /\ \/ \E answer \in Answers :
             /\ Exchange(seen[r].refresh, answer)
             /\ \/ /\ Goto(r, "userinfo")
                   /\ got' = [got EXCEPT ![r] = Kept(answer)]
                   /\ UNCHANGED <<seen, since, crossed, lost>>
                \/ /\ Leave(r)
                   /\ crossed' = crossed \ {r}
                   /\ lost' = lost \cup {seen[r].refresh}
       \/ Leave(r) /\ crossed' = crossed \ {r} /\ UNCHANGED <<provider, lost>>
    /\ UNCHANGED <<now, auth, secret, pod, checked, mixed>>

\* Mutant: a secret that cannot be read or patched does not stop the request.
RefreshInfoAnyway(r) ==
    /\ At(r, "userinfo")
    /\ Goto(r, "save")
    /\ got' = [got EXCEPT ![r] = NewState(r)]
    /\ secret' \in {secret, IF secret = Absent THEN Absent ELSE NewState(r).access}
    /\ UNCHANGED <<now, auth, pod, seen, since, provider, history>>

\* The user data arrive: the secret is read and patched, then the new
\* auth_state is returned. If a call fails, or the secret cannot be read, the
\* request is turned away and the tokens are gone.
RefreshInfo(r) ==
    /\ At(r, "userinfo")
    /\ \/ /\ secret # Absent
          /\ secret' = NewState(r).access
          /\ mixed' = (r \in crossed)
          /\ \/ /\ Goto(r, "save")
                /\ Wrote(r, TRUE)
                /\ got' = [got EXCEPT ![r] = NewState(r)]
                /\ UNCHANGED <<seen, since, lost>>
             \/ /\ Leave(r)                     \* patched, but the reply is lost
                /\ Wrote(r, FALSE)
                /\ lost' = lost \cup {seen[r].refresh}
       \/ /\ Leave(r)
          /\ crossed' = crossed \ {r}
          /\ lost' = lost \cup {seen[r].refresh}
          /\ UNCHANGED <<secret, mixed>>
    /\ UNCHANGED <<now, auth, pod, provider, checked>>

-----------------------------------------------------------------------------
(* JupyterHub: save_auth_state, after encrypting it *)

\* Mutant: only what was renewed is replaced.
SaveAccess(r) ==
    /\ At(r, "save")
    /\ auth' = [auth EXCEPT !.access = got[r].access, !.renewAt = got[r].renewAt]
    /\ checked' = TRUE
    /\ mixed' = (r \in crossed)
    /\ Leave(r)
    /\ Wrote(r, FALSE)
    /\ UNCHANGED <<now, secret, pod, provider, lost>>

\* What refresh_user returned.
Save(r) ==
    /\ At(r, "save")
    /\ auth' = got[r]
    /\ checked' = TRUE
    /\ mixed' = (r \in crossed)
    /\ Leave(r)
    /\ Wrote(r, FALSE)
    /\ UNCHANGED <<now, secret, pod, provider, lost>>

\* What authenticate returned.
Enrol(r) ==
    /\ At(r, "enrol")
    /\ auth' = got[r]
    /\ checked' = TRUE
    /\ mixed' = (mixed \/ pod)
    /\ Leave(r)
    /\ Wrote(r, FALSE)
    /\ UNCHANGED <<now, secret, pod, provider, lost>>

-----------------------------------------------------------------------------
(* pre_spawn_hook, as far as the access token goes *)

BeginSpawn(r) ==
    /\ LoggedIn
    /\ ~pod /\ \A q \in Requests : pc[q] # "spawn"
    /\ Arrive(r, "spawn", auth)
    /\ UNCHANGED <<now, auth, secret, pod, got, provider, history>>

\* The secret is created, or patched: without a token to write, one it has stays.
SpawnToken(token) ==
    IF token # 0 THEN token ELSE IF secret = Absent THEN 0 ELSE secret

\* The rest of the hook, or the start of the pod, may fail after the secret is
\* written; or nothing is written.
Spawn(r) ==
    /\ At(r, "spawn")
    /\ Leave(r)
    /\ \/ /\ secret' = SpawnToken(seen[r].access)
          /\ pod' \in BOOLEAN
          /\ mixed' = (r \in crossed)
          /\ Wrote(r, FALSE)
       \/ /\ crossed' = crossed \ {r}
          /\ UNCHANGED <<secret, pod, mixed>>
    /\ UNCHANGED <<now, auth, provider, checked, lost>>

StopServer ==
    /\ pod
    /\ pod' = FALSE
    /\ UNCHANGED <<now, auth, secret, requests, provider, history>>

-----------------------------------------------------------------------------
(* Time and failure *)

\* Time passes, whether renewals succeed, fail, or are not asked for: only the
\* calls of a request under way time out.
Tick ==
    /\ now < Horizon
    /\ \A r \in InFlight : now < since[r] + Patience
    /\ now' = now + 1
    /\ checked' = FALSE
    /\ UNCHANGED <<auth, secret, pod, requests, provider, crossed, mixed, lost>>

\* The hub restarts: requests under way are gone, the database and the pod stay.
Crash ==
    /\ InFlight # {}
    /\ pc' = [r \in Requests |-> "idle"]
    /\ seen' = [r \in Requests |-> NoAuth]
    /\ got' = [r \in Requests |-> NoAuth]
    /\ since' = [r \in Requests |-> 0]
    /\ crossed' = {}
    /\ lost' = lost \cup {seen[r].refresh : r \in Holding}
    /\ UNCHANGED <<now, auth, secret, pod, provider, checked, mixed>>

Next ==
    \/ \E r \in Requests :
        \/ BeginLogin(r) \/ LoginToken(r) \/ LoginInfo(r) \/ Enrol(r)
        \/ BeginRefresh(r) \/ Decide(r) \/ AskToken(r) \/ RefreshInfo(r)
        \/ Save(r)
        \/ BeginSpawn(r) \/ Spawn(r)
    \/ StopServer \/ Tick \/ Crash

Spec == Init /\ [][Next]_vars

-----------------------------------------------------------------------------
(* Properties *)

\* While the hub keeps finding the session up to date, or has just renewed it,
\* the token a running pod finds in its secret has not expired: unless requests
\* of the user crossed, or the user logged in beside the running pod. (Renewal
\* after two thirds of the token's life leaves the requests a third of it.)
StaleOnlyIfCrossed == pod /\ checked /\ now >= secret + Life => mixed

\* The pod is left with an older token than the hub goes by only in these cases:
\* neither a failed patch, nor a lost answer, nor a restart of the hub between
\* the patch of the secret and the saving of auth_state brings it about.
BehindOnlyIfCrossed == pod /\ secret < auth.access => mixed

\* A refresh token the provider no longer takes stands in auth_state only while
\* its successor is on the way there, or if that was lost on the way: of the
\* requests that read the same token, none puts back a used one.
SessionRenewable ==
    auth.refresh \in accepted \cup lost \cup {0} \cup {seen[r].refresh : r \in Holding}

\* The token a running pod finds in its secret has not expired while the hub
\* finds the session up to date ("Renew at 2/3 the token lifetime",
\* oauthenticator-generic.py line 149).
PodTokenValid == pod /\ secret > 0 /\ checked => now < secret + Life
=============================================================================
