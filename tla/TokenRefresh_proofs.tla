------------------------ MODULE TokenRefresh_proofs ------------------------
(***************************************************************************)
(* Theorems about TokenRefresh, for any number of requests, overlapping as *)
(* they may, any lifetime, any provider and any bounds: what holds of the  *)
(* pod's token and of the session.                                         *)
(***************************************************************************)
EXTENDS TokenRefresh, TLAPS

\* An answer of the provider that a request holds, to be saved or made up to be.
Answered(r) == pc[r] \in {"userinfo", "save", "claims", "enrol"}

\* The steps of the requests that go by the auth_state they have read.
Reading == {"decrypt", "token", "userinfo", "save", "spawn"}

-----------------------------------------------------------------------------
\* A request lasts at most Patience ticks, and its answer came while it lasted.
Clock ==
    /\ auth.access <= now
    /\ \A r \in InFlight : 1 <= since[r] /\ since[r] <= now /\ now <= since[r] + Patience
    /\ \A r \in Requests : Answered(r) => since[r] <= got[r].access /\ got[r].access <= now

\* What a request has read is still so if nobody wrote beside it.
Undisturbed ==
    /\ \A r \in Requests : pc[r] \in Reading => LoggedIn
    /\ \A r \in InFlight \ crossed :
        auth.access <= since[r] /\ (pc[r] \in Reading => seen[r] = auth)

\* A renewed token is in the secret before its auth_state is saved.
SecretFirst == \A r \in Requests \ crossed : pc[r] = "save" => secret = got[r].access

BehindInv == Clock /\ Undisturbed /\ SecretFirst /\ BehindOnlyIfCrossed

-----------------------------------------------------------------------------
Due == (2 * Life) \div 3   \* ticks from the making of an auth_state to its renewal

\* Renewals fall due in time: of the auth_state saved, of those on their way
\* there, and of those that are being looked at.
DueInTime(state) == state.renewAt <= state.access + Patience + Due

RenewalDue ==
    /\ DueInTime(auth)
    /\ \A r \in Requests : pc[r] \in {"save", "enrol"} => DueInTime(got[r])
    /\ \A r \in Requests : pc[r] = "decrypt" =>
        DueInTime(seen[r]) /\ (seen[r] = auth \/ since[r] <= auth.access + Patience)
    /\ checked => now < auth.access + Life

-----------------------------------------------------------------------------
\* Every refresh token there is was handed out.
HandedOut ==
    /\ auth.refresh <= issued
    /\ \A r \in Requests : seen[r].refresh <= issued /\ got[r].refresh <= issued

\* A new refresh token that is on its way is with one request, and nobody else
\* has read it.
InOneHand ==
    Rotates => \A q \in Requests : got[q].refresh # 0 =>
        /\ got[q].refresh # auth.refresh
        /\ \A r \in Requests :
            /\ seen[r].refresh # got[q].refresh
            /\ r # q => got[r].refresh # got[q].refresh

\* The provider takes a refresh token that is on its way.
TokenTaken == \A r \in Requests : got[r].refresh \in accepted \cup {0}

SessionInv == HandedOut /\ InOneHand /\ TokenTaken /\ SessionRenewable

-----------------------------------------------------------------------------
\* A renewal falls due within the token's life, a tick of every third left over.
LEMMA DueFact == Due \in Nat /\ Due + Patience <= Life /\ 2 * Patience < Life
  BY LifeAssumption, PatienceAssumption DEF Due

\* Sums of these within a token's life.
LEMMA WithinLife ==
  ASSUME NEW t \in Nat, NEW access \in Nat
  PROVE  /\ t <= access + Patience => t < access + Life
         /\ \A arrived \in Nat :
               t <= arrived + Patience /\ arrived <= access + Patience => t < access + Life
         /\ \A renewAt \in Nat :
               t < renewAt /\ renewAt <= access + Patience + Due => t < access + Life
<1> Patience \in Nat /\ Life \in Nat
  BY LifeAssumption, PatienceAssumption
<1> QED
  BY DueFact

\* Times are numbers.
LEMMA TimeTypes ==
  ASSUME TypeOK
  PROVE  /\ now \in Nat
         /\ \A r \in Requests : since[r] \in Nat
         /\ \A r \in Requests : got[r].access \in Nat /\ seen[r].renewAt \in Nat
         /\ auth.access \in Nat /\ auth.renewAt \in Nat
<1> USE BoundAssumption, LifeAssumption DEF TypeOK, AuthState, Ticks
<1>1. 1..Horizon \subseteq Nat /\ 0..Horizon \subseteq Nat /\ 0..(Horizon + Life) \subseteq Nat
  OBVIOUS
<1> QED
  BY <1>1

\* What is made of an answer, before and after the user data have arrived.
LEMMA AuthTypes ==
  ASSUME TypeOK
  PROVE  /\ NoAuth \in AuthState /\ NoAuth.access = 0 /\ NoAuth.refresh = 0
         /\ \A answer \in Answers :
               /\ Kept(answer) \in AuthState
               /\ Kept(answer).access = now /\ Kept(answer).refresh = answer.refresh
         /\ \A r \in Requests :
               /\ NewState(r) \in AuthState
               /\ NewState(r).access = got[r].access
               /\ NewState(r).refresh = got[r].refresh
               /\ NewState(r).renewAt <= now + Due
<1> USE LifeAssumption, BoundAssumption, DueFact DEF TypeOK, AuthState, NoAuth, Ticks,
   Serials
<1>1. now + Due \in 0..(Horizon + Life) /\ now \in Ticks
  BY PatienceAssumption
<1>2. NoAuth \in AuthState /\ NoAuth.access = 0 /\ NoAuth.refresh = 0
  OBVIOUS
<1>3. ASSUME NEW answer \in Answers
      PROVE  /\ Kept(answer) \in AuthState
             /\ Kept(answer).access = now /\ Kept(answer).refresh = answer.refresh
  <2>1. answer.access = now /\ answer.refresh \in Serials
    BY DEF Answers
  <2> QED
    BY <1>1, <1>2, <2>1 DEF Kept
<1>4. ASSUME NEW r \in Requests
      PROVE  /\ NewState(r) \in AuthState
             /\ NewState(r).access = got[r].access /\ NewState(r).refresh = got[r].refresh
             /\ NewState(r).renewAt <= now + Due
  BY <1>1 DEF NewState, CreateAuthState, Due
<1> QED
  BY <1>2, <1>3, <1>4

\* The refresh tokens the provider takes are among those it handed out.
LEMMA ProviderTypes ==
  ASSUME TypeOK, NEW token, NEW answer, Grant(answer) \/ Exchange(token, answer)
  PROVE  issued' \in Serials /\ accepted' \subseteq 1..issued'
<1> USE BoundAssumption DEF TypeOK, Serials, provider
<1>1. CASE Grant(answer)
  BY <1>1 DEF Grant
<1>2. CASE Exchange(token, answer)
  <2>1. CASE UNCHANGED provider
    BY <2>1
  <2>2. CASE issued < MaxSerial /\ issued' = issued + 1
             /\ accepted' = (accepted \ {token}) \cup {issued + 1}
    <3>1. issued' \in Serials /\ issued + 1 \in 1..issued' /\ 1..issued \subseteq 1..issued'
      BY <2>2
    <3> QED
      BY <2>2, <3>1
  <2> QED
    BY <1>2, <2>1, <2>2 DEF Exchange
<1> QED
  BY <1>1, <1>2

\* A request that is over keeps nothing.
LEMMA LeaveTypes ==
  ASSUME TypeOK, NEW r \in Requests, Leave(r)
  PROVE  /\ pc' \in [Requests -> Steps]
         /\ seen' \in [Requests -> AuthState]
         /\ got' \in [Requests -> AuthState]
         /\ since' \in [Requests -> Ticks]
  BY AuthTypes, BoundAssumption DEF TypeOK, Leave, Goto, Steps, Ticks

-----------------------------------------------------------------------------
\* Every action keeps the types: one step per action of Next.
LEMMA TypeStep == ASSUME TypeOK, [Next]_vars PROVE TypeOK'
<1> USE BoundAssumption DEF TypeOK, Ticks, Serials, Absent, Steps, RefreshSteps, LoginSteps,
   requests, provider, history, At, Goto, InFlight
<1>1. ASSUME NEW r \in Requests, BeginLogin(r) PROVE TypeOK'
  BY <1>1, AuthTypes DEF BeginLogin, Arrive
<1>2. ASSUME NEW r \in Requests, LoginToken(r) PROVE TypeOK'
  <2>1. CASE Leave(r) /\ crossed' = crossed \ {r} /\ UNCHANGED provider
    BY <1>2, <2>1, ProviderTypes, AuthTypes DEF LoginToken, Leave
  <2>2. ASSUME NEW answer \in Answers, Grant(answer), Goto(r, "claims"),
               got' = [got EXCEPT ![r] = Kept(answer)], UNCHANGED <<seen, since, crossed>>
        PROVE  TypeOK'
    BY <1>2, <2>2, ProviderTypes, AuthTypes DEF LoginToken
  <2> QED
    BY <1>2, <2>1, <2>2 DEF LoginToken
<1>3. ASSUME NEW r \in Requests, LoginInfo(r) PROVE TypeOK'
  BY <1>3, AuthTypes DEF LoginInfo, Leave
<1>4. ASSUME NEW r \in Requests, Enrol(r) PROVE TypeOK'
  BY <1>4, AuthTypes DEF Enrol, Leave, Wrote
<1>5. ASSUME NEW r \in Requests, BeginRefresh(r) PROVE TypeOK'
  BY <1>5 DEF BeginRefresh, Arrive
<1>6. ASSUME NEW r \in Requests, Decide(r) PROVE TypeOK'
  <2>1. CASE Leave(r) /\ crossed' = crossed \ {r} /\ checked' \in BOOLEAN
    BY <1>6, <2>1, LeaveTypes DEF Decide
  <2>2. CASE Goto(r, "token") /\ UNCHANGED <<seen, got, since, crossed, checked>>
    BY <1>6, <2>2 DEF Decide
  <2> QED
    BY <1>6, <2>1, <2>2 DEF Decide
<1>7. ASSUME NEW r \in Requests, AskToken(r) PROVE TypeOK'
  <2> seen[r].refresh \in Serials
    BY DEF AuthState
  <2>1. CASE Leave(r) /\ crossed' = crossed \ {r} /\ UNCHANGED <<provider, lost>>
    BY <1>7, <2>1, LeaveTypes DEF AskToken
  <2>2. ASSUME NEW answer \in Answers, Exchange(seen[r].refresh, answer),
               Leave(r), crossed' = crossed \ {r}, lost' = lost \cup {seen[r].refresh}
        PROVE  TypeOK'
    BY <1>7, <2>2, ProviderTypes, LeaveTypes DEF AskToken
  <2>3. ASSUME NEW answer \in Answers, Exchange(seen[r].refresh, answer),
               Goto(r, "userinfo"), got' = [got EXCEPT ![r] = Kept(answer)],
               UNCHANGED <<seen, since, crossed, lost>>
        PROVE  TypeOK'
    BY <1>7, <2>3, ProviderTypes, AuthTypes DEF AskToken
  <2> QED
    BY <1>7, <2>1, <2>2, <2>3 DEF AskToken
<1>8. ASSUME NEW r \in Requests, RefreshInfo(r) PROVE TypeOK'
  <2>1. NewState(r) \in AuthState /\ NewState(r).access \in Ticks /\ seen[r].refresh \in Serials
    BY AuthTypes DEF AuthState
  <2>2. /\ secret' \in Ticks \cup {Absent} /\ crossed' \subseteq Requests
        /\ lost' \subseteq Serials
    BY <1>8, <2>1 DEF RefreshInfo, Wrote
  <2>5. mixed' \in BOOLEAN
    <3>1. mixed' = mixed \/ mixed' = (r \in crossed)
      BY <1>8 DEF RefreshInfo
    <3>2. (r \in crossed) \in BOOLEAN /\ mixed \in BOOLEAN
      OBVIOUS
    <3> QED
      BY <3>1, <3>2, Zenon
  <2>3. CASE Leave(r)
    BY <1>8, <2>2, <2>5, <2>3, LeaveTypes DEF RefreshInfo
  <2>4. CASE Goto(r, "save") /\ got' = [got EXCEPT ![r] = NewState(r)] /\ UNCHANGED <<seen, since>>
    BY <1>8, <2>1, <2>2, <2>5, <2>4 DEF RefreshInfo
  <2> QED
    BY <1>8, <2>3, <2>4 DEF RefreshInfo
<1>9. ASSUME NEW r \in Requests, Save(r) PROVE TypeOK'
  BY <1>9, AuthTypes DEF Save, Leave, Wrote
<1>10. ASSUME NEW r \in Requests, BeginSpawn(r) PROVE TypeOK'
  BY <1>10 DEF BeginSpawn, Arrive
<1>11. ASSUME NEW r \in Requests, Spawn(r) PROVE TypeOK'
  <2>1. SpawnToken(seen[r].access) \in Ticks
    BY DEF SpawnToken, AuthState
  <2>2. secret' \in Ticks \cup {Absent} /\ crossed' \subseteq Requests /\ pod' \in BOOLEAN
    BY <1>11, <2>1 DEF Spawn, Wrote
  <2>3. mixed' \in BOOLEAN
    <3>1. mixed' = mixed \/ mixed' = (r \in crossed)
      BY <1>11 DEF Spawn
    <3>2. (r \in crossed) \in BOOLEAN /\ mixed \in BOOLEAN
      OBVIOUS
    <3> QED
      BY <3>1, <3>2, Zenon
  <2> QED
    BY <1>11, <2>2, <2>3, LeaveTypes DEF Spawn
<1>12. CASE StopServer
  BY <1>12 DEF StopServer
<1>13. CASE Tick
  <2>1. now' \in 1..Horizon
    BY <1>13 DEF Tick
  <2> QED
    BY <1>13, <2>1 DEF Tick
<1>14. CASE Crash
  <2>1. lost' \subseteq Serials
    BY <1>14 DEF Crash, Holding, AuthState
  <2>2. /\ seen' \in [Requests -> AuthState] /\ got' \in [Requests -> AuthState]
        /\ since' \in [Requests -> Ticks] /\ pc' \in [Requests -> Steps]
    BY <1>14, AuthTypes DEF Crash
  <2> QED
    BY <1>14, <2>1, <2>2 DEF Crash
<1>15. CASE UNCHANGED vars
  BY <1>15 DEF vars
<1> QED
  BY <1>1, <1>2, <1>3, <1>4, <1>5, <1>6, <1>7, <1>8, <1>9, <1>10, <1>11, <1>12, <1>13,
     <1>14, <1>15 DEF Next

\* Every variable keeps its type.
THEOREM TypeCorrect == Spec => []TypeOK
<1>1. Init => TypeOK
  <2>1. NoAuth \in AuthState
    BY BoundAssumption, LifeAssumption DEF NoAuth, AuthState, Ticks, Serials
  <2> SUFFICES ASSUME Init PROVE TypeOK
    OBVIOUS
  <2>2. now \in 1..Horizon /\ issued \in Serials /\ accepted \subseteq 1..issued
    BY BoundAssumption DEF Init, Serials
  <2>3. pc \in [Requests -> Steps] /\ since \in [Requests -> Ticks]
    BY BoundAssumption DEF Init, Steps, Ticks
  <2> QED
    BY <2>1, <2>2, <2>3 DEF Init, TypeOK
<1> QED
  BY <1>1, TypeStep, PTL DEF Spec

-----------------------------------------------------------------------------
\* Every action keeps BehindInv.
LEMMA BehindStep == ASSUME TypeOK, BehindInv, [Next]_vars PROVE BehindInv'
<1> USE AuthTypes, PatienceAssumption DEF BehindInv, TypeOK, AuthState, Ticks, Serials, Absent, Answered, Reading, LoginSteps, LoggedIn,
   requests, provider, history, At, Goto, InFlight
<1>1. ASSUME NEW r \in Requests, BeginLogin(r) PROVE BehindInv'
  <2>1. Clock'
    BY <1>1 DEF BeginLogin, Arrive, Clock
  <2>2. Undisturbed'
    BY <1>1 DEF BeginLogin, Arrive, Undisturbed, Clock
  <2>3. SecretFirst'
    BY <1>1 DEF BeginLogin, Arrive, SecretFirst
  <2>4. BehindOnlyIfCrossed'
    BY <1>1 DEF BeginLogin, Arrive, BehindOnlyIfCrossed, Undisturbed, Clock,
       SecretFirst
  <2> QED
    BY <2>1, <2>2, <2>3, <2>4 DEF BehindInv
<1>2. ASSUME NEW r \in Requests, LoginToken(r) PROVE BehindInv'
  <2>1. Clock'
    <3>1. CASE Leave(r) /\ crossed' = crossed \ {r} /\ UNCHANGED provider
      BY <1>2, <3>1 DEF LoginToken, Leave, Clock
    <3>2. ASSUME NEW answer \in Answers, Grant(answer), Goto(r, "claims"),
                 got' = [got EXCEPT ![r] = Kept(answer)], UNCHANGED <<seen, since, crossed>>
          PROVE  Clock'
      BY <1>2, <3>2 DEF LoginToken, Clock, Answers
    <3> QED
      BY <1>2, <3>1, <3>2 DEF LoginToken
  <2>2. Undisturbed'
    BY <1>2 DEF LoginToken, Grant, Leave, Undisturbed, Clock
  <2>3. SecretFirst'
    BY <1>2 DEF LoginToken, Grant, Leave, SecretFirst
  <2>4. BehindOnlyIfCrossed'
    BY <1>2 DEF LoginToken, Grant, Leave, BehindOnlyIfCrossed, Undisturbed, Clock,
       SecretFirst
  <2> QED
    BY <2>1, <2>2, <2>3, <2>4 DEF BehindInv
<1>3. ASSUME NEW r \in Requests, LoginInfo(r) PROVE BehindInv'
  <2>1. Clock'
    BY <1>3 DEF LoginInfo, Leave, Clock
  <2>2. Undisturbed'
    BY <1>3 DEF LoginInfo, Leave, Undisturbed, Clock
  <2>3. SecretFirst'
    BY <1>3 DEF LoginInfo, Leave, SecretFirst
  <2>4. BehindOnlyIfCrossed'
    BY <1>3 DEF LoginInfo, Leave, BehindOnlyIfCrossed, Undisturbed, Clock, SecretFirst
  <2> QED
    BY <2>1, <2>2, <2>3, <2>4 DEF BehindInv
<1>4. ASSUME NEW r \in Requests, Enrol(r) PROVE BehindInv'
  <2>1. Clock'
    BY <1>4 DEF Enrol, Leave, Wrote, Clock
  <2>2. Undisturbed'
    BY <1>4 DEF Enrol, Leave, Wrote, Undisturbed, Clock
  <2>3. SecretFirst'
    BY <1>4 DEF Enrol, Leave, Wrote, SecretFirst
  <2>4. BehindOnlyIfCrossed'
    BY <1>4 DEF Enrol, Leave, Wrote, BehindOnlyIfCrossed, Undisturbed, Clock,
       SecretFirst
  <2> QED
    BY <2>1, <2>2, <2>3, <2>4 DEF BehindInv
<1>5. ASSUME NEW r \in Requests, BeginRefresh(r) PROVE BehindInv'
  <2>1. Clock'
    BY <1>5 DEF BeginRefresh, Arrive, Clock
  <2>2. Undisturbed'
    BY <1>5 DEF BeginRefresh, Arrive, Undisturbed, Clock
  <2>3. SecretFirst'
    BY <1>5 DEF BeginRefresh, Arrive, SecretFirst
  <2>4. BehindOnlyIfCrossed'
    BY <1>5 DEF BeginRefresh, Arrive, BehindOnlyIfCrossed, Undisturbed, Clock,
       SecretFirst
  <2> QED
    BY <2>1, <2>2, <2>3, <2>4 DEF BehindInv
<1>6. ASSUME NEW r \in Requests, Decide(r) PROVE BehindInv'
  <2>1. Clock'
    BY <1>6 DEF Decide, Leave, Clock
  <2>2. Undisturbed'
    BY <1>6 DEF Decide, Leave, Undisturbed, Clock
  <2>3. SecretFirst'
    BY <1>6 DEF Decide, Leave, SecretFirst
  <2>4. BehindOnlyIfCrossed'
    BY <1>6 DEF Decide, Leave, BehindOnlyIfCrossed, Undisturbed, Clock, SecretFirst
  <2> QED
    BY <2>1, <2>2, <2>3, <2>4 DEF BehindInv
<1>7. ASSUME NEW r \in Requests, AskToken(r) PROVE BehindInv'
  <2>1. Clock'
    <3>1. CASE Leave(r) /\ crossed' = crossed \ {r} /\ UNCHANGED <<provider, lost>>
      BY <1>7, <3>1 DEF AskToken, Leave, Clock
    <3>2. ASSUME NEW answer \in Answers, Exchange(seen[r].refresh, answer),
                 Leave(r), crossed' = crossed \ {r}, lost' = lost \cup {seen[r].refresh}
          PROVE  Clock'
      BY <1>7, <3>2 DEF AskToken, Leave, Clock
    <3>3. ASSUME NEW answer \in Answers, Exchange(seen[r].refresh, answer),
                 Goto(r, "userinfo"), got' = [got EXCEPT ![r] = Kept(answer)],
                 UNCHANGED <<seen, since, crossed, lost>>
          PROVE  Clock'
      BY <1>7, <3>3 DEF AskToken, Clock, Answers
    <3> QED
      BY <1>7, <3>1, <3>2, <3>3 DEF AskToken
  <2>2. Undisturbed'
    BY <1>7 DEF AskToken, Leave, Undisturbed, Clock
  <2>3. SecretFirst'
    BY <1>7 DEF AskToken, Leave, SecretFirst
  <2>4. BehindOnlyIfCrossed'
    BY <1>7 DEF AskToken, Leave, BehindOnlyIfCrossed, Undisturbed, Clock, SecretFirst
  <2> QED
    BY <2>1, <2>2, <2>3, <2>4 DEF BehindInv
<1>8. ASSUME NEW r \in Requests, RefreshInfo(r) PROVE BehindInv'
  <2>1. Clock'
    BY <1>8 DEF RefreshInfo, Leave, Wrote, Clock
  <2>2. Undisturbed'
    BY <1>8 DEF RefreshInfo, Leave, Wrote, Undisturbed, Clock
  <2>3. SecretFirst'
    BY <1>8 DEF RefreshInfo, Leave, Wrote, SecretFirst
  <2>4. BehindOnlyIfCrossed'
    <3>1. CASE UNCHANGED <<secret, mixed>>
      BY <1>8, <3>1 DEF RefreshInfo, BehindOnlyIfCrossed
    <3>2. CASE secret' = NewState(r).access /\ mixed' = (r \in crossed)
      <4>1. r \notin crossed => ~(secret < auth.access)'
        BY <1>8, <3>2 DEF RefreshInfo, Undisturbed, Clock
      <4> QED
        BY <3>2, <4>1, Zenon DEF BehindOnlyIfCrossed
    <3> QED
      BY <1>8, <3>1, <3>2 DEF RefreshInfo
  <2> QED
    BY <2>1, <2>2, <2>3, <2>4 DEF BehindInv
<1>9. ASSUME NEW r \in Requests, Save(r) PROVE BehindInv'
  <2>1. Clock'
    BY <1>9 DEF Save, Leave, Wrote, Clock
  <2>2. Undisturbed'
    BY <1>9 DEF Save, Leave, Wrote, Undisturbed, Clock
  <2>3. SecretFirst'
    BY <1>9 DEF Save, Leave, Wrote, SecretFirst
  <2>4. BehindOnlyIfCrossed'
    <3>1. r \notin crossed => ~(secret < auth.access)'
      BY <1>9 DEF Save, SecretFirst
    <3>2. mixed' = (r \in crossed)
      BY <1>9 DEF Save
    <3> QED
      BY <3>1, <3>2, Zenon DEF BehindOnlyIfCrossed
  <2> QED
    BY <2>1, <2>2, <2>3, <2>4 DEF BehindInv
<1>10. ASSUME NEW r \in Requests, BeginSpawn(r) PROVE BehindInv'
  <2>1. Clock'
    BY <1>10 DEF BeginSpawn, Arrive, Clock
  <2>2. Undisturbed'
    BY <1>10 DEF BeginSpawn, Arrive, Undisturbed, Clock
  <2>3. SecretFirst'
    BY <1>10 DEF BeginSpawn, Arrive, SecretFirst
  <2>4. BehindOnlyIfCrossed'
    BY <1>10 DEF BeginSpawn, Arrive, BehindOnlyIfCrossed, Undisturbed, Clock,
       SecretFirst
  <2> QED
    BY <2>1, <2>2, <2>3, <2>4 DEF BehindInv
<1>11. ASSUME NEW r \in Requests, Spawn(r) PROVE BehindInv'
  <2>1. Clock'
    BY <1>11 DEF Spawn, SpawnToken, Leave, Wrote, Clock
  <2>2. Undisturbed'
    BY <1>11 DEF Spawn, SpawnToken, Leave, Wrote, Undisturbed, Clock
  <2>3. SecretFirst'
    BY <1>11 DEF Spawn, SpawnToken, Leave, Wrote, SecretFirst
  <2>4. BehindOnlyIfCrossed'
    <3>1. CASE UNCHANGED <<secret, pod, mixed>>
      BY <1>11, <3>1 DEF Spawn, BehindOnlyIfCrossed
    <3>2. CASE secret' = SpawnToken(seen[r].access) /\ mixed' = (r \in crossed)
      <4>1. r \notin crossed => ~(secret < auth.access)'
        BY <1>11, <3>2 DEF Spawn, SpawnToken, Undisturbed
      <4> QED
        BY <3>2, <4>1, Zenon DEF BehindOnlyIfCrossed
    <3> QED
      BY <1>11, <3>1, <3>2 DEF Spawn
  <2> QED
    BY <2>1, <2>2, <2>3, <2>4 DEF BehindInv
<1>12. CASE StopServer
  <2>1. Clock'
    BY <1>12 DEF StopServer, Clock
  <2>2. Undisturbed'
    BY <1>12 DEF StopServer, Undisturbed, Clock
  <2>3. SecretFirst'
    BY <1>12 DEF StopServer, SecretFirst
  <2>4. BehindOnlyIfCrossed'
    BY <1>12 DEF StopServer, BehindOnlyIfCrossed, Undisturbed, Clock, SecretFirst
  <2> QED
    BY <2>1, <2>2, <2>3, <2>4 DEF BehindInv
<1>13. CASE Tick
  <2>1. Clock'
    <3>1. ASSUME NEW q \in InFlight PROVE now + 1 <= since[q] + Patience
      BY <1>13, <3>1 DEF Tick, Clock
    <3> QED
      BY <1>13, <3>1 DEF Tick, Clock
  <2>2. Undisturbed'
    BY <1>13 DEF Tick, Undisturbed, Clock
  <2>3. SecretFirst'
    BY <1>13 DEF Tick, SecretFirst
  <2>4. BehindOnlyIfCrossed'
    BY <1>13 DEF Tick, BehindOnlyIfCrossed, Undisturbed, Clock, SecretFirst
  <2> QED
    BY <2>1, <2>2, <2>3, <2>4 DEF BehindInv
<1>14. CASE Crash
  <2>1. Clock'
    BY <1>14 DEF Crash, Clock
  <2>2. Undisturbed'
    BY <1>14 DEF Crash, Undisturbed, Clock
  <2>3. SecretFirst'
    BY <1>14 DEF Crash, SecretFirst
  <2>4. BehindOnlyIfCrossed'
    BY <1>14 DEF Crash, BehindOnlyIfCrossed, Undisturbed, Clock, SecretFirst
  <2> QED
    BY <2>1, <2>2, <2>3, <2>4 DEF BehindInv
<1>15. CASE UNCHANGED vars
  BY <1>15 DEF vars, Clock, Undisturbed, SecretFirst, BehindOnlyIfCrossed, BehindInv
<1> QED
  BY <1>1, <1>2, <1>3, <1>4, <1>5, <1>6, <1>7, <1>8, <1>9, <1>10, <1>11, <1>12, <1>13,
     <1>14, <1>15 DEF Next

\* BehindInv holds throughout.
LEMMA BehindAlways == Spec => []BehindInv
<1>1. Init => BehindInv
  BY DEF Init, BehindInv, Clock, Undisturbed, SecretFirst, BehindOnlyIfCrossed, Answered,
     Reading, InFlight, NoAuth
<1>2. TypeOK /\ BehindInv /\ [Next]_vars => BehindInv'
  BY BehindStep
<1> QED
  BY <1>1, <1>2, TypeCorrect, PTL DEF Spec

\* However the provider answers, whatever fails and whenever the hub restarts, the pod is
\* left with an older token than the hub goes by only if requests of the user crossed or
\* the user logged in beside the running pod.
THEOREM BehindNeedsACrossing == Spec => []BehindOnlyIfCrossed
<1>1. BehindInv => BehindOnlyIfCrossed
  BY DEF BehindInv
<1> QED
  BY <1>1, BehindAlways, PTL

-----------------------------------------------------------------------------
\* Every action keeps RenewalDue.
LEMMA DueStep == ASSUME TypeOK, Clock, Undisturbed, RenewalDue, [Next]_vars PROVE RenewalDue'
<1> USE AuthTypes, DueFact, PatienceAssumption, LifeAssumption, BoundAssumption
   DEF TypeOK, AuthState, Ticks, Serials, Answered, Reading, LoggedIn, requests, provider, history, At, Goto, InFlight
<1>1. ASSUME NEW r \in Requests, BeginLogin(r) PROVE RenewalDue'
  BY <1>1 DEF BeginLogin, Arrive, RenewalDue, DueInTime, Clock, Undisturbed
<1>2. ASSUME NEW r \in Requests, LoginToken(r) PROVE RenewalDue'
  BY <1>2 DEF LoginToken, Grant, Leave, RenewalDue, DueInTime, Clock, Undisturbed
<1>3. ASSUME NEW r \in Requests, LoginInfo(r) PROVE RenewalDue'
  <2>1. DueInTime(NewState(r))
    BY <1>3 DEF LoginInfo, Clock, DueInTime
  <2>2. CASE Leave(r)
    BY <1>3, <2>2 DEF LoginInfo, Leave, RenewalDue, DueInTime
  <2>3. CASE Goto(r, "enrol") /\ got' = [got EXCEPT ![r] = NewState(r)] /\ UNCHANGED <<seen, since, crossed>>
    BY <1>3, <2>1, <2>3 DEF LoginInfo, RenewalDue, DueInTime
  <2> QED
    BY <1>3, <2>2, <2>3 DEF LoginInfo
<1>4. ASSUME NEW r \in Requests, Enrol(r) PROVE RenewalDue'
  <2>1. auth' = got[r] /\ DueInTime(got[r]) /\ now <= got[r].access + Patience
    BY <1>4 DEF Enrol, Clock, RenewalDue
  <2>2. ASSUME NEW q \in Requests, pc[q] = "decrypt" PROVE since[q] <= got[r].access + Patience
    BY <2>1, <2>2 DEF Clock
  <2>3. now < got[r].access + Life
    BY <2>1, TimeTypes, WithinLife
  <2>4. ASSUME NEW q \in Requests, (pc[q] = "decrypt")'
        PROVE  DueInTime(seen[q])' /\ (since[q] <= auth.access + Patience)'
    BY <1>4, <2>1, <2>2, <2>4 DEF Enrol, Leave, RenewalDue, DueInTime
  <2>5. ASSUME NEW q \in Requests, (pc[q] \in {"save", "enrol"})' PROVE DueInTime(got[q])'
    BY <1>4, <2>5 DEF Enrol, Leave, RenewalDue, DueInTime
  <2>6. DueInTime(auth)' /\ now' < auth'.access + Life
    BY <1>4, <2>1, <2>3 DEF Enrol, DueInTime
  <2> QED
    BY <2>4, <2>5, <2>6 DEF RenewalDue
<1>5. ASSUME NEW r \in Requests, BeginRefresh(r) PROVE RenewalDue'
  BY <1>5 DEF BeginRefresh, Arrive, RenewalDue, DueInTime, Clock, Undisturbed
<1>6. ASSUME NEW r \in Requests, Decide(r) PROVE RenewalDue'
  <2>1. CASE Goto(r, "token") /\ UNCHANGED <<seen, got, since, crossed, checked>>
    BY <1>6, <2>1 DEF Decide, RenewalDue, DueInTime
  <2>2. CASE Leave(r) /\ checked' = checked
    BY <1>6, <2>2 DEF Decide, Leave, RenewalDue, DueInTime
  <2>3. CASE Leave(r) /\ now < seen[r].renewAt
    <3>1. ASSUME seen[r] = auth PROVE now < auth.access + Life
      <4>1. now < auth.renewAt /\ auth.renewAt <= auth.access + Patience + Due
        BY <2>3, <3>1 DEF RenewalDue, DueInTime
      <4> QED
        BY <4>1, TimeTypes, WithinLife
    <3>2. ASSUME since[r] <= auth.access + Patience PROVE now < auth.access + Life
      <4>1. now <= since[r] + Patience
        BY <1>6 DEF Decide, Clock
      <4> QED
        BY <3>2, <4>1, TimeTypes, WithinLife
    <3>3. now < auth.access + Life
      <4>1. seen[r] = auth \/ since[r] <= auth.access + Patience
        BY <1>6 DEF Decide, RenewalDue
      <4> QED
        BY <3>1, <3>2, <4>1
    <3> QED
      BY <1>6, <2>3, <3>3 DEF Decide, Leave, RenewalDue, DueInTime
  <2> QED
    BY <1>6, <2>1, <2>2, <2>3 DEF Decide
<1>7. ASSUME NEW r \in Requests, AskToken(r) PROVE RenewalDue'
  BY <1>7 DEF AskToken, Leave, RenewalDue, DueInTime, Clock, Undisturbed
<1>8. ASSUME NEW r \in Requests, RefreshInfo(r) PROVE RenewalDue'
  <2>1. DueInTime(NewState(r))
    BY <1>8 DEF RefreshInfo, Clock, DueInTime
  <2>2. CASE Leave(r)
    BY <1>8, <2>2 DEF RefreshInfo, Leave, RenewalDue, DueInTime
  <2>3. CASE Goto(r, "save") /\ got' = [got EXCEPT ![r] = NewState(r)] /\ UNCHANGED <<seen, since>>
    BY <1>8, <2>1, <2>3 DEF RefreshInfo, RenewalDue, DueInTime
  <2> QED
    BY <1>8, <2>2, <2>3 DEF RefreshInfo
<1>9. ASSUME NEW r \in Requests, Save(r) PROVE RenewalDue'
  <2>1. auth' = got[r] /\ DueInTime(got[r]) /\ now <= got[r].access + Patience
    BY <1>9 DEF Save, Clock, RenewalDue
  <2>2. ASSUME NEW q \in Requests, pc[q] = "decrypt" PROVE since[q] <= got[r].access + Patience
    BY <2>1, <2>2 DEF Clock
  <2>3. now < got[r].access + Life
    BY <2>1, TimeTypes, WithinLife
  <2>4. ASSUME NEW q \in Requests, (pc[q] = "decrypt")'
        PROVE  DueInTime(seen[q])' /\ (since[q] <= auth.access + Patience)'
    BY <1>9, <2>1, <2>2, <2>4 DEF Save, Leave, RenewalDue, DueInTime
  <2>5. ASSUME NEW q \in Requests, (pc[q] \in {"save", "enrol"})' PROVE DueInTime(got[q])'
    BY <1>9, <2>5 DEF Save, Leave, RenewalDue, DueInTime
  <2>6. DueInTime(auth)' /\ now' < auth'.access + Life
    BY <1>9, <2>1, <2>3 DEF Save, DueInTime
  <2> QED
    BY <2>4, <2>5, <2>6 DEF RenewalDue
<1>10. ASSUME NEW r \in Requests, BeginSpawn(r) PROVE RenewalDue'
  BY <1>10 DEF BeginSpawn, Arrive, RenewalDue, DueInTime, Clock, Undisturbed
<1>11. ASSUME NEW r \in Requests, Spawn(r) PROVE RenewalDue'
  BY <1>11 DEF Spawn, SpawnToken, Leave, Wrote, RenewalDue, DueInTime, Clock,
     Undisturbed
<1>12. CASE StopServer
  BY <1>12 DEF StopServer, RenewalDue, DueInTime, Clock, Undisturbed
<1>13. CASE Tick
  BY <1>13 DEF Tick, RenewalDue, DueInTime, Clock, Undisturbed
<1>14. CASE Crash
  BY <1>14 DEF Crash, RenewalDue, DueInTime, Clock, Undisturbed
<1>15. CASE UNCHANGED vars
  BY <1>15 DEF vars, RenewalDue, DueInTime, Clock, Undisturbed
<1> QED
  BY <1>1, <1>2, <1>3, <1>4, <1>5, <1>6, <1>7, <1>8, <1>9, <1>10, <1>11, <1>12, <1>13,
     <1>14, <1>15 DEF Next

\* While the hub keeps finding the session up to date, the token of the running pod has
\* not expired: only if requests of the user crossed, or the user logged in beside the
\* running pod, can it have.
THEOREM StaleNeedsACrossing == Spec => []StaleOnlyIfCrossed
<1>1. Init => RenewalDue
  BY DueFact, PatienceAssumption DEF Init, RenewalDue, DueInTime, NoAuth
<1>2. TypeOK /\ BehindInv /\ RenewalDue /\ [Next]_vars => RenewalDue'
  BY DueStep DEF BehindInv
<1>3. TypeOK /\ RenewalDue /\ BehindOnlyIfCrossed => StaleOnlyIfCrossed
  BY LifeAssumption DEF TypeOK, AuthState, Ticks, Absent, RenewalDue, BehindOnlyIfCrossed,
     StaleOnlyIfCrossed
<1> QED
  BY <1>1, <1>2, <1>3, TypeCorrect, BehindAlways, BehindNeedsACrossing, PTL DEF Spec

-----------------------------------------------------------------------------
\* Every action keeps SessionInv.
LEMMA SessionStep == ASSUME TypeOK, SessionInv, [Next]_vars PROVE SessionInv'
<1> USE AuthTypes, BoundAssumption DEF SessionInv, TypeOK, AuthState, Ticks, Serials, Holding,
   requests, provider, history, At, Goto, InFlight
<1>1. ASSUME NEW r \in Requests, BeginLogin(r) PROVE SessionInv'
  <2>1. HandedOut'
    BY <1>1 DEF BeginLogin, Arrive, HandedOut
  <2>2. InOneHand'
    BY <1>1 DEF BeginLogin, Arrive, InOneHand, HandedOut
  <2>3. TokenTaken'
    BY <1>1 DEF BeginLogin, Arrive, TokenTaken, InOneHand, HandedOut
  <2>4. SessionRenewable'
    BY <1>1 DEF BeginLogin, Arrive, SessionRenewable, TokenTaken
  <2> QED
    BY <2>1, <2>2, <2>3, <2>4 DEF SessionInv
<1>2. ASSUME NEW r \in Requests, LoginToken(r) PROVE SessionInv'
  <2>1. HandedOut'
    <3>1. CASE Leave(r) /\ crossed' = crossed \ {r} /\ UNCHANGED provider
      BY <1>2, <3>1 DEF LoginToken, Leave, HandedOut
    <3>2. ASSUME NEW answer \in Answers, Grant(answer), Goto(r, "claims"),
                 got' = [got EXCEPT ![r] = Kept(answer)], UNCHANGED <<seen, since, crossed>>
          PROVE  HandedOut'
      BY <1>2, <3>2 DEF LoginToken, HandedOut, Grant, Answers
    <3> QED
      BY <1>2, <3>1, <3>2 DEF LoginToken
  <2>2. InOneHand'
    <3>1. CASE Leave(r) /\ crossed' = crossed \ {r} /\ UNCHANGED provider
      BY <1>2, <3>1 DEF LoginToken, Leave, InOneHand, HandedOut
    <3>2. ASSUME NEW answer \in Answers, Grant(answer), Goto(r, "claims"),
                 got' = [got EXCEPT ![r] = Kept(answer)], UNCHANGED <<seen, since, crossed>>
          PROVE  InOneHand'
      BY <1>2, <3>2 DEF LoginToken, InOneHand, HandedOut, Grant, Answers
    <3> QED
      BY <1>2, <3>1, <3>2 DEF LoginToken
  <2>3. TokenTaken'
    BY <1>2 DEF LoginToken, Grant, Leave, TokenTaken, InOneHand, HandedOut
  <2>4. SessionRenewable'
    <3>1. \A q \in Holding : q \in Holding' /\ seen[q]' = seen[q]
      BY <1>2 DEF LoginToken, Leave
    <3>2. accepted \subseteq accepted' /\ lost' = lost /\ auth' = auth
      BY <1>2 DEF LoginToken, Grant
    <3> QED
      BY <3>1, <3>2 DEF SessionRenewable
  <2> QED
    BY <2>1, <2>2, <2>3, <2>4 DEF SessionInv
<1>3. ASSUME NEW r \in Requests, LoginInfo(r) PROVE SessionInv'
  <2>1. HandedOut'
    BY <1>3 DEF LoginInfo, Leave, HandedOut
  <2>2. InOneHand'
    <3>1. CASE Leave(r)
      BY <1>3, <3>1 DEF LoginInfo, Leave, InOneHand
    <3>2. CASE \A q \in Requests : got[q].refresh = got[q]'.refresh /\ seen' = seen
      BY <1>3, <3>2 DEF LoginInfo, InOneHand
    <3> QED
      BY <1>3, <3>1, <3>2 DEF LoginInfo
  <2>3. TokenTaken'
    BY <1>3 DEF LoginInfo, Leave, TokenTaken, InOneHand, HandedOut
  <2>4. SessionRenewable'
    BY <1>3 DEF LoginInfo, Leave, SessionRenewable, TokenTaken
  <2> QED
    BY <2>1, <2>2, <2>3, <2>4 DEF SessionInv
<1>4. ASSUME NEW r \in Requests, Enrol(r) PROVE SessionInv'
  <2>1. HandedOut'
    BY <1>4 DEF Enrol, Leave, Wrote, HandedOut
  <2>2. InOneHand'
    BY <1>4 DEF Enrol, Leave, Wrote, InOneHand, HandedOut
  <2>3. TokenTaken'
    BY <1>4 DEF Enrol, Leave, Wrote, TokenTaken, InOneHand, HandedOut
  <2>4. SessionRenewable'
    BY <1>4 DEF Enrol, Leave, Wrote, SessionRenewable, TokenTaken
  <2> QED
    BY <2>1, <2>2, <2>3, <2>4 DEF SessionInv
<1>5. ASSUME NEW r \in Requests, BeginRefresh(r) PROVE SessionInv'
  <2>1. HandedOut'
    BY <1>5 DEF BeginRefresh, Arrive, HandedOut
  <2>2. InOneHand'
    BY <1>5 DEF BeginRefresh, Arrive, InOneHand, HandedOut
  <2>3. TokenTaken'
    BY <1>5 DEF BeginRefresh, Arrive, TokenTaken, InOneHand, HandedOut
  <2>4. SessionRenewable'
    BY <1>5 DEF BeginRefresh, Arrive, SessionRenewable, TokenTaken
  <2> QED
    BY <2>1, <2>2, <2>3, <2>4 DEF SessionInv
<1>6. ASSUME NEW r \in Requests, Decide(r) PROVE SessionInv'
  <2>1. HandedOut'
    BY <1>6 DEF Decide, Leave, HandedOut
  <2>2. InOneHand'
    <3>1. CASE Leave(r)
      BY <1>6, <3>1 DEF Decide, Leave, InOneHand
    <3>2. CASE \A q \in Requests : got[q].refresh = got[q]'.refresh /\ seen' = seen
      BY <1>6, <3>2 DEF Decide, InOneHand
    <3> QED
      BY <1>6, <3>1, <3>2 DEF Decide
  <2>3. TokenTaken'
    BY <1>6 DEF Decide, Leave, TokenTaken, InOneHand, HandedOut
  <2>4. SessionRenewable'
    BY <1>6 DEF Decide, Leave, SessionRenewable, TokenTaken
  <2> QED
    BY <2>1, <2>2, <2>3, <2>4 DEF SessionInv
<1>7. ASSUME NEW r \in Requests, AskToken(r) PROVE SessionInv'
  <2>1. HandedOut'
    <3>1. CASE Leave(r) /\ crossed' = crossed \ {r} /\ UNCHANGED <<provider, lost>>
      BY <1>7, <3>1 DEF AskToken, Leave, HandedOut
    <3>2. ASSUME NEW answer \in Answers, Exchange(seen[r].refresh, answer),
                 Leave(r), crossed' = crossed \ {r}, lost' = lost \cup {seen[r].refresh}
          PROVE  HandedOut'
      BY <1>7, <3>2 DEF AskToken, Leave, HandedOut, Exchange
    <3>3. ASSUME NEW answer \in Answers, Exchange(seen[r].refresh, answer),
                 Goto(r, "userinfo"), got' = [got EXCEPT ![r] = Kept(answer)],
                 UNCHANGED <<seen, since, crossed, lost>>
          PROVE  HandedOut'
      BY <1>7, <3>3 DEF AskToken, HandedOut, Exchange, Answers
    <3> QED
      BY <1>7, <3>1, <3>2, <3>3 DEF AskToken
  <2>2. InOneHand'
    <3>1. CASE Leave(r) /\ crossed' = crossed \ {r} /\ UNCHANGED <<provider, lost>>
      BY <1>7, <3>1 DEF AskToken, Leave, InOneHand, HandedOut
    <3>2. ASSUME NEW answer \in Answers, Exchange(seen[r].refresh, answer),
                 Leave(r), crossed' = crossed \ {r}, lost' = lost \cup {seen[r].refresh}
          PROVE  InOneHand'
      BY <1>7, <3>2 DEF AskToken, Leave, InOneHand, HandedOut, Exchange
    <3>3. ASSUME NEW answer \in Answers, Exchange(seen[r].refresh, answer),
                 Goto(r, "userinfo"), got' = [got EXCEPT ![r] = Kept(answer)],
                 UNCHANGED <<seen, since, crossed, lost>>
          PROVE  InOneHand'
      BY <1>7, <3>3 DEF AskToken, InOneHand, HandedOut, Exchange, Answers
    <3> QED
      BY <1>7, <3>1, <3>2, <3>3 DEF AskToken
  <2>3. TokenTaken'
    <3>1. CASE Leave(r) /\ crossed' = crossed \ {r} /\ UNCHANGED <<provider, lost>>
      BY <1>7, <3>1 DEF AskToken, Leave, TokenTaken, InOneHand, HandedOut
    <3>2. ASSUME NEW answer \in Answers, Exchange(seen[r].refresh, answer),
                 Leave(r), crossed' = crossed \ {r}, lost' = lost \cup {seen[r].refresh}
          PROVE  TokenTaken'
      BY <1>7, <3>2 DEF AskToken, Leave, TokenTaken, InOneHand, HandedOut, Exchange
    <3>3. ASSUME NEW answer \in Answers, Exchange(seen[r].refresh, answer),
                 Goto(r, "userinfo"), got' = [got EXCEPT ![r] = Kept(answer)],
                 UNCHANGED <<seen, since, crossed, lost>>
          PROVE  TokenTaken'
      BY <1>7, <3>3 DEF AskToken, TokenTaken, InOneHand, HandedOut, Exchange, Answers
    <3> QED
      BY <1>7, <3>1, <3>2, <3>3 DEF AskToken
  <2>4. SessionRenewable'
    <3>1. CASE Leave(r) /\ crossed' = crossed \ {r} /\ UNCHANGED <<provider, lost>>
      BY <1>7, <3>1 DEF AskToken, Leave, SessionRenewable
    <3>2. ASSUME NEW answer \in Answers, Exchange(seen[r].refresh, answer),
                 Leave(r), crossed' = crossed \ {r}, lost' = lost \cup {seen[r].refresh}
          PROVE  SessionRenewable'
      BY <1>7, <3>2 DEF AskToken, Leave, SessionRenewable, Exchange
    <3>3. ASSUME NEW answer \in Answers, Exchange(seen[r].refresh, answer),
                 Goto(r, "userinfo"), got' = [got EXCEPT ![r] = Kept(answer)],
                 UNCHANGED <<seen, since, crossed, lost>>
          PROVE  SessionRenewable'
      BY <1>7, <3>3 DEF AskToken, SessionRenewable, Exchange, Answers
    <3> QED
      BY <1>7, <3>1, <3>2, <3>3 DEF AskToken
  <2> QED
    BY <2>1, <2>2, <2>3, <2>4 DEF SessionInv
<1>8. ASSUME NEW r \in Requests, RefreshInfo(r) PROVE SessionInv'
  <2>1. HandedOut'
    BY <1>8 DEF RefreshInfo, Leave, Wrote, HandedOut
  <2>2. InOneHand'
    <3>1. CASE Leave(r)
      BY <1>8, <3>1 DEF RefreshInfo, Leave, InOneHand
    <3>2. CASE \A q \in Requests : got[q].refresh = got[q]'.refresh /\ seen' = seen
      BY <1>8, <3>2 DEF RefreshInfo, InOneHand
    <3> QED
      BY <1>8, <3>1, <3>2 DEF RefreshInfo
  <2>3. TokenTaken'
    <3>1. CASE Leave(r)
      BY <1>8, <3>1 DEF RefreshInfo, Leave, TokenTaken
    <3>2. CASE \A q \in Requests : got[q].refresh = got[q]'.refresh /\ seen' = seen
      BY <1>8, <3>2 DEF RefreshInfo, TokenTaken
    <3> QED
      BY <1>8, <3>1, <3>2 DEF RefreshInfo
  <2>4. SessionRenewable'
    BY <1>8 DEF RefreshInfo, Leave, Wrote, SessionRenewable, TokenTaken
  <2> QED
    BY <2>1, <2>2, <2>3, <2>4 DEF SessionInv
<1>9. ASSUME NEW r \in Requests, Save(r) PROVE SessionInv'
  <2>1. HandedOut'
    BY <1>9 DEF Save, Leave, Wrote, HandedOut
  <2>2. InOneHand'
    BY <1>9 DEF Save, Leave, Wrote, InOneHand, HandedOut
  <2>3. TokenTaken'
    BY <1>9 DEF Save, Leave, Wrote, TokenTaken, InOneHand, HandedOut
  <2>4. SessionRenewable'
    BY <1>9 DEF Save, Leave, Wrote, SessionRenewable, TokenTaken
  <2> QED
    BY <2>1, <2>2, <2>3, <2>4 DEF SessionInv
<1>10. ASSUME NEW r \in Requests, BeginSpawn(r) PROVE SessionInv'
  <2>1. HandedOut'
    BY <1>10 DEF BeginSpawn, Arrive, HandedOut
  <2>2. InOneHand'
    BY <1>10 DEF BeginSpawn, Arrive, InOneHand, HandedOut
  <2>3. TokenTaken'
    BY <1>10 DEF BeginSpawn, Arrive, TokenTaken, InOneHand, HandedOut
  <2>4. SessionRenewable'
    BY <1>10 DEF BeginSpawn, Arrive, SessionRenewable, TokenTaken
  <2> QED
    BY <2>1, <2>2, <2>3, <2>4 DEF SessionInv
<1>11. ASSUME NEW r \in Requests, Spawn(r) PROVE SessionInv'
  <2>1. HandedOut'
    BY <1>11 DEF Spawn, SpawnToken, Leave, Wrote, HandedOut
  <2>2. InOneHand'
    BY <1>11 DEF Spawn, SpawnToken, Leave, Wrote, InOneHand, HandedOut
  <2>3. TokenTaken'
    BY <1>11 DEF Spawn, SpawnToken, Leave, Wrote, TokenTaken, InOneHand, HandedOut
  <2>4. SessionRenewable'
    BY <1>11 DEF Spawn, SpawnToken, Leave, Wrote, SessionRenewable, TokenTaken
  <2> QED
    BY <2>1, <2>2, <2>3, <2>4 DEF SessionInv
<1>12. CASE StopServer
  <2>1. HandedOut'
    BY <1>12 DEF StopServer, HandedOut
  <2>2. InOneHand'
    BY <1>12 DEF StopServer, InOneHand, HandedOut
  <2>3. TokenTaken'
    BY <1>12 DEF StopServer, TokenTaken, InOneHand, HandedOut
  <2>4. SessionRenewable'
    BY <1>12 DEF StopServer, SessionRenewable, TokenTaken
  <2> QED
    BY <2>1, <2>2, <2>3, <2>4 DEF SessionInv
<1>13. CASE Tick
  <2>1. HandedOut'
    BY <1>13 DEF Tick, HandedOut
  <2>2. InOneHand'
    BY <1>13 DEF Tick, InOneHand, HandedOut
  <2>3. TokenTaken'
    BY <1>13 DEF Tick, TokenTaken, InOneHand, HandedOut
  <2>4. SessionRenewable'
    BY <1>13 DEF Tick, SessionRenewable, TokenTaken
  <2> QED
    BY <2>1, <2>2, <2>3, <2>4 DEF SessionInv
<1>14. CASE Crash
  <2>1. HandedOut'
    BY <1>14 DEF Crash, HandedOut
  <2>2. InOneHand'
    BY <1>14 DEF Crash, InOneHand, HandedOut
  <2>3. TokenTaken'
    BY <1>14 DEF Crash, TokenTaken, InOneHand, HandedOut
  <2>4. SessionRenewable'
    BY <1>14 DEF Crash, SessionRenewable, TokenTaken
  <2> QED
    BY <2>1, <2>2, <2>3, <2>4 DEF SessionInv
<1>15. CASE UNCHANGED vars
  BY <1>15 DEF vars, HandedOut, InOneHand, TokenTaken, SessionRenewable, SessionInv
<1> QED
  BY <1>1, <1>2, <1>3, <1>4, <1>5, <1>6, <1>7, <1>8, <1>9, <1>10, <1>11, <1>12, <1>13,
     <1>14, <1>15 DEF Next

\* Whatever the provider answers, whatever fails, however requests overlap and whenever
\* the hub restarts: a refresh token that the provider no longer takes stands in auth_state
\* only while its successor is on the way there, or after that was lost.
THEOREM AlwaysRenewable == Spec => []SessionRenewable
<1>1. Init => SessionInv
  BY DEF Init, SessionInv, HandedOut, InOneHand, TokenTaken, SessionRenewable, NoAuth
<1>2. TypeOK /\ SessionInv /\ [Next]_vars => SessionInv'
  BY SessionStep
<1>3. SessionInv => SessionRenewable
  BY DEF SessionInv
<1> QED
  BY <1>1, <1>2, <1>3, TypeCorrect, PTL DEF Spec
=============================================================================
