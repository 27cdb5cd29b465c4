------------------------ MODULE WorkerBringup_proofs ------------------------
(***************************************************************************)
(* Theorems about WorkerBringup, for any number of rounds of the wait: a   *)
(* worker is launched with ports it can be reached at, whenever HTCondor   *)
(* updates the ad between the script's reads of it.                        *)
(***************************************************************************)
EXTENDS WorkerBringup, TLAPS

\* HTCondor does not take a forwarded port back: what was read is still so.
SeenInAd == \A s \in Services : seen[s] = "forwarded" => ad[s] = "forwarded"

\* The script leaves the wait with both ports, or after the last round.
Waited ==
    mode = "worker" /\ pc \in {"iwd", "validate", "build-dask", "build-nanny", "exec"} =>
        HavePorts(seen) \/ tries = Tries

\* What the command names for a service, once it was built.
Reachable(s) ==
    /\ command[s] \in {"forwarded", "container"}
    /\ HavePorts(seen) => command[s] = "forwarded"
Built ==
    /\ pc \in {"build-nanny", "exec"} => Reachable("dask")
    /\ pc = "exec" => Reachable("nanny")

BringupInv == TypeOK /\ SeenInAd /\ Waited /\ Built

-----------------------------------------------------------------------------
\* A worker that has not run its script yet satisfies the invariant.
LEMMA InitHolds == Init => BringupInv
  BY TriesAssumption DEF Init, BringupInv, TypeOK, SeenInAd, Waited, Built, Services,
     AdPorts, NoPort, NoCommand, Lines, Final

\* Every line of the two scripts keeps the invariant.
LEMMA Step == BringupInv /\ [Next]_vars => BringupInv'
<1> SUFFICES ASSUME BringupInv, [Next]_vars PROVE BringupInv'
  OBVIOUS
<1> USE TriesAssumption DEF BringupInv, TypeOK, Services, AdPorts, NoPort, job, Goto,
   Final, Lines
<1>1. CASE Start
  <2>1. TypeOK'
    BY <1>1 DEF Start
  <2>2. SeenInAd' /\ Built'
    BY <1>1 DEF Start, SeenInAd, Built
  <2>3. Waited'
    BY <1>1 DEF Start, Waited
  <2> QED
    BY <2>1, <2>2, <2>3
<1>2. ASSUME NEW s \in Services, NEW from \in Lines, NEW to \in {"read-nanny", "test"},
             Read(s, from, to)
      PROVE  BringupInv'
  BY <1>2 DEF Read, SeenInAd, Waited, Built
<1>3. CASE Test
  <2>1. TypeOK'
    BY <1>3 DEF Test, WaitOver
  <2>2. SeenInAd' /\ Built'
    BY <1>3 DEF Test, SeenInAd, Built
  <2>3. Waited'
    BY <1>3 DEF Test, WaitOver, Waited, HavePorts
  <2> QED
    BY <2>1, <2>2, <2>3
<1>4. CASE CheckIWD
  BY <1>4 DEF CheckIWD, SeenInAd, Waited, Built, HavePorts
<1>5. CASE Validate
  BY <1>5 DEF Validate, SeenInAd, Waited, Built, HavePorts
<1>6. CASE BuildDask
  <2>1. TypeOK' /\ SeenInAd' /\ Waited'
    BY <1>6 DEF BuildDask, Port, Unset, SeenInAd, Waited, HavePorts
  <2>2. Built'
    BY <1>6 DEF BuildDask, Port, Unset, SeenInAd, Built, Reachable, HavePorts
  <2> QED
    BY <2>1, <2>2
<1>7. CASE BuildNanny
  <2>1. TypeOK' /\ SeenInAd' /\ Waited'
    BY <1>7 DEF BuildNanny, Port, Unset, Certs, SeenInAd, Waited, HavePorts
  <2>2. Built'
    BY <1>7 DEF BuildNanny, Port, Unset, SeenInAd, Built, Reachable, HavePorts
  <2> QED
    BY <2>1, <2>2
<1>8. CASE FirstUpdate
  BY <1>8 DEF FirstUpdate, SeenInAd, Waited, Built, Reachable, HavePorts
<1>9. ASSUME NEW s \in Services, Forward(s) PROVE BringupInv'
  BY <1>9 DEF Forward, SeenInAd, Waited, Built, Reachable, HavePorts
<1>10. CASE UNCHANGED vars
  BY <1>10 DEF vars, SeenInAd, Waited, Built, Reachable, HavePorts
<1> QED
  BY <1>1, <1>2, <1>3, <1>4, <1>5, <1>6, <1>7, <1>8, <1>9, <1>10
     DEF Next, Script, ReadDask, ReadNanny, Done

\* BringupInv holds of every run of the entrypoint.
THEOREM Bringup == Spec => []BringupInv
  BY InitHolds, Step, PTL DEF Spec

\* Every variable keeps its type: the rounds of the wait are bounded.
THEOREM TypeCorrect == Spec => []TypeOK
<1>1. BringupInv => TypeOK
  BY DEF BringupInv
<1> QED
  BY <1>1, Bringup, PTL

\* A worker advertises the forwarded ports if the wait met them, and a container
\* port only where none is forwarded or after the whole wait.
THEOREM AlwaysReachable == Spec => []AdvertisesReachable
<1>1. BringupInv => AdvertisesReachable
  BY DEF BringupInv, TypeOK, Waited, Built, Reachable, AdvertisesReachable, HavePorts,
     Unset,
     Services, AdPorts
<1> QED
  BY <1>1, Bringup, PTL
=============================================================================
