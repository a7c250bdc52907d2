--------------------------- MODULE BastionProofs ---------------------------
(* What r.mu, held across a lookup, guarantees for any number of services and *)
(* bastions: no service is given a bastion that an Invalidate has ruled out.  *)
EXTENDS Bastion, TLAPS

LEMMA InitInv == Init => Inv
  BY BastionAssumption
  DEF Init, Inv, TypeOK, HolderLooksUp, FoundIsFresh, Are, Hosts

\* Every action preserves the invariant.  A lookup is the holder's, so no Invalidate gets
\* between its answer and the write; terminated bastions stay terminated.
LEMMA StepInv == Inv /\ [Next]_vars => Inv'
<1> SUFFICES ASSUME Inv, [Next]_vars PROVE Inv'
  OBVIOUS
<1> USE BastionAssumption DEF Inv, TypeOK, HolderLooksUp, FoundIsFresh, cacheVars, Goto, SetTarget
<1>1. CASE UNCHANGED vars
  BY <1>1 DEF vars, Are
<1>2. ASSUME NEW b \in Bastions, HostChanges(b) PROVE Inv'
  BY <1>2 DEF HostChanges, Are, Hosts
<1>3. ASSUME NEW s \in Services, ResolveCached(s) PROVE Inv'
  BY <1>3 DEF ResolveCached, Are
<1>4. ASSUME NEW s \in Services, ResolveCold(s) PROVE Inv'
  BY <1>4 DEF ResolveCold, Are
<1>5. ASSUME NEW s \in Services, ListGroup(s) PROVE Inv'
  BY <1>5 DEF ListGroup, InService, Are
<1>6. ASSUME NEW s \in Services, FindOnline(s) PROVE Inv'
  BY <1>6 DEF FindOnline, Online, Are
<1>7. ASSUME NEW s \in Services, StoreTarget(s) PROVE Inv'
  BY <1>7 DEF StoreTarget, Are
<1>8. ASSUME NEW s \in Services, LookupFails(s) PROVE Inv'
  BY <1>8 DEF LookupFails, Are
<1>9. ASSUME NEW s \in Services, StartSession(s) PROVE Inv'
  BY <1>9 DEF StartSession, Are
<1>10. ASSUME NEW s \in Services, StartFails(s) \/ SessionEnds(s) \/ TargetNotConnected(s)
       PROVE Inv'
  BY <1>10 DEF StartFails, SessionEnds, TargetNotConnected, Over, Are
<1>11. ASSUME NEW s \in Services, Invalidate(s) PROVE Inv'
  BY <1>11 DEF Invalidate, EmptyCache, Are
<1>12. ASSUME NEW s \in Services, PauseOver(s) PROVE Inv'
  BY <1>12 DEF PauseOver, Are
<1> QED
  BY <1>1, <1>2, <1>3, <1>4, <1>5, <1>6, <1>7, <1>8, <1>9, <1>10, <1>11, <1>12
  DEF Next, Resolve, Lookup, LoopStep

\* The mutex is held exactly while its holder looks up, and neither what it found nor the
\* cache is a bastion that was terminated at the last Invalidate.
THEOREM Consistency == Spec => []Inv
<1>1. Init => Inv
  BY InitInv
<1>2. Inv /\ [Next]_vars => Inv'
  BY StepInv
<1> QED
  BY <1>1, <1>2, PTL DEF Spec

\* The action property: only ResolveCached and StoreTarget hand out a target.
LEMMA StepFresh ==
  Inv /\ [Next]_vars
    => \A s \in Services :
         (pc[s] \in {"resolve", "store"} /\ pc'[s] = "start") => target'[s] \notin dead
<1> SUFFICES ASSUME Inv, [Next]_vars, NEW s \in Services,
                    pc[s] \in {"resolve", "store"}, pc'[s] = "start"
             PROVE  target'[s] \notin dead
  OBVIOUS
<1> USE DEF Inv, TypeOK, FoundIsFresh, Goto, SetTarget
<1>1. ResolveCached(s) \/ StoreTarget(s)
  <2>1. ~UNCHANGED vars
    BY DEF vars
  <2>2. ~\E b \in Bastions : HostChanges(b)
    BY DEF HostChanges
  <2>3. PICK t \in Services :
          Resolve(t) \/ Lookup(t) \/ LoopStep(t) \/ SessionEnds(t) \/ Invalidate(t)
    BY <2>1, <2>2 DEF Next
  <2>4. t = s /\ (ResolveCached(t) \/ StoreTarget(t))
    BY <2>3
    DEF Resolve, Lookup, LoopStep, SessionEnds, Invalidate, EmptyCache, ResolveCached,
        ResolveCold, ListGroup, FindOnline, StoreTarget, LookupFails, StartSession, StartFails,
        TargetNotConnected, Over, PauseOver
  <2> QED
    BY <2>4
<1>2. CASE ResolveCached(s)
  BY <1>2 DEF ResolveCached
<1>3. CASE StoreTarget(s)
  BY <1>3 DEF StoreTarget
<1> QED
  BY <1>1, <1>2, <1>3

\* An Invalidate is final: a bastion that was terminated when the cache was last emptied is
\* never handed out again.
THEOREM InvalidateIsFinal == Spec => NoTargetComesBack
<1>1. Inv /\ [Next]_vars
        => [\A s \in Services :
              (pc[s] \in {"resolve", "store"} /\ pc'[s] = "start") => target'[s] \notin dead]_vars
  BY StepFresh
<1>2. Spec => []Inv
  BY Consistency
<1> QED
  BY <1>1, <1>2, PTL DEF Spec, NoTargetComesBack

=============================================================================
