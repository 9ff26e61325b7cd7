------------------------------- MODULE LifeProofs -------------------------------
(***************************************************************************)
(* The life of a resource: a pass that cleans up deletes nothing of a      *)
(* living resource, and the operator implements GuardedLifecycle.          *)
(***************************************************************************)
EXTENDS StoreProofs

-----------------------------------------------------------------------------
(* How a resource gets its finalizer.                                      *)

LEMMA PassGuards ==
    ASSUME TypeOK, PassStep \/ PassFault, NEW c \in CRs, ~Guarded(c), Guarded(c)'
    PROVE  /\ pass.pc = "guard" /\ pass.cr = c /\ SnapshotIsCurrent
           /\ server'[c].del = pass.snap.del
<1>1. /\ c \in Ids
      /\ pass.pc # "idle" =>
            pass.cr \in CRs /\ pass.cr \in Ids /\ pass.snap \in Resources
  BY IdTypes, PassType DEF TypeOK
<1>2. ~UNCHANGED apiVars
  BY DEF apiVars, Guarded
<1>3. ASSUME NEW obj, pass.pc # "idle", Put(pass.cr, obj)
      PROVE  pass.cr = c /\ server'[c] = obj
  BY <1>1, <1>3, PutEffect DEF Untouched, Guarded, TypeOK
<1>4. CASE Guard \/ GuardFault
  <2>1. pass.pc = "guard" /\ SnapshotIsCurrent /\ WriteFinalizer
    BY <1>2, <1>4 DEF Guard, GuardFault
  <2>2. pass.cr = c /\ server'[c] = Rewritten(pass.snap, TRUE)
    BY <1>3, <2>1 DEF WriteFinalizer
  <2>3. QED
    BY <1>1, <2>1, <2>2, RewrittenType
<1>5. ASSUME Release \/ ReleaseFault
      PROVE  FALSE
  <2>1. pass.pc = "release" /\ RemoveFinalizer
    BY <1>2, <1>5 DEF Release, ReleaseFault
  <2>2. server'[c] = Rewritten(pass.snap, FALSE) \/ server'[c] = Absent
    BY <1>3, <2>1 DEF RemoveFinalizer
  <2>3. QED
    BY <1>1, <2>1, <2>2, RewrittenType DEF Guarded
<1>6. ASSUME NEW status, NEW reason, NEW message, pass.pc # "idle",
             server[pass.cr] # Absent, PatchStatus(status, reason, message)
      PROVE  FALSE
  <2> DEFINE new == StatusPatched(server[pass.cr], pass.snap, status, reason, message)
  <2>1. server[pass.cr] \in Resources
    BY <1>1, <1>6, IdTypes DEF TypeOK, StoreOK
  <2>2. new.fin = server[pass.cr].fin
    BY <2>1, StatusPatchedKeeps
  <2>3. Put(pass.cr, new)
    BY <1>2, <1>6 DEF PatchStatus, PutIfChanged
  <2> HIDE DEF new
  <2>4. QED
    BY <1>3, <1>6, <2>2, <2>3 DEF Guarded
<1>7. ASSUME Ready \/ ReadyFault \/ Report \/ ReportFault
      PROVE  FALSE
  BY <1>2, <1>6, <1>7 DEF Ready, ReadyFault, Report, ReportFault
<1>8. ASSUME Apply \/ ApplyFault
      PROVE  FALSE
  <2>1. StepKey \in Keys
    BY <1>8, WriteKeys DEF TypeOK, Apply, ApplyFault
  <2>2. PutIfChanged(StepKey, Want)
    BY <1>2, <1>8 DEF Apply, ApplyFault, WriteObject
  <2>3. QED
    BY <2>1, <2>2, KeyWriteEffect DEF Untouched, Guarded, TypeOK
<1>9. ASSUME Cleanup \/ CleanupFault
      PROVE  FALSE
  <2>1. CleanupKey \in Keys
    BY <1>9, WriteKeys DEF TypeOK, Cleanup, CleanupFault
  <2>2. PutIfChanged(CleanupKey, Absent)
    BY <1>2, <1>9 DEF Cleanup, CleanupFault, DeleteObject
  <2>3. QED
    BY <2>1, <2>2, KeyWriteEffect DEF Untouched, Guarded, TypeOK
<1>10. QED
  BY <1>4, <1>5, <1>7, <1>8, <1>9 DEF PassStep, PassFault

\* Nobody but a pass that adds the finalizer to the stored version.
LEMMA GuardGain ==
    ASSUME TypeOK, [Next]_vars, NEW c \in CRs, ~Guarded(c), Guarded(c)'
    PROVE  /\ pass.pc = "guard" /\ pass.cr = c /\ SnapshotIsCurrent
           /\ server'[c].del = pass.snap.del
<1>1. c \in Ids /\ (server[c] # Absent => server[c] \in Resources)
  BY IdTypes DEF TypeOK, StoreOK
<1>2. server'[c] # server[c]
  BY DEF Guarded
<1>3. ASSUME NEW d \in CRs, NEW obj, Put(d, obj)
      PROVE  d = c /\ obj # Absent /\ obj.fin
  BY <1>1, <1>2, <1>3, IdTypes, PutEffect DEF Untouched, Guarded, TypeOK
<1>4. ASSUME NEW d \in CRs, NEW spec \in Manifests, CreateCR(d, spec)
      PROVE  FALSE
  BY <1>3, <1>4 DEF CreateCR
<1>5. ASSUME NEW d \in CRs, NEW spec \in Manifests, EditSpec(d, spec)
      PROVE  FALSE
  <2> DEFINE obj == [server[d] EXCEPT !.spec = Admitted(spec),
                                      !.gen = server[d].gen + 1]
  <2>1. Put(d, obj) /\ server[d] # Absent
    BY <1>5 DEF EditSpec
  <2>2. d = c => obj.fin = server[c].fin
    BY <1>1, <2>1 DEF Resources
  <2> HIDE DEF obj
  <2>3. QED
    BY <1>3, <2>1, <2>2 DEF Guarded
<1>6. ASSUME NEW d \in CRs, NEW foreground \in BOOLEAN, DeleteCR(d, foreground)
      PROVE  FALSE
  <2> DEFINE obj == [server[d] EXCEPT !.del = TRUE, !.held = foreground,
                                      !.gen = server[d].gen + 1]
  <2>1. (Put(d, obj) \/ Put(d, Absent)) /\ server[d] # Absent
    BY <1>6 DEF DeleteCR
  <2>2. d = c => obj.fin = server[c].fin
    BY <1>1, <2>1 DEF Resources
  <2> HIDE DEF obj
  <2>3. QED
    BY <1>3, <2>1, <2>2 DEF Guarded
<1>7. ASSUME NEW d \in CRs, ReleaseHeld(d)
      PROVE  FALSE
  <2> DEFINE obj == [server[d] EXCEPT !.held = FALSE]
  <2>1. (Put(d, obj) \/ Put(d, Absent)) /\ server[d] # Absent
    BY <1>7 DEF ReleaseHeld
  <2>2. d = c => obj.fin = server[c].fin
    BY <1>1, <2>1 DEF Resources
  <2> HIDE DEF obj
  <2>3. QED
    BY <1>3, <2>1, <2>2 DEF Guarded
<1>8. ASSUME NEW key \in Keys, Drift(key) \/ Collect(key)
      PROVE  FALSE
  BY <1>2, <1>8, KeyWriteEffect DEF Drift, Collect, Untouched, TypeOK
<1>9. ~Environment
  BY <1>4, <1>5, <1>6, <1>7, <1>8 DEF Environment, UserStep
<1>10. CASE Controller
  BY <1>2, <1>10, PassGuards
  DEF Controller, ReceiveEvent, Receive, StartPass, Resync, Restart, Relist,
      apiVars
<1>11. QED
  BY <1>2, <1>9, <1>10 DEF Next, vars

\* A pass that is about to add the finalizer has just begun.
LEMMA GuardShape ==
    ASSUME TypeOK, [Next]_vars, pass'.pc = "guard"
    PROVE  \/ pass' = pass
           \/ Begun /\ ~pass'.snap.del /\ (pass'.fresh => watch[pass'.cr] = << >>)
<1>1. ASSUME PassStep \/ PassFault
      PROVE  FALSE
  <2>1. pass.pc \in {"apply", "cleanup", "release", "ready", "fail", "guard"}
    BY <1>1 DEF PassStep, PassFault, Guard, Apply, Cleanup, Release, Ready,
                Report, GuardFault, ApplyFault, CleanupFault, ReleaseFault,
                ReadyFault, ReportFault
  <2>2. pass \in Passes
    BY <2>1, PassType DEF TypeOK
  <2>3. ~Done /\ ~Retry
    BY DEF Done, Retry, Idle
  <2>4. \A reason, message : ~Fail(reason, message)
    BY <2>2, FailShape
  <2>5. ~(pass.pc = "apply" /\ NextStep)
    BY <2>2 DEF NextStep, Passes
  <2>6. ~Cleanup
    BY <2>2 DEF Cleanup, Passes
  <2>7. QED
    BY <1>1, <2>3, <2>4, <2>5, <2>6
    DEF PassStep, PassFault, Guard, Apply, Release, Ready, Report, GuardFault,
        ApplyFault, CleanupFault, ReleaseFault, ReadyFault, ReportFault
<1>2. ASSUME NEW c \in CRs, StartPass(c)
      PROVE  Begun /\ ~pass'.snap.del /\ (pass'.fresh => watch[pass'.cr] = << >>)
  <2>1. UNCHANGED apiVars /\ pass' = Dispatch(c)
    BY <1>2 DEF StartPass
  <2>2. ASSUME NEW pc \in {"guard", "apply", "cleanup"}
        PROVE  /\ Begin(c, pc).pc = pc /\ Begin(c, pc).cr = c
               /\ Begin(c, pc).snap = cache[c] /\ Begin(c, pc).fresh = UpToDate(c)
    BY DEF Begin
  <2>3. /\ Dispatch(c) = Begin(c, "guard")
        /\ cache[c] # Absent /\ ~cache[c].del
    BY <2>1, <2>2 DEF Dispatch, Idle
  <2>4. QED
    BY <2>1, <2>2, <2>3 DEF Begun, UpToDate
<1>3. ~Restart
  BY DEF Restart, Idle
<1>4. QED
  BY <1>1, <1>2, <1>3
  DEF Next, vars, Environment, UserStep, CreateCR, EditSpec, DeleteCR,
      ReleaseHeld, Drift, Collect, Controller, ReceiveEvent, Resync,
      reconcilerVars

-----------------------------------------------------------------------------
(* LifeInv is inductive: from the effects, and from who gains a finalizer. *)

\* A step keeps what has been seen, unless it stores another resource.
LEMMA SeenStep ==
    ASSUME TypeOK, NEW c \in CRs, Effect(c), NEW uid,
           SeenAs(c, uid), server'[c] # Absent, server'[c].uid = uid
    PROVE  \A v \in Copies(c)' : v # Absent /\ v.uid = uid
<1>1. \A v \in Copies(c)' : v \in Copies(c) \/ v = server'[c]
  BY CopiesEffect DEF TypeOK
<1>2. QED
  BY <1>1 DEF SeenAs

Gains(c) == ~Guarded(c) /\ Guarded(c)'

\* A pass that is about to add the finalizer has begun before, or with what the
\* cache holds.
GuardBegun ==
    pass'.pc = "guard" =>
        \/ pass' = pass
        \/ Begun /\ ~pass'.snap.del /\ (pass'.fresh => watch[pass'.cr] = << >>)

LEMMA GuardSeenStep ==
    ASSUME TypeOK, UidsAreSpent, CacheFollows, GuardIsSeen,
           Paced, \A c \in CRs : Effect(c), GuardBegun,
           \A c \in CRs : Gains(c) => server[c] # Absent /\ SeenAs(c, server[c].uid)
    PROVE  GuardIsSeen'
<1>1. ASSUME NEW c \in CRs
      PROVE  server'[c] = server[c] \/ Changed(c)
  BY CopiesEffect DEF TypeOK
<1>2. ASSUME NEW c \in CRs, Guarded(c)'
      PROVE  SeenAs(c, server[c].uid)'
  <2>1. CASE Guarded(c)
    <3>1. server'[c].uid = server[c].uid
      BY <1>1, <1>2, <2>1
      DEF Guarded, Changed, Created, Kept, Dropped, Released
    <3>2. SeenAs(c, server[c].uid)
      BY <2>1 DEF GuardIsSeen
    <3>3. \A v \in Copies(c)' : v # Absent /\ v.uid = server'[c].uid
      BY <1>2, <3>1, <3>2, SeenStep DEF Guarded
    <3>4. QED
      BY <3>3 DEF SeenAs
  <2>2. CASE ~Guarded(c)
    <3>1. server[c] # Absent /\ SeenAs(c, server[c].uid)
      BY <1>2, <2>2 DEF Gains
    <3>2. server'[c].uid = server[c].uid
      BY <1>1, <1>2, <3>1
      DEF Guarded, Changed, Created, Kept, Dropped, Released
    <3>3. \A v \in Copies(c)' : v # Absent /\ v.uid = server'[c].uid
      BY <1>2, <3>1, <3>2, SeenStep DEF Guarded
    <3>4. QED
      BY <3>3 DEF SeenAs
  <2>3. QED
    BY <2>1, <2>2
<1>3. ASSUME pass'.pc = "guard"
      PROVE  /\ ~pass'.snap.del
             /\ /\ pass'.fresh
                /\ server'[pass'.cr] # Absent
                /\ server'[pass'.cr].uid = pass'.snap.uid
                => SeenAs(pass.cr, pass.snap.uid)'
  <2>1. CASE pass' = pass
    <3>1. pass.pc = "guard" /\ pass.cr \in CRs /\ pass.snap.uid \in Nat
      BY <1>3, <2>1, PassType DEF TypeOK, Resources
    <3>2. ASSUME pass.fresh, server'[pass.cr] # Absent,
                 server'[pass.cr].uid = pass.snap.uid
          PROVE  SeenAs(pass.cr, pass.snap.uid)'
      <4>1. pass.snap.uid <= spent.uid /\ spent.uid \in Nat
        BY <3>1 DEF Paced, UidsAreSpent
      <4>2. server[pass.cr] # Absent /\ server[pass.cr].uid = pass.snap.uid
        BY <1>1, <3>1, <3>2, <4>1 DEF Changed, Created, Kept, Dropped, Released
      <4>3. SeenAs(pass.cr, pass.snap.uid)
        BY <3>1, <3>2, <4>2 DEF GuardIsSeen
      <4>4. SeenAs(pass.cr, pass.snap.uid)' <=> \A v \in Copies(pass.cr)' :
                v # Absent /\ v.uid = pass.snap.uid
        BY <2>1 DEF SeenAs
      <4>5. \A d \in CRs : d = pass.cr =>
              \A v \in Copies(d)' : v # Absent /\ v.uid = pass.snap.uid
        BY <3>2, <4>3, SeenStep DEF SeenAs
      <4>6. QED
        BY <2>1, <3>1, <4>4, <4>5 DEF Copies
    <3>3. QED
      BY <2>1, <3>1, <3>2 DEF GuardIsSeen
  <2>2. CASE Begun /\ ~pass'.snap.del /\ (pass'.fresh => watch[pass'.cr] = << >>)
    <3>1. /\ pass'.cr \in CRs /\ pass'.cr \in Ids /\ UNCHANGED apiVars
          /\ pass'.snap = cache[pass'.cr] /\ cache[pass'.cr] # Absent
      BY <2>2, IdTypes DEF Begun
    <3>2. ASSUME pass'.fresh
          PROVE  SeenAs(pass.cr, pass.snap.uid)'
      <4>1. watch[pass'.cr] = << >> /\ server[pass'.cr] = cache[pass'.cr]
        BY <2>2, <3>1, <3>2 DEF CacheFollows
      <4>2. Len(watch[pass'.cr]) = 0
        BY <4>1
      <4>3. Copies(pass.cr)' = {cache[pass'.cr]}
        BY <3>1, <4>1, <4>2 DEF Copies, apiVars
      <4>4. QED
        BY <3>1, <4>3 DEF SeenAs
    <3>3. QED
      BY <2>2, <3>2
  <2>3. QED
    BY <1>3, <2>1, <2>2 DEF GuardBegun
<1>4. QED
  BY <1>2, <1>3 DEF GuardIsSeen

LEMMA CleanupDueStep ==
    ASSUME TypeOK, DeletionIsFinal, GuardIsSeen, CleanupIsDue,
           Paced, \A c \in CRs : Effect(c),
           pass.pc \in {"cleanup", "release"} => ~Gains(pass.cr)
    PROVE  CleanupIsDue'
<1>1. SUFFICES ASSUME pass'.pc \in {"cleanup", "release"}, Guarded(pass.cr)'
               PROVE  server'[pass'.cr].del
  BY DEF CleanupIsDue
<1>2. CASE Begun
  <2>1. /\ pass'.cr \in CRs /\ UNCHANGED apiVars
        /\ cache[pass'.cr] # Absent /\ cache[pass'.cr].del
    BY <1>1, <1>2 DEF Begun
  <2>2. Guarded(pass'.cr)
    BY <1>1, <2>1 DEF Guarded, apiVars
  <2>3. cache[pass'.cr].uid = server[pass'.cr].uid
    BY <2>1, <2>2 DEF GuardIsSeen, SeenAs, Copies
  <2>4. server[pass'.cr].del
    BY <2>1, <2>2, <2>3 DEF DeletionIsFinal, After, Guarded
  <2>5. QED
    BY <2>1, <2>4 DEF apiVars
<1>3. CASE Continued
  <2>1. /\ pass'.cr = pass.cr /\ pass.cr \in CRs
        /\ pass.pc \in {"cleanup", "release"}
    BY <1>1, <1>3, PassType DEF Continued, TypeOK
  <2>2. \A d \in CRs : d = pass.cr => Guarded(d)'
    BY <1>1, <2>1 DEF Guarded
  <2>3. Guarded(pass.cr)
    <3>1. \A d \in CRs : d = pass.cr => (Gains(d) <=> Gains(pass.cr))
      BY <2>1 DEF Gains, Guarded
    <3>2. QED
      BY <2>1, <2>2, <3>1 DEF Gains
  <2>4. server[pass.cr].del
    BY <2>1, <2>3 DEF CleanupIsDue
  <2>5. server'[pass.cr] = server[pass.cr] \/ Changed(pass.cr)
    BY <2>1, CopiesEffect DEF TypeOK
  <2>6. QED
    BY <1>1, <2>1, <2>3, <2>4, <2>5
    DEF Guarded, Changed, Created, Kept, Dropped, Released
<1>4. QED
  BY <1>1, <1>2, <1>3 DEF Paced

LEMMA LifeInvStep ==
    ASSUME TypeOK, CopiesInv, CacheFollows, GuardIsSeen, CleanupIsDue, [Next]_vars
    PROVE  (GuardIsSeen /\ CleanupIsDue)'
<1>1. Paced /\ \A c \in CRs : Effect(c)
  BY StepIsPaced, StepEffect DEF CopiesInv
<1>2. ASSUME NEW c \in CRs, Gains(c)
      PROVE  pass.pc = "guard" /\ server[c] # Absent /\ SeenAs(c, server[c].uid)
  <2>1. pass.pc = "guard" /\ pass.cr = c /\ pass.fresh /\ server[c] = pass.snap
    BY <1>2, GuardGain DEF Gains, SnapshotIsCurrent
  <2>2. server[c] # Absent
    BY <2>1, PassType, SentinelAssumption DEF TypeOK
  <2>3. QED
    BY <2>1, <2>2 DEF GuardIsSeen
<1>3. GuardIsSeen'
  BY <1>1, <1>2, GuardSeenStep, GuardShape DEF GuardBegun, CopiesInv
<1>4. pass.pc \in {"cleanup", "release"} => pass.cr \in CRs
  BY PassType DEF TypeOK
<1>5. QED
  BY <1>1, <1>2, <1>3, <1>4, CleanupDueStep DEF CopiesInv

\* The invariant behind the cleanup: a guarded resource has been seen, so that
\* no copy of an earlier one of its name is left for a pass to act on.
THEOREM LifeHolds == Spec => []LifeInv
<1>1. Init => GuardIsSeen /\ CleanupIsDue
  BY IdTypes DEF Init, ReconcilerInit, Idle, GuardIsSeen, CleanupIsDue, Guarded
<1>2. TypeOK /\ ProtectionInv /\ CacheFollows /\ GuardIsSeen /\ CleanupIsDue
        /\ [Next]_vars => (GuardIsSeen /\ CleanupIsDue)'
  BY LifeInvStep DEF ProtectionInv
<1>3. QED
  BY <1>1, <1>2, TypeCorrect, ProtectionHolds, CacheCatchesUp,
     RBACHasNoOwnerHolds, PTL DEF Spec, LifeInv

-----------------------------------------------------------------------------
(* Nobody's cluster-scoped objects are deleted but those of the deleted.   *)

\* Who removes a managed object.
LEMMA PassRemoves ==
    ASSUME TypeOK, PassStep \/ PassFault, NEW key \in Keys,
           server[key] # Absent, server'[key] = Absent
    PROVE  pass.pc = "cleanup" /\ key = CleanupKey
<1>1. StoreOK /\ key \in Ids /\ key \notin CRs
  BY IdTypes DEF TypeOK
<1>2. ~UNCHANGED apiVars
  BY DEF apiVars
<1>3. ASSUME NEW obj, pass.pc # "idle", PutIfChanged(pass.cr, obj) \/ Put(pass.cr, obj)
      PROVE  FALSE
  BY <1>1, <1>2, <1>3, PassType, PutEffect DEF PutIfChanged, Untouched, TypeOK
<1>4. ASSUME Guard \/ GuardFault \/ Release \/ ReleaseFault
      PROVE  FALSE
  BY <1>2, <1>3, <1>4
  DEF Guard, GuardFault, Release, ReleaseFault, WriteFinalizer, RemoveFinalizer
<1>5. ASSUME Ready \/ ReadyFault \/ Report \/ ReportFault
      PROVE  FALSE
  BY <1>2, <1>3, <1>5 DEF Ready, ReadyFault, Report, ReportFault, PatchStatus
<1>6. ASSUME Apply \/ ApplyFault
      PROVE  FALSE
  <2>1. pass.pc = "apply" /\ PutIfChanged(StepKey, Want)
    BY <1>2, <1>6 DEF Apply, ApplyFault, WriteObject
  <2>2. StepKey \in Keys /\ StepKey \in Ids
    BY <2>1, WriteKeys, IdTypes DEF TypeOK
  <2>3. Put(StepKey, Want)
    BY <1>2, <2>1 DEF PutIfChanged
  <2>4. Want = Absent
    BY <1>1, <2>2, <2>3, PutEffect DEF Untouched
  <2>5. Want \in Objects
    BY <2>1, WantType DEF TypeOK
  <2>6. QED
    BY <2>4, <2>5, SentinelAssumption
<1>7. CASE Cleanup \/ CleanupFault
  <2>1. pass.pc = "cleanup" /\ PutIfChanged(CleanupKey, Absent)
    BY <1>2, <1>7 DEF Cleanup, CleanupFault, DeleteObject
  <2>2. CleanupKey \in Ids
    BY <2>1, WriteKeys, IdTypes DEF TypeOK
  <2>3. Put(CleanupKey, Absent)
    BY <1>2, <2>1 DEF PutIfChanged
  <2>4. QED
    BY <1>1, <2>1, <2>2, <2>3, PutEffect DEF Untouched
<1>8. QED
  BY <1>4, <1>5, <1>6, <1>7 DEF PassStep, PassFault

LEMMA StepRemoves ==
    ASSUME TypeOK, [Next]_vars, NEW key \in Keys,
           server[key] # Absent, server'[key] = Absent
    PROVE  \/ Drift(key) \/ Collect(key)
           \/ pass.pc = "cleanup" /\ key = CleanupKey
<1>1. StoreOK /\ key \in Ids /\ key \notin CRs
  BY IdTypes DEF TypeOK
<1>2. ASSUME NEW c \in CRs, NEW obj, Put(c, obj)
      PROVE  FALSE
  BY <1>1, <1>2, IdTypes, PutEffect DEF Untouched
<1>3. ~\E c \in CRs : UserStep(c) \/ ReleaseHeld(c)
  BY <1>2 DEF UserStep, CreateCR, EditSpec, DeleteCR, ReleaseHeld
<1>4. ASSUME NEW k \in Keys, Drift(k) \/ Collect(k)
      PROVE  k = key
  <2>1. \E obj : Put(k, obj)
    BY <1>4 DEF Drift, Collect
  <2>2. QED
    BY <1>1, <2>1, IdTypes, PutEffect DEF Untouched
<1>5. CASE Environment
  BY <1>3, <1>4, <1>5 DEF Environment
<1>6. CASE Controller
  BY <1>6, PassRemoves
  DEF Controller, ReceiveEvent, Receive, StartPass, Resync, Restart, Relist,
      apiVars
<1>7. QED
  BY <1>5, <1>6 DEF Next, vars

LEMMA CleanupKeyKind ==
    ASSUME PassOK, pass.pc = "cleanup", NEW step \in ClusterSteps,
           NEW c, NEW spec, CleanupKey = Key(step, c, spec)
    PROVE  CleanupOrder[pass.i] = step
<1>1. CleanupOrder[pass.i] \in ClusterSteps
  BY WriteKeys, CleanupSteps
<1>2. KindOf(CleanupOrder[pass.i]) = KindOf(step)
  BY DEF CleanupKey, Key
<1>3. QED
  BY <1>1, <1>2, KindTable DEF ClusterSteps

\* Whoever takes a cluster-scoped object from a living resource is one of the
\* others.
LEMMA LivingStep ==
    ASSUME RBACKeysApart, TypeOK, CleanupIsDue, RBACHasNoOwner, [Next]_vars,
           NEW c \in CRs, NEW step \in ClusterSteps,
           Guarded(c), ~server[c].del,
           server[Key(step, c, server[c].spec)] # Absent,
           spent'.drifts = spent.drifts \/ KindOf(step) \notin DriftKinds
    PROVE  server'[Key(step, c, server[c].spec)] # Absent
<1> DEFINE key == Key(step, c, server[c].spec)
<1>1. SUFFICES ASSUME server'[key] = Absent PROVE FALSE
  OBVIOUS
<1>2. server[c].spec \in Specs
  BY IdTypes DEF Guarded, TypeOK, StoreOK, Resources
<1>3. key \in Keys /\ key.kind \in {"ClusterRole", "ClusterRoleBinding"}
  BY <1>2, KeyType, KindTable DEF Key, ClusterSteps
<1>4. ~Drift(key)
  <2>1. spent \in [Bounds -> Nat] /\ "drifts" \in Bounds
    BY DEF TypeOK, Bounds
  <2>2. spent.drifts + 1 # spent.drifts
    BY <2>1
  <2>3. key.kind = KindOf(step)
    BY DEF Key
  <2>4. QED
    BY <2>1, <2>2, <2>3 DEF Drift, Spend
<1>5. ~Collect(key)
  BY <1>3 DEF Collect, RBACHasNoOwner
<1>6. pass.pc = "cleanup" /\ key = CleanupKey
  BY <1>1, <1>3, <1>4, <1>5, StepRemoves
<1>7. pass.cr = c
  <2>1. CleanupOrder[pass.i] = step
    BY <1>6, CleanupKeyKind DEF TypeOK
  <2>2. pass.cr \in CRs /\ pass.snap.spec \in Specs
    BY <1>6, PassType DEF TypeOK
  <2>3. QED
    BY <1>2, <1>6, <2>1, <2>2, RBACKeysApart DEF RBACKeysApart, CleanupKey
<1>8. QED
  BY <1>6, <1>7 DEF CleanupIsDue

\* A cleanup takes nothing from the living: as long as different resources
\* name different cluster-scoped objects, no pass, however old its copy,
\* deletes one that the stored spec of a guarded resource names and that
\* nobody asked to delete.
THEOREM LivingRBACIsKept ==
    ASSUME RBACKeysApart
    PROVE  Spec => LivingRBACKept
<1>1. TypeOK /\ LifeInv /\ [Next]_vars =>
        [\A c \in CRs, step \in ClusterSteps :
            /\ Guarded(c) /\ ~server[c].del
            /\ server[Key(step, c, server[c].spec)] # Absent
            /\ spent'.drifts = spent.drifts
            => server'[Key(step, c, server[c].spec)] # Absent]_vars
  BY RBACKeysApart, LivingStep DEF LifeInv
<1>2. QED
  BY <1>1, TypeCorrect, LifeHolds, PTL DEF Spec, LivingRBACKept
=============================================================================
