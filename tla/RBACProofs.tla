------------------------------ MODULE RBACProofs ------------------------------
(***************************************************************************)
(* The finalizer does protect the cluster-scoped RBAC: proofs for every    *)
(* set of resources and specs, every plan and every bound.                 *)
(*                                                                         *)
(* The argument has two halves.  The first says what any one step may do   *)
(* to the copies of a resource (Effect), to the pass and to a managed      *)
(* object; it looks at the actions one by one.  The second shows from      *)
(* these effects alone that ProtectionInv is inductive.                    *)
(***************************************************************************)
EXTENDS KubesharkOperatorProofs

-----------------------------------------------------------------------------
(* What a step may do to one resource.                                     *)

Untouched(id) == server'[id] = server[id] /\ cache'[id] = cache[id]
                 /\ watch'[id] = watch[id]

Received(c) ==
    /\ watch[c] # << >>
    /\ server'[c] = server[c]
    /\ cache'[c] = Head(watch[c])
    /\ watch'[c] = Tail(watch[c])

Relisted(c) ==
    /\ server'[c] = server[c]
    /\ cache'[c] = server[c]
    /\ watch'[c] = << >>

Stored(c) == cache'[c] = cache[c] /\ watch'[c] = Append(watch[c], server'[c])

Created(c) ==
    /\ server[c] = Absent /\ server'[c] # Absent
    /\ ~server'[c].fin /\ ~server'[c].del
    /\ server'[c].uid = spent.uid + 1
    /\ spent'.uid = spent.uid + 1

Kept(c) ==
    /\ server[c] # Absent /\ server'[c] # Absent
    /\ server'[c].uid = server[c].uid
    /\ server[c].del => server'[c].del
    /\ server[c].fin => server'[c].fin

Dropped(c) == server[c] # Absent /\ ~server[c].fin /\ server'[c] = Absent

\* The only way to lose the finalizer: the resource is being deleted, and so
\* is every copy of it that something may act on.
Released(c) ==
    /\ server[c] # Absent /\ server[c].del
    /\ \A v \in Copies(c) : After(server[c], v)
    /\ pass.pc = "apply" /\ pass.cr = c => After(server[c], pass.snap)
    /\ server'[c] # Absent =>
          server'[c].uid = server[c].uid /\ ~server'[c].fin /\ server'[c].del

Changed(c) == Created(c) \/ Kept(c) \/ Dropped(c) \/ Released(c)

Effect(c) ==
    \/ Untouched(c)
    \/ Received(c)
    \/ Relisted(c)
    \/ Stored(c) /\ Changed(c)

Loses(c) == Guarded(c) /\ ~Guarded(c)'

\* The Update that ends a cleanup.
EndsCleanup(c) == pass.pc = "release" /\ pass.cr = c /\ server[c] = pass.snap

LEMMA PutEffect ==
    ASSUME StoreOK, NEW id \in Ids, NEW obj, Put(id, obj)
    PROVE  /\ server'[id] = obj /\ Stored(id)
           /\ \A x \in Ids : x # id => Untouched(x)
BY DEF StoreOK, Put, Stored, Untouched

LEMMA UnchangedEffect ==
    ASSUME UNCHANGED apiVars
    PROVE  \A c : Untouched(c)
BY DEF apiVars, Untouched

\* A write of a managed object leaves every resource alone.
LEMMA KeyWriteEffect ==
    ASSUME StoreOK, NEW key \in Keys, NEW obj,
           Put(key, obj) \/ PutIfChanged(key, obj)
    PROVE  \A c \in CRs : Untouched(c)
BY IdTypes, PutEffect, UnchangedEffect DEF PutIfChanged

LEMMA WriteKeys ==
    ASSUME PassOK
    PROVE  /\ pass.pc = "apply" => StepKey \in Keys
           /\ pass.pc = "cleanup" => CleanupKey \in Keys /\ pass.i \in 1..2
<1>1. CASE pass.pc = "apply"
  <2>1. pass.i \in Nat \ {0} /\ pass.i <= Len(Plan)
    BY <1>1, PassType DEF PassOK, Passes
  <2>2. QED
    BY <1>1, <2>1, PlanSteps, PassType, KeyType DEF Step, StepKey
<1>2. CASE pass.pc = "cleanup"
  <2>1. pass.i \in 1..2
    BY <1>2, PassType, CleanupSteps DEF PassOK, Passes
  <2>2. QED
    BY <1>2, <2>1, PassType, CleanupSteps, KeyType DEF CleanupKey
<1>3. QED
  BY <1>1, <1>2

\* A status patch keeps the resource as it is in all that matters here.
LEMMA StatusPatchEffect ==
    ASSUME TypeOK, pass.pc # "idle", server[pass.cr] # Absent,
           NEW status \in {"Unknown", "True", "False"},
           NEW reason \in Reasons, NEW message \in Messages,
           PatchStatus(status, reason, message)
    PROVE  \A c \in CRs : Untouched(c) \/ (Stored(c) /\ Kept(c))
<1>1. /\ pass.cr \in CRs /\ pass.cr \in Ids /\ pass.snap \in Resources
      /\ server[pass.cr] \in Resources
  BY PassType, IdTypes DEF TypeOK, StoreOK
<1> DEFINE new == StatusPatched(server[pass.cr], pass.snap, status, reason, message)
<1>2. /\ new \in Resources /\ new.fin = server[pass.cr].fin
      /\ new.uid = server[pass.cr].uid /\ new.del = server[pass.cr].del
  <2>1. new \in Resources
    BY <1>1, StatusPatchedType
  <2>2. /\ new.fin = server[pass.cr].fin /\ new.uid = server[pass.cr].uid
        /\ new.del = server[pass.cr].del
    BY <1>1, StatusPatchedKeeps
  <2>3. QED
    BY <2>1, <2>2
<1> HIDE DEF new
<1>3. new # Absent
  BY <1>2, SentinelAssumption
<1>4. CASE UNCHANGED apiVars
  BY <1>4, UnchangedEffect
<1>5. CASE Put(pass.cr, new)
  <2>1. server'[pass.cr] = new /\ Stored(pass.cr)
        /\ \A x \in Ids : x # pass.cr => Untouched(x)
    BY <1>1, <1>5, PutEffect DEF TypeOK
  <2>2. Kept(pass.cr)
    BY <1>2, <1>3, <2>1 DEF Kept
  <2>3. QED
    BY <2>1, <2>2, IdTypes
<1>6. QED
  BY <1>4, <1>5 DEF PatchStatus, PutIfChanged, new

LEMMA WriteFinalizerEffect ==
    ASSUME TypeOK, pass.pc = "guard", SnapshotIsCurrent, WriteFinalizer
    PROVE  \A c \in CRs : Untouched(c) \/ (Stored(c) /\ Kept(c))
<1>1. /\ pass.cr \in CRs /\ pass.cr \in Ids /\ pass.snap \in Resources
      /\ server[pass.cr] = pass.snap
  BY PassType DEF TypeOK, SnapshotIsCurrent
<1> DEFINE new == Rewritten(pass.snap, TRUE)
<1>2. new \in Resources /\ new.fin /\ new.uid = pass.snap.uid /\ new.del = pass.snap.del
  BY <1>1, RewrittenType
<1>3. server'[pass.cr] = new /\ Stored(pass.cr)
      /\ \A x \in Ids : x # pass.cr => Untouched(x)
  BY <1>1, PutEffect DEF WriteFinalizer, TypeOK
<1>4. Kept(pass.cr)
  BY <1>1, <1>2, <1>3, SentinelAssumption DEF Kept
<1>5. QED
  BY <1>3, <1>4, IdTypes

LEMMA RemoveFinalizerEffect ==
    ASSUME TypeOK, PassHasRead, pass.pc = "release", SnapshotIsCurrent,
           RemoveFinalizer
    PROVE  \A c \in CRs :
              Untouched(c) \/ (Stored(c) /\ Released(c) /\ EndsCleanup(c))
<1>1. /\ pass.cr \in CRs /\ pass.cr \in Ids /\ pass.snap \in Resources
      /\ server[pass.cr] = pass.snap /\ pass.snap.del
      /\ \A v \in Copies(pass.cr) : After(pass.snap, v)
  BY PassType DEF TypeOK, SnapshotIsCurrent, PassHasRead
<1> DEFINE new == IF pass.snap.held THEN Rewritten(pass.snap, FALSE) ELSE Absent
<1>2. new # Absent => /\ ~new.fin /\ new.uid = pass.snap.uid /\ new.del
  BY <1>1, RewrittenType
<1>3. server'[pass.cr] = new /\ Stored(pass.cr)
      /\ \A x \in Ids : x # pass.cr => Untouched(x)
  BY <1>1, PutEffect DEF RemoveFinalizer, TypeOK
<1>4. Released(pass.cr) /\ EndsCleanup(pass.cr)
  BY <1>1, <1>2, <1>3, SentinelAssumption DEF Released, EndsCleanup
<1>5. QED
  BY <1>3, <1>4, IdTypes

-----------------------------------------------------------------------------
(* Every step of the system has one of these effects on each resource.     *)

LEMMA FailShape ==
    ASSUME pass \in Passes, NEW reason, NEW message, Fail(reason, message)
    PROVE  pass'.pc = "fail" /\ pass'.cr = pass.cr /\ pass'.snap = pass.snap
BY DEF Fail, Passes

LEMMA PassEffect ==
    ASSUME TypeOK, PassHasRead, PassStep \/ PassFault
    PROVE  \A c \in CRs : Effect(c) /\ (Loses(c) => EndsCleanup(c))
<1>1. SUFFICES \A c \in CRs :
          Untouched(c) \/ (Stored(c) /\ (Kept(c) \/ (Released(c) /\ EndsCleanup(c))))
  BY <1>1 DEF Effect, Changed, Loses, Untouched, Kept, Guarded
<1>2. CASE Guard \/ GuardFault
  BY <1>2, WriteFinalizerEffect, UnchangedEffect DEF Guard, GuardFault
<1>3. CASE Apply \/ ApplyFault
  BY <1>3, WriteKeys, KeyWriteEffect, UnchangedEffect
  DEF Apply, ApplyFault, WriteObject, TypeOK
<1>4. CASE Cleanup \/ CleanupFault
  BY <1>4, WriteKeys, KeyWriteEffect, UnchangedEffect
  DEF Cleanup, CleanupFault, DeleteObject, TypeOK
<1>5. CASE Release \/ ReleaseFault
  <2>1. pass.pc = "release"
    BY <1>5 DEF Release, ReleaseFault
  <2>2. QED
    BY <1>5, <2>1, RemoveFinalizerEffect, UnchangedEffect DEF Release, ReleaseFault
<1>6. CASE Ready \/ ReadyFault
  <2>1. "Reconciled" \in Reasons /\ "all" \in Messages
    BY DEF Reasons, Messages
  <2>2. QED
    BY <1>6, <2>1, StatusPatchEffect, UnchangedEffect DEF Ready, ReadyFault
<1>7. CASE Report \/ ReportFault
  <2>1. pass.pc = "fail"
    BY <1>7 DEF Report, ReportFault
  <2>2. pass.reason \in Reasons /\ pass.message \in Messages
    BY <2>1, PassType DEF Passes, TypeOK
  <2>3. QED
    BY <1>7, <2>1, <2>2, StatusPatchEffect, UnchangedEffect DEF Report, ReportFault
<1>8. QED
  BY <1>2, <1>3, <1>4, <1>5, <1>6, <1>7 DEF PassStep, PassFault

\* A write to the resource c by someone else, as an effect on every resource.
LEMMA ResourceWriteEffect ==
    ASSUME StoreOK, NEW c \in CRs, NEW obj, Put(c, obj),
           server'[c] = obj => Created(c) \/ Kept(c) \/ Dropped(c)
    PROVE  \A d \in CRs : Effect(d) /\ ~Loses(d)
<1>1. c \in Ids
  BY IdTypes
<1>2. server'[c] = obj /\ Stored(c) /\ \A x \in Ids : x # c => Untouched(x)
  BY <1>1, PutEffect
<1>3. ~Loses(c) /\ Effect(c)
  BY <1>2 DEF Effect, Changed, Loses, Created, Kept, Dropped, Guarded
<1>4. QED
  BY <1>2, <1>3, IdTypes DEF Effect, Loses, Untouched, Guarded

LEMMA EnvironmentEffect ==
    ASSUME TypeOK, Environment
    PROVE  \A c \in CRs : Effect(c) /\ ~Loses(c)
<1>1. spent \in [Bounds -> Nat] /\ "uid" \in Bounds /\ StoreOK
  BY DEF TypeOK, Bounds
<1>2. ASSUME NEW c \in CRs, server[c] # Absent
      PROVE  server[c] \in Resources
  BY <1>2, IdTypes DEF TypeOK, StoreOK
<1>3. ASSUME NEW c \in CRs, NEW spec \in Manifests, CreateCR(c, spec)
      PROVE  \A d \in CRs : Effect(d) /\ ~Loses(d)
  <2> DEFINE obj == [uid |-> spent.uid + 1, gen |-> 1, spec |-> Admitted(spec),
                     fin |-> FALSE, held |-> FALSE, del |-> FALSE,
                     cond |-> NoCondition, obs |-> 0]
  <2>1. obj # Absent
    <3>1. spent.uid + 1 \in Nat
      BY <1>1
    <3>2. Admitted(spec) \in Specs
      BY ManifestsAssumption
    <3>3. NoCondition \in Conditions
      BY DEF NoCondition, Conditions, Reasons, Messages
    <3>4. obj \in Resources
      BY <3>1, <3>2, <3>3 DEF Resources
    <3> HIDE DEF obj
    <3>5. QED
      BY <3>4, SentinelAssumption
  <2>2. obj.uid = spent.uid + 1 /\ ~obj.fin /\ ~obj.del
    OBVIOUS
  <2>3. Put(c, obj) /\ server[c] = Absent /\ spent'.uid = spent.uid + 1
    BY <1>1, <1>3, SpendType DEF CreateCR
  <2> HIDE DEF obj
  <2>4. server'[c] = obj => Created(c)
    BY <2>1, <2>2, <2>3 DEF Created
  <2>5. QED
    BY <1>1, <2>3, <2>4, ResourceWriteEffect
<1>4. ASSUME NEW c \in CRs, NEW spec \in Manifests, EditSpec(c, spec)
      PROVE  \A d \in CRs : Effect(d) /\ ~Loses(d)
  <2> DEFINE obj == [server[c] EXCEPT !.spec = Admitted(spec),
                                      !.gen = server[c].gen + 1]
  <2>1. Put(c, obj) /\ server[c] # Absent /\ server[c] \in Resources
    BY <1>2, <1>4 DEF EditSpec
  <2>2. obj \in Resources
    BY <2>1, ManifestsAssumption, ResourceUpdates
  <2>3. obj.uid = server[c].uid /\ obj.fin = server[c].fin /\ obj.del = server[c].del
    BY <2>1 DEF Resources
  <2> HIDE DEF obj
  <2>4. server'[c] = obj => Kept(c)
    BY <2>1, <2>2, <2>3, SentinelAssumption DEF Kept
  <2>5. QED
    BY <1>1, <2>1, <2>4, ResourceWriteEffect
<1>5. ASSUME NEW c \in CRs, NEW foreground \in BOOLEAN, DeleteCR(c, foreground)
      PROVE  \A d \in CRs : Effect(d) /\ ~Loses(d)
  <2> DEFINE marked == [server[c] EXCEPT !.del = TRUE, !.held = foreground,
                                         !.gen = server[c].gen + 1]
             obj == IF server[c].fin \/ foreground THEN marked ELSE Absent
  <2>1. Put(c, obj) /\ server[c] # Absent /\ server[c] \in Resources
    BY <1>2, <1>5 DEF DeleteCR
  <2>2. marked \in Resources
    <3>1. \E spec : spec \in Specs
      BY <2>1 DEF Resources
    <3>2. QED
      BY <2>1, <3>1, ResourceUpdates
  <2>3. marked.uid = server[c].uid /\ marked.fin = server[c].fin /\ marked.del
    BY <2>1 DEF Resources
  <2> HIDE DEF marked
  <2>4. server'[c] = obj => Kept(c) \/ Dropped(c)
    BY <2>1, <2>2, <2>3, SentinelAssumption DEF Kept, Dropped
  <2>5. QED
    BY <1>1, <2>1, <2>4, ResourceWriteEffect
<1>6. ASSUME NEW c \in CRs, ReleaseHeld(c)
      PROVE  \A d \in CRs : Effect(d) /\ ~Loses(d)
  <2> DEFINE freed == [server[c] EXCEPT !.held = FALSE]
             obj == IF server[c].fin THEN freed ELSE Absent
  <2>1. Put(c, obj) /\ server[c] # Absent /\ server[c] \in Resources
    BY <1>2, <1>6 DEF ReleaseHeld
  <2>2. freed \in Resources /\ freed.uid = server[c].uid
        /\ freed.fin = server[c].fin /\ freed.del = server[c].del
    BY <2>1 DEF Resources
  <2> HIDE DEF freed
  <2>3. server'[c] = obj => Kept(c) \/ Dropped(c)
    BY <2>1, <2>2, SentinelAssumption DEF Kept, Dropped
  <2>4. QED
    BY <1>1, <2>1, <2>3, ResourceWriteEffect
<1>7. ASSUME NEW key \in Keys, Drift(key) \/ Collect(key)
      PROVE  \A d \in CRs : Effect(d) /\ ~Loses(d)
  BY <1>1, <1>7, KeyWriteEffect
  DEF Drift, Collect, Effect, Loses, Untouched, Guarded
<1>8. QED
  BY <1>3, <1>4, <1>5, <1>6, <1>7 DEF Environment, UserStep

LEMMA ControllerEffect ==
    ASSUME TypeOK, PassHasRead, Controller
    PROVE  \A c \in CRs : Effect(c) /\ (Loses(c) => EndsCleanup(c))
<1>1. ASSUME NEW id \in Ids, ReceiveEvent(id)
      PROVE  \A c \in CRs : Effect(c) /\ ~Loses(c)
  <2>1. ASSUME NEW c \in CRs PROVE Untouched(c) \/ Received(c)
    BY <1>1, IdTypes
    DEF ReceiveEvent, Receive, TypeOK, StoreOK, Untouched, Received
  <2>2. QED
    BY <2>1 DEF Effect, Untouched, Received, Loses, Guarded
<1>2. CASE Restart
  <2>1. ASSUME NEW c \in CRs PROVE Relisted(c)
    BY <1>2, IdTypes DEF Restart, Relist, TypeOK, StoreOK, Relisted
  <2>2. QED
    BY <2>1 DEF Effect, Relisted, Loses, Guarded
<1>3. ASSUME NEW c \in CRs, StartPass(c)
      PROVE  \A d \in CRs : Effect(d) /\ ~Loses(d)
  BY <1>3, UnchangedEffect DEF StartPass, Effect, Loses, Untouched, Guarded
<1>4. CASE Resync
  BY <1>4, UnchangedEffect DEF Resync, Effect, Loses, Untouched, Guarded
<1>5. QED
  BY <1>1, <1>2, <1>3, <1>4, PassEffect DEF Controller

LEMMA StepEffect ==
    ASSUME TypeOK, PassHasRead, [Next]_vars
    PROVE  \A c \in CRs : Effect(c) /\ (Loses(c) => EndsCleanup(c))
<1>1. CASE UNCHANGED vars
  BY <1>1, UnchangedEffect DEF vars, apiVars, Effect, Loses, Untouched, Guarded
<1>2. QED
  BY <1>1, EnvironmentEffect, ControllerEffect DEF Next

\* Uids are only ever spent.
LEMMA UidsGrow ==
    ASSUME TypeOK, [Next]_vars
    PROVE  spent.uid \in Nat /\ spent'.uid \in Nat /\ spent'.uid >= spent.uid
<1>1. spent \in [Bounds -> Nat] /\ TypeOK'
  <2>1. TypeOK /\ UNCHANGED vars => TypeOK'
    BY DEF vars, TypeOK, StoreOK, PassOK, Versions
  <2>2. QED
    BY <2>1, EnvironmentType, ControllerType DEF Next, TypeOK
<1>2. Bounds = {"uid", "edits", "deletes", "drifts", "faults", "restarts"}
  BY DEF Bounds
<1>3. spent.uid \in Nat /\ spent'.uid \in Nat
  BY <1>1, <1>2 DEF TypeOK
<1>4. ASSUME NEW bound \in Bounds, spent' = [spent EXCEPT ![bound] = @ + 1]
      PROVE  spent'.uid >= spent.uid
  BY <1>1, <1>2, <1>3, <1>4
<1>5. CASE UNCHANGED spent
  BY <1>3, <1>5
<1>6. CASE Environment
  <2>1. \/ Spend("uid", MaxUid) \/ Spend("edits", MaxEdits)
        \/ Spend("deletes", MaxDeletes) \/ Spend("drifts", MaxDrifts)
        \/ Spare
    BY <1>6
    DEF Environment, UserStep, CreateCR, EditSpec, DeleteCR, ReleaseHeld,
        Drift, Collect
  <2>2. QED
    BY <1>2, <1>3, <1>4, <1>5, <2>1 DEF Spare, Spend
<1>7. CASE Controller
  <2>1. \/ Spend("faults", MaxFaults) \/ Spend("restarts", MaxRestarts) \/ Spare
    BY <1>7 DEF Controller
  <2>2. QED
    BY <1>2, <1>3, <1>4, <1>5, <2>1 DEF Spare, Spend
<1>8. QED
  BY <1>3, <1>5, <1>6, <1>7 DEF Next, vars

-----------------------------------------------------------------------------
(* What a step may do to the pass.                                         *)

Begun ==
    /\ UNCHANGED apiVars
    /\ pass'.cr \in CRs
    /\ cache[pass'.cr] # Absent
    /\ pass'.snap = cache[pass'.cr]
    /\ pass'.pc \notin {"release", "ready"}
    /\ pass'.pc = "apply" => pass'.snap.fin /\ ~pass'.snap.del
    /\ pass'.pc = "cleanup" => pass'.snap.del /\ pass'.i = 1

\* The pass goes on; a cleanup advances only past an object that is gone.
Continued ==
    /\ pass.pc # "idle"
    /\ pass'.cr = pass.cr /\ pass'.snap = pass.snap
    /\ pass'.pc = "apply" => pass.pc = "apply"
    /\ pass'.pc = "ready" => pass.pc \in {"apply", "ready"}
    /\ pass'.pc \in {"cleanup", "release"} =>
          \/ pass' = pass
          \/ /\ pass.pc = "cleanup" /\ server'[CleanupKey] = Absent
             /\ IF pass.i = 2 THEN pass'.pc = "release"
                ELSE pass'.pc = "cleanup" /\ pass'.i = pass.i + 1

LEMMA PassStepShape ==
    ASSUME TypeOK, PassStep \/ PassFault
    PROVE  pass'.pc = "idle" \/ Continued
<1>1. pass.pc # "idle" /\ pass \in Passes
  <2>1. pass.pc # "idle"
    BY DEF PassStep, PassFault, Guard, Apply, Cleanup, Release, Ready, Report,
           GuardFault, ApplyFault, CleanupFault, ReleaseFault, ReadyFault,
           ReportFault
  <2>2. QED
    BY <2>1, PassType DEF TypeOK
<1>2. Done \/ Retry => pass'.pc = "idle"
  BY DEF Done, Retry, Idle
<1>3. ASSUME NEW reason, NEW message, Fail(reason, message)
      PROVE  Continued
  BY <1>1, <1>3, FailShape DEF Continued
<1>4. CASE pass.pc = "apply" /\ NextStep
  BY <1>1, <1>4 DEF NextStep, Continued, Passes
<1>5. CASE Cleanup
  <2>1. pass.pc = "cleanup" /\ pass.i \in 1..2 /\ CleanupKey \in Keys
    BY <1>5, WriteKeys DEF Cleanup, TypeOK
  <2>2. server'[CleanupKey] = Absent
    BY <1>5, <2>1, IdTypes, PutEffect
    DEF Cleanup, DeleteObject, PutIfChanged, apiVars, TypeOK
  <2>3. pass' = IF pass.i < 2 THEN [pass EXCEPT !.i = pass.i + 1]
                              ELSE [pass EXCEPT !.pc = "release"]
    BY <1>5, CleanupSteps DEF Cleanup
  <2>4. QED
    BY <1>1, <2>1, <2>2, <2>3 DEF Continued, Passes
<1>6. QED
  BY <1>2, <1>3, <1>4, <1>5
  DEF PassStep, PassFault, Guard, Apply, Release, Ready, Report, GuardFault,
      ApplyFault, CleanupFault, ReleaseFault, ReadyFault, ReportFault

LEMMA PassShape ==
    ASSUME TypeOK, [Next]_vars
    PROVE  pass'.pc = "idle" \/ Begun \/ Continued
<1>1. CASE pass' = pass
  BY <1>1 DEF Continued
<1>2. CASE PassStep \/ PassFault
  BY <1>2, PassStepShape
<1>3. ASSUME NEW c \in CRs, StartPass(c)
      PROVE  pass'.pc = "idle" \/ Begun
  <2>1. UNCHANGED apiVars /\ pass' = Dispatch(c)
    BY <1>3 DEF StartPass
  <2>2. ASSUME NEW pc \in {"guard", "apply", "cleanup"}
        PROVE  /\ Begin(c, pc).pc = pc /\ Begin(c, pc).cr = c
               /\ Begin(c, pc).snap = cache[c] /\ Begin(c, pc).i = 1
    BY DEF Begin
  <2>3. CASE Dispatch(c) = Idle
    BY <2>1, <2>3 DEF Idle
  <2>4. CASE Dispatch(c) # Idle
    BY <2>1, <2>2, <2>4 DEF Dispatch, Begun
  <2>5. QED
    BY <2>3, <2>4
<1>4. CASE Restart
  BY <1>4 DEF Restart, Idle
<1>5. QED
  BY <1>1, <1>2, <1>3, <1>4
  DEF Next, vars, Environment, UserStep, CreateCR, EditSpec, DeleteCR,
      ReleaseHeld, Drift, Collect, Controller, ReceiveEvent, Resync,
      reconcilerVars

\* Uids are only ever spent, and a pass only begins, goes on or ends.
Paced ==
    /\ spent.uid \in Nat /\ spent'.uid \in Nat /\ spent'.uid >= spent.uid
    /\ pass'.pc = "idle" \/ Begun \/ Continued

LEMMA StepIsPaced ==
    ASSUME TypeOK, [Next]_vars
    PROVE  Paced
BY UidsGrow, PassShape DEF Paced

-----------------------------------------------------------------------------
(* Only a pass that applies its plan creates a managed object.             *)

Creates(key) ==
    /\ pass.pc = "apply" /\ key = StepKey
    /\ \A c \in CRs : server'[c] = server[c]

LEMMA PassCreates ==
    ASSUME TypeOK, PassStep \/ PassFault, NEW key \in Keys
    PROVE  server'[key] \in {server[key], Absent} \/ Creates(key)
<1>1. StoreOK /\ key \in Ids /\ key \notin CRs
  BY IdTypes DEF TypeOK
<1>2. CASE UNCHANGED apiVars
  BY <1>2 DEF apiVars
<1>3. ASSUME NEW obj, pass.pc # "idle", PutIfChanged(pass.cr, obj) \/ Put(pass.cr, obj)
      PROVE  server'[key] = server[key]
  BY <1>1, <1>2, <1>3, PassType, PutEffect DEF PutIfChanged, Untouched, apiVars, TypeOK
<1>4. CASE pass.pc = "apply" /\ WriteObject
  <2>1. StepKey \in Ids /\ StepKey \notin CRs
    BY <1>4, WriteKeys, IdTypes DEF TypeOK
  <2>2. CASE Put(StepKey, Want)
    BY <1>1, <1>4, <2>1, <2>2, PutEffect, IdTypes DEF Untouched, Creates
  <2>3. QED
    BY <1>2, <1>4, <2>2 DEF WriteObject, PutIfChanged
<1>5. CASE pass.pc = "cleanup" /\ DeleteObject
  <2>1. CleanupKey \in Ids
    BY <1>5, WriteKeys, IdTypes DEF TypeOK
  <2>2. CASE Put(CleanupKey, Absent)
    BY <1>1, <2>1, <2>2, PutEffect DEF Untouched
  <2>3. QED
    BY <1>2, <1>5, <2>2 DEF DeleteObject, PutIfChanged
<1>6. CASE Guard \/ GuardFault \/ Release \/ ReleaseFault
  BY <1>2, <1>3, <1>6
  DEF Guard, GuardFault, Release, ReleaseFault, WriteFinalizer, RemoveFinalizer
<1>7. CASE Ready \/ ReadyFault \/ Report \/ ReportFault
  BY <1>2, <1>3, <1>7 DEF Ready, ReadyFault, Report, ReportFault, PatchStatus
<1>8. CASE Apply \/ ApplyFault
  BY <1>2, <1>4, <1>8 DEF Apply, ApplyFault
<1>9. CASE Cleanup \/ CleanupFault
  BY <1>2, <1>5, <1>9 DEF Cleanup, CleanupFault
<1>10. QED
  BY <1>6, <1>7, <1>8, <1>9 DEF PassStep, PassFault

LEMMA StepCreates ==
    ASSUME TypeOK, [Next]_vars, NEW key \in Keys
    PROVE  server[key] = Absent /\ server'[key] # Absent => Creates(key)
<1>1. StoreOK /\ key \in Ids /\ key \notin CRs
  BY IdTypes DEF TypeOK
<1>2. CASE server' = server
  BY <1>2
<1>3. ASSUME NEW c \in CRs, NEW obj, Put(c, obj)
      PROVE  server'[key] = server[key]
  BY <1>1, <1>3, IdTypes, PutEffect DEF Untouched
<1>4. ASSUME NEW c \in CRs, UserStep(c) \/ ReleaseHeld(c)
      PROVE  server'[key] = server[key]
  BY <1>3, <1>4 DEF UserStep, CreateCR, EditSpec, DeleteCR, ReleaseHeld
<1>5. ASSUME NEW k \in Keys, Drift(k) \/ Collect(k)
      PROVE  server[key] = Absent => server'[key] = Absent
  <2>1. server[k] # Absent /\ \E obj : Put(k, obj)
    BY <1>5 DEF Drift, Collect
  <2>2. k # key => server'[key] = server[key]
    BY <1>1, <2>1, IdTypes, PutEffect DEF Untouched
  <2>3. QED
    BY <2>1, <2>2
<1>6. CASE Environment
  BY <1>4, <1>5, <1>6 DEF Environment
<1>7. CASE Controller
  BY <1>2, <1>7, PassCreates
  DEF Controller, ReceiveEvent, Receive, StartPass, Resync, Restart, Relist,
      apiVars
<1>8. QED
  BY <1>2, <1>6, <1>7 DEF Next, vars

-----------------------------------------------------------------------------
(* ProtectionInv is inductive: from the effects alone.                     *)

\* How the watch of a resource moves.
LEMMA WatchEffect ==
    ASSUME StoreOK, NEW c \in CRs, Effect(c)
    PROVE  \/ Untouched(c)
           \/ /\ server'[c] = server[c] /\ Len(watch[c]) > 0
              /\ cache'[c] = watch[c][1]
              /\ Len(watch'[c]) = Len(watch[c]) - 1
              /\ \A i \in 1..Len(watch'[c]) : watch'[c][i] = watch[c][i + 1]
           \/ Relisted(c)
           \/ /\ Changed(c) /\ cache'[c] = cache[c]
              /\ Len(watch'[c]) = Len(watch[c]) + 1
              /\ \A i \in 1..Len(watch[c]) : watch'[c][i] = watch[c][i]
              /\ watch'[c][Len(watch[c]) + 1] = server'[c]
<1>1. watch[c] \in Seq(Versions(c)) /\ Len(watch[c]) \in Nat
  BY IdTypes DEF StoreOK
<1>2. CASE Received(c)
  BY <1>1, <1>2, HeadTailProperties DEF Received
<1>3. CASE Stored(c) /\ Changed(c)
  <2>1. server'[c] \in Versions(c) \cup {server'[c]}
    OBVIOUS
  <2>2. watch[c] \in Seq(Versions(c) \cup {server'[c]})
    BY <1>1
  <2>3. QED
    BY <1>1, <1>3, <2>1, <2>2, AppendProperties DEF Stored
<1>4. QED
  BY <1>2, <1>3 DEF Effect, Changed

\* The copies after a step: those before it, and what it stored.
LEMMA CopiesEffect ==
    ASSUME StoreOK, NEW c \in CRs, Effect(c)
    PROVE  /\ \A v \in Copies(c)' : v \in Copies(c) \/ v = server'[c]
           /\ server'[c] = server[c] \/ Changed(c)
<1>1. Len(watch[c]) \in Nat
  BY IdTypes DEF StoreOK
<1>2. CASE Untouched(c)
  BY <1>2 DEF Untouched, Copies
<1>3. CASE Relisted(c)
  BY <1>3 DEF Relisted, Copies
<1>4. CASE /\ server'[c] = server[c] /\ Len(watch[c]) > 0
           /\ cache'[c] = watch[c][1]
           /\ Len(watch'[c]) = Len(watch[c]) - 1
           /\ \A i \in 1..Len(watch'[c]) : watch'[c][i] = watch[c][i + 1]
  BY <1>1, <1>4 DEF Copies
<1>5. CASE /\ Changed(c) /\ cache'[c] = cache[c]
           /\ Len(watch'[c]) = Len(watch[c]) + 1
           /\ \A i \in 1..Len(watch[c]) : watch'[c][i] = watch[c][i]
           /\ watch'[c][Len(watch[c]) + 1] = server'[c]
  BY <1>1, <1>5 DEF Copies
<1>6. QED
  BY <1>2, <1>3, <1>4, <1>5, WatchEffect

LEMMA CopyTypes ==
    ASSUME TypeOK, NEW c \in CRs, NEW v \in Copies(c), v # Absent
    PROVE  v \in Resources /\ v.uid \in Nat
<1>1. v \in Resources \cup {Absent}
  <2>1. /\ server[c] \in Resources \cup {Absent}
        /\ cache[c] \in Resources \cup {Absent}
        /\ watch[c] \in Seq(Resources \cup {Absent})
    BY IdTypes DEF TypeOK, StoreOK
  <2>2. QED
    BY <2>1 DEF Copies
<1>2. QED
  BY <1>1 DEF Resources

\* What was stored before a copy was stored before what is stored next.
LEMMA StaysAfter ==
    ASSUME NEW c \in CRs, Changed(c), NEW v, After(v, server[c]),
           v # Absent => v.uid \in Nat /\ v.uid <= spent.uid,
           spent.uid \in Nat
    PROVE  After(v, server'[c])
BY DEF Changed, Created, Kept, Dropped, Released, After

LEMMA DeletionStep ==
    ASSUME TypeOK, DeletionIsFinal, UidsAreSpent, spent.uid \in Nat,
           NEW c \in CRs, Effect(c)
    PROVE  /\ After(cache[c], server[c])'
           /\ \A i \in 1..Len(watch'[c]) :
                 /\ After(cache'[c], watch'[c][i])
                 /\ After(watch'[c][i], server'[c])
                 /\ \A j \in 1..Len(watch'[c]) :
                       i < j => After(watch'[c][i], watch'[c][j])
<1>1. Len(watch[c]) \in Nat /\ StoreOK
  BY IdTypes DEF TypeOK, StoreOK
<1>2. /\ After(cache[c], server[c])
      /\ \A i \in 1..Len(watch[c]) :
            /\ After(cache[c], watch[c][i])
            /\ After(watch[c][i], server[c])
            /\ \A j \in 1..Len(watch[c]) : i < j => After(watch[c][i], watch[c][j])
  BY DEF DeletionIsFinal
<1>3. CASE Untouched(c)
  BY <1>2, <1>3 DEF Untouched, After
<1>4. CASE Relisted(c)
  BY <1>4 DEF Relisted, After
<1>5. CASE /\ server'[c] = server[c] /\ Len(watch[c]) > 0
           /\ cache'[c] = watch[c][1]
           /\ Len(watch'[c]) = Len(watch[c]) - 1
           /\ \A i \in 1..Len(watch'[c]) : watch'[c][i] = watch[c][i + 1]
  <2>1. 1 \in 1..Len(watch[c])
    BY <1>1, <1>5
  <2>2. ASSUME NEW i \in 1..Len(watch'[c])
        PROVE  i \in 1..Len(watch[c]) /\ i + 1 \in 1..Len(watch[c]) /\ 1 < i + 1
    BY <1>1, <1>5
  <2>3. After(cache[c], server[c])'
    BY <1>2, <1>5, <2>1 DEF After
  <2>4. ASSUME NEW i \in 1..Len(watch'[c])
        PROVE  /\ After(cache'[c], watch'[c][i])
               /\ After(watch'[c][i], server'[c])
    BY <1>2, <1>5, <2>1, <2>2
  <2>5. ASSUME NEW i \in 1..Len(watch'[c]), NEW j \in 1..Len(watch'[c]), i < j
        PROVE  After(watch'[c][i], watch'[c][j])
    BY <1>2, <1>5, <2>2, <2>5
  <2>6. QED
    BY <2>3, <2>4, <2>5
<1>6. CASE /\ Changed(c) /\ cache'[c] = cache[c]
           /\ Len(watch'[c]) = Len(watch[c]) + 1
           /\ \A i \in 1..Len(watch[c]) : watch'[c][i] = watch[c][i]
           /\ watch'[c][Len(watch[c]) + 1] = server'[c]
  <2>1. ASSUME NEW v \in Copies(c), After(v, server[c])
        PROVE  After(v, server'[c])
    <3>1. v # Absent => v.uid \in Nat /\ v.uid <= spent.uid
      BY CopyTypes DEF UidsAreSpent
    <3>2. QED
      BY <1>6, <2>1, <3>1, StaysAfter
  <2>2. After(cache[c], server'[c])
    BY <1>2, <2>1 DEF Copies
  <2>3. \A i \in 1..Len(watch[c]) : After(watch[c][i], server'[c])
    BY <1>2, <2>1 DEF Copies
  <2>4. After(cache[c], server[c])'
    BY <1>6, <2>2 DEF After
  <2>5. After(server'[c], server'[c])
    BY DEF After
  <2>6. ASSUME NEW i \in 1..Len(watch'[c])
        PROVE  /\ After(cache'[c], watch'[c][i])
               /\ After(watch'[c][i], server'[c])
               /\ \A j \in 1..Len(watch'[c]) :
                     i < j => After(watch'[c][i], watch'[c][j])
    <3>1. CASE i \in 1..Len(watch[c])
      <4>1. /\ After(cache'[c], watch'[c][i]) /\ After(watch'[c][i], server'[c])
        BY <1>2, <1>6, <2>3, <3>1
      <4>2. ASSUME NEW j \in 1..Len(watch'[c]), i < j
            PROVE  After(watch'[c][i], watch'[c][j])
        <5>1. CASE j \in 1..Len(watch[c])
          BY <1>2, <1>6, <3>1, <4>2, <5>1
        <5>2. CASE j = Len(watch[c]) + 1
          BY <1>6, <4>1, <5>2
        <5>3. QED
          BY <1>1, <1>6, <5>1, <5>2
      <4>3. QED
        BY <4>1, <4>2
    <3>2. CASE i = Len(watch[c]) + 1
      BY <1>1, <1>6, <2>2, <2>5, <3>2
    <3>3. QED
      BY <1>1, <1>6, <3>1, <3>2
  <2>7. QED
    BY <2>4, <2>6
<1>7. QED
  BY <1>1, <1>3, <1>4, <1>5, <1>6, WatchEffect

LEMMA UidsStep ==
    ASSUME TypeOK, UidsAreSpent, Paced, \A c \in CRs : Effect(c)
    PROVE  UidsAreSpent'
<1>1. spent.uid \in Nat /\ spent'.uid \in Nat /\ spent'.uid >= spent.uid
  BY DEF Paced
<1>2. ASSUME NEW c \in CRs, NEW v \in Copies(c), v # Absent
      PROVE  v.uid \in Nat /\ v.uid <= spent.uid
  BY <1>2, CopyTypes DEF UidsAreSpent
<1>3. ASSUME NEW c \in CRs, server'[c] # Absent
      PROVE  server'[c].uid <= spent'.uid
  <2>1. server'[c] = server[c] \/ Changed(c)
    BY CopiesEffect DEF TypeOK
  <2>2. server[c] # Absent => server[c].uid \in Nat /\ server[c].uid <= spent.uid
    BY <1>2 DEF Copies
  <2>3. QED
    BY <1>1, <1>3, <2>1, <2>2
    DEF Changed, Created, Kept, Dropped, Released
<1>4. ASSUME NEW c \in CRs, NEW v \in Copies(c)', v # Absent
      PROVE  v.uid <= spent'.uid
  <2>1. v \in Copies(c) \/ v = server'[c]
    BY <1>4, CopiesEffect DEF TypeOK
  <2>2. QED
    BY <1>1, <1>2, <1>3, <1>4, <2>1
<1>5. ASSUME pass'.pc # "idle" PROVE pass'.snap.uid <= spent'.uid
  <2>1. CASE Begun
    BY <1>1, <1>2, <2>1 DEF Begun, Copies
  <2>2. CASE Continued
    <3>1. pass.snap.uid \in Nat
      BY <2>2, PassType DEF Continued, TypeOK, Resources
    <3>2. QED
      BY <1>1, <2>2, <3>1 DEF Continued, UidsAreSpent
  <2>3. QED
    BY <1>5, <2>1, <2>2 DEF Paced
<1>6. QED
  BY <1>4, <1>5 DEF UidsAreSpent

\* The finalizer of a resource that something still acts on stays.
LEMMA GuardStep ==
    ASSUME NEW c \in CRs, server'[c] = server[c] \/ Changed(c),
           NEW uid, GuardedAs(c, uid),
           \E v \in Copies(c) : v # Absent /\ v.uid = uid /\ ~v.del
    PROVE  GuardedAs(c, uid)'
<1>1. CASE server'[c] = server[c] \/ Created(c) \/ Kept(c) \/ Dropped(c)
  BY <1>1 DEF GuardedAs, Guarded, Created, Kept, Dropped
<1>2. CASE Released(c)
  BY <1>2 DEF Released, After, GuardedAs, Guarded
<1>3. QED
  BY <1>1, <1>2 DEF Changed

LEMMA CopiesStep ==
    ASSUME TypeOK, CopiesAreGuarded, PassHasRead, Paced, \A c \in CRs : Effect(c)
    PROVE  CopiesAreGuarded'
<1>1. ASSUME NEW c \in CRs
      PROVE  /\ \A v \in Copies(c)' : v \in Copies(c) \/ v = server'[c]
             /\ server'[c] = server[c] \/ Changed(c)
  BY CopiesEffect DEF TypeOK
<1>2. ASSUME NEW c \in CRs, NEW v \in Copies(c)', v # Absent, v.fin, ~v.del
      PROVE  GuardedAs(c, v.uid)'
  <2>1. CASE v = server'[c]
    BY <1>2, <2>1 DEF GuardedAs, Guarded
  <2>2. CASE v \in Copies(c)
    <3>1. GuardedAs(c, v.uid)
      BY <1>2, <2>2 DEF CopiesAreGuarded
    <3>2. QED
      BY <1>1, <1>2, <2>2, <3>1, GuardStep
  <2>3. QED
    BY <1>1, <1>2, <2>1, <2>2
<1>3. ASSUME pass'.pc = "apply"
      PROVE  GuardedAs(pass.cr, pass.snap.uid)'
  <2>1. CASE Begun
    <3>1. cache[pass'.cr] \in Copies(pass'.cr)
      BY DEF Copies
    <3>2. GuardedAs(pass'.cr, pass'.snap.uid)
      BY <1>3, <2>1, <3>1 DEF Begun, CopiesAreGuarded
    <3>3. QED
      BY <2>1, <3>2 DEF Begun, apiVars, GuardedAs, Guarded
  <2>2. CASE Continued
    <3>1. /\ pass.pc = "apply" /\ pass.cr \in CRs /\ ~pass.snap.del
          /\ pass'.cr = pass.cr /\ pass'.snap = pass.snap
          /\ pass.snap \in Resources /\ pass.snap # Absent
      BY <1>3, <2>2, PassType, SentinelAssumption DEF Continued, TypeOK, PassHasRead
    <3>2. GuardedAs(pass.cr, pass.snap.uid)
      BY <3>1 DEF CopiesAreGuarded
    <3>3. server'[pass.cr] = server[pass.cr] \/ Changed(pass.cr)
      BY <1>1, <3>1
    <3>4. \A d \in CRs : d = pass.cr => GuardedAs(d, pass.snap.uid)'
      BY <3>1, <3>2, <3>3
      DEF GuardedAs, Guarded, Changed, Created, Kept, Dropped, Released, After
    <3>5. QED
      BY <3>1, <3>4 DEF GuardedAs, Guarded
  <2>3. QED
    BY <1>3, <2>1, <2>2 DEF Paced
<1>4. QED
  BY <1>2, <1>3 DEF CopiesAreGuarded

\* What a pass has read stays true of it.
LEMMA HasReadStep ==
    ASSUME TypeOK, DeletionIsFinal, UidsAreSpent, PassHasRead, Paced,
           \A c \in CRs : Effect(c)
    PROVE  PassHasRead'
<1>1. ASSUME pass'.pc = "apply"
      PROVE  ~pass'.snap.del
  BY <1>1 DEF Paced, Begun, Continued, PassHasRead
<1>2. ASSUME pass'.pc \in {"cleanup", "release"}, Begun
      PROVE  pass'.snap.del /\ \A v \in Copies(pass.cr)' : After(pass'.snap, v)
  <2>1. UNCHANGED apiVars /\ pass'.cr \in CRs
        /\ pass'.snap = cache[pass'.cr] /\ pass'.snap.del
    BY <1>2 DEF Begun
  <2>2. ASSUME NEW c \in CRs, NEW v \in Copies(c)
        PROVE  After(cache[c], v)
    BY <2>2 DEF DeletionIsFinal, Copies, After
  <2>3. QED
    BY <2>1, <2>2 DEF Copies, apiVars
<1>3. ASSUME pass'.pc \in {"cleanup", "release"}, Continued
      PROVE  pass'.snap.del /\ \A v \in Copies(pass.cr)' : After(pass'.snap, v)
  <2>1. /\ pass.pc \in {"cleanup", "release"} /\ pass.cr \in CRs
        /\ pass'.cr = pass.cr /\ pass'.snap = pass.snap
        /\ pass.snap.uid \in Nat
    BY <1>3, PassType DEF Continued, TypeOK, Resources
  <2>2. pass.snap.del /\ \A v \in Copies(pass.cr) : After(pass.snap, v)
    BY <2>1 DEF PassHasRead
  <2>3. After(pass.snap, server'[pass.cr])
    <3>1. spent.uid \in Nat /\ pass.snap.uid <= spent.uid
      BY <2>1 DEF Paced, UidsAreSpent
    <3>2. server'[pass.cr] = server[pass.cr] \/ Changed(pass.cr)
      BY <2>1, CopiesEffect DEF TypeOK
    <3>3. After(pass.snap, server[pass.cr])
      BY <2>2 DEF Copies
    <3>4. QED
      BY <2>1, <3>1, <3>2, <3>3, StaysAfter
  <2>4. \A d \in CRs : \A w \in Copies(d)' : w \in Copies(d) \/ w = server'[d]
    BY CopiesEffect DEF TypeOK
  <2>5. ASSUME NEW v \in Copies(pass.cr)'
        PROVE  After(pass'.snap, v)
    <3>1. v \in Copies(pass.cr) \/ v = server'[pass.cr]
      BY <2>1, <2>4, <2>5 DEF Copies
    <3>2. QED
      BY <2>1, <2>2, <2>3, <3>1
  <2>6. QED
    BY <2>1, <2>2, <2>5
<1>4. QED
  BY <1>1, <1>2, <1>3 DEF Paced, PassHasRead

LEMMA CopiesInvStep ==
    ASSUME TypeOK, CopiesInv, Paced, \A c \in CRs : Effect(c)
    PROVE  CopiesInv'
<1>1. DeletionIsFinal'
  BY DeletionStep DEF Paced, CopiesInv, DeletionIsFinal, After
<1>2. QED
  BY <1>1, UidsStep, CopiesStep, HasReadStep DEF CopiesInv

\* What a cleanup has deleted stays gone, if nobody creates it meanwhile.
LEMMA CleanupStep ==
    ASSUME TypeOK, CleanupIsFinal, Paced,
           pass.pc \in {"cleanup", "release"} =>
              \A step \in ClusterSteps, c \in CRs, spec \in Specs :
                 server[Key(step, c, spec)] = Absent =>
                    server'[Key(step, c, spec)] = Absent
    PROVE  CleanupIsFinal'
<1>1. SUFFICES ASSUME pass'.pc \in {"cleanup", "release"}
               PROVE  \A i \in 1..2 :
                            pass'.pc = "release" \/ i < pass'.i =>
                              server'[Key(CleanupOrder[i], pass'.cr,
                                          pass'.snap.spec)] = Absent
  BY CleanupSteps DEF CleanupIsFinal
<1>2. CASE Begun
  BY <1>1, <1>2 DEF Begun
<1>3. CASE Continued
  <2>1. /\ pass.pc \in {"cleanup", "release"} /\ pass.cr \in CRs
        /\ pass'.cr = pass.cr /\ pass'.snap = pass.snap
        /\ pass.snap \in Resources /\ pass.snap.spec \in Specs
    BY <1>1, <1>3, PassType DEF Continued, TypeOK, Resources
  <2>2. \A i \in 1..2 :
            pass.pc = "release" \/ i < pass.i =>
                server[Key(CleanupOrder[i], pass.cr, pass.snap.spec)] = Absent
    BY <2>1, CleanupSteps DEF CleanupIsFinal
  <2>3. ASSUME NEW i \in 1..2,
               server[Key(CleanupOrder[i], pass.cr, pass.snap.spec)] = Absent
        PROVE  server'[Key(CleanupOrder[i], pass.cr, pass.snap.spec)] = Absent
    BY <2>1, <2>3, CleanupSteps
  <2>4. CASE pass' = pass
    BY <2>2, <2>3, <2>4
  <2>5. CASE /\ pass.pc = "cleanup" /\ server'[CleanupKey] = Absent
             /\ IF pass.i = 2 THEN pass'.pc = "release"
                ELSE pass'.pc = "cleanup" /\ pass'.i = pass.i + 1
    <3>1. pass.i \in 1..2
      BY <2>5, WriteKeys DEF TypeOK
    <3>2. server'[Key(CleanupOrder[pass.i], pass.cr, pass.snap.spec)] = Absent
      BY <2>5 DEF CleanupKey
    <3>3. ASSUME NEW i \in 1..2, pass'.pc = "release" \/ i < pass'.i
          PROVE  i < pass.i \/ i = pass.i
      BY <2>5, <3>1, <3>3
    <3>4. QED
      BY <2>1, <2>2, <2>3, <3>2, <3>3
  <2>6. QED
    BY <1>1, <1>3, <2>4, <2>5 DEF Continued
<1>4. QED
  BY <1>1, <1>2, <1>3 DEF Paced

\* Only a pass in its steps creates, and there is one pass at a time.
LEMMA OwnCleanupStep ==
    ASSUME TypeOK, CleanupIsFinal, [Next]_vars
    PROVE  CleanupIsFinal'
BY StepIsPaced, StepCreates, CleanupStep, KeyType DEF Creates

LEMMA ProtectionStep ==
    ASSUME TypeOK, ProtectionInv, [Next]_vars
    PROVE  ProtectionInv'
<1>1. \A c \in CRs : Effect(c)
  BY StepEffect DEF ProtectionInv, CopiesInv
<1>2. QED
  BY <1>1, StepIsPaced, CopiesInvStep, OwnCleanupStep DEF ProtectionInv

\* The invariant behind the finalizer: deletions are never taken back in any
\* later copy of a resource, whatever a pass may act on is still guarded, and
\* what a cleanup has deleted stays deleted.
THEOREM ProtectionHolds == Spec => []ProtectionInv
<1>1. Init => ProtectionInv
  BY IdTypes
  DEF Init, ReconcilerInit, Idle, Bounds, ProtectionInv, CopiesInv, DeletionIsFinal,
      UidsAreSpent, CopiesAreGuarded, PassHasRead, CleanupIsFinal, Copies, After
<1>2. TypeOK /\ ProtectionInv /\ [Next]_vars => ProtectionInv'
  BY ProtectionStep
<1>3. QED
  BY <1>1, <1>2, TypeCorrect, PTL DEF Spec

-----------------------------------------------------------------------------
(* What the invariant is for.                                              *)

\* A resource loses its finalizer only to the Update that ends a cleanup.
LEMMA GuardLoss ==
    ASSUME TypeOK, PassHasRead, CleanupIsFinal, [Next]_vars, NEW c \in CRs,
           Guarded(c), ~Guarded(c)'
    PROVE  /\ pass.pc = "release" /\ pass.cr = c /\ server[c] = pass.snap
           /\ server[c].spec \in Specs
           /\ \A step \in ClusterSteps :
                 /\ server[Key(step, c, server[c].spec)] = Absent
                 /\ server'[Key(step, c, server[c].spec)] = Absent
<1>1. Loses(c)
  BY DEF Loses
<1>2. EndsCleanup(c)
  BY <1>1, StepEffect
<1>3. /\ pass.pc = "release" /\ pass.cr = c /\ server[c] = pass.snap
      /\ pass.snap.spec \in Specs
  BY <1>2, PassType DEF EndsCleanup, TypeOK
<1>4. \A i \in 1..2 : server[Key(CleanupOrder[i], c, server[c].spec)] = Absent
  BY <1>3, CleanupSteps DEF CleanupIsFinal
<1>5. \A step \in ClusterSteps : server[Key(step, c, server[c].spec)] = Absent
  BY <1>4, CleanupSteps DEF ClusterSteps
<1>6. ASSUME NEW step \in ClusterSteps
      PROVE  server'[Key(step, c, server[c].spec)] = Absent
  <2>1. Key(step, c, server[c].spec) \in Keys
    BY <1>3, KeyType
  <2>2. QED
    BY <1>3, <1>5, <2>1, StepCreates DEF Creates
<1>7. QED
  BY <1>3, <1>5, <1>6

\* The finalizer does its work: when a resource loses it, the cluster-scoped
\* objects that its stored spec names are gone, whatever the users renamed,
\* whatever the cache missed and whatever failed in between.
THEOREM CleanupBeforeRelease == Spec => CleanedBeforeRelease
<1>1. TypeOK /\ ProtectionInv /\ [Next]_vars =>
        [\A c \in CRs : Guarded(c) /\ ~Guarded(c)' =>
            \A step \in ClusterSteps :
                server'[Key(step, c, server[c].spec)] = Absent]_vars
  BY GuardLoss DEF ProtectionInv, CopiesInv
<1>2. QED
  BY <1>1, TypeCorrect, ProtectionHolds, PTL DEF Spec, CleanedBeforeRelease

\* The kind of a cluster-scoped object tells which step it belongs to.
LEMMA ClusterKinds ==
    ASSUME NEW step \in ClusterSteps, PassOK, pass.pc = "apply",
           KindOf(Step) = KindOf(step)
    PROVE  Step = step
<1>1. Step \in { ReconcileOrder[i] : i \in 1..Len(ReconcileOrder) }
  <2>1. Len(Plan) \in Nat
    BY PlanAssumption
  <2>2. pass.i \in 1..Len(Plan)
    BY <2>1, PassType DEF PassOK, Passes
  <2> DEFINE all == { ReconcileOrder[i] : i \in 1..Len(ReconcileOrder) }
  <2>3. Plan \in Seq(all)
    BY PlanAssumption
  <2> HIDE DEF all
  <2>4. Plan[pass.i] \in all
    BY <2>2, <2>3
  <2>5. QED
    BY <2>4 DEF Step, all
<1>2. { ReconcileOrder[i] : i \in 1..Len(ReconcileOrder) } \subseteq
        { "hubConfigMap", "hubServiceAccount", "hubDeployment", "hubService",
          "workerServiceAccount", "clusterRole", "clusterRoleBinding",
          "workerDaemonSet", "frontendDeployment", "frontendService",
          "frontendIngress", "secret" }
  BY DEF ReconcileOrder
<1>3. Step \notin ClusterSteps =>
        KindOf(Step) \notin {"ClusterRole", "ClusterRoleBinding"}
  <2>1. CASE Step \in {"hubConfigMap", "hubServiceAccount", "workerServiceAccount"}
    BY <2>1, KindTable
  <2>2. CASE Step \in {"hubDeployment", "frontendDeployment", "hubService",
                       "frontendService"}
    BY <2>2, KindTable
  <2>3. CASE Step \in {"workerDaemonSet", "frontendIngress", "secret"}
    BY <2>3, KindTable
  <2>4. QED
    BY <1>1, <1>2, <2>1, <2>2, <2>3 DEF ClusterSteps
<1>4. Step \in ClusterSteps
  BY <1>3, KindTable DEF ClusterSteps
<1>5. QED
  BY <1>4, KindTable DEF ClusterSteps

\* Whoever grants is guarded.
LEMMA GrantIsNamed ==
    ASSUME TypeOK, CopiesAreGuarded, [Next]_vars,
           NEW step \in ClusterSteps, NEW c \in CRs, NEW spec \in Specs,
           server[Key(step, c, spec)] = Absent, server'[Key(step, c, spec)] # Absent
    PROVE  /\ pass.pc = "apply" /\ pass.cr \in CRs /\ pass.snap.spec \in Specs
           /\ GuardedAs(pass.cr, pass.snap.uid)
           /\ \A d \in CRs : server'[d] = server[d]
           /\ Key(step, pass.cr, pass.snap.spec) = Key(step, c, spec)
<1>1. Creates(Key(step, c, spec))
  BY KeyType, StepCreates
<1>2. /\ pass.pc = "apply" /\ pass.cr \in CRs /\ pass.snap.spec \in Specs
      /\ GuardedAs(pass.cr, pass.snap.uid) /\ \A d \in CRs : server'[d] = server[d]
  BY <1>1, PassType DEF Creates, TypeOK, CopiesAreGuarded
<1>3. Key(step, c, spec) = Key(Step, pass.cr, pass.snap.spec)
  BY <1>1 DEF Creates, StepKey
<1>4. KindOf(Step) = KindOf(step)
  BY <1>3 DEF Key
<1>5. Step = step
  BY <1>2, <1>4, ClusterKinds DEF TypeOK
<1>6. QED
  BY <1>2, <1>3, <1>5
=============================================================================
