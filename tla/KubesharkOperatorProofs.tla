----------------------- MODULE KubesharkOperatorProofs -----------------------
(***************************************************************************)
(* Proofs about KubesharkOperator, for every value of its constants that   *)
(* the named assumptions allow.                                            *)
(***************************************************************************)
EXTENDS KubesharkOperator, SequenceTheorems, TLAPS

-----------------------------------------------------------------------------
(* Types of what the operators of the model return.                        *)

LEMMA PlanSteps ==
    ASSUME NEW i \in Nat \ {0}, i <= Len(Plan)
    PROVE  Plan[i] \in Steps
BY PlanAssumption DEF Steps

LEMMA CleanupSteps ==
    /\ Len(CleanupOrder) = 2
    /\ \A i \in 1..2 : CleanupOrder[i] \in ClusterSteps
    /\ CleanupOrder[1] = "clusterRole"
    /\ CleanupOrder[2] = "clusterRoleBinding"
BY DEF CleanupOrder, ClusterSteps

LEMMA KindTable ==
    /\ KindOf("hubConfigMap") = "ConfigMap"
    /\ KindOf("hubServiceAccount") = "ServiceAccount"
    /\ KindOf("hubDeployment") = "Deployment"
    /\ KindOf("hubService") = "Service"
    /\ KindOf("workerServiceAccount") = "ServiceAccount"
    /\ KindOf("clusterRole") = "ClusterRole"
    /\ KindOf("clusterRoleBinding") = "ClusterRoleBinding"
    /\ KindOf("workerDaemonSet") = "DaemonSet"
    /\ KindOf("frontendDeployment") = "Deployment"
    /\ KindOf("frontendService") = "Service"
    /\ KindOf("frontendIngress") = "Ingress"
    /\ KindOf("secret") = "Secret"
BY DEF KindOf, HubKinds, RBACKinds, WorkerKinds, FrontendKinds, SecretKinds

LEMMA KeyType ==
    ASSUME NEW step \in Steps \cup ClusterSteps, NEW c \in CRs, NEW spec \in Specs
    PROVE  /\ Key(step, c, spec) \in Keys
           /\ Key(step, c, spec) \in Ids
           /\ Key(step, c, spec) \notin CRs
BY IdsAssumption DEF Keys, Ids

\* The API server fills in one field and leaves the others alone.
LEMMA CompletedType ==
    ASSUME NEW step, NEW obj \in Objects
    PROVE  Completed(step, obj) \in ObjectsOf(KindOf(step))
<1>1. ASSUME NEW b \in BOOLEAN
      PROVE  LET new == [obj EXCEPT !.defaulted = b]
             IN  new \in Objects /\ new.defaulted = b
  BY DEF Objects
<1>2. (KindOf(step) \in DefaultedKinds) \in BOOLEAN
  OBVIOUS
<1>3. QED
  BY <1>1, <1>2, Zenon DEF Completed, ObjectsOf

LEMMA MutatedType ==
    ASSUME NEW step \in Steps, NEW c \in CRs, NEW uid \in Nat,
           NEW spec \in Specs, NEW class \in Classes
    PROVE  Completed(step, Mutated(step, c, uid, spec, class)) \in ObjectsOf(KindOf(step))
<1>1. OwnerOf(step, c, uid) \in [cr : CRs, uid : Nat] \cup {Nobody}
  BY DEF OwnerOf
<1>2. DataOf(step, c, spec) \in Contents
  BY DEF Contents
<1>3. RoleRefOf(step, c, spec) \in RoleRefs
  BY DEF RoleRefs
<1>4. (IF step = "frontendIngress" /\ spec.ingressClassName # Unset
       THEN spec.ingressClassName ELSE class) \in Classes
  BY DEF Classes
<1> HIDE DEF Classes
<1>5. Mutated(step, c, uid, spec, class) \in Objects
  BY <1>1, <1>2, <1>3, <1>4 DEF Mutated, Objects
<1>6. QED
  BY <1>5, CompletedType

LEMMA RewrittenType ==
    ASSUME NEW snap \in Resources, NEW fin \in BOOLEAN
    PROVE  /\ Rewritten(snap, fin) \in Resources
           /\ Rewritten(snap, fin).fin = fin
           /\ Rewritten(snap, fin).uid = snap.uid
           /\ Rewritten(snap, fin).del = snap.del
<1> DEFINE spec == Written(snap.spec)
           gen  == IF spec = snap.spec THEN snap.gen ELSE snap.gen + 1
<1>1. spec \in Specs
  BY SpecsAssumption DEF Resources
<1>2. gen \in Nat
  <2>1. snap.gen \in Nat
    BY DEF Resources
  <2> HIDE DEF spec
  <2>2. QED
    BY <2>1
<1>3. Rewritten(snap, fin) =
        [snap EXCEPT !.fin = fin, !.spec = spec, !.gen = gen]
  BY DEF Rewritten
<1> HIDE DEF spec, gen
<1>4. QED
  BY <1>1, <1>2, <1>3 DEF Resources

LEMMA ResourceUpdates ==
    ASSUME NEW r \in Resources, NEW gen \in Nat, NEW spec \in Specs,
           NEW held \in BOOLEAN
    PROVE  /\ [r EXCEPT !.spec = spec, !.gen = gen] \in Resources
           /\ [r EXCEPT !.del = TRUE, !.held = held, !.gen = gen] \in Resources
           /\ [r EXCEPT !.held = held] \in Resources
           /\ r.gen + 1 \in Nat
<1>1. [r EXCEPT !.spec = spec, !.gen = gen] \in Resources
  BY DEF Resources
<1>2. [r EXCEPT !.del = TRUE, !.held = held, !.gen = gen] \in Resources
  BY DEF Resources
<1>3. [r EXCEPT !.held = held] \in Resources
  BY DEF Resources
<1>4. r.gen + 1 \in Nat
  BY DEF Resources
<1>5. QED
  BY <1>1, <1>2, <1>3, <1>4

LEMMA StatusPatchedType ==
    ASSUME NEW now \in Resources, NEW snap \in Resources,
           NEW status \in {"Unknown", "True", "False"},
           NEW reason \in Reasons, NEW message \in Messages
    PROVE  /\ StatusPatched(now, snap, status, reason, message) \in Resources
           /\ StatusPatched(now, snap, status, reason, message).fin = now.fin
           /\ StatusPatched(now, snap, status, reason, message).uid = now.uid
           /\ StatusPatched(now, snap, status, reason, message).del = now.del
<1> DEFINE cond == [status |-> status, reason |-> reason, message |-> message,
                    gen |-> snap.gen]
<1>1. cond \in Conditions
  BY DEF Conditions, Resources
<1> HIDE DEF cond
<1>2. StatusPatched(now, snap, status, reason, message) =
        [now EXCEPT !.cond = IF cond = snap.cond THEN @ ELSE cond,
                    !.obs  = IF snap.gen = snap.obs THEN @ ELSE snap.gen]
  BY DEF StatusPatched, cond
<1>3. QED
  BY <1>1, <1>2 DEF Resources

LEMMA StatusPatchedKeeps ==
    ASSUME NEW now \in Resources, NEW snap, NEW status, NEW reason, NEW message
    PROVE  LET new == StatusPatched(now, snap, status, reason, message)
           IN  /\ new.fin = now.fin /\ new.uid = now.uid /\ new.del = now.del
               /\ new.gen = now.gen /\ new.spec = now.spec
BY DEF StatusPatched, Resources

LEMMA OwnersOfType ==
    ASSUME NEW objs \in SUBSET (Objects \cup {Absent})
    PROVE  OwnersOf(objs) \subseteq CRs
<1>1. \A obj \in objs \ {Absent} : obj.owner # Nobody => obj.owner.cr \in CRs
  BY DEF Objects
<1>2. QED
  BY <1>1 DEF OwnersOf

-----------------------------------------------------------------------------
(* The store: what Put, Receive and Relist do to it.                       *)

LEMMA IdTypes ==
    /\ \A c \in CRs : c \in Ids /\ Versions(c) = Resources \cup {Absent}
    /\ \A key \in Keys : /\ key \in Ids /\ key \notin CRs
                         /\ Versions(key) = ObjectsOf(key.kind) \cup {Absent}
                         /\ Versions(key) \subseteq Objects \cup {Absent}
                         /\ Absent \notin ObjectsOf(key.kind)
BY IdsAssumption, SentinelAssumption DEF Ids, Versions, ObjectsOf

LEMMA PutType ==
    ASSUME StoreOK, NEW id \in Ids, NEW obj \in Versions(id), Put(id, obj)
    PROVE  StoreOK'
<1>1. /\ server' = [server EXCEPT ![id] = obj]
      /\ watch' = [watch EXCEPT ![id] = Append(@, obj)]
      /\ cache' = cache
  BY DEF Put
<1>2. DOMAIN server' = Ids /\ DOMAIN cache' = Ids /\ DOMAIN watch' = Ids
  BY <1>1 DEF StoreOK
<1>3. ASSUME NEW x \in Ids
      PROVE  /\ server'[x] \in Versions(x)
             /\ cache'[x] \in Versions(x)
             /\ watch'[x] \in Seq(Versions(x))
  <2>1. CASE x = id
    <3>1. Append(watch[id], obj) \in Seq(Versions(id))
      BY AppendProperties DEF StoreOK
    <3>2. QED
      BY <1>1, <2>1, <3>1 DEF StoreOK
  <2>2. CASE x # id
    BY <1>1, <2>2 DEF StoreOK
  <2>3. QED
    BY <2>1, <2>2
<1>4. (\A x \in Ids : Versions(x)' = Versions(x))
  BY DEF Versions
<1>5. QED
  BY <1>2, <1>3 DEF StoreOK, Versions

LEMMA PutIfChangedType ==
    ASSUME StoreOK, NEW id \in Ids, NEW obj \in Versions(id), PutIfChanged(id, obj)
    PROVE  StoreOK'
<1>1. CASE Put(id, obj)
  BY <1>1, PutType
<1>2. CASE UNCHANGED apiVars
  BY <1>2 DEF StoreOK, apiVars, Versions
<1>3. QED
  BY <1>1, <1>2 DEF PutIfChanged

LEMMA ReceiveType ==
    ASSUME StoreOK, NEW id \in Ids, Receive(id)
    PROVE  /\ StoreOK'
           /\ Head(watch[id]) \in Versions(id)
<1>1. /\ watch[id] # << >>
      /\ cache' = [cache EXCEPT ![id] = Head(watch[id])]
      /\ watch' = [watch EXCEPT ![id] = Tail(@)]
      /\ server' = server
  BY DEF Receive
<1>2. watch[id] \in Seq(Versions(id))
  BY DEF StoreOK
<1>3. Head(watch[id]) \in Versions(id) /\ Tail(watch[id]) \in Seq(Versions(id))
  BY <1>1, <1>2, HeadTailProperties
<1>4. QED
  BY <1>1, <1>3 DEF StoreOK, Versions

LEMMA RelistType ==
    ASSUME StoreOK, Relist
    PROVE  StoreOK'
<1>1. \A id \in Ids : << >> \in Seq(Versions(id))
  OBVIOUS
<1>2. QED
  BY <1>1 DEF StoreOK, Relist, Versions

-----------------------------------------------------------------------------
(* Type correctness.                                                       *)

LEMMA PassType ==
    ASSUME PassOK, pass.pc # "idle"
    PROVE  /\ pass \in Passes
           /\ pass.cr \in CRs /\ pass.cr \in Ids
           /\ pass.snap \in Resources /\ pass.snap.spec \in Specs
BY IdTypes DEF PassOK, Passes, Idle, Resources

LEMMA RetryType ==
    ASSUME PassOK, queue \subseteq CRs, pass.pc # "idle", Retry
    PROVE  PassOK' /\ (queue \subseteq CRs)'
BY PassType DEF PassOK, Retry, Idle

LEMMA DoneType ==
    ASSUME queue \subseteq CRs, Done
    PROVE  PassOK' /\ (queue \subseteq CRs)'
BY DEF PassOK, Done, Idle

LEMMA FailType ==
    ASSUME PassOK, queue \subseteq CRs, pass.pc # "idle",
           NEW reason \in Reasons, NEW message \in Messages, Fail(reason, message)
    PROVE  PassOK' /\ (queue \subseteq CRs)'
BY PassType DEF PassOK, Fail, Passes

LEMMA StatusPatchType ==
    ASSUME StoreOK, PassOK, pass.pc # "idle", server[pass.cr] # Absent,
           NEW status \in {"Unknown", "True", "False"},
           NEW reason \in Reasons, NEW message \in Messages,
           PatchStatus(status, reason, message)
    PROVE  StoreOK'
<1>1. server[pass.cr] \in Resources
  BY PassType, IdTypes DEF StoreOK
<1>2. StatusPatched(server[pass.cr], pass.snap, status, reason, message) \in Resources
  BY <1>1, PassType, StatusPatchedType
<1>3. QED
  BY <1>2, PassType, IdTypes, PutIfChangedType DEF PatchStatus

LEMMA FinalizerWriteType ==
    ASSUME StoreOK, PassOK, pass.pc # "idle", WriteFinalizer \/ RemoveFinalizer
    PROVE  StoreOK'
<1>1. pass.cr \in CRs /\ pass.cr \in Ids /\ pass.snap \in Resources
  BY PassType
<1>2. Versions(pass.cr) = Resources \cup {Absent}
  BY <1>1, IdTypes
<1>3. ASSUME NEW fin \in BOOLEAN PROVE Rewritten(pass.snap, fin) \in Versions(pass.cr)
  <2>1. Rewritten(pass.snap, fin) \in Resources
    BY <1>1, RewrittenType
  <2>2. QED
    BY <1>2, <2>1
<1>4. ASSUME NEW obj \in Versions(pass.cr), Put(pass.cr, obj) PROVE StoreOK'
  BY <1>1, <1>4, PutType
<1>5. CASE WriteFinalizer
  BY <1>3, <1>4, <1>5 DEF WriteFinalizer
<1>6. CASE RemoveFinalizer
  BY <1>2, <1>3, <1>4, <1>6 DEF RemoveFinalizer
<1>7. QED
  BY <1>5, <1>6

LEMMA WantType ==
    ASSUME StoreOK, PassOK, pass.pc = "apply"
    PROVE  /\ StepKey \in Keys /\ Step \in Steps
           /\ Want \in Objects /\ Want \in Versions(StepKey)
<1>1. pass.i \in Nat \ {0} /\ pass.i <= Len(Plan)
  BY PassType DEF PassOK, Passes
<1>2. Step \in Steps
  BY <1>1, PlanSteps DEF Step
<1>3. StepKey \in Keys
  BY <1>2, PassType, KeyType DEF StepKey
<1>4. Have \in Objects \cup {Absent}
  BY <1>3, IdTypes DEF Have, StoreOK
<1>5. (IF Have = Absent THEN Unset ELSE Have.class) \in Classes
  BY <1>4 DEF Objects, Classes
<1>6. pass.snap.uid \in Nat
  BY PassType DEF Resources
<1>7. Want \in ObjectsOf(KindOf(Step))
  BY <1>2, <1>5, <1>6, PassType, MutatedType DEF Want, Rendered
<1>8. StepKey.kind = KindOf(Step)
  BY DEF StepKey, Key
<1>9. QED
  BY <1>2, <1>3, <1>7, <1>8, IdTypes DEF ObjectsOf

\* CreateOrUpdate skips the write only if the store would not change.
LEMMA FoundAsWanted ==
    ASSUME StoreOK, PassOK, pass.pc = "apply", NothingToWrite
    PROVE  Have # Absent /\ Want = Have
<1>1. StepKey \in Keys /\ StepKey.kind = KindOf(Step)
  BY WantType DEF StepKey, Key
<1>2. Have # Absent /\ Have \in ObjectsOf(KindOf(Step))
  BY <1>1, IdTypes DEF Have, StoreOK, NothingToWrite
<1>3. Have \in Objects /\ Have.defaulted = FALSE
  BY <1>2 DEF NothingToWrite, Rendered, Mutated, ObjectsOf
<1>4. KindOf(Step) \notin DefaultedKinds
  BY <1>2, <1>3, Zenon DEF ObjectsOf
<1>5. (KindOf(Step) \in DefaultedKinds) = FALSE
  BY <1>4
<1>6. Want = [Have EXCEPT !.defaulted = FALSE]
  BY <1>5, Zenon DEF Want, Completed, NothingToWrite
<1>7. QED
  BY <1>2, <1>3, <1>6 DEF Objects

LEMMA WriteObjectType ==
    ASSUME StoreOK, PassOK, pass.pc = "apply", WriteObject
    PROVE  StoreOK'
BY WantType, IdTypes, PutIfChangedType DEF WriteObject

LEMMA DeleteObjectType ==
    ASSUME StoreOK, PassOK, pass.pc = "cleanup", DeleteObject
    PROVE  StoreOK'
<1>1. pass.i \in 1..2
  BY PassType, CleanupSteps DEF PassOK, Passes
<1>2. CleanupKey \in Keys
  BY <1>1, PassType, CleanupSteps, KeyType DEF CleanupKey
<1>3. QED
  BY <1>2, IdTypes, PutIfChangedType DEF DeleteObject

LEMMA PassMoves ==
    ASSUME NEW p \in Passes,
           NEW pc \in {"guard", "apply", "cleanup", "release", "ready", "fail"}
    PROVE  [p EXCEPT !.pc = pc] \in Passes /\ [p EXCEPT !.pc = pc].pc = pc
BY DEF Passes

LEMMA PassAdvances ==
    ASSUME NEW p \in Passes, NEW i \in Nat \ {0}
    PROVE  /\ [p EXCEPT !.i = i] \in Passes
           /\ [p EXCEPT !.i = i].pc = p.pc /\ [p EXCEPT !.i = i].i = i
BY DEF Passes

LEMMA PassIsOK ==
    ASSUME pass' \in Passes,
           pass'.pc = "apply" => pass'.i <= Len(Plan),
           pass'.pc = "cleanup" => pass'.i <= 2
    PROVE  PassOK'
<1>1. pass' \in Passes \cup {Idle}
  OBVIOUS
<1>2. Len(CleanupOrder) = 2
  BY CleanupSteps
<1> HIDE DEF Passes
<1>3. QED
  BY <1>1, <1>2 DEF PassOK

\* What one step of a pass, faulty or not, does to the types.
LEMMA PassStepType ==
    ASSUME TypeOK, PassStep \/ PassFault
    PROVE  StoreOK' /\ PassOK' /\ (queue \subseteq CRs)'
<1> USE DEF TypeOK
<1>0. ASSUME UNCHANGED apiVars PROVE StoreOK'
  BY <1>0 DEF StoreOK, apiVars, Versions
<1>1. {"ReconcileError", "DeleteFailed", "Reconciled"} \subseteq Reasons
      /\ {"all", "release"} \cup Steps \cup ClusterSteps \subseteq Messages
  BY DEF Reasons, Messages
<1>2. CASE Guard \/ GuardFault
  BY <1>0, <1>2, FinalizerWriteType, RetryType, DoneType DEF Guard, GuardFault
<1>3. CASE Apply \/ ApplyFault
  <2>1. pass.pc = "apply"
    BY <1>3 DEF Apply, ApplyFault
  <2>2. pass.i \in Nat \ {0} /\ pass.i <= Len(Plan) /\ pass \in Passes
    BY <2>1, PassType DEF PassOK, Passes
  <2>3. Step \in Messages
    BY <1>1, <2>2, PlanSteps DEF Step
  <2>4. ASSUME NextStep PROVE PassOK' /\ (queue \subseteq CRs)'
    <3>1. Len(Plan) \in Nat
      BY PlanAssumption
    <3>2. QED
      BY <2>1, <2>2, <2>4, <3>1 DEF NextStep, PassOK, Passes
  <2>5. ASSUME Fail("ReconcileError", Step) PROVE PassOK' /\ (queue \subseteq CRs)'
    BY <1>1, <2>1, <2>3, <2>5, FailType
  <2>6. ASSUME WriteObject PROVE StoreOK'
    BY <2>1, <2>6, WriteObjectType
  <2>7. StoreOK'
    BY <1>0, <1>3, <2>6 DEF Apply, ApplyFault
  <2>8. PassOK' /\ (queue \subseteq CRs)'
    BY <1>3, <2>4, <2>5 DEF Apply, ApplyFault
  <2>9. QED
    BY <2>7, <2>8
<1>4. CASE Cleanup \/ CleanupFault
  <2>1. pass.pc = "cleanup"
    BY <1>4 DEF Cleanup, CleanupFault
  <2>2. pass.i \in 1..2 /\ pass \in Passes
    BY <2>1, PassType, CleanupSteps DEF PassOK, Passes
  <2>3. CleanupOrder[pass.i] \in Messages
    BY <1>1, <2>2, CleanupSteps
  <2>4. StoreOK'
    BY <1>0, <1>4, <2>1, DeleteObjectType DEF Cleanup, CleanupFault
  <2>5. CASE Cleanup
    <3>1. /\ pass' = IF pass.i < Len(CleanupOrder)
                     THEN [pass EXCEPT !.i = pass.i + 1]
                     ELSE [pass EXCEPT !.pc = "release"]
          /\ queue' = queue
      BY <2>5 DEF Cleanup
    <3>2. ASSUME pass.i < 2 PROVE PassOK'
      <4>1. pass' = [pass EXCEPT !.i = pass.i + 1]
        BY <3>1, <3>2, CleanupSteps
      <4>2. pass.i + 1 \in Nat \ {0} /\ pass.i + 1 <= 2
        BY <2>2, <3>2
      <4>3. pass' \in Passes /\ pass'.pc = "cleanup" /\ pass'.i <= 2
        BY <2>1, <2>2, <4>1, <4>2, PassAdvances
      <4>4. QED
        BY <4>3, PassIsOK
    <3>3. ASSUME ~(pass.i < 2) PROVE PassOK'
      <4>1. pass' = [pass EXCEPT !.pc = "release"]
        BY <3>1, <3>3, CleanupSteps
      <4>2. pass' \in Passes /\ pass'.pc = "release"
        BY <2>2, <4>1, PassMoves
      <4>3. QED
        BY <4>2, PassIsOK
    <3>4. PassOK'
      BY <3>2, <3>3
    <3>5. QED
      BY <2>4, <3>1, <3>4
  <2>6. CASE CleanupFault
    BY <1>1, <2>1, <2>3, <2>4, <2>6, FailType DEF CleanupFault
  <2>7. QED
    BY <1>4, <2>5, <2>6
<1>5. CASE Release \/ ReleaseFault
  BY <1>0, <1>1, <1>5, FinalizerWriteType, FailType, DoneType DEF Release, ReleaseFault
<1>6. CASE Ready \/ ReadyFault
  BY <1>0, <1>1, <1>6, StatusPatchType, RetryType, DoneType DEF Ready, ReadyFault
<1>7. CASE Report \/ ReportFault
  <2>1. pass.pc = "fail"
    BY <1>7 DEF Report, ReportFault
  <2>2. pass.reason \in Reasons /\ pass.message \in Messages
    BY <2>1, PassType DEF Passes
  <2>3. StoreOK'
    BY <1>0, <1>7, <2>1, <2>2, StatusPatchType DEF Report, ReportFault
  <2>4. QED
    BY <1>7, <2>1, <2>3, RetryType DEF Report, ReportFault
<1>8. QED
  BY <1>2, <1>3, <1>4, <1>5, <1>6, <1>7 DEF PassStep, PassFault

LEMMA SpendType ==
    ASSUME spent \in [Bounds -> Nat], NEW bound \in Bounds, NEW max, Spend(bound, max)
    PROVE  /\ spent' \in [Bounds -> Nat]
           /\ spent'.uid >= spent.uid
           /\ bound = "uid" => spent'.uid = spent.uid + 1
<1>1. spent' = [spent EXCEPT ![bound] = spent[bound] + 1]
  BY DEF Spend
<1>2. "uid" \in Bounds
  BY DEF Bounds
<1>3. QED
  BY <1>1, <1>2

\* What the users, the others and the garbage collector put is well typed.
LEMMA EnvironmentType ==
    ASSUME TypeOK, Environment
    PROVE  TypeOK'
<1>1. Bounds = {"uid", "edits", "deletes", "drifts", "faults", "restarts"}
      /\ spent.uid \in Nat
  BY DEF TypeOK, Bounds
<1>2. ASSUME UNCHANGED reconcilerVars
      PROVE  PassOK' /\ (queue \subseteq CRs)'
  BY <1>2 DEF TypeOK, PassOK, reconcilerVars
<1>3. ASSUME NEW c \in CRs, NEW spec \in Manifests, CreateCR(c, spec)
      PROVE  TypeOK'
  <2>1. Admitted(spec) \in Specs
    BY ManifestsAssumption
  <2>2. NoCondition \in Conditions
    BY DEF NoCondition, Conditions, Reasons, Messages
  <2>3. [uid |-> spent.uid + 1, gen |-> 1, spec |-> Admitted(spec),
         fin |-> FALSE, held |-> FALSE, del |-> FALSE,
         cond |-> NoCondition, obs |-> 0] \in Resources
    BY <1>1, <2>1, <2>2 DEF Resources
  <2>4. StoreOK'
    BY <1>3, <2>3, IdTypes, PutType DEF CreateCR, TypeOK
  <2>5. QED
    BY <1>1, <1>2, <1>3, <2>4, SpendType DEF CreateCR, TypeOK
<1>4. ASSUME NEW c \in CRs, NEW spec \in Manifests, EditSpec(c, spec)
      PROVE  TypeOK'
  <2>1. Admitted(spec) \in Specs
    BY ManifestsAssumption
  <2>2. server[c] \in Resources
    BY <1>4, IdTypes DEF EditSpec, TypeOK, StoreOK
  <2>3. [server[c] EXCEPT !.spec = Admitted(spec), !.gen = server[c].gen + 1]
            \in Resources
    BY <2>1, <2>2, ResourceUpdates
  <2>4. StoreOK'
    BY <1>4, <2>3, IdTypes, PutType DEF EditSpec, TypeOK
  <2>5. QED
    BY <1>1, <1>2, <1>4, <2>4, SpendType DEF EditSpec, TypeOK
<1>5. ASSUME NEW c \in CRs, NEW foreground \in BOOLEAN, DeleteCR(c, foreground)
      PROVE  TypeOK'
  <2>1. server[c] \in Resources
    BY <1>5, IdTypes DEF DeleteCR, TypeOK, StoreOK
  <2>2. [server[c] EXCEPT !.del = TRUE, !.held = foreground,
                          !.gen = server[c].gen + 1] \in Resources
    <3>1. \E spec : spec \in Specs
      BY <2>1 DEF Resources
    <3>2. QED
      BY <2>1, <3>1, ResourceUpdates
  <2>3. StoreOK'
    BY <1>5, <2>2, IdTypes, PutType DEF DeleteCR, TypeOK
  <2>4. QED
    BY <1>1, <1>2, <1>5, <2>3, SpendType DEF DeleteCR, TypeOK
<1>6. ASSUME NEW c \in CRs, ReleaseHeld(c)
      PROVE  TypeOK'
  <2>1. server[c] \in Resources
    BY <1>6, IdTypes DEF ReleaseHeld, TypeOK, StoreOK
  <2>2. [server[c] EXCEPT !.held = FALSE] \in Resources
    BY <2>1 DEF Resources
  <2>3. StoreOK'
    BY <1>6, <2>2, IdTypes, PutType DEF ReleaseHeld, TypeOK
  <2>4. QED
    BY <1>2, <1>6, <2>3 DEF ReleaseHeld, Spare, TypeOK
<1>7. ASSUME NEW key \in Keys, Drift(key)
      PROVE  TypeOK'
  <2>1. server[key] \in ObjectsOf(key.kind)
    BY <1>7, IdTypes DEF Drift, TypeOK, StoreOK
  <2>2. [server[key] EXCEPT !.data = Foreign] \in ObjectsOf(key.kind)
    BY <2>1 DEF ObjectsOf, Objects, Contents
  <2>3. StoreOK'
    BY <1>7, <2>1, <2>2, IdTypes, PutType DEF Drift, TypeOK
  <2>4. QED
    BY <1>1, <1>2, <1>7, <2>3, SpendType DEF Drift, TypeOK
<1>8. ASSUME NEW key \in Keys, Collect(key)
      PROVE  TypeOK'
  <2>1. StoreOK'
    BY <1>8, IdTypes, PutType DEF Collect, TypeOK
  <2>2. QED
    BY <1>2, <1>8, <2>1 DEF Collect, Spare, TypeOK
<1>9. QED
  BY <1>3, <1>4, <1>5, <1>6, <1>7, <1>8 DEF Environment, UserStep

LEMMA ControllerType ==
    ASSUME TypeOK, Controller
    PROVE  TypeOK'
<1>1. Bounds = {"uid", "edits", "deletes", "drifts", "faults", "restarts"}
  BY DEF Bounds
<1>2. ASSUME NEW id \in Ids, ReceiveEvent(id), Spare
      PROVE  TypeOK'
  <2>1. StoreOK' /\ Head(watch[id]) \in Versions(id)
    BY <1>2, ReceiveType DEF ReceiveEvent, TypeOK
  <2>2. id \notin CRs => OwnersOf({cache[id], Head(watch[id])}) \subseteq CRs
    <3>1. ASSUME id \notin CRs
          PROVE  {cache[id], Head(watch[id])} \subseteq Objects \cup {Absent}
      BY <2>1, <3>1 DEF TypeOK, StoreOK, Versions, ObjectsOf
    <3>2. QED
      BY <3>1, OwnersOfType
  <2>3. (queue \subseteq CRs)'
    BY <1>2, <2>2 DEF ReceiveEvent, TypeOK
  <2>4. QED
    BY <1>2, <2>1, <2>3 DEF ReceiveEvent, Spare, TypeOK, PassOK
<1>3. ASSUME NEW c \in CRs, StartPass(c), Spare
      PROVE  TypeOK'
  <2>1. StoreOK'
    BY <1>3 DEF StartPass, apiVars, TypeOK, StoreOK, Versions
  <2>2. Dispatch(c) \in Passes \cup {Idle} /\ (Dispatch(c) # Idle => Dispatch(c).i = 1)
    <3>1. cache[c] \in Resources \cup {Absent}
      BY IdTypes DEF TypeOK, StoreOK
    <3>2. ASSUME NEW pc \in {"guard", "apply", "cleanup"}, cache[c] # Absent
          PROVE  Begin(c, pc) \in Passes /\ Begin(c, pc).i = 1
      BY <3>1, <3>2 DEF Begin, Passes, Reasons, Messages, UpToDate
    <3>3. QED
      BY <3>2 DEF Dispatch
  <2>3. PassOK'
    <3>1. Len(Plan) >= 1 /\ Len(CleanupOrder) >= 1
      BY PlanAssumption, CleanupSteps
    <3>2. QED
      BY <1>3, <2>2, <3>1 DEF StartPass, PassOK, Idle
  <2>4. QED
    BY <1>3, <2>1, <2>3 DEF StartPass, Spare, TypeOK
<1>4. CASE PassStep /\ Spare
  BY <1>4, PassStepType DEF Spare, TypeOK
<1>5. CASE PassFault /\ Spend("faults", MaxFaults)
  BY <1>1, <1>5, PassStepType, SpendType DEF TypeOK
<1>6. ASSUME NEW store, DOMAIN store = Ids,
             \A id \in Ids : store[id] \in Versions(id)
      PROVE  Listed(store) \subseteq CRs
  <2>1. { store[key] : key \in { k \in Keys : k.kind \in WatchedKinds } }
            \subseteq Objects \cup {Absent}
    BY <1>6, IdTypes
  <2>2. QED
    BY <2>1, OwnersOfType DEF Listed
<1>7. CASE Resync /\ Spare
  <2>1. StoreOK'
    BY <1>7 DEF Resync, apiVars, TypeOK, StoreOK, Versions
  <2>2. Listed(cache) \subseteq CRs
    BY <1>6 DEF TypeOK, StoreOK
  <2>3. QED
    BY <1>7, <2>1, <2>2 DEF Resync, Spare, TypeOK, PassOK
<1>8. CASE Restart /\ Spend("restarts", MaxRestarts)
  <2>1. StoreOK'
    BY <1>8, RelistType DEF Restart, TypeOK
  <2>2. Listed(server) \subseteq CRs
    BY <1>6 DEF TypeOK, StoreOK
  <2>3. PassOK'
    BY <1>8 DEF Restart, PassOK, Idle
  <2>4. QED
    BY <1>1, <1>8, <2>1, <2>2, <2>3, SpendType DEF Restart, TypeOK
<1>9. QED
  BY <1>2, <1>3, <1>4, <1>5, <1>7, <1>8 DEF Controller

LEMMA TypeStep ==
    ASSUME TypeOK, [Next]_vars
    PROVE  TypeOK'
<1>1. CASE UNCHANGED vars
  BY <1>1 DEF vars, TypeOK, StoreOK, PassOK, Versions
<1>2. QED
  BY <1>1, EnvironmentType, ControllerType DEF Next

LEMMA TypeInit == Init => TypeOK
<1>1. \A id \in Ids : Absent \in Versions(id) /\ << >> \in Seq(Versions(id))
  BY DEF Versions
<1>2. Init => StoreOK
  BY <1>1 DEF Init, StoreOK
<1>3. Init => PassOK /\ queue \subseteq CRs
  BY DEF Init, ReconcilerInit, PassOK, Idle
<1>4. Init => spent \in [Bounds -> Nat]
  BY DEF Init
<1>5. QED
  BY <1>2, <1>3, <1>4 DEF TypeOK

\* Type correctness: in every reachable state every variable holds what the
\* code can put there, and a pass is never beyond the end of its plan.
THEOREM TypeCorrect == Spec => []TypeOK
<1>1. TypeOK /\ [Next]_vars => TypeOK'
  BY TypeStep
<1>2. QED
  BY <1>1, TypeInit, PTL DEF Spec
=============================================================================
