------------------------------ MODULE StoreProofs ------------------------------
(***************************************************************************)
(* What a step may do to the store, the cache and a managed object, and    *)
(* what follows from that alone: the cache follows the store, no object is *)
(* taken over, no edit is lost.                                            *)
(***************************************************************************)
EXTENDS RBACProofs

-----------------------------------------------------------------------------
(* The steps of the system, as operations of the store.                    *)

PutStep == UNCHANGED apiVars \/ \E id \in Ids : \E obj : Put(id, obj)

StoreStep == PutStep \/ Relist \/ \E id \in Ids : Receive(id)

LEMMA PassPuts ==
    ASSUME TypeOK, PassStep \/ PassFault
    PROVE  PutStep
<1>1. ASSUME NEW id \in Ids, NEW obj, Put(id, obj) \/ PutIfChanged(id, obj)
      PROVE  PutStep
  BY <1>1 DEF PutIfChanged, PutStep
<1>2. CASE UNCHANGED apiVars
  BY <1>2 DEF PutStep
<1>3. CASE Guard \/ GuardFault \/ Release \/ ReleaseFault
  <2>1. pass.cr \in Ids
    BY <1>3, PassType DEF TypeOK, Guard, GuardFault, Release, ReleaseFault
  <2>2. QED
    BY <1>1, <1>2, <1>3, <2>1
    DEF Guard, GuardFault, Release, ReleaseFault, WriteFinalizer, RemoveFinalizer
<1>4. CASE Ready \/ ReadyFault \/ Report \/ ReportFault
  <2>1. pass.cr \in Ids
    BY <1>4, PassType DEF TypeOK, Ready, ReadyFault, Report, ReportFault
  <2>2. QED
    BY <1>1, <1>2, <1>4, <2>1
    DEF Ready, ReadyFault, Report, ReportFault, PatchStatus
<1>5. CASE Apply \/ ApplyFault
  <2>1. StepKey \in Ids
    BY <1>5, WriteKeys, IdTypes DEF TypeOK, Apply, ApplyFault
  <2>2. QED
    BY <1>1, <1>2, <1>5, <2>1 DEF Apply, ApplyFault, WriteObject
<1>6. CASE Cleanup \/ CleanupFault
  <2>1. CleanupKey \in Ids
    BY <1>6, WriteKeys, IdTypes DEF TypeOK, Cleanup, CleanupFault
  <2>2. QED
    BY <1>1, <1>2, <1>6, <2>1 DEF Cleanup, CleanupFault, DeleteObject
<1>7. QED
  BY <1>3, <1>4, <1>5, <1>6 DEF PassStep, PassFault

LEMMA EnvironmentPuts ==
    ASSUME Environment
    PROVE  PutStep
<1>1. ASSUME NEW c \in CRs, UserStep(c) \/ ReleaseHeld(c)
      PROVE  PutStep
  <2>1. \E obj : Put(c, obj)
    BY <1>1 DEF UserStep, CreateCR, EditSpec, DeleteCR, ReleaseHeld
  <2>2. QED
    BY <2>1, IdTypes DEF PutStep
<1>2. ASSUME NEW key \in Keys, Drift(key) \/ Collect(key)
      PROVE  PutStep
  <2>1. \E obj : Put(key, obj)
    BY <1>2 DEF Drift, Collect
  <2>2. QED
    BY <2>1, IdTypes DEF PutStep
<1>3. QED
  BY <1>1, <1>2 DEF Environment

LEMMA StepIsStoreStep ==
    ASSUME TypeOK, [Next]_vars
    PROVE  StoreStep
<1>1. CASE UNCHANGED apiVars
  BY <1>1 DEF StoreStep, PutStep
<1>2. CASE Environment
  BY <1>2, EnvironmentPuts DEF StoreStep
<1>3. CASE Controller
  BY <1>1, <1>3, PassPuts
  DEF Controller, StoreStep, ReceiveEvent, StartPass, Resync, Restart
<1>4. QED
  BY <1>1, <1>2, <1>3 DEF Next, vars, apiVars

\* The same, seen from one id.
LEMMA IdEffect ==
    ASSUME StoreOK, StoreStep, NEW id \in Ids
    PROVE  Untouched(id) \/ Received(id) \/ Relisted(id) \/ Stored(id)
<1>1. CASE UNCHANGED apiVars
  BY <1>1, UnchangedEffect
<1>2. ASSUME NEW x \in Ids, Receive(x)
      PROVE  Untouched(id) \/ Received(id)
  BY <1>2 DEF Receive, StoreOK, Untouched, Received
<1>3. CASE Relist
  BY <1>3 DEF Relist, StoreOK, Relisted
<1>4. ASSUME NEW x \in Ids, NEW obj, Put(x, obj)
      PROVE  Untouched(id) \/ Stored(id)
  BY <1>4, PutEffect
<1>5. QED
  BY <1>1, <1>2, <1>3, <1>4 DEF StoreStep, PutStep

-----------------------------------------------------------------------------
(* The cache follows the store.                                            *)

\* A sequence without its first element has the same last element, if any.
LEMMA LastOfTail ==
    ASSUME NEW S, NEW s \in Seq(S), s # << >>, NEW t \in Seq(S),
           Len(t) = Len(s) - 1, \A i \in 1..Len(t) : t[i] = s[i + 1]
    PROVE  IF t = << >> THEN s[1] = s[Len(s)] ELSE t[Len(t)] = s[Len(s)]
<1>1. Len(s) \in Nat \ {0}
  BY EmptySeq
<1>2. CASE t = << >>
  <2>1. Len(t) = 0
    BY <1>2
  <2>2. QED
    BY <1>1, <1>2, <2>1
<1>3. CASE t # << >>
  <2>1. Len(t) \in Nat \ {0}
    BY <1>3, EmptySeq
  <2>2. QED
    BY <1>1, <1>3, <2>1
<1>4. QED
  BY <1>2, <1>3

LEMMA AppendEnds ==
    ASSUME NEW S, NEW s \in Seq(S), NEW x
    PROVE  Append(s, x) # << >> /\ Append(s, x)[Len(Append(s, x))] = x
<1>1. s \in Seq(S \cup {x}) /\ x \in S \cup {x} /\ Len(s) \in Nat
  OBVIOUS
<1>2. Len(Append(s, x)) = Len(s) + 1 /\ Append(s, x)[Len(s) + 1] = x
  BY <1>1, AppendProperties
<1>3. QED
  BY <1>1, <1>2

LEMMA CacheFollowsStep ==
    ASSUME StoreOK, CacheFollows, StoreStep
    PROVE  CacheFollows'
<1>1. SUFFICES ASSUME NEW id \in Ids
               PROVE  server'[id] = IF watch'[id] = << >> THEN cache'[id]
                                    ELSE watch'[id][Len(watch'[id])]
  BY DEF CacheFollows
<1>2. /\ watch[id] \in Seq(Versions(id)) /\ Len(watch[id]) \in Nat
      /\ server[id] = IF watch[id] = << >> THEN cache[id]
                      ELSE watch[id][Len(watch[id])]
  BY DEF StoreOK, CacheFollows
<1>3. CASE Untouched(id)
  BY <1>2, <1>3 DEF Untouched
<1>4. CASE Relisted(id)
  BY <1>4 DEF Relisted
<1>5. CASE Received(id)
  <2>1. /\ watch[id] # << >> /\ watch'[id] = Tail(watch[id])
        /\ cache'[id] = watch[id][1] /\ server'[id] = server[id]
    BY <1>2, <1>5 DEF Received
  <2>2. /\ Tail(watch[id]) \in Seq(Versions(id))
        /\ Len(Tail(watch[id])) = Len(watch[id]) - 1
        /\ \A i \in 1..Len(Tail(watch[id])) :
              Tail(watch[id])[i] = watch[id][i + 1]
    BY <1>2, <2>1, HeadTailProperties
  <2> DEFINE t == Tail(watch[id])
  <2> HIDE DEF t
  <2>3. IF t = << >> THEN watch[id][1] = watch[id][Len(watch[id])]
                     ELSE t[Len(t)] = watch[id][Len(watch[id])]
    BY <1>2, <2>1, <2>2, LastOfTail DEF t
  <2>4. watch'[id] = t
    BY <2>1 DEF t
  <2>5. QED
    BY <1>2, <2>1, <2>3, <2>4
<1>6. CASE Stored(id)
  <2>1. /\ Append(watch[id], server'[id]) # << >>
        /\ Append(watch[id], server'[id])[Len(Append(watch[id], server'[id]))]
              = server'[id]
    BY <1>2, AppendEnds
  <2>2. watch'[id] = Append(watch[id], server'[id])
    BY <1>6 DEF Stored
  <2>3. QED
    BY <2>1, <2>2
<1>7. QED
  BY <1>3, <1>4, <1>5, <1>6, IdEffect

\* The last version on its way to the cache is the stored one: a cached
\* object with nothing on its way is what an Update would replace.
THEOREM CacheCatchesUp == Spec => []CacheFollows
<1>1. Init => CacheFollows
  BY DEF Init, CacheFollows
<1>2. TypeOK /\ CacheFollows /\ [Next]_vars => CacheFollows'
  BY StepIsStoreStep, CacheFollowsStep DEF TypeOK
<1>3. QED
  BY <1>1, <1>2, TypeCorrect, PTL DEF Spec

-----------------------------------------------------------------------------
(* What a step may do to a managed object.                                 *)

\* A pass writes the object of its step over one that it has read.
WritesStep(key) ==
    /\ pass.pc = "apply" /\ key = StepKey
    /\ ~NothingToWrite /\ WriteAccepted
    /\ server'[key] = Want

KeyEffect(key) ==
    \/ server'[key] \in {server[key], Absent}
    \/ /\ server[key] # Absent /\ key.kind \in DriftKinds
       /\ server'[key] = [server[key] EXCEPT !.data = Foreign]
    \/ WritesStep(key)

LEMMA PassWrites ==
    ASSUME TypeOK, PassStep \/ PassFault, NEW key \in Keys
    PROVE  KeyEffect(key)
<1>1. StoreOK /\ key \in Ids /\ key \notin CRs
  BY IdTypes DEF TypeOK
<1>2. CASE UNCHANGED apiVars
  BY <1>2 DEF apiVars, KeyEffect
<1>3. ASSUME NEW obj, pass.pc # "idle", PutIfChanged(pass.cr, obj) \/ Put(pass.cr, obj)
      PROVE  server'[key] = server[key]
  BY <1>1, <1>3, PassType, PutEffect DEF PutIfChanged, Untouched, apiVars, TypeOK
<1>4. CASE pass.pc = "apply" /\ ~NothingToWrite /\ WriteAccepted /\ WriteObject
  <2>1. StepKey \in Ids
    BY <1>4, WriteKeys, IdTypes DEF TypeOK
  <2>2. CASE Put(StepKey, Want)
    BY <1>1, <1>4, <2>1, <2>2, PutEffect DEF Untouched, KeyEffect, WritesStep
  <2>3. QED
    BY <1>2, <1>4, <2>2 DEF WriteObject, PutIfChanged
<1>5. CASE pass.pc = "cleanup" /\ DeleteObject
  <2>1. CleanupKey \in Ids
    BY <1>5, WriteKeys, IdTypes DEF TypeOK
  <2>2. CASE Put(CleanupKey, Absent)
    BY <1>1, <2>1, <2>2, PutEffect DEF Untouched, KeyEffect
  <2>3. QED
    BY <1>2, <1>5, <2>2 DEF DeleteObject, PutIfChanged
<1>6. CASE Guard \/ GuardFault \/ Release \/ ReleaseFault
  BY <1>2, <1>3, <1>6
  DEF Guard, GuardFault, Release, ReleaseFault, WriteFinalizer, RemoveFinalizer,
      KeyEffect
<1>7. CASE Ready \/ ReadyFault \/ Report \/ ReportFault
  BY <1>2, <1>3, <1>7
  DEF Ready, ReadyFault, Report, ReportFault, PatchStatus, KeyEffect
<1>8. CASE Apply \/ ApplyFault
  BY <1>2, <1>4, <1>8 DEF Apply, ApplyFault
<1>9. CASE Cleanup \/ CleanupFault
  BY <1>2, <1>5, <1>9 DEF Cleanup, CleanupFault
<1>10. QED
  BY <1>6, <1>7, <1>8, <1>9 DEF PassStep, PassFault

LEMMA StepWrites ==
    ASSUME TypeOK, [Next]_vars, NEW key \in Keys
    PROVE  KeyEffect(key)
<1>1. StoreOK /\ key \in Ids /\ key \notin CRs
  BY IdTypes DEF TypeOK
<1>2. CASE server' = server
  BY <1>2 DEF KeyEffect
<1>3. ASSUME NEW c \in CRs, NEW obj, Put(c, obj)
      PROVE  server'[key] = server[key]
  BY <1>1, <1>3, IdTypes, PutEffect DEF Untouched
<1>4. ASSUME NEW c \in CRs, UserStep(c) \/ ReleaseHeld(c)
      PROVE  KeyEffect(key)
  BY <1>3, <1>4 DEF UserStep, CreateCR, EditSpec, DeleteCR, ReleaseHeld, KeyEffect
<1>5. ASSUME NEW k \in Keys, Drift(k) \/ Collect(k)
      PROVE  KeyEffect(key)
  <2>1. /\ server[k] # Absent
        /\ \E obj \in {server[k], [server[k] EXCEPT !.data = Foreign], Absent} :
              Put(k, obj)
    BY <1>5 DEF Drift, Collect
  <2>2. PICK obj \in {server[k], [server[k] EXCEPT !.data = Foreign], Absent} :
          Put(k, obj)
    BY <2>1
  <2>3. k \in Ids
    BY IdTypes
  <2>4. server'[k] = obj /\ (k # key => server'[key] = server[key])
    BY <1>1, <2>2, <2>3, PutEffect DEF Untouched
  <2>5. obj \in {server[k], Absent} \/ k.kind \in DriftKinds
    BY <1>5, <2>2, <2>3, <2>4 DEF Drift, Collect, Put, TypeOK, StoreOK
  <2>6. QED
    BY <2>1, <2>2, <2>4, <2>5 DEF KeyEffect
<1>6. CASE Environment
  BY <1>4, <1>5, <1>6 DEF Environment
<1>7. CASE Controller
  BY <1>2, <1>7, PassWrites
  DEF Controller, ReceiveEvent, Receive, StartPass, Resync, Restart, Relist,
      apiVars
<1>8. QED
  BY <1>2, <1>6, <1>7 DEF Next, vars

\* The kind of the object of a step tells whether it is cluster-scoped.
LEMMA ClusterKeys ==
    ASSUME PassOK, pass.pc = "apply"
    PROVE  Step \in ClusterSteps
              <=> StepKey.kind \in {"ClusterRole", "ClusterRoleBinding"}
<1>1. StepKey.kind = KindOf(Step)
  BY DEF StepKey, Key
<1>2. \A step \in ClusterSteps : KindOf(Step) = KindOf(step) => Step = step
  BY ClusterKinds
<1>3. QED
  BY <1>1, <1>2, KindTable DEF ClusterSteps

LEMMA RBACOwnerStep ==
    ASSUME TypeOK, RBACHasNoOwner, [Next]_vars
    PROVE  RBACHasNoOwner'
<1>1. SUFFICES ASSUME NEW key \in Keys,
                      key.kind \in {"ClusterRole", "ClusterRoleBinding"},
                      server'[key] # Absent
               PROVE  server'[key].owner = Nobody
  BY DEF RBACHasNoOwner
<1>2. server[key] # Absent => server[key] \in Objects /\ server[key].owner = Nobody
  BY <1>1, IdTypes DEF TypeOK, StoreOK, RBACHasNoOwner
<1>3. CASE server'[key] \in {server[key], Absent}
  BY <1>1, <1>2, <1>3
<1>4. CASE /\ server[key] # Absent
           /\ server'[key] = [server[key] EXCEPT !.data = Foreign]
  BY <1>2, <1>4 DEF Objects
<1>5. CASE WritesStep(key)
  <2>1. Step \in ClusterSteps
    BY <1>1, <1>5, ClusterKeys DEF WritesStep, TypeOK
  <2>2. Want.owner = Nobody
    BY <2>1 DEF Want, Rendered, Completed, Mutated, OwnerOf
  <2>3. QED
    BY <1>5, <2>2 DEF WritesStep
<1>6. QED
  BY <1>3, <1>4, <1>5, StepWrites DEF KeyEffect

LEMMA RBACHasNoOwnerHolds == Spec => []RBACHasNoOwner
<1>1. Init => RBACHasNoOwner
  BY IdTypes DEF Init, RBACHasNoOwner
<1>2. TypeOK /\ RBACHasNoOwner /\ [Next]_vars => RBACHasNoOwner'
  BY RBACOwnerStep
<1>3. QED
  BY <1>1, <1>2, TypeCorrect, PTL DEF Spec

LEMMA OwnerStays ==
    ASSUME TypeOK, CacheFollows, RBACHasNoOwner, [Next]_vars, NEW key \in Keys,
           server[key] # Absent, server'[key] # Absent, server[key].owner # Nobody
    PROVE  server'[key].owner.cr = server[key].owner.cr
<1>1. server[key] \in Objects
  BY IdTypes DEF TypeOK, StoreOK
<1>2. CASE server'[key] = server[key]
  BY <1>2
<1>3. CASE server'[key] = [server[key] EXCEPT !.data = Foreign]
  BY <1>1, <1>3 DEF Objects
<1>4. CASE WritesStep(key)
  <2>1. key \in Ids /\ pass.pc = "apply" /\ key = StepKey
    BY <1>4, IdTypes DEF WritesStep
  <2>2. /\ Have # Absent /\ UpToDate(key)
        /\ Controllable(Step, pass.cr, Have)
    BY <1>4 DEF WritesStep, WriteAccepted
  <2>3. Have = server[key]
    BY <2>1, <2>2 DEF CacheFollows, UpToDate, Have
  <2>4. Step \notin ClusterSteps
    BY <2>1, ClusterKeys DEF RBACHasNoOwner, TypeOK
  <2>5. server[key].owner.cr = pass.cr
    BY <2>2, <2>3, <2>4 DEF Controllable
  <2>6. Want.owner = [cr |-> pass.cr, uid |-> pass.snap.uid]
    BY <2>4 DEF Want, Rendered, Completed, Mutated, OwnerOf
  <2>7. QED
    BY <1>4, <2>5, <2>6 DEF WritesStep
<1>5. QED
  BY <1>2, <1>3, <1>4, StepWrites DEF KeyEffect

\* No object is taken over: whatever the manifests name alike, and however
\* old the cached object that a pass compared with.
THEOREM NobodyIsRobbed == Spec => NotTakenOver
<1>1. TypeOK /\ CacheFollows /\ RBACHasNoOwner /\ [Next]_vars =>
        [\A key \in Keys :
            /\ server[key] # Absent /\ server'[key] # Absent
            /\ server[key].owner # Nobody
            => server'[key].owner.cr = server[key].owner.cr]_vars
  BY OwnerStays
<1>2. QED
  BY <1>1, TypeCorrect, CacheCatchesUp, RBACHasNoOwnerHolds, PTL
  DEF Spec, NotTakenOver

-----------------------------------------------------------------------------
(* What an Update of the typed resource does to what the spec asks for.    *)

KeptFields == SpecFields \ {"hubConfigMapData", "clusterRoleRules",
                            "hubContainerPorts", "secretKubeshark"}

\* Two specs that the steps render alike.
Alike(s, t) ==
    /\ \A f \in KeptFields : s[f] = t[f]
    /\ s.hubConfigMapData = t.hubConfigMapData
    /\ \/ s.clusterRoleRules = t.clusterRoleRules
       \/ {s.clusterRoleRules, t.clusterRoleRules} \subseteq {Unset, EmptyMap}
    /\ \/ s.hubContainerPorts = t.hubContainerPorts
       \/ {s.hubContainerPorts, t.hubContainerPorts} \subseteq {Unset, EmptyMap}
    /\ \/ s.secretKubeshark = t.secretKubeshark
       \/ {s.secretKubeshark, t.secretKubeshark} \subseteq {Unset, EmptyMap}

LEMMA WrittenIsAlike ==
    ASSUME NEW spec \in Specs
    PROVE  Alike(Written(spec), WithoutEmptyData(spec))
<1>1. DOMAIN spec = SpecFields
  BY SpecsAssumption
<1>2. {"hubConfigMapData", "clusterRoleRules", "hubContainerPorts",
       "secretKubeshark"} \subseteq SpecFields
  BY DEF SpecFields
<1>3. \A f \in KeptFields : Written(spec)[f] = WithoutEmptyData(spec)[f]
  BY <1>1 DEF Written, WithoutEmptyData, KeptFields
<1>4. Written(spec).hubConfigMapData = WithoutEmptyData(spec).hubConfigMapData
  BY <1>1, <1>2 DEF Written, WithoutEmptyData
<1>5. /\ Written(spec).clusterRoleRules
            = IF spec.clusterRoleRules = EmptyMap THEN Unset ELSE spec.clusterRoleRules
      /\ WithoutEmptyData(spec).clusterRoleRules = spec.clusterRoleRules
  BY <1>1, <1>2 DEF Written, WithoutEmptyData
<1>6. /\ Written(spec).hubContainerPorts
            = IF spec.hubContainerPorts = EmptyMap THEN Unset ELSE spec.hubContainerPorts
      /\ WithoutEmptyData(spec).hubContainerPorts = spec.hubContainerPorts
  BY <1>1, <1>2 DEF Written, WithoutEmptyData
<1>7. /\ Written(spec).secretKubeshark
            = IF spec.secretKubeshark = Unset THEN EmptyMap ELSE spec.secretKubeshark
      /\ WithoutEmptyData(spec).secretKubeshark = spec.secretKubeshark
  BY <1>1, <1>2 DEF Written, WithoutEmptyData
<1>8. QED
  BY <1>3, <1>4, <1>5, <1>6, <1>7 DEF Alike

LEMMA AlikeFields ==
    ASSUME NEW s, NEW t, Alike(s, t)
    PROVE  /\ s.hubServiceName = t.hubServiceName
           /\ s.hubDeploymentName = t.hubDeploymentName
           /\ s.hubConfigMapName = t.hubConfigMapName
           /\ s.workerDaemonSetName = t.workerDaemonSetName
           /\ s.ingressName = t.ingressName
           /\ s.serviceAccountHub = t.serviceAccountHub
           /\ s.serviceAccountWorker = t.serviceAccountWorker
           /\ s.clusterRoleName = t.clusterRoleName
           /\ s.clusterRoleBindingName = t.clusterRoleBindingName
           /\ s.hubReplicas = t.hubReplicas
           /\ s.hubImage = t.hubImage
           /\ s.workerImage = t.workerImage
           /\ s.frontendImage = t.frontendImage
           /\ s.ingressHost = t.ingressHost
           /\ s.ingressClassName = t.ingressClassName
BY DEF Alike, KeptFields, SpecFields

LEMMA AlikeNames ==
    ASSUME NEW s, NEW t, Alike(s, t), NEW c, NEW step
    PROVE  NameOf(step, c, s) = NameOf(step, c, t)
<1>1. /\ HubServiceName(c, s) = HubServiceName(c, t)
      /\ HubDeploymentName(c, s) = HubDeploymentName(c, t)
      /\ HubConfigMapName(c, s) = HubConfigMapName(c, t)
      /\ WorkerDaemonSetName(c, s) = WorkerDaemonSetName(c, t)
      /\ FrontendIngressName(c, s) = FrontendIngressName(c, t)
  BY AlikeFields
  DEF HubServiceName, HubDeploymentName, HubConfigMapName, WorkerDaemonSetName,
      FrontendIngressName
<1>2. /\ HubServiceAccountName(c, s) = HubServiceAccountName(c, t)
      /\ WorkerServiceAccountName(c, s) = WorkerServiceAccountName(c, t)
      /\ ClusterRoleName(c, s) = ClusterRoleName(c, t)
      /\ ClusterRoleBindingName(c, s) = ClusterRoleBindingName(c, t)
  BY AlikeFields
  DEF HubServiceAccountName, WorkerServiceAccountName, ClusterRoleName,
      ClusterRoleBindingName
<1>3. QED
  BY <1>1, <1>2 DEF NameOf

LEMMA AlikeData ==
    ASSUME NEW s, NEW t, Alike(s, t), NEW c, NEW step
    PROVE  /\ DataOf(step, c, s) = DataOf(step, c, t)
           /\ RoleRefOf(step, c, s) = RoleRefOf(step, c, t)
<1>1. /\ HubServiceAccountName(c, s) = HubServiceAccountName(c, t)
      /\ WorkerServiceAccountName(c, s) = WorkerServiceAccountName(c, t)
      /\ ClusterRoleName(c, s) = ClusterRoleName(c, t)
  BY AlikeFields
  DEF HubServiceAccountName, WorkerServiceAccountName, ClusterRoleName
<1>2. HubConfigMapData(c, s) = HubConfigMapData(c, t)
  BY DEF Alike, HubConfigMapData
<1>3. HubDeploymentData(c, s) = HubDeploymentData(c, t)
  BY <1>1, AlikeFields DEF Alike, HubDeploymentData
<1>4. ClusterRoleData(c, s) = ClusterRoleData(c, t)
  BY DEF Alike, ClusterRoleData
<1>5. ClusterRoleBindingData(c, s) = ClusterRoleBindingData(c, t)
  BY <1>1 DEF ClusterRoleBindingData
<1>6. WorkerDaemonSetData(c, s) = WorkerDaemonSetData(c, t)
  BY <1>1, AlikeFields DEF WorkerDaemonSetData
<1>7. FrontendDeploymentData(c, s) = FrontendDeploymentData(c, t)
  BY AlikeFields DEF FrontendDeploymentData
<1>8. FrontendIngressData(c, s) = FrontendIngressData(c, t)
  BY AlikeFields DEF FrontendIngressData
<1>9. SecretData(c, s) = SecretData(c, t)
  BY DEF Alike, SecretData
<1>10. QED
  BY <1>1, <1>2, <1>3, <1>4, <1>5, <1>6, <1>7, <1>8, <1>9 DEF DataOf, RoleRefOf

LEMMA AlikeAsks ==
    ASSUME NEW s, NEW t, Alike(s, t), NEW c
    PROVE  Asks(c, s) = Asks(c, t)
<1>1. ASSUME NEW step \in Steps
      PROVE  /\ Key(step, c, s) = Key(step, c, t)
             /\ Mutated(step, c, 0, s, Unset) = Mutated(step, c, 0, t, Unset)
  <2>1. Key(step, c, s) = Key(step, c, t)
    BY AlikeNames DEF Key
  <2>2. s.ingressClassName = t.ingressClassName
    BY AlikeFields
  <2>3. /\ DataOf(step, c, s) = DataOf(step, c, t)
        /\ RoleRefOf(step, c, s) = RoleRefOf(step, c, t)
    BY AlikeData
  <2>4. QED
    BY <2>1, <2>2, <2>3, Zenon DEF Mutated
<1>2. QED
  BY <1>1 DEF Asks

-----------------------------------------------------------------------------
(* Who changes a spec.                                                     *)

SpecStays(c) ==
    server'[c].spec \in {server[c].spec, Written(server[c].spec)}

LEMMA PassKeepsSpec ==
    ASSUME TypeOK, PassStep \/ PassFault, NEW c \in CRs,
           server[c] # Absent, server'[c] # Absent
    PROVE  SpecStays(c)
<1>1. /\ c \in Ids /\ server[c] \in Resources
      /\ pass.pc # "idle" => pass.cr \in CRs /\ pass.cr \in Ids /\ pass.snap \in Resources
  BY IdTypes, PassType DEF TypeOK, StoreOK
<1>2. CASE UNCHANGED apiVars
  BY <1>2 DEF apiVars, SpecStays
<1>3. ASSUME NEW fin, pass.pc # "idle", SnapshotIsCurrent,
             Put(pass.cr, Rewritten(pass.snap, fin)) \/ Put(pass.cr, Absent)
      PROVE  SpecStays(c)
  <2>1. Rewritten(pass.snap, fin).spec = Written(pass.snap.spec)
    BY <1>1, <1>3 DEF Rewritten, Resources
  <2>2. c # pass.cr => server'[c] = server[c]
    BY <1>1, <1>3, PutEffect DEF Untouched, TypeOK
  <2>3. c = pass.cr => server'[c] = Rewritten(pass.snap, fin)
    BY <1>1, <1>3, PutEffect DEF TypeOK
  <2>4. QED
    BY <1>3, <2>1, <2>2, <2>3 DEF SpecStays, SnapshotIsCurrent
<1>4. CASE Guard \/ GuardFault \/ Release \/ ReleaseFault
  BY <1>2, <1>3, <1>4
  DEF Guard, GuardFault, Release, ReleaseFault, WriteFinalizer, RemoveFinalizer
<1>5. ASSUME NEW status, NEW reason, NEW message, pass.pc # "idle",
             server[pass.cr] # Absent, PatchStatus(status, reason, message)
      PROVE  SpecStays(c)
  <2> DEFINE new == StatusPatched(server[pass.cr], pass.snap, status, reason, message)
  <2>1. server[pass.cr] \in Resources
    BY <1>1, <1>5, IdTypes DEF TypeOK, StoreOK
  <2>2. new.spec = server[pass.cr].spec
    BY <2>1, StatusPatchedKeeps
  <2>3. UNCHANGED apiVars \/ Put(pass.cr, new)
    BY <1>5 DEF PatchStatus, PutIfChanged
  <2> HIDE DEF new
  <2>4. QED
    BY <1>1, <1>2, <1>5, <2>2, <2>3, PutEffect DEF Untouched, SpecStays, TypeOK
<1>6. CASE Ready \/ ReadyFault \/ Report \/ ReportFault
  BY <1>2, <1>5, <1>6 DEF Ready, ReadyFault, Report, ReportFault
<1>7. CASE Apply \/ ApplyFault
  <2>1. StepKey \in Keys
    BY <1>7, WriteKeys DEF TypeOK, Apply, ApplyFault
  <2>2. UNCHANGED apiVars \/ PutIfChanged(StepKey, Want)
    BY <1>7 DEF Apply, ApplyFault, WriteObject
  <2>3. QED
    BY <1>2, <2>1, <2>2, KeyWriteEffect DEF Untouched, SpecStays, TypeOK
<1>8. CASE Cleanup \/ CleanupFault
  <2>1. CleanupKey \in Keys
    BY <1>8, WriteKeys DEF TypeOK, Cleanup, CleanupFault
  <2>2. UNCHANGED apiVars \/ PutIfChanged(CleanupKey, Absent)
    BY <1>8 DEF Cleanup, CleanupFault, DeleteObject
  <2>3. QED
    BY <1>2, <2>1, <2>2, KeyWriteEffect DEF Untouched, SpecStays, TypeOK
<1>9. QED
  BY <1>4, <1>6, <1>7, <1>8 DEF PassStep, PassFault

LEMMA OnlyUsersEdit ==
    ASSUME TypeOK, [Next]_vars, NEW c \in CRs,
           server[c] # Absent, server'[c] # Absent, spent'.edits = spent.edits
    PROVE  SpecStays(c)
<1>1. /\ c \in Ids /\ server[c] \in Resources
      /\ spent \in [Bounds -> Nat] /\ "edits" \in Bounds
  BY IdTypes DEF TypeOK, StoreOK, Bounds
<1>2. CASE server'[c] = server[c]
  BY <1>2 DEF SpecStays
<1>3. ASSUME NEW d \in CRs, NEW obj, Put(d, obj), d # c \/ obj.spec = server[c].spec
      PROVE  SpecStays(c)
  BY <1>1, <1>3, IdTypes, PutEffect DEF Untouched, SpecStays, TypeOK
<1>4. ASSUME NEW d \in CRs, NEW spec \in Manifests, CreateCR(d, spec)
      PROVE  SpecStays(c)
  BY <1>3, <1>4 DEF CreateCR
<1>5. ASSUME NEW d \in CRs, NEW spec \in Manifests, EditSpec(d, spec)
      PROVE  FALSE
  BY <1>1, <1>5 DEF EditSpec, Spend
<1>6. ASSUME NEW d \in CRs, NEW foreground \in BOOLEAN, DeleteCR(d, foreground)
      PROVE  SpecStays(c)
  <2> DEFINE obj == [server[d] EXCEPT !.del = TRUE, !.held = foreground,
                                      !.gen = server[d].gen + 1]
  <2>1. d = c => obj.spec = server[c].spec
    BY <1>1 DEF Resources
  <2>2. Put(d, obj) \/ Put(d, Absent)
    BY <1>6 DEF DeleteCR
  <2> HIDE DEF obj
  <2>3. CASE d = c
    BY <1>1, <1>3, <2>1, <2>2, <2>3, PutEffect DEF TypeOK
  <2>4. QED
    BY <1>3, <2>2, <2>3
<1>7. ASSUME NEW d \in CRs, ReleaseHeld(d)
      PROVE  SpecStays(c)
  <2> DEFINE obj == [server[d] EXCEPT !.held = FALSE]
  <2>1. d = c => obj.spec = server[c].spec
    BY <1>1 DEF Resources
  <2>2. Put(d, obj) \/ Put(d, Absent)
    BY <1>7 DEF ReleaseHeld
  <2> HIDE DEF obj
  <2>3. CASE d = c
    BY <1>1, <1>3, <2>1, <2>2, <2>3, PutEffect DEF TypeOK
  <2>4. QED
    BY <1>3, <2>2, <2>3
<1>8. ASSUME NEW key \in Keys, Drift(key) \/ Collect(key)
      PROVE  SpecStays(c)
  BY <1>2, <1>8, KeyWriteEffect DEF Drift, Collect, Untouched, TypeOK
<1>9. CASE Environment
  BY <1>4, <1>5, <1>6, <1>7, <1>8, <1>9 DEF Environment, UserStep
<1>10. CASE Controller
  BY <1>2, <1>10, PassKeepsSpec
  DEF Controller, ReceiveEvent, Receive, StartPass, Resync, Restart, Relist,
      apiVars
<1>11. QED
  BY <1>2, <1>9, <1>10 DEF Next, vars

\* No finalizer write undoes an edit: what the stored spec asks for changes
\* only when a user edits it, but for the empty hubConfigMapData that an
\* Update of the typed resource drops.
THEOREM EditsAreKept == Spec => NoLostEdit
<1>1. ASSUME TypeOK, [Next]_vars, NEW c \in CRs,
             server[c] # Absent, server'[c] # Absent, spent'.edits = spent.edits
      PROVE  Asks(c, server'[c].spec) \in
                {Asks(c, server[c].spec), Asks(c, WithoutEmptyData(server[c].spec))}
  <2>1. server[c].spec \in Specs
    BY <1>1, IdTypes DEF TypeOK, StoreOK, Resources
  <2>2. Asks(c, Written(server[c].spec)) = Asks(c, WithoutEmptyData(server[c].spec))
    BY <2>1, WrittenIsAlike, AlikeAsks
  <2>3. SpecStays(c)
    BY <1>1, OnlyUsersEdit
  <2>4. QED
    BY <2>2, <2>3 DEF SpecStays
<1>2. TypeOK /\ [Next]_vars =>
        [\A c \in CRs :
            /\ server[c] # Absent /\ server'[c] # Absent
            /\ server'[c].uid = server[c].uid
            /\ spent'.edits = spent.edits
            => Asks(c, server'[c].spec) \in
                  {Asks(c, server[c].spec), Asks(c, WithoutEmptyData(server[c].spec))}]_vars
  BY <1>1
<1>3. QED
  BY <1>2, TypeCorrect, PTL DEF Spec, NoLostEdit
-----------------------------------------------------------------------------
(* What a resource reports.  A status patch carries neither uid nor        *)
(* resourceVersion, so that it may land on another resource than the one   *)
(* that the pass read.  These proofs show that nothing else can make the   *)
(* reported generation wrong.                                              *)

\* setReadyCondition: the patch changes a resource that is not the one read.
ForeignPatch ==
    /\ Ready \/ ReadyFault \/ Report
    /\ server' # server
    /\ server[pass.cr].uid # pass.snap.uid

\* w is not an older version than v of the same resource.
Older(v, w) ==
    (v # Absent /\ w # Absent /\ v.uid = w.uid) => v.gen <= w.gen

Reports(c, v) ==
    (server[c] # Absent /\ v # Absent /\ server[c].uid = v.uid) =>
        server[c].obs <= v.gen /\ server[c].cond.gen <= v.gen

\* The resource of the pass under way, and the copy it has read.
Holds(c, snap) == pass.pc # "idle" /\ pass.cr = c /\ pass.snap = snap

\* The copies are in the order of their generations, a pass holds the oldest
\* of them, and what is reported is older than all.
ReportInv ==
    /\ \A c \in CRs :
          /\ Older(cache[c], server[c])
          /\ \A i \in 1..Len(watch[c]) :
                /\ Older(cache[c], watch[c][i])
                /\ Older(watch[c][i], server[c])
                /\ \A j \in 1..Len(watch[c]) : i < j => Older(watch[c][i], watch[c][j])
          /\ \A v \in Copies(c) : Reports(c, v)
    /\ \A c \in CRs, snap \in Resources :
          Holds(c, snap) => /\ \A v \in Copies(c) : Older(snap, v)
                            /\ Reports(c, snap)

Begins(c) ==
    /\ server[c] = Absent /\ server'[c] # Absent
    /\ server'[c].gen = 1 /\ server'[c].obs = 0 /\ server'[c].cond = NoCondition

Advances(c) ==
    /\ server[c] # Absent /\ server'[c] # Absent
    /\ server'[c].gen >= server[c].gen
    /\ server'[c].obs = server[c].obs /\ server'[c].cond = server[c].cond

Patched(c) ==
    /\ Ready \/ ReadyFault \/ Report
    /\ c = pass.cr
    /\ server[c] # Absent /\ server'[c] # Absent
    /\ server'[c].gen = server[c].gen
    /\ server'[c].obs \in {server[c].obs, pass.snap.gen}
    /\ server'[c].cond.gen \in {server[c].cond.gen, pass.snap.gen}

ReportStep(c) ==
    \/ server'[c] \in {server[c], Absent}
    \/ Begins(c)
    \/ Advances(c)
    \/ Patched(c)

LEMMA RewrittenReport ==
    ASSUME NEW snap \in Resources, NEW fin \in BOOLEAN
    PROVE  /\ Rewritten(snap, fin) # Absent
           /\ Rewritten(snap, fin).gen >= snap.gen
           /\ Rewritten(snap, fin).obs = snap.obs
           /\ Rewritten(snap, fin).cond = snap.cond
<1>1. Rewritten(snap, fin) # Absent
  BY RewrittenType, SentinelAssumption
<1>2. Rewritten(snap, fin).gen =
        IF Written(snap.spec) = snap.spec THEN snap.gen ELSE snap.gen + 1
  BY DEF Rewritten, Resources
<1>3. snap.gen \in Nat
  BY DEF Resources
<1>4. Rewritten(snap, fin).obs = snap.obs /\ Rewritten(snap, fin).cond = snap.cond
  BY DEF Rewritten, Resources
<1>5. QED
  BY <1>1, <1>2, <1>3, <1>4

LEMMA StatusPatchedReport ==
    ASSUME NEW now \in Resources, NEW snap \in Resources,
           NEW status, NEW reason, NEW message
    PROVE  LET new == StatusPatched(now, snap, status, reason, message)
           IN  /\ new.gen = now.gen
               /\ new.obs \in {now.obs, snap.gen}
               /\ new.cond.gen \in {now.cond.gen, snap.gen}
<1> DEFINE cond == [status |-> status, reason |-> reason, message |-> message,
                    gen |-> snap.gen]
           new  == StatusPatched(now, snap, status, reason, message)
<1>1. cond.gen = snap.gen
  OBVIOUS
<1>2. /\ new.gen = now.gen
      /\ new.obs \in {now.obs, snap.gen}
      /\ new.cond \in {now.cond, cond}
  BY DEF StatusPatched, Resources
<1> HIDE DEF cond, new
<1>3. new.cond.gen \in {now.cond.gen, snap.gen}
  BY <1>1, <1>2
<1>4. QED
  BY <1>2, <1>3 DEF new

LEMMA PassReportStep ==
    ASSUME TypeOK, PassStep \/ PassFault, NEW c \in CRs
    PROVE  ReportStep(c)
<1>1. /\ c \in Ids /\ server[c] \in Resources \cup {Absent}
      /\ pass.pc # "idle" => pass.cr \in CRs /\ pass.cr \in Ids /\ pass.snap \in Resources
  BY IdTypes, PassType DEF TypeOK, StoreOK
<1>2. CASE UNCHANGED apiVars
  BY <1>2 DEF apiVars, ReportStep
<1>3. ASSUME NEW fin \in BOOLEAN, pass.pc # "idle", SnapshotIsCurrent,
             Put(pass.cr, Rewritten(pass.snap, fin)) \/ Put(pass.cr, Absent)
      PROVE  ReportStep(c)
  <2>1. c # pass.cr => server'[c] = server[c]
    BY <1>1, <1>3, PutEffect DEF Untouched, TypeOK
  <2>2. c = pass.cr => server'[c] \in {Rewritten(pass.snap, fin), Absent}
    BY <1>1, <1>3, PutEffect DEF TypeOK
  <2>3. c = pass.cr => server[c] = pass.snap /\ server[c] # Absent
    BY <1>1, <1>3, SentinelAssumption DEF SnapshotIsCurrent
  <2>4. QED
    BY <1>1, <1>3, <2>1, <2>2, <2>3, RewrittenReport DEF ReportStep, Advances
<1>4. CASE Guard \/ GuardFault \/ Release \/ ReleaseFault
  BY <1>2, <1>3, <1>4
  DEF Guard, GuardFault, Release, ReleaseFault, WriteFinalizer, RemoveFinalizer
<1>5. ASSUME NEW status, NEW reason, NEW message, pass.pc # "idle",
             Ready \/ ReadyFault \/ Report,
             server[pass.cr] # Absent, PatchStatus(status, reason, message)
      PROVE  ReportStep(c)
  <2> DEFINE new == StatusPatched(server[pass.cr], pass.snap, status, reason, message)
  <2>1. server[pass.cr] \in Resources /\ pass.snap \in Resources
    BY <1>1, <1>5, IdTypes DEF TypeOK, StoreOK
  <2>2. /\ new.gen = server[pass.cr].gen
        /\ new.obs \in {server[pass.cr].obs, pass.snap.gen}
        /\ new.cond.gen \in {server[pass.cr].cond.gen, pass.snap.gen}
    BY <2>1, StatusPatchedReport
  <2>3. UNCHANGED apiVars \/ Put(pass.cr, new)
    BY <1>5 DEF PatchStatus, PutIfChanged
  <2> HIDE DEF new
  <2>4. CASE Put(pass.cr, new)
    <3>1. c # pass.cr => server'[c] = server[c]
      BY <1>1, <1>5, <2>4, PutEffect DEF Untouched, TypeOK
    <3>2. c = pass.cr => server'[c] = new
      BY <1>1, <1>5, <2>4, PutEffect DEF TypeOK
    <3>3. CASE c = pass.cr /\ new # Absent
      BY <1>5, <2>2, <3>2, <3>3 DEF ReportStep, Patched
    <3>4. QED
      BY <3>1, <3>2, <3>3 DEF ReportStep
  <2>5. QED
    BY <1>2, <2>3, <2>4
<1>6. CASE Ready \/ ReadyFault \/ Report \/ ReportFault
  BY <1>2, <1>5, <1>6 DEF Ready, ReadyFault, Report, ReportFault
<1>7. CASE Apply \/ ApplyFault
  <2>1. StepKey \in Keys
    BY <1>7, WriteKeys DEF TypeOK, Apply, ApplyFault
  <2>2. UNCHANGED apiVars \/ PutIfChanged(StepKey, Want)
    BY <1>7 DEF Apply, ApplyFault, WriteObject
  <2>3. QED
    BY <1>2, <2>1, <2>2, KeyWriteEffect DEF Untouched, ReportStep, TypeOK
<1>8. CASE Cleanup \/ CleanupFault
  <2>1. CleanupKey \in Keys
    BY <1>8, WriteKeys DEF TypeOK, Cleanup, CleanupFault
  <2>2. UNCHANGED apiVars \/ PutIfChanged(CleanupKey, Absent)
    BY <1>8 DEF Cleanup, CleanupFault, DeleteObject
  <2>3. QED
    BY <1>2, <2>1, <2>2, KeyWriteEffect DEF Untouched, ReportStep, TypeOK
<1>9. QED
  BY <1>4, <1>6, <1>7, <1>8 DEF PassStep, PassFault

LEMMA StepReports ==
    ASSUME TypeOK, [Next]_vars, NEW c \in CRs
    PROVE  ReportStep(c)
<1>1. c \in Ids /\ server[c] \in Resources \cup {Absent}
  BY IdTypes DEF TypeOK, StoreOK
<1>2. CASE server'[c] = server[c]
  BY <1>2 DEF ReportStep
<1>3. ASSUME NEW d \in CRs, NEW obj, Put(d, obj),
             d = c /\ server'[c] = obj /\ obj # Absent => Begins(c) \/ Advances(c)
      PROVE  ReportStep(c)
  BY <1>1, <1>3, IdTypes, PutEffect DEF Untouched, ReportStep, TypeOK
<1>4. ASSUME NEW d \in CRs, NEW spec \in Manifests, CreateCR(d, spec)
      PROVE  ReportStep(c)
  <2> DEFINE obj == [uid |-> spent.uid + 1, gen |-> 1, spec |-> Admitted(spec),
                     fin |-> FALSE, held |-> FALSE, del |-> FALSE,
                     cond |-> NoCondition, obs |-> 0]
  <2>1. Put(d, obj) /\ server[d] = Absent
    BY <1>4 DEF CreateCR
  <2>2. obj.gen = 1 /\ obj.obs = 0 /\ obj.cond = NoCondition
    OBVIOUS
  <2> HIDE DEF obj
  <2>3. QED
    BY <1>3, <2>1, <2>2 DEF Begins
<1>5. ASSUME NEW d \in CRs, NEW spec \in Manifests, EditSpec(d, spec)
      PROVE  ReportStep(c)
  <2> DEFINE obj == [server[d] EXCEPT !.spec = Admitted(spec),
                                      !.gen = server[d].gen + 1]
  <2>1. Put(d, obj) /\ server[d] # Absent
    BY <1>5 DEF EditSpec
  <2>2. d = c => /\ obj.gen >= server[c].gen
                 /\ obj.obs = server[c].obs /\ obj.cond = server[c].cond
    BY <1>1, <2>1 DEF Resources
  <2> HIDE DEF obj
  <2>3. QED
    BY <1>3, <2>1, <2>2 DEF Advances
<1>6. ASSUME NEW d \in CRs, NEW foreground \in BOOLEAN, DeleteCR(d, foreground)
      PROVE  ReportStep(c)
  <2> DEFINE obj == [server[d] EXCEPT !.del = TRUE, !.held = foreground,
                                      !.gen = server[d].gen + 1]
  <2>1. server[d] # Absent /\ (Put(d, obj) \/ Put(d, Absent))
    BY <1>6 DEF DeleteCR
  <2>2. d = c => /\ obj.gen >= server[c].gen
                 /\ obj.obs = server[c].obs /\ obj.cond = server[c].cond
    BY <1>1, <2>1 DEF Resources
  <2> HIDE DEF obj
  <2>3. QED
    BY <1>3, <2>1, <2>2 DEF Advances
<1>7. ASSUME NEW d \in CRs, ReleaseHeld(d)
      PROVE  ReportStep(c)
  <2> DEFINE obj == [server[d] EXCEPT !.held = FALSE]
  <2>1. server[d] # Absent /\ (Put(d, obj) \/ Put(d, Absent))
    BY <1>7 DEF ReleaseHeld
  <2>2. d = c => /\ obj.gen >= server[c].gen
                 /\ obj.obs = server[c].obs /\ obj.cond = server[c].cond
    BY <1>1, <2>1 DEF Resources
  <2> HIDE DEF obj
  <2>3. QED
    BY <1>3, <2>1, <2>2 DEF Advances
<1>8. ASSUME NEW key \in Keys, Drift(key) \/ Collect(key)
      PROVE  ReportStep(c)
  BY <1>2, <1>8, KeyWriteEffect DEF Drift, Collect, Untouched, TypeOK
<1>9. CASE Environment
  BY <1>4, <1>5, <1>6, <1>7, <1>8, <1>9 DEF Environment, UserStep
<1>10. CASE Controller
  BY <1>2, <1>10, PassReportStep
  DEF Controller, ReceiveEvent, Receive, StartPass, Resync, Restart, Relist,
      apiVars
<1>11. QED
  BY <1>2, <1>9, <1>10 DEF Next, vars

\* Versions of one resource are stored in the order of their generations.
LEMMA StaysOlder ==
    ASSUME TypeOK, TypeOK', NEW c \in CRs, ReportStep(c),
           server'[c] = server[c] \/ Changed(c),
           spent.uid \in Nat, NEW v, v # Absent => v \in Resources /\ v.uid <= spent.uid,
           Older(v, server[c])
    PROVE  Older(v, server'[c])
<1>1. server[c] \in Resources \cup {Absent}
  BY IdTypes DEF TypeOK, StoreOK
<1>2. server[c] # Absent => server[c].gen \in Nat /\ server[c].uid \in Nat
  BY <1>1 DEF Resources
<1>3. v # Absent => v.gen \in Nat /\ v.uid \in Nat /\ v.uid <= spent.uid
  BY DEF Resources
<1>4. CASE server'[c] \in {server[c], Absent}
  BY <1>4 DEF Older
<1>5. CASE server'[c] # Absent /\ server[c] = Absent
  <2>1. Created(c)
    BY <1>5 DEF Changed, Kept, Dropped, Released
  <2>2. QED
    BY <1>3, <2>1 DEF Created, Older
<1>6. CASE server'[c] # Absent /\ server[c] # Absent /\ server'[c] # server[c]
  <2>1. server'[c].uid = server[c].uid
    BY <1>6 DEF Changed, Created, Kept, Dropped, Released
  <2>2. server'[c].gen \in Nat
    BY <1>6, IdTypes DEF TypeOK, StoreOK, Resources
  <2>3. server'[c].gen >= server[c].gen
    BY <1>2, <1>6 DEF ReportStep, Begins, Advances, Patched
  <2>4. QED
    BY <1>2, <1>3, <1>6, <2>1, <2>2, <2>3 DEF Older
<1>7. QED
  BY <1>4, <1>5, <1>6
\* The uid says whether a resource is a new one.
LEMMA UidStays ==
    ASSUME NEW c \in CRs, server'[c] = server[c] \/ Changed(c), server'[c] # Absent
    PROVE  /\ server[c] = Absent => Created(c)
           /\ server[c] # Absent => server'[c].uid = server[c].uid
BY DEF Changed, Created, Kept, Dropped, Released

LEMMA OlderStep ==
    ASSUME TypeOK, TypeOK', ReportInv, UidsAreSpent, spent.uid \in Nat,
           NEW c \in CRs, Effect(c), ReportStep(c)
    PROVE  /\ Older(cache[c], server[c])'
           /\ \A i \in 1..Len(watch'[c]) :
                 /\ Older(cache'[c], watch'[c][i])
                 /\ Older(watch'[c][i], server'[c])
                 /\ \A j \in 1..Len(watch'[c]) :
                       i < j => Older(watch'[c][i], watch'[c][j])
<1>1. /\ Len(watch[c]) \in Nat /\ StoreOK
      /\ server[c] # Absent => server[c].gen \in Nat
      /\ server'[c] # Absent => server'[c].gen \in Nat
  BY IdTypes DEF TypeOK, StoreOK, Resources
<1>2. /\ Older(cache[c], server[c])
      /\ \A i \in 1..Len(watch[c]) :
            /\ Older(cache[c], watch[c][i])
            /\ Older(watch[c][i], server[c])
            /\ \A j \in 1..Len(watch[c]) : i < j => Older(watch[c][i], watch[c][j])
  BY DEF ReportInv
<1>3. CASE Untouched(c)
  BY <1>2, <1>3 DEF Untouched, Older
<1>4. CASE Relisted(c)
  BY <1>1, <1>4 DEF Relisted, Older
<1>5. CASE /\ server'[c] = server[c] /\ Len(watch[c]) > 0
           /\ cache'[c] = watch[c][1]
           /\ Len(watch'[c]) = Len(watch[c]) - 1
           /\ \A i \in 1..Len(watch'[c]) : watch'[c][i] = watch[c][i + 1]
  <2>1. 1 \in 1..Len(watch[c])
    BY <1>1, <1>5
  <2>2. ASSUME NEW i \in 1..Len(watch'[c])
        PROVE  i \in 1..Len(watch[c]) /\ i + 1 \in 1..Len(watch[c]) /\ 1 < i + 1
    BY <1>1, <1>5
  <2>3. Older(cache[c], server[c])'
    BY <1>2, <1>5, <2>1 DEF Older
  <2>4. ASSUME NEW i \in 1..Len(watch'[c])
        PROVE  /\ Older(cache'[c], watch'[c][i])
               /\ Older(watch'[c][i], server'[c])
    BY <1>2, <1>5, <2>1, <2>2
  <2>5. ASSUME NEW i \in 1..Len(watch'[c]), NEW j \in 1..Len(watch'[c]), i < j
        PROVE  Older(watch'[c][i], watch'[c][j])
    BY <1>2, <1>5, <2>2, <2>5
  <2>6. QED
    BY <2>3, <2>4, <2>5
<1>6. CASE /\ Changed(c) /\ cache'[c] = cache[c]
           /\ Len(watch'[c]) = Len(watch[c]) + 1
           /\ \A i \in 1..Len(watch[c]) : watch'[c][i] = watch[c][i]
           /\ watch'[c][Len(watch[c]) + 1] = server'[c]
  <2>1. ASSUME NEW v \in Copies(c), Older(v, server[c])
        PROVE  Older(v, server'[c])
    <3>1. v # Absent => v \in Resources /\ v.uid <= spent.uid
      BY CopyTypes DEF UidsAreSpent
    <3>2. QED
      BY <1>6, <2>1, <3>1, StaysOlder
  <2>2. Older(cache[c], server'[c])
    BY <1>2, <2>1 DEF Copies
  <2>3. \A i \in 1..Len(watch[c]) : Older(watch[c][i], server'[c])
    BY <1>2, <2>1 DEF Copies
  <2>4. Older(cache[c], server[c])'
    BY <1>6, <2>2 DEF Older
  <2>5. Older(server'[c], server'[c])
    BY <1>1 DEF Older
  <2>6. ASSUME NEW i \in 1..Len(watch'[c])
        PROVE  /\ Older(cache'[c], watch'[c][i])
               /\ Older(watch'[c][i], server'[c])
               /\ \A j \in 1..Len(watch'[c]) :
                     i < j => Older(watch'[c][i], watch'[c][j])
    <3>1. CASE i \in 1..Len(watch[c])
      <4>1. /\ Older(cache'[c], watch'[c][i]) /\ Older(watch'[c][i], server'[c])
        BY <1>2, <1>6, <2>3, <3>1
      <4>2. ASSUME NEW j \in 1..Len(watch'[c]), i < j
            PROVE  Older(watch'[c][i], watch'[c][j])
        <5>1. CASE j \in 1..Len(watch[c])
          BY <1>2, <1>6, <3>1, <4>2, <5>1
        <5>2. CASE j = Len(watch[c]) + 1
          BY <1>6, <4>1, <5>2
        <5>3. QED
          BY <1>1, <1>6, <5>1, <5>2
      <4>3. QED
        BY <4>1, <4>2
    <3>2. CASE i = Len(watch[c]) + 1
      BY <1>1, <1>6, <2>2, <2>5, <3>2
    <3>3. QED
      BY <1>1, <1>6, <3>1, <3>2
  <2>7. QED
    BY <2>4, <2>6
<1>7. QED
  BY <1>1, <1>3, <1>4, <1>5, <1>6, WatchEffect

\* What a patch writes into the resource that the pass read.
LEMMA PatchIsOwn ==
    ASSUME TypeOK, ReportInv, ~ForeignPatch, NEW c \in CRs, Patched(c),
           server'[c] # server[c]
    PROVE  /\ server[c].uid = pass.snap.uid
           /\ Reports(c, pass.snap)
           /\ \A v \in Copies(c) : Older(pass.snap, v)
<1>1. pass.pc # "idle" /\ c = pass.cr
  BY DEF Patched, Ready, ReadyFault, Report
<1>2. server[c].uid = pass.snap.uid
  BY <1>1 DEF Patched, ForeignPatch
<1>3. pass.snap \in Resources /\ Holds(c, pass.snap)
  BY <1>1, PassType DEF Holds, TypeOK
<1>4. QED
  BY <1>2, <1>3 DEF ReportInv

LEMMA ReportsStay ==
    ASSUME TypeOK, TypeOK', ReportInv, UidsAreSpent, ~ForeignPatch,
           spent.uid \in Nat, NEW c \in CRs, Effect(c), ReportStep(c),
           NEW v \in Copies(c)'
    PROVE  Reports(c, v)'
<1>1. SUFFICES ASSUME server'[c] # Absent, v # Absent, server'[c].uid = v.uid
               PROVE  server'[c].obs <= v.gen /\ server'[c].cond.gen <= v.gen
  BY DEF Reports
<1>2. /\ v \in Copies(c) \/ v = server'[c]
      /\ server'[c] = server[c] \/ Changed(c)
  BY CopiesEffect DEF TypeOK
<1>3. /\ server[c] \in Copies(c)
      /\ server[c] # Absent =>
            server[c].gen \in Nat /\ server[c].obs \in Nat /\ server[c].cond.gen \in Nat
      /\ server'[c].gen \in Nat
  BY <1>1, IdTypes DEF TypeOK, StoreOK, Resources, Conditions, Copies
<1>4. v \in Copies(c) => v.uid \in Nat /\ v.gen \in Nat /\ v.uid <= spent.uid
  BY <1>1, CopyTypes DEF UidsAreSpent, Resources
<1>5. \A w \in Copies(c) : Reports(c, w)
  BY DEF ReportInv
<1>6. CASE server'[c] = server[c]
  BY <1>1, <1>2, <1>3, <1>5, <1>6 DEF Reports
<1>7. CASE Begins(c)
  <2>1. server'[c].uid = spent.uid + 1
    BY <1>1, <1>2, <1>7, UidStays DEF Begins, Created
  <2>2. v = server'[c]
    BY <1>1, <1>2, <1>4, <2>1
  <2>3. QED
    BY <1>7, <2>2 DEF Begins, NoCondition
<1>8. CASE Advances(c)
  <2>1. server'[c].uid = server[c].uid
    BY <1>1, <1>2, <1>8, UidStays DEF Advances
  <2>2. server[c].obs <= server[c].gen /\ server[c].cond.gen <= server[c].gen
    BY <1>3, <1>5, <1>8 DEF Advances, Reports
  <2>3. CASE v = server'[c]
    BY <1>3, <1>8, <2>2, <2>3 DEF Advances
  <2>4. CASE v \in Copies(c)
    BY <1>1, <1>5, <1>8, <2>1, <2>4 DEF Advances, Reports
  <2>5. QED
    BY <1>2, <2>3, <2>4
<1>9. CASE Patched(c) /\ server'[c] # server[c]
  <2>1. server'[c].uid = server[c].uid
    BY <1>1, <1>2, <1>9, UidStays DEF Patched
  <2>2. PICK w \in {v, server[c]} : w \in Copies(c) /\ w # Absent /\ w.uid = server[c].uid
                                     /\ w.gen = v.gen
    BY <1>1, <1>2, <1>3, <1>9, <2>1 DEF Patched
  <2>3. server[c].obs <= w.gen /\ server[c].cond.gen <= w.gen
    BY <1>5, <1>9, <2>2 DEF Patched, Reports
  <2>4. pass.snap # Absent
    BY <1>9, PassType, SentinelAssumption
    DEF Patched, Ready, ReadyFault, Report, TypeOK
  <2>5. pass.snap.gen <= w.gen
    BY <1>9, <2>2, <2>4, PatchIsOwn DEF Older
  <2>6. QED
    BY <1>9, <2>2, <2>3, <2>5 DEF Patched
<1>10. QED
  BY <1>1, <1>6, <1>7, <1>8, <1>9 DEF ReportStep

LEMMA PassReportsStay ==
    ASSUME TypeOK, TypeOK', ReportInv, UidsAreSpent, Paced,
           NEW c \in CRs, Effect(c), ReportStep(c),
           NEW snap \in Resources, Holds(c, snap)'
    PROVE  /\ \A v \in Copies(c)' : Older(snap, v)
           /\ Reports(c, snap)'
<1>1. pass'.pc # "idle" /\ pass'.cr = c /\ pass'.snap = snap
  BY DEF Holds
<1>2. CASE Begun
  <2>1. /\ Copies(c)' = Copies(c) /\ server' = server
        /\ cache[c] \in Copies(c) /\ snap = cache[c]
    BY <1>1, <1>2 DEF Begun, apiVars, Copies
  <2>2. snap.gen \in Nat
    BY DEF Resources
  <2>3. \A v \in Copies(c) : Older(snap, v)
    BY <2>1, <2>2 DEF ReportInv, Copies, Older
  <2>4. Reports(c, snap)
    BY <2>1 DEF ReportInv
  <2>5. QED
    BY <2>1, <2>3, <2>4 DEF Reports
<1>3. CASE Continued
  <2>1. Holds(c, snap)
    BY <1>1, <1>3 DEF Continued, Holds
  <2>2. /\ \A v \in Copies(c)' : v \in Copies(c) \/ v = server'[c]
        /\ server'[c] = server[c] \/ Changed(c)
    BY CopiesEffect DEF TypeOK
  <2>3. spent.uid \in Nat /\ snap.uid \in Nat /\ snap.uid <= spent.uid
    BY <2>1 DEF Holds, Paced, UidsAreSpent, Resources
  <2>4. (\A v \in Copies(c) : Older(snap, v)) /\ Reports(c, snap)
    BY <2>1 DEF ReportInv
  <2>5. Older(snap, server'[c])
    BY <2>2, <2>3, <2>4, StaysOlder DEF Copies
  <2>6. ~Patched(c)
    BY <1>1 DEF Patched, Ready, ReadyFault, Report, Done, Retry, Idle
  <2>7. ASSUME server'[c] # Absent, server'[c].uid = snap.uid
        PROVE  server'[c].obs <= snap.gen /\ server'[c].cond.gen <= snap.gen
    <3>1. server[c] # Absent /\ server'[c].uid = server[c].uid
      BY <2>2, <2>3, <2>7, UidStays DEF Created
    <3>2. server'[c].obs = server[c].obs /\ server'[c].cond = server[c].cond
      BY <2>6, <2>7, <3>1 DEF ReportStep, Begins, Advances
    <3>3. QED
      BY <2>4, <2>7, <3>1, <3>2, SentinelAssumption DEF Reports
  <2>8. Reports(c, snap)'
    BY <2>7 DEF Reports
  <2>9. QED
    BY <2>2, <2>4, <2>5, <2>8
<1>4. QED
  BY <1>1, <1>2, <1>3 DEF Paced

LEMMA ReportInvStep ==
    ASSUME TypeOK, ProtectionInv, ReportInv, [Next]_vars, ~ForeignPatch
    PROVE  ReportInv'
<1>1. /\ TypeOK' /\ Paced /\ UidsAreSpent /\ spent.uid \in Nat
      /\ \A c \in CRs : Effect(c) /\ ReportStep(c)
  BY TypeStep, StepIsPaced, StepEffect, StepReports DEF Paced, ProtectionInv, CopiesInv
<1>2. ASSUME NEW c \in CRs
      PROVE  /\ Older(cache[c], server[c])'
             /\ \A i \in 1..Len(watch'[c]) :
                   /\ Older(cache'[c], watch'[c][i])
                   /\ Older(watch'[c][i], server'[c])
                   /\ \A j \in 1..Len(watch'[c]) :
                         i < j => Older(watch'[c][i], watch'[c][j])
             /\ \A v \in Copies(c)' : Reports(c, v)'
  BY <1>1, OlderStep, ReportsStay
<1>3. ASSUME NEW c \in CRs, NEW snap \in Resources, Holds(c, snap)'
      PROVE  (\A v \in Copies(c)' : Older(snap, v)) /\ Reports(c, snap)'
  BY <1>1, <1>3, PassReportsStay
<1>4. QED
  BY <1>2, <1>3 DEF ReportInv, Older

LEMMA ReportInvHolds == Spec /\ [][~ForeignPatch]_vars => []ReportInv
<1>1. Init => ReportInv
  BY IdTypes DEF Init, ReconcilerInit, Idle, ReportInv, Copies, Older, Reports,
              Holds
<1>2. TypeOK /\ ProtectionInv /\ ReportInv /\ [Next]_vars /\ [~ForeignPatch]_vars
        => ReportInv'
  <2>1. CASE UNCHANGED vars
    BY <2>1 DEF vars, ReportInv, Copies, Older, Reports, Holds
  <2>2. QED
    BY <2>1, ReportInvStep
<1>3. QED
  BY <1>1, <1>2, TypeCorrect, ProtectionHolds, PTL DEF Spec

\* setReadyCondition: as long as no status patch lands on another resource
\* than the one its pass read, a resource reports only generations that it
\* has had.
THEOREM ReportsAreOwn == Spec /\ [][~ForeignPatch]_vars => []ObservedExists
<1>1. ReportInv => ObservedExists
  BY DEF ReportInv, ObservedExists, Copies, Reports
<1>2. QED
  BY <1>1, ReportInvHolds, PTL

\* The same hypothesis makes the reports come in order: a stale cache, a
\* retry or a restart never takes a reported generation back.
THEOREM ReportsMoveForward ==
    Spec /\ [][~ForeignPatch]_vars =>
        [][\A c \in CRs :
              /\ server[c] # Absent /\ server'[c] # Absent
              /\ server'[c].uid = server[c].uid
              => /\ server'[c].obs >= server[c].obs
                 /\ server'[c].cond.gen >= server[c].cond.gen]_vars
<1>1. ASSUME TypeOK, ReportInv, [Next]_vars, ~ForeignPatch, NEW c \in CRs,
             server[c] # Absent, server'[c] # Absent
      PROVE  /\ server'[c].obs >= server[c].obs
             /\ server'[c].cond.gen >= server[c].cond.gen
  <2>1. server[c].obs \in Nat /\ server[c].cond.gen \in Nat
    BY <1>1, IdTypes DEF TypeOK, StoreOK, Resources, Conditions
  <2>2. CASE server'[c] = server[c] \/ Advances(c)
    BY <2>1, <2>2 DEF Advances
  <2>3. CASE Patched(c) /\ server'[c] # server[c]
    <3>1. pass.snap \in Resources
      BY <1>1, <2>3, PassType DEF Patched, Ready, ReadyFault, Report, TypeOK
    <3>2. server[c].obs <= pass.snap.gen /\ server[c].cond.gen <= pass.snap.gen
      BY <1>1, <2>3, <3>1, PatchIsOwn, SentinelAssumption DEF Reports
    <3>3. pass.snap.gen \in Nat
      BY <3>1 DEF Resources
    <3>4. QED
      BY <2>1, <2>3, <3>2, <3>3 DEF Patched
  <2>4. QED
    BY <1>1, <2>2, <2>3, StepReports DEF ReportStep, Begins
<1>2. TypeOK /\ ReportInv /\ [Next]_vars /\ [~ForeignPatch]_vars =>
        [\A c \in CRs :
            /\ server[c] # Absent /\ server'[c] # Absent
            /\ server'[c].uid = server[c].uid
            => /\ server'[c].obs >= server[c].obs
               /\ server'[c].cond.gen >= server[c].cond.gen]_vars
  BY <1>1
<1>3. QED
  BY <1>2, TypeCorrect, ReportInvHolds, PTL DEF Spec

=============================================================================
