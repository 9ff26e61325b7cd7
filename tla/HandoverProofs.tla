---------------------------- MODULE HandoverProofs ----------------------------
(***************************************************************************)
(* The operator that is replaced in the middle of a request: whenever the  *)
(* old process's last request takes effect, no resource is forgotten, no   *)
(* edit is lost, no object changes hands and no living resource's RBAC is  *)
(* deleted but by that request itself; and the finalizer's promise is kept *)
(* unless that request creates a cluster-scoped object.                    *)
(***************************************************************************)
EXTENDS WakeProofs, LifecycleProofs, KubesharkHandover

-----------------------------------------------------------------------------
(* What the late request may be.                                           *)

LateResourceWrite ==
    \E id \in CRs, base \in Resources, obj \in Resources \cup {Absent} :
        /\ late = Write(id, base, obj)
        /\ obj # Absent => /\ obj.spec = Written(base.spec)
                           /\ obj.uid = base.uid /\ obj.del = base.del

\* A write of obj over base leaves an object to the resource it belongs to.
OwnerKept(key, base, obj) ==
    IF key.kind \in {"ClusterRole", "ClusterRoleBinding"} THEN obj.owner = Nobody
    ELSE base # Absent /\ base.owner # Nobody => obj.owner.cr = base.owner.cr

LateObjectWrite ==
    \E id \in Keys, base \in Objects \cup {Absent} : \E obj \in ObjectsOf(id.kind) :
        late = Write(id, base, obj) /\ OwnerKept(id, base, obj)

LateDelete == \E id \in Keys : late = Delete(id)

LatePatch ==
    \E id \in CRs, snap \in Resources, status \in {"True", "False"},
       reason \in Reasons, message \in Messages :
        late = [verb |-> "patch", id |-> id, snap |-> snap, status |-> status,
                reason |-> reason, message |-> message]

LateOK ==
    late = NoRequest \/ LateResourceWrite \/ LateObjectWrite \/ LateDelete \/ LatePatch

LEMMA WantOwner ==
    ASSUME TypeOK, pass.pc = "apply", Have = Absent \/ WriteAccepted
    PROVE  OwnerKept(StepKey, Have, Want)
<1>1. CASE Step \in ClusterSteps
  <2>1. Want.owner = Nobody
    BY <1>1 DEF Want, Rendered, Completed, Mutated, OwnerOf
  <2>2. QED
    BY <1>1, <2>1, ClusterKeys DEF OwnerKept, TypeOK
<1>2. CASE Step \notin ClusterSteps
  <2>1. Want.owner.cr = pass.cr
    BY <1>2 DEF Want, Rendered, Completed, Mutated, OwnerOf
  <2>2. Have # Absent /\ Have.owner # Nobody => Have.owner.cr = pass.cr
    BY <1>2 DEF WriteAccepted, Controllable
  <2>3. QED
    BY <1>2, <2>1, <2>2, ClusterKeys DEF OwnerKept, TypeOK
<1>3. QED
  BY <1>1, <1>2

LEMMA InFlightType ==
    ASSUME TypeOK, late' = InFlight
    PROVE  LateOK'
<1>1. CASE late' = NoRequest
  BY <1>1 DEF LateOK
<1>2. ASSUME NEW fin \in BOOLEAN, pass.pc # "idle"
      PROVE  /\ Rewritten(pass.snap, fin) \in Resources
             /\ Rewritten(pass.snap, fin).spec = Written(pass.snap.spec)
             /\ Rewritten(pass.snap, fin).uid = pass.snap.uid
             /\ Rewritten(pass.snap, fin).del = pass.snap.del
  <2>1. pass.snap \in Resources
    BY <1>2, PassType DEF TypeOK
  <2>2. Rewritten(pass.snap, fin).spec = Written(pass.snap.spec)
    BY <2>1 DEF Rewritten, Resources
  <2>3. QED
    BY <2>1, <2>2, RewrittenType
<1>3. ASSUME NEW obj \in Resources \cup {Absent}, pass.pc # "idle",
             obj # Absent => /\ obj.spec = Written(pass.snap.spec)
                             /\ obj.uid = pass.snap.uid /\ obj.del = pass.snap.del,
             late' = Write(pass.cr, pass.snap, obj)
      PROVE  LateOK'
  <2>1. pass.cr \in CRs /\ pass.snap \in Resources
    BY <1>3, PassType DEF TypeOK
  <2>2. LateResourceWrite'
    BY <1>3, <2>1 DEF LateResourceWrite, Write
  <2>3. QED
    BY <2>2 DEF LateOK
<1>4. CASE pass.pc = "guard" /\ late' = Write(pass.cr, pass.snap, Rewritten(pass.snap, TRUE))
  BY <1>2, <1>3, <1>4
<1>5. CASE pass.pc = "release"
           /\ late' = Write(pass.cr, pass.snap,
                 IF pass.snap.held THEN Rewritten(pass.snap, FALSE) ELSE Absent)
  BY <1>2, <1>3, <1>5
<1>6. CASE /\ pass.pc = "apply" /\ (Have = Absent \/ WriteAccepted)
           /\ late' = Write(StepKey, Have, Want)
  <2>1. StepKey \in Keys /\ Want \in ObjectsOf(StepKey.kind)
    BY <1>6, WantType, IdTypes, SentinelAssumption DEF TypeOK
  <2>2. Have \in Objects \cup {Absent}
    BY <2>1, IdTypes DEF Have, TypeOK, StoreOK
  <2>3. LateObjectWrite'
    BY <1>6, <2>1, <2>2, WantOwner DEF LateObjectWrite, Write, OwnerKept
  <2>4. QED
    BY <2>3 DEF LateOK
<1>7. CASE pass.pc = "cleanup" /\ late' = Delete(CleanupKey)
  <2>1. CleanupKey \in Keys
    BY <1>7, WriteKeys DEF TypeOK
  <2>2. LateDelete'
    BY <1>7, <2>1 DEF LateDelete, Delete
  <2>3. QED
    BY <2>2 DEF LateOK
<1>8. ASSUME pass.pc # "idle", NEW status \in {"True", "False"},
             NEW reason \in Reasons, NEW message \in Messages,
             late' = Patch(status, reason, message)
      PROVE  LateOK'
  <2>1. pass.cr \in CRs /\ pass.snap \in Resources
    BY <1>8, PassType DEF TypeOK
  <2>2. LatePatch'
    BY <1>8, <2>1 DEF LatePatch, Patch
  <2>3. QED
    BY <2>2 DEF LateOK
<1>9. CASE pass.pc = "ready" /\ late' = Patch("True", "Reconciled", "all")
  BY <1>8, <1>9 DEF Reasons, Messages
<1>10. CASE pass.pc = "fail" /\ late' = Patch("False", pass.reason, pass.message)
  <2>1. pass.reason \in Reasons /\ pass.message \in Messages
    BY <1>10, PassType DEF TypeOK, Passes
  <2>2. QED
    BY <1>8, <1>10, <2>1
<1>11. QED
  BY <1>1, <1>4, <1>5, <1>6, <1>7, <1>9, <1>10 DEF InFlight

-----------------------------------------------------------------------------
(* What it does when it takes effect.                                      *)

\* A late write of a resource changes its finalizer only for what it replaces.
LandsOnResource(id, obj) ==
    /\ server[id] # Absent
    /\ obj # Absent => /\ obj.spec \in {server[id].spec, Written(server[id].spec)}
                       /\ obj.uid = server[id].uid /\ obj.del = server[id].del
    /\ \/ obj # Absent /\ obj.fin = server[id].fin
       \/ /\ LateGuard /\ late.id = id /\ late.base = server[id]
          /\ obj # Absent /\ obj.fin
       \/ /\ LateRelease /\ late.id = id /\ late.base = server[id]
          /\ obj # Absent => ~obj.fin

LandsOnKey(id, obj) ==
    IF obj = Absent THEN late.verb = "delete" ELSE OwnerKept(id, server[id], obj)

Lands(id, obj) ==
    /\ PutIfChanged(id, obj)
    /\ id \in CRs => LandsOnResource(id, obj)
    /\ id \in Keys => LandsOnKey(id, obj)

LEMMA LandWrites ==
    ASSUME TypeOK, LateOK, Land
    PROVE  \E id \in Ids : \E obj \in Versions(id) : Lands(id, obj)
<1>1. ASSUME LateResourceWrite
      PROVE  \E id \in Ids : \E obj \in Versions(id) : Lands(id, obj)
  <2>1. PICK id \in CRs, base \in Resources, obj \in Resources \cup {Absent} :
            /\ late = Write(id, base, obj)
            /\ obj # Absent => /\ obj.spec = Written(base.spec)
                               /\ obj.uid = base.uid /\ obj.del = base.del
    BY <1>1 DEF LateResourceWrite
  <2>2. /\ late.verb = "write" /\ late.id = id /\ late.base = base /\ late.obj = obj
        /\ server[id] = base /\ PutIfChanged(id, obj)
    BY <2>1 DEF Land, Write
  <2>3. LateGuard \/ LateRelease
    BY <2>2 DEF LateGuard, LateRelease
  <2>4. LateGuard => obj # Absent /\ obj.fin
    BY <2>2 DEF LateGuard
  <2>5. LateRelease => (obj # Absent => ~obj.fin)
    BY <2>2 DEF LateRelease
  <2>6. LandsOnResource(id, obj)
    BY <2>1, <2>2, <2>3, <2>4, <2>5, SentinelAssumption DEF LandsOnResource
  <2>7. QED
    BY <2>1, <2>2, <2>6, IdTypes DEF Lands
<1>2. ASSUME LateObjectWrite
      PROVE  \E id \in Ids : \E obj \in Versions(id) : Lands(id, obj)
  <2>0. PICK id \in Keys, base \in Objects \cup {Absent} :
            \E obj \in ObjectsOf(id.kind) :
                late = Write(id, base, obj) /\ OwnerKept(id, base, obj)
    BY <1>2 DEF LateObjectWrite
  <2>1. PICK obj \in ObjectsOf(id.kind) :
            late = Write(id, base, obj) /\ OwnerKept(id, base, obj)
    BY <2>0
  <2>2. server[id] = base /\ PutIfChanged(id, obj)
    BY <2>1 DEF Land, Write
  <2>3. LandsOnKey(id, obj)
    BY <2>1, <2>2, IdTypes DEF LandsOnKey
  <2>4. QED
    BY <2>1, <2>2, <2>3, IdTypes DEF Lands
<1>3. ASSUME LateDelete
      PROVE  \E id \in Ids : \E obj \in Versions(id) : Lands(id, obj)
  <2>1. PICK id \in Keys : late = Delete(id)
    BY <1>3 DEF LateDelete
  <2>2. late.verb = "delete" /\ PutIfChanged(id, Absent)
    BY <2>1 DEF Land, Delete
  <2>3. QED
    BY <2>1, <2>2, IdTypes DEF Lands, LandsOnKey
<1>4. ASSUME LatePatch
      PROVE  \E id \in Ids : \E obj \in Versions(id) : Lands(id, obj)
  <2>1. PICK id \in CRs, snap \in Resources, status \in {"True", "False"},
             reason \in Reasons, message \in Messages :
            late = [verb |-> "patch", id |-> id, snap |-> snap, status |-> status,
                    reason |-> reason, message |-> message]
    BY <1>4 DEF LatePatch
  <2>2. /\ server[id] # Absent
        /\ PutIfChanged(id, StatusPatched(server[id], snap, status, reason, message))
    BY <2>1 DEF Land
  <2>3. server[id] \in Resources
    BY <2>1, <2>2, IdTypes DEF TypeOK, StoreOK
  <2>4. PICK obj \in Resources :
            obj = StatusPatched(server[id], snap, status, reason, message)
    BY <2>1, <2>3, StatusPatchedType
  <2>5. /\ obj.spec = server[id].spec /\ obj.uid = server[id].uid
        /\ obj.del = server[id].del /\ obj.fin = server[id].fin
    BY <2>3, <2>4, StatusPatchedKeeps
  <2>6. LandsOnResource(id, obj)
    BY <2>2, <2>5, SentinelAssumption DEF LandsOnResource
  <2>7. QED
    BY <2>1, <2>2, <2>4, <2>6, IdTypes DEF Lands
<1>5. QED
  BY <1>1, <1>2, <1>3, <1>4 DEF LateOK, Land

\* To the store it is one more write.
LEMMA LandIsPut ==
    ASSUME TypeOK, LateOK, Land
    PROVE  PutStep /\ TypeOK'
<1>1. PICK id \in Ids : \E obj \in Versions(id) : Lands(id, obj)
  BY LandWrites
<1>2. PICK obj \in Versions(id) : PutIfChanged(id, obj)
  BY <1>1 DEF Lands
<1>3. PutStep
  BY <1>2 DEF PutIfChanged, PutStep
<1>4. StoreOK'
  BY <1>2, PutIfChangedType DEF TypeOK
<1>5. QED
  BY <1>3, <1>4 DEF Land, reconcilerVars, TypeOK, PassOK

LEMMA LandKeepsSpec ==
    ASSUME TypeOK, LateOK, Land, NEW c \in CRs,
           server[c] # Absent, server'[c] # Absent
    PROVE  SpecStays(c)
<1>1. PICK id \in Ids : \E obj \in Versions(id) : Lands(id, obj)
  BY LandWrites
<1>2. PICK obj \in Versions(id) : Lands(id, obj)
  BY <1>1
<1>3. CASE UNCHANGED apiVars
  BY <1>3 DEF apiVars, SpecStays
<1>4. CASE Put(id, obj)
  <2>1. c \in Ids
    BY IdTypes
  <2>2. c # id => server'[c] = server[c]
    BY <1>4, <2>1, PutEffect DEF Untouched, TypeOK
  <2>3. c = id => server'[c] = obj
    BY <1>4, <2>1, PutEffect DEF TypeOK
  <2>4. QED
    BY <1>2, <2>2, <2>3 DEF Lands, LandsOnResource, SpecStays
<1>5. QED
  BY <1>2, <1>3, <1>4 DEF Lands, PutIfChanged

\* The reconciler rests while the late request lands, and is woken by it.
LEMMA LandWakes ==
    ASSUME TypeOK, CacheFollows, NothingForgotten, LateOK, Land
    PROVE  NothingForgotten'
<1>1. SUFFICES ASSUME NEW c \in CRs, server'[c] # Absent,
                      ~(c \in queue'), watch'[c] = << >>
               PROVE  InHand(c)' \/ Settled(c)'
  BY DEF NothingForgotten
<1>2. WakeEffect
  BY LandIsPut, PutWakes DEF TypeOK
<1>3. server[c] # Absent /\ server'[c] = server[c] /\ watch[c] = << >>
  BY <1>1, <1>2, StoredBefore
<1>4. pass' = pass /\ queue' = queue
  BY DEF Land, reconcilerVars
<1>5. InHand(c) \/ Settled(c)
  BY <1>1, <1>3, <1>4 DEF NothingForgotten
<1>6. QED
  BY <1>1, <1>2, <1>3, <1>4, <1>5, RestsAwake

-----------------------------------------------------------------------------
(* The composition.                                                        *)

HandoverInv == TypeOK /\ CacheFollows /\ NothingForgotten /\ LateOK

\* A step is one of the operator, or the late request's effect.
LEMMA HandoverStep ==
    ASSUME HandoverInv, [HandoverNext]_handoverVars
    PROVE  ([Next]_vars \/ Land) /\ LateOK'
<1>1. CASE late' = late /\ [Next]_vars
  BY <1>1 DEF HandoverInv, LateOK, LateResourceWrite, LateObjectWrite, LateDelete,
              LatePatch
<1>2. CASE HandOver
  <2>1. Next
    BY <1>2 DEF HandOver, Next, Controller
  <2>2. QED
    BY <1>2, <2>1, InFlightType DEF HandOver, HandoverInv
<1>3. CASE Land
  BY <1>3 DEF Land, LateOK
<1>4. CASE Vanish
  BY <1>4 DEF Vanish, LateOK
<1>5. QED
  BY <1>1, <1>2, <1>3, <1>4 DEF HandoverNext, handoverVars

LEMMA HandoverInvStep ==
    ASSUME HandoverInv, [HandoverNext]_handoverVars
    PROVE  HandoverInv'
<1>1. CASE [Next]_vars
  <2>1. TypeOK'
    BY <1>1, TypeStep DEF HandoverInv
  <2>2. CacheFollows'
    BY <1>1, StepIsStoreStep, CacheFollowsStep DEF HandoverInv, TypeOK
  <2>3. NothingForgotten'
    BY <1>1, AwakeStep DEF HandoverInv, NothingForgotten
  <2>4. QED
    BY <2>1, <2>2, <2>3, HandoverStep DEF HandoverInv
<1>2. CASE Land
  <2>1. PutStep /\ TypeOK'
    BY <1>2, LandIsPut DEF HandoverInv
  <2>2. CacheFollows'
    BY <2>1, CacheFollowsStep DEF HandoverInv, TypeOK, StoreStep
  <2>3. NothingForgotten'
    BY <1>2, LandWakes DEF HandoverInv
  <2>4. QED
    BY <2>1, <2>2, <2>3, HandoverStep DEF HandoverInv
<1>3. QED
  BY <1>1, <1>2, HandoverStep

LEMMA HandoverInvHolds == HandoverSpec => []HandoverInv
<1>1. HandoverInit => HandoverInv
  <2>1. Init => CacheFollows
    BY DEF Init, CacheFollows
  <2>2. Init => NothingForgotten
    BY IdTypes DEF Init, NothingForgotten
  <2>3. QED
    BY <2>1, <2>2, TypeInit DEF HandoverInit, HandoverInv, LateOK
<1>2. QED
  BY <1>1, HandoverInvStep, PTL DEF HandoverSpec

\* A request that a dead process has left behind does not make the new one
\* forget a resource: when nothing more is to be delivered or done, all is as
\* the specs ask for.  Whatever that request was, and however late it lands.
THEOREM QuietAfterHandover == HandoverSpec => []QuietMeansApplied
<1>1. HandoverInv => QuietMeansApplied
  BY QuietIsSettled DEF HandoverInv
<1>2. QED
  BY <1>1, HandoverInvHolds, PTL

\* Nor does it undo an edit that was made after it was sent.
THEOREM EditsOutliveHandover == HandoverSpec => NoLostEdit
<1>1. ASSUME HandoverInv, [HandoverNext]_handoverVars, NEW c \in CRs,
             server[c] # Absent, server'[c] # Absent, spent'.edits = spent.edits
      PROVE  Asks(c, server'[c].spec) \in
                {Asks(c, server[c].spec), Asks(c, WithoutEmptyData(server[c].spec))}
  <2>1. server[c].spec \in Specs
    BY <1>1, IdTypes DEF HandoverInv, TypeOK, StoreOK, Resources
  <2>2. Asks(c, Written(server[c].spec)) = Asks(c, WithoutEmptyData(server[c].spec))
    BY <2>1, WrittenIsAlike, AlikeAsks
  <2>3. SpecStays(c)
    BY <1>1, HandoverStep, OnlyUsersEdit, LandKeepsSpec DEF HandoverInv
  <2>4. QED
    BY <2>2, <2>3 DEF SpecStays
<1>2. HandoverInv /\ [HandoverNext]_handoverVars =>
        [\A c \in CRs :
            /\ server[c] # Absent /\ server'[c] # Absent
            /\ server'[c].uid = server[c].uid
            /\ spent'.edits = spent.edits
            => Asks(c, server'[c].spec) \in
                  {Asks(c, server[c].spec), Asks(c, WithoutEmptyData(server[c].spec))}]_vars
  BY <1>1
<1>3. QED
  BY <1>2, HandoverInvHolds, PTL DEF HandoverSpec, NoLostEdit

-----------------------------------------------------------------------------
(* What the late request does to a resource and to a managed object.       *)

LEMMA LandIsPaced ==
    ASSUME TypeOK, Land
    PROVE  Paced
<1>1. pass' = pass /\ spent' = spent
  BY DEF Land, reconcilerVars
<1>2. spent.uid \in Nat
  BY DEF TypeOK, Bounds
<1>3. pass'.pc = "idle" \/ Continued
  BY <1>1 DEF Continued
<1>4. QED
  BY <1>1, <1>2, <1>3 DEF Paced

\* The late request that changes whether c is guarded.
Adds(c)    == LateGuard /\ late.id = c /\ late.base = server[c]
Removes(c) == LateRelease /\ late.id = c /\ late.base = server[c]

LEMMA LandEffect ==
    ASSUME TypeOK, LateOK, LateIsDue, Land, NEW c \in CRs
    PROVE  /\ Effect(c)
           /\ Gains(c) => /\ Adds(c) /\ server[c] \in Resources
                          /\ ~server[c].del /\ ~server'[c].del
           /\ Loses(c) => Removes(c) /\ server[c] \in Resources
<1>1. PICK id \in Ids : \E obj \in Versions(id) : Lands(id, obj)
  BY LandWrites
<1>2. PICK obj \in Versions(id) : Lands(id, obj)
  BY <1>1
<1>3. c \in Ids /\ (server[c] # Absent => server[c] \in Resources)
  BY IdTypes DEF TypeOK, StoreOK
<1>4. CASE Untouched(c)
  BY <1>4 DEF Effect, Gains, Loses, Untouched, Guarded
<1>5. CASE Put(id, obj) /\ c = id
  <2>1. server'[c] = obj /\ Stored(c)
    BY <1>3, <1>5, PutEffect DEF TypeOK
  <2>2. LandsOnResource(c, obj)
    BY <1>2, <1>5 DEF Lands
  <2>3. server[c] # Absent /\ server[c] \in Resources
    BY <1>3, <2>2 DEF LandsOnResource
  <2>4. CASE obj # Absent /\ obj.fin = server[c].fin
    <3>1. Kept(c)
      BY <2>1, <2>2, <2>4 DEF LandsOnResource, Kept
    <3>2. ~Gains(c) /\ ~Loses(c)
      BY <2>1, <2>3, <2>4 DEF Gains, Loses, Guarded
    <3>3. QED
      BY <2>1, <3>1, <3>2 DEF Effect, Changed
  <2>5. CASE Adds(c) /\ obj # Absent /\ obj.fin
    <3>1. Kept(c)
      BY <2>1, <2>2, <2>5 DEF LandsOnResource, Kept
    <3>2. ~server[c].del /\ ~server'[c].del
      BY <2>1, <2>2, <2>5 DEF Adds, LateIsDue, LandsOnResource
    <3>3. ~Loses(c)
      BY <2>1, <2>5 DEF Loses, Guarded
    <3>4. QED
      BY <2>1, <2>3, <2>5, <3>1, <3>2, <3>3 DEF Effect, Changed
  <2>6. CASE Removes(c) /\ (obj # Absent => ~obj.fin)
    <3>1. /\ server[c].del /\ \A v \in Copies(c) : After(server[c], v)
          /\ pass.pc # "idle" /\ pass.cr = c => After(server[c], pass.snap)
      BY <2>6 DEF Removes, LateIsDue
    <3>2. Released(c)
      BY <2>1, <2>2, <2>3, <2>6, <3>1 DEF LandsOnResource, Released
    <3>3. ~Gains(c)
      BY <2>1, <2>6 DEF Gains, Guarded
    <3>4. QED
      BY <2>1, <2>3, <2>6, <3>2, <3>3 DEF Effect, Changed
  <2>7. QED
    BY <2>2, <2>4, <2>5, <2>6 DEF LandsOnResource, Adds, Removes
<1>6. QED
  BY <1>2, <1>3, <1>4, <1>5, PutEffect, UnchangedEffect
  DEF Lands, PutIfChanged, TypeOK

LEMMA LandOnKey ==
    ASSUME TypeOK, LateOK, Land, NEW key \in Keys
    PROVE  server'[key] = server[key] \/ LandsOnKey(key, server'[key])
<1>1. PICK id \in Ids : \E obj \in Versions(id) : Lands(id, obj)
  BY LandWrites
<1>2. PICK obj \in Versions(id) : Lands(id, obj)
  BY <1>1
<1>3. CASE UNCHANGED apiVars
  BY <1>3 DEF apiVars
<1>4. CASE Put(id, obj)
  BY <1>2, <1>4, IdTypes, PutEffect DEF Lands, Untouched, TypeOK
<1>5. QED
  BY <1>2, <1>3, <1>4 DEF Lands, PutIfChanged

\* A request that changes a resource changes no object, and no other resource.
LEMMA LandIsAlone ==
    ASSUME TypeOK, LateOK, Land, NEW c \in CRs, Loses(c)
    PROVE  /\ \A key \in Keys : server'[key] = server[key]
           /\ \A d \in CRs : d # c => server'[d] = server[d]
<1>1. c \in Ids /\ server'[c] # server[c]
  BY IdTypes DEF Loses, Guarded
<1>2. PICK id \in Ids : \A x \in Ids : x # id => server'[x] = server[x]
  BY <1>1, LandIsPut, OneWrite DEF StoreStep, TypeOK
<1>3. id = c
  BY <1>1, <1>2
<1>4. QED
  BY <1>2, <1>3, IdTypes

-----------------------------------------------------------------------------
(* SuccessionInv is inductive.                                             *)

\* A resource that is stored as the late Update knows it was so before.
LEMMA MeantBefore ==
    ASSUME TypeOK, NEW c \in CRs, Effect(c), NEW uid \in Nat, uid <= spent.uid,
           server'[c] # Absent, server'[c].uid = uid
    PROVE  server[c] # Absent /\ server[c].uid = uid
<1>1. server'[c] = server[c] \/ Changed(c)
  BY CopiesEffect DEF TypeOK
<1>2. spent.uid \in Nat
  BY DEF TypeOK, Bounds
<1>3. QED
  BY <1>1, <1>2 DEF Changed, Created, Kept, Dropped, Released

\* What a running pass has read of c is a copy, or was read before.
LEMMA PassReads ==
    ASSUME Paced, NEW c, pass'.pc # "idle", pass'.cr = c
    PROVE  \/ pass'.snap \in Copies(c)' /\ pass'.snap # Absent
           \/ pass.pc # "idle" /\ pass.cr = c /\ pass'.snap = pass.snap
BY DEF Paced, Begun, Continued, Copies, apiVars

LEMMA LateType ==
    ASSUME LateOK, LateGuard \/ LateRelease
    PROVE  late.id \in CRs /\ late.base \in Resources /\ late.base.uid \in Nat
<1>1. late.verb = "write" /\ late.id \in CRs
  BY DEF LateGuard, LateRelease
<1>2. ~LateObjectWrite
  BY <1>1, IdTypes DEF LateObjectWrite, Write
<1>3. LateResourceWrite
  BY <1>1, <1>2 DEF LateOK, NoRequest, LateDelete, Delete, LatePatch
<1>4. QED
  BY <1>3 DEF LateResourceWrite, Write, Resources

\* While the request is on its way, what it rests on stays true.
LEMMA DueWaits ==
    ASSUME TypeOK, LateOK, LateIsDue, Paced, \A c \in CRs : Effect(c), late' = late
    PROVE  LateIsDue'
<1>1. CASE ~LateGuard /\ ~LateRelease
  BY <1>1 DEF LateIsDue, LateGuard, LateRelease
<1>2. CASE LateGuard \/ LateRelease
  <2>1. PICK c \in CRs : c = late.id
    BY <1>2, LateType
  <2>2. PICK base \in Resources : base = late.base
    BY <1>2, LateType
  <2>3. /\ base.uid \in Nat /\ base.uid <= spent.uid /\ base.uid <= spent'.uid
        /\ spent.uid \in Nat
    BY <1>2, <2>2, LateType DEF LateIsDue, Paced
  <2>4. /\ LateGuard' <=> LateGuard
        /\ LateRelease' <=> LateRelease
        /\ LateIsMeant <=> server[c] # Absent /\ server[c].uid = base.uid
        /\ LateIsMeant' <=> server'[c] # Absent /\ server'[c].uid = base.uid
    BY <2>1, <2>2 DEF LateGuard, LateRelease, LateIsMeant
  <2>5. ASSUME LateGuard, server'[c] # Absent, server'[c].uid = base.uid
        PROVE  /\ \A v \in Copies(c)' : v # Absent /\ v.uid = base.uid
               /\ pass'.pc # "idle" /\ pass'.cr = c => pass'.snap.uid = base.uid
    <3>1. server[c] # Absent /\ server[c].uid = base.uid
      BY <2>3, <2>5, MeantBefore
    <3>2. /\ SeenAs(c, base.uid)
          /\ pass.pc # "idle" /\ pass.cr = c => pass.snap.uid = base.uid
      BY <2>1, <2>2, <2>4, <2>5, <3>1 DEF LateIsDue
    <3>3. \A v \in Copies(c)' : v # Absent /\ v.uid = base.uid
      BY <2>5, <3>2, SeenStep
    <3>4. QED
      BY <3>2, <3>3, PassReads
  <2>6. ASSUME LateRelease
        PROVE  /\ \A v \in Copies(c)' : After(base, v)
               /\ pass'.pc # "idle" /\ pass'.cr = c => After(base, pass'.snap)
    <3>1. /\ \A v \in Copies(c) : After(base, v)
          /\ pass.pc # "idle" /\ pass.cr = c => After(base, pass.snap)
      BY <2>1, <2>2, <2>6 DEF LateIsDue
    <3>2. /\ \A v \in Copies(c)' : v \in Copies(c) \/ v = server'[c]
          /\ server'[c] = server[c] \/ Changed(c)
      BY CopiesEffect DEF TypeOK
    <3>3. After(base, server'[c])
      BY <2>3, <3>1, <3>2, StaysAfter DEF Copies
    <3>4. \A v \in Copies(c)' : After(base, v)
      BY <3>1, <3>2, <3>3
    <3>5. QED
      BY <3>1, <3>4, PassReads
  <2>7. /\ LateGuard => ~base.del
        /\ LateRelease => base.del
    BY <2>2 DEF LateIsDue
  <2>8. /\ SeenAs(late.id, late.base.uid)' <=>
              \A v \in Copies(c)' : v # Absent /\ v.uid = base.uid
        /\ (\A v \in Copies(late.id) : After(late.base, v))' <=>
              \A v \in Copies(c)' : After(base, v)
    BY <2>1, <2>2 DEF SeenAs, Copies
  <2>9. QED
    BY <2>1, <2>2, <2>3, <2>4, <2>5, <2>6, <2>7, <2>8 DEF LateIsDue
<1>3. QED
  BY <1>1, <1>2

\* A process that goes leaves a request that rests on what it had read.
LEMMA DueStarts ==
    ASSUME TypeOK, UidsAreSpent, PassHasRead, GuardIsSeen, HandOver
    PROVE  LateIsDue'
<1>1. /\ late' = InFlight /\ pass'.pc = "idle" /\ server' = server
      /\ \A c \in CRs : Relisted(c)
  BY IdTypes DEF HandOver, Restart, Relist, Idle, TypeOK, StoreOK, Relisted
<1>2. \A c \in CRs : \A v \in Copies(c)' : v = server[c]
  BY <1>1 DEF Copies, Relisted
<1>3. spent'.uid = spent.uid /\ spent.uid \in Nat
  BY DEF HandOver, Spend, TypeOK, Bounds
<1>4. ASSUME NEW fin \in BOOLEAN, NEW obj, SnapshotIsCurrent,
             late' = Write(pass.cr, pass.snap, obj), pass.pc # "idle",
             IF fin THEN obj # Absent /\ obj.fin /\ ~pass.snap.del
                    ELSE (obj # Absent => ~obj.fin) /\ pass.snap.del
      PROVE  LateIsDue'
  <2>1. PICK c \in CRs : c = pass.cr
    BY <1>4, PassType DEF TypeOK
  <2>2. PICK base \in Resources : base = pass.snap
    BY <1>4, PassType DEF TypeOK
  <2>3. /\ late'.verb = "write" /\ late'.id = c /\ late'.base = base
        /\ late'.obj = obj
    BY <1>4, <2>1, <2>2 DEF Write
  <2>4. server[c] = base /\ base # Absent /\ base.uid <= spent.uid
    BY <1>4, <2>1, <2>2, SentinelAssumption DEF SnapshotIsCurrent, UidsAreSpent
  <2>5. /\ LateGuard' <=> fin
        /\ LateRelease' <=> ~fin
    BY <1>4, <2>3 DEF LateGuard, LateRelease
  <2>6. /\ fin => ~base.del
        /\ ~fin => base.del
    BY <1>4, <2>2
  <2>7. \A v \in Copies(c)' : v # Absent /\ v.uid = base.uid /\ After(base, v)
    BY <1>2, <2>4 DEF After
  <2>8. /\ SeenAs(late.id, late.base.uid)'
        /\ (\A v \in Copies(late.id) : After(late.base, v))'
    BY <2>3, <2>7 DEF SeenAs, Copies
  <2>9. QED
    BY <1>1, <1>3, <2>3, <2>4, <2>5, <2>6, <2>8 DEF LateIsDue
<1>5. ASSUME late'.verb # "write" \/ late'.id \notin CRs
      PROVE  LateIsDue'
  BY <1>5 DEF LateIsDue, LateGuard, LateRelease
<1>6. CASE /\ pass.pc = "guard" /\ SnapshotIsCurrent
           /\ late' = Write(pass.cr, pass.snap, Rewritten(pass.snap, TRUE))
  <2>1. Rewritten(pass.snap, TRUE).fin /\ Rewritten(pass.snap, TRUE) # Absent
    BY <1>6, PassType, RewrittenType, SentinelAssumption DEF TypeOK
  <2>2. ~pass.snap.del
    BY <1>6 DEF GuardIsSeen
  <2>3. QED
    BY <1>4, <1>6, <2>1, <2>2
<1>7. CASE /\ pass.pc = "release" /\ SnapshotIsCurrent
           /\ late' = Write(pass.cr, pass.snap,
                 IF pass.snap.held THEN Rewritten(pass.snap, FALSE) ELSE Absent)
  <2>1. ~Rewritten(pass.snap, FALSE).fin
    BY <1>7, PassType, RewrittenType DEF TypeOK
  <2>2. pass.snap.del
    BY <1>7 DEF PassHasRead
  <2>3. QED
    BY <1>4, <1>7, <2>1, <2>2
<1>8. CASE pass.pc = "apply" /\ late' = Write(StepKey, Have, Want)
  <2>1. StepKey \notin CRs
    BY <1>8, WriteKeys, IdTypes DEF TypeOK
  <2>2. QED
    BY <1>5, <1>8, <2>1 DEF Write
<1>9. CASE \/ late' = NoRequest \/ late' = Delete(CleanupKey)
           \/ \E status, reason, message : late' = Patch(status, reason, message)
  BY <1>5, <1>9 DEF NoRequest, Delete, Patch
<1>10. QED
  BY <1>1, <1>6, <1>7, <1>8, <1>9 DEF InFlight

LEMMA LandKeepsLife ==
    ASSUME TypeOK, LateOK, SuccessionInv, Land
    PROVE  (GuardIsSeen /\ CleanupIsDue /\ RBACHasNoOwner /\ LateIsDue)'
<1>1. Paced /\ \A c \in CRs : Effect(c)
  BY LandIsPaced, LandEffect DEF SuccessionInv
<1>2. ASSUME NEW c \in CRs, Gains(c)
      PROVE  /\ server[c] # Absent /\ SeenAs(c, server[c].uid) /\ ~server[c].del
             /\ pass.pc # "idle" /\ pass.cr = c => pass.snap.uid = server[c].uid
  <2>1. Adds(c) /\ server[c] # Absent /\ ~server[c].del
    BY <1>2, LandEffect, SentinelAssumption DEF SuccessionInv
  <2>2. LateGuard /\ LateIsMeant
    BY <2>1 DEF Adds, LateIsMeant
  <2>3. QED
    BY <2>1, <2>2 DEF Adds, LateIsDue, SuccessionInv
<1>3. GuardIsSeen'
  <2>1. pass' = pass
    BY DEF Land, reconcilerVars
  <2>2. QED
    BY <1>1, <1>2, <2>1, GuardSeenStep DEF GuardBegun, CopiesInv, SuccessionInv
<1>4. CleanupIsDue'
  <2>1. ASSUME pass.pc \in {"cleanup", "release"}, Gains(pass.cr)
        PROVE  FALSE
    <3>1. pass.cr \in CRs /\ pass.snap # Absent
      BY <2>1, PassType, SentinelAssumption DEF TypeOK
    <3>2. \A c \in CRs : c = pass.cr => Gains(c)
      BY <2>1 DEF Gains, Guarded, Land, reconcilerVars
    <3>3. /\ server[pass.cr] # Absent /\ ~server[pass.cr].del
          /\ pass.snap.uid = server[pass.cr].uid
      BY <1>2, <2>1, <3>1, <3>2
    <3>4. pass.snap.del /\ After(pass.snap, server[pass.cr])
      BY <2>1 DEF SuccessionInv, CopiesInv, PassHasRead, Copies
    <3>5. QED
      BY <3>1, <3>3, <3>4 DEF After
  <2>2. QED
    BY <1>1, <2>1, CleanupDueStep DEF CopiesInv, SuccessionInv
<1>5. RBACHasNoOwner'
  BY LandOnKey DEF RBACHasNoOwner, LandsOnKey, OwnerKept, SuccessionInv
<1>6. LateIsDue'
  BY DEF Land, LateIsDue, LateGuard, LateRelease, NoRequest
<1>7. QED
  BY <1>3, <1>4, <1>5, <1>6

LEMMA SuccessionStep ==
    ASSUME HandoverInv, SuccessionInv, [HandoverNext]_handoverVars
    PROVE  SuccessionInv'
<1>1. CacheFollows'
  BY HandoverInvStep DEF HandoverInv
<1>2. CASE [Next]_vars
  <2>1. Paced /\ \A c \in CRs : Effect(c)
    BY <1>2, StepIsPaced, StepEffect DEF HandoverInv, SuccessionInv, CopiesInv
  <2>2. CopiesInv'
    BY <2>1, CopiesInvStep DEF HandoverInv, SuccessionInv
  <2>3. (GuardIsSeen /\ CleanupIsDue)'
    BY <1>2, LifeInvStep DEF HandoverInv, SuccessionInv
  <2>4. RBACHasNoOwner'
    BY <1>2, RBACOwnerStep DEF HandoverInv, SuccessionInv
  <2>5. LateIsDue'
    <3>1. CASE late' = late
      BY <2>1, <3>1, DueWaits DEF HandoverInv, SuccessionInv
    <3>2. CASE HandOver
      BY <3>2, DueStarts DEF HandoverInv, SuccessionInv, CopiesInv
    <3>3. CASE Land \/ Vanish
      BY <3>3 DEF Land, Vanish, LateIsDue, LateGuard, LateRelease, NoRequest
    <3>4. QED
      BY <3>1, <3>2, <3>3 DEF HandoverNext, handoverVars
  <2>6. QED
    BY <1>1, <2>2, <2>3, <2>4, <2>5 DEF SuccessionInv
<1>3. CASE Land
  <2>1. CopiesInv'
    BY <1>3, LandIsPaced, LandEffect, CopiesInvStep DEF HandoverInv, SuccessionInv
  <2>2. QED
    BY <1>1, <1>3, <2>1, LandKeepsLife DEF HandoverInv, SuccessionInv
<1>4. QED
  BY <1>2, <1>3, HandoverStep

\* Whatever Update its predecessor has left, the new process never holds a copy
\* that could lead it to create for an unguarded resource or to delete for a
\* living one: by the time a late Update adds a finalizer, all that the new
\* process knows is of that resource, and by the time one removes it, all that
\* the new process knows of it is deleted.
THEOREM SuccessionHolds == HandoverSpec => []SuccessionInv
<1>1. HandoverInit => SuccessionInv
  <2>1. Init => CopiesInv /\ CacheFollows /\ GuardIsSeen /\ CleanupIsDue
                /\ RBACHasNoOwner
    BY IdTypes
    DEF Init, ReconcilerInit, Idle, Bounds, CopiesInv, DeletionIsFinal,
        UidsAreSpent, CopiesAreGuarded, PassHasRead, Copies, After,
        CacheFollows, GuardIsSeen, CleanupIsDue, RBACHasNoOwner, Guarded
  <2>2. HandoverInit => LateIsDue
    BY DEF HandoverInit, NoRequest, LateIsDue, LateGuard, LateRelease
  <2>3. QED
    BY <2>1, <2>2 DEF HandoverInit, SuccessionInv
<1>2. HandoverInv /\ SuccessionInv /\ [HandoverNext]_handoverVars => SuccessionInv'
  BY SuccessionStep
<1>3. QED
  BY <1>1, <1>2, HandoverInvHolds, PTL DEF HandoverSpec

-----------------------------------------------------------------------------
(* What follows for the objects.                                           *)

LEMMA LandKeepsLivingRBAC ==
    ASSUME TypeOK, LateOK, Land, late.verb = "delete" => late' = late,
           NEW key \in Keys, server[key] # Absent
    PROVE  server'[key] # Absent
<1>1. late.verb # "delete"
  BY DEF Land, NoRequest
<1>2. QED
  BY <1>1, LandOnKey DEF LandsOnKey

\* The late Delete is the only request by which a predecessor takes a
\* cluster-scoped object from a living resource: no cleanup of the new process
\* does, whatever Update it was overtaken by.
THEOREM LivingRBACOutlivesIt ==
    ASSUME RBACKeysApart
    PROVE  HandoverSpec => LivingRBACOutlivesHandover
<1>1. ASSUME HandoverInv, SuccessionInv, [HandoverNext]_handoverVars,
             NEW c \in CRs, NEW step \in ClusterSteps,
             Guarded(c), ~server[c].del,
             server[Key(step, c, server[c].spec)] # Absent,
             spent'.drifts = spent.drifts,
             late.verb = "delete" => late' = late
      PROVE  server'[Key(step, c, server[c].spec)] # Absent
  <2>1. CASE [Next]_vars
    BY <1>1, <2>1, LivingStep DEF HandoverInv, SuccessionInv
  <2>2. CASE Land
    <3>1. server[c].spec \in Specs
      BY <1>1, IdTypes DEF Guarded, HandoverInv, TypeOK, StoreOK, Resources
    <3>2. Key(step, c, server[c].spec) \in Keys
      BY <3>1, KeyType
    <3>3. QED
      BY <1>1, <2>2, <3>2, LandKeepsLivingRBAC DEF HandoverInv
  <2>3. QED
    BY <1>1, <2>1, <2>2, HandoverStep
<1>2. HandoverInv /\ SuccessionInv /\ [HandoverNext]_handoverVars =>
        [\A c \in CRs, step \in ClusterSteps :
            /\ Guarded(c) /\ ~server[c].del
            /\ server[Key(step, c, server[c].spec)] # Absent
            /\ spent'.drifts = spent.drifts
            /\ late.verb = "delete" => late' = late
            => server'[Key(step, c, server[c].spec)] # Absent]_handoverVars
  BY <1>1
<1>3. QED
  BY <1>2, HandoverInvHolds, SuccessionHolds, PTL
  DEF HandoverSpec, LivingRBACOutlivesHandover

\* Nor does a late write take an object over: it was accepted on what it read.
THEOREM NobodyIsRobbedAtHandover == HandoverSpec => NotTakenOver
<1>1. ASSUME HandoverInv, SuccessionInv, [HandoverNext]_handoverVars,
             NEW key \in Keys, server[key] # Absent, server'[key] # Absent,
             server[key].owner # Nobody
      PROVE  server'[key].owner.cr = server[key].owner.cr
  <2>1. CASE [Next]_vars
    BY <1>1, <2>1, OwnerStays DEF HandoverInv, SuccessionInv
  <2>2. CASE Land
    <3>1. key.kind \notin {"ClusterRole", "ClusterRoleBinding"}
      BY <1>1 DEF SuccessionInv, RBACHasNoOwner
    <3>2. QED
      BY <1>1, <2>2, <3>1, LandOnKey DEF HandoverInv, LandsOnKey, OwnerKept
  <2>3. QED
    BY <1>1, <2>1, <2>2, HandoverStep
<1>2. HandoverInv /\ SuccessionInv /\ [HandoverNext]_handoverVars =>
        [\A key \in Keys :
            /\ server[key] # Absent /\ server'[key] # Absent
            /\ server[key].owner # Nobody
            => server'[key].owner.cr = server[key].owner.cr]_vars
  BY <1>1 DEF handoverVars
<1>3. QED
  BY <1>2, HandoverInvHolds, SuccessionHolds, PTL DEF HandoverSpec, NotTakenOver

-----------------------------------------------------------------------------
(* The finalizer's promise, as long as no late request creates a cluster-  *)
(* scoped object.                                                          *)

LateGrant ==
    /\ Land
    /\ \E step \in ClusterSteps, c \in CRs, spec \in Specs :
          server[Key(step, c, spec)] = Absent /\ server'[Key(step, c, spec)] # Absent

\* The names of the cluster-scoped objects keep resources apart, or nobody
\* renames one of a guarded resource; either will do.
NamesAreSound == RBACKeysApart \/ (CopiesAgree /\ ~RenamesRBAC)

\* What the late Update that removes a finalizer leaves behind belongs to
\* another resource that is still guarded.
LateIsClean ==
    LateRelease /\ LateIsMeant =>
        \A step \in ClusterSteps :
            server[Key(step, late.id, late.base.spec)] # Absent =>
                \E d \in CRs \ {late.id} :
                    /\ Guarded(d)
                    /\ Key(step, d, server[d].spec) = Key(step, late.id, late.base.spec)

LEMMA CleanWaits ==
    ASSUME NamesAreSound, TypeOK, LateOK, SuccessionInv, CleanupIsFinal, LateIsClean,
           [Next]_vars, late' = late
    PROVE  LateIsClean'
<1>1. SUFFICES ASSUME LateRelease, LateIsMeant', NEW step \in ClusterSteps,
                      server'[Key(step, late.id, late.base.spec)] # Absent
               PROVE  \E d \in CRs \ {late.id} :
                        /\ Guarded(d)'
                        /\ Key(step, d, server'[d].spec)
                             = Key(step, late.id, late.base.spec)
  BY DEF LateIsClean, LateRelease
<1>2. PICK c \in CRs : c = late.id
  BY <1>1, LateType
<1>3. PICK base \in Resources : base = late.base
  BY <1>1, LateType
<1>4. /\ base.uid \in Nat /\ base.uid <= spent.uid /\ base.spec \in Specs /\ base.del
      /\ base # Absent
  BY <1>1, <1>3, LateType, SentinelAssumption
  DEF SuccessionInv, LateIsDue, Resources
<1>5. Effect(c)
  BY <1>1, StepEffect DEF SuccessionInv, CopiesInv
<1>6. server[c] # Absent /\ server[c].uid = base.uid
  BY <1>1, <1>2, <1>3, <1>4, <1>5, MeantBefore DEF LateIsMeant
<1> DEFINE key == Key(step, c, base.spec)
<1>7. CASE server[key] # Absent
  <2>1. PICK d \in CRs \ {c} : Guarded(d) /\ Key(step, d, server[d].spec) = key
    BY <1>1, <1>2, <1>3, <1>6, <1>7 DEF LateIsClean, LateIsMeant
  <2>2. server[d].spec \in Specs
    BY <2>1, IdTypes DEF Guarded, TypeOK, StoreOK, Resources
  <2>3. ~RBACKeysApart
    BY <1>4, <2>1, <2>2 DEF RBACKeysApart
  <2>4. Guarded(d)'
    BY <1>7, <2>1, GuardLoss DEF SuccessionInv, CopiesInv
  <2>5. Key(step, d, server'[d].spec) = key
    BY <2>1, <2>3, <2>4 DEF NamesAreSound, RenamesRBAC
  <2>6. QED
    BY <1>2, <1>3, <2>1, <2>4, <2>5
<1>8. CASE server[key] = Absent
  <2>1. server'[key] # Absent
    BY <1>1, <1>2, <1>3
  <2>2. /\ pass.pc = "apply" /\ pass.cr \in CRs /\ pass.snap.spec \in Specs
        /\ GuardedAs(pass.cr, pass.snap.uid)
        /\ \A d \in CRs : server'[d] = server[d]
        /\ Key(step, pass.cr, pass.snap.spec) = key
    BY <1>4, <1>8, <2>1, GrantIsNamed DEF SuccessionInv, CopiesInv
  <2>3. pass.cr # c
    <3>1. ASSUME pass.cr = c
          PROVE  FALSE
      <4>1. pass.snap.uid = base.uid /\ pass.snap # Absent
        BY <1>6, <2>2, <3>1, PassType, SentinelAssumption DEF GuardedAs, TypeOK
      <4>2. After(base, pass.snap)
        BY <1>1, <1>2, <1>3, <2>2, <3>1 DEF SuccessionInv, LateIsDue
      <4>3. ~pass.snap.del
        BY <2>2 DEF SuccessionInv, CopiesInv, PassHasRead
      <4>4. QED
        BY <1>4, <4>1, <4>2, <4>3 DEF After
    <3>2. QED
      BY <3>1
  <2>4. Guarded(pass.cr) /\ \A d \in CRs : Guarded(d) => Guarded(d)'
    BY <2>2 DEF GuardedAs, Guarded
  <2>5. PICK d \in CRs : d = pass.cr
    BY <2>2
  <2>6. ~RBACKeysApart
    BY <1>4, <2>2, <2>3 DEF RBACKeysApart
  <2>7. Key(step, d, server[d].spec) = key
    BY <2>2, <2>5, <2>6 DEF NamesAreSound, CopiesAgree, SameNames
  <2>8. d \in CRs \ {late.id} /\ Guarded(d)' /\ Key(step, d, server'[d].spec) = key
    BY <1>2, <2>2, <2>3, <2>4, <2>5, <2>7
  <2>9. QED
    BY <1>2, <1>3, <2>8
<1>9. QED
  BY <1>7, <1>8

LEMMA CleanStarts ==
    ASSUME TypeOK, CleanupIsFinal, HandOver
    PROVE  LateIsClean'
<1>1. late' = InFlight /\ server' = server
  BY DEF HandOver, Restart, Relist
<1>2. SUFFICES ASSUME LateRelease'
               PROVE  \A step \in ClusterSteps :
                        server[Key(step, late'.id, late'.base.spec)] = Absent
  BY <1>1 DEF LateIsClean
<1>3. ASSUME late'.verb # "write" \/ late'.id \notin CRs
             \/ (late'.obj # Absent /\ late'.obj.fin)
      PROVE  FALSE
  BY <1>2, <1>3 DEF LateRelease
<1>4. CASE /\ pass.pc = "release" /\ SnapshotIsCurrent
           /\ late' = Write(pass.cr, pass.snap,
                 IF pass.snap.held THEN Rewritten(pass.snap, FALSE) ELSE Absent)
  <2>1. late'.id = pass.cr /\ late'.base = pass.snap
    BY <1>4 DEF Write
  <2>2. \A i \in 1..2 : server[Key(CleanupOrder[i], pass.cr, pass.snap.spec)] = Absent
    BY <1>4, CleanupSteps DEF CleanupIsFinal
  <2>3. QED
    BY <2>1, <2>2, CleanupSteps DEF ClusterSteps
<1>5. ASSUME /\ pass.pc = "guard"
             /\ late' = Write(pass.cr, pass.snap, Rewritten(pass.snap, TRUE))
      PROVE  FALSE
  <2>1. Rewritten(pass.snap, TRUE).fin /\ Rewritten(pass.snap, TRUE) # Absent
    BY <1>5, PassType, RewrittenType, SentinelAssumption DEF TypeOK
  <2>2. QED
    BY <1>3, <1>5, <2>1 DEF Write
<1>6. ASSUME pass.pc = "apply" /\ late' = Write(StepKey, Have, Want)
      PROVE  FALSE
  <2>1. StepKey \notin CRs
    BY <1>6, WriteKeys, IdTypes DEF TypeOK
  <2>2. QED
    BY <1>3, <1>6, <2>1 DEF Write
<1>7. ASSUME \/ late' = NoRequest \/ late' = Delete(CleanupKey)
             \/ \E status, reason, message : late' = Patch(status, reason, message)
      PROVE  FALSE
  BY <1>3, <1>7 DEF NoRequest, Delete, Patch
<1>8. QED
  BY <1>1, <1>4, <1>5, <1>6, <1>7 DEF InFlight

CleanInv == CleanupIsFinal /\ LateIsClean

LEMMA CleanStep ==
    ASSUME NamesAreSound, HandoverInv, SuccessionInv, CleanInv,
           [HandoverNext]_handoverVars, ~LateGrant
    PROVE  CleanInv'
<1>1. CASE [Next]_vars
  <2>1. CleanupIsFinal'
    BY <1>1, OwnCleanupStep DEF HandoverInv, CleanInv
  <2>2. CASE late' = late
    BY <1>1, <2>1, <2>2, CleanWaits DEF HandoverInv, CleanInv
  <2>3. CASE HandOver
    BY <2>1, <2>3, CleanStarts DEF HandoverInv, CleanInv
  <2>4. CASE Land \/ Vanish
    BY <2>1, <2>4 DEF Land, Vanish, LateIsClean, LateRelease, NoRequest, CleanInv
  <2>5. QED
    BY <2>2, <2>3, <2>4 DEF HandoverNext, handoverVars
<1>2. CASE Land
  <2>1. CleanupIsFinal'
    BY <1>2, LandIsPaced, CleanupStep DEF HandoverInv, CleanInv, LateGrant
  <2>2. QED
    BY <1>2, <2>1 DEF Land, LateIsClean, LateRelease, NoRequest, CleanInv
<1>3. QED
  BY <1>1, <1>2, HandoverStep

LEMMA CleanHolds ==
    ASSUME RBACKeysApart
    PROVE  HandoverSpec /\ [][~LateGrant]_handoverVars => []CleanInv
<1>1. HandoverInit => CleanInv
  BY IdTypes
  DEF HandoverInit, Init, ReconcilerInit, Idle, NoRequest, CleanInv, CleanupIsFinal,
      LateIsClean, LateRelease
<1>2. HandoverInv /\ SuccessionInv /\ CleanInv /\ [HandoverNext]_handoverVars
        /\ [~LateGrant]_handoverVars => CleanInv'
  <2>1. ASSUME CleanInv, UNCHANGED handoverVars
        PROVE  CleanInv'
    BY <2>1
    DEF handoverVars, vars, CleanInv, CleanupIsFinal, LateIsClean, LateRelease,
        LateIsMeant, Guarded
  <2>2. QED
    BY <2>1, RBACKeysApart, CleanStep DEF NamesAreSound
<1>3. QED
  BY <1>1, <1>2, HandoverInvHolds, SuccessionHolds, PTL DEF HandoverSpec

\* A resource that the late Update releases has been cleaned up.
LEMMA LateLoss ==
    ASSUME HandoverInv, SuccessionInv, CleanInv, Land, NEW c \in CRs, Loses(c)
    PROVE  /\ server[c].spec \in Specs
           /\ \A key \in Keys : server'[key] = server[key]
           /\ \A d \in CRs : d # c => server'[d] = server[d]
           /\ \A step \in ClusterSteps :
                 server[Key(step, c, server[c].spec)] # Absent =>
                    \E d \in CRs \ {c} :
                       /\ Guarded(d) /\ server[d].spec \in Specs
                       /\ Key(step, d, server[d].spec) = Key(step, c, server[c].spec)
<1>1. Removes(c) /\ server[c] \in Resources
  BY LandEffect DEF HandoverInv, SuccessionInv
<1>2. LateRelease /\ LateIsMeant
  BY <1>1, SentinelAssumption DEF Removes, LateIsMeant
<1>3. /\ \A key \in Keys : server'[key] = server[key]
      /\ \A d \in CRs : d # c => server'[d] = server[d]
  BY LandIsAlone DEF HandoverInv
<1>4. \A d \in CRs : Guarded(d) => server[d].spec \in Specs
  BY IdTypes DEF Guarded, HandoverInv, TypeOK, StoreOK, Resources
<1>5. QED
  BY <1>1, <1>2, <1>3, <1>4 DEF Removes, CleanInv, LateIsClean, Resources

\* With names that keep resources apart, nothing of its RBAC is left.
LEMMA LateLossIsClean ==
    ASSUME RBACKeysApart, HandoverInv, SuccessionInv, CleanInv, Land,
           NEW c \in CRs, Loses(c), NEW step \in ClusterSteps
    PROVE  server[Key(step, c, server[c].spec)] = Absent
BY LateLoss DEF RBACKeysApart

\* When a resource loses its finalizer after a hand-over, to the new process or
\* to its predecessor, the cluster-scoped objects that its stored spec names
\* are gone, unless the predecessor's last request was to create one.
THEOREM CleanupBeforeLateRelease ==
    ASSUME RBACKeysApart
    PROVE  HandoverSpec /\ [][~LateGrant]_handoverVars => CleanedBeforeRelease
<1>1. ASSUME HandoverInv, SuccessionInv, CleanInv, [HandoverNext]_handoverVars,
             NEW c \in CRs, Guarded(c), ~Guarded(c)', NEW step \in ClusterSteps
      PROVE  server'[Key(step, c, server[c].spec)] = Absent
  <2>1. CASE [Next]_vars
    BY <1>1, <2>1, GuardLoss
    DEF HandoverInv, SuccessionInv, CopiesInv, CleanInv
  <2>2. CASE Land
    <3>1. Loses(c)
      BY <1>1 DEF Loses
    <3>2. server[Key(step, c, server[c].spec)] = Absent
      BY <1>1, <2>2, <3>1, LateLossIsClean
    <3>3. Key(step, c, server[c].spec) \in Keys
      BY <1>1, <2>2, <3>1, LateLoss, KeyType
    <3>4. QED
      BY <1>1, <2>2, <3>1, <3>2, <3>3, LateLoss
  <2>3. QED
    BY <1>1, <2>1, <2>2, HandoverStep
<1>2. HandoverInv /\ SuccessionInv /\ CleanInv /\ [HandoverNext]_handoverVars =>
        [\A c \in CRs : Guarded(c) /\ ~Guarded(c)' =>
            \A step \in ClusterSteps :
                server'[Key(step, c, server[c].spec)] = Absent]_vars
  BY <1>1
<1>3. QED
  BY <1>2, RBACKeysApart, HandoverInvHolds, SuccessionHolds, CleanHolds, PTL
  DEF HandoverSpec, CleanedBeforeRelease

-----------------------------------------------------------------------------
(* What every cluster-scoped object is named by, as long as nobody renames *)
(* one of a guarded resource, either.                                      *)

\* What a late release leaves is named by another stored resource.
LEMMA LateNamedStep ==
    ASSUME HandoverInv, SuccessionInv, CleanInv, NamedByStored, Land,
           ~LateGrant, ~RenamesRBAC
    PROVE  NamedByStored'
<1>1. SUFFICES ASSUME NEW step \in ClusterSteps, NEW c \in CRs, NEW spec \in Specs,
                      server'[Key(step, c, spec)] # Absent
               PROVE  \E d \in CRs :
                        /\ Guarded(d)'
                        /\ Key(step, d, server'[d].spec) = Key(step, c, spec)
  BY DEF NamedByStored
<1> DEFINE key == Key(step, c, spec)
<1>2. server[key] # Absent
  BY <1>1 DEF LateGrant
<1>3. PICK d \in CRs : Guarded(d) /\ Key(step, d, server[d].spec) = key
  BY <1>2 DEF NamedByStored
<1>4. CASE Guarded(d)'
  <2>1. Key(step, d, server'[d].spec) = key
    BY <1>3, <1>4 DEF RenamesRBAC
  <2>2. QED
    BY <1>4, <2>1
<1>5. CASE ~Guarded(d)'
  <2>1. Loses(d)
    BY <1>3, <1>5 DEF Loses
  <2>2. PICK e \in CRs \ {d} : Guarded(e) /\ Key(step, e, server[e].spec) = key
    BY <1>2, <1>3, <2>1, LateLoss
  <2>3. server'[e] = server[e]
    BY <2>1, <2>2, LateLoss
  <2>4. QED
    BY <2>2, <2>3 DEF Guarded
<1>6. QED
  BY <1>4, <1>5

LEMMA LateNamesStep ==
    ASSUME HandoverInv, SuccessionInv, CleanInv, NamesInv, [HandoverNext]_handoverVars,
           ~LateGrant, ~RenamesRBAC
    PROVE  NamesInv'
<1>1. CopiesInv'
  BY SuccessionStep DEF SuccessionInv
<1>2. CASE [Next]_vars
  <2>1. Paced /\ \A c \in CRs : Effect(c)
    BY <1>2, StepIsPaced, StepEffect DEF HandoverInv, SuccessionInv, CopiesInv
  <2>2. CopiesAgree'
    BY <1>1, <1>2, <2>1, GainsLiving, CopiesAgreeStep
    DEF HandoverInv, SuccessionInv, NamesInv
  <2>3. NamedByStored'
    BY <1>2, NamedStep DEF HandoverInv, SuccessionInv, CleanInv
  <2>4. QED
    BY <2>2, <2>3 DEF NamesInv
<1>3. CASE Land
  <2>1. Paced /\ \A c \in CRs : Effect(c)
    BY <1>3, LandIsPaced, LandEffect DEF HandoverInv, SuccessionInv
  <2>2. \A c \in CRs : Gains(c) => server[c] # Absent /\ ~server[c].del
    BY <1>3, LandEffect, SentinelAssumption DEF HandoverInv, SuccessionInv
  <2>3. CopiesAgree'
    BY <1>1, <2>1, <2>2, CopiesAgreeStep DEF HandoverInv, SuccessionInv, NamesInv
  <2>4. NamedByStored'
    BY <1>3, LateNamedStep DEF NamesInv
  <2>5. QED
    BY <2>3, <2>4 DEF NamesInv
<1>4. QED
  BY <1>2, <1>3, HandoverStep

LEMMA LateNamesHold ==
    HandoverSpec /\ [][~LateGrant /\ ~RenamesRBAC]_handoverVars => [](CleanInv /\ NamesInv)
<1>1. HandoverInit => CleanInv /\ NamesInv
  BY KeyType, IdTypes
  DEF HandoverInit, Init, ReconcilerInit, Idle, NoRequest, CleanInv, CleanupIsFinal,
      LateIsClean, LateRelease, Guarded, NamesInv, CopiesAgree, NamedByStored
<1>2. /\ HandoverInv /\ SuccessionInv /\ CleanInv /\ NamesInv
      /\ [HandoverNext]_handoverVars /\ [~LateGrant /\ ~RenamesRBAC]_handoverVars
      => CleanInv' /\ NamesInv'
  <2>1. CASE UNCHANGED handoverVars
    BY <2>1
    DEF handoverVars, vars, CleanInv, CleanupIsFinal, LateIsClean, LateRelease,
        LateIsMeant, Guarded, Copies, NamesInv, CopiesAgree, NamedByStored
  <2>2. CASE ~UNCHANGED handoverVars
    BY <2>2, CleanStep, LateNamesStep DEF NamesAreSound, NamesInv
  <2>3. QED
    BY <2>1, <2>2
<1>3. QED
  BY <1>1, <1>2, HandoverInvHolds, SuccessionHolds, PTL DEF HandoverSpec

\* The late Create of a ClusterRole or of its binding is the only way in which
\* a hand-over can orphan one, as long as no user renames one of a guarded
\* resource: without it, the stored spec of a guarded resource names each.
THEOREM NoRBACIsOrphanedAtHandover ==
    HandoverSpec /\ [][~LateGrant /\ ~RenamesRBAC]_handoverVars
        => [](NamedByStored /\ NoOrphanedRBAC)
<1>1. HandoverInv /\ NamesInv => NamedByStored /\ NoOrphanedRBAC
  BY NamedIsNotOrphaned DEF HandoverInv, NamesInv
<1>2. QED
  BY <1>1, LateNamesHold, HandoverInvHolds, PTL

LEMMA LateLifeStep ==
    ASSUME RBACKeysApart, HandoverInv, SuccessionInv, CleanInv, NamedByStored,
           OneOfStep(server), OneOfStep(server'), [HandoverNext]_handoverVars, ~LateGrant
    PROVE  AbstractStep
<1>1. CASE [Next]_vars
  <2>1. \A c \in CRs : LifeMoves(c)
    BY <1>1, NextMoves DEF HandoverInv, SuccessionInv, CopiesInv, CleanInv
  <2>2. QED
    BY <1>1, <2>1, StepIsStoreStep, GrantStep, LifeGoesOn
    DEF HandoverInv, SuccessionInv, CopiesInv, TypeOK
<1>2. CASE Land
  <2>1. ASSUME NEW c \in CRs
        PROVE  LifeMoves(c)
    <3>1. /\ Effect(c)
          /\ Gains(c) => ~server'[c].del
      BY <1>2, LandEffect DEF HandoverInv, SuccessionInv
    <3>2. ASSUME Loses(c)
          PROVE  GrantedTo(c) = {}
      <4>1. \A step \in ClusterSteps : server[Key(step, c, server[c].spec)] = Absent
        BY <1>2, <3>2, LateLossIsClean
      <4>2. QED
        BY <4>1, OnlyNamed DEF HandoverInv
    <3>3. QED
      BY <3>1, <3>2, LifeStep DEF HandoverInv
  <2>2. GrantsAreDue
    BY <1>2 DEF GrantsAreDue, LateGrant
  <2>3. StoreStep
    BY <1>2, LandIsPut DEF HandoverInv, StoreStep
  <2>4. QED
    BY <2>1, <2>2, <2>3, LifeGoesOn DEF HandoverInv, TypeOK
<1>3. QED
  BY <1>1, <1>2, HandoverStep

\* The operator implements the guarded life across hand-overs as well, as long
\* as no late request creates a cluster-scoped object and no user renames one
\* of a guarded resource: late finalizer writes, deletes and status patches are
\* steps of the same life.
THEOREM GuardedLifeOutlivesHandover ==
    ASSUME RBACKeysApart
    PROVE  HandoverSpec /\ [][~LateGrant /\ ~RenamesRBAC]_handoverVars => GuardedLife
<1>1. HandoverInv /\ NamesInv => OneOfStep(server)
  BY RBACKeysApart, OnlyOne DEF HandoverInv, NamesInv
<1>2. /\ HandoverInv /\ SuccessionInv /\ CleanInv /\ NamesInv
      /\ OneOfStep(server) /\ OneOfStep(server)'
      /\ [HandoverNext]_handoverVars /\ [~LateGrant /\ ~RenamesRBAC]_handoverVars
      => AbstractStep
  <2>1. ASSUME UNCHANGED handoverVars
        PROVE  AbstractStep
    BY <2>1, NothingMoves DEF handoverVars, vars, LifeOf, GrantedTo
  <2>2. OneOfStep(server)' => OneOfStep(server')
    BY DEF OneOfStep
  <2>3. QED
    BY <2>1, <2>2, RBACKeysApart, LateLifeStep DEF NamesInv
<1>3. HandoverInit => Lifecycle!Init
  BY LifeBegins DEF HandoverInit
<1>4. QED
  BY <1>1, <1>2, <1>3, HandoverInvHolds, SuccessionHolds, LateNamesHold, PTL
  DEF HandoverSpec, GuardedLife, Lifecycle!Spec, AbstractStep
=============================================================================
