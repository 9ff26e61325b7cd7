-------------------------- MODULE KubesharkOperator --------------------------
(***************************************************************************)
(* The operator in its cluster: the reconciler, the users who create, edit *)
(* and delete resources, whoever else writes the managed objects, the      *)
(* garbage collector, the lag of the cache, faults and restarts.           *)
(***************************************************************************)
EXTENDS KubesharkReconciler, FiniteSets

CONSTANTS
    Manifests,   \* the specs the users apply
    Foreign,     \* content that is not the operator's
    DriftKinds,  \* the kinds of objects that others write
    Resyncs,     \* whether the periodic resync is part of the run
    MaxUid,      \* bounds: resources created,
    MaxEdits,    \*         edits of a spec,
    MaxDeletes,  \*         deletions of a resource,
    MaxDrifts,   \*         writes by others to managed objects,
    MaxFaults,   \*         faulty requests,
    MaxRestarts  \*         restarts of the process

VARIABLE spent   \* how much of each bound has been used

vars == <<server, cache, watch, queue, pass, spent>>

ASSUME ManifestsAssumption == \A spec \in Manifests : Admitted(spec) \in Specs
ASSUME BoundsAssumption ==
    /\ {MaxLag, MaxUid, MaxEdits, MaxDeletes, MaxDrifts, MaxFaults,
      MaxRestarts} \subseteq Nat
    /\ Resyncs \in BOOLEAN

Bounds == {"uid", "edits", "deletes", "drifts", "faults", "restarts"}

Spend(bound, max) ==
    /\ spent[bound] < max
    /\ spent' = [spent EXCEPT ![bound] = @ + 1]

Spare == UNCHANGED spent

-----------------------------------------------------------------------------
(* The users.                                                              *)

CreateCR(c, spec) ==
    /\ Spend("uid", MaxUid)
    /\ server[c] = Absent
    /\ Put(c, [uid |-> spent.uid + 1, gen |-> 1, spec |-> Admitted(spec),
               fin |-> FALSE, held |-> FALSE, del |-> FALSE,
               cond |-> NoCondition, obs |-> 0])
    /\ UNCHANGED reconcilerVars

EditSpec(c, spec) ==
    /\ Spend("edits", MaxEdits)
    /\ server[c] # Absent
    /\ server[c].spec # Admitted(spec)
    /\ Put(c, [server[c] EXCEPT !.spec = Admitted(spec), !.gen = @ + 1])
    /\ UNCHANGED reconcilerVars

\* With foreground propagation the API server puts a finalizer of its own on
\* the resource; it is held until its dependents are gone.
DeleteCR(c, foreground) ==
    /\ Spend("deletes", MaxDeletes)
    /\ server[c] # Absent
    /\ ~server[c].del
    /\ Put(c, IF server[c].fin \/ foreground
              THEN [server[c] EXCEPT !.del = TRUE, !.held = foreground,
                                     !.gen = @ + 1]
              ELSE Absent)
    /\ UNCHANGED reconcilerVars

-----------------------------------------------------------------------------
(* Others who write managed objects: the cluster's own controllers touch   *)
(* them, people overwrite or delete them.                                  *)

Drift(key) ==
    /\ Spend("drifts", MaxDrifts)
    /\ key.kind \in DriftKinds
    /\ server[key] # Absent
    /\ \E obj \in { server[key], [server[key] EXCEPT !.data = Foreign], Absent } :
          Put(key, obj)
    /\ UNCHANGED reconcilerVars

-----------------------------------------------------------------------------
(* The garbage collector.                                                  *)

OwnerLives(obj) ==
    /\ server[obj.owner.cr] # Absent
    /\ server[obj.owner.cr].uid = obj.owner.uid

Dependents(c) ==
    { key \in Keys : /\ server[key] # Absent
                     /\ server[key].owner = [cr |-> c, uid |-> server[c].uid] }

\* An object goes when its owner is gone or is held for its dependents' sake.
Collect(key) ==
    /\ server[key] # Absent
    /\ server[key].owner # Nobody
    /\ OwnerLives(server[key]) => server[server[key].owner.cr].held
    /\ Put(key, Absent)
    /\ UNCHANGED reconcilerVars
    /\ Spare

ReleaseHeld(c) ==
    /\ server[c] # Absent
    /\ server[c].held
    /\ Dependents(c) = {}
    /\ Put(c, IF server[c].fin THEN [server[c] EXCEPT !.held = FALSE] ELSE Absent)
    /\ UNCHANGED reconcilerVars
    /\ Spare

-----------------------------------------------------------------------------
Init ==
    /\ server = [id \in Ids |-> Absent]
    /\ cache  = [id \in Ids |-> Absent]
    /\ watch  = [id \in Ids |-> << >>]
    /\ ReconcilerInit
    /\ spent  = [bound \in Bounds |-> 0]

UserStep(c) ==
    \/ \E spec \in Manifests : CreateCR(c, spec) \/ EditSpec(c, spec)
    \/ \E foreground \in BOOLEAN : DeleteCR(c, foreground)

Environment ==
    \/ \E c \in CRs : UserStep(c) \/ ReleaseHeld(c)
    \/ \E key \in Keys : Drift(key) \/ Collect(key)

Controller ==
    \/ \E id \in Ids : ReceiveEvent(id) /\ Spare
    \/ \E c \in CRs : StartPass(c) /\ Spare
    \/ PassStep /\ Spare
    \/ Resyncs /\ Resync /\ Spare
    \/ PassFault /\ Spend("faults", MaxFaults)
    \/ Restart /\ Spend("restarts", MaxRestarts)

Next == Environment \/ Controller

Spec == Init /\ [][Next]_vars

\* The watch delivers, the worker and the garbage collector go on, and no
\* resource waits for ever: the workqueue is first-in first-out within a
\* priority, only what a start or a resync lists gets the low one, and retries
\* back off.  Nothing makes the users, the others or the faults act.
Fairness ==
    /\ \A id \in Ids : WF_vars(ReceiveEvent(id) /\ Spare)
    /\ \A c \in CRs : SF_vars(StartPass(c) /\ Spare)
    /\ WF_vars(PassStep /\ Spare)
    /\ WF_vars(Resyncs /\ Resync /\ Spare)
    /\ \A key \in Keys : WF_vars(Collect(key))
    /\ \A c \in CRs : WF_vars(ReleaseHeld(c))

FairSpec == Spec /\ Fairness

-----------------------------------------------------------------------------
(* Types.                                                                  *)

Reasons  == { "None", "Reconciled", "ReconcileError", "DeleteFailed" }
Messages == {"none", "all", "release"} \cup Steps \cup ClusterSteps

Conditions == [status : {"Unknown", "True", "False"}, reason : Reasons,
               message : Messages, gen : Nat]

Resources == [uid : Nat, gen : Nat, spec : Specs, fin : BOOLEAN,
              held : BOOLEAN, del : BOOLEAN, cond : Conditions, obs : Nat]

Contents == { DataOf(step, c, spec) : step \in Steps, c \in CRs, spec \in Specs }
            \cup {Foreign}
Classes  == { spec.ingressClassName : spec \in Specs } \cup {Unset}
RoleRefs == { RoleRefOf(step, c, spec) : step \in Steps, c \in CRs, spec \in Specs }

Objects == [owner : [cr : CRs, uid : Nat] \cup {Nobody}, data : Contents,
            class : Classes, roleRef : RoleRefs, defaulted : BOOLEAN]

\* What the store, and hence the cache, holds of a kind is always completed.
ObjectsOf(kind) == { obj \in Objects : obj.defaulted = (kind \in DefaultedKinds) }

ASSUME SentinelAssumption ==
    /\ Absent \notin Resources \cup Objects
    /\ Nobody \notin [cr : CRs, uid : Nat]

Versions(id) == (IF id \in CRs THEN Resources ELSE ObjectsOf(id.kind)) \cup {Absent}

Passes ==
    [pc : {"guard", "apply", "cleanup", "release", "ready", "fail"}, cr : CRs,
     snap : Resources, fresh : BOOLEAN, i : Nat \ {0}, reason : Reasons,
     message : Messages]

StoreOK ==
    /\ DOMAIN server = Ids /\ DOMAIN cache = Ids /\ DOMAIN watch = Ids
    /\ \A id \in Ids : /\ server[id] \in Versions(id)
                       /\ cache[id] \in Versions(id)
                       /\ watch[id] \in Seq(Versions(id))

PassOK ==
    /\ pass \in Passes \cup {Idle}
    /\ pass.pc = "apply" => pass.i <= Len(Plan)
    /\ pass.pc = "cleanup" => pass.i <= Len(CleanupOrder)

\* Every variable holds what the code can put there; in particular a pass
\* never runs past the end of its plan or of the objects it deletes.
TypeOK ==
    /\ StoreOK
    /\ PassOK
    /\ queue \subseteq CRs
    /\ spent \in [Bounds -> Nat]

-----------------------------------------------------------------------------
(* What makes the operator correct.                                        *)

Guarded(c) == server[c] # Absent /\ server[c].fin

\* reconcileDelete: cluster-scoped RBAC has no owner reference, only the
\* finalizer stands between it and outliving its resource.  A ClusterRole or
\* a ClusterRoleBinding of the operator exists only while a resource that
\* names it exists and holds the finalizer, whatever is cached, in flight,
\* lost or restarted.
NoOrphanedRBAC ==
    \A step \in ClusterSteps, c \in CRs, spec \in Specs :
        server[Key(step, c, spec)] # Absent =>
            \E d \in CRs, s \in Specs :
                Guarded(d) /\ Key(step, d, s) = Key(step, c, spec)

\* Finalizer: when a resource loses the finalizer, the cluster-scoped
\* objects that its stored spec names are gone, even if a user renamed them
\* while the pass was between its deletes and its Update.
CleanedBeforeRelease ==
    [][\A c \in CRs : Guarded(c) /\ ~Guarded(c)' =>
          \A step \in ClusterSteps :
              server'[Key(step, c, server[c].spec)] = Absent]_vars

\* What a spec asks for: the objects, and what is written into them.
Asks(c, spec) ==
    { <<Key(step, c, spec), Mutated(step, c, 0, spec, Unset)>> : step \in Steps }

\* An empty hubConfigMapData asks for an empty ConfigMap; omitempty drops it.
WithoutEmptyData(spec) ==
    [spec EXCEPT !.hubConfigMapData = IF @ = EmptyMap THEN Unset ELSE @]

\* AddFinalizer and RemoveFinalizer write the whole resource back from a
\* cached copy: that never changes what the stored spec asks for, but for an
\* empty hubConfigMapData that it drops; only a user's edit does.
NoLostEdit ==
    [][\A c \in CRs :
          /\ server[c] # Absent /\ server'[c] # Absent
          /\ server'[c].uid = server[c].uid
          /\ spent'.edits = spent.edits
          => Asks(c, server'[c].spec) \in
                {Asks(c, server[c].spec), Asks(c, WithoutEmptyData(server[c].spec))}]_vars

\* SetControllerReference: an object controlled by one resource is never
\* taken over by another, even when both ask for the same name.
NotTakenOver ==
    [][\A key \in Keys :
          /\ server[key] # Absent /\ server'[key] # Absent
          /\ server[key].owner # Nobody
          => server'[key].owner.cr = server[key].owner.cr]_vars

\* reconcileDelete deletes by name and without a precondition: no pass, however
\* old the copy it acts on, deletes a cluster-scoped object that the stored
\* spec of a guarded resource names and that nobody asked to delete.  Only
\* others can.
LivingRBACKept ==
    [][\A c \in CRs, step \in ClusterSteps :
          /\ Guarded(c) /\ ~server[c].del
          /\ server[Key(step, c, server[c].spec)] # Absent
          /\ spent'.drifts = spent.drifts
          => server'[Key(step, c, server[c].spec)] # Absent]_vars

\* The stored object of a step is what the stored spec asks for.
InStep(step, c) ==
    LET obj == server[Key(step, c, server[c].spec)]
    IN  /\ obj # Absent
        /\ obj = Completed(step, Mutated(step, c, server[c].uid, server[c].spec, obj.class))

Reported(c) ==
    /\ server[c].cond = [status |-> "True", reason |-> "Reconciled",
                         message |-> "all", gen |-> server[c].gen]
    /\ server[c].obs = server[c].gen

Quiet ==
    /\ pass = Idle
    /\ queue = {}
    /\ \A id \in Ids : watch[id] = << >>

WatchedSteps == { step \in Steps : KindOf(step) \in WatchedKinds }

\* Reconcile: when nothing is queued, under way or on the wire, nothing is
\* left undone: no edit, drift, refusal, fault or restart can be forgotten,
\* although only errors and watch events bring a pass about.
QuietMeansApplied ==
    Quiet => \A c \in CRs : server[c] # Absent =>
        IF server[c].del THEN ~server[c].fin
        ELSE /\ server[c].fin
             /\ Reported(c)
             /\ \A step \in WatchedSteps : InStep(step, c)

\* The same of the two kinds that SetupWithManager does not watch.
QuietMeansRBACApplied ==
    Quiet => \A c \in CRs :
        server[c] # Absent /\ ~server[c].del =>
            \A step \in Steps \cap ClusterSteps : InStep(step, c)

\* status.go and kubeshark_types.go: "the generation of the spec last
\* reconciled successfully" changes only when a pass succeeds.
ObservedOnSuccess ==
    [][\A c \in CRs :
          /\ server[c] # Absent /\ server'[c] # Absent
          /\ server'[c].uid = server[c].uid
          /\ server'[c].obs # server[c].obs
          => server'[c].cond.status = "True"]_vars

\* The generation a resource reports is one that it has had.
ObservedExists ==
    \A c \in CRs : server[c] # Absent =>
        server[c].obs <= server[c].gen /\ server[c].cond.gen <= server[c].gen

\* reconcileDelete: a deleted resource does go, whatever fails on the way.
DeletionCompletes ==
    \A c \in CRs : (server[c] # Absent /\ server[c].del)
                   ~> (server[c] = Absent \/ ~server[c].del)

\* Reconcile: once the users and the others stop, every resource that is
\* left ends up guarded, reported Ready and with all its objects in step.
Converges ==
    <>[](\A c \in CRs : server[c] # Absent /\ ~server[c].del =>
            /\ server[c].fin
            /\ Reported(c)
            /\ \A step \in WatchedSteps : InStep(step, c))

\* The roleRef of a stored binding differs from what the stored spec asks for.
Refused(c) ==
    LET binding == server[Key("clusterRoleBinding", c, server[c].spec)]
    IN  binding # Absent /\ binding.roleRef # ClusterRoleName(c, server[c].spec)

\* The cache's periodic resync: the two kinds that are not watched end up in
\* step as well, unless the API server refuses the binding for its roleRef.
RBACConverges ==
    <>[](\A c \in CRs : server[c] # Absent /\ ~server[c].del =>
            Refused(c) \/ \A step \in Steps \cap ClusterSteps : InStep(step, c))

\* reconcileClusterRoleBinding: a user who renames the ClusterRole but not the
\* binding asks for what the API server refuses.  Whatever comes in between,
\* the resource ends up saying so, at its present generation, and not Ready.
RefusalIsReported ==
    <>[](\A c \in CRs : server[c] # Absent /\ ~server[c].del /\ Refused(c) =>
            server[c].cond = [status |-> "False", reason |-> "ReconcileError",
                              message |-> "clusterRoleBinding",
                              gen |-> server[c].gen])

\* Reconcile and CreateOrUpdate: the operator's own writes wake it, through
\* the kinds it watches, but they come to an end: no two steps of a pass, nor
\* a step and the API server's defaults, undo each other for ever.
Settles == <>[]Quiet

\* Owner references and the finalizer together: an object whose resource is
\* gone goes too, also one that a pass wrote from a stale copy of it.
LeavesNothing ==
    <>[](\A c \in CRs : server[c] = Absent =>
            \A step \in Steps, spec \in Specs :
                server[Key(step, c, spec)] = Absent)

-----------------------------------------------------------------------------
(* Why no RBAC is orphaned: the inductive invariant.  A pass acts on a     *)
(* copy of the resource that may be old, so that what protects the cluster *)
(* objects is a fact about every copy that is still about.                 *)

Copies(c) ==
    {server[c], cache[c]} \cup { watch[c][i] : i \in 1..Len(watch[c]) }

\* w was stored after v: a resource that is being deleted remains so.
After(v, w) ==
    (v # Absent /\ w # Absent /\ v.uid = w.uid /\ v.del) => w.del

DeletionIsFinal ==
    \A c \in CRs :
        /\ After(cache[c], server[c])
        /\ \A i \in 1..Len(watch[c]) :
              /\ After(cache[c], watch[c][i])
              /\ After(watch[c][i], server[c])
              /\ \A j \in 1..Len(watch[c]) : i < j => After(watch[c][i], watch[c][j])

UidsAreSpent ==
    /\ \A c \in CRs : \A v \in Copies(c) : v # Absent => v.uid <= spent.uid
    /\ pass.pc # "idle" => pass.snap.uid <= spent.uid

\* The stored resource is the one with this uid, and it has the finalizer.
GuardedAs(c, uid) == Guarded(c) /\ server[c].uid = uid

\* A copy on which a pass would create objects is a copy of a resource that
\* still has its finalizer.
CopiesAreGuarded ==
    /\ \A c \in CRs : \A v \in Copies(c) :
          v # Absent /\ v.fin /\ ~v.del => GuardedAs(c, v.uid)
    /\ pass.pc = "apply" => GuardedAs(pass.cr, pass.snap.uid)

\* A pass in its steps read a living resource; one that cleans up read a
\* deletion that no later copy takes back.
PassHasRead ==
    /\ pass.pc = "apply" => ~pass.snap.del
    /\ pass.pc \in {"cleanup", "release"} =>
          /\ pass.snap.del
          /\ \A v \in Copies(pass.cr) : After(pass.snap, v)

\* What a cleanup has deleted so far is gone and stays so.
CleanupIsFinal ==
    pass.pc \in {"cleanup", "release"} =>
        \A i \in 1..Len(CleanupOrder) :
            pass.pc = "release" \/ i < pass.i =>
                server[Key(CleanupOrder[i], pass.cr, pass.snap.spec)] = Absent

CopiesInv == DeletionIsFinal /\ UidsAreSpent /\ CopiesAreGuarded /\ PassHasRead

ProtectionInv == CopiesInv /\ CleanupIsFinal

-----------------------------------------------------------------------------
(* Why a pass deletes no living resource's RBAC.                           *)

\* The last version on its way to the cache is the stored one.
CacheFollows ==
    \A id \in Ids :
        server[id] = IF watch[id] = << >> THEN cache[id]
                                          ELSE watch[id][Len(watch[id])]

\* The ids of all copies of c that are about.
SeenAs(c, uid) == \A v \in Copies(c) : v # Absent /\ v.uid = uid

\* A resource gets its finalizer from a pass that has seen it, so that by then
\* no copy of an earlier resource of the same name is left.
GuardIsSeen ==
    /\ \A c \in CRs : Guarded(c) => SeenAs(c, server[c].uid)
    /\ pass.pc = "guard" =>
          /\ ~pass.snap.del
          /\ /\ pass.fresh
             /\ server[pass.cr] # Absent
             /\ server[pass.cr].uid = pass.snap.uid
             => SeenAs(pass.cr, pass.snap.uid)

\* A pass cleans up only while its resource is not guarded for a living one.
CleanupIsDue ==
    pass.pc \in {"cleanup", "release"} =>
        (Guarded(pass.cr) => server[pass.cr].del)

RBACHasNoOwner ==
    \A key \in Keys :
        key.kind \in {"ClusterRole", "ClusterRoleBinding"} /\ server[key] # Absent
        => server[key].owner = Nobody

\* Reconcile, reconcileDelete: whatever old copy a pass holds, it is in its
\* cleanup only while its resource is not guarded for a living one, because
\* the finalizer comes from a pass that knew the stored resource and because
\* every copy is overtaken by what the watch still delivers.
LifeInv == CacheFollows /\ GuardIsSeen /\ CleanupIsDue /\ RBACHasNoOwner

\* Different resources name different cluster-scoped objects.
RBACKeysApart ==
    \A step \in ClusterSteps, c \in CRs, d \in CRs, s \in Specs, t \in Specs :
        Key(step, c, s) = Key(step, d, t) => c = d

-----------------------------------------------------------------------------
(* Why nothing is forgotten: whoever is neither queued, nor about to       *)
(* receive an event, nor in the hands of a pass that knows the stored      *)
(* version, is settled, up to events of its objects that will wake it.     *)

OwnedBy(c, obj) == obj # Absent /\ obj.owner # Nobody /\ obj.owner.cr = c

\* An event of this object is on its way, and c will be woken by it.
Coming(c, key) ==
    /\ watch[key] # << >>
    /\ \/ OwnedBy(c, cache[key])
       \/ \E i \in 1..Len(watch[key]) : OwnedBy(c, watch[key][i])

\* The first n steps of the plan have been seen to.
Applied(n, c) ==
    /\ server[c].fin /\ ~server[c].del
    /\ \A i \in 1..n : Plan[i] \in WatchedSteps =>
          InStep(Plan[i], c) \/ Coming(c, Key(Plan[i], c, server[c].spec))

InHand(c) ==
    /\ pass.pc # "idle" /\ pass.cr = c /\ pass.snap = server[c]
    /\ pass.pc = "apply" => Applied(pass.i - 1, c)
    /\ pass.pc = "ready" => Applied(Len(Plan), c)

Settled(c) ==
    IF server[c].del THEN ~server[c].fin
                     ELSE Reported(c) /\ Applied(Len(Plan), c)

\* Reconcile, SetupWithManager: after any step a stored resource is queued, or
\* an event of it is on its way, or a pass has the stored version in hand and
\* has seen to the objects up to its position, or all is applied and reported.
NothingForgotten ==
    \A c \in CRs : server[c] # Absent =>
        c \in queue \/ watch[c] # << >> \/ InHand(c) \/ Settled(c)

-----------------------------------------------------------------------------
(* Why the system settles: what is applied needs no further write.         *)

\* All is applied and reported, the cache shows it, and whatever pass is
\* under way has read it.
AtRest ==
    /\ \A id \in Ids : watch[id] = << >>
    /\ \A c \in CRs : server[c] # Absent =>
          IF server[c].del THEN ~server[c].fin
          ELSE server[c].fin /\ Reported(c) /\ \A step \in Steps : InStep(step, c)
    /\ pass # Idle => pass.pc \in {"apply", "ready"} /\ pass.snap = server[pass.cr]

\* CreateOrUpdate, setReadyCondition: once all is applied, no pass, resync or
\* restart changes anything in the store, although every pass rewrites the
\* objects that the API server completes and patches the status: what one
\* step of a pass leaves suits all the others.
RestIsKept ==
    [][AtRest /\ Controller /\ spent'.faults = spent.faults
        => AtRest' /\ UNCHANGED server]_vars

-----------------------------------------------------------------------------
(* The operator implements the finalizer's promise.                        *)

LifeOf(c) ==
    IF server[c] = Absent THEN "gone"
    ELSE IF server[c].fin
         THEN IF server[c].del THEN "terminating" ELSE "protected"
         ELSE IF server[c].del THEN "released" ELSE "bare"

\* The cluster-scoped objects that the specs of a resource may name.
RightKeys ==
    [c \in CRs |-> [step \in ClusterSteps |-> { Key(step, c, spec) : spec \in Specs }]]

GrantedTo(c) ==
    { step \in ClusterSteps : \E key \in RightKeys[c][step] : server[key] # Absent }

Lifecycle == INSTANCE GuardedLifecycle WITH
    Resources <- CRs,
    Rights    <- ClusterSteps,
    life      <- [c \in CRs |-> LifeOf(c)],
    granted   <- [c \in CRs |-> GrantedTo(c)]

\* Reconcile, reconcileDelete: every step of the operator and of its cluster
\* is a step of the resource's guarded life, or none at all: no protection
\* without a bare resource, no rights without protection, no release before
\* the rights are revoked, no way back.
GuardedLife == Lifecycle!Spec
=============================================================================
