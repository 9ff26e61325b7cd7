-------------------------- MODULE KubesharkHandover --------------------------
(***************************************************************************)
(* The operator when its process is replaced: the pod is rolled over, or   *)
(* another replica takes the lease (cmd/main.go, leader election).  The    *)
(* new process lists what there is and starts with no pass; but the last   *)
(* request of the old one may still be on its way, and takes effect at any *)
(* later time, as far as its preconditions then hold: an Update carries a  *)
(* resourceVersion, a Create wants the name to be free, a Delete and the   *)
(* status patch carry nothing.                                             *)
(***************************************************************************)
EXTENDS KubesharkOperator

VARIABLE late   \* the request of a process that is gone, or NoRequest

handoverVars == <<vars, late>>

NoRequest == [verb |-> "none"]

\* Accepted only while what it replaces is stored.  A value that is stored a
\* second time has another resourceVersion: there the model allows more.
Write(id, base, obj) == [verb |-> "write", id |-> id, base |-> base, obj |-> obj]
Delete(id)           == [verb |-> "delete", id |-> id]

Patch(status, reason, message) ==
    [verb |-> "patch", id |-> pass.cr, snap |-> pass.snap, status |-> status,
     reason |-> reason, message |-> message]

\* The request a pass has in flight where it is.  An Update that is refused
\* now is refused at any later time, for no resourceVersion comes back.
InFlight ==
    CASE pass.pc = "guard" /\ SnapshotIsCurrent ->
            Write(pass.cr, pass.snap, Rewritten(pass.snap, TRUE))
      [] pass.pc = "release" /\ SnapshotIsCurrent ->
            Write(pass.cr, pass.snap,
                  IF pass.snap.held THEN Rewritten(pass.snap, FALSE) ELSE Absent)
      [] pass.pc = "apply" /\ ~NothingToWrite /\ (Have = Absent \/ WriteAccepted) ->
            Write(StepKey, Have, Want)
      [] pass.pc = "cleanup" -> Delete(CleanupKey)
      [] pass.pc = "ready"   -> Patch("True", "Reconciled", "all")
      [] pass.pc = "fail"    -> Patch("False", pass.reason, pass.message)
      [] OTHER -> NoRequest

\* The old process goes in the middle of a request, and a new one starts.
HandOver ==
    /\ late = NoRequest
    /\ late' = InFlight
    /\ Restart
    /\ Spend("restarts", MaxRestarts)

\* Mutant: a late Update carries no resourceVersion.
LandBlindly ==
    /\ late # NoRequest
    /\ late.verb = "write"
    /\ late' = NoRequest
    /\ PutIfChanged(late.id, late.obj)
    /\ UNCHANGED <<reconcilerVars, spent>>

\* The API server gets to the late request; nobody waits for its answer.
Land ==
    /\ late # NoRequest
    /\ late' = NoRequest
    /\ \/ /\ late.verb = "write"
          /\ server[late.id] = late.base
          /\ PutIfChanged(late.id, late.obj)
       \/ late.verb = "delete" /\ PutIfChanged(late.id, Absent)
       \/ /\ late.verb = "patch"
          /\ server[late.id] # Absent
          /\ PutIfChanged(late.id, StatusPatched(server[late.id], late.snap,
                                       late.status, late.reason, late.message))
    /\ UNCHANGED <<reconcilerVars, spent>>

\* It is refused, or lost.
Vanish ==
    /\ late # NoRequest
    /\ late' = NoRequest
    /\ UNCHANGED vars

HandoverInit == Init /\ late = NoRequest
HandoverNext == (Next /\ UNCHANGED late) \/ HandOver \/ Land \/ Vanish
HandoverSpec == HandoverInit /\ [][HandoverNext]_handoverVars

-----------------------------------------------------------------------------
(* What a late request leaves of the finalizer's promise.                  *)

LateGuard   == late.verb = "write" /\ late.id \in CRs /\ late.obj # Absent /\ late.obj.fin
LateRelease == late.verb = "write" /\ late.id \in CRs /\ (late.obj # Absent => ~late.obj.fin)

\* The resource that the late Update was meant for is stored.
LateIsMeant ==
    server[late.id] # Absent /\ server[late.id].uid = late.base.uid

\* As long as the late Update that adds a finalizer can be accepted, all that
\* the new process knows is of its resource; whatever the new process knows of
\* the resource that a late Update releases is deleted.
LateIsDue ==
    /\ LateGuard \/ LateRelease => late.base.uid <= spent.uid
    /\ LateGuard =>
          /\ ~late.base.del
          /\ LateIsMeant =>
                /\ SeenAs(late.id, late.base.uid)
                /\ pass.pc # "idle" /\ pass.cr = late.id =>
                      pass.snap.uid = late.base.uid
    /\ LateRelease =>
          /\ late.base.del
          /\ \A v \in Copies(late.id) : After(late.base, v)
          /\ pass.pc # "idle" /\ pass.cr = late.id => After(late.base, pass.snap)

\* SetupWithManager, leader election: the process that takes over creates and
\* deletes cluster-scoped objects on the same grounds as one that was never
\* replaced, whatever Update of its predecessor is still to come.
SuccessionInv ==
    /\ CopiesInv
    /\ CacheFollows /\ GuardIsSeen /\ CleanupIsDue /\ RBACHasNoOwner
    /\ LateIsDue

\* reconcileDelete: after a hand-over, too, a cluster-scoped object that the
\* stored spec of a guarded resource names, and that nobody asked to delete,
\* goes only by others or by the late Delete itself.
LivingRBACOutlivesHandover ==
    [][\A c \in CRs, step \in ClusterSteps :
          /\ Guarded(c) /\ ~server[c].del
          /\ server[Key(step, c, server[c].spec)] # Absent
          /\ spent'.drifts = spent.drifts
          /\ late.verb = "delete" => late' = late
          => server'[Key(step, c, server[c].spec)] # Absent]_handoverVars
=============================================================================
