------------------------- MODULE KubesharkReconciler -------------------------
(***************************************************************************)
(* The controller: its workqueue and the reconcile pass of its one worker  *)
(* (kubeshark_controller.go, finalizer.go, status.go).  A pass reads the   *)
(* resource once, from the cache, and then issues one request after        *)
(* another; each request is a step here, so that the users, the garbage    *)
(* collector and the cache move between any two of them.  A request is     *)
(* accepted, refused by the API server, or lost to a fault that leaves the *)
(* caller not knowing whether it took effect.                              *)
(***************************************************************************)
EXTENDS Integers, KubesharkObjects, ApiMachinery

CONSTANTS
    CRs,    \* the identities [namespace, name] a Kubeshark resource may have
    Specs,  \* the specs it may hold
    Plan    \* the steps of a pass that are modelled, in the code's order

VARIABLES
    queue,  \* the resources waiting for a pass
    pass    \* the pass under way, or Idle

reconcilerVars == <<queue, pass>>

Steps == { Plan[i] : i \in 1..Len(Plan) }
Keys  == { Key(step, c, spec) : step \in Steps \cup ClusterSteps,
                                c \in CRs, spec \in Specs }
Ids   == CRs \cup Keys

ASSUME PlanAssumption ==
    /\ Plan \in Seq({ ReconcileOrder[i] : i \in 1..Len(ReconcileOrder) })
    /\ Len(Plan) > 0
ASSUME SpecsAssumption ==
    \A spec \in Specs : DOMAIN spec = SpecFields /\ Written(spec) \in Specs
ASSUME IdsAssumption == CRs \cap Keys = {}

-----------------------------------------------------------------------------
(* The resource and its status.                                            *)

NoCondition == [status |-> "Unknown", reason |-> "None", message |-> "none",
                gen |-> 0]

\* setReadyCondition: what the merge patch of a resource read as snap makes
\* of the stored resource now.  The patch holds the two fields that differ
\* from snap and carries neither uid nor resourceVersion.
StatusPatched(now, snap, status, reason, message) ==
    LET cond == [status |-> status, reason |-> reason, message |-> message,
                 gen |-> snap.gen]
    IN  [now EXCEPT !.cond = IF cond = snap.cond THEN @ ELSE cond,
                    !.obs  = IF snap.gen = snap.obs THEN @ ELSE snap.gen]

\* A write of the whole resource: what the typed client sends back as spec
\* may differ from what it read, and a changed spec is a new generation.
Rewritten(snap, fin) ==
    [snap EXCEPT !.fin  = fin,
                 !.spec = Written(snap.spec),
                 !.gen  = IF Written(snap.spec) = snap.spec THEN @ ELSE @ + 1]

-----------------------------------------------------------------------------
(* The pass.                                                               *)

Idle == [pc |-> "idle"]

\* fresh: the cached resource was the stored one when the pass read it.  An
\* Update carries the resourceVersion it read, so that it is accepted only
\* if fresh and nothing has changed since; no field of the resource returns
\* to an earlier value while a pass is before its Update.
Begin(c, pc) ==
    [pc |-> pc, cr |-> c, snap |-> cache[c], fresh |-> UpToDate(c), i |-> 1,
     reason |-> "None", message |-> "none"]

\* Mutant: the pass goes on to its steps without waiting for the finalizer.
DispatchUnguarded(c) ==
    IF cache[c] = Absent THEN Idle
    ELSE IF cache[c].del
         THEN IF cache[c].fin THEN Begin(c, "cleanup") ELSE Idle
         ELSE Begin(c, "apply")

\* Mutant: the finalizer is removed before the objects it protects.
DispatchReleaseFirst(c) ==
    IF cache[c] = Absent THEN Idle
    ELSE IF cache[c].del
         THEN IF cache[c].fin THEN Begin(c, "release") ELSE Idle
         ELSE IF cache[c].fin THEN Begin(c, "apply") ELSE Begin(c, "guard")

Dispatch(c) ==
    IF cache[c] = Absent THEN Idle
    ELSE IF cache[c].del
         THEN IF cache[c].fin THEN Begin(c, "cleanup") ELSE Idle
         ELSE IF cache[c].fin THEN Begin(c, "apply") ELSE Begin(c, "guard")

StartPass(c) ==
    /\ pass = Idle
    /\ c \in queue
    /\ queue' = queue \ {c}
    /\ pass' = Dispatch(c)
    /\ UNCHANGED apiVars

\* Reconcile returns nil, or an error that puts the resource back.
Done  == pass' = Idle /\ UNCHANGED queue
Retry == pass' = Idle /\ queue' = queue \cup {pass.cr}

\* A step returns an error: the pass goes on to report it.
Fail(reason, message) ==
    /\ pass' = [pass EXCEPT !.pc = "fail", !.reason = reason,
                            !.message = message]
    /\ UNCHANGED queue

\* Mutant: the Update carries no resourceVersion.
SnapshotExists == server[pass.cr] # Absent

SnapshotIsCurrent == pass.fresh /\ server[pass.cr] = pass.snap

(* AddFinalizer and Update, then the pass ends without applying anything. *)
WriteFinalizer == Put(pass.cr, Rewritten(pass.snap, TRUE))

Guard ==
    /\ pass.pc = "guard"
    /\ \/ SnapshotIsCurrent /\ WriteFinalizer /\ Done
       \/ ~SnapshotIsCurrent /\ UNCHANGED apiVars /\ Retry

GuardFault ==
    /\ pass.pc = "guard"
    /\ \/ SnapshotIsCurrent /\ WriteFinalizer
       \/ UNCHANGED apiVars
    /\ Retry

(* One object of the plan: CreateOrUpdate. *)
Step    == Plan[pass.i]
StepKey == Key(Step, pass.cr, pass.snap.spec)
Have    == cache[StepKey]

\* Mutant: the mutate function appends to the content that it finds.
RenderedOnTop ==
    LET obj == Mutated(Step, pass.cr, pass.snap.uid, pass.snap.spec,
                       IF Have = Absent THEN Unset ELSE Have.class)
    IN  IF Have = Absent THEN obj
        ELSE [obj EXCEPT !.data = [found |-> Have.data, appended |-> @]]

\* What is sent, and what that will be in the store.
Rendered == Mutated(Step, pass.cr, pass.snap.uid, pass.snap.spec,
                    IF Have = Absent THEN Unset ELSE Have.class)
Want     == Completed(Step, Rendered)

NothingToWrite == Have # Absent /\ Rendered = Have

WriteAccepted ==
    IF Have = Absent THEN server[StepKey] = Absent
    ELSE /\ Controllable(Step, pass.cr, Have)
         /\ UpToDate(StepKey)
         /\ Want.roleRef = Have.roleRef

WriteObject == PutIfChanged(StepKey, Want)

\* Mutants: one step too many, one too few.
NextStepOverrun ==
    /\ pass' = IF pass.i <= Len(Plan) THEN [pass EXCEPT !.i = @ + 1]
                                      ELSE [pass EXCEPT !.pc = "ready"]
    /\ UNCHANGED queue
NextStepShort ==
    /\ pass' = IF pass.i + 1 < Len(Plan) THEN [pass EXCEPT !.i = @ + 1]
                                         ELSE [pass EXCEPT !.pc = "ready"]
    /\ UNCHANGED queue

NextStep ==
    /\ pass' = IF pass.i < Len(Plan) THEN [pass EXCEPT !.i = @ + 1]
                                     ELSE [pass EXCEPT !.pc = "ready"]
    /\ UNCHANGED queue

\* Mutant: the error of a refused write is swallowed.
ApplyRegardless ==
    /\ pass.pc = "apply"
    /\ \/ ~NothingToWrite /\ WriteAccepted /\ WriteObject
       \/ (NothingToWrite \/ ~WriteAccepted) /\ UNCHANGED apiVars
    /\ NextStep

Apply ==
    /\ pass.pc = "apply"
    /\ \/ NothingToWrite /\ UNCHANGED apiVars /\ NextStep
       \/ ~NothingToWrite /\ WriteAccepted /\ WriteObject /\ NextStep
       \/ /\ ~NothingToWrite /\ ~WriteAccepted
          /\ UNCHANGED apiVars
          /\ Fail("ReconcileError", Step)

ApplyFault ==
    /\ pass.pc = "apply"
    /\ ~NothingToWrite
    /\ \/ WriteAccepted /\ WriteObject
       \/ UNCHANGED apiVars
    /\ Fail("ReconcileError", Step)

(* reconcileDelete: the cluster-scoped objects, then the finalizer. *)
CleanupKey == Key(CleanupOrder[pass.i], pass.cr, pass.snap.spec)
DeleteObject == PutIfChanged(CleanupKey, Absent)

Cleanup ==
    /\ pass.pc = "cleanup"
    /\ DeleteObject
    /\ pass' = IF pass.i < Len(CleanupOrder) THEN [pass EXCEPT !.i = @ + 1]
                                             ELSE [pass EXCEPT !.pc = "release"]
    /\ UNCHANGED queue

CleanupFault ==
    /\ pass.pc = "cleanup"
    /\ DeleteObject \/ UNCHANGED apiVars
    /\ Fail("DeleteFailed", CleanupOrder[pass.i])

\* Mutant: the resource is written back with the finalizer still in it.
RemoveNothing == Put(pass.cr, Rewritten(pass.snap, TRUE))

\* The stored resource goes with its last finalizer.
RemoveFinalizer ==
    Put(pass.cr, IF pass.snap.held THEN Rewritten(pass.snap, FALSE) ELSE Absent)

Release ==
    /\ pass.pc = "release"
    /\ \/ SnapshotIsCurrent /\ RemoveFinalizer /\ Done
       \/ ~SnapshotIsCurrent /\ UNCHANGED apiVars /\ Fail("DeleteFailed", "release")

ReleaseFault ==
    /\ pass.pc = "release"
    /\ \/ SnapshotIsCurrent /\ RemoveFinalizer
       \/ UNCHANGED apiVars
    /\ Fail("DeleteFailed", "release")

(* setReadyCondition at the end of a pass, good or bad. *)
PatchStatus(status, reason, message) ==
    PutIfChanged(pass.cr, StatusPatched(server[pass.cr], pass.snap,
                                        status, reason, message))

Ready ==
    /\ pass.pc = "ready"
    /\ \/ /\ server[pass.cr] # Absent
          /\ PatchStatus("True", "Reconciled", "all")
          /\ Done
       \/ server[pass.cr] = Absent /\ UNCHANGED apiVars /\ Retry

ReadyFault ==
    /\ pass.pc = "ready"
    /\ \/ /\ server[pass.cr] # Absent
          /\ PatchStatus("True", "Reconciled", "all")
       \/ UNCHANGED apiVars
    /\ Retry

\* Mutant: the error is reported in the status but not returned.
ReportAndForget ==
    /\ pass.pc = "fail"
    /\ \/ server[pass.cr] # Absent /\ PatchStatus("False", pass.reason, pass.message)
       \/ server[pass.cr] = Absent /\ UNCHANGED apiVars
    /\ Done

\* The result of this patch is ignored: the step's own error is returned.
Report ==
    /\ pass.pc = "fail"
    /\ \/ server[pass.cr] # Absent /\ PatchStatus("False", pass.reason, pass.message)
       \/ server[pass.cr] = Absent /\ UNCHANGED apiVars
    /\ Retry

ReportFault == pass.pc = "fail" /\ UNCHANGED apiVars /\ Retry

PassStep  == Guard \/ Apply \/ Cleanup \/ Release \/ Ready \/ Report
PassFault == GuardFault \/ ApplyFault \/ CleanupFault \/ ReleaseFault
             \/ ReadyFault \/ ReportFault

-----------------------------------------------------------------------------
(* The events that fill the queue.                                         *)

OwnersOf(objs) == { obj.owner.cr : obj \in { o \in objs \ {Absent} : o.owner # Nobody } }

\* SetupWithManager: For enqueues the resource itself, Owns the controller
\* of the old and of the new version of an object of a watched kind.
ReceiveEvent(id) ==
    /\ Receive(id)
    /\ queue' = queue \cup
                  IF id \in CRs THEN {id}
                  ELSE IF id.kind \in WatchedKinds
                       THEN OwnersOf({cache[id], Head(watch[id])})
                       ELSE {}
    /\ UNCHANGED pass

\* Mutant: only the owners of managed objects are listed.
ListedOwners(store) ==
    OwnersOf({ store[key] : key \in { k \in Keys : k.kind \in WatchedKinds } })

\* Everything a process finds when it lists, or resyncs, what it watches.
Listed(store) ==
    { c \in CRs : store[c] # Absent }
    \cup OwnersOf({ store[key] : key \in { k \in Keys : k.kind \in WatchedKinds } })

\* Mutant: what was there before the process started wakes nobody.
RestartEmpty == Relist /\ pass' = Idle /\ queue' = {}

\* The process stops at any point of a pass and a new one starts.
Restart ==
    /\ Relist
    /\ pass' = Idle
    /\ queue' = Listed(server)

\* The cache's periodic resync delivers every cached object again.
Resync ==
    /\ queue' = queue \cup Listed(cache)
    /\ UNCHANGED <<pass, apiVars>>

ReconcilerInit == queue = {} /\ pass = Idle
=============================================================================
