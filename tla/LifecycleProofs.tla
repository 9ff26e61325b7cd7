---------------------------- MODULE LifecycleProofs ----------------------------
(***************************************************************************)
(* No RBAC is orphaned and the operator implements GuardedLifecycle, as    *)
(* long as nobody renames the cluster-scoped objects of a guarded resource *)
(* (and, for the latter, no two resources share them); when the names keep *)
(* resources apart; and that no object escapes both the cleanup and the    *)
(* garbage collector.                                                      *)
(***************************************************************************)
EXTENDS LifeProofs

-----------------------------------------------------------------------------
(* Why no RBAC is orphaned as long as nobody renames it: every copy that a *)
(* pass may act on names the objects that the stored resource names.       *)

\* A user renames a cluster-scoped object of a guarded resource.
RenamesRBAC ==
    \E c \in CRs, step \in ClusterSteps :
        /\ Guarded(c) /\ Guarded(c)'
        /\ Key(step, c, server'[c].spec) # Key(step, c, server[c].spec)

SameNames(c, s, t) == \A step \in ClusterSteps : Key(step, c, s) = Key(step, c, t)

CopiesAgree ==
    /\ \A c \in CRs : Guarded(c) =>
          \A v \in Copies(c) :
             v # Absent /\ v.fin /\ v.uid = server[c].uid
             => SameNames(c, v.spec, server[c].spec)
    /\ pass.pc = "apply" =>
          SameNames(pass.cr, pass.snap.spec, server[pass.cr].spec)

\* Every cluster-scoped object is one that a guarded resource names now.
NamedByStored ==
    \A step \in ClusterSteps, c \in CRs, spec \in Specs :
        server[Key(step, c, spec)] # Absent =>
            \E d \in CRs :
                Guarded(d) /\ Key(step, d, server[d].spec) = Key(step, c, spec)

NamesInv == CopiesAgree /\ NamedByStored

\* A resource that gets its finalizer has no copy that had one before.
LEMMA NoEarlierGuard ==
    ASSUME CopiesInv, NEW c \in CRs, Gains(c), server[c] # Absent, ~server[c].del,
           NEW v \in Copies(c), v # Absent, v.uid = server[c].uid
    PROVE  ~v.fin
<1>1. After(v, server[c])
  BY DEF CopiesInv, DeletionIsFinal, Copies, After
<1>2. ~v.del
  BY <1>1 DEF After
<1>3. QED
  BY <1>2 DEF CopiesInv, CopiesAreGuarded, GuardedAs, Gains

LEMMA StoredUidStays ==
    ASSUME TypeOK, NEW c \in CRs, Effect(c), server[c] # Absent, server'[c] # Absent
    PROVE  server'[c].uid = server[c].uid
BY CopiesEffect DEF TypeOK, Changed, Created, Kept, Dropped, Released

\* The finalizer is only added to a living resource that is stored.
LEMMA GainsLiving ==
    ASSUME TypeOK, GuardIsSeen, [Next]_vars, NEW c \in CRs, Gains(c)
    PROVE  server[c] # Absent /\ ~server[c].del
BY GuardGain, PassType, SentinelAssumption
DEF Gains, SnapshotIsCurrent, GuardIsSeen, TypeOK

\* Whatever stored it.
LEMMA CopiesAgreeStep ==
    ASSUME TypeOK, CopiesInv, CopiesInv', CopiesAgree, Paced, \A c \in CRs : Effect(c),
           \A c \in CRs : Gains(c) => server[c] # Absent /\ ~server[c].del,
           ~RenamesRBAC
    PROVE  CopiesAgree'
<1>1. ASSUME NEW c \in CRs, Guarded(c), Guarded(c)'
      PROVE  SameNames(c, server'[c].spec, server[c].spec)
  BY <1>1 DEF RenamesRBAC, SameNames
<1>2. ASSUME NEW c \in CRs, Guarded(c)', NEW v \in Copies(c)',
             v # Absent, v.fin, v.uid = server'[c].uid
      PROVE  SameNames(c, v.spec, server'[c].spec)
  <2>1. v \in Copies(c) \/ v = server'[c]
    BY <1>2, CopiesEffect DEF TypeOK
  <2>2. CASE v = server'[c]
    BY <2>2 DEF SameNames
  <2>3. CASE v \in Copies(c) /\ Guarded(c)
    <3>1. server'[c].uid = server[c].uid
      BY <1>2, <2>3, StoredUidStays DEF Guarded
    <3>2. SameNames(c, v.spec, server[c].spec)
      BY <1>2, <2>3, <3>1 DEF CopiesAgree
    <3>3. QED
      BY <1>1, <1>2, <2>3, <3>2 DEF SameNames
  <2>4. CASE v \in Copies(c) /\ ~Guarded(c)
    <3>1. Gains(c)
      BY <1>2, <2>4 DEF Gains
    <3>2. server[c] # Absent /\ ~server[c].del
      BY <3>1
    <3>3. server'[c].uid = server[c].uid
      BY <1>2, <3>2, StoredUidStays DEF Guarded
    <3>4. QED
      BY <1>2, <2>4, <3>1, <3>2, <3>3, NoEarlierGuard
  <2>5. QED
    BY <2>1, <2>2, <2>3, <2>4
<1>3. ASSUME pass'.pc = "apply"
      PROVE  SameNames(pass'.cr, pass'.snap.spec, server'[pass'.cr].spec)
  <2>1. CASE Begun
    <3>1. PICK c \in CRs : c = pass'.cr
      BY <2>1 DEF Begun
    <3>2. /\ server' = server /\ pass'.snap = cache[c] /\ cache[c] \in Copies(c)
          /\ cache[c] # Absent /\ cache[c].fin /\ ~cache[c].del
      BY <1>3, <2>1, <3>1 DEF Begun, apiVars, Copies
    <3>3. Guarded(c) /\ server[c].uid = cache[c].uid
      BY <3>2 DEF CopiesInv, CopiesAreGuarded, GuardedAs
    <3>4. QED
      BY <3>1, <3>2, <3>3 DEF CopiesAgree
  <2>2. CASE Continued
    <3>1. /\ pass.pc = "apply" /\ pass'.cr = pass.cr /\ pass'.snap = pass.snap
      BY <1>3, <2>2 DEF Continued
    <3>2. PICK c \in CRs : c = pass.cr
      BY <3>1, PassType DEF TypeOK
    <3>3. Guarded(c)
      BY <3>1, <3>2 DEF CopiesInv, CopiesAreGuarded, GuardedAs
    <3>4. Guarded(c)'
      BY <1>3, <3>1, <3>2 DEF CopiesInv, CopiesAreGuarded, GuardedAs, Guarded
    <3>5. SameNames(c, pass.snap.spec, server[c].spec)
      BY <3>1, <3>2 DEF CopiesAgree
    <3>6. QED
      BY <1>1, <3>1, <3>2, <3>3, <3>4, <3>5 DEF SameNames
  <2>3. QED
    BY <1>3, <2>1, <2>2 DEF Paced
<1>4. QED
  BY <1>2, <1>3 DEF CopiesAgree

LEMMA NamedStep ==
    ASSUME TypeOK, CopiesInv, CleanupIsFinal, NamesInv, [Next]_vars, ~RenamesRBAC
    PROVE  NamedByStored'
<1>1. SUFFICES ASSUME NEW step \in ClusterSteps, NEW c \in CRs, NEW spec \in Specs,
                      server'[Key(step, c, spec)] # Absent
               PROVE  \E d \in CRs :
                        /\ Guarded(d)'
                        /\ Key(step, d, server'[d].spec) = Key(step, c, spec)
  BY DEF NamedByStored
<1> DEFINE key == Key(step, c, spec)
<1>2. CASE server[key] # Absent
  <2>1. PICK d \in CRs : Guarded(d) /\ Key(step, d, server[d].spec) = key
    BY <1>2 DEF NamesInv, NamedByStored
  <2>2. Guarded(d)'
    BY <1>2, <2>1, GuardLoss DEF CopiesInv
  <2>3. Key(step, d, server'[d].spec) = Key(step, d, server[d].spec)
    BY <2>1, <2>2 DEF RenamesRBAC
  <2>4. QED
    BY <2>1, <2>2, <2>3
<1>3. CASE server[key] = Absent
  <2>1. /\ pass.pc = "apply" /\ pass.cr \in CRs
        /\ GuardedAs(pass.cr, pass.snap.uid)
        /\ \A d \in CRs : server'[d] = server[d]
        /\ Key(step, pass.cr, pass.snap.spec) = key
    BY <1>1, <1>3, GrantIsNamed DEF CopiesInv
  <2>2. PICK d \in CRs : d = pass.cr
    BY <2>1
  <2>3. Guarded(d) /\ server'[d] = server[d]
    BY <2>1, <2>2 DEF GuardedAs
  <2>4. Key(step, d, server[d].spec) = key
    BY <2>1, <2>2 DEF NamesInv, CopiesAgree, SameNames
  <2>5. QED
    BY <2>3, <2>4 DEF Guarded
<1>4. QED
  BY <1>2, <1>3

LEMMA NamesHold == Spec /\ [][~RenamesRBAC]_vars => []NamesInv
<1>1. Init => NamesInv
  BY KeyType, IdTypes
  DEF Init, ReconcilerInit, Idle, Guarded, NamesInv, CopiesAgree, NamedByStored
<1>2. /\ TypeOK /\ ProtectionInv /\ ProtectionInv' /\ LifeInv /\ NamesInv
      /\ [Next]_vars /\ [~RenamesRBAC]_vars
      => NamesInv'
  <2>1. CASE UNCHANGED vars
    BY <2>1 DEF vars, NamesInv, CopiesAgree, NamedByStored, Guarded, Copies
  <2>2. CASE ~UNCHANGED vars
    BY <2>2, StepIsPaced, StepEffect, GainsLiving, CopiesAgreeStep, NamedStep
    DEF ProtectionInv, CopiesInv, LifeInv, NamesInv
  <2>3. QED
    BY <2>1, <2>2
<1>3. QED
  BY <1>1, <1>2, TypeCorrect, ProtectionHolds, LifeHolds, PTL DEF Spec

LEMMA NamedIsNotOrphaned ==
    ASSUME TypeOK, NamedByStored
    PROVE  NoOrphanedRBAC
<1>1. \A d \in CRs : Guarded(d) => server[d].spec \in Specs
  BY IdTypes DEF TypeOK, StoreOK, Resources, Guarded
<1>2. QED
  BY <1>1 DEF NamedByStored, NoOrphanedRBAC

\* No ClusterRole and no ClusterRoleBinding of the operator is left without a
\* resource that holds the finalizer and whose stored spec names it (which is
\* more than NoOrphanedRBAC asks: there some spec of that resource is enough),
\* as long as no user renames one of a guarded resource.  Run renamed_rbac
\* shows that this is needed; this theorem, that nothing else is: not for old
\* copies, not for resources that share a name, and manifests may name the
\* objects as they like.
THEOREM NoRBACIsOrphaned ==
    Spec /\ [][~RenamesRBAC]_vars => [](NamedByStored /\ NoOrphanedRBAC)
<1>1. TypeOK /\ NamesInv => NamedByStored /\ NoOrphanedRBAC
  BY NamedIsNotOrphaned DEF NamesInv
<1>2. QED
  BY <1>1, NamesHold, TypeCorrect, PTL

-----------------------------------------------------------------------------
(* What one step does to the life of one resource.                         *)

LEMMA Granted ==
    ASSUME NEW c \in CRs
    PROVE  /\ GrantedTo(c) = { step \in ClusterSteps :
                                  \E spec \in Specs : server[Key(step, c, spec)] # Absent }
           /\ GrantedTo(c)' = { step \in ClusterSteps :
                                   \E spec \in Specs : server'[Key(step, c, spec)] # Absent }
<1>1. \A step \in ClusterSteps : RightKeys[c][step] = { Key(step, c, spec) : spec \in Specs }
  BY DEF RightKeys
<1>2. QED
  BY <1>1 DEF GrantedTo

\* A resource is granted nothing but what its stored spec names.
LEMMA OnlyNamed ==
    ASSUME RBACKeysApart, TypeOK, NamedByStored, NEW c \in CRs,
           \A step \in ClusterSteps : server[Key(step, c, server[c].spec)] = Absent
    PROVE  GrantedTo(c) = {}
<1>1. SUFFICES ASSUME NEW step \in ClusterSteps, NEW spec \in Specs,
                      server[Key(step, c, spec)] # Absent
               PROVE  FALSE
  BY Granted
<1>2. PICK d \in CRs : Guarded(d) /\ Key(step, d, server[d].spec) = Key(step, c, spec)
  BY <1>1 DEF NamedByStored
<1>3. server[d].spec \in Specs
  BY <1>2, IdTypes DEF Guarded, TypeOK, StoreOK, Resources
<1>4. d = c
  BY <1>2, <1>3, RBACKeysApart DEF RBACKeysApart
<1>5. QED
  BY <1>1, <1>2, <1>4

\* While the operator removes its finalizer, nothing is granted.
LEMMA NothingLeft ==
    ASSUME RBACKeysApart, TypeOK, NamedByStored, CleanupIsFinal, pass.pc = "release",
           NEW c \in CRs, c = pass.cr, server[c] = pass.snap
    PROVE  GrantedTo(c) = {}
<1>1. ASSUME NEW step \in ClusterSteps
      PROVE  server[Key(step, c, server[c].spec)] = Absent
  <2>1. \E i \in 1..Len(CleanupOrder) : CleanupOrder[i] = step
    BY CleanupSteps DEF ClusterSteps
  <2>2. QED
    BY <2>1 DEF CleanupIsFinal
<1>2. QED
  BY <1>1, OnlyNamed

LifeMoves(c) ==
    \/ LifeOf(c)' = LifeOf(c)
    \/ LifeOf(c) = "gone" /\ LifeOf(c)' = "bare"
    \/ LifeOf(c) = "bare" /\ LifeOf(c)' \in {"protected", "gone", "released"}
    \/ LifeOf(c) = "protected" /\ LifeOf(c)' = "terminating"
    \/ /\ LifeOf(c) = "terminating" /\ LifeOf(c)' \in {"gone", "released"}
       /\ GrantedTo(c) = {}
    \/ LifeOf(c) = "released" /\ LifeOf(c)' = "gone"

\* Whatever stored it: the life of a resource moves on, if the finalizer is
\* only added to a living resource and only removed from one without rights.
LEMMA LifeStep ==
    ASSUME TypeOK, NEW c \in CRs, Effect(c),
           Gains(c) => ~server'[c].del, Loses(c) => GrantedTo(c) = {}
    PROVE  LifeMoves(c)
<1>1. server'[c] = server[c] \/ Changed(c)
  BY CopiesEffect DEF TypeOK
<1>2. server[c] # Absent => server[c].fin \in BOOLEAN /\ server[c].del \in BOOLEAN
  BY IdTypes DEF TypeOK, StoreOK, Resources
<1>3. CASE server'[c] = server[c]
  BY <1>3 DEF LifeMoves, LifeOf
<1>4. CASE Created(c)
  BY <1>4 DEF LifeMoves, LifeOf, Created
<1>5. CASE Dropped(c)
  BY <1>5 DEF LifeMoves, LifeOf, Dropped
<1>6. CASE Kept(c)
  <2>1. ~server[c].fin /\ server'[c].fin => ~server'[c].del
    BY <1>6 DEF Gains, Guarded, Kept
  <2>2. QED
    BY <1>6, <2>1 DEF LifeMoves, LifeOf, Kept
<1>7. CASE Released(c)
  <2>1. server[c].fin => GrantedTo(c) = {}
    BY <1>7 DEF Released, Loses, Guarded
  <2>2. QED
    BY <1>7, <2>1 DEF LifeMoves, LifeOf, Released
<1>8. QED
  BY <1>1, <1>3, <1>4, <1>5, <1>6, <1>7 DEF Changed

LEMMA NextMoves ==
    ASSUME RBACKeysApart, TypeOK, PassHasRead, CleanupIsFinal, GuardIsSeen,
           NamedByStored, [Next]_vars, NEW c \in CRs
    PROVE  LifeMoves(c)
<1>1. Gains(c) => ~server'[c].del
  BY GuardGain DEF Gains, GuardIsSeen
<1>2. Loses(c) => GrantedTo(c) = {}
  BY RBACKeysApart, StepEffect, NothingLeft DEF EndsCleanup
<1>3. QED
  BY <1>1, <1>2, StepEffect, LifeStep

-----------------------------------------------------------------------------
(* What one step does to what is granted.                                  *)

\* Of the objects that the specs of one resource give one step, one exists.
OneOfStep(store) ==
    \A step \in ClusterSteps, c \in CRs, s \in Specs, t \in Specs :
        store[Key(step, c, s)] # Absent /\ store[Key(step, c, t)] # Absent
        => Key(step, c, s) = Key(step, c, t)

LEMMA OnlyOne ==
    ASSUME RBACKeysApart, TypeOK, NamedByStored
    PROVE  OneOfStep(server)
<1>1. ASSUME NEW step \in ClusterSteps, NEW c \in CRs, NEW s \in Specs,
             server[Key(step, c, s)] # Absent
      PROVE  Key(step, c, server[c].spec) = Key(step, c, s)
  <2>1. PICK d \in CRs : Guarded(d) /\ Key(step, d, server[d].spec) = Key(step, c, s)
    BY <1>1 DEF NamedByStored
  <2>2. server[d].spec \in Specs
    BY <2>1, IdTypes DEF Guarded, TypeOK, StoreOK, Resources
  <2>3. QED
    BY <2>1, <2>2, RBACKeysApart DEF RBACKeysApart
<1>2. QED
  BY <1>1 DEF OneOfStep

\* A write that creates or deletes an object is seen in what it grants.
LEMMA GrantedBy ==
    ASSUME OneOfStep(server), OneOfStep(server'), NEW c \in CRs, NEW spec \in Specs,
           NEW step \in ClusterSteps, NEW key \in Keys, key = Key(step, c, spec),
           \A x \in Ids : x # key => server'[x] = server[x],
           server[key] # Absent \/ server'[key] # Absent
    PROVE  /\ step \in GrantedTo(c) <=> server[key] # Absent
           /\ step \in GrantedTo(c)' <=> server'[key] # Absent
<1>1. ASSUME NEW t \in Specs, Key(step, c, t) # key
      PROVE  server'[Key(step, c, t)] = server[Key(step, c, t)]
  BY <1>1, KeyType
<1>2. ASSUME NEW t \in Specs, Key(step, c, t) # key
      PROVE  server[Key(step, c, t)] = Absent /\ server'[Key(step, c, t)] = Absent
  BY <1>1, <1>2 DEF OneOfStep
<1>3. QED
  BY <1>2, Granted

\* A cluster-scoped object belongs to one resource and one step.
LEMMA OneGrant ==
    ASSUME RBACKeysApart, NEW c \in CRs, NEW d \in CRs, NEW s \in Specs, NEW t \in Specs,
           NEW step \in ClusterSteps, NEW other \in ClusterSteps,
           Key(step, c, s) = Key(other, d, t)
    PROVE  c = d /\ step = other
<1>1. KindOf(step) = KindOf(other)
  BY DEF Key
<1>2. step = other
  BY <1>1, KindTable DEF ClusterSteps
<1>3. QED
  BY <1>2, RBACKeysApart DEF RBACKeysApart

\* What a resource is granted does not change but by a write to that object.
LEMMA GrantsStay ==
    ASSUME NEW d \in CRs,
           \A step \in ClusterSteps, spec \in Specs :
              server'[Key(step, d, spec)] = server[Key(step, d, spec)]
    PROVE  GrantedTo(d)' = GrantedTo(d)
BY Granted

\* Nothing is granted but to a guarded resource.
GrantsAreDue ==
    \A c \in CRs, spec \in Specs, step \in ClusterSteps :
        server[Key(step, c, spec)] = Absent /\ server'[Key(step, c, spec)] # Absent
        => LifeOf(c) \in {"protected", "terminating"}

\* Only a pass grants anything, and only to its own resource.
LEMMA GrantStep ==
    ASSUME RBACKeysApart, TypeOK, CopiesAreGuarded, [Next]_vars
    PROVE  GrantsAreDue
<1>1. SUFFICES ASSUME NEW c \in CRs, NEW spec \in Specs, NEW step \in ClusterSteps,
                      server[Key(step, c, spec)] = Absent,
                      server'[Key(step, c, spec)] # Absent
               PROVE  LifeOf(c) \in {"protected", "terminating"}
  BY DEF GrantsAreDue
<1>2. /\ pass.cr \in CRs /\ pass.snap.spec \in Specs /\ Guarded(pass.cr)
      /\ Key(step, pass.cr, pass.snap.spec) = Key(step, c, spec)
  BY <1>1, GrantIsNamed DEF GuardedAs
<1>3. pass.cr = c
  BY <1>2, RBACKeysApart DEF RBACKeysApart
<1>4. QED
  BY <1>2, <1>3 DEF Guarded, LifeOf

-----------------------------------------------------------------------------
(* Every step is a step of the resource's guarded life, or none.           *)

AbstractStep == [Lifecycle!Next]_(Lifecycle!lifeVars)

\* The life of one resource moves, nothing else does.
LEMMA LifeMovesOn ==
    ASSUME NEW c \in CRs, LifeMoves(c),
           \A d \in CRs : d # c => LifeOf(d)' = LifeOf(d),
           \A d \in CRs : GrantedTo(d)' = GrantedTo(d)
    PROVE  AbstractStep
<1> DEFINE life == [d \in CRs |-> LifeOf(d)]
           granted == [d \in CRs |-> GrantedTo(d)]
<1>1. life' = [life EXCEPT ![c] = LifeOf(c)'] /\ granted' = granted /\ life[c] = LifeOf(c)
  OBVIOUS
<1>2. ASSUME NEW from, NEW to, LifeOf(c) \in from, LifeOf(c)' \in to
      PROVE  Lifecycle!Move(c, from, to)
  BY <1>1, <1>2 DEF Lifecycle!Move
<1>3. CASE LifeOf(c)' = LifeOf(c)
  BY <1>1, <1>3 DEF AbstractStep, Lifecycle!lifeVars
<1>4. CASE LifeOf(c) = "gone" /\ LifeOf(c)' = "bare"
  BY <1>2, <1>4 DEF AbstractStep, Lifecycle!Next, Lifecycle!Create
<1>5. CASE LifeOf(c) = "bare" /\ LifeOf(c)' = "protected"
  BY <1>2, <1>5 DEF AbstractStep, Lifecycle!Next, Lifecycle!Protect
<1>6. CASE LifeOf(c) = "bare" /\ LifeOf(c)' \in {"gone", "released"}
  BY <1>2, <1>6 DEF AbstractStep, Lifecycle!Next, Lifecycle!Delete
<1>7. CASE LifeOf(c) = "protected" /\ LifeOf(c)' = "terminating"
  BY <1>2, <1>7 DEF AbstractStep, Lifecycle!Next, Lifecycle!Delete
<1>8. CASE /\ LifeOf(c) = "terminating" /\ LifeOf(c)' \in {"gone", "released"}
           /\ GrantedTo(c) = {}
  <2>1. Lifecycle!Release(c)
    BY <1>2, <1>8 DEF Lifecycle!Release
  <2>2. QED
    BY <2>1 DEF AbstractStep, Lifecycle!Next
<1>9. CASE LifeOf(c) = "released" /\ LifeOf(c)' = "gone"
  BY <1>2, <1>9 DEF AbstractStep, Lifecycle!Next, Lifecycle!Vanish
<1>10. QED
  BY <1>3, <1>4, <1>5, <1>6, <1>7, <1>8, <1>9 DEF LifeMoves

\* One right of one resource is granted or revoked, nothing else changes.
LEMMA RightMoves ==
    ASSUME NEW c \in CRs, NEW step \in ClusterSteps,
           \A d \in CRs : LifeOf(d)' = LifeOf(d),
           \A d \in CRs : d # c => GrantedTo(d)' = GrantedTo(d),
           \/ GrantedTo(c)' = GrantedTo(c) \ {step}
           \/ /\ GrantedTo(c)' = GrantedTo(c) \cup {step}
              /\ LifeOf(c) \in {"protected", "terminating"}
    PROVE  AbstractStep
<1> DEFINE life == [d \in CRs |-> LifeOf(d)]
           granted == [d \in CRs |-> GrantedTo(d)]
<1>1. /\ life' = life /\ granted' = [granted EXCEPT ![c] = GrantedTo(c)']
      /\ life[c] = LifeOf(c) /\ granted[c] = GrantedTo(c)
  OBVIOUS
<1>2. CASE GrantedTo(c)' = GrantedTo(c) \ {step}
  <2>1. Lifecycle!Revoke(c, step)
    BY <1>1, <1>2 DEF Lifecycle!Revoke
  <2>2. QED
    BY <2>1 DEF AbstractStep, Lifecycle!Next
<1>3. CASE /\ GrantedTo(c)' = GrantedTo(c) \cup {step}
           /\ LifeOf(c) \in {"protected", "terminating"}
  <2>1. Lifecycle!Grant(c, step)
    BY <1>1, <1>3 DEF Lifecycle!Grant
  <2>2. QED
    BY <2>1 DEF AbstractStep, Lifecycle!Next
<1>4. QED
  BY <1>2, <1>3

\* Nothing that the abstract specification sees has changed.
LEMMA NothingMoves ==
    ASSUME \A d \in CRs : LifeOf(d)' = LifeOf(d) /\ GrantedTo(d)' = GrantedTo(d)
    PROVE  AbstractStep
BY DEF AbstractStep, Lifecycle!lifeVars

\* A step stores at most one version of one thing.
LEMMA OneWrite ==
    ASSUME StoreOK, StoreStep
    PROVE  \/ server' = server
           \/ \E id \in Ids : \A x \in Ids : x # id => server'[x] = server[x]
<1>1. ASSUME NEW id \in Ids, NEW obj, Put(id, obj)
      PROVE  \A x \in Ids : x # id => server'[x] = server[x]
  BY <1>1, PutEffect DEF Untouched
<1>2. QED
  BY <1>1 DEF StoreStep, PutStep, apiVars, Receive, Relist

LEMMA ResourceWritten ==
    ASSUME NEW c \in CRs, LifeMoves(c),
           \A x \in Ids : x # c => server'[x] = server[x]
    PROVE  AbstractStep
<1>1. \A d \in CRs : d # c => LifeOf(d)' = LifeOf(d)
  BY IdTypes DEF LifeOf
<1>2. \A d \in CRs : GrantedTo(d)' = GrantedTo(d)
  <2>1. ASSUME NEW d \in CRs, NEW step \in ClusterSteps, NEW spec \in Specs
        PROVE  server'[Key(step, d, spec)] = server[Key(step, d, spec)]
    BY KeyType, IdTypes
  <2>2. QED
    BY <2>1, GrantsStay
<1>3. QED
  BY <1>1, <1>2, LifeMovesOn

LEMMA ObjectWritten ==
    ASSUME RBACKeysApart, OneOfStep(server), OneOfStep(server'), GrantsAreDue,
           NEW key \in Keys, \A x \in Ids : x # key => server'[x] = server[x]
    PROVE  AbstractStep
<1>1. \A d \in CRs : LifeOf(d)' = LifeOf(d)
  <2>1. \A d \in CRs : server'[d] = server[d]
    BY IdTypes
  <2>2. QED
    BY <2>1 DEF LifeOf
<1>2. CASE \E step \in ClusterSteps, c \in CRs, spec \in Specs : key = Key(step, c, spec)
  <2>1. PICK step \in ClusterSteps, c \in CRs, spec \in Specs : key = Key(step, c, spec)
    BY <1>2
  <2>2. ASSUME NEW other \in ClusterSteps, NEW d \in CRs, NEW t \in Specs,
               d # c \/ other # step
        PROVE  server'[Key(other, d, t)] = server[Key(other, d, t)]
    BY <2>1, <2>2, OneGrant, KeyType, IdTypes
  <2>3. \A d \in CRs : d # c => GrantedTo(d)' = GrantedTo(d)
    BY <2>2, GrantsStay
  <2>4. \A other \in ClusterSteps : other # step =>
            (other \in GrantedTo(c)' <=> other \in GrantedTo(c))
    BY <2>2, Granted
  <2>5. GrantedTo(c) \subseteq ClusterSteps /\ GrantedTo(c)' \subseteq ClusterSteps
    BY DEF GrantedTo
  <2>6. server[key] # Absent \/ server'[key] # Absent =>
           /\ step \in GrantedTo(c) <=> server[key] # Absent
           /\ step \in GrantedTo(c)' <=> server'[key] # Absent
    BY <2>1, GrantedBy
  <2>7. CASE server[key] # Absent /\ server'[key] = Absent
    <3>1. GrantedTo(c)' = GrantedTo(c) \ {step}
      BY <2>4, <2>5, <2>6, <2>7
    <3>2. QED
      BY <1>1, <2>3, <3>1, RightMoves
  <2>8. CASE server[key] = Absent /\ server'[key] # Absent
    <3>1. GrantedTo(c)' = GrantedTo(c) \cup {step}
      BY <2>4, <2>5, <2>6, <2>8
    <3>2. LifeOf(c) \in {"protected", "terminating"}
      BY <2>1, <2>8 DEF GrantsAreDue
    <3>3. QED
      BY <1>1, <2>3, <3>1, <3>2, RightMoves
  <2>9. CASE server[key] # Absent /\ server'[key] # Absent
    <3>1. GrantedTo(c)' = GrantedTo(c)
      BY <2>4, <2>5, <2>6, <2>9
    <3>2. QED
      BY <1>1, <2>3, <3>1, NothingMoves
  <2>10. CASE server[key] = Absent /\ server'[key] = Absent
    <3>1. \A x \in Ids : server'[x] = server[x]
      BY <2>10
    <3>2. ASSUME NEW d \in CRs, NEW other \in ClusterSteps, NEW t \in Specs
          PROVE  server'[Key(other, d, t)] = server[Key(other, d, t)]
      BY <3>1, KeyType
    <3>3. \A d \in CRs : GrantedTo(d)' = GrantedTo(d)
      BY <3>2, GrantsStay
    <3>4. QED
      BY <1>1, <3>3, NothingMoves
  <2>11. QED
    BY <2>7, <2>8, <2>9, <2>10
<1>3. CASE ~\E step \in ClusterSteps, c \in CRs, spec \in Specs : key = Key(step, c, spec)
  <2>1. ASSUME NEW d \in CRs, NEW step \in ClusterSteps, NEW spec \in Specs
        PROVE  server'[Key(step, d, spec)] = server[Key(step, d, spec)]
    BY <1>3, KeyType, IdTypes
  <2>2. \A d \in CRs : GrantedTo(d)' = GrantedTo(d)
    BY <2>1, GrantsStay
  <2>3. QED
    BY <1>1, <2>2, NothingMoves
<1>4. QED
  BY <1>2, <1>3

\* Whatever step stores one version of one thing.
LEMMA LifeGoesOn ==
    ASSUME RBACKeysApart, StoreOK, StoreStep,
           OneOfStep(server), OneOfStep(server'), GrantsAreDue, \A c \in CRs : LifeMoves(c)
    PROVE  AbstractStep
<1>1. CASE server' = server
  BY <1>1, NothingMoves DEF LifeOf, GrantedTo
<1>2. ASSUME NEW id \in Ids, \A x \in Ids : x # id => server'[x] = server[x]
      PROVE  AbstractStep
  <2>1. CASE id \in CRs
    BY <1>2, <2>1, ResourceWritten
  <2>2. CASE id \in Keys
    BY <1>2, <2>2, ObjectWritten
  <2>3. QED
    BY <2>1, <2>2 DEF Ids
<1>3. QED
  BY <1>1, <1>2, OneWrite

LEMMA LifeBegins ==
    ASSUME Init
    PROVE  Lifecycle!Init
<1>1. ASSUME NEW c \in CRs
      PROVE  LifeOf(c) = "gone" /\ GrantedTo(c) = {}
  <2>1. server[c] = Absent
    BY IdTypes DEF Init
  <2>2. \A step \in ClusterSteps, spec \in Specs : server[Key(step, c, spec)] = Absent
    BY KeyType, IdTypes DEF Init
  <2>3. QED
    BY <2>1, <2>2, Granted DEF LifeOf
<1>2. QED
  BY <1>1 DEF Lifecycle!Init

\* The operator implements the finalizer's promise, whatever is cached, in
\* flight, lost or restarted: for every set of resources, specs, plan and
\* bound, as long as no user renames the cluster-scoped objects of a guarded
\* resource (run renamed_rbac shows what happens then) and no two resources
\* share them.
THEOREM ImplementsGuardedLife ==
    ASSUME RBACKeysApart
    PROVE  Spec /\ [][~RenamesRBAC]_vars => GuardedLife
<1>1. TypeOK /\ NamedByStored => OneOfStep(server)
  BY RBACKeysApart, OnlyOne
<1>2. /\ TypeOK /\ ProtectionInv /\ LifeInv /\ NamesInv
      /\ OneOfStep(server) /\ OneOfStep(server)' /\ [Next]_vars
      => AbstractStep
  <2>1. SUFFICES ASSUME TypeOK, ProtectionInv, LifeInv, NamesInv,
                        OneOfStep(server), OneOfStep(server'), [Next]_vars
                 PROVE  AbstractStep
    BY DEF OneOfStep
  <2>2. \A c \in CRs : LifeMoves(c)
    BY <2>1, RBACKeysApart, NextMoves DEF ProtectionInv, CopiesInv, LifeInv, NamesInv
  <2>3. QED
    BY <2>1, <2>2, RBACKeysApart, StepIsStoreStep, GrantStep, LifeGoesOn
    DEF ProtectionInv, CopiesInv, TypeOK
<1>3. QED
  BY <1>1, <1>2, LifeBegins, NamesHold, TypeCorrect, ProtectionHolds, LifeHolds, PTL
  DEF Spec, GuardedLife, Lifecycle!Spec, AbstractStep, NamesInv

-----------------------------------------------------------------------------
(* When the names of the cluster-scoped objects keep resources apart.      *)

\* No manifest renames the two cluster-scoped objects of a resource.
FixedRBACNames ==
    \A step \in ClusterSteps, c \in CRs, s \in Specs, t \in Specs :
        Key(step, c, s) = Key(step, c, t)

\* No spec names the cluster-scoped objects, and the namespaces have the same
\* number of segments.
DefaultNames ==
    /\ \E S : \A c \in CRs : c.namespace \in Seq(S) /\ c.name \in Seq(S)
    /\ \A c \in CRs : c = [namespace |-> c.namespace, name |-> c.name]
    /\ \A c \in CRs, d \in CRs : Len(c.namespace) = Len(d.namespace)
    /\ \A spec \in Specs : /\ spec.clusterRoleName = Unset
                           /\ spec.clusterRoleBindingName = Unset

\* Two sequences are told apart by their concatenations with a third, if the
\* parts have the same length.
LEMMA SplitAt ==
    ASSUME NEW S, NEW a \in Seq(S), NEW b \in Seq(S), NEW m \in Seq(S), NEW n \in Seq(S),
           Len(a) = Len(b), a \o m = b \o n
    PROVE  a = b /\ m = n
<1> DEFINE s == a \o m
           t == b \o n
<1>1. /\ s = t /\ Len(a) \in Nat /\ Len(m) \in Nat /\ Len(n) \in Nat
      /\ Len(s) = Len(a) + Len(m) /\ Len(t) = Len(b) + Len(n)
      /\ \A i \in 1..Len(a) + Len(m) :
            s[i] = IF i <= Len(a) THEN a[i] ELSE m[i - Len(a)]
      /\ \A i \in 1..Len(b) + Len(n) :
            t[i] = IF i <= Len(b) THEN b[i] ELSE n[i - Len(b)]
  BY ConcatProperties, LenProperties
<1> HIDE DEF s, t
<1>2. Len(m) = Len(n)
  BY <1>1
<1>3. ASSUME NEW i \in 1..Len(a)
      PROVE  a[i] = b[i]
  <2>1. i \in 1..Len(a) + Len(m) /\ i <= Len(a)
    BY <1>1
  <2>2. QED
    BY <1>1, <1>2, <2>1
<1>4. ASSUME NEW i \in 1..Len(m)
      PROVE  m[i] = n[i]
  <2>1. /\ Len(a) + i \in 1..Len(a) + Len(m) /\ ~(Len(a) + i <= Len(a))
        /\ (Len(a) + i) - Len(a) = i
    BY <1>1
  <2>2. QED
    BY <1>1, <1>2, <2>1
<1>5. QED
  BY <1>2, <1>3, <1>4, SeqEqual

LEMMA SameFront ==
    ASSUME NEW S, NEW m \in Seq(S), NEW n \in Seq(S), NEW end \in Seq(S),
           m \o end = n \o end
    PROVE  m = n
<1>1. /\ Len(m) \in Nat /\ Len(n) \in Nat /\ Len(end) \in Nat
      /\ Len(m \o end) = Len(m) + Len(end) /\ Len(n \o end) = Len(n) + Len(end)
  BY ConcatProperties, LenProperties
<1>2. Len(m) = Len(n)
  BY <1>1
<1>3. QED
  BY <1>2, SplitAt

\* ClusterRoleName, ClusterRoleBindingName: the default names keep resources
\* apart, and no spec changes them.
THEOREM DefaultNamesKeepApart ==
    ASSUME DefaultNames
    PROVE  RBACKeysApart /\ FixedRBACNames
<1>1. PICK S : \A c \in CRs : c.namespace \in Seq(S) /\ c.name \in Seq(S)
  BY DEF DefaultNames
<1>2. ASSUME NEW step \in ClusterSteps, NEW c \in CRs, NEW spec \in Specs
      PROVE  NameOf(step, c, spec) = c.namespace \o c.name \o <<"kubeshark">>
  BY <1>2 DEF DefaultNames, ClusterSteps, NameOf, ClusterRoleName,
              ClusterRoleBindingName, GetOrDefault
<1>3. FixedRBACNames
  BY <1>2 DEF FixedRBACNames, Key
<1>4. ASSUME NEW step \in ClusterSteps, NEW c \in CRs, NEW d \in CRs,
             NEW s \in Specs, NEW t \in Specs, Key(step, c, s) = Key(step, d, t)
      PROVE  c = d
  <2> DEFINE T == S \cup {"kubeshark"}
  <2>1. /\ c.namespace \o c.name \o <<"kubeshark">>
             = d.namespace \o d.name \o <<"kubeshark">>
    BY <1>2, <1>4 DEF Key
  <2>2. /\ c.namespace \in Seq(T) /\ c.name \in Seq(T)
        /\ d.namespace \in Seq(T) /\ d.name \in Seq(T)
        /\ <<"kubeshark">> \in Seq(T)
    BY <1>1
  <2> HIDE DEF T
  <2>3. /\ c.namespace \o c.name \in Seq(T) /\ d.namespace \o d.name \in Seq(T)
    BY <2>2, ConcatProperties
  <2>4. c.namespace \o c.name = d.namespace \o d.name
    BY <2>1, <2>2, <2>3, SameFront
  <2>5. Len(c.namespace) = Len(d.namespace)
    BY DEF DefaultNames
  <2>6. c.namespace = d.namespace /\ c.name = d.name
    BY <2>2, <2>4, <2>5, SplitAt
  <2>7. QED
    BY <2>6 DEF DefaultNames
<1>5. QED
  BY <1>3, <1>4 DEF RBACKeysApart

\* Names that no spec can change are not renamed.
LEMMA FixedNamesStay ==
    ASSUME FixedRBACNames
    PROVE  Spec => [][~RenamesRBAC]_vars
<1>1. ASSUME TypeOK, NEW c \in CRs, Guarded(c)
      PROVE  server[c].spec \in Specs
  BY <1>1, IdTypes DEF TypeOK, StoreOK, Resources, Guarded
<1>2. TypeOK /\ TypeOK' => ~RenamesRBAC
  <2>1. ASSUME TypeOK', NEW c \in CRs, Guarded(c)'
        PROVE  server'[c].spec \in Specs
    BY <2>1, IdTypes DEF TypeOK, StoreOK, Resources, Guarded
  <2>2. QED
    BY <1>1, <2>1, FixedRBACNames DEF RenamesRBAC, FixedRBACNames
<1>3. QED
  BY <1>2, TypeCorrect, PTL

\* Whoever leaves the names of the cluster-scoped objects alone is promised
\* both, without any more hypotheses: every cluster-scoped object is named by
\* the stored spec of a guarded resource, and every resource lives the guarded
\* life.
THEOREM DefaultNamesAreSafe ==
    ASSUME DefaultNames
    PROVE  Spec => [](NamedByStored /\ NoOrphanedRBAC) /\ GuardedLife
<1>1. RBACKeysApart /\ FixedRBACNames
  BY DefaultNames, DefaultNamesKeepApart
<1>2. Spec => [][~RenamesRBAC]_vars
  BY <1>1, FixedNamesStay
<1>3. Spec /\ [][~RenamesRBAC]_vars => GuardedLife
  BY <1>1, ImplementsGuardedLife
<1>4. QED
  BY <1>2, <1>3, NoRBACIsOrphaned, PTL

\* helpers.go joins namespace and name with a dash: the resource c of the
\* namespace a-b and the resource b-c of the namespace a get the same
\* ClusterRole and the same ClusterRoleBinding.
THEOREM DefaultNamesCollide ==
    ASSUME NEW spec, spec.clusterRoleName = Unset, spec.clusterRoleBindingName = Unset
    PROVE  LET c == [namespace |-> <<"a", "b">>, name |-> <<"c">>]
               d == [namespace |-> <<"a">>, name |-> <<"b", "c">>]
           IN  \A step \in ClusterSteps : Key(step, c, spec) = Key(step, d, spec)
<1>1. <<"a", "b">> \o <<"c">> = <<"a">> \o <<"b", "c">>
  OBVIOUS
<1>2. QED
  BY <1>1, KindTable DEF ClusterSteps, Key, NameOf, ClusterRoleName,
                         ClusterRoleBindingName, GetOrDefault
-----------------------------------------------------------------------------
(* When no two steps, of one resource or of two, share an object.          *)

\* No spec names any object.
AllDefaultNames ==
    /\ DefaultNames
    /\ \A spec \in Specs :
          {spec.hubServiceName, spec.hubDeploymentName, spec.hubConfigMapName,
           spec.workerDaemonSetName, spec.ingressName, spec.serviceAccountHub,
           spec.serviceAccountWorker} = {Unset}

\* The last segment of the default names of the namespaced objects.
Suffix(step) ==
    IF step \in {"hubServiceAccount", "hubDeployment", "hubService"} THEN "hub"
    ELSE IF step \in {"workerServiceAccount", "workerDaemonSet"} THEN "worker"
    ELSE IF step \in {"frontendDeployment", "frontendService"} THEN "frontend"
    ELSE IF step = "hubConfigMap" THEN "config"
    ELSE "secret"

NamespacedSteps ==
    { "hubConfigMap", "hubServiceAccount", "hubDeployment", "hubService",
      "workerServiceAccount", "workerDaemonSet", "frontendDeployment",
      "frontendService", "secret" }

LEMMA StepsAre == Steps \subseteq NamespacedSteps \cup ClusterSteps \cup {"frontendIngress"}
<1>1. { ReconcileOrder[i] : i \in 1..Len(ReconcileOrder) }
        \subseteq NamespacedSteps \cup ClusterSteps \cup {"frontendIngress"}
  BY DEF ReconcileOrder, NamespacedSteps, ClusterSteps
<1> DEFINE all == { ReconcileOrder[i] : i \in 1..Len(ReconcileOrder) }
<1>2. Plan \in Seq(all)
  BY PlanAssumption
<1> HIDE DEF all
<1>3. Steps \subseteq all
  BY <1>2 DEF Steps
<1>4. QED
  BY <1>1, <1>3 DEF all

LEMMA DefaultNameOf ==
    ASSUME AllDefaultNames, NEW step, NEW c \in CRs, NEW spec \in Specs
    PROVE  /\ step \in NamespacedSteps => NameOf(step, c, spec) = Append(c.name, Suffix(step))
           /\ step = "frontendIngress" =>
                 NameOf(step, c, spec) = c.name \o <<"frontend", "ingress">>
<1>1. /\ spec.hubServiceName = Unset /\ spec.hubDeploymentName = Unset
      /\ spec.hubConfigMapName = Unset /\ spec.workerDaemonSetName = Unset
      /\ spec.ingressName = Unset /\ spec.serviceAccountHub = Unset
      /\ spec.serviceAccountWorker = Unset
  BY DEF AllDefaultNames
<1>2. CASE step \in {"hubServiceAccount", "hubDeployment", "hubService"}
  BY <1>1, <1>2 DEF NameOf, Suffix, HubServiceAccountName, HubDeploymentName,
                    HubServiceName, GetOrDefault
<1>3. CASE step \in {"workerServiceAccount", "workerDaemonSet"}
  BY <1>1, <1>3 DEF NameOf, Suffix, WorkerServiceAccountName, WorkerDaemonSetName,
                    GetOrDefault
<1>4. CASE step \in {"frontendDeployment", "frontendService"}
  BY <1>4 DEF NameOf, Suffix, FrontendDeploymentName, FrontendServiceName
<1>5. CASE step \in {"hubConfigMap", "secret", "frontendIngress"}
  BY <1>1, <1>5 DEF NameOf, Suffix, NamespacedSteps, HubConfigMapName,
                    KubesharkSecretName, FrontendIngressName, GetOrDefault
<1>6. QED
  BY <1>2, <1>3, <1>4, <1>5 DEF NamespacedSteps

\* The kind and the suffix of a default name tell the step.
LEMMA SuffixTells ==
    ASSUME NEW step \in NamespacedSteps, NEW other \in NamespacedSteps,
           KindOf(step) = KindOf(other), Suffix(step) = Suffix(other)
    PROVE  step = other
<1>1. CASE step \in {"hubConfigMap", "workerDaemonSet", "secret"}
  BY <1>1, KindTable DEF NamespacedSteps
<1>2. CASE step \in {"hubServiceAccount", "workerServiceAccount"}
  BY <1>2, KindTable DEF NamespacedSteps, Suffix
<1>3. CASE step \in {"hubDeployment", "frontendDeployment"}
  BY <1>3, KindTable DEF NamespacedSteps, Suffix
<1>4. CASE step \in {"hubService", "frontendService"}
  BY <1>4, KindTable DEF NamespacedSteps, Suffix
<1>5. QED
  BY <1>1, <1>2, <1>3, <1>4 DEF NamespacedSteps

LEMMA KindTells ==
    ASSUME NEW step \in NamespacedSteps
    PROVE  KindOf(step) \notin {"ClusterRole", "ClusterRoleBinding", "Ingress"}
<1>1. CASE step \in {"hubConfigMap", "hubServiceAccount", "workerServiceAccount"}
  BY <1>1, KindTable
<1>2. CASE step \in {"hubDeployment", "frontendDeployment", "hubService",
                     "frontendService"}
  BY <1>2, KindTable
<1>3. CASE step \in {"workerDaemonSet", "secret"}
  BY <1>3, KindTable
<1>4. QED
  BY <1>1, <1>2, <1>3 DEF NamespacedSteps

\* helpers.go: with default names every step of every resource has an object
\* of its own, so that no two of them can undo each other's writes.
THEOREM DefaultNamesShareNothing ==
    ASSUME AllDefaultNames,
           NEW step \in Steps, NEW other \in Steps, NEW c \in CRs, NEW d \in CRs,
           NEW s \in Specs, NEW t \in Specs, Key(step, c, s) = Key(other, d, t)
    PROVE  step = other /\ c = d
<1>1. /\ KindOf(step) = KindOf(other) /\ NameOf(step, c, s) = NameOf(other, d, t)
      /\ step \notin ClusterSteps /\ other \notin ClusterSteps =>
            c.namespace = d.namespace
  BY DEF Key
<1>2. /\ KindOf("clusterRole") = "ClusterRole"
      /\ KindOf("clusterRoleBinding") = "ClusterRoleBinding"
      /\ KindOf("frontendIngress") = "Ingress"
  BY KindTable
<1>3. DefaultNames
  BY DEF AllDefaultNames
<1>4. PICK S : \A x \in CRs : x.namespace \in Seq(S) /\ x.name \in Seq(S)
  BY <1>3 DEF DefaultNames
<1> DEFINE T == S \cup {"hub", "worker", "frontend", "config", "secret", "ingress"}
<1>5. /\ c.name \in Seq(T) /\ d.name \in Seq(T)
      /\ Suffix(step) \in T /\ Suffix(other) \in T
      /\ <<"frontend", "ingress">> \in Seq(T)
  BY <1>4 DEF Suffix
<1> HIDE DEF T
<1>6. c.namespace = d.namespace /\ c.name = d.name => c = d
  BY <1>3 DEF DefaultNames
<1>7. CASE step \in NamespacedSteps
  <2>1. other \in NamespacedSteps
    BY <1>1, <1>2, <1>7, KindTells, StepsAre DEF ClusterSteps
  <2>2. Append(c.name, Suffix(step)) = Append(d.name, Suffix(other))
    BY <1>1, <1>7, <2>1, DefaultNameOf
  <2>3. c.name = d.name /\ Suffix(step) = Suffix(other)
    <3>1. \A p, q \in Seq(T), e, f \in T : Append(p, e) = Append(q, f) => p = q /\ e = f
      BY AppendInjective
    <3>2. QED
      BY <1>5, <2>2, <3>1
  <2>4. step \notin ClusterSteps /\ other \notin ClusterSteps
    BY <1>7, <2>1 DEF NamespacedSteps, ClusterSteps
  <2>5. QED
    BY <1>1, <1>6, <1>7, <2>1, <2>3, <2>4, SuffixTells
<1>8. CASE step = "frontendIngress"
  <2>1. other = "frontendIngress"
    BY <1>1, <1>2, <1>8, KindTells, StepsAre DEF ClusterSteps
  <2>2. c.name \o <<"frontend", "ingress">> = d.name \o <<"frontend", "ingress">>
    BY <1>1, <1>8, <2>1, DefaultNameOf
  <2>3. c.name = d.name
    BY <1>5, <2>2, SameFront
  <2>4. QED
    BY <1>1, <1>6, <1>8, <2>1, <2>3 DEF ClusterSteps
<1>9. CASE step \in ClusterSteps
  <2>1. other = step
    BY <1>1, <1>2, <1>9, KindTells, StepsAre DEF ClusterSteps
  <2>2. QED
    BY <1>3, <1>9, <2>1, DefaultNamesKeepApart DEF RBACKeysApart
<1>10. QED
  BY <1>7, <1>8, <1>9, StepsAre

-----------------------------------------------------------------------------
(* With such names no resource is in another's way.                        *)

\* The namespaced objects of two resources have different names.
NamespacedKeysApart ==
    \A step \in Steps \ ClusterSteps, other \in Steps \ ClusterSteps,
       c \in CRs, d \in CRs, s \in Specs, t \in Specs :
        Key(step, c, s) = Key(other, d, t) => c = d

LEMMA NamespacedKinds ==
    ASSUME NEW step \in Steps, NEW other \in Steps, KindOf(step) = KindOf(other),
           step \notin ClusterSteps
    PROVE  other \notin ClusterSteps
<1>1. /\ KindOf("clusterRole") = "ClusterRole"
      /\ KindOf("clusterRoleBinding") = "ClusterRoleBinding"
      /\ KindOf("frontendIngress") = "Ingress"
  BY KindTable
<1>2. KindOf(step) \notin {"ClusterRole", "ClusterRoleBinding"}
  BY <1>1, KindTells, StepsAre
<1>3. QED
  BY <1>1, <1>2 DEF ClusterSteps

\* Whoever owns a copy of an object names it, in its own namespace.
OwnersName ==
    \A key \in Keys : \A v \in Copies(key) :
        v # Absent /\ v.owner # Nobody =>
            \E step \in Steps \ ClusterSteps, spec \in Specs :
                key = Key(step, v.owner.cr, spec)

LEMMA IdCopies ==
    ASSUME StoreOK, NEW id \in Ids,
           Untouched(id) \/ Received(id) \/ Relisted(id) \/ Stored(id)
    PROVE  \A v \in Copies(id)' : v \in Copies(id) \/ v = server'[id]
<1>1. watch[id] \in Seq(Versions(id)) /\ Len(watch[id]) \in Nat
  BY DEF StoreOK
<1>2. CASE Untouched(id)
  BY <1>2 DEF Untouched, Copies
<1>3. CASE Relisted(id)
  BY <1>3 DEF Relisted, Copies
<1>4. CASE Received(id)
  <2>1. /\ cache'[id] = watch[id][1] /\ server'[id] = server[id] /\ Len(watch[id]) > 0
        /\ Len(watch'[id]) = Len(watch[id]) - 1
        /\ \A i \in 1..Len(watch'[id]) : watch'[id][i] = watch[id][i + 1]
    BY <1>1, <1>4, HeadTailProperties DEF Received
  <2>2. QED
    BY <1>1, <2>1 DEF Copies
<1>5. CASE Stored(id)
  <2>1. watch[id] \in Seq(Versions(id) \cup {server'[id]})
    BY <1>1
  <2>2. /\ cache'[id] = cache[id] /\ Len(watch'[id]) = Len(watch[id]) + 1
        /\ \A i \in 1..Len(watch[id]) : watch'[id][i] = watch[id][i]
        /\ watch'[id][Len(watch[id]) + 1] = server'[id]
    BY <1>5, <2>1, AppendProperties DEF Stored
  <2>3. QED
    BY <1>1, <2>2 DEF Copies
<1>6. QED
  BY <1>2, <1>3, <1>4, <1>5

LEMMA OwnersNameStep ==
    ASSUME TypeOK, OwnersName, [Next]_vars
    PROVE  OwnersName'
<1>1. SUFFICES ASSUME NEW key \in Keys, NEW v \in Copies(key)',
                      v # Absent, v.owner # Nobody
               PROVE  \E step \in Steps \ ClusterSteps, spec \in Specs :
                        key = Key(step, v.owner.cr, spec)
  BY DEF OwnersName
<1>2. key \in Ids /\ server[key] \in Copies(key) /\ server[key] \in Objects \cup {Absent}
  BY IdTypes DEF Copies, TypeOK, StoreOK
<1>3. v \in Copies(key) \/ v = server'[key]
  BY <1>2, StepIsStoreStep, IdEffect, IdCopies DEF TypeOK
<1>4. CASE v \in Copies(key)
  BY <1>1, <1>4 DEF OwnersName
<1>5. CASE /\ v = server'[key] /\ server[key] # Absent
           /\ server'[key] = [server[key] EXCEPT !.data = Foreign]
  <2>1. v.owner = server[key].owner
    BY <1>2, <1>5 DEF Objects
  <2>2. QED
    BY <1>1, <1>2, <1>5, <2>1 DEF OwnersName
<1>6. CASE v = server'[key] /\ WritesStep(key)
  <2>1. /\ pass.pc = "apply" /\ key = Key(Step, pass.cr, pass.snap.spec) /\ v = Want
    BY <1>6 DEF WritesStep, StepKey
  <2>2. pass \in Passes /\ pass.snap.spec \in Specs
    BY <2>1, PassType DEF TypeOK, Resources
  <2>3. Step \in Steps
    BY <2>1, <2>2, PlanSteps DEF Step, Passes, TypeOK, PassOK
  <2>4. v.owner.cr = pass.cr /\ Step \notin ClusterSteps
    BY <1>1, <2>1 DEF Want, Rendered, Completed, Mutated, OwnerOf
  <2>5. QED
    BY <2>1, <2>2, <2>3, <2>4
<1>7. QED
  BY <1>1, <1>2, <1>3, <1>4, <1>5, <1>6, StepWrites DEF KeyEffect

\* SetControllerReference never refuses an object to a pass, however old the
\* copy of the object or of the resource, as long as the names keep the
\* namespaced objects of two resources apart: then no resource fails to
\* reconcile because of another one.  A shared ClusterRole does not matter.
THEOREM NobodyIsInTheWay ==
    ASSUME NamespacedKeysApart
    PROVE  Spec => [](pass.pc = "apply" /\ Have # Absent
                        => Controllable(Step, pass.cr, Have))
<1>1. Init => OwnersName
  BY IdTypes DEF Init, OwnersName, Copies
<1>2. TypeOK /\ OwnersName /\ [Next]_vars => OwnersName'
  BY OwnersNameStep
<1>3. TypeOK /\ OwnersName =>
        (pass.pc = "apply" /\ Have # Absent => Controllable(Step, pass.cr, Have))
  <2>1. SUFFICES ASSUME TypeOK, OwnersName, pass.pc = "apply", Have # Absent,
                        Have.owner # Nobody
                 PROVE  Have.owner.cr = pass.cr
    BY DEF Controllable
  <2>2. pass \in Passes /\ pass.cr \in CRs /\ pass.snap.spec \in Specs
    BY <2>1, PassType DEF TypeOK, Resources
  <2>3. Step \in Steps
    BY <2>1, <2>2, PlanSteps DEF Step, Passes, TypeOK, PassOK
  <2>4. StepKey \in Keys /\ Have \in Copies(StepKey) /\ Have \in Objects
    BY <2>1, WriteKeys, IdTypes DEF TypeOK, StoreOK, Have, Copies
  <2>5. PICK step \in Steps \ ClusterSteps, spec \in Specs :
            StepKey = Key(step, Have.owner.cr, spec)
    BY <2>1, <2>4 DEF OwnersName
  <2>6. Have.owner.cr \in CRs
    BY <2>1, <2>4 DEF Objects
  <2>7. KindOf(Step) = KindOf(step)
    BY <2>5 DEF StepKey, Key
  <2>8. Step \notin ClusterSteps
    BY <2>3, <2>5, <2>7, NamespacedKinds
  <2>9. QED
    BY <2>2, <2>3, <2>5, <2>6, <2>8, NamespacedKeysApart DEF StepKey, NamespacedKeysApart
<1>4. QED
  BY <1>1, <1>2, <1>3, TypeCorrect, PTL DEF Spec

-----------------------------------------------------------------------------
(* Why nothing is left behind: what has no owner, the finalizer sees to.   *)

\* A managed object has an owner, or it is one that a step names in no
\* namespace.
OwnedOrNamed ==
    \A key \in Keys : server[key] # Absent /\ server[key].owner = Nobody =>
        \E step \in ClusterSteps, c \in CRs, spec \in Specs : key = Key(step, c, spec)

LEMMA OwnedOrNamedStep ==
    ASSUME TypeOK, OwnedOrNamed, [Next]_vars
    PROVE  OwnedOrNamed'
<1>1. SUFFICES ASSUME NEW key \in Keys, server'[key] # Absent,
                      server'[key].owner = Nobody
               PROVE  \E step \in ClusterSteps, c \in CRs, spec \in Specs :
                        key = Key(step, c, spec)
  BY DEF OwnedOrNamed
<1>2. server[key] \in Objects \cup {Absent}
  BY IdTypes DEF TypeOK, StoreOK
<1>3. CASE server'[key] = server[key]
  BY <1>1, <1>3 DEF OwnedOrNamed
<1>4. CASE server[key] # Absent /\ server'[key] = [server[key] EXCEPT !.data = Foreign]
  <2>1. server[key].owner = Nobody
    BY <1>1, <1>2, <1>4 DEF Objects
  <2>2. QED
    BY <1>4, <2>1 DEF OwnedOrNamed
<1>5. CASE WritesStep(key)
  <2>1. /\ pass.pc = "apply" /\ key = Key(Step, pass.cr, pass.snap.spec)
        /\ server'[key] = Want
    BY <1>5 DEF WritesStep, StepKey
  <2>2. pass.cr \in CRs /\ pass.snap.spec \in Specs
    BY <2>1, PassType DEF TypeOK, Resources
  <2>3. Want.owner = OwnerOf(Step, pass.cr, pass.snap.uid)
    BY DEF Want, Rendered, Completed, Mutated
  <2>4. [cr |-> pass.cr, uid |-> pass.snap.uid] # Nobody
    BY <2>1, PassType, SentinelAssumption DEF TypeOK, Resources
  <2>5. Step \in ClusterSteps
    BY <1>1, <2>1, <2>3, <2>4 DEF OwnerOf
  <2>6. QED
    BY <2>1, <2>2, <2>5
<1>6. QED
  BY <1>1, <1>3, <1>4, <1>5, StepWrites DEF KeyEffect

\* SetControllerReference and the finalizer, which leave no gap between them:
\* an object that the operator has made and that exists is named by the stored
\* spec of a guarded resource, whose cleanup will delete it, or it is owned,
\* for a step in the namespace of its owner, by a resource that names it, so
\* that the garbage collector takes it when that resource is gone.  This is
\* the safety half of LeavesNothing, as long as no user renames a
\* cluster-scoped object of a guarded resource.
THEOREM NothingEscapes ==
    Spec /\ [][~RenamesRBAC]_vars =>
        [](\A key \in Keys : server[key] # Absent =>
              \/ \E c \in CRs, step \in ClusterSteps :
                    Guarded(c) /\ key = Key(step, c, server[c].spec)
              \/ /\ server[key].owner # Nobody
                 /\ \E step \in Steps \ ClusterSteps, spec \in Specs :
                       key = Key(step, server[key].owner.cr, spec))
<1>1. Init => OwnersName /\ OwnedOrNamed
  BY IdTypes DEF Init, OwnersName, OwnedOrNamed, Copies
<1>2. TypeOK /\ OwnersName /\ OwnedOrNamed /\ [Next]_vars => OwnersName' /\ OwnedOrNamed'
  BY OwnersNameStep, OwnedOrNamedStep
<1>3. OwnersName /\ OwnedOrNamed /\ NamesInv =>
        \A key \in Keys : server[key] # Absent =>
              \/ \E c \in CRs, step \in ClusterSteps :
                    Guarded(c) /\ key = Key(step, c, server[c].spec)
              \/ /\ server[key].owner # Nobody
                 /\ \E step \in Steps \ ClusterSteps, spec \in Specs :
                       key = Key(step, server[key].owner.cr, spec)
  <2>1. SUFFICES ASSUME OwnersName, OwnedOrNamed, NamesInv,
                        NEW key \in Keys, server[key] # Absent
                 PROVE  \/ \E c \in CRs, step \in ClusterSteps :
                              Guarded(c) /\ key = Key(step, c, server[c].spec)
                        \/ /\ server[key].owner # Nobody
                           /\ \E step \in Steps \ ClusterSteps, spec \in Specs :
                                 key = Key(step, server[key].owner.cr, spec)
    OBVIOUS
  <2>2. CASE server[key].owner = Nobody
    <3>1. PICK step \in ClusterSteps, c \in CRs, spec \in Specs : key = Key(step, c, spec)
      BY <2>1, <2>2 DEF OwnedOrNamed
    <3>2. PICK d \in CRs : Guarded(d) /\ Key(step, d, server[d].spec) = key
      BY <2>1, <3>1 DEF NamesInv, NamedByStored
    <3>3. QED
      BY <3>2
  <2>3. CASE server[key].owner # Nobody
    <3>1. server[key] \in Copies(key)
      BY DEF Copies
    <3>2. QED
      BY <2>1, <2>3, <3>1 DEF OwnersName
  <2>4. QED
    BY <2>2, <2>3
<1>4. QED
  BY <1>1, <1>2, <1>3, NamesHold, TypeCorrect, PTL DEF Spec
=============================================================================
