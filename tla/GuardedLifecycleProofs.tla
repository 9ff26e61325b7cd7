------------------------ MODULE GuardedLifecycleProofs ------------------------
(***************************************************************************)
(* The finalizer's promise keeps what it is for: proofs about              *)
(* GuardedLifecycle, for every set of resources and rights.                *)
(***************************************************************************)
EXTENDS GuardedLifecycle, TLAPS

\* One move of one resource, as a change of life.
LEMMA MoveEffect ==
    ASSUME TypeOK, NEW r \in Resources, NEW from, NEW to \in SUBSET Phases,
           Move(r, from, to)
    PROVE  /\ TypeOK'
           /\ life[r] \in from /\ life'[r] \in to
           /\ \A q \in Resources : q # r => life'[q] = life[q]
           /\ granted' = granted
BY DEF TypeOK, Move

LEMMA LifeStep ==
    ASSUME TypeOK, RightsAreProtected, [Next]_lifeVars
    PROVE  TypeOK' /\ RightsAreProtected'
<1>1. CASE UNCHANGED lifeVars
  BY <1>1 DEF lifeVars, TypeOK, RightsAreProtected
<1>2. ASSUME NEW r \in Resources, NEW from, NEW to \in SUBSET Phases,
             Move(r, from, to),
             \/ from \cap {"protected", "terminating"} = {}
             \/ to \subseteq {"protected", "terminating"}
             \/ granted[r] = {}
      PROVE  TypeOK' /\ RightsAreProtected'
  BY <1>2, MoveEffect DEF RightsAreProtected
<1>3. ASSUME NEW r \in Resources,
             Create(r) \/ Protect(r) \/ Delete(r) \/ Release(r) \/ Vanish(r)
      PROVE  TypeOK' /\ RightsAreProtected'
  BY <1>2, <1>3 DEF Create, Protect, Delete, Release, Vanish, Phases
<1>4. ASSUME NEW r \in Resources, NEW right \in Rights,
             Grant(r, right) \/ Revoke(r, right)
      PROVE  TypeOK' /\ RightsAreProtected'
  BY <1>4 DEF Grant, Revoke, TypeOK, RightsAreProtected
<1>5. QED
  BY <1>1, <1>3, <1>4 DEF Next

\* No right outlives the protection of the resource it was granted for: what
\* implements this life cycle leaves no cluster-wide rights behind.
THEOREM RightsProtected == Spec => []RightsAreProtected
<1>1. Init => TypeOK /\ RightsAreProtected
  BY DEF Init, TypeOK, RightsAreProtected, Phases
<1>2. TypeOK /\ RightsAreProtected /\ [Next]_lifeVars
        => (TypeOK /\ RightsAreProtected)'
  BY LifeStep
<1>3. QED
  BY <1>1, <1>2, PTL DEF Spec
=============================================================================
