-------------------------- MODULE GuardedLifecycle --------------------------
(***************************************************************************)
(* What the finalizer of kubeshark.opstreelabs.in promises, with no cache, *)
(* no events, no passes and no faults: the life of a resource and the      *)
(* cluster-wide rights granted on its behalf.  Rights are granted only     *)
(* while the resource is protected, a protected resource that is deleted   *)
(* stays until its rights are revoked, and protection is never taken up    *)
(* again once it was given up.                                             *)
(***************************************************************************)
CONSTANTS
    Resources,  \* the resources
    Rights      \* the kinds of rights granted on behalf of each

VARIABLES
    life,    \* life[r]: where the resource is in its life
    granted  \* granted[r]: the rights it has

lifeVars == <<life, granted>>

Phases == {"gone", "bare", "protected", "terminating", "released"}

Init ==
    /\ life = [r \in Resources |-> "gone"]
    /\ granted = [r \in Resources |-> {}]

Move(r, from, to) ==
    /\ life[r] \in from
    /\ \E phase \in to : life' = [life EXCEPT ![r] = phase]
    /\ UNCHANGED granted

Create(r)  == Move(r, {"gone"}, {"bare"})
Protect(r) == Move(r, {"bare"}, {"protected"})

\* Deletion takes a bare resource at once, unless someone else holds it.
Delete(r) ==
    \/ Move(r, {"bare"}, {"gone", "released"})
    \/ Move(r, {"protected"}, {"terminating"})

Grant(r, right) ==
    /\ life[r] \in {"protected", "terminating"}
    /\ granted' = [granted EXCEPT ![r] = @ \cup {right}]
    /\ UNCHANGED life

Revoke(r, right) ==
    /\ granted' = [granted EXCEPT ![r] = @ \ {right}]
    /\ UNCHANGED life

Release(r) ==
    /\ granted[r] = {}
    /\ Move(r, {"terminating"}, {"gone", "released"})

Vanish(r) == Move(r, {"released"}, {"gone"})

Next ==
    \E r \in Resources :
        \/ Create(r) \/ Protect(r) \/ Delete(r) \/ Release(r) \/ Vanish(r)
        \/ \E right \in Rights : Grant(r, right) \/ Revoke(r, right)

Spec == Init /\ [][Next]_lifeVars

TypeOK ==
    /\ life \in [Resources -> Phases]
    /\ granted \in [Resources -> SUBSET Rights]

\* No right outlives the protection of the resource it was granted for.
RightsAreProtected ==
    \A r \in Resources :
        granted[r] # {} => life[r] \in {"protected", "terminating"}
=============================================================================
