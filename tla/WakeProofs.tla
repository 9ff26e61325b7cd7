------------------------------ MODULE WakeProofs ------------------------------
(***************************************************************************)
(* Nothing is forgotten: whatever happens to a resource or to one of its   *)
(* watched objects leaves the resource queued, under way, on the wire, or  *)
(* settled.                                                                *)
(***************************************************************************)
EXTENDS LifeProofs, FiniteSetTheorems

-----------------------------------------------------------------------------
(* The objects of the watched steps belong to their resource.              *)

LEMMA WatchedStepTypes ==
    ASSUME NEW step \in WatchedSteps
    PROVE  /\ step \in Steps /\ step \notin ClusterSteps
           /\ \A c, spec : Key(step, c, spec).kind \in WatchedKinds
<1>1. KindOf(step) \in WatchedKinds /\ step \in Steps
  BY DEF WatchedSteps
<1>2. step \notin ClusterSteps
  BY <1>1, KindTable DEF ClusterSteps, WatchedKinds
<1>3. \A c, spec : Key(step, c, spec).kind = KindOf(step)
  BY DEF Key
<1>4. QED
  BY <1>1, <1>2, <1>3

\* A mutate function finds nothing to change in what it has just rendered.
LEMMA MutatedTwice ==
    ASSUME NEW step, NEW c, NEW uid, NEW spec, NEW class
    PROVE  LET obj == Completed(step, Mutated(step, c, uid, spec, class))
           IN  obj = Completed(step, Mutated(step, c, uid, spec, obj.class))
BY DEF Mutated, Completed

LEMMA MutatedOwner ==
    ASSUME NEW step \in WatchedSteps, NEW c \in CRs, NEW uid \in Nat, NEW spec, NEW class
    PROVE  /\ Completed(step, Mutated(step, c, uid, spec, class)).owner
                  = [cr |-> c, uid |-> uid]
           /\ [cr |-> c, uid |-> uid] # Nobody
<1>1. Completed(step, Mutated(step, c, uid, spec, class)).owner = [cr |-> c, uid |-> uid]
  BY WatchedStepTypes DEF Mutated, Completed, OwnerOf
<1>2. QED
  BY <1>1, SentinelAssumption

LEMMA InStepIsOwned ==
    ASSUME StoreOK, NEW c \in CRs, server[c] # Absent, NEW step \in WatchedSteps,
           InStep(step, c)
    PROVE  OwnedBy(c, server[Key(step, c, server[c].spec)])
<1> DEFINE obj == server[Key(step, c, server[c].spec)]
<1>1. server[c].uid \in Nat
  BY IdTypes DEF StoreOK, Resources
<1>2. obj # Absent /\ obj.owner = [cr |-> c, uid |-> server[c].uid]
  <2>1. obj # Absent
        /\ obj = Completed(step, Mutated(step, c, server[c].uid, server[c].spec, obj.class))
    BY DEF InStep
  <2> HIDE DEF obj
  <2>2. QED
    BY <1>1, <2>1, MutatedOwner
<1>3. QED
  BY <1>1, <1>2, SentinelAssumption DEF OwnedBy

-----------------------------------------------------------------------------
(* A step that has been seen to stays so, or its resource is woken.        *)

\* How a step reaches each id, by the actions that may wake a resource.
WakeEffect ==
    \A id \in Ids : Untouched(id) \/ Stored(id) \/ ReceiveEvent(id) \/ Restart

LEMMA PutWakes ==
    ASSUME StoreOK, PutStep
    PROVE  WakeEffect
BY PutEffect, UnchangedEffect DEF PutStep, WakeEffect

LEMMA WakeStep ==
    ASSUME TypeOK, [Next]_vars
    PROVE  WakeEffect
<1>1. ASSUME NEW x \in Ids, ReceiveEvent(x)
      PROVE  WakeEffect
  BY <1>1 DEF ReceiveEvent, Receive, TypeOK, StoreOK, Untouched, WakeEffect
<1>2. CASE PutStep
  BY <1>2, PutWakes DEF TypeOK
<1>3. CASE Controller
  BY <1>1, <1>2, <1>3, PassPuts DEF Controller, PutStep, StartPass, Resync, WakeEffect
<1>4. QED
  BY <1>2, <1>3, EnvironmentPuts DEF Next, vars, PutStep, apiVars

LEMMA RestartWakes ==
    ASSUME Restart, NEW c \in CRs, server[c] # Absent
    PROVE  c \in queue'
BY DEF Restart, Listed

\* The resources that an object belongs to are woken by its event.
LEMMA EventWakes ==
    ASSUME NEW key \in Keys, key.kind \in WatchedKinds, ReceiveEvent(key),
           NEW c \in CRs, OwnedBy(c, cache[key]) \/ OwnedBy(c, Head(watch[key]))
    PROVE  c \in queue'
<1>1. c \in OwnersOf({cache[key], Head(watch[key])})
  BY DEF OwnersOf, OwnedBy
<1>2. key \notin CRs
  BY IdTypes
<1>3. QED
  BY <1>1, <1>2 DEF ReceiveEvent

SeenTo(step, c) ==
    InStep(step, c) \/ Coming(c, Key(step, c, server[c].spec))

\* Events of an object of c are on their way as long as they are not received.
LEMMA ComingStays ==
    ASSUME StoreOK, NEW c, NEW key \in Ids, Coming(c, key), Stored(key)
    PROVE  Coming(c, key)'
<1>1. /\ watch[key] \in Seq(Versions(key) \cup {server'[key]})
      /\ watch'[key] = Append(watch[key], server'[key])
      /\ cache'[key] = cache[key]
  BY DEF StoreOK, Stored
<1>2. /\ Len(watch'[key]) = Len(watch[key]) + 1 /\ Len(watch[key]) \in Nat
      /\ \A i \in 1..Len(watch[key]) : watch'[key][i] = watch[key][i]
      /\ watch'[key] # << >>
  BY <1>1, AppendProperties
<1>3. QED
  BY <1>1, <1>2 DEF Coming

\* A version of an object of c becomes an event on its way when it is replaced.
LEMMA ComingStarts ==
    ASSUME StoreOK, CacheFollows, NEW c, NEW key \in Ids, OwnedBy(c, server[key]),
           Stored(key)
    PROVE  Coming(c, key)'
<1>1. /\ watch[key] \in Seq(Versions(key) \cup {server'[key]})
      /\ watch'[key] = Append(watch[key], server'[key])
      /\ cache'[key] = cache[key]
  BY DEF StoreOK, Stored
<1>2. /\ Len(watch'[key]) = Len(watch[key]) + 1 /\ Len(watch[key]) \in Nat
      /\ \A i \in 1..Len(watch[key]) : watch'[key][i] = watch[key][i]
      /\ watch'[key] # << >>
  BY <1>1, AppendProperties
<1>3. CASE watch[key] = << >>
  BY <1>1, <1>2, <1>3 DEF Coming, CacheFollows
<1>4. CASE watch[key] # << >>
  <2>1. Coming(c, key)
    <3>1. Len(watch[key]) \in 1..Len(watch[key])
      BY <1>1, <1>4, EmptySeq
    <3>2. OwnedBy(c, watch[key][Len(watch[key])])
      BY <1>4 DEF CacheFollows
    <3>3. QED
      BY <1>4, <3>1, <3>2 DEF Coming
  <2>2. QED
    BY <2>1, ComingStays
<1>5. QED
  BY <1>3, <1>4

\* An event of an object of c that is received wakes c, unless others remain.
LEMMA ComingArrives ==
    ASSUME StoreOK, NEW c \in CRs, NEW key \in Keys, key.kind \in WatchedKinds,
           Coming(c, key), ReceiveEvent(key)
    PROVE  Coming(c, key)' \/ c \in queue'
<1>1. /\ key \in Ids /\ watch[key] # << >> /\ watch[key] \in Seq(Versions(key))
      /\ watch'[key] = Tail(watch[key]) /\ Len(watch[key]) \in Nat
      /\ Head(watch[key]) = watch[key][1]
  BY IdTypes DEF StoreOK, ReceiveEvent, Receive
<1>2. CASE OwnedBy(c, cache[key]) \/ OwnedBy(c, watch[key][1])
  BY <1>1, <1>2, EventWakes
<1>3. ASSUME NEW i \in 1..Len(watch[key]), i # 1, OwnedBy(c, watch[key][i])
      PROVE  Coming(c, key)'
  <2>1. /\ Len(Tail(watch[key])) = Len(watch[key]) - 1
        /\ Tail(watch[key]) \in Seq(Versions(key))
        /\ \A j \in 1..Len(Tail(watch[key])) : Tail(watch[key])[j] = watch[key][j + 1]
    BY <1>1, HeadTailProperties
  <2> DEFINE t == Tail(watch[key])
  <2> HIDE DEF t
  <2>2. /\ Len(t) = Len(watch[key]) - 1 /\ watch'[key] = t
        /\ \A j \in 1..Len(t) : t[j] = watch[key][j + 1]
    BY <1>1, <2>1 DEF t
  <2>3. i - 1 \in 1..Len(t) /\ (i - 1) + 1 = i
    BY <1>1, <1>3, <2>2
  <2>4. OwnedBy(c, t[i - 1])
    BY <1>3, <2>2, <2>3
  <2>5. t # << >>
    BY <2>3
  <2>6. QED
    BY <2>2, <2>3, <2>4, <2>5 DEF Coming
<1>4. QED
  BY <1>2, <1>3 DEF Coming

\* Whoever changes an object of a watched kind wakes its resource.
LEMMA SeenToStays ==
    ASSUME TypeOK, CacheFollows, WakeEffect, NEW c \in CRs, server[c] # Absent,
           server'[c] = server[c], NEW step \in WatchedSteps, SeenTo(step, c)
    PROVE  SeenTo(step, c)' \/ c \in queue'
<1>1. server[c].spec \in Specs
  BY IdTypes DEF TypeOK, StoreOK, Resources
<1>2. PICK key \in Keys : key = Key(step, c, server[c].spec)
  BY <1>1, KeyType, WatchedStepTypes
<1>3. key \in Ids /\ key.kind \in WatchedKinds
  BY <1>2, IdTypes, WatchedStepTypes
<1>4. /\ SeenTo(step, c) <=> InStep(step, c) \/ Coming(c, key)
      /\ SeenTo(step, c)' <=> InStep(step, c)' \/ Coming(c, key)'
  BY <1>2 DEF SeenTo, Coming
<1>5. server'[key] = server[key] => (InStep(step, c)' <=> InStep(step, c))
  BY <1>2 DEF InStep
<1>6. CASE Untouched(key)
  BY <1>4, <1>5, <1>6 DEF Untouched, Coming
<1>7. CASE Stored(key)
  <2>1. InStep(step, c) => OwnedBy(c, server[key])
    BY <1>2, InStepIsOwned DEF TypeOK
  <2>2. Coming(c, key) \/ OwnedBy(c, server[key]) => Coming(c, key)'
    BY <1>3, <1>7, ComingStays, ComingStarts DEF TypeOK
  <2>3. QED
    BY <1>4, <2>1, <2>2
<1>8. CASE ReceiveEvent(key)
  <2>1. server'[key] = server[key]
    BY <1>8 DEF ReceiveEvent, Receive
  <2>2. Coming(c, key) => Coming(c, key)' \/ c \in queue'
    BY <1>3, <1>8, ComingArrives DEF TypeOK
  <2>3. QED
    BY <1>4, <1>5, <2>1, <2>2
<1>9. CASE Restart
  BY <1>9, RestartWakes
<1>10. QED
  BY <1>3, <1>6, <1>7, <1>8, <1>9 DEF WakeEffect

LEMMA AppliedIsSeen ==
    ASSUME NEW n, NEW c
    PROVE  Applied(n, c) <=>
              /\ server[c].fin /\ ~server[c].del
              /\ \A i \in 1..n : Plan[i] \in WatchedSteps => SeenTo(Plan[i], c)
BY DEF Applied, SeenTo

LEMMA AppliedStays ==
    ASSUME TypeOK, CacheFollows, WakeEffect, NEW c \in CRs, server[c] # Absent,
           server'[c] = server[c], NEW n, Applied(n, c)
    PROVE  Applied(n, c)' \/ c \in queue'
<1>1. \A i \in 1..n : Plan[i] \in WatchedSteps => SeenTo(Plan[i], c)' \/ c \in queue'
  BY AppliedIsSeen, SeenToStays
<1>2. server'[c].fin /\ ~server'[c].del
  BY DEF Applied
<1>3. Applied(n, c)' <=>
        /\ server'[c].fin /\ ~server'[c].del
        /\ \A i \in 1..n : Plan[i] \in WatchedSteps => SeenTo(Plan[i], c)'
  BY DEF Applied, SeenTo
<1>4. QED
  BY <1>1, <1>2, <1>3

-----------------------------------------------------------------------------
(* A pass that knows the stored version sees to each step.                 *)

LEMMA UntouchedResource ==
    ASSUME TypeOK, WakeEffect, NEW c \in CRs, server[c] # Absent,
           ~(c \in queue'), watch'[c] = << >>
    PROVE  server'[c] = server[c] /\ watch[c] = << >>
<1>1. c \in Ids /\ watch[c] \in Seq(Versions(c))
  BY IdTypes DEF TypeOK, StoreOK
<1>2. ~Stored(c)
  <2>1. Append(watch[c], server'[c]) # << >>
    BY <1>1, AppendEnds
  <2>2. QED
    BY <2>1 DEF Stored
<1>3. ~ReceiveEvent(c)
  BY DEF ReceiveEvent
<1>4. ~Restart
  BY RestartWakes
<1>5. QED
  BY <1>1, <1>2, <1>3, <1>4 DEF Untouched, WakeEffect

LEMMA PassSeesTo ==
    ASSUME TypeOK, CacheFollows, pass.pc = "apply",
           NEW c \in CRs, c = pass.cr, server[c] # Absent,
           pass.snap = server[c], server'[c] = server[c],
           NEW step \in WatchedSteps, step = Step,
           \/ NothingToWrite /\ UNCHANGED apiVars
           \/ WriteObject
    PROVE  SeenTo(step, c)'
<1>1. /\ server[c].spec \in Specs /\ server[c].uid \in Nat
      /\ StepKey = Key(step, c, server[c].spec)
  BY IdTypes DEF TypeOK, StoreOK, Resources, StepKey
<1>2. PICK key \in Keys : key = Key(step, c, server[c].spec)
  BY <1>1, KeyType, WatchedStepTypes
<1>3. key \in Ids /\ StepKey = key /\ Have = cache[key]
  BY <1>1, <1>2, IdTypes DEF Have
<1>4. PICK class :
        Want = Completed(step, Mutated(step, c, server[c].uid, server[c].spec, class))
  BY DEF Want, Rendered
<1>5. /\ Want = Completed(step, Mutated(step, c, server[c].uid, server[c].spec, Want.class))
      /\ Want \in Objects /\ Want # Absent /\ OwnedBy(c, Want)
  <2>1. Want \in Objects
    BY WantType DEF TypeOK
  <2>2. Want # Absent
    BY <2>1, SentinelAssumption
  <2>3. Want.owner = [cr |-> c, uid |-> server[c].uid] /\ Want.owner # Nobody
    BY <1>1, <1>4, MutatedOwner
  <2>4. QED
    BY <1>4, <2>1, <2>2, <2>3, MutatedTwice DEF OwnedBy
<1>6. server'[key] = Want => InStep(step, c)'
  BY <1>2, <1>5 DEF InStep
<1>7. CASE NothingToWrite /\ UNCHANGED apiVars
  <2>1. cache[key] = Want /\ server' = server /\ cache' = cache /\ watch' = watch
    BY <1>3, <1>7, FoundAsWanted DEF TypeOK, apiVars
  <2>2. CASE watch[key] = << >>
    BY <1>3, <1>6, <2>1, <2>2 DEF CacheFollows, SeenTo
  <2>3. CASE watch[key] # << >>
    <3>1. Coming(c, key)'
      BY <1>5, <2>1, <2>3 DEF Coming
    <3>2. QED
      BY <1>2, <3>1 DEF SeenTo, Coming
  <2>4. QED
    BY <2>2, <2>3
<1>8. CASE WriteObject
  <2>1. server'[key] = Want
    BY <1>3, <1>8, PutEffect DEF WriteObject, PutIfChanged, apiVars, TypeOK
  <2>2. QED
    BY <1>6, <2>1 DEF SeenTo
<1>9. QED
  BY <1>7, <1>8

\* A pass that ends well on a resource that is still as it read it has
\* reported it.
LEMMA PassReports ==
    ASSUME TypeOK, pass.pc = "ready", NEW c \in CRs, c = pass.cr, server[c] # Absent,
           pass.snap = server[c], watch'[c] = << >>,
           PatchStatus("True", "Reconciled", "all")
    PROVE  Reported(c)' /\ server'[c] = server[c]
<1> DEFINE new == StatusPatched(server[c], server[c], "True", "Reconciled", "all")
<1>1. c \in Ids /\ server[c] \in Resources
  BY IdTypes DEF TypeOK, StoreOK
<1>2. /\ new.cond = [status |-> "True", reason |-> "Reconciled",
                     message |-> "all", gen |-> server[c].gen]
      /\ new.obs = server[c].gen
  BY <1>1 DEF StatusPatched, Resources
<1>3. PutIfChanged(c, new)
  BY DEF PatchStatus
<1> HIDE DEF new
<1>4. ~Put(c, new)
  <2>1. watch[c] \in Seq(Versions(c)) /\ DOMAIN watch = Ids
    BY <1>1 DEF TypeOK, StoreOK
  <2>2. Append(watch[c], new) # << >>
    BY <2>1, AppendEnds
  <2>3. QED
    BY <1>1, <2>1, <2>2 DEF Put
<1>5. UNCHANGED apiVars /\ new = server[c]
  BY <1>3, <1>4 DEF PutIfChanged
<1>6. QED
  BY <1>2, <1>5 DEF Reported, apiVars

\* The pass that knows the stored version goes on, or leaves it settled.
LEMMA PassStaysAwake ==
    ASSUME TypeOK, CacheFollows, [Next]_vars, PassStep \/ PassFault,
           NEW c \in CRs, server[c] # Absent, InHand(c),
           ~(c \in queue'), watch'[c] = << >>, server'[c] = server[c]
    PROVE  InHand(c)' \/ Settled(c)'
<1>1. /\ pass \in Passes /\ pass.cr = c /\ c \in Ids /\ pass.snap = server[c]
      /\ pass.i \in Nat \ {0}
  BY PassType, IdTypes DEF InHand, TypeOK, Passes
<1>2. ~Retry
  BY <1>1 DEF Retry
<1>3. ASSUME NEW obj, Put(c, obj)
      PROVE  FALSE
  <2>1. watch[c] \in Seq(Versions(c))
    BY <1>1 DEF TypeOK, StoreOK
  <2>2. Append(watch[c], obj) # << >>
    BY <2>1, AppendEnds
  <2>3. QED
    BY <1>1, <1>3, <2>2 DEF Put, TypeOK, StoreOK
<1>4. ASSUME pass'.cr = pass.cr, pass'.snap = pass.snap,
             pass'.pc \in {"fail", "cleanup", "release"}
      PROVE  InHand(c)'
  BY <1>1, <1>4 DEF InHand
<1>5. ASSUME NEW reason, NEW message, Fail(reason, message)
      PROVE  InHand(c)'
  BY <1>1, <1>4, <1>5, FailShape
<1>6. ASSUME NEW n, Applied(n, c)
      PROVE  Applied(n, c)'
  BY <1>6, AppliedStays, WakeStep
<1>7. CASE Guard \/ GuardFault
  BY <1>1, <1>2, <1>3, <1>7 DEF Guard, GuardFault, WriteFinalizer
<1>8. CASE Release \/ ReleaseFault
  BY <1>1, <1>3, <1>5, <1>8 DEF Release, ReleaseFault, RemoveFinalizer
<1>9. CASE Report \/ ReportFault \/ ReadyFault
  BY <1>2, <1>9 DEF Report, ReportFault, ReadyFault
<1>10. CASE Ready
  <2>1. pass.pc = "ready" /\ PatchStatus("True", "Reconciled", "all")
    BY <1>2, <1>10 DEF Ready
  <2>2. Reported(c)'
    BY <1>1, <2>1, PassReports
  <2>3. Applied(Len(Plan), c)'
    BY <1>6, <2>1 DEF InHand
  <2>4. ~server'[c].del
    BY <2>3 DEF Applied
  <2>5. QED
    BY <2>2, <2>3, <2>4 DEF Settled
<1>11. CASE Cleanup \/ CleanupFault
  <2>1. CASE Cleanup
    BY <1>1, <1>4, <2>1 DEF Cleanup, Passes
  <2>2. CASE CleanupFault
    BY <1>5, <2>2 DEF CleanupFault
  <2>3. QED
    BY <1>11, <2>1, <2>2
<1>12. CASE Apply /\ NextStep
  <2>1. pass.pc = "apply" /\ pass.i <= Len(Plan) /\ Len(Plan) \in Nat
    BY <1>12, PlanAssumption DEF Apply, TypeOK, PassOK
  <2>2. PICK n \in Nat : n = pass.i
    BY <1>1
  <2>3. Step = Plan[n]
    BY <2>2 DEF Step
  <2>4. Plan[n] \in WatchedSteps => SeenTo(Plan[n], c)'
    BY <1>1, <1>12, <2>1, <2>3, PassSeesTo, FailShape DEF Apply, NextStep, Passes
  <2>5. Applied(n - 1, c)'
    BY <1>6, <2>1, <2>2 DEF InHand
  <2>6. Applied(n, c)'
    <3>1. \A i \in 1..n : i \in 1..(n - 1) \/ i = n
      BY <2>2
    <3>2. QED
      BY <2>4, <2>5, <3>1 DEF Applied, SeenTo
  <2>7. CASE pass.i < Len(Plan)
    <3>1. /\ pass'.pc = "apply" /\ pass'.i - 1 = n /\ pass'.cr = c
          /\ pass'.snap = server[c]
      BY <1>1, <1>12, <2>1, <2>2, <2>7 DEF NextStep, Passes
    <3>2. QED
      BY <2>6, <3>1 DEF InHand
  <2>8. CASE ~(pass.i < Len(Plan))
    <3>1. /\ pass'.pc = "ready" /\ pass'.cr = c /\ pass'.snap = server[c]
          /\ n = Len(Plan)
      BY <1>1, <1>12, <2>1, <2>2, <2>8 DEF NextStep, Passes
    <3>2. QED
      BY <2>6, <3>1 DEF InHand
  <2>9. QED
    BY <2>7, <2>8
<1>13. CASE Apply \/ ApplyFault
  BY <1>5, <1>12, <1>13 DEF Apply, ApplyFault
<1>14. QED
  BY <1>7, <1>8, <1>9, <1>10, <1>11, <1>13 DEF PassStep, PassFault

\* A pass that begins on the stored version takes the resource in hand.
LEMMA DispatchTakes ==
    ASSUME TypeOK, CacheFollows, NEW c \in CRs, StartPass(c), server[c] # Absent,
           watch[c] = << >>
    PROVE  InHand(c)' \/ Settled(c)'
<1>1. c \in Ids /\ cache[c] = server[c] /\ UNCHANGED apiVars /\ pass' = Dispatch(c)
  BY IdTypes DEF CacheFollows, StartPass
<1>2. server[c].del \in BOOLEAN /\ server[c].fin \in BOOLEAN
  BY <1>1, IdTypes DEF TypeOK, StoreOK, Resources
<1>3. ASSUME NEW pc \in {"guard", "apply", "cleanup"}
      PROVE  /\ Begin(c, pc).pc = pc /\ Begin(c, pc).cr = c /\ Begin(c, pc).i = 1
             /\ Begin(c, pc).snap = server[c]
  BY <1>1 DEF Begin
<1>4. CASE server[c].del /\ ~server[c].fin
  BY <1>1, <1>4 DEF Settled, apiVars
<1>5. ASSUME NEW pc \in {"guard", "cleanup"}, Dispatch(c) = Begin(c, pc)
      PROVE  InHand(c)'
  BY <1>1, <1>3, <1>5 DEF InHand, apiVars
<1>6. CASE server[c].fin /\ ~server[c].del
  <2>1. Dispatch(c) = Begin(c, "apply")
    BY <1>1, <1>6 DEF Dispatch
  <2>2. /\ pass'.pc = "apply" /\ pass'.cr = c /\ pass'.i - 1 = 0
        /\ pass'.snap = server'[c] /\ server'[c].fin /\ ~server'[c].del
    BY <1>1, <1>3, <1>6, <2>1 DEF apiVars
  <2>3. QED
    BY <2>2 DEF InHand, Applied
<1>7. QED
  BY <1>1, <1>2, <1>4, <1>5, <1>6 DEF Dispatch

-----------------------------------------------------------------------------
(* NothingForgotten is inductive.                                          *)

LEMMA QueueStays ==
    ASSUME TypeOK, [Next]_vars, NEW c \in CRs, Restart => server[c] # Absent,
           c \in queue, ~StartPass(c)
    PROVE  c \in queue'
<1>1. CASE UNCHANGED queue
  BY <1>1
<1>2. CASE PassStep \/ PassFault
  <2>1. UNCHANGED queue \/ queue' = queue \cup {pass.cr}
    BY <1>2
    DEF PassStep, PassFault, Guard, Apply, Cleanup, Release, Ready, Report,
        GuardFault, ApplyFault, CleanupFault, ReleaseFault, ReadyFault, ReportFault,
        Done, Retry, Fail, NextStep
  <2>2. QED
    BY <2>1
<1>3. CASE Environment
  BY <1>1, <1>3
  DEF Environment, UserStep, CreateCR, EditSpec, DeleteCR, ReleaseHeld, Drift,
      Collect, reconcilerVars
<1>4. CASE Controller
  <2>1. ASSUME NEW d \in CRs, StartPass(d)
        PROVE  c \in queue'
    BY <2>1 DEF StartPass
  <2>2. ASSUME NEW id \in Ids, ReceiveEvent(id)
        PROVE  c \in queue'
    BY <2>2 DEF ReceiveEvent
  <2>3. Resync => c \in queue'
    BY DEF Resync
  <2>4. QED
    BY <1>2, <1>4, <2>1, <2>2, <2>3, RestartWakes DEF Controller
<1>5. QED
  BY <1>1, <1>3, <1>4 DEF Next, vars

\* Only a pass moves, and only the worker starts one.
LEMMA PassRests ==
    ASSUME [Next]_vars, pass.pc # "idle", ~Restart, ~(PassStep \/ PassFault)
    PROVE  pass' = pass
<1>1. CASE Environment
  BY <1>1
  DEF Environment, UserStep, CreateCR, EditSpec, DeleteCR, ReleaseHeld, Drift,
      Collect, reconcilerVars
<1>2. CASE Controller
  <2>1. ASSUME NEW d \in CRs, StartPass(d)
        PROVE  FALSE
    BY <2>1 DEF StartPass, Idle
  <2>2. ASSUME NEW id \in Ids, ReceiveEvent(id)
        PROVE  pass' = pass
    BY <2>2 DEF ReceiveEvent
  <2>3. Resync => pass' = pass
    BY DEF Resync
  <2>4. QED
    BY <1>2, <2>1, <2>2, <2>3 DEF Controller
<1>3. QED
  BY <1>1, <1>2 DEF Next, vars

\* A resource that is stored while no event of it is on its way was stored
\* before, as it is.
LEMMA StoredBefore ==
    ASSUME TypeOK, WakeEffect, NEW c \in CRs, server'[c] # Absent,
           ~(c \in queue'), watch'[c] = << >>
    PROVE  server[c] # Absent /\ server'[c] = server[c] /\ watch[c] = << >>
<1>1. server[c] # Absent
  <2>1. ASSUME server[c] = Absent PROVE FALSE
    <3>1. c \in Ids /\ watch[c] \in Seq(Versions(c))
      BY IdTypes DEF TypeOK, StoreOK
    <3>2. ~Stored(c)
      BY <3>1, AppendEnds DEF Stored
    <3>3. server'[c] = server[c]
      BY <3>1, <3>2 DEF WakeEffect, Untouched, ReceiveEvent, Receive, Restart, Relist
    <3>4. QED
      BY <2>1, <3>3
  <2>2. QED
    BY <2>1
<1>2. QED
  BY <1>1, UntouchedResource

\* What is settled, or in the hands of a pass that rests, stays so.
LEMMA RestsAwake ==
    ASSUME TypeOK, CacheFollows, WakeEffect, NEW c \in CRs, server[c] # Absent,
           server'[c] = server[c], ~(c \in queue')
    PROVE  /\ Settled(c) => Settled(c)'
           /\ InHand(c) /\ pass' = pass => InHand(c)'
<1>1. ASSUME NEW n, Applied(n, c)
      PROVE  Applied(n, c)'
  BY <1>1, AppliedStays
<1>2. ASSUME Settled(c)
      PROVE  Settled(c)'
  BY <1>1, <1>2 DEF Settled, Reported
<1>3. ASSUME InHand(c), pass' = pass
      PROVE  InHand(c)'
  <2>1. \A n : n = pass.i - 1 => (Applied(n, c) => Applied(n, c)')
    BY <1>1
  <2>2. QED
    BY <1>1, <1>3, <2>1 DEF InHand, Applied
<1>4. QED
  BY <1>2, <1>3

LEMMA AwakeStep ==
    ASSUME TypeOK, CacheFollows, NothingForgotten, [Next]_vars, NEW c \in CRs,
           server'[c] # Absent
    PROVE  c \in queue' \/ watch'[c] # << >> \/ InHand(c)' \/ Settled(c)'
<1>1. SUFFICES ASSUME ~(c \in queue'), watch'[c] = << >>
               PROVE  InHand(c)' \/ Settled(c)'
  OBVIOUS
<1>2. WakeEffect
  BY WakeStep
<1>3. server[c] # Absent /\ server'[c] = server[c] /\ watch[c] = << >>
  BY <1>1, <1>2, StoredBefore
<1>4. CASE StartPass(c)
  BY <1>3, <1>4, DispatchTakes
<1>5. CASE ~StartPass(c)
  <2>1. InHand(c) \/ Settled(c)
    BY <1>1, <1>3, <1>5, QueueStays DEF NothingForgotten
  <2>2. ASSUME InHand(c), PassStep \/ PassFault
        PROVE  InHand(c)' \/ Settled(c)'
    BY <1>1, <1>3, <2>2, PassStaysAwake
  <2>3. ASSUME InHand(c), ~(PassStep \/ PassFault)
        PROVE  pass' = pass
    BY <1>1, <1>3, <2>3, RestartWakes, PassRests DEF InHand
  <2>4. QED
    BY <1>1, <1>2, <1>3, <2>1, <2>2, <2>3, RestsAwake
<1>6. QED
  BY <1>4, <1>5

\* Nothing is forgotten: the inductive invariant behind the theorem below.
THEOREM NobodyIsForgotten == Spec => []NothingForgotten
<1>1. Init => NothingForgotten
  BY IdTypes DEF Init, NothingForgotten
<1>2. TypeOK /\ CacheFollows /\ NothingForgotten /\ [Next]_vars => NothingForgotten'
  BY AwakeStep DEF NothingForgotten
<1>3. QED
  BY <1>1, <1>2, TypeCorrect, CacheCatchesUp, PTL DEF Spec

LEMMA QuietIsSettled ==
    ASSUME TypeOK, NothingForgotten
    PROVE  QuietMeansApplied
<1>1. SUFFICES ASSUME Quiet, NEW c \in CRs, server[c] # Absent
               PROVE  IF server[c].del THEN ~server[c].fin
                      ELSE /\ server[c].fin
                           /\ Reported(c)
                           /\ \A step \in WatchedSteps : InStep(step, c)
  BY DEF QuietMeansApplied
<1>2. Settled(c)
  BY <1>1, IdTypes DEF NothingForgotten, Quiet, InHand, Idle
<1>3. CASE server[c].del
  BY <1>2, <1>3 DEF Settled
<1>4. CASE ~server[c].del
  <2>1. Reported(c) /\ Applied(Len(Plan), c)
    BY <1>2, <1>4 DEF Settled
  <2>2. ASSUME NEW step \in WatchedSteps
        PROVE  InStep(step, c)
    <3>1. PICK i \in 1..Len(Plan) : Plan[i] = step
      BY WatchedStepTypes DEF Steps
    <3>2. Key(step, c, server[c].spec) \in Ids
      <4>1. server[c].spec \in Specs
        BY <1>1, IdTypes DEF TypeOK, StoreOK, Resources
      <4>2. QED
        BY <4>1, KeyType, WatchedStepTypes
    <3>3. ~Coming(c, Key(step, c, server[c].spec))
      BY <1>1, <3>2 DEF Quiet, Coming
    <3>4. QED
      BY <2>1, <3>1, <3>3 DEF Applied
  <2>3. QED
    BY <1>4, <2>1, <2>2 DEF Applied
<1>5. QED
  BY <1>3, <1>4

\* The level-triggered loop loses nothing: when no event is on the wire, no
\* resource queued and no pass under way, every resource is reported Ready at
\* its generation with all its watched objects in step, or is gone but for
\* what others hold.  For every plan, every set of resources, specs and
\* manifests that drift, fault, restart and collide as often as they like.
THEOREM QuietIsApplied == Spec => []QuietMeansApplied
BY QuietIsSettled, TypeCorrect, NobodyIsForgotten, PTL
-----------------------------------------------------------------------------
(* The same of the two kinds that are not watched.  Nobody is woken when   *)
(* one of their objects changes, so that a pass must not take for present  *)
(* what is gone.  These proofs show that this is all that can go wrong.    *)

\* CreateOrUpdate finds nothing to change in a cached ClusterRole or
\* ClusterRoleBinding that is not the stored one any more.
StaleSkip ==
    Apply /\ Step \in ClusterSteps /\ NothingToWrite /\ ~UpToDate(StepKey)

\* None of the others writes an object of these kinds.
OnlyOperatorsWriteRBAC == {"ClusterRole", "ClusterRoleBinding"} \cap DriftKinds = {}

RBACApplied(n, c) ==
    /\ server[c].fin /\ ~server[c].del
    /\ \A i \in 1..n : Plan[i] \in ClusterSteps => InStep(Plan[i], c)

RBACInHand(c) ==
    /\ pass.pc # "idle" /\ pass.cr = c /\ pass.snap = server[c]
    /\ pass.pc = "apply" => RBACApplied(pass.i - 1, c)
    /\ pass.pc = "ready" => RBACApplied(Len(Plan), c)

RBACSettled(c) == server[c].del \/ RBACApplied(Len(Plan), c)

\* A resource that is not queued again is still cached as its pass read it.
PassIsCurrent ==
    \A c \in CRs : pass.pc # "idle" /\ pass.cr = c /\ ~(c \in queue) =>
        pass.snap = cache[c]

NoRBACForgotten ==
    /\ PassIsCurrent
    /\ \A c \in CRs : server[c] # Absent =>
          c \in queue \/ watch[c] # << >> \/ RBACInHand(c) \/ RBACSettled(c)

\* What a write of a step leaves is in step.
LEMMA WantIsInStep ==
    ASSUME TypeOK, pass.pc = "apply", NEW c \in CRs, pass.cr = c,
           NEW step, Step = step,
           pass.snap = server[c], server'[c] = server[c],
           server'[StepKey] = Want
    PROVE  InStep(step, c)'
<1>1. StepKey = Key(step, c, server[c].spec)
  BY DEF StepKey
<1>2. PICK class :
        Want = Completed(step, Mutated(step, c, server[c].uid, server[c].spec, class))
  BY DEF Want, Rendered
<1>3. Want = Completed(step, Mutated(step, c, server[c].uid, server[c].spec, Want.class))
  BY <1>2, MutatedTwice
<1>4. Want # Absent
  BY WantType, SentinelAssumption DEF TypeOK
<1>5. QED
  BY <1>1, <1>3, <1>4 DEF InStep

LEMMA RBACInStepStays ==
    ASSUME RBACKeysApart, TypeOK, LifeInv, PassIsCurrent, [Next]_vars,
           NEW c \in CRs, Guarded(c), ~server[c].del, server'[c] = server[c],
           ~(c \in queue), watch[c] = << >>,
           NEW step \in ClusterSteps, KindOf(step) \notin DriftKinds, InStep(step, c)
    PROVE  InStep(step, c)'
<1>1. server[c].spec \in Specs
  BY IdTypes DEF Guarded, TypeOK, StoreOK, Resources
<1>2. PICK key \in Keys : key = Key(step, c, server[c].spec)
  BY <1>1, KeyType
<1>3. server[key] # Absent /\ key.kind = KindOf(step)
  BY <1>2 DEF InStep, Key
<1>4. server'[key] # Absent
  BY <1>2, <1>3, RBACKeysApart, LivingStep DEF LifeInv
<1>5. CASE server'[key] = server[key]
  BY <1>2, <1>5 DEF InStep
<1>6. CASE WritesStep(key)
  <2>1. pass.pc = "apply" /\ key = StepKey /\ server'[StepKey] = Want
    BY <1>6 DEF WritesStep
  <2>2. pass \in Passes /\ pass.cr \in CRs /\ pass.snap.spec \in Specs
    BY <2>1, PassType DEF TypeOK
  <2>3. Step = step
    BY <1>2, <2>1, ClusterKinds DEF StepKey, Key, TypeOK
  <2>4. pass.cr = c
    <3>1. Key(step, c, server[c].spec) = Key(step, pass.cr, pass.snap.spec)
      BY <1>2, <2>1, <2>3 DEF StepKey
    <3>2. QED
      BY <1>1, <2>2, <3>1, RBACKeysApart DEF RBACKeysApart
  <2>5. pass.snap = server[c]
    BY <2>1, <2>4, IdTypes DEF PassIsCurrent, LifeInv, CacheFollows
  <2>6. QED
    BY <2>1, <2>3, <2>4, <2>5, WantIsInStep
<1>7. QED
  BY <1>3, <1>4, <1>5, <1>6, StepWrites DEF KeyEffect

LEMMA RBACAppliedStays ==
    ASSUME RBACKeysApart, OnlyOperatorsWriteRBAC,
           TypeOK, LifeInv, PassIsCurrent, [Next]_vars, NEW c \in CRs,
           server[c] # Absent, server'[c] = server[c],
           ~(c \in queue), watch[c] = << >>, NEW n, RBACApplied(n, c)
    PROVE  RBACApplied(n, c)'
<1>1. Guarded(c) /\ ~server[c].del
  BY DEF RBACApplied, Guarded
<1>2. \A step \in ClusterSteps : KindOf(step) \notin DriftKinds
  BY KindTable DEF OnlyOperatorsWriteRBAC, ClusterSteps
<1>3. \A i \in 1..n : Plan[i] \in ClusterSteps => InStep(Plan[i], c)'
  BY <1>1, <1>2, RBACKeysApart, RBACInStepStays DEF RBACApplied
<1>4. QED
  BY <1>3 DEF RBACApplied

LEMMA PassAppliesRBAC ==
    ASSUME TypeOK, CacheFollows, pass.pc = "apply", ~StaleSkip, Apply, NextStep,
           NEW c \in CRs, c = pass.cr, pass.snap = server[c], server'[c] = server[c],
           NEW step \in ClusterSteps, Step = step
    PROVE  InStep(step, c)'
<1>1. StepKey \in Ids /\ Have = cache[StepKey]
  BY WriteKeys, IdTypes DEF TypeOK, Have
<1>2. pass'.pc # "fail"
  BY PassType DEF NextStep, TypeOK, Passes
<1>3. CASE NothingToWrite /\ UNCHANGED apiVars
  <2>1. server[StepKey] = Want
    BY <1>1, <1>3, FoundAsWanted DEF StaleSkip, UpToDate, CacheFollows, TypeOK
  <2>2. QED
    BY <1>3, <2>1, WantIsInStep DEF apiVars
<1>4. CASE WriteObject
  <2>1. server'[StepKey] = Want
    BY <1>1, <1>4, PutEffect DEF WriteObject, PutIfChanged, apiVars, TypeOK
  <2>2. QED
    BY <2>1, WantIsInStep
<1>5. QED
  BY <1>2, <1>3, <1>4, PassType, FailShape DEF Apply, TypeOK

LEMMA PassKeepsRBAC ==
    ASSUME TypeOK, CacheFollows, [Next]_vars, PassStep \/ PassFault, ~StaleSkip,
           NEW c \in CRs, server[c] # Absent, RBACInHand(c),
           \A n : RBACApplied(n, c) => RBACApplied(n, c)',
           ~(c \in queue'), watch'[c] = << >>, server'[c] = server[c]
    PROVE  RBACInHand(c)' \/ RBACSettled(c)'
<1>1. /\ pass \in Passes /\ pass.cr = c /\ c \in Ids /\ pass.snap = server[c]
      /\ pass.i \in Nat \ {0}
  BY PassType, IdTypes DEF RBACInHand, TypeOK, Passes
<1>2. ~Retry
  BY <1>1 DEF Retry
<1>3. ASSUME NEW obj, Put(c, obj)
      PROVE  FALSE
  <2>1. watch[c] \in Seq(Versions(c))
    BY <1>1 DEF TypeOK, StoreOK
  <2>2. Append(watch[c], obj) # << >>
    BY <2>1, AppendEnds
  <2>3. QED
    BY <1>1, <1>3, <2>2 DEF Put, TypeOK, StoreOK
<1>4. ASSUME pass'.cr = pass.cr, pass'.snap = pass.snap,
             pass'.pc \in {"fail", "cleanup", "release"}
      PROVE  RBACInHand(c)'
  BY <1>1, <1>4 DEF RBACInHand
<1>5. ASSUME NEW reason, NEW message, Fail(reason, message)
      PROVE  RBACInHand(c)'
  BY <1>1, <1>4, <1>5, FailShape
<1>6. CASE Guard \/ GuardFault
  BY <1>1, <1>2, <1>3, <1>6 DEF Guard, GuardFault, WriteFinalizer
<1>7. CASE Release \/ ReleaseFault
  BY <1>1, <1>3, <1>5, <1>7 DEF Release, ReleaseFault, RemoveFinalizer
<1>8. CASE Report \/ ReportFault \/ ReadyFault
  BY <1>2, <1>8 DEF Report, ReportFault, ReadyFault
<1>9. CASE Ready
  BY <1>9 DEF Ready, RBACInHand, RBACSettled
<1>10. CASE Cleanup \/ CleanupFault
  <2>1. CASE Cleanup
    BY <1>1, <1>4, <2>1 DEF Cleanup, Passes
  <2>2. CASE CleanupFault
    BY <1>5, <2>2 DEF CleanupFault
  <2>3. QED
    BY <1>10, <2>1, <2>2
<1>11. CASE Apply /\ NextStep
  <2>1. pass.pc = "apply" /\ pass.i <= Len(Plan) /\ Len(Plan) \in Nat
    BY <1>11, PlanAssumption DEF Apply, TypeOK, PassOK
  <2>2. PICK n \in Nat : n = pass.i
    BY <1>1
  <2>3. PICK step : step = Plan[n]
    OBVIOUS
  <2>4. Step = step
    BY <2>2, <2>3 DEF Step
  <2>5. step \in ClusterSteps => InStep(step, c)'
    BY <1>1, <1>11, <2>1, <2>4, PassAppliesRBAC
  <2>6. RBACApplied(n - 1, c)'
    BY <2>1, <2>2 DEF RBACInHand
  <2>7. RBACApplied(n, c)'
    <3>1. \A i \in 1..n : i \in 1..(n - 1) \/ i = n
      BY <2>2
    <3>2. QED
      BY <2>3, <2>5, <2>6, <3>1 DEF RBACApplied
  <2>8. CASE pass.i < Len(Plan)
    <3>1. /\ pass'.pc = "apply" /\ pass'.i - 1 = n /\ pass'.cr = c
          /\ pass'.snap = server[c]
      BY <1>1, <1>11, <2>1, <2>2, <2>8 DEF NextStep, Passes
    <3>2. QED
      BY <2>7, <3>1 DEF RBACInHand
  <2>9. CASE ~(pass.i < Len(Plan))
    <3>1. /\ pass'.pc = "ready" /\ pass'.cr = c /\ pass'.snap = server[c]
          /\ n = Len(Plan)
      BY <1>1, <1>11, <2>1, <2>2, <2>9 DEF NextStep, Passes
    <3>2. QED
      BY <2>7, <3>1 DEF RBACInHand
  <2>10. QED
    BY <2>8, <2>9
<1>12. CASE Apply \/ ApplyFault
  BY <1>5, <1>11, <1>12 DEF Apply, ApplyFault
<1>13. QED
  BY <1>6, <1>7, <1>8, <1>9, <1>10, <1>12 DEF PassStep, PassFault
LEMMA DispatchTakesRBAC ==
    ASSUME TypeOK, CacheFollows, NEW c \in CRs, StartPass(c), server[c] # Absent,
           watch[c] = << >>
    PROVE  RBACInHand(c)' \/ RBACSettled(c)'
<1>1. c \in Ids /\ cache[c] = server[c] /\ UNCHANGED apiVars /\ pass' = Dispatch(c)
  BY IdTypes DEF CacheFollows, StartPass
<1>2. server[c].del \in BOOLEAN /\ server[c].fin \in BOOLEAN
  BY <1>1, IdTypes DEF TypeOK, StoreOK, Resources
<1>3. ASSUME NEW pc \in {"guard", "apply", "cleanup"}
      PROVE  /\ Begin(c, pc).pc = pc /\ Begin(c, pc).cr = c /\ Begin(c, pc).i = 1
             /\ Begin(c, pc).snap = server[c]
  BY <1>1 DEF Begin
<1>4. CASE server[c].del
  BY <1>1, <1>4 DEF RBACSettled, apiVars
<1>5. CASE ~server[c].fin /\ ~server[c].del
  <2>1. pass' = Begin(c, "guard")
    BY <1>1, <1>5 DEF Dispatch
  <2>2. QED
    BY <1>1, <1>3, <2>1 DEF RBACInHand, apiVars
<1>6. CASE server[c].fin /\ ~server[c].del
  <2>1. pass' = Begin(c, "apply")
    BY <1>1, <1>6 DEF Dispatch
  <2>2. /\ pass'.pc = "apply" /\ pass'.cr = c /\ pass'.i - 1 = 0
        /\ pass'.snap = server'[c] /\ server'[c].fin /\ ~server'[c].del
    BY <1>1, <1>3, <1>6, <2>1 DEF apiVars
  <2>3. QED
    BY <2>2 DEF RBACInHand, RBACApplied
<1>7. QED
  BY <1>2, <1>4, <1>5, <1>6

LEMMA PassStaysCurrent ==
    ASSUME TypeOK, PassIsCurrent, [Next]_vars
    PROVE  PassIsCurrent'
<1>1. SUFFICES ASSUME NEW c \in CRs, pass'.pc # "idle", pass'.cr = c, ~(c \in queue')
               PROVE  pass'.snap = cache'[c]
  BY DEF PassIsCurrent
<1>2. CASE Begun
  BY <1>1, <1>2 DEF Begun, apiVars
<1>3. CASE Continued
  <2>1. pass.pc # "idle" /\ pass.cr = c /\ pass'.snap = pass.snap
    BY <1>1, <1>3 DEF Continued
  <2>2. ~Restart /\ ~StartPass(c) /\ ~ReceiveEvent(c)
    BY <1>1, <2>1 DEF Restart, Idle, StartPass, ReceiveEvent
  <2>3. ~(c \in queue)
    BY <1>1, <2>2, QueueStays
  <2>4. cache'[c] = cache[c]
    BY <2>2, IdTypes, WakeStep DEF WakeEffect, Untouched, Stored
  <2>5. QED
    BY <2>1, <2>3, <2>4 DEF PassIsCurrent
<1>4. QED
  BY <1>1, <1>2, <1>3, PassShape

LEMMA RBACStep ==
    ASSUME RBACKeysApart, OnlyOperatorsWriteRBAC,
           TypeOK, LifeInv, NoRBACForgotten, [Next]_vars, ~StaleSkip,
           NEW c \in CRs, server'[c] # Absent
    PROVE  c \in queue' \/ watch'[c] # << >> \/ RBACInHand(c)' \/ RBACSettled(c)'
<1>1. SUFFICES ASSUME ~(c \in queue'), watch'[c] = << >>
               PROVE  RBACInHand(c)' \/ RBACSettled(c)'
  OBVIOUS
<1>2. server[c] # Absent /\ server'[c] = server[c] /\ watch[c] = << >>
  BY <1>1, WakeStep, StoredBefore
<1>3. CacheFollows
  BY DEF LifeInv
<1>4. CASE StartPass(c)
  BY <1>2, <1>3, <1>4, DispatchTakesRBAC
<1>5. CASE ~StartPass(c)
  <2>1. ~(c \in queue)
    BY <1>1, <1>2, <1>5, QueueStays
  <2>2. RBACInHand(c) \/ RBACSettled(c)
    BY <1>2, <2>1 DEF NoRBACForgotten
  <2>3. \A n : RBACApplied(n, c) => RBACApplied(n, c)'
    BY <1>2, <2>1, RBACKeysApart, RBACAppliedStays DEF NoRBACForgotten
  <2>4. CASE RBACSettled(c)
    BY <1>2, <2>3, <2>4 DEF RBACSettled
  <2>5. CASE RBACInHand(c) /\ (PassStep \/ PassFault)
    BY <1>1, <1>2, <1>3, <2>3, <2>5, PassKeepsRBAC
  <2>6. CASE RBACInHand(c) /\ ~(PassStep \/ PassFault)
    <3>1. pass' = pass
      BY <1>1, <1>2, <2>6, RestartWakes, PassRests DEF RBACInHand
    <3>2. \A n : n = pass.i - 1 => (RBACApplied(n, c) => RBACApplied(n, c)')
      BY <2>3
    <3>3. QED
      BY <1>2, <2>3, <2>6, <3>1, <3>2 DEF RBACInHand, RBACApplied
  <2>7. QED
    BY <2>2, <2>4, <2>5, <2>6
<1>6. QED
  BY <1>4, <1>5

LEMMA NoRBACForgottenHolds ==
    ASSUME RBACKeysApart, OnlyOperatorsWriteRBAC
    PROVE  Spec /\ [][~StaleSkip]_vars => []NoRBACForgotten
<1>1. Init => NoRBACForgotten
  BY IdTypes DEF Init, ReconcilerInit, Idle, NoRBACForgotten, PassIsCurrent
<1>2. TypeOK /\ LifeInv /\ NoRBACForgotten /\ [Next]_vars /\ [~StaleSkip]_vars
        => NoRBACForgotten'
  <2>1. CASE UNCHANGED vars
    BY <2>1 DEF vars, NoRBACForgotten, PassIsCurrent, RBACInHand, RBACSettled,
                RBACApplied, InStep
  <2>2. CASE ~UNCHANGED vars
    BY <2>2, RBACKeysApart, RBACStep, PassStaysCurrent DEF NoRBACForgotten
  <2>3. QED
    BY <2>1, <2>2
<1>3. QED
  BY <1>1, <1>2, TypeCorrect, LifeHolds, PTL DEF Spec

\* Reconcile reports Ready only with the cluster-scoped objects in step, as
\* long as nobody else writes them and no pass takes a stale cached one for
\* present: what the run recreated_rbac finds is the only gap of its kind.
THEOREM QuietIsAppliedToRBAC ==
    ASSUME RBACKeysApart, OnlyOperatorsWriteRBAC
    PROVE  Spec /\ [][~StaleSkip]_vars => []QuietMeansRBACApplied
<1>1. NoRBACForgotten => QuietMeansRBACApplied
  <2>1. SUFFICES ASSUME NoRBACForgotten, Quiet, NEW c \in CRs,
                        server[c] # Absent, ~server[c].del,
                        NEW step \in Steps \cap ClusterSteps
                 PROVE  InStep(step, c)
    BY DEF QuietMeansRBACApplied
  <2>2. RBACApplied(Len(Plan), c)
    BY <2>1, IdTypes DEF NoRBACForgotten, Quiet, RBACInHand, RBACSettled, Idle
  <2>3. PICK i \in 1..Len(Plan) : Plan[i] = step
    BY DEF Steps
  <2>4. QED
    BY <2>2, <2>3 DEF RBACApplied
<1>2. QED
  BY <1>1, NoRBACForgottenHolds, RBACKeysApart, PTL
-----------------------------------------------------------------------------
(* The system settles: what is applied needs no further write, and there   *)
(* are only so many passes until everything is quiet.                      *)

\* A pass that carries out its plan has read a living resource.
PlanIsForLiving == pass.pc \in {"apply", "ready"} => ~pass.snap.del

LEMMA PlanIsForLivingHolds == Spec => []PlanIsForLiving
<1>1. Init => PlanIsForLiving
  BY DEF Init, ReconcilerInit, Idle, PlanIsForLiving
<1>2. TypeOK /\ PlanIsForLiving /\ [Next]_vars => PlanIsForLiving'
  BY PassShape DEF Begun, Continued, PlanIsForLiving
<1>3. QED
  BY <1>1, <1>2, TypeCorrect, PTL DEF Spec

RestInv == TypeOK /\ CacheFollows /\ PlanIsForLiving

\* At rest, CreateOrUpdate finds in the cache what it would write.
LEMMA RestWant ==
    ASSUME RestInv, AtRest, pass.pc = "apply"
    PROVE  /\ Have # Absent /\ Want = Have /\ server[StepKey] = Want
           /\ WriteAccepted
<1> USE DEF RestInv
<1>1. /\ StepKey \in Ids /\ StepKey \in Keys /\ Step \in Steps /\ pass.cr \in CRs
      /\ server[StepKey] \in Objects \cup {Absent}
  BY WantType, IdTypes, PassType DEF TypeOK, StoreOK
<1>2. pass.snap = server[pass.cr] /\ server[pass.cr] # Absent
  BY PassType, SentinelAssumption DEF AtRest, Idle, TypeOK
<1>3. InStep(Step, pass.cr)
  <2>1. ~server[pass.cr].del
    BY <1>2 DEF RestInv, PlanIsForLiving
  <2>2. QED
    BY <1>1, <1>2, <2>1 DEF AtRest
<1>4. Have = server[StepKey] /\ UpToDate(StepKey)
  BY <1>1 DEF Have, UpToDate, AtRest, CacheFollows
<1>5. /\ Have # Absent
      /\ Have = Completed(Step,
                  Mutated(Step, pass.cr, pass.snap.uid, pass.snap.spec, Have.class))
  BY <1>2, <1>3, <1>4 DEF InStep, StepKey
<1>6. Want = Have
  BY <1>5 DEF Want, Rendered
<1>7. Have.owner = OwnerOf(Step, pass.cr, pass.snap.uid)
  BY <1>5 DEF Mutated, Completed
<1>8. Controllable(Step, pass.cr, Have)
  BY <1>7 DEF Controllable, OwnerOf
<1>9. QED
  BY <1>4, <1>5, <1>6, <1>8 DEF WriteAccepted

LEMMA RestPass ==
    ASSUME RestInv, AtRest, PassStep
    PROVE  /\ UNCHANGED apiVars
           /\ \/ pass.pc = "apply" /\ NextStep
              \/ pass.pc = "ready" /\ Done
<1> USE DEF RestInv
<1>1. pass.pc \in {"apply", "ready"} /\ pass.snap = server[pass.cr] /\ pass # Idle
  BY DEF PassStep, Guard, Apply, Cleanup, Release, Ready, Report, AtRest, Idle
<1>2. CASE pass.pc = "apply"
  <2>1. Apply
    BY <1>2 DEF PassStep, Guard, Cleanup, Release, Ready, Report
  <2>2. WriteObject => UNCHANGED apiVars
    BY <1>2, RestWant DEF WriteObject, PutIfChanged
  <2>3. QED
    BY <1>2, <2>1, <2>2, RestWant DEF Apply
<1>3. CASE pass.pc = "ready"
  <2>1. Ready
    BY <1>3 DEF PassStep, Guard, Apply, Cleanup, Release, Report
  <2>2. /\ pass.cr \in CRs /\ server[pass.cr] \in Resources
        /\ server[pass.cr] # Absent
    BY <1>1, <1>3, PassType, SentinelAssumption DEF TypeOK
  <2>3. PatchStatus("True", "Reconciled", "all") /\ Done
    BY <2>1, <2>2 DEF Ready
  <2>4. Reported(pass.cr)
    BY <1>1, <1>3, <2>2 DEF AtRest, PlanIsForLiving
  <2>5. StatusPatched(server[pass.cr], pass.snap, "True", "Reconciled", "all")
          = server[pass.cr]
    BY <1>1, <2>2, <2>4 DEF StatusPatched, Reported, Resources
  <2>6. QED
    BY <1>3, <2>3, <2>5 DEF PatchStatus, PutIfChanged
<1>4. QED
  BY <1>1, <1>2, <1>3

LEMMA RestDispatch ==
    ASSUME RestInv, AtRest, NEW c \in CRs, StartPass(c)
    PROVE  \/ pass' = Idle
           \/ pass' = Begin(c, "apply") /\ pass'.snap = server[c]
<1> USE DEF RestInv
<1>1. c \in Ids /\ cache[c] = server[c] /\ pass' = Dispatch(c)
  BY IdTypes DEF AtRest, CacheFollows, StartPass
<1>2. server[c] # Absent => \/ server[c].del /\ ~server[c].fin
                            \/ ~server[c].del /\ server[c].fin
  BY DEF AtRest
<1>3. Begin(c, "apply").snap = cache[c]
  BY DEF Begin
<1>4. QED
  BY <1>1, <1>2, <1>3 DEF Dispatch

LEMMA RestStays ==
    ASSUME AtRest, server' = server, \A id \in Ids : watch'[id] = << >>,
           pass' # Idle => pass'.pc \in {"apply", "ready"}
                           /\ pass'.snap = server[pass'.cr]
    PROVE  AtRest'
BY DEF AtRest, InStep, Reported

LEMMA RestStep ==
    ASSUME RestInv, AtRest, Controller, spent'.faults = spent.faults
    PROVE  AtRest' /\ UNCHANGED server
<1> USE DEF RestInv
<1>1. \A id \in Ids : ~ReceiveEvent(id)
  BY DEF AtRest, ReceiveEvent, Receive
<1>2. ~(PassFault /\ Spend("faults", MaxFaults))
  <2>1. spent.faults \in Nat /\ "faults" \in DOMAIN spent
    BY DEF TypeOK, Bounds
  <2>2. QED
    BY <2>1 DEF Spend
<1>3. CASE \E c \in CRs : StartPass(c)
  <2>1. PICK c \in CRs : StartPass(c)
    BY <1>3
  <2>2. server' = server /\ watch' = watch
    BY <2>1 DEF StartPass, apiVars
  <2>3. Begin(c, "apply").pc = "apply" /\ Begin(c, "apply").cr = c
    BY DEF Begin
  <2>4. pass' # Idle => pass'.pc = "apply" /\ pass'.snap = server[pass'.cr]
    BY <2>1, <2>3, RestDispatch
  <2>5. QED
    BY <2>2, <2>4, RestStays DEF AtRest
<1>4. CASE PassStep
  <2>1. server' = server /\ watch' = watch
    BY <1>4, RestPass DEF apiVars
  <2>2. CASE pass.pc = "apply" /\ NextStep
    <3>1. pass \in Passes
      BY <2>2, PassType DEF TypeOK
    <3>2. /\ pass'.pc \in {"apply", "ready"} /\ pass'.cr = pass.cr
          /\ pass'.snap = pass.snap
      BY <2>2, <3>1 DEF NextStep, Passes
    <3>3. QED
      BY <2>1, <2>2, <3>2, RestStays DEF AtRest, Idle
  <2>3. CASE Done
    BY <2>1, <2>3, RestStays DEF AtRest, Done
  <2>4. QED
    BY <1>4, <2>2, <2>3, RestPass
<1>5. CASE Resync
  BY <1>5, RestStays DEF Resync, AtRest, apiVars
<1>6. CASE Restart
  <2>1. server' = server /\ pass' = Idle
    BY <1>6 DEF Restart, Relist
  <2>2. \A id \in Ids : watch'[id] = << >>
    BY <1>6 DEF Restart, Relist, TypeOK, StoreOK
  <2>3. QED
    BY <2>1, <2>2, RestStays
<1>7. QED
  BY <1>1, <1>2, <1>3, <1>4, <1>5, <1>6 DEF Controller

\* Once all is applied, cached and reported, nothing that the operator does
\* changes the store: no step of a pass undoes another one's, no resync and no
\* restart starts a new round, although Deployments, DaemonSets, Services and
\* Secrets are written again by every pass.  Only users, others and faults end
\* the rest.
THEOREM RestHolds == Spec => RestIsKept
<1>1. RestInv /\ [Next]_vars
        => [AtRest /\ Controller /\ spent'.faults = spent.faults
              => AtRest' /\ UNCHANGED server]_vars
  BY RestStep
<1>2. QED
  BY <1>1, TypeCorrect, CacheCatchesUp, PlanIsForLivingHolds, PTL
  DEF Spec, RestInv, RestIsKept

\* The steps that the pass under way has before it.
StepsLeft ==
    CASE pass.pc = "apply" -> Len(Plan) - pass.i + 2
      [] pass.pc = "ready" -> 1
      [] OTHER -> 0

\* The steps that the worker has before it, at most, until it sleeps.
WorkLeft == Cardinality(queue) * (Len(Plan) + 2) + StepsLeft

LEMMA StepsLeftType ==
    ASSUME TypeOK
    PROVE  /\ StepsLeft \in Nat /\ StepsLeft <= Len(Plan) + 1
           /\ AtRest => (StepsLeft = 0 <=> pass = Idle)
<1>1. Len(Plan) \in Nat \ {0}
  BY PlanAssumption
<1>2. pass.pc = "apply" => pass.i \in Nat \ {0} /\ pass.i <= Len(Plan)
  BY PassType DEF TypeOK, PassOK, Passes
<1>3. StepsLeft \in Nat /\ StepsLeft <= Len(Plan) + 1
      /\ (StepsLeft = 0 <=> ~(pass.pc \in {"apply", "ready"}))
  BY <1>1, <1>2 DEF StepsLeft
<1>4. QED
  BY <1>3 DEF AtRest, Idle

LEMMA WorkLeftType ==
    ASSUME IsFiniteSet(CRs), TypeOK, AtRest
    PROVE  /\ WorkLeft \in Nat
           /\ WorkLeft = 0 <=> Quiet
<1>1. IsFiniteSet(queue) /\ Cardinality(queue) \in Nat
  BY FS_Subset, FS_CardinalityType DEF TypeOK
<1>2. Cardinality(queue) = 0 <=> queue = {}
  BY <1>1, FS_EmptySet
<1>3. \A n, k \in Nat : n * (k + 2) \in Nat /\ (n * (k + 2) = 0 <=> n = 0)
  OBVIOUS
<1>4. Len(Plan) \in Nat
  BY PlanAssumption
<1> DEFINE n == Cardinality(queue)
           k == Len(Plan)
<1>5. n * (k + 2) \in Nat /\ (n * (k + 2) = 0 <=> n = 0)
  BY <1>1, <1>3, <1>4
<1>6. WorkLeft = n * (k + 2) + StepsLeft
  BY DEF WorkLeft
<1> HIDE DEF n, k
<1>7. WorkLeft \in Nat /\ (WorkLeft = 0 <=> n = 0 /\ StepsLeft = 0)
  BY <1>5, <1>6, StepsLeftType
<1>8. QED
  BY <1>2, <1>7, StepsLeftType DEF n, Quiet, AtRest

LEMMA WorkDecreases ==
    ASSUME IsFiniteSet(CRs), RestInv, TypeOK', AtRest,
           PassStep \/ \E c \in CRs : StartPass(c)
    PROVE  WorkLeft' < WorkLeft
<1> USE DEF RestInv
<1> DEFINE n == Cardinality(queue)
           m == Cardinality(queue')
           k == Len(Plan)
<1>1. IsFiniteSet(queue) /\ n \in Nat /\ k \in Nat \ {0}
  BY FS_Subset, FS_CardinalityType, PlanAssumption DEF TypeOK
<1>2. WorkLeft = n * (k + 2) + StepsLeft /\ WorkLeft' = m * (k + 2) + StepsLeft'
  BY DEF WorkLeft
<1>3. StepsLeft \in Nat
  BY StepsLeftType
<1>4. CASE \E c \in CRs : StartPass(c)
  <2>1. PICK c \in CRs : StartPass(c)
    BY <1>4
  <2>2. n = m + 1 /\ m \in Nat
    <3>1. c \in queue /\ queue' = queue \ {c}
      BY <2>1 DEF StartPass
    <3>2. \A S, x : IsFiniteSet(S) /\ x \in S =>
             /\ Cardinality(S) = Cardinality(S \ {x}) + 1
             /\ Cardinality(S \ {x}) \in Nat
      <4>1. SUFFICES ASSUME NEW S, NEW x, IsFiniteSet(S), x \in S
                     PROVE  /\ Cardinality(S) = Cardinality(S \ {x}) + 1
                            /\ Cardinality(S \ {x}) \in Nat
        OBVIOUS
      <4>2. /\ IsFiniteSet(S \ {x})
            /\ Cardinality(S \ {x}) = Cardinality(S) - 1
        BY <4>1, FS_RemoveElement
      <4>3. Cardinality(S) \in Nat /\ Cardinality(S \ {x}) \in Nat
        BY <4>1, <4>2, FS_CardinalityType
      <4>4. QED
        BY <4>2, <4>3
    <3>3. QED
      BY <1>1, <3>1, <3>2
  <2>3. StepsLeft' \in Nat /\ StepsLeft' <= k + 1
    <3>1. CASE pass' = Idle
      BY <1>1, <3>1 DEF StepsLeft, Idle
    <3>2. CASE pass' = Begin(c, "apply")
      <4>1. pass'.pc = "apply" /\ pass'.i = 1
        BY <3>2 DEF Begin
      <4>2. QED
        BY <1>1, <4>1 DEF StepsLeft
    <3>3. QED
      BY <2>1, <3>1, <3>2, RestDispatch
  <2>4. (m + 1) * (k + 2) = m * (k + 2) + (k + 2) /\ m * (k + 2) \in Nat
    BY <1>1, <2>2
  <2> HIDE DEF n, m, k
  <2>5. n * (k + 2) = m * (k + 2) + (k + 2)
    BY <2>2, <2>4
  <2>6. QED
    BY <1>1, <1>2, <1>3, <2>3, <2>4, <2>5
<1>5. CASE PassStep
  <2>1. m = n /\ StepsLeft' \in Nat /\ StepsLeft' < StepsLeft
    <3>1. CASE pass.pc = "apply" /\ NextStep
      <4>1. pass \in Passes /\ pass.i \in Nat \ {0} /\ pass.i <= k
        BY <3>1, PassType DEF TypeOK, PassOK, Passes
      <4>2. CASE pass.i < k
        <5>1. pass'.pc = "apply" /\ pass'.i = pass.i + 1 /\ queue' = queue
          BY <3>1, <4>1, <4>2 DEF NextStep, Passes
        <5>2. QED
          BY <1>1, <3>1, <4>1, <4>2, <5>1 DEF StepsLeft
      <4>3. CASE ~(pass.i < k)
        <5>1. pass'.pc = "ready" /\ queue' = queue
          BY <3>1, <4>1, <4>3 DEF NextStep, Passes
        <5>2. QED
          BY <1>1, <3>1, <4>1, <5>1 DEF StepsLeft
      <4>4. QED
        BY <4>2, <4>3
    <3>2. CASE pass.pc = "ready" /\ Done
      BY <3>2 DEF Done, StepsLeft, Idle
    <3>3. QED
      BY <1>5, <3>1, <3>2, RestPass
  <2>2. n * (k + 2) \in Nat
    BY <1>1
  <2>3. m * (k + 2) = n * (k + 2)
    BY <2>1
  <2> HIDE DEF n, m, k
  <2>4. QED
    BY <1>2, <1>3, <2>1, <2>2, <2>3
<1>6. QED
  BY <1>4, <1>5

\* Everything that makes a pass, and the worker that starts one, brings the
\* operator nearer to sleep: at rest the number of steps that are left is a
\* natural number that each of them makes smaller, and it is 0 just when all
\* is quiet.  So the operator's own writes cannot keep it awake for ever.
THEOREM RestComesToQuiet ==
    ASSUME IsFiniteSet(CRs)
    PROVE  Spec => /\ [](AtRest => WorkLeft \in Nat /\ (WorkLeft = 0 <=> Quiet))
                   /\ [][AtRest /\ (PassStep \/ \E c \in CRs : StartPass(c))
                           => WorkLeft' < WorkLeft]_vars
<1>1. TypeOK => (AtRest => WorkLeft \in Nat /\ (WorkLeft = 0 <=> Quiet))
  BY WorkLeftType
<1>2. RestInv /\ TypeOK' /\ [Next]_vars
        => [AtRest /\ (PassStep \/ \E c \in CRs : StartPass(c))
              => WorkLeft' < WorkLeft]_vars
  BY WorkDecreases
<1>3. QED
  BY <1>1, <1>2, TypeCorrect, CacheCatchesUp, PlanIsForLivingHolds, PTL
  DEF Spec, RestInv

\* And quiet is rest, so that it lasts: with what QuietIsApplied and
\* QuietIsAppliedToRBAC prove, nothing but the users, the others and faults
\* can make the operator write again.
THEOREM QuietIsRest ==
    ASSUME RBACKeysApart, OnlyOperatorsWriteRBAC
    PROVE  Spec /\ [][~StaleSkip]_vars => [](Quiet => AtRest)
<1>1. QuietMeansApplied /\ QuietMeansRBACApplied => (Quiet => AtRest)
  <2>1. SUFFICES ASSUME QuietMeansApplied, QuietMeansRBACApplied, Quiet,
                        NEW c \in CRs, server[c] # Absent, ~server[c].del,
                        NEW step \in Steps
                 PROVE  InStep(step, c)
    BY DEF Quiet, QuietMeansApplied, AtRest
  <2>2. step \in WatchedSteps \/ step \in ClusterSteps
    <3>1. \A i \in 1..Len(Plan) :
             Plan[i] \in { ReconcileOrder[j] : j \in 1..Len(ReconcileOrder) }
      BY PlanAssumption
    <3>2. step \in { ReconcileOrder[j] : j \in 1..Len(ReconcileOrder) }
      BY <3>1 DEF Steps
    <3>3. step \notin ClusterSteps => KindOf(step) \in WatchedKinds
      BY <3>2, KindTable DEF ReconcileOrder, WatchedKinds, ClusterSteps
    <3>4. QED
      BY <3>3 DEF WatchedSteps
  <2>3. QED
    BY <2>1, <2>2 DEF QuietMeansApplied, QuietMeansRBACApplied
<1>2. QED
  BY <1>1, QuietIsApplied, QuietIsAppliedToRBAC, RBACKeysApart,
     OnlyOperatorsWriteRBAC, PTL
=============================================================================
