---------------------------- MODULE ApiMachinery ----------------------------
(***************************************************************************)
(* What the operator stands on: the API server's store and the informer    *)
(* cache that manager.GetClient() reads from.  Reads come from the cache,  *)
(* writes go to the server; every change of a stored object reaches the    *)
(* cache as a watch event, in order for one object and in any order across *)
(* objects.  None of this is the repository's code: it is modelled from    *)
(* how internal/controller and cmd/main.go use it.                         *)
(***************************************************************************)
EXTENDS Naturals, Sequences

CONSTANTS
    Absent,   \* the state of an object that does not exist
    MaxLag    \* bound: events of one object that are on their way at a time

VARIABLES
    server,   \* server[id]: the stored object, or Absent
    cache,    \* cache[id]: the operator's copy of it
    watch     \* watch[id]: the versions the cache has not received yet

apiVars == <<server, cache, watch>>

\* Store obj under id and emit the event; obj = Absent deletes.
Put(id, obj) ==
    /\ Len(watch[id]) < MaxLag
    /\ server' = [server EXCEPT ![id] = obj]
    /\ watch' = [watch EXCEPT ![id] = Append(@, obj)]
    /\ UNCHANGED cache

\* A write that leaves the stored object as it was emits nothing.
PutIfChanged(id, obj) ==
    IF obj = server[id] THEN UNCHANGED apiVars ELSE Put(id, obj)

\* The cached version of id carries the stored resourceVersion.
UpToDate(id) == watch[id] = << >>

\* The next event of id reaches the cache.
Receive(id) ==
    /\ watch[id] # << >>
    /\ cache' = [cache EXCEPT ![id] = Head(watch[id])]
    /\ watch' = [watch EXCEPT ![id] = Tail(@)]
    /\ UNCHANGED server

\* A new process lists everything before it reconciles anything.
Relist ==
    /\ cache' = server
    /\ watch' = [id \in DOMAIN watch |-> << >>]
    /\ UNCHANGED server
=============================================================================
