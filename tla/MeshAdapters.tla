---------------------------- MODULE MeshAdapters ----------------------------
(***************************************************************************)
(* The adapters of pkg/mesh. Istio's and Cilium's deny a workload with one *)
(* object, Linkerd's with one Server for every port its Pods declare. The  *)
(* watcher quarantines and the reconciler's worker releases, each with     *)
(* several API calls that the other's may come between and that may fail   *)
(* with or without having taken effect.                                    *)
(***************************************************************************)
EXTENDS Integers, FiniteSets, FiniteSetsExt, Functions

CONSTANTS
    Workload,    \* selectors; quarantineName, their hash, tells them apart
    Port,        \* container ports
    Kinds,       \* values of MESH_ADAPTER to check
    MaxCalls,    \* bound on calls of Quarantine and Release
    MaxChanges,  \* bound on changes of the Pods
    MaxFaults    \* bound on failed API calls

ASSUME MeshAssumption ==
    /\ Port \subseteq Nat \ {0}
    /\ Kinds \subseteq {"istio", "cilium", "linkerd", "noop"}

VARIABLES
    kind,       \* NewAdapter's choice
    declared,   \* per workload: the ports its Pods declare
    objects,    \* the deny objects, by name, and their resourceVersions
    versions,   \* resourceVersions given out
    call,       \* the watcher's and the worker's call
    left,       \* what remains of the bounds
    sealed,     \* history: names some Quarantine has promised
    gone,       \* history: names a Release has asked to delete since a write
                \* of theirs returned nil
    clean       \* history: workloads a Release has promised to have released

meshVars ==
    <<kind, declared, objects, versions, call, left, sealed, gone, clean>>

Caller == {"watcher", "worker"}

\* Port 0 stands for all of them.
All == 0
Name(w, port) == [workload |-> w, port |-> port]

\* A call: its workload, the names it still has to see to, the version its Get
\* found, all its names, whether no other call for the workload ran while it
\* did, and whether an API call failed or no ports were found.
NoCall ==
    [pc |-> "idle", w |-> {}, todo |-> {}, found |-> 0, names |-> {},
     alone |-> TRUE, error |-> FALSE]

MeshInit ==
    /\ kind \in Kinds
    /\ declared \in [Workload -> SUBSET Port]
    /\ objects = <<>> /\ versions = 0
    /\ call = [c \in Caller |-> NoCall]
    /\ left = [calls |-> MaxCalls, changes |-> MaxChanges, faults |-> MaxFaults]
    /\ sealed = {} /\ gone = {} /\ clean = {}

Of(w) == {n \in DOMAIN objects : n.workload = w}

-----------------------------------------------------------------------------
(* Calls begin and return. *)

Begin(c, w, pc) ==
    /\ call[c].pc = "idle" /\ left.calls > 0
    /\ left' = [left EXCEPT !.calls = @ - 1]
    /\ LET meets(d) == call[d].pc # "idle" /\ w \in call[d].w
       IN  call' = [d \in Caller |->
                     IF d = c
                     THEN [NoCall EXCEPT !.pc = pc, !.w = {w},
                             !.alone = \A e \in Caller \ {c} : ~meets(e)]
                     ELSE [call[d] EXCEPT !.alone = @ /\ ~meets(d)]]
    /\ UNCHANGED <<kind, declared, objects, versions, sealed, gone>>

Quarantine(w) == Begin("watcher", w, "discover") /\ clean' = clean \ {w}

Release(w) == Begin("worker", w, "list") /\ UNCHANGED clean

\* The call goes on with its remaining names, or returns nil after the last.
Continue(c, todo, names) ==
    call' = [call EXCEPT ![c].pc = IF todo = {} THEN "ok"
                                   ELSE IF c = "watcher" THEN "get"
                                   ELSE "delete",
                         ![c].todo = todo, ![c].names = names]

Fail(c) == call' = [call EXCEPT ![c].pc = "failed"]

\* What a call that returned nil has promised.
EndCall(c) ==
    /\ call[c].pc \in {"ok", "failed"}
    /\ call' = [call EXCEPT ![c] = NoCall]
    /\ sealed' = IF call[c].pc = "ok" /\ c = "watcher"
                 THEN sealed \cup call[c].names ELSE sealed
    /\ clean' = IF /\ call[c].pc = "ok" /\ call[c].alone
                   /\ c = "worker" /\ kind # "noop"
                THEN clean \cup call[c].w ELSE clean
    /\ UNCHANGED <<kind, declared, objects, versions, left, gone>>

\* An API call fails, without having taken effect or after it has: done is
\* what the objects are then.
APIFails(c, done) ==
    /\ left.faults > 0 /\ left' = [left EXCEPT !.faults = @ - 1]
    /\ objects' \in {objects, done}
    /\ call' = [call EXCEPT ![c].pc = "failed", ![c].error = TRUE]

\* What every API call leaves alone.
Kept == UNCHANGED <<kind, declared, sealed, clean>>

-----------------------------------------------------------------------------
(* Quarantine. *)

\* discoverPorts for Linkerd, where no ports are an error; one name otherwise.
Discover(c) ==
    /\ call[c].pc = "discover"
    /\ \E w \in call[c].w :
        LET names == CASE kind = "noop" -> {}
                       [] kind = "linkerd" -> {Name(w, p) : p \in declared[w]}
                       [] OTHER -> {Name(w, All)}
        IN  \/ /\ kind = "linkerd" => names # {}
               /\ Continue(c, names, names)
               /\ UNCHANGED <<objects, left>>
            \/ /\ kind = "linkerd" /\ names = {}
               /\ call' = [call EXCEPT ![c].pc = "failed", ![c].error = TRUE]
               /\ UNCHANGED <<objects, left>>
            \/ kind = "linkerd" /\ APIFails(c, objects)
    /\ Kept /\ UNCHANGED <<versions, gone>>

\* Ports are seen to in ascending order.
Target(c) ==
    CHOOSE n \in call[c].todo : \A m \in call[c].todo : n.port <= m.port

\* createOrUpdateUnstructured: Get, then Create or Update.
Get(c) ==
    /\ call[c].pc = "get"
    /\ LET n == Target(c)
       IN  \/ /\ n \in DOMAIN objects
              /\ call' = [call EXCEPT ![c].pc = "update", ![c].found = objects[n]]
              /\ UNCHANGED <<objects, left>>
           \/ /\ n \notin DOMAIN objects
              /\ call' = [call EXCEPT ![c].pc = "create"]
              /\ UNCHANGED <<objects, left>>
           \/ APIFails(c, objects)
    /\ Kept /\ UNCHANGED <<versions, gone>>

\* The API server gives every new object a version of its own.
Created(n) ==
    [m \in DOMAIN objects \cup {n} |->
        IF m = n THEN versions + 1 ELSE objects[m]]

\* The write of n returned nil.
Written(c, n) ==
    /\ Continue(c, call[c].todo \ {n}, call[c].names)
    /\ gone' = gone \ {n}

Create(c) ==
    /\ call[c].pc = "create"
    /\ LET n == Target(c)
       IN  \/ /\ n \notin DOMAIN objects /\ objects' = Created(n)
              /\ Written(c, n) /\ UNCHANGED left
           \/ /\ n \in DOMAIN objects /\ Fail(c)
              /\ UNCHANGED <<objects, left, gone>>
           \/ n \notin DOMAIN objects /\ APIFails(c, Created(n)) /\ UNCHANGED gone
    /\ versions' = versions + 1 /\ Kept

\* Mutant: the update does not carry the version over, and is refused.
UpdateUnversioned(c) ==
    /\ call[c].pc = "update" /\ Fail(c)
    /\ Kept /\ UNCHANGED <<objects, versions, left, gone>>

\* Mutant: an object that is not found any more is none to update.
UpdateIfFound(c) ==
    /\ call[c].pc = "update"
    /\ Written(c, Target(c))
    /\ Kept /\ UNCHANGED <<objects, versions, left>>

\* An update of an object that is gone, or not the one read, is refused. Any
\* other finds the object as it would have it.
Update(c) ==
    /\ call[c].pc = "update"
    /\ LET n == Target(c)
           same == n \in DOMAIN objects /\ objects[n] = call[c].found
       IN  \/ same /\ Written(c, n) /\ UNCHANGED <<objects, left>>
           \/ ~same /\ Fail(c) /\ UNCHANGED <<objects, left, gone>>
           \/ same /\ APIFails(c, objects) /\ UNCHANGED gone
    /\ Kept /\ UNCHANGED versions

-----------------------------------------------------------------------------
(* Release. *)

\* Mutant: the Servers to delete are worked out from the Pods' ports.
ListDeclared(c) ==
    /\ call[c].pc = "list"
    /\ \E w \in call[c].w :
        LET names == CASE kind = "noop" -> {}
                       [] kind = "linkerd" -> {Name(w, p) : p \in declared[w]}
                       [] OTHER -> {Name(w, All)}
        IN  Continue(c, names, names)
    /\ Kept /\ UNCHANGED <<objects, versions, left, gone>>

\* Linkerd's Servers are found by their label, not by the Pods' ports.
List(c) ==
    /\ call[c].pc = "list"
    /\ \E w \in call[c].w :
        LET names == CASE kind = "noop" -> {}
                       [] kind = "linkerd" -> Of(w)
                       [] OTHER -> {Name(w, All)}
        IN  \/ Continue(c, names, names) /\ UNCHANGED <<objects, left>>
            \/ kind = "linkerd" /\ APIFails(c, objects)
    /\ Kept /\ UNCHANGED <<versions, gone>>

\* deleteUnstructuredIfExists, in the order of the list. An object that is
\* gone is no error.
Delete(c) ==
    /\ call[c].pc = "delete"
    /\ \E n \in call[c].todo :
        LET done == [m \in DOMAIN objects \ {n} |-> objects[m]]
        IN  /\ \/ /\ objects' = done /\ UNCHANGED left
                  /\ Continue(c, call[c].todo \ {n}, call[c].names)
               \/ APIFails(c, done)
            /\ gone' = gone \cup {n}
    /\ Kept /\ UNCHANGED versions

-----------------------------------------------------------------------------
\* Pods come and go.
PodsChange(w) ==
    /\ left.changes > 0 /\ left' = [left EXCEPT !.changes = @ - 1]
    /\ declared' \in {[declared EXCEPT ![w] = ps] : ps \in SUBSET Port}
    /\ UNCHANGED <<kind, objects, versions, call, sealed, gone, clean>>

MeshNext ==
    \/ \E w \in Workload : Quarantine(w) \/ Release(w) \/ PodsChange(w)
    \/ \E c \in Caller : \/ Discover(c) \/ Get(c) \/ Create(c) \/ Update(c)
                         \/ List(c) \/ Delete(c) \/ EndCall(c)

MeshSpec == MeshInit /\ [][MeshNext]_meshVars

-----------------------------------------------------------------------------
\* Every port a Quarantine that returned nil found declared is denied, until
\* a Release asks for its object to be deleted: also when the two ran into
\* each other between the Quarantine's Get and its write, and while later
\* calls fail part of the way and the Pods change.
QuarantineIsComplete == sealed \ gone \subseteq DOMAIN objects

\* A Release that returned nil, and met no Quarantine, leaves nothing behind,
\* although the Quarantine may have stopped part of the way and the Pods may
\* have other ports now, or be gone.
ReleaseIsComplete == \A w \in clean : Of(w) = {}

\* "calling Quarantine twice, or Release on a workload that was never
\* quarantined, must not error": a call that fails had an API call fail or
\* found no ports, or is a Quarantine whose object a Release deletes.
CallsAreIdempotent ==
    \A c \in Caller : call[c].pc = "failed" =>
        call[c].error \/ (c = "watcher" /\ Target(c) \in gone)
=============================================================================
