----------------------------- MODULE PodIPIndex -----------------------------
(***************************************************************************)
(* Attribution of addresses to Pods: PodIPIndex's two maps                 *)
(* (pod_ip_index.go) and the controller that keeps them                    *)
(* (pod_ip_indexer.go), one worker behind the informer cache.              *)
(***************************************************************************)
EXTENDS Naturals, Sequences

CONSTANTS
    Pod, NoPod,      \* namespaced names; NoPod: no entry
    IP, NoIP,        \* addresses; NoIP is the empty PodIP
    ReuseFinished,   \* a finished Pod's address is reused before its deletion
    MaxPodOps        \* bound on changes to Pods

ASSUME PodAssumption ==
    /\ NoPod \notin Pod /\ NoIP \notin IP
    /\ ReuseFinished \in BOOLEAN /\ MaxPodOps \in Nat

VARIABLES
    pods,      \* the API server's Pods
    stream,    \* watch events the informer has not seen
    cache,     \* the informer cache
    queue,     \* the controller's work queue
    worker,    \* the Pod being reconciled, as the Get returned it
    byIP, byPod,
    podOps     \* what is left of MaxPodOps

podVars == <<pods, stream, cache, queue, worker, byIP, byPod, podOps>>
indexVars == <<byIP, byPod>>

\* A Pod that has finished keeps its address in its status.
PodObject == [state : {"none", "running", "finished"}, ip : IP \cup {NoIP}]
NoObject == [state |-> "none", ip |-> NoIP]
PodEvent == [pod : Pod, obj : PodObject]
Idle == [pod |-> NoPod, obj |-> NoObject]

PodTypeOK ==
    /\ pods \in [Pod -> PodObject] /\ cache \in [Pod -> PodObject]
    /\ stream \in Seq(PodEvent)
    /\ queue \subseteq Pod
    /\ worker \in PodEvent \cup {Idle}
    /\ byIP \in [IP -> Pod \cup {NoPod}] /\ byPod \in [Pod -> IP \cup {NoIP}]
    /\ podOps \in Nat

PodInit ==
    /\ pods = [p \in Pod |-> NoObject] /\ cache = pods
    /\ stream = <<>> /\ queue = {} /\ worker = Idle
    /\ byIP = [ip \in IP |-> NoPod] /\ byPod = [p \in Pod |-> NoIP]
    /\ podOps = MaxPodOps

-----------------------------------------------------------------------------
(* Pods come, get an address, finish and go. *)

\* Addresses the network will not hand out.
InUse ==
    {pods[p].ip : p \in {q \in Pod :
        pods[q].state = "running" \/ ~ReuseFinished}}

SetPod(p, obj) ==
    /\ podOps > 0 /\ podOps' = podOps - 1
    /\ pods' = [pods EXCEPT ![p] = obj]
    /\ stream' = Append(stream, [pod |-> p, obj |-> obj])
    /\ UNCHANGED <<cache, queue, worker, indexVars>>

CreatePod(p) ==
    pods[p].state = "none" /\ SetPod(p, [state |-> "running", ip |-> NoIP])

AssignIP(p, ip) ==
    /\ pods[p] = [state |-> "running", ip |-> NoIP] /\ ip \notin InUse
    /\ SetPod(p, [state |-> "running", ip |-> ip])

FinishPod(p) ==
    /\ pods[p].state = "running" /\ pods[p].ip # NoIP
    /\ SetPod(p, [pods[p] EXCEPT !.state = "finished"])

\* Any other change, such as a deletion timestamp.
TouchPod(p) == pods[p].state # "none" /\ SetPod(p, pods[p])

DeletePod(p) == pods[p].state # "none" /\ SetPod(p, NoObject)

PodInformer ==
    /\ stream # <<>>
    /\ cache' = [cache EXCEPT ![Head(stream).pod] = Head(stream).obj]
    /\ queue' = queue \cup {Head(stream).pod}
    /\ stream' = Tail(stream)
    /\ UNCHANGED <<pods, worker, indexVars, podOps>>

-----------------------------------------------------------------------------
(* The index. *)

\* Mutant: the entry under the Pod's previous address is left behind.
PutLeavesOld(ip, p) ==
    /\ byIP' = [byIP EXCEPT ![ip] = p]
    /\ byPod' = [byPod EXCEPT ![p] = ip]

\* The previous address is freed only if this Pod still owns it.
Put(ip, p) ==
    /\ byIP' = [a \in IP |-> IF a = ip THEN p
                             ELSE IF a = byPod[p] /\ byIP[a] = p THEN NoPod
                             ELSE byIP[a]]
    /\ byPod' = [byPod EXCEPT ![p] = ip]

\* Mutant: the address is freed whoever owns it now.
RemoveAnyOwner(p) ==
    /\ byIP' = [a \in IP |-> IF a = byPod[p] THEN NoPod ELSE byIP[a]]
    /\ byPod' = [byPod EXCEPT ![p] = NoIP]

Remove(p) ==
    /\ byIP' = [a \in IP |-> IF a = byPod[p] /\ byIP[a] = p THEN NoPod
                             ELSE byIP[a]]
    /\ byPod' = [byPod EXCEPT ![p] = NoIP]

PodGet(p) ==
    /\ worker = Idle /\ p \in queue
    /\ queue' = queue \ {p}
    /\ worker' = [pod |-> p, obj |-> cache[p]]
    /\ UNCHANGED <<pods, stream, cache, indexVars, podOps>>

\* The rest of Reconcile: not found, no address yet, or an address.
PodIndexed ==
    /\ worker # Idle
    /\ \/ worker.obj.state = "none" /\ Remove(worker.pod)
       \/ /\ worker.obj.state # "none" /\ worker.obj.ip = NoIP
          /\ UNCHANGED indexVars
       \/ worker.obj.ip # NoIP /\ Put(worker.obj.ip, worker.pod)
    /\ worker' = Idle
    /\ UNCHANGED <<pods, stream, cache, queue, podOps>>

PodNext ==
    \/ \E p \in Pod : CreatePod(p) \/ FinishPod(p) \/ TouchPod(p)
                        \/ DeletePod(p) \/ PodGet(p)
    \/ \E p \in Pod, ip \in IP : AssignIP(p, ip)
    \/ PodInformer \/ PodIndexed

PodSpec == PodInit /\ [][PodNext]_podVars

\* The informer delivers, and the first-in first-out queue passes no Pod over.
PodFairSpec ==
    /\ PodSpec /\ WF_podVars(PodInformer) /\ WF_podVars(PodIndexed)
    /\ \A p \in Pod : SF_podVars(PodGet(p))

-----------------------------------------------------------------------------
\* Every entry of byIP is known to byPod, so Remove, which has only the Pod's
\* name to go by, can find and evict it: no entry becomes unreachable.
EntriesAreReachable ==
    /\ PodTypeOK
    /\ \A ip \in IP : byIP[ip] # NoPod => byPod[byIP[ip]] = ip

\* Once Pods stop changing, a running Pod's address resolves to it and no
\* address resolves to a Pod that is gone or has another one, whatever order
\* the queue processed deletions, recreations and reuses in.
AttributionSettles ==
    <>[](/\ \A p \in Pod : pods[p].state = "running" /\ pods[p].ip # NoIP
                            => byIP[pods[p].ip] = p
         /\ \A ip \in IP : byIP[ip] # NoPod =>
                /\ pods[byIP[ip]].state # "none"
                /\ pods[byIP[ip]].ip \in {ip, NoIP})
=============================================================================
