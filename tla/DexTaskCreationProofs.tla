------------------------- MODULE DexTaskCreationProofs -------------------------
(***************************************************************************)
(* Proofs about Id::into_task (DexTaskCreation) for every set of protocols *)
(* and networks, every answer of the admin contract, every set of defined  *)
(* variables and every failure bound.  The variable name computed by       *)
(* dex_node_grpc_var is never expanded: the argument holds whatever name   *)
(* a network gets, and whether its computation panics.                     *)
(***************************************************************************)
EXTENDS DexTaskCreation, TLAPS

(* The cache of DEX node clients only holds clients connected for the     *)
(* network they are cached under.                                          *)
CacheSound == \A n \in Networks : cache[n] # 0 => clientNetwork[cache[n]] = n

(* A created task holds the client cached for its network.                 *)
TaskCached == \A p \in Protocols : task[p] # 0 => cache[networkOf[p]] = task[p]

ClientInv == CacheSound /\ TaskCached

-----------------------------------------------------------------------------
(* The three shapes of a step.  Quiet: an early return, a panic or the end *)
(* of task creation; nothing but the failure count and the panic flag      *)
(* moves.                                                                  *)
Quiet ==
    /\ UNCHANGED <<networkOf, definedVars, cache, clients, clientNetwork, task>>
    /\ failures' \in 0..MaxFailures
    /\ panicked' \in BOOLEAN

(* FromCache(p): the network of p has a cached client, which the task of p *)
(* gets unless Oracle::new fails.                                          *)
FromCache(p) ==
    /\ cache[networkOf[p]] # 0
    /\ task' \in {task, [task EXCEPT ![p] = cache[networkOf[p]]]}
    /\ failures' \in 0..MaxFailures
    /\ UNCHANGED <<networkOf, definedVars, cache, clients, clientNetwork, panicked>>

(* Connect(p): the entry was vacant; a new client is connected for the     *)
(* network of p and cached, and the task of p gets it unless Oracle::new   *)
(* fails.                                                                  *)
Connect(p) ==
    /\ cache[networkOf[p]] = 0
    /\ clients' = clients + 1
    /\ clientNetwork' = Append(clientNetwork, networkOf[p])
    /\ cache' = [cache EXCEPT ![networkOf[p]] = clients + 1]
    /\ task' \in {task, [task EXCEPT ![p] = clients + 1]}
    /\ failures' \in 0..MaxFailures
    /\ UNCHANGED <<networkOf, definedVars, panicked>>

(* Every step of task creation has one of the three shapes.                *)
LEMMA StepShapes ==
    ASSUME TaskCreationConstantsAssumption, TypeOK, [Next]_vars
    PROVE  Quiet \/ \E p \in Protocols : FromCache(p) \/ Connect(p)
<1>1. CASE Stopped \/ UNCHANGED vars
  BY <1>1 DEF Stopped, vars, Quiet, TypeOK
<1>2. ASSUME NEW p \in Protocols, IntoTask(p)
      PROVE  Quiet \/ FromCache(p) \/ Connect(p)
  <2> DEFINE n == networkOf[p]
             name == GrpcVar(n)
             new == clients + 1
  <2>1. CASE Fail
    BY <2>1 DEF Fail, Quiet, TypeOK
  <2>2. CASE /\ Cached(n)
             /\ BuildTask(p, cache[n])
             /\ UNCHANGED <<networkOf, definedVars, cache, clients, clientNetwork,
                            panicked>>
    BY <2>2 DEF BuildTask, Cached, FromCache, TypeOK
  <2>3. CASE /\ panicked' = TRUE
             /\ UNCHANGED <<networkOf, definedVars, cache, clients, clientNetwork,
                            task, failures>>
    BY <2>3 DEF Quiet, TypeOK
  <2>4. CASE /\ ~ Cached(n)
             /\ clients' = new
             /\ clientNetwork' = Append(clientNetwork, n)
             /\ cache' = [cache EXCEPT ![n] = new]
             /\ BuildTask(p, new)
             /\ UNCHANGED <<networkOf, definedVars, panicked>>
    BY <2>4 DEF BuildTask, Cached, Connect, TypeOK
  <2>5. QED
    BY <1>2, <2>1, <2>2, <2>3, <2>4 DEF IntoTask
<1>3. QED
  BY <1>1, <1>2 DEF Next

-----------------------------------------------------------------------------
(* Every variable keeps its type.                                          *)
THEOREM TypeCorrect == Spec => []TypeOK
<1> USE TaskCreationConstantsAssumption
<1>1. Init => TypeOK
  <2> SUFFICES ASSUME Init PROVE TypeOK
    OBVIOUS
  <2>1. clientNetwork \in Seq(Networks) /\ Len(clientNetwork) = clients
    BY DEF Init
  <2>2. definedVars \subseteq VarNames
    BY DEF Init
  <2>3. /\ networkOf \in [Protocols -> Networks]
        /\ cache \in [Networks -> 0..clients] /\ task \in [Protocols -> 0..clients]
    BY DEF Init
  <2>4. failures \in 0..MaxFailures /\ clients \in Nat
    BY DEF Init
  <2>5. panicked \in BOOLEAN
    BY DEF Init
  <2>6. QED
    BY <2>1, <2>2, <2>3, <2>4, <2>5, Zenon DEF TypeOK
<1>2. TypeOK /\ [Next]_vars => TypeOK'
  <2> SUFFICES ASSUME TypeOK, [Next]_vars PROVE TypeOK'
    OBVIOUS
  <2>1. CASE Quiet
    BY <2>1 DEF Quiet, TypeOK
  <2>2. ASSUME NEW p \in Protocols, FromCache(p) PROVE TypeOK'
    BY <2>2 DEF FromCache, TypeOK
  <2>3. ASSUME NEW p \in Protocols, Connect(p) PROVE TypeOK'
    BY <2>3 DEF Connect, TypeOK
  <2>4. QED
    BY <2>1, <2>2, <2>3, StepShapes
<1>3. QED
  BY <1>1, <1>2, PTL DEF Spec

(* ClientInv is inductive relative to TypeOK.                              *)
LEMMA ClientInvStep ==
    ASSUME TaskCreationConstantsAssumption, TypeOK, ClientInv, [Next]_vars
    PROVE  ClientInv'
<1>1. CASE Quiet
  BY <1>1 DEF Quiet, ClientInv, CacheSound, TaskCached
<1>2. ASSUME NEW p \in Protocols, FromCache(p) PROVE ClientInv'
  BY <1>2 DEF FromCache, ClientInv, CacheSound, TaskCached, TypeOK
<1>3. ASSUME NEW p \in Protocols, Connect(p) PROVE ClientInv'
  <2> DEFINE n == networkOf[p]
             new == clients + 1
  <2>1. n \in Networks /\ Len(clientNetwork') = new /\ clientNetwork'[new] = n
    BY <1>3 DEF Connect, TypeOK
  <2>2. \A i \in 1..clients : clientNetwork'[i] = clientNetwork[i]
    BY <1>3 DEF Connect, TypeOK
  <2>3. CacheSound'
    BY <1>3, <2>1, <2>2 DEF Connect, ClientInv, CacheSound, TypeOK
  <2>4. \A q \in Protocols : networkOf[q] = n => task[q] = 0
    (* the entry of n was vacant, so no task of n existed *)
    BY <1>3 DEF Connect, ClientInv, TaskCached
  <2>5. TaskCached'
    BY <1>3, <2>4 DEF Connect, ClientInv, TaskCached, TypeOK
  <2>6. QED
    BY <2>3, <2>5 DEF ClientInv
<1>4. QED
  BY <1>1, <1>2, <1>3, StepShapes

(* The tasks into_task creates for the protocols of one network share one  *)
(* DEX node client, connected for that network, however the creations of  *)
(* other protocols failed in between: a failed connection leaves the cache *)
(* entry vacant, and a failed Oracle::new leaves the client cached for the *)
(* next protocol of the network.                                           *)
THEOREM TasksShareNetworkClientInvariant == Spec => []TasksShareNetworkClient
<1> USE TaskCreationConstantsAssumption
<1>1. Init => ClientInv
  BY DEF Init, ClientInv, CacheSound, TaskCached
<1>2. TypeOK /\ ClientInv /\ [Next]_vars => ClientInv'
  BY ClientInvStep
<1>3. TypeOK /\ ClientInv => TasksShareNetworkClient
  BY DEF TypeOK, ClientInv, CacheSound, TaskCached, TasksShareNetworkClient
<1>4. QED
  BY <1>1, <1>2, <1>3, TypeCorrect, PTL DEF Spec

-----------------------------------------------------------------------------
(* Every connected client is the one cached for the network it was        *)
(* connected for: a client is cached as soon as it is connected and a      *)
(* cache entry is never replaced.                                          *)
ClientCached == \A i \in 1..clients : cache[clientNetwork[i]] = i

(* ClientCached is inductive relative to TypeOK.                           *)
LEMMA ClientCachedStep ==
    ASSUME TaskCreationConstantsAssumption, TypeOK, ClientCached, [Next]_vars
    PROVE  ClientCached'
<1>1. CASE Quiet
  BY <1>1 DEF Quiet, ClientCached
<1>2. ASSUME NEW p \in Protocols, FromCache(p) PROVE ClientCached'
  BY <1>2 DEF FromCache, ClientCached
<1>3. ASSUME NEW p \in Protocols, Connect(p) PROVE ClientCached'
  <2> DEFINE n == networkOf[p]
             new == clients + 1
  <2>1. n \in Networks /\ cache[n] = 0
    BY <1>3 DEF Connect, TypeOK
  <2>2. \A i \in 1..clients : clientNetwork[i] # n
    (* an older client of n would be cached under n *)
    BY <2>1 DEF ClientCached, TypeOK
  <2>3. ASSUME NEW i \in 1..clients PROVE cache'[clientNetwork'[i]] = i
    BY <1>3, <2>2 DEF Connect, ClientCached, TypeOK
  <2>4. cache'[clientNetwork'[new]] = new
    BY <1>3, <2>1 DEF Connect, TypeOK
  <2>5. clients' = new
    BY <1>3 DEF Connect
  <2>. QED
    BY <2>3, <2>4, <2>5 DEF ClientCached, TypeOK
<1>4. QED
  BY <1>1, <1>2, <1>3, StepShapes

(* into_task never opens a second DEX node connection for a network, for  *)
(* every set of protocols and networks and every failure pattern.          *)
THEOREM OneClientPerNetworkInvariant == Spec => []OneClientPerNetwork
<1> USE TaskCreationConstantsAssumption
<1>1. Init => ClientCached
  BY DEF Init, ClientCached
<1>2. TypeOK /\ ClientCached /\ [Next]_vars => ClientCached'
  BY ClientCachedStep
<1>3. TypeOK /\ ClientCached => OneClientPerNetwork
  BY DEF TypeOK, ClientCached, OneClientPerNetwork
<1>. QED
  BY <1>1, <1>2, <1>3, TypeCorrect, PTL DEF Spec
=============================================================================
