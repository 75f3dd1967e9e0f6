--------------------------- MODULE DexTaskCreation ---------------------------
(***************************************************************************)
(* Id::into_task of market-data-feeder/src/task/id.rs: the feeder tasks    *)
(* are created one protocol at a time with exclusive access to the task    *)
(* creation context.  For each protocol the admin contract is asked for    *)
(* its network and DEX.  The DEX node client of that network is taken from *)
(* the context's cache.  On a miss it is connected to the endpoint read    *)
(* from the variable dex_node_grpc_var names, and the client is cached.    *)
(* Then the oracle is set up twice (Oracle::new of the oracle module and   *)
(* of the task), and the Astroport or Osmosis task is built.  Every `?` is  *)
(* an early return with Err; a panic of dex_node_grpc_var ends the         *)
(* creation of all tasks.                                                  *)
(*                                                                         *)
(* Clients are numbered in the order they are connected; 0 is no client.   *)
(* The environment is the admin contract (a network per protocol, or a     *)
(* failed query), the process environment (which variables are set) and    *)
(* the nodes (a connection or an oracle query may fail).  Failures are     *)
(* bounded.                                                                *)
(***************************************************************************)
EXTENDS DexNodeGrpcVar, FiniteSets

CONSTANTS
    Protocols,      \* the protocols tasks are created for
    Networks,       \* network identifiers the admin contract may answer
    MaxFailures     \* bound: failed queries, reads and connections

ASSUME TaskCreationConstantsAssumption ==
    /\ IsFiniteSet(Protocols)
    /\ Networks \subseteq Seq(Alphabet)
    /\ MaxFailures \in Nat

(* The variable names dex_node_grpc_var yields for the networks.           *)
VarNames == {GrpcVar(n).str : n \in {m \in Networks : GrpcVar(m).result = "ok"}}

VARIABLES
    networkOf,      \* protocol -> the network the admin contract answers
    definedVars,    \* the variable names set in the process environment
    cache,          \* network -> its cached DEX node client, 0 if vacant
    clients,        \* DEX node clients connected so far
    clientNetwork,  \* client -> the network it was connected for
    task,           \* protocol -> the DEX node client of its task, 0 if none
    failures,       \* failed steps so far
    panicked        \* dex_node_grpc_var panicked

vars == <<networkOf, definedVars, cache, clients, clientNetwork, task,
          failures, panicked>>

Init ==
    /\ networkOf \in [Protocols -> Networks]
    /\ definedVars \in SUBSET VarNames
    /\ cache = [n \in Networks |-> 0]
    /\ clients = 0
    /\ clientNetwork = <<>>
    /\ task = [p \in Protocols |-> 0]
    /\ failures = 0
    /\ panicked = FALSE

-----------------------------------------------------------------------------
(* Mutant: the cache is never consulted.                                   *)
CachedNever(n) == n # n

(* BTreeMapEntry::Occupied: the network already has a client.             *)
Cached(n) == cache[n] # 0

(* One of the `?` of into_task returns Err: nothing else changes.          *)
Fail ==
    /\ failures < MaxFailures
    /\ failures' = failures + 1
    /\ UNCHANGED <<networkOf, definedVars, cache, clients, clientNetwork, task,
                   panicked>>

(* The oracle set-up and the task construction after the client is known: *)
(* either Oracle::new fails (the client stays cached) or the task holds    *)
(* the client.                                                             *)
BuildTask(p, client) ==
    \/ /\ failures < MaxFailures
       /\ failures' = failures + 1
       /\ UNCHANGED task
    \/ /\ task' = [task EXCEPT ![p] = client]
       /\ UNCHANGED failures

(* into_task for protocol p: query the admin contract, take or connect the *)
(* network's DEX node client (the second insert of the same client into    *)
(* the cache changes nothing), then build the task.                        *)
IntoTask(p) ==
    LET n == networkOf[p]
        name == GrpcVar(n)
        new == clients + 1
    IN
    /\ ~panicked
    /\ task[p] = 0
    /\ \/ Fail
       \/ /\ Cached(n)
          /\ BuildTask(p, cache[n])
          /\ UNCHANGED <<networkOf, definedVars, cache, clients, clientNetwork,
                         panicked>>
       \/ /\ ~ Cached(n)
          /\ name.result = "panic"
          /\ panicked' = TRUE
          /\ UNCHANGED <<networkOf, definedVars, cache, clients, clientNetwork,
                         task, failures>>
       \/ /\ ~ Cached(n)
          /\ \/ name.result = "err"
             \/ name.result = "ok" /\ name.str \notin definedVars
          /\ Fail
       \/ /\ ~ Cached(n)
          /\ name.result = "ok"
          /\ name.str \in definedVars
          /\ Fail
       \/ /\ ~ Cached(n)
          /\ name.result = "ok"
          /\ name.str \in definedVars
          /\ clients' = new
          /\ clientNetwork' = Append(clientNetwork, n)
          /\ cache' = [cache EXCEPT ![n] = new]
          /\ BuildTask(p, new)
          /\ UNCHANGED <<networkOf, definedVars, panicked>>

(* Task creation is over: every task exists, the creation panicked, or no  *)
(* more failures may happen in this behaviour.                             *)
Stopped ==
    /\ \/ panicked
       \/ \A p \in Protocols : task[p] # 0
       \/ failures = MaxFailures
    /\ UNCHANGED vars

Next == (\E p \in Protocols : IntoTask(p)) \/ Stopped

Spec == Init /\ [][Next]_vars

-----------------------------------------------------------------------------
TypeOK ==
    /\ networkOf \in [Protocols -> Networks]
    /\ definedVars \subseteq VarNames
    /\ cache \in [Networks -> 0..clients]
    /\ clients \in Nat
    /\ clientNetwork \in Seq(Networks) /\ Len(clientNetwork) = clients
    /\ task \in [Protocols -> 0..clients]
    /\ failures \in 0..MaxFailures
    /\ panicked \in BOOLEAN

(* The tasks of one network share one DEX node client, connected for that  *)
(* network, however the creations of other protocols failed in between    *)
(* (a failed connection leaves the entry vacant, a failed Oracle::new      *)
(* leaves the client cached).                                              *)
TasksShareNetworkClient ==
    \A p, q \in Protocols :
        /\ task[p] # 0 => clientNetwork[task[p]] = networkOf[p]
        /\ task[p] # 0 /\ task[q] # 0 /\ networkOf[p] = networkOf[q]
               => task[p] = task[q]

(* into_task connects at most one DEX node client per network: the         *)
(* Occupied entry of dex_node_clients is reused by every later protocol of *)
(* the network, whichever earlier creations failed after the connection.  *)
OneClientPerNetwork ==
    \A i, j \in 1..clients : clientNetwork[i] = clientNetwork[j] => i = j
=============================================================================
