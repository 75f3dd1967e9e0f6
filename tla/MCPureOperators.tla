-------------------------- MODULE MCPureOperators --------------------------
(* The pure operators of the repository on every input of a small domain:  *)
(* the gas and fee arithmetic of MCGasArithmetic on every u64 of a small   *)
(* width, and dex_node_grpc_var (DexNodeGrpcVar) on every identifier of up *)
(* to MaxLen characters.  The state is the pair of inputs, which never     *)
(* changes.                                                                *)
EXTENDS MCGasArithmetic, DexNodeGrpcVar

VARIABLE network

PureInit == Init /\ network \in SeqOf(Alphabet, MaxLen)

PureNext == Next /\ UNCHANGED network

PureSpec == PureInit /\ [][PureNext]_<<gas, network>>

-----------------------------------------------------------------------------
(* Spec section 6: every nonempty network identifier has its variable,     *)
(* and dex_node_grpc_var computes exactly the spec's name: the byte       *)
(* arithmetic of the insertion loop (start at 1, resume at index + 2)      *)
(* splits before every inner uppercase letter once and never before the    *)
(* first character.                                                        *)
GrpcVarMatchesReference ==
    network # <<>> => GrpcVar(network) = [result |-> "ok",
                                          str |-> GrpcVarReference(network)]

(* The insertion loop of dex_node_grpc_var ends: every iteration moves    *)
(* search_index past the letter it found, so after at most one iteration   *)
(* per character the search finds nothing or panics.                       *)
ScanTerminates == Scan(network, SearchStart).done

(* dex_node_grpc_var never panics: task creation for a protocol either    *)
(* gets the variable name or an Err it can report.                         *)
NeverPanics == GrpcVar(network).result # "panic"
=============================================================================
