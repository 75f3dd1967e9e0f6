---------------------------- MODULE DexNodeGrpcVar ----------------------------
(***************************************************************************)
(* Id::dex_node_grpc_var of market-data-feeder/src/task/id.rs: the name of *)
(* the environment variable that holds a DEX network's gRPC endpoint.      *)
(* Starting at byte 1 it repeatedly finds the next ASCII uppercase letter, *)
(* inserts '_' before it and resumes two bytes further; then it uppercases *)
(* the ASCII letters, turns '-' into '_' and appends "__NODE_GRPC".       *)
(*                                                                         *)
(* A string is a sequence of characters, each a member of a small class:   *)
(* "a" an ASCII lowercase letter, "A" an ASCII uppercase letter, "-", and  *)
(* "e" a non-ASCII letter such as 'é', two bytes long in UTF-8.  The      *)
(* code indexes the string by bytes, so the model does too: a slice        *)
(* network[b..] panics unless b is the byte offset of a character or the  *)
(* end of the string.                                                      *)
(***************************************************************************)
EXTENDS Naturals, Sequences, SequencesExt

CONSTANTS
    Alphabet,   \* the character classes identifiers are made of
    MaxLen      \* bound: characters in an identifier

ASSUME GrpcVarConstantsAssumption ==
    /\ Alphabet \subseteq {"a", "A", "-", "e"}
    /\ MaxLen \in Nat

(* VAR_SUFFIX, one token of the model.                                     *)
VarSuffix == "__NODE_GRPC"

(* Bytes of a character in UTF-8.                                          *)
Width(ch) == IF ch = "e" THEN 2 ELSE 1

(* str::len: the length of a string in bytes.                              *)
ByteLen(s) == LET add(n, ch) == n + Width(ch) IN FoldLeft(add, 0, s)

(* Byte offset at which the k-th character starts.                         *)
Offset(s, k) == ByteLen(SubSeq(s, 1, k - 1))

(* The byte offsets a string may be sliced at.                             *)
CharBoundaries(s) == {Offset(s, k) : k \in 1..(Len(s) + 1)}

(* char::is_ascii_uppercase.                                               *)
IsAsciiUppercase(ch) == ch = "A"

(* Mutant: the search starts at the first byte.                            *)
SearchStartZero == 0

(* let mut search_index = 1.                                               *)
SearchStart == 1

(* Mutant: the search resumes at the letter just found.                   *)
ResumeIndexOffByOne(s, k) == Offset(s, k) + 1

(* search_index = index + 2: past the inserted '_' and the letter.         *)
ResumeIndex(s, k) == Offset(s, k) + 2

(* One iteration of the while loop of dex_node_grpc_var, on a record of   *)
(* the string, search_index and whether the loop has ended (and by a       *)
(* panic).  The slice network[search_index..] panics off a character       *)
(* boundary; find returns the first ASCII uppercase letter at or after it, *)
(* whose byte index gets the '_' inserted; the search resumes at index + 2. *)
ScanStep(st) ==
    LET s == st.str
        found == {k \in 1..Len(s) : Offset(s, k) >= st.idx
                                    /\ IsAsciiUppercase(s[k])}
        k == CHOOSE i \in found : \A j \in found : i <= j
    IN  CASE st.done -> st
          [] st.idx \notin CharBoundaries(s) ->
                 [st EXCEPT !.panic = TRUE, !.done = TRUE]
          [] found = {} -> [st EXCEPT !.done = TRUE]
          [] OTHER -> [st EXCEPT !.str = InsertAt(s, k, "_"),
                                 !.idx = ResumeIndex(s, k)]

(* The while loop from byte searchIndex on.  Every iteration that does not *)
(* end the loop consumes an uppercase letter at or after search_index (the *)
(* search resumes past it), so the loop has ended after Len(s) + 1          *)
(* iterations; later iterations change nothing.                            *)
Scan(s, searchIndex) ==
    LET iter[n \in Nat] ==
            IF n = 0
            THEN [str |-> s, idx |-> searchIndex, panic |-> FALSE, done |-> FALSE]
            ELSE ScanStep(iter[n - 1])
    IN  iter[Len(s) + 1]

(* str::to_ascii_uppercase followed by replace('-', "_").                  *)
ToAsciiUpper(ch) == CASE ch = "a" -> "A"
                      [] ch = "-" -> "_"
                      [] OTHER -> ch

(* dex_node_grpc_var: Err on an empty identifier, a panic if the scan      *)
(* panics, else the converted identifier with VAR_SUFFIX pushed.          *)
GrpcVar(network) ==
    IF network = <<>>
    THEN [result |-> "err", str |-> <<>>]
    ELSE LET scanned == Scan(network, SearchStart)
         IN  IF scanned.panic
             THEN [result |-> "panic", str |-> <<>>]
             ELSE [result |-> "ok",
                   str |-> Append([i \in DOMAIN scanned.str |->
                                      ToAsciiUpper(scanned.str[i])],
                                  VarSuffix)]

(* Spec section 6: the variable is the identifier uppercased, split by '_' *)
(* before every uppercase letter but the first character, with '-' turned *)
(* into '_', followed by __NODE_GRPC.                                      *)
GrpcVarReference(network) ==
    Append(FlattenSeq([k \in DOMAIN network |->
                          IF k > 1 /\ IsAsciiUppercase(network[k])
                          THEN <<"_", ToAsciiUpper(network[k])>>
                          ELSE <<ToAsciiUpper(network[k])>>]),
           VarSuffix)
=============================================================================
