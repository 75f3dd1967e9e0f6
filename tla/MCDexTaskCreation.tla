------------------------- MODULE MCDexTaskCreation -------------------------
(* Three protocols over three networks: two whose variable names differ   *)
(* and one whose first character is two bytes long.                        *)
EXTENDS DexTaskCreation, TLC

CONSTANTS p1, p2, p3

MCProtocols == {p1, p2, p3}

MCNetworks == {<<"a", "A", "a">>, <<"a", "-", "a">>, <<"e", "a">>}

(* The protocols are interchangeable.                                      *)
ProtocolSymmetry == Permutations(MCProtocols)
=============================================================================
