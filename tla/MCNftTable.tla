----------------------------- MODULE MCNftTable -----------------------------
(* An instance of NftTable for TLC: an engaged ruleset has more messages    *)
(* than a disengaged one.                                                   *)
EXTENDS NftTable

CONSTANTS engage, disengage

BatchLength == [p \in Policy |-> IF p = engage THEN 5 ELSE 3]
=============================================================================
