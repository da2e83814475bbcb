----------------------------- MODULE MCControl -----------------------------
(* Small instances of CabinetControl for TLC.                               *)
EXTENDS CabinetControl, TLC

RequestSymmetry == Permutations(Requests)
CabinetSymmetry == Permutations(Cabinets)
=============================================================================
