------------------------------ MODULE MCAlarms ------------------------------
(* Small instances of AlarmBus for TLC.                                     *)
EXTENDS AlarmBus, TLC

ConditionSymmetry == Permutations(Conditions)
=============================================================================
