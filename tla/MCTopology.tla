----------------------------- MODULE MCTopology -----------------------------
(* Small instances of Topology for TLC.                                     *)
EXTENDS Topology, TLC

Row(c, k, n) == [cab |-> c, circuit |-> k, light |-> [number |-> n, power |-> 1]]
Entry(k, n) == [circuit |-> k, number |-> n, power |-> 1]

MCFiles ==
  LET k == Max(CircuitNumbers)  n == Max(LightNumbers) IN
  {<<Row(c, k, 1)>> : c \in Codes} \cup
  {<<Row(c, 1, 1), Row(d, k, n)>> : c, d \in Codes} \cup
  {<<Row(c, 1, 1), Row(c, k, 1)>> : c \in Codes}
MCBackupFiles == {[circuits |-> <<1>>, lights |-> <<Entry(1, Max(LightNumbers))>>]}

Symmetry == Permutations(Requests) \cup Permutations(Codes)
=============================================================================
