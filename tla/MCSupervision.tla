---------------------------- MODULE MCSupervision ----------------------------
(* Small instances of Supervision for TLC.                                  *)
EXTENDS Supervision

NoCaps == [p \in Periods |-> None]
MCTimes == {At(3, 0), At(20, 0)}
LateTimes == {At(12, 0), At(24, 0) - 1}
MCTariffs ==
  {[caps |-> NoCaps, floor |-> None, on |-> None],
   [caps |-> [NoCaps EXCEPT !["P1"] = 60], floor |-> 70, on |-> TRUE]}
(* A server in UTC, two hours behind a Spanish summer.                      *)
MCServerAhead == At(22, 0)
MCLuxes == {None, 10, 100}
=============================================================================
