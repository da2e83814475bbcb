------------------------------- MODULE Binding -------------------------------
(* What the device registry promises (docs and models/device.py: "only one  *)
(* at a time"): a cabinet is paired with at most one controller; a serial   *)
(* is paired once in its life and never moves to another cabinet.           *)
CONSTANTS Codes, Serials, None
VARIABLES paired,  (* cabinet -> the serial paired with it, or None         *)
          used     (* serials that are or were paired                       *)

Init == paired = [c \in Codes |-> None] /\ used = {}

Pair(c, s) ==
  /\ s \notin used
  /\ paired' = [paired EXCEPT ![c] = s]
  /\ used' = used \cup {s}

Unpair(c) == paired' = [paired EXCEPT ![c] = None] /\ UNCHANGED used

Next == \E c \in Codes : Unpair(c) \/ \E s \in Serials : Pair(c, s)

Spec == Init /\ [][Next]_<<paired, used>>
=============================================================================
