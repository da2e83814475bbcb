--------------------------- MODULE AlarmLifecycle ---------------------------
(***************************************************************************)
(* What the alarm bus promises (README.md, "Alarmas con estado"): an alarm *)
(* is raised once, when its condition appears, and cleared once, when the  *)
(* condition goes.  So nothing is announced but a change of the list of    *)
(* open alarms that the API shows, and a listener that got the last event  *)
(* about an alarm agrees with the list.                                    *)
(***************************************************************************)
CONSTANTS Cabinets, Types

VARIABLES
  open,   (* code -> the alarms the API lists                               *)
  heard   (* code -> alarm -> the last event a listener got about it, or    *)
          (*   "missed" when that one did not go out                        *)

Init ==
  /\ open = [c \in Cabinets |-> {}]
  /\ heard = [c \in Cabinets |-> [x \in Types |-> "cleared"]]

(* One report raises alarms that are not open and then clears open ones;    *)
(* its events go out or, all of them, do not.                               *)
Report(c, up, down, sent) ==
  /\ up \cap open[c] = {} /\ down \subseteq open[c] \cup up
  /\ open' = [open EXCEPT ![c] = (@ \cup up) \ down]
  /\ heard' = [heard EXCEPT ![c] =
       [x \in Types |-> IF x \notin up \cup down THEN @[x]
                        ELSE IF ~sent THEN "missed"
                        ELSE IF x \in down THEN "cleared" ELSE "raised"]]

Next ==
  \E c \in Cabinets, up, down \in SUBSET Types, sent \in BOOLEAN : Report(c, up, down, sent)

Spec == Init /\ [][Next]_<<open, heard>>

=============================================================================
