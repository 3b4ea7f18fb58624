---------------------------- MODULE GracefulStop ----------------------------
(***************************************************************************)
(* What bd serve promises a large batch apply about a graceful shutdown:   *)
(* large applies run one at a time, none starts once the shutdown has been *)
(* announced, and the process does not go away while the one in flight has *)
(* time left.  LargeApply, the slot, the queue and the drain, implements   *)
(* it.                                                                     *)
(***************************************************************************)
EXTENDS Naturals

CONSTANTS Request, NoRequest, Ceiling

VARIABLES writer,   \* the large apply in flight
          owed,     \* how much of its time it has left
          phase     \* "serving", "stopping" or "stopped"

vars == <<writer, owed, phase>>

Init == writer = NoRequest /\ owed = 0 /\ phase = "serving"

Begin(r) ==
    /\ phase = "serving" /\ writer = NoRequest
    /\ writer' = r /\ owed' \in 0 .. Ceiling /\ UNCHANGED phase

End == writer # NoRequest /\ writer' = NoRequest /\ owed' = 0 /\ UNCHANGED phase

Pass == owed > 0 /\ owed' = owed - 1 /\ UNCHANGED <<writer, phase>>

Announce == phase = "serving" /\ phase' = "stopping" /\ UNCHANGED <<writer, owed>>

Stop == phase = "stopping" /\ owed = 0 /\ phase' = "stopped" /\ UNCHANGED <<writer, owed>>

Next == (\E r \in Request : Begin(r)) \/ End \/ Pass \/ Announce \/ Stop

Spec == Init /\ [][Next]_vars /\ WF_vars(Stop)

=============================================================================
