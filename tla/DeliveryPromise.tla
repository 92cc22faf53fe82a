--------------------------- MODULE DeliveryPromise ---------------------------
(***************************************************************************)
(* What the agent promises about the lines of a file, without its parts:   *)
(* a line that was written is owed to the ingestion service until it is    *)
(* delivered; only an interruption (a restart of the agent, or a batch     *)
(* that it gives up) can make it forfeit owed lines, and only another      *)
(* interruption makes it owe a forfeited line again.                       *)
(***************************************************************************)
EXTENDS Naturals

CONSTANT LineCount

Lines == 1 .. LineCount

VARIABLES
    status,         \* of each line
    interruptions   \* how many there were

vars == <<status, interruptions>>

Init ==
    /\ status = [l \in Lines |-> "absent"]
    /\ interruptions = 0

StatusChanges == status' \in [Lines -> {"absent", "owed", "delivered", "forfeited"}]
Changes(l) == status'[l] # status[l]

(* Lines are written one by one.                                           *)
Write(l) ==
    /\ status[l] = "absent"
    /\ \A k \in 1 .. l - 1 : status[k] # "absent"
    /\ status' = [status EXCEPT ![l] = "owed"]
    /\ UNCHANGED interruptions

(* A batch reaches the service; some of its lines may have done so before. *)
Deliver ==
    /\ StatusChanges
    /\ \A l \in Lines : Changes(l) => status[l] = "owed" /\ status'[l] = "delivered"
    /\ UNCHANGED interruptions

Interrupt ==
    /\ StatusChanges
    /\ \A l \in Lines : Changes(l) => {status[l], status'[l]} = {"owed", "forfeited"}
    /\ interruptions' = interruptions + 1

Next == (\E l \in Lines : Write(l)) \/ Deliver \/ Interrupt

Spec == Init /\ [][Next]_vars
=============================================================================
