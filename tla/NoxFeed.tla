------------------------------- MODULE NoxFeed -------------------------------
(***************************************************************************)
(* What the NOXFUNDS indexer promises its readers: the transactions of the *)
(* program in the order they were confirmed, none left out, from the first *)
(* up to some point which always catches up.  A transaction is named by    *)
(* its place in the history of the program.                                *)
(***************************************************************************)
EXTENDS Naturals, Sequences

CONSTANT MaxTxs   \* bound: transactions the program ever confirms

VARIABLES
    height,   \* transactions confirmed so far
    served    \* the transactions a reader is shown, oldest first

vars == <<height, served>>

Init == height = 0 /\ served = <<>>

Confirm == height < MaxTxs /\ height' = height + 1 /\ UNCHANGED served

Serve ==
    \E n \in (Len(served) + 1)..height :
        served' = [k \in 1..n |-> k] /\ UNCHANGED height

Next == Confirm \/ Serve

Spec == Init /\ [][Next]_vars

(* A reader who is behind has every transaction some time. *)
CaughtUp == (Len(served) < height) ~> (Len(served) = height)
=============================================================================
