---------------------------- MODULE MCEvaluation ----------------------------
(***************************************************************************)
(* Two instances of Evaluation in one.  In the first, "one", a position at *)
(* a time is traded with all else that can happen.  In the second, "two",  *)
(* two positions are open at once, and the price, the clock and the exits  *)
(* are all that moves them: no entry order, no carry and no gift.          *)
(***************************************************************************)
EXTENDS Evaluation

VARIABLE instance

Targets == <<2, 2>>

OnePosition == \A s \in Runs : Cardinality(Live(s)) <= 1 /\ ~ Open(s, 2)
                               /\ \A o \in OrderIds : orders[s][o].place # 2

PairOnly ==
    /\ borrow = 0
    /\ \A s \in Runs : evals[s].pending = 0 /\ paidIn[s] <= EvalStake

Scope == IF instance = "one" THEN OnePosition ELSE PairOnly

MCInit == Init /\ instance \in {"one", "two"}
MCNext == Next /\ UNCHANGED instance /\ Scope'
MCSpec == MCInit /\ [][MCNext]_<<vars, instance>> /\ Fairness
=============================================================================
