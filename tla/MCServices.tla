---------------------------- MODULE MCServices -----------------------------
(***************************************************************************)
(* The two off-chain services in one instance.  They share no state, so    *)
(* one runs while the other has yet to begin: either has all of its own    *)
(* behaviours, and the instance no product of the two.                     *)
(***************************************************************************)
EXTENDS NoxIndexer, Faucet

ServicesInit == Init /\ FaucetInit

IndexerStep == FaucetInit /\ Next /\ UNCHANGED faucetVars
FaucetStep == Init /\ FaucetNext /\ UNCHANGED vars

ServicesNext == IndexerStep \/ FaucetStep

(* The fairness of each service, owed to the one that runs. *)
ServicesFairness ==
    /\ WF_vars(FaucetInit /\ Start)
    /\ WF_vars(FaucetInit /\ Take)
    /\ WF_vars(FaucetInit /\ Insert)
    /\ \A before \in 0..MaxTxs : SF_vars(FaucetInit /\ List(before))
    /\ \A s \in Signatures : SF_vars(FaucetInit /\ Fetch(s))
    /\ FaucetFairness

ServicesSpec == ServicesInit /\ [][ServicesNext]_<<vars, faucetVars>> /\ ServicesFairness
=============================================================================
