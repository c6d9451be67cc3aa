------------------------------ MODULE MCLedgers ------------------------------
(***************************************************************************)
(* Five books for TLC: a position's profit, a market's funding indices,    *)
(* the marketplace's escrows, the brokers' rebates and the faucet's        *)
(* claims.  They share no state, so a behaviour of this instance moves one *)
(* of them and leaves the others where they start.                         *)
(***************************************************************************)
EXTENDS PositionLedger, FundingIndex, Marketplace, Referral, Faucet

\* One trader, two investors; one of them has two offers to the trader.
MCInvestorOf == <<"ann", "ann", "bob">>
MCTraderOf == <<"tom", "tom", "tom">>
MCWealth == [ann |-> 4, bob |-> 3]
MCMaxMandate == [Bronze |-> 2, Silver |-> 3]
MCMaxActive == [Bronze |-> 1, Silver |-> 2]

\* Two brokers with a trader each, and a trader who named none.
MCReferrerOf == <<1, 2, 0>>

\* A trade of one unit of volume is below the first bound, the next above it.
MCShareTiers == {[bound |-> 2, value |-> 2]}

\* UpdateFeeSplits and SyncSplit lead from one split of fees to every other.
BrokersInit == ReferralInit /\ feeSplitReferral = 3

LedgersInit == Init /\ FundingInit /\ MarketInit /\ BrokersInit /\ FaucetInit

LedgersNext ==
    \/ /\ FundingInit /\ MarketInit /\ BrokersInit /\ FaucetInit
       /\ Next /\ UNCHANGED <<fundingVars, marketVars, referralVars, faucetVars>>
    \/ /\ Init /\ MarketInit /\ BrokersInit /\ FaucetInit
       /\ FundingNext /\ UNCHANGED <<vars, marketVars, referralVars, faucetVars>>
    \/ /\ Init /\ FundingInit /\ BrokersInit /\ FaucetInit
       /\ MarketNext /\ UNCHANGED <<vars, fundingVars, referralVars, faucetVars>>
    \/ /\ Init /\ FundingInit /\ MarketInit /\ FaucetInit
       /\ ReferralNext /\ UNCHANGED <<vars, fundingVars, marketVars, faucetVars>>
    \/ /\ Init /\ FundingInit /\ MarketInit /\ BrokersInit
       /\ FaucetNext /\ UNCHANGED <<vars, fundingVars, marketVars, referralVars>>

LedgersSpec ==
    LedgersInit /\ [][LedgersNext]_<<vars, fundingVars, marketVars, referralVars, faucetVars>>
=============================================================================
