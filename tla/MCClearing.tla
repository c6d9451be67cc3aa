----------------------------- MODULE MCClearing -----------------------------
(***************************************************************************)
(* Small instances of Clearing for TLC.  One unit is a whole dollar-like   *)
(* amount and the scales are 10, so that a fee of four units already       *)
(* splits four ways and every rounding happens within a few units.         *)
(***************************************************************************)
EXTENDS Clearing

CONSTANT MaxRevenue   \* bound: the fee revenue ever routed to the fee vault

(* Every fee-charging instruction routes at least one unit to the fee      *)
(* vault, so this bounds the number of trades an instance explores.        *)
RevenueBound ==
    feeVault + totalTreasuryWithdrawn + totalReferralClaimed <= MaxRevenue

(* Bound: the guardian and the admin leave the protocol and its markets on. *)
Undisturbed == ~ paused /\ \A m \in Markets : status[m] = "Active"

(* Bound: a market is off only while the protocol is not paused and no     *)
(* exit waits.  The pool's instructions read no market's status.            *)
OneSwitch ==
    \/ \A m \in Markets : status[m] = "Active"
    \/ ~ paused /\ \A q \in Providers : request[q] = NoRequest

MCSplit == [lp |-> 3, treasury |-> 1, insurance |-> 3, referral |-> 3]

MCMmrTiers == {[bound |-> 15, value |-> 10], [bound |-> 25, value |-> 15]}

(* Two traders with one position account each, in one market. *)
MCOwner == <<1, 2>>
MCMarketOf == <<1, 1>>

(* One trader with one position account. *)
MCSoleOwner == <<1>>
MCSoleMarket == <<1>>

(* Tiers as steep as the code's: maintenance grows past initial margin. *)
MCSteepTiers == {[bound |-> 15, value |-> 10]}

MCParams ==
    [imr |-> 4, mmr |-> 2, maxLeverage |-> 4, liqFee |-> 1, openFee |-> 3, closeFee |-> 3,
     baseSpread |-> 1, skewRate |-> 0, minSize |-> 1, maxSize |-> 2, maxOi |-> 40,
     carryRate |-> 2, fundingK |-> 20, fundingCap |-> 6]

(* Each unit by which a trade tilts the book costs two basis points of     *)
(* price, and fees are low.                                                *)
MCSkewParams ==
    [MCParams EXCEPT !.skewRate = 20, !.baseSpread = 0, !.openFee = 1, !.closeFee = 1,
                     !.maxSize = 3]

MCNoCaps ==
    [maxSkew |-> 0, maxUtilisation |-> 0, minInsuranceRatio |-> 0,
     insuranceTarget |-> 0, skewFloor |-> 0]

(* Opens need a pool that is at least a quarter larger than the book. *)
MCCaps == [MCNoCaps EXCEPT !.maxUtilisation = 8]

MCQuotes == {[price |-> 10, conf |-> 0], [price |-> 3, conf |-> 0]}

(* A fall that leaves longs in debt and a rise that liquidates one in profit. *)
MCSwingQuotes == MCQuotes \cup {[price |-> 14, conf |-> 0]}

MCFlatQuotes == {[price |-> 10, conf |-> 0], [price |-> 10, conf |-> 1]}

MCRisingQuotes == {[price |-> 10, conf |-> 0], [price |-> 15, conf |-> 0]}
=============================================================================
