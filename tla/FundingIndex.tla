---------------------------- MODULE FundingIndex ----------------------------
(***************************************************************************)
(* Funding between the two sides of one market: open interest moves, the   *)
(* crank advances both indices at the rate the skew sets, and the light    *)
(* side's index is scaled so that it is promised no more than the heavy    *)
(* side is charged.  Two totals follow what the indices promise, in index  *)
(* units times base size.  What positions then pay is in Trading.          *)
(***************************************************************************)
EXTENDS SolfxMath

CONSTANTS
    TradeSizes,  \* base sizes by which a side of the book grows or shrinks
    MaxSide,     \* bound of this model: the base size of a side
    Elapsed,     \* the seconds that may lie between two cranks
    Hour,        \* SECONDS_PER_HOUR
    FundingK,    \* Market::funding_k
    FundingCap,  \* Market::funding_rate_cap_per_hour
    MaxCranks    \* bound of this model: the number of cranks

ASSUME FundingAssumption ==
    /\ TradeSizes \subseteq Nat \ {0}
    /\ MaxSide \in Nat
    /\ Elapsed \subseteq Nat
    /\ Hour \in Nat \ {0}
    /\ FundingK \in Nat
    /\ FundingCap \in Nat
    /\ MaxCranks \in Nat

VARIABLES
    base,      \* Market::base_oi_long and base_oi_short
    index,     \* Market::cum_funding_long and cum_funding_short
    charged,   \* what the heavy side was charged, over all cranks
    promised,  \* what the light side was promised, over all cranks
    cranks     \* the number of cranks so far

fundingVars == <<base, index, charged, promised, cranks>>

FundingTypeOK ==
    /\ base \in [Directions -> 0..MaxSide]
    /\ index \in [Directions -> Int]
    /\ charged \in Nat
    /\ promised \in Nat
    /\ cranks \in 0..MaxCranks

FundingInit ==
    /\ base = [d \in Directions |-> 0]
    /\ index = [d \in Directions |-> 0]
    /\ charged = 0
    /\ promised = 0
    /\ cranks = 0

AddOpenInterest(d, s) ==
    /\ base[d] + s <= MaxSide
    /\ base' = [base EXCEPT ![d] = @ + s]
    /\ UNCHANGED <<index, charged, promised, cranks>>

RemoveOpenInterest(d, s) ==
    /\ base[d] >= s
    /\ base' = [base EXCEPT ![d] = @ - s]
    /\ UNCHANGED <<index, charged, promised, cranks>>

CrankFunding(elapsed) ==
    LET rate   == FundingRate(base["Long"], base["Short"], FundingK, FundingCap)
        update == FundingIndexUpdate(base["Long"], base["Short"], rate, elapsed, Hour)
        cost   == [d \in Directions |-> base[d] * update[d]]
    IN  /\ cranks < MaxCranks
        /\ elapsed > 0
        /\ cranks' = cranks + 1
        /\ index' = [d \in Directions |-> index[d] + update[d]]
        /\ charged' = charged + Greater(cost["Long"], 0) + Greater(cost["Short"], 0)
        /\ promised' = promised + Greater(-cost["Long"], 0) + Greater(-cost["Short"], 0)
        /\ UNCHANGED base

FundingNext ==
    \/ \E d \in Directions, s \in TradeSizes : AddOpenInterest(d, s) \/ RemoveOpenInterest(d, s)
    \/ \E elapsed \in Elapsed : CrankFunding(elapsed)

FundingSpec == FundingInit /\ [][FundingNext]_fundingVars

-----------------------------------------------------------------------------
(* I3: however the book's skew moves and flips between cranks, the light   *)
(* side is never promised more than the heavy side was charged, and what   *)
(* the rounding keeps is less than a unit of index per unit of the book.   *)
FundingConserved ==
    /\ promised <= charged
    /\ charged - promised <= cranks * MaxSide
=============================================================================
