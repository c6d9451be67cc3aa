---------------------------- MODULE Marketplace ----------------------------
(***************************************************************************)
(* noxfunds: how an investor's principal becomes a mandate's.              *)
(*                                                                         *)
(* There are two doors.  An investor posts an offer: the principal leaves  *)
(* for an escrow at once, and the trader it is addressed to accepts it,    *)
(* declines it, or lets it expire; the investor may take it back while     *)
(* nobody has signed for it.  Or both sign fund_mandate and no escrow is   *)
(* used.  Both doors lead to the mandate at the address the investor, the  *)
(* trader and a sequence number give, so an offer can lose its address to  *)
(* the other door; and in between the protocol is paused and unpaused, the *)
(* trader's tier rises and falls, other mandates fill the tier's slots,    *)
(* and strangers send USDC to the escrow.                                  *)
(*                                                                         *)
(* What the mandate does with its capital is in Mandates.                  *)
(***************************************************************************)
EXTENDS Sums

CONSTANTS
    Investors, Traders,
    NOffers,      \* the addresses (investor, trader, seq) are numbered 1..NOffers
    InvestorOf,   \* the investor of each address
    TraderOf,     \* the trader of each address
    Principals,   \* what may be offered or funded
    OfferTerms,   \* rule sets and splits that an offer may carry
    DirectTerms,  \* those of fund_mandate, whose split is the default one
    Wealth,       \* what each investor starts with
    Tiers,        \* TraderTier
    EntryTier,    \* Bronze
    MaxMandate,   \* TraderTier::max_mandate
    MaxActive,    \* TraderTier::max_concurrent_mandates
    MaxDust       \* bound of this model: units strangers send to one escrow

ASSUME MarketplaceAssumption ==
    /\ NOffers \in Nat
    /\ InvestorOf \in [1..NOffers -> Investors]
    /\ TraderOf \in [1..NOffers -> Traders]
    /\ Principals \subseteq Nat \ {0}
    /\ Wealth \in [Investors -> Nat]
    /\ EntryTier \in Tiers
    /\ MaxMandate \in [Tiers -> Nat]
    /\ MaxActive \in [Tiers -> Nat]
    /\ MaxDust \in Nat

Offers == 1..NOffers

VARIABLES
    paused,    \* NoxConfig::paused
    tier,      \* TraderProfile::tier
    active,    \* TraderProfile::active_mandates
    offer,     \* MandateOffer, "none" before post_offer
    escrow,    \* the balance at ["offer_vault", offer]
    mandate,   \* Mandate as it is created, with what arrived in its vault
    wallet,    \* each investor's own USDC
    dust       \* ghost: what strangers sent to each escrow

marketVars == <<paused, tier, active, offer, escrow, mandate, wallet, dust>>

\* The terms are a set: empty before there are any, then one rule set.
NoOffer == [state |-> "none", principal |-> 0, terms |-> {}, expired |-> FALSE]
NoMandate == [state |-> "none", principal |-> 0, terms |-> {}, arrived |-> 0]
NewMandate(principal, terms) ==
    [state |-> "Active", principal |-> principal, terms |-> terms, arrived |-> principal]

OfferStates == {"none", "Open", "Accepted", "Revoked", "Declined"}

MarketTypeOK ==
    /\ paused \in BOOLEAN
    /\ tier \in [Traders -> Tiers]
    /\ active \in [Traders -> Nat]
    /\ offer \in [Offers -> [state : OfferStates, principal : Nat,
                             terms : SUBSET OfferTerms, expired : BOOLEAN]]
    /\ escrow \in [Offers -> Nat]
    /\ mandate \in [Offers -> [state : {"none", "Active", "Settled"}, principal : Nat,
                               terms : SUBSET (OfferTerms \cup DirectTerms), arrived : Nat]]
    /\ wallet \in [Investors -> Nat]
    /\ dust \in [Offers -> Nat]

MarketInit ==
    /\ paused = FALSE
    /\ tier = [t \in Traders |-> EntryTier]
    /\ active = [t \in Traders |-> 0]
    /\ offer = [k \in Offers |-> NoOffer]
    /\ escrow = [k \in Offers |-> 0]
    /\ mandate = [k \in Offers |-> NoMandate]
    /\ wallet = Wealth
    /\ dust = [k \in Offers |-> 0]

-----------------------------------------------------------------------------
(* post_offer: the trader signs nothing, the principal moves now. *)
PostOffer(k, principal, terms) ==
    /\ ~paused
    /\ offer[k] = NoOffer
    /\ wallet[InvestorOf[k]] >= principal
    /\ principal <= MaxMandate[tier[TraderOf[k]]]
    /\ offer' = [offer EXCEPT ![k] = [state |-> "Open", principal |-> principal,
                                      terms |-> {terms}, expired |-> FALSE]]
    /\ wallet' = [wallet EXCEPT ![InvestorOf[k]] = @ - principal]
    /\ escrow' = [escrow EXCEPT ![k] = @ + principal]
    /\ UNCHANGED <<paused, tier, active, mandate, dust>>

(* What revoke_offer checks: neither the pause nor the expiry. *)
Revocable(k) ==
    /\ offer[k].state \in {"Open", "Declined"}
    /\ escrow[k] >= offer[k].principal

RevokeOffer(k) ==
    LET amount == offer[k].principal
    IN  /\ Revocable(k)
        /\ offer' = [offer EXCEPT ![k].state = "Revoked"]
        /\ escrow' = [escrow EXCEPT ![k] = @ - amount]
        /\ wallet' = [wallet EXCEPT ![InvestorOf[k]] = @ + amount]
        /\ UNCHANGED <<paused, tier, active, mandate, dust>>

(* What both doors ask of the trader's tier at the moment capital moves. *)
WithinTier(t, principal) ==
    /\ principal <= MaxMandate[tier[t]]
    /\ active[t] < MaxActive[tier[t]]

(* Mutant: acceptance moves what the escrow holds rather than what the      *)
(* investor committed.                                                      *)
AcceptWholeEscrow(k) ==
    /\ ~paused
    /\ offer[k].state = "Open"
    /\ ~offer[k].expired
    /\ WithinTier(TraderOf[k], escrow[k])
    /\ mandate[k] = NoMandate
    /\ escrow' = [escrow EXCEPT ![k] = 0]
    /\ mandate' = [mandate EXCEPT ![k] = NewMandate(escrow[k], offer[k].terms)]
    /\ active' = [active EXCEPT ![TraderOf[k]] = @ + 1]
    /\ offer' = [offer EXCEPT ![k].state = "Accepted"]
    /\ UNCHANGED <<paused, tier, wallet, dust>>

(* accept_offer: the mandate takes the offer's number, whatever the escrow *)
(* holds by now.                                                           *)
AcceptOffer(k) ==
    LET principal == offer[k].principal
    IN  /\ ~paused
        /\ offer[k].state = "Open"
        /\ ~offer[k].expired
        /\ WithinTier(TraderOf[k], principal)
        /\ mandate[k] = NoMandate
        /\ escrow[k] >= principal
        /\ escrow' = [escrow EXCEPT ![k] = @ - principal]
        /\ mandate' = [mandate EXCEPT ![k] = NewMandate(principal, offer[k].terms)]
        /\ active' = [active EXCEPT ![TraderOf[k]] = @ + 1]
        /\ offer' = [offer EXCEPT ![k].state = "Accepted"]
        /\ UNCHANGED <<paused, tier, wallet, dust>>

(* decline_offer: a message, no money moves. *)
DeclineOffer(k) ==
    /\ offer[k].state = "Open"
    /\ offer' = [offer EXCEPT ![k].state = "Declined"]
    /\ UNCHANGED <<paused, tier, active, escrow, mandate, wallet, dust>>

(* fund_mandate: both sign, no escrow. *)
FundMandate(k, principal, terms) ==
    /\ ~paused
    /\ wallet[InvestorOf[k]] >= principal
    /\ WithinTier(TraderOf[k], principal)
    /\ mandate[k] = NoMandate
    /\ wallet' = [wallet EXCEPT ![InvestorOf[k]] = @ - principal]
    /\ mandate' = [mandate EXCEPT ![k] = NewMandate(principal, {terms})]
    /\ active' = [active EXCEPT ![TraderOf[k]] = @ + 1]
    /\ UNCHANGED <<paused, tier, offer, escrow, dust>>

(* claim_settlement, as the trader's slots see it.  The account stays, so  *)
(* its address is never free again.                                        *)
EndMandate(k) ==
    /\ mandate[k].state = "Active"
    /\ mandate' = [mandate EXCEPT ![k].state = "Settled"]
    /\ active' = [active EXCEPT ![TraderOf[k]] = IF @ > 0 THEN @ - 1 ELSE 0]
    /\ UNCHANGED <<paused, tier, offer, escrow, wallet, dust>>

(* recompute_tier: anyone may ask; what the record earns is in TrackRecord. *)
RecomputeTier(t, earned) ==
    /\ tier[t] # earned
    /\ tier' = [tier EXCEPT ![t] = earned]
    /\ UNCHANGED <<paused, active, offer, escrow, mandate, wallet, dust>>

SetPaused ==
    /\ paused' = ~paused
    /\ UNCHANGED <<tier, active, offer, escrow, mandate, wallet, dust>>

(* Time passes an offer's expires_at; only accept_offer reads it. *)
Expire(k) ==
    /\ offer[k].state = "Open"
    /\ ~offer[k].expired
    /\ offer' = [offer EXCEPT ![k].expired = TRUE]
    /\ UNCHANGED <<paused, tier, active, escrow, mandate, wallet, dust>>

(* A token account takes a transfer from anyone. *)
SendDust(k) ==
    /\ offer[k] # NoOffer
    /\ dust[k] < MaxDust
    /\ dust' = [dust EXCEPT ![k] = @ + 1]
    /\ escrow' = [escrow EXCEPT ![k] = @ + 1]
    /\ UNCHANGED <<paused, tier, active, offer, mandate, wallet>>

MarketNext ==
    \/ \E k \in Offers, p \in Principals, r \in OfferTerms : PostOffer(k, p, r)
    \/ \E k \in Offers : \/ RevokeOffer(k) \/ AcceptOffer(k) \/ DeclineOffer(k)
                         \/ EndMandate(k) \/ Expire(k) \/ SendDust(k)
    \/ \E k \in Offers, p \in Principals, r \in DirectTerms : FundMandate(k, p, r)
    \/ \E t \in Traders, earned \in Tiers : RecomputeTier(t, earned)
    \/ SetPaused

MarketSpec == MarketInit /\ [][MarketNext]_marketVars

-----------------------------------------------------------------------------
Uncommitted(k) == offer[k].state \in {"Open", "Declined"}

InEscrow(k) == IF Uncommitted(k) THEN offer[k].principal ELSE 0

Holdings(i) ==
    [k \in Offers |-> IF InvestorOf[k] = i THEN InEscrow(k) + mandate[k].arrived ELSE 0]

(* Every unit of an investor's capital is in exactly one place: the wallet, *)
(* the escrow of an offer nobody has signed for, or a mandate of that       *)
(* investor; a stranger's dust is in none of these.                         *)
CapitalKept ==
    /\ \A k \in Offers : escrow[k] = InEscrow(k) + dust[k]
    /\ \A i \in Investors : wallet[i] + SumTo(Holdings(i), NOffers) = Wealth[i]

(* A mandate whose offer was accepted has the offer's principal and rules,  *)
(* and no other mandate took that offer's place.                            *)
MandatesAsOffered ==
    \A k \in Offers : offer[k].state = "Accepted" =>
        /\ mandate[k] # NoMandate
        /\ mandate[k].terms = offer[k].terms
        /\ mandate[k].principal = offer[k].principal
        /\ mandate[k].arrived = offer[k].principal

(* A pause, a refusal, an expiry, a demotion, full slots, dust in the       *)
(* escrow or a mandate already at the address: none of them keeps an        *)
(* investor from taking back what no trader has signed for.                 *)
NothingStranded == \A k \in Offers : Uncommitted(k) => Revocable(k)

(* marketplace.rs promises that there is no window in which terms are       *)
(* agreed and money has not moved, and none in which money is stranded.     *)
OfferedCapitalIsSafe == CapitalKept /\ MandatesAsOffered /\ NothingStranded

=============================================================================
