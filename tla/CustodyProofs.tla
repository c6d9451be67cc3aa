---------------------------- MODULE CustodyProofs ----------------------------
(***************************************************************************)
(* Totals and the sums they stand for, for every number of accounts,       *)
(* markets and positions: what the collateral vault holds is exactly what  *)
(* traders are owed (I1), no instruction creates or destroys a unit (I7),  *)
(* shortfalls and referral earnings are booked before they are paid, and   *)
(* open interest and the counters are what the open positions make them    *)
(* (I4).                                                                   *)
(*                                                                         *)
(* Custody looks at one instruction as at what it does to three numbers:   *)
(* what traders are owed, what the protocol holds or has paid out, and     *)
(* what lies in the wallets outside.  FlatInv, at the end, does the same   *)
(* for a market whose price stands still, where the first and the last of  *)
(* these together never grow.                                              *)
(*                                                                         *)
(* The supply of LP shares is a total of the same kind, and what a matured *)
(* exit needs to be paid.                                                  *)
(***************************************************************************)
EXTENDS ClearingProofs, FiniteSetTheorems

Owed == SumTo(free, NUsers) + PositionCollateral + SumTo(fundingBalance, NMarkets)

Held == collateralVault + lpVault + insuranceVault + feeVault
          + totalTreasuryWithdrawn + totalReferralClaimed + totalLiquidatorPaid

Outside == SumTo(traderWallet, NUsers) + SumTo(providerWallet, NProviders) + sponsorWallet

Funded == NUsers * TraderFunds + NProviders * ProviderFunds + SponsorFunds

(* The inductive invariant of custody; the vault's agreement with the      *)
(* program's total is already in IInv.                                     *)
Custody ==
    /\ totalUserCollateral = Owed
    /\ Held + Outside = Funded

-----------------------------------------------------------------------------
LEMMA MoneyInt ==
  ASSUME VaultsTypeOK, TradingTypeOK
  PROVE  /\ SumTo(free, NUsers) \in Int
         /\ PositionCollateral \in Int
         /\ SumTo(fundingBalance, NMarkets) \in Int
         /\ SumTo(traderWallet, NUsers) \in Int
         /\ SumTo(providerWallet, NProviders) \in Int
         /\ Owed \in Int /\ Held \in Int /\ Outside \in Int
<1>1. /\ free \in [1..NUsers -> Int] /\ traderWallet \in [1..NUsers -> Int]
      /\ providerWallet \in [1..NProviders -> Int]
      /\ NUsers \in Nat /\ NProviders \in Nat
  BY PartiesAssumption DEF VaultsTypeOK, Users, Providers
<1>2. /\ [p \in Positions |-> pos[p].collateral] \in [1..NPositions -> Int]
      /\ fundingBalance \in [1..NMarkets -> Int]
      /\ NPositions \in Nat /\ NMarkets \in Nat
  BY BookAssumption DEF TradingTypeOK, Positions, Markets, Position
<1>3. PositionCollateral \in Int
  BY <1>2, SumInt DEF PositionCollateral
<1>4. /\ SumTo(free, NUsers) \in Int /\ SumTo(traderWallet, NUsers) \in Int
      /\ SumTo(providerWallet, NProviders) \in Int /\ SumTo(fundingBalance, NMarkets) \in Int
  BY <1>1, <1>2, SumInt
<1>5. Owed \in Int
  BY <1>3, <1>4 DEF Owed
<1>6. Held \in Int
  BY DEF Held, VaultsTypeOK
<1>7. Outside \in Int
  BY <1>4 DEF Outside, VaultsTypeOK
<1> QED
  BY <1>3, <1>4, <1>5, <1>6, <1>7

(* One account's balance moves by delta, and the sum with it. *)
LEMMA SumMoved ==
  ASSUME NEW n \in Nat, NEW f \in [1..n -> Nat], NEW k \in 1..n, NEW delta \in Int
  PROVE  SumTo([f EXCEPT ![k] = @ + delta], n) = SumTo(f, n) + delta
<1> DEFINE v == f[k] + delta
<1>1. f \in [1..n -> Int] /\ v \in Int /\ f[k] \in Int
  OBVIOUS
<1>2. SumTo(f, n) \in Int
  BY <1>1, SumInt
<1>3. [f EXCEPT ![k] = @ + delta] = [f EXCEPT ![k] = v]
  OBVIOUS
<1> HIDE DEF v
<1>4. SumTo([f EXCEPT ![k] = v], n) = SumTo(f, n) - f[k] + v
  BY <1>1, SumUpdate
<1>5. SumTo(f, n) - f[k] + v = SumTo(f, n) + delta
  BY <1>1, <1>2 DEF v
<1> QED
  BY <1>3, <1>4, <1>5

LEMMA MarginReplaced ==
  ASSUME TradingTypeOK, NEW p \in Positions, NEW v \in Position,
         pos' = [pos EXCEPT ![p] = v]
  PROVE  PositionCollateral' = PositionCollateral - pos[p].collateral + v.collateral
<1> DEFINE f == [i \in 1..NPositions |-> pos[i].collateral]
           g == [i \in 1..NPositions |-> pos'[i].collateral]
           c == v.collateral
<1>1. pos \in [1..NPositions -> Position] /\ p \in 1..NPositions /\ NPositions \in Nat
  BY BookAssumption DEF TradingTypeOK, Positions
<1>2. f \in [1..NPositions -> Int] /\ c \in Int /\ f[p] = pos[p].collateral
  BY <1>1 DEF Position
<1>3. g = [f EXCEPT ![p] = c]
  BY <1>1
<1>4. PositionCollateral = SumTo(f, NPositions)
  BY DEF PositionCollateral, Positions
<1>5. PositionCollateral' = SumTo(g, NPositions)
  BY DEF PositionCollateral, Positions
<1> HIDE DEF f, g, c
<1>6. SumTo([f EXCEPT ![p] = c], NPositions) = SumTo(f, NPositions) - f[p] + c
  BY <1>1, <1>2, SumUpdate
<1> QED
  BY <1>2, <1>3, <1>4, <1>5, <1>6 DEF c

LEMMA DifferenceAdded ==
  ASSUME NEW a \in Int, NEW b \in Int
  PROVE  a + (b - a) = b
  OBVIOUS

(* An instruction that owes traders as much more as the collateral vault   *)
(* gains, and only moves money across the protocol's edge, keeps custody.  *)
LEMMA CustodyKept ==
  ASSUME VaultsTypeOK, TradingTypeOK, Custody,
         Owed' = Owed + (totalUserCollateral' - totalUserCollateral),
         Held' + Outside' = Held + Outside,
         totalUserCollateral' \in Int
  PROVE  Custody'
<1>1. Owed \in Int /\ totalUserCollateral \in Int
  BY MoneyInt DEF VaultsTypeOK
<1>2. totalUserCollateral' = Owed'
  <2>1. Owed = totalUserCollateral
    BY DEF Custody
  <2>2. totalUserCollateral + (totalUserCollateral' - totalUserCollateral) = totalUserCollateral'
    BY <1>1, DifferenceAdded
  <2> QED
    BY <2>1, <2>2
<1>3. Funded' = Funded
  BY DEF Funded
<1> QED
  BY <1>2, <1>3 DEF Custody

(* What is owed and where money lies, when nothing of it is touched. *)
LEMMA OwedFrame ==
  ASSUME UNCHANGED <<free, pos, fundingBalance>>
  PROVE  Owed' = Owed
<1>1. free' = free /\ pos' = pos /\ fundingBalance' = fundingBalance
  OBVIOUS
<1>2. PositionCollateral' = PositionCollateral
  BY <1>1 DEF PositionCollateral
<1>3. /\ SumTo(free', NUsers) = SumTo(free, NUsers)
      /\ SumTo(fundingBalance', NMarkets) = SumTo(fundingBalance, NMarkets)
  BY <1>1
<1> QED
  BY <1>2, <1>3 DEF Owed

LEMMA OutsideFrame ==
  ASSUME UNCHANGED walletVars
  PROVE  Outside' = Outside
  BY DEF Outside, walletVars

LEMMA CustodyFrame ==
  ASSUME Custody, UNCHANGED <<vaultsVars, pos, fundingBalance>>
  PROVE  Custody'
<1>1. UNCHANGED <<free, pos, fundingBalance>> /\ UNCHANGED walletVars
  BY DEF vaultsVars, userVars
<1>2. Owed' = Owed /\ Outside' = Outside
  BY <1>1, OwedFrame, OutsideFrame
<1>3. Held' = Held
  BY DEF Held, vaultsVars, tokenVars, payoutVars
<1>4. totalUserCollateral' = totalUserCollateral /\ Funded' = Funded
  BY DEF Funded, vaultsVars, mirrorVars
<1> QED
  BY <1>2, <1>3, <1>4 DEF Custody

-----------------------------------------------------------------------------
(* settle moves money between vaults and to the liquidator, and no further. *)
LEMMA SettleConserves ==
  ASSUME VaultsTypeOK, NEW alloc \in Allocation, NEW pnl \in Int, NEW referred,
         NEW out \in Nat, NEW reward \in Nat, NEW draw \in Nat,
         SettleWith(alloc, pnl, referred, out, reward, draw),
         UNCHANGED settleFrame
  PROVE  /\ Held' = Held
         /\ totalUserCollateral' = totalUserCollateral + (pnl - AllocTotal(alloc) - out)
         /\ pnl - AllocTotal(alloc) - out \in Int
<1> DEFINE lp == alloc.lp
           tr == alloc.treasury
           ins == alloc.insurance
           ref == alloc.referral
<1>1. lp \in Nat /\ tr \in Nat /\ ins \in Nat /\ ref \in Nat
  BY DEF Allocation
<1>2. AllocTotal(alloc) = lp + tr + ins + ref
  BY DEF AllocTotal
<1>3. /\ collateralVault' = collateralVault - (lp - pnl) - ins - (tr + ref) - out
      /\ lpVault' = lpVault + (lp - pnl) + draw
      /\ insuranceVault' = insuranceVault + ins - reward - draw
      /\ feeVault' = feeVault + (tr + ref)
      /\ totalLiquidatorPaid' = totalLiquidatorPaid + out + reward
      /\ totalUserCollateral' = totalUserCollateral + (pnl - AllocTotal(alloc)) - out
  BY DEF SettleWith
<1>4. /\ totalTreasuryWithdrawn' = totalTreasuryWithdrawn
      /\ totalReferralClaimed' = totalReferralClaimed
  BY DEF settleFrame, payoutVars
<1>5. /\ collateralVault \in Int /\ lpVault \in Int /\ insuranceVault \in Int
      /\ feeVault \in Int /\ totalTreasuryWithdrawn \in Int /\ totalReferralClaimed \in Int
      /\ totalLiquidatorPaid \in Int /\ totalUserCollateral \in Int
  BY DEF VaultsTypeOK
<1> HIDE DEF lp, tr, ins, ref
<1>6. Held' = Held
  BY <1>1, <1>3, <1>4, <1>5 DEF Held
<1>7. pnl - AllocTotal(alloc) - out \in Int /\ AllocTotal(alloc) \in Int
  BY <1>1, <1>2
<1>8. totalUserCollateral' = totalUserCollateral + (pnl - AllocTotal(alloc) - out)
  BY <1>3, <1>5, <1>7
<1> QED
  BY <1>6, <1>7, <1>8

LEMMA TradeCustody ==
  ASSUME VaultsTypeOK, TradingTypeOK, BookSound, Custody, NEW p \in Positions, IsTrade(p)
  PROVE  Custody'
<1>1. PICK v \in Position, alloc \in Allocation, pnl \in Int, out \in Nat, reward \in Nat,
           draw \in Nat, debt \in Nat, freed \in Int, paid \in Int :
        TradeShape(p, v, alloc, pnl, out, reward, draw, debt, freed, paid)
  BY DEF IsTrade
<1> DEFINE u == Owner[p]
           m == MarketOf[p]
           flow == pnl - AllocTotal(alloc) - out
<1>2. u \in 1..NUsers /\ m \in 1..NMarkets /\ pos[p].collateral \in Int /\ v.collateral \in Int
      /\ NUsers \in Nat /\ NMarkets \in Nat
  BY PositionTyped, PartiesAssumption, BookAssumption DEF Users, Markets, Position
<1>3. /\ pos' = [pos EXCEPT ![p] = v]
      /\ free' = [free EXCEPT ![u] = @ + freed]
      /\ fundingBalance' = [fundingBalance EXCEPT ![m] = @ + paid]
      /\ SettleWith(alloc, pnl, u \in Referred, out, reward, draw)
      /\ freed + paid + v.collateral - pos[p].collateral = flow
      /\ UNCHANGED settleFrame
  BY <1>1 DEF TradeShape
<1>4. Held' = Held /\ totalUserCollateral' = totalUserCollateral + flow /\ flow \in Int
  BY <1>3, SettleConserves
<1>5. Outside' = Outside
  BY <1>3, OutsideFrame DEF settleFrame
<1> HIDE DEF u, m, flow
<1>6. SumTo(free', NUsers) = SumTo(free, NUsers) + freed
  <2>1. free \in [1..NUsers -> Nat]
    BY DEF VaultsTypeOK, Users
  <2> QED
    BY <1>2, <1>3, <2>1, SumMoved
<1>7. SumTo(fundingBalance', NMarkets) = SumTo(fundingBalance, NMarkets) + paid
  <2>1. fundingBalance \in [1..NMarkets -> Nat]
    BY DEF TradingTypeOK, Markets
  <2> QED
    BY <1>2, <1>3, <2>1, SumMoved
<1>8. PositionCollateral' = PositionCollateral - pos[p].collateral + v.collateral
  BY <1>3, MarginReplaced
<1>9. Owed' = Owed + flow
  <2>1. Owed' = SumTo(free', NUsers) + PositionCollateral' + SumTo(fundingBalance', NMarkets)
    BY DEF Owed
  <2>2. Owed = SumTo(free, NUsers) + PositionCollateral + SumTo(fundingBalance, NMarkets)
    BY DEF Owed
  <2> DEFINE a == SumTo(free, NUsers)
             b == PositionCollateral
             c == SumTo(fundingBalance, NMarkets)
             x == pos[p].collateral
             y == v.collateral
  <2>3. a \in Int /\ b \in Int /\ c \in Int /\ x \in Int /\ y \in Int
    BY <1>2, MoneyInt
  <2>4. Owed' = (a + freed) + (b - x + y) + (c + paid)
    BY <2>1, <1>6, <1>7, <1>8
  <2>5. freed + paid + y - x = flow
    BY <1>3
  <2> HIDE DEF a, b, c, x, y
  <2>6. Owed' = a + b + c + flow
    BY <2>3, <2>4, <2>5, <1>4
  <2> QED
    BY <2>2, <2>6 DEF a, b, c
<1>10. totalUserCollateral' - totalUserCollateral = flow /\ totalUserCollateral' \in Int
  BY <1>4 DEF VaultsTypeOK
<1> QED
  BY <1>4, <1>5, <1>9, <1>10, CustodyKept

(* Margin moves between a trader's free collateral and a position. *)
LEMMA MarginCustody ==
  ASSUME VaultsTypeOK, TradingTypeOK, BookSound, Custody,
         NEW p \in Positions, NEW v \in Position, NEW delta \in Int,
         pos' = [pos EXCEPT ![p] = v], v.collateral = pos[p].collateral + delta,
         free' = [free EXCEPT ![Owner[p]] = @ + (-delta)],
         UNCHANGED <<tokenVars, mirrorVars, settleFrame, totalLiquidatorPaid, fundingBalance>>
  PROVE  Custody'
<1>1. Owner[p] \in 1..NUsers /\ pos[p].collateral \in Int /\ NUsers \in Nat
  BY PositionTyped, PartiesAssumption DEF Users, Position
<1>2. SumTo(free', NUsers) = SumTo(free, NUsers) + (-delta)
  <2>1. free \in [1..NUsers -> Nat] /\ -delta \in Int
    BY DEF VaultsTypeOK, Users
  <2> QED
    BY <1>1, <2>1, SumMoved
<1>3. PositionCollateral' = PositionCollateral - pos[p].collateral + (pos[p].collateral + delta)
  BY MarginReplaced
<1>4. Owed' = Owed
  <2>1. PositionCollateral' = PositionCollateral + delta
    BY <1>1, <1>3, MoneyInt
  <2> QED
    BY <1>2, <2>1, MoneyInt DEF Owed
<1>5. Held' = Held
  BY DEF Held, tokenVars, settleFrame, payoutVars
<1>6. Outside' = Outside
  BY OutsideFrame DEF settleFrame
<1>7. totalUserCollateral' = totalUserCollateral /\ Funded' = Funded
  BY DEF mirrorVars, Funded
<1> QED
  BY <1>4, <1>5, <1>6, <1>7 DEF Custody

-----------------------------------------------------------------------------
LEMMA InitCustody == Init => Custody
<1> SUFFICES ASSUME Init PROVE Custody
  OBVIOUS
<1>1. NUsers \in Nat /\ NProviders \in Nat /\ NPositions \in Nat /\ NMarkets \in Nat
      /\ TraderFunds \in Nat /\ ProviderFunds \in Nat /\ SponsorFunds \in Nat
  BY PartiesAssumption, BookAssumption
<1>2. SumTo(free, NUsers) = 0
  <2>1. free \in [1..NUsers -> Int] /\ \A u \in 1..NUsers : free[u] = 0
    BY DEF Init, VaultsInit, Users
  <2> QED
    BY <1>1, <2>1, SumZero
<1>3. PositionCollateral = 0
  <2> DEFINE f == [p \in Positions |-> pos[p].collateral]
  <2>1. f \in [1..NPositions -> Int] /\ \A p \in 1..NPositions : f[p] = 0
    BY EmptyPosition DEF Init, TradingInit, Positions
  <2>2. PositionCollateral = SumTo(f, NPositions)
    BY DEF PositionCollateral
  <2> HIDE DEF f
  <2> QED
    BY <1>1, <2>1, <2>2, SumZero
<1>4. SumTo(fundingBalance, NMarkets) = 0
  <2>1. fundingBalance \in [1..NMarkets -> Int] /\ \A m \in 1..NMarkets : fundingBalance[m] = 0
    BY DEF Init, TradingInit, Markets
  <2> QED
    BY <1>1, <2>1, SumZero
<1>5. SumTo(traderWallet, NUsers) = NUsers * TraderFunds
  <2>1. traderWallet = [u \in 1..NUsers |-> TraderFunds]
    BY DEF Init, VaultsInit, Users
  <2>2. TraderFunds \in Int
    BY <1>1
  <2> QED
    BY <1>1, <2>1, <2>2, SumConstant
<1>6. SumTo(providerWallet, NProviders) = NProviders * ProviderFunds
  <2>1. providerWallet = [q \in 1..NProviders |-> ProviderFunds]
    BY DEF Init, VaultsInit, Providers
  <2>2. ProviderFunds \in Int
    BY <1>1
  <2> QED
    BY <1>1, <2>1, <2>2, SumConstant
<1>7. Held = 0 /\ totalUserCollateral = 0 /\ sponsorWallet = SponsorFunds
  BY DEF Init, VaultsInit, Held
<1>8. Owed = 0
  BY <1>2, <1>3, <1>4 DEF Owed
<1>9. Outside = Funded
  BY <1>5, <1>6, <1>7 DEF Outside, Funded
<1>10. Funded \in Int
  <2>1. NUsers * TraderFunds \in Int /\ NProviders * ProviderFunds \in Int
    BY <1>1
  <2> QED
    BY <1>1, <2>1 DEF Funded
<1> QED
  BY <1>7, <1>8, <1>9, <1>10 DEF Custody

-----------------------------------------------------------------------------
(* The instructions that move money across the protocol's edge. *)

(* What a wallet gives, the protocol holds, and the other way round. *)
LEMMA TraderWalletMoved ==
  ASSUME VaultsTypeOK, TradingTypeOK, NEW u \in Users, NEW delta \in Int,
         traderWallet' = [traderWallet EXCEPT ![u] = @ + delta],
         UNCHANGED <<providerWallet, sponsorWallet>>
  PROVE  Outside' = Outside + delta
<1>1. traderWallet \in [1..NUsers -> Nat] /\ u \in 1..NUsers /\ NUsers \in Nat
  BY PartiesAssumption DEF VaultsTypeOK, Users
<1>2. SumTo(traderWallet', NUsers) = SumTo(traderWallet, NUsers) + delta
  BY <1>1, SumMoved
<1>3. SumTo(providerWallet', NProviders) = SumTo(providerWallet, NProviders)
  OBVIOUS
<1>4. sponsorWallet \in Int
  BY DEF VaultsTypeOK
<1> QED
  BY <1>2, <1>3, <1>4, MoneyInt DEF Outside

LEMMA ProviderWalletMoved ==
  ASSUME VaultsTypeOK, TradingTypeOK, NEW q \in Providers, NEW delta \in Int,
         providerWallet' = [providerWallet EXCEPT ![q] = @ + delta],
         UNCHANGED <<traderWallet, sponsorWallet>>
  PROVE  Outside' = Outside + delta
<1>1. providerWallet \in [1..NProviders -> Nat] /\ q \in 1..NProviders /\ NProviders \in Nat
  BY PartiesAssumption DEF VaultsTypeOK, Providers
<1>2. SumTo(providerWallet', NProviders) = SumTo(providerWallet, NProviders) + delta
  BY <1>1, SumMoved
<1>3. SumTo(traderWallet', NUsers) = SumTo(traderWallet, NUsers)
  OBVIOUS
<1>4. sponsorWallet \in Int
  BY DEF VaultsTypeOK
<1> QED
  BY <1>2, <1>3, <1>4, MoneyInt DEF Outside

(* A deposit of amount, or a withdrawal of -amount. *)
LEMMA CollateralMoved ==
  ASSUME VaultsTypeOK, TradingTypeOK, Custody, NEW u \in Users, NEW amount \in Int,
         traderWallet' = [traderWallet EXCEPT ![u] = @ + (-amount)],
         collateralVault' = collateralVault + amount,
         free' = [free EXCEPT ![u] = @ + amount],
         totalUserCollateral' = totalUserCollateral + amount,
         UNCHANGED <<lpVault, insuranceVault, feeVault, providerWallet, sponsorWallet,
                     payoutVars, totalLiquidatorPaid, pos, fundingBalance>>
  PROVE  Custody'
<1>1. -amount \in Int
  OBVIOUS
<1>2. Outside' = Outside + (-amount)
  BY <1>1, TraderWalletMoved
<1>3. Held' = Held + amount
  BY DEF Held, VaultsTypeOK, payoutVars
<1>4. Owed' = Owed + amount
  <2>1. free \in [1..NUsers -> Nat] /\ u \in 1..NUsers /\ NUsers \in Nat
    BY PartiesAssumption DEF VaultsTypeOK, Users
  <2>2. SumTo(free', NUsers) = SumTo(free, NUsers) + amount
    BY <2>1, SumMoved
  <2>3. PositionCollateral' = PositionCollateral
    BY DEF PositionCollateral
  <2>4. SumTo(fundingBalance', NMarkets) = SumTo(fundingBalance, NMarkets)
    OBVIOUS
  <2> QED
    BY <2>2, <2>3, <2>4, MoneyInt DEF Owed
<1>5. totalUserCollateral' - totalUserCollateral = amount /\ totalUserCollateral' \in Int
  BY DEF VaultsTypeOK
<1>6. Held' + Outside' = Held + Outside
  BY <1>2, <1>3, MoneyInt
<1> QED
  BY <1>4, <1>5, <1>6, CustodyKept

LEMMA VaultsCustody ==
  ASSUME VaultsTypeOK, TradingTypeOK, Custody, VaultsNext, UNCHANGED <<pos, fundingBalance>>
  PROVE  Custody'
<1>1. ASSUME NEW u \in Users, NEW amount \in CollateralAmounts, DepositCollateral(u, amount)
      PROVE  Custody'
  <2>1. amount \in Int
    BY AmountsAssumption
  <2>2. traderWallet' = [traderWallet EXCEPT ![u] = @ + (-amount)]
    <3>1. traderWallet' = [traderWallet EXCEPT ![u] = traderWallet[u] - amount]
      BY <1>1 DEF DepositCollateral
    <3>2. traderWallet[u] - amount = traderWallet[u] + (-amount)
      BY <2>1 DEF VaultsTypeOK
    <3> QED
      BY <3>1, <3>2
  <2> QED
    BY <1>1, <2>1, <2>2, CollateralMoved DEF DepositCollateral
<1>2. ASSUME NEW u \in Users, NEW amount \in CollateralAmounts, WithdrawCollateral(u, amount)
      PROVE  Custody'
  <2> DEFINE back == -amount
  <2>1. amount \in Int /\ back \in Int
    BY AmountsAssumption
  <2>2. /\ traderWallet[u] \in Int /\ free[u] \in Int /\ collateralVault \in Int
        /\ totalUserCollateral \in Int
    BY DEF VaultsTypeOK
  <2>3. /\ traderWallet[u] + amount = traderWallet[u] + (-back)
        /\ free[u] - amount = free[u] + back
        /\ collateralVault - amount = collateralVault + back
        /\ totalUserCollateral - amount = totalUserCollateral + back
    BY <2>1, <2>2
  <2>4. /\ traderWallet' = [traderWallet EXCEPT ![u] = traderWallet[u] + amount]
        /\ free' = [free EXCEPT ![u] = free[u] - amount]
        /\ collateralVault' = collateralVault - amount
        /\ totalUserCollateral' = totalUserCollateral - amount
    BY <1>2 DEF WithdrawCollateral
  <2> HIDE DEF back
  <2>5. /\ traderWallet' = [traderWallet EXCEPT ![u] = @ + (-back)]
        /\ free' = [free EXCEPT ![u] = @ + back]
        /\ collateralVault' = collateralVault + back
        /\ totalUserCollateral' = totalUserCollateral + back
    BY <2>3, <2>4
  <2> QED
    BY <1>2, <2>1, <2>5, CollateralMoved DEF WithdrawCollateral
<1>3. ASSUME NEW amount \in SponsorAmounts, DepositInsuranceFund(amount)
      PROVE  Custody'
  <2>1. amount \in Int
    BY AmountsAssumption
  <2>2. Held' = Held + amount
    BY <1>3, <2>1 DEF DepositInsuranceFund, Held, VaultsTypeOK, payoutVars
  <2>3. Outside' = Outside - amount
    <3>1. /\ SumTo(traderWallet', NUsers) = SumTo(traderWallet, NUsers)
          /\ SumTo(providerWallet', NProviders) = SumTo(providerWallet, NProviders)
          /\ sponsorWallet' = sponsorWallet - amount
          /\ sponsorWallet \in Int
      BY <1>3 DEF DepositInsuranceFund, VaultsTypeOK
    <3> QED
      BY <2>1, <3>1, MoneyInt DEF Outside
  <2>4. Owed' = Owed /\ totalUserCollateral' = totalUserCollateral
    BY <1>3, OwedFrame DEF DepositInsuranceFund, userVars
  <2>5. Held' + Outside' = Held + Outside
    BY <2>1, <2>2, <2>3, MoneyInt
  <2> QED
    BY <2>4, <2>5 DEF Custody, Funded
<1>4. ASSUME NEW amount \in PayoutAmounts, WithdrawTreasuryFees(amount) \/ PayReferral(amount)
      PROVE  Custody'
  <2>1. amount \in Int
    BY AmountsAssumption
  <2>2. Held' = Held
    BY <1>4, <2>1 DEF WithdrawTreasuryFees, PayReferral, Held, VaultsTypeOK
  <2>3. Outside' = Outside
    BY <1>4, OutsideFrame DEF WithdrawTreasuryFees, PayReferral
  <2>4. Owed' = Owed /\ totalUserCollateral' = totalUserCollateral
    BY <1>4, OwedFrame DEF WithdrawTreasuryFees, PayReferral, userVars, mirrorVars
  <2> QED
    BY <2>2, <2>3, <2>4 DEF Custody, Funded
<1>5. ASSUME EmergencyPause \/ Unpause
      PROVE  Custody'
  <2>1. Held' = Held
    BY <1>5 DEF EmergencyPause, Unpause, Held, tokenVars, payoutVars
  <2>2. Outside' = Outside
    BY <1>5, OutsideFrame DEF EmergencyPause, Unpause
  <2>3. Owed' = Owed /\ totalUserCollateral' = totalUserCollateral
    BY <1>5, OwedFrame DEF EmergencyPause, Unpause, userVars, mirrorVars
  <2> QED
    BY <2>1, <2>2, <2>3 DEF Custody, Funded
<1> QED
  BY <1>1, <1>2, <1>3, <1>4, <1>5 DEF VaultsNext

LEMMA LpCustody ==
  ASSUME VaultsTypeOK, TradingTypeOK, LpTypeOK, Custody, LpNext,
         UNCHANGED <<pos, fundingBalance>>, VaultsTypeOK'
  PROVE  Custody'
<1>1. PICK q \in Providers :
        \/ \E amount \in LpDeposits : AddLiquidity(q, amount)
        \/ \E amount \in LpRequests : RequestRemoveLiquidity(q, amount)
        \/ CooldownElapses(q)
        \/ CancelRemoveLiquidity(q)
        \/ RemoveLiquidity(q)
        \/ \E to \in Providers, amount \in LpRequests : TransferShares(q, to, amount)
  BY DEF LpNext
<1>2. ASSUME NEW amount \in LpDeposits, AddLiquidity(q, amount)
      PROVE  Custody'
  <2>1. amount \in Int /\ -amount \in Int
    BY LpAssumption
  <2>2. /\ providerWallet' = [providerWallet EXCEPT ![q] = providerWallet[q] - amount]
        /\ lpVault' = lpVault + amount
        /\ UNCHANGED <<lpFrame, feeVault>>
    BY <1>2 DEF AddLiquidity
  <2>3. providerWallet[q] - amount = providerWallet[q] + (-amount)
    BY <2>1 DEF VaultsTypeOK
  <2>4. Outside' = Outside + (-amount)
    BY <2>1, <2>2, <2>3, ProviderWalletMoved DEF lpFrame
  <2>5. Held' = Held + amount
    BY <2>1, <2>2 DEF Held, VaultsTypeOK, lpFrame, payoutVars
  <2>6. Owed' = Owed /\ totalUserCollateral' = totalUserCollateral
    BY <2>2, OwedFrame DEF lpFrame, userVars
  <2>7. Held' + Outside' = Held + Outside
    BY <2>1, <2>4, <2>5, MoneyInt
  <2> QED
    BY <2>6, <2>7 DEF Custody, Funded
<1>3. ASSUME RemoveLiquidity(q)
      PROVE  Custody'
  <2>1. PICK payout \in Nat, perf \in Nat :
          /\ providerWallet' = [providerWallet EXCEPT ![q] = @ + payout]
          /\ lpVault' = lpVault - payout - perf
          /\ feeVault' = feeVault + perf
          /\ UNCHANGED lpFrame
    BY <1>3, RemovalFlows
  <2>2. Outside' = Outside + payout
    <3>1. payout \in Int /\ UNCHANGED <<traderWallet, sponsorWallet>>
      BY <2>1 DEF lpFrame
    <3> QED
      BY <2>1, <3>1, ProviderWalletMoved
  <2>3. Held' = Held - payout
    BY <2>1 DEF Held, VaultsTypeOK, lpFrame, payoutVars
  <2>4. Owed' = Owed /\ totalUserCollateral' = totalUserCollateral
    BY <2>1, OwedFrame DEF lpFrame, userVars
  <2>5. Held' + Outside' = Held + Outside
    BY <2>1, <2>2, <2>3, MoneyInt
  <2> QED
    BY <2>4, <2>5 DEF Custody, Funded
<1>4. ASSUME UNCHANGED vaultsVars
      PROVE  Custody'
  BY <1>4, CustodyFrame
<1> QED
  BY <1>1, <1>2, <1>3, <1>4
     DEF RequestRemoveLiquidity, CooldownElapses, CancelRemoveLiquidity, TransferShares

-----------------------------------------------------------------------------
LEMMA MarginStepCustody ==
  ASSUME VaultsTypeOK, TradingTypeOK, BookSound, Custody, NEW p \in Positions,
         \/ \E a \in Margins : AddPositionCollateral(p, a)
         \/ \E a \in Margins, q \in Quotes : RemovePositionCollateral(p, a, q)
  PROVE  Custody'
<1>1. pos[p] \in Position /\ pos[p].collateral \in Nat /\ Owner[p] \in Users
      /\ free[Owner[p]] \in Nat /\ pos \in [Positions -> Position]
  BY PositionTyped DEF Position, TradingTypeOK, VaultsTypeOK
<1>2. PICK delta \in Int :
        /\ pos' = [pos EXCEPT ![p].collateral = @ + delta]
        /\ pos[p].collateral + delta \in Nat
        /\ free' = [free EXCEPT ![Owner[p]] = @ + (-delta)]
        /\ UNCHANGED <<tokenVars, mirrorVars, settleFrame, totalLiquidatorPaid, fundingBalance>>
  <2>1. ASSUME NEW a \in Margins, AddPositionCollateral(p, a)
        PROVE  /\ a \in Int
               /\ pos' = [pos EXCEPT ![p].collateral = @ + a]
               /\ pos[p].collateral + a \in Nat
               /\ free' = [free EXCEPT ![Owner[p]] = @ + (-a)]
               /\ UNCHANGED <<tokenVars, mirrorVars, settleFrame, totalLiquidatorPaid,
                              fundingBalance>>
    <3>1. a \in Nat
      BY BookAssumption
    <3>2. free[Owner[p]] - a = free[Owner[p]] + (-a)
      BY <1>1, <3>1
    <3>3. free' = [free EXCEPT ![Owner[p]] = free[Owner[p]] - a]
      BY <2>1 DEF AddPositionCollateral
    <3>4. /\ pos' = [pos EXCEPT ![p].collateral = @ + a]
          /\ UNCHANGED <<tokenVars, mirrorVars, settleFrame, totalLiquidatorPaid,
                         fundingBalance>>
      BY <2>1 DEF AddPositionCollateral
    <3>5. a \in Int /\ pos[p].collateral + a \in Nat
      BY <1>1, <3>1
    <3>6. free' = [free EXCEPT ![Owner[p]] = @ + (-a)]
      BY <3>2, <3>3
    <3> QED
      BY <3>4, <3>5, <3>6
  <2>2. ASSUME NEW a \in Margins, NEW q \in Quotes, RemovePositionCollateral(p, a, q)
        PROVE  /\ -a \in Int
               /\ pos' = [pos EXCEPT ![p].collateral = @ + (-a)]
               /\ pos[p].collateral + (-a) \in Nat
               /\ free' = [free EXCEPT ![Owner[p]] = @ + (-(-a))]
               /\ UNCHANGED <<tokenVars, mirrorVars, settleFrame, totalLiquidatorPaid,
                              fundingBalance>>
    <3> DEFINE back == -a
    <3>1. a \in Nat /\ back \in Int
      BY BookAssumption
    <3>2. /\ pos' = [pos EXCEPT ![p].collateral = pos[p].collateral - a]
          /\ pos[p].collateral > a
          /\ free' = [free EXCEPT ![Owner[p]] = free[Owner[p]] + a]
          /\ UNCHANGED <<tokenVars, mirrorVars, settleFrame, totalLiquidatorPaid,
                         fundingBalance>>
      BY <2>2 DEF RemovePositionCollateral
    <3>3. /\ pos[p].collateral - a = pos[p].collateral + back
          /\ pos[p].collateral + back \in Nat
          /\ free[Owner[p]] + a = free[Owner[p]] + (-back)
      BY <1>1, <3>1, <3>2
    <3> HIDE DEF back
    <3>4. /\ pos' = [pos EXCEPT ![p].collateral = @ + back]
          /\ free' = [free EXCEPT ![Owner[p]] = @ + (-back)]
      BY <3>2, <3>3
    <3> QED
      BY <3>1, <3>2, <3>3, <3>4 DEF back
  <2> QED
    BY <2>1, <2>2
<1> DEFINE v == [pos[p] EXCEPT !.collateral = pos[p].collateral + delta]
<1>3. v \in Position /\ v.collateral = pos[p].collateral + delta
  BY <1>1, <1>2 DEF Position
<1>4. pos' = [pos EXCEPT ![p] = v]
  BY <1>1, <1>2
<1> HIDE DEF v
<1> QED
  BY <1>2, <1>3, <1>4, MarginCustody

LEMMA TraderCustody ==
  ASSUME VaultsTypeOK, TradingTypeOK, BookSound, Mirrored, Custody, TraderNext
  PROVE  Custody'
<1>1. PICK p \in Positions :
        \/ \E d \in Directions, size \in Sizes, c \in Margins, q \in Quotes, t \in TierRates :
              OpenPosition(p, d, size, c, q, t)
        \/ \E size \in Sizes, c \in Margins \cup {0}, q \in Quotes, t \in TierRates :
              IncreasePosition(p, size, c, q, t)
        \/ \E delta \in 1..pos[p].size, q \in Quotes, t \in TierRates :
              Reduce(p, delta, q, t)
        \/ \E a \in Margins : AddPositionCollateral(p, a)
        \/ \E a \in Margins, q \in Quotes : RemovePositionCollateral(p, a, q)
  BY DEF TraderNext
<1>2. CASE \E d \in Directions, size \in Sizes, c \in Margins, q \in Quotes, t \in TierRates :
              OpenPosition(p, d, size, c, q, t)
  BY <1>2, OpenPositionStep, TradeCustody
<1>3. CASE \E size \in Sizes, c \in Margins \cup {0}, q \in Quotes, t \in TierRates :
              IncreasePosition(p, size, c, q, t)
  BY <1>3, IncreasePositionStep, TradeCustody
<1>4. CASE \E delta \in 1..pos[p].size, q \in Quotes, t \in TierRates : Reduce(p, delta, q, t)
  BY <1>4, ReduceStep, TradeCustody
<1>5. CASE \/ \E a \in Margins : AddPositionCollateral(p, a)
           \/ \E a \in Margins, q \in Quotes : RemovePositionCollateral(p, a, q)
  BY <1>5, MarginStepCustody
<1> QED
  BY <1>1, <1>2, <1>3, <1>4, <1>5

LEMMA KeeperCustody ==
  ASSUME VaultsTypeOK, TradingTypeOK, BookSound, Mirrored, Custody, KeeperNext
  PROVE  Custody'
<1>1. CASE \E p \in Positions, q \in Quotes : LiquidatePosition(p, q)
  BY <1>1, LiquidatePositionStep, TradeCustody
<1>2. CASE \E p \in Positions, q \in Quotes : AutoDeleverage(p, q)
  BY <1>2, AutoDeleverageStep, TradeCustody
<1>3. CASE \/ \E m \in Markets : CrankFunding(m) \/ HaltMarket(m)
           \/ \E m \in Markets, s \in MarketStatuses : SetMarketStatus(m, s)
  <2>1. UNCHANGED <<vaultsVars, pos, fundingBalance>>
    BY <1>3 DEF CrankFunding, HaltMarket, SetMarketStatus
  <2> QED
    BY <2>1, CustodyFrame
<1> QED
  BY <1>1, <1>2, <1>3 DEF KeeperNext

LEMMA StepCustody == IInv /\ IInv' /\ Custody /\ [Next]_vars => Custody'
<1> SUFFICES ASSUME IInv, IInv', Custody, [Next]_vars PROVE Custody'
  OBVIOUS
<1>1. VaultsTypeOK /\ TradingTypeOK /\ LpTypeOK /\ BookSound /\ Mirrored /\ VaultsTypeOK'
  BY DEF IInv, TypeOK
<1>2. CASE VaultsNext /\ UNCHANGED <<tradingVars, lpVars>>
  BY <1>1, <1>2, VaultsCustody DEF tradingVars
<1>3. CASE TraderNext /\ UNCHANGED lpVars
  BY <1>1, <1>3, TraderCustody
<1>4. CASE KeeperNext /\ UNCHANGED lpVars
  BY <1>1, <1>4, KeeperCustody
<1>5. CASE LpNext /\ UNCHANGED tradingVars
  BY <1>1, <1>5, LpCustody DEF tradingVars
<1>6. CASE UNCHANGED vars
  BY <1>6, CustodyFrame DEF vars, tradingVars
<1> QED
  BY <1>2, <1>3, <1>4, <1>5, <1>6 DEF Next

(* What is owed is what the program's total says, and all that is held is  *)
(* what there was.                                                         *)
THEOREM SpecCustody == Spec => [](IInv /\ Custody)
<1>1. IInv /\ [Next]_vars => IInv'
  BY StepIInv
<1>2. (IInv /\ Custody) /\ [Next]_vars => (IInv /\ Custody)'
  BY <1>1, StepCustody
<1>3. Init => IInv /\ Custody
  BY InitIInv, InitCustody
<1> QED
  BY <1>2, <1>3, PTL DEF Spec

(* I1: the collateral vault holds exactly what traders are owed - free     *)
(* collateral, margin and unclaimed funding - through every instruction,   *)
(* for any number of accounts.                                             *)
THEOREM CollateralAlwaysBacked == Spec => []CollateralBacked
<1>1. IInv /\ Custody => CollateralBacked
  BY DEF IInv, Mirrored, Custody, Owed, CollateralBacked
<1> QED
  BY <1>1, SpecCustody, PTL

(* I7: no instruction creates or destroys a unit of USDC. *)
THEOREM UsdcConserved == Spec => []Conservation
<1>1. IInv /\ Custody => Conservation
  <2> SUFFICES ASSUME IInv, Custody PROVE Conservation
    OBVIOUS
  <2>1. VaultsTypeOK /\ TradingTypeOK
    BY DEF IInv, TypeOK
  <2>2. SumTo(traderWallet, NUsers) \in Int /\ SumTo(providerWallet, NProviders) \in Int
    BY <2>1, MoneyInt
  <2>3. Held + Outside = Funded
    BY DEF Custody
  <2> QED
    BY <2>1, <2>2, <2>3 DEF Conservation, Held, Outside, Funded, VaultsTypeOK
<1> QED
  BY <1>1, SpecCustody, PTL
-----------------------------------------------------------------------------
(* The ledgers of shortfalls and of referral earnings: like custody, each  *)
(* compares a total of the program with a sum over accounts.               *)
Ledgers == BadDebtAccounted /\ ReferralBounded

ledgerVars == <<debtVars, pendingAdl, referralFeesGenerated, totalReferralAccrued,
                totalReferralClaimed>>

LEMMA LedgerFrame ==
  ASSUME Ledgers, UNCHANGED ledgerVars
  PROVE  Ledgers'
<1>1. /\ totalBadDebt' = totalBadDebt /\ totalBadDebtCovered' = totalBadDebtCovered
      /\ pendingAdl' = pendingAdl /\ referralFeesGenerated' = referralFeesGenerated
      /\ totalReferralAccrued' = totalReferralAccrued
      /\ totalReferralClaimed' = totalReferralClaimed
  BY DEF ledgerVars, debtVars
<1>2. BadDebtAccounted'
  BY <1>1 DEF Ledgers, BadDebtAccounted
<1>3. ReferralBounded'
  BY <1>1 DEF Ledgers, ReferralBounded
<1> QED
  BY <1>2, <1>3 DEF Ledgers

LEMMA InitLedgers == Init => Ledgers
<1> SUFFICES ASSUME Init PROVE Ledgers
  OBVIOUS
<1>1. NUsers \in Nat /\ NMarkets \in Nat
  BY PartiesAssumption, BookAssumption
<1>2. SumTo(pendingAdl, NMarkets) = 0
  <2>1. pendingAdl \in [1..NMarkets -> Int] /\ \A m \in 1..NMarkets : pendingAdl[m] = 0
    BY DEF Init, TradingInit, Markets
  <2> QED
    BY <1>1, <2>1, SumZero
<1>3. SumTo(referralFeesGenerated, NUsers) = 0
  <2>1. /\ referralFeesGenerated \in [1..NUsers -> Int]
        /\ \A u \in 1..NUsers : referralFeesGenerated[u] = 0
    BY DEF Init, VaultsInit, Users
  <2> QED
    BY <1>1, <2>1, SumZero
<1> QED
  BY <1>2, <1>3 DEF Init, VaultsInit, Ledgers, BadDebtAccounted, ReferralBounded

(* A trade queues and draws no more than it books as bad debt, and records *)
(* as generated no more than it accrues.                                   *)
LEMMA TradeLedgers ==
  ASSUME VaultsTypeOK, TradingTypeOK, Ledgers, NEW p \in Positions, IsTrade(p)
  PROVE  Ledgers'
<1>1. PICK v \in Position, alloc \in Allocation, pnl \in Int, out \in Nat, reward \in Nat,
           draw \in Nat, debt \in Nat, freed \in Int, paid \in Int :
        TradeShape(p, v, alloc, pnl, out, reward, draw, debt, freed, paid)
  BY DEF IsTrade
<1> DEFINE u == Owner[p]
           m == MarketOf[p]
           share == IF u \in Referred THEN alloc.referral ELSE 0
<1>2. u \in 1..NUsers /\ m \in 1..NMarkets /\ NUsers \in Nat /\ NMarkets \in Nat
  BY PositionTyped, PartiesAssumption, BookAssumption DEF Users, Markets
<1>3. share \in Nat
  BY DEF Allocation
<1>4. /\ totalBadDebt' = totalBadDebt + debt
      /\ totalBadDebtCovered' = totalBadDebtCovered + draw
      /\ totalReferralAccrued' = totalReferralAccrued + share
      /\ totalReferralClaimed' = totalReferralClaimed
  BY <1>1 DEF TradeShape, SettleWith, settleFrame, payoutVars
<1>5. PICK queued \in Int :
        pendingAdl' = [pendingAdl EXCEPT ![m] = @ + queued] /\ queued + draw <= debt
  BY <1>1 DEF TradeShape, Queues
<1>6. PICK earned \in Nat :
        /\ earned <= share
        /\ referralFeesGenerated' = [referralFeesGenerated EXCEPT ![u] = @ + earned]
  BY <1>1 DEF TradeShape, Earns
<1> HIDE DEF u, m, share
<1>7. SumTo(pendingAdl', NMarkets) = SumTo(pendingAdl, NMarkets) + queued
  <2>1. pendingAdl \in [1..NMarkets -> Nat]
    BY DEF TradingTypeOK, Markets
  <2> QED
    BY <1>2, <1>5, <2>1, SumMoved
<1>8. SumTo(referralFeesGenerated', NUsers) = SumTo(referralFeesGenerated, NUsers) + earned
  <2>1. referralFeesGenerated \in [1..NUsers -> Nat] /\ earned \in Int
    BY DEF VaultsTypeOK, Users
  <2> QED
    BY <1>2, <1>6, <2>1, SumMoved
<1>9. /\ SumTo(pendingAdl, NMarkets) \in Int /\ SumTo(referralFeesGenerated, NUsers) \in Int
      /\ totalBadDebt \in Int /\ totalBadDebtCovered \in Int
      /\ totalReferralAccrued \in Int /\ totalReferralClaimed \in Int
  <2>1. pendingAdl \in [1..NMarkets -> Int] /\ referralFeesGenerated \in [1..NUsers -> Int]
    BY DEF VaultsTypeOK, TradingTypeOK, Users, Markets
  <2> QED
    BY <1>2, <2>1, SumInt DEF VaultsTypeOK
<1>10. totalBadDebtCovered' + SumTo(pendingAdl', NMarkets) <= totalBadDebt'
  <2>1. totalBadDebtCovered + SumTo(pendingAdl, NMarkets) <= totalBadDebt
    BY DEF Ledgers, BadDebtAccounted
  <2> QED
    BY <1>4, <1>5, <1>7, <1>9, <2>1
<1>11. /\ SumTo(referralFeesGenerated', NUsers) <= totalReferralAccrued'
       /\ totalReferralClaimed' <= totalReferralAccrued'
  <2>1. /\ SumTo(referralFeesGenerated, NUsers) <= totalReferralAccrued
        /\ totalReferralClaimed <= totalReferralAccrued
    BY DEF Ledgers, ReferralBounded
  <2> QED
    BY <1>3, <1>4, <1>6, <1>8, <1>9, <2>1
<1> QED
  BY <1>10, <1>11 DEF Ledgers, BadDebtAccounted, ReferralBounded

LEMMA VaultsLedgers ==
  ASSUME Ledgers, VaultsNext, UNCHANGED pendingAdl
  PROVE  Ledgers'
<1>1. ASSUME NEW u \in Users, NEW amount \in CollateralAmounts,
             DepositCollateral(u, amount) \/ WithdrawCollateral(u, amount)
      PROVE  Ledgers'
  BY <1>1, LedgerFrame DEF DepositCollateral, WithdrawCollateral, ledgerVars, payoutVars
<1>2. ASSUME NEW amount \in SponsorAmounts, DepositInsuranceFund(amount)
      PROVE  Ledgers'
  BY <1>2, LedgerFrame DEF DepositInsuranceFund, ledgerVars, payoutVars, userVars
<1>3. ASSUME NEW amount \in PayoutAmounts, WithdrawTreasuryFees(amount)
      PROVE  Ledgers'
  BY <1>3, LedgerFrame DEF WithdrawTreasuryFees, ledgerVars, userVars
<1>4. ASSUME NEW amount \in PayoutAmounts, PayReferral(amount)
      PROVE  Ledgers'
  <2>1. /\ totalReferralClaimed' <= totalReferralAccrued'
        /\ totalReferralAccrued' = totalReferralAccrued
        /\ referralFeesGenerated' = referralFeesGenerated
        /\ UNCHANGED <<totalBadDebt, totalBadDebtCovered>>
    BY <1>4 DEF PayReferral, userVars, debtVars
  <2>2. ReferralBounded'
    BY <2>1 DEF Ledgers, ReferralBounded
  <2>3. BadDebtAccounted'
    BY <2>1 DEF Ledgers, BadDebtAccounted
  <2> QED
    BY <2>2, <2>3 DEF Ledgers
<1>5. ASSUME EmergencyPause \/ Unpause
      PROVE  Ledgers'
  BY <1>5, LedgerFrame DEF EmergencyPause, Unpause, ledgerVars, payoutVars, userVars
<1> QED
  BY <1>1, <1>2, <1>3, <1>4, <1>5 DEF VaultsNext

LEMMA LpLedgers ==
  ASSUME Ledgers, LpNext, UNCHANGED pendingAdl
  PROVE  Ledgers'
<1>1. UNCHANGED lpFrame \/ UNCHANGED vaultsVars
  BY DEF LpNext, AddLiquidity, RequestRemoveLiquidity, CooldownElapses,
         CancelRemoveLiquidity, RemoveLiquidity, TransferShares
<1>2. UNCHANGED ledgerVars
  BY <1>1 DEF lpFrame, vaultsVars, ledgerVars, userVars, payoutVars
<1> QED
  BY <1>2, LedgerFrame

LEMMA TraderLedgers ==
  ASSUME VaultsTypeOK, TradingTypeOK, BookSound, Mirrored, Ledgers, TraderNext
  PROVE  Ledgers'
<1>1. PICK p \in Positions :
        \/ \E d \in Directions, size \in Sizes, c \in Margins, q \in Quotes, t \in TierRates :
              OpenPosition(p, d, size, c, q, t)
        \/ \E size \in Sizes, c \in Margins \cup {0}, q \in Quotes, t \in TierRates :
              IncreasePosition(p, size, c, q, t)
        \/ \E delta \in 1..pos[p].size, q \in Quotes, t \in TierRates :
              Reduce(p, delta, q, t)
        \/ \E a \in Margins : AddPositionCollateral(p, a)
        \/ \E a \in Margins, q \in Quotes : RemovePositionCollateral(p, a, q)
  BY DEF TraderNext
<1>2. CASE \E d \in Directions, size \in Sizes, c \in Margins, q \in Quotes, t \in TierRates :
              OpenPosition(p, d, size, c, q, t)
  BY <1>2, OpenPositionStep, TradeLedgers
<1>3. CASE \E size \in Sizes, c \in Margins \cup {0}, q \in Quotes, t \in TierRates :
              IncreasePosition(p, size, c, q, t)
  BY <1>3, IncreasePositionStep, TradeLedgers
<1>4. CASE \E delta \in 1..pos[p].size, q \in Quotes, t \in TierRates : Reduce(p, delta, q, t)
  BY <1>4, ReduceStep, TradeLedgers
<1>5. CASE \/ \E a \in Margins : AddPositionCollateral(p, a)
           \/ \E a \in Margins, q \in Quotes : RemovePositionCollateral(p, a, q)
  <2>1. UNCHANGED ledgerVars
    BY <1>5 DEF AddPositionCollateral, RemovePositionCollateral, ledgerVars, settleFrame,
                payoutVars
  <2> QED
    BY <2>1, LedgerFrame
<1> QED
  BY <1>1, <1>2, <1>3, <1>4, <1>5

LEMMA KeeperLedgers ==
  ASSUME VaultsTypeOK, TradingTypeOK, BookSound, Mirrored, Ledgers, KeeperNext
  PROVE  Ledgers'
<1>1. CASE \E p \in Positions, q \in Quotes : LiquidatePosition(p, q)
  BY <1>1, LiquidatePositionStep, TradeLedgers
<1>2. CASE \E p \in Positions, q \in Quotes : AutoDeleverage(p, q)
  BY <1>2, AutoDeleverageStep, TradeLedgers
<1>3. CASE \/ \E m \in Markets : CrankFunding(m) \/ HaltMarket(m)
           \/ \E m \in Markets, s \in MarketStatuses : SetMarketStatus(m, s)
  <2>1. UNCHANGED <<vaultsVars, pendingAdl>>
    BY <1>3 DEF CrankFunding, HaltMarket, SetMarketStatus
  <2>2. UNCHANGED ledgerVars
    BY <2>1 DEF vaultsVars, ledgerVars, userVars, payoutVars
  <2> QED
    BY <2>2, LedgerFrame
<1> QED
  BY <1>1, <1>2, <1>3 DEF KeeperNext

LEMMA StepLedgers == IInv /\ Ledgers /\ [Next]_vars => Ledgers'
<1> SUFFICES ASSUME IInv, Ledgers, [Next]_vars PROVE Ledgers'
  OBVIOUS
<1>1. VaultsTypeOK /\ TradingTypeOK /\ BookSound /\ Mirrored
  BY DEF IInv, TypeOK
<1>2. CASE VaultsNext /\ UNCHANGED <<tradingVars, lpVars>>
  BY <1>2, VaultsLedgers DEF tradingVars
<1>3. CASE TraderNext /\ UNCHANGED lpVars
  BY <1>1, <1>3, TraderLedgers
<1>4. CASE KeeperNext /\ UNCHANGED lpVars
  BY <1>1, <1>4, KeeperLedgers
<1>5. CASE LpNext /\ UNCHANGED tradingVars
  BY <1>5, LpLedgers DEF tradingVars
<1>6. CASE UNCHANGED vars
  <2>1. UNCHANGED ledgerVars
    BY <1>6 DEF vars, vaultsVars, tradingVars, ledgerVars, userVars, payoutVars
  <2> QED
    BY <2>1, LedgerFrame
<1> QED
  BY <1>2, <1>3, <1>4, <1>5, <1>6 DEF Next

(* The ledgers of bad debt and of referrals hold on every trade.           *)
THEOREM SpecLedgers == Spec => [](IInv /\ Ledgers)
<1>1. (IInv /\ Ledgers) /\ [Next]_vars => (IInv /\ Ledgers)'
  BY StepIInv, StepLedgers
<1>2. Init => IInv /\ Ledgers
  BY InitIInv, InitLedgers
<1> QED
  BY <1>1, <1>2, PTL DEF Spec

(* Whatever insurance covered and whatever still waits for ADL was booked  *)
(* as bad debt first, through every liquidation and deleveraging.          *)
THEOREM BadDebtAlwaysAccounted == Spec => []BadDebtAccounted
<1>1. IInv /\ Ledgers => BadDebtAccounted
  BY DEF Ledgers
<1> QED
  BY <1>1, SpecLedgers, PTL

(* Referral earnings recorded and paid never exceed what was earmarked.    *)
THEOREM ReferralAlwaysBounded == Spec => []ReferralBounded
<1>1. IInv /\ Ledgers => ReferralBounded
  BY DEF Ledgers
<1> QED
  BY <1>1, SpecLedgers, PTL
-----------------------------------------------------------------------------
(* The book.  An instruction sees one position and the counters of its     *)
(* market and owner.  The proof looks at what it does to that position     *)
(* (Booked): the counters move by exactly what the position does, because  *)
(* they hold at least what the position holds, so that no saturating       *)
(* subtraction ever saturates.                                             *)
BookInv ==
    /\ OpenInterestExact
    /\ CountsExact

-----------------------------------------------------------------------------
(* Sums and counts in which one position changes. *)

(* OnSide with the directions given: w and a are what every position holds *)
(* and the direction it has.                                               *)
Holdings(w, a, m, s) ==
    [q \in Positions |-> IF MarketOf[q] = m /\ a[q] = s THEN w[q] ELSE 0]

Side(w, a, m, s) == SumTo(Holdings(w, a, m, s), NPositions)

LEMMA HoldingsTyped ==
  ASSUME NEW w \in [Positions -> Nat], NEW a, NEW m, NEW s
  PROVE  /\ Holdings(w, a, m, s) \in [1..NPositions -> Nat]
         /\ Holdings(w, a, m, s) \in [1..NPositions -> Int]
         /\ NPositions \in Nat
         /\ Side(w, a, m, s) \in Nat
<1>1. /\ Holdings(w, a, m, s) \in [1..NPositions -> Nat]
      /\ Holdings(w, a, m, s) \in [1..NPositions -> Int]
      /\ NPositions \in Nat
  BY BookAssumption DEF Holdings, Positions
<1> QED
  BY <1>1, SumNat DEF Side

(* One term of a sum differs. *)
LEMMA TermMoved ==
  ASSUME NEW n \in Nat, NEW f \in [1..n -> Int], NEW g \in [1..n -> Int], NEW k \in 1..n,
         \A i \in 1..n : i # k => g[i] = f[i]
  PROVE  SumTo(g, n) = SumTo(f, n) + (g[k] - f[k])
<1> DEFINE v == g[k]
<1>1. v \in Int /\ f[k] \in Int
  OBVIOUS
<1>2. g = [f EXCEPT ![k] = v]
  OBVIOUS
<1> HIDE DEF v
<1>3. SumTo(g, n) = SumTo(f, n) - f[k] + v
  <2>1. SumTo([f EXCEPT ![k] = v], n) = SumTo(f, n) - f[k] + v
    BY <1>1, SumUpdate
  <2> QED
    BY <1>2, <2>1
<1>4. SumTo(f, n) \in Int
  BY SumInt
<1> QED
  BY <1>1, <1>3, <1>4 DEF v

(* x is w but for what it says of p. *)
OnlyAt(p, w, x) == \A q \in Positions : q # p => x[q] = w[q]

(* What p holds of w it holds on side d of a. *)
HoldsOn(p, w, a, d) == w[p] = 0 \/ a[p] = d

(* One side of one market moves by what p's holding does, no other moves. *)
OneSideMoves(w, a, x, b, p, d) ==
    \A m \in Markets, s \in Directions :
        Side(x, b, m, s) =
            Side(w, a, m, s) + (IF m = MarketOf[p] /\ s = d THEN x[p] - w[p] ELSE 0)

(* Position p, which holds something on side d at most, changes what it    *)
(* holds: that side of its market moves by as much, and no other.          *)
LEMMA SideMoved ==
  ASSUME NEW w \in [Positions -> Nat], NEW x \in [Positions -> Nat],
         NEW a \in [Positions -> Directions], NEW b \in [Positions -> Directions],
         NEW p \in Positions, NEW d \in Directions,
         OnlyAt(p, w, x), OnlyAt(p, a, b), HoldsOn(p, w, a, d), HoldsOn(p, x, b, d)
  PROVE  OneSideMoves(w, a, x, b, p, d)
<1> SUFFICES ASSUME NEW m \in Markets, NEW s \in Directions
             PROVE  Side(x, b, m, s) =
                       Side(w, a, m, s) + (IF m = MarketOf[p] /\ s = d THEN x[p] - w[p] ELSE 0)
  BY DEF OneSideMoves
<1> DEFINE f == Holdings(w, a, m, s)
           g == Holdings(x, b, m, s)
<1>1. /\ f \in [1..NPositions -> Int] /\ g \in [1..NPositions -> Int]
      /\ NPositions \in Nat /\ p \in 1..NPositions
  BY HoldingsTyped DEF Positions
<1>2. \A i \in 1..NPositions : i # p => g[i] = f[i]
  BY DEF Holdings, Positions, OnlyAt
<1>3. g[p] - f[p] = IF m = MarketOf[p] /\ s = d THEN x[p] - w[p] ELSE 0
  <2>1. w[p] \in Nat /\ x[p] \in Nat
    OBVIOUS
  <2>2. f[p] = IF MarketOf[p] = m /\ a[p] = s THEN w[p] ELSE 0
    BY DEF Holdings
  <2>3. g[p] = IF MarketOf[p] = m /\ b[p] = s THEN x[p] ELSE 0
    BY DEF Holdings
  <2> HIDE DEF f, g
  <2> QED
    BY <2>1, <2>2, <2>3 DEF HoldsOn
<1> HIDE DEF f, g
<1>4. SumTo(g, NPositions) = SumTo(f, NPositions) + (g[p] - f[p])
  BY <1>1, <1>2, TermMoved
<1> QED
  BY <1>3, <1>4 DEF Side, f, g

(* What a position holds is part of its side. *)
LEMMA SideHolds ==
  ASSUME NEW w \in [Positions -> Nat], NEW a, NEW p \in Positions
  PROVE  w[p] <= Side(w, a, MarketOf[p], a[p])
<1> DEFINE f == Holdings(w, a, MarketOf[p], a[p])
<1>1. f \in [1..NPositions -> Nat] /\ NPositions \in Nat /\ p \in 1..NPositions
  BY HoldingsTyped DEF Positions
<1>2. f[p] = w[p]
  BY DEF Holdings
<1> HIDE DEF f
<1>3. f[p] <= SumTo(f, NPositions)
  BY <1>1, SumNat
<1> QED
  BY <1>2, <1>3 DEF Side, f

Bit(size) == IF size > 0 THEN 1 ELSE 0

Counted(w, A) == {q \in A : w[q] > 0}

LEMMA CountedFinite ==
  ASSUME NEW w, NEW A \in SUBSET Positions
  PROVE  /\ IsFiniteSet(Counted(w, A))
         /\ Cardinality(Counted(w, A)) \in Nat
<1>1. IsFiniteSet(Positions)
  BY BookAssumption, FS_Interval DEF Positions
<1>2. Counted(w, A) \in SUBSET Positions
  BY DEF Counted
<1>3. IsFiniteSet(Counted(w, A))
  BY <1>1, <1>2, FS_Subset
<1> QED
  BY <1>3, FS_CardinalityType

(* Position p opens, closes or neither: the count moves by one or not. *)
LEMMA CountMoved ==
  ASSUME NEW w \in [Positions -> Nat], NEW x \in [Positions -> Nat],
         NEW p \in Positions, NEW A \in SUBSET Positions,
         OnlyAt(p, w, x)
  PROVE  Cardinality(Counted(x, A)) =
            Cardinality(Counted(w, A)) + (IF p \in A THEN Bit(x[p]) - Bit(w[p]) ELSE 0)
<1> DEFINE S == Counted(w, A)
           T == Counted(x, A)
<1>1. IsFiniteSet(S) /\ Cardinality(S) \in Nat
  BY CountedFinite
<1>2. /\ p \in S <=> p \in A /\ w[p] > 0
      /\ p \in T <=> p \in A /\ x[p] > 0
      /\ \A q : q # p => (q \in T <=> q \in S)
  BY DEF Counted, OnlyAt
<1> HIDE DEF S, T
<1>3. CASE p \in T /\ p \notin S
  <2>1. T = S \cup {p}
    BY <1>2, <1>3
  <2>2. Cardinality(T) = Cardinality(S) + 1
    BY <1>1, <1>3, <2>1, FS_AddElement
  <2> QED
    BY <1>2, <1>3, <2>2 DEF Bit, S, T
<1>4. CASE p \notin T /\ p \in S
  <2>1. T = S \ {p}
    BY <1>2, <1>4
  <2>2. Cardinality(T) = Cardinality(S) - 1
    BY <1>1, <1>4, <2>1, FS_RemoveElement
  <2>3. p \in A /\ Bit(w[p]) = 1 /\ Bit(x[p]) = 0
    BY <1>2, <1>4 DEF Bit
  <2> QED
    BY <1>1, <2>2, <2>3 DEF S, T
<1>5. CASE p \in T <=> p \in S
  <2>1. T = S
    BY <1>2, <1>5
  <2>2. p \in A => Bit(w[p]) = Bit(x[p]) /\ Bit(w[p]) \in Int
    BY <1>2, <1>5 DEF Bit
  <2> QED
    BY <1>1, <2>1, <2>2 DEF S, T
<1> QED
  BY <1>3, <1>4, <1>5

(* An open position is counted. *)
LEMMA CountHolds ==
  ASSUME NEW w, NEW A \in SUBSET Positions, NEW p \in A, w[p] > 0
  PROVE  Cardinality(Counted(w, A)) >= 1
<1> DEFINE S == Counted(w, A)
<1>1. IsFiniteSet(S) /\ Cardinality(S) \in Nat /\ p \in S
  BY CountedFinite DEF Counted
<1> HIDE DEF S
<1>2. S # {}
  BY <1>1
<1>3. Cardinality(S) # 0
  BY <1>1, <1>2, FS_EmptySet
<1>4. Cardinality(S) >= 1
  BY <1>1, <1>3
<1> QED
  BY <1>4 DEF S

-----------------------------------------------------------------------------
(* The invariant in these terms. *)
Notionals == [q \in Positions |-> pos[q].entryNotional]
Bases == [q \in Positions |-> pos[q].size]
Heading == [q \in Positions |-> pos[q].direction]

OfMarket(m) == {q \in Positions : MarketOf[q] = m}
OfUser(u) == {q \in Positions : Owner[q] = u}

LEMMA SidesNow ==
  OpenInterestExact <=>
      \A m \in Markets, s \in Directions :
          /\ oi[m][s] = Side(Notionals, Heading, m, s)
          /\ baseOi[m][s] = Side(Bases, Heading, m, s)
<1> DEFINE Quote(m, s) == [q \in Positions |->
                 IF MarketOf[q] = m /\ pos[q].direction = s THEN Notionals[q] ELSE 0]
           Base(m, s) == [q \in Positions |->
                 IF MarketOf[q] = m /\ pos[q].direction = s THEN Bases[q] ELSE 0]
<1>1. \A m, s : /\ Quote(m, s) = Holdings(Notionals, Heading, m, s)
                /\ Base(m, s) = Holdings(Bases, Heading, m, s)
  BY DEF Holdings, Heading
<1>2. OpenInterestExact <=>
          \A m \in Markets, s \in Directions :
              /\ oi[m][s] = SumTo(Quote(m, s), NPositions)
              /\ baseOi[m][s] = SumTo(Base(m, s), NPositions)
  BY Zenon DEF OpenInterestExact, OnSide, Notionals, Bases
<1> HIDE DEF Quote, Base
<1> QED
  BY Zenon, <1>1, <1>2 DEF Side

LEMMA SidesNext ==
  OpenInterestExact' <=>
      \A m \in Markets, s \in Directions :
          /\ oi'[m][s] = Side(Notionals', Heading', m, s)
          /\ baseOi'[m][s] = Side(Bases', Heading', m, s)
<1> DEFINE Quote(m, s) == [q \in Positions |->
                 IF MarketOf[q] = m /\ pos'[q].direction = s THEN Notionals'[q] ELSE 0]
           Base(m, s) == [q \in Positions |->
                 IF MarketOf[q] = m /\ pos'[q].direction = s THEN Bases'[q] ELSE 0]
<1>1. \A m, s : /\ Quote(m, s) = Holdings(Notionals', Heading', m, s)
                /\ Base(m, s) = Holdings(Bases', Heading', m, s)
  BY DEF Holdings, Heading
<1>2. OpenInterestExact' <=>
          \A m \in Markets, s \in Directions :
              /\ oi'[m][s] = SumTo(Quote(m, s), NPositions)
              /\ baseOi'[m][s] = SumTo(Base(m, s), NPositions)
  BY Zenon DEF OpenInterestExact, OnSide, Notionals, Bases
<1> HIDE DEF Quote, Base
<1> QED
  BY Zenon, <1>1, <1>2 DEF Side

LEMMA CountsNow ==
  CountsExact <=>
      /\ \A m \in Markets : openCount[m] = Cardinality(Counted(Bases, OfMarket(m)))
      /\ \A u \in Users : openPositions[u] = Cardinality(Counted(Bases, OfUser(u)))
<1>1. ASSUME NEW m
      PROVE  /\ {p \in Positions : MarketOf[p] = m /\ pos[p].size > 0}
                    = Counted(Bases, OfMarket(m))
             /\ {p \in Positions : Owner[p] = m /\ pos[p].size > 0}
                    = Counted(Bases, OfUser(m))
  BY DEF Counted, Bases, OfMarket, OfUser
<1> QED
  BY <1>1 DEF CountsExact, IsOpen

LEMMA CountsNext ==
  CountsExact' <=>
      /\ \A m \in Markets : openCount'[m] = Cardinality(Counted(Bases', OfMarket(m)))
      /\ \A u \in Users : openPositions'[u] = Cardinality(Counted(Bases', OfUser(u)))
<1>1. ASSUME NEW m
      PROVE  /\ {p \in Positions : MarketOf[p] = m /\ pos'[p].size > 0}
                    = Counted(Bases', OfMarket(m))
             /\ {p \in Positions : Owner[p] = m /\ pos'[p].size > 0}
                    = Counted(Bases', OfUser(m))
  BY DEF Counted, Bases, OfMarket, OfUser
<1> QED
  BY <1>1 DEF CountsExact, IsOpen

(* What an instruction does to position p, to its market's counters and to *)
(* its owner's: v is the position afterwards, d the side it is on.         *)
OnBook(r, d) == r = NoPosition \/ r.direction = d

Booked(p, d, v) ==
    /\ pos' = [pos EXCEPT ![p] = v]
    /\ OnBook(pos[p], d) /\ OnBook(v, d)
    /\ oi' = [oi EXCEPT ![MarketOf[p]][d] = @ + (v.entryNotional - pos[p].entryNotional)]
    /\ baseOi' = [baseOi EXCEPT ![MarketOf[p]][d] = @ + (v.size - pos[p].size)]
    /\ openCount' = [openCount EXCEPT ![MarketOf[p]] = @ + (Bit(v.size) - Bit(pos[p].size))]
    /\ openPositions' =
          [openPositions EXCEPT ![Owner[p]] = @ + (Bit(v.size) - Bit(pos[p].size))]

LEMMA BookKept ==
  ASSUME TradingTypeOK, BookInv, NEW p \in Positions, NEW d \in Directions,
         NEW v \in Position, Booked(p, d, v)
  PROVE  BookInv'
<1> DEFINE w  == Notionals
           x  == Notionals'
           wb == Bases
           xb == Bases'
           a  == Heading
           b  == Heading'
<1>1. /\ pos \in [Positions -> Position] /\ pos' \in [Positions -> Position]
      /\ pos'[p] = v /\ \A q \in Positions : q # p => pos'[q] = pos[q]
  BY DEF TradingTypeOK, Booked
<1>2. /\ w \in [Positions -> Nat] /\ x \in [Positions -> Nat]
      /\ wb \in [Positions -> Nat] /\ xb \in [Positions -> Nat]
      /\ a \in [Positions -> Directions] /\ b \in [Positions -> Directions]
  BY <1>1 DEF Notionals, Bases, Heading, Position
<1>3. /\ w[p] = pos[p].entryNotional /\ x[p] = v.entryNotional
      /\ wb[p] = pos[p].size /\ xb[p] = v.size
      /\ a[p] = pos[p].direction /\ b[p] = v.direction
  BY <1>1 DEF Notionals, Bases, Heading
<1>4. OnlyAt(p, w, x) /\ OnlyAt(p, wb, xb) /\ OnlyAt(p, a, b)
  BY <1>1 DEF Notionals, Bases, Heading, OnlyAt
<1>5. /\ HoldsOn(p, w, a, d) /\ HoldsOn(p, x, b, d)
      /\ HoldsOn(p, wb, a, d) /\ HoldsOn(p, xb, b, d)
  BY <1>3 DEF Booked, OnBook, NoPosition, HoldsOn
<1> HIDE DEF w, x, wb, xb, a, b
<1>6. OpenInterestExact /\ CountsExact
  BY DEF BookInv
<1>7. ASSUME NEW m \in Markets, NEW s \in Directions
      PROVE  /\ oi'[m][s] = Side(x, b, m, s)
             /\ baseOi'[m][s] = Side(xb, b, m, s)
  <2>1. /\ oi[m][s] = Side(w, a, m, s) /\ oi[m][s] \in Nat
        /\ baseOi[m][s] = Side(wb, a, m, s) /\ baseOi[m][s] \in Nat
    BY <1>6, SidesNow DEF TradingTypeOK, w, wb, a
  <2>2. /\ Side(x, b, m, s) =
              Side(w, a, m, s) + (IF m = MarketOf[p] /\ s = d THEN x[p] - w[p] ELSE 0)
        /\ Side(xb, b, m, s) =
              Side(wb, a, m, s) + (IF m = MarketOf[p] /\ s = d THEN xb[p] - wb[p] ELSE 0)
    <3>1. OneSideMoves(w, a, x, b, p, d)
      BY <1>2, <1>4, <1>5, SideMoved
    <3>2. OneSideMoves(wb, a, xb, b, p, d)
      BY <1>2, <1>4, <1>5, SideMoved
    <3> QED
      BY <3>1, <3>2 DEF OneSideMoves
  <2>3. /\ oi'[m][s] = IF m = MarketOf[p] /\ s = d
                       THEN oi[m][s] + (x[p] - w[p]) ELSE oi[m][s]
        /\ baseOi'[m][s] = IF m = MarketOf[p] /\ s = d
                           THEN baseOi[m][s] + (xb[p] - wb[p]) ELSE baseOi[m][s]
    BY <1>3 DEF Booked, TradingTypeOK
  <2>4. oi[m][s] + 0 = oi[m][s] /\ baseOi[m][s] + 0 = baseOi[m][s]
    BY <2>1
  <2> QED
    BY <2>1, <2>2, <2>3, <2>4
<1>8. ASSUME NEW m \in Markets
      PROVE  openCount'[m] = Cardinality(Counted(xb, OfMarket(m)))
  <2>1. /\ openCount[m] = Cardinality(Counted(wb, OfMarket(m)))
        /\ openCount[m] \in Nat
    BY <1>6, CountsNow DEF TradingTypeOK, wb
  <2>2. OfMarket(m) \in SUBSET Positions /\ (p \in OfMarket(m) <=> m = MarketOf[p])
    BY DEF OfMarket
  <2>3. Cardinality(Counted(xb, OfMarket(m))) =
            Cardinality(Counted(wb, OfMarket(m)))
              + (IF p \in OfMarket(m) THEN Bit(xb[p]) - Bit(wb[p]) ELSE 0)
    BY <1>2, <1>4, <2>2, CountMoved
  <2>4. openCount'[m] = IF m = MarketOf[p]
                        THEN openCount[m] + (Bit(xb[p]) - Bit(wb[p])) ELSE openCount[m]
    BY <1>3 DEF Booked, TradingTypeOK
  <2>5. openCount[m] + 0 = openCount[m]
    BY <2>1
  <2> QED
    BY <2>1, <2>2, <2>3, <2>4, <2>5
<1>9. ASSUME NEW u \in Users
      PROVE  openPositions'[u] = Cardinality(Counted(xb, OfUser(u)))
  <2>1. /\ openPositions[u] = Cardinality(Counted(wb, OfUser(u)))
        /\ openPositions[u] \in Nat
    BY <1>6, CountsNow DEF TradingTypeOK, wb
  <2>2. OfUser(u) \in SUBSET Positions /\ (p \in OfUser(u) <=> u = Owner[p])
    BY DEF OfUser
  <2>3. Cardinality(Counted(xb, OfUser(u))) =
            Cardinality(Counted(wb, OfUser(u)))
              + (IF p \in OfUser(u) THEN Bit(xb[p]) - Bit(wb[p]) ELSE 0)
    BY <1>2, <1>4, <2>2, CountMoved
  <2>4. openPositions'[u] = IF u = Owner[p]
                            THEN openPositions[u] + (Bit(xb[p]) - Bit(wb[p]))
                            ELSE openPositions[u]
    BY <1>3 DEF Booked, TradingTypeOK
  <2>5. openPositions[u] + 0 = openPositions[u]
    BY <2>1
  <2> QED
    BY <2>1, <2>2, <2>3, <2>4, <2>5
<1>10. OpenInterestExact'
  BY <1>7, SidesNext DEF x, xb, b
<1>11. CountsExact'
  BY <1>8, <1>9, CountsNext DEF xb
<1> QED
  BY <1>10, <1>11 DEF BookInv

-----------------------------------------------------------------------------
(* The counters hold at least what one open position put there, which is   *)
(* why taking it out never saturates.                                      *)
LEMMA AtLeastOwn ==
  ASSUME TradingTypeOK, BookSound, BookInv, NEW p \in Positions, IsOpen(p)
  PROVE  /\ oi[MarketOf[p]][pos[p].direction] >= pos[p].entryNotional
         /\ baseOi[MarketOf[p]][pos[p].direction] >= pos[p].size
         /\ openCount[MarketOf[p]] >= 1
         /\ openPositions[Owner[p]] >= 1
<1>1. /\ pos \in [Positions -> Position] /\ pos[p].direction \in Directions
      /\ MarketOf[p] \in Markets /\ Owner[p] \in Users
  BY PositionTyped DEF TradingTypeOK, Position
<1>2. /\ Notionals \in [Positions -> Nat] /\ Bases \in [Positions -> Nat]
      /\ Notionals[p] = pos[p].entryNotional /\ Bases[p] = pos[p].size
      /\ Heading[p] = pos[p].direction
  BY <1>1 DEF Notionals, Bases, Heading, Position
<1>3. /\ Notionals[p] <= Side(Notionals, Heading, MarketOf[p], Heading[p])
      /\ Bases[p] <= Side(Bases, Heading, MarketOf[p], Heading[p])
  BY <1>2, SideHolds
<1>4. /\ oi[MarketOf[p]][pos[p].direction] = Side(Notionals, Heading, MarketOf[p], Heading[p])
      /\ baseOi[MarketOf[p]][pos[p].direction] = Side(Bases, Heading, MarketOf[p], Heading[p])
  BY <1>1, <1>2, SidesNow DEF BookInv
<1>5. /\ oi[MarketOf[p]][pos[p].direction] \in Nat
      /\ baseOi[MarketOf[p]][pos[p].direction] \in Nat
      /\ pos[p].entryNotional \in Nat /\ pos[p].size \in Nat
  BY <1>1 DEF TradingTypeOK, Position
<1>6. /\ OfMarket(MarketOf[p]) \in SUBSET Positions /\ p \in OfMarket(MarketOf[p])
      /\ OfUser(Owner[p]) \in SUBSET Positions /\ p \in OfUser(Owner[p])
      /\ Bases[p] > 0
  BY <1>2 DEF OfMarket, OfUser, IsOpen
<1>7. openCount[MarketOf[p]] >= 1
  BY <1>1, <1>6, CountHolds, CountsNow DEF BookInv
<1>8. openPositions[Owner[p]] >= 1
  BY <1>1, <1>6, CountHolds, CountsNow DEF BookInv
<1> QED
  BY <1>2, <1>3, <1>4, <1>5, <1>7, <1>8

(* A position without size is empty. *)
LEMMA ClosedIsEmpty ==
  ASSUME TradingTypeOK, BookSound, NEW p \in Positions, ~ IsOpen(p)
  PROVE  pos[p] = NoPosition
  BY PositionTyped DEF Secured, IsOpen

LEMMA OpenPositionBooked ==
  ASSUME TradingTypeOK, BookSound, TradingTypeOK', BookInv,
         NEW p \in Positions, NEW d \in Directions, NEW size \in Sizes,
         NEW collateral \in Margins, NEW quote \in Quotes, NEW tierRate \in TierRates,
         OpenPosition(p, d, size, collateral, quote, tierRate)
  PROVE  BookInv'
<1> DEFINE m == MarketOf[p]
           v == pos'[p]
           exec == ExecPrice(m, size, Resolve(d, "Open"), quote)
           notional == NotionalInQuote(size, exec)
<1>1. /\ pos' = [pos EXCEPT ![p] =
              [direction |-> d, size |-> size, collateral |-> collateral,
               entryPrice |-> exec, entryNotional |-> notional,
               fundingEntry |-> fundingIndex[m][d], borrowEntry |-> borrowIndex[m]]]
      /\ AddOpenInterest(m, d, notional, size)
      /\ openCount' = [openCount EXCEPT ![m] = @ + 1]
      /\ openPositions' = [openPositions EXCEPT ![Owner[p]] = @ + 1]
      /\ ~ IsOpen(p)
  BY DEF OpenPosition
<1> HIDE DEF exec, notional
<1>2. v \in Position /\ pos \in [Positions -> Position]
  BY DEF TradingTypeOK
<1>3. v.direction = d /\ v.size = size /\ v.entryNotional = notional
  BY <1>1, <1>2
<1>4. pos[p] = NoPosition /\ NoPosition.size = 0 /\ NoPosition.entryNotional = 0
  BY <1>1, ClosedIsEmpty, EmptyPosition
<1>5. size \in Nat /\ size > 0 /\ notional \in Nat
  BY <1>2, <1>3, BookAssumption DEF Position
<1>6. /\ v.entryNotional - pos[p].entryNotional = notional
      /\ v.size - pos[p].size = size
      /\ Bit(v.size) - Bit(pos[p].size) = 1
  BY <1>3, <1>4, <1>5 DEF Bit
<1>7. pos' = [pos EXCEPT ![p] = v] /\ OnBook(pos[p], d) /\ OnBook(v, d)
  BY <1>1, <1>2, <1>3, <1>4 DEF OnBook
<1> HIDE DEF v
<1>8. Booked(p, d, v)
  BY <1>1, <1>6, <1>7 DEF Booked, AddOpenInterest
<1> QED
  BY <1>2, <1>8, BookKept

LEMMA IncreasePositionBooked ==
  ASSUME TradingTypeOK, BookSound, TradingTypeOK', BookInv,
         NEW p \in Positions, NEW size \in Sizes, NEW collateral \in Margins \cup {0},
         NEW quote \in Quotes, NEW tierRate \in TierRates,
         IncreasePosition(p, size, collateral, quote, tierRate)
  PROVE  BookInv'
<1> DEFINE m == MarketOf[p]
           r == pos[p]
           v == pos'[p]
           d == r.direction
           exec == ExecPrice(m, size, Resolve(r.direction, "Open"), quote)
           added == NotionalInQuote(size, exec)
<1>1. /\ pos' = [pos EXCEPT ![p] =
              [r EXCEPT !.size = @ + size,
                        !.collateral = @ + collateral,
                        !.entryNotional = @ + added,
                        !.entryPrice =
                            WeightedEntryPrice(r.size, @, size, exec, r.direction)]]
      /\ AddOpenInterest(m, d, added, size)
      /\ UNCHANGED <<openCount, openPositions>>
      /\ r.size > 0
  BY DEF IncreasePosition, IsOpen
<1>2. added \in Int
  <2>1. CanExecute(m, size, Resolve(r.direction, "Open"), quote)
    BY DEF IncreasePosition
  <2>2. m \in Markets /\ size \in Nat /\ Resolve(r.direction, "Open") \in {"Buy", "Sell"}
    BY PositionTyped, ResolveSide, BookAssumption
  <2>3. exec \in Nat
    BY <2>1, <2>2, ExecPriceNat
  <2> QED
    BY <2>2, <2>3, NotionalNat
<1> HIDE DEF exec, added
<1>3. v \in Position /\ r \in Position /\ pos \in [Positions -> Position]
  BY DEF TradingTypeOK
<1>4. v.direction = d /\ v.size = r.size + size /\ v.entryNotional = r.entryNotional + added
  BY <1>1, <1>3 DEF Position
<1>5. /\ size \in Nat /\ size > 0 /\ d \in Directions
      /\ r.size \in Nat /\ r.entryNotional \in Nat /\ m \in Markets
  BY <1>3, BookAssumption DEF Position
<1>6. /\ v.entryNotional - r.entryNotional = added
      /\ v.size - r.size = size
      /\ Bit(v.size) - Bit(r.size) = 0
  BY <1>1, <1>2, <1>4, <1>5 DEF Bit
<1>7. pos' = [pos EXCEPT ![p] = v] /\ OnBook(r, d) /\ OnBook(v, d)
  BY <1>1, <1>3, <1>4 DEF OnBook
<1>8. /\ openCount' = [openCount EXCEPT ![m] = @ + 0]
      /\ openPositions' = [openPositions EXCEPT ![Owner[p]] = @ + 0]
  BY <1>1, <1>5, BookAssumption DEF TradingTypeOK
<1> HIDE DEF v, r
<1>9. Booked(p, d, v)
  BY <1>1, <1>6, <1>7, <1>8 DEF Booked, AddOpenInterest, r
<1> QED
  BY <1>3, <1>5, <1>9, BookKept

(* A reduction takes out of the counters what it takes out of the position, *)
(* and that is all of it when the position is closed.                      *)
LEMMA ReduceBooked ==
  ASSUME TradingTypeOK, BookSound, TradingTypeOK', BookInv,
         NEW p \in Positions, NEW delta \in 1..pos[p].size,
         NEW quote \in Quotes, NEW tierRate \in TierRates,
         Reduce(p, delta, quote, tierRate)
  PROVE  BookInv'
<1> DEFINE m == MarketOf[p]
           r == AfterCarry(pos[p], m)
           v == pos'[p]
           d == pos[p].direction
           full == delta = r.size
           closed == IF full THEN r.entryNotional ELSE MulDivFloor(r.entryNotional, delta, r.size)
           released == IF full THEN r.collateral ELSE MulDivFloor(r.collateral, delta, r.size)
<1>1. /\ RemoveOpenInterest(m, r.direction, closed, delta)
      /\ pos' = [pos EXCEPT ![p] =
              IF full THEN NoPosition
              ELSE [r EXCEPT !.size = @ - delta,
                             !.collateral = @ - released,
                             !.entryNotional = @ - closed]]
      /\ openCount' = [openCount EXCEPT ![m] = SatSub(@, IF full THEN 1 ELSE 0)]
      /\ openPositions' = [openPositions EXCEPT ![Owner[p]] = SatSub(@, IF full THEN 1 ELSE 0)]
  BY DEF Reduce
<1>2. /\ pos[p] \in Position /\ m \in Markets /\ Owner[p] \in Users
      /\ pos[p].borrowEntry <= borrowIndex[m]
      /\ pos \in [Positions -> Position] /\ v \in Position
  BY PositionTyped DEF TradingTypeOK
<1>3. /\ r \in Position /\ r.size = pos[p].size /\ r.direction = d
      /\ r.entryNotional = pos[p].entryNotional
  BY <1>2, CarrySettles
<1> HIDE DEF r, released
<1>4. /\ d \in Directions /\ pos[p].size \in Nat /\ pos[p].entryNotional \in Nat
      /\ delta \in Nat /\ delta > 0 /\ delta <= pos[p].size
  BY <1>2 DEF Position
<1>5. closed \in Nat /\ closed <= pos[p].entryNotional
  <2>1. CASE full
    BY <1>3, <1>4, <2>1
  <2>2. CASE ~ full
    <3>1. delta < r.size /\ r.size \in Nat \ {0}
      BY <1>3, <1>4, <2>2
    <3>2. MulDivFloor(r.entryNotional, delta, r.size) \in Nat
      BY <1>3, <1>4, <3>1, FloorShare
    <3>3. r.entryNotional > 0
      <4>1. Secured(pos[p]) /\ pos[p] # NoPosition
        BY <1>4, PositionTyped, EmptyPosition
      <4> QED
        BY <1>3, <4>1 DEF Secured
    <3>4. MulDivFloor(r.entryNotional, delta, r.size) < r.entryNotional
      BY <1>3, <1>4, <3>1, <3>3, FloorBelow
    <3> QED
      BY <1>3, <1>4, <2>2, <3>2, <3>4
  <2> QED
    BY <2>1, <2>2
<1> HIDE DEF closed
<1>6. /\ v.size = pos[p].size - delta
      /\ v.entryNotional = pos[p].entryNotional - closed
      /\ OnBook(v, d) /\ OnBook(pos[p], d)
      /\ pos' = [pos EXCEPT ![p] = v]
  <2>1. v = IF full THEN NoPosition
              ELSE [r EXCEPT !.size = @ - delta,
                             !.collateral = @ - released,
                             !.entryNotional = @ - closed]
    BY <1>1, <1>2
  <2>2. pos' = [pos EXCEPT ![p] = v]
    BY <1>1, <1>2
  <2>3. CASE full
    <3>1. closed = pos[p].entryNotional /\ delta = pos[p].size
      BY <1>3, <2>3 DEF closed
    <3>2. v = NoPosition /\ v.size = 0 /\ v.entryNotional = 0
      BY <2>1, <2>3, EmptyPosition
    <3> QED
      BY <1>4, <2>2, <3>1, <3>2 DEF OnBook
  <2>4. CASE ~ full
    <3>1. /\ v.size = r.size - delta /\ v.entryNotional = r.entryNotional - closed
          /\ v.direction = r.direction
      BY <1>3, <2>1, <2>4 DEF Position
    <3> QED
      BY <1>3, <2>2, <3>1 DEF OnBook
  <2> QED
    BY <2>3, <2>4
<1>7. IsOpen(p) /\ pos[p].size > 0
  BY <1>4 DEF IsOpen
<1>8. /\ oi[m][d] >= pos[p].entryNotional /\ baseOi[m][d] >= pos[p].size
      /\ openCount[m] >= 1 /\ openPositions[Owner[p]] >= 1
      /\ oi[m][d] \in Nat /\ baseOi[m][d] \in Nat
      /\ openCount[m] \in Nat /\ openPositions[Owner[p]] \in Nat
  BY <1>2, <1>4, <1>7, AtLeastOwn DEF TradingTypeOK
<1>9. /\ SatSub(oi[m][d], closed) = oi[m][d] + (v.entryNotional - pos[p].entryNotional)
      /\ baseOi[m][d] - delta = baseOi[m][d] + (v.size - pos[p].size)
  BY <1>4, <1>5, <1>6, <1>8 DEF SatSub, Greater
<1>10. Bit(v.size) - Bit(pos[p].size) = IF full THEN -1 ELSE 0
  BY <1>3, <1>4, <1>6, <1>7 DEF Bit
<1>11. /\ SatSub(openCount[m], IF full THEN 1 ELSE 0)
              = openCount[m] + (Bit(v.size) - Bit(pos[p].size))
       /\ SatSub(openPositions[Owner[p]], IF full THEN 1 ELSE 0)
              = openPositions[Owner[p]] + (Bit(v.size) - Bit(pos[p].size))
  BY <1>8, <1>10 DEF SatSub, Greater
<1> HIDE DEF full, v
<1>12. Booked(p, d, v)
  <2>1. /\ oi' = [oi EXCEPT ![m][d] = SatSub(@, closed)]
        /\ baseOi' = [baseOi EXCEPT ![m][d] = @ - delta]
    BY <1>1, <1>3 DEF RemoveOpenInterest
  <2>2. /\ oi' = [oi EXCEPT ![m][d] = @ + (v.entryNotional - pos[p].entryNotional)]
        /\ baseOi' = [baseOi EXCEPT ![m][d] = @ + (v.size - pos[p].size)]
    BY <1>9, <2>1
  <2>3. /\ openCount' = [openCount EXCEPT ![m] = @ + (Bit(v.size) - Bit(pos[p].size))]
        /\ openPositions' =
              [openPositions EXCEPT ![Owner[p]] = @ + (Bit(v.size) - Bit(pos[p].size))]
    BY <1>1, <1>11
  <2> QED
    BY <1>6, <2>2, <2>3 DEF Booked
<1> QED
  BY <1>2, <1>4, <1>12, BookKept

(* A position closed out by a liquidation or by ADL leaves the counters    *)
(* with what it had put there.                                             *)
LEMMA CloseOutBooked ==
  ASSUME TradingTypeOK, BookSound, TradingTypeOK', BookInv,
         NEW p \in Positions, IsOpen(p),
         CloseOut(p, AfterFunding(AfterCarry(pos[p], MarketOf[p]), MarketOf[p]), MarketOf[p])
  PROVE  BookInv'
<1> DEFINE m == MarketOf[p]
           r == AfterFunding(AfterCarry(pos[p], m), m)
           d == pos[p].direction
           n == pos[p].entryNotional
           b == pos[p].size
<1>1. r.size = b /\ r.direction = d /\ r.entryNotional = n /\ m \in Markets
  BY CostsSettle
<1>2. /\ pos[p] \in Position /\ Owner[p] \in Users /\ d \in Directions
      /\ n \in Nat /\ b \in Nat /\ b > 0
      /\ pos \in [Positions -> Position]
  BY PositionTyped DEF TradingTypeOK, Position, IsOpen
<1> HIDE DEF r
<1>3. /\ oi' = [oi EXCEPT ![m][d] = SatSub(@, n)]
      /\ baseOi' = [baseOi EXCEPT ![m][d] = @ - b]
      /\ openCount' = [openCount EXCEPT ![m] = SatSub(@, 1)]
      /\ openPositions' = [openPositions EXCEPT ![Owner[p]] = SatSub(@, 1)]
      /\ pos' = [pos EXCEPT ![p] = NoPosition]
  BY <1>1 DEF CloseOut, RemoveOpenInterest, r
<1>4. /\ oi[m][d] >= n /\ baseOi[m][d] >= b
      /\ openCount[m] >= 1 /\ openPositions[Owner[p]] >= 1
      /\ oi[m][d] \in Nat /\ baseOi[m][d] \in Nat
      /\ openCount[m] \in Nat /\ openPositions[Owner[p]] \in Nat
  BY <1>1, <1>2, AtLeastOwn DEF TradingTypeOK
<1>5. /\ NoPosition \in Position /\ NoPosition.size = 0 /\ NoPosition.entryNotional = 0
      /\ OnBook(NoPosition, d) /\ OnBook(pos[p], d)
  BY EmptyPosition DEF OnBook
<1>6. /\ SatSub(oi[m][d], n) = oi[m][d] + (0 - n)
      /\ baseOi[m][d] - b = baseOi[m][d] + (0 - b)
      /\ SatSub(openCount[m], 1) = openCount[m] + (Bit(0) - Bit(b))
      /\ SatSub(openPositions[Owner[p]], 1) = openPositions[Owner[p]] + (Bit(0) - Bit(b))
  BY <1>2, <1>4 DEF SatSub, Greater, Bit
<1>7. Booked(p, d, NoPosition)
  <2>1. /\ oi' = [oi EXCEPT ![m][d] = @ + (0 - n)]
        /\ baseOi' = [baseOi EXCEPT ![m][d] = @ + (0 - b)]
    BY <1>3, <1>6
  <2>2. /\ openCount' = [openCount EXCEPT ![m] = @ + (Bit(0) - Bit(b))]
        /\ openPositions' = [openPositions EXCEPT ![Owner[p]] = @ + (Bit(0) - Bit(b))]
    BY <1>3, <1>6
  <2> QED
    BY <1>3, <1>5, <2>1, <2>2 DEF Booked
<1> QED
  BY <1>2, <1>5, <1>7, BookKept

(* Adding nothing to one side of one market changes nothing. *)
LEMMA SideUntouched ==
  ASSUME NEW f \in [Markets -> [Directions -> Nat]], NEW m \in Markets, NEW d \in Directions
  PROVE  f = [f EXCEPT ![m][d] = @ + 0]
<1>1. f[m] \in [Directions -> Nat] /\ f[m][d] + 0 = f[m][d]
  OBVIOUS
<1>2. [f[m] EXCEPT ![d] = f[m][d] + 0] = f[m]
  BY <1>1
<1> QED
  BY <1>1, <1>2

(* Margin moves, and the book with it does not. *)
LEMMA MarginBooked ==
  ASSUME TradingTypeOK, BookSound, TradingTypeOK', BookInv, NEW p \in Positions,
         NEW c, pos' = [pos EXCEPT ![p].collateral = c], IsOpen(p), UNCHANGED bookVars
  PROVE  BookInv'
<1> DEFINE v == pos'[p]
<1>1. /\ pos[p] \in Position /\ pos \in [Positions -> Position] /\ v \in Position
      /\ MarketOf[p] \in Markets /\ Owner[p] \in Users
  BY PositionTyped DEF TradingTypeOK
<1>2. /\ pos' = [pos EXCEPT ![p] = v]
      /\ v.direction = pos[p].direction /\ v.size = pos[p].size
      /\ v.entryNotional = pos[p].entryNotional
  BY <1>1 DEF Position
<1>3. /\ pos[p].direction \in Directions /\ pos[p].size \in Nat /\ pos[p].entryNotional \in Nat
      /\ Bit(pos[p].size) \in Int
  BY <1>1 DEF Position, Bit
<1> HIDE DEF v
<1>4. /\ v.entryNotional - pos[p].entryNotional = 0
      /\ v.size - pos[p].size = 0
      /\ Bit(v.size) - Bit(pos[p].size) = 0
  BY <1>2, <1>3
<1>5. /\ oi' = oi /\ baseOi' = baseOi /\ openCount' = openCount
      /\ openPositions' = openPositions
  BY DEF bookVars
<1>6. /\ oi' = [oi EXCEPT ![MarketOf[p]][pos[p].direction] = @ + 0]
      /\ baseOi' = [baseOi EXCEPT ![MarketOf[p]][pos[p].direction] = @ + 0]
  <2> DEFINE n == MarketOf[p]
             d == pos[p].direction
  <2>1. /\ oi \in [Markets -> [Directions -> Nat]]
        /\ baseOi \in [Markets -> [Directions -> Nat]]
        /\ n \in Markets /\ d \in Directions
    BY <1>1, <1>3 DEF TradingTypeOK
  <2> HIDE DEF n, d
  <2>2. oi = [oi EXCEPT ![n][d] = @ + 0] /\ baseOi = [baseOi EXCEPT ![n][d] = @ + 0]
    BY <2>1, SideUntouched
  <2> QED
    BY <1>5, <2>2 DEF n, d
<1>7. /\ openCount' = [openCount EXCEPT ![MarketOf[p]] = @ + 0]
      /\ openPositions' = [openPositions EXCEPT ![Owner[p]] = @ + 0]
  BY <1>1, <1>5 DEF TradingTypeOK
<1>8. OnBook(pos[p], pos[p].direction) /\ OnBook(v, pos[p].direction)
  BY <1>2 DEF OnBook
<1>9. Booked(p, pos[p].direction, v)
  BY <1>2, <1>4, <1>6, <1>7, <1>8 DEF Booked
<1> QED
  BY <1>1, <1>3, <1>9, BookKept

LEMMA StillBooked ==
  ASSUME BookInv, UNCHANGED <<pos, bookVars>>
  PROVE  BookInv'
<1>1. /\ pos' = pos /\ oi' = oi /\ baseOi' = baseOi
      /\ openCount' = openCount /\ openPositions' = openPositions
  BY DEF bookVars
<1>2. Notionals' = Notionals /\ Bases' = Bases /\ Heading' = Heading
  BY <1>1 DEF Notionals, Bases, Heading
<1>3. OpenInterestExact'
  BY <1>1, <1>2, SidesNow, SidesNext DEF BookInv
<1>4. CountsExact'
  BY <1>1, <1>2, CountsNow, CountsNext DEF BookInv
<1> QED
  BY <1>3, <1>4 DEF BookInv

-----------------------------------------------------------------------------
LEMMA TraderBooked ==
  ASSUME TradingTypeOK, BookSound, TradingTypeOK', BookInv, TraderNext
  PROVE  BookInv'
<1>1. PICK p \in Positions :
        \/ \E d \in Directions, size \in Sizes, c \in Margins, q \in Quotes, t \in TierRates :
              OpenPosition(p, d, size, c, q, t)
        \/ \E size \in Sizes, c \in Margins \cup {0}, q \in Quotes, t \in TierRates :
              IncreasePosition(p, size, c, q, t)
        \/ \E delta \in 1..pos[p].size, q \in Quotes, t \in TierRates :
              Reduce(p, delta, q, t)
        \/ \E a \in Margins : AddPositionCollateral(p, a)
        \/ \E a \in Margins, q \in Quotes : RemovePositionCollateral(p, a, q)
  BY DEF TraderNext
<1>2. CASE \E d \in Directions, size \in Sizes, c \in Margins, q \in Quotes, t \in TierRates :
              OpenPosition(p, d, size, c, q, t)
  BY <1>2, OpenPositionBooked
<1>3. CASE \E size \in Sizes, c \in Margins \cup {0}, q \in Quotes, t \in TierRates :
              IncreasePosition(p, size, c, q, t)
  BY <1>3, IncreasePositionBooked
<1>4. CASE \E delta \in 1..pos[p].size, q \in Quotes, t \in TierRates : Reduce(p, delta, q, t)
  BY <1>4, ReduceBooked
<1>5. ASSUME NEW a \in Margins, AddPositionCollateral(p, a)
      PROVE  BookInv'
  <2>1. /\ pos' = [pos EXCEPT ![p].collateral = pos[p].collateral + a]
        /\ IsOpen(p) /\ UNCHANGED bookVars
    BY <1>5 DEF AddPositionCollateral
  <2> QED
    BY <2>1, MarginBooked
<1>6. ASSUME NEW a \in Margins, NEW q \in Quotes, RemovePositionCollateral(p, a, q)
      PROVE  BookInv'
  <2>1. /\ pos' = [pos EXCEPT ![p].collateral = pos[p].collateral - a]
        /\ IsOpen(p) /\ UNCHANGED bookVars
    BY <1>6 DEF RemovePositionCollateral
  <2> QED
    BY <2>1, MarginBooked
<1> QED
  BY <1>1, <1>2, <1>3, <1>4, <1>5, <1>6

LEMMA KeeperBooked ==
  ASSUME TradingTypeOK, BookSound, TradingTypeOK', BookInv, KeeperNext
  PROVE  BookInv'
<1>1. ASSUME NEW p \in Positions, NEW q \in Quotes, LiquidatePosition(p, q)
      PROVE  BookInv'
  <2>1. /\ CloseOut(p, AfterFunding(AfterCarry(pos[p], MarketOf[p]), MarketOf[p]), MarketOf[p])
        /\ IsOpen(p)
    BY <1>1, Zenon DEF LiquidatePosition
  <2> QED
    BY <2>1, CloseOutBooked
<1>2. ASSUME NEW p \in Positions, NEW q \in Quotes, AutoDeleverage(p, q)
      PROVE  BookInv'
  <2>1. /\ CloseOut(p, AfterFunding(AfterCarry(pos[p], MarketOf[p]), MarketOf[p]), MarketOf[p])
        /\ IsOpen(p)
    BY <1>2, Zenon DEF AutoDeleverage
  <2> QED
    BY <2>1, CloseOutBooked
<1>3. CASE \/ \E m \in Markets : CrankFunding(m) \/ HaltMarket(m)
           \/ \E m \in Markets, s \in MarketStatuses : SetMarketStatus(m, s)
  <2>1. UNCHANGED <<pos, bookVars>>
    BY <1>3 DEF CrankFunding, HaltMarket, SetMarketStatus
  <2> QED
    BY <2>1, StillBooked
<1> QED
  BY <1>1, <1>2, <1>3 DEF KeeperNext

LEMMA StepBooked == IInv /\ IInv' /\ BookInv /\ [Next]_vars => BookInv'
<1> SUFFICES ASSUME IInv, IInv', BookInv, [Next]_vars PROVE BookInv'
  OBVIOUS
<1>1. TradingTypeOK /\ BookSound /\ TradingTypeOK'
  BY DEF IInv, TypeOK
<1>2. CASE TraderNext /\ UNCHANGED lpVars
  BY <1>1, <1>2, TraderBooked
<1>3. CASE KeeperNext /\ UNCHANGED lpVars
  BY <1>1, <1>3, KeeperBooked
<1>4. CASE UNCHANGED tradingVars
  <2>1. UNCHANGED <<pos, bookVars>>
    BY <1>4 DEF tradingVars
  <2> QED
    BY <2>1, StillBooked
<1> QED
  BY <1>2, <1>3, <1>4 DEF Next, vars

LEMMA InitBooked == Init => BookInv
<1> SUFFICES ASSUME Init PROVE BookInv
  OBVIOUS
<1>1. /\ pos = [p \in Positions |-> NoPosition]
      /\ oi = [m \in Markets |-> [d \in Directions |-> 0]]
      /\ baseOi = [m \in Markets |-> [d \in Directions |-> 0]]
      /\ openCount = [m \in Markets |-> 0]
      /\ openPositions = [u \in Users |-> 0]
  BY DEF Init, TradingInit
<1>2. /\ \A q \in Positions : Notionals[q] = 0 /\ Bases[q] = 0
      /\ NPositions \in Nat
  BY <1>1, EmptyPosition, BookAssumption DEF Notionals, Bases
<1>3. ASSUME NEW m \in Markets, NEW s \in Directions
      PROVE  /\ Side(Notionals, Heading, m, s) = 0
             /\ Side(Bases, Heading, m, s) = 0
  <2> DEFINE f == Holdings(Notionals, Heading, m, s)
             g == Holdings(Bases, Heading, m, s)
  <2>1. /\ f \in [1..NPositions -> Int] /\ g \in [1..NPositions -> Int]
        /\ \A i \in 1..NPositions : f[i] = 0 /\ g[i] = 0
    BY <1>2 DEF Holdings, Positions
  <2> HIDE DEF f, g
  <2>2. SumTo(f, NPositions) = 0 /\ SumTo(g, NPositions) = 0
    BY <1>2, <2>1, SumZero
  <2> QED
    BY <2>2 DEF Side, f, g
<1>4. OpenInterestExact
  BY <1>1, <1>3, SidesNow
<1>5. \A A \in SUBSET Positions : Cardinality(Counted(Bases, A)) = 0
  <2>1. \A A \in SUBSET Positions : Counted(Bases, A) = {}
    BY <1>2 DEF Counted
  <2> QED
    BY <2>1, FS_EmptySet
<1>6. CountsExact
  <2>1. \A m : OfMarket(m) \in SUBSET Positions /\ OfUser(m) \in SUBSET Positions
    BY DEF OfMarket, OfUser
  <2> QED
    BY <1>1, <1>5, <2>1, CountsNow
<1> QED
  BY <1>4, <1>6 DEF BookInv

(* Open interest and counts follow every change of a position.             *)
THEOREM SpecBook == Spec => [](IInv /\ BookInv)
<1>1. IInv /\ [Next]_vars => IInv'
  BY StepIInv
<1>2. (IInv /\ BookInv) /\ [Next]_vars => (IInv /\ BookInv)'
  BY <1>1, StepBooked
<1>3. Init => IInv /\ BookInv
  BY InitIInv, InitBooked
<1> QED
  BY <1>2, <1>3, PTL DEF Spec

(* I4: through any sequence of opens, top-ups, partial closes,             *)
(* liquidations and deleveragings, the open interest of each side is the   *)
(* sum over the positions on it, in quote and in base units.               *)
THEOREM OpenInterestAlwaysExact == Spec => []OpenInterestExact
<1>1. IInv /\ BookInv => OpenInterestExact
  BY DEF BookInv
<1> QED
  BY <1>1, SpecBook, PTL

(* The counters of open positions, per market and per user, always count   *)
(* them.                                                                   *)
THEOREM CountsAlwaysExact == Spec => []CountsExact
<1>1. IInv /\ BookInv => CountsExact
  BY DEF BookInv
<1> QED
  BY <1>1, SpecBook, PTL

-----------------------------------------------------------------------------
(***************************************************************************)
(* A market whose price stands still.  Every open position was entered at  *)
(* the price or on its wrong side, so whatever it closes at realises no    *)
(* profit: an instruction can only lower what traders hold between their   *)
(* wallets and the program.                                                *)
(***************************************************************************)
FlatQuotes == \A q1, q2 \in Quotes : q1.price = q2.price

(* The price at which r was entered, seen from the price that is quoted. *)
EnteredAdverse(r) ==
    \A q \in Quotes : IF r.direction = "Long" THEN q.price <= r.entryPrice
                                              ELSE r.entryPrice <= q.price

AdverseEntries == \A p \in Positions : IsOpen(p) => EnteredAdverse(pos[p])

(* What traders hold, in their wallets and with the program. *)
TradersHold == SumTo(traderWallet, NUsers) + totalUserCollateral

FlatInv ==
    /\ AdverseEntries
    /\ TradersHold <= NUsers * TraderFunds

(* Spread, confidence and skew impact never improve on the quote. *)
LEMMA ExecAdverse ==
  ASSUME TradingTypeOK, NEW m \in Markets, NEW size \in Nat, NEW side \in {"Buy", "Sell"},
         NEW quote \in Quotes
  PROVE  /\ side = "Buy" => quote.price <= ExecPrice(m, size, side, quote)
         /\ side = "Sell" => ExecPrice(m, size, side, quote) <= quote.price
<1> DEFINE signed == IF side = "Buy" THEN size ELSE -size
           skew   == SkewDelta(baseOi[m]["Long"], baseOi[m]["Short"], signed)
           rate   == Params.skewRate
           impact == SkewImpact(skew, rate)
           spread == TotalSpread(m, size, side, quote)
           worse  == MulDivCeil(quote.price, spread, Bps)
<1>1. /\ Params.baseSpread \in Nat /\ rate \in Nat
      /\ quote.price \in Nat /\ quote.conf \in Nat
      /\ baseOi[m]["Long"] \in Nat /\ baseOi[m]["Short"] \in Nat
  BY ParamsAssumption, QuotesAssumption DEF ParamNames, TradingTypeOK, Directions
<1>2. skew \in Int
  BY <1>1 DEF SkewDelta, Abs
<1>3. spread = Params.baseSpread + quote.conf + impact
  BY DEF TotalSpread
<1> HIDE DEF skew, rate
<1>4. impact \in Nat
  <2>1. skew > 0 => MulDivCeil(skew, rate, LotScale) \in Nat
    BY <1>1, <1>2, CeilNat, ScalesAssumption
  <2> QED
    BY <1>2, <2>1 DEF SkewImpact
<1> HIDE DEF impact, spread
<1>5. spread \in Nat
  BY <1>1, <1>3, <1>4
<1>6. worse \in Nat
  BY <1>1, <1>5, CeilNat, ScalesAssumption
<1>7. ExecPrice(m, size, side, quote) = IF side = "Buy" THEN quote.price + worse
                                                        ELSE quote.price - worse
  BY DEF ExecPrice, ExecutionPrice, spread
<1> HIDE DEF worse
<1> QED
  BY <1>1, <1>6, <1>7

(* An order opens above the price and closes below it, or the other way    *)
(* round for a short; when quotes agree, above or below every one of them. *)
LEMMA OpensAdverse ==
  ASSUME TradingTypeOK, FlatQuotes, NEW m \in Markets, NEW size \in Nat, NEW d \in Directions,
         NEW quote \in Quotes, NEW q \in Quotes
  PROVE  LET exec == ExecPrice(m, size, Resolve(d, "Open"), quote)
         IN  IF d = "Long" THEN q.price <= exec ELSE exec <= q.price
<1>1. q.price = quote.price
  BY DEF FlatQuotes
<1>2. /\ Resolve(d, "Open") \in {"Buy", "Sell"}
      /\ Resolve(d, "Open") = IF d = "Long" THEN "Buy" ELSE "Sell"
  BY DEF Resolve
<1> QED
  BY <1>1, <1>2, ExecAdverse

LEMMA ClosesAdverse ==
  ASSUME TradingTypeOK, NEW m \in Markets, NEW size \in Nat, NEW d \in Directions,
         NEW quote \in Quotes
  PROVE  LET exec == ExecPrice(m, size, Resolve(d, "Close"), quote)
         IN  IF d = "Long" THEN exec <= quote.price ELSE quote.price <= exec
<1>1. /\ Resolve(d, "Close") \in {"Buy", "Sell"}
      /\ Resolve(d, "Close") = IF d = "Long" THEN "Sell" ELSE "Buy"
  BY DEF Resolve, Directions
<1> QED
  BY <1>1, ExecAdverse

(* A close at the wrong side of the entry realises no profit. *)
LEMMA NoProfit ==
  ASSUME NEW size \in Nat, NEW entry \in Nat, NEW exit \in Nat, NEW d \in Directions,
         IF d = "Long" THEN exit <= entry ELSE entry <= exit
  PROVE  UpnlInQuote(size, entry, exit, d) <= 0
<1> DEFINE move == Sign(d) * (exit - entry)
<1>1. move \in Int /\ move <= 0
  BY DEF Sign, Directions
<1>2. MulDivFloor(move, size, NotionalDivisor) <= 0
  <2> HIDE DEF move
  <2> QED
    BY <1>1, FloorSign, ScalesAssumption
<1>3. size * move = move * size
  <2> HIDE DEF move
  <2> QED
    BY <1>1
<1> QED
  BY <1>2, <1>3 DEF UpnlInQuote, MulDivFloor

(* So a position closed at any quote realises none. *)
LEMMA CloseRealisesNone ==
  ASSUME TradingTypeOK, NEW m \in Markets, NEW r \in Position, EnteredAdverse(r),
         NEW size \in Nat, NEW quote \in Quotes,
         CanExecute(m, size, Resolve(r.direction, "Close"), quote)
  PROVE  UpnlInQuote(size, r.entryPrice,
                     ExecPrice(m, size, Resolve(r.direction, "Close"), quote),
                     r.direction) <= 0
<1> DEFINE exec == ExecPrice(m, size, Resolve(r.direction, "Close"), quote)
<1>1. r.direction \in Directions /\ r.entryPrice \in Nat /\ quote.price \in Nat
  BY QuotesAssumption DEF Position
<1>2. exec \in Nat
  BY ExecPriceNat, ResolveSide
<1>3. IF r.direction = "Long" THEN exec <= quote.price ELSE quote.price <= exec
  BY <1>1, ClosesAdverse
<1>4. IF r.direction = "Long" THEN quote.price <= r.entryPrice ELSE r.entryPrice <= quote.price
  BY DEF EnteredAdverse
<1> HIDE DEF exec
<1>5. IF r.direction = "Long" THEN exec <= r.entryPrice ELSE r.entryPrice <= exec
  BY <1>1, <1>2, <1>3, <1>4
<1>6. UpnlInQuote(size, r.entryPrice, exec, r.direction) <= 0
  BY <1>1, <1>2, <1>5, NoProfit
<1> QED
  BY <1>6 DEF exec

(* The average of two entries, rounded against the position, lies where    *)
(* both lie.                                                               *)
LEMMA AverageAdverse ==
  ASSUME NEW a \in Nat \ {0}, NEW p \in Nat, NEW b \in Nat, NEW q \in Nat,
         NEW d \in Directions, NEW price \in Nat,
         IF d = "Long" THEN price <= p /\ price <= q ELSE p <= price /\ q <= price
  PROVE  IF d = "Long" THEN price <= WeightedEntryPrice(a, p, b, q, d)
                       ELSE WeightedEntryPrice(a, p, b, q, d) <= price
<1> DEFINE w == a * p + b * q
           n == a + b
           level == n * price
<1>1. /\ n \in Nat \ {0} /\ w \in Nat /\ level \in Nat
      /\ a * p \in Nat /\ b * q \in Nat /\ a * price \in Nat /\ b * price \in Nat
      /\ level = a * price + b * price
  BY SMT
<1>2. CASE d = "Long"
  <2>1. level <= w
    <3>1. a * price <= a * p /\ b * price <= b * q
      BY <1>2
    <3> HIDE DEF n
    <3> QED
      BY <1>1, <3>1
  <2>2. MulDivCeil(w, 1, n) \in Int
    <3> HIDE DEF w, n
    <3> QED
      BY <1>1, CeilInt
  <2> DEFINE f == (-w) \div n
  <2>3. f \in Int /\ n * f <= -w /\ MulDivCeil(w, 1, n) = -f
    <3> HIDE DEF w, n
    <3>1. -(w * 1) = -w
      BY <1>1
    <3> QED
      BY <1>1, <3>1, DivFloors DEF MulDivCeil
  <2> HIDE DEF w, n, f, level
  <2>4. SUFFICES ASSUME -f < price PROVE FALSE
    BY <1>2, <2>3 DEF WeightedEntryPrice, w, n
  <2>5. n * (1 - f) <= n * price /\ n * (1 - f) = n - n * f /\ n * f \in Int
    BY <1>1, <2>3, <2>4
  <2>6. n * price = level
    BY DEF level
  <2> QED
    BY <1>1, <2>1, <2>3, <2>5, <2>6
<1>3. CASE d = "Short"
  <2>1. w <= level
    <3>1. a * p <= a * price /\ b * q <= b * price
      BY <1>3
    <3> HIDE DEF n
    <3> QED
      BY <1>1, <3>1
  <2> DEFINE f == MulDivFloor(w, 1, n)
  <2>2. f \in Int /\ n * f <= w
    <3> HIDE DEF w, n
    <3>1. w * 1 = w
      BY <1>1
    <3> QED
      BY <1>1, <3>1, FloorInt
  <2>3. WeightedEntryPrice(a, p, b, q, d) = f
    BY <1>3 DEF WeightedEntryPrice
  <2> HIDE DEF w, n, f, level
  <2>4. SUFFICES ASSUME price < f PROVE FALSE
    BY <1>3, <2>2, <2>3
  <2>5. n * (price + 1) <= n * f /\ n * (price + 1) = n * price + n
    BY <1>1, <2>2, <2>4
  <2>6. n * price = level
    BY DEF level
  <2> QED
    BY <1>1, <2>1, <2>2, <2>5, <2>6
<1> QED
  BY <1>2, <1>3 DEF Directions

-----------------------------------------------------------------------------
(* What a settlement without a profit does to what traders hold. *)
LEMMA SettlementTakes ==
  ASSUME VaultsTypeOK, NEW alloc \in Allocation, NEW pnl \in Int, NEW referred,
         pnl <= AllocTotal(alloc), Settle(alloc, pnl, referred)
  PROVE  totalUserCollateral' <= totalUserCollateral
<1>1. totalUserCollateral' = totalUserCollateral + (pnl - AllocTotal(alloc)) - 0
  BY DEF Settle, SettleWith
<1>2. AllocTotal(alloc) \in Int /\ totalUserCollateral \in Int
  BY DEF Allocation, AllocTotal, VaultsTypeOK
<1> QED
  BY <1>1, <1>2

(* The allocation of a trade's fee. *)
LEMMA TradeFee ==
  ASSUME NEW size \in Nat, NEW exec \in Nat, NEW rate \in Nat, NEW tierRate \in TierRates
  PROVE  LET fee == FeeAmount(NotionalInQuote(size, exec), Lesser(rate, tierRate))
         IN  /\ fee \in Nat
             /\ SplitFee(fee, FeeSplit) \in Allocation
             /\ AllocTotal(SplitFee(fee, FeeSplit)) = fee
<1> DEFINE fee == FeeAmount(NotionalInQuote(size, exec), Lesser(rate, tierRate))
<1>1. Lesser(rate, tierRate) \in Nat
  BY BookAssumption DEF Lesser
<1>2. fee \in Nat
  BY <1>1, NotionalNat, FeeNat
<1> HIDE DEF fee
<1>3. SplitFee(fee, FeeSplit) \in Allocation /\ AllocTotal(SplitFee(fee, FeeSplit)) = fee
  BY <1>2, SplitFeeExact, SplitAssumption DEF Allocation
<1> QED
  BY <1>2, <1>3 DEF fee

(* A step that lets no wallet grow and no holding either. *)
TakesFromTraders ==
    /\ totalUserCollateral' <= totalUserCollateral
    /\ traderWallet' = traderWallet

(* One position is stored; if it is open it was entered adversely. *)
LEMMA EntriesKept ==
  ASSUME TradingTypeOK, AdverseEntries, NEW p \in Positions, NEW v,
         pos' = [pos EXCEPT ![p] = v], v.size > 0 => EnteredAdverse(v)
  PROVE  AdverseEntries'
<1> SUFFICES ASSUME NEW i \in Positions, pos'[i].size > 0
             PROVE  EnteredAdverse(pos'[i])
  BY DEF AdverseEntries, IsOpen, EnteredAdverse
<1>1. CASE i = p
  BY <1>1 DEF TradingTypeOK
<1>2. CASE i # p
  <2>1. pos'[i] = pos[i]
    BY <1>2 DEF TradingTypeOK
  <2> QED
    BY <2>1 DEF AdverseEntries, IsOpen
<1> QED
  BY <1>1, <1>2

LEMMA OpenPositionFlat ==
  ASSUME VaultsTypeOK, TradingTypeOK, FlatQuotes, AdverseEntries,
         NEW p \in Positions, NEW d \in Directions, NEW size \in Sizes,
         NEW collateral \in Margins, NEW quote \in Quotes, NEW tierRate \in TierRates,
         OpenPosition(p, d, size, collateral, quote, tierRate)
  PROVE  AdverseEntries' /\ TakesFromTraders
<1> DEFINE m        == MarketOf[p]
           side     == Resolve(d, "Open")
           exec     == ExecPrice(m, size, side, quote)
           notional == NotionalInQuote(size, exec)
           fee      == FeeAmount(notional, Lesser(Params.openFee, tierRate))
           v        == [direction |-> d, size |-> size, collateral |-> collateral,
                        entryPrice |-> exec, entryNotional |-> notional,
                        fundingEntry |-> fundingIndex[m][d], borrowEntry |-> borrowIndex[m]]
<1>1. /\ size \in Nat /\ m \in Markets /\ Params.openFee \in Nat
  BY BookAssumption, ParamsAssumption DEF ParamNames
<1>2. /\ CanExecute(m, size, side, quote)
      /\ Settle(SplitFee(fee, FeeSplit), 0, Owner[p] \in Referred)
      /\ pos' = [pos EXCEPT ![p] = v]
      /\ UNCHANGED settleFrame
  BY DEF OpenPosition
<1>3. exec \in Nat
  BY <1>1, <1>2, ExecPriceNat, ResolveSide
<1>4. \A q \in Quotes : IF d = "Long" THEN q.price <= exec ELSE exec <= q.price
  BY <1>1, OpensAdverse
<1> HIDE DEF exec
<1>5. AdverseEntries'
  <2>1. v.direction = d /\ v.entryPrice = exec
    OBVIOUS
  <2> HIDE DEF v
  <2> QED
    BY <1>2, <1>4, <2>1, EntriesKept DEF EnteredAdverse
<1>6. totalUserCollateral' <= totalUserCollateral
  <2>1. fee \in Nat /\ SplitFee(fee, FeeSplit) \in Allocation
        /\ AllocTotal(SplitFee(fee, FeeSplit)) = fee
    BY <1>1, <1>3, TradeFee
  <2> HIDE DEF fee
  <2> QED
    BY <1>2, <2>1, SettlementTakes
<1> QED
  BY <1>2, <1>5, <1>6 DEF TakesFromTraders, settleFrame, walletVars

LEMMA IncreasePositionFlat ==
  ASSUME VaultsTypeOK, TradingTypeOK, BookSound, FlatQuotes, AdverseEntries,
         NEW p \in Positions, NEW size \in Sizes, NEW collateral \in Margins \cup {0},
         NEW quote \in Quotes, NEW tierRate \in TierRates,
         IncreasePosition(p, size, collateral, quote, tierRate)
  PROVE  AdverseEntries' /\ TakesFromTraders
<1> DEFINE m     == MarketOf[p]
           r     == pos[p]
           d     == r.direction
           side  == Resolve(d, "Open")
           exec  == ExecPrice(m, size, side, quote)
           added == NotionalInQuote(size, exec)
           fee   == FeeAmount(added, Lesser(Params.openFee, tierRate))
           entry == WeightedEntryPrice(r.size, r.entryPrice, size, exec, d)
           v     == [r EXCEPT !.size = @ + size,
                              !.collateral = @ + collateral,
                              !.entryNotional = @ + added,
                              !.entryPrice = entry]
<1>1. /\ size \in Nat /\ m \in Markets /\ Params.openFee \in Nat /\ r \in Position
  BY BookAssumption, ParamsAssumption, PositionTyped DEF ParamNames
<1>2. /\ CanExecute(m, size, side, quote)
      /\ Settle(SplitFee(fee, FeeSplit), 0, Owner[p] \in Referred)
      /\ pos' = [pos EXCEPT ![p] = v]
      /\ UNCHANGED settleFrame
      /\ IsOpen(p)
  BY DEF IncreasePosition
<1>3. exec \in Nat
  BY <1>1, <1>2, ExecPriceNat, ResolveSide
<1>4. /\ d \in Directions /\ r.size \in Nat \ {0} /\ r.entryPrice \in Nat
  BY <1>1, <1>2 DEF Position, IsOpen
<1>5. \A q \in Quotes : IF d = "Long" THEN q.price <= exec ELSE exec <= q.price
  BY <1>1, <1>4, OpensAdverse
<1>6. \A q \in Quotes : IF d = "Long" THEN q.price <= r.entryPrice ELSE r.entryPrice <= q.price
  BY <1>2 DEF AdverseEntries, EnteredAdverse
<1>7. v.direction = d /\ v.entryPrice = entry
  BY <1>1 DEF Position
<1> HIDE DEF exec, r, d
<1>8. ASSUME NEW q \in Quotes
      PROVE  IF d = "Long" THEN q.price <= entry ELSE entry <= q.price
  <2>1. q.price \in Nat
    BY QuotesAssumption
  <2> QED
    BY <1>1, <1>3, <1>4, <1>5, <1>6, <2>1, AverageAdverse
<1> HIDE DEF v, entry
<1>9. AdverseEntries'
  BY <1>2, <1>7, <1>8, EntriesKept DEF EnteredAdverse
<1>10. totalUserCollateral' <= totalUserCollateral
  <2>1. fee \in Nat /\ SplitFee(fee, FeeSplit) \in Allocation
        /\ AllocTotal(SplitFee(fee, FeeSplit)) = fee
    BY <1>1, <1>3, TradeFee
  <2> HIDE DEF fee
  <2> QED
    BY <1>2, <2>1, SettlementTakes
<1> QED
  BY <1>2, <1>9, <1>10 DEF TakesFromTraders, settleFrame, walletVars

(* A reduction at no profit gives back at most the released margin net of  *)
(* the fee; when the loss exceeds it, nothing.                             *)
LEMMA ReduceFlat ==
  ASSUME VaultsTypeOK, TradingTypeOK, BookSound, AdverseEntries,
         NEW p \in Positions, NEW delta \in 1..pos[p].size,
         NEW quote \in Quotes, NEW tierRate \in TierRates,
         Reduce(p, delta, quote, tierRate)
  PROVE  AdverseEntries' /\ TakesFromTraders
<1> DEFINE m         == MarketOf[p]
           r         == AfterCarry(pos[p], m)
           carry     == CarryPaid(pos[p], m)
           full      == delta = r.size
           side      == Resolve(r.direction, "Close")
           exec      == ExecPrice(m, delta, side, quote)
           pnl       == UpnlInQuote(delta, r.entryPrice, exec, r.direction)
           closeFee  == FeeAmount(NotionalInQuote(delta, exec), Lesser(Params.closeFee, tierRate))
           fee       == closeFee + carry
           released  == IF full THEN r.collateral ELSE MulDivFloor(r.collateral, delta, r.size)
           available == released + carry - fee
           equity    == available + pnl
           settled   == IF equity >= 0 THEN pnl ELSE -available
           closed    == IF full THEN r.entryNotional
                        ELSE MulDivFloor(r.entryNotional, delta, r.size)
           v         == IF full THEN NoPosition
                        ELSE [r EXCEPT !.size = @ - delta, !.collateral = @ - released,
                                       !.entryNotional = @ - closed]
<1>1. /\ pos[p] \in Position /\ m \in Markets /\ pos[p].borrowEntry <= borrowIndex[m]
      /\ Params.closeFee \in Nat
  BY PositionTyped, ParamsAssumption DEF ParamNames
<1>2. /\ r \in Position /\ r.size = pos[p].size /\ carry \in Nat
      /\ r.direction = pos[p].direction /\ r.entryPrice = pos[p].entryPrice
  <2>1. carry \in 0..pos[p].collateral /\ pos[p].collateral \in Nat
    BY <1>1, CarrySettles DEF Position
  <2> QED
    BY <1>1, <2>1, CarrySettles
<1>3. /\ CanExecute(m, delta, side, quote)
      /\ Settle(SplitFee(fee, FeeSplit), settled, Owner[p] \in Referred)
      /\ pos' = [pos EXCEPT ![p] = v]
      /\ UNCHANGED settleFrame
  BY DEF Reduce
<1> HIDE DEF r, carry
<1>4. /\ r.size \in Nat /\ r.entryPrice \in Nat /\ r.direction \in Directions
      /\ r.collateral \in Nat /\ delta \in Nat \ {0} /\ r.size # 0
  BY <1>2 DEF Position
<1>5. EnteredAdverse(r)
  <2>1. IsOpen(p)
    BY <1>2, <1>4 DEF IsOpen
  <2> QED
    BY <1>2, <2>1 DEF AdverseEntries, EnteredAdverse
<1>6. exec \in Nat
  BY <1>1, <1>3, <1>4, ExecPriceNat, ResolveSide
<1>7. pnl \in Int /\ pnl <= 0
  BY <1>1, <1>2, <1>3, <1>4, <1>5, <1>6, UpnlInt, CloseRealisesNone
<1>8. closeFee \in Nat
  BY <1>1, <1>4, <1>6, TradeFee
<1>9. released \in Nat
  <2>1. MulDivFloor(r.collateral, delta, r.size) \in Nat
    BY <1>4, FloorNat
  <2> QED
    BY <1>4, <2>1
<1>10. AdverseEntries'
  <2>1. v.size > 0 => EnteredAdverse(v)
    <3>1. CASE full
      BY <3>1, EmptyPosition
    <3>2. CASE ~ full
      <4>1. v.direction = r.direction /\ v.entryPrice = r.entryPrice
        BY <1>2, <3>2 DEF Position
      <4> QED
        BY <1>5, <4>1 DEF EnteredAdverse
    <3> QED
      BY <3>1, <3>2
  <2> HIDE DEF v
  <2> QED
    BY <1>3, <2>1, EntriesKept
<1>11. totalUserCollateral' <= totalUserCollateral
  <2> HIDE DEF pnl, closeFee, released
  <2>1. fee \in Nat
    BY <1>2, <1>8
  <2>2. SplitFee(fee, FeeSplit) \in Allocation /\ AllocTotal(SplitFee(fee, FeeSplit)) = fee
    <3> HIDE DEF fee
    <3> QED
      BY <2>1, SplitFeeExact, SplitAssumption DEF Allocation
  <2>3. settled \in Int /\ settled <= fee
    BY <1>2, <1>7, <1>8, <1>9
  <2> HIDE DEF fee, settled
  <2> QED
    BY <1>3, <2>2, <2>3, SettlementTakes
<1> QED
  BY <1>3, <1>10, <1>11 DEF TakesFromTraders, settleFrame, walletVars

(* Nothing can be deleveraged: no open position shows a profit. *)
LEMMA NobodyDeleveraged ==
  ASSUME TradingTypeOK, BookSound, AdverseEntries,
         NEW p \in Positions, NEW quote \in Quotes, AutoDeleverage(p, quote)
  PROVE  FALSE
<1> DEFINE m == MarketOf[p]
           c == AfterCarry(pos[p], m)
           r == AfterFunding(c, m)
<1>1. m \in Markets /\ c \in Position /\ r \in Position
  BY CostsSettle
<1>2. /\ r.direction = pos[p].direction /\ r.entryPrice = pos[p].entryPrice
      /\ r.size \in Nat
  <2>1. c.direction = pos[p].direction /\ c.entryPrice = pos[p].entryPrice
    BY <1>1, PositionTyped, CarrySettles
  <2>2. r.direction = c.direction /\ r.entryPrice = c.entryPrice
    <3> HIDE DEF c
    <3> QED
      BY <1>1 DEF AfterFunding, Position
  <2>3. r.size \in Nat
    BY <1>1 DEF Position
  <2> QED
    BY <2>1, <2>2, <2>3
<1>3. /\ IsOpen(p)
      /\ CanExecute(m, r.size, Resolve(r.direction, "Close"), quote)
      /\ Assess(r, m, quote).upnl > 0
  BY DEF AutoDeleverage
<1> HIDE DEF r, c
<1>4. EnteredAdverse(r)
  BY <1>2, <1>3 DEF AdverseEntries, EnteredAdverse
<1>5. Assess(r, m, quote).upnl <= 0
  BY <1>1, <1>2, <1>3, <1>4, CloseRealisesNone DEF Assess
<1>6. Assess(r, m, quote).upnl \in Int
  BY <1>1, <1>3, AssessInt
<1> QED
  BY <1>3, <1>5, <1>6

LEMMA LiquidationFlat ==
  ASSUME VaultsTypeOK, TradingTypeOK, BookSound, AdverseEntries,
         NEW p \in Positions, NEW quote \in Quotes, LiquidatePosition(p, quote)
  PROVE  AdverseEntries' /\ TakesFromTraders
<1>1. pos' = [pos EXCEPT ![p] = NoPosition] /\ UNCHANGED settleFrame
  BY DEF LiquidatePosition, CloseOut
<1>2. NoPosition.size > 0 => EnteredAdverse(NoPosition)
  BY EmptyPosition
<1>3. AdverseEntries'
  BY <1>1, <1>2, EntriesKept
<1> QED
  BY <1>1, <1>3, LiquidationPaysPool DEF TakesFromTraders, settleFrame, walletVars

(* Margin moved in or out changes neither an entry nor what is held. *)
LEMMA MarginFlat ==
  ASSUME VaultsTypeOK, TradingTypeOK, AdverseEntries, NEW p \in Positions,
         \/ \E a \in Margins : AddPositionCollateral(p, a)
         \/ \E a \in Margins, q \in Quotes : RemovePositionCollateral(p, a, q)
  PROVE  AdverseEntries' /\ TakesFromTraders
<1>1. IsOpen(p) /\ UNCHANGED <<mirrorVars, settleFrame>>
  BY DEF AddPositionCollateral, RemovePositionCollateral
<1>2. PICK c : pos' = [pos EXCEPT ![p].collateral = c]
  BY DEF AddPositionCollateral, RemovePositionCollateral
<1> DEFINE v == [pos[p] EXCEPT !.collateral = c]
<1>3. pos' = [pos EXCEPT ![p] = v]
  BY <1>2
<1>4. v.direction = pos[p].direction /\ v.entryPrice = pos[p].entryPrice
  BY DEF TradingTypeOK, Position
<1> HIDE DEF v
<1>5. EnteredAdverse(v)
  BY <1>1, <1>4 DEF AdverseEntries, EnteredAdverse
<1>6. AdverseEntries'
  BY <1>3, <1>5, EntriesKept
<1>7. totalUserCollateral' <= totalUserCollateral
  BY <1>1 DEF mirrorVars, VaultsTypeOK
<1> QED
  BY <1>1, <1>6, <1>7 DEF TakesFromTraders, settleFrame, walletVars


-----------------------------------------------------------------------------
LEMMA InitFlat == Init => FlatInv
<1> SUFFICES ASSUME Init PROVE FlatInv
  OBVIOUS
<1>1. AdverseEntries
  BY EmptyPosition DEF Init, TradingInit, AdverseEntries, IsOpen
<1>2. SumTo(traderWallet, NUsers) = NUsers * TraderFunds
  <2>1. traderWallet = [u \in 1..NUsers |-> TraderFunds]
    BY DEF Init, VaultsInit, Users
  <2>2. NUsers \in Nat /\ TraderFunds \in Int
    BY PartiesAssumption
  <2> QED
    BY <2>1, <2>2, SumConstant
<1>3. totalUserCollateral = 0 /\ NUsers * TraderFunds \in Int
  BY PartiesAssumption DEF Init, VaultsInit
<1>4. TradersHold <= NUsers * TraderFunds
  BY <1>2, <1>3 DEF TradersHold
<1> QED
  BY <1>1, <1>4 DEF FlatInv

(* A step that only takes from traders keeps them within what they had. *)
LEMMA HoldingsFall ==
  ASSUME VaultsTypeOK, TradingTypeOK, VaultsTypeOK', FlatInv, TakesFromTraders
  PROVE  TradersHold' <= NUsers * TraderFunds
<1> DEFINE wallets == SumTo(traderWallet, NUsers)
<1>1. /\ wallets \in Int /\ totalUserCollateral \in Int /\ NUsers * TraderFunds \in Int
      /\ totalUserCollateral' \in Int
  BY MoneyInt, PartiesAssumption DEF VaultsTypeOK
<1>2. /\ wallets + totalUserCollateral <= NUsers * TraderFunds
      /\ totalUserCollateral' <= totalUserCollateral
      /\ wallets' = wallets
  BY DEF FlatInv, TradersHold, TakesFromTraders
<1>3. TradersHold' = wallets' + totalUserCollateral'
  BY DEF TradersHold
<1> HIDE DEF wallets
<1> QED
  BY <1>1, <1>2, <1>3

(* A deposit or a withdrawal moves a unit from one hand to the other. *)
LEMMA WalletHoldings ==
  ASSUME VaultsTypeOK, TradingTypeOK, NEW u \in Users, NEW amount \in Int,
         traderWallet' = [traderWallet EXCEPT ![u] = @ + (-amount)],
         totalUserCollateral' = totalUserCollateral + amount
  PROVE  TradersHold' = TradersHold
<1>1. traderWallet \in [1..NUsers -> Nat] /\ u \in 1..NUsers /\ NUsers \in Nat
      /\ -amount \in Int
  BY PartiesAssumption DEF VaultsTypeOK, Users
<1>2. SumTo(traderWallet', NUsers) = SumTo(traderWallet, NUsers) + (-amount)
  BY <1>1, SumMoved
<1>3. SumTo(traderWallet, NUsers) \in Int /\ totalUserCollateral \in Int
  BY MoneyInt DEF VaultsTypeOK
<1> QED
  BY <1>2, <1>3 DEF TradersHold

LEMMA VaultsFlat ==
  ASSUME VaultsTypeOK, TradingTypeOK, VaultsNext
  PROVE  TradersHold' = TradersHold
<1>1. ASSUME NEW u \in Users, NEW amount \in CollateralAmounts, DepositCollateral(u, amount)
      PROVE  TradersHold' = TradersHold
  <2>1. amount \in Int
    BY AmountsAssumption
  <2>2. traderWallet' = [traderWallet EXCEPT ![u] = @ + (-amount)]
    <3>1. traderWallet' = [traderWallet EXCEPT ![u] = traderWallet[u] - amount]
      BY <1>1 DEF DepositCollateral
    <3>2. traderWallet[u] - amount = traderWallet[u] + (-amount)
      BY <2>1 DEF VaultsTypeOK
    <3> QED
      BY <3>1, <3>2
  <2> QED
    BY <1>1, <2>1, <2>2, WalletHoldings DEF DepositCollateral
<1>2. ASSUME NEW u \in Users, NEW amount \in CollateralAmounts, WithdrawCollateral(u, amount)
      PROVE  TradersHold' = TradersHold
  <2> DEFINE back == -amount
  <2>1. amount \in Int /\ back \in Int
    BY AmountsAssumption
  <2>2. traderWallet[u] + amount = traderWallet[u] + (-back)
        /\ totalUserCollateral - amount = totalUserCollateral + back
    BY <2>1 DEF VaultsTypeOK
  <2>3. /\ traderWallet' = [traderWallet EXCEPT ![u] = traderWallet[u] + amount]
        /\ totalUserCollateral' = totalUserCollateral - amount
    BY <1>2 DEF WithdrawCollateral
  <2> HIDE DEF back
  <2>4. /\ traderWallet' = [traderWallet EXCEPT ![u] = @ + (-back)]
        /\ totalUserCollateral' = totalUserCollateral + back
    BY <2>2, <2>3
  <2> QED
    BY <2>1, <2>4, WalletHoldings
<1>3. ASSUME UNCHANGED <<traderWallet, totalUserCollateral>>
      PROVE  TradersHold' = TradersHold
  BY <1>3 DEF TradersHold
<1>4. ASSUME \/ \E amount \in SponsorAmounts : DepositInsuranceFund(amount)
             \/ \E amount \in PayoutAmounts : WithdrawTreasuryFees(amount) \/ PayReferral(amount)
             \/ EmergencyPause \/ Unpause
      PROVE  UNCHANGED <<traderWallet, totalUserCollateral>>
  BY <1>4 DEF DepositInsuranceFund, WithdrawTreasuryFees, PayReferral, EmergencyPause,
              Unpause, mirrorVars, walletVars
<1> QED
  BY <1>1, <1>2, <1>3, <1>4 DEF VaultsNext

LEMMA TraderFlat ==
  ASSUME VaultsTypeOK, TradingTypeOK, BookSound, FlatQuotes, AdverseEntries, TraderNext
  PROVE  AdverseEntries' /\ TakesFromTraders
<1>1. PICK p \in Positions :
        \/ \E d \in Directions, size \in Sizes, c \in Margins, q \in Quotes, t \in TierRates :
              OpenPosition(p, d, size, c, q, t)
        \/ \E size \in Sizes, c \in Margins \cup {0}, q \in Quotes, t \in TierRates :
              IncreasePosition(p, size, c, q, t)
        \/ \E delta \in 1..pos[p].size, q \in Quotes, t \in TierRates :
              Reduce(p, delta, q, t)
        \/ \E a \in Margins : AddPositionCollateral(p, a)
        \/ \E a \in Margins, q \in Quotes : RemovePositionCollateral(p, a, q)
  BY DEF TraderNext
<1> QED
  BY <1>1, OpenPositionFlat, IncreasePositionFlat, ReduceFlat, MarginFlat

(* A step that leaves positions, wallets and the total as they are. *)
LEMMA FlatFrame ==
  ASSUME VaultsTypeOK, AdverseEntries, UNCHANGED <<pos, traderWallet, totalUserCollateral>>
  PROVE  AdverseEntries' /\ TakesFromTraders
<1>1. totalUserCollateral' <= totalUserCollateral
  BY DEF VaultsTypeOK
<1> QED
  BY <1>1 DEF AdverseEntries, EnteredAdverse, IsOpen, TakesFromTraders

LEMMA KeeperFlat ==
  ASSUME VaultsTypeOK, TradingTypeOK, BookSound, AdverseEntries, KeeperNext
  PROVE  AdverseEntries' /\ TakesFromTraders
<1>1. CASE \E p \in Positions, q \in Quotes : LiquidatePosition(p, q)
  BY <1>1, LiquidationFlat
<1>2. CASE \E p \in Positions, q \in Quotes : AutoDeleverage(p, q)
  BY <1>2, NobodyDeleveraged
<1>3. CASE \/ \E m \in Markets : CrankFunding(m) \/ HaltMarket(m)
           \/ \E m \in Markets, s \in MarketStatuses : SetMarketStatus(m, s)
  <2>1. UNCHANGED <<pos, traderWallet, totalUserCollateral>>
    BY <1>3 DEF CrankFunding, HaltMarket, SetMarketStatus, vaultsVars, mirrorVars, walletVars
  <2> QED
    BY <2>1, FlatFrame
<1> QED
  BY <1>1, <1>2, <1>3 DEF KeeperNext

LEMMA LpFlat ==
  ASSUME VaultsTypeOK, LpNext
  PROVE  UNCHANGED <<traderWallet, totalUserCollateral>>
<1>1. UNCHANGED lpFrame \/ UNCHANGED vaultsVars
  BY DEF LpNext, AddLiquidity, RequestRemoveLiquidity, CooldownElapses,
         CancelRemoveLiquidity, RemoveLiquidity, TransferShares
<1> QED
  BY <1>1 DEF lpFrame, vaultsVars, mirrorVars, walletVars

LEMMA StepFlat == FlatQuotes /\ IInv /\ IInv' /\ FlatInv /\ [Next]_vars => FlatInv'
<1> SUFFICES ASSUME FlatQuotes, IInv, IInv', FlatInv, [Next]_vars PROVE FlatInv'
  OBVIOUS
<1>1. VaultsTypeOK /\ TradingTypeOK /\ BookSound /\ VaultsTypeOK' /\ AdverseEntries
  BY DEF IInv, TypeOK, FlatInv
<1>2. ASSUME AdverseEntries', TakesFromTraders PROVE FlatInv'
  BY <1>1, <1>2, HoldingsFall DEF FlatInv
<1>3. CASE VaultsNext /\ UNCHANGED <<tradingVars, lpVars>>
  <2>1. TradersHold' = TradersHold
    BY <1>1, <1>3, VaultsFlat
  <2>2. AdverseEntries'
    BY <1>1, <1>3 DEF AdverseEntries, EnteredAdverse, IsOpen, tradingVars
  <2> QED
    BY <2>1, <2>2 DEF FlatInv
<1>4. CASE TraderNext /\ UNCHANGED lpVars
  BY <1>1, <1>2, <1>4, TraderFlat
<1>5. CASE KeeperNext /\ UNCHANGED lpVars
  BY <1>1, <1>2, <1>5, KeeperFlat
<1>6. CASE LpNext /\ UNCHANGED tradingVars
  BY <1>1, <1>2, <1>6, LpFlat, FlatFrame DEF tradingVars
<1>7. CASE UNCHANGED vars
  BY <1>1, <1>2, <1>7, FlatFrame DEF vars, vaultsVars, tradingVars, mirrorVars, walletVars
<1> QED
  BY <1>3, <1>4, <1>5, <1>6, <1>7 DEF Next

(* While every quote has one price, traders together never hold more than  *)
(* they brought, whatever they open, top up, close and move, and however   *)
(* their positions are liquidated: spread, impact, fees and rounding are   *)
(* all against them.                                                       *)
THEOREM FlatMarketNeverPays ==
  ASSUME FlatQuotes
  PROVE  Spec => []FlatMarketPaysNobody
<1>1. IInv /\ Custody /\ FlatInv => FlatMarketPaysNobody
  <2> SUFFICES ASSUME IInv, Custody, FlatInv PROVE FlatMarketPaysNobody
    OBVIOUS
  <2>1. VaultsTypeOK /\ TradingTypeOK
    BY DEF IInv, TypeOK
  <2>2. SumTo(traderWallet, NUsers) + Owed <= NUsers * TraderFunds
    BY DEF FlatInv, TradersHold, Custody
  <2>3. SumTo(traderWallet, NUsers) + Owed =
          SumTo(traderWallet, NUsers) + SumTo(free, NUsers) + PositionCollateral
            + SumTo(fundingBalance, NMarkets)
    BY <2>1, MoneyInt DEF Owed
  <2> QED
    BY <2>2, <2>3 DEF FlatMarketPaysNobody
<1>2. Init => FlatInv
  BY InitFlat
<1>3. IInv /\ IInv' /\ FlatInv /\ [Next]_vars => FlatInv'
  BY StepFlat
<1> QED
  BY <1>1, <1>2, <1>3, SpecCustody, PTL DEF Spec

-----------------------------------------------------------------------------
(***************************************************************************)
(* A matured exit is paid.  The supply is what providers hold, so nobody   *)
(* exits with more shares than there are; the high-water mark never falls  *)
(* below one unit of NAV per share, so the gain it leaves to the           *)
(* performance fee is less than what the shares are worth.                 *)
(***************************************************************************)
(* What init_protocol sets and never changes, and does not compare with    *)
(* anything (initialize_protocol.rs:179-198).                              *)
LpFeesModest == 2 * ExitFeeBps <= Bps /\ 2 * PerformanceBps <= Bps

SharesInv ==
    /\ SumTo(shares, NProviders) = lpTokenSupply
    /\ highWaterMark >= QuotePrecision

(* A fee of at most half is at most half of the amount, rounded up. *)
LEMMA HalfCeil ==
  ASSUME NEW a \in Nat, NEW b \in Nat, NEW d \in Nat \ {0}, 2 * b <= d
  PROVE  /\ MulDivCeil(a, b, d) \in Nat
         /\ 2 * MulDivCeil(a, b, d) <= a + 1
<1> DEFINE f == (-(a * b)) \div d
<1>1. a * b \in Int /\ -(a * b) \in Int
  OBVIOUS
<1>2. f \in Int /\ -(a * b) < d * f + d
  BY <1>1, DivFloors
<1>3. MulDivCeil(a, b, d) = -f
  BY DEF MulDivCeil
<1>4. MulDivCeil(a, b, d) \in Nat
  BY CeilNat
<1> HIDE DEF f
<1>5. (2 * b) * a <= d * a
  BY SMT
<1>6. ASSUME 2 * (-f) >= a + 2
      PROVE  FALSE
  <2>1. d * (2 * (-f)) >= d * (a + 2)
    BY <1>2, <1>6
  <2>2. 2 * (a * b) > 2 * (-(d * f) - d)
    BY <1>1, <1>2
  <2> QED
    BY <1>1, <1>2, <1>5, <2>1, <2>2
<1> QED
  BY <1>2, <1>3, <1>4, <1>6

(* The gain above the mark and one unit per share are within the worth of  *)
(* the shares.                                                             *)
LEMMA GainWithinWorth ==
  ASSUME NEW n \in Nat \ {0}, NEW assets \in Nat, NEW supply \in Nat \ {0},
         NEW mark \in Nat, mark >= QuotePrecision,
         NavPerShare(assets, supply) > mark
  PROVE  LET gain == NavPerShare(assets, supply) - mark
         IN  MulDivFloor(n, gain, QuotePrecision) + n <= MulDivFloor(n, assets, supply)
<1> DEFINE nav    == NavPerShare(assets, supply)
           gain   == nav - mark
           profit == MulDivFloor(n, gain, QuotePrecision)
           gross  == MulDivFloor(n, assets, supply)
           unit   == QuotePrecision
<1>1. unit \in Nat \ {0}
  BY ScalesAssumption
<1>2. nav \in Nat /\ supply * nav <= assets * unit
  <2>1. nav = MulDivFloor(assets, unit, supply)
    BY DEF NavPerShare
  <2> QED
    BY <1>1, <2>1, FloorShare
<1> HIDE DEF nav
<1>3. gain \in Nat /\ gain + unit <= nav
  BY <1>1, <1>2 DEF nav
<1> HIDE DEF gain
<1>4. profit \in Nat /\ unit * profit <= n * gain
  BY <1>1, <1>3, FloorShare
<1>5. gross \in Int /\ n * assets < supply * gross + supply
  <2>1. n \in Int /\ assets \in Int
    OBVIOUS
  <2> QED
    BY <2>1, FloorInt
<1> HIDE DEF profit, gross, unit
<1>6. unit * (profit + n) <= n * nav
  <2>1. n * (gain + unit) <= n * nav
    BY <1>1, <1>2, <1>3
  <2>2. n * (gain + unit) = n * gain + unit * n
    BY <1>1, <1>3
  <2>3. unit * (profit + n) = unit * profit + unit * n
    BY <1>1, <1>4
  <2>4. n * gain \in Int /\ unit * n \in Int /\ n * nav \in Int /\ unit * profit \in Int
    BY <1>1, <1>2, <1>3, <1>4
  <2> QED
    BY <1>4, <2>1, <2>2, <2>3, <2>4
<1>7. unit * (supply * (profit + n)) <= unit * (n * assets)
  <2>1. supply * (unit * (profit + n)) <= supply * (n * nav)
    <3> DEFINE x == unit * (profit + n)
               y == n * nav
    <3>1. x \in Int /\ y \in Int /\ x <= y
      BY <1>1, <1>2, <1>4, <1>6
    <3> HIDE DEF x, y
    <3>2. supply * x <= supply * y
      BY <3>1
    <3> QED
      BY <3>2 DEF x, y
  <2>2. n * (supply * nav) <= n * (assets * unit)
    <3> DEFINE x == supply * nav
               y == assets * unit
    <3>1. x \in Int /\ y \in Int /\ x <= y
      BY <1>1, <1>2
    <3> HIDE DEF x, y
    <3>2. n * x <= n * y
      BY <3>1
    <3> QED
      BY <3>2 DEF x, y
  <2>3. supply * (unit * (profit + n)) = unit * (supply * (profit + n))
    BY <1>1, <1>4
  <2>4. supply * (n * nav) = n * (supply * nav)
    BY <1>2
  <2>5. n * (assets * unit) = unit * (n * assets)
    BY <1>1
  <2>6. /\ supply * (unit * (profit + n)) \in Int /\ n * (supply * nav) \in Int
        /\ n * (assets * unit) \in Int
    BY <1>1, <1>2, <1>4
  <2> QED
    BY <2>1, <2>2, <2>3, <2>4, <2>5, <2>6
<1>8. supply * (profit + n) <= n * assets
  <2> DEFINE x == supply * (profit + n)
             y == n * assets
  <2>1. x \in Int /\ y \in Int
    BY <1>4
  <2> HIDE DEF x, y
  <2>2. unit * x <= unit * y
    BY <1>7 DEF x, y
  <2>3. ASSUME x > y PROVE FALSE
    <3>1. unit * x >= unit * (y + 1)
      BY <1>1, <2>1, <2>3
    <3>2. unit * (y + 1) = unit * y + unit
      BY <1>1, <2>1
    <3>3. unit * x \in Int /\ unit * y \in Int
      BY <1>1, <2>1
    <3> QED
      BY <1>1, <2>2, <3>1, <3>2, <3>3
  <2>4. x <= y
    BY <2>1, <2>3
  <2> QED
    BY <2>4 DEF x, y
<1>9. ASSUME profit + n >= gross + 1
      PROVE  FALSE
  <2>1. supply * (profit + n) >= supply * (gross + 1)
    BY <1>4, <1>5, <1>9
  <2>2. supply * (gross + 1) = supply * gross + supply
    BY <1>5
  <2>3. supply * (profit + n) \in Int /\ supply * gross \in Int /\ n * assets \in Int
    BY <1>4, <1>5
  <2> QED
    BY <1>5, <1>8, <2>1, <2>2, <2>3
<1>10. profit + n <= gross
  BY <1>4, <1>5, <1>9
<1> QED
  BY <1>10 DEF profit, gross, gain, nav, unit

(* Both fees together never exceed what is exited with. *)
LEMMA FeesWithinWorth ==
  ASSUME LpFeesModest, VaultsTypeOK, LpTypeOK, SharesInv, NEW n \in Nat
  PROVE  /\ ExitGross(n) \in Nat /\ ExitPerformance(n) \in Nat /\ ExitCharge(n) \in Nat
         /\ ExitPerformance(n) + ExitCharge(n) <= ExitGross(n)
         /\ n <= lpTokenSupply => ExitGross(n) <= aum
<1> DEFINE nav    == NavPerShare(aum, lpTokenSupply)
           gross  == ExitGross(n)
           perf   == ExitPerformance(n)
           exit   == ExitCharge(n)
           profit == MulDivFloor(n, nav - highWaterMark, QuotePrecision)
<1>1. /\ aum \in Nat /\ lpTokenSupply \in Nat /\ highWaterMark \in Nat
      /\ highWaterMark >= QuotePrecision
      /\ Bps \in Nat \ {0} /\ QuotePrecision \in Nat \ {0}
      /\ ExitFeeBps \in Nat /\ PerformanceBps \in Nat
      /\ 2 * ExitFeeBps <= Bps /\ 2 * PerformanceBps <= Bps
  BY LpAssumption, ScalesAssumption DEF VaultsTypeOK, LpTypeOK, SharesInv, LpFeesModest
<1>2. nav \in Nat
  BY <1>1, NavTyped
<1>3. /\ gross \in Nat
      /\ n # 0 /\ lpTokenSupply # 0 => gross = MulDivFloor(n, aum, lpTokenSupply)
      /\ n <= lpTokenSupply => gross <= aum
  <2>1. CASE n = 0 \/ lpTokenSupply = 0
    <3>1. gross = 0
      BY <2>1 DEF ExitGross, UsdcForShares
    <3> QED
      BY <1>1, <2>1, <3>1
  <2>2. CASE ~ (n = 0 \/ lpTokenSupply = 0)
    <3>1. gross = MulDivFloor(n, aum, lpTokenSupply)
      BY <2>2 DEF ExitGross, UsdcForShares
    <3>2. lpTokenSupply \in Nat \ {0} /\ n * aum = aum * n
      BY <1>1, <2>2
    <3>3. gross \in Nat
      BY <1>1, <3>1, <3>2, FloorNat
    <3>4. MulDivFloor(n, aum, lpTokenSupply) = MulDivFloor(aum, n, lpTokenSupply)
      BY <3>2 DEF MulDivFloor
    <3>5. n <= lpTokenSupply => gross <= aum
      BY <1>1, <3>1, <3>2, <3>4, FloorNat
    <3> QED
      BY <3>1, <3>3, <3>5
  <2> QED
    BY <2>1, <2>2
<1>4. exit \in Nat /\ 2 * exit <= gross + 1 /\ (gross = 0 => exit = 0)
  <2>1. ASSUME gross # 0
        PROVE  /\ MulDivCeil(gross, ExitFeeBps, Bps) \in Nat
               /\ 2 * MulDivCeil(gross, ExitFeeBps, Bps) <= gross + 1
    <3>1. gross \in Nat /\ ExitFeeBps \in Nat /\ Bps \in Nat \ {0} /\ 2 * ExitFeeBps <= Bps
      BY <1>1, <1>3
    <3> HIDE DEF gross
    <3> QED
      BY <3>1, HalfCeil
  <2>2. exit = 0 \/ (gross # 0 /\ exit = MulDivCeil(gross, ExitFeeBps, Bps))
    BY DEF ExitCharge, ExitFee
  <2> HIDE DEF gross, exit
  <2> QED
    BY <1>3, <2>1, <2>2
<1>5. perf \in Nat /\ (perf = 0 \/ 2 * perf <= gross)
  <2>1. CASE n = 0 \/ PerformanceBps = 0 \/ nav <= highWaterMark
    <3>1. perf = 0
      BY <2>1 DEF ExitPerformance, PerformanceFee
    <3> QED
      BY <3>1
  <2>2. CASE ~ (n = 0 \/ PerformanceBps = 0 \/ nav <= highWaterMark)
    <3>1. perf = MulDivCeil(profit, PerformanceBps, Bps)
      BY <2>2 DEF ExitPerformance, PerformanceFee
    <3>2. nav > highWaterMark /\ nav - highWaterMark \in Nat /\ n \in Nat \ {0}
      <4> HIDE DEF nav
      <4> QED
        BY <1>1, <1>2, <2>2
    <3>3. lpTokenSupply # 0
      <4>1. lpTokenSupply = 0 => nav = QuotePrecision
        BY DEF NavPerShare
      <4> HIDE DEF nav
      <4> QED
        BY <1>1, <1>2, <3>2, <4>1
    <3>4. profit \in Nat
      <4> HIDE DEF nav
      <4> QED
        BY <1>1, <3>2, FloorNat
    <3>5. profit + n <= gross
      <4>1. lpTokenSupply \in Nat \ {0}
        BY <1>1, <3>3
      <4>2. gross = MulDivFloor(n, aum, lpTokenSupply)
        BY <1>3, <3>2, <3>3
      <4> QED
        BY <1>1, <3>2, <4>1, <4>2, GainWithinWorth
    <3> HIDE DEF profit, nav, gross
    <3>6. MulDivCeil(profit, PerformanceBps, Bps) \in Nat
          /\ 2 * MulDivCeil(profit, PerformanceBps, Bps) <= profit + 1
      BY <1>1, <3>4, HalfCeil
    <3> HIDE DEF perf
    <3>7. profit + 1 <= gross
      BY <1>3, <3>2, <3>4, <3>5
    <3> QED
      BY <1>3, <3>1, <3>4, <3>6, <3>7
  <2> QED
    BY <2>1, <2>2
<1> HIDE DEF gross, perf, exit
<1>6. perf + exit <= gross
  BY <1>3, <1>4, <1>5
<1> QED
  BY <1>3, <1>4, <1>5, <1>6 DEF gross, perf, exit

LEMMA ExitPayable ==
  ASSUME LpFeesModest, VaultsTypeOK, LpTypeOK, Mirrored, SharesInv
  PROVE  MaturedExitSettles
<1> SUFFICES ASSUME NEW q \in Providers, shares[q] >= request[q].shares
             PROVE  Payable(request[q].shares)
  BY DEF MaturedExitSettles
<1> DEFINE n     == request[q].shares
           gross == ExitGross(n)
           perf  == ExitPerformance(n)
           exit  == ExitCharge(n)
<1>1. n \in Nat /\ lpTokenSupply \in Nat /\ shares[q] \in Nat /\ aum \in Nat /\ lpVault = aum
  BY DEF LpTypeOK, VaultsTypeOK, Mirrored, PoolBacked
<1>2. n <= lpTokenSupply
  <2>1. shares \in [1..NProviders -> Nat] /\ NProviders \in Nat /\ q \in 1..NProviders
    BY PartiesAssumption DEF LpTypeOK, Providers
  <2>2. shares[q] <= SumTo(shares, NProviders)
    BY <2>1, SumNat
  <2> HIDE DEF n
  <2> QED
    BY <1>1, <2>2 DEF SharesInv, n
<1> HIDE DEF n
<1>3. /\ gross \in Nat /\ perf \in Nat /\ exit \in Nat
      /\ perf + exit <= gross /\ gross <= aum
  BY <1>1, <1>2, FeesWithinWorth
<1>4. ExitPayout(n) = gross - perf - exit
  BY DEF ExitPayout
<1> HIDE DEF gross, exit
<1>5. ExitPayout(n) \in Nat /\ ExitPayout(n) + perf <= aum
  BY <1>1, <1>3, <1>4
<1>6. Payable(n)
  BY <1>1, <1>2, <1>5 DEF Payable
<1> QED
  BY <1>6 DEF n

LEMMA SharesMoved ==
  ASSUME LpTypeOK, NEW q \in Providers, NEW v \in Int
  PROVE  /\ SumTo([shares EXCEPT ![q] = v], NProviders)
              = SumTo(shares, NProviders) - shares[q] + v
         /\ SumTo(shares, NProviders) \in Int
  <1>1. shares \in [1..NProviders -> Int] /\ NProviders \in Nat /\ q \in 1..NProviders
    BY PartiesAssumption DEF LpTypeOK, Providers
  <1> QED
    BY <1>1, SumUpdate, SumInt

LEMMA LpShares ==
  ASSUME VaultsTypeOK, LpTypeOK, LpTypeOK', SharesInv, LpNext
  PROVE  SharesInv'
<1>1. PICK q \in Providers :
        \/ \E amount \in LpDeposits : AddLiquidity(q, amount)
        \/ \E amount \in LpRequests : RequestRemoveLiquidity(q, amount)
        \/ CooldownElapses(q)
        \/ CancelRemoveLiquidity(q)
        \/ RemoveLiquidity(q)
        \/ \E to \in Providers, amount \in LpRequests : TransferShares(q, to, amount)
  BY DEF LpNext
<1>2. /\ lpTokenSupply \in Nat /\ highWaterMark \in Nat /\ shares[q] \in Nat
      /\ highWaterMark >= QuotePrecision /\ QuotePrecision \in Nat
      /\ request[q].shares \in Nat /\ SumTo(shares, NProviders) = lpTokenSupply
  BY ScalesAssumption DEF LpTypeOK, SharesInv
<1>3. ASSUME NEW v \in Int, shares' = [shares EXCEPT ![q] = v],
             lpTokenSupply' = lpTokenSupply - shares[q] + v, highWaterMark' >= highWaterMark
      PROVE  SharesInv'
  <2>1. SumTo(shares', NProviders) = lpTokenSupply'
    BY <1>2, <1>3, SharesMoved
  <2> QED
    BY <1>2, <1>3, <2>1 DEF SharesInv, LpTypeOK
<1>4. ASSUME NEW amount \in LpDeposits, AddLiquidity(q, amount)
      PROVE  SharesInv'
  <2> DEFINE minted == SharesForDeposit(amount, aum, lpTokenSupply)
  <2>1. /\ shares' = [shares EXCEPT ![q] = shares[q] + minted]
        /\ lpTokenSupply' = lpTokenSupply + minted /\ highWaterMark' = highWaterMark
    BY <1>4 DEF AddLiquidity
  <2>2. minted \in Int
    <3>1. amount \in Nat /\ aum \in Nat /\ lpTokenSupply \in Nat
      BY LpAssumption DEF VaultsTypeOK, LpTypeOK
    <3>2. aum # 0 => MulDivFloor(amount, lpTokenSupply, aum) \in Nat
      <4>1. aum # 0 => aum \in Nat \ {0}
        BY <3>1
      <4> QED
        BY <3>1, <4>1, FloorNat
    <3> QED
      BY <3>1, <3>2 DEF SharesForDeposit
  <2> HIDE DEF minted
  <2>3. shares[q] + minted \in Int
        /\ lpTokenSupply' = lpTokenSupply - shares[q] + (shares[q] + minted)
    BY <1>2, <2>1, <2>2
  <2>4. highWaterMark' >= highWaterMark
    BY <1>2, <2>1
  <2> QED
    BY <1>3, <2>1, <2>3, <2>4
<1>5. ASSUME RemoveLiquidity(q)
      PROVE  SharesInv'
  <2> DEFINE n == request[q].shares
  <2>1. /\ shares' = [shares EXCEPT ![q] = shares[q] - n]
        /\ lpTokenSupply' = lpTokenSupply - n
        /\ \E nav : highWaterMark' = Greater(highWaterMark, nav)
    BY <1>5 DEF RemoveLiquidity
  <2>2. highWaterMark' >= highWaterMark
    BY <1>2, <2>1 DEF Greater, LpTypeOK
  <2> HIDE DEF n
  <2>3. shares[q] - n \in Int
        /\ lpTokenSupply' = lpTokenSupply - shares[q] + (shares[q] - n)
    BY <1>2, <2>1 DEF n
  <2> QED
    BY <1>3, <2>1, <2>2, <2>3
<1>6. ASSUME NEW to \in Providers, NEW amount \in LpRequests, TransferShares(q, to, amount)
      PROVE  SharesInv'
  <2> DEFINE sent == [shares EXCEPT ![q] = shares[q] - amount]
             kept == shares[q] - amount
             got  == shares[to] + amount
  <2>1. /\ amount \in Nat /\ q # to /\ shares[to] \in Nat /\ shares[q] >= amount
        /\ UNCHANGED <<lpTokenSupply, highWaterMark>>
        /\ shares' = [shares EXCEPT ![q] = @ - amount, ![to] = @ + amount]
    BY <1>6, LpAssumption DEF TransferShares, LpTypeOK
  <2>2. shares' = [sent EXCEPT ![to] = got] /\ sent[to] = shares[to]
    BY <2>1 DEF LpTypeOK
  <2>3. kept \in Int /\ got \in Int
    BY <1>2, <2>1
  <2>4. sent \in [1..NProviders -> Int] /\ NProviders \in Nat /\ to \in 1..NProviders
    BY <2>3, PartiesAssumption DEF LpTypeOK, Providers
  <2>5. SumTo(sent, NProviders) = lpTokenSupply - shares[q] + kept
    BY <1>2, <2>3, SharesMoved
  <2> HIDE DEF sent, got
  <2>6. SumTo(shares', NProviders) = SumTo(sent, NProviders) - sent[to] + got
    BY <2>2, <2>3, <2>4, SumUpdate
  <2> QED
    BY <1>2, <2>1, <2>2, <2>3, <2>5, <2>6 DEF SharesInv, got
<1>7. ASSUME UNCHANGED <<shares, lpTokenSupply, highWaterMark>>
      PROVE  SharesInv'
  BY <1>7 DEF SharesInv
<1> QED
  BY <1>1, <1>4, <1>5, <1>6, <1>7
     DEF RequestRemoveLiquidity, CooldownElapses, CancelRemoveLiquidity

(* An exit whose cooldown has passed passes every check of                 *)
(* remove_liquidity, for every number of providers and whatever trades,    *)
(* losses, other exits and transfers of shares came before, if neither fee *)
(* is above half: both are taken from the same amount, each rounded up.    *)
THEOREM MaturedExitAlwaysSettles ==
  ASSUME LpFeesModest
  PROVE  Spec => []MaturedExitSettles
<1>1. Init => SharesInv
  <2> SUFFICES ASSUME Init PROVE SharesInv
    OBVIOUS
  <2>1. /\ lpTokenSupply = 0 /\ highWaterMark = QuotePrecision
        /\ shares = [q \in 1..NProviders |-> 0] /\ NProviders \in Nat
    BY PartiesAssumption DEF Init, LpInit, Providers
  <2>2. SumTo(shares, NProviders) = 0
    BY <2>1, SumZero
  <2> QED
    BY <2>1, <2>2, ScalesAssumption DEF SharesInv
<1>2. IInv /\ IInv' /\ SharesInv /\ [Next]_vars => SharesInv'
  <2> SUFFICES ASSUME IInv, IInv', SharesInv, [Next]_vars PROVE SharesInv'
    OBVIOUS
  <2>1. CASE LpNext
    BY <2>1, LpShares DEF IInv, TypeOK
  <2>2. CASE UNCHANGED lpVars
    BY <2>2 DEF SharesInv, lpVars
  <2> QED
    BY <2>1, <2>2 DEF Next, vars, lpVars
<1>3. IInv /\ SharesInv => MaturedExitSettles
  BY ExitPayable DEF IInv, TypeOK
<1> QED
  BY <1>1, <1>2, <1>3, SpecIInv, PTL DEF Spec
=============================================================================
