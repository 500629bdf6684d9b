------------------------------- MODULE Sizing -------------------------------
(***************************************************************************)
(* core/risk_manager.py: how many lots a trade gets, and the independent   *)
(* check of that number.                                                   *)
(*                                                                         *)
(* Money, prices and lots are whole numbers: lots are counted in steps of  *)
(* the broker (volume_step), a price step is worth LotValue per lot step.  *)
(* Risk is counted in sixteenths of a percent, a multiplier in quarters.   *)
(***************************************************************************)
EXTENDS Integers

CONSTANTS
    BaseRisk,       \* risk.risk_per_trade_pct
    MaxRisk,        \* risk.max_risk_per_trade_pct
    Increment,      \* compounding.scale_up_increment
    Ceiling,        \* compounding.max_risk_per_trade
    ScaleUp,        \* compounding.scale_up_at_pct
    ResetDD,        \* drawdown that ends the compounding, in percent (10)
    RecoveryDD,     \* drawdown that calls for small trades, in percent (5)
    After2, After3, HighAtr, Recovery,  \* adaptive_sizing, in quarters
    LotValue,       \* point_value_per_lot
    MinLot, MaxLot, \* risk.min_lot_size and max_lot_size, within the broker's
    HardCeiling,    \* sanity_check.max_lot_hard_ceiling
    MaxSanePct      \* sanity_check.max_risk_pct_per_position

ASSUME SizingAssumption ==
    /\ BaseRisk \in Nat /\ MaxRisk \in Nat /\ Increment \in Nat /\ Ceiling \in Nat
    /\ BaseRisk <= Ceiling
    /\ ScaleUp \in Nat \ {0} /\ ResetDD \in 0..100 /\ RecoveryDD \in 0..100
    /\ After2 \in 0..4 /\ After3 \in 0..4 /\ HighAtr \in 0..4 /\ Recovery \in 0..4
    /\ LotValue \in Nat \ {0}
    /\ MinLot \in Nat \ {0} /\ MaxLot \in Nat /\ HardCeiling \in Nat /\ MaxSanePct \in Nat

Smaller(a, b) == IF a <= b THEN a ELSE b

(* Is bal at least pct percent below the peak? *)
DrawdownOf(peak, bal, pct) == peak > 0 /\ (peak - bal) * 100 >= pct * peak

(* Mutant: steps of the loss, too *)
MilestonesBothWays(bal, base) ==
    ((IF bal <= base THEN base - bal ELSE bal - base) * 100) \div (base * ScaleUp)

(* Steps of the compounding: int(gain / scale_up_at_pct) *)
Milestones(bal, base) == IF bal <= base THEN 0 ELSE ((bal - base) * 100) \div (base * ScaleUp)

(* _effective_risk_pct *)
EffectiveRisk(bal, base, peak) ==
    IF DrawdownOf(peak, bal, ResetDD) \/ Milestones(bal, base) = 0 THEN BaseRisk
    ELSE Smaller(BaseRisk + Milestones(bal, base) * Increment, Ceiling)

(* _adaptive_multiplier: the most conservative one wins *)
LossMultiplier(losses) == IF losses >= 3 THEN After3 ELSE IF losses >= 2 THEN After2 ELSE 4
Multiplier(bal, peak, losses, wild) ==
    Smaller(LossMultiplier(losses),
        Smaller(IF wild THEN HighAtr ELSE 4,
                IF DrawdownOf(peak, bal, RecoveryDD) THEN Recovery ELSE 4))

(* The share of the balance to be risked, in parts of 6400 *)
RiskShare(bal, base, peak, losses, wild) ==
    Smaller(EffectiveRisk(bal, base, peak) * Multiplier(bal, peak, losses, wild), 4 * MaxRisk)

(* Mutant: the lot is rounded up *)
LotUp(bal, base, peak, losses, wild, distance) ==
    LET raw == (bal * RiskShare(bal, base, peak, losses, wild)) \div (6400 * distance * LotValue)
        lot == Smaller(raw + 1, MaxLot)
    IN IF lot < MinLot THEN 0 ELSE lot

(* Mutant: the lot is not kept below the largest one *)
LotUnclamped(bal, base, peak, losses, wild, distance) ==
    LET raw == (bal * RiskShare(bal, base, peak, losses, wild)) \div (6400 * distance * LotValue)
    IN IF raw < MinLot THEN 0 ELSE raw

(* calculate_position_size: rounded down, 0 when less than the least lot *)
Lot(bal, base, peak, losses, wild, distance) ==
    LET raw == (bal * RiskShare(bal, base, peak, losses, wild)) \div (6400 * distance * LotValue)
        lot == Smaller(raw, MaxLot)
    IN IF lot < MinLot THEN 0 ELSE lot

(* sanity_check_lot *)
Sane(lot, bal, distance) ==
    lot > 0 /\ lot <= HardCeiling /\ lot * distance * LotValue * 100 <= MaxSanePct * bal
=============================================================================
