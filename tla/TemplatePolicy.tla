--------------------------- MODULE TemplatePolicy ---------------------------
(***************************************************************************)
(* template-policy.config.ts: how many templates a tier stores for free    *)
(* and what the next one costs.                                            *)
(***************************************************************************)
EXTENDS Integers

CONSTANT FreeCount   \* free and premium: templates stored without credit

ASSUME FreeCountIsNat == FreeCount \in Nat

Tier == {"guest", "free", "premium", "subscription"}

(* creditCostPerTemplate of the tiers that may pay                         *)
Cost == 1

(* Variant: the limit is compared with <=.                                 *)
UpToFreeCount(tier, count) ==
  CASE tier = "guest"        -> count <= 1
    [] tier = "subscription" -> TRUE
    [] OTHER                 -> count <= FreeCount

UnderFreeCount(tier, count) ==
  CASE tier = "guest"        -> count < 1
    [] tier = "subscription" -> TRUE             \* freeCount: Infinity
    [] OTHER                 -> count < FreeCount

(* Variant: the balance is not looked at.                                  *)
MayPayAlways(tier, credit) == tier \in {"free", "premium"} /\ credit = credit

MayPay(tier, credit) == tier \in {"free", "premium"} /\ credit >= Cost

canCreateTemplate(tier, count, credit) ==
  [allowed |-> UnderFreeCount(tier, count) \/ MayPay(tier, credit),
   cost    |-> IF UnderFreeCount(tier, count) \/ tier = "guest" THEN 0 ELSE Cost]
=============================================================================
