--------------------------- MODULE TierCalculator ---------------------------
(***************************************************************************)
(* tier-calculator.util.ts: what a user's row and subscriptions are worth  *)
(* at a moment, and the limits that go with it.  The functions that no     *)
(* request calls are left out.                                             *)
(***************************************************************************)
EXTENDS Integers

UserTier == {"free", "premium"}

(* What billing stores: nothing in src writes these rows.                  *)
Subscription(Times) == [status : {"active", "canceled"}, startAt : Times, endAt : Times]

(* Variant: the end of the period is not looked at.                        *)
hasSubscription(subscriptions, time) ==
  \E sub \in subscriptions : sub.status = "active" /\ sub.startAt <= time

hasActiveSubscription(subscriptions, time) ==
  \E sub \in subscriptions :
    sub.status = "active" /\ sub.startAt <= time /\ time < sub.endAt

(* The stored tier is never lowered by the end of a subscription: the two  *)
(* are alternatives.                                                       *)
calculateUserTier(tier, subscriptions, time) ==
  IF hasActiveSubscription(subscriptions, time) \/ tier = "premium"
  THEN "premium" ELSE "free"

getInputLimitByTier(tier) ==
  CASE tier = "guest"   -> 150
    [] tier = "free"    -> 300
    [] tier = "premium" -> 600
=============================================================================
