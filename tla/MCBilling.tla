----------------------------- MODULE MCBilling -----------------------------
(***************************************************************************)
(* Billing.tla for TLC.  Billing.cfg has two handlers at a time, a free    *)
(* and a paid period, a retry by the owner, slow payments, events, one     *)
(* restart or lost answer, and a platform that may lift a suspension.      *)
(* BillingTwice.cfg shows a disagreement with a comment, one handler at a  *)
(* time.                                                                   *)
(***************************************************************************)
EXTENDS Billing, TLC

\* The trial month has nothing to collect.
MCFree == {0}

Symmetric == Permutations(Process)
=============================================================================
