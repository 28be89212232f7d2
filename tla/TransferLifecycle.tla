------------------------- MODULE TransferLifecycle -------------------------
(***************************************************************************)
(* What the status column of a remittance promises to the customer and to  *)
(* the ledger, without its eleven values: where the money is, and whether  *)
(* compliance had cleared it.  TransactionStatus implements this.          *)
(*                                                                         *)
(*   open      no money has arrived (CREATED, QUOTE_CONFIRMED, EXPIRED)    *)
(*   cancelled the user or an operator called it off before money arrived  *)
(*   funded    money has arrived and is ours to move or to give back       *)
(*   paidout   the beneficiary has been paid                               *)
(*   refunded  the money went back                                         *)
(***************************************************************************)
VARIABLES phase, cleared

Phases == {"open", "cancelled", "funded", "paidout", "refunded"}

\* A transfer met anywhere in its life.
Init == phase \in Phases /\ cleared \in BOOLEAN /\ (phase = "paidout" => cleared)

\* Only money that never arrived can be called off; nothing leaves "cancelled".
Cancel == phase = "open" /\ phase' = "cancelled" /\ UNCHANGED cleared

Fund == phase = "open" /\ phase' = "funded" /\ UNCHANGED cleared

\* The compliance verdict: once given it is not taken back.
Clear == ~ cleared /\ cleared' = TRUE /\ UNCHANGED phase

PayOut == phase = "funded" /\ cleared /\ phase' = "paidout" /\ UNCHANGED cleared

Refund == phase \in {"funded", "paidout"} /\ phase' = "refunded" /\ UNCHANGED cleared

Next == Cancel \/ Fund \/ Clear \/ PayOut \/ Refund

Spec == Init /\ [][Next]_<<phase, cleared>>
=============================================================================
