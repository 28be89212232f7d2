------------------------ MODULE MCTransactionStatus ------------------------
(* Small instances of TransactionStatus for TLC. *)
EXTENDS TransactionStatus, TLC

CONSTANTS u1, u2, c1, c2

New == [status |-> "CREATED", compliance |-> "PENDING", paid |-> FALSE, sent |-> FALSE]

\* A new row; one about to be paid; one in processing while its report is
\* still open; one that was sent and then marked FAILED.
MCStartRows ==
    {New,
     [New EXCEPT !.status = "QUOTE_CONFIRMED", !.compliance = "FDS"],
     [status |-> "PROCESSING", compliance |-> "ORIS_REPORTING", paid |-> TRUE, sent |-> FALSE],
     [status |-> "FAILED", compliance |-> "CLEARED", paid |-> TRUE, sent |-> TRUE]}

NewRowOnly == {New}

CallerSymmetry == Permutations(Updaters) \cup Permutations(Cancellers)
=============================================================================
