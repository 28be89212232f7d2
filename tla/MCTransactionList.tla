------------------------- MODULE MCTransactionList -------------------------
(* A small instance of TransactionList for TLC. *)
EXTENDS TransactionList

\* With a limit of one dollar: at the limit, just under and just over half a
\* cent more, in dollars and in a currency worth less and one worth more; and a
\* currency without a rate.
MCQuotes ==
    {<<1000, "USD">>, <<1004, "USD">>, <<1005, "USD">>, <<1105499, "KRW">>, <<1105500, "KRW">>,
     <<717, "GBP">>, <<718, "GBP">>, <<22000000, "VND">>, <<1, "JPY">>}

\* With the limit of the code: USD 5000, and four and ten thousandths more.
MCDollarQuotes == {<<5000000, "USD">>, <<5000004, "USD">>, <<5000010, "USD">>}
=============================================================================
