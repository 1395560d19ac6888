--------------------------- MODULE MCUniverseScan ---------------------------
(* The scan and the approval row on small instances. *)
EXTENDS UniverseScan

MCPool == <<"AAPL", "MSFT", "NVDA">>

Stock(price, volume, enough, meets) ==
    [bars |-> TRUE, price |-> price, volume |-> volume, enough |-> enough, meets |-> meets]

\* No bars; a price above the filter; too little volume; a young stock; no
\* number for the volume; all core criteria; all but one of them and a bonus
\* that makes up for it.
MCStocks == {
    [Stock(5, 5, TRUE, {}) EXCEPT !.bars = FALSE],
    Stock(10, 5, TRUE, Core \cup Tens \cup Fives),
    Stock(5, 4, TRUE, Core \cup Tens \cup Fives),
    Stock(5, 5, FALSE, Core),
    Stock(9, NaN, TRUE, Core),
    Stock(9, 5, TRUE, Core),
    Stock(5, 5, TRUE, (Core \ {"ema9"}) \cup {"momentum"})}

\* No valid answer; one name, also of no candidate; two names, one of them twice.
MCAnswers == {<<>>, <<"MSFT">>, <<"NVDA">>, <<"TSLA", "AAPL">>, <<"NVDA", "MSFT">>, <<"AAPL", "AAPL">>}
=============================================================================
