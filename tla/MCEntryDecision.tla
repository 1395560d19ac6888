-------------------------- MODULE MCEntryDecision --------------------------
(* The entry decision on small instances. *)
EXTENDS EntryDecision
CONSTANTS AAPL, MSFT
SymbolSymmetry == Permutations({AAPL, MSFT})

Config(method, threshold, lossPct, maxLosses) ==
    [method |-> method, minProb |-> threshold, sizePct |-> 5, sizeAmount |-> 10,
     maxPct |-> 20, lossPct |-> lossPct, maxLosses |-> maxLosses]

\* Two thresholds, one of them the fallback: a tick may use one that is not set.
\* A cap that the amount exceeds, with a limit on the run of losses that two
\* trades reach; and a size of kelly below the cap, with a limit on the loss
\* that one trade reaches.
TwoConfigs == {Config("fixed_amount", 40, 40, 2), Config("kelly", 55, 5, 5)}
OneConfig == {Config("fixed_pct", 45, 2, 5)}
=============================================================================
