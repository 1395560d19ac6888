---------------------------- MODULE UniverseScan ----------------------------
(***************************************************************************)
(* The daily scan behind the approval row: the pool is evaluated symbol by *)
(* symbol (bot/universe/scanner.py, criteria.py), ranked, handed to Claude *)
(* (bot/universe/selector.py) and stored by the engine.  It implements the *)
(* engine of UniverseApproval, which takes any candidates and any choice.  *)
(*                                                                         *)
(* A stock is what the bars of a symbol come to: whether the provider has  *)
(* usable bars, the last close and the mean volume of 20 days (NaN for no  *)
(* number), whether the bars suffice for every indicator, and the criteria *)
(* it meets.  Scores are the raw points, which the percentage keeps in     *)
(* order.  Pool symbols are upper case, UNIVERSE_MAX_SYMBOLS is positive.  *)
(***************************************************************************)
EXTENDS UniverseApproval, Sequences, SequencesExt

CONSTANTS Pool,      \* symbols of UNIVERSE_POOL, in its order
          Stocks,    \* what the bars of a symbol may come to
          NaN,
          MinPrice, MaxPrice, MinVolume,  \* UNIVERSE_MIN_PRICE, ...
          Size,      \* UNIVERSE_MAX_SYMBOLS
          Answers    \* names Claude may answer with; <<>> is no or no valid answer

ASSUME PoolAssumption == Pool \in Seq(Symbols) /\ Size \in Nat \ {0}
ASSUME AnswersAssumption == Answers \subseteq Seq(STRING) /\ <<>> \in Answers

VARIABLES
    at,        \* position in the pool while a scan runs; 0 otherwise
    found,     \* results of the scan: symbol and score
    watchlist, \* _watchlist as the scan leaves it
    \* history
    market,    \* stocks of the running scan, by their position in the pool
    named      \* names of Claude's answer to the running scan

scanVars == <<at, found, watchlist, market, named>>

InitScan == Init /\ at = 0 /\ found = <<>> /\ watchlist = <<>> /\ market = <<>> /\ named = <<>>

-----------------------------------------------------------------------------
(* Criteria. *)

Core == {"ema9", "sma50", "sma200", "ema9Rising", "sma50Rising", "structure", "volume"}

\* The points a criterion is worth; "structure", higher highs and lows, is worth 15.
Tens == (Core \ {"structure"}) \cup {"resistance", "momentum"}
Fives == {"candles", "wicks", "pullback"}

\* score_candidate: too few bars, or an indicator that is no number, score zero.
Score(stock) ==
    IF stock.enough /\ stock.volume # NaN
    THEN 10 * Cardinality(stock.meets \cap Tens) + 5 * Cardinality(stock.meets \cap Fives)
         + (IF "structure" \in stock.meets THEN 15 ELSE 0)
    ELSE 0

\* _evaluate_symbol: comparisons with NaN are false, so the price filter drops it
\* and the volume filter lets it pass.
Passes(stock) ==
    /\ stock.bars
    /\ stock.price # NaN /\ MinPrice <= stock.price /\ stock.price <= MaxPrice
    /\ stock.volume = NaN \/ stock.volume >= MinVolume

\* Mutant: the lowest score first.
Ranked_ascending(results) == SortSeq(results, LAMBDA a, b : a.score < b.score)

\* The results the stable sort by score, best first, puts before the i-th.
Above(results, i) ==
    {j \in DOMAIN results :
        \/ results[j].score > results[i].score
        \/ results[j].score = results[i].score /\ j < i}

Ranked(results) ==
    [k \in DOMAIN results |->
        results[CHOOSE i \in DOMAIN results : Cardinality(Above(results, i)) = k - 1]]

-----------------------------------------------------------------------------
(* The scan. *)

StartScan ==
    /\ engine = "idle" /\ at = 0 /\ scans < MaxScans
    /\ at' = 1 /\ found' = <<>> /\ market' = <<>>
    /\ UNCHANGED <<vars, watchlist, named>>

\* The next symbol; one whose fetch or evaluation raises is skipped.
Evaluate ==
    /\ at \in DOMAIN Pool
    /\ \E stock \in Stocks :
          /\ market' = Append(market, stock)
          /\ found' = IF Passes(stock)
                      THEN Append(found, [symbol |-> Pool[at], score |-> Score(stock)])
                      ELSE found
    /\ at' = at + 1
    /\ UNCHANGED <<vars, watchlist, named>>

\* The settings of the scan cannot be read: nothing is traded.
ScanFails ==
    /\ at = 1 /\ engine = "idle"
    /\ at' = 0 /\ watchlist' = <<>>
    /\ UNCHANGED <<vars, found, market, named>>

\* The results are ranked; the approval mode is read.
EndScan ==
    /\ at = Len(Pool) + 1
    /\ found' = Ranked(found)
    /\ EngineMode
    /\ UNCHANGED <<at, watchlist, market, named>>

-----------------------------------------------------------------------------
(* The selection. *)

Names(results) == [k \in DOMAIN results |-> results[k].symbol]
Best(list, n) == SubSeq(list, 1, IF Len(list) < n THEN Len(list) ELSE n)
Top == Best(Names(found), Size)

\* Score-based order: all in approval mode, else the best.
Fallback == IF scanMode = "approval" THEN Top ELSE Best(Top, 1)

\* The names of the list that the set has, in the list's order.
Kept(list, set) ==
    LET kept == {i \in DOMAIN list : list[i] \in set}
    IN  [k \in 1..Cardinality(kept) |->
            list[CHOOSE i \in kept : Cardinality({j \in kept : j < i}) = k - 1]]

\* Mutant: Claude's names are taken as they are.
Selection_unchecked(answer) == IF answer = <<>> \/ Top = <<>> THEN Fallback ELSE answer

\* select(): names that are no candidates are dropped; without a client, a
\* working call or a valid name the scores decide.
Selection(answer) ==
    LET valid == Kept(answer, ToSet(Top))
    IN  IF valid = <<>> THEN Fallback ELSE valid

First(list) == IF list = <<>> THEN "none" ELSE list[1]

\* Claude's answer arrives; in autonomous mode it is traded at once.
Select ==
    /\ \E answer \in Answers :
          LET chosen == Selection(answer) IN
          /\ EngineRead(ToSet(Names(found)), First(chosen))
          /\ watchlist' = IF scanMode = "approval" THEN <<>> ELSE chosen
          /\ named' = answer
    /\ UNCHANGED <<at, found, market>>

\* The selector raises: the best Size by score are traded, in approval mode too,
\* and no row is stored.
SelectRaises ==
    /\ engine = "select" /\ EngineRollback
    /\ watchlist' = Top
    /\ at' = 0 /\ found' = <<>> /\ market' = <<>> /\ named' = <<>>

\* The candidates die with the call, whatever becomes of the row.
Store ==
    /\ engine = "write" /\ (EngineCommit \/ EngineRollback)
    /\ at' = 0 /\ found' = <<>> /\ market' = <<>> /\ named' = <<>>
    /\ UNCHANGED watchlist

\* The process dies; the next one starts with an empty list.
Crash ==
    /\ IF engine = "idle" THEN UNCHANGED vars ELSE EngineRollback
    /\ at # 0 /\ at' = 0 /\ found' = <<>> /\ market' = <<>> /\ named' = <<>>
    /\ watchlist' = <<>>

Scan == StartScan \/ Evaluate \/ ScanFails \/ EndScan \/ Select \/ SelectRaises \/ Store \/ Crash
Others == (Web \/ SetMode) /\ UNCHANGED scanVars

ScanSpec == InitScan /\ [][Scan \/ Others]_<<vars, scanVars>>

-----------------------------------------------------------------------------
(* Properties. *)

\* Positions of the pool whose stock passed the filters, and how many of them
\* the scan has to rank above position k.
Eligible == {k \in DOMAIN market : Passes(market[k])}
Better(k) == {j \in Eligible : \/ Score(market[j]) > Score(market[k])
                               \/ Score(market[j]) = Score(market[k]) /\ j < k}

\* What the engine is about to store are the symbols that passed the filters, all
\* of them; what it trades without asking the user is the one best of them by
\* score, or, whatever Claude has answered, names of its answer that are among the
\* best Size of them; the row records the first (scanner.py:161-211,
\* selector.py:56-112, 199-249, engine.py:344-386).  It is not, as selector.py:73
\* and seed.py:71-78 say, always the single best symbol: Claude's answer may name
\* others, and several.
SelectionSound == engine = "write" =>
    /\ new.candidates = {Pool[k] : k \in Eligible}
    /\ Eligible # {} => watchlist # <<>> \/ scanMode = "approval"
    /\ new.selected = First(watchlist)
    /\ \A i \in DOMAIN watchlist :
          \E k \in Eligible : Pool[k] = watchlist[i] /\ Cardinality(Better(k)) < Size
    /\ \/ ToSet(watchlist) \subseteq ToSet(named)
       \/ \E k \in Eligible : watchlist = <<Pool[k]>> /\ Better(k) = {}

\* The scan is an engine of UniverseApproval: what is proved of its row holds.
ScanImplements == Spec

=============================================================================
