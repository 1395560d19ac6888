------------------------- MODULE UniverseScan_proofs -------------------------
(***************************************************************************)
(* First the approval row, for any symbols, any use of the approval mode    *)
(* and any number of scans: the row's type, one decision a day, and the     *)
(* refinement of DayDecision.  Then the scan, for any pool, any bars and    *)
(* any answers: it is an engine of that row, and what it stores and trades  *)
(* are the stocks that passed, best score first.                            *)
(***************************************************************************)
EXTENDS UniverseScan, FiniteSetTheorems, SequenceTheorems, TLAPS

\* What the candidates of the row and of the handler's copy have in common.
OfferInv ==
    /\ row.candidates \subseteq offered /\ webRow.candidates \subseteq offered
    /\ web = "write" => ask = "reject" \/ ask \in offered

\* Only the engine inserts the row, so what it has read as missing is missing.
InsertInv == engine = "write" =>
    /\ engineRow.status = "none" <=> row.status = "none"
    /\ new.status # "none"

\* In approval mode the engine never touches status and selection: what it is
\* about to write there equals what it has read.
EngineInv == gated =>
    /\ engine # "idle" => scanMode = "approval"
    /\ engine = "write" =>
          /\ new.status = "pending_approval" /\ new.selected = "none" /\ ~new.decided
          /\ engineRow.status # "autonomous"
          /\ engineRow.status = "pending_approval" => engineRow.selected = "none"

\* ... so a row that the handler has found undecided still is.
WebInv == web = "write" =>
    /\ webRow.status = "pending_approval" /\ row.status # "none"
    /\ gated => webRow.selected = "none" /\ row.status = "pending_approval"

RowInv == gated =>
    /\ mode = "approval" /\ row.status # "autonomous"
    /\ row.status \notin Decided => row.selected = "none"

IInv == TypeOK /\ OfferInv /\ InsertInv /\ EngineInv /\ WebInv /\ RowInv /\ OneDecision

USE ModesAssumption, SymbolsAssumption, ScansAssumption

-----------------------------------------------------------------------------
\* The initial states satisfy the invariant.
LEMMA InitInv == Init => IInv
<1>1. SUFFICES ASSUME Init PROVE IInv
  OBVIOUS
<1>2. NoRow \in RowType
  BY DEF NoRow, RowType
<1>3. TypeOK
  BY <1>1, <1>2 DEF Init, TypeOK
<1>4. OfferInv /\ InsertInv /\ EngineInv /\ WebInv
  BY <1>1 DEF Init, NoRow, OfferInv, InsertInv, EngineInv, WebInv
<1>5. RowInv /\ OneDecision
  BY <1>1 DEF Init, NoRow, RowInv, OneDecision, Decided
<1>6. QED
  BY <1>3, <1>4, <1>5 DEF IInv

\* The read of the mode: in approval mode it is "approval".
LEMMA EngineModeInv == IInv /\ EngineMode => IInv'
<1>1. SUFFICES ASSUME IInv, EngineMode PROVE IInv'
  OBVIOUS
<1>2. TypeOK'
  BY <1>1 DEF IInv, EngineMode, TypeOK, webVars
<1>3. OfferInv' /\ InsertInv' /\ WebInv' /\ RowInv' /\ OneDecision'
  BY <1>1 DEF IInv, EngineMode, webVars, OfferInv, InsertInv, WebInv, RowInv, OneDecision
<1>4. EngineInv'
  BY <1>1 DEF IInv, EngineMode, EngineInv, RowInv
<1>5. QED
  BY <1>2, <1>3, <1>4 DEF IInv

\* A read by the engine builds a row of the right type and touches no other.
LEMMA EngineReadInv == IInv /\ Selects => IInv'
<1>1. SUFFICES ASSUME IInv, Selects PROVE IInv'
  OBVIOUS
<1>2. PICK cands \in SUBSET Symbols :
        \E best \in IF cands = {} THEN {"none"} ELSE cands : EngineRead(cands, best)
  BY <1>1 DEF Selects
<1>3. PICK best \in IF cands = {} THEN {"none"} ELSE cands : EngineRead(cands, best)
  BY <1>2
<1>4. /\ new' \in RowType /\ new'.status # "none"
      /\ scanMode = "approval" => /\ new'.status = "pending_approval"
                                  /\ new'.selected = "none" /\ ~new'.decided
  BY <1>1, <1>3 DEF IInv, TypeOK, EngineRead, Scanned, NoRow, RowType
<1>5. TypeOK'
  BY <1>1, <1>3, <1>4 DEF IInv, EngineRead, TypeOK, webVars
<1>a. InsertInv'
  BY <1>1, <1>3, <1>4 DEF IInv, EngineRead, InsertInv
<1>6. OfferInv' /\ WebInv' /\ RowInv' /\ OneDecision'
  BY <1>1, <1>3 DEF IInv, EngineRead, webVars, OfferInv, WebInv, RowInv, OneDecision, Decided
<1>7. EngineInv'
  BY <1>1, <1>3, <1>4 DEF IInv, EngineRead, EngineInv, RowInv, Decided
<1>8. QED
  BY <1>5, <1>a, <1>6, <1>7 DEF IInv

\* What a commit of the engine leaves in the row.
LEMMA EngineCommitRow ==
    ASSUME IInv, EngineCommit
    PROVE  /\ row' \in RowType
           /\ row.status # "none" => row'.status # "none"
           /\ gated => /\ row'.status = (IF row.status = "none" THEN "pending_approval"
                                          ELSE row.status)
                       /\ row'.selected = row.selected /\ row'.decided = row.decided
<1>1. row \in RowType /\ engineRow \in RowType /\ new \in RowType
  BY DEF IInv, TypeOK
<1>2. CASE engineRow.status = "none"
  <2>1. row' = new
    BY <1>2 DEF EngineCommit, Decided, Undecided
  <2>2. row.status = "none"
    BY <1>2 DEF IInv, InsertInv, EngineCommit
  <2>3. row'.status # "none"
    BY <2>1 DEF IInv, InsertInv, EngineCommit
  <2>4. gated => /\ row'.status = "pending_approval" /\ row'.selected = "none"
                 /\ ~row'.decided
    BY <2>1 DEF IInv, EngineInv, EngineCommit
  <2>5. gated => row.selected = "none" /\ ~row.decided
    BY <2>2 DEF IInv, RowInv, OneDecision, Decided
  <2>6. row'.decided \in BOOLEAN /\ row.decided \in BOOLEAN
    BY <1>1, <2>1 DEF RowType
  <2>7. QED
    BY <1>1, <2>1, <2>2, <2>3, <2>4, <2>5, <2>6
<1>3. CASE engineRow.status \in Undecided
  <2>1. row' = [row EXCEPT
                  !.candidates = Column(engineRow.candidates, new.candidates, @),
                  !.selected   = Column(engineRow.selected, new.selected, @),
                  !.status     = Column(engineRow.status, new.status, @)]
    BY <1>3 DEF EngineCommit, Decided, Undecided
  <2>2. row.status # "none"
    BY <1>3 DEF IInv, InsertInv, EngineCommit, Undecided
  <2>3. /\ row' \in RowType
        /\ row'.status = Column(engineRow.status, new.status, row.status)
        /\ row'.selected = Column(engineRow.selected, new.selected, row.selected)
        /\ row'.decided = row.decided
    BY <1>1, <2>1 DEF RowType, Column
  <2>4. new.status # "none" => row'.status # "none"
    BY <2>2, <2>3 DEF Column
  <2>5. gated => row'.status = row.status /\ row'.selected = row.selected
    BY <1>3, <2>3 DEF IInv, EngineInv, EngineCommit, Column, Undecided
  <2>6. QED
    BY <2>2, <2>3, <2>4, <2>5 DEF IInv, InsertInv, EngineCommit
<1>4. CASE engineRow.status \notin Undecided \cup {"none"}
  <2>1. row' = row
    BY <1>4 DEF EngineCommit, Undecided
  <2>2. row.status # "none"
    BY <1>4 DEF IInv, InsertInv, EngineCommit
  <2>3. QED
    BY <1>1, <2>1, <2>2
<1>5. QED
  BY <1>2, <1>3, <1>4

\* The commit keeps the invariant: in approval mode it moves the row from
\* "none" to "pending_approval" or leaves its status, selection and author.
LEMMA EngineCommitInv == IInv /\ EngineCommit => IInv'
<1>1. SUFFICES ASSUME IInv, EngineCommit PROVE IInv'
  OBVIOUS
<1>2. /\ row' \in RowType
      /\ row.status # "none" => row'.status # "none"
      /\ gated => /\ row'.status = (IF row.status = "none" THEN "pending_approval"
                                     ELSE row.status)
                  /\ row'.selected = row.selected /\ row'.decided = row.decided
  BY <1>1, EngineCommitRow
<1>3. /\ engine' = "idle" /\ gated' = gated /\ mode' = mode /\ accepted' = accepted
      /\ web' = web /\ webRow' = webRow /\ ask' = ask /\ scans' = scans
      /\ engineRow' = engineRow /\ new' = new /\ offered' = offered \cup row'.candidates
      /\ scanMode' = scanMode
  BY <1>1 DEF EngineCommit, webVars
<1>4. TypeOK'
  <2>1. row'.candidates \subseteq Symbols
    BY <1>2 DEF RowType
  <2>2. QED
    BY <1>1, <1>2, <1>3, <2>1 DEF IInv, TypeOK
<1>5. OfferInv' /\ InsertInv' /\ EngineInv'
  BY <1>1, <1>3 DEF IInv, OfferInv, InsertInv, EngineInv
<1>6. WebInv'
  BY <1>1, <1>2, <1>3 DEF IInv, WebInv
<1>7. RowInv'
  BY <1>1, <1>2, <1>3 DEF IInv, RowInv, Decided
<1>8. OneDecision'
  BY <1>1, <1>2, <1>3 DEF IInv, OneDecision, Decided
<1>9. QED
  BY <1>4, <1>5, <1>6, <1>7, <1>8 DEF IInv

\* The handler's checks: the row it has read is pending and offers the symbol.
LEMMA WebReadInv ==
    ASSUME NEW d \in Symbols \cup {"reject"}, IInv, WebRead(d)
    PROVE  IInv'
<1>1. TypeOK'
  BY DEF IInv, WebRead, TypeOK, engineVars
<1>2. OfferInv'
  BY DEF IInv, WebRead, OfferInv
<1>3. WebInv'
  BY DEF IInv, WebRead, WebInv, RowInv, Decided
<1>4. InsertInv' /\ EngineInv' /\ RowInv' /\ OneDecision'
  BY DEF IInv, WebRead, engineVars, InsertInv, EngineInv, RowInv, OneDecision
<1>5. QED
  BY <1>1, <1>2, <1>3, <1>4 DEF IInv

\* What the handler's commit leaves in the row.
LEMMA WebCommitRow ==
    ASSUME IInv, WebCommit
    PROVE  /\ row' \in RowType /\ row'.candidates = row.candidates /\ row'.decided
           /\ row'.status # "none" /\ row.status # "none"
           /\ gated => \/ /\ row'.status = "rejected" /\ row'.selected = row.selected
                       \/ /\ row'.status = "approved" /\ row'.selected = ask
                          /\ ask \in offered
<1> DEFINE st == IF ask = "reject" THEN "rejected" ELSE "approved"
<1>1. row \in RowType /\ webRow \in RowType /\ ask \in Symbols \cup {"reject"}
  BY DEF IInv, TypeOK
<1>2. row' = [row EXCEPT
           !.status = Column(webRow.status, st, @),
           !.selected = IF ask = "reject" THEN @ ELSE Column(webRow.selected, ask, @),
           !.decided = TRUE]
  BY DEF WebCommit
<1>3. /\ row'.status = Column(webRow.status, st, row.status)
      /\ row'.selected = (IF ask = "reject" THEN row.selected
                          ELSE Column(webRow.selected, ask, row.selected))
      /\ row'.decided = TRUE /\ row'.candidates = row.candidates
      /\ row' = [status |-> row'.status, selected |-> row'.selected,
                 candidates |-> row'.candidates, decided |-> row'.decided]
  BY <1>1, <1>2 DEF RowType
<1>4. row'.selected \in Symbols \cup {"none"}
  BY <1>1, <1>3 DEF RowType, Column
<1>5. row'.status = st /\ row.status # "none"
  BY <1>3 DEF IInv, WebInv, WebCommit, Column
<1>6. row' \in RowType
  BY <1>1, <1>3, <1>4, <1>5 DEF RowType
<1>7. gated => row'.selected = IF ask = "reject" THEN row.selected ELSE ask
  BY <1>1, <1>3, SymbolsAssumption DEF IInv, WebInv, WebCommit, Column
<1>8. ask # "reject" => ask \in offered
  BY DEF IInv, OfferInv, WebCommit
<1>9. QED
  BY <1>3, <1>5, <1>6, <1>7, <1>8

\* The handler's commit makes the one decision of the day.
LEMMA WebCommitInv == IInv /\ WebCommit => IInv'
<1>1. SUFFICES ASSUME IInv, WebCommit PROVE IInv'
  OBVIOUS
<1>2. /\ row' \in RowType /\ row'.candidates = row.candidates /\ row'.decided
      /\ row'.status # "none" /\ row.status # "none"
      /\ gated => row'.status \in Decided
  BY <1>1, WebCommitRow DEF Decided
<1>3. /\ web' = "idle" /\ accepted' = accepted + 1 /\ webRow' = webRow /\ ask' = ask
      /\ mode' = mode /\ offered' = offered /\ gated' = gated /\ engine' = engine
      /\ engineRow' = engineRow /\ new' = new /\ scans' = scans /\ scanMode' = scanMode
  BY <1>1 DEF WebCommit, engineVars
<1>4. TypeOK'
  BY <1>1, <1>2, <1>3 DEF IInv, TypeOK
<1>5. OfferInv' /\ InsertInv' /\ EngineInv' /\ WebInv'
  BY <1>1, <1>2, <1>3 DEF IInv, OfferInv, InsertInv, EngineInv, WebInv
<1>6. RowInv'
  BY <1>1, <1>2, <1>3 DEF IInv, RowInv, Decided
<1>7. OneDecision'
  <2>1. gated => ~row.decided /\ accepted = 0
    BY <1>1 DEF IInv, WebInv, WebCommit, OneDecision, Decided
  <2>2. QED
    BY <1>2, <1>3, <2>1 DEF OneDecision
<1>8. QED
  BY <1>4, <1>5, <1>6, <1>7 DEF IInv

\* A rollback of either side, or a change of the mode.
LEMMA OtherInv == IInv /\ (EngineRollback \/ WebRollback \/ SetMode \/ UNCHANGED vars) => IInv'
<1>1. SUFFICES ASSUME IInv, EngineRollback \/ WebRollback \/ SetMode \/ UNCHANGED vars
               PROVE IInv'
  OBVIOUS
<1>2. /\ row' = row /\ webRow' = webRow /\ ask' = ask /\ offered' = offered
      /\ engineRow' = engineRow /\ new' = new /\ accepted' = accepted /\ scans' = scans
      /\ scanMode' = scanMode
      /\ engine' \in {engine, "idle"} /\ web' \in {web, "idle"}
      /\ gated' => gated /\ mode' = mode
      /\ mode' \in Modes /\ gated' \in BOOLEAN
  <2>1. CASE EngineRollback
    BY <1>1, <2>1 DEF EngineRollback, webVars, IInv, TypeOK
  <2>2. CASE WebRollback
    BY <1>1, <2>2 DEF WebRollback, engineVars, IInv, TypeOK
  <2>3. CASE SetMode
    BY <1>1, <2>3 DEF SetMode, engineVars, webVars, IInv, TypeOK
  <2>4. CASE UNCHANGED vars
    BY <1>1, <2>4 DEF vars, engineVars, webVars, IInv, TypeOK
  <2>5. QED
    BY <1>1, <2>1, <2>2, <2>3, <2>4
<1>3. TypeOK' /\ OfferInv' /\ InsertInv'
  BY <1>1, <1>2 DEF IInv, TypeOK, OfferInv, InsertInv
<1>4. EngineInv' /\ WebInv'
  BY <1>1, <1>2 DEF IInv, EngineInv, WebInv
<1>5. RowInv' /\ OneDecision'
  BY <1>1, <1>2 DEF IInv, RowInv, OneDecision
<1>6. QED
  BY <1>3, <1>4, <1>5 DEF IInv

\* Every step keeps the invariant.
LEMMA NextInv == IInv /\ [Next]_vars => IInv'
BY EngineModeInv, EngineReadInv, EngineCommitInv, WebReadInv, WebCommitInv, OtherInv
   DEF Next, Engine, Web

-----------------------------------------------------------------------------
\* The invariant holds throughout.
THEOREM Invariance == Spec => []IInv
BY InitInv, NextInv, PTL DEF Spec

\* The row, both transactions and the history keep their types.
THEOREM TypeCorrect == Spec => []TypeOK
<1>1. IInv => TypeOK
  BY DEF IInv
<1>2. QED
  BY <1>1, Invariance, PTL

\* While approval mode stays on, one decision a day is accepted and kept.
THEOREM DecidedOnce == Spec => []OneDecision
<1>1. IInv => OneDecision
  BY DEF IInv
<1>2. QED
  BY <1>1, Invariance, PTL

-----------------------------------------------------------------------------
\* Every initial state is one of the promise.
LEMMA InitRefines == Init => Day!Init
BY DEF Init, NoRow, Decided, Day!Init

\* While the mode is gated a step that keeps the decision and the choice and
\* adds to the offers is an offer; ungated, any step is allowed.
LEMMA OfferStep ==
    ASSUME TypeOK, TypeOK', gated' = gated,
           \E c \in SUBSET Symbols : offered' = offered \cup c,
           gated => /\ row'.selected = row.selected
                    /\ (IF row'.status \in Decided THEN row'.status ELSE "open")
                         = (IF row.status \in Decided THEN row.status ELSE "open")
    PROVE  Day!Next
<1>1. CASE gated
  BY <1>1 DEF Day!Next, Day!Offer
<1>2. CASE ~gated
  <2>1. /\ row'.selected \in Symbols \cup {"none"} /\ offered' \subseteq Symbols
        /\ (IF row'.status \in Decided THEN row'.status ELSE "open") \in Day!Decisions
    BY DEF TypeOK, RowType, Decided, Day!Decisions
  <2>2. QED
    BY <1>2, <2>1 DEF Day!Next, Day!Ungated
<1>3. QED
  BY <1>1, <1>2

\* Every step is a step of the promise or leaves its variables as they are.
LEMMA StepRefines == IInv /\ IInv' /\ [Next]_vars => [Day!Next]_(Day!vars)
<1>1. SUFFICES ASSUME IInv, IInv', [Next]_vars PROVE [Day!Next]_(Day!vars)
  OBVIOUS
<1>2. TypeOK /\ TypeOK'
  BY <1>1 DEF IInv
<1>3. ASSUME UNCHANGED <<row, offered, gated>> PROVE UNCHANGED Day!vars
  BY <1>3 DEF Day!vars
<1>4. CASE EngineMode \/ Selects \/ EngineRollback \/ WebRollback \/ (\E d \in Symbols \cup {"reject"} : WebRead(d))
           \/ UNCHANGED vars
  BY <1>3, <1>4 DEF EngineMode, Selects, EngineRead, EngineRollback, WebRollback, WebRead, vars, engineVars, webVars
<1>5. CASE EngineCommit
  <2>1. /\ row.status # "none" => row'.status # "none"
        /\ gated => /\ row'.status = (IF row.status = "none" THEN "pending_approval"
                                       ELSE row.status)
                    /\ row'.selected = row.selected
    BY <1>1, <1>5, EngineCommitRow
  <2>2. gated' = gated /\ offered' = offered \cup row'.candidates
    BY <1>5 DEF EngineCommit
  <2>3. row'.candidates \in SUBSET Symbols
    BY <1>2 DEF TypeOK, RowType
  <2>4. Day!Next
    BY <1>2, <2>1, <2>2, <2>3, OfferStep DEF Decided
  <2>5. QED
    BY <2>4
<1>6. CASE WebCommit
  <2>1. /\ gated' = gated /\ offered' = offered
        /\ gated => row.status = "pending_approval"
    BY <1>1, <1>6 DEF WebCommit, IInv, WebInv
  <2>2. CASE ~gated
    <3>1. {} \in SUBSET Symbols /\ offered' = offered \cup {}
      BY <2>1
    <3>2. QED
      BY <1>2, <2>1, <2>2, <3>1, OfferStep
  <2>3. CASE gated
    <3>1. \/ row'.status = "rejected" /\ row'.selected = row.selected
          \/ row'.status = "approved" /\ row'.selected \in offered
      BY <1>1, <1>6, <2>3, WebCommitRow
    <3>2. CASE row'.status = "rejected" /\ row'.selected = row.selected
      BY <2>1, <2>3, <3>2 DEF Day!Next, Day!Reject, Decided
    <3>3. CASE row'.status = "approved" /\ row'.selected \in offered
      BY <2>1, <2>3, <3>3 DEF Day!Next, Day!Approve, Decided
    <3>4. QED
      BY <3>1, <3>2, <3>3
  <2>4. QED
    BY <2>2, <2>3
<1>7. CASE SetMode
  BY <1>7 DEF SetMode, Day!Next, Day!LeaveApproval
<1>8. QED
  BY <1>1, <1>4, <1>5, <1>6, <1>7 DEF Next, Engine, Web

\* The row and its two writers implement the promise of the approval mode: while
\* the mode stays on, the user's decision is final and is one that was offered.
THEOREM Refinement == Spec => Implements
BY InitInv, NextInv, InitRefines, StepRefines, PTL DEF Spec, Implements, Day!Spec

-----------------------------------------------------------------------------
(* Ranks and scores. *)

\* How many elements of S the relation R puts before x.
Rank(S, R, x) == Cardinality({y \in S : <<y, x>> \in R})

\* In a finite set with a strict total order every rank is taken by exactly one
\* element.
LEMMA RankLemma ==
    ASSUME NEW S, IsFiniteSet(S), NEW R,
           \A x \in S : <<x, x>> \notin R,
           \A x, y, z \in S : <<x, y>> \in R /\ <<y, z>> \in R => <<x, z>> \in R,
           \A x, y \in S : x = y \/ <<x, y>> \in R \/ <<y, x>> \in R
    PROVE  /\ Cardinality(S) \in Nat
           /\ \A x \in S : Rank(S, R, x) \in 0..Cardinality(S) - 1
           /\ \A k \in 1..Cardinality(S) : \E x \in S : Rank(S, R, x) = k - 1
           /\ \A x, z \in S : Rank(S, R, x) = Rank(S, R, z) => x = z
<1> DEFINE D(x) == {y \in S : <<y, x>> \in R}
           n == Cardinality(S)
           rank == [x \in S |-> Cardinality(D(x)) + 1]
<1>1. n \in Nat
  BY FS_CardinalityType
<1>2. ASSUME NEW x \in S
      PROVE  IsFiniteSet(D(x)) /\ Cardinality(D(x)) \in 0..n - 1
  <2>1. D(x) \in SUBSET S /\ x \notin D(x)
    OBVIOUS
  <2>2. IsFiniteSet(D(x)) /\ Cardinality(D(x)) <= n /\ Cardinality(D(x)) # n
    BY <2>1, FS_Subset
  <2>3. Cardinality(D(x)) \in Nat
    BY <2>2, FS_CardinalityType
  <2>4. QED
    BY <1>1, <2>2, <2>3
<1> HIDE DEF n
<1>3. ASSUME NEW x \in S, NEW z \in S, <<x, z>> \in R
      PROVE  Cardinality(D(x)) < Cardinality(D(z))
  <2>1. D(x) \in SUBSET D(z) /\ x \in D(z) /\ x \notin D(x)
    BY <1>3
  <2> HIDE DEF D
  <2>2. Cardinality(D(x)) <= Cardinality(D(z)) /\ Cardinality(D(x)) # Cardinality(D(z))
    BY <1>2, <2>1, FS_Subset
  <2>3. QED
    BY <1>1, <1>2, <2>2
<1> HIDE DEF D
<1>4. ASSUME NEW x \in S, NEW z \in S, Cardinality(D(x)) = Cardinality(D(z))
      PROVE  x = z
  <2>1. \/ x = z \/ <<x, z>> \in R \/ <<z, x>> \in R
    OBVIOUS
  <2>2. Cardinality(D(x)) \in Int /\ Cardinality(D(z)) \in Int
    BY <1>1, <1>2
  <2>3. QED
    BY <1>3, <1>4, <2>1, <2>2
<1>5. rank \in Injection(S, 1..n)
  <2>1. rank \in [S -> 1..n]
    BY <1>1, <1>2
  <2>2. \A x, z \in S : rank[x] = rank[z] => x = z
    BY <1>2, <1>4
  <2>3. QED
    BY <2>1, <2>2 DEF Injection, IsInjective
<1>6. IsFiniteSet(1..n) /\ Cardinality(1..n) = n
  BY <1>1, FS_Interval
<1>7. rank \in Surjection(S, 1..n)
  <2> HIDE DEF rank
  <2>1. Cardinality(S) = Cardinality(1..n)
    BY <1>6 DEF n
  <2>2. QED
    BY <1>5, <1>6, <2>1, FS_Injection
<1>8. \A k \in 1..n : \E x \in S : rank[x] = k
  BY <1>7 DEF Surjection
<1>9. ASSUME NEW k \in 1..n PROVE \E x \in S : Cardinality(D(x)) = k - 1
  <2>1. PICK x \in S : rank[x] = k
    BY <1>8
  <2>2. Cardinality(D(x)) + 1 = k
    BY <2>1
  <2>3. QED
    BY <1>1, <1>2, <2>2
<1> HIDE DEF rank
<1>10. QED
  BY <1>1, <1>2, <1>4, <1>9 DEF D, n, Rank

\* The score of a stock is a number.
LEMMA ScoreType == \A stock : Score(stock) \in Int
<1> SUFFICES ASSUME NEW stock PROVE Score(stock) \in Int
  OBVIOUS
<1> DEFINE t1 == {} \cup {"ema9"}         t2 == t1 \cup {"sma50"}
           t3 == t2 \cup {"sma200"}       t4 == t3 \cup {"ema9Rising"}
           t5 == t4 \cup {"sma50Rising"}  t6 == t5 \cup {"volume"}
           t7 == t6 \cup {"resistance"}   t8 == t7 \cup {"momentum"}
           f1 == {} \cup {"candles"}      f2 == f1 \cup {"wicks"}
           f3 == f2 \cup {"pullback"}
<1>1. Tens = t8 /\ Fives = f3
  BY DEF Tens, Core, Fives
<1>2. /\ IsFiniteSet(t1) /\ (IsFiniteSet(t1) => IsFiniteSet(t2))
      /\ (IsFiniteSet(t2) => IsFiniteSet(t3)) /\ (IsFiniteSet(t3) => IsFiniteSet(t4))
      /\ (IsFiniteSet(t4) => IsFiniteSet(t5)) /\ (IsFiniteSet(t5) => IsFiniteSet(t6))
      /\ (IsFiniteSet(t6) => IsFiniteSet(t7)) /\ (IsFiniteSet(t7) => IsFiniteSet(t8))
      /\ IsFiniteSet(f1) /\ (IsFiniteSet(f1) => IsFiniteSet(f2))
      /\ (IsFiniteSet(f2) => IsFiniteSet(f3))
  <2> HIDE DEF t1, t2, t3, t4, t5, t6, t7, f1, f2
  <2>1. IsFiniteSet(t1) /\ IsFiniteSet(f1)
    BY FS_EmptySet, FS_AddElement DEF t1, f1
  <2>2. QED
    BY <2>1, FS_AddElement, Zenon DEF t2, t3, t4, t5, t6, t7, t8, f2, f3
<1>3. IsFiniteSet(Tens) /\ IsFiniteSet(Fives)
  <2> HIDE DEF t1, t2, t3, t4, t5, t6, t7, t8, f1, f2, f3
  <2>1. QED
    BY <1>1, <1>2
<1>4. Cardinality(stock.meets \cap Tens) \in Nat
  <2>1. stock.meets \cap Tens \in SUBSET Tens
    OBVIOUS
  <2>2. QED
    BY <1>3, <2>1, FS_Subset, FS_CardinalityType
<1>5. Cardinality(stock.meets \cap Fives) \in Nat
  <2>1. stock.meets \cap Fives \in SUBSET Fives
    OBVIOUS
  <2>2. QED
    BY <1>3, <2>1, FS_Subset, FS_CardinalityType
<1>6. QED
  BY <1>4, <1>5 DEF Score

\* p says which result Ranked puts in each place: the one with as many above it.
Sorts(p, results) ==
    /\ p \in [DOMAIN results -> DOMAIN results]
    /\ \A k \in DOMAIN results :
          Ranked(results)[k] = results[p[k]] /\ Cardinality(Above(results, p[k])) = k - 1
    /\ \A i \in DOMAIN results : \E k \in DOMAIN results : p[k] = i

\* Ranked permutes the results by the number of those above each.
LEMMA RankedLemma ==
    ASSUME NEW T, NEW results \in Seq(T), \A i \in DOMAIN results : results[i].score \in Int
    PROVE  /\ Ranked(results) \in Seq(T) /\ DOMAIN Ranked(results) = DOMAIN results
           /\ \E p : Sorts(p, results)
<1> DEFINE dom == DOMAIN results
           n == Len(results)
           less(j, i) == \/ results[j].score > results[i].score
                         \/ results[j].score = results[i].score /\ j < i
           R == {q \in dom \X dom : less(q[1], q[2])}
           p == [k \in dom |-> CHOOSE i \in dom : Cardinality(Above(results, i)) = k - 1]
<1>1. n \in Nat /\ dom = 1..n /\ \A i \in dom : results[i] \in T /\ i \in Int
  BY LenProperties
<1>2. IsFiniteSet(dom) /\ Cardinality(dom) = n
  BY <1>1, FS_Interval
<1>3. \A j, i \in dom : <<j, i>> \in R <=> less(j, i)
  OBVIOUS
<1>4. \A i \in dom : Cardinality(Above(results, i)) = Rank(dom, R, i)
  <2>1. \A i \in dom : Above(results, i) = {j \in dom : <<j, i>> \in R}
    BY <1>3 DEF Above
  <2>2. QED
    BY <2>1 DEF Rank
<1> HIDE DEF R, dom, n
<1>5. /\ \A i \in dom : Cardinality(Above(results, i)) \in 0..n - 1
      /\ \A k \in 1..n : \E i \in dom : Cardinality(Above(results, i)) = k - 1
      /\ \A i, j \in dom :
            Cardinality(Above(results, i)) = Cardinality(Above(results, j)) => i = j
  <2>1. \A i \in dom : results[i].score \in Int
    BY DEF dom
  <2>2. \A x \in dom : <<x, x>> \notin R
    BY <1>1, <1>3, <2>1
  <2>3. ASSUME NEW x \in dom, NEW y \in dom, NEW z \in dom,
               <<x, y>> \in R, <<y, z>> \in R
        PROVE  <<x, z>> \in R
    <3>1. /\ x \in Int /\ y \in Int /\ z \in Int
          /\ results[x].score \in Int /\ results[y].score \in Int /\ results[z].score \in Int
      BY <1>1, <2>1
    <3>2. less(x, y) /\ less(y, z)
      BY <1>3, <2>3
    <3>3. less(x, z)
      BY <3>1, <3>2
    <3>4. QED
      BY <1>3, <3>3
  <2>4. ASSUME NEW x \in dom, NEW y \in dom
        PROVE  x = y \/ <<x, y>> \in R \/ <<y, x>> \in R
    <3>1. x \in Int /\ y \in Int /\ results[x].score \in Int /\ results[y].score \in Int
      BY <1>1, <2>1
    <3>2. x = y \/ less(x, y) \/ less(y, x)
      BY <3>1
    <3>3. QED
      BY <1>3, <3>2
  <2>5. /\ Cardinality(dom) \in Nat
        /\ \A x \in dom : Rank(dom, R, x) \in 0..Cardinality(dom) - 1
        /\ \A k \in 1..Cardinality(dom) : \E x \in dom : Rank(dom, R, x) = k - 1
        /\ \A x, z \in dom : Rank(dom, R, x) = Rank(dom, R, z) => x = z
    <3> HIDE DEF p
    <3>1. QED
      BY <1>2, <2>2, <2>3, <2>4, RankLemma, Zenon
  <2>6. /\ \A x \in dom : Rank(dom, R, x) \in 0..n - 1
        /\ \A k \in 1..n : \E x \in dom : Rank(dom, R, x) = k - 1
    BY <1>2, <2>5
  <2>7. QED
    <3> HIDE DEF p
    <3>1. QED
      BY <1>1, <1>4, <2>5, <2>6
<1>6. \A k \in dom : p[k] \in dom /\ Cardinality(Above(results, p[k])) = k - 1
  BY <1>1, <1>5
<1>7. p \in [dom -> dom]
  BY <1>6
<1>8. Ranked(results) = [k \in dom |-> results[p[k]]]
  BY DEF Ranked, dom
<1>9. \A i \in dom : \E k \in dom : p[k] = i
  <2> SUFFICES ASSUME NEW i \in dom PROVE \E k \in dom : p[k] = i
    OBVIOUS
  <2> DEFINE k == Cardinality(Above(results, i)) + 1
  <2>1. k \in dom /\ Cardinality(Above(results, i)) = k - 1
    BY <1>1, <1>5
  <2>2. p[k] = i
    BY <1>5, <1>6, <2>1
  <2>3. QED
    BY <2>1, <2>2
<1> HIDE DEF p
<1>10. Ranked(results) \in Seq(T) /\ DOMAIN Ranked(results) = dom
  <2>1. Ranked(results) \in [1..n -> T] /\ DOMAIN Ranked(results) = dom
    BY <1>1, <1>6, <1>8
  <2>2. QED
    BY <1>1, <2>1
<1>11. QED
  <2>1. Sorts(p, results)
    BY <1>6, <1>7, <1>8, <1>9 DEF dom, Sorts
  <2>2. QED
    BY <1>10, <2>1 DEF dom

\* Kept holds names of the list that the set has; the order plays no part here.
LEMMA KeptLemma ==
    ASSUME NEW T, NEW list \in Seq(T), NEW set
    PROVE  /\ Kept(list, set) \in Seq(T)
           /\ \A k \in DOMAIN Kept(list, set) : Kept(list, set)[k] \in set \cap ToSet(list)
<1> DEFINE kept == {i \in DOMAIN list : list[i] \in set}
           R == {q \in kept \X kept : q[1] < q[2]}
           n == Cardinality(kept)
           pick(k) == CHOOSE i \in kept : Cardinality({j \in kept : j < i}) = k - 1
<1>1. Len(list) \in Nat /\ DOMAIN list = 1..Len(list) /\ kept \in SUBSET (1..Len(list))
  BY LenProperties
<1>2. IsFiniteSet(kept)
  <2> HIDE DEF kept
  <2>1. IsFiniteSet(1..Len(list))
    BY <1>1, FS_Interval
  <2>2. QED
    BY <1>1, <2>1, FS_Subset
<1>3. \A i \in kept : list[i] \in set /\ list[i] \in ToSet(list) /\ list[i] \in T /\ i \in Int
  BY <1>1 DEF ToSet
<1>4. \A j, i \in kept : <<j, i>> \in R <=> j < i
  OBVIOUS
<1>5. Kept(list, set) = [k \in 1..n |-> list[pick(k)]]
  BY DEF Kept
<1> HIDE DEF kept, R, n
<1>6. n \in Nat /\ \A k \in 1..n : \E i \in kept : Rank(kept, R, i) = k - 1
  <2>1. \A x \in kept : <<x, x>> \notin R
    BY <1>3, <1>4
  <2>2. \A x, y, z \in kept : <<x, y>> \in R /\ <<y, z>> \in R => <<x, z>> \in R
    BY <1>3, <1>4
  <2>3. ASSUME NEW x \in kept, NEW y \in kept
        PROVE  x = y \/ <<x, y>> \in R \/ <<y, x>> \in R
    <3>1. x = y \/ x < y \/ y < x
      BY <1>3
    <3>2. QED
      BY <1>4, <3>1
  <2>4. /\ Cardinality(kept) \in Nat
        /\ \A x \in kept : Rank(kept, R, x) \in 0..Cardinality(kept) - 1
        /\ \A k \in 1..Cardinality(kept) : \E x \in kept : Rank(kept, R, x) = k - 1
        /\ \A x, z \in kept : Rank(kept, R, x) = Rank(kept, R, z) => x = z
    <3> HIDE DEF pick
    <3>1. QED
      BY <1>2, <2>1, <2>2, <2>3, RankLemma, Zenon
  <2>5. QED
    BY <2>4 DEF n
<1>7. \A i \in kept : Rank(kept, R, i) = Cardinality({j \in kept : j < i})
  <2>1. \A i \in kept : {j \in kept : <<j, i>> \in R} = {j \in kept : j < i}
    BY <1>4
  <2>2. QED
    BY <2>1 DEF Rank
<1>8. \A k \in 1..n : \E i \in kept : Cardinality({j \in kept : j < i}) = k - 1
  BY <1>6, <1>7
<1>9. \A k \in 1..n : pick(k) \in kept
  BY <1>8
<1> HIDE DEF pick
<1>10. /\ Kept(list, set) \in [1..n -> T]
       /\ \A k \in 1..n : Kept(list, set)[k] \in set \cap ToSet(list)
  BY <1>3, <1>5, <1>9
<1>11. QED
  BY <1>6, <1>10

-----------------------------------------------------------------------------
(* The selection. *)

\* What a scan may find.
Results == [symbol : Symbols, score : Int]

\* The best of a list are its first elements.
LEMMA BestLemma ==
    ASSUME NEW T, NEW list \in Seq(T), NEW n \in Nat \ {0}
    PROVE  /\ Best(list, n) \in Seq(T)
           /\ \A i \in DOMAIN Best(list, n) :
                 i \in DOMAIN list /\ i <= n /\ Best(list, n)[i] = list[i]
           /\ list # <<>> => Best(list, n) # <<>>
           /\ n = 1 /\ list # <<>> => Best(list, n) = <<list[1]>>
<1> DEFINE m == IF Len(list) < n THEN Len(list) ELSE n
<1>1. /\ Len(list) \in Nat /\ DOMAIN list = 1..Len(list)
      /\ list # <<>> => Len(list) # 0
      /\ m \in Nat /\ m <= Len(list) /\ m <= n /\ (Len(list) # 0 => m # 0)
  BY LenProperties, EmptySeq
<1>2. \A i \in 1..m : list[i] \in T
  BY <1>1, ElementOfSeq
<1>3. Best(list, n) = SubSeq(list, 1, m)
  BY DEF Best
<1> HIDE DEF m
<1>4. /\ SubSeq(list, 1, m) \in Seq(T)
      /\ Len(SubSeq(list, 1, m)) = m
      /\ \A i \in 1..m : SubSeq(list, 1, m)[i] = list[i]
  <2>1. /\ SubSeq(list, 1, m) \in Seq(T)
        /\ Len(SubSeq(list, 1, m)) = IF 1 <= m THEN m - 1 + 1 ELSE 0
        /\ \A i \in 1..m - 1 + 1 : SubSeq(list, 1, m)[i] = list[1 + i - 1]
    BY <1>1, <1>2, SubSeqProperties
  <2>2. m - 1 + 1 = m /\ \A i \in 1..m : 1 + i - 1 = i
    BY <1>1
  <2>3. QED
    BY <1>1, <2>1, <2>2
<1>5. DOMAIN SubSeq(list, 1, m) = 1..m
  BY <1>4
<1>6. list # <<>> => SubSeq(list, 1, m) # <<>>
  BY <1>1, <1>4, EmptySeq
<1>7. \A i \in 1..m : i \in DOMAIN list /\ i <= n
  BY <1>1
<1>8. n = 1 /\ list # <<>> => SubSeq(list, 1, m) = <<list[1]>>
  <2> SUFFICES ASSUME n = 1, list # <<>> PROVE SubSeq(list, 1, m) = <<list[1]>>
    OBVIOUS
  <2>1. m = 1
    BY <1>1
  <2>2. Len(SubSeq(list, 1, m)) = 1 /\ SubSeq(list, 1, m)[1] = list[1]
    BY <1>4, <2>1
  <2>3. PICK q : q = SubSeq(list, 1, m)
    OBVIOUS
  <2>4. q \in Seq(T) /\ Len(q) = 1 /\ q[1] = list[1] /\ list[1] \in T
    BY <1>2, <1>4, <2>1, <2>2, <2>3
  <2>5. q = <<list[1]>>
    BY <2>4, SeqEqual
  <2>6. QED
    BY <2>3, <2>5
<1>9. QED
  BY <1>3, <1>4, <1>5, <1>6, <1>7, <1>8

\* The names of the results.
LEMMA NamesLemma ==
    ASSUME NEW results \in Seq(Results)
    PROVE  /\ Names(results) \in Seq(Symbols) /\ DOMAIN Names(results) = DOMAIN results
           /\ \A k \in DOMAIN results : Names(results)[k] = results[k].symbol
           /\ results # <<>> => Names(results) # <<>>
<1>1. /\ Len(results) \in Nat /\ DOMAIN results = 1..Len(results)
      /\ \A k \in DOMAIN results : results[k].symbol \in Symbols
  <2>1. Len(results) \in Nat /\ DOMAIN results = 1..Len(results)
    BY LenProperties
  <2>2. \A k \in DOMAIN results : results[k] \in Results
    BY <2>1, ElementOfSeq
  <2>3. QED
    BY <2>1, <2>2 DEF Results
<1>2. Names(results) \in [1..Len(results) -> Symbols]
  BY <1>1 DEF Names
<1>3. Names(results) \in Seq(Symbols) /\ Len(Names(results)) = Len(results)
  BY <1>1, <1>2
<1>4. results # <<>> => Names(results) # <<>>
  BY <1>3, EmptySeq
<1>5. QED
  BY <1>1, <1>2, <1>3, <1>4 DEF Names

\* The best Size results by name: what Claude may choose from.
LEMMA TopLemma ==
    ASSUME found \in Seq(Results)
    PROVE  /\ Top \in Seq(Symbols)
           /\ \A i \in DOMAIN Top : i \in DOMAIN found /\ i <= Size /\ Top[i] = found[i].symbol
           /\ found # <<>> => Top # <<>>
           /\ Top # <<>> => found # <<>>
<1> DEFINE names == Names(found)
<1>1. /\ names \in Seq(Symbols) /\ DOMAIN names = DOMAIN found
      /\ \A k \in DOMAIN found : names[k] = found[k].symbol
      /\ found # <<>> => names # <<>>
  BY NamesLemma
<1>2. Top = Best(names, Size) /\ Size \in Nat \ {0}
  BY PoolAssumption DEF Top
<1> HIDE DEF names
<1>3. /\ Best(names, Size) \in Seq(Symbols)
      /\ \A i \in DOMAIN Best(names, Size) :
            i \in DOMAIN names /\ i <= Size /\ Best(names, Size)[i] = names[i]
      /\ names # <<>> => Best(names, Size) # <<>>
  BY <1>1, <1>2, BestLemma
<1>4. Top # <<>> => found # <<>>
  <2>1. Top # <<>> => 1 \in DOMAIN Top
    BY <1>2, <1>3, LenProperties, EmptySeq
  <2>2. found = <<>> => DOMAIN found = {}
    OBVIOUS
  <2>3. QED
    BY <1>1, <1>2, <1>3, <2>1, <2>2
<1>5. QED
  BY <1>1, <1>2, <1>3, <1>4

\* Whatever the answer, what is chosen are names of the best results, and with
\* any result something is chosen: names of the answer, or the first result alone.
LEMMA SelectionLemma ==
    ASSUME NEW answer \in Answers, found \in Seq(Results)
    PROVE  /\ Selection(answer) \in Seq(STRING \cup Symbols)
           /\ \A i \in DOMAIN Selection(answer) : \E j \in DOMAIN found :
                 j <= Size /\ Selection(answer)[i] = found[j].symbol
           /\ found # <<>> => Selection(answer) # <<>>
           /\ \/ ToSet(Selection(answer)) \subseteq ToSet(answer) \/ scanMode = "approval"
              \/ 1 \in DOMAIN found /\ Selection(answer) = <<found[1].symbol>>
<1> DEFINE valid == Kept(answer, ToSet(Top))
           both == STRING \cup Symbols
<1>1. /\ Top \in Seq(Symbols)
      /\ \A i \in DOMAIN Top : i \in DOMAIN found /\ i <= Size /\ Top[i] = found[i].symbol
      /\ found # <<>> => Top # <<>>
      /\ Top # <<>> => found # <<>>
  BY TopLemma
<1>2. \A list : (list \in Seq(Symbols) \/ list \in Seq(STRING)) => list \in Seq(both)
  BY SeqMonotonic
<1>3. /\ Fallback \in Seq(Symbols)
      /\ \A i \in DOMAIN Fallback : i \in DOMAIN Top /\ Fallback[i] = Top[i]
      /\ Top # <<>> => Fallback # <<>>
  <2>1. /\ Best(Top, 1) \in Seq(Symbols)
        /\ \A i \in DOMAIN Best(Top, 1) : i \in DOMAIN Top /\ Best(Top, 1)[i] = Top[i]
        /\ Top # <<>> => Best(Top, 1) # <<>>
    BY <1>1, BestLemma
  <2>2. QED
    BY <1>1, <2>1 DEF Fallback
<1>4. /\ valid \in Seq(STRING)
      /\ \A k \in DOMAIN valid : valid[k] \in ToSet(Top) /\ valid[k] \in ToSet(answer)
  BY KeptLemma, AnswersAssumption
<1> HIDE DEF valid
<1>5. CASE valid = <<>>
  <2>1. Selection(answer) = Fallback
    BY <1>5 DEF Selection, valid
  <2>2. CASE Top = <<>>
    <3>1. DOMAIN Fallback = {}
      <4>1. DOMAIN Top = {}
        BY <2>2, EmptySeq
      <4>2. QED
        BY <1>3, <4>1
    <3>2. ToSet(Selection(answer)) = {}
      BY <2>1, <3>1 DEF ToSet
    <3>3. QED
      BY <1>1, <1>2, <1>3, <2>1, <3>2
  <2>3. CASE Top # <<>>
    <3>1. Best(Top, 1) = <<Top[1]>> /\ 1 \in DOMAIN Top
      BY <1>1, <2>3, BestLemma, LenProperties, EmptySeq
    <3>2. scanMode # "approval" => Fallback = <<found[1].symbol>> /\ 1 \in DOMAIN found
      BY <1>1, <3>1 DEF Fallback
    <3>3. QED
      BY <1>1, <1>2, <1>3, <2>1, <3>2
  <2>4. QED
    BY <2>2, <2>3
<1>6. CASE valid # <<>>
  <2>1. Selection(answer) = valid
    BY <1>6 DEF Selection, valid
  <2>2. \A k \in DOMAIN valid : \E i \in DOMAIN Top : valid[k] = Top[i]
    BY <1>4 DEF ToSet
  <2>3. ToSet(valid) \subseteq ToSet(answer)
    BY <1>4 DEF ToSet
  <2>4. QED
    BY <1>1, <1>2, <1>4, <1>6, <2>1, <2>2, <2>3
<1>7. QED
  BY <1>5, <1>6

\* The first of what is chosen is one of the candidates, or there are none.
LEMMA FirstLemma ==
    ASSUME NEW answer \in Answers, found \in Seq(Results)
    PROVE  /\ ToSet(Names(found)) = {found[j].symbol : j \in DOMAIN found}
           /\ ToSet(Names(found)) \in SUBSET Symbols
           /\ First(Selection(answer)) \in IF ToSet(Names(found)) = {} THEN {"none"}
                                           ELSE ToSet(Names(found))
<1> DEFINE chosen == Selection(answer)
           cands == ToSet(Names(found))
<1>1. /\ chosen \in Seq(STRING \cup Symbols)
      /\ \A i \in DOMAIN chosen : \E j \in DOMAIN found : chosen[i] = found[j].symbol
      /\ found # <<>> => chosen # <<>>
  BY SelectionLemma
<1>2. /\ cands = {found[j].symbol : j \in DOMAIN found}
      /\ cands \in SUBSET Symbols
  <2>1. /\ DOMAIN Names(found) = DOMAIN found
        /\ \A k \in DOMAIN found : Names(found)[k] = found[k].symbol
    BY NamesLemma
  <2>2. cands = {Names(found)[k] : k \in DOMAIN Names(found)}
    BY DEF ToSet
  <2>3. cands = {found[j].symbol : j \in DOMAIN found}
    BY <2>1, <2>2
  <2>4. \A k \in DOMAIN found : found[k] \in Results
    BY LenProperties, ElementOfSeq
  <2>5. QED
    BY <2>3, <2>4 DEF Results
<1> HIDE DEF chosen, cands
<1>3. chosen # <<>> => 1 \in DOMAIN chosen
  BY <1>1, LenProperties, EmptySeq
<1>4. CASE chosen = <<>>
  <2>1. found = <<>>
    BY <1>1, <1>4
  <2>2. cands = {}
    BY <1>2, <2>1
  <2>3. QED
    BY <1>2, <1>4, <2>2 DEF First, chosen, cands
<1>5. CASE chosen # <<>>
  <2>1. First(chosen) = chosen[1] /\ chosen[1] \in cands
    BY <1>1, <1>2, <1>3, <1>5 DEF First
  <2>2. QED
    BY <1>2, <2>1 DEF chosen, cands
<1>6. QED
  BY <1>4, <1>5

-----------------------------------------------------------------------------
(* The scan implements the engine of the row. *)

\* Type of the results.
ScanType == found \in Seq(Results)

\* A symbol that passes is found with its score.
LEMMA EvaluateType == ScanType /\ Evaluate => ScanType'
<1> SUFFICES ASSUME ScanType, Evaluate PROVE ScanType'
  OBVIOUS
<1>1. PICK stock \in Stocks :
        found' = IF Passes(stock)
                 THEN Append(found, [symbol |-> Pool[at], score |-> Score(stock)])
                 ELSE found
  BY DEF Evaluate
<1>2. Pool[at] \in Symbols
  BY PoolAssumption, LenProperties, ElementOfSeq DEF Evaluate
<1>3. [symbol |-> Pool[at], score |-> Score(stock)] \in Results
  BY <1>2, ScoreType DEF Results
<1>4. QED
  BY <1>1, <1>3, AppendProperties DEF ScanType

\* The sort keeps the type of the results.
LEMMA RankedType == ScanType /\ EndScan => ScanType'
<1> SUFFICES ASSUME ScanType, EndScan PROVE ScanType'
  OBVIOUS
<1>1. \A i \in DOMAIN found : found[i].score \in Int
  <2>1. \A i \in DOMAIN found : found[i] \in Results
    BY LenProperties, ElementOfSeq DEF ScanType
  <2>2. QED
    BY <2>1 DEF Results
<1>2. Ranked(found) \in Seq(Results)
  BY <1>1, RankedLemma DEF ScanType
<1>3. QED
  BY <1>2 DEF EndScan, ScanType

\* Every step of the scan is a step of UniverseApproval or leaves it as it is.
LEMMA ScanStep ==
    ScanType /\ [Scan \/ Others]_<<vars, scanVars>> => ScanType' /\ [Next]_vars
<1> SUFFICES ASSUME ScanType, [Scan \/ Others]_<<vars, scanVars>>
             PROVE  ScanType' /\ [Next]_vars
  OBVIOUS
<1>0. <<>> \in Seq(Results)
  BY EmptySeq
<1>1. CASE StartScan
  BY <1>0, <1>1 DEF StartScan, ScanType
<1>2. CASE Evaluate
  <2>1. ScanType'
    BY <1>2, EvaluateType
  <2>2. UNCHANGED vars
    BY <1>2 DEF Evaluate
  <2>3. QED
    BY <2>1, <2>2
<1>3. CASE ScanFails
  BY <1>3 DEF ScanFails, ScanType
<1>4. CASE EndScan
  <2>1. ScanType'
    BY <1>4, RankedType
  <2>2. QED
    BY <1>4, <2>1 DEF EndScan, Next, Engine
<1>5. CASE Select
  <2>1. PICK answer \in Answers :
          EngineRead(ToSet(Names(found)), First(Selection(answer)))
    BY <1>5 DEF Select
  <2>2. /\ ToSet(Names(found)) \in SUBSET Symbols
        /\ First(Selection(answer)) \in IF ToSet(Names(found)) = {} THEN {"none"}
                                        ELSE ToSet(Names(found))
    BY FirstLemma DEF ScanType
  <2>3. Selects
    BY <2>1, <2>2 DEF Selects
  <2>4. ScanType'
    BY <1>5 DEF Select, ScanType
  <2>5. QED
    BY <2>3, <2>4 DEF Next, Engine
<1>6. CASE SelectRaises
  BY <1>0, <1>6 DEF SelectRaises, ScanType, Next, Engine
<1>7. CASE Store
  BY <1>0, <1>7 DEF Store, ScanType, Next, Engine
<1>8. CASE Crash
  BY <1>0, <1>8 DEF Crash, ScanType, Next, Engine
<1>9. CASE Others
  BY <1>9 DEF Others, scanVars, ScanType, Next
<1>10. CASE UNCHANGED <<vars, scanVars>>
  BY <1>10 DEF scanVars, ScanType
<1>11. QED
  BY <1>1, <1>2, <1>3, <1>4, <1>5, <1>6, <1>7, <1>8, <1>9, <1>10 DEF Scan

\* The scan, its ranking and its selection are an engine as UniverseApproval
\* describes it: whatever the pool, the bars and Claude's answers are, what is
\* stored are symbols, and the selected one is a candidate or there is none.
THEOREM ScanRefines == ScanSpec => ScanImplements
<1>1. InitScan => ScanType /\ Init
  BY EmptySeq DEF InitScan, ScanType
<1>2. QED
  BY <1>1, ScanStep, PTL DEF ScanSpec, ScanImplements, Spec

\* So while approval mode stays on, the scan and the user share one final decision
\* a day, and it is one of what was offered.
THEOREM ScanDecides == ScanSpec => []OneDecision /\ Implements
BY ScanRefines, DecidedOnce, Refinement, PTL DEF ScanImplements

-----------------------------------------------------------------------------
(* What is stored and traded. *)

\* f says which position of the pool each result stands for: all that passed.
Matches(f, results) ==
    /\ \A k \in Eligible : \E i \in DOMAIN results : f[i] = k
    /\ \A i \in DOMAIN results :
           results[i] = [symbol |-> Pool[f[i]], score |-> Score(market[f[i]])]

\* While the pool is evaluated the results stand in the order of the pool ...
Scanning == engine = "idle" /\ at # 0 =>
    /\ at \in 1..Len(Pool) + 1 /\ Len(market) = at - 1
    /\ \E f \in [DOMAIN found -> Eligible] :
          Matches(f, found) /\ \A i, j \in DOMAIN found : i < j => f[i] < f[j]

\* ... and afterwards by rank, with the whole pool evaluated.
Sorted == engine # "idle" =>
    /\ at = Len(Pool) + 1
    /\ \E f \in [DOMAIN found -> Eligible] :
          Matches(f, found) /\ \A i \in DOMAIN found : Cardinality(Better(f[i])) = i - 1

\* The inductive invariant of the scan.
ScanInv == ScanType /\ market \in Seq(Stocks) /\ Scanning /\ Sorted /\ SelectionSound

\* A symbol that passes takes the next place in the order of the pool.
LEMMA EvaluateScanning == ScanInv /\ Evaluate => Scanning'
<1> SUFFICES ASSUME ScanInv, Evaluate PROVE Scanning'
  OBVIOUS
<1>1. /\ at \in 1..Len(Pool) /\ Len(Pool) \in Nat /\ at \in Nat
      /\ market \in Seq(Stocks) /\ found \in Seq(Results)
      /\ engine = "idle" /\ at # 0
  <2>1. at \in 1..Len(Pool) /\ Len(Pool) \in Nat
    BY PoolAssumption, LenProperties DEF Evaluate
  <2>2. engine = "idle"
    BY <2>1 DEF ScanInv, Sorted
  <2>3. QED
    BY <2>1, <2>2 DEF ScanInv, ScanType
<1>2. PICK stock \in Stocks :
        /\ market' = Append(market, stock)
        /\ found' = IF Passes(stock)
                    THEN Append(found, [symbol |-> Pool[at], score |-> Score(stock)])
                    ELSE found
  BY DEF Evaluate
<1>3. Len(market) = at - 1 /\ DOMAIN market = 1..at - 1
  BY <1>1, LenProperties DEF ScanInv, Scanning
<1>4. PICK f \in [DOMAIN found -> Eligible] :
         Matches(f, found) /\ \A i, j \in DOMAIN found : i < j => f[i] < f[j]
  BY <1>1 DEF ScanInv, Scanning
<1>5. /\ Len(market') = at /\ DOMAIN market' = 1..at /\ market'[at] = stock
      /\ \A k \in 1..at - 1 : market'[k] = market[k]
  <2>1. /\ Append(market, stock) \in Seq(Stocks)
        /\ Len(Append(market, stock)) = Len(market) + 1
        /\ \A i \in 1..Len(market) : Append(market, stock)[i] = market[i]
        /\ Append(market, stock)[Len(market) + 1] = stock
    BY <1>1, AppendProperties
  <2>2. DOMAIN Append(market, stock) = 1..Len(market) + 1
    BY <2>1, LenProperties
  <2>3. QED
    BY <1>1, <1>2, <1>3, <2>1, <2>2
<1>6. /\ Eligible = {k \in 1..at - 1 : Passes(market[k])}
      /\ Eligible' = Eligible \cup (IF Passes(stock) THEN {at} ELSE {})
  <2>1. Eligible = {k \in 1..at - 1 : Passes(market[k])}
    BY <1>3 DEF Eligible
  <2>2. Eligible' = {k \in 1..at : Passes(market'[k])}
    BY <1>5 DEF Eligible
  <2>3. \A k \in 1..at : k \in 1..at - 1 \/ k = at
    BY <1>1
  <2>4. \A k \in 1..at - 1 : k \in 1..at
    BY <1>1
  <2>5. QED
    BY <1>1, <1>5, <2>1, <2>2, <2>3, <2>4
<1>7. Eligible \in SUBSET (1..at - 1)
  BY <1>6
<1>8. /\ at' \in 1..Len(Pool) + 1 /\ Len(market') = at' - 1
      /\ engine' = "idle"
  BY <1>1, <1>5 DEF Evaluate, vars, engineVars
<1>9. CASE ~Passes(stock)
  <2>1. found' = found /\ Eligible' = Eligible
    BY <1>2, <1>6, <1>9
  <2>2. \A i \in DOMAIN found : market'[f[i]] = market[f[i]]
    BY <1>4, <1>5, <1>7
  <2>3. Matches(f, found)'
    BY <1>4, <2>1, <2>2 DEF Matches
  <2>4. QED
    BY <1>4, <1>8, <2>1, <2>3 DEF Scanning
<1>10. CASE Passes(stock)
  <2> DEFINE n == Len(found)
             result == [symbol |-> Pool[at], score |-> Score(stock)]
  <2>1. n \in Nat /\ DOMAIN found = 1..n
    BY <1>1, LenProperties
  <2>2. result \in Results
    <3>1. Pool[at] \in Symbols
      BY <1>1, PoolAssumption, ElementOfSeq
    <3>2. QED
      BY <3>1, ScoreType DEF Results
  <2>3. /\ DOMAIN found' = 1..n + 1 /\ found'[n + 1] = result
        /\ \A i \in 1..n : found'[i] = found[i]
    <3>1. found' = Append(found, result)
      BY <1>2, <1>10
    <3>2. /\ Append(found, result) \in Seq(Results)
          /\ Len(Append(found, result)) = n + 1
          /\ \A i \in 1..n : Append(found, result)[i] = found[i]
          /\ Append(found, result)[n + 1] = result
      BY <1>1, <2>2, AppendProperties
    <3>3. QED
      BY <3>1, <3>2, LenProperties
  <2> HIDE DEF n
  <2>a. PICK g : g = [i \in 1..n + 1 |-> IF i <= n THEN f[i] ELSE at]
    OBVIOUS
  <2>4. /\ \A i \in 1..n : i \in 1..n + 1 /\ g[i] = f[i] /\ f[i] \in Eligible
        /\ n + 1 \in 1..n + 1 /\ g[n + 1] = at
        /\ \A i \in 1..n + 1 : i \in 1..n \/ i = n + 1
    BY <1>4, <2>1, <2>a
  <2>5. g \in [DOMAIN found' -> Eligible']
    BY <1>6, <1>10, <2>3, <2>4, <2>a
  <2>6. \A k \in Eligible' : \E i \in DOMAIN found' : g[i] = k
    BY <1>4, <1>6, <1>10, <2>1, <2>3, <2>4 DEF Matches
  <2>7. ASSUME NEW i \in 1..n
        PROVE  found'[i] = [symbol |-> Pool[g[i]], score |-> Score(market'[g[i]])]
    <3>1. f[i] \in 1..at - 1 /\ g[i] = f[i]
      BY <1>7, <2>4
    <3>2. market'[f[i]] = market[f[i]]
      BY <1>5, <3>1
    <3>3. found'[i] = [symbol |-> Pool[f[i]], score |-> Score(market[f[i]])]
      BY <1>4, <2>1, <2>3 DEF Matches
    <3>4. QED
      BY <3>1, <3>2, <3>3
  <2>8. found'[n + 1] = [symbol |-> Pool[g[n + 1]], score |-> Score(market'[g[n + 1]])]
    BY <1>5, <2>3, <2>4
  <2>9. Matches(g, found)'
    BY <2>3, <2>4, <2>6, <2>7, <2>8 DEF Matches
  <2>10. ASSUME NEW i \in DOMAIN found', NEW j \in DOMAIN found', i < j
         PROVE  g[i] < g[j]
    <3>1. i \in 1..n
      BY <2>1, <2>3, <2>10
    <3>2. CASE j \in 1..n
      BY <1>4, <2>1, <2>4, <2>10, <3>1, <3>2
    <3>3. CASE j = n + 1
      <4>1. g[i] \in 1..at - 1 /\ g[j] = at
        BY <1>7, <2>4, <3>1, <3>3
      <4>2. QED
        BY <1>1, <4>1
    <3>4. QED
      BY <2>3, <2>4, <3>2, <3>3
  <2>11. QED
    BY <1>8, <2>5, <2>9, <2>10 DEF Scanning
<1>11. QED
  BY <1>9, <1>10

\* In the order of the pool a result has as many above it as its stock.
LEMMA AboveBetter ==
    ASSUME ScanType, market \in Seq(Stocks), NEW f \in [DOMAIN found -> Eligible],
           Matches(f, found),
           \A i, j \in DOMAIN found : i < j => f[i] < f[j],
           NEW i \in DOMAIN found
    PROVE  Cardinality(Better(f[i])) = Cardinality(Above(found, i))
<1> DEFINE A == Above(found, i)
           B == Better(f[i])
           h == [j \in A |-> f[j]]
<1>1. /\ DOMAIN found = 1..Len(found) /\ Len(found) \in Nat
      /\ Eligible \in SUBSET Nat
  <2>1. DOMAIN market \in SUBSET Nat
    BY LenProperties
  <2>2. QED
    BY <2>1, LenProperties DEF ScanType, Eligible
<1>2. A \in SUBSET DOMAIN found /\ IsFiniteSet(DOMAIN found)
  BY <1>1, FS_Interval DEF Above
<1>3. IsFiniteSet(A)
  BY <1>2, FS_Subset
<1>4. \A j \in DOMAIN found : found[j].score = Score(market[f[j]])
  BY DEF Matches
<1>5. \A j \in DOMAIN found : j \in Nat /\ f[j] \in Nat
  <2>1. \A j \in DOMAIN found : j \in Nat
    BY <1>1
  <2>2. \A j \in DOMAIN found : f[j] \in Eligible
    OBVIOUS
  <2>3. QED
    BY <1>1, <2>1, <2>2
<1>6. \A j \in DOMAIN found : f[j] < f[i] <=> j < i
  BY <1>5
<1>7. \A j \in DOMAIN found : j \in A <=> f[j] \in B
  BY <1>4, <1>6 DEF Above, Better
<1>8. \A k \in B : \E j \in DOMAIN found : f[j] = k
  BY DEF Better, Matches
<1>9. \A j, m \in DOMAIN found : f[j] = f[m] => j = m
  BY <1>5
<1> HIDE DEF A, B
<1>10. h \in Bijection(A, B)
  <2>1. h \in [A -> B]
    BY <1>2, <1>7
  <2>2. \A j, m \in A : h[j] = h[m] => j = m
    BY <1>2, <1>9
  <2>3. \A k \in B : \E j \in A : h[j] = k
    BY <1>7, <1>8
  <2> HIDE DEF h
  <2>4. QED
    BY <2>1, <2>2, <2>3 DEF Bijection, Injection, Surjection, IsInjective
<1>11. ExistsBijection(A, B)
  BY <1>10 DEF ExistsBijection
<1>12. QED
  BY <1>3, <1>11, FS_Bijection DEF A, B

\* The sort puts every result where its rank says.
LEMMA EndScanSorted == ScanInv /\ EndScan => Sorted'
<1> SUFFICES ASSUME ScanInv, EndScan PROVE Sorted'
  OBVIOUS
<1>1. /\ engine = "idle" /\ at = Len(Pool) + 1 /\ at' = at /\ market' = market
      /\ found' = Ranked(found) /\ found \in Seq(Results) /\ market \in Seq(Stocks)
      /\ ScanType
  BY DEF EndScan, EngineMode, ScanInv, ScanType
<1>2. at # 0
  BY <1>1, PoolAssumption, LenProperties
<1>3. PICK f \in [DOMAIN found -> Eligible] :
         Matches(f, found) /\ \A i, j \in DOMAIN found : i < j => f[i] < f[j]
  BY <1>1, <1>2 DEF ScanInv, Scanning
<1>4. \A i \in DOMAIN found : found[i].score \in Int
  <2>1. \A i \in DOMAIN found : found[i] \in Results
    BY <1>1, LenProperties, ElementOfSeq
  <2>2. QED
    BY <2>1 DEF Results
<1>5. DOMAIN Ranked(found) = DOMAIN found /\ \E p : Sorts(p, found)
  BY <1>1, <1>4, RankedLemma
<1>6. PICK p : Sorts(p, found)
  BY <1>5
<1>7. PICK g : g = [k \in DOMAIN found |-> f[p[k]]]
  OBVIOUS
<1>8. DOMAIN found' = DOMAIN found /\ Eligible' = Eligible
  BY <1>1, <1>5 DEF Eligible
<1>9. g \in [DOMAIN found' -> Eligible']
  BY <1>6, <1>7, <1>8 DEF Sorts
<1>10. Matches(g, found)'
  <2>1. \A k \in Eligible' : \E i \in DOMAIN found' : g[i] = k
    BY <1>3, <1>6, <1>7, <1>8 DEF Matches, Sorts
  <2>2. ASSUME NEW k \in DOMAIN found'
        PROVE  found'[k] = [symbol |-> Pool[g[k]], score |-> Score(market'[g[k]])]
    <3>1. found'[k] = found[p[k]] /\ p[k] \in DOMAIN found /\ g[k] = f[p[k]]
      BY <1>1, <1>6, <1>7, <1>8 DEF Sorts
    <3>2. QED
      BY <1>1, <1>3, <3>1 DEF Matches
  <2>3. QED
    BY <2>1, <2>2 DEF Matches
<1>11. ASSUME NEW k \in DOMAIN found' PROVE Cardinality(Better(g[k])') = k - 1
  <2>1. p[k] \in DOMAIN found /\ g[k] = f[p[k]]
    BY <1>6, <1>7, <1>8 DEF Sorts
  <2>2. Cardinality(Better(g[k])) = Cardinality(Above(found, p[k]))
    BY <1>1, <1>3, <2>1, AboveBetter
  <2>3. Better(g[k])' = Better(g[k])
    BY <1>1, <1>8 DEF Better
  <2>4. QED
    BY <1>6, <1>8, <2>2, <2>3 DEF Sorts
<1>12. QED
  BY <1>1, <1>9, <1>10, <1>11 DEF Sorted

\* What the selection leaves for the engine to store and trade.
LEMMA SelectSound == ScanInv /\ Select => SelectionSound'
<1> SUFFICES ASSUME ScanInv, Select PROVE SelectionSound'
  OBVIOUS
<1>1. PICK answer \in Answers :
        /\ EngineRead(ToSet(Names(found)), First(Selection(answer)))
        /\ watchlist' = IF scanMode = "approval" THEN <<>> ELSE Selection(answer)
        /\ named' = answer
  BY DEF Select
<1>2. /\ engine = "select" /\ scanMode' = scanMode /\ found' = found /\ market' = market
      /\ new' = Scanned(ToSet(Names(found)), First(Selection(answer)))
  BY <1>1 DEF Select, EngineRead
<1>3. PICK f \in [DOMAIN found -> Eligible] :
         Matches(f, found) /\ \A i \in DOMAIN found : Cardinality(Better(f[i])) = i - 1
  BY <1>2 DEF ScanInv, Sorted
<1>4. Eligible' = Eligible /\ \A k : Better(k)' = Better(k)
  BY <1>2 DEF Eligible, Better
<1>5. \A j \in DOMAIN found : found[j].symbol = Pool[f[j]] /\ f[j] \in Eligible
  BY <1>3 DEF Matches
<1>6. {found[j].symbol : j \in DOMAIN found} = {Pool[k] : k \in Eligible}
  BY <1>3, <1>5 DEF Matches
<1>7. /\ ToSet(Names(found)) = {found[j].symbol : j \in DOMAIN found}
      /\ \A i \in DOMAIN Selection(answer) : \E j \in DOMAIN found :
            j <= Size /\ Selection(answer)[i] = found[j].symbol
      /\ found # <<>> => Selection(answer) # <<>>
      /\ \/ ToSet(Selection(answer)) \subseteq ToSet(answer) \/ scanMode = "approval"
         \/ 1 \in DOMAIN found /\ Selection(answer) = <<found[1].symbol>>
  BY FirstLemma, SelectionLemma DEF ScanInv, ScanType
<1>8. new'.candidates = {Pool[k] : k \in Eligible}
  BY <1>2, <1>6, <1>7 DEF Scanned, NoRow
<1>9. Eligible # {} => watchlist' # <<>> \/ scanMode = "approval"
  <2>1. Eligible # {} => found # <<>>
    BY <1>3 DEF Matches
  <2>2. QED
    BY <1>1, <1>7, <2>1
<1>10. new'.selected = First(watchlist)'
  BY <1>1, <1>2 DEF Scanned, NoRow, First
<1>11. ASSUME NEW i \in DOMAIN watchlist'
       PROVE  \E k \in Eligible : Pool[k] = watchlist'[i] /\ Cardinality(Better(k)) < Size
  <2>1. watchlist' = Selection(answer)
    BY <1>1, <1>11
  <2>2. PICK j \in DOMAIN found : j <= Size /\ watchlist'[i] = found[j].symbol
    BY <1>7, <1>11, <2>1
  <2>3. Cardinality(Better(f[j])) < Size
    <3>1. Cardinality(Better(f[j])) = j - 1 /\ j \in Int /\ Size \in Int
      BY <1>3, PoolAssumption, LenProperties DEF ScanInv, ScanType
    <3>2. QED
      BY <2>2, <3>1
  <2>4. QED
    BY <1>5, <2>2, <2>3
<1>12. \/ ToSet(watchlist') \subseteq ToSet(named')
       \/ \E k \in Eligible : watchlist' = <<Pool[k]>> /\ Better(k) = {}
  <2>1. CASE scanMode = "approval"
    <3>1. ToSet(watchlist') = {}
      BY <1>1, <2>1 DEF ToSet
    <3>2. QED
      BY <3>1
  <2>2. CASE /\ scanMode # "approval"
             /\ 1 \in DOMAIN found /\ Selection(answer) = <<found[1].symbol>>
    <3>1. watchlist' = <<Pool[f[1]]>> /\ f[1] \in Eligible
      BY <1>1, <1>5, <2>2
    <3>2. Better(f[1]) = {}
      <4>1. Cardinality(Better(f[1])) = 1 - 1
        BY <1>3, <2>2
      <4>2. IsFiniteSet(Better(f[1]))
        <5>1. Better(f[1]) \in SUBSET DOMAIN market /\ IsFiniteSet(DOMAIN market)
          BY FS_Interval, LenProperties DEF Better, Eligible, ScanInv
        <5>2. QED
          BY <5>1, FS_Subset
      <4>3. QED
        BY <4>1, <4>2, FS_EmptySet
    <3>3. QED
      BY <3>1, <3>2
  <2>3. CASE scanMode # "approval" /\ ToSet(Selection(answer)) \subseteq ToSet(answer)
    BY <1>1, <2>3
  <2>4. QED
    BY <1>7, <2>1, <2>2, <2>3
<1>13. QED
  BY <1>2, <1>4, <1>8, <1>9, <1>10, <1>11, <1>12 DEF SelectionSound

\* Every step of the scan keeps its invariant.
LEMMA ScanInvStep == ScanInv /\ [Scan \/ Others]_<<vars, scanVars>> => ScanInv'
<1> SUFFICES ASSUME ScanInv, [Scan \/ Others]_<<vars, scanVars>> PROVE ScanInv'
  OBVIOUS
<1>0. ScanType'
  BY ScanStep DEF ScanInv
<1>e. <<>> \in Seq(Stocks)
  BY EmptySeq
<1>a. ASSUME market' = <<>>, engine' = "idle", at' = 0 PROVE ScanInv'
  BY <1>0, <1>e, <1>a DEF ScanInv, Scanning, Sorted, SelectionSound
<1>1. CASE StartScan
  <2>1. /\ engine' = "idle" /\ at' = 1 /\ found' = <<>> /\ market' = <<>>
    BY <1>1 DEF StartScan, vars, engineVars
  <2>2. Scanning'
    <3>1. DOMAIN found' = {} /\ Eligible' = {} /\ Len(market') = 0 /\ Len(Pool) \in Nat
      BY <2>1, PoolAssumption, LenProperties DEF Eligible
    <3>2. PICK f : f \in [DOMAIN found' -> Eligible']
      <4>1. [i \in DOMAIN found' |-> i] \in [DOMAIN found' -> Eligible']
        BY <3>1
      <4>2. QED
        BY <4>1
    <3>3. Matches(f, found)'
      BY <3>1 DEF Matches
    <3>4. at' \in 1..Len(Pool) + 1 /\ Len(market') = at' - 1
      BY <2>1, <3>1
    <3>5. \A i, j \in DOMAIN found' : i < j => f[i] < f[j]
      BY <3>1
    <3>6. QED
      BY <3>2, <3>3, <3>4, <3>5 DEF Scanning
  <2>3. QED
    BY <1>0, <1>e, <2>1, <2>2 DEF ScanInv, Sorted, SelectionSound
<1>2. CASE Evaluate
  <2>1. Scanning'
    BY <1>2, EvaluateScanning
  <2>2. market' \in Seq(Stocks)
    BY <1>2, AppendProperties DEF ScanInv, Evaluate
  <2>3. engine' = "idle"
    <3>1. at # Len(Pool) + 1
      BY <1>2, PoolAssumption, LenProperties DEF Evaluate
    <3>2. QED
      BY <1>2, <3>1 DEF ScanInv, Sorted, Evaluate, vars, engineVars
  <2>4. QED
    BY <1>0, <2>1, <2>2, <2>3 DEF ScanInv, Sorted, SelectionSound
<1>3. CASE ScanFails
  <2>1. engine' = "idle" /\ at' = 0 /\ market' = market
    BY <1>3 DEF ScanFails, vars, engineVars
  <2>2. QED
    BY <1>0, <2>1 DEF ScanInv, Scanning, Sorted, SelectionSound
<1>4. CASE EndScan
  <2>1. Sorted' /\ engine' = "select" /\ market' = market
    BY <1>4, EndScanSorted DEF EndScan, EngineMode
  <2>2. QED
    BY <1>0, <2>1 DEF ScanInv, Scanning, SelectionSound
<1>5. CASE Select
  <2>1. SelectionSound'
    BY <1>5, SelectSound
  <2>2. /\ engine = "select" /\ engine' = "write"
        /\ at' = at /\ found' = found /\ market' = market
    BY <1>5 DEF Select, EngineRead
  <2>3. Sorted'
    BY <2>2 DEF ScanInv, Sorted, Matches, Eligible, Better
  <2>4. QED
    BY <1>0, <2>1, <2>2, <2>3 DEF ScanInv, Scanning
<1>6. CASE SelectRaises
  BY <1>a, <1>6 DEF SelectRaises, EngineRollback
<1>7. CASE Store
  BY <1>a, <1>7 DEF Store, EngineCommit, EngineRollback
<1>8. CASE Crash
  BY <1>a, <1>8 DEF Crash, EngineRollback, vars, engineVars
<1>9. CASE Others \/ UNCHANGED <<vars, scanVars>>
  <2>1. /\ UNCHANGED scanVars
        /\ engine' = engine /\ new' = new /\ scanMode' = scanMode
    BY <1>9 DEF Others, Web, WebRead, WebCommit, WebRollback, SetMode, engineVars, vars
  <2>2. QED
    <3>0. /\ at' = at /\ found' = found /\ market' = market /\ watchlist' = watchlist
          /\ named' = named /\ Eligible' = Eligible /\ \A k : Better(k)' = Better(k)
      BY <2>1 DEF scanVars, Eligible, Better
    <3>a. \A f : Matches(f, found)' <=> Matches(f, found)
      BY <3>0 DEF Matches
    <3>1. Scanning' /\ market' \in Seq(Stocks)
      BY <2>1, <3>0, <3>a DEF ScanInv, Scanning
    <3>2. Sorted'
      BY <2>1, <3>0, <3>a DEF ScanInv, Sorted
    <3>3. SelectionSound'
      BY <2>1, <3>0 DEF ScanInv, SelectionSound, First
    <3>4. QED
      BY <1>0, <3>1, <3>2, <3>3 DEF ScanInv
<1>10. QED
  BY <1>1, <1>2, <1>3, <1>4, <1>5, <1>6, <1>7, <1>8, <1>9 DEF Scan

\* What the engine stores is all that passed the filters and nothing else; what it
\* trades without asking is the one best by score, or names Claude has answered that
\* are among the best Size.
THEOREM SelectsTheBest == ScanSpec => []SelectionSound
<1>1. InitScan => ScanInv
  BY EmptySeq DEF InitScan, Init, ScanInv, ScanType, Scanning, Sorted, SelectionSound
<1>2. ScanInv => SelectionSound
  BY DEF ScanInv
<1>3. QED
  BY <1>1, <1>2, ScanInvStep, PTL DEF ScanSpec
=============================================================================
