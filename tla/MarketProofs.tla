---------------------------- MODULE MarketProofs ----------------------------
(***************************************************************************)
(* Market data and its analysis.                                           *)
(*                                                                         *)
(* The service's answers, for every number of requests, every horizon and  *)
(* every offer: they agree, histories hold what was accepted in the range  *)
(* asked for, and quotes do not go back.  It rests on stored rows never    *)
(* changing, so that an answer stays what the table says; that in turn on  *)
(* ON CONFLICT DO NOTHING: a row held by a batch is not stored yet, and no *)
(* other batch holds it.                                                   *)
(*                                                                         *)
(* The indicators, for every series of bars and every period: when each is *)
(* defined, that a new bar changes no earlier value, and that the windowed *)
(* ones do not see where the window starts.                                *)
(***************************************************************************)
EXTENDS MarketData, TechnicalAnalysis, EngineProofs, SequenceTheorems

Fields == {"pc", "kind", "asked", "batch", "todo", "mine", "answer"}

\* What is needed of the types: records, timestamps, a table of timestamps.
Shapes ==
  /\ now \in Moments
  /\ bars = [t \in Times |-> bars[t]]
  /\ requests = [r \in Requests |-> requests[r]]
  /\ \A r \in Requests :
       /\ requests[r] = [f \in Fields |-> requests[r][f]]
       /\ requests[r].todo \subseteq Times
       /\ requests[r].mine \subseteq Times

\* A batch holds rows that are not stored yet, and holds them alone.
HeldAlone ==
  \A r \in Requests : \A t \in requests[r].mine : bars[t] = None /\ ~RowHeld(r, t)

\* An answer is still what the table says.
AnswersStored ==
  \A r \in Requests : requests[r].pc = "answered" =>
    \A t \in DOMAIN requests[r].answer :
      t \in Times /\ bars[t] # None /\ requests[r].answer[t] = bars[t]

MarketDataInv == Shapes /\ HeldAlone /\ AnswersStored

-----------------------------------------------------------------------------
(* The first and the last of some timestamps *)

LEMMA MinOfTimes ==
  ASSUME NEW S, S \subseteq Times, S # {}
  PROVE  Min(S) \in S
<1>1. S \subseteq Nat
  BY MarketDataAssumption DEF Times
<1>2. PICK m \in S : \A k \in S : <<k, m>> \notin OpToRel(<, Nat)
  BY <1>1, NatLessThanWellFounded, WFMin
<1>3. \A k \in S : ~(k < m)
  BY <1>1, <1>2, Zenon DEF OpToRel
<1>4. \A k \in S : m =< k
  BY <1>1, <1>3
<1> QED
  BY <1>4 DEF Min

LEMMA MaxOfTimes ==
  ASSUME NEW S, S \subseteq Times, S # {}
  PROVE  Max(S) \in S /\ \A t \in S : Max(S) >= t
<1> DEFINE Left == {Horizon - t : t \in S}
<1>1. Left \subseteq Times /\ Left # {}
  <2>1. \A t \in S : t \in Int /\ 0 <= t /\ t <= Horizon
    BY MarketDataAssumption DEF Times
  <2>2. \A t \in S : Horizon - t \in Times
    BY <2>1, MarketDataAssumption DEF Times
  <2>3. PICK t \in S : TRUE
    OBVIOUS
  <2>4. Horizon - t \in Left
    BY <2>3
  <2>5. Left \subseteq Times
    BY <2>2
  <2> QED
    BY <2>4, <2>5
<1>2. Left \subseteq Nat
  BY <1>1, MarketDataAssumption DEF Times
<1>3. PICK m \in Left : \A k \in Left : <<k, m>> \notin OpToRel(<, Nat)
  BY <1>1, <1>2, NatLessThanWellFounded, WFMin
<1>4. \A k \in Left : ~(k < m)
  BY <1>2, <1>3, Zenon DEF OpToRel
<1>5. PICK last \in S : m = Horizon - last
  BY <1>3
<1>6. \A t \in S : last >= t
  <2> TAKE t \in S
  <2>1. ~(Horizon - t < m)
    BY <1>4
  <2> QED
    BY <2>1, <1>5, MarketDataAssumption DEF Times
<1> QED
  BY <1>6 DEF Max

-----------------------------------------------------------------------------
(* Only a commit changes the table, and only where its rows are missing.   *)

LEMMA CommitOnlyAdds ==
  ASSUME MarketDataInv, NEW r \in Requests, Commit(r), NEW t \in Times
  PROVE  /\ bars[t] # None => bars'[t] = bars[t]
         /\ t \notin requests[r].mine => bars'[t] = bars[t]
<1>1. bars'[t] = Committed(r, t)
  BY DEF Commit
<1>2. t \in requests[r].mine => bars[t] = None
  BY DEF MarketDataInv, HeldAlone
<1> QED
  BY <1>1, <1>2 DEF Committed

\* A step of one request that leaves the table alone and gives it rows nobody
\* else has.
LEMMA OneRequestMoves ==
  ASSUME MarketDataInv, NEW r \in Requests, NEW state,
         requests' = [requests EXCEPT ![r] = state], UNCHANGED <<now, bars>>,
         state = [f \in Fields |-> state[f]],
         state.todo \subseteq Times, state.mine \subseteq Times,
         \A t \in state.mine : bars[t] = None /\ ~RowHeld(r, t),
         state.pc = "answered" =>
           \A t \in DOMAIN state.answer :
             t \in Times /\ bars[t] # None /\ state.answer[t] = bars[t]
  PROVE  MarketDataInv'
<1>1. \A s \in Requests : requests'[s] = IF s = r THEN state ELSE requests[s]
  BY DEF MarketDataInv, Shapes
<1>2. Shapes'
  BY <1>1 DEF MarketDataInv, Shapes
<1>3. HeldAlone'
  <2> SUFFICES ASSUME NEW s \in Requests, NEW t \in requests'[s].mine
               PROVE  bars[t] = None /\ \A u \in Requests \ {s} : t \notin requests'[u].mine
    BY DEF HeldAlone, RowHeld
  <2>1. CASE s = r
    BY <2>1, <1>1 DEF RowHeld
  <2>2. CASE s # r
    <3>1. t \in requests[s].mine
      BY <2>2, <1>1
    <3>2. bars[t] = None /\ ~RowHeld(s, t)
      BY <3>1 DEF MarketDataInv, HeldAlone
    <3>3. t \notin state.mine
      BY <3>1, <2>2 DEF RowHeld
    <3> QED
      BY <3>2, <3>3, <1>1 DEF RowHeld
  <2> QED
    BY <2>1, <2>2
<1>4. AnswersStored'
  BY <1>1 DEF MarketDataInv, AnswersStored
<1> QED
  BY <1>2, <1>3, <1>4 DEF MarketDataInv

-----------------------------------------------------------------------------
LEMMA InitMarketData == Init => MarketDataInv
<1> SUFFICES ASSUME Init
             PROVE  MarketDataInv
  OBVIOUS
<1>1. now \in Moments
  BY MarketDataAssumption DEF Init, Moments
<1>2. \A r \in Requests : requests[r] = Idle
  BY DEF Init
<1>3. Idle = [f \in Fields |-> Idle[f]] /\ Idle.todo = {} /\ Idle.mine = {} /\ Idle.pc = "idle"
  BY DEF Idle, Fields
<1>4. Shapes
  BY <1>1, <1>2, <1>3 DEF Init, Shapes
<1>5. HeldAlone /\ AnswersStored
  BY <1>2, <1>3 DEF HeldAlone, AnswersStored
<1> QED
  BY <1>4, <1>5 DEF MarketDataInv

\* The request of a client whose batch is known.
Begun(kind, lo, hi, batch) ==
  [Idle EXCEPT !.pc = IF DOMAIN batch = {} THEN "read" ELSE "insert",
               !.kind = kind, !.asked = InRange(lo, hi),
               !.batch = batch, !.todo = DOMAIN batch]

LEMMA BegunIs ==
  ASSUME NEW kind, NEW lo, NEW hi, NEW batch
  PROVE  LET state == Begun(kind, lo, hi, batch)
         IN /\ state = [f \in Fields |-> state[f]]
            /\ state.pc = IF DOMAIN batch = {} THEN "read" ELSE "insert"
            /\ state.kind = kind /\ state.asked = InRange(lo, hi)
            /\ state.batch = batch /\ state.todo = DOMAIN batch /\ state.mine = {}
  BY DEF Begun, Idle, Fields

\* The bars of a range of moments are bars.
LEMMA BarIndexIsATime ==
  ASSUME NEW m \in Moments
  PROVE  BarIndex(m) \in Times
  BY MarketDataAssumption DEF Moments, BarIndex, Times

LEMMA OfferedTimes ==
  ASSUME NEW lo \in Moments, NEW hi \in Moments, NEW offered \in ProviderHistory(lo, hi)
  PROVE  DOMAIN offered \subseteq Times /\ \A t \in DOMAIN offered : offered[t] \in Offers
<1>1. BarIndex(lo) \in Times /\ BarIndex(hi) \in Times
  BY BarIndexIsATime
<1>2. BarIndex(lo)..BarIndex(hi) \subseteq Times
  BY <1>1, MarketDataAssumption DEF Times
<1> QED
  BY <1>2 DEF ProviderHistory

\* An ingestion begins with what was accepted of some offer.
LEMMA IngestBegins ==
  ASSUME NEW r \in Requests, NEW kind, NEW lo \in Moments, NEW hi \in Moments,
         Ingest(r, kind, lo, hi)
  PROVE  \E offered \in ProviderHistory(lo, hi) :
           requests' = [requests EXCEPT ![r] = Begun(kind, lo, hi, Accepted(offered))]
  BY DEF Ingest, Begun

LEMMA ForgetKeeps ==
  ASSUME MarketDataInv, NEW r \in Requests, NEW pc, pc # "answered", End(r, pc)
  PROVE  MarketDataInv'
<1> DEFINE state == [Idle EXCEPT !.pc = pc]
<1>1. /\ state.pc = pc /\ state.todo = {} /\ state.mine = {}
      /\ state = [f \in Fields |-> state[f]]
  BY DEF Idle, Fields
<1>2. requests' = [requests EXCEPT ![r] = state] /\ UNCHANGED <<now, bars>>
  BY DEF End
<1> HIDE DEF state
<1> QED
  BY <1>1, <1>2, OneRequestMoves

LEMMA IngestKeeps ==
  ASSUME MarketDataInv, NEW r \in Requests, NEW kind, NEW lo \in Moments, NEW hi \in Moments,
         Ingest(r, kind, lo, hi) \/ RefuseIngest(r, lo, hi)
  PROVE  MarketDataInv'
<1>1. CASE Ingest(r, kind, lo, hi)
  <2>1. PICK offered \in ProviderHistory(lo, hi) :
          requests' = [requests EXCEPT ![r] = Begun(kind, lo, hi, Accepted(offered))]
    BY <1>1, IngestBegins
  <2>2. DOMAIN Accepted(offered) \subseteq Times
    BY OfferedTimes DEF Accepted
  <2>3. UNCHANGED <<now, bars>>
    BY <1>1 DEF Ingest
  <2> DEFINE state == Begun(kind, lo, hi, Accepted(offered))
  <2>4. /\ state = [f \in Fields |-> state[f]]
        /\ state.pc # "answered" /\ state.todo \subseteq Times /\ state.mine = {}
    BY <2>2, BegunIs
  <2> HIDE DEF state
  <2>5. requests' = [requests EXCEPT ![r] = state]
    BY <2>1 DEF state
  <2> QED
    BY <2>3, <2>4, <2>5, OneRequestMoves
<1>2. CASE RefuseIngest(r, lo, hi)
  BY <1>2, ForgetKeeps DEF RefuseIngest
<1> QED
  BY <1>1, <1>2

LEMMA QuoteAsks ==
  ASSUME NEW r \in Requests, now \in Moments, GetQuote(r)
  PROVE  \E lo \in Moments : Ingest(r, "quote", lo, now) \/ RefuseIngest(r, lo, now)
<1> DEFINE lookback == Timestamp(QuoteLookback)
           lo == IF now > lookback THEN now - lookback ELSE 0
<1>1. lookback \in Nat
  BY MarketDataAssumption DEF Timestamp
<1> HIDE DEF lookback
<1>2. lo \in Moments
  BY <1>1, MarketDataAssumption DEF Moments
<1> HIDE DEF lo
<1> QED
  BY <1>2 DEF GetQuote, lo, lookback

LEMMA InsertRowKeeps ==
  ASSUME MarketDataInv, NEW r \in Requests, InsertRow(r)
  PROVE  MarketDataInv'
<1> DEFINE t == NextRow(r)
           state == [requests[r] EXCEPT
             !.todo = @ \ {t},
             !.mine = IF bars[t] = None THEN @ \cup {t} ELSE @]
<1>1. t \in Times
  BY MinOfTimes DEF MarketDataInv, Shapes, InsertRow, NextRow
<1>2. requests[r] = [f \in Fields |-> requests[r][f]]
  BY DEF MarketDataInv, Shapes
<1>3. /\ state = [f \in Fields |-> state[f]]
      /\ state.pc = requests[r].pc
      /\ state.todo = requests[r].todo \ {t}
      /\ state.mine = IF bars[t] = None THEN requests[r].mine \cup {t} ELSE requests[r].mine
  BY <1>2 DEF Fields
<1>4. requests' = [requests EXCEPT ![r] = state] /\ UNCHANGED <<now, bars>>
  BY DEF InsertRow
<1>5. requests[r].pc = "insert" /\ ~RowHeld(r, t)
  BY DEF InsertRow
<1>6. \A u \in requests[r].mine : bars[u] = None /\ ~RowHeld(r, u)
  BY DEF MarketDataInv, HeldAlone
<1>7. requests[r].todo \subseteq Times /\ requests[r].mine \subseteq Times
  BY DEF MarketDataInv, Shapes
<1> HIDE DEF t, state
<1>8. \A u \in state.mine : bars[u] = None /\ ~RowHeld(r, u)
  BY <1>3, <1>5, <1>6
<1>9. state.todo \subseteq Times /\ state.mine \subseteq Times /\ state.pc # "answered"
  BY <1>1, <1>3, <1>5, <1>7
<1> QED
  BY <1>3, <1>4, <1>8, <1>9, OneRequestMoves

LEMMA CommitKeeps ==
  ASSUME MarketDataInv, NEW r \in Requests, Commit(r)
  PROVE  MarketDataInv'
<1> DEFINE state == [requests[r] EXCEPT !.pc = "read", !.mine = {}]
<1>1. requests[r] = [f \in Fields |-> requests[r][f]]
  BY DEF MarketDataInv, Shapes
<1>2. /\ state = [f \in Fields |-> state[f]]
      /\ state.pc = "read" /\ state.todo = requests[r].todo /\ state.mine = {}
  BY <1>1 DEF Fields
<1>3. requests' = [requests EXCEPT ![r] = state]
  BY DEF Commit
<1> HIDE DEF state
<1>4. \A s \in Requests : requests'[s] = IF s = r THEN state ELSE requests[s]
  BY <1>3 DEF MarketDataInv, Shapes
<1>5. \A t \in Times : /\ bars[t] # None => bars'[t] = bars[t]
                       /\ t \notin requests[r].mine => bars'[t] = bars[t]
  BY CommitOnlyAdds
<1>6. bars' = [t \in Times |-> Committed(r, t)] /\ now' = now
  BY DEF Commit
<1>7. Shapes'
  BY <1>2, <1>3, <1>4, <1>6 DEF MarketDataInv, Shapes
<1>8. HeldAlone'
  <2> SUFFICES ASSUME NEW s \in Requests, NEW t \in requests'[s].mine
               PROVE  bars'[t] = None /\ \A u \in Requests \ {s} : t \notin requests'[u].mine
    BY DEF HeldAlone, RowHeld
  <2>1. s # r /\ t \in requests[s].mine
    BY <1>2, <1>4
  <2>2. bars[t] = None /\ ~RowHeld(s, t) /\ t \in Times
    BY <2>1 DEF MarketDataInv, HeldAlone, Shapes
  <2>3. t \notin requests[r].mine
    BY <2>1, <2>2 DEF RowHeld
  <2> QED
    BY <2>2, <2>3, <1>2, <1>4, <1>5 DEF RowHeld
<1>9. AnswersStored'
  <2> SUFFICES ASSUME NEW s \in Requests, requests'[s].pc = "answered",
                      NEW t \in DOMAIN requests'[s].answer
               PROVE  t \in Times /\ bars'[t] # None /\ requests'[s].answer[t] = bars'[t]
    BY DEF AnswersStored
  <2>1. s # r /\ requests'[s] = requests[s]
    BY <1>2, <1>4
  <2>2. t \in Times /\ bars[t] # None /\ requests[s].answer[t] = bars[t]
    BY <2>1 DEF MarketDataInv, AnswersStored
  <2> QED
    BY <2>1, <2>2, <1>5
<1> QED
  BY <1>7, <1>8, <1>9 DEF MarketDataInv

LEMMA RowsAreStored ==
  ASSUME NEW q
  PROVE  Rows(q) \subseteq Stored
<1>1. CASE Stored = {}
  BY <1>1 DEF Rows
<1>2. CASE Stored # {}
  <2>1. Max(Stored) \in Stored
    BY <1>2, MaxOfTimes DEF Stored
  <2> QED
    BY <2>1 DEF Rows
<1> QED
  BY <1>1, <1>2

LEMMA AnswerKeeps ==
  ASSUME MarketDataInv, NEW r \in Requests, Answer(r)
  PROVE  MarketDataInv'
<1> DEFINE rows == Rows(requests[r])
           pc == IF requests[r].kind = "quote" /\ rows = {} THEN "notFound" ELSE "answered"
           state == [requests[r] EXCEPT !.pc = pc, !.answer = [t \in rows |-> bars[t]]]
<1>1. requests[r] = [f \in Fields |-> requests[r][f]]
  BY DEF MarketDataInv, Shapes
<1>2. /\ state = [f \in Fields |-> state[f]]
      /\ state.todo = requests[r].todo /\ state.mine = requests[r].mine
      /\ state.answer = [t \in rows |-> bars[t]]
  BY <1>1 DEF Fields
<1>3. requests' = [requests EXCEPT ![r] = state] /\ UNCHANGED <<now, bars>>
  BY DEF Answer
<1>4. \A t \in rows : t \in Times /\ bars[t] # None
  BY RowsAreStored DEF Stored
<1>5. state.todo \subseteq Times /\ state.mine \subseteq Times
  BY <1>2 DEF MarketDataInv, Shapes
<1>6. \A t \in state.mine : bars[t] = None /\ ~RowHeld(r, t)
  BY <1>2 DEF MarketDataInv, HeldAlone
<1> HIDE DEF rows, state
<1>7. \A t \in DOMAIN state.answer : t \in Times /\ bars[t] # None /\ state.answer[t] = bars[t]
  BY <1>2, <1>4
<1> QED
  BY <1>2, <1>3, <1>5, <1>6, <1>7, OneRequestMoves

LEMMA NextKeepsMarketData == MarketDataInv /\ [Next]_vars => MarketDataInv'
<1> SUFFICES ASSUME MarketDataInv, [Next]_vars
             PROVE  MarketDataInv'
  OBVIOUS
<1>1. CASE Tick
  <2>1. now' \in Moments
    BY <1>1 DEF Tick
  <2>2. bars' = bars /\ requests' = requests
    BY <1>1 DEF Tick
  <2> QED
    BY <2>1, <2>2 DEF MarketDataInv, Shapes, HeldAlone, RowHeld, AnswersStored
<1>2. CASE UNCHANGED vars
  BY <1>2 DEF vars, MarketDataInv, Shapes, HeldAlone, RowHeld, AnswersStored
<1>3. ASSUME NEW r \in Requests, GetQuote(r) \/ GetHistory(r)
      PROVE  MarketDataInv'
  <2>1. CASE GetHistory(r)
    BY <2>1, IngestKeeps DEF GetHistory
  <2>2. CASE GetQuote(r)
    <3>1. now \in Moments
      BY DEF MarketDataInv, Shapes
    <3>2. PICK lo \in Moments : Ingest(r, "quote", lo, now) \/ RefuseIngest(r, lo, now)
      BY <2>2, <3>1, QuoteAsks
    <3> QED
      BY <3>1, <3>2, IngestKeeps
  <2> QED
    BY <1>3, <2>1, <2>2
<1>4. ASSUME NEW r \in Requests, InsertRow(r) \/ Commit(r) \/ Answer(r)
      PROVE  MarketDataInv'
  BY <1>4, InsertRowKeeps, CommitKeeps, AnswerKeeps
<1>5. ASSUME NEW r \in Requests, ViolateCheck(r) \/ Fail(r) \/ Finish(r)
      PROVE  MarketDataInv'
  <2>1. CASE Finish(r)
    BY <2>1, ForgetKeeps DEF Finish
  <2>2. CASE ViolateCheck(r) \/ Fail(r)
    BY <2>2, ForgetKeeps DEF ViolateCheck, Fail
  <2> QED
    BY <1>5, <2>1, <2>2
<1> QED
  BY <1>1, <1>2, <1>3, <1>4, <1>5 DEF Next

\* Every reachable state keeps held rows apart and answers equal to the table.
THEOREM MarketDataInvariant == Spec => []MarketDataInv
  BY InitMarketData, NextKeepsMarketData, PTL DEF Spec

\* No two answers disagree on a bar they share, whatever the provider told the
\* requests behind them and however their inserts overlapped.
THEOREM AnswersNeverDisagree == Spec => []AnswersAgree
<1>1. MarketDataInv => AnswersAgree
  BY DEF MarketDataInv, AnswersStored, AnswersAgree, Answered
<1> QED
  BY <1>1, MarketDataInvariant, PTL

\* A stored bar is final: no step removes it or puts another in its place.
THEOREM StoredBarsStay == Spec => StoredBarsAreFinal
<1>1. MarketDataInv /\ [Next]_vars => [\A t \in Stored : bars'[t] = bars[t]]_vars
  <2> SUFFICES ASSUME MarketDataInv, Next, NEW t \in Stored
               PROVE  bars'[t] = bars[t]
    BY DEF vars
  <2>1. CASE bars' = bars
    BY <2>1
  <2>2. ASSUME NEW r \in Requests, Commit(r)
        PROVE  bars'[t] = bars[t]
    BY <2>2, CommitOnlyAdds DEF Stored
  <2> QED
    BY <2>1, <2>2 DEF Next, Tick, GetQuote, GetHistory, Ingest, RefuseIngest, End,
       InsertRow, ViolateCheck, Answer, Fail, Finish
<1> QED
  BY <1>1, MarketDataInvariant, PTL DEF Spec, StoredBarsAreFinal

-----------------------------------------------------------------------------
(* From the provider's offer to the answer                                 *)
(*                                                                         *)
(* MarketDataInv says what the table and the answers are; it does not say  *)
(* that an accepted row arrives.  RequestOK follows the rows of one batch. *)

\* What one request knows of its batch, against the table: the types of its
\* record; rows it holds can be stored; a row it has put in is held or stored;
\* after the commit all are stored; and the answer has those of the range.
RequestOK(q) ==
  /\ q.pc \in {"idle", "insert", "read", "answered", "notFound", "refused", "failed"}
  /\ q.kind \in Kinds /\ q.asked \subseteq Times
  /\ q.batch \in Batches(StoredBars)
  /\ q.todo \subseteq DOMAIN q.batch
  /\ q.mine \subseteq DOMAIN q.batch \ q.todo
  /\ \A t \in q.mine : Storable(q.batch[t])
  /\ q.pc = "insert" => \A t \in DOMAIN q.batch \ q.todo : t \in q.mine \/ bars[t] # None
  /\ q.pc = "read" => \A t \in DOMAIN q.batch : bars[t] # None
  /\ q.pc = "answered" /\ q.kind = "history" =>
       DOMAIN q.batch \cap q.asked \subseteq DOMAIN q.answer
  /\ q.pc = "answered" /\ q.kind = "quote" =>
       \E last \in Times :
         DOMAIN q.answer = {last} /\ \A t \in DOMAIN q.batch : t <= last

\* The table: its types, and the CHECK constraint on the lowest price.
TableOK ==
  /\ now \in Moments
  /\ bars \in [Times -> StoredBars \cup {None}]
  /\ \A t \in Times : bars[t] # None => bars[t].low > 0

Served == TableOK /\ \A r \in Requests : RequestOK(requests[r])

BatchInv == MarketDataInv /\ Served

-----------------------------------------------------------------------------
LEMMA MaxOfOne ==
  ASSUME NEW t \in Times
  PROVE  Max({t}) = t
<1>1. {t} \subseteq Times /\ {t} # {}
  OBVIOUS
<1> QED
  BY <1>1, MaxOfTimes

LEMMA BatchOfTimes ==
  ASSUME NEW batch \in Batches(StoredBars)
  PROVE  /\ DOMAIN batch \subseteq Times
         /\ \A t \in DOMAIN batch : batch[t] \in StoredBars
  BY DEF Batches

LEMMA AcceptedIsABatch ==
  ASSUME NEW lo \in Moments, NEW hi \in Moments, NEW offered \in ProviderHistory(lo, hi)
  PROVE  Accepted(offered) \in Batches(StoredBars)
<1> DEFINE good == {t \in DOMAIN offered : Valid(offered[t])}
<1>1. good \subseteq Times /\ \A t \in good : offered[t] \in Offers
  BY OfferedTimes
<1>2. Accepted(offered) = [t \in good |-> NormalizeBar(offered[t])]
  BY DEF Accepted
<1>3. \A t \in good : NormalizeBar(offered[t]) \in StoredBars
  BY <1>1 DEF StoredBars
<1> HIDE DEF good
<1>4. Accepted(offered) \in [good -> StoredBars]
  BY <1>2, <1>3
<1> QED
  BY <1>1, <1>4 DEF Batches

LEMMA EmptyIsABatch == <<>> \in Batches(StoredBars) /\ DOMAIN <<>> = {}
<1>1. <<>> \in [{} -> StoredBars]
  BY SMT
<1> QED
  BY <1>1 DEF Batches

\* A step of one request that leaves the table alone.
LEMMA OneRequestServed ==
  ASSUME BatchInv, NEW r \in Requests, NEW state, RequestOK(state),
         requests' = [requests EXCEPT ![r] = state], UNCHANGED <<now, bars>>
  PROVE  Served'
<1>1. \A s \in Requests : requests'[s] = IF s = r THEN state ELSE requests[s]
  BY DEF BatchInv, MarketDataInv, Shapes
<1>2. TableOK'
  BY DEF BatchInv, Served, TableOK
<1>3. ASSUME NEW s \in Requests
      PROVE  RequestOK(requests[s])'
  <2>1. CASE s = r
    BY <1>1, <2>1 DEF RequestOK
  <2>2. CASE s # r
    BY <1>1, <2>2 DEF RequestOK, BatchInv, Served
  <2> QED
    BY <2>1, <2>2
<1> QED
  BY <1>2, <1>3 DEF Served

-----------------------------------------------------------------------------
LEMMA InitServed == Init => Served
<1> SUFFICES ASSUME Init
             PROVE  Served
  OBVIOUS
<1>1. 0 \in Moments
  BY MarketDataAssumption DEF Moments
<1>2. TableOK
  BY <1>1 DEF Init, TableOK
<1>3. RequestOK(Idle)
  BY EmptyIsABatch DEF RequestOK, Idle, Kinds
<1>4. \A r \in Requests : requests[r] = Idle
  BY DEF Init
<1> QED
  BY <1>2, <1>3, <1>4 DEF Served

LEMMA ForgetServed ==
  ASSUME BatchInv, NEW r \in Requests, NEW pc \in {"idle", "refused", "failed"}, End(r, pc)
  PROVE  Served'
<1> DEFINE state == [Idle EXCEPT !.pc = pc]
<1>1. RequestOK(state)
  BY EmptyIsABatch DEF RequestOK, Idle, Kinds
<1>2. requests' = [requests EXCEPT ![r] = state] /\ UNCHANGED <<now, bars>>
  BY DEF End
<1> HIDE DEF state
<1> QED
  BY <1>1, <1>2, OneRequestServed

LEMMA IngestServed ==
  ASSUME BatchInv, NEW r \in Requests, NEW kind \in Kinds,
         NEW lo \in Moments, NEW hi \in Moments,
         Ingest(r, kind, lo, hi) \/ RefuseIngest(r, lo, hi)
  PROVE  Served'
<1>1. CASE Ingest(r, kind, lo, hi)
  <2>1. PICK offered \in ProviderHistory(lo, hi) :
          requests' = [requests EXCEPT ![r] = Begun(kind, lo, hi, Accepted(offered))]
    BY <1>1, IngestBegins
  <2> DEFINE batch == Accepted(offered)
             state == Begun(kind, lo, hi, batch)
  <2>2. batch \in Batches(StoredBars)
    BY AcceptedIsABatch
  <2> HIDE DEF batch
  <2>3. /\ state.pc = IF DOMAIN batch = {} THEN "read" ELSE "insert"
        /\ state.kind = kind /\ state.asked = InRange(lo, hi)
        /\ state.batch = batch /\ state.todo = DOMAIN batch /\ state.mine = {}
    BY BegunIs
  <2>4. requests' = [requests EXCEPT ![r] = state] /\ UNCHANGED <<now, bars>>
    BY <1>1, <2>1 DEF Ingest, batch
  <2> HIDE DEF state
  <2>5. InRange(lo, hi) \subseteq Times
    BY DEF InRange
  <2>6. RequestOK(state)
    BY <2>2, <2>3, <2>5 DEF RequestOK
  <2> QED
    BY <2>4, <2>6, OneRequestServed
<1>2. CASE RefuseIngest(r, lo, hi)
  BY <1>2, ForgetServed DEF RefuseIngest
<1> QED
  BY <1>1, <1>2

LEMMA InsertRowServed ==
  ASSUME BatchInv, NEW r \in Requests, InsertRow(r)
  PROVE  Served'
<1> DEFINE t == NextRow(r)
           state == [requests[r] EXCEPT
             !.todo = @ \ {t},
             !.mine = IF bars[t] = None THEN @ \cup {t} ELSE @]
<1>1. t \in requests[r].todo
  BY MinOfTimes DEF BatchInv, MarketDataInv, Shapes, InsertRow, NextRow
<1>2. requests[r] = [f \in Fields |-> requests[r][f]]
  BY DEF BatchInv, MarketDataInv, Shapes
<1>3. /\ state.pc = requests[r].pc /\ state.kind = requests[r].kind
      /\ state.asked = requests[r].asked
      /\ state.batch = requests[r].batch
      /\ state.todo = requests[r].todo \ {t}
      /\ state.mine = IF bars[t] = None THEN requests[r].mine \cup {t} ELSE requests[r].mine
  BY <1>2 DEF Fields
<1>4. /\ requests' = [requests EXCEPT ![r] = state] /\ UNCHANGED <<now, bars>>
      /\ requests[r].pc = "insert" /\ Storable(requests[r].batch[t])
  BY DEF InsertRow
<1>5. RequestOK(requests[r])
  BY DEF BatchInv, Served
<1> HIDE DEF t, state
<1>6. RequestOK(state)
  BY <1>1, <1>3, <1>4, <1>5 DEF RequestOK
<1> QED
  BY <1>4, <1>6, OneRequestServed

LEMMA CommitServed ==
  ASSUME BatchInv, NEW r \in Requests, Commit(r)
  PROVE  Served'
<1> DEFINE state == [requests[r] EXCEPT !.pc = "read", !.mine = {}]
<1>1. requests[r] = [f \in Fields |-> requests[r][f]]
  BY DEF BatchInv, MarketDataInv, Shapes
<1>2. /\ state.pc = "read" /\ state.kind = requests[r].kind
      /\ state.asked = requests[r].asked
      /\ state.batch = requests[r].batch
      /\ state.todo = requests[r].todo /\ state.mine = {}
  BY <1>1 DEF Fields
<1>3. requests' = [requests EXCEPT ![r] = state] /\ now' = now
  BY DEF Commit
<1> HIDE DEF state
<1>4. \A s \in Requests : requests'[s] = IF s = r THEN state ELSE requests[s]
  BY <1>3 DEF BatchInv, MarketDataInv, Shapes
<1>5. RequestOK(requests[r]) /\ requests[r].pc = "insert" /\ requests[r].todo = {}
  BY DEF BatchInv, Served, Commit
<1> DEFINE batch == requests[r].batch
<1>6. DOMAIN batch \subseteq Times /\ \A t \in DOMAIN batch : batch[t] \in StoredBars
  BY <1>5, BatchOfTimes DEF RequestOK
<1>7. bars' = [t \in Times |-> Committed(r, t)]
  BY DEF Commit
<1>8. TableOK
  BY DEF BatchInv, Served
<1>9. \A t \in requests[r].mine :
        t \in DOMAIN batch /\ batch[t] \in StoredBars /\ batch[t].low > 0
  BY <1>5, <1>6 DEF RequestOK, Storable, Prices
<1>10. \A t \in Times : t \in requests[r].mine => bars'[t] = batch[t] /\ bars'[t] # None
  BY <1>7, <1>9, NullAssumption DEF Committed
<1>11. \A t \in Times : /\ bars[t] # None => bars'[t] = bars[t]
                        /\ t \notin requests[r].mine => bars'[t] = bars[t]
  BY CommitOnlyAdds DEF BatchInv
<1>12. TableOK'
  <2>1. \A t \in Times : /\ bars'[t] \in StoredBars \cup {None}
                         /\ bars'[t] # None => bars'[t].low > 0
    BY <1>8, <1>9, <1>10, <1>11 DEF TableOK
  <2>2. bars' \in [Times -> StoredBars \cup {None}]
    BY <2>1, <1>7
  <2> QED
    BY <2>1, <2>2, <1>3, <1>8 DEF TableOK
<1>13. RequestOK(requests[r])'
  <2>1. \A t \in DOMAIN batch : bars'[t] # None
    BY <1>5, <1>6, <1>10, <1>11 DEF RequestOK
  <2>2. requests'[r] = state
    BY <1>4
  <2> QED
    BY <2>1, <2>2, <1>2, <1>5 DEF RequestOK
<1>14. ASSUME NEW s \in Requests, s # r
       PROVE  RequestOK(requests[s])'
  <2>1. RequestOK(requests[s])
    BY DEF BatchInv, Served
  <2>2. DOMAIN requests[s].batch \subseteq Times
    BY <2>1, BatchOfTimes DEF RequestOK
  <2>3. requests'[s] = requests[s]
    BY <1>4, <1>14
  <2> QED
    BY <2>1, <2>2, <2>3, <1>11 DEF RequestOK
<1> QED
  BY <1>12, <1>13, <1>14 DEF Served

\* What a request reads.
LEMMA RowsRead ==
  ASSUME NEW q, q.kind \in Kinds
  PROVE  /\ q.kind = "history" => Rows(q) = Stored \cap q.asked
         /\ q.kind = "quote" /\ Rows(q) # {} =>
              \E last \in Times : /\ Rows(q) = {last} /\ last \in Stored
                                  /\ \A t \in Stored : t <= last
<1>1. q.kind = "history" => Rows(q) = Stored \cap q.asked
  BY DEF Rows
<1>2. ASSUME q.kind = "quote", Rows(q) # {}
      PROVE  \E last \in Times : /\ Rows(q) = {last} /\ last \in Stored
                                 /\ \A t \in Stored : t <= last
  <2>1. Stored # {} /\ Rows(q) = {Max(Stored)}
    BY <1>2 DEF Rows
  <2>2. Stored \subseteq Times
    BY DEF Stored
  <2>3. Max(Stored) \in Stored /\ \A t \in Stored : Max(Stored) >= t
    BY <2>1, <2>2, MaxOfTimes
  <2>4. \A t \in Times : t \in Int
    BY MarketDataAssumption DEF Times
  <2> QED
    BY <2>1, <2>2, <2>3, <2>4
<1> QED
  BY <1>1, <1>2

LEMMA AnswerServed ==
  ASSUME BatchInv, NEW r \in Requests, Answer(r)
  PROVE  Served'
<1> DEFINE rows == Rows(requests[r])
           pc == IF requests[r].kind = "quote" /\ rows = {} THEN "notFound" ELSE "answered"
           state == [requests[r] EXCEPT !.pc = pc, !.answer = [t \in rows |-> bars[t]]]
<1>1. requests[r] = [f \in Fields |-> requests[r][f]]
  BY DEF BatchInv, MarketDataInv, Shapes
<1>2. /\ state.pc = pc /\ state.kind = requests[r].kind
      /\ state.asked = requests[r].asked
      /\ state.batch = requests[r].batch
      /\ state.todo = requests[r].todo /\ state.mine = requests[r].mine
      /\ DOMAIN state.answer = rows
  BY <1>1 DEF Fields
<1>3. requests' = [requests EXCEPT ![r] = state] /\ UNCHANGED <<now, bars>>
  BY DEF Answer
<1>4. RequestOK(requests[r]) /\ requests[r].pc = "read"
  BY DEF BatchInv, Served, Answer
<1>5. \A t \in DOMAIN requests[r].batch : t \in Stored
  BY <1>4, BatchOfTimes DEF RequestOK, Stored
<1>6. requests[r].kind = "history" =>
        DOMAIN requests[r].batch \cap requests[r].asked \subseteq rows
  BY <1>4, <1>5, RowsRead DEF RequestOK
<1>7. requests[r].kind = "quote" /\ rows # {} =>
        \E last \in Times : rows = {last} /\ \A t \in DOMAIN requests[r].batch : t <= last
  BY <1>4, <1>5, RowsRead DEF RequestOK
<1>8. pc \in {"answered", "notFound"} /\ (pc = "answered" /\ requests[r].kind = "quote" => rows # {})
  OBVIOUS
<1> HIDE DEF rows, pc, state
<1>9. RequestOK(state)
  BY <1>2, <1>4, <1>6, <1>7, <1>8 DEF RequestOK
<1> QED
  BY <1>3, <1>9, OneRequestServed

LEMMA NextKeepsBatch == BatchInv /\ [Next]_vars => BatchInv'
<1> SUFFICES ASSUME BatchInv, [Next]_vars
             PROVE  Served'
  BY NextKeepsMarketData DEF BatchInv
<1>1. CASE Tick
  <2>1. now' \in Moments
    BY <1>1 DEF Tick
  <2>2. bars' = bars /\ requests' = requests
    BY <1>1 DEF Tick
  <2> QED
    BY <2>1, <2>2 DEF BatchInv, Served, TableOK, RequestOK
<1>2. CASE UNCHANGED vars
  BY <1>2 DEF vars, BatchInv, Served, TableOK, RequestOK
<1>3. ASSUME NEW r \in Requests, GetQuote(r) \/ GetHistory(r)
      PROVE  Served'
  <2>1. CASE GetHistory(r)
    BY <2>1, IngestServed DEF GetHistory, Kinds
  <2>2. CASE GetQuote(r)
    <3>1. now \in Moments
      BY DEF BatchInv, Served, TableOK
    <3>2. PICK lo \in Moments : Ingest(r, "quote", lo, now) \/ RefuseIngest(r, lo, now)
      BY <2>2, <3>1, QuoteAsks
    <3> QED
      BY <3>1, <3>2, IngestServed DEF Kinds
  <2> QED
    BY <1>3, <2>1, <2>2
<1>4. ASSUME NEW r \in Requests, InsertRow(r) \/ Commit(r) \/ Answer(r)
      PROVE  Served'
  BY <1>4, InsertRowServed, CommitServed, AnswerServed
<1>5. ASSUME NEW r \in Requests, ViolateCheck(r) \/ Fail(r) \/ Finish(r)
      PROVE  Served'
  <2>1. CASE Finish(r)
    BY <2>1, ForgetServed DEF Finish
  <2>2. CASE ViolateCheck(r) \/ Fail(r)
    BY <2>2, ForgetServed DEF ViolateCheck, Fail
  <2> QED
    BY <1>5, <2>1, <2>2
<1> QED
  BY <1>1, <1>2, <1>3, <1>4, <1>5 DEF Next

\* Every reachable state accounts for each accepted row of a batch: still to be
\* inserted, held, or stored; and at the end, of a history, in the answer if its
\* timestamp is in the range asked for (_persist, then the SELECT of get_quote
\* and get_history).
THEOREM BatchInvariant == Spec => []BatchInv
<1>1. Init => BatchInv
  BY InitMarketData, InitServed DEF BatchInv
<1> QED
  BY <1>1, NextKeepsBatch, PTL DEF Spec

\* Rows and requests keep their types, and every stored price is positive, as
\* the CHECK constraints of market_data ask.
THEOREM MarketDataTypes == Spec => []TypeOK
<1>1. BatchInv => TypeOK
  BY DEF BatchInv, Served, TableOK, RequestOK, TypeOK
<1> QED
  BY <1>1, BatchInvariant, PTL

\* What the provider gave and the validator accepted is in a history if its
\* timestamp is in the range asked for (not the bar that an unaligned start
\* falls into): nothing is lost to a concurrent batch.  A quote is at least as
\* new as its own batch (ON CONFLICT DO NOTHING, then a SELECT of its own).
THEOREM NothingAcceptedIsLost == Spec => []AnswerHasItsBatch
<1>1. BatchInv => AnswerHasItsBatch
  <2> SUFFICES ASSUME BatchInv
               PROVE  AnswerHasItsBatch
    OBVIOUS
  <2>1. ASSUME NEW r \in Answered("quote"), NEW t \in DOMAIN requests[r].batch
        PROVE  t <= Max(DOMAIN requests[r].answer)
    <3>1. PICK last \in Times : /\ DOMAIN requests[r].answer = {last}
                                /\ \A u \in DOMAIN requests[r].batch : u <= last
      BY DEF Answered, BatchInv, Served, RequestOK
    <3> QED
      BY <3>1, MaxOfOne
  <2>2. \A r \in Answered("history") :
          DOMAIN requests[r].batch \cap requests[r].asked \subseteq DOMAIN requests[r].answer
    BY DEF Answered, BatchInv, Served, RequestOK
  <2> QED
    BY <2>1, <2>2 DEF AnswerHasItsBatch
<1> QED
  BY <1>1, BatchInvariant, PTL

\* A quote is new on the client's screen only by the step that answers it.
LEMMA OnlyAnswerAnswers ==
  ASSUME BatchInv, [Next]_vars, NEW r \in Requests,
         requests[r].pc # "answered" \/ requests[r].kind # "quote",
         requests'[r].pc = "answered", requests'[r].kind = "quote"
  PROVE  Answer(r) /\ requests[r].kind = "quote"
<1>1. requests'[r] # requests[r]
  OBVIOUS
<1>2. PICK s \in Requests : \/ GetQuote(s) \/ GetHistory(s)
                            \/ InsertRow(s) \/ ViolateCheck(s) \/ Commit(s)
                            \/ Answer(s) \/ Fail(s) \/ Finish(s)
  BY <1>1 DEF Next, vars, Tick
<1>3. /\ requests = [u \in Requests |-> requests[u]]
      /\ \A u \in Requests : requests[u] = [f \in Fields |-> requests[u][f]]
  BY DEF BatchInv, MarketDataInv, Shapes
<1>4. CASE s = r /\ Answer(s)
  <2> DEFINE rows == Rows(requests[r])
             state == [requests[r] EXCEPT
               !.pc = IF requests[r].kind = "quote" /\ rows = {} THEN "notFound" ELSE "answered",
               !.answer = [t \in rows |-> bars[t]]]
  <2>1. state.kind = requests[r].kind
    BY <1>3 DEF Fields
  <2>2. requests' = [requests EXCEPT ![r] = state]
    BY <1>4 DEF Answer
  <2> HIDE DEF state
  <2>3. requests'[r] = state
    BY <2>2, <1>3
  <2> QED
    BY <2>1, <2>3, <1>4
<1>5. CASE GetQuote(s) \/ GetHistory(s)
  <2>1. PICK state : /\ requests' = [requests EXCEPT ![s] = state]
                     /\ state.pc \in {"insert", "read", "refused", "failed"}
    <3>1. \A kind, lo, hi :
            Ingest(s, kind, lo, hi) =>
              \E batch : requests' = [requests EXCEPT ![s] = Begun(kind, lo, hi, batch)]
      BY DEF Ingest, Begun
    <3>2. \A kind, lo, hi, batch : Begun(kind, lo, hi, batch).pc \in {"insert", "read"}
      BY BegunIs
    <3>3. \A lo, hi :
            RefuseIngest(s, lo, hi) =>
              \E pc \in {"refused", "failed"} :
                requests' = [requests EXCEPT ![s] = [Idle EXCEPT !.pc = pc]]
      BY DEF RefuseIngest, End
    <3>4. \A pc : [Idle EXCEPT !.pc = pc].pc = pc
      BY DEF Idle
    <3>5. PICK kind, lo, hi : Ingest(s, kind, lo, hi) \/ RefuseIngest(s, lo, hi)
      BY <1>5 DEF GetQuote, GetHistory
    <3>6. CASE Ingest(s, kind, lo, hi)
      <4>1. PICK batch : requests' = [requests EXCEPT ![s] = Begun(kind, lo, hi, batch)]
        BY <3>1, <3>6
      <4> DEFINE state == Begun(kind, lo, hi, batch)
      <4>2. state.pc \in {"insert", "read"}
        BY <3>2
      <4>3. requests' = [requests EXCEPT ![s] = state]
        BY <4>1
      <4> HIDE DEF state
      <4> QED
        BY <4>2, <4>3
    <3>7. CASE RefuseIngest(s, lo, hi)
      BY <3>3, <3>4, <3>7
    <3> QED
      BY <3>5, <3>6, <3>7
  <2>2. requests'[s].pc \in {"insert", "read", "refused", "failed"}
    BY <2>1, <1>3
  <2>3. s # r => requests'[r] = requests[r]
    BY <2>1, <1>3
  <2> QED
    BY <2>2, <2>3, <1>1
<1>6. CASE InsertRow(s) \/ Commit(s)
  <2>1. requests'[s].pc \in {"insert", "read"}
    BY <1>3, <1>6 DEF InsertRow, Commit, Fields
  <2>2. s # r => requests'[r] = requests[r]
    BY <1>3, <1>6 DEF InsertRow, Commit
  <2> QED
    BY <2>1, <2>2, <1>1
<1>7. CASE ViolateCheck(s) \/ Fail(s) \/ Finish(s)
  <2>1. requests'[s].pc \in {"failed", "idle"}
    BY <1>3, <1>7 DEF ViolateCheck, Fail, Finish, End, Idle
  <2>2. s # r => requests'[r] = requests[r]
    BY <1>3, <1>7 DEF ViolateCheck, Fail, Finish, End
  <2> QED
    BY <2>1, <2>2, <1>1
<1>8. CASE s # r /\ Answer(s)
  <2>1. requests'[r] = requests[r]
    BY <1>3, <1>8 DEF Answer
  <2> QED
    BY <2>1, <1>1
<1> QED
  BY <1>2, <1>4, <1>5, <1>6, <1>7, <1>8

\* A quote is never older than one already answered: the latest row is read from
\* a table that only grows, in one statement.
THEOREM QuotesNeverGoBack == Spec => QuoteNeverGoesBack
<1>1. BatchInv /\ [Next]_vars =>
        [\A r \in Answered("quote")' : \A s \in Answered("quote") :
           r \notin Answered("quote") =>
             Max(DOMAIN requests'[r].answer) >= Max(DOMAIN requests[s].answer)]_vars
  <2> SUFFICES ASSUME BatchInv, Next,
                      NEW r \in Requests, requests'[r].pc = "answered", requests'[r].kind = "quote",
                      requests[r].pc # "answered" \/ requests[r].kind # "quote",
                      NEW s \in Answered("quote")
               PROVE  Max(DOMAIN requests'[r].answer) >= Max(DOMAIN requests[s].answer)
    BY DEF Answered
  <2>1. Answer(r) /\ requests[r].kind = "quote"
    BY OnlyAnswerAnswers
  <2>2. /\ requests = [u \in Requests |-> requests[u]]
        /\ \A u \in Requests : requests[u] = [f \in Fields |-> requests[u][f]]
    BY DEF BatchInv, MarketDataInv, Shapes
  <2>3. DOMAIN requests'[r].answer = Rows(requests[r]) /\ Rows(requests[r]) # {}
    BY <2>1, <2>2 DEF Answer, Fields
  <2>4. PICK last \in Times : Rows(requests[r]) = {last} /\ \A t \in Stored : t <= last
    BY <2>1, <2>3, RowsRead DEF Kinds
  <2>5. PICK shown \in Times : DOMAIN requests[s].answer = {shown}
    BY DEF Answered, BatchInv, Served, RequestOK
  <2>6. shown \in Stored
    BY <2>5 DEF Answered, BatchInv, MarketDataInv, AnswersStored, Stored
  <2>7. shown <= last /\ shown \in Int /\ last \in Int
    BY <2>4, <2>6, MarketDataAssumption DEF Times
  <2> QED
    BY <2>3, <2>4, <2>5, <2>7, MaxOfOne
<1> QED
  BY <1>1, BatchInvariant, PTL DEF Spec, QuoteNeverGoesBack

-----------------------------------------------------------------------------
(* Series that are computed bar by bar.  Induction here is over the first   *)
(* bar where two such series would differ.                                 *)

\* What holds at the low end of an interval and passes from each member to the
\* next holds on all of it.
LEMMA IntervalInduction ==
  ASSUME NEW lo \in Int, NEW hi \in Int, NEW Good, lo \in Good,
         \A i \in lo..hi : i + 1 \in lo..hi /\ i \in Good => i + 1 \in Good
  PROVE  lo..hi \subseteq Good
<1> DEFINE Bad == {n \in Nat : lo + n \in lo..hi /\ lo + n \notin Good}
<1>1. Bad = {}
  <2> SUFFICES ASSUME Bad # {} PROVE FALSE
    OBVIOUS
  <2>1. PICK m \in Bad : \A k \in Bad : <<k, m>> \notin OpToRel(<, Nat)
    BY NatLessThanWellFounded, WFMin
  <2>2. \A k \in Bad : ~(k < m)
    BY <2>1, Zenon DEF OpToRel
  <2>3. m \in Nat /\ lo + m \in lo..hi /\ lo + m \notin Good
    OBVIOUS
  <2>4. m # 0
    BY <2>3
  <2>5. m - 1 \in Nat /\ lo + (m - 1) \in lo..hi /\ lo + (m - 1) + 1 = lo + m /\ m - 1 < m
    BY <2>3, <2>4
  <2>6. lo + (m - 1) \in Good
    BY <2>2, <2>5
  <2> QED
    BY <2>3, <2>5, <2>6
<1>2. \A i \in lo..hi : i - lo \in Nat /\ lo + (i - lo) = i
  OBVIOUS
<1> QED
  BY <1>1, <1>2

\* One value after the other: a base, and from each value the next.
Walk(f, lo, hi, base, step) ==
  \A i \in lo..hi : f[i] = IF i = lo THEN base ELSE step[i][f[i - 1]]

\* There is such a function.
LEMMA WalkExists ==
  ASSUME NEW lo \in Int, NEW hi \in Int, NEW V, NEW base \in V,
         NEW step, \A i \in lo..hi : i # lo => step[i] \in [V -> V]
  PROVE  \E f \in [lo..hi -> V] : Walk(f, lo, hi, base, step)
<1> DEFINE Good == {n \in lo..hi : \E f \in [lo..n -> V] : Walk(f, lo, n, base, step)}
<1>1. CASE lo > hi
  <2>1. lo..hi = {}
    BY <1>1
  <2>2. [i \in lo..hi |-> base] \in [lo..hi -> V]
    OBVIOUS
  <2> QED
    BY <2>1, <2>2 DEF Walk
<1>2. CASE lo <= hi
  <2>1. lo \in Good
    <3>1. [i \in lo..lo |-> base] \in [lo..lo -> V]
      OBVIOUS
    <3>2. Walk([i \in lo..lo |-> base], lo, lo, base, step)
      BY DEF Walk
    <3> QED
      BY <1>2, <3>1, <3>2
  <2>2. ASSUME NEW n \in lo..hi, n + 1 \in lo..hi, n \in Good
        PROVE  n + 1 \in Good
    <3>1. PICK f \in [lo..n -> V] : Walk(f, lo, n, base, step)
      BY <2>2
    <3> DEFINE next == step[n + 1][f[n]]
               g == [i \in lo..(n + 1) |-> IF i = n + 1 THEN next ELSE f[i]]
    <3>2. next \in V
      BY <2>2
    <3>3. g \in [lo..(n + 1) -> V]
      BY <2>2, <3>2
    <3>4. Walk(g, lo, n + 1, base, step)
      <4> SUFFICES ASSUME NEW i \in lo..(n + 1)
                   PROVE  g[i] = IF i = lo THEN base ELSE step[i][g[i - 1]]
        BY DEF Walk
      <4>1. CASE i = n + 1
        BY <2>2, <4>1
      <4>2. CASE i # n + 1
        <5>1. i \in lo..n /\ (i # lo => i - 1 \in lo..n)
          BY <2>2, <4>2
        <5> QED
          BY <2>2, <3>1, <5>1 DEF Walk
      <4> QED
        BY <4>1, <4>2
    <3> QED
      BY <2>2, <3>3, <3>4
  <2>3. lo..hi \subseteq Good
    <3> HIDE DEF Good
    <3> QED
      BY <2>1, <2>2, IntervalInduction
  <2>4. hi \in lo..hi
    BY <1>2
  <2> QED
    BY <2>3, <2>4
<1> QED
  BY <1>1, <1>2

\* Two functions that begin alike and go on alike are alike.
GoAlike(f, g, lo, hi) ==
  /\ lo <= hi => f[lo] = g[lo]
  /\ \A i \in lo..hi : i # lo /\ f[i - 1] = g[i - 1] => f[i] = g[i]

\* Two walks that begin alike and go on alike are alike.
LEMMA SameWalk ==
  ASSUME NEW lo \in Int, NEW hi \in Int, NEW f, NEW g, GoAlike(f, g, lo, hi)
  PROVE  \A i \in lo..hi : f[i] = g[i]
<1> DEFINE Good == {i \in lo..hi : f[i] = g[i]}
<1>1. CASE lo <= hi
  <2>1. lo \in Good
    BY <1>1 DEF GoAlike
  <2>2. \A i \in lo..hi : i + 1 \in lo..hi /\ i \in Good => i + 1 \in Good
    <3>1. \A i \in lo..hi : i + 1 # lo /\ (i + 1) - 1 = i
      OBVIOUS
    <3> QED
      BY <3>1 DEF GoAlike
  <2> HIDE DEF Good
  <2>3. lo..hi \subseteq Good
    BY <2>1, <2>2, IntervalInduction
  <2> QED
    BY <2>3 DEF Good
<1>2. CASE ~(lo <= hi)
  BY <1>2
<1> QED
  BY <1>1, <1>2

\* A function on the first n numbers is a sequence of length n.
LEMMA SeriesIs ==
  ASSUME NEW n \in Nat, NEW S, NEW values \in [1..n -> S]
  PROVE  values \in Seq(S) /\ Len(values) = n /\ DOMAIN values = 1..n
<1>1. values \in Seq(S)
  BY SeqDef
<1> QED
  BY <1>1, LenProperties

\* The running sums, one bar after the other.
SumsFollow(sums, values, n, p) ==
  /\ sums \in [0..n -> Int]
  /\ sums[0] = 0
  /\ \A i \in 1..n :
       sums[i] = sums[i - 1] + (values[i] - (IF i > p THEN values[i - p] ELSE 0))

\* The running sums are such a walk.
LEMMA RunningSumsFollow ==
  ASSUME NEW n \in Nat, NEW values \in [1..n -> Int], NEW p \in Nat \ {0}
  PROVE  SumsFollow(RunningSums(values, p), values, n, p)
<1> DEFINE After(sum) ==
             [i \in 0..n |-> IF i = 0 THEN 0
                             ELSE sum[i - 1]
                                  + (values[i] - (IF i > p THEN values[i - p] ELSE 0))]
           change == [i \in 0..n |-> IF i = 0 THEN 0
                                     ELSE values[i] - (IF i > p THEN values[i - p] ELSE 0)]
           step == [i \in 0..n |-> [v \in Int |-> v + change[i]]]
<1>1. Len(values) = n
  BY SeriesIs
<1>2. RunningSums(values, p) = CHOOSE sum : sum = After(sum)
  BY <1>1 DEF RunningSums
<1>3. change \in [0..n -> Int]
  <2> SUFFICES ASSUME NEW i \in 0..n PROVE change[i] \in Int
    OBVIOUS
  <2>1. i # 0 => values[i] \in Int /\ (i > p => values[i - p] \in Int)
    OBVIOUS
  <2> QED
    BY <2>1
<1> HIDE DEF change
<1>4. PICK g \in [0..n -> Int] : Walk(g, 0, n, 0, step)
  <2>1. \A i \in 0..n : i # 0 => step[i] \in [Int -> Int]
    BY <1>3
  <2>2. 0 \in Int /\ n \in Int
    OBVIOUS
  <2> HIDE DEF step
  <2> QED
    BY <2>1, <2>2, WalkExists
<1>5. /\ g[0] = 0
      /\ \A i \in 0..n : i # 0 => g[i] = g[i - 1] + change[i]
  <2>1. \A i \in 0..n : g[i] = IF i = 0 THEN 0 ELSE step[i][g[i - 1]]
    BY <1>4 DEF Walk
  <2>2. \A i \in 0..n, v \in Int : step[i][v] = v + change[i]
    OBVIOUS
  <2> HIDE DEF step
  <2>3. ASSUME NEW i \in 0..n, i # 0 PROVE g[i] = g[i - 1] + change[i]
    <3>1. i - 1 \in 0..n /\ g[i - 1] \in Int
      BY <1>4, <2>3
    <3> QED
      BY <2>1, <2>2, <2>3, <3>1
  <2>4. g[0] = 0
    BY <2>1
  <2> QED
    BY <2>3, <2>4
<1>6. g = After(g)
  BY <1>5 DEF change
<1>7. PICK sums : sums = RunningSums(values, p) /\ sums = After(sums)
  <2> HIDE DEF After
  <2> QED
    BY <1>2, <1>6
<1>8. sums[0] = 0 /\ \A i \in 0..n : i # 0 => sums[i] = sums[i - 1] + change[i]
  BY <1>7 DEF change
<1>9. \A i \in 0..n : sums[i] = g[i]
  <2>1. 0 \in Int /\ n \in Int
    OBVIOUS
  <2>2. GoAlike(sums, g, 0, n)
    BY <1>5, <1>8 DEF GoAlike
  <2> QED
    BY <2>1, <2>2, SameWalk
<1>10. sums \in [0..n -> Int]
  <2>1. DOMAIN sums = 0..n /\ sums = [i \in 0..n |-> sums[i]]
    BY <1>7
  <2> QED
    BY <1>4, <1>9, <2>1
<1>11. \A i \in 1..n :
         sums[i] = sums[i - 1] + (values[i] - (IF i > p THEN values[i - p] ELSE 0))
  BY <1>8 DEF change
<1> QED
  BY <1>7, <1>8, <1>10, <1>11 DEF SumsFollow

-----------------------------------------------------------------------------
(* Every indicator: what it is, and from which bar on it is defined. *)

\* Series of n bars that are undefined for the first w and then in V.
Known(n, w, V) ==
  {f \in [1..n -> V \cup {Undefined}] :
     \A i \in 1..n : (i <= w => f[i] = Undefined) /\ (i > w => f[i] \in V)}

\* A simple average is a running sum divided.
LEMMA SmaKnown ==
  ASSUME NEW n \in Nat, NEW values \in [1..n -> Int], NEW p \in Nat \ {0}
  PROVE  /\ Sma(values, p) \in Known(n, p - 1, Int)
         /\ \A i \in p..n : Sma(values, p)[i] = RunningSums(values, p)[i] \div p
<1> DEFINE sums == RunningSums(values, p)
<1>1. sums \in [0..n -> Int]
  BY RunningSumsFollow DEF SumsFollow
<1>2. Sma(values, p) = [i \in 1..n |-> IF i >= p THEN sums[i] \div p ELSE Undefined]
  BY DEF Sma
<1> HIDE DEF sums
<1>3. \A i \in 1..n : sums[i] \div p \in Int
  <2> TAKE i \in 1..n
  <2>1. sums[i] \in Int
    BY <1>1
  <2> QED
    BY <2>1
<1> QED
  BY <1>2, <1>3 DEF Known, sums

\* The average of the first values.
LEMMA FirstAverage ==
  ASSUME NEW n \in Nat, NEW V, V = Int \/ V = Nat, NEW values \in [1..n -> V],
         NEW first \in Nat \ {0}, NEW last \in Nat, NEW p \in Nat \ {0},
         last = first + (p - 1), last <= n
  PROVE  SumFunction(SubSeq(values, first, last)) \div p \in V
<1> DEFINE part == SubSeq(values, first, last)
<1>1. \A i \in first..last : values[i] \in V
  BY SMT
<1>2. first \in Int /\ last \in Int /\ first <= last
  OBVIOUS
<1>3. /\ part \in Seq(V) /\ Len(part) = last - first + 1
  BY <1>1, <1>2, SubSeqProperties
<1> HIDE DEF part
<1>4. DOMAIN part = 1..p /\ \A i \in 1..p : part[i] \in V
  <2>1. Len(part) = p
    BY <1>3
  <2> QED
    BY <1>3, <2>1, LenProperties, ElementOfSeq
<1>5. IsFiniteSet(1..p) /\ \A i \in 1..p : part[i] \in Int
  BY <1>4, FS_Interval
<1>6. /\ SumFunctionOnSet(part, 1..p) \in Int
      /\ (\A i \in 1..p : part[i] >= 0) => SumFunctionOnSet(part, 1..p) >= 0
  BY <1>5, SumType
<1>7. SumFunctionOnSet(part, 1..p) \in V
  BY <1>4, <1>6
<1>8. \A k \in V : k \div p \in V
  BY SMT
<1>9. SumFunction(part) = SumFunctionOnSet(part, 1..p)
  BY <1>4 DEF SumFunction
<1> QED
  BY <1>7, <1>8, <1>9 DEF part

\* An exponential average moves from one value to the next.
Moved(before, value, p) == ((value - before) * 2) \div (p + 1) + before

\* One step of an exponential average.
LEMMA MovedInt ==
  ASSUME NEW before \in Int, NEW value \in Int, NEW p \in Nat \ {0}
  PROVE  Moved(before, value, p) \in Int
<1>1. (value - before) * 2 \in Int /\ p + 1 \in Nat \ {0}
  OBVIOUS
<1>2. ((value - before) * 2) \div (p + 1) \in Int
  BY <1>1, DivisionBounds
<1> QED
  BY <1>2 DEF Moved

\* An exponential average is a walk from its seed.
LEMMA EmaKnown ==
  ASSUME NEW n \in Nat, NEW values \in [1..n -> Int], NEW p \in Nat \ {0}
  PROVE  /\ Ema(values, p) \in Known(n, p - 1, Int)
         /\ p <= n => Ema(values, p)[p] = Seed(values, p)
         /\ \A i \in p..n : i # p =>
              Ema(values, p)[i] = Moved(Ema(values, p)[i - 1], values[i], p)
<1> DEFINE After(average) ==
             [i \in p..n |-> IF i = p THEN Seed(values, p)
                             ELSE Moved(average[i - 1], values[i], p)]
           step == [i \in p..n |-> [v \in Int |-> Moved(v, values[i], p)]]
           walk == CHOOSE average : average = After(average)
<1>1. Len(values) = n /\ DOMAIN values = 1..n
  BY SeriesIs
<1>2. Ema(values, p) = [i \in 1..n |-> IF i >= p THEN walk[i] ELSE Undefined]
  BY <1>1 DEF Ema, Moved
<1>3. CASE p > n
  <2> HIDE DEF walk
  <2>1. \A i \in 1..n : ~(i >= p) /\ i <= p - 1 /\ ~(i > p - 1)
    BY <1>3
  <2>2. \A i \in p..n : FALSE
    BY <1>3
  <2>3. Ema(values, p) = [i \in 1..n |-> Undefined]
    BY <1>2, <2>1
  <2> QED
    BY <1>3, <2>1, <2>2, <2>3 DEF Known
<1>4. CASE p <= n
  <2>1. Seed(values, p) \in Int
    <3>1. 1 \in Nat \ {0} /\ p \in Nat /\ p = 1 + (p - 1)
      OBVIOUS
    <3> QED
      BY <1>4, <3>1, FirstAverage DEF Seed
  <2>2. PICK g \in [p..n -> Int] : Walk(g, p, n, Seed(values, p), step)
    <3>1. \A i \in p..n : i # p => step[i] \in [Int -> Int]
      <4> SUFFICES ASSUME NEW i \in p..n PROVE step[i] \in [Int -> Int]
        OBVIOUS
      <4>1. values[i] \in Int
        OBVIOUS
      <4>2. \A v \in Int : Moved(v, values[i], p) \in Int
        BY <4>1, MovedInt
      <4> QED
        BY <4>2
    <3>2. p \in Int /\ n \in Int
      OBVIOUS
    <3> HIDE DEF step
    <3> QED
      BY <2>1, <3>1, <3>2, WalkExists
  <2>3. /\ g[p] = Seed(values, p)
        /\ \A i \in p..n : i # p => g[i] = Moved(g[i - 1], values[i], p)
    <3>1. \A i \in p..n : g[i] = IF i = p THEN Seed(values, p) ELSE step[i][g[i - 1]]
      BY <2>2 DEF Walk
    <3>2. \A i \in p..n, v \in Int : step[i][v] = Moved(v, values[i], p)
      OBVIOUS
    <3> HIDE DEF step
    <3>3. ASSUME NEW i \in p..n, i # p PROVE g[i] = Moved(g[i - 1], values[i], p)
      <4>1. i - 1 \in p..n /\ g[i - 1] \in Int
        BY <2>2, <3>3
      <4> QED
        BY <3>1, <3>2, <3>3, <4>1
    <3>4. g[p] = Seed(values, p)
      BY <1>4, <3>1
    <3> QED
      BY <3>3, <3>4
  <2>4. g = After(g)
    BY <2>3
  <2>5. walk = After(walk)
    <3> HIDE DEF After
    <3> QED
      BY <2>4
  <2> HIDE DEF walk
  <2>6. /\ walk[p] = Seed(values, p)
        /\ \A i \in p..n : i # p => walk[i] = Moved(walk[i - 1], values[i], p)
    <3>1. \A i \in p..n : walk[i] = IF i = p THEN Seed(values, p)
                                    ELSE Moved(walk[i - 1], values[i], p)
      BY <2>5
    <3> QED
      BY <1>4, <3>1
  <2>7. \A i \in p..n : walk[i] = g[i]
    <3>1. GoAlike(walk, g, p, n)
      BY <2>3, <2>6 DEF GoAlike
    <3>2. p \in Int /\ n \in Int
      OBVIOUS
    <3> QED
      BY <3>1, <3>2, SameWalk
  <2>8. \A i \in p..n : walk[i] \in Int /\ i \in 1..n /\ i >= p
    BY <2>2, <2>7
  <2>9. \A i \in p..n : Ema(values, p)[i] = walk[i]
    BY <1>2, <2>8
  <2>10. Ema(values, p) \in Known(n, p - 1, Int)
    <3>1. \A i \in 1..n : i > p - 1 => i >= p /\ i \in p..n
      OBVIOUS
    <3>2. \A i \in 1..n : i <= p - 1 => ~(i >= p)
      OBVIOUS
    <3>3. \A i \in 1..n : i >= p => walk[i] \in Int
      BY <2>8, <3>1
    <3> QED
      BY <1>2, <3>1, <3>2, <3>3 DEF Known
  <2>11. \A i \in p..n : i # p =>
           Ema(values, p)[i] = Moved(Ema(values, p)[i - 1], values[i], p)
    <3>1. \A i \in p..n : i # p => i - 1 \in p..n
      OBVIOUS
    <3> QED
      BY <2>6, <2>9, <3>1
  <2> QED
    BY <1>4, <2>6, <2>9, <2>10, <2>11
<1> QED
  BY <1>3, <1>4

\* Wilder's average of what is not negative is not negative.
LEMMA SmoothedNat ==
  ASSUME NEW average \in Nat, NEW value \in Nat, NEW p \in Nat \ {0}
  PROVE  Smoothed(average, value, p) \in Nat
<1>1. p - 1 \in Nat
  OBVIOUS
<1>2. average * (p - 1) \in Nat
  BY <1>1
<1> DEFINE all == average * (p - 1) + value
<1>3. all \in Nat
  BY <1>2
<1> HIDE DEF all
<1>4. all \div p \in Nat
  BY <1>3
<1> QED
  BY <1>4 DEF Smoothed, all

\* So it is for each bar after the first p.
LEMMA WilderKnown ==
  ASSUME NEW n \in Nat, NEW values \in [1..n -> Nat], NEW p \in Nat \ {0}
  PROVE  /\ Wilder(values, p) \in Known(n, p, Nat)
         /\ p + 1 <= n =>
              Wilder(values, p)[p + 1] = SumFunction(SubSeq(values, 2, p + 1)) \div p
         /\ \A i \in (p + 1)..n : i # p + 1 =>
              Wilder(values, p)[i] = Smoothed(Wilder(values, p)[i - 1], values[i], p)
<1> DEFINE first == SumFunction(SubSeq(values, 2, p + 1)) \div p
           After(average) ==
             [i \in (p + 1)..n |-> IF i = p + 1 THEN first
                                   ELSE Smoothed(average[i - 1], values[i], p)]
           step == [i \in (p + 1)..n |-> [v \in Nat |-> Smoothed(v, values[i], p)]]
           walk == CHOOSE average : average = After(average)
<1>1. Len(values) = n /\ DOMAIN values = 1..n
  BY SeriesIs
<1>2. Wilder(values, p) = [i \in 1..n |-> IF i > p THEN walk[i] ELSE Undefined]
  BY <1>1 DEF Wilder
<1>3. CASE p + 1 > n
  <2> HIDE DEF walk, first
  <2>1. \A i \in 1..n : ~(i > p) /\ i <= p
    BY <1>3
  <2>2. \A i \in (p + 1)..n : FALSE
    BY <1>3
  <2>3. Wilder(values, p) = [i \in 1..n |-> Undefined]
    BY <1>2, <2>1
  <2> QED
    BY <1>3, <2>1, <2>2, <2>3 DEF Known
<1>4. CASE p + 1 <= n
  <2>1. first \in Nat
    <3>1. 2 \in Nat \ {0} /\ p + 1 \in Nat /\ p + 1 = 2 + (p - 1)
      OBVIOUS
    <3> QED
      BY <1>4, <3>1, FirstAverage
  <2> HIDE DEF first
  <2>2. PICK g \in [(p + 1)..n -> Nat] : Walk(g, p + 1, n, first, step)
    <3>1. \A i \in (p + 1)..n : i # p + 1 => step[i] \in [Nat -> Nat]
      <4> SUFFICES ASSUME NEW i \in (p + 1)..n PROVE step[i] \in [Nat -> Nat]
        OBVIOUS
      <4>1. values[i] \in Nat
        OBVIOUS
      <4>2. \A v \in Nat : Smoothed(v, values[i], p) \in Nat
        BY <4>1, SmoothedNat
      <4> QED
        BY <4>2
    <3>2. p + 1 \in Int /\ n \in Int
      OBVIOUS
    <3> HIDE DEF step
    <3> QED
      BY <2>1, <3>1, <3>2, WalkExists
  <2>3. /\ g[p + 1] = first
        /\ \A i \in (p + 1)..n : i # p + 1 => g[i] = Smoothed(g[i - 1], values[i], p)
    <3>1. \A i \in (p + 1)..n : g[i] = IF i = p + 1 THEN first ELSE step[i][g[i - 1]]
      BY <2>2 DEF Walk
    <3>2. \A i \in (p + 1)..n, v \in Nat : step[i][v] = Smoothed(v, values[i], p)
      OBVIOUS
    <3> HIDE DEF step
    <3>3. ASSUME NEW i \in (p + 1)..n, i # p + 1
          PROVE  g[i] = Smoothed(g[i - 1], values[i], p)
      <4>1. i - 1 \in (p + 1)..n /\ g[i - 1] \in Nat
        BY <2>2, <3>3
      <4> QED
        BY <3>1, <3>2, <3>3, <4>1
    <3>4. g[p + 1] = first
      BY <1>4, <3>1
    <3> QED
      BY <3>3, <3>4
  <2>4. g = After(g)
    BY <2>3
  <2>5. walk = After(walk)
    <3> HIDE DEF After
    <3> QED
      BY <2>4
  <2> HIDE DEF walk
  <2>6. /\ walk[p + 1] = first
        /\ \A i \in (p + 1)..n : i # p + 1 => walk[i] = Smoothed(walk[i - 1], values[i], p)
    <3>1. \A i \in (p + 1)..n : walk[i] = IF i = p + 1 THEN first
                                          ELSE Smoothed(walk[i - 1], values[i], p)
      BY <2>5
    <3> QED
      BY <1>4, <3>1
  <2>7. \A i \in (p + 1)..n : walk[i] = g[i]
    <3>1. GoAlike(walk, g, p + 1, n)
      BY <2>3, <2>6 DEF GoAlike
    <3>2. p + 1 \in Int /\ n \in Int
      OBVIOUS
    <3> QED
      BY <3>1, <3>2, SameWalk
  <2>8. \A i \in (p + 1)..n : walk[i] \in Nat /\ i \in 1..n /\ i > p
    BY <2>2, <2>7
  <2>9. \A i \in (p + 1)..n : Wilder(values, p)[i] = walk[i]
    BY <1>2, <2>8
  <2>10. Wilder(values, p) \in Known(n, p, Nat)
    <3>1. \A i \in 1..n : i > p => i \in (p + 1)..n
      OBVIOUS
    <3>2. \A i \in 1..n : i <= p => ~(i > p)
      OBVIOUS
    <3>3. \A i \in 1..n : i > p => walk[i] \in Nat
      BY <2>8, <3>1
    <3> QED
      BY <1>2, <3>2, <3>3 DEF Known
  <2>11. \A i \in (p + 1)..n : i # p + 1 =>
           Wilder(values, p)[i] = Smoothed(Wilder(values, p)[i - 1], values[i], p)
    <3>1. \A i \in (p + 1)..n : i # p + 1 => i - 1 \in (p + 1)..n
      OBVIOUS
    <3> QED
      BY <2>6, <2>9, <3>1
  <2> QED
    BY <1>4, <2>6, <2>9, <2>10, <2>11 DEF first
<1> QED
  BY <1>3, <1>4

\* The length of what is left after the first w of n.
Rest(n, w) == IF w <= n THEN n - w ELSE 0

\* What is defined of a series is its end.
LEMMA DefinedTailIs ==
  ASSUME NEW n \in Nat, NEW w \in Nat, NEW f \in Known(n, w, Int)
  PROVE  DefinedTail(f) = [k \in 1..Rest(n, w) |-> f[w + k]]
<1> DEFINE After(kept) ==
             [i \in 0..n |-> IF i = 0 THEN <<>>
                             ELSE IF f[i] = Undefined THEN kept[i - 1]
                             ELSE Append(kept[i - 1], f[i])]
           end == [i \in 0..n |-> [k \in 1..Rest(i, w) |-> f[w + k]]]
           walk == CHOOSE kept : kept = After(kept)
<1>1. /\ f \in [1..n -> Int \cup {Undefined}] /\ Len(f) = n
      /\ \A i \in 1..n : (i <= w => f[i] = Undefined) /\ (i > w => f[i] \in Int)
  BY SeriesIs DEF Known
<1>2. DefinedTail(f) = walk[n]
  BY <1>1 DEF DefinedTail
<1>3. \A i \in 0..n : end[i] = [k \in 1..Rest(i, w) |-> f[w + k]]
  OBVIOUS
<1>4. end = After(end)
  <2> SUFFICES ASSUME NEW i \in 0..n
               PROVE  end[i] = IF i = 0 THEN <<>>
                               ELSE IF f[i] = Undefined THEN end[i - 1]
                               ELSE Append(end[i - 1], f[i])
    OBVIOUS
  <2> HIDE DEF end
  <2>1. CASE i = 0
    <3>1. Rest(i, w) = 0
      BY <2>1 DEF Rest
    <3>2. end[i] = [k \in 1..0 |-> f[w + k]]
      BY <1>3, <3>1
    <3>3. [k \in 1..0 |-> f[w + k]] = <<>>
      OBVIOUS
    <3> QED
      BY <2>1, <3>2, <3>3
  <2>2. CASE i # 0 /\ i <= w
    <3>1. f[i] = Undefined
      BY <1>1, <2>2
    <3>2. Rest(i, w) = 0 /\ Rest(i - 1, w) = 0 /\ i - 1 \in 0..n
      BY <2>2 DEF Rest
    <3>3. end[i] = end[i - 1]
      BY <1>3, <3>2
    <3> QED
      BY <2>2, <3>1, <3>3
  <2>3. CASE i > w
    <3>1. f[i] # Undefined /\ i # 0 /\ f[i] \in Int
      BY <1>1, <2>3, TechnicalAnalysisAssumption
    <3> DEFINE m == (i - 1) - w
               s == end[i - 1]
    <3>2. /\ Rest(i, w) = m + 1 /\ Rest(i - 1, w) = m /\ i - 1 \in 0..n /\ m \in Nat
          /\ w + (m + 1) = i
      BY <2>3 DEF Rest
    <3> HIDE DEF m
    <3>3. s = [k \in 1..m |-> f[w + k]]
      BY <1>3, <3>2
    <3>4. \A k \in 1..m : f[w + k] \in Int
      <4>1. \A k \in 1..m : w + k \in 1..n /\ w + k > w
        BY <3>2
      <4> QED
        BY <1>1, <4>1
    <3>5. s \in [1..m -> Int]
      BY <3>3, <3>4
    <3>6. s \in Seq(Int) /\ Len(s) = m
      BY <3>2, <3>5, SeriesIs
    <3> HIDE DEF s
    <3>7. Append(s, f[i]) = [k \in 1..(m + 1) |-> IF k = m + 1 THEN f[i] ELSE s[k]]
      BY <3>1, <3>6
    <3>8. \A k \in 1..(m + 1) : (IF k = m + 1 THEN f[i] ELSE s[k]) = f[w + k]
      BY <3>2, <3>3
    <3>9. Append(s, f[i]) = [k \in 1..(m + 1) |-> f[w + k]]
      BY <3>7, <3>8
    <3> QED
      BY <1>3, <3>1, <3>2, <3>9 DEF s
  <2> QED
    BY <2>1, <2>2, <2>3
<1>5. walk = After(walk)
  <2> HIDE DEF After, end
  <2> QED
    BY <1>4
<1>6. walk[n] = end[n]
  <2> HIDE DEF walk, end
  <2>1. \A i \in 0..n : /\ walk[i] = IF i = 0 THEN <<>>
                                     ELSE IF f[i] = Undefined THEN walk[i - 1]
                                     ELSE Append(walk[i - 1], f[i])
                        /\ end[i] = IF i = 0 THEN <<>>
                                    ELSE IF f[i] = Undefined THEN end[i - 1]
                                    ELSE Append(end[i - 1], f[i])
    BY <1>4, <1>5
  <2>2. GoAlike(walk, end, 0, n)
    <3>1. walk[0] = end[0]
      BY <2>1
    <3>2. ASSUME NEW i \in 0..n, i # 0, walk[i - 1] = end[i - 1] PROVE walk[i] = end[i]
      BY <2>1, <3>2
    <3> QED
      BY <3>1, <3>2 DEF GoAlike
  <2>3. 0 \in Int /\ n \in Int /\ n \in 0..n
    OBVIOUS
  <2>4. \A i \in 0..n : walk[i] = end[i]
    BY <2>2, <2>3, SameWalk
  <2> QED
    BY <2>3, <2>4
<1> QED
  BY <1>2, <1>3, <1>6

\* The end of a series, without what is undefined.
LEMMA TailKnown ==
  ASSUME NEW n \in Nat, NEW w \in Nat, NEW f \in Known(n, w, Int)
  PROVE  /\ Rest(n, w) \in Nat
         /\ DefinedTail(f) \in [1..Rest(n, w) -> Int]
         /\ Len(DefinedTail(f)) = Rest(n, w)
<1>1. Rest(n, w) \in Nat
  BY DEF Rest
<1>2. \A k \in 1..Rest(n, w) : w + k \in 1..n /\ w + k > w
  BY DEF Rest
<1>3. \A k \in 1..Rest(n, w) : f[w + k] \in Int
  BY <1>2 DEF Known
<1>4. DefinedTail(f) \in [1..Rest(n, w) -> Int]
  BY <1>3, DefinedTailIs
<1> QED
  BY <1>1, <1>4, SeriesIs

\* An average put back begins so much later than the series.
LEMMA PutBackKnown ==
  ASSUME NEW n \in Nat, NEW w \in Nat, NEW u \in Nat, NEW f \in Known(n, w, Int),
         NEW tail \in Known(Rest(n, w), u, Int)
  PROVE  /\ PutBack(tail, f) \in Known(n, w + u, Int)
         /\ \A i \in 1..n : i > w + u =>
              i - w \in 1..Rest(n, w) /\ PutBack(tail, f)[i] = tail[i - w]
<1> DEFINE before == n - Rest(n, w)
<1>1. Len(f) = n /\ DOMAIN f = 1..n
  BY SeriesIs DEF Known
<1>2. PutBack(tail, f) = [i \in 1..n |-> IF i <= before THEN Undefined ELSE tail[i - before]]
  BY <1>1, TailKnown DEF PutBack
<1>3. before \in Nat /\ before <= w /\ (w <= n => before = w) /\ (w > n => before = n)
  BY DEF Rest
<1> HIDE DEF before
<1>4. \A i \in 1..n : i > w => before = w /\ i - w \in 1..Rest(n, w)
  BY <1>3 DEF Rest
<1>5. \A k \in 1..Rest(n, w) : (k <= u => tail[k] = Undefined) /\ (k > u => tail[k] \in Int)
  BY DEF Known
<1>6. ASSUME NEW i \in 1..n, i <= w PROVE PutBack(tail, f)[i] = Undefined
  <2>1. i <= before
    BY <1>3, <1>6
  <2> QED
    BY <1>2, <2>1
<1>7. ASSUME NEW i \in 1..n, i > w
      PROVE  PutBack(tail, f)[i] = tail[i - w] /\ i - w \in 1..Rest(n, w)
  <2>1. ~(i <= before) /\ before = w /\ i - w \in 1..Rest(n, w)
    BY <1>4, <1>7
  <2> QED
    BY <1>2, <2>1
<1>8. ASSUME NEW i \in 1..n
      PROVE  /\ i <= w + u => PutBack(tail, f)[i] = Undefined
             /\ i > w + u => PutBack(tail, f)[i] \in Int
  <2>1. CASE i <= w
    BY <1>6, <2>1
  <2>2. CASE i > w
    <3>1. /\ i <= w + u => i - w <= u
          /\ i > w + u => i - w > u
      OBVIOUS
    <3> QED
      BY <1>5, <1>7, <2>2, <3>1
  <2> QED
    BY <2>1, <2>2
<1>9. \A i \in 1..n : i > w + u => i > w
  OBVIOUS
<1>10. \A i \in 1..n : PutBack(tail, f)[i] \in Int \cup {Undefined}
  <2> TAKE i \in 1..n
  <2>1. i <= w + u \/ i > w + u
    OBVIOUS
  <2> QED
    BY <1>8, <2>1
<1>11. PutBack(tail, f) \in [1..n -> Int \cup {Undefined}]
  BY <1>2, <1>10
<1>12. PutBack(tail, f) \in Known(n, w + u, Int)
  BY <1>8, <1>11 DEF Known
<1> QED
  BY <1>7, <1>9, <1>12

\* A difference is defined where both sides are.
LEMMA DifferenceKnown ==
  ASSUME NEW n \in Nat, NEW w \in Nat, NEW u \in Nat, w <= u,
         NEW f \in Known(n, w, Int), NEW g \in Known(n, u, Int)
  PROVE  /\ Difference(f, g) \in Known(n, u, Int) /\ Difference(g, f) \in Known(n, u, Int)
         /\ \A i \in 1..n : i > u => /\ Difference(f, g)[i] = f[i] - g[i]
                                     /\ Difference(g, f)[i] = g[i] - f[i]
<1>1. DOMAIN f = 1..n /\ DOMAIN g = 1..n
  BY DEF Known
<1>2. /\ Difference(f, g) = [i \in 1..n |-> IF Undefined \in {f[i], g[i]} THEN Undefined
                                            ELSE f[i] - g[i]]
      /\ Difference(g, f) = [i \in 1..n |-> IF Undefined \in {g[i], f[i]} THEN Undefined
                                            ELSE g[i] - f[i]]
  BY <1>1 DEF Difference
<1>3. ASSUME NEW i \in 1..n, i <= u
      PROVE  Difference(f, g)[i] = Undefined /\ Difference(g, f)[i] = Undefined
  <2>1. g[i] = Undefined
    BY <1>3 DEF Known
  <2> QED
    BY <1>2, <2>1
<1>4. ASSUME NEW i \in 1..n, i > u
      PROVE  /\ Difference(f, g)[i] = f[i] - g[i] /\ Difference(f, g)[i] \in Int
             /\ Difference(g, f)[i] = g[i] - f[i] /\ Difference(g, f)[i] \in Int
  <2>1. f[i] \in Int /\ g[i] \in Int
    BY <1>4 DEF Known
  <2>2. f[i] # Undefined /\ g[i] # Undefined
    BY <2>1, TechnicalAnalysisAssumption
  <2> QED
    BY <1>2, <2>1, <2>2
<1>5. \A i \in 1..n : i <= u \/ i > u
  OBVIOUS
<1>6. \A i \in 1..n : /\ Difference(f, g)[i] \in Int \cup {Undefined}
                      /\ Difference(g, f)[i] \in Int \cup {Undefined}
  BY <1>3, <1>4, <1>5
<1>7. /\ Difference(f, g) \in [1..n -> Int \cup {Undefined}]
      /\ Difference(g, f) \in [1..n -> Int \cup {Undefined}]
  BY <1>2, <1>6
<1> QED
  BY <1>3, <1>4, <1>7 DEF Known

\* The greatest and the least of finitely many numbers are among them.
LEMMA ExtremesIn ==
  ASSUME NEW S, IsFiniteSet(S), S # {}, S \subseteq Int
  PROVE  /\ Max(S) \in S /\ \A x \in S : Max(S) >= x
         /\ Min(S) \in S /\ \A x \in S : Min(S) <= x
<1> DEFINE Good == {T \in SUBSET S : T # {} => /\ \E x \in T : \A y \in T : x >= y
                                               /\ \E x \in T : \A y \in T : x <= y}
<1>1. ASSUME NEW T \in SUBSET S, \A x \in T : T \ {x} \in Good PROVE T \in Good
  <2> SUFFICES ASSUME T # {} PROVE /\ \E x \in T : \A y \in T : x >= y
                                   /\ \E x \in T : \A y \in T : x <= y
    OBVIOUS
  <2>1. PICK x : x \in T
    OBVIOUS
  <2>2. x \in Int /\ \A y \in T : y \in Int
    BY <2>1
  <2>3. CASE T \ {x} = {}
    BY <2>1, <2>2, <2>3
  <2>4. CASE T \ {x} # {}
    <3>1. T \ {x} \in Good
      BY <1>1, <2>1
    <3>2. PICK a \in T \ {x} : \A y \in T \ {x} : a >= y
      BY <2>4, <3>1
    <3>3. PICK b \in T \ {x} : \A y \in T \ {x} : b <= y
      BY <2>4, <3>1
    <3>4. \E z \in T : \A y \in T : z >= y
      <4>1. CASE a >= x
        BY <2>2, <3>2, <4>1
      <4>2. CASE ~(a >= x)
        <5>1. \A y \in T : x >= y
          BY <2>1, <2>2, <3>2, <4>2
        <5> QED
          BY <2>1, <5>1
      <4> QED
        BY <4>1, <4>2
    <3>5. \E z \in T : \A y \in T : z <= y
      <4>1. CASE b <= x
        BY <2>2, <3>3, <4>1
      <4>2. CASE ~(b <= x)
        <5>1. \A y \in T : x <= y
          BY <2>1, <2>2, <3>3, <4>2
        <5> QED
          BY <2>1, <5>1
      <4> QED
        BY <4>1, <4>2
    <3> QED
      BY <3>4, <3>5
  <2> QED
    BY <2>3, <2>4
<1>2. S \in Good
  <2>1. \A T \in SUBSET S : T \in Good
    <3> HIDE DEF Good
    <3> QED
      BY <1>1, SubsetInduction
  <2> QED
    BY <2>1
<1> QED
  BY <1>2 DEF Max, Min

\* The greater of two.
LEMMA MaxOfTwo ==
  ASSUME NEW a \in Int, NEW b \in Int
  PROVE  Max({a, b}) \in {a, b} /\ Max({a, b}) >= a /\ Max({a, b}) >= b
<1>1. IsFiniteSet({a} \cup {b})
  BY FS_Singleton, FS_AddElement
<1>2. {a} \cup {b} = {a, b} /\ {a, b} # {} /\ {a, b} \subseteq Int
  OBVIOUS
<1>3. IsFiniteSet({a, b})
  BY <1>1, <1>2
<1> QED
  BY <1>2, <1>3, ExtremesIn

\* What a function makes of a finite set is finite.
LEMMA ImageFinite ==
  ASSUME NEW S, IsFiniteSet(S), NEW f
  PROVE  IsFiniteSet({f[x] : x \in S})
<1> DEFINE T == {f[x] : x \in S}
           g == [x \in S |-> f[x]]
<1>1. g \in Surjection(S, T)
  BY DEF Surjection
<1> QED
  BY <1>1, FS_Surjection

\* What each bar gained and lost.
Rises(closes) == [i \in DOMAIN closes |-> Max({Changes(closes)[i], 0})]
Falls(closes) == [i \in DOMAIN closes |-> Max({-Changes(closes)[i], 0})]

\* The strength index by its two averages.
LEMMA RsiIs ==
  ASSUME NEW n \in Nat, NEW closes \in [1..n -> Int], NEW p \in Nat \ {0}
  PROVE  /\ Rises(closes) \in [1..n -> Nat] /\ Falls(closes) \in [1..n -> Nat]
         /\ Rsi(closes, p) =
              [i \in 1..n |->
                 IF i > p
                 THEN RsiFromAverages(Wilder(Rises(closes), p)[i], Wilder(Falls(closes), p)[i])
                 ELSE Undefined]
<1> DEFINE change == Changes(closes)
<1>1. \A i \in 1..n : change[i] \in Int
  <2> TAKE i \in 1..n
  <2>1. change[i] = IF i = 1 THEN 0 ELSE closes[i] - closes[i - 1]
    BY DEF Changes
  <2>2. closes[i] \in Int /\ (i # 1 => closes[i - 1] \in Int)
    OBVIOUS
  <2> QED
    BY <2>1, <2>2
<1>2. Rsi(closes, p) =
        [i \in 1..n |->
           IF i > p
           THEN RsiFromAverages(Wilder(Rises(closes), p)[i], Wilder(Falls(closes), p)[i])
           ELSE Undefined]
  BY DEF Rsi, Rises, Falls
<1>3. /\ Rises(closes) = [i \in 1..n |-> Max({change[i], 0})]
      /\ Falls(closes) = [i \in 1..n |-> Max({-change[i], 0})]
  BY DEF Rises, Falls
<1> HIDE DEF change
<1>4. ASSUME NEW i \in 1..n PROVE Max({change[i], 0}) \in Nat /\ Max({-change[i], 0}) \in Nat
  <2>1. change[i] \in Int /\ -change[i] \in Int /\ 0 \in Int
    BY <1>1
  <2>2. /\ Max({change[i], 0}) \in {change[i], 0} /\ Max({change[i], 0}) >= 0
        /\ Max({-change[i], 0}) \in {-change[i], 0} /\ Max({-change[i], 0}) >= 0
    BY <2>1, MaxOfTwo
  <2> QED
    BY <2>1, <2>2
<1> QED
  BY <1>2, <1>3, <1>4

\* RSI: a ratio of two averages of what is not negative.
LEMMA RsiKnown ==
  ASSUME NEW n \in Nat, NEW closes \in [1..n -> Int], NEW p \in Nat \ {0}
  PROVE  Rsi(closes, p) \in Known(n, p, Int)
<1> DEFINE gains == Wilder(Rises(closes), p)
           losses == Wilder(Falls(closes), p)
<1>1. Rsi(closes, p) =
        [i \in 1..n |-> IF i > p THEN RsiFromAverages(gains[i], losses[i]) ELSE Undefined]
  BY RsiIs
<1>4. gains \in Known(n, p, Nat) /\ losses \in Known(n, p, Nat)
  BY RsiIs, WilderKnown
<1> HIDE DEF gains, losses
<1>5. ASSUME NEW i \in 1..n, i > p PROVE RsiFromAverages(gains[i], losses[i]) \in Int
  <2>1. gains[i] \in Nat /\ losses[i] \in Nat
    BY <1>4, <1>5 DEF Known
  <2>2. losses[i] # 0 => gains[i] + losses[i] \in Nat \ {0}
    BY <2>1
  <2>3. losses[i] # 0 => (100 * gains[i]) \div (gains[i] + losses[i]) \in Int
    BY <2>1, <2>2, DivisionBounds
  <2> QED
    BY <2>3 DEF RsiFromAverages
<1>6. \A i \in 1..n : (i <= p => ~(i > p)) /\ (i > p => ~(i <= p))
  OBVIOUS
<1> QED
  BY <1>1, <1>5, <1>6 DEF Known

\* Bars as the engine is given them.
Bars(n) == {b \in [1..n -> [high : Nat, low : Nat, close : Nat]] :
              \A i \in 1..n : b[i].low <= b[i].high}

\* A true range is not negative: no bar has its low above its high.
LEMMA TrueRangesNat ==
  ASSUME NEW n \in Nat, NEW b \in Bars(n)
  PROVE  TrueRanges(b) \in [1..n -> Nat]
<1>1. ASSUME NEW i \in 1..n PROVE TrueRanges(b)[i] \in Nat /\ DOMAIN TrueRanges(b) = 1..n
  <2> DEFINE close == b[i - 1].close
             up == Distance(b[i].high, close)
             down == Distance(b[i].low, close)
             spread == b[i].high - b[i].low
  <2>1. TrueRanges(b) = [j \in 1..n |->
          IF j = 1 THEN 0
          ELSE Max({b[j].high - b[j].low, Distance(b[j].high, b[j - 1].close),
                    Distance(b[j].low, b[j - 1].close)})]
    BY DEF TrueRanges, Bars
  <2>2. TrueRanges(b)[i] = IF i = 1 THEN 0 ELSE Max({spread, up, down})
    BY <2>1
  <2>3. CASE i = 1
    BY <2>1, <2>2, <2>3
  <2>4. CASE i # 1
    <3>1. i - 1 \in 1..n
      BY <2>4
    <3>2. b[i].high \in Nat /\ b[i].low \in Nat /\ close \in Nat /\ b[i].low <= b[i].high
      BY <3>1 DEF Bars
    <3>3. \A x \in Int, y \in Int : Distance(x, y) \in Int
      <4> TAKE x \in Int, y \in Int
      <4>1. x - y \in Int /\ y - x \in Int
        OBVIOUS
      <4> QED
        BY <4>1, MaxOfTwo DEF Distance
    <3> HIDE DEF close
    <3>4. spread \in Nat /\ up \in Int /\ down \in Int
      <4>1. b[i].high \in Int /\ b[i].low \in Int /\ close \in Int /\ spread \in Nat
        BY <3>2
      <4> QED
        BY <3>3, <4>1
    <3> HIDE DEF spread, up, down
    <3>5. IsFiniteSet(({spread} \cup {up}) \cup {down})
      BY FS_Singleton, FS_AddElement
    <3>6. /\ ({spread} \cup {up}) \cup {down} = {spread, up, down}
          /\ {spread, up, down} # {} /\ {spread, up, down} \subseteq Int
      BY <3>4
    <3>7. IsFiniteSet({spread, up, down})
      BY <3>5, <3>6
    <3>8. /\ Max({spread, up, down}) \in {spread, up, down}
          /\ Max({spread, up, down}) >= spread
      BY <3>6, <3>7, ExtremesIn
    <3> QED
      BY <2>1, <2>2, <2>4, <3>4, <3>8
  <2> QED
    BY <2>3, <2>4
<1>2. TrueRanges(b) = [i \in 1..n |-> TrueRanges(b)[i]]
  BY DEF TrueRanges, Bars
<1> QED
  BY <1>1, <1>2

\* Their average is defined from the second bar on.
LEMMA AtrKnown ==
  ASSUME NEW n \in Nat, NEW b \in Bars(n), NEW p \in Nat \ {0}
  PROVE  Atr(b, p) \in Known(n, p, Nat)
BY TrueRangesNat, WilderKnown DEF Atr

\* %K: the close within the range of the last p bars.
LEMMA PercentKKnown ==
  ASSUME NEW n \in Nat, NEW b \in Bars(n), NEW p \in Nat \ {0}
  PROVE  PercentK(b, p) \in Known(n, p - 1, Int)
<1> DEFINE high(i) == Max({x.high : x \in Window(b, i, p)})
           low(i) == Min({x.low : x \in Window(b, i, p)})
           value(i) == IF high(i) = low(i) THEN 50
                       ELSE (100 * (b[i].close - low(i))) \div (high(i) - low(i))
<1>1. DOMAIN b = 1..n
  BY DEF Bars
<1>2. PercentK(b, p) = [i \in 1..n |-> IF i < p THEN Undefined ELSE value(i)]
  BY <1>1 DEF PercentK
<1>3. ASSUME NEW i \in 1..n, i >= p PROVE value(i) \in Int
  <2> DEFINE W == Window(b, i, p)
             H == {x.high : x \in W}
             L == {x.low : x \in W}
  <2>1. \A j \in (i - p + 1)..i : j \in 1..n
    BY <1>3
  <2>2. \A x \in W : x.high \in Nat /\ x.low \in Nat /\ x.low <= x.high
    BY <2>1 DEF Window, Bars
  <2>3. IsFiniteSet(W) /\ b[i] \in W
    <3>1. IsFiniteSet((i - p + 1)..i) /\ i \in (i - p + 1)..i
      BY <1>3, FS_Interval
    <3>2. W = {b[j] : j \in (i - p + 1)..i}
      BY DEF Window
    <3> HIDE DEF W
    <3> QED
      BY <3>1, <3>2, ImageFinite
  <2> HIDE DEF W
  <2>4. /\ IsFiniteSet(H) /\ H # {} /\ H \subseteq Int
        /\ IsFiniteSet(L) /\ L # {} /\ L \subseteq Int
    <3> DEFINE highOf == [x \in W |-> x.high]
               lowOf == [x \in W |-> x.low]
    <3>1. H = {highOf[x] : x \in W} /\ L = {lowOf[x] : x \in W}
      OBVIOUS
    <3> HIDE DEF highOf, lowOf, H, L
    <3>2. IsFiniteSet(H) /\ IsFiniteSet(L)
      BY <2>3, <3>1, ImageFinite
    <3> QED
      BY <2>2, <2>3, <3>2 DEF H, L
  <2>5. /\ Max(H) \in H /\ \A x \in H : Max(H) >= x
        /\ Min(L) \in L /\ \A x \in L : Min(L) <= x
    BY <2>4, ExtremesIn
  <2>6. high(i) = Max(H) /\ low(i) = Min(L)
    BY DEF W
  <2>7. /\ high(i) \in Int /\ low(i) \in Int
        /\ b[i].high \in H /\ b[i].low \in L /\ b[i].low <= b[i].high
        /\ b[i].high \in Int /\ b[i].low \in Int
    BY <2>2, <2>3, <2>4, <2>5, <2>6
  <2> HIDE DEF H, L
  <2>8. high(i) >= b[i].high /\ low(i) <= b[i].low
    BY <2>5, <2>6, <2>7
  <2>9. b[i].close \in Int
    BY <1>3 DEF Bars
  <2> HIDE DEF high, low
  <2>10. high(i) # low(i) => high(i) - low(i) \in Nat \ {0}
    BY <2>7, <2>8
  <2>11. 100 * (b[i].close - low(i)) \in Int
    BY <2>7, <2>9
  <2>12. high(i) # low(i) => (100 * (b[i].close - low(i))) \div (high(i) - low(i)) \in Int
    BY <2>10, <2>11, DivisionBounds
  <2> QED
    BY <2>12
<1> HIDE DEF value
<1>4. \A i \in 1..n : (i <= p - 1 => i < p) /\ (i > p - 1 => ~(i < p) /\ i >= p)
  OBVIOUS
<1>5. \A i \in 1..n : ~(i < p) => i >= p
  OBVIOUS
<1> QED
  BY <1>2, <1>3, <1>4, <1>5 DEF Known

\* The bands' variance.
LEMMA VarianceKnown ==
  ASSUME NEW n \in Nat, NEW closes \in [1..n -> Int], NEW p \in Nat \ {0}
  PROVE  /\ Variance(closes, p) \in Known(n, p - 1, Int)
         /\ \A i \in p..n : Variance(closes, p)[i] =
              SumFunction([k \in 1..p |-> (closes[i - p + k] - Sma(closes, p)[i])
                                          * (closes[i - p + k] - Sma(closes, p)[i])]) \div p
<1> DEFINE middle == Sma(closes, p)
           squares(i) == [k \in 1..p |-> (closes[i - p + k] - middle[i])
                                         * (closes[i - p + k] - middle[i])]
<1>1. Variance(closes, p) =
        [i \in 1..n |-> IF i < p THEN Undefined ELSE SumFunction(squares(i)) \div p]
  BY DEF Variance
<1>2. middle \in Known(n, p - 1, Int)
  BY SmaKnown
<1> HIDE DEF middle
<1>3. ASSUME NEW i \in 1..n, i >= p PROVE SumFunction(squares(i)) \div p \in Int
  <2>1. middle[i] \in Int
    BY <1>2, <1>3 DEF Known
  <2>2. \A k \in 1..p : squares(i)[k] \in Int
    <3> TAKE k \in 1..p
    <3>1. closes[i - p + k] \in Int
      BY <1>3
    <3> QED
      BY <2>1, <3>1
  <2>3. IsFiniteSet(1..p) /\ DOMAIN squares(i) = 1..p
    BY FS_Interval
  <2> HIDE DEF squares
  <2>4. SumFunctionOnSet(squares(i), 1..p) \in Int
    BY <2>2, <2>3, SumType
  <2> QED
    BY <2>3, <2>4, DivisionBounds DEF SumFunction
<1>4. \A i \in 1..n : (i <= p - 1 => i < p) /\ (i > p - 1 => ~(i < p) /\ i >= p)
  OBVIOUS
<1>5. \A i \in 1..n : ~(i < p) => i >= p
  OBVIOUS
<1>6. \A i \in p..n : i \in 1..n /\ ~(i < p)
  OBVIOUS
<1>7. \A i \in p..n : Variance(closes, p)[i] = SumFunction(squares(i)) \div p
  BY <1>1, <1>6
<1>8. Variance(closes, p) \in Known(n, p - 1, Int)
  <2> HIDE DEF squares
  <2> QED
    BY <1>1, <1>3, <1>4, <1>5 DEF Known
<1> QED
  BY <1>7, <1>8 DEF middle

Closes(b) == [i \in DOMAIN b |-> Unit * b[i].close]
Volumes(b) == [i \in DOMAIN b |-> Unit * b[i].volume]
Scaled(b) ==
  [i \in DOMAIN b |->
     [high |-> Unit * b[i].high, low |-> Unit * b[i].low, close |-> Closes(b)[i]]]

\* The bars of an answer, as the numbers the indicators work with.
LEMMA ScaledBars ==
  ASSUME NEW n \in Nat, NEW b \in [1..n -> Candles]
  PROVE  /\ Closes(b) \in [1..n -> Int] /\ Volumes(b) \in [1..n -> Int]
         /\ Scaled(b) \in Bars(n)
<1>1. Unit \in Nat BY TechnicalAnalysisAssumption
<1>2. DOMAIN b = 1..n /\ \A i \in 1..n : b[i] \in Candles
  OBVIOUS
<1>3. \A x, y \in Nat : x <= y => Unit * x \in Nat /\ Unit * x <= Unit * y
  <2>1. TAKE x, y \in Nat
  <2>2. HAVE x <= y
  <2>3. Unit * x \in Nat /\ Unit * y \in Nat /\ y - x \in Nat
    BY <1>1, <2>2
  <2>4. PICK d \in Nat : y = x + d
    BY <2>3
  <2>5. Unit * d \in Nat /\ Unit * y = Unit * x + Unit * d
    BY <1>1, <2>4
  <2> QED BY <2>3, <2>5
<1>4. \A i \in 1..n : /\ b[i].high \in Nat /\ b[i].low \in Nat /\ b[i].close \in Nat
                      /\ b[i].volume \in Nat /\ b[i].low <= b[i].high
  BY <1>2, TechnicalAnalysisAssumption
<1>5. \A i \in 1..n : /\ Unit * b[i].high \in Nat /\ Unit * b[i].low \in Nat
                      /\ Unit * b[i].close \in Nat /\ Unit * b[i].volume \in Nat
                      /\ Unit * b[i].low <= Unit * b[i].high
  <2> DEFINE times(x) == Unit * x
  <2>1. \A x, y \in Nat : x <= y => times(x) \in Nat /\ times(x) <= times(y)
    BY <1>3
  <2>2. \A x \in Nat : times(x) \in Nat
    BY <1>1
  <2>3. SUFFICES \A i \in 1..n : /\ times(b[i].high) \in Nat /\ times(b[i].low) \in Nat
                                 /\ times(b[i].close) \in Nat /\ times(b[i].volume) \in Nat
                                 /\ times(b[i].low) <= times(b[i].high)
    OBVIOUS
  <2> HIDE DEF times
  <2> QED BY <2>1, <2>2, <1>4
<1>6. Closes(b) \in [1..n -> Nat] /\ Volumes(b) \in [1..n -> Nat]
  BY <1>2, <1>5 DEF Closes, Volumes
<1>7. Closes(b) \in [1..n -> Int] /\ Volumes(b) \in [1..n -> Int]
  BY <1>6
<1>8. \A i \in 1..n : Closes(b)[i] \in Nat
  BY <1>6
<1> DEFINE bar(i) == [high |-> Unit * b[i].high, low |-> Unit * b[i].low, close |-> Closes(b)[i]]
<1>11. \A i \in 1..n : bar(i) \in [high : Nat, low : Nat, close : Nat]
  BY <1>5, <1>8
<1>12. Scaled(b) = [i \in 1..n |-> bar(i)]
  BY <1>2 DEF Scaled
<1>9. Scaled(b) \in [1..n -> [high : Nat, low : Nat, close : Nat]]
  <2> HIDE DEF bar
  <2> QED BY <1>11, <1>12
<1>10. \A i \in 1..n : Scaled(b)[i].low <= Scaled(b)[i].high
  BY <1>2, <1>5 DEF Scaled
<1> QED BY <1>7, <1>9, <1>10 DEF Bars

\* The answer, by the series it is computed from.
LEMMA CalculateIs ==
  ASSUME NEW b
  PROVE  LET macd == Macd(Closes(b))
             percentK == PercentK(Scaled(b), Period)
             volumeSma == Sma(Volumes(b), Period)
         IN Calculate(b) =
            [sma |-> Sma(Closes(b), Period), ema |-> Ema(Closes(b), Slow),
             rsi |-> Rsi(Closes(b), Period),
             macd |-> macd, signal |-> SignalLine(macd),
             histogram |-> Difference(macd, SignalLine(macd)),
             percentK |-> percentK, percentD |-> PercentD(percentK),
             atr |-> Atr(Scaled(b), Period), variance |-> Variance(Closes(b), Period),
             volumeSma |-> volumeSma, relativeVolume |-> RelativeVolume(Volumes(b), volumeSma)]
BY Zenon DEF Calculate, Closes, Volumes, Scaled

\* What the periods are taken for.
LEMMA Periods ==
  /\ Fast \in Nat \ {0} /\ Slow \in Nat \ {0} /\ Fast <= Slow
  /\ SignalPeriod \in Nat \ {0} /\ SmoothD \in Nat \ {0} /\ Period \in Nat \ {0}
  /\ Fast - 1 \in Nat /\ Slow - 1 \in Nat /\ SignalPeriod - 1 \in Nat
  /\ SmoothD - 1 \in Nat /\ Period - 1 \in Nat /\ Fast - 1 <= Slow - 1
BY TechnicalAnalysisAssumption

\* The lines of the MACD.
LEMMA MacdKnown ==
  ASSUME NEW n \in Nat, NEW closes \in [1..n -> Int]
  PROVE  /\ Macd(closes) \in Known(n, Slow - 1, Int)
         /\ SignalLine(Macd(closes)) \in Known(n, (Slow - 1) + (SignalPeriod - 1), Int)
         /\ Difference(Macd(closes), SignalLine(Macd(closes)))
              \in Known(n, (Slow - 1) + (SignalPeriod - 1), Int)
<1> DEFINE m == Macd(closes)
           tail == Ema(DefinedTail(m), SignalPeriod)
<1>1. Ema(closes, Fast) \in Known(n, Fast - 1, Int) /\ Ema(closes, Slow) \in Known(n, Slow - 1, Int)
  BY EmaKnown, Periods
<1>2. m \in Known(n, Slow - 1, Int)
  BY <1>1, DifferenceKnown, Periods DEF Macd
<1>3. /\ Rest(n, Slow - 1) \in Nat
      /\ DefinedTail(m) \in [1..Rest(n, Slow - 1) -> Int]
  BY <1>2, TailKnown, Periods
<1>4. tail \in Known(Rest(n, Slow - 1), SignalPeriod - 1, Int)
  BY <1>3, EmaKnown, Periods
<1>5. PutBack(tail, m) \in Known(n, (Slow - 1) + (SignalPeriod - 1), Int)
  BY <1>2, <1>4, PutBackKnown, Periods
<1>6. SignalLine(m) \in Known(n, (Slow - 1) + (SignalPeriod - 1), Int)
  BY <1>5 DEF SignalLine
<1>7. (Slow - 1) + (SignalPeriod - 1) \in Nat /\ Slow - 1 <= (Slow - 1) + (SignalPeriod - 1)
  BY Periods
<1>8. Difference(m, SignalLine(m)) \in Known(n, (Slow - 1) + (SignalPeriod - 1), Int)
  <2> HIDE DEF m
  <2> QED BY <1>2, <1>6, <1>7, DifferenceKnown, Periods
<1> QED BY <1>2, <1>6, <1>8

\* %D: the average of what is defined of %K, put back.
LEMMA PercentDKnown ==
  ASSUME NEW n \in Nat, NEW w \in Nat, NEW f \in Known(n, w, Int)
  PROVE  PercentD(f) \in Known(n, w + (SmoothD - 1), Int)
<1>1. /\ Rest(n, w) \in Nat
      /\ DefinedTail(f) \in [1..Rest(n, w) -> Int]
  BY TailKnown
<1>2. Sma(DefinedTail(f), SmoothD) \in Known(Rest(n, w), SmoothD - 1, Int)
  BY <1>1, SmaKnown, Periods
<1> QED BY <1>2, PutBackKnown, Periods DEF PercentD

\* Numbers that are not negative are whole numbers.
LEMMA KnownWider ==
  ASSUME NEW n \in Nat, NEW w \in Nat, NEW f \in Known(n, w, Nat)
  PROVE  f \in Known(n, w, Int)
<1>1. f \in [1..n -> Nat \cup {Undefined}] /\
      \A i \in 1..n : (i <= w => f[i] = Undefined) /\ (i > w => f[i] \in Nat)
  BY DEF Known
<1>2. f \in [1..n -> Int \cup {Undefined}]
  BY <1>1
<1> QED BY <1>1, <1>2 DEF Known

\* Every series of an answer is undefined for its warm-up, and a number after it.
LEMMA CalculateKnown ==
  ASSUME NEW n \in Nat, NEW b \in [1..n -> Candles], NEW k \in DOMAIN WarmUp
  PROVE  Calculate(b)[k] \in Known(n, WarmUp[k], Int)
<1> DEFINE closes == Closes(b)
           m == Macd(closes)
           pk == PercentK(Scaled(b), Period)
<1>0. closes \in [1..n -> Int] /\ Volumes(b) \in [1..n -> Int] /\ Scaled(b) \in Bars(n)
  BY ScaledBars
<1>1. Sma(closes, Period) \in Known(n, Period - 1, Int)
  BY <1>0, SmaKnown, Periods
<1>2. Ema(closes, Slow) \in Known(n, Slow - 1, Int)
  BY <1>0, EmaKnown, Periods
<1>3. Rsi(closes, Period) \in Known(n, Period, Int)
  BY <1>0, RsiKnown, Periods
<1>4. /\ m \in Known(n, Slow - 1, Int)
      /\ SignalLine(m) \in Known(n, (Slow - 1) + (SignalPeriod - 1), Int)
      /\ Difference(m, SignalLine(m)) \in Known(n, (Slow - 1) + (SignalPeriod - 1), Int)
  BY <1>0, MacdKnown
<1>5. pk \in Known(n, Period - 1, Int)
  BY <1>0, PercentKKnown, Periods
<1>6. PercentD(pk) \in Known(n, (Period - 1) + (SmoothD - 1), Int)
  BY <1>5, PercentDKnown, Periods
<1>7. Atr(Scaled(b), Period) \in Known(n, Period, Int)
  BY <1>0, AtrKnown, KnownWider, Periods
<1>8. Variance(closes, Period) \in Known(n, Period - 1, Int)
  BY <1>0, VarianceKnown, Periods
<1>9. Sma(Volumes(b), Period) \in Known(n, Period - 1, Int)
  BY <1>0, SmaKnown, Periods
<1>10. /\ (Slow - 1) + (SignalPeriod - 1) = Slow + SignalPeriod - 2
       /\ (Period - 1) + (SmoothD - 1) = Period + SmoothD - 2
  BY Periods
<1>11. /\ Calculate(b).sma = Sma(closes, Period)
       /\ Calculate(b).ema = Ema(closes, Slow)
       /\ Calculate(b).rsi = Rsi(closes, Period)
       /\ Calculate(b).macd = m
       /\ Calculate(b).signal = SignalLine(m)
       /\ Calculate(b).histogram = Difference(m, SignalLine(m))
       /\ Calculate(b).percentK = pk
       /\ Calculate(b).percentD = PercentD(pk)
       /\ Calculate(b).atr = Atr(Scaled(b), Period)
       /\ Calculate(b).variance = Variance(closes, Period)
       /\ Calculate(b).volumeSma = Sma(Volumes(b), Period)
  BY CalculateIs
<1>12. DOMAIN WarmUp = {"sma", "ema", "rsi", "macd", "signal", "histogram", "percentK", "percentD",
                        "atr", "variance", "volumeSma"}
  BY DEF WarmUp
<1>13. /\ WarmUp.sma = Period - 1 /\ WarmUp.ema = Slow - 1 /\ WarmUp.rsi = Period
       /\ WarmUp.macd = Slow - 1 /\ WarmUp.signal = Slow + SignalPeriod - 2
       /\ WarmUp.histogram = Slow + SignalPeriod - 2 /\ WarmUp.percentK = Period - 1
       /\ WarmUp.percentD = Period + SmoothD - 2 /\ WarmUp.atr = Period
       /\ WarmUp.variance = Period - 1 /\ WarmUp.volumeSma = Period - 1
  BY DEF WarmUp
<1> HIDE DEF closes, m, pk
<1>14. CASE k \in {"sma", "ema", "rsi", "atr", "variance", "volumeSma"}
  BY <1>14, <1>1, <1>2, <1>3, <1>7, <1>8, <1>9, <1>11, <1>13
<1>15. CASE k \in {"macd", "signal", "histogram", "percentK", "percentD"}
  BY <1>15, <1>4, <1>5, <1>6, <1>10, <1>11, <1>13
<1> QED BY <1>12, <1>14, <1>15

-----------------------------------------------------------------------------
(* The analysis, its invariant, and the warm-up. *)

AnalysisInv ==
  /\ history \in Seq(Candles)
  /\ start \in 1..Len(history)
  /\ series = Calculate(Asked)

\* The bars of a window.
LEMMA WindowIs ==
  ASSUME NEW stored \in Seq(Candles), NEW first \in 1..Len(stored)
  PROVE  LET w == SubSeq(stored, first, Len(stored))
             n == Len(stored) - first + 1
         IN /\ n \in Nat \ {0} /\ Len(w) = n /\ DOMAIN w = 1..n /\ w \in [1..n -> Candles]
            /\ \A i \in 1..n : w[i] = stored[first + i - 1]
<1> DEFINE w == SubSeq(stored, first, Len(stored))
           n == Len(stored) - first + 1
<1>1. Len(stored) \in Nat /\ first \in Nat /\ n \in Nat \ {0} /\ 1 <= first /\ first <= Len(stored)
  BY LenProperties
<1>2. \A i \in first..Len(stored) : stored[i] \in Candles
  BY <1>1, ElementOfSeq
<1>3. /\ SubSeq(stored, first, Len(stored)) \in Seq(Candles)
      /\ Len(SubSeq(stored, first, Len(stored))) = Len(stored) - first + 1
      /\ \A i \in 1..(Len(stored) - first + 1) :
           SubSeq(stored, first, Len(stored))[i] = stored[first + i - 1]
  BY <1>1, <1>2, SubSeqProperties
<1>4. DOMAIN w = 1..n /\ w \in [1..n -> Candles]
  BY <1>3, LenProperties
<1> QED BY <1>1, <1>3, <1>4

\* Both steps keep the answer that of the window asked for.
LEMMA AnalysisInvInductive ==
  ASSUME AnalysisInv, [AnalysisNext]_analysisVars
  PROVE  AnalysisInv'
<1>0. /\ history \in Seq(Candles) /\ start \in 1..Len(history) /\ Len(history) \in Nat
      /\ series = Calculate(Asked)
  BY LenProperties DEF AnalysisInv
<1>1. CASE NewBar
  <2>1. PICK c \in Candles : history' = Append(history, c)
    BY <1>1 DEF NewBar
  <2>2. history' \in Seq(Candles) /\ Len(history') = Len(history) + 1
    BY <1>0, <2>1, AppendProperties
  <2>3. start' \in 1..Len(history')
    BY <1>0, <1>1, <2>2 DEF NewBar
  <2> QED BY <1>1, <2>2, <2>3 DEF AnalysisInv, NewBar
<1>2. CASE MoveWindow
  BY <1>0, <1>2 DEF AnalysisInv, MoveWindow
<1>3. CASE UNCHANGED analysisVars
  BY <1>0, <1>3 DEF AnalysisInv, analysisVars, Asked
<1> QED BY <1>1, <1>2, <1>3 DEF AnalysisNext

\* For any bars and any periods, an answer is the computation of the window
\* asked for, and the window is not empty.
THEOREM AnalysisInvHolds == AnalysisSpec => []AnalysisInv
<1>1. AnalysisInit => AnalysisInv
  <2> SUFFICES ASSUME AnalysisInit PROVE AnalysisInv
    OBVIOUS
  <2>1. PICK c \in Candles : history = <<c>>
    BY DEF AnalysisInit
  <2> QED BY <2>1 DEF AnalysisInit, AnalysisInv
<1>2. AnalysisInv /\ [AnalysisNext]_analysisVars => AnalysisInv'
  BY AnalysisInvInductive
<1> QED BY <1>1, <1>2, PTL DEF AnalysisSpec

\* Where such a series is defined.
LEMMA KnownIsDefined ==
  ASSUME NEW n \in Nat, NEW w, NEW f \in Known(n, w, Int), w \in Int
  PROVE  Defined(f) = {i \in 1..n : i > w}
<1>1. DOMAIN f = 1..n /\ \A i \in 1..n : (i <= w => f[i] = Undefined) /\ (i > w => f[i] \in Int)
  BY DEF Known
<1>2. \A i \in 1..n : (i > w) <=> (f[i] # Undefined)
  BY <1>1, TechnicalAnalysisAssumption
<1> QED BY <1>1, <1>2 DEF Defined

\* For any bars, any history and any window, every indicator is undefined for
\* exactly its warm-up, composed series included.
THEOREM WarmUpHolds == AnalysisSpec => []WarmUpIsExact
<1>1. AnalysisInv => WarmUpIsExact
  <2> SUFFICES ASSUME AnalysisInv, NEW k \in DOMAIN WarmUp
              PROVE  Defined(series[k]) = {i \in DOMAIN Asked : i > WarmUp[k]}
    BY DEF WarmUpIsExact
  <2> DEFINE n == Len(history) - start + 1
  <2>1. n \in Nat /\ DOMAIN Asked = 1..n /\ Asked \in [1..n -> Candles] /\ series = Calculate(Asked)
    BY WindowIs DEF AnalysisInv, Asked
  <2> HIDE DEF n
  <2>2. series[k] \in Known(n, WarmUp[k], Int)
    BY <2>1, CalculateKnown
  <2>3. WarmUp[k] \in Int
    BY Periods DEF WarmUp
  <2> QED BY <2>1, <2>2, <2>3, KnownIsDefined
<1> QED BY <1>1, AnalysisInvHolds, PTL

-----------------------------------------------------------------------------
(* More bars: an indicator of the first n bars is what it is when others    *)
(* follow; an indicator over a window, what it is when others precede.     *)

\* Two series say the same of the first n bars.
Agree(f, g, n) == \A i \in 1..n : f[i] = g[i]

Part(f, first, last) == SubSeq(f, first, last)

Longer(f, g, n, m, V) ==
  f \in [1..n -> V] /\ g \in [1..m -> V] /\ n <= m /\ Agree(f, g, n)

\* They have the same slices.
LEMMA SlicesAgree ==
  ASSUME NEW n \in Nat, NEW m \in Nat, NEW V, NEW f, NEW g, Longer(f, g, n, m, V),
         NEW first \in Nat \ {0}, NEW last \in Nat, last <= n
  PROVE  Part(f, first, last) = Part(g, first, last)
<1>0. f \in [1..n -> V] /\ g \in [1..m -> V] /\ n <= m /\ Agree(f, g, n)
  BY DEF Longer
<1>1. f \in Seq(V) /\ Len(f) = n /\ g \in Seq(V) /\ Len(g) = m
  BY <1>0, SeriesIs
<1>2. \A i \in first..last : f[i] \in V /\ g[i] \in V /\ f[i] = g[i]
  BY <1>0 DEF Agree
<1>3. /\ SubSeq(f, first, last) \in Seq(V) /\ SubSeq(g, first, last) \in Seq(V)
      /\ Len(SubSeq(f, first, last)) = Len(SubSeq(g, first, last))
      /\ \A i \in 1..Len(SubSeq(f, first, last)) :
           SubSeq(f, first, last)[i] = SubSeq(g, first, last)[i]
  <2>1. CASE first <= last
    <3>1. /\ SubSeq(f, first, last) \in Seq(V)
          /\ Len(SubSeq(f, first, last)) = last - first + 1
          /\ \A i \in 1..(last - first + 1) : SubSeq(f, first, last)[i] = f[first + i - 1]
      BY <1>1, <1>2, <2>1, SubSeqProperties
    <3>2. /\ SubSeq(g, first, last) \in Seq(V)
          /\ Len(SubSeq(g, first, last)) = last - first + 1
          /\ \A i \in 1..(last - first + 1) : SubSeq(g, first, last)[i] = g[first + i - 1]
      BY <1>1, <1>2, <2>1, SubSeqProperties
    <3>3. \A i \in 1..(last - first + 1) : first + i - 1 \in first..last
      OBVIOUS
    <3> QED BY <3>1, <3>2, <3>3, <1>2
  <2>2. CASE ~(first <= last)
    <3>1. SubSeq(f, first, last) = <<>> /\ SubSeq(g, first, last) = <<>>
      BY <2>2
    <3> QED BY <3>1
  <2> QED BY <2>1, <2>2
<1>4. SubSeq(f, first, last) = SubSeq(g, first, last)
  BY <1>3, SeqEqual
<1> QED BY <1>4 DEF Part

\* Simple averages.
LEMMA SmaAgrees ==
  ASSUME NEW n \in Nat, NEW m \in Nat, n <= m, NEW p \in Nat \ {0},
         NEW f \in [1..n -> Int], NEW g \in [1..m -> Int], Agree(f, g, n)
  PROVE  Agree(Sma(f, p), Sma(g, p), n)
<1> DEFINE F == RunningSums(f, p)
           G == RunningSums(g, p)
<1>1. SumsFollow(F, f, n, p) /\ SumsFollow(G, g, m, p)
  BY RunningSumsFollow
<1> HIDE DEF F, G
<1>2. GoAlike(F, G, 0, n)
  <2>1. F[0] = G[0]
    BY <1>1 DEF SumsFollow
  <2>2. ASSUME NEW i \in 0..n, i # 0, F[i - 1] = G[i - 1] PROVE F[i] = G[i]
    <3>1. i \in 1..n /\ i \in 1..m
      BY <2>2
    <3>2. F[i] = F[i - 1] + (f[i] - (IF i > p THEN f[i - p] ELSE 0))
      BY <1>1, <3>1 DEF SumsFollow
    <3>3. G[i] = G[i - 1] + (g[i] - (IF i > p THEN g[i - p] ELSE 0))
      BY <1>1, <3>1 DEF SumsFollow
    <3>4. f[i] = g[i] /\ (i > p => f[i - p] = g[i - p])
      BY <3>1 DEF Agree
    <3> QED BY <2>2, <3>2, <3>3, <3>4
  <2> QED BY <2>1, <2>2 DEF GoAlike
<1>3. \A i \in 0..n : F[i] = G[i]
  <2>1. 0 \in Int /\ n \in Int
    OBVIOUS
  <2> QED BY <1>2, <2>1, SameWalk
<1>4. /\ Sma(f, p) \in Known(n, p - 1, Int)
      /\ \A i \in p..n : Sma(f, p)[i] = F[i] \div p
  BY SmaKnown DEF F
<1>5. /\ Sma(g, p) \in Known(m, p - 1, Int)
      /\ \A i \in p..m : Sma(g, p)[i] = G[i] \div p
  BY SmaKnown DEF G
<1>6. \A i \in 1..n : i < p => Sma(f, p)[i] = Undefined /\ Sma(g, p)[i] = Undefined
  BY <1>4, <1>5 DEF Known
<1>7. \A i \in p..n : Sma(f, p)[i] = Sma(g, p)[i]
  BY <1>3, <1>4, <1>5
<1> QED BY <1>6, <1>7 DEF Agree

\* Exponential averages.
LEMMA EmaAgrees ==
  ASSUME NEW n \in Nat, NEW m \in Nat, n <= m, NEW p \in Nat \ {0},
         NEW f \in [1..n -> Int], NEW g \in [1..m -> Int], Agree(f, g, n)
  PROVE  Agree(Ema(f, p), Ema(g, p), n)
<1> DEFINE F == Ema(f, p)
           G == Ema(g, p)
<1>1. /\ F \in Known(n, p - 1, Int)
      /\ p <= n => F[p] = Seed(f, p)
      /\ \A i \in p..n : i # p => F[i] = Moved(F[i - 1], f[i], p)
  BY EmaKnown
<1>7. /\ G \in Known(m, p - 1, Int)
      /\ p <= m => G[p] = Seed(g, p)
      /\ \A i \in p..m : i # p => G[i] = Moved(G[i - 1], g[i], p)
  BY EmaKnown
<1> HIDE DEF F, G
<1>2. p <= n => F[p] = G[p]
  <2> SUFFICES ASSUME p <= n PROVE F[p] = G[p]
    OBVIOUS
  <2>0. 1 \in Nat \ {0} /\ p \in Nat /\ Longer(f, g, n, m, Int)
    BY DEF Longer
  <2>3. Part(f, 1, p) = Part(g, 1, p)
    BY <2>0, SlicesAgree
  <2>1. SubSeq(f, 1, p) = SubSeq(g, 1, p)
    BY <2>3 DEF Part
  <2>2. Seed(f, p) = Seed(g, p)
    BY <2>1 DEF Seed
  <2> QED BY <1>1, <1>7, <2>2
<1>3. GoAlike(F, G, p, n)
  <2>1. ASSUME NEW i \in p..n, i # p, F[i - 1] = G[i - 1] PROVE F[i] = G[i]
    <3>1. f[i] = g[i] /\ i \in p..m
      BY DEF Agree
    <3> QED BY <1>1, <1>7, <2>1, <3>1
  <2> QED BY <1>2, <2>1 DEF GoAlike
<1>4. \A i \in p..n : F[i] = G[i]
  BY <1>3, SameWalk
<1>5. \A i \in 1..n : i < p => F[i] = Undefined /\ G[i] = Undefined
  BY <1>1, <1>7 DEF Known
<1>6. Agree(F, G, n)
  BY <1>4, <1>5 DEF Agree
<1> QED BY <1>6 DEF F, G

\* Wilder's averages.
LEMMA WilderAgrees ==
  ASSUME NEW n \in Nat, NEW m \in Nat, n <= m, NEW p \in Nat \ {0},
         NEW f \in [1..n -> Nat], NEW g \in [1..m -> Nat], Agree(f, g, n)
  PROVE  Agree(Wilder(f, p), Wilder(g, p), n)
<1> DEFINE F == Wilder(f, p)
           G == Wilder(g, p)
<1>0. p + 1 \in Nat /\ p + 1 \in Int /\ n \in Int
  OBVIOUS
<1>1. /\ F \in Known(n, p, Nat)
      /\ p + 1 <= n => F[p + 1] = SumFunction(SubSeq(f, 2, p + 1)) \div p
      /\ \A i \in (p + 1)..n : i # p + 1 => F[i] = Smoothed(F[i - 1], f[i], p)
  BY WilderKnown
<1>7. /\ G \in Known(m, p, Nat)
      /\ p + 1 <= m => G[p + 1] = SumFunction(SubSeq(g, 2, p + 1)) \div p
      /\ \A i \in (p + 1)..m : i # p + 1 => G[i] = Smoothed(G[i - 1], g[i], p)
  BY WilderKnown
<1> HIDE DEF F, G
<1>2. p + 1 <= n => F[p + 1] = G[p + 1]
  <2> SUFFICES ASSUME p + 1 <= n PROVE F[p + 1] = G[p + 1]
    OBVIOUS
  <2>0. 2 \in Nat \ {0} /\ p + 1 <= m /\ Longer(f, g, n, m, Nat)
    BY DEF Longer
  <2>3. Part(f, 2, p + 1) = Part(g, 2, p + 1)
    BY <1>0, <2>0, SlicesAgree
  <2>1. SubSeq(f, 2, p + 1) = SubSeq(g, 2, p + 1)
    BY <2>3 DEF Part
  <2>2. /\ F[p + 1] = SumFunction(SubSeq(f, 2, p + 1)) \div p
        /\ G[p + 1] = SumFunction(SubSeq(g, 2, p + 1)) \div p
    BY <1>1, <1>7, <2>0
  <2> QED BY <2>1, <2>2
<1>3. GoAlike(F, G, p + 1, n)
  <2>1. ASSUME NEW i \in (p + 1)..n, i # p + 1, F[i - 1] = G[i - 1] PROVE F[i] = G[i]
    <3>1. f[i] = g[i] /\ i \in (p + 1)..m
      BY DEF Agree
    <3> QED BY <1>1, <1>7, <2>1, <3>1
  <2> QED BY <1>2, <2>1 DEF GoAlike
<1>4. \A i \in (p + 1)..n : F[i] = G[i]
  BY <1>0, <1>3, SameWalk
<1>5. \A i \in 1..n : i <= p => F[i] = Undefined /\ G[i] = Undefined
  BY <1>1, <1>7 DEF Known
<1>6. Agree(F, G, n)
  BY <1>4, <1>5 DEF Agree
<1> QED BY <1>6 DEF F, G

\* Past its first w values, a series is another one from its d-th on.
Follows(f, g, d, w, n) == \A i \in 1..n : i > w => f[i] = g[i + d]

\* To agree is to follow at once.
LEMMA AgreeFollows ==
  ASSUME NEW n \in Nat, NEW w \in Nat, NEW f, NEW g, Agree(f, g, n)
  PROVE  Follows(f, g, 0, w, n)
<1>1. \A i \in 1..n : i + 0 = i
  OBVIOUS
<1> QED BY <1>1 DEF Agree, Follows

\* And back, for series with the same warm-up.
LEMMA FollowsAgrees ==
  ASSUME NEW n \in Nat, NEW m \in Nat, n <= m, NEW w \in Nat, NEW V,
         NEW f \in Known(n, w, V), NEW g \in Known(m, w, V), Follows(f, g, 0, w, n)
  PROVE  Agree(f, g, n)
<1>1. \A i \in 1..n : i + 0 = i /\ i \in 1..m /\ (i > w \/ i <= w)
  OBVIOUS
<1> QED BY <1>1 DEF Agree, Follows, Known

\* The last p bars are the same bars.
LEMMA WindowFollows ==
  ASSUME NEW n \in Nat, NEW d \in Nat, NEW b, NEW c, NEW p \in Nat \ {0},
         Follows(b, c, d, 0, n), NEW i \in p..n
  PROVE  Window(b, i, p) = Window(c, i + d, p)
<1>1. \A j \in (i - p + 1)..i : /\ j + d \in (i + d - p + 1)..(i + d)
                                /\ j \in 1..n /\ j > 0 /\ b[j] = c[j + d]
  BY DEF Follows
<1>2. \A j \in (i + d - p + 1)..(i + d) : j - d \in (i - p + 1)..i /\ (j - d) + d = j
  OBVIOUS
<1>3. ASSUME NEW x \in Window(b, i, p) PROVE x \in Window(c, i + d, p)
  BY <1>1, <1>3 DEF Window
<1>4. ASSUME NEW x \in Window(c, i + d, p) PROVE x \in Window(b, i, p)
  <2>1. PICK j \in (i + d - p + 1)..(i + d) : x = c[j]
    BY <1>4 DEF Window
  <2>2. j - d \in (i - p + 1)..i /\ b[j - d] = c[j]
    BY <1>1, <1>2
  <2> QED BY <2>1, <2>2 DEF Window
<1> QED BY <1>3, <1>4

\* %K looks at its window and the close.
LEMMA PercentKFollows ==
  ASSUME NEW n \in Nat, NEW m \in Nat, NEW d \in Nat, n + d <= m, NEW p \in Nat \ {0},
         NEW b \in Bars(n), NEW c \in Bars(m), Follows(b, c, d, 0, n)
  PROVE  Follows(PercentK(b, p), PercentK(c, p), d, p - 1, n)
<1> DEFINE value(given, i, W) ==
             IF Max({x.high : x \in W}) = Min({x.low : x \in W}) THEN 50
             ELSE (100 * (given[i].close - Min({x.low : x \in W})))
                    \div (Max({x.high : x \in W}) - Min({x.low : x \in W}))
<1>1. DOMAIN b = 1..n /\ DOMAIN c = 1..m
  BY DEF Bars
<1>2. /\ PercentK(b, p) = [i \in 1..n |-> IF i < p THEN Undefined
                                          ELSE value(b, i, Window(b, i, p))]
      /\ PercentK(c, p) = [i \in 1..m |-> IF i < p THEN Undefined
                                          ELSE value(c, i, Window(c, i, p))]
  BY <1>1 DEF PercentK
<1>3. ASSUME NEW i \in 1..n, i > p - 1
      PROVE  value(b, i, Window(b, i, p)) = value(c, i + d, Window(c, i + d, p))
  <2>1. i \in p..n /\ i > 0
    BY <1>3
  <2>2. Window(b, i, p) = Window(c, i + d, p) /\ b[i] = c[i + d]
    BY <2>1, WindowFollows DEF Follows
  <2> QED BY <2>2
<1> HIDE DEF value
<1>4. \A i \in 1..n : i > p - 1 => ~(i < p) /\ i + d \in 1..m /\ ~(i + d < p)
  OBVIOUS
<1> QED BY <1>2, <1>3, <1>4 DEF Follows

\* So does the variance, through its average.
LEMMA VarianceFollows ==
  ASSUME NEW n \in Nat, NEW m \in Nat, NEW d \in Nat, n + d <= m, NEW p \in Nat \ {0},
         NEW f \in [1..n -> Int], NEW g \in [1..m -> Int], Follows(f, g, d, 0, n),
         Follows(Sma(f, p), Sma(g, p), d, p - 1, n)
  PROVE  Follows(Variance(f, p), Variance(g, p), d, p - 1, n)
<1> DEFINE squares(values, average, i) ==
             [k \in 1..p |-> (values[i - p + k] - average[i]) * (values[i - p + k] - average[i])]
<1>1. \A i \in p..n : Variance(f, p)[i] = SumFunction(squares(f, Sma(f, p), i)) \div p
  BY VarianceKnown
<1>2. \A i \in p..m : Variance(g, p)[i] = SumFunction(squares(g, Sma(g, p), i)) \div p
  BY VarianceKnown
<1>3. ASSUME NEW i \in 1..n, i > p - 1
      PROVE  squares(f, Sma(f, p), i) = squares(g, Sma(g, p), i + d)
  <2>1. Sma(f, p)[i] = Sma(g, p)[i + d]
    BY <1>3 DEF Follows
  <2>2. \A k \in 1..p : f[i - p + k] = g[(i + d) - p + k]
    <3> TAKE k \in 1..p
    <3>1. i - p + k \in 1..n /\ i - p + k > 0 /\ (i - p + k) + d = (i + d) - p + k
      BY <1>3
    <3> QED BY <3>1 DEF Follows
  <2> QED BY <2>1, <2>2
<1> HIDE DEF squares
<1>4. \A i \in 1..n : i > p - 1 => i \in p..n /\ i + d \in p..m
  OBVIOUS
<1> QED BY <1>1, <1>2, <1>3, <1>4 DEF Follows

\* And relative volume, through its own.
LEMMA RelativeVolumeFollows ==
  ASSUME NEW n \in Nat, NEW m \in Nat, NEW d \in Nat, n + d <= m, NEW w \in Nat,
         NEW f \in [1..n -> Int], NEW g \in [1..m -> Int], NEW a, NEW e,
         Follows(f, g, d, 0, n), Follows(a, e, d, w, n)
  PROVE  Follows(RelativeVolume(f, a), RelativeVolume(g, e), d, w, n)
<1>1. /\ RelativeVolume(f, a) = [i \in 1..n |-> IF a[i] \in {Undefined, 0} THEN Undefined
                                                ELSE (100 * f[i]) \div a[i]]
      /\ RelativeVolume(g, e) = [i \in 1..m |-> IF e[i] \in {Undefined, 0} THEN Undefined
                                                ELSE (100 * g[i]) \div e[i]]
  BY DEF RelativeVolume
<1>2. \A i \in 1..n : i > w => i > 0 /\ i + d \in 1..m /\ f[i] = g[i + d] /\ a[i] = e[i + d]
  BY DEF Follows
<1> QED BY <1>1, <1>2 DEF Follows

\* An average of the defined end of a series, put back.
LEMMA PutBackFollows ==
  ASSUME NEW n \in Nat, NEW m \in Nat, NEW d \in Nat, n + d <= m, NEW w \in Nat, NEW u \in Nat,
         NEW f \in Known(n, w, Int), NEW g \in Known(m, w, Int),
         NEW t \in Known(Rest(n, w), u, Int), NEW v \in Known(Rest(m, w), u, Int),
         Follows(t, v, d, u, Rest(n, w))
  PROVE  Follows(PutBack(t, f), PutBack(v, g), d, w + u, n)
<1>1. \A i \in 1..n : i > w + u => i - w \in 1..Rest(n, w) /\ PutBack(t, f)[i] = t[i - w]
  BY PutBackKnown
<1>2. \A i \in 1..m : i > w + u => i - w \in 1..Rest(m, w) /\ PutBack(v, g)[i] = v[i - w]
  BY PutBackKnown
<1>3. ASSUME NEW i \in 1..n, i > w + u PROVE PutBack(t, f)[i] = PutBack(v, g)[i + d]
  <2>1. i + d \in 1..m /\ i + d > w + u /\ (i + d) - w = (i - w) + d /\ i - w > u
    BY <1>3
  <2>2. t[i - w] = v[(i - w) + d]
    BY <1>1, <1>3, <2>1 DEF Follows
  <2>3. PutBack(v, g)[i + d] = v[(i + d) - w]
    BY <1>2, <2>1
  <2> QED BY <1>1, <1>3, <2>1, <2>2, <2>3
<1> QED BY <1>3 DEF Follows

\* What is defined of a series follows as the series does.
LEMMA TailFollows ==
  ASSUME NEW n \in Nat, NEW m \in Nat, NEW d \in Nat, n + d <= m, NEW w \in Nat,
         NEW f \in Known(n, w, Int), NEW g \in Known(m, w, Int), Follows(f, g, d, w, n)
  PROVE  /\ Rest(n, w) \in Nat /\ Rest(m, w) \in Nat
         /\ Rest(n, w) > 0 => Rest(n, w) + d <= Rest(m, w)
         /\ DefinedTail(f) \in [1..Rest(n, w) -> Int]
         /\ DefinedTail(g) \in [1..Rest(m, w) -> Int]
         /\ Follows(DefinedTail(f), DefinedTail(g), d, 0, Rest(n, w))
<1>1. /\ Rest(n, w) \in Nat /\ DefinedTail(f) \in [1..Rest(n, w) -> Int]
      /\ Rest(m, w) \in Nat /\ DefinedTail(g) \in [1..Rest(m, w) -> Int]
  BY TailKnown
<1>2. /\ DefinedTail(f) = [k \in 1..Rest(n, w) |-> f[w + k]]
      /\ DefinedTail(g) = [k \in 1..Rest(m, w) |-> g[w + k]]
  BY DefinedTailIs
<1>3. Rest(n, w) > 0 => Rest(n, w) + d <= Rest(m, w)
  BY DEF Rest
<1>4. ASSUME NEW k \in 1..Rest(n, w) PROVE DefinedTail(f)[k] = DefinedTail(g)[k + d]
  <2>1. k + d \in 1..Rest(m, w) /\ w + k \in 1..n /\ w + k > w /\ (w + k) + d = w + (k + d)
    BY <1>1, <1>3, <1>4 DEF Rest
  <2>2. f[w + k] = g[w + (k + d)]
    BY <2>1 DEF Follows
  <2>3. DefinedTail(f)[k] = f[w + k] /\ DefinedTail(g)[k + d] = g[w + (k + d)]
    BY <1>2, <1>4, <2>1
  <2> QED BY <2>2, <2>3
<1> QED BY <1>1, <1>3, <1>4 DEF Follows

\* The strength index.
LEMMA RsiAgrees ==
  ASSUME NEW n \in Nat, NEW m \in Nat, n <= m, NEW p \in Nat \ {0},
         NEW f \in [1..n -> Int], NEW g \in [1..m -> Int], Agree(f, g, n)
  PROVE  Agree(Rsi(f, p), Rsi(g, p), n)
<1>1. /\ Rises(f) \in [1..n -> Nat] /\ Falls(f) \in [1..n -> Nat]
      /\ Rsi(f, p) =
           [i \in 1..n |-> IF i > p
                           THEN RsiFromAverages(Wilder(Rises(f), p)[i], Wilder(Falls(f), p)[i])
                           ELSE Undefined]
  BY RsiIs
<1>2. /\ Rises(g) \in [1..m -> Nat] /\ Falls(g) \in [1..m -> Nat]
      /\ Rsi(g, p) =
           [i \in 1..m |-> IF i > p
                           THEN RsiFromAverages(Wilder(Rises(g), p)[i], Wilder(Falls(g), p)[i])
                           ELSE Undefined]
  BY RsiIs
<1>3. \A i \in 1..n : Changes(f)[i] = Changes(g)[i]
  <2> TAKE i \in 1..n
  <2>1. f[i] = g[i] /\ (i # 1 => f[i - 1] = g[i - 1]) /\ i \in 1..m
    BY DEF Agree
  <2> QED BY <2>1 DEF Changes
<1>4. Agree(Rises(f), Rises(g), n) /\ Agree(Falls(f), Falls(g), n)
  <2>1. ASSUME NEW i \in 1..n
        PROVE  Rises(f)[i] = Rises(g)[i] /\ Falls(f)[i] = Falls(g)[i]
    <3>1. i \in DOMAIN f /\ i \in DOMAIN g
      OBVIOUS
    <3>2. /\ Rises(f)[i] = Max({Changes(f)[i], 0}) /\ Rises(g)[i] = Max({Changes(g)[i], 0})
          /\ Falls(f)[i] = Max({-Changes(f)[i], 0}) /\ Falls(g)[i] = Max({-Changes(g)[i], 0})
      BY <3>1 DEF Rises, Falls
    <3> QED BY <1>3, <3>2
  <2> QED BY <2>1 DEF Agree
<1>5. /\ Agree(Wilder(Rises(f), p), Wilder(Rises(g), p), n)
      /\ Agree(Wilder(Falls(f), p), Wilder(Falls(g), p), n)
  BY <1>1, <1>2, <1>4, WilderAgrees
<1> QED BY <1>1, <1>2, <1>5 DEF Agree

\* The average true range.
LEMMA AtrAgrees ==
  ASSUME NEW n \in Nat, NEW m \in Nat, n <= m, NEW p \in Nat \ {0},
         NEW b \in Bars(n), NEW c \in Bars(m), Agree(b, c, n)
  PROVE  Agree(Atr(b, p), Atr(c, p), n)
<1>1. TrueRanges(b) \in [1..n -> Nat] /\ TrueRanges(c) \in [1..m -> Nat]
  BY TrueRangesNat
<1>2. DOMAIN b = 1..n /\ DOMAIN c = 1..m
  BY DEF Bars
<1> DEFINE range(bar, before) ==
             Max({bar.high - bar.low, Distance(bar.high, before.close),
                  Distance(bar.low, before.close)})
<1>3. /\ TrueRanges(b) = [i \in 1..n |-> IF i = 1 THEN 0 ELSE range(b[i], b[i - 1])]
      /\ TrueRanges(c) = [i \in 1..m |-> IF i = 1 THEN 0 ELSE range(c[i], c[i - 1])]
  BY <1>2 DEF TrueRanges
<1> HIDE DEF range
<1>4. Agree(TrueRanges(b), TrueRanges(c), n)
  <2>1. ASSUME NEW i \in 1..n PROVE TrueRanges(b)[i] = TrueRanges(c)[i]
    <3>1. b[i] = c[i] /\ (i # 1 => b[i - 1] = c[i - 1]) /\ i \in 1..m
      BY DEF Agree
    <3> QED BY <1>3, <3>1
  <2> QED BY <2>1 DEF Agree
<1> QED BY <1>1, <1>4, WilderAgrees DEF Atr

\* A difference of two series.
LEMMA DifferencesAgree ==
  ASSUME NEW n \in Nat, NEW m \in Nat, n <= m, NEW f, NEW g, NEW h, NEW k,
         DOMAIN f = 1..n, DOMAIN g = 1..m, Agree(f, g, n), Agree(h, k, n)
  PROVE  Agree(Difference(f, h), Difference(g, k), n)
<1>1. ASSUME NEW i \in 1..n PROVE Difference(f, h)[i] = Difference(g, k)[i]
  <2>1. f[i] = g[i] /\ h[i] = k[i] /\ i \in 1..m
    BY DEF Agree
  <2> QED BY <2>1 DEF Difference
<1> QED BY <1>1 DEF Agree

\* An average of what is defined.
LEMMA EmaOfTailAgrees ==
  ASSUME NEW n \in Nat, NEW m \in Nat, n <= m, NEW w \in Nat, NEW p \in Nat \ {0},
         NEW f \in Known(n, w, Int), NEW g \in Known(m, w, Int), Agree(f, g, n)
  PROVE  Agree(PutBack(Ema(DefinedTail(f), p), f), PutBack(Ema(DefinedTail(g), p), g), n)
<1> DEFINE r == Rest(n, w)
           s == Rest(m, w)
           t == DefinedTail(f)
           v == DefinedTail(g)
<1>1. Follows(f, g, 0, w, n) /\ n + 0 <= m /\ 0 \in Nat /\ p - 1 \in Nat
  BY AgreeFollows
<1>2. r \in Nat /\ s \in Nat /\ t \in [1..r -> Int] /\ v \in [1..s -> Int] /\ Follows(t, v, 0, 0, r)
  BY <1>1, TailFollows
<1>3. r <= s
  BY DEF Rest
<1> HIDE DEF r, s, t, v
<1>4. Agree(t, v, r)
  <2>1. \A i \in 1..r : i > 0 /\ i + 0 = i
    BY <1>2
  <2> QED BY <1>2, <2>1 DEF Follows, Agree
<1>5. Ema(t, p) \in Known(r, p - 1, Int) /\ Ema(v, p) \in Known(s, p - 1, Int)
  BY <1>2, EmaKnown
<1>6. Follows(Ema(t, p), Ema(v, p), 0, p - 1, r)
  BY <1>1, <1>2, <1>3, <1>4, EmaAgrees, AgreeFollows
<1>7. /\ PutBack(Ema(t, p), f) \in Known(n, w + (p - 1), Int)
      /\ PutBack(Ema(v, p), g) \in Known(m, w + (p - 1), Int)
  BY <1>1, <1>5, PutBackKnown DEF r, s
<1>8. Follows(PutBack(Ema(t, p), f), PutBack(Ema(v, p), g), 0, w + (p - 1), n)
  BY <1>1, <1>5, <1>6, PutBackFollows DEF r, s
<1>9. w + (p - 1) \in Nat
  OBVIOUS
<1> QED BY <1>7, <1>8, <1>9, FollowsAgrees DEF t, v

\* And the same for a simple average, wherever the window starts.
LEMMA SmaOfTailFollows ==
  ASSUME NEW n \in Nat, NEW m \in Nat, NEW d \in Nat, n + d <= m, NEW w \in Nat,
         NEW f \in Known(n, w, Int), NEW g \in Known(m, w, Int),
         Follows(Sma(DefinedTail(f), SmoothD), Sma(DefinedTail(g), SmoothD), d,
                 SmoothD - 1, Rest(n, w))
  PROVE  Follows(PercentD(f), PercentD(g), d, w + (SmoothD - 1), n)
<1> DEFINE t == DefinedTail(f)
           v == DefinedTail(g)
<1>1. /\ Rest(n, w) \in Nat /\ t \in [1..Rest(n, w) -> Int]
      /\ Rest(m, w) \in Nat /\ v \in [1..Rest(m, w) -> Int]
  BY TailKnown
<1>2. /\ Sma(t, SmoothD) \in Known(Rest(n, w), SmoothD - 1, Int)
      /\ Sma(v, SmoothD) \in Known(Rest(m, w), SmoothD - 1, Int)
  BY <1>1, SmaKnown, Periods
<1> QED BY <1>2, PutBackFollows, Periods DEF PercentD

\* Bars that follow have numbers that follow.
LEMMA ScaledFollow ==
  ASSUME NEW n \in Nat, NEW m \in Nat, NEW d \in Nat, n + d <= m,
         NEW b \in [1..n -> Candles], NEW c \in [1..m -> Candles], Follows(b, c, d, 0, n)
  PROVE  /\ Follows(Closes(b), Closes(c), d, 0, n)
         /\ Follows(Volumes(b), Volumes(c), d, 0, n)
         /\ Follows(Scaled(b), Scaled(c), d, 0, n)
<1>1. \A i \in 1..n : i > 0 /\ i + d \in 1..m /\ b[i] = c[i + d]
  BY DEF Follows
<1>2. \A i \in 1..n : /\ Closes(b)[i] = Unit * b[i].close
                      /\ Volumes(b)[i] = Unit * b[i].volume
                      /\ Scaled(b)[i] = [high |-> Unit * b[i].high, low |-> Unit * b[i].low,
                                         close |-> Closes(b)[i]]
  BY DEF Closes, Volumes, Scaled
<1>3. \A i \in 1..m : /\ Closes(c)[i] = Unit * c[i].close
                      /\ Volumes(c)[i] = Unit * c[i].volume
                      /\ Scaled(c)[i] = [high |-> Unit * c[i].high, low |-> Unit * c[i].low,
                                         close |-> Closes(c)[i]]
  BY DEF Closes, Volumes, Scaled
<1>4. ASSUME NEW i \in 1..n
      PROVE  /\ Closes(b)[i] = Closes(c)[i + d] /\ Volumes(b)[i] = Volumes(c)[i + d]
             /\ Scaled(b)[i] = Scaled(c)[i + d]
  <2>1. i + d \in 1..m /\ b[i] = c[i + d]
    BY <1>1
  <2>2. Closes(b)[i] = Closes(c)[i + d] /\ Volumes(b)[i] = Volumes(c)[i + d]
    BY <1>2, <1>3, <2>1
  <2>3. Scaled(b)[i] = [high |-> Unit * b[i].high, low |-> Unit * b[i].low,
                        close |-> Closes(b)[i]]
    BY <1>2
  <2>4. Scaled(c)[i + d] = [high |-> Unit * c[i + d].high, low |-> Unit * c[i + d].low,
                            close |-> Closes(c)[i + d]]
    BY <1>3, <2>1
  <2> QED BY <2>1, <2>2, <2>3, <2>4
<1> QED BY <1>4 DEF Follows

\* To follow from the first bar on is to agree.
LEMMA FollowsIsAgree ==
  ASSUME NEW n \in Nat, NEW f, NEW g, Follows(f, g, 0, 0, n)
  PROVE  Agree(f, g, n)
<1>1. \A i \in 1..n : i > 0 /\ i + 0 = i
  OBVIOUS
<1> QED BY <1>1 DEF Follows, Agree

\* What the first n bars say is what they say when more follow.
LEMMA CalculateAgrees ==
  ASSUME NEW n \in Nat, NEW m \in Nat, n <= m,
         NEW b \in [1..n -> Candles], NEW c \in [1..m -> Candles], Agree(b, c, n),
         NEW k \in Indicators
  PROVE  Agree(Calculate(b)[k], Calculate(c)[k], n)
<1> DEFINE f == Closes(b)
           g == Closes(c)
           mf == Macd(f)
           mg == Macd(g)
           kf == PercentK(Scaled(b), Period)
           kg == PercentK(Scaled(c), Period)
           vf == Sma(Volumes(b), Period)
           vg == Sma(Volumes(c), Period)
<1>0. n + 0 <= m /\ 0 \in Nat /\ Period \in Nat /\ SmoothD \in Nat
  BY Periods
<1>1. /\ f \in [1..n -> Int] /\ Volumes(b) \in [1..n -> Int] /\ Scaled(b) \in Bars(n)
      /\ g \in [1..m -> Int] /\ Volumes(c) \in [1..m -> Int] /\ Scaled(c) \in Bars(m)
  BY ScaledBars
<1>2. /\ Follows(f, g, 0, 0, n) /\ Follows(Volumes(b), Volumes(c), 0, 0, n)
      /\ Follows(Scaled(b), Scaled(c), 0, 0, n)
  BY <1>0, AgreeFollows, ScaledFollow
<1>3. Agree(f, g, n) /\ Agree(Volumes(b), Volumes(c), n) /\ Agree(Scaled(b), Scaled(c), n)
  BY <1>2, FollowsIsAgree
<1> HIDE DEF f, g
<1>4. Agree(Sma(f, Period), Sma(g, Period), n) /\ Agree(vf, vg, n)
  BY <1>1, <1>3, SmaAgrees, Periods
<1>5. Agree(Ema(f, Fast), Ema(g, Fast), n) /\ Agree(Ema(f, Slow), Ema(g, Slow), n)
  BY <1>1, <1>3, EmaAgrees, Periods
<1>6. Agree(Rsi(f, Period), Rsi(g, Period), n)
  BY <1>1, <1>3, RsiAgrees, Periods
<1>7. Agree(Atr(Scaled(b), Period), Atr(Scaled(c), Period), n)
  BY <1>1, <1>3, AtrAgrees, Periods
<1>8. Agree(mf, mg, n)
  <2>1. Ema(f, Fast) \in Known(n, Fast - 1, Int) /\ Ema(g, Fast) \in Known(m, Fast - 1, Int)
    BY <1>1, EmaKnown, Periods
  <2>2. DOMAIN Ema(f, Fast) = 1..n /\ DOMAIN Ema(g, Fast) = 1..m
    BY <2>1 DEF Known
  <2> QED BY <1>5, <2>2, DifferencesAgree DEF Macd
<1>9. mf \in Known(n, Slow - 1, Int) /\ mg \in Known(m, Slow - 1, Int)
  BY <1>1, MacdKnown
<1>10. DOMAIN mf = 1..n /\ DOMAIN mg = 1..m
  BY <1>9 DEF Known
<1> HIDE DEF mf, mg
<1>11. Agree(SignalLine(mf), SignalLine(mg), n)
  BY <1>8, <1>9, EmaOfTailAgrees, Periods DEF SignalLine
<1>12. Agree(Difference(mf, SignalLine(mf)), Difference(mg, SignalLine(mg)), n)
  BY <1>8, <1>10, <1>11, DifferencesAgree
<1>13. kf \in Known(n, Period - 1, Int) /\ kg \in Known(m, Period - 1, Int)
  BY <1>1, PercentKKnown, Periods
<1>14. Agree(kf, kg, n)
  <2>1. Follows(kf, kg, 0, Period - 1, n)
    BY <1>0, <1>1, <1>2, PercentKFollows, Periods
  <2> HIDE DEF kf, kg
  <2> QED BY <1>13, <2>1, FollowsAgrees, Periods
<1> HIDE DEF kf, kg
<1>15. Agree(PercentD(kf), PercentD(kg), n)
  <2> DEFINE w == Period - 1
             r == Rest(n, w)
             s == Rest(m, w)
  <2>1. w \in Nat /\ SmoothD - 1 \in Nat /\ w + (SmoothD - 1) \in Nat /\ SmoothD \in Nat \ {0}
    BY Periods
  <2>2. Follows(kf, kg, 0, w, n)
    BY <1>14, <2>1, AgreeFollows
  <2>3. /\ r \in Nat /\ s \in Nat
        /\ DefinedTail(kf) \in [1..r -> Int] /\ DefinedTail(kg) \in [1..s -> Int]
        /\ Follows(DefinedTail(kf), DefinedTail(kg), 0, 0, r)
    BY <1>0, <1>13, <2>1, <2>2, TailFollows
  <2>4. r <= s
    BY <2>1 DEF Rest
  <2> HIDE DEF w, r, s
  <2>5. Agree(DefinedTail(kf), DefinedTail(kg), r)
    BY <2>3, FollowsIsAgree
  <2>6. Agree(Sma(DefinedTail(kf), SmoothD), Sma(DefinedTail(kg), SmoothD), r)
    BY <2>1, <2>3, <2>4, <2>5, SmaAgrees
  <2>7. Follows(Sma(DefinedTail(kf), SmoothD), Sma(DefinedTail(kg), SmoothD), 0, SmoothD - 1, r)
    BY <2>1, <2>3, <2>6, AgreeFollows
  <2>8. Follows(PercentD(kf), PercentD(kg), 0, w + (SmoothD - 1), n)
    BY <1>0, <1>13, <2>1, <2>7, SmaOfTailFollows DEF r, w
  <2>9. /\ PercentD(kf) \in Known(n, w + (SmoothD - 1), Int)
        /\ PercentD(kg) \in Known(m, w + (SmoothD - 1), Int)
    BY <1>13, <2>1, PercentDKnown DEF w
  <2> QED BY <2>1, <2>8, <2>9, FollowsAgrees
<1>16. Agree(Variance(f, Period), Variance(g, Period), n)
  <2>1. Follows(Sma(f, Period), Sma(g, Period), 0, Period - 1, n)
    BY <1>4, AgreeFollows, Periods
  <2>2. Follows(Variance(f, Period), Variance(g, Period), 0, Period - 1, n)
    BY <1>0, <1>1, <1>2, <2>1, VarianceFollows, Periods DEF f, g
  <2>3. /\ Variance(f, Period) \in Known(n, Period - 1, Int)
        /\ Variance(g, Period) \in Known(m, Period - 1, Int)
    BY <1>1, VarianceKnown, Periods
  <2> QED BY <2>2, <2>3, FollowsAgrees, Periods
<1>17. Agree(RelativeVolume(Volumes(b), vf), RelativeVolume(Volumes(c), vg), n)
  <2>1. Follows(vf, vg, 0, 0, n)
    BY <1>0, <1>4, AgreeFollows
  <2>2. Follows(RelativeVolume(Volumes(b), vf), RelativeVolume(Volumes(c), vg), 0, 0, n)
    BY <1>0, <1>1, <1>2, <2>1, RelativeVolumeFollows
  <2> QED BY <2>2, FollowsIsAgree
<1>18. /\ Calculate(b).sma = Sma(f, Period) /\ Calculate(b).ema = Ema(f, Slow)
       /\ Calculate(b).rsi = Rsi(f, Period) /\ Calculate(b).macd = mf
       /\ Calculate(b).signal = SignalLine(mf)
       /\ Calculate(b).histogram = Difference(mf, SignalLine(mf))
       /\ Calculate(b).percentK = kf /\ Calculate(b).percentD = PercentD(kf)
       /\ Calculate(b).atr = Atr(Scaled(b), Period)
       /\ Calculate(b).variance = Variance(f, Period) /\ Calculate(b).volumeSma = vf
       /\ Calculate(b).relativeVolume = RelativeVolume(Volumes(b), vf)
  BY CalculateIs DEF f, mf, kf
<1>19. /\ Calculate(c).sma = Sma(g, Period) /\ Calculate(c).ema = Ema(g, Slow)
       /\ Calculate(c).rsi = Rsi(g, Period) /\ Calculate(c).macd = mg
       /\ Calculate(c).signal = SignalLine(mg)
       /\ Calculate(c).histogram = Difference(mg, SignalLine(mg))
       /\ Calculate(c).percentK = kg /\ Calculate(c).percentD = PercentD(kg)
       /\ Calculate(c).atr = Atr(Scaled(c), Period)
       /\ Calculate(c).variance = Variance(g, Period) /\ Calculate(c).volumeSma = vg
       /\ Calculate(c).relativeVolume = RelativeVolume(Volumes(c), vg)
  BY CalculateIs DEF g, mg, kg
<1> HIDE DEF vf, vg
<1>20. CASE k \in {"sma", "ema", "rsi", "macd", "signal", "histogram"}
  BY <1>20, <1>4, <1>5, <1>6, <1>8, <1>11, <1>12, <1>18, <1>19
<1>21. CASE k \in {"percentK", "percentD", "atr", "variance", "volumeSma", "relativeVolume"}
  BY <1>21, <1>14, <1>15, <1>7, <1>16, <1>4, <1>17, <1>18, <1>19
<1> QED BY <1>20, <1>21 DEF Indicators

\* For any bars and any periods, a new bar changes no value of the bars before
\* it: no indicator looks ahead.
THEOREM LooksOnlyBack == AnalysisSpec => NoLookAhead
<1>1. ASSUME AnalysisInv, [AnalysisNext]_analysisVars, start' = start,
             NEW k \in Indicators, NEW i \in DOMAIN Asked
      PROVE  series[k][i] = series'[k][i]
  <2> DEFINE n == Len(history) - start + 1
             m == Len(history') - start + 1
  <2>1. AnalysisInv'
    BY <1>1, AnalysisInvInductive
  <2>2. n \in Nat /\ DOMAIN Asked = 1..n /\ Asked \in [1..n -> Candles] /\ series = Calculate(Asked)
    BY <1>1, WindowIs DEF AnalysisInv, Asked
  <2>3. m \in Nat /\ Asked' \in [1..m -> Candles] /\ series' = Calculate(Asked')
    BY <1>1, <2>1, WindowIs DEF AnalysisInv, Asked
  <2>4. CASE NewBar
    <3>1. PICK c \in Candles : history' = Append(history, c)
      BY <2>4 DEF NewBar
    <3>2. /\ history \in Seq(Candles) /\ Len(history) \in Nat /\ start \in 1..Len(history)
          /\ history' \in Seq(Candles) /\ start \in 1..Len(history')
      BY <1>1, <2>1, LenProperties DEF AnalysisInv
    <3>3. /\ Len(history') = Len(history) + 1
          /\ \A j \in 1..Len(history) : history'[j] = history[j]
      BY <3>1, <3>2, AppendProperties
    <3>4. \A j \in 1..n : Asked[j] = history[start + j - 1]
      BY <3>2, WindowIs DEF Asked
    <3>5. \A j \in 1..m : Asked'[j] = history'[start + j - 1]
      BY <1>1, <3>2, WindowIs DEF Asked
    <3>6. n <= m /\ \A j \in 1..n : j \in 1..m /\ start + j - 1 \in 1..Len(history)
      BY <3>2, <3>3
    <3>7. Agree(Asked, Asked', n)
      BY <3>3, <3>4, <3>5, <3>6 DEF Agree
    <3> HIDE DEF n, m
    <3>8. Agree(Calculate(Asked)[k], Calculate(Asked')[k], n)
      BY <1>1, <2>2, <2>3, <3>6, <3>7, CalculateAgrees
    <3>9. i \in 1..n
      BY <1>1, <2>2
    <3> QED BY <2>2, <2>3, <3>8, <3>9 DEF Agree
  <2>5. CASE MoveWindow
    BY <1>1, <2>5 DEF MoveWindow, AnalysisInv
  <2>6. CASE UNCHANGED analysisVars
    BY <2>6 DEF analysisVars
  <2> QED BY <1>1, <2>4, <2>5, <2>6 DEF AnalysisNext
<1>2. AnalysisInv /\ [AnalysisNext]_analysisVars =>
        [start' = start =>
           \A k \in Indicators : \A i \in DOMAIN Asked : series[k][i] = series'[k][i]]_analysisVars
  BY <1>1
<1> QED BY <1>2, AnalysisInvHolds, PTL DEF AnalysisSpec, NoLookAhead

-----------------------------------------------------------------------------
(* A window that starts a bar later. *)

\* A running sum without its first bar: what left the window is gone from it
\* once p bars have come.
LEMMA SmaForgets ==
  ASSUME NEW n \in Nat, NEW m \in Nat, n + 1 <= m, NEW p \in Nat \ {0},
         NEW f \in [1..n -> Int], NEW g \in [1..m -> Int], Follows(f, g, 1, 0, n)
  PROVE  Follows(Sma(f, p), Sma(g, p), 1, p - 1, n)
<1> DEFINE F == RunningSums(f, p)
           G == RunningSums(g, p)
           H == [i \in 0..n |-> G[i + 1] - (IF i + 1 <= p THEN g[1] ELSE 0)]
<1>0. 0 \in Int /\ n \in Int /\ 1 \in 1..m /\ g[1] \in Int
  OBVIOUS
<1>1. SumsFollow(F, f, n, p) /\ SumsFollow(G, g, m, p)
  BY RunningSumsFollow
<1> HIDE DEF F, G
<1>2. \A i \in 1..n : f[i] = g[i + 1] /\ g[i + 1] \in Int
  <2> TAKE i \in 1..n
  <2>1. i > 0 /\ i + 1 \in 1..m
    OBVIOUS
  <2> QED BY <2>1 DEF Follows
<1>3. \A i \in 0..m : G[i] \in Int
  BY <1>1 DEF SumsFollow
<1>4. GoAlike(F, H, 0, n)
  <2>1. F[0] = 0
    BY <1>1 DEF SumsFollow
  <2>2. H[0] = 0
    <3>1. G[1] = G[1 - 1] + (g[1] - (IF 1 > p THEN g[1 - p] ELSE 0)) /\ G[0] = 0
      BY <1>0, <1>1 DEF SumsFollow
    <3>2. G[1] = g[1]
      BY <3>1, <1>0
    <3>3. H[0] = G[0 + 1] - (IF 0 + 1 <= p THEN g[1] ELSE 0)
      OBVIOUS
    <3> QED BY <3>2, <3>3, <1>0
  <2>3. ASSUME NEW i \in 0..n, i # 0, F[i - 1] = H[i - 1] PROVE F[i] = H[i]
    <3>1. i \in 1..n /\ i + 1 \in 1..m /\ i - 1 \in 0..n /\ i \in 0..m /\ i + 1 \in 0..m
      BY <2>3
    <3>2. F[i] = F[i - 1] + (f[i] - (IF i > p THEN f[i - p] ELSE 0))
      BY <1>1, <3>1 DEF SumsFollow
    <3>3. G[i + 1] = G[(i + 1) - 1] + (g[i + 1] - (IF i + 1 > p THEN g[(i + 1) - p] ELSE 0))
      BY <1>1, <3>1 DEF SumsFollow
    <3>4. G[(i + 1) - 1] = G[i] /\ G[(i - 1) + 1] = G[i] /\ G[i] \in Int /\ G[i + 1] \in Int
      <4>1. (i + 1) - 1 = i /\ (i - 1) + 1 = i
        OBVIOUS
      <4> QED BY <4>1, <1>3, <3>1
    <3>5. H[i] = G[i + 1] - (IF i + 1 <= p THEN g[1] ELSE 0)
      OBVIOUS
    <3>6. H[i - 1] = G[i] - (IF i <= p THEN g[1] ELSE 0)
      <4>1. H[i - 1] = G[(i - 1) + 1] - (IF (i - 1) + 1 <= p THEN g[1] ELSE 0)
        BY <3>1
      <4> QED BY <4>1, <3>4
    <3>7. f[i] = g[i + 1] /\ g[i + 1] \in Int
      BY <1>2, <3>1
    <3> HIDE DEF H
    <3>8. CASE i > p
      <4>1. i - p \in 1..n /\ (i - p) + 1 = (i + 1) - p
        BY <3>8
      <4>2. f[i - p] = g[(i + 1) - p] /\ g[(i + 1) - p] \in Int
        BY <4>1, <1>2
      <4>5. H[i - 1] = G[i]
        BY <3>8, <3>4, <3>6, <2>3
      <4>6. F[i] = F[i - 1] + (f[i] - f[i - p])
        BY <3>8, <3>2
      <4>3. F[i] = G[i] + (f[i] - f[i - p])
        BY <2>3, <4>5, <4>6
      <4>4. H[i] = G[i] + (g[i + 1] - g[(i + 1) - p])
        BY <3>8, <3>3, <3>4, <3>5
      <4> QED BY <4>2, <4>3, <4>4, <3>7
    <3>9. CASE i = p
      <4>1. (i + 1) - p = 1
        BY <3>9
      <4> QED BY <3>9, <2>3, <3>2, <3>3, <3>4, <3>5, <3>6, <3>7, <4>1, <1>0
    <3>10. CASE i < p
      BY <3>10, <2>3, <3>2, <3>3, <3>4, <3>5, <3>6, <3>7, <1>0
    <3> QED BY <3>8, <3>9, <3>10
  <2> QED BY <2>1, <2>2, <2>3 DEF GoAlike
<1>5. \A i \in 0..n : F[i] = H[i]
  <2> HIDE DEF H
  <2>1. 0 \in Int /\ n \in Int
    BY <1>0
  <2> QED BY <1>4, <2>1, SameWalk
<1>6. \A i \in p..n : F[i] = G[i + 1]
  <2> TAKE i \in p..n
  <2>1. H[i] = G[i + 1] - (IF i + 1 <= p THEN g[1] ELSE 0)
    OBVIOUS
  <2>2. ~(i + 1 <= p) /\ i + 1 \in 0..m
    OBVIOUS
  <2> HIDE DEF H
  <2> QED BY <1>3, <1>5, <2>1, <2>2
<1>7. \A i \in p..n : Sma(f, p)[i] = F[i] \div p
  BY SmaKnown DEF F
<1>8. \A i \in p..m : Sma(g, p)[i] = G[i] \div p
  BY SmaKnown DEF G
<1>9. \A i \in 1..n : i > p - 1 => i \in p..n /\ i + 1 \in p..m
  OBVIOUS
<1> HIDE DEF H
<1> QED BY <1>6, <1>7, <1>8, <1>9 DEF Follows

\* Where the windowed indicators begin.
WindowWarmUp(k) == IF k = "percentD" THEN (Period - 1) + (SmoothD - 1) ELSE Period - 1

\* A windowed indicator past its warm-up is what it was in the longer window;
\* before, it is undefined.
LEMMA CalculateForgets ==
  ASSUME NEW n \in Nat, NEW m \in Nat, n + 1 <= m,
         NEW b \in [1..n -> Candles], NEW c \in [1..m -> Candles], Follows(b, c, 1, 0, n),
         NEW k \in Windowed
  PROVE  /\ Follows(Calculate(b)[k], Calculate(c)[k], 1, WindowWarmUp(k), n)
         /\ \A i \in 1..n : i <= WindowWarmUp(k) => Calculate(b)[k][i] = Undefined
<1> DEFINE f == Closes(b)
           g == Closes(c)
           kf == PercentK(Scaled(b), Period)
           kg == PercentK(Scaled(c), Period)
           vf == Sma(Volumes(b), Period)
           vg == Sma(Volumes(c), Period)
           w == Period - 1
           u == SmoothD - 1
<1>0. /\ 1 \in Nat /\ Period \in Nat \ {0} /\ SmoothD \in Nat \ {0} /\ w \in Nat /\ u \in Nat
      /\ w + u \in Nat
  BY Periods
<1>1. /\ f \in [1..n -> Int] /\ Volumes(b) \in [1..n -> Int] /\ Scaled(b) \in Bars(n)
      /\ g \in [1..m -> Int] /\ Volumes(c) \in [1..m -> Int] /\ Scaled(c) \in Bars(m)
  BY ScaledBars
<1>2. /\ Follows(f, g, 1, 0, n) /\ Follows(Volumes(b), Volumes(c), 1, 0, n)
      /\ Follows(Scaled(b), Scaled(c), 1, 0, n)
  BY <1>0, ScaledFollow
<1> HIDE DEF f, g
<1>3. Follows(Sma(f, Period), Sma(g, Period), 1, w, n)
  BY <1>0, <1>1, <1>2, SmaForgets
<1>4. Follows(vf, vg, 1, w, n)
  BY <1>0, <1>1, <1>2, SmaForgets
<1>5. Follows(kf, kg, 1, w, n)
  BY <1>0, <1>1, <1>2, PercentKFollows
<1>6. kf \in Known(n, w, Int) /\ kg \in Known(m, w, Int)
  BY <1>0, <1>1, PercentKKnown
<1>7. Follows(Variance(f, Period), Variance(g, Period), 1, w, n)
  BY <1>0, <1>1, <1>2, <1>3, VarianceFollows
<1>8. Follows(RelativeVolume(Volumes(b), vf), RelativeVolume(Volumes(c), vg), 1, w, n)
  BY <1>0, <1>1, <1>2, <1>4, RelativeVolumeFollows
<1>9. /\ Sma(f, Period) \in Known(n, w, Int) /\ vf \in Known(n, w, Int)
      /\ Variance(f, Period) \in Known(n, w, Int)
  BY <1>0, <1>1, SmaKnown, VarianceKnown
<1> HIDE DEF kf, kg
<1>10. Follows(PercentD(kf), PercentD(kg), 1, w + u, n)
  <2> DEFINE r == Rest(n, w)
             s == Rest(m, w)
             t == DefinedTail(kf)
             v == DefinedTail(kg)
  <2>1. /\ r \in Nat /\ s \in Nat /\ (r > 0 => r + 1 <= s)
        /\ t \in [1..r -> Int] /\ v \in [1..s -> Int] /\ Follows(t, v, 1, 0, r)
    BY <1>0, <1>5, <1>6, TailFollows
  <2> HIDE DEF r, s, t, v
  <2>2. Follows(Sma(t, SmoothD), Sma(v, SmoothD), 1, u, r)
    <3>1. CASE r > 0
      BY <3>1, <1>0, <2>1, SmaForgets
    <3>2. CASE r = 0
      BY <3>2 DEF Follows
    <3> QED BY <2>1, <3>1, <3>2
  <2> QED BY <1>0, <1>6, <2>2, SmaOfTailFollows DEF r, s, t, v
<1>11. PercentD(kf) \in Known(n, w + u, Int)
  BY <1>0, <1>6, PercentDKnown
<1>12. /\ Calculate(b).sma = Sma(f, Period) /\ Calculate(b).percentK = kf
       /\ Calculate(b).percentD = PercentD(kf)
       /\ Calculate(b).variance = Variance(f, Period) /\ Calculate(b).volumeSma = vf
       /\ Calculate(b).relativeVolume = RelativeVolume(Volumes(b), vf)
  BY CalculateIs DEF f, kf
<1>13. /\ Calculate(c).sma = Sma(g, Period) /\ Calculate(c).percentK = kg
       /\ Calculate(c).percentD = PercentD(kg)
       /\ Calculate(c).variance = Variance(g, Period) /\ Calculate(c).volumeSma = vg
       /\ Calculate(c).relativeVolume = RelativeVolume(Volumes(c), vg)
  BY CalculateIs DEF g, kg
<1>14. \A i \in 1..n : i <= w => RelativeVolume(Volumes(b), vf)[i] = Undefined
  <2>1. \A i \in 1..n : i <= w => vf[i] = Undefined
    BY <1>9 DEF Known
  <2> HIDE DEF vf
  <2> QED BY <1>1, <2>1 DEF RelativeVolume
<1>15. WindowWarmUp("percentD") = w + u /\ (k # "percentD" => WindowWarmUp(k) = w)
  BY DEF WindowWarmUp
<1> HIDE DEF vf, vg, w, u
<1>16. CASE k = "percentD"
  BY <1>16, <1>10, <1>11, <1>12, <1>13, <1>15 DEF Known
<1>17. CASE k \in {"sma", "percentK", "variance", "volumeSma"}
  <2>1. Calculate(b)[k] \in Known(n, w, Int) /\ WindowWarmUp(k) = w
    BY <1>17, <1>6, <1>9, <1>12, <1>15
  <2>2. Follows(Calculate(b)[k], Calculate(c)[k], 1, w, n)
    BY <1>17, <1>3, <1>4, <1>5, <1>7, <1>12, <1>13
  <2> QED BY <2>1, <2>2 DEF Known
<1>18. CASE k = "relativeVolume"
  BY <1>18, <1>8, <1>12, <1>13, <1>14, <1>15
<1> QED BY <1>16, <1>17, <1>18 DEF Windowed

\* For any bars and any periods, moving the start of the window changes no
\* windowed value that is still defined.
THEOREM ForgetsTheWindow == AnalysisSpec => WindowedForgets
<1>1. ASSUME AnalysisInv, [AnalysisNext]_analysisVars, history' = history,
             NEW k \in Windowed, NEW t \in start'..Len(history), Shown(k, t)' # Undefined
      PROVE  Shown(k, t)' = Shown(k, t)
  <2> DEFINE n == Len(history) - start' + 1
             m == Len(history) - start + 1
  <2>1. AnalysisInv'
    BY <1>1, AnalysisInvInductive
  <2>0. /\ history \in Seq(Candles) /\ Len(history) \in Nat
        /\ start \in 1..Len(history) /\ start' \in 1..Len(history)
    BY <1>1, <2>1, LenProperties DEF AnalysisInv
  <2>2. /\ m \in Nat /\ Asked \in [1..m -> Candles] /\ series = Calculate(Asked)
        /\ \A j \in 1..m : Asked[j] = history[start + j - 1]
    BY <1>1, <2>0, WindowIs DEF AnalysisInv, Asked
  <2>3. /\ n \in Nat /\ Asked' \in [1..n -> Candles] /\ series' = Calculate(Asked')
        /\ \A j \in 1..n : Asked'[j] = history[start' + j - 1]
    BY <1>1, <2>0, <2>1, WindowIs DEF AnalysisInv, Asked
  <2>4. CASE MoveWindow
    <3>1. start' = start + 1
      BY <2>4 DEF MoveWindow
    <3>2. n + 1 <= m /\ \A j \in 1..n : j + 1 \in 1..m /\ start' + j - 1 = start + (j + 1) - 1
      BY <2>0, <3>1
    <3>3. Follows(Asked', Asked, 1, 0, n)
      BY <2>2, <2>3, <3>2 DEF Follows
    <3> DEFINE i == t - start' + 1
    <3>4. i \in 1..n /\ t - start + 1 = i + 1
      BY <1>1, <2>0, <3>1
    <3>5. Shown(k, t)' = series'[k][i] /\ Shown(k, t) = series[k][i + 1]
      BY <3>4 DEF Shown
    <3> HIDE DEF n, m, i
    <3>6. /\ Follows(Calculate(Asked')[k], Calculate(Asked)[k], 1, WindowWarmUp(k), n)
          /\ \A j \in 1..n : j <= WindowWarmUp(k) => Calculate(Asked')[k][j] = Undefined
      BY <1>1, <2>2, <2>3, <3>2, <3>3, CalculateForgets
    <3>7. WindowWarmUp(k) \in Int
      BY Periods DEF WindowWarmUp
    <3>8. i > WindowWarmUp(k)
      BY <1>1, <2>3, <3>4, <3>5, <3>6, <3>7
    <3> QED BY <2>2, <2>3, <3>4, <3>5, <3>6, <3>8 DEF Follows
  <2>5. CASE NewBar
    <3>1. PICK c \in Candles : history' = Append(history, c)
      BY <2>5 DEF NewBar
    <3>2. Len(history') = Len(history) + 1
      BY <2>0, <3>1, AppendProperties
    <3> QED BY <1>1, <2>0, <3>2
  <2>6. CASE UNCHANGED analysisVars
    BY <2>6 DEF analysisVars, Shown
  <2> QED BY <1>1, <2>4, <2>5, <2>6 DEF AnalysisNext
<1>2. AnalysisInv /\ [AnalysisNext]_analysisVars =>
        [history' = history =>
           \A k \in Windowed : \A t \in start'..Len(history) :
             Shown(k, t)' # Undefined => Shown(k, t)' = Shown(k, t)]_analysisVars
  BY <1>1
<1> QED BY <1>2, AnalysisInvHolds, PTL DEF AnalysisSpec, WindowedForgets

=============================================================================
