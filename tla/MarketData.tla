----------------------------- MODULE MarketData -----------------------------
(***************************************************************************)
(* MarketDataService: quotes and histories of one asset at the "1m"        *)
(* interval, ingested on demand and then read back from market_data.       *)
(*                                                                         *)
(* A bar is known by its index.  Time is finer: a moment is half a bar,    *)
(* and the clock and a client's start and end may lie inside a bar.  The   *)
(* last moment is the timestamp of the last bar.                           *)
(* Prices come from the provider in halves of the last decimal place that  *)
(* is stored, so that normalisation rounds.                                *)
(* The INSERT of a batch takes its rows one after the other and holds each *)
(* until the transaction ends: another batch waits for it.                 *)
(***************************************************************************)
EXTENDS Integers, FiniteSets, FiniteSetsExt

CONSTANTS
  Requests,  \* HTTP requests served at once
  Horizon,   \* the last bar to begin
  QuoteLookback, \* in bars
  MaxHistoryBars,
  Offers,    \* bars a provider may return
  None

ASSUME MarketDataAssumption ==
  Horizon \in Nat /\ QuoteLookback \in Nat /\ MaxHistoryBars \in Nat

VARIABLES
  now,       \* a moment
  bars,      \* committed rows: bar index -> stored bar or None
  requests

vars == <<now, bars, requests>>

Times == 0..Horizon
Moments == 0..2*Horizon

-----------------------------------------------------------------------------
(* validator.py, normalizer.py and the CHECK constraints of market_data *)

Prices(bar) == {bar.open, bar.high, bar.low, bar.close}

\* The order of a bar's prices, checked by the validator and by the database.
Ordered(bar) == \A price \in Prices(bar) : bar.low <= price /\ price <= bar.high

Valid(bar) == bar.aware /\ (\A price \in Prices(bar) : price > 0) /\ Ordered(bar)

\* Decimal.quantize rounds half to even.
Quantize(halves) ==
  IF halves % 2 = 0 THEN halves \div 2
  ELSE IF halves % 4 = 1 THEN halves \div 2 ELSE halves \div 2 + 1

NormalizeBar(bar) ==
  [open |-> Quantize(bar.open), high |-> Quantize(bar.high),
   low |-> Quantize(bar.low), close |-> Quantize(bar.close)]

\* Mutant: the database does not ask for a positive price.
OrderedOnly(bar) == Ordered(bar)

Storable(bar) == (\A price \in Prices(bar) : price > 0) /\ Ordered(bar)

-----------------------------------------------------------------------------
Kinds == {"quote", "history"}

\* asked: the bars whose timestamps lie between the request's start and end.
Idle == [pc |-> "idle", kind |-> "quote", asked |-> {}, batch |-> <<>>,
         todo |-> {}, mine |-> {}, answer |-> <<>>]

\* Functions from some bar indexes to what is known of them; <<>> is empty.
Batches(S) == UNION {[D -> S] : D \in SUBSET Times}

StoredBars == {NormalizeBar(offer) : offer \in Offers}

ASSUME NullAssumption == None \notin StoredBars

TypeOK ==
  /\ now \in Moments
  /\ bars \in [Times -> StoredBars \cup {None}]
  /\ \A t \in Times : bars[t] # None => bars[t].low > 0
  /\ \A r \in Requests :
       LET q == requests[r] IN
       /\ q.pc \in {"idle", "insert", "read", "answered", "notFound", "refused", "failed"}
       /\ q.kind \in Kinds /\ q.asked \subseteq Times
       /\ q.batch \in Batches(StoredBars)
       /\ q.todo \subseteq DOMAIN q.batch
       /\ q.mine \subseteq DOMAIN q.batch \ q.todo

Init ==
  /\ now = 0
  /\ bars = [t \in Times |-> None]
  /\ requests = [r \in Requests |-> Idle]

\* Later requests see a later clock.
Tick == now + 1 \in Moments /\ now' = now + 1 /\ UNCHANGED <<bars, requests>>

-----------------------------------------------------------------------------
(* get_quote and get_history up to what the provider has for the range,    *)
(* without the bars that fail validation.                                  *)

\* The timestamp of a bar is its first moment.
Timestamp(index) == 2 * index

BarIndex(moment) == moment \div 2

\* A bar for each index from that of start to that of end: the bar that start
\* falls into is one of them.
ProviderHistory(start, end) == [BarIndex(start)..BarIndex(end) -> Offers]

\* The SELECT compares timestamps with start itself: it leaves that bar out.
InRange(start, end) == {t \in Times : start <= Timestamp(t) /\ Timestamp(t) <= end}

Accepted(offered) ==
  LET good == {t \in DOMAIN offered : Valid(offered[t])}
  IN [t \in good |-> NormalizeBar(offered[t])]

\* A request that ends without an answer, or that the client has done with.
End(r, pc) ==
  /\ requests' = [requests EXCEPT ![r] = [Idle EXCEPT !.pc = pc]]
  /\ UNCHANGED <<now, bars>>

BarCount(start, end) == BarIndex(end) - BarIndex(start) + 1

\* With nothing accepted there is no INSERT.
Ingest(r, kind, start, end) ==
  /\ requests[r].pc = "idle"
  /\ start <= end /\ BarCount(start, end) <= MaxHistoryBars
  /\ \E offered \in ProviderHistory(start, end) :
       LET batch == Accepted(offered)
       IN requests' = [requests EXCEPT ![r] =
            [Idle EXCEPT !.pc = IF DOMAIN batch = {} THEN "read" ELSE "insert",
                         !.kind = kind, !.asked = InRange(start, end),
                         !.batch = batch, !.todo = DOMAIN batch]]
  /\ UNCHANGED <<now, bars>>

\* A range that is empty or has too many bars; a provider that fails or does
\* not know the symbol.
RefuseIngest(r, start, end) ==
  /\ requests[r].pc = "idle"
  /\ \/ (start > end \/ BarCount(start, end) > MaxHistoryBars) /\ End(r, "refused")
     \/ start <= end /\ End(r, "failed")

GetQuote(r) ==
  LET lookback == Timestamp(QuoteLookback)
      start == IF now > lookback THEN now - lookback ELSE 0
  IN Ingest(r, "quote", start, now) \/ RefuseIngest(r, start, now)

\* Any range the client asks for, or one that ends at the clock.
GetHistory(r) ==
  \E start, end \in Moments : Ingest(r, "history", start, end) \/ RefuseIngest(r, start, end)

-----------------------------------------------------------------------------
(* _persist *)

\* Mutant: the quote's rows go in newest first.
NewestFirstForQuotes(r) ==
  IF requests[r].kind = "quote" THEN Max(requests[r].todo) ELSE Min(requests[r].todo)

\* Rows go in as the provider lists them, oldest first.
NextRow(r) == Min(requests[r].todo)

RowHeld(r, t) == \E s \in Requests \ {r} : t \in requests[s].mine

\* The CHECK constraints come before ON CONFLICT.
InsertRow(r) ==
  LET q == requests[r]
      t == NextRow(r)
  IN /\ q.pc = "insert" /\ q.todo # {}
     /\ Storable(q.batch[t])
     /\ ~RowHeld(r, t)
     /\ requests' = [requests EXCEPT
          ![r].todo = @ \ {t},
          ![r].mine = IF bars[t] = None THEN @ \cup {t} ELSE @]
     /\ UNCHANGED <<now, bars>>

ViolateCheck(r) ==
  /\ requests[r].pc = "insert" /\ requests[r].todo # {}
  /\ ~Storable(requests[r].batch[NextRow(r)])
  /\ End(r, "failed")

\* Mutant: ON CONFLICT DO UPDATE.
CommittedOver(r, t) ==
  IF t \in DOMAIN requests[r].batch THEN requests[r].batch[t] ELSE bars[t]

\* Mutant: only what is newer than every stored row is kept.
CommittedIfNewest(r, t) ==
  IF t \in requests[r].mine /\ \A u \in Times : u > t => bars[u] = None
  THEN requests[r].batch[t] ELSE bars[t]

\* ON CONFLICT DO NOTHING.
Committed(r, t) == IF t \in requests[r].mine THEN requests[r].batch[t] ELSE bars[t]

Commit(r) ==
  /\ requests[r].pc = "insert" /\ requests[r].todo = {}
  /\ bars' = [t \in Times |-> Committed(r, t)]
  /\ requests' = [requests EXCEPT ![r].pc = "read", ![r].mine = {}]
  /\ UNCHANGED now

-----------------------------------------------------------------------------
(* The answer, read from the table in a statement of its own *)

Stored == {t \in Times : bars[t] # None}

\* Mutant: the quote is looked for in the request's own range only.
RowsOfOwnRange(q) ==
  LET rows == Stored \cap q.asked
  IN IF q.kind = "history" \/ rows = {} THEN rows ELSE {Max(rows)}

\* ORDER BY timestamp DESC LIMIT 1, or the rows of the range.
Rows(q) ==
  IF q.kind = "history" THEN Stored \cap q.asked
  ELSE IF Stored = {} THEN {} ELSE {Max(Stored)}

Answer(r) ==
  LET q == requests[r]
      rows == Rows(q)
  IN /\ q.pc = "read"
     /\ requests' = [requests EXCEPT
          ![r].pc = IF q.kind = "quote" /\ rows = {} THEN "notFound" ELSE "answered",
          ![r].answer = [t \in rows |-> bars[t]]]
     /\ UNCHANGED <<now, bars>>

\* A lost connection rolls the batch back.
Fail(r) ==
  /\ requests[r].pc \in {"insert", "read"}
  /\ End(r, "failed")

\* The client has its response; the next request may come.
Finish(r) ==
  /\ requests[r].pc \in {"answered", "notFound", "refused", "failed"}
  /\ End(r, "idle")

Persist(r) == InsertRow(r) \/ ViolateCheck(r) \/ Commit(r)

Next ==
  \/ Tick
  \/ \E r \in Requests :
       \/ GetQuote(r) \/ GetHistory(r)
       \/ InsertRow(r) \/ ViolateCheck(r) \/ Commit(r)
       \/ Answer(r) \/ Fail(r) \/ Finish(r)

Spec == Init /\ [][Next]_vars

\* A statement that waits for another's row goes on once that transaction has
\* ended: the database wakes it.  Whether clients ask is up to them.
FairSpec == Spec /\ \A r \in Requests : SF_vars(Persist(r)) /\ WF_vars(Answer(r))

-----------------------------------------------------------------------------
(* Properties *)

Answered(kind) == {r \in Requests : requests[r].pc = "answered" /\ requests[r].kind = kind}

\* Two answers that contain the same minute agree on it, however the requests
\* behind them overlapped and whatever the provider told each.
AnswersAgree ==
  \A r, s \in Answered("quote") \cup Answered("history") :
    \A t \in DOMAIN requests[r].answer \cap DOMAIN requests[s].answer :
      requests[r].answer[t] = requests[s].answer[t]

\* What the provider gave and the validator accepted is in the answer, if its
\* timestamp is in the range that was asked for: nothing is lost to a concurrent
\* batch.  A quote is at least as new as its own batch.
AnswerHasItsBatch ==
  /\ \A r \in Answered("history") :
       DOMAIN requests[r].batch \cap requests[r].asked \subseteq DOMAIN requests[r].answer
  /\ \A r \in Answered("quote") :
       \A t \in DOMAIN requests[r].batch : t <= Max(DOMAIN requests[r].answer)

\* A stored bar is final: no step removes it or puts another in its place.
StoredBarsAreFinal == [][\A t \in Stored : bars'[t] = bars[t]]_vars

\* A quote is never older than one already on a client's screen.
QuoteNeverGoesBack ==
  [][\A r \in Answered("quote")' : \A s \in Answered("quote") :
       r \notin Answered("quote") =>
         Max(DOMAIN requests'[r].answer) >= Max(DOMAIN requests[s].answer)]_vars

\* Overlapping batches never wait for each other in a circle: each ends, even
\* if the database did not look for deadlocks.
EveryBatchEnds ==
  \A r \in Requests : requests[r].pc = "insert" ~> requests[r].pc # "insert"

\* docs/market-data.md: a quote is "the latest 1m bar as of now".
QuoteIsNotFromTheFuture ==
  \A r \in Answered("quote") : Timestamp(Max(DOMAIN requests[r].answer)) <= now

\* docs/market-data.md: the needed range is persisted, then read back.  Not so
\* for the bar that an unaligned start falls into: it is stored and not shown.
AnswerHasItsWholeBatch ==
  \A r \in Answered("history") : DOMAIN requests[r].batch \subseteq DOMAIN requests[r].answer

\* docs/market-data.md: "invalid rows are rejected before an insert is even
\* attempted", so no batch meets a CHECK constraint.
InsertsMeetTheChecks ==
  \A r \in Requests : requests[r].pc = "insert" =>
    \A t \in DOMAIN requests[r].batch : Storable(requests[r].batch[t])

=============================================================================
