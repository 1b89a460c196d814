--------------------------- MODULE CommandCenter ---------------------------
(***************************************************************************)
(* GET /command-center: one request, one session, and a dozen reads of     *)
(* several services that end up side by side in one answer.  The portfolio *)
(* is computed twice, once for the risk section and once for its own;      *)
(* trades, bars and midnights come in between (PortfolioState).            *)
(*                                                                         *)
(* Modelled are the sections that show the account: risk, portfolio, the   *)
(* position cards and the activity feed.  The market snapshot, the         *)
(* watchlist and the lists of signals and analyses are reads of tables     *)
(* that nothing here writes; they take part as moments at which time goes  *)
(* by and at which the request can fail.                                   *)
(***************************************************************************)
EXTENDS PortfolioState

CONSTANT ActivityLimit   \* the query parameter activity_limit

ASSUME CommandCenterAssumption == ActivityLimit \in Nat \ {0}

VARIABLES
  decided,  \* risk_evaluations by evaluated_at: how many fills each came after
  page,     \* how far each request is
  answer    \* the sections it has put together

pageVars == <<page, answer>>
allVars == <<vars, decided, page, answer>>

Sections == {"risk", "portfolio", "cards", "decisions", "feed"}

Blank == [section \in Sections |-> None]

CommandCenterInit ==
  /\ PortfolioInit
  /\ decided = <<>>
  /\ page = [r \in Readers |-> "closed"]
  /\ answer = [r \in Readers |-> Blank]

Put(r, section, content, next) ==
  /\ answer' = [answer EXCEPT ![r][section] = content]
  /\ page' = [page EXCEPT ![r] = next]

-----------------------------------------------------------------------------
(* The activity feed.  Event n of a source: a fill, or an evaluation.      *)

\* Timestamps: fill n comes after the evaluations that found n - 1 fills.
FillEvents(n) == {[source |-> "fill", n |-> i, at |-> 2 * i] : i \in 1..n}

DecisionEvents(n) ==
  {[source |-> "decision", n |-> i, at |-> 2 * decided[i] + 1] : i \in 1..n}

After(x, y) == x.at > y.at \/ (x.at = y.at /\ x.n > y.n)

\* Mutant: the oldest of them.
OldestOf(events, n) ==
  {x \in events : Cardinality({y \in events : After(x, y)}) < n}

\* ORDER BY ... DESC LIMIT n, and the sort and slice of the merged list.
NewestOf(events, n) ==
  {x \in events : Cardinality({y \in events : After(y, x)}) < n}

\* _ACTIVITY_PULL_MULTIPLIER
PullLimit == 3 * ActivityLimit

\* Mutant: the feed is made of the fills the portfolio has counted.
FillsCounted(r) == answer[r].portfolio.from

FillsNow(r) == Len(fills)

Feed(r) ==
  NewestOf(NewestOf(DecisionEvents(answer[r].decisions), PullLimit)
             \cup NewestOf(FillEvents(FillsNow(r)), PullLimit), ActivityLimit)

-----------------------------------------------------------------------------
(* The request *)

\* The interval is one of the supported ones, and the snapshot of the symbol
\* asked for succeeds; else the answer is 422, 404 or an error, and nothing
\* else happens.  Then the watchlist, whose failing symbols are skipped, the
\* newest signals and analyses and the active policy.
Open(r) ==
  /\ page[r] \in {"closed", "answered"}
  /\ page' = [page EXCEPT ![r] = "risk"]
  /\ answer' = [answer EXCEPT ![r] = Blank]
  /\ UNCHANGED <<vars, decided>>

\* Of a section: the positions it holds on to and the fills it counted.
Shown(p) == [positions |-> p.positions, from |-> p.from, to |-> p.to]

\* One of the two computations of the portfolio, for one of the sections.
Compute(r, section, next) ==
  /\ page[r] = section
  /\ ComputeStep(r)
  /\ IF report'[r] # None
     THEN Put(r, section, Shown(report'[r]), next)
     ELSE UNCHANGED pageVars
  /\ UNCHANGED decided

\* list_positions filters on the status as it is now, but a row that the
\* portfolio section still holds is the same Python object, and a query does
\* not overwrite a loaded object: such a card has the values of then.
Card(r, a) ==
  LET held == answer[r].portfolio.positions[a]
  IN IF OpenRow(a).qty > 0 /\ held.qty > 0 /\ held.row = OpenRow(a).row
     THEN held ELSE OpenRow(a)

ListPositions(r) ==
  /\ page[r] = "positions"
  /\ Put(r, "cards", [a \in Assets |-> Card(r, a)], "decisions")
  /\ report' = [report EXCEPT ![r] = None]
  /\ UNCHANGED <<marketVars, peak, session, decided>>

\* After the ten newest fills, a quote for every card and the health checks:
\* list_evaluations.
ListEvaluations(r) ==
  /\ page[r] = "decisions"
  /\ Put(r, "decisions", Len(decided), "feed")
  /\ UNCHANGED <<vars, decided>>

\* list_fills, and with the lists of signals and analyses the feed: the answer.
ListFills(r) ==
  /\ page[r] = "feed"
  /\ Put(r, "feed", Feed(r), "answered")
  /\ UNCHANGED <<vars, decided>>

\* A section that fails fails the whole request.  So does the statement after
\* a watchlist symbol that failed inside the database: the exception was
\* swallowed, the transaction is aborted all the same.
GiveUp(r) ==
  /\ page[r] \in {"risk", "portfolio", "positions", "decisions", "feed"}
  /\ page' = [page EXCEPT ![r] = "closed"]
  /\ answer' = [answer EXCEPT ![r] = Blank]
  /\ session' = [session EXCEPT ![r] = NewSession]
  /\ report' = [report EXCEPT ![r] = None]
  /\ UNCHANGED <<marketVars, peak, decided>>

\* RiskService approves a signal, or whatever else PortfolioState has around.
Meanwhile ==
  /\ Surroundings
  /\ decided' = IF approval' # approval THEN Append(decided, Len(fills)) ELSE decided
  /\ UNCHANGED pageVars

CommandCenterNext ==
  \/ \E r \in Readers :
       \/ Open(r)
       \/ Compute(r, "risk", "portfolio") \/ Compute(r, "portfolio", "positions")
       \/ ListPositions(r) \/ ListEvaluations(r) \/ ListFills(r)
       \/ GiveUp(r)
  \/ Meanwhile

CommandCenterSpec == CommandCenterInit /\ [][CommandCenterNext]_allVars

-----------------------------------------------------------------------------
(* Properties *)

Answered == {r \in Readers : page[r] = "answered"}

\* Fill n is in the feed, or has been pushed out by newer events.
Explained(r, n) ==
  LET feed == answer[r].feed
  IN \/ \E x \in feed : x.source = "fill" /\ x.n = n
     \/ /\ Cardinality(feed) = ActivityLimit
        /\ \A x \in feed : x.at > 2 * n

\* No section knows of a trade that the feed beside it leaves out: every sale
\* in the realized P/L, the last loss, and the BUYs in the cash of either
\* computation are in the feed unless newer events fill it.
FeedExplainsTheMoney ==
  \A r \in Answered : \A section \in {"risk", "portfolio"} :
    \A n \in 1..answer[r][section].to : Explained(r, n)

\* Where the cards and the portfolio section disagree about a position, one
\* of the trades in between is in the feed, or newer events fill it.
FeedExplainsTheCards ==
  \A r \in Answered : \A a \in Assets :
    answer[r].cards[a] # answer[r].portfolio.positions[a] =>
      \E n \in DOMAIN fills :
        /\ n > answer[r].portfolio.from
        /\ fills[n].asset = a
        /\ Explained(r, n)

=============================================================================
