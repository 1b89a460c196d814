------------------------------ MODULE AIAnalyst ------------------------------
(***************************************************************************)
(* AIAnalystService.analyze_signal: one provider call per signal and       *)
(* cooldown, its validation, and the row it stores.                        *)
(*                                                                         *)
(* created_at is the database's now(): the start of the transaction that   *)
(* inserts, which is open since before the provider was called.  A session *)
(* holds one of the pool's connections from its first statement to the end *)
(* of the transaction, the provider's answer included.                     *)
(***************************************************************************)
EXTENDS Integers, Sequences, FiniteSets

CONSTANTS
  Requests,   \* analyze requests served at once
  Signals,
  Replies,    \* tool calls the provider may answer with
  Banned,     \* phrases that match a banned pattern
  PoolSize,   \* connections
  Cooldown,   \* AI_ANALYST_COOLDOWN_MINUTES, in ticks
  Patience,   \* ticks one request may last: far below the cooldown
  Horizon,    \* the last tick
  None

ASSUME AIAnalystAssumption ==
  /\ PoolSize \in Nat \ {0} /\ Cooldown \in Nat /\ Horizon \in Nat
  /\ Patience \in Nat /\ Patience <= Cooldown
  /\ None \notin Signals

VARIABLES
  now,
  configured,  \* an API key is set
  risk,        \* the RiskEvaluation of each signal, or None
  rows,        \* ai_analyses, in the order of their commits
  requests,
  held         \* requests with a connection

vars == <<now, configured, risk, rows, requests, held>>

-----------------------------------------------------------------------------
(* parser.py.  A free-text field, or a list of them, is its set of phrases. *)

TextFields == {"market_summary", "thesis", "action_rationale", "supporting_evidence",
               "contradicting_evidence", "risks", "invalidating_conditions"}

SuggestedActions == {"BUY", "SELL", "HOLD", "NO_ACTION"}
UncertaintyLevels == {"LOW", "MEDIUM", "HIGH"}

\* extra="forbid": no field missing, none added.
SchemaValid(reply) ==
  /\ DOMAIN reply = TextFields \cup {"suggested_action", "uncertainty"}
  /\ reply.suggested_action \in SuggestedActions
  /\ reply.uncertainty \in UncertaintyLevels

\* Mutant: the lists are not scanned.
ScansPlainTexts(reply) ==
  \A f \in {"market_summary", "thesis", "action_rationale"} : reply[f] \cap Banned = {}

ContentSafe(reply) == \A f \in TextFields : reply[f] \cap Banned = {}

Validated(reply) == SchemaValid(reply) /\ ContentSafe(reply)

-----------------------------------------------------------------------------
Decisions == {"APPROVED", "REJECTED"}

Working == {"snapshot", "candles", "context", "calling", "store", "refresh"}
Ended == {"answered", "notFound", "unavailable", "invalid", "failed"}

\* seen, here and in a row: how many rows there were when the request looked.
Idle == [pc |-> "idle", signal |-> None, begun |-> 0, opened |-> 0, seen |-> 0,
         risk |-> None, reply |-> None, row |-> 0]

TypeOK ==
  /\ now \in 0..Horizon /\ configured \in BOOLEAN
  /\ risk \in [Signals -> Decisions \cup {None}]
  /\ held \subseteq {r \in Requests : requests[r].pc \in Working}
  /\ Cardinality(held) <= PoolSize
  /\ \A i \in DOMAIN rows :
       /\ rows[i].signal \in Signals
       /\ rows[i].created \in 0..now
       /\ rows[i].risk \in {None, risk[rows[i].signal]}
  /\ \A r \in Requests :
       LET q == requests[r] IN
       /\ q.pc \in Working \cup Ended \cup {"idle"}
       /\ q.pc \in Working => /\ q.signal \in Signals
                              /\ q.begun <= q.opened /\ q.opened <= now
       /\ q.pc \in {"snapshot", "context", "calling", "store"} => r \in held

Init ==
  /\ now = 0 /\ configured \in BOOLEAN
  /\ risk = [s \in Signals |-> None]
  /\ rows = <<>>
  /\ requests = [r \in Requests |-> Idle]
  /\ held = {}

-----------------------------------------------------------------------------
\* The connection pool: a request keeps its own or takes a free one.
PoolFull == Cardinality(held) >= PoolSize

HasConnection(r) == r \in held \/ ~PoolFull

\* The response is on its way and the session closed.
End(r, outcome) ==
  /\ requests' = [requests EXCEPT ![r] = [Idle EXCEPT !.pc = outcome]]
  /\ held' = held \ {r}
  /\ UNCHANGED <<now, configured, risk, rows>>

Advance(r, update) ==
  /\ requests' = [requests EXCEPT ![r] = update]
  /\ UNCHANGED <<now, configured, risk, rows>>

-----------------------------------------------------------------------------
(* Up to the cooldown check *)

Analyses(s) == {i \in DOMAIN rows : rows[i].signal = s}

\* ORDER BY created_at DESC LIMIT 1: any of them when two are equally new.
Newest(s) == {i \in Analyses(s) : \A j \in Analyses(s) : rows[j].created <= rows[i].created}

\* Mutant: half of the cooldown.
FreshForHalf(i) == 2 * (now - rows[i].created) < Cooldown

Fresh(i) == now - rows[i].created < Cooldown

ReturnExisting(r, s) ==
  \E i \in Newest(s) :
    /\ Fresh(i)
    /\ Advance(r, [Idle EXCEPT !.pc = "answered", !.signal = s, !.begun = now, !.row = i])
    /\ UNCHANGED held

\* The newest is not fresh, so none is.
Proceed(r, s) ==
  /\ \A i \in Analyses(s) : ~Fresh(i)
  /\ Advance(r, [Idle EXCEPT !.pc = "snapshot", !.signal = s, !.begun = now,
                             !.opened = now, !.seen = Len(rows)])
  /\ held' = held \cup {r}

Ask(r, s) ==
  /\ requests[r].pc = "idle" /\ HasConnection(r)
  /\ \/ s \notin Signals /\ End(r, "notFound")
     \/ s \in Signals /\ ~configured /\ End(r, "unavailable")
     \/ s \in Signals /\ configured /\ (ReturnExisting(r, s) \/ Proceed(r, s))

-----------------------------------------------------------------------------
(* _build_context *)

\* The ingestion behind the snapshot commits if it has bars to store, which
\* gives the connection back; it can fail, and there may be no candles.
GetSnapshot(r) ==
  /\ requests[r].pc = "snapshot"
  /\ \/ Advance(r, [requests[r] EXCEPT !.pc = "candles"]) /\ held' = held \ {r}
     \/ Advance(r, [requests[r] EXCEPT !.pc = "context"]) /\ UNCHANGED held
     \/ End(r, "unavailable") \/ End(r, "invalid")

ReadCandles(r) ==
  /\ requests[r].pc = "candles" /\ HasConnection(r)
  /\ Advance(r, [requests[r] EXCEPT !.pc = "context", !.opened = now])
  /\ held' = held \cup {r}

\* The risk evaluation is read and the prompt sent; the transaction stays open.
CallProvider(r) ==
  /\ requests[r].pc = "context"
  /\ Advance(r, [requests[r] EXCEPT !.pc = "calling", !.risk = risk[requests[r].signal]])
  /\ UNCHANGED held

-----------------------------------------------------------------------------
(* The provider's answer *)

\* Mutant: a failed call is made again.
CallsAgain(r) ==
  /\ requests[r].pc = "calling"
  /\ Advance(r, [requests[r] EXCEPT !.pc = "context"]) /\ UNCHANGED held

\* Timeout, refusal, an error status or no tool call.
ProviderFails(r) == requests[r].pc = "calling" /\ End(r, "unavailable")

ProviderReplies(r) ==
  /\ requests[r].pc = "calling"
  /\ \E reply \in Replies :
       \/ /\ Validated(reply)
          /\ Advance(r, [requests[r] EXCEPT !.pc = "store", !.reply = reply])
          /\ UNCHANGED held
       \/ ~Validated(reply) /\ End(r, "invalid")

Store(r) ==
  LET q == requests[r]
  IN /\ q.pc = "store"
     /\ rows' = Append(rows, [signal |-> q.signal, created |-> q.opened, risk |-> q.risk,
                              reply |-> q.reply, seen |-> q.seen])
     /\ requests' = [requests EXCEPT ![r] =
          [q EXCEPT !.pc = "refresh", !.row = Len(rows) + 1]]
     /\ held' = held \ {r}
     /\ UNCHANGED <<now, configured, risk>>

\* The row is read back with a connection of its own.
Refresh(r) ==
  /\ requests[r].pc = "refresh" /\ HasConnection(r)
  /\ Advance(r, [requests[r] EXCEPT !.pc = "answered", !.reply = None])
  /\ UNCHANGED held

-----------------------------------------------------------------------------
\* QueuePool gives up after its timeout: an error, even if the row is stored.
NoConnection(r) ==
  /\ requests[r].pc \in {"idle", "candles", "refresh"} /\ PoolFull
  /\ End(r, "failed")

\* The database fails or the client goes away: the transaction is rolled back.
Fail(r) == requests[r].pc \in Working /\ End(r, "failed")

Finish(r) ==
  /\ requests[r].pc \in Ended
  /\ Advance(r, Idle) /\ UNCHANGED held

\* RiskService commits a signal's one evaluation, unless it gets no connection:
\* a waiting provider call keeps its own.
EvaluateRisk(s) ==
  /\ risk[s] = None /\ ~PoolFull
  /\ \E decision \in Decisions : risk' = [risk EXCEPT ![s] = decision]
  /\ UNCHANGED <<now, configured, rows, requests, held>>

\* What was in memory is gone; the API key may have been set or removed.
Restart ==
  /\ configured' \in BOOLEAN
  /\ requests' = [r \in Requests |-> Idle]
  /\ held' = {}
  /\ UNCHANGED <<now, risk, rows>>

Tick ==
  /\ now < Horizon
  /\ \A r \in Requests : requests[r].pc \in Working => now - requests[r].begun < Patience
  /\ now' = now + 1
  /\ UNCHANGED <<configured, risk, rows, requests, held>>

Next ==
  \/ Tick \/ Restart
  \/ \E s \in Signals : EvaluateRisk(s)
  \/ \E r \in Requests :
       \/ \E s \in Signals \cup {None} : Ask(r, s)
       \/ GetSnapshot(r) \/ ReadCandles(r) \/ CallProvider(r)
       \/ ProviderFails(r) \/ ProviderReplies(r) \/ Store(r) \/ Refresh(r)
       \/ NoConnection(r) \/ Fail(r) \/ Finish(r)

Spec == Init /\ [][Next]_vars

\* The SDK's timeout ends every call, the pool's timeout every wait; a request
\* that can go on does.
GoOn(r) ==
  \/ GetSnapshot(r) \/ ReadCandles(r) \/ CallProvider(r) \/ ProviderFails(r)
  \/ ProviderReplies(r) \/ Store(r) \/ Refresh(r)
  \/ requests[r].pc # "idle" /\ NoConnection(r)

FairSpec == Spec /\ \A r \in Requests : WF_vars(GoOn(r))

-----------------------------------------------------------------------------
(* Properties *)

Answered == {r \in Requests : requests[r].pc = "answered"}

\* Two analyses of a signal are a cooldown apart, unless the request behind the
\* second looked for a recent one before the first was committed.  An answer
\* lost after the commit, a failed call or a restart make no difference.
RepeatsOnlyByOverlap ==
  \A i, j \in DOMAIN rows :
    i < j /\ rows[i].signal = rows[j].signal /\ i <= rows[j].seen =>
      rows[j].created - rows[i].created >= Cooldown

\* No banned phrase reaches the table, in whichever field the provider put it.
NothingBannedIsStored ==
  \A i \in DOMAIN rows : \A f \in TextFields : rows[i].reply[f] \cap Banned = {}

\* A request ends, whatever the provider and the pool do.
EveryRequestEnds == \A r \in Requests : requests[r].pc \in Working ~> requests[r].pc \notin Working

\* models/ai_analysis.py: "repeated requests within the cooldown window return
\* the existing row rather than creating a new one".
OneAnalysisPerCooldown ==
  \A i, j \in DOMAIN rows :
    i < j /\ rows[i].signal = rows[j].signal => rows[j].created - rows[i].created >= Cooldown

=============================================================================
