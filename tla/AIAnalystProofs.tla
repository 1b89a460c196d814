--------------------------- MODULE AIAnalystProofs ---------------------------
(* Two analyses within a cooldown come from overlapping requests, and no row *)
(* holds what the content scan rejects, for any number of requests, signals  *)
(* and connections.                                                          *)
EXTENDS AIAnalyst, TLAPS

Row == [signal : Signals, created : Nat, risk : Decisions \cup {None},
        reply : Replies, seen : Nat]

Request == [pc : Working \cup Ended \cup {"idle"}, signal : Signals \cup {None},
            begun : Nat, opened : Nat, seen : Nat, risk : Decisions \cup {None},
            reply : Replies \cup {None}, row : Nat]

Shapes ==
  /\ now \in Nat
  /\ risk \in [Signals -> Decisions \cup {None}]
  /\ rows \in Seq(Row)
  /\ requests \in [Requests -> Request]

\* Those that looked for a recent analysis and have stored none yet.
Underway == {"snapshot", "candles", "context", "calling", "store"}

\* What such a request saw was as old as a cooldown when it looked, and its
\* transaction opened no earlier.
SawOnlyOldOnes ==
  \A r \in Requests : requests[r].pc \in Underway =>
    LET q == requests[r] IN
    /\ q.signal \in Signals
    /\ q.seen <= Len(rows) /\ q.begun <= q.opened /\ q.opened <= now
    /\ \A i \in 1..Len(rows) :
         i <= q.seen /\ rows[i].signal = q.signal => q.begun - rows[i].created >= Cooldown

Vetted ==
  \A r \in Requests : requests[r].pc = "store" =>
    requests[r].reply \in Replies /\ Validated(requests[r].reply)

AIAnalystInv ==
  Shapes /\ SawOnlyOldOnes /\ Vetted /\ RepeatsOnlyByOverlap /\ NothingBannedIsStored

USE DEF Working, Ended, Underway

LEMMA InitInv == Init => AIAnalystInv
BY AIAnalystAssumption
   DEF Init, AIAnalystInv, Shapes, SawOnlyOldOnes, Vetted, RepeatsOnlyByOverlap,
       NothingBannedIsStored, Idle, Request, Row

\* A step of one request that leaves the table alone keeps the invariant if
\* what it becomes is as the invariant wants it.
LEMMA RequestStep ==
  ASSUME AIAnalystInv, NEW r \in Requests, NEW q \in Request,
         requests' = [requests EXCEPT ![r] = q],
         UNCHANGED <<now, risk, rows>>,
         q.pc \in Underway =>
           /\ q.signal \in Signals
           /\ q.seen <= Len(rows) /\ q.begun <= q.opened /\ q.opened <= now
           /\ \A i \in 1..Len(rows) :
                i <= q.seen /\ rows[i].signal = q.signal =>
                  q.begun - rows[i].created >= Cooldown,
         q.pc = "store" => q.reply \in Replies /\ Validated(q.reply)
  PROVE  AIAnalystInv'
<1>1. requests' \in [Requests -> Request]
  BY DEF AIAnalystInv, Shapes
<1>2. \A s \in Requests : requests'[s] = IF s = r THEN q ELSE requests[s]
  BY DEF AIAnalystInv, Shapes
<1>3. Shapes'
  BY <1>1 DEF AIAnalystInv, Shapes
<1>4. SawOnlyOldOnes'
  BY <1>2 DEF AIAnalystInv, SawOnlyOldOnes
<1>5. Vetted'
  BY <1>2 DEF AIAnalystInv, Vetted, Validated, SchemaValid, ContentSafe
<1>6. RepeatsOnlyByOverlap' /\ NothingBannedIsStored'
  BY DEF AIAnalystInv, RepeatsOnlyByOverlap, NothingBannedIsStored
<1> QED
  BY <1>3, <1>4, <1>5, <1>6 DEF AIAnalystInv

LEMMA EndStep ==
  ASSUME AIAnalystInv, NEW r \in Requests, NEW outcome \in Ended, End(r, outcome)
  PROVE  AIAnalystInv'
<1> DEFINE q == [Idle EXCEPT !.pc = outcome]
<1>1. q \in Request /\ q.pc = outcome
  BY DEF Idle, Request
<1> QED
  BY <1>1, RequestStep DEF End

LEMMA AskStep ==
  ASSUME AIAnalystInv, NEW r \in Requests, NEW s \in Signals \cup {None}, Ask(r, s)
  PROVE  AIAnalystInv'
<1>1. CASE End(r, "notFound") \/ End(r, "unavailable")
  BY <1>1, EndStep
<1>2. CASE s \in Signals /\ ReturnExisting(r, s)
  <2>1. PICK i \in Newest(s) :
          Advance(r, [Idle EXCEPT !.pc = "answered", !.signal = s, !.begun = now, !.row = i])
    BY <1>2 DEF ReturnExisting
  <2> DEFINE q == [Idle EXCEPT !.pc = "answered", !.signal = s, !.begun = now, !.row = i]
  <2>2. i \in Nat
    BY DEF Newest, Analyses, AIAnalystInv, Shapes
  <2>3. q \in Request /\ q.pc = "answered"
    BY <2>2, <1>2 DEF Idle, Request, AIAnalystInv, Shapes
  <2> QED
    BY <2>1, <2>3, RequestStep DEF Advance
<1>3. CASE s \in Signals /\ Proceed(r, s)
  <2> DEFINE q == [Idle EXCEPT !.pc = "snapshot", !.signal = s, !.begun = now,
                               !.opened = now, !.seen = Len(rows)]
  <2>1. Len(rows) \in Nat /\ now \in Nat /\ DOMAIN rows = 1..Len(rows)
    BY DEF AIAnalystInv, Shapes
  <2>2. q \in Request
    BY <2>1, <1>3 DEF Idle, Request
  <2>3. q.pc = "snapshot" /\ q.signal = s /\ q.begun = now /\ q.opened = now
        /\ q.seen = Len(rows)
    BY DEF Idle
  <2>4. \A i \in 1..Len(rows) : rows[i].signal = s => now - rows[i].created >= Cooldown
    <3>1. \A i \in 1..Len(rows) : rows[i] \in Row
      BY <2>1 DEF AIAnalystInv, Shapes
    <3> QED
      BY <1>3, <2>1, <3>1, AIAnalystAssumption DEF Proceed, Analyses, Fresh, Row
  <2>5. Advance(r, q)
    BY <1>3 DEF Proceed
  <2> HIDE DEF q
  <2>6. requests' = [requests EXCEPT ![r] = q] /\ UNCHANGED <<now, risk, rows>>
    BY <2>5 DEF Advance
  <2>7. /\ q.signal \in Signals
        /\ q.seen <= Len(rows) /\ q.begun <= q.opened /\ q.opened <= now
        /\ \A i \in 1..Len(rows) :
             i <= q.seen /\ rows[i].signal = q.signal => q.begun - rows[i].created >= Cooldown
    BY <1>3, <2>1, <2>3, <2>4
  <2> QED
    BY <2>2, <2>3, <2>6, <2>7, RequestStep
<1> QED
  BY <1>1, <1>2, <1>3 DEF Ask

\* A request that stays underway, with the same signal and view of the table.
LEMMA OnwardStep ==
  ASSUME AIAnalystInv, NEW r \in Requests, NEW q \in Request,
         requests[r].pc \in Underway, q.pc \in Underway,
         Advance(r, q),
         q.signal = requests[r].signal, q.seen = requests[r].seen,
         q.begun = requests[r].begun,
         q.opened = requests[r].opened \/ q.opened = now,
         q.pc = "store" => q.reply \in Replies /\ Validated(q.reply)
  PROVE  AIAnalystInv'
<1>1. /\ q.signal \in Signals
      /\ q.seen <= Len(rows) /\ q.begun <= q.opened /\ q.opened <= now
      /\ \A i \in 1..Len(rows) :
           i <= q.seen /\ rows[i].signal = q.signal => q.begun - rows[i].created >= Cooldown
  <2>1. requests[r] \in Request /\ now \in Nat
    BY DEF AIAnalystInv, Shapes
  <2> QED
    BY <2>1 DEF AIAnalystInv, SawOnlyOldOnes, Request
<1> QED
  BY <1>1, RequestStep DEF Advance

LEMMA StoreStep ==
  ASSUME AIAnalystInv, NEW r \in Requests, Store(r)
  PROVE  AIAnalystInv'
<1> DEFINE q == requests[r]
           new == [signal |-> q.signal, created |-> q.opened, risk |-> q.risk,
                   reply |-> q.reply, seen |-> q.seen]
           after == [q EXCEPT !.pc = "refresh", !.row = Len(rows) + 1]
<1>1. /\ q \in Request /\ q.pc = "store"
      /\ q.signal \in Signals /\ q.seen <= Len(rows) /\ q.begun <= q.opened
      /\ q.reply \in Replies /\ Validated(q.reply)
      /\ \A i \in 1..Len(rows) :
           i <= q.seen /\ rows[i].signal = q.signal => q.begun - rows[i].created >= Cooldown
  BY DEF Store, AIAnalystInv, Shapes, SawOnlyOldOnes, Vetted
<1>2. new \in Row
  BY <1>1 DEF Row, Request
<1>3. rows \in Seq(Row) /\ rows' = Append(rows, new)
  BY DEF Store, AIAnalystInv, Shapes
<1>4. /\ rows' \in Seq(Row) /\ Len(rows') = Len(rows) + 1 /\ Len(rows) \in Nat
      /\ DOMAIN rows = 1..Len(rows) /\ DOMAIN rows' = 1..(Len(rows) + 1)
      /\ \A i \in 1..Len(rows) : rows'[i] = rows[i] /\ rows[i] \in Row
      /\ rows'[Len(rows) + 1] = new
  <2> HIDE DEF new
  <2> QED BY <1>2, <1>3
<1>5. /\ requests' \in [Requests -> Request]
      /\ \A s \in Requests \ {r} : requests'[s] = requests[s]
      /\ requests'[r].pc = "refresh"
  <2>1. after \in Request /\ after.pc = "refresh"
    <3>1. q \in Request /\ Len(rows) + 1 \in Nat
      BY <1>1, <1>4
    <3> QED BY <3>1 DEF Request
  <2>2. requests \in [Requests -> Request] /\ requests' = [requests EXCEPT ![r] = after]
    BY DEF Store, AIAnalystInv, Shapes
  <2> HIDE DEF after
  <2> QED BY <2>1, <2>2
<1>6. UNCHANGED <<now, risk>>
  BY DEF Store
<1>7. Shapes'
  BY <1>4, <1>5, <1>6 DEF AIAnalystInv, Shapes
<1>8. SawOnlyOldOnes'
  <2> SUFFICES ASSUME NEW s \in Requests, requests'[s].pc \in Underway
               PROVE  /\ requests'[s].signal \in Signals
                      /\ requests'[s].seen <= Len(rows')
                      /\ requests'[s].begun <= requests'[s].opened
                      /\ requests'[s].opened <= now'
                      /\ \A i \in 1..Len(rows') :
                           i <= requests'[s].seen /\ rows'[i].signal = requests'[s].signal =>
                             requests'[s].begun - rows'[i].created >= Cooldown
    BY DEF SawOnlyOldOnes
  <2>1. s # r /\ requests'[s] = requests[s]
    BY <1>5
  <2>2. /\ requests[s].signal \in Signals /\ requests[s].seen <= Len(rows)
        /\ requests[s].begun <= requests[s].opened /\ requests[s].opened <= now
        /\ \A i \in 1..Len(rows) :
             i <= requests[s].seen /\ rows[i].signal = requests[s].signal =>
               requests[s].begun - rows[i].created >= Cooldown
    BY <2>1 DEF AIAnalystInv, SawOnlyOldOnes
  <2>3. requests[s].seen \in Nat
    BY DEF AIAnalystInv, Shapes, Request
  <2> QED
    BY <1>4, <1>6, <2>1, <2>2, <2>3
<1>9. Vetted'
  BY <1>5 DEF AIAnalystInv, Vetted, Validated, SchemaValid, ContentSafe
<1>10. RepeatsOnlyByOverlap'
  <2> SUFFICES ASSUME NEW i \in DOMAIN rows', NEW j \in DOMAIN rows',
                      i < j, rows'[i].signal = rows'[j].signal, i <= rows'[j].seen
               PROVE  rows'[j].created - rows'[i].created >= Cooldown
    BY DEF RepeatsOnlyByOverlap
  <2>1. i \in 1..Len(rows)
    BY <1>4
  <2>2. CASE j \in 1..Len(rows)
    BY <2>1, <2>2, <1>4 DEF AIAnalystInv, RepeatsOnlyByOverlap
  <2>3. CASE j = Len(rows) + 1
    <3>1. q.begun - rows[i].created >= Cooldown
      BY <1>1, <1>4, <2>1, <2>3
    <3>2. q.begun \in Nat /\ q.opened \in Nat /\ rows[i].created \in Nat
      BY <1>1, <1>4, <2>1 DEF Request, Row
    <3> QED
      BY <3>1, <3>2, <1>1, <1>4, <2>1, <2>3, AIAnalystAssumption
  <2> QED
    BY <2>2, <2>3, <1>4
<1>11. NothingBannedIsStored'
  BY <1>1, <1>4 DEF AIAnalystInv, NothingBannedIsStored, Validated, ContentSafe
<1> QED
  BY <1>7, <1>8, <1>9, <1>10, <1>11 DEF AIAnalystInv

LEMMA NextInv ==
  ASSUME AIAnalystInv, [Next]_vars
  PROVE  AIAnalystInv'
<1>1. CASE UNCHANGED vars
  BY <1>1 DEF vars, AIAnalystInv, Shapes, SawOnlyOldOnes, Vetted, RepeatsOnlyByOverlap,
              NothingBannedIsStored, Validated, SchemaValid, ContentSafe
<1>2. CASE Tick
  BY <1>2 DEF Tick, AIAnalystInv, Shapes, SawOnlyOldOnes, Vetted, RepeatsOnlyByOverlap,
              NothingBannedIsStored, Validated, SchemaValid, ContentSafe, Request
<1>3. CASE Restart
  <2>1. Idle \in Request /\ Idle.pc = "idle"
    BY DEF Idle, Request
  <2> QED
    BY <1>3, <2>1 DEF Restart, AIAnalystInv, Shapes, SawOnlyOldOnes, Vetted,
                      RepeatsOnlyByOverlap, NothingBannedIsStored
<1>4. ASSUME NEW s \in Signals, EvaluateRisk(s)
      PROVE  AIAnalystInv'
  BY <1>4 DEF EvaluateRisk, AIAnalystInv, Shapes, SawOnlyOldOnes, Vetted,
              RepeatsOnlyByOverlap, NothingBannedIsStored, Validated, SchemaValid, ContentSafe
<1>5. ASSUME NEW r \in Requests,
             \/ GetSnapshot(r) \/ ReadCandles(r) \/ CallProvider(r)
             \/ ProviderFails(r) \/ ProviderReplies(r) \/ Store(r) \/ Refresh(r)
             \/ NoConnection(r) \/ Fail(r) \/ Finish(r)
      PROVE  AIAnalystInv'
  <2> DEFINE q == requests[r]
  <2>1. q \in Request /\ now \in Nat /\ risk \in [Signals -> Decisions \cup {None}]
    BY DEF AIAnalystInv, Shapes
  <2>2. ASSUME NEW outcome \in Ended, End(r, outcome) PROVE AIAnalystInv'
    BY <2>2, EndStep
  <2>3. CASE GetSnapshot(r)
    <3>1. ASSUME NEW pc \in {"candles", "context"}, q.pc = "snapshot",
                 Advance(r, [q EXCEPT !.pc = pc])
          PROVE  AIAnalystInv'
      <4> DEFINE next == [q EXCEPT !.pc = pc]
      <4>1. next \in Request /\ next.pc = pc /\ next.signal = q.signal /\ next.seen = q.seen
            /\ next.begun = q.begun /\ next.opened = q.opened
        BY <2>1 DEF Request
      <4>2. Advance(r, next)
        BY <3>1
      <4> HIDE DEF next
      <4> QED BY <3>1, <4>1, <4>2, OnwardStep
    <3> QED
      BY <2>3, <2>2, <3>1 DEF GetSnapshot
  <2>4. CASE ReadCandles(r)
    <3> DEFINE next == [q EXCEPT !.pc = "context", !.opened = now]
    <3>1. next \in Request /\ next.pc = "context" /\ next.signal = q.signal
          /\ next.seen = q.seen /\ next.begun = q.begun /\ next.opened = now
      BY <2>1 DEF Request
    <3>2. q.pc = "candles" /\ Advance(r, next)
      BY <2>4 DEF ReadCandles
    <3> HIDE DEF next
    <3> QED BY <3>1, <3>2, OnwardStep
  <2>5. CASE CallProvider(r)
    <3> DEFINE next == [q EXCEPT !.pc = "calling", !.risk = risk[q.signal]]
    <3>1. q.pc = "context" /\ Advance(r, next)
      BY <2>5 DEF CallProvider
    <3>2. q.signal \in Signals
      BY <3>1 DEF AIAnalystInv, SawOnlyOldOnes
    <3>3. next \in Request /\ next.pc = "calling" /\ next.signal = q.signal
          /\ next.seen = q.seen /\ next.begun = q.begun /\ next.opened = q.opened
      BY <2>1, <3>2 DEF Request
    <3> HIDE DEF next
    <3> QED BY <3>1, <3>3, OnwardStep
  <2>6. CASE ProviderFails(r)
    BY <2>6, <2>2 DEF ProviderFails
  <2>7. CASE ProviderReplies(r)
    <3>1. ASSUME NEW reply \in Replies, q.pc = "calling", Validated(reply),
                 Advance(r, [q EXCEPT !.pc = "store", !.reply = reply])
          PROVE  AIAnalystInv'
      <4> DEFINE next == [q EXCEPT !.pc = "store", !.reply = reply]
      <4>1. next \in Request /\ next.pc = "store" /\ next.signal = q.signal
            /\ next.seen = q.seen /\ next.begun = q.begun /\ next.opened = q.opened
            /\ next.reply = reply
        BY <2>1 DEF Request
      <4>2. Advance(r, next)
        BY <3>1
      <4> HIDE DEF next
      <4> QED BY <3>1, <4>1, <4>2, OnwardStep
    <3> QED
      BY <2>7, <2>2, <3>1 DEF ProviderReplies
  <2>8. CASE Store(r)
    BY <2>8, StoreStep
  <2>9. CASE Refresh(r)
    <3> DEFINE next == [q EXCEPT !.pc = "answered", !.reply = None]
    <3>1. next \in Request /\ next.pc = "answered"
      BY <2>1 DEF Request
    <3>2. Advance(r, next)
      BY <2>9 DEF Refresh
    <3> HIDE DEF next
    <3> QED BY <3>1, <3>2, RequestStep DEF Advance
  <2>10. CASE NoConnection(r) \/ Fail(r)
    BY <2>10, <2>2 DEF NoConnection, Fail
  <2>11. CASE Finish(r)
    <3>1. Idle \in Request /\ Idle.pc = "idle"
      BY DEF Idle, Request
    <3> QED
      BY <2>11, <3>1, RequestStep DEF Finish, Advance
  <2> QED
    BY <1>5, <2>3, <2>4, <2>5, <2>6, <2>7, <2>8, <2>9, <2>10, <2>11
<1> QED
  BY <1>1, <1>2, <1>3, <1>4, <1>5, AskStep DEF Next

\* Within a cooldown only overlapping requests analyse a signal twice, however
\* many requests, signals and connections there are.
THEOREM NoRepeatWithoutOverlap == Spec => []RepeatsOnlyByOverlap
<1>1. AIAnalystInv => RepeatsOnlyByOverlap
  BY DEF AIAnalystInv
<1> QED
  BY <1>1, InitInv, NextInv, PTL DEF Spec

\* Whatever the provider answers, no stored analysis holds a banned phrase.
THEOREM NoBannedPhraseStored == Spec => []NothingBannedIsStored
<1>1. AIAnalystInv => NothingBannedIsStored
  BY DEF AIAnalystInv
<1> QED
  BY <1>1, InitInv, NextInv, PTL DEF Spec

=============================================================================
