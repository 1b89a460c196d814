---------------------------- MODULE RiskPromise ----------------------------
(***************************************************************************)
(* What the signal and risk services promise to everyone who reads their   *)
(* tables: signals appear, are superseded and are decided one whole step   *)
(* at a time, a decision is taken once, on a signal that is a candidate at *)
(* that moment.  No calls, no sessions, no locks, no cooldown.             *)
(* SignalLifecycle implements it.                                          *)
(***************************************************************************)
EXTENDS Naturals, Sequences

CONSTANTS Signals, Kinds, None

VARIABLES
  rows,     \* each signal's [kind, status], or None
  verdict,  \* each signal's one evaluation [decision, version], or None
  policies  \* enabled, of each policy in order of version; the last is active

promiseVars == <<rows, verdict, policies>>

Init ==
  /\ rows = [s \in Signals |-> None]
  /\ verdict = [s \in Signals |-> None]
  /\ policies = <<TRUE>>

Emitted == {s \in Signals : rows[s] # None}

\* A new candidate, and one signal at most that it stands for from now on.
\* That may be one decided a moment ago.
Emit(s, kind) ==
  /\ s \notin Emitted
  /\ \E old \in Emitted \cup {None} :
       rows' = [x \in Signals |->
                  IF x = s THEN [kind |-> kind, status |-> "CANDIDATE"]
                  ELSE IF x = old THEN [rows[x] EXCEPT !.status = "SUPERSEDED"]
                  ELSE rows[x]]
  /\ UNCHANGED <<verdict, policies>>

Decide(s, v, decision, status) ==
  /\ s \in Emitted
  /\ rows[s].status = "CANDIDATE"
  /\ verdict[s] = None
  /\ rows' = [rows EXCEPT ![s].status = status]
  /\ verdict' = [verdict EXCEPT ![s] = [decision |-> decision, version |-> v]]
  /\ UNCHANGED policies

\* Only a BUY, and only under a policy that is not paused.
Approve(s, v) ==
  /\ rows[s].kind = "BUY" /\ policies[v]
  /\ Decide(s, v, "APPROVED", "RISK_APPROVED")

Reject(s, v) == Decide(s, v, "REJECTED", "RISK_REJECTED")

\* Policies are never edited: the next version replaces the last.
Replace(enabled) ==
  /\ policies' = Append(policies, enabled)
  /\ UNCHANGED <<rows, verdict>>

Next ==
  \/ \E s \in Emitted' \ Emitted, kind \in Kinds : Emit(s, kind)
  \/ \E s \in Emitted, v \in DOMAIN policies : Approve(s, v) \/ Reject(s, v)
  \/ \E enabled \in BOOLEAN : Replace(enabled)

Spec == Init /\ [][Next]_promiseVars

=============================================================================
