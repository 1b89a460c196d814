--------------------------- MODULE SignalLifecycle ---------------------------
(***************************************************************************)
(* A signal from candidate to decision: SignalService.evaluate writes and  *)
(* supersedes candidates, RiskService.evaluate_signal decides one of them, *)
(* RiskService.update_policy replaces the policy it is decided by.  All    *)
(* three run concurrently over one database (READ COMMITTED).              *)
(*                                                                         *)
(* One (asset, interval, strategy, version) key: signals of different keys *)
(* never touch each other's rows.  What the checks decide about size,      *)
(* exposure and losses is a free choice here; the two hard gates, the      *)
(* signal's kind and the policy's enabled flag, are not.                   *)
(***************************************************************************)
EXTENDS Naturals, Sequences, FiniteSets

CONSTANTS
  Runs,     \* SignalService.evaluate calls, each handled once
  Reviews,  \* RiskService.evaluate_signal calls
  Updates,  \* RiskService.update_policy calls
  Kinds,    \* signals.signal
  None

ASSUME LifecycleAssumption ==
  /\ "BUY" \in Kinds
  /\ IsFiniteSet(Runs)
  /\ None \notin Runs \cup Reviews \cup Updates \cup Kinds \cup Nat
  /\ Runs \cap Reviews = {} /\ Runs \cap Updates = {} /\ Reviews \cap Updates = {}

Calls == Runs \cup Reviews \cup Updates

VARIABLES
  \* tables
  signals,     \* a run's row: [kind, status, fresh, born, began], or None
  evaluations, \* a review's row: [signal, decision, version], or None
  policies,    \* [active, enabled] in order of version
  \* row locks
  signalLock, policyLock,
  \* sessions
  pc,
  target,      \* the signal row a call has loaded, or None
  version,     \* the policy a call has loaded, or None
  kind,        \* what SignalEngine.evaluate made of the market
  \* history
  seen         \* what there was when a call began: for a run, how many signal
               \* rows, for a review, how many policies

tableVars == <<signals, evaluations, policies>>
lockVars == <<signalLock, policyLock>>
sessionVars == <<pc, target, version, kind>>
vars == <<tableVars, lockVars, sessionVars, seen>>

\* EXPIRED is in the CHECK constraint, but no code path writes it.
\* born: the row is the n-th to be committed; began: how many rows there were
\* when its transaction began, which is its created_at.
SignalRows == [kind : Kinds, fresh : BOOLEAN, born : Nat, began : Nat,
               status : {"CANDIDATE", "RISK_APPROVED", "RISK_REJECTED", "SUPERSEDED"}]
EvaluationRows == [signal : Runs, decision : {"APPROVED", "REJECTED"}, version : Nat]
PolicyRows == [active : BOOLEAN, enabled : BOOLEAN]

ASSUME NullAssumption == None \notin SignalRows \cup EvaluationRows

TypeOK ==
  /\ signals \in [Runs -> SignalRows \cup {None}]
  /\ evaluations \in [Reviews -> EvaluationRows \cup {None}]
  /\ policies \in Seq(PolicyRows)
  /\ signalLock \in [Runs -> Reviews \cup {None}]
  /\ policyLock \in Updates \cup {None}
  /\ pc \in [Calls -> {"idle", "persist", "readPolicy", "lockSignal", "decide",
                       "deactivate", "activate", "done"}]
  /\ target \in [Calls -> Runs \cup {None}]
  /\ version \in [Calls -> Nat \cup {None}]
  /\ kind \in [Runs -> Kinds \cup {None}]
  /\ seen \in [Runs \cup Reviews -> Nat]

Init ==
  /\ signals = [s \in Runs |-> None]
  /\ evaluations = [c \in Reviews |-> None]
  /\ policies = <<[active |-> TRUE, enabled |-> TRUE]>>
  /\ signalLock = [s \in Runs |-> None]
  /\ policyLock = None
  /\ pc = [c \in Calls |-> "idle"]
  /\ target = [c \in Calls |-> None]
  /\ version = [c \in Calls |-> None]
  /\ kind = [c \in Runs |-> None]
  /\ seen = [c \in Runs \cup Reviews |-> 0]

-----------------------------------------------------------------------------

Stored == {s \in Runs : signals[s] # None}

Candidates == {s \in Stored : signals[s].status = "CANDIDATE"}

\* ORDER BY created_at DESC LIMIT 1, or None.  What began later is newer, whatever
\* the order of the commits; of rows that began between the same two commits any
\* may be the newest.
Latest ==
  IF Candidates = {} THEN {None}
  ELSE {s \in Candidates : \A t \in Candidates : signals[t].began <= signals[s].began}

ActivePolicies == {v \in DOMAIN policies : policies[v].active}

\* The end of a call, by commit or rollback: its locks are released.
Finish(c) ==
  /\ pc' = [pc EXCEPT ![c] = "done"]
  /\ target' = [target EXCEPT ![c] = None]
  /\ version' = [version EXCEPT ![c] = None]
  /\ signalLock' = [s \in Runs |-> IF signalLock[s] = c THEN None ELSE signalLock[s]]
  /\ policyLock' = IF policyLock = c THEN None ELSE policyLock

\* An exception, a lost client, a killed process: nothing staged survives.
Fail(c) ==
  /\ pc[c] \notin {"idle", "done"}
  /\ Finish(c)
  /\ UNCHANGED <<tableVars, kind, seen>>

-----------------------------------------------------------------------------
(* SignalService.evaluate *)

\* An equal candidate younger than COOLDOWN stands for the new one.
Deduplicates(s, k) == s # None /\ signals[s].kind = k /\ signals[s].fresh

\* The engine's verdict, the unlocked SELECT of _persist, and the early
\* return that follows it without another await.
ReturnExisting(c, k) ==
  /\ pc[c] = "idle"
  /\ \E s \in Latest : Deduplicates(s, k)
  /\ Finish(c)
  /\ UNCHANGED <<tableVars, kind, seen>>

FindExisting(c, k) ==
  /\ pc[c] = "idle"
  /\ \E s \in Latest :
       /\ ~Deduplicates(s, k)
       /\ target' = [target EXCEPT ![c] = s]
  /\ kind' = [kind EXCEPT ![c] = k]
  /\ seen' = [seen EXCEPT ![c] = Cardinality(Stored)]
  /\ pc' = [pc EXCEPT ![c] = "persist"]
  /\ UNCHANGED <<tableVars, lockVars, version>>

\* Mutant: the older candidate is left as it is.
NotSuperseding(s) == signals

\* UPDATE ... SET status = 'SUPERSEDED' WHERE id = ...: by key alone, over
\* whatever the status has become since the SELECT.
Superseding(s) ==
  IF s = None THEN signals ELSE [signals EXCEPT ![s].status = "SUPERSEDED"]

\* Mutant: the review's lock does not hold up the UPDATE.
UpdatesAtOnce(s) == TRUE

CanUpdate(s) == s # None => signalLock[s] = None

\* The UPDATE waits for the row's lock; then it commits with the INSERT.  The
\* transaction began at the SELECT or before it.
Persist(c) ==
  /\ pc[c] = "persist"
  /\ CanUpdate(target[c])
  /\ \E began \in 0..seen[c] :
       signals' = [Superseding(target[c]) EXCEPT ![c] =
         [kind |-> kind[c], status |-> "CANDIDATE", fresh |-> TRUE,
          born |-> Cardinality(Stored) + 1, began |-> began]]
  /\ Finish(c)
  /\ UNCHANGED <<evaluations, policies, kind, seen>>

\* COOLDOWN has passed since the row was created.
Age(s) ==
  /\ s \in Stored
  /\ signals[s].fresh
  /\ signals' = [signals EXCEPT ![s].fresh = FALSE]
  /\ UNCHANGED <<evaluations, policies, lockVars, sessionVars, seen>>

-----------------------------------------------------------------------------
(* RiskService.evaluate_signal *)

\* The provisional, unlocked check.
BeginReview(c, s) ==
  /\ pc[c] = "idle"
  /\ s \in Candidates
  /\ target' = [target EXCEPT ![c] = s]
  /\ pc' = [pc EXCEPT ![c] = "readPolicy"]
  /\ seen' = [seen EXCEPT ![c] = Len(policies)]
  /\ UNCHANGED <<tableVars, lockVars, version, kind>>

RefuseReview(c, s) ==
  /\ pc[c] = "idle"
  /\ s \in Stored \ Candidates
  /\ Finish(c)
  /\ UNCHANGED <<tableVars, kind, seen>>

\* Mutant: a policy loaded once and kept.
FirstPolicy(c) == {1}

PoliciesToApply(c) == ActivePolicies

\* get_active_policy, then the portfolio snapshot and the quote, whose
\* commits end the transaction: the policy is not read again.
ReadPolicy(c) ==
  /\ pc[c] = "readPolicy"
  /\ \E v \in PoliciesToApply(c) : version' = [version EXCEPT ![c] = v]
  /\ pc' = [pc EXCEPT ![c] = "lockSignal"]
  /\ UNCHANGED <<tableVars, lockVars, target, kind, seen>>

\* Mutant: the status of the provisional read is trusted, as it would be
\* without populate_existing.
TrustsProvisionalRead(c) == TRUE

StillCandidate(c) == signals[target[c]].status = "CANDIDATE"

\* SELECT ... FOR UPDATE, and the authoritative re-check.
LockSignal(c) ==
  /\ pc[c] = "lockSignal"
  /\ signalLock[target[c]] = None
  /\ StillCandidate(c)
  /\ signalLock' = [signalLock EXCEPT ![target[c]] = c]
  /\ pc' = [pc EXCEPT ![c] = "decide"]
  /\ UNCHANGED <<tableVars, policyLock, target, version, kind, seen>>

AlreadyDecided(c) ==
  /\ pc[c] = "lockSignal"
  /\ signalLock[target[c]] = None
  /\ ~StillCandidate(c)
  /\ Finish(c)
  /\ UNCHANGED <<tableVars, kind, seen>>

\* Checks 1 and 3 of the pipeline, its hard gates.
PassesGates(c) == signals[target[c]].kind = "BUY" /\ policies[version[c]].enabled

Decide(c, status, decision) ==
  /\ evaluations' = [evaluations EXCEPT ![c] =
       [signal |-> target[c], decision |-> decision, version |-> version[c]]]
  /\ signals' = [signals EXCEPT ![target[c]].status = status]
  /\ Finish(c)
  /\ UNCHANGED <<policies, kind, seen>>

Approve(c) ==
  /\ pc[c] = "decide"
  /\ PassesGates(c)
  /\ Decide(c, "RISK_APPROVED", "APPROVED")

\* Any of the other checks can fail too.
Reject(c) ==
  /\ pc[c] = "decide"
  /\ Decide(c, "RISK_REJECTED", "REJECTED")

-----------------------------------------------------------------------------
(* RiskService.update_policy *)

BeginUpdate(c) ==
  /\ pc[c] = "idle"
  /\ \E v \in ActivePolicies : version' = [version EXCEPT ![c] = v]
  /\ pc' = [pc EXCEPT ![c] = "deactivate"]
  /\ UNCHANGED <<tableVars, lockVars, target, kind, seen>>

\* The flush: UPDATE ... SET is_active = false by key, staged until the
\* commit.  A second updater waits here for the first one's row lock.
Deactivate(c) ==
  /\ pc[c] = "deactivate"
  /\ policyLock = None
  /\ policyLock' = c
  /\ pc' = [pc EXCEPT ![c] = "activate"]
  /\ UNCHANGED <<tableVars, signalLock, target, version, kind, seen>>

\* Mutant: no UNIQUE (name, version).
NoPolicyConstraint(c) == FALSE

\* UNIQUE (name, version): the version after the one read is taken.
VersionTaken(c) == version[c] + 1 \in DOMAIN policies

Deactivated(v) == [policies EXCEPT ![v].active = FALSE]

Activate(c) ==
  /\ pc[c] = "activate"
  /\ ~VersionTaken(c)
  /\ \E e \in BOOLEAN :
       policies' = Append(Deactivated(version[c]), [active |-> TRUE, enabled |-> e])
  /\ Finish(c)
  /\ UNCHANGED <<signals, evaluations, kind, seen>>

\* An uncaught IntegrityError: the update is rolled back.
LoseUpdate(c) ==
  /\ pc[c] = "activate"
  /\ VersionTaken(c)
  /\ Finish(c)
  /\ UNCHANGED <<tableVars, kind, seen>>

-----------------------------------------------------------------------------

RunStep(c) ==
  \/ \E k \in Kinds : ReturnExisting(c, k) \/ FindExisting(c, k)
  \/ Persist(c)

ReviewStep(c) ==
  \/ \E s \in Runs : BeginReview(c, s) \/ RefuseReview(c, s)
  \/ ReadPolicy(c) \/ LockSignal(c) \/ AlreadyDecided(c)
  \/ Approve(c) \/ Reject(c)

UpdateStep(c) ==
  BeginUpdate(c) \/ Deactivate(c) \/ Activate(c) \/ LoseUpdate(c)

Next ==
  \/ \E c \in Runs : RunStep(c)
  \/ \E c \in Reviews : ReviewStep(c)
  \/ \E c \in Updates : UpdateStep(c)
  \/ \E c \in Calls : Fail(c)
  \/ \E s \in Runs : Age(s)

Spec == Init /\ [][Next]_vars

-----------------------------------------------------------------------------
(* Properties *)

\* A signal is decided at most once, though risk_evaluations has no unique
\* constraint and two reviews can both pass the provisional check
\* (RiskService.evaluate_signal's locked re-check).
OneEvaluationPerSignal ==
  \A c, d \in Reviews :
    /\ evaluations[c] # None /\ evaluations[d] # None
    /\ evaluations[c].signal = evaluations[d].signal
    => c = d

\* A signal never shows a decision that no evaluation row accounts for, and
\* a decided signal never goes back to being a candidate.
StatusHasItsEvaluation ==
  \A s \in Stored :
    LET decided(d) == \E c \in Reviews : /\ evaluations[c] # None
                                         /\ evaluations[c].signal = s
                                         /\ evaluations[c].decision = d
    IN /\ signals[s].status = "RISK_APPROVED" => decided("APPROVED")
       /\ signals[s].status = "RISK_REJECTED" => decided("REJECTED")
       /\ signals[s].status = "CANDIDATE" => ~decided("APPROVED") /\ ~decided("REJECTED")

\* Exactly one policy is active and it is the newest, whatever updates race
\* (docs/risk-engine.md section 2; RiskService.update_policy).
OneActivePolicy == ActivePolicies = {Len(policies)}

\* A decision is taken under a policy that was in force during its review:
\* not one replaced before the review began, and an approval under one that
\* was not paused.  It may have been replaced since it was read.
DecidedByAPolicyInForce ==
  \A c \in Reviews : evaluations[c] # None =>
    /\ evaluations[c].version \in seen[c]..Len(policies)
    /\ evaluations[c].decision = "APPROVED" => policies[evaluations[c].version].enabled

\* Runs that inserted a row when there was one more than they had seen.
Overlapped == {t \in Stored : seen[t] + 1 < signals[t].born}

\* There is one candidate, the newest verdict of the strategy, and one more at
\* most for every evaluation that overlapped another: nothing else ever
\* leaves an outdated candidate to be approved.
CandidatesOnlyByOverlap == Cardinality(Candidates) <= 1 + Cardinality(Overlapped)

\* Only a CANDIDATE is superseded: "mark any existing CANDIDATE for that key
\* SUPERSEDED" (docs/signal-engine.md section 6).
OnlyCandidatesAreSuperseded ==
  [][\A s \in Stored :
       signals'[s].status = "SUPERSEDED" =>
         signals[s].status \in {"CANDIDATE", "SUPERSEDED"}]_vars

\* Within the cooldown one evaluation of the same verdict stands for all:
\* "No new row, no duplicate" (docs/signal-engine.md section 6).
NoDuplicateCandidate ==
  \A s, t \in Candidates :
    signals[s].fresh /\ signals[t].fresh /\ signals[s].kind = signals[t].kind => s = t

\* "No new approvals while risk evaluation is paused" (checks.py, check 3).
NoApprovalWhilePaused ==
  [][\A c \in Reviews :
       evaluations[c] = None /\ evaluations'[c] # None
         /\ evaluations'[c].decision = "APPROVED"
       => \A v \in ActivePolicies : policies[v].enabled]_vars

=============================================================================
