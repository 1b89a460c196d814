---------------------------- MODULE SignalProofs ----------------------------
(***************************************************************************)
(* Signals: how they live, and how they are computed.                      *)
(*                                                                         *)
(* One decision per signal, one active policy, a status that its           *)
(* evaluation accounts for and a policy in force during the review, for    *)
(* any number of overlapping evaluations, reviews and updates.  The locked *)
(* re-check is what it rests on: a review about to decide owns its         *)
(* signal's lock, and the signal is a candidate, so no other review has    *)
(* decided it and no evaluation can supersede it.                          *)
(*                                                                         *)
(* What the rules and scores say of a market, for all readings it can      *)
(* give: each of the two directions is a sum of what its checks count.     *)
(***************************************************************************)
EXTENDS SignalLifecycleRefinement, SignalRules, FiniteSetTheorems, SequenceTheorems, TLAPS

\* Which steps each kind of call takes.
StepsKnown ==
  /\ \A c \in Runs : pc[c] \in {"idle", "persist", "done"}
  /\ \A c \in Reviews : pc[c] \in {"idle", "readPolicy", "lockSignal", "decide", "done"}
  /\ \A c \in Updates : pc[c] \in {"idle", "deactivate", "activate", "done"}

\* A run's row is inserted by its last step; what it will supersede exists.
RunsKnown ==
  \A c \in Runs :
    /\ pc[c] # "done" => signals[c] = None
    /\ pc[c] = "persist" => target[c] \in Stored \cup {None} /\ kind[c] \in Kinds

\* A review writes in its last step, about a row that exists, under a policy
\* no older than its beginning; when it is about to, the row is its own.
ReviewsKnown ==
  \A c \in Reviews :
    /\ pc[c] # "done" => evaluations[c] = None
    /\ pc[c] \in {"readPolicy", "lockSignal", "decide"} =>
         target[c] \in Stored /\ seen[c] \in 1..Len(policies)
    /\ pc[c] \in {"lockSignal", "decide"} => version[c] \in seen[c]..Len(policies)
    /\ pc[c] = "decide" => /\ signalLock[target[c]] = c
                           /\ signals[target[c]].status = "CANDIDATE"

\* The policy an update will deactivate exists.
UpdatesKnown ==
  \A c \in Updates : pc[c] \in {"deactivate", "activate"} => version[c] \in DOMAIN policies

\* What an evaluation refers to exists.
EvaluationsKnown ==
  \A c \in Reviews : evaluations[c] # None =>
    evaluations[c].signal \in Stored /\ evaluations[c].version \in DOMAIN policies

SessionInv == StepsKnown /\ RunsKnown /\ ReviewsKnown /\ UpdatesKnown

TableInv ==
  /\ EvaluationsKnown
  /\ OneEvaluationPerSignal /\ StatusHasItsEvaluation
  /\ OneActivePolicy /\ DecidedByAPolicyInForce

SignalLifecycleInv == TypeOK /\ SessionInv /\ TableInv

-----------------------------------------------------------------------------
(* Facts about the operators *)

LEMMA CallsDiffer ==
  /\ \A c \in Runs : c \in Calls /\ c \notin Reviews /\ c \notin Updates /\ c # None
  /\ \A c \in Reviews : c \in Calls /\ c \notin Runs /\ c \notin Updates /\ c # None
  /\ \A c \in Updates : c \in Calls /\ c \notin Runs /\ c \notin Reviews /\ c # None
BY LifecycleAssumption DEF Calls

LEMMA StoredIsCounted == Cardinality(Stored) \in Nat
<1>1. IsFiniteSet(Stored)
  BY LifecycleAssumption, FS_Subset DEF Stored
<1> QED
  BY <1>1, FS_CardinalityType

LEMMA SeenOfRuns ==
  ASSUME TypeOK, NEW c \in Runs
  PROVE  seen[c] \in Nat
  BY DEF TypeOK

LEMMA PoliciesKnown ==
  ASSUME TypeOK, OneActivePolicy
  PROVE  /\ DOMAIN policies = 1..Len(policies)
         /\ Len(policies) \in Nat \ {0}
         /\ \A v \in 1..Len(policies) : policies[v] \in PolicyRows
         /\ \A v \in ActivePolicies : v = Len(policies)
<1>1. policies \in Seq(PolicyRows)
  BY DEF TypeOK
<1>2. Len(policies) \in DOMAIN policies
  BY DEF OneActivePolicy, ActivePolicies
<1> QED
  BY <1>1, <1>2 DEF OneActivePolicy

LEMMA InitInv == Init => SignalLifecycleInv
<1> SUFFICES ASSUME Init PROVE SignalLifecycleInv
  OBVIOUS
<1> DEFINE first == [active |-> TRUE, enabled |-> TRUE]
<1>1. /\ policies = <<first>> /\ first \in PolicyRows
      /\ policies \in Seq(PolicyRows) /\ Len(policies) = 1
      /\ DOMAIN policies = {1} /\ policies[1].active
  BY DEF Init, PolicyRows
<1>2. TypeOK
  BY <1>1 DEF Init, TypeOK
<1>3. SessionInv
  BY CallsDiffer DEF Init, SessionInv, StepsKnown, RunsKnown, ReviewsKnown, UpdatesKnown
<1>4. OneActivePolicy
  BY <1>1 DEF OneActivePolicy, ActivePolicies
<1>5. EvaluationsKnown /\ OneEvaluationPerSignal /\ DecidedByAPolicyInForce
  BY DEF Init, EvaluationsKnown, OneEvaluationPerSignal, DecidedByAPolicyInForce
<1>6. StatusHasItsEvaluation
  BY DEF Init, StatusHasItsEvaluation, Stored
<1> QED
  BY <1>2, <1>3, <1>4, <1>5, <1>6 DEF SignalLifecycleInv, TableInv

-----------------------------------------------------------------------------
(* Steps that leave the tables alone *)

\* The tables' own invariants are untouched.
LEMMA TablesStay ==
  ASSUME TableInv, UNCHANGED tableVars,
         \A c \in Reviews : evaluations[c] # None => seen'[c] = seen[c]
  PROVE  TableInv'
<1>1. /\ signals' = signals /\ evaluations' = evaluations /\ policies' = policies
      /\ Stored' = Stored /\ ActivePolicies' = ActivePolicies
  BY DEF tableVars, Stored, ActivePolicies
<1>2. EvaluationsKnown' /\ OneEvaluationPerSignal'
  BY <1>1 DEF TableInv, EvaluationsKnown, OneEvaluationPerSignal
<1>3. StatusHasItsEvaluation'
  BY <1>1 DEF TableInv, StatusHasItsEvaluation
<1>4. OneActivePolicy' /\ DecidedByAPolicyInForce'
  BY <1>1 DEF TableInv, OneActivePolicy, DecidedByAPolicyInForce
<1> QED
  BY <1>2, <1>3, <1>4 DEF TableInv

\* What the end of a call does to the sessions, whoever else is underway.
LEMMA FinishFacts ==
  ASSUME TypeOK, NEW c \in Calls, Finish(c)
  PROVE  /\ pc' \in [Calls -> {"idle", "persist", "readPolicy", "lockSignal", "decide",
                               "deactivate", "activate", "done"}]
         /\ target' \in [Calls -> Runs \cup {None}]
         /\ version' \in [Calls -> Nat \cup {None}]
         /\ signalLock' \in [Runs -> Reviews \cup {None}]
         /\ policyLock' \in Updates \cup {None}
         /\ pc'[c] = "done"
         /\ \A d \in Calls \ {c} : /\ pc'[d] = pc[d] /\ target'[d] = target[d]
                                   /\ version'[d] = version[d]
                                   /\ \A s \in Runs : signalLock[s] = d => signalLock'[s] = d
BY DEF TypeOK, Finish

LEMMA EndStep ==
  ASSUME SignalLifecycleInv, NEW c \in Calls, Finish(c), UNCHANGED <<tableVars, kind, seen>>
  PROVE  SignalLifecycleInv'
<1>1. /\ signals' = signals /\ evaluations' = evaluations /\ policies' = policies
      /\ kind' = kind /\ seen' = seen /\ Stored' = Stored
  BY DEF tableVars, Stored
<1>2. TypeOK'
  BY <1>1, FinishFacts DEF SignalLifecycleInv, TypeOK
<1>3. StepsKnown'
  BY FinishFacts, CallsDiffer DEF SignalLifecycleInv, SessionInv, StepsKnown
<1>4. RunsKnown'
  BY <1>1, FinishFacts, CallsDiffer DEF SignalLifecycleInv, SessionInv, RunsKnown
<1>5. ReviewsKnown'
  <2>1. \A d \in Reviews \ {c} : pc[d] = "decide" => signalLock'[target[d]] = d
    BY FinishFacts, CallsDiffer DEF SignalLifecycleInv, SessionInv, ReviewsKnown, Stored
  <2> QED
    BY <1>1, <2>1, FinishFacts, CallsDiffer DEF SignalLifecycleInv, SessionInv, ReviewsKnown
<1>6. UpdatesKnown'
  BY <1>1, FinishFacts, CallsDiffer DEF SignalLifecycleInv, SessionInv, UpdatesKnown
<1>7. TableInv'
  BY <1>1, TablesStay DEF SignalLifecycleInv, tableVars
<1> QED
  BY <1>2, <1>3, <1>4, <1>5, <1>6, <1>7 DEF SignalLifecycleInv, SessionInv

LEMMA FindStep ==
  ASSUME SignalLifecycleInv, NEW c \in Runs, NEW k \in Kinds, FindExisting(c, k)
  PROVE  SignalLifecycleInv'
<1>1. /\ UNCHANGED <<tableVars, lockVars, version>> /\ pc[c] = "idle"
      /\ signals' = signals /\ evaluations' = evaluations /\ policies' = policies
      /\ signalLock' = signalLock /\ policyLock' = policyLock /\ version' = version
      /\ Stored' = Stored
      /\ kind' = [kind EXCEPT ![c] = k]
      /\ seen' = [seen EXCEPT ![c] = Cardinality(Stored)]
      /\ pc' = [pc EXCEPT ![c] = "persist"]
  BY DEF FindExisting, tableVars, lockVars, Stored
<1>2. PICK s \in Stored \cup {None} : target' = [target EXCEPT ![c] = s]
  BY DEF FindExisting, Latest, Candidates
<1>3. TypeOK'
  BY <1>1, <1>2, StoredIsCounted, CallsDiffer DEF SignalLifecycleInv, TypeOK, Stored
<1>4. \A d \in Calls \ {c} : /\ pc'[d] = pc[d] /\ target'[d] = target[d]
  BY <1>1, <1>2 DEF SignalLifecycleInv, TypeOK
<1>5. pc'[c] = "persist" /\ target'[c] = s /\ kind'[c] = k
  BY <1>1, <1>2, CallsDiffer DEF SignalLifecycleInv, TypeOK
<1>6. \A d \in Reviews : seen'[d] = seen[d]
  BY <1>1, CallsDiffer DEF SignalLifecycleInv, TypeOK
<1>7. \A d \in Runs \ {c} : kind'[d] = kind[d]
  BY <1>1 DEF SignalLifecycleInv, TypeOK
<1>8. StepsKnown'
  BY <1>4, <1>5, CallsDiffer DEF SignalLifecycleInv, SessionInv, StepsKnown
<1>9. RunsKnown'
  BY <1>1, <1>4, <1>5, <1>7, CallsDiffer DEF SignalLifecycleInv, SessionInv, RunsKnown
<1>10. ReviewsKnown'
  BY <1>1, <1>4, <1>6, CallsDiffer DEF SignalLifecycleInv, SessionInv, ReviewsKnown
<1>11. UpdatesKnown'
  BY <1>1, <1>4, CallsDiffer DEF SignalLifecycleInv, SessionInv, UpdatesKnown
<1>12. TableInv'
  BY <1>1, <1>6, TablesStay DEF SignalLifecycleInv
<1> QED
  BY <1>3, <1>8, <1>9, <1>10, <1>11, <1>12 DEF SignalLifecycleInv, SessionInv

\* A review moves on without writing: what it knows afterwards is as the
\* invariant wants it, and it takes no lock another review owns.
LEMMA ReviewMovesOn ==
  ASSUME SignalLifecycleInv, NEW c \in Reviews, pc[c] # "done",
         TypeOK', UNCHANGED <<tableVars, kind>>,
         \A d \in Calls \ {c} : /\ pc'[d] = pc[d] /\ target'[d] = target[d]
                                /\ version'[d] = version[d],
         \A d \in Reviews \ {c} : seen'[d] = seen[d],
         \A s \in Runs : signalLock[s] # None => signalLock'[s] = signalLock[s],
         pc'[c] \in {"readPolicy", "lockSignal", "decide"},
         target'[c] \in Stored /\ seen'[c] \in 1..Len(policies),
         pc'[c] \in {"lockSignal", "decide"} => version'[c] \in seen'[c]..Len(policies),
         pc'[c] = "decide" => /\ signalLock'[target'[c]] = c
                              /\ signals[target'[c]].status = "CANDIDATE"
  PROVE  SignalLifecycleInv'
<1>1. /\ signals' = signals /\ evaluations' = evaluations /\ policies' = policies
      /\ kind' = kind /\ Stored' = Stored
  BY DEF tableVars, Stored
<1>2. StepsKnown' /\ UpdatesKnown'
  BY <1>1, CallsDiffer DEF SignalLifecycleInv, SessionInv, StepsKnown, UpdatesKnown
<1>3. RunsKnown'
  BY <1>1, CallsDiffer DEF SignalLifecycleInv, SessionInv, RunsKnown
<1>4. ReviewsKnown'
  <2>1. evaluations[c] = None
    BY DEF SignalLifecycleInv, SessionInv, ReviewsKnown
  <2>2. \A d \in Reviews : pc[d] = "decide" => target[d] \in Runs /\ signalLock[target[d]] = d
    BY DEF SignalLifecycleInv, SessionInv, ReviewsKnown, Stored
  <2>3. \A d \in Reviews \ {c} : pc[d] = "decide" => signalLock'[target[d]] = d
    BY <2>2, CallsDiffer
  <2> QED
    BY <1>1, <2>1, <2>3, CallsDiffer DEF SignalLifecycleInv, SessionInv, ReviewsKnown
<1>5. TableInv'
  <2>1. evaluations[c] = None
    BY DEF SignalLifecycleInv, SessionInv, ReviewsKnown
  <2> QED
    BY <2>1, TablesStay DEF SignalLifecycleInv
<1> QED
  BY <1>2, <1>3, <1>4, <1>5 DEF SignalLifecycleInv, SessionInv

LEMMA BeginReviewStep ==
  ASSUME SignalLifecycleInv, NEW c \in Reviews, NEW s \in Runs, BeginReview(c, s)
  PROVE  SignalLifecycleInv'
<1>1. /\ UNCHANGED <<tableVars, lockVars, version, kind>>
      /\ target' = [target EXCEPT ![c] = s] /\ pc' = [pc EXCEPT ![c] = "readPolicy"]
      /\ seen' = [seen EXCEPT ![c] = Len(policies)]
      /\ pc[c] = "idle" /\ s \in Stored
  BY DEF BeginReview, Candidates
<1>2. Len(policies) \in 1..Len(policies) /\ Len(policies) \in Nat
  BY PoliciesKnown DEF SignalLifecycleInv, TableInv
<1>3. TypeOK'
  BY <1>1, <1>2, CallsDiffer DEF SignalLifecycleInv, TypeOK, tableVars, lockVars
<1>4. pc'[c] = "readPolicy" /\ target'[c] = s /\ seen'[c] = Len(policies)
  BY <1>1, CallsDiffer DEF SignalLifecycleInv, TypeOK
<1>5. /\ \A d \in Calls \ {c} : pc'[d] = pc[d] /\ target'[d] = target[d] /\ version'[d] = version[d]
      /\ \A d \in Reviews \ {c} : seen'[d] = seen[d]
  BY <1>1 DEF SignalLifecycleInv, TypeOK
<1>6. signalLock' = signalLock
  BY <1>1 DEF lockVars
<1> QED
  BY <1>1, <1>2, <1>3, <1>4, <1>5, <1>6, ReviewMovesOn

LEMMA ReadPolicyStep ==
  ASSUME SignalLifecycleInv, NEW c \in Reviews, ReadPolicy(c)
  PROVE  SignalLifecycleInv'
<1>1. PICK v \in ActivePolicies : version' = [version EXCEPT ![c] = v]
  BY DEF ReadPolicy, PoliciesToApply
<1>2. /\ UNCHANGED <<tableVars, lockVars, target, kind, seen>>
      /\ pc' = [pc EXCEPT ![c] = "lockSignal"] /\ pc[c] = "readPolicy"
  BY DEF ReadPolicy
<1>3. v = Len(policies) /\ Len(policies) \in Nat
  BY PoliciesKnown DEF SignalLifecycleInv, TableInv
<1>4. TypeOK'
  BY <1>1, <1>2, <1>3, CallsDiffer DEF SignalLifecycleInv, TypeOK, tableVars, lockVars
<1>5. pc'[c] = "lockSignal" /\ target'[c] = target[c] /\ seen'[c] = seen[c] /\ version'[c] = v
  BY <1>1, <1>2, CallsDiffer DEF SignalLifecycleInv, TypeOK
<1>6. /\ \A d \in Calls \ {c} : pc'[d] = pc[d] /\ target'[d] = target[d] /\ version'[d] = version[d]
      /\ \A d \in Reviews \ {c} : seen'[d] = seen[d]
  BY <1>1, <1>2 DEF SignalLifecycleInv, TypeOK
<1>7. target[c] \in Stored /\ seen[c] \in 1..Len(policies)
  BY <1>2 DEF SignalLifecycleInv, SessionInv, ReviewsKnown
<1>8. version'[c] \in seen'[c]..Len(policies)
  BY <1>3, <1>5, <1>7
<1>9. signalLock' = signalLock
  BY <1>2 DEF lockVars
<1> QED
  BY <1>2, <1>4, <1>5, <1>6, <1>7, <1>8, <1>9, ReviewMovesOn

LEMMA LockSignalStep ==
  ASSUME SignalLifecycleInv, NEW c \in Reviews, LockSignal(c)
  PROVE  SignalLifecycleInv'
<1>1. /\ UNCHANGED <<tableVars, policyLock, target, version, kind, seen>>
      /\ signalLock' = [signalLock EXCEPT ![target[c]] = c]
      /\ pc' = [pc EXCEPT ![c] = "decide"] /\ pc[c] = "lockSignal"
      /\ signalLock[target[c]] = None /\ signals[target[c]].status = "CANDIDATE"
  BY DEF LockSignal, StillCandidate
<1>2. /\ target[c] \in Stored /\ seen[c] \in 1..Len(policies)
      /\ version[c] \in seen[c]..Len(policies)
  BY <1>1 DEF SignalLifecycleInv, SessionInv, ReviewsKnown
<1>3. TypeOK'
  BY <1>1, CallsDiffer DEF SignalLifecycleInv, TypeOK, tableVars
<1>4. pc'[c] = "decide" /\ target'[c] = target[c] /\ seen'[c] = seen[c] /\ version'[c] = version[c]
  BY <1>1, CallsDiffer DEF SignalLifecycleInv, TypeOK
<1>5. /\ \A d \in Calls \ {c} : pc'[d] = pc[d] /\ target'[d] = target[d] /\ version'[d] = version[d]
      /\ \A d \in Reviews \ {c} : seen'[d] = seen[d]
  BY <1>1 DEF SignalLifecycleInv, TypeOK
<1>6. /\ signalLock'[target[c]] = c
      /\ \A s \in Runs : signalLock[s] # None => signalLock'[s] = signalLock[s]
  BY <1>1, <1>2 DEF SignalLifecycleInv, TypeOK, Stored
<1> QED
  BY <1>1, <1>2, <1>3, <1>4, <1>5, <1>6, ReviewMovesOn

LEMMA UpdateMovesOn ==
  ASSUME SignalLifecycleInv, NEW c \in Updates, BeginUpdate(c) \/ Deactivate(c)
  PROVE  SignalLifecycleInv'
<1>1. /\ signals' = signals /\ evaluations' = evaluations /\ policies' = policies
      /\ kind' = kind /\ seen' = seen /\ target' = target /\ signalLock' = signalLock
      /\ Stored' = Stored
  BY DEF BeginUpdate, Deactivate, tableVars, lockVars, Stored
<1>2. \A v \in ActivePolicies : v \in DOMAIN policies /\ v \in Nat
  BY PoliciesKnown DEF SignalLifecycleInv, TableInv, ActivePolicies
<1>3. /\ pc' \in [Calls -> {"idle", "persist", "readPolicy", "lockSignal", "decide",
                            "deactivate", "activate", "done"}]
      /\ version' \in [Calls -> Nat \cup {None}]
      /\ policyLock' \in Updates \cup {None}
  BY <1>2, CallsDiffer DEF BeginUpdate, Deactivate, SignalLifecycleInv, TypeOK, lockVars
<1>4. /\ pc'[c] \in {"deactivate", "activate"} /\ version'[c] \in DOMAIN policies
      /\ \A d \in Calls \ {c} : pc'[d] = pc[d] /\ version'[d] = version[d]
  <2>1. CASE BeginUpdate(c)
    BY <2>1, <1>2, CallsDiffer DEF BeginUpdate, SignalLifecycleInv, TypeOK
  <2>2. CASE Deactivate(c)
    BY <2>2, CallsDiffer
       DEF Deactivate, SignalLifecycleInv, TypeOK, SessionInv, UpdatesKnown
  <2> QED
    BY <2>1, <2>2
<1>5. TypeOK'
  BY <1>1, <1>3 DEF SignalLifecycleInv, TypeOK
<1>6. StepsKnown' /\ UpdatesKnown'
  BY <1>1, <1>4, CallsDiffer DEF SignalLifecycleInv, SessionInv, StepsKnown, UpdatesKnown
<1>7. RunsKnown' /\ ReviewsKnown'
  BY <1>1, <1>4, CallsDiffer DEF SignalLifecycleInv, SessionInv, RunsKnown, ReviewsKnown
<1>8. TableInv'
  BY <1>1, TablesStay DEF SignalLifecycleInv, tableVars
<1> QED
  BY <1>5, <1>6, <1>7, <1>8 DEF SignalLifecycleInv, SessionInv

-----------------------------------------------------------------------------
(* Steps that write *)

LEMMA PersistStep ==
  ASSUME SignalLifecycleInv, NEW c \in Runs, Persist(c)
  PROVE  SignalLifecycleInv'
<1>0. PICK began \in 0..seen[c] :
        signals' = [Superseding(target[c]) EXCEPT ![c] =
          [kind |-> kind[c], status |-> "CANDIDATE", fresh |-> TRUE,
           born |-> Cardinality(Stored) + 1, began |-> began]]
  BY DEF Persist
<1> DEFINE new == [kind |-> kind[c], status |-> "CANDIDATE", fresh |-> TRUE,
                   born |-> Cardinality(Stored) + 1, began |-> began]
           t == target[c]
           old == [signals[t] EXCEPT !.status = "SUPERSEDED"]
<1>1. /\ pc[c] = "persist" /\ Finish(c) /\ CanUpdate(t)
      /\ evaluations' = evaluations /\ policies' = policies
      /\ kind' = kind /\ seen' = seen
      /\ signals' = [Superseding(t) EXCEPT ![c] = new]
  BY <1>0 DEF Persist
<1>2. /\ signals[c] = None /\ t \in Stored \cup {None} /\ kind[c] \in Kinds
      /\ c \in Calls /\ c \notin Stored
  BY <1>1, CallsDiffer DEF SignalLifecycleInv, SessionInv, RunsKnown, Stored
<1>3. new \in SignalRows /\ new # None /\ new.status = "CANDIDATE"
  <2>1. new \in SignalRows
    <3>1. Cardinality(Stored) + 1 \in Nat /\ began \in Nat
      BY StoredIsCounted, SeenOfRuns DEF SignalLifecycleInv
    <3> QED
      BY <1>2, <3>1 DEF SignalRows
  <2> QED
    BY <2>1, NullAssumption
<1>4. /\ Superseding(t) = IF t = None THEN signals ELSE [signals EXCEPT ![t] = old]
      /\ t # None => old \in SignalRows /\ old # None /\ old.status = "SUPERSEDED"
  <2>1. t # None => signals[t] \in SignalRows
    BY <1>2 DEF SignalLifecycleInv, TypeOK, Stored
  <2> QED
    BY <2>1, NullAssumption DEF Superseding, SignalRows
<1> HIDE DEF new, old, t
<1>5. /\ signals \in [Runs -> SignalRows \cup {None}]
      /\ None \notin Runs /\ (t # None => t \in Runs /\ signals[t] # None)
  BY <1>2, CallsDiffer DEF SignalLifecycleInv, TypeOK, Stored
<1>6. /\ signals' \in [Runs -> SignalRows \cup {None}] /\ signals'[c] = new
      /\ \A s \in Runs \ {c, t} : signals'[s] = signals[s]
      /\ t # None => signals'[t] = old
  BY <1>1, <1>2, <1>3, <1>4, <1>5
<1>7. /\ \A s \in Stored : /\ s \in Stored' /\ s # c
                           /\ s # t => signals'[s] = signals[s]
                           /\ s = t => signals'[s].status = "SUPERSEDED"
      /\ \A s \in Stored' : s = c \/ s \in Stored
  BY <1>2, <1>4, <1>5, <1>6 DEF Stored
<1>8. TypeOK'
  BY <1>1, <1>2, <1>6, FinishFacts DEF SignalLifecycleInv, TypeOK
<1>9. StepsKnown' /\ UpdatesKnown'
  BY <1>1, <1>2, FinishFacts, CallsDiffer
     DEF SignalLifecycleInv, SessionInv, StepsKnown, UpdatesKnown
<1>10. RunsKnown'
  <2>1. \A d \in Runs \ {c} : signals[d] = None => signals'[d] = None
    BY <1>2, <1>5, <1>6 DEF Stored
  <2>2. \A d \in Runs \ {c} : target[d] \in Stored \cup {None} => target[d] \in Stored' \cup {None}
    BY <1>7
  <2> QED
    BY <1>1, <1>2, <2>1, <2>2, FinishFacts, CallsDiffer
       DEF SignalLifecycleInv, SessionInv, RunsKnown
<1>11. ReviewsKnown'
  <2> SUFFICES ASSUME NEW d \in Reviews
               PROVE  /\ pc'[d] # "done" => evaluations'[d] = None
                      /\ pc'[d] \in {"readPolicy", "lockSignal", "decide"} =>
                           target'[d] \in Stored' /\ seen'[d] \in 1..Len(policies')
                      /\ pc'[d] \in {"lockSignal", "decide"} =>
                           version'[d] \in seen'[d]..Len(policies')
                      /\ pc'[d] = "decide" => /\ signalLock'[target'[d]] = d
                                              /\ signals'[target'[d]].status = "CANDIDATE"
    BY DEF ReviewsKnown
  <2>1. /\ d # c /\ d # None /\ pc'[d] = pc[d] /\ target'[d] = target[d] /\ version'[d] = version[d]
        /\ \A s \in Runs : signalLock[s] = d => signalLock'[s] = d
    BY <1>1, <1>2, FinishFacts, CallsDiffer DEF SignalLifecycleInv
  <2>2. /\ pc[d] # "done" => evaluations[d] = None
        /\ pc[d] \in {"readPolicy", "lockSignal", "decide"} =>
             target[d] \in Stored /\ seen[d] \in 1..Len(policies)
        /\ pc[d] \in {"lockSignal", "decide"} => version[d] \in seen[d]..Len(policies)
        /\ pc[d] = "decide" => /\ signalLock[target[d]] = d
                               /\ signals[target[d]].status = "CANDIDATE"
    BY DEF SignalLifecycleInv, SessionInv, ReviewsKnown
  <2>3. pc[d] = "decide" => /\ signalLock'[target[d]] = d
                            /\ signals'[target[d]].status = "CANDIDATE"
    <3>1. pc[d] = "decide" => target[d] # t
      BY <1>1, <1>2, <2>1, <2>2, CallsDiffer DEF CanUpdate, Stored
    <3> QED
      BY <1>7, <2>1, <2>2, <3>1 DEF Stored
  <2> QED
    BY <1>1, <1>7, <2>1, <2>2, <2>3
<1>12. EvaluationsKnown' /\ OneEvaluationPerSignal'
  BY <1>1, <1>7 DEF SignalLifecycleInv, TableInv, EvaluationsKnown, OneEvaluationPerSignal
<1>13. StatusHasItsEvaluation'
  <2>1. \A d \in Reviews : evaluations[d] # None => evaluations[d].signal # c
    BY <1>2 DEF SignalLifecycleInv, TableInv, EvaluationsKnown
  <2>2. \A s \in Stored : signals'[s].status = signals[s].status
                          \/ signals'[s].status = "SUPERSEDED"
    BY <1>7
  <2>3. signals'[c].status = "CANDIDATE"
    BY <1>3, <1>6
  <2> QED
    BY <1>1, <1>7, <2>1, <2>2, <2>3
       DEF SignalLifecycleInv, TableInv, StatusHasItsEvaluation
<1>14. OneActivePolicy' /\ DecidedByAPolicyInForce'
  BY <1>1 DEF SignalLifecycleInv, TableInv, OneActivePolicy, ActivePolicies,
              DecidedByAPolicyInForce
<1> QED
  BY <1>8, <1>9, <1>10, <1>11, <1>12, <1>13, <1>14
     DEF SignalLifecycleInv, SessionInv, TableInv

LEMMA AgeStep ==
  ASSUME SignalLifecycleInv, NEW s \in Runs, Age(s)
  PROVE  SignalLifecycleInv'
<1>1. /\ s \in Stored /\ signals' = [signals EXCEPT ![s].fresh = FALSE]
      /\ UNCHANGED <<evaluations, policies, signalLock, policyLock, pc, target, version, kind, seen>>
  BY DEF Age, lockVars, sessionVars
<1>2. /\ signals[s] \in SignalRows /\ [signals[s] EXCEPT !.fresh = FALSE] \in SignalRows
      /\ [signals[s] EXCEPT !.fresh = FALSE].status = signals[s].status
  BY <1>1 DEF SignalLifecycleInv, TypeOK, Stored, SignalRows
<1>3. TypeOK'
  BY <1>1, <1>2 DEF SignalLifecycleInv, TypeOK
<1>4. /\ Stored' = Stored
      /\ \A x \in Runs : signals'[x] = None <=> signals[x] = None
      /\ \A x \in Stored : signals'[x].status = signals[x].status
  BY <1>1, <1>2, NullAssumption DEF SignalLifecycleInv, TypeOK, Stored
<1>5. SessionInv'
  BY <1>1, <1>4
     DEF SignalLifecycleInv, SessionInv, StepsKnown, RunsKnown, ReviewsKnown, UpdatesKnown
<1>6. TableInv'
  BY <1>1, <1>4
     DEF SignalLifecycleInv, TableInv, EvaluationsKnown, OneEvaluationPerSignal,
         StatusHasItsEvaluation, OneActivePolicy, ActivePolicies, DecidedByAPolicyInForce
<1> QED
  BY <1>3, <1>5, <1>6 DEF SignalLifecycleInv

\* What a decision leaves behind, but for the policy it was taken under.
LEMMA DecideStep ==
  ASSUME SignalLifecycleInv, NEW c \in Reviews, pc[c] = "decide",
         NEW status, NEW decision,
         \/ status = "RISK_APPROVED" /\ decision = "APPROVED" /\ PassesGates(c)
         \/ status = "RISK_REJECTED" /\ decision = "REJECTED",
         Decide(c, status, decision)
  PROVE  SignalLifecycleInv'
<1> DEFINE t == target[c]
           row == [signal |-> t, decision |-> decision, version |-> version[c]]
           now == [signals[t] EXCEPT !.status = status]
<1>1. /\ evaluations' = [evaluations EXCEPT ![c] = row]
      /\ signals' = [signals EXCEPT ![t] = now]
      /\ Finish(c) /\ policies' = policies /\ kind' = kind /\ seen' = seen
  BY DEF Decide
<1>2. /\ t \in Stored /\ t \in Runs /\ signals[t] # None /\ seen[c] \in 1..Len(policies)
      /\ version[c] \in seen[c]..Len(policies)
      /\ signalLock[t] = c /\ signals[t].status = "CANDIDATE"
      /\ evaluations[c] = None /\ c \in Calls
  BY CallsDiffer DEF SignalLifecycleInv, SessionInv, ReviewsKnown, Stored
<1>3. row \in EvaluationRows /\ row # None
      /\ row.signal = t /\ row.decision = decision /\ row.version = version[c]
  <2>1. version[c] \in Nat
    BY <1>2, PoliciesKnown DEF SignalLifecycleInv, TableInv
  <2>2. row \in EvaluationRows
    BY <1>2, <2>1 DEF EvaluationRows
  <2> QED
    BY <2>2, NullAssumption
<1>4. now \in SignalRows /\ now # None /\ now.status = status
  <2>1. signals[t] \in SignalRows
    BY <1>2 DEF SignalLifecycleInv, TypeOK
  <2>2. now \in SignalRows /\ now.status = status
    BY <2>1 DEF SignalRows
  <2> QED
    BY <2>2, NullAssumption
<1>5. decision = "APPROVED" => policies[version[c]].enabled
  BY DEF PassesGates
<1> HIDE DEF t, row, now
<1>6. /\ evaluations' \in [Reviews -> EvaluationRows \cup {None}] /\ evaluations'[c] = row
      /\ \A d \in Reviews \ {c} : evaluations'[d] = evaluations[d]
  BY <1>1, <1>3 DEF SignalLifecycleInv, TypeOK
<1>7. /\ signals' \in [Runs -> SignalRows \cup {None}] /\ signals'[t] = now
      /\ \A s \in Runs \ {t} : signals'[s] = signals[s]
  BY <1>1, <1>2, <1>4 DEF SignalLifecycleInv, TypeOK
<1>8. Stored' = Stored
  BY <1>2, <1>4, <1>7 DEF Stored
<1>9. TypeOK'
  BY <1>1, <1>2, <1>6, <1>7, FinishFacts DEF SignalLifecycleInv, TypeOK
<1>10. StepsKnown' /\ UpdatesKnown'
  BY <1>1, <1>2, FinishFacts, CallsDiffer
     DEF SignalLifecycleInv, SessionInv, StepsKnown, UpdatesKnown
<1>11. RunsKnown'
  <2>1. \A d \in Runs : signals[d] = None => signals'[d] = None
    BY <1>2, <1>7
  <2> QED
    BY <1>1, <1>2, <1>8, <2>1, FinishFacts, CallsDiffer
       DEF SignalLifecycleInv, SessionInv, RunsKnown
<1>12. ReviewsKnown'
  <2>1. \A d \in Reviews \ {c} : /\ d \in Calls /\ pc'[d] = pc[d] /\ target'[d] = target[d]
                                 /\ version'[d] = version[d]
                                 /\ \A s \in Runs : signalLock[s] = d => signalLock'[s] = d
    BY <1>1, <1>2, FinishFacts, CallsDiffer DEF SignalLifecycleInv
  <2>2. \A d \in Reviews \ {c} : pc[d] = "decide" =>
          /\ signalLock'[target[d]] = d
          /\ signals'[target[d]].status = "CANDIDATE"
    <3>1. \A d \in Reviews : pc[d] = "decide" =>
            /\ target[d] \in Runs /\ signalLock[target[d]] = d
            /\ signals[target[d]].status = "CANDIDATE"
      BY DEF SignalLifecycleInv, SessionInv, ReviewsKnown, Stored
    <3>2. \A d \in Reviews \ {c} : pc[d] = "decide" => target[d] # t
      BY <1>2, <3>1
    <3> QED
      BY <1>7, <2>1, <3>1, <3>2
  <2>3. pc'[c] = "done"
    BY <1>1, <1>2, FinishFacts DEF SignalLifecycleInv
  <2> QED
    BY <1>1, <1>6, <1>8, <2>1, <2>2, <2>3 DEF SignalLifecycleInv, SessionInv, ReviewsKnown
<1>13. EvaluationsKnown'
  <2>1. version[c] \in DOMAIN policies
    BY <1>2, PoliciesKnown DEF SignalLifecycleInv, TableInv
  <2> QED
    BY <1>1, <1>2, <1>3, <1>6, <1>8, <2>1 DEF SignalLifecycleInv, TableInv, EvaluationsKnown
<1>14. \A d \in Reviews \ {c} : evaluations[d] # None => evaluations[d].signal # t
  <2>1. \A d \in Reviews : evaluations[d] # None => evaluations[d].decision \in {"APPROVED", "REJECTED"}
    BY DEF SignalLifecycleInv, TypeOK, EvaluationRows
  <2> QED
    BY <1>2, <2>1 DEF SignalLifecycleInv, TableInv, StatusHasItsEvaluation
<1>15. OneEvaluationPerSignal'
  BY <1>3, <1>6, <1>14 DEF SignalLifecycleInv, TableInv, OneEvaluationPerSignal
<1>16. StatusHasItsEvaluation'
  <2> SUFFICES ASSUME NEW s \in Stored
               PROVE  LET decided(x) == \E d \in Reviews : /\ evaluations'[d] # None
                                                           /\ evaluations'[d].signal = s
                                                           /\ evaluations'[d].decision = x
                      IN /\ signals'[s].status = "RISK_APPROVED" => decided("APPROVED")
                         /\ signals'[s].status = "RISK_REJECTED" => decided("REJECTED")
                         /\ signals'[s].status = "CANDIDATE" =>
                              ~decided("APPROVED") /\ ~decided("REJECTED")
    BY <1>8 DEF StatusHasItsEvaluation
  <2>1. CASE s = t
    BY <2>1, <1>3, <1>4, <1>6, <1>7
  <2>2. CASE s # t
    BY <2>2, <1>2, <1>3, <1>6, <1>7
       DEF SignalLifecycleInv, TableInv, StatusHasItsEvaluation, Stored
  <2> QED
    BY <2>1, <2>2
<1>17. OneActivePolicy'
  BY <1>1 DEF SignalLifecycleInv, TableInv, OneActivePolicy, ActivePolicies
<1>18. DecidedByAPolicyInForce'
  BY <1>1, <1>2, <1>3, <1>5, <1>6 DEF SignalLifecycleInv, TableInv, DecidedByAPolicyInForce
<1> QED
  BY <1>9, <1>10, <1>11, <1>12, <1>13, <1>15, <1>16, <1>17, <1>18
     DEF SignalLifecycleInv, SessionInv, TableInv

LEMMA ActivateStep ==
  ASSUME SignalLifecycleInv, NEW c \in Updates, Activate(c)
  PROVE  SignalLifecycleInv'
<1> DEFINE n == Len(policies)
           v == version[c]
<1>1. PICK e \in BOOLEAN : policies' = Append(Deactivated(v), [active |-> TRUE, enabled |-> e])
  BY DEF Activate
<1>2. /\ pc[c] = "activate" /\ ~VersionTaken(c) /\ Finish(c)
      /\ signals' = signals /\ evaluations' = evaluations /\ kind' = kind /\ seen' = seen
      /\ Stored' = Stored /\ c \in Calls
  BY CallsDiffer DEF Activate, Stored
<1>3. /\ n \in Nat \ {0} /\ DOMAIN policies = 1..n /\ policies \in Seq(PolicyRows)
      /\ \A i \in 1..n : policies[i] \in PolicyRows
  BY PoliciesKnown DEF SignalLifecycleInv, TableInv, TypeOK
<1>4. v = n
  <2>1. v \in 1..n /\ v + 1 \notin 1..n
    BY <1>2, <1>3 DEF VersionTaken, SignalLifecycleInv, SessionInv, UpdatesKnown
  <2> QED
    BY <1>3, <2>1
<1> DEFINE off == [policies[n] EXCEPT !.active = FALSE]
           on == [active |-> TRUE, enabled |-> e]
<1>5. /\ off \in PolicyRows /\ off.active = FALSE /\ off.enabled = policies[n].enabled
      /\ on \in PolicyRows /\ on.active = TRUE
  <2>1. policies[n] \in PolicyRows
    BY <1>3
  <2>2. \A p \in PolicyRows : LET q == [p EXCEPT !.active = FALSE]
                             IN q \in PolicyRows /\ q.active = FALSE /\ q.enabled = p.enabled
    BY DEF PolicyRows
  <2>3. on \in PolicyRows /\ on.active = TRUE
    BY DEF PolicyRows
  <2> HIDE DEF n, on
  <2> QED
    BY <2>1, <2>2, <2>3
<1>6. policies' = Append([policies EXCEPT ![n] = off], on)
  BY <1>1, <1>4 DEF Deactivated
<1> HIDE DEF n, v, off, on
<1>7. /\ [policies EXCEPT ![n] = off] \in Seq(PolicyRows)
      /\ Len([policies EXCEPT ![n] = off]) = n
  BY <1>3, <1>5 DEF n
<1>8. /\ policies' \in Seq(PolicyRows) /\ Len(policies') = n + 1
      /\ DOMAIN policies' = 1..(n + 1) /\ policies'[n + 1] = on
      /\ policies'[n] = off /\ \A i \in 1..n : i # n => policies'[i] = policies[i]
  <2> DEFINE q == [policies EXCEPT ![n] = off]
  <2>1. q \in Seq(PolicyRows) /\ Len(q) = n /\ policies' = Append(q, on)
    BY <1>6, <1>7
  <2>2. q[n] = off /\ \A i \in 1..n : i # n => q[i] = policies[i]
    BY <1>3
  <2> HIDE DEF q
  <2> QED
    BY <1>3, <1>5, <2>1, <2>2
<1>9. \A i \in 1..n : policies'[i].enabled = policies[i].enabled
  BY <1>5, <1>8
<1>10. TypeOK'
  BY <1>2, <1>8, FinishFacts DEF SignalLifecycleInv, TypeOK
<1>11. StepsKnown' /\ RunsKnown'
  BY <1>2, FinishFacts, CallsDiffer DEF SignalLifecycleInv, SessionInv, StepsKnown, RunsKnown
<1>12. UpdatesKnown'
  BY <1>2, <1>3, <1>8, FinishFacts, CallsDiffer
     DEF SignalLifecycleInv, SessionInv, UpdatesKnown, n
<1>13. ReviewsKnown'
  <2>1. \A d \in Reviews : /\ d # c /\ pc'[d] = pc[d] /\ target'[d] = target[d]
                           /\ version'[d] = version[d]
                           /\ \A s \in Runs : signalLock[s] = d => signalLock'[s] = d
    BY <1>2, FinishFacts, CallsDiffer DEF SignalLifecycleInv
  <2>2. \A d \in Reviews : pc[d] = "decide" => signalLock'[target[d]] = d
    BY <2>1 DEF SignalLifecycleInv, SessionInv, ReviewsKnown, Stored
  <2>3. \A x \in Nat : /\ x \in 1..n => x \in 1..(n + 1)
                       /\ \A y \in x..n : y \in x..(n + 1)
    BY <1>3
  <2>4. \A d \in Reviews : pc[d] \in {"readPolicy", "lockSignal", "decide"} => seen[d] \in Nat
    BY <1>3 DEF SignalLifecycleInv, SessionInv, ReviewsKnown, n
  <2> QED
    BY <1>2, <1>8, <2>1, <2>2, <2>3, <2>4
       DEF SignalLifecycleInv, SessionInv, ReviewsKnown, n
<1>14. EvaluationsKnown' /\ OneEvaluationPerSignal' /\ StatusHasItsEvaluation'
  BY <1>2, <1>3, <1>8 DEF SignalLifecycleInv, TableInv, EvaluationsKnown, OneEvaluationPerSignal,
              StatusHasItsEvaluation
<1>15. OneActivePolicy'
  <2>1. \A i \in 1..n : policies[i].active => i = n
    BY <1>3 DEF SignalLifecycleInv, TableInv, OneActivePolicy, ActivePolicies, n
  <2>2. \A i \in 1..(n + 1) : policies'[i].active <=> i = n + 1
    BY <1>3, <1>5, <1>8, <2>1
  <2> QED
    BY <1>3, <1>8, <2>2 DEF OneActivePolicy, ActivePolicies
<1>16. DecidedByAPolicyInForce'
  <2> SUFFICES ASSUME NEW d \in Reviews, evaluations[d] # None
               PROVE  /\ evaluations[d].version \in seen[d]..(n + 1)
                      /\ evaluations[d].decision = "APPROVED" =>
                           policies'[evaluations[d].version].enabled
    BY <1>2, <1>8 DEF DecidedByAPolicyInForce
  <2>1. /\ evaluations[d].version \in seen[d]..n /\ seen[d] \in Nat
        /\ evaluations[d].version \in 1..n
        /\ evaluations[d].decision = "APPROVED" => policies[evaluations[d].version].enabled
    BY <1>3 DEF SignalLifecycleInv, TypeOK, TableInv, EvaluationsKnown,
                DecidedByAPolicyInForce, n
  <2> QED
    BY <1>3, <1>9, <2>1
<1> QED
  BY <1>10, <1>11, <1>12, <1>13, <1>14, <1>15, <1>16
     DEF SignalLifecycleInv, SessionInv, TableInv

-----------------------------------------------------------------------------

LEMMA NextKeepsInv == SignalLifecycleInv /\ [Next]_vars => SignalLifecycleInv'
<1> SUFFICES ASSUME SignalLifecycleInv, [Next]_vars PROVE SignalLifecycleInv'
  OBVIOUS
<1>1. CASE \E c \in Runs : RunStep(c)
  <2>1. PICK c \in Runs : RunStep(c)
    BY <1>1
  <2>2. c \in Calls
    BY CallsDiffer
  <2> QED
    BY <2>1, <2>2, EndStep, FindStep, PersistStep DEF RunStep, ReturnExisting
<1>2. CASE \E c \in Reviews : ReviewStep(c)
  <2>1. PICK c \in Reviews : ReviewStep(c)
    BY <1>2
  <2>2. c \in Calls
    BY CallsDiffer
  <2>3. CASE \E s \in Runs : BeginReview(c, s)
    BY <2>3, BeginReviewStep
  <2>4. CASE AlreadyDecided(c) \/ \E s \in Runs : RefuseReview(c, s)
    BY <2>2, <2>4, EndStep DEF AlreadyDecided, RefuseReview
  <2>5. CASE ReadPolicy(c) \/ LockSignal(c)
    BY <2>5, ReadPolicyStep, LockSignalStep
  <2>6. CASE Approve(c) \/ Reject(c)
    BY <2>6, DecideStep DEF Approve, Reject
  <2> QED
    BY <2>1, <2>3, <2>4, <2>5, <2>6 DEF ReviewStep
<1>3. CASE \E c \in Updates : UpdateStep(c)
  <2>1. PICK c \in Updates : UpdateStep(c)
    BY <1>3
  <2>2. c \in Calls
    BY CallsDiffer
  <2> QED
    BY <2>1, <2>2, EndStep, UpdateMovesOn, ActivateStep DEF UpdateStep, LoseUpdate
<1>4. CASE \E c \in Calls : Fail(c)
  BY <1>4, EndStep DEF Fail
<1>5. CASE \E s \in Runs : Age(s)
  BY <1>5, AgeStep
<1>6. CASE UNCHANGED vars
  <2>1. /\ UNCHANGED <<signals, evaluations, policies, signalLock, policyLock>>
        /\ UNCHANGED <<pc, target, version, kind, seen>>
    BY <1>6 DEF vars, tableVars, lockVars, sessionVars
  <2>2. TypeOK' /\ SessionInv'
    BY <2>1 DEF SignalLifecycleInv, TypeOK, SessionInv, StepsKnown, RunsKnown, ReviewsKnown,
                UpdatesKnown, Stored
  <2> QED
    BY <2>1, <2>2, TablesStay DEF SignalLifecycleInv, tableVars
<1> QED
  BY <1>1, <1>2, <1>3, <1>4, <1>5, <1>6 DEF Next

\* The inductive invariant: what each call knows at each step and what the
\* tables contain, for any number of evaluations, reviews and updates.
THEOREM LifecycleInvariant == Spec => []SignalLifecycleInv
BY InitInv, NextKeepsInv, PTL DEF Spec

\* A signal is decided at most once, however many reviews overlap
\* (RiskService.evaluate_signal).
THEOREM DecidedAtMostOnce == Spec => []OneEvaluationPerSignal
<1>1. SignalLifecycleInv => OneEvaluationPerSignal
  BY DEF SignalLifecycleInv, TableInv
<1> QED
  BY <1>1, LifecycleInvariant, PTL

\* A signal shows a decision exactly if an evaluation accounts for it, but for
\* one superseded since (RiskService.evaluate_signal, SignalService._persist).
THEOREM StatusAccountedFor == Spec => []StatusHasItsEvaluation
<1>1. SignalLifecycleInv => StatusHasItsEvaluation
  BY DEF SignalLifecycleInv, TableInv
<1> QED
  BY <1>1, LifecycleInvariant, PTL

\* One policy is active, the newest (RiskService.update_policy).
THEOREM AlwaysOneActivePolicy == Spec => []OneActivePolicy
<1>1. SignalLifecycleInv => OneActivePolicy
  BY DEF SignalLifecycleInv, TableInv
<1> QED
  BY <1>1, LifecycleInvariant, PTL

\* A decision rests on a policy that was in force during its review, an
\* approval on one that was not paused (RiskService.evaluate_signal).
THEOREM PolicyWasInForce == Spec => []DecidedByAPolicyInForce
<1>1. SignalLifecycleInv => DecidedByAPolicyInForce
  BY DEF SignalLifecycleInv, TableInv
<1> QED
  BY <1>1, LifecycleInvariant, PTL

-----------------------------------------------------------------------------
(* The refinement of RiskPromise *)

\* What the mapping makes of a signal's evaluations.
VerdictsMapped ==
  \A s \in Runs :
    /\ EvaluationsOf(s) = {} => VerdictMap[s] = None
    /\ \A c \in EvaluationsOf(s) :
         VerdictMap[s] = [decision |-> evaluations[c].decision, version |-> evaluations[c].version]

LEMMA VerdictsAreMapped == OneEvaluationPerSignal => VerdictsMapped
<1> SUFFICES ASSUME OneEvaluationPerSignal, NEW s \in Runs
             PROVE  /\ EvaluationsOf(s) = {} => VerdictMap[s] = None
                    /\ \A c \in EvaluationsOf(s) :
                         VerdictMap[s] = [decision |-> evaluations[c].decision,
                                          version |-> evaluations[c].version]
  BY DEF VerdictsMapped
<1>1. \A c \in EvaluationsOf(s) : EvaluationsOf(s) = {c}
  BY DEF OneEvaluationPerSignal, EvaluationsOf
<1>2. \A c \in EvaluationsOf(s) : (CHOOSE d \in EvaluationsOf(s) : TRUE) = c
  BY <1>1
<1> QED
  BY <1>2 DEF VerdictMap

LEMMA VerdictStays ==
  ASSUME SignalLifecycleInv, SignalLifecycleInv', NEW s \in Runs,
         EvaluationsOf(s)' = EvaluationsOf(s),
         \A c \in EvaluationsOf(s) : evaluations'[c] = evaluations[c]
  PROVE  VerdictMap'[s] = VerdictMap[s]
<1>1. VerdictsMapped /\ VerdictsMapped'
  BY VerdictsAreMapped, PTL DEF SignalLifecycleInv, TableInv
<1>2. CASE EvaluationsOf(s) = {}
  BY <1>1, <1>2 DEF VerdictsMapped
<1>3. CASE EvaluationsOf(s) # {}
  <2>1. PICK c \in EvaluationsOf(s) : c \in EvaluationsOf(s)'
    BY <1>3
  <2>2. VerdictMap[s] = [decision |-> evaluations[c].decision, version |-> evaluations[c].version]
    BY <1>1, <2>1, Zenon DEF VerdictsMapped
  <2>3. VerdictMap'[s] = [decision |-> evaluations'[c].decision, version |-> evaluations'[c].version]
    BY <1>1, <2>1, Zenon DEF VerdictsMapped
  <2> QED
    BY <2>1, <2>2, <2>3
<1> QED
  BY <1>2, <1>3

\* What it makes of the policies.
PoliciesMapped ==
  /\ PoliciesMap \in Seq(BOOLEAN)
  /\ Len(PoliciesMap) = Len(policies)
  /\ DOMAIN PoliciesMap = 1..Len(policies)
  /\ \A v \in 1..Len(policies) : PoliciesMap[v] = policies[v].enabled

LEMMA PoliciesAreMapped == TypeOK => PoliciesMapped
<1> SUFFICES ASSUME policies \in Seq(PolicyRows) PROVE PoliciesMapped
  BY DEF TypeOK
<1> DEFINE n == Len(policies)
<1>1. n \in Nat /\ DOMAIN policies = 1..n /\ \A v \in 1..n : policies[v].enabled \in BOOLEAN
  <2>1. n \in Nat /\ DOMAIN policies = 1..n /\ \A v \in 1..n : policies[v] \in PolicyRows
    OBVIOUS
  <2>2. \A p \in PolicyRows : p.enabled \in BOOLEAN
    BY DEF PolicyRows
  <2> HIDE DEF n
  <2> QED
    BY <2>1, <2>2
<1>2. PoliciesMap = [v \in 1..n |-> policies[v].enabled]
  BY <1>1 DEF PoliciesMap
<1> HIDE DEF n
<1>3. PoliciesMap \in [1..n -> BOOLEAN]
  BY <1>1, <1>2
<1>4. PoliciesMap \in Seq(BOOLEAN) /\ Len(PoliciesMap) = n
  BY <1>1, <1>3
<1> QED
  BY <1>2, <1>4 DEF n, PoliciesMapped

LEMMA PromiseInit == Init => Promise!Init
<1> SUFFICES ASSUME Init PROVE Promise!Init
  OBVIOUS
<1>1. RowsMap = [s \in Runs |-> None]
  BY DEF Init, RowsMap, Stored
<1>2. VerdictMap = [s \in Runs |-> None]
  BY DEF Init, VerdictMap, EvaluationsOf
<1>3. PoliciesMap = <<TRUE>>
  <2>1. policies \in Seq(PolicyRows) /\ Len(policies) = 1 /\ policies[1].enabled = TRUE
    BY DEF Init, PolicyRows
  <2>2. /\ PoliciesMap \in Seq(BOOLEAN) /\ Len(PoliciesMap) = 1
        /\ PoliciesMap[1] = TRUE
    BY <2>1, InitInv, PoliciesAreMapped DEF PoliciesMapped, SignalLifecycleInv
  <2>3. <<TRUE>> \in Seq(BOOLEAN) /\ Len(<<TRUE>>) = 1 /\ <<TRUE>>[1] = TRUE
    OBVIOUS
  <2>4. \A i \in 1..Len(PoliciesMap) : PoliciesMap[i] = <<TRUE>>[i]
    <3>1. \A i \in 1..1 : i = 1
      OBVIOUS
    <3> QED
      BY <2>2, <2>3, <3>1, Zenon
  <2> QED
    BY <2>2, <2>3, <2>4, SeqEqual, Zenon
<1> QED
  BY <1>1, <1>2, <1>3 DEF Promise!Init

LEMMA TablesMapped ==
  ASSUME UNCHANGED tableVars
  PROVE  UNCHANGED <<RowsMap, VerdictMap, PoliciesMap>>
BY DEF tableVars, RowsMap, VerdictMap, PoliciesMap, Stored, EvaluationsOf

LEMMA AgeIsStutter ==
  ASSUME SignalLifecycleInv, NEW s \in Runs, Age(s)
  PROVE  UNCHANGED <<RowsMap, VerdictMap, PoliciesMap>>
<1>1. /\ s \in Stored /\ signals' = [signals EXCEPT ![s].fresh = FALSE]
      /\ evaluations' = evaluations /\ policies' = policies
  BY DEF Age
<1>2. /\ signals[s] \in SignalRows /\ [signals[s] EXCEPT !.fresh = FALSE] \in SignalRows
      /\ [signals[s] EXCEPT !.fresh = FALSE].status = signals[s].status
      /\ [signals[s] EXCEPT !.fresh = FALSE].kind = signals[s].kind
  BY <1>1 DEF SignalLifecycleInv, TypeOK, Stored, SignalRows
<1>3. /\ Stored' = Stored
      /\ \A x \in Stored : signals'[x].status = signals[x].status /\ signals'[x].kind = signals[x].kind
  BY <1>1, <1>2, NullAssumption DEF SignalLifecycleInv, TypeOK, Stored
<1> QED
  BY <1>1, <1>3 DEF RowsMap, VerdictMap, PoliciesMap, EvaluationsOf

LEMMA EmittedAreStored ==
  ASSUME TypeOK
  PROVE  Promise!Emitted = Stored
<1>1. \A s \in Stored : RowsMap[s] # None
  <2> SUFFICES ASSUME NEW s \in Stored PROVE RowsMap[s] # None
    OBVIOUS
  <2>1. /\ RowsMap[s] = [kind |-> signals[s].kind, status |-> signals[s].status]
        /\ signals[s] \in SignalRows
    BY DEF RowsMap, TypeOK, Stored
  <2> QED
    BY <2>1, PromiseAssumption DEF SignalRows
<1> QED
  BY <1>1 DEF Promise!Emitted, RowsMap, Stored

LEMMA PersistIsEmit ==
  ASSUME SignalLifecycleInv, NEW c \in Runs, Persist(c)
  PROVE  /\ kind[c] \in Kinds /\ Promise!Emit(c, kind[c])
         /\ c \in (Promise!Emitted)' \ Promise!Emitted
<1>0. PICK began \in 0..seen[c] :
        signals' = [Superseding(target[c]) EXCEPT ![c] =
          [kind |-> kind[c], status |-> "CANDIDATE", fresh |-> TRUE,
           born |-> Cardinality(Stored) + 1, began |-> began]]
  BY DEF Persist
<1> DEFINE new == [kind |-> kind[c], status |-> "CANDIDATE", fresh |-> TRUE,
                   born |-> Cardinality(Stored) + 1, began |-> began]
           t == target[c]
           old == [signals[t] EXCEPT !.status = "SUPERSEDED"]
<1>1. /\ pc[c] = "persist" /\ evaluations' = evaluations /\ policies' = policies
      /\ signals' = [Superseding(t) EXCEPT ![c] = new]
  BY <1>0 DEF Persist
<1>2. /\ signals[c] = None /\ t \in Stored \cup {None} /\ kind[c] \in Kinds
      /\ c \notin Stored /\ None \notin Runs
  BY <1>1, CallsDiffer DEF SignalLifecycleInv, SessionInv, RunsKnown, Stored
<1>3. new \in SignalRows /\ new # None /\ new.status = "CANDIDATE" /\ new.kind = kind[c]
  <2>1. new \in SignalRows
    <3>1. Cardinality(Stored) + 1 \in Nat /\ began \in Nat
      BY StoredIsCounted, SeenOfRuns DEF SignalLifecycleInv
    <3> QED
      BY <1>2, <3>1 DEF SignalRows
  <2> QED
    BY <2>1, NullAssumption
<1>4. /\ Superseding(t) = IF t = None THEN signals ELSE [signals EXCEPT ![t] = old]
      /\ t # None => /\ old # None /\ old.status = "SUPERSEDED"
                     /\ old.kind = signals[t].kind
  <2>1. t # None => signals[t] \in SignalRows
    BY <1>2 DEF SignalLifecycleInv, TypeOK, Stored
  <2> QED
    BY <2>1, NullAssumption DEF Superseding, SignalRows
<1> HIDE DEF new, old, t
<1>5. /\ signals \in [Runs -> SignalRows \cup {None}]
      /\ t # None => t \in Runs /\ signals[t] # None
  BY <1>2 DEF SignalLifecycleInv, TypeOK, Stored
<1>6. /\ signals'[c] = new
      /\ \A s \in Runs \ {c, t} : signals'[s] = signals[s]
      /\ t # None => signals'[t] = old
  BY <1>1, <1>2, <1>3, <1>4, <1>5
<1>7. RowsMap' = [x \in Runs |->
                    IF x = c THEN [kind |-> kind[c], status |-> "CANDIDATE"]
                    ELSE IF x = t THEN [RowsMap[x] EXCEPT !.status = "SUPERSEDED"]
                    ELSE RowsMap[x]]
  <2>1. RowsMap'[c] = [kind |-> kind[c], status |-> "CANDIDATE"]
    BY <1>3, <1>6 DEF RowsMap, Stored
  <2>2. \A x \in Runs \ {c, t} : RowsMap'[x] = RowsMap[x]
    BY <1>6 DEF RowsMap, Stored
  <2>3. t # None => RowsMap'[t] = [RowsMap[t] EXCEPT !.status = "SUPERSEDED"]
    BY <1>2, <1>4, <1>5, <1>6 DEF RowsMap, Stored
  <2>4. RowsMap' = [x \in Runs |-> RowsMap'[x]]
    BY DEF RowsMap
  <2> QED
    BY <1>2, <2>1, <2>2, <2>3, <2>4
<1>8. Promise!Emitted = Stored
  BY EmittedAreStored DEF SignalLifecycleInv
<1>9. VerdictMap' = VerdictMap /\ PoliciesMap' = PoliciesMap
  BY <1>1 DEF VerdictMap, PoliciesMap, EvaluationsOf
<1>10. Promise!Emit(c, kind[c])
  BY <1>2, <1>7, <1>8, <1>9 DEF Promise!Emit
<1>11. c \in (Promise!Emitted)'
  <2>1. RowsMap'[c] # None
    BY <1>2, <1>7, PromiseAssumption
  <2> QED
    BY <2>1 DEF Promise!Emitted
<1> QED
  BY <1>2, <1>8, <1>10, <1>11

LEMMA DecideIsDecide ==
  ASSUME SignalLifecycleInv, SignalLifecycleInv', NEW c \in Reviews, pc[c] = "decide",
         NEW status \in {"RISK_APPROVED", "RISK_REJECTED"},
         NEW decision \in {"APPROVED", "REJECTED"},
         Decide(c, status, decision),
         NEW t \in Runs, t = target[c]
  PROVE  /\ t \in Promise!Emitted /\ version[c] \in DOMAIN PoliciesMap
         /\ RowsMap[t].kind = signals[t].kind
         /\ PoliciesMap[version[c]] = policies[version[c]].enabled
         /\ Promise!Decide(t, version[c], decision, status)
<1> DEFINE v == version[c]
           row == [signal |-> t, decision |-> decision, version |-> v]
           now == [signals[t] EXCEPT !.status = status]
           verdict == [decision |-> decision, version |-> v]
<1>1. /\ evaluations' = [evaluations EXCEPT ![c] = row]
      /\ signals' = [signals EXCEPT ![t] = now]
      /\ policies' = policies
  BY DEF Decide
<1>2. /\ t \in Stored /\ t \in Runs /\ signals[t] # None /\ signals[t] \in SignalRows
      /\ signals[t].status = "CANDIDATE" /\ v \in 1..Len(policies)
      /\ policies \in Seq(PolicyRows) /\ evaluations[c] = None
  <2>1. /\ t \in Stored /\ t \in Runs /\ signals[t] # None /\ signals[t].status = "CANDIDATE"
        /\ seen[c] \in 1..Len(policies) /\ v \in seen[c]..Len(policies)
        /\ evaluations[c] = None
    BY DEF SignalLifecycleInv, SessionInv, ReviewsKnown, Stored
  <2>2. policies \in Seq(PolicyRows) /\ signals[t] \in SignalRows
    BY <2>1 DEF SignalLifecycleInv, TypeOK
  <2> QED
    BY <2>1, <2>2
<1>3. row.signal = t /\ row.decision = decision /\ row.version = v
  OBVIOUS
<1>4. now.kind = signals[t].kind /\ now.status = status
  BY <1>2 DEF SignalRows
<1>5. /\ evaluations'[c] = row
      /\ \A d \in Reviews \ {c} : evaluations'[d] = evaluations[d]
  BY <1>1 DEF SignalLifecycleInv, TypeOK
<1> HIDE DEF row, now
<1>6. /\ signals'[t] = now
      /\ \A s \in Runs \ {t} : signals'[s] = signals[s]
  BY <1>1, <1>2 DEF SignalLifecycleInv, TypeOK
<1>7. Stored' = Stored
  <2>1. now # None
    <3>1. now \in SignalRows
      BY <1>2 DEF SignalRows, now
    <3> QED
      BY <3>1, NullAssumption
  <2> QED
    BY <1>2, <1>6, <2>1 DEF Stored
<1>8. RowsMap' = [RowsMap EXCEPT ![t].status = status]
  <2>1. RowsMap'[t] = [RowsMap[t] EXCEPT !.status = status]
    BY <1>2, <1>4, <1>6, <1>7 DEF RowsMap
  <2>2. \A x \in Runs \ {t} : RowsMap'[x] = RowsMap[x]
    BY <1>6, <1>7 DEF RowsMap
  <2>3. RowsMap' = [x \in Runs |-> RowsMap'[x]] /\ RowsMap = [x \in Runs |-> RowsMap[x]]
    BY DEF RowsMap
  <2> QED
    BY <1>2, <2>1, <2>2, <2>3
<1>9. VerdictsMapped /\ VerdictsMapped'
  BY VerdictsAreMapped, PTL DEF SignalLifecycleInv, TableInv
<1>10. c \in EvaluationsOf(t)'
  <2>1. row # None
    <3>1. row \in EvaluationRows
      BY <1>2, PoliciesKnown DEF EvaluationRows, row, SignalLifecycleInv, TableInv
    <3> QED
      BY <3>1, NullAssumption
  <2> QED
    BY <1>3, <1>5, <2>1 DEF EvaluationsOf
<1>11. VerdictMap[t] = None
  <2>1. \A d \in Reviews : evaluations[d] # None => evaluations[d].decision \in {"APPROVED", "REJECTED"}
    BY DEF SignalLifecycleInv, TypeOK, EvaluationRows
  <2>2. EvaluationsOf(t) = {}
    BY <1>2, <2>1 DEF SignalLifecycleInv, TableInv, StatusHasItsEvaluation, EvaluationsOf
  <2> QED
    BY <1>2, <1>9, <2>2 DEF VerdictsMapped
<1>12. VerdictMap' = [VerdictMap EXCEPT ![t] = verdict]
  <2>1. VerdictMap'[t] = verdict
    <3>1. VerdictMap'[t] = [decision |-> evaluations'[c].decision,
                            version |-> evaluations'[c].version]
      BY <1>2, <1>9, <1>10 DEF VerdictsMapped
    <3> QED
      BY <1>3, <1>5, <3>1
  <2>2. \A x \in Runs \ {t} : VerdictMap'[x] = VerdictMap[x]
    <3> SUFFICES ASSUME NEW x \in Runs \ {t} PROVE VerdictMap'[x] = VerdictMap[x]
      OBVIOUS
    <3>1. EvaluationsOf(x)' = EvaluationsOf(x) /\ c \notin EvaluationsOf(x)
      BY <1>2, <1>3, <1>5 DEF EvaluationsOf
    <3>2. \A d \in EvaluationsOf(x) : evaluations'[d] = evaluations[d]
      BY <1>5, <3>1 DEF EvaluationsOf
    <3> QED
      BY <3>1, <3>2, VerdictStays
  <2>3. /\ VerdictMap' = [x \in Runs |-> VerdictMap'[x]]
        /\ VerdictMap = [x \in Runs |-> VerdictMap[x]]
    BY DEF VerdictMap
  <2> QED
    BY <1>2, <2>1, <2>2, <2>3
<1>13. /\ t \in Promise!Emitted /\ RowsMap[t].status = "CANDIDATE"
       /\ RowsMap[t].kind = signals[t].kind
  <2>1. RowsMap[t] = [kind |-> signals[t].kind, status |-> signals[t].status]
    BY <1>2 DEF RowsMap
  <2> QED
    BY <1>2, <2>1, EmittedAreStored DEF SignalLifecycleInv
<1>14. PoliciesMap' = PoliciesMap
  BY <1>1 DEF PoliciesMap
<1>15. v \in DOMAIN PoliciesMap /\ PoliciesMap[v] = policies[v].enabled
  BY <1>2, PoliciesAreMapped DEF PoliciesMapped, SignalLifecycleInv
<1> QED
  BY <1>8, <1>11, <1>12, <1>13, <1>14, <1>15 DEF Promise!Decide

LEMMA ReviewIsPromised ==
  ASSUME SignalLifecycleInv, SignalLifecycleInv', NEW c \in Reviews, Approve(c) \/ Reject(c)
  PROVE  \E s \in Promise!Emitted, v \in DOMAIN PoliciesMap :
           Promise!Approve(s, v) \/ Promise!Reject(s, v)
<1>1. pc[c] = "decide"
  BY DEF Approve, Reject
<1>2. target[c] \in Runs
  BY <1>1 DEF SignalLifecycleInv, SessionInv, ReviewsKnown, Stored
<1>3. PICK s \in Runs : s = target[c]
  BY <1>2
<1>4. CASE Approve(c)
  <2>1. /\ Decide(c, "RISK_APPROVED", "APPROVED")
        /\ signals[s].kind = "BUY" /\ policies[version[c]].enabled
    BY <1>3, <1>4 DEF Approve, PassesGates
  <2>2. /\ s \in Promise!Emitted /\ version[c] \in DOMAIN PoliciesMap
        /\ RowsMap[s].kind = "BUY" /\ PoliciesMap[version[c]] = policies[version[c]].enabled
        /\ Promise!Decide(s, version[c], "APPROVED", "RISK_APPROVED")
    BY <1>1, <1>3, <2>1, DecideIsDecide
  <2>3. PoliciesMap[version[c]]
    BY <2>1, <2>2
  <2> QED
    BY <2>2, <2>3, Zenon DEF Promise!Approve
<1>5. CASE Reject(c)
  <2>1. Decide(c, "RISK_REJECTED", "REJECTED")
    BY <1>5 DEF Reject
  <2>2. /\ s \in Promise!Emitted /\ version[c] \in DOMAIN PoliciesMap
        /\ Promise!Decide(s, version[c], "REJECTED", "RISK_REJECTED")
    BY <1>1, <1>3, <2>1, DecideIsDecide
  <2> QED
    BY <2>2, Zenon DEF Promise!Reject
<1> QED
  BY <1>4, <1>5

LEMMA ActivateIsReplace ==
  ASSUME SignalLifecycleInv, SignalLifecycleInv', NEW c \in Updates, Activate(c)
  PROVE  \E e \in BOOLEAN : Promise!Replace(e)
<1> DEFINE n == Len(policies)
<1>1. PICK e \in BOOLEAN :
        policies' = Append(Deactivated(version[c]), [active |-> TRUE, enabled |-> e])
  BY DEF Activate
<1>2. /\ version[c] \in 1..n /\ policies \in Seq(PolicyRows) /\ policies' \in Seq(PolicyRows)
      /\ signals' = signals /\ evaluations' = evaluations /\ n \in Nat
  BY DEF Activate, SignalLifecycleInv, SessionInv, UpdatesKnown, TypeOK
<1> DEFINE off == [policies[version[c]] EXCEPT !.active = FALSE]
           on == [active |-> TRUE, enabled |-> e]
           q == [policies EXCEPT ![version[c]] = off]
<1>3. off \in PolicyRows /\ off.enabled = policies[version[c]].enabled
  <2>1. policies[version[c]] \in PolicyRows
    BY <1>2
  <2>2. \A p \in PolicyRows : LET r == [p EXCEPT !.active = FALSE]
                             IN r \in PolicyRows /\ r.enabled = p.enabled
    BY DEF PolicyRows
  <2> QED
    BY <2>1, <2>2
<1>4. on \in PolicyRows /\ on.enabled = e
  BY DEF PolicyRows
<1>5. policies' = Append(q, on)
  BY <1>1 DEF Deactivated
<1> HIDE DEF off, on
<1>6. /\ q \in Seq(PolicyRows) /\ Len(q) = n /\ q[version[c]] = off
      /\ \A i \in 1..n : i # version[c] => q[i] = policies[i]
  BY <1>2, <1>3
<1> HIDE DEF q
<1>7. /\ Len(policies') = n + 1 /\ policies'[n + 1] = on
      /\ \A i \in 1..n : policies'[i] = q[i]
  BY <1>2, <1>4, <1>5, <1>6
<1>8. \A i \in 1..n : policies'[i].enabled = policies[i].enabled
  BY <1>3, <1>6, <1>7
<1> HIDE DEF n
<1>9. /\ PoliciesMap \in Seq(BOOLEAN) /\ Len(PoliciesMap) = n
      /\ \A i \in 1..n : PoliciesMap[i] = policies[i].enabled
  BY <1>2, PoliciesAreMapped DEF PoliciesMapped, SignalLifecycleInv, n
<1>10. /\ PoliciesMap' \in Seq(BOOLEAN) /\ Len(PoliciesMap') = n + 1
       /\ \A i \in 1..(n + 1) : PoliciesMap'[i] = policies'[i].enabled
  <2>1. PoliciesMapped'
    BY PoliciesAreMapped, PTL DEF SignalLifecycleInv
  <2> QED
    BY <1>2, <1>7, <2>1 DEF PoliciesMapped
<1>11. PoliciesMap' = Append(PoliciesMap, e)
  <2> DEFINE p == Append(PoliciesMap, e)
  <2>1. /\ p \in Seq(BOOLEAN) /\ Len(p) = n + 1 /\ p[n + 1] = e
        /\ \A i \in 1..n : p[i] = PoliciesMap[i]
    BY <1>9, AppendProperties
  <2> HIDE DEF p
  <2>2. \A i \in 1..(n + 1) : i \in 1..n \/ i = n + 1
    BY <1>2
  <2>3. n + 1 \in 1..(n + 1) /\ \A i \in 1..n : i \in 1..(n + 1)
    BY <1>2
  <2>4. \A i \in 1..n : PoliciesMap'[i] = p[i]
    BY <1>8, <1>9, <1>10, <2>1, <2>3, Zenon
  <2>5. PoliciesMap'[n + 1] = p[n + 1]
    BY <1>4, <1>7, <1>10, <2>1, <2>3, Zenon
  <2>6. \A i \in 1..(n + 1) : PoliciesMap'[i] = p[i]
    BY <2>2, <2>4, <2>5, Zenon
  <2>7. PoliciesMap' = p
    BY <1>10, <2>1, <2>6, SeqEqual
  <2> QED
    BY <2>7 DEF p
<1>12. RowsMap' = RowsMap /\ VerdictMap' = VerdictMap
  BY <1>2 DEF RowsMap, VerdictMap, Stored, EvaluationsOf
<1> QED
  BY <1>11, <1>12, Zenon DEF Promise!Replace

-----------------------------------------------------------------------------

LEMMA StepIsPromised ==
  ASSUME SignalLifecycleInv, SignalLifecycleInv', [Next]_vars
  PROVE  Promise!Next \/ UNCHANGED <<RowsMap, VerdictMap, PoliciesMap>>
<1>1. CASE \E c \in Runs : RunStep(c)
  <2>1. PICK c \in Runs : RunStep(c)
    BY <1>1
  <2>2. CASE \E k \in Kinds : ReturnExisting(c, k) \/ FindExisting(c, k)
    BY <2>2, TablesMapped DEF ReturnExisting, FindExisting
  <2>3. CASE Persist(c)
    BY <2>3, PersistIsEmit DEF Promise!Next
  <2> QED
    BY <2>1, <2>2, <2>3 DEF RunStep
<1>2. CASE \E c \in Reviews : ReviewStep(c)
  <2>1. PICK c \in Reviews : ReviewStep(c)
    BY <1>2
  <2>2. CASE Approve(c) \/ Reject(c)
    BY <2>2, ReviewIsPromised DEF Promise!Next
  <2>3. CASE ~(Approve(c) \/ Reject(c))
    BY <2>1, <2>3, TablesMapped
       DEF ReviewStep, BeginReview, RefuseReview, ReadPolicy, LockSignal, AlreadyDecided
  <2> QED
    BY <2>2, <2>3
<1>3. CASE \E c \in Updates : UpdateStep(c)
  <2>1. PICK c \in Updates : UpdateStep(c)
    BY <1>3
  <2>2. CASE Activate(c)
    BY <2>2, ActivateIsReplace DEF Promise!Next
  <2>3. CASE BeginUpdate(c) \/ Deactivate(c) \/ LoseUpdate(c)
    BY <2>3, TablesMapped DEF BeginUpdate, Deactivate, LoseUpdate
  <2> QED
    BY <2>1, <2>2, <2>3 DEF UpdateStep
<1>4. CASE \E c \in Calls : Fail(c)
  BY <1>4, TablesMapped DEF Fail
<1>5. CASE \E s \in Runs : Age(s)
  BY <1>5, AgeIsStutter
<1>6. CASE UNCHANGED vars
  BY <1>6, TablesMapped DEF vars
<1> QED
  BY <1>1, <1>2, <1>3, <1>4, <1>5, <1>6 DEF Next

\* Every commit of an evaluation, a review or an update is one whole step of
\* the promise, whatever overlaps it, and nothing else that they do shows
\* (SignalService._persist, RiskService.evaluate_signal and update_policy).
THEOREM LifecycleImplementsPromise == Spec => ImplementsPromise
<1>1. SignalLifecycleInv /\ SignalLifecycleInv' /\ [Next]_vars
        => [Promise!Next]_<<RowsMap, VerdictMap, PoliciesMap>>
  BY StepIsPromised
<1> QED
  BY <1>1, PromiseInit, LifecycleInvariant, PTL
     DEF Spec, ImplementsPromise, Promise!Spec, Promise!promiseVars

-----------------------------------------------------------------------------
(* How many candidates                                                     *)
(*                                                                         *)
(* That a key has one candidate is no invariant: overlapping evaluations   *)
(* leave more.  An evaluation whose row is the next after those it has     *)
(* seen has found a candidate if there was one, and nobody has added one   *)
(* since: its own takes that one's place, however the SELECT ordered rows. *)

\* What a run has seen was there.
SeenBefore == \A c \in Runs : pc[c] = "persist" => seen[c] <= Cardinality(Stored)

\* If no row came since a run looked, the candidates but for the one it will
\* supersede are as few as the overlaps.
OthersCounted ==
  \A c \in Runs : pc[c] = "persist" /\ seen[c] = Cardinality(Stored) =>
    Cardinality(Candidates \ {target[c]}) <= Cardinality(Overlapped)

OverlapInv == SignalLifecycleInv /\ CandidatesOnlyByOverlap /\ SeenBefore /\ OthersCounted

-----------------------------------------------------------------------------
LEMMA CandidatesAreFinite ==
  /\ IsFiniteSet(Stored) /\ IsFiniteSet(Candidates) /\ IsFiniteSet(Overlapped)
  /\ Cardinality(Stored) \in Nat /\ Cardinality(Candidates) \in Nat
  /\ Cardinality(Overlapped) \in Nat
  /\ \A S : S \subseteq Candidates =>
       IsFiniteSet(S) /\ Cardinality(S) \in Nat /\ Cardinality(S) <= Cardinality(Candidates)
<1>1. Stored \subseteq Runs /\ Candidates \subseteq Runs /\ Overlapped \subseteq Runs
  BY DEF Stored, Candidates, Overlapped
<1>2. IsFiniteSet(Stored) /\ IsFiniteSet(Candidates) /\ IsFiniteSet(Overlapped)
  BY <1>1, LifecycleAssumption, FS_Subset
<1>3. \A S : S \subseteq Candidates =>
        IsFiniteSet(S) /\ Cardinality(S) \in Nat /\ Cardinality(S) <= Cardinality(Candidates)
  BY <1>2, FS_Subset, FS_CardinalityType
<1> QED
  BY <1>2, <1>3, FS_CardinalityType

\* Rows that stay, and candidates that can only become fewer.
LEMMA OverlapStays ==
  ASSUME OverlapInv, SignalLifecycleInv', Stored' = Stored,
         \A s \in Stored : signals'[s].born = signals[s].born,
         \A s \in Stored : signals'[s].status = "CANDIDATE" => signals[s].status = "CANDIDATE",
         \A c \in Runs : seen'[c] = seen[c],
         \A c \in Runs : pc'[c] = "persist" => pc[c] = "persist" /\ target'[c] = target[c]
  PROVE  OverlapInv'
<1>1. Candidates' \subseteq Candidates
  BY DEF Candidates
<1>2. Overlapped' = Overlapped
  <2>1. \A s \in Stored : s \in Runs
    BY DEF Stored
  <2> QED
    BY <2>1 DEF Overlapped
<1>3. Cardinality(Candidates') <= Cardinality(Candidates) /\ Cardinality(Candidates') \in Nat
  BY <1>1, CandidatesAreFinite
<1>4. CandidatesOnlyByOverlap'
  <2>1. Cardinality(Candidates) <= 1 + Cardinality(Overlapped)
    BY DEF OverlapInv, CandidatesOnlyByOverlap
  <2>2. Cardinality(Candidates') <= 1 + Cardinality(Overlapped)
    BY <1>3, <2>1, CandidatesAreFinite
  <2> QED
    BY <1>2, <2>2 DEF CandidatesOnlyByOverlap
<1>5. SeenBefore'
  BY DEF OverlapInv, SeenBefore
<1>6. OthersCounted'
  <2> SUFFICES ASSUME NEW c \in Runs, pc'[c] = "persist", seen'[c] = Cardinality(Stored')
               PROVE  Cardinality(Candidates' \ {target'[c]}) <= Cardinality(Overlapped')
    BY DEF OthersCounted
  <2>1. Cardinality(Candidates \ {target[c]}) <= Cardinality(Overlapped)
    BY DEF OverlapInv, OthersCounted
  <2>2. Candidates' \ {target'[c]} \subseteq Candidates \ {target[c]}
    BY <1>1
  <2>3. IsFiniteSet(Candidates \ {target[c]})
    BY CandidatesAreFinite
  <2>4. /\ Cardinality(Candidates' \ {target'[c]}) <= Cardinality(Candidates \ {target[c]})
        /\ Cardinality(Candidates' \ {target'[c]}) \in Nat
        /\ Cardinality(Candidates \ {target[c]}) \in Nat
    BY <2>2, <2>3, FS_Subset, FS_CardinalityType
  <2>5. Cardinality(Overlapped) \in Nat
    BY CandidatesAreFinite
  <2> QED
    BY <1>2, <2>1, <2>4, <2>5
<1> QED
  BY <1>4, <1>5, <1>6 DEF OverlapInv

\* The SELECT of _persist finds a candidate if there is one.
LEMMA FindKeepsOverlap ==
  ASSUME OverlapInv, SignalLifecycleInv', NEW c \in Runs, NEW k \in Kinds, FindExisting(c, k)
  PROVE  OverlapInv'
<1>1. /\ signals' = signals /\ Stored' = Stored /\ Candidates' = Candidates
      /\ pc[c] = "idle" /\ pc' = [pc EXCEPT ![c] = "persist"]
      /\ seen' = [seen EXCEPT ![c] = Cardinality(Stored)]
  BY DEF FindExisting, tableVars, Stored, Candidates
<1>2. PICK latest \in Latest : target' = [target EXCEPT ![c] = latest]
  BY DEF FindExisting
<1>3. /\ c \in Calls /\ pc \in [Calls -> {"idle", "persist", "readPolicy", "lockSignal",
                                          "decide", "deactivate", "activate", "done"}]
      /\ target \in [Calls -> Runs \cup {None}] /\ seen \in [Runs \cup Reviews -> Nat]
      /\ \A d \in Runs : d \in Calls
  BY CallsDiffer DEF OverlapInv, SignalLifecycleInv, TypeOK
<1>4. /\ seen'[c] = Cardinality(Stored) /\ target'[c] = latest
      /\ \A d \in Runs \ {c} : /\ seen'[d] = seen[d] /\ target'[d] = target[d]
                               /\ pc'[d] = pc[d]
  BY <1>1, <1>2, <1>3
<1>5. c \notin Stored
  BY <1>1 DEF OverlapInv, SignalLifecycleInv, SessionInv, RunsKnown, Stored
<1>6. Overlapped' = Overlapped
  <2>1. \A t \in Stored : t # c /\ t \in Runs
    BY <1>5 DEF Stored
  <2> QED
    BY <1>1, <1>4, <2>1 DEF Overlapped
<1>7. Cardinality(Candidates \ {latest}) <= Cardinality(Overlapped)
  <2>1. Cardinality(Candidates) <= 1 + Cardinality(Overlapped)
    BY DEF OverlapInv, CandidatesOnlyByOverlap
  <2>2. CASE Candidates = {}
    <3>1. Candidates \ {latest} = {}
      BY <2>2
    <3> QED
      BY <3>1, FS_EmptySet, CandidatesAreFinite
  <2>3. CASE Candidates # {}
    <3>1. latest \in Candidates
      BY <1>2, <2>3 DEF Latest
    <3>2. Cardinality(Candidates \ {latest}) = Cardinality(Candidates) - 1
      BY <3>1, CandidatesAreFinite, FS_RemoveElement
    <3> QED
      BY <2>1, <3>2, CandidatesAreFinite
  <2> QED
    BY <2>2, <2>3
<1>8. CandidatesOnlyByOverlap'
  BY <1>1, <1>6 DEF OverlapInv, CandidatesOnlyByOverlap
<1>9. SeenBefore'
  BY <1>1, <1>4, CandidatesAreFinite DEF OverlapInv, SeenBefore
<1>10. OthersCounted'
  BY <1>1, <1>4, <1>6, <1>7 DEF OverlapInv, OthersCounted
<1> QED
  BY <1>8, <1>9, <1>10 DEF OverlapInv

\* One more row, and one more candidate for the one that is superseded, or one
\* more overlap.
LEMMA PersistKeepsOverlap ==
  ASSUME OverlapInv, SignalLifecycleInv', NEW c \in Runs, Persist(c)
  PROVE  OverlapInv'
<1> DEFINE n == Cardinality(Stored)
           t == target[c]
           old == [signals[t] EXCEPT !.status = "SUPERSEDED"]
<1>0. PICK began \in 0..seen[c] :
        signals' = [Superseding(t) EXCEPT ![c] =
          [kind |-> kind[c], status |-> "CANDIDATE", fresh |-> TRUE,
           born |-> n + 1, began |-> began]]
  BY DEF Persist
<1> DEFINE new == [kind |-> kind[c], status |-> "CANDIDATE", fresh |-> TRUE,
                   born |-> n + 1, began |-> began]
<1>1. /\ pc[c] = "persist" /\ Finish(c) /\ seen' = seen
      /\ signals' = [Superseding(t) EXCEPT ![c] = new]
  BY <1>0 DEF Persist
<1>2. c \notin Stored /\ t \in Stored \cup {None} /\ signals \in [Runs -> SignalRows \cup {None}]
  BY <1>1 DEF OverlapInv, SignalLifecycleInv, TypeOK, SessionInv, RunsKnown, Stored
<1>3. n \in Nat /\ \A d \in Runs : seen[d] \in Nat
  BY StoredIsCounted, SeenOfRuns DEF OverlapInv, SignalLifecycleInv
<1>4. new.born = n + 1 /\ new.status = "CANDIDATE" /\ new # None
  <2>1. kind[c] \in Kinds /\ began \in Nat
    BY <1>1, <1>3 DEF OverlapInv, SignalLifecycleInv, SessionInv, RunsKnown
  <2>2. new \in SignalRows
    BY <2>1, <1>3 DEF SignalRows
  <2> QED
    BY <2>2, NullAssumption
<1>5. /\ Superseding(t) = IF t = None THEN signals ELSE [signals EXCEPT ![t] = old]
      /\ t # None => old.status = "SUPERSEDED" /\ old.born = signals[t].born /\ old # None
  <2>1. t # None => signals[t] \in SignalRows
    BY <1>2 DEF Stored
  <2> QED
    BY <2>1, NullAssumption DEF Superseding, SignalRows
<1> HIDE DEF n, new, old, t
<1>6. None \notin Runs
  BY CallsDiffer
<1>7. /\ signals'[c] = new
      /\ \A s \in Runs \ {c, t} : signals'[s] = signals[s]
      /\ t # None => signals'[t] = old
  BY <1>1, <1>2, <1>5, <1>6 DEF Stored
<1>8. Stored' = Stored \cup {c}
  BY <1>2, <1>4, <1>5, <1>6, <1>7 DEF Stored
<1>9. Cardinality(Stored') = n + 1
  BY <1>2, <1>8, CandidatesAreFinite, FS_AddElement DEF n
<1>10. /\ signals'[c].born = n + 1
       /\ \A s \in Stored : s # c /\ signals'[s].born = signals[s].born
       /\ \A s \in Stored : signals'[s].status = "CANDIDATE" => s # t /\ s \in Candidates
  <2>1. \A s \in Stored : s \in Runs /\ s # c
    BY <1>2 DEF Stored
  <2>2. \A s \in Stored : signals'[s].born = signals[s].born
    BY <2>1, <1>5, <1>6, <1>7
  <2>3. \A s \in Stored : signals'[s].status = "CANDIDATE" => s # t /\ s \in Candidates
    BY <2>1, <1>5, <1>6, <1>7 DEF Candidates
  <2> QED
    BY <2>1, <2>2, <2>3, <1>4, <1>7
<1>11. seen[c] \in Nat /\ seen[c] <= n
  BY <1>1, <1>3 DEF OverlapInv, SeenBefore, n
<1> DEFINE others == Candidates \ {t}
<1>12. /\ IsFiniteSet(others) /\ Cardinality(others) \in Nat
       /\ Cardinality(others) <= Cardinality(Candidates) /\ c \notin others
  <2>1. others \subseteq Candidates /\ Candidates \subseteq Stored
    BY DEF Candidates
  <2> QED
    BY <2>1, <1>2, CandidatesAreFinite
<1>13. Cardinality(Candidates') <= Cardinality(others) + 1 /\ Cardinality(Candidates') \in Nat
  <2>1. Candidates' \subseteq others \cup {c}
    BY <1>8, <1>10 DEF Candidates
  <2> HIDE DEF others
  <2>2. /\ IsFiniteSet(others \cup {c})
        /\ Cardinality(others \cup {c}) = Cardinality(others) + 1
    BY <1>12, FS_AddElement
  <2>3. /\ Cardinality(Candidates') <= Cardinality(others \cup {c})
        /\ IsFiniteSet(Candidates')
    BY <2>1, <2>2, FS_Subset
  <2> QED
    BY <2>2, <2>3, FS_CardinalityType
<1>14. Overlapped' = Overlapped \cup (IF seen[c] < n THEN {c} ELSE {})
  BY <1>1, <1>3, <1>8, <1>10, <1>11 DEF Overlapped
<1>15. /\ c \notin Overlapped
       /\ Cardinality(Overlapped) \in Nat
       /\ Cardinality(Candidates) <= 1 + Cardinality(Overlapped)
       /\ Cardinality(Candidates) \in Nat
  BY <1>2, CandidatesAreFinite DEF OverlapInv, CandidatesOnlyByOverlap, Overlapped
<1>16. CandidatesOnlyByOverlap'
  <2>1. CASE seen[c] < n
    <3>1. Cardinality(Overlapped') = Cardinality(Overlapped) + 1
      BY <2>1, <1>14, <1>15, CandidatesAreFinite, FS_AddElement
    <3> HIDE DEF others
    <3> QED
      BY <3>1, <1>12, <1>13, <1>15 DEF CandidatesOnlyByOverlap
  <2>2. CASE seen[c] = n
    <3>1. Cardinality(others) <= Cardinality(Overlapped)
      BY <2>2, <1>1 DEF OverlapInv, OthersCounted, n, t
    <3>2. Overlapped' = Overlapped
      BY <2>2, <1>3, <1>14
    <3> HIDE DEF others
    <3> QED
      BY <3>1, <3>2, <1>12, <1>13, <1>15 DEF CandidatesOnlyByOverlap
  <2> QED
    BY <2>1, <2>2, <1>3, <1>11
<1>17. ASSUME NEW d \in Runs, pc'[d] = "persist"
       PROVE  seen'[d] <= n /\ seen'[d] \in Nat
  <2>1. c \in Calls /\ d \in Calls
    BY CallsDiffer
  <2>2. d # c /\ pc[d] = "persist"
    BY <2>1, <1>1, <1>17, FinishFacts DEF OverlapInv, SignalLifecycleInv
  <2> QED
    BY <2>2, <1>1, <1>3 DEF OverlapInv, SeenBefore, n
<1>18. SeenBefore' /\ OthersCounted'
  BY <1>3, <1>9, <1>17 DEF SeenBefore, OthersCounted
<1> QED
  BY <1>16, <1>18 DEF OverlapInv

LEMMA AgeKeepsOverlap ==
  ASSUME OverlapInv, SignalLifecycleInv', NEW s \in Runs, Age(s)
  PROVE  OverlapInv'
<1>1. /\ s \in Stored /\ signals' = [signals EXCEPT ![s].fresh = FALSE]
      /\ UNCHANGED <<pc, target, seen>>
  BY DEF Age, sessionVars
<1> DEFINE aged == [signals[s] EXCEPT !.fresh = FALSE]
<1>2. /\ signals[s] \in SignalRows /\ aged \in SignalRows
      /\ aged.status = signals[s].status /\ aged.born = signals[s].born
  BY <1>1 DEF OverlapInv, SignalLifecycleInv, TypeOK, Stored, SignalRows
<1> HIDE DEF aged
<1>3. \A u \in Runs : signals'[u] = IF u = s THEN aged ELSE signals[u]
  BY <1>1 DEF aged, OverlapInv, SignalLifecycleInv, TypeOK
<1>4. Stored' = Stored
  BY <1>1, <1>2, <1>3, NullAssumption DEF Stored
<1>5. \A u \in Stored : /\ signals'[u].born = signals[u].born
                        /\ signals'[u].status = signals[u].status
  BY <1>2, <1>3 DEF Stored
<1> QED
  BY <1>1, <1>4, <1>5, OverlapStays

LEMMA DecideKeepsOverlap ==
  ASSUME OverlapInv, SignalLifecycleInv', NEW c \in Reviews, pc[c] = "decide",
         NEW status \in {"RISK_APPROVED", "RISK_REJECTED"}, NEW decision,
         Decide(c, status, decision)
  PROVE  OverlapInv'
<1> DEFINE s == target[c]
           decided == [signals[s] EXCEPT !.status = status]
<1>1. s \in Stored /\ s \in Runs
  BY DEF OverlapInv, SignalLifecycleInv, SessionInv, ReviewsKnown, Stored
<1>2. /\ signals[s] \in SignalRows /\ decided \in SignalRows
      /\ decided.status = status /\ decided.born = signals[s].born
  BY <1>1 DEF OverlapInv, SignalLifecycleInv, TypeOK, Stored, SignalRows
<1>3. /\ signals' = [signals EXCEPT ![s] = decided]
      /\ Finish(c) /\ seen' = seen
  BY DEF Decide
<1> HIDE DEF s, decided
<1>4. \A u \in Runs : signals'[u] = IF u = s THEN decided ELSE signals[u]
  BY <1>3 DEF OverlapInv, SignalLifecycleInv, TypeOK
<1>5. Stored' = Stored
  BY <1>1, <1>2, <1>4, NullAssumption DEF Stored
<1>6. \A u \in Stored : /\ signals'[u].born = signals[u].born
                        /\ signals'[u].status = "CANDIDATE" => signals[u].status = "CANDIDATE"
  BY <1>2, <1>4 DEF Stored
<1>7. \A d \in Runs : pc'[d] = pc[d] /\ target'[d] = target[d]
  <2>1. c \in Calls /\ \A d \in Runs : d \in Calls /\ d # c
    BY CallsDiffer
  <2> QED
    BY <2>1, <1>3, FinishFacts DEF OverlapInv, SignalLifecycleInv
<1> QED
  BY <1>3, <1>5, <1>6, <1>7, OverlapStays

\* A call that ends without a word, or moves on without touching the signals.
LEMMA SessionKeepsOverlap ==
  ASSUME OverlapInv, SignalLifecycleInv', signals' = signals,
         \A c \in Runs : seen'[c] = seen[c],
         \A c \in Runs : pc'[c] = "persist" => pc[c] = "persist" /\ target'[c] = target[c]
  PROVE  OverlapInv'
<1>1. Stored' = Stored
  BY DEF Stored
<1> QED
  BY <1>1, OverlapStays

LEMMA EndKeepsOverlap ==
  ASSUME OverlapInv, SignalLifecycleInv', NEW c \in Calls, Finish(c), signals' = signals,
         seen' = seen
  PROVE  OverlapInv'
<1>1. \A d \in Runs : d \in Calls
  BY CallsDiffer
<1>2. \A d \in Runs : pc'[d] = "persist" => pc[d] = "persist" /\ target'[d] = target[d]
  BY <1>1, FinishFacts DEF OverlapInv, SignalLifecycleInv
<1> QED
  BY <1>2, SessionKeepsOverlap

LEMMA ReviewKeepsOverlap ==
  ASSUME OverlapInv, SignalLifecycleInv', NEW c \in Reviews, ReviewStep(c)
  PROVE  OverlapInv'
<1>1. c \in Calls /\ \A d \in Runs : d \in Calls /\ d # c
  BY CallsDiffer
<1>2. CASE Approve(c) \/ Reject(c)
  BY <1>2, DecideKeepsOverlap DEF Approve, Reject
<1>3. CASE AlreadyDecided(c) \/ \E s \in Runs : RefuseReview(c, s)
  BY <1>1, <1>3, EndKeepsOverlap DEF AlreadyDecided, RefuseReview, tableVars
<1>4. CASE ReadPolicy(c) \/ LockSignal(c) \/ \E s \in Runs : BeginReview(c, s)
  <2>1. /\ pc \in [Calls -> {"idle", "persist", "readPolicy", "lockSignal",
                             "decide", "deactivate", "activate", "done"}]
        /\ target \in [Calls -> Runs \cup {None}] /\ seen \in [Runs \cup Reviews -> Nat]
    BY DEF OverlapInv, SignalLifecycleInv, TypeOK
  <2>2. /\ signals' = signals
        /\ \A d \in Runs : pc'[d] = pc[d] /\ target'[d] = target[d] /\ seen'[d] = seen[d]
    BY <1>1, <1>4, <2>1 DEF ReadPolicy, LockSignal, BeginReview, tableVars
  <2> QED
    BY <2>2, SessionKeepsOverlap
<1> QED
  BY <1>2, <1>3, <1>4 DEF ReviewStep

LEMMA UpdateKeepsOverlap ==
  ASSUME OverlapInv, SignalLifecycleInv', NEW c \in Updates, UpdateStep(c)
  PROVE  OverlapInv'
<1>1. c \in Calls /\ \A d \in Runs : d \in Calls /\ d # c
  BY CallsDiffer
<1>2. CASE Activate(c) \/ LoseUpdate(c)
  BY <1>1, <1>2, EndKeepsOverlap DEF Activate, LoseUpdate, tableVars
<1>3. CASE BeginUpdate(c) \/ Deactivate(c)
  <2>1. pc \in [Calls -> {"idle", "persist", "readPolicy", "lockSignal",
                          "decide", "deactivate", "activate", "done"}]
    BY DEF OverlapInv, SignalLifecycleInv, TypeOK
  <2>2. /\ signals' = signals /\ target' = target /\ seen' = seen
        /\ \A d \in Runs : pc'[d] = pc[d]
    BY <1>1, <1>3, <2>1 DEF BeginUpdate, Deactivate, tableVars
  <2> QED
    BY <2>2, SessionKeepsOverlap
<1> QED
  BY <1>2, <1>3 DEF UpdateStep

LEMMA NextKeepsOverlap == OverlapInv /\ [Next]_vars => OverlapInv'
<1> SUFFICES ASSUME OverlapInv, [Next]_vars
             PROVE  OverlapInv'
  OBVIOUS
<1>1. SignalLifecycleInv'
  BY NextKeepsInv DEF OverlapInv
<1>2. ASSUME NEW c \in Runs, RunStep(c)
      PROVE  OverlapInv'
  <2>1. c \in Calls
    BY CallsDiffer
  <2> QED
    BY <1>1, <1>2, <2>1, FindKeepsOverlap, PersistKeepsOverlap, EndKeepsOverlap
       DEF RunStep, ReturnExisting, tableVars
<1>3. ASSUME NEW c \in Calls, Fail(c)
      PROVE  OverlapInv'
  BY <1>1, <1>3, EndKeepsOverlap DEF Fail, tableVars
<1>4. CASE UNCHANGED vars
  <2>1. signals' = signals /\ seen' = seen /\ pc' = pc /\ target' = target
    BY <1>4 DEF vars, tableVars, sessionVars
  <2> QED
    BY <1>1, <2>1, SessionKeepsOverlap
<1> QED
  BY <1>1, <1>2, <1>3, <1>4, ReviewKeepsOverlap, UpdateKeepsOverlap, AgeKeepsOverlap DEF Next

LEMMA InitOverlap == Init => OverlapInv
<1> SUFFICES ASSUME Init
             PROVE  OverlapInv
  OBVIOUS
<1>1. Stored = {} /\ Candidates = {}
  BY DEF Init, Stored, Candidates
<1>2. Cardinality(Candidates) = 0 /\ Cardinality(Overlapped) \in Nat
  BY <1>1, FS_EmptySet, CandidatesAreFinite
<1>3. CandidatesOnlyByOverlap
  BY <1>2 DEF CandidatesOnlyByOverlap
<1>4. \A c \in Runs : pc[c] # "persist"
  BY CallsDiffer DEF Init
<1>5. SeenBefore /\ OthersCounted
  BY <1>4 DEF SeenBefore, OthersCounted
<1> QED
  BY <1>3, <1>5, InitInv DEF OverlapInv

\* The inductive invariant behind the count of candidates: what a run that is
\* about to insert has seen and will supersede (SignalService._persist).
THEOREM OverlapInvariant == Spec => []OverlapInv
BY InitOverlap, NextKeepsOverlap, PTL DEF Spec

\* There is one candidate, and one more at most for every evaluation that
\* overlapped another: reviews, updates, failures and lost UPDATEs never leave
\* an outdated candidate to be approved (SignalService.evaluate).
THEOREM OneCandidateButForOverlaps == Spec => []CandidatesOnlyByOverlap
BY OverlapInvariant, PTL DEF OverlapInv

-----------------------------------------------------------------------------
(* The rules and scores, for any readings. *)

\* Every market there could be, whatever the values the model takes.
AnyMarkets ==
  [bars : Nat, order : [TrendChecks -> -1..1], rsi : Int, histogram : -1..1,
   volume : Int \cup {Undefined}, range : Int]

\* The market of the model is one.
LEMMA MarketsKnown == Markets \subseteq AnyMarkets
  BY RulesAssumption DEF Markets, AnyMarkets

\* What a market reads.
LEMMA MarketKnown ==
  ASSUME NEW m \in AnyMarkets
  PROVE  /\ m.bars \in Nat /\ m.order \in [TrendChecks -> -1..1] /\ m.rsi \in Int
         /\ m.histogram \in -1..1 /\ m.volume \in Int \cup {Undefined} /\ m.range \in Int
  BY DEF AnyMarkets

\* A step leaves it a market.
LEMMA MarketsStay == ASSUME market \in Markets, [RulesNext]_rulesVars PROVE market' \in Markets
<1>1. ASSUME NEW c \in TrendChecks, NEW sign \in -1..1
      PROVE  [market.order EXCEPT ![c] = sign] \in [TrendChecks -> -1..1]
  BY MarketKnown, MarketsKnown
<1>2. CASE AveragesCross
  BY <1>1, <1>2 DEF AveragesCross, Markets
<1>3. CASE MomentumTurns
  BY <1>3 DEF MomentumTurns, Markets
<1>4. CASE ActivityChanges
  BY <1>4 DEF ActivityChanges, Markets
<1>5. CASE LongerHistory
  BY <1>5 DEF LongerHistory, Markets
<1> QED
  BY <1>2, <1>3, <1>4, <1>5 DEF RulesNext, rulesVars

\* The trend checks, split between those that rise and the others.
LEMMA ChecksSplit ==
  ASSUME NEW m \in AnyMarkets
  PROVE  /\ Cardinality(Rising(m)) \in Nat /\ Cardinality(Falling(m)) \in Nat
         /\ Cardinality(Available(m)) = Cardinality(Rising(m)) + Cardinality(Falling(m))
         /\ m.bars >= 50 => Cardinality(Available(m)) >= 3
         /\ m.bars >= 50 /\ m.bars < 200 => Cardinality(Available(m)) = 3
<1> DEFINE Fast == {"price_above_ema21", "ema9_above_ema21", "ema21_above_ema50"}
<1>1. IsFiniteSet(Fast) /\ Cardinality(Fast) = 3
  <2>1. /\ "price_above_ema21" # "ema9_above_ema21"
        /\ "ema21_above_ema50" \notin {"price_above_ema21", "ema9_above_ema21"}
    OBVIOUS
  <2>2. Fast = ({"price_above_ema21"} \cup {"ema9_above_ema21"}) \cup {"ema21_above_ema50"}
    OBVIOUS
  <2>3. /\ IsFiniteSet({"price_above_ema21"}) /\ Cardinality({"price_above_ema21"}) = 1
    BY FS_Singleton
  <2>4. /\ IsFiniteSet({"price_above_ema21"} \cup {"ema9_above_ema21"})
        /\ Cardinality({"price_above_ema21"} \cup {"ema9_above_ema21"}) = 2
    BY <2>1, <2>3, FS_AddElement
  <2> QED
    BY <2>1, <2>2, <2>4, FS_AddElement
<1>2. /\ IsFiniteSet(Available(m))
      /\ Available(m) \subseteq Fast \cup {"ema50_above_ema200"}
      /\ m.bars >= 50 => Fast \subseteq Available(m)
      /\ m.bars >= 50 /\ m.bars < 200 => Available(m) = Fast
  <2>1. TrendChecks = Fast \cup {"ema50_above_ema200"} /\ IsFiniteSet(TrendChecks)
    BY <1>1, FS_AddElement DEF TrendChecks
  <2>2. \A c \in Fast : WarmUp[c] <= 50
    BY DEF WarmUp
  <2>3. \A c \in TrendChecks : WarmUp[c] \in Nat
    BY DEF WarmUp, TrendChecks
  <2>4. WarmUp["ema50_above_ema200"] = 200
    BY DEF WarmUp
  <2>5. IsFiniteSet(Available(m))
    BY <2>1, FS_Subset DEF Available
  <2> QED
    BY <2>1, <2>2, <2>3, <2>4, <2>5, MarketKnown DEF Available
<1>3. /\ Rising(m) \subseteq Available(m) /\ Falling(m) = Available(m) \ Rising(m)
  BY DEF Rising, Falling
<1>4. /\ Cardinality(Rising(m)) \in Nat /\ Cardinality(Falling(m)) \in Nat
      /\ Cardinality(Available(m)) = Cardinality(Rising(m)) + Cardinality(Falling(m))
  <2>1. IsFiniteSet(Rising(m)) /\ IsFiniteSet(Falling(m))
    BY <1>2, <1>3, FS_Subset
  <2>2. /\ Rising(m) \cap Falling(m) = {} /\ Rising(m) \cup Falling(m) = Available(m)
    BY <1>3
  <2>3. Cardinality(Rising(m) \cup Falling(m)) =
          Cardinality(Rising(m)) + Cardinality(Falling(m))
          - Cardinality(Rising(m) \cap Falling(m))
    BY <2>1, FS_Union
  <2>4. Cardinality(Rising(m)) \in Nat /\ Cardinality(Falling(m)) \in Nat
    BY <2>1, FS_CardinalityType
  <2>5. Cardinality({}) = 0
    BY FS_EmptySet
  <2>6. Cardinality(Available(m)) = Cardinality(Rising(m)) + Cardinality(Falling(m)) - 0
    BY <2>2, <2>3, <2>5, Zenon
  <2> QED
    BY <2>4, <2>6
<1>5. m.bars >= 50 => Cardinality(Available(m)) >= 3
  BY <1>1, <1>2, FS_Subset
<1> QED
  BY <1>1, <1>2, <1>4, <1>5

\* What the trend checks come to, in numbers.
LEMMA TrendIs ==
  ASSUME NEW m \in AnyMarkets, m.bars >= 50
  PROVE  /\ TrendAlignment(m) \in 0..2
         /\ TrendDirection(m) = "bullish" <=> Cardinality(Rising(m)) > Cardinality(Falling(m))
         /\ TrendDirection(m) = "bearish" <=> Cardinality(Falling(m)) > Cardinality(Rising(m))
         /\ TrendAlignment(m) >= 1 <=> Cardinality(Rising(m)) # Cardinality(Falling(m))
  BY ChecksSplit DEF TrendAlignment, TrendDirection

\* What an entry takes, reading by reading.
LEMMA EntryIs ==
  ASSUME NEW m \in AnyMarkets
  PROVE  /\ MacdState(m) = "bullish" <=> m.bars >= 34 /\ m.histogram > 0
         /\ MacdState(m) = "bearish" <=> m.bars >= 34 /\ m.histogram < 0
         /\ VolatilityState(m) = "elevated" <=> m.bars >= 15 /\ m.range > 300
         /\ VolatilityState(m) = "low" <=> m.bars >= 15 /\ m.range < 100
         /\ Reading(m, "rsi") # Undefined <=> m.bars >= 15
         /\ Reading(m, "rsi") # Undefined => Reading(m, "rsi") = m.rsi
<1>1. /\ WarmUp["histogram"] = 34 /\ WarmUp["range"] = 15 /\ WarmUp["rsi"] = 15
  BY DEF WarmUp
<1>2. /\ m["histogram"] = m.histogram /\ m["range"] = m.range /\ m["rsi"] = m.rsi
  OBVIOUS
<1>3. /\ Reading(m, "histogram") = IF m.bars >= 34 THEN m.histogram ELSE Undefined
      /\ Reading(m, "range") = IF m.bars >= 15 THEN m.range ELSE Undefined
      /\ Reading(m, "rsi") = IF m.bars >= 15 THEN m.rsi ELSE Undefined
  BY <1>1, <1>2 DEF Reading
<1>4. /\ m.histogram \in Int /\ m.range \in Int /\ m.rsi \in Int /\ Undefined \notin Int
  BY MarketKnown, RulesAssumption
<1>5. /\ MacdState(m) = "bullish" <=> m.bars >= 34 /\ m.histogram > 0
      /\ MacdState(m) = "bearish" <=> m.bars >= 34 /\ m.histogram < 0
  BY <1>3, <1>4, RulesAssumption DEF MacdState, Band
<1>6. /\ VolatilityState(m) = "elevated" <=> m.bars >= 15 /\ m.range > 300
      /\ VolatilityState(m) = "low" <=> m.bars >= 15 /\ m.range < 100
  BY <1>3, <1>4, RulesAssumption DEF VolatilityState, Band
<1> QED
  BY <1>3, <1>4, <1>5, <1>6

\* The regimes of an entry.
LEMMA RegimeIs ==
  ASSUME NEW m \in AnyMarkets
  PROVE  /\ ClassifyRegime(m) = "BULLISH" <=>
              /\ m.bars >= 50 /\ m.range <= 300
              /\ Cardinality(Rising(m)) > Cardinality(Falling(m))
         /\ ClassifyRegime(m) = "BEARISH" <=>
              /\ m.bars >= 50 /\ m.range <= 300
              /\ Cardinality(Falling(m)) > Cardinality(Rising(m))
<1>1. m.bars \in Nat /\ m.range \in Int
  BY MarketKnown
<1>2. CASE ~(m.bars >= 50)
  BY <1>1, <1>2 DEF ClassifyRegime, MinCandlesForFeatures
<1>3. CASE m.bars >= 50
  <2>1. /\ TrendAlignment(m) \in 0..2 /\ TrendAlignment(m) # Undefined
        /\ TrendDirection(m) = "bullish" <=> Cardinality(Rising(m)) > Cardinality(Falling(m))
        /\ TrendDirection(m) = "bearish" <=> Cardinality(Falling(m)) > Cardinality(Rising(m))
        /\ TrendAlignment(m) >= 1 <=> Cardinality(Rising(m)) # Cardinality(Falling(m))
    BY <1>3, TrendIs, RulesAssumption
  <2>2. Cardinality(Rising(m)) \in Nat /\ Cardinality(Falling(m)) \in Nat
    BY ChecksSplit
  <2>3. /\ Trending(m, "bullish") <=> Cardinality(Rising(m)) > Cardinality(Falling(m))
        /\ Trending(m, "bearish") <=> Cardinality(Falling(m)) > Cardinality(Rising(m))
    BY <2>1, <2>2 DEF Trending
  <2>4. VolatilityState(m) = "elevated" <=> m.range > 300
    BY <1>1, <1>3, EntryIs
  <2>5. TrendAlignment(m) = 0 <=> Cardinality(Rising(m)) = Cardinality(Falling(m))
    BY <2>1
  <2> QED
    BY <1>1, <1>3, <2>1, <2>2, <2>3, <2>4, <2>5 DEF ClassifyRegime, MinCandlesForFeatures
<1> QED
  BY <1>1, <1>2, <1>3

\* When a market is a BUY, and when it is a SELL.
LEMMA SignalIs ==
  ASSUME NEW m \in AnyMarkets
  PROVE  /\ Signal(m) \in {"BUY", "SELL", "HOLD"}
         /\ Signal(m) = "BUY" <=>
              /\ m.bars >= 50 /\ m.range <= 300
              /\ Cardinality(Rising(m)) > Cardinality(Falling(m))
              /\ m.histogram > 0 /\ m.rsi <= 80 /\ VolumeState(m) # "low"
         /\ Signal(m) = "SELL" <=>
              /\ m.bars >= 50 /\ m.range <= 300
              /\ Cardinality(Falling(m)) > Cardinality(Rising(m))
              /\ m.histogram < 0 /\ m.rsi >= 20 /\ VolumeState(m) # "low"
<1>1. /\ m.bars \in Nat /\ m.rsi \in Int /\ m.histogram \in Int
  BY MarketKnown
<1>2. Entry(m, "BULLISH", "bullish", m.rsi > 80) <=>
        /\ m.bars >= 50 /\ m.range <= 300
        /\ Cardinality(Rising(m)) > Cardinality(Falling(m))
        /\ m.histogram > 0 /\ m.rsi <= 80 /\ VolumeState(m) # "low"
  BY <1>1, EntryIs, RegimeIs DEF Entry
<1>3. Entry(m, "BEARISH", "bearish", m.rsi < 20) <=>
        /\ m.bars >= 50 /\ m.range <= 300
        /\ Cardinality(Falling(m)) > Cardinality(Rising(m))
        /\ m.histogram < 0 /\ m.rsi >= 20 /\ VolumeState(m) # "low"
  BY <1>1, EntryIs, RegimeIs DEF Entry
<1>4. ~(m.histogram > 0 /\ m.histogram < 0)
  BY <1>1
<1> QED
  BY <1>2, <1>3, <1>4 DEF Signal

\* Turned upside down, a market has risers for fallers.
LEMMA MirrorIs ==
  ASSUME NEW m \in AnyMarkets, \A c \in Available(m) : m.order[c] # 0
  PROVE  /\ Mirror(m) \in AnyMarkets
         /\ Rising(Mirror(m)) = Falling(m) /\ Falling(Mirror(m)) = Rising(m)
         /\ Mirror(m).bars = m.bars /\ Mirror(m).range = m.range
         /\ Mirror(m).rsi = 100 - m.rsi /\ Mirror(m).histogram = -m.histogram
         /\ VolumeState(Mirror(m)) = VolumeState(m)
         /\ VolatilityState(Mirror(m)) = VolatilityState(m)
<1> DEFINE w == Mirror(m)
           flipped == [c \in TrendChecks |-> -m.order[c]]
<1>1. /\ m.order \in [TrendChecks -> -1..1] /\ m.rsi \in Int /\ m.histogram \in -1..1
      /\ flipped \in [TrendChecks -> -1..1]
  BY MarketKnown
<1>2. /\ w.bars = m.bars /\ w.order = flipped /\ w.rsi = 100 - m.rsi
      /\ w.histogram = -m.histogram /\ w.volume = m.volume /\ w.range = m.range
  BY DEF AnyMarkets, Mirror
<1>3. w \in AnyMarkets
  <2>1. 100 - m.rsi \in Int /\ -m.histogram \in -1..1
    BY <1>1
  <2>2. \A o \in [TrendChecks -> -1..1], r \in Int, h \in -1..1 :
          [m EXCEPT !.order = o, !.rsi = r, !.histogram = h] \in AnyMarkets
    BY DEF AnyMarkets
  <2>3. w = [m EXCEPT !.order = flipped, !.rsi = 100 - m.rsi, !.histogram = -m.histogram]
    BY DEF Mirror
  <2> HIDE DEF w, flipped
  <2> QED
    BY <1>1, <2>1, <2>2, <2>3
<1>4. Available(w) = Available(m)
  BY <1>2 DEF Available
<1>5. \A c \in Available(m) :
        /\ w.order[c] = -m.order[c] /\ m.order[c] \in Int
        /\ w.order[c] > 0 <=> ~(m.order[c] > 0)
  BY <1>1, <1>2 DEF Available
<1>6. Rising(w) = Falling(m) /\ Falling(w) = Rising(m)
  BY <1>4, <1>5 DEF Rising, Falling
<1>7. w["volume"] = m["volume"] /\ w["range"] = m["range"] /\ w["bars"] = m["bars"]
  BY <1>2
<1>8. Reading(w, "volume") = Reading(m, "volume") /\ Reading(w, "range") = Reading(m, "range")
  BY <1>2, <1>7 DEF Reading
<1> QED
  BY <1>2, <1>3, <1>6, <1>8 DEF VolumeState, VolatilityState

\* An entry has a score for each component.
LEMMA ScoresIs ==
  ASSUME NEW m \in AnyMarkets, m.bars >= 50, Cardinality(Rising(m)) # Cardinality(Falling(m))
  PROVE  /\ DOMAIN Scores(m) = {"trend", "momentum", "volume", "volatility"}
         /\ Scores(m).trend = TrendAlignment(m)
         /\ \A part \in DOMAIN Scores(m) : Scores(m)[part] \in 1..2
         /\ Total(m) \in 4..8
<1> DEFINE s == Scores(m)
<1>1. TrendAlignment(m) \in 1..2 /\ TrendAlignment(m) # Undefined
  BY TrendIs, RulesAssumption
<1>2. /\ DOMAIN s = {"trend", "momentum", "volume", "volatility"}
      /\ s.trend = TrendAlignment(m) /\ s.trend \in 1..2
      /\ s.momentum \in 1..2 /\ s.volume \in 1..2 /\ s.volatility \in 1..2
  BY <1>1 DEF Scores
<1>3. \A part \in DOMAIN s : s[part] \in 1..2
  BY <1>2
<1> QED
  BY <1>2, <1>3 DEF Total

\* Upside down, it has the opposite signal.
LEMMA MirrorSignal ==
  ASSUME NEW m \in AnyMarkets, \A c \in Available(m) : m.order[c] # 0
  PROVE  Signal(Mirror(m)) = Opposite[Signal(m)]
<1> DEFINE w == Mirror(m)
<1>1. /\ m.rsi \in Int /\ m.histogram \in Int /\ w \in AnyMarkets
      /\ Rising(w) = Falling(m) /\ Falling(w) = Rising(m)
      /\ w.bars = m.bars /\ w.range = m.range /\ VolumeState(w) = VolumeState(m)
      /\ w.rsi = 100 - m.rsi /\ w.histogram = -m.histogram
  BY MarketKnown, MirrorIs
<1> HIDE DEF w
<1>2. /\ w.rsi <= 80 <=> m.rsi >= 20
      /\ w.rsi >= 20 <=> m.rsi <= 80
      /\ w.histogram > 0 <=> m.histogram < 0
      /\ w.histogram < 0 <=> m.histogram > 0
  BY <1>1
<1>3. /\ Signal(w) = "BUY" <=> Signal(m) = "SELL"
      /\ Signal(w) = "SELL" <=> Signal(m) = "BUY"
  BY <1>1, <1>2, SignalIs
<1>4. Signal(w) \in {"BUY", "SELL", "HOLD"} /\ Signal(m) \in {"BUY", "SELL", "HOLD"}
  BY <1>1, SignalIs
<1> QED
  BY <1>3, <1>4 DEF Opposite, w

\* And, if that is an entry, as strong a one.
LEMMA MirrorStrength ==
  ASSUME NEW m \in AnyMarkets, \A c \in Available(m) : m.order[c] # 0,
         Signal(m) # "HOLD"
  PROVE  Strength(Mirror(m)) = Strength(m)
<1> DEFINE w == Mirror(m)
<1>1. /\ m.rsi \in Int /\ w \in AnyMarkets
      /\ Rising(w) = Falling(m) /\ Falling(w) = Rising(m)
      /\ w.bars = m.bars /\ w.rsi = 100 - m.rsi
      /\ VolumeState(w) = VolumeState(m) /\ VolatilityState(w) = VolatilityState(m)
  BY MarketKnown, MirrorIs
<1> HIDE DEF w
<1>2. m.bars >= 50
  BY SignalIs
<1>3. Cardinality(Rising(m)) \in Nat /\ Cardinality(Falling(m)) \in Nat
  BY ChecksSplit
<1>4. TrendAlignment(w) = TrendAlignment(m)
  BY <1>1, <1>3 DEF TrendAlignment
<1>5. RsiState(w) = "neutral" <=> RsiState(m) = "neutral"
  <2>1. /\ WarmUp["rsi"] = 15 /\ m["rsi"] = m.rsi /\ w["rsi"] = w.rsi
    BY DEF WarmUp
  <2>2. Reading(m, "rsi") = m.rsi /\ Reading(w, "rsi") = w.rsi /\ m.bars \in Nat
    BY <1>1, <1>2, <2>1, MarketKnown DEF Reading
  <2>3. /\ m.rsi # Undefined /\ w.rsi # Undefined
    BY <1>1, RulesAssumption
  <2> QED
    BY <1>1, <2>2, <2>3 DEF RsiState, Band
<1>6. Scores(w) = Scores(m)
  BY <1>1, <1>4, <1>5 DEF Scores
<1> QED
  BY <1>6 DEF Strength, Total, w

\* A HOLD or an entry: what one has seen of it.
LEMMA EntriesConfirmed == ASSUME market \in AnyMarkets PROVE EntryIsConfirmed
<1> DEFINE m == market
           with == IF Signal(m) = "BUY" THEN Rising(m) ELSE Falling(m)
<1> SUFFICES ASSUME Signal(m) # "HOLD"
             PROVE  /\ m.bars >= WarmUp["ema21_above_ema50"]
                    /\ 2 * Cardinality(with) > Cardinality(Available(m))
                    /\ IF Signal(m) = "BUY"
                       THEN m.histogram > 0 /\ Reading(m, "rsi") <= 80
                       ELSE m.histogram < 0 /\ Reading(m, "rsi") >= 20
                    /\ m.range <= 300
                    /\ \A part \in DOMAIN Scores(m) : Scores(m)[part] >= 1
                    /\ Total(m) \in 4..8
  BY DEF EntryIsConfirmed
<1>1. WarmUp["ema21_above_ema50"] = 50
  BY DEF WarmUp
<1>2. m.bars \in Nat /\ m.bars >= 50 /\ m.range <= 300
  BY SignalIs, MarketKnown
<1>3. Reading(m, "rsi") = m.rsi
  BY <1>2, EntryIs
<1>4. /\ Cardinality(Rising(m)) \in Nat /\ Cardinality(Falling(m)) \in Nat
      /\ Cardinality(Available(m)) = Cardinality(Rising(m)) + Cardinality(Falling(m))
  BY ChecksSplit
<1>5. CASE Signal(m) = "BUY"
  <2>1. /\ Cardinality(Rising(m)) > Cardinality(Falling(m))
        /\ m.histogram > 0 /\ m.rsi <= 80
    BY <1>5, SignalIs
  <2> QED
    BY <1>1, <1>2, <1>3, <1>4, <1>5, <2>1, ScoresIs
<1>6. CASE Signal(m) = "SELL"
  <2>1. /\ Cardinality(Falling(m)) > Cardinality(Rising(m))
        /\ m.histogram < 0 /\ m.rsi >= 20
    BY <1>6, SignalIs
  <2> QED
    BY <1>1, <1>2, <1>3, <1>4, <1>6, <2>1, ScoresIs
<1> QED
  BY <1>5, <1>6, SignalIs

\* Without a trend there are four checks, two against two.
LEMMA QuietIsLong == ASSUME market \in AnyMarkets PROVE QuietNeedsLongHistory
<1> DEFINE m == market
<1> SUFFICES ASSUME ClassifyRegime(m) \in {"SIDEWAYS", "LOW_VOLATILITY"}
             PROVE  m.bars >= 200
  BY DEF QuietNeedsLongHistory
<1>1. m.bars \in Nat /\ m.range \in Int
  BY MarketKnown
<1>2. m.bars >= 50
  BY <1>1 DEF ClassifyRegime, MinCandlesForFeatures
<1>3. VolatilityState(m) # "elevated"
  BY DEF ClassifyRegime
<1>4. m.range <= 300
  BY <1>1, <1>2, <1>3, EntryIs
<1>5. /\ Cardinality(Rising(m)) \in Nat /\ Cardinality(Falling(m)) \in Nat
      /\ Cardinality(Available(m)) = Cardinality(Rising(m)) + Cardinality(Falling(m))
      /\ m.bars < 200 => Cardinality(Available(m)) = 3
  BY <1>2, ChecksSplit
<1>6. Cardinality(Rising(m)) = Cardinality(Falling(m))
  BY <1>2, <1>4, <1>5, RegimeIs
<1> QED
  BY <1>1, <1>5, <1>6

\* What every reachable market is.
LEMMA MarketsReached == RulesSpec => [](market \in Markets)
<1>1. RulesInit => market \in Markets
  BY DEF RulesInit
<1>2. market \in Markets /\ [RulesNext]_rulesVars => (market \in Markets)'
  BY MarketsStay
<1> QED
  BY <1>1, <1>2, PTL DEF RulesSpec

\* For every reading a market can give, with no average level with another: the
\* mirrored market gets the opposite signal with the same strength.
THEOREM DirectionsAreAlike == RulesSpec => []MirrorImage
<1>1. ASSUME market \in Markets PROVE MirrorImage
  <2> SUFFICES ASSUME \A c \in Available(market) : market.order[c] # 0
               PROVE  Candidate(Mirror(market)) =
                        [signal |-> Opposite[Signal(market)],
                         strength |-> Candidate(market).strength]
    BY DEF MirrorImage
  <2>1. /\ market \in AnyMarkets /\ Signal(market) \in {"BUY", "SELL", "HOLD"}
        /\ Signal(Mirror(market)) = Opposite[Signal(market)]
    BY <1>1, MarketsKnown, MirrorSignal, SignalIs
  <2>2. Signal(market) # "HOLD" => Strength(Mirror(market)) = Strength(market)
    BY <2>1, MirrorStrength
  <2>3. Signal(Mirror(market)) = "HOLD" <=> Signal(market) = "HOLD"
    BY <2>1 DEF Opposite
  <2> QED
    BY <2>1, <2>2, <2>3 DEF Candidate
<1> QED
  BY <1>1, MarketsReached, PTL

\* For every reading a market can give: a BUY or SELL has the history, the majority
\* of trend checks, the momentum, the RSI, the volatility and the score it claims.
THEOREM EntriesAreConfirmed == RulesSpec => []EntryIsConfirmed
<1>1. market \in Markets => EntryIsConfirmed
  BY MarketsKnown, EntriesConfirmed
<1> QED
  BY <1>1, MarketsReached, PTL

\* For every reading a market can give: quiet and directionless regimes are only
\* found over 200 bars or more.
THEOREM QuietIsRare == RulesSpec => []QuietNeedsLongHistory
<1>1. market \in Markets => QuietNeedsLongHistory
  BY MarketsKnown, QuietIsLong
<1> QED
  BY <1>1, MarketsReached, PTL

\* For every market that changes by one reading: a BUY does not become a SELL, nor
\* a SELL a BUY.
THEOREM NoReversalAtOnce == RulesSpec => NoDirectReversal
<1>1. ASSUME market \in Markets, RulesNext
      PROVE  {Signal(market), Signal(market)'} # {"BUY", "SELL"}
  <2> DEFINE next == market'
  <2>1. /\ market \in AnyMarkets /\ next \in AnyMarkets
    BY <1>1, MarketsKnown, MarketsStay
  <2>2. \/ next.histogram = market.histogram
        \/ Rising(next) = Rising(market) /\ Falling(next) = Falling(market)
    <3>1. CASE \E v \in -1..1 : market' = [market EXCEPT !.histogram = v]
      <4>1. next.order = market.order /\ next.bars = market.bars
        BY <2>1, <3>1 DEF AnyMarkets
      <4> QED
        BY <4>1 DEF Rising, Falling, Available
    <3>2. CASE \/ \E c \in TrendChecks, sign \in -1..1 :
                    market' = [market EXCEPT !.order[c] = sign]
               \/ \E v \in RsiValues : market' = [market EXCEPT !.rsi = v]
               \/ \E v \in Volumes : market' = [market EXCEPT !.volume = v]
               \/ \E v \in Ranges : market' = [market EXCEPT !.range = v]
               \/ \E n \in BarCounts : market' = [market EXCEPT !.bars = n]
      BY <2>1, <3>2 DEF AnyMarkets
    <3> QED
      BY <1>1, <3>1, <3>2
         DEF RulesNext, AveragesCross, MomentumTurns, ActivityChanges, LongerHistory
  <2>3. Signal(market)' = Signal(next)
    OBVIOUS
  <2>4. /\ market.histogram \in Int
        /\ Cardinality(Rising(market)) \in Nat /\ Cardinality(Falling(market)) \in Nat
    BY <2>1, MarketKnown, ChecksSplit
  <2>5. ~(Signal(market) = "BUY" /\ Signal(next) = "SELL")
    BY <2>1, <2>2, <2>4, SignalIs
  <2>6. ~(Signal(market) = "SELL" /\ Signal(next) = "BUY")
    BY <2>1, <2>2, <2>4, SignalIs
  <2> QED
    BY <2>3, <2>5, <2>6
<1> QED
  BY <1>1, MarketsReached, PTL DEF RulesSpec, NoDirectReversal

=============================================================================
