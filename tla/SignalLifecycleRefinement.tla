---------------------- MODULE SignalLifecycleRefinement ----------------------
(***************************************************************************)
(* SignalLifecycle implements RiskPromise: seen through this mapping, each *)
(* commit is one whole step of the promise and everything else that a call *)
(* does changes nothing.                                                   *)
(***************************************************************************)
EXTENDS SignalLifecycle

\* None is no row of the promise either.
ASSUME PromiseAssumption ==
  None \notin [kind : Kinds,
               status : {"CANDIDATE", "RISK_APPROVED", "RISK_REJECTED", "SUPERSEDED"}]

RowsMap ==
  [s \in Runs |-> IF s \in Stored
                  THEN [kind |-> signals[s].kind, status |-> signals[s].status]
                  ELSE None]

EvaluationsOf(s) == {c \in Reviews : evaluations[c] # None /\ evaluations[c].signal = s}

\* The one evaluation of a signal.
VerdictMap ==
  [s \in Runs |->
     IF EvaluationsOf(s) = {} THEN None
     ELSE LET row == evaluations[CHOOSE c \in EvaluationsOf(s) : TRUE]
          IN [decision |-> row.decision, version |-> row.version]]

PoliciesMap == [v \in DOMAIN policies |-> policies[v].enabled]

Promise == INSTANCE RiskPromise
  WITH Signals <- Runs, rows <- RowsMap, verdict <- VerdictMap, policies <- PoliciesMap

\* Whatever evaluations, reviews and updates overlap, their commits are whole
\* steps in some order: above all, no signal is decided after it was
\* superseded, decided twice, or decided and then offered again, and no
\* evaluation and no policy is ever rewritten (SignalService._persist,
\* RiskService.evaluate_signal and update_policy).
ImplementsPromise == Promise!Spec

=============================================================================
