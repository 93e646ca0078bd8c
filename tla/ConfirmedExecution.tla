------------------------- MODULE ConfirmedExecution --------------------------
(***************************************************************************)
(* Human-confirmed paper execution (phase6_execution): the submission and  *)
(* reconciliation workflows, each running one call of the paper execution  *)
(* service between two passages through the audit memory.                  *)
(*                                                                         *)
(* A workflow run occupies a slot of Calls; while it is in the stage       *)
(* "serve" the slot of the service with the same name runs its call.  Runs *)
(* are concurrent processes sharing the artifact files of one experiment,  *)
(* the ledger and the broker.  A step is one file operation another        *)
(* process can observe, or one step of the service.                        *)
(*                                                                         *)
(* Covered: recording the authorization, the exclusive files and the       *)
(* window in which they exist empty, the single-use claim, the delegation  *)
(* to the service, the classification of its result, the checks, guard and *)
(* record of an outcome, the report, failing writes and process crashes.   *)
(* Abstracted: lineage and checksums (every record a run loads is the one  *)
(* that was written), identities, failure codes, report text.              *)
(***************************************************************************)
EXTENDS PaperExecution

CONSTANTS
  Authorizations,  \* submission authorizations, one per human invocation and order
  NoAuthorization, \* the authorization of an idle slot
  OrderOf          \* [Authorizations -> Orders]

ASSUME AuthorizationAssumption ==
  /\ NoAuthorization \notin Authorizations
  /\ OrderOf \in [Authorizations -> Orders]

VARIABLES
  authorized, \* authorizations stored in the audit memory
  artifact,   \* exclusive files: "absent", "empty" between open and write, "written"
  outcomes,   \* stored outcomes: <<authorization, kind, disposition>>
  reports,    \* stored reports: <<authorization, kind of the final outcome>>
  stage,      \* where each workflow run stands
  kind,       \* "submission" or "reconciliation"
  auth,       \* the authorization each run is about
  disposition \* the outcome a run has built and not yet recorded
\* Observation, read by properties only.
VARIABLE
  delegated   \* how many submissions each authorization has delegated

memory == <<authorized, artifact, outcomes, reports>>
flow == <<stage, kind, auth, disposition>>
serviceState == <<attempt, trail, killSwitch, pc, work, result, now, brokerOrder, alien,
                  wire, reply, shares, sent, submitted, sawDisengaged>>
allVars == <<serviceState, faults, memory, flow, delegated>>

Kinds == {"submission", "reconciliation"}
Slots == {"consumption"} \cup Kinds   \* a claim, and a guard for each kind of outcome
Dispositions == {"accepted", "rejected", "blocked", "submission_unknown", "reconciled"}
Stages == {"idle", "claim", "write_claim", "delegate", "serve",
           "check", "guard", "write_guard", "record", "report"}

ConfirmedInit ==
  /\ Init
  /\ authorized = {} /\ outcomes = {} /\ reports = {}
  /\ artifact = [f \in Authorizations \X Slots |-> "absent"]
  /\ stage = [c \in Calls |-> "idle"]
  /\ kind = [c \in Calls |-> "submission"]
  /\ auth = [c \in Calls |-> NoAuthorization]
  /\ disposition = [c \in Calls |-> "none"]
  /\ delegated = [a \in Authorizations |-> 0]

(***************************************************************************)
(* The end of a run, and steps within it.                                  *)
(***************************************************************************)
In(c, s) == stage[c] = s

GoTo(c, s) ==
  /\ stage' = [stage EXCEPT ![c] = s]
  /\ UNCHANGED <<kind, auth, disposition>>

Forget(c) ==
  /\ stage' = [stage EXCEPT ![c] = "idle"]
  /\ kind' = [kind EXCEPT ![c] = "submission"]
  /\ auth' = [auth EXCEPT ![c] = NoAuthorization]
  /\ disposition' = [disposition EXCEPT ![c] = "none"]

\* The run ends, by returning or by an error that leaves the workflow.
Leave(c) ==
  /\ Forget(c)
  /\ IF pc[c] = "idle"
       THEN UNCHANGED serviceState
       ELSE Release(c)

(***************************************************************************)
(* _write_json_exclusive: open with O_CREAT and O_EXCL, write and sync,    *)
(* read back.  The file is visible from the open on; a failing write       *)
(* unlinks it, a failing read-back does not.                               *)
(***************************************************************************)
\* Variant: check for the file, then write it whatever happened in between.
CreateExclusive_Overwrite(c, f, next) ==
  /\ artifact' = [artifact EXCEPT ![f] = "empty"]
  /\ GoTo(c, next)
  /\ UNCHANGED serviceState

CreateExclusive(c, f, next) ==
  \/ /\ artifact[f] = "absent"
     /\ artifact' = [artifact EXCEPT ![f] = "empty"]
     /\ GoTo(c, next)
     /\ UNCHANGED serviceState
  \/ /\ artifact[f] # "absent"
     /\ Leave(c)
     /\ UNCHANGED artifact

WriteExclusive(c, f, next) ==
  \/ /\ artifact' = [artifact EXCEPT ![f] = "written"]
     /\ GoTo(c, next)
     /\ UNCHANGED <<serviceState, faults>>
  \/ /\ Fault
     /\ \E left \in {"absent", "written"} : artifact' = [artifact EXCEPT ![f] = left]
     /\ Leave(c)

(***************************************************************************)
(* run_paper_submission_workflow.                                          *)
(***************************************************************************)
\* Session and authorization have content-addressed names: recording the same
\* invocation again stores nothing new.
StartSubmission(c, a) ==
  /\ In(c, "idle")
  /\ authorized' = authorized \cup {a}
  /\ stage' = [stage EXCEPT ![c] = "claim"]
  /\ kind' = [kind EXCEPT ![c] = "submission"]
  /\ auth' = [auth EXCEPT ![c] = a]
  /\ UNCHANGED <<disposition, serviceState, faults, artifact, outcomes, reports, delegated>>

Claim(c) ==
  /\ In(c, "claim")
  /\ CreateExclusive(c, <<auth[c], "consumption">>, "write_claim")
  /\ UNCHANGED <<faults, authorized, outcomes, reports, delegated>>

WriteClaim(c) ==
  /\ In(c, "write_claim")
  /\ WriteExclusive(c, <<auth[c], "consumption">>, "delegate")
  /\ UNCHANGED <<authorized, outcomes, reports, delegated>>

Delegate(c) ==
  /\ In(c, "delegate")
  /\ StartSubmit(c, OrderOf[auth[c]])
  /\ GoTo(c, "serve")
  /\ delegated' = [delegated EXCEPT ![auth[c]] = @ + 1]
  /\ UNCHANGED memory

Serve(c) ==
  /\ In(c, "serve")
  /\ CallStep(c)
  /\ UNCHANGED <<memory, flow, delegated>>

(***************************************************************************)
(* The result of the service becomes an outcome; an error of a class the   *)
(* bridge does not know leaves the workflow.                               *)
(***************************************************************************)
\* Variant: every error of the service counts as an unknown submission.
DispositionOf_ErrorIsUnknown(r) ==
  IF r \in {"unknown", "not_found", "blocked"} THEN "submission_unknown" ELSE r

DispositionOf(r) == IF r \in {"unknown", "not_found"} THEN "submission_unknown" ELSE r

Conclude(c) ==
  /\ In(c, "serve") /\ pc[c] = "done"
  /\ IF result[c] = "error"
       THEN Leave(c)
       ELSE /\ disposition' = [disposition EXCEPT ![c] = DispositionOf(result[c])]
            /\ stage' = [stage EXCEPT ![c] = "check"]
            /\ UNCHANGED <<kind, auth>>
            /\ UNCHANGED serviceState
  /\ UNCHANGED <<faults, memory, delegated>>

(***************************************************************************)
(* record_outcome: checks, guard, record; then the report.                 *)
(***************************************************************************)
Recorded(a, k) == {e \in outcomes : e[1] = a /\ e[2] = k}

Recordable(a, k) ==
  /\ Recorded(a, k) = {}
  /\ k = "reconciliation" => Recorded(a, "submission") = {<<a, "submission", "submission_unknown">>}

CheckOutcome(c) ==
  /\ In(c, "check")
  /\ IF artifact[<<auth[c], "consumption">>] = "written" /\ Recordable(auth[c], kind[c])
       THEN GoTo(c, "guard") /\ UNCHANGED serviceState
       ELSE Leave(c)
  /\ UNCHANGED <<faults, memory, delegated>>

\* Variant: no guard file, only the check before it.
Guard_CheckOnly(c) ==
  /\ In(c, "guard")
  /\ GoTo(c, "record") /\ UNCHANGED serviceState
  /\ UNCHANGED <<faults, memory, delegated>>

Guard(c) ==
  /\ In(c, "guard")
  /\ CreateExclusive(c, <<auth[c], kind[c]>>, "write_guard")
  /\ UNCHANGED <<faults, authorized, outcomes, reports, delegated>>

WriteGuard(c) ==
  /\ In(c, "write_guard")
  /\ WriteExclusive(c, <<auth[c], kind[c]>>, "record")
  /\ UNCHANGED <<authorized, outcomes, reports, delegated>>

\* An atomic replace; when it fails nothing is stored, and the guard stays.
RecordOutcome(c) ==
  /\ In(c, "record")
  /\ \/ /\ outcomes' = outcomes \cup {<<auth[c], kind[c], disposition[c]>>}
        /\ GoTo(c, "report")
        /\ UNCHANGED <<serviceState, faults>>
     \/ /\ Fault
        /\ Leave(c)
        /\ UNCHANGED outcomes
  /\ UNCHANGED <<authorized, artifact, reports, delegated>>

\* The report is refused unless this outcome is the latest of its chain.
WriteReport(c) ==
  /\ In(c, "report")
  /\ reports' = IF kind[c] = "submission" /\ Recorded(auth[c], "reconciliation") # {}
                  THEN reports ELSE reports \cup {<<auth[c], kind[c]>>}
  /\ Leave(c)
  /\ UNCHANGED <<faults, authorized, artifact, outcomes, delegated>>

(***************************************************************************)
(* run_paper_reconciliation_workflow: the authorization must be stored.    *)
(* The ledger is reconciled first, the outcome checked afterwards.         *)
(***************************************************************************)
StartReconciliation(c, a) ==
  /\ In(c, "idle") /\ a \in authorized
  /\ StartReconcile(c, OrderOf[a]) \/ ReconcileRefused(c, OrderOf[a])
  /\ stage' = [stage EXCEPT ![c] = "serve"]
  /\ kind' = [kind EXCEPT ![c] = "reconciliation"]
  /\ auth' = [auth EXCEPT ![c] = a]
  /\ UNCHANGED <<disposition, memory, delegated>>

Die(c) ==
  /\ stage[c] # "idle" /\ Fault
  /\ Leave(c)
  /\ UNCHANGED <<memory, delegated>>

Run(c) ==
  \/ Claim(c) \/ WriteClaim(c) \/ Delegate(c) \/ Serve(c) \/ Conclude(c)
  \/ CheckOutcome(c) \/ Guard(c) \/ WriteGuard(c) \/ RecordOutcome(c) \/ WriteReport(c)

\* The operator, the broker and the clock.
Surroundings ==
  /\ \/ \E o \in Orders : BrokerStep(o)
     \/ MoveKillSwitch
     \/ Tick
  /\ UNCHANGED <<memory, flow, delegated>>

ConfirmedNext ==
  \/ \E c \in Calls : Run(c) \/ Die(c)
  \/ \E c \in Calls, a \in Authorizations : StartSubmission(c, a) \/ StartReconciliation(c, a)
  \/ Surroundings

ConfirmedSpec == ConfirmedInit /\ [][ConfirmedNext]_allVars

-----------------------------------------------------------------------------
(***************************************************************************)
(* Properties.                                                             *)
(***************************************************************************)

\* The audit memory and the runs hold values of the expected kind, and a run
\* in a given stage has what the stage needs.
ConfirmedTypeOK ==
  /\ TypeOK
  /\ authorized \subseteq Authorizations
  /\ artifact \in [Authorizations \X Slots -> {"absent", "empty", "written"}]
  /\ outcomes \subseteq Authorizations \X Kinds \X Dispositions
  /\ reports \subseteq Authorizations \X Kinds
  /\ stage \in [Calls -> Stages]
  /\ kind \in [Calls -> Kinds]
  /\ auth \in [Calls -> Authorizations \cup {NoAuthorization}]
  /\ disposition \in [Calls -> Dispositions \cup {"none"}]
  /\ delegated \in [Authorizations -> Nat]
  /\ \A c \in Calls :
       /\ stage[c] # "idle" => auth[c] \in authorized
       /\ stage[c] \in {"check", "guard", "write_guard", "record", "report"}
            => disposition[c] \in Dispositions
       /\ stage[c] \in {"idle", "claim", "write_claim", "delegate"} <=> pc[c] = "idle"

\* An authorization delegates one submission in its lifetime, whatever runs
\* are repeated, race or die, and nothing is sent to the broker without the
\* durable claim of an authorization for that very order
\* (AQ_PHASE_06_HUMAN_CONFIRMED_PAPER_EXECUTION_SPEC.md, Slice 4: "consumes one
\* authorization exactly once").
SingleUse ==
  /\ \A a \in Authorizations : delegated[a] <= 1
  /\ \A o \in Orders : sent[o] > 0 =>
       \E a \in Authorizations : /\ OrderOf[a] = o
                                 /\ artifact[<<a, "consumption">>] = "written"

\* Racing runs leave one submission outcome per authorization and at most one
\* reconciliation outcome, which follows an unknown submission.
OutcomeChain ==
  \A a \in Authorizations :
    /\ \A k \in Kinds : Cardinality(Recorded(a, k)) <= 1
    /\ Recorded(a, "reconciliation") # {} =>
         Recorded(a, "submission") = {<<a, "submission", "submission_unknown">>}

\* The audit memory, written after and apart from the ledger, never contradicts
\* it: success, rejection and reconciliation are on the ledger, and an unknown
\* submission is one the ledger still holds or has since resolved as live.
AuditIsTruthful ==
  \A e \in outcomes :
    LET status == attempt[OrderOf[e[1]]] IN
    /\ e[3] = "accepted" => status \in {"accepted", "broker_existing_order_found"}
    /\ e[3] \in {"rejected", "reconciled"} => status = e[3]
    /\ e[3] = "submission_unknown" => status \in Pending \cup Positive
=============================================================================
