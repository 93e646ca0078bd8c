--------------------------- MODULE ExecutionProofs ---------------------------
(***************************************************************************)
(* Proofs about paper execution, for any number of orders, authorizations, *)
(* sessions, concurrent calls and runs, faults and clock instants.         *)
(*                                                                         *)
(* First the submission service by itself (PaperExecution): types, the     *)
(* submission invariants, the refinement of SubmissionPromise, the audit   *)
(* trail, what callers are told and, on named assumptions, sessions and    *)
(* positions.  Then the human-confirmed workflow around it                 *)
(* (ConfirmedExecution): an authorization is used once and nothing is sent *)
(* without its claim, its outcomes form a chain, the audit memory agrees   *)
(* with the ledger, and the service below keeps its promise.               *)
(***************************************************************************)
EXTENDS ConfirmedExecution, FiniteSetTheorems, TLAPS

\* Phases of a submission that holds its reservation and has sent nothing.
Unsent == PreSend \cup {"mark_blocked"}

\* Phases about to record that the broker has the order.
Recording == {"record_existing", "record_accepted", "record_reconciled"}

Backed(o) == brokerOrder[o] # "none" /\ o \notin alien

(***************************************************************************)
(* The inductive invariant.  The reservation makes a call the only one     *)
(* that may still send its order (SoleUnsent), the session belongs to one  *)
(* order (OneClaim), and what a call is about to write is already true of  *)
(* the broker (RejectionsReal, OrdersBacked).                              *)
(***************************************************************************)
OneClaim ==
  \A o, p \in Orders :
    SessionOf[o] = SessionOf[p] /\ attempt[o] # "none" /\ attempt[p] # "none" => o = p

UnsentHoldsRow ==
  \A c \in Calls :
    /\ pc[c] \in Unsent => attempt[work[c]] # "none" /\ sent[work[c]] = 0
    /\ pc[c] \in PreSend => attempt[work[c]] # "blocked"

SoleUnsent ==
  \A c, d \in Calls :
    pc[c] \in Unsent /\ pc[d] \in Unsent /\ work[c] = work[d] => c = d

SentOnce ==
  \A o \in Orders :
    /\ sent[o] <= 1
    /\ attempt[o] \in {"none", "blocked"} => sent[o] = 0

RepliesFollowRequests ==
  \A o \in Orders :
    /\ o \in wire => sent[o] > 0 /\ reply[o] = "none"
    /\ reply[o] # "none" => sent[o] > 0

RejectionsReal ==
  /\ \A o \in Orders : attempt[o] = "rejected" => reply[o] = "rejected"
  /\ \A c \in Calls : pc[c] = "mark_rejected" => reply[work[c]] = "rejected"

OrdersBacked ==
  /\ \A o \in Orders : /\ attempt[o] \in Positive => Backed(o)
                       /\ reply[o] = "accepted" => Backed(o)
                       /\ o \in alien => brokerOrder[o] # "none"
  /\ \A c \in Calls : pc[c] \in Recording => Backed(work[c])

IInv == /\ TypeOK
        /\ OneClaim /\ UnsentHoldsRow /\ SoleUnsent /\ SentOnce
        /\ RepliesFollowRequests /\ RejectionsReal /\ OrdersBacked

-----------------------------------------------------------------------------
(***************************************************************************)
(* The invariant holds initially and is preserved by every step.           *)
(***************************************************************************)
\* An empty ledger, idle calls and a broker without orders satisfy the invariant.
LEMMA InitIInv == Init => IInv
  BY ConstantsAssumption
  DEF Init, IInv, TypeOK, OneClaim, UnsentHoldsRow, SoleUnsent, SentOnce,
      RepliesFollowRequests, RejectionsReal, OrdersBacked, Backed, Recording, Unsent,
      PreSend, Statuses, Pending, Terminal, Positive, Negative, Phases, Results, Instants

\* A step of a call that touches neither the ledger nor the broker and leads to
\* a phase whose claims already hold, as every gate, read and answer does.
LEMMA GoKeepsIInv ==
  ASSUME IInv, NEW c \in Calls, NEW phase \in Active,
         Go(c, phase), pc[c] # "idle", pc[c] # "done", work[c] \in Orders,
         faults' \in 0..MaxFaults,
         UNCHANGED <<ledgerVars, brokerVars, observation>>,
         phase \in Unsent => pc[c] \in PreSend,
         phase \in Recording => Backed(work[c]),
         phase = "mark_rejected" => reply[work[c]] = "rejected"
  PROVE  IInv'
  BY DEF IInv, TypeOK, OneClaim, UnsentHoldsRow, SoleUnsent, SentOnce,
      RepliesFollowRequests, RejectionsReal, OrdersBacked, Backed, Recording, Unsent,
      PreSend, Phases, Go, ledgerVars, brokerVars, observation

\* A call that ends, whatever its result, without touching anything else.
LEMMA ReturnKeepsIInv ==
  ASSUME IInv, NEW c \in Calls, NEW r \in Results,
         Return(c, r), pc[c] # "idle", faults' \in 0..MaxFaults,
         UNCHANGED <<ledgerVars, brokerVars, observation>>
  PROVE  IInv'
  BY DEF IInv, TypeOK, OneClaim, UnsentHoldsRow, SoleUnsent, SentOnce,
      RepliesFollowRequests, RejectionsReal, OrdersBacked, Backed, Recording, Unsent,
      PreSend, Phases, Return, ledgerVars, brokerVars, observation

\* A call that writes its verdict and ends.  The verdict must be one the ledger
\* admits, and true.
LEMMA VerdictKeepsIInv ==
  ASSUME IInv, NEW c \in Calls, NEW r \in Results,
         NEW status \in {"accepted", "broker_existing_order_found", "reconciled",
                         "submission_unknown", "blocked", "rejected"},
         Allowed(work[c], status), SetStatus(work[c], status), Return(c, r),
         pc[c] # "idle", faults' \in 0..MaxFaults,
         UNCHANGED <<brokerVars, observation>>,
         status \in Positive => Backed(work[c]),
         status = "blocked" => pc[c] = "mark_blocked",
         status = "rejected" => reply[work[c]] = "rejected"
  PROVE  IInv'
  <1> USE DEF SetStatus, Return, Allowed, PriorStates, brokerVars, observation,
      Pending, Positive, Negative, Terminal, Statuses, Phases, Unsent, PreSend, Recording
  <1>1. /\ work[c] \in Orders
        /\ attempt[work[c]] \in Pending
    BY DEF IInv, TypeOK
  <1>2. TypeOK'
    BY <1>1 DEF IInv, TypeOK
  <1>3. OneClaim' /\ RepliesFollowRequests'
    BY <1>1 DEF IInv, TypeOK, OneClaim, RepliesFollowRequests
  <1>4. UnsentHoldsRow'
    BY <1>1 DEF IInv, TypeOK, UnsentHoldsRow, SoleUnsent
  <1>5. SoleUnsent'
    BY DEF IInv, TypeOK, SoleUnsent
  <1>6. SentOnce'
    BY <1>1 DEF IInv, TypeOK, SentOnce, UnsentHoldsRow
  <1>7. RejectionsReal'
    BY <1>1 DEF IInv, TypeOK, RejectionsReal
  <1>8. OrdersBacked'
    BY <1>1 DEF IInv, TypeOK, OrdersBacked, Backed
  <1> QED BY <1>2, <1>3, <1>4, <1>5, <1>6, <1>7, <1>8 DEF IInv

\* record_receipt, whether it commits, is refused or fails.
LEMMA RecordKeepsIInv ==
  ASSUME IInv, NEW c \in Calls,
         RecordExisting(c) \/ RecordAccepted(c) \/ RecordReconciled(c)
  PROVE  IInv'
  <1>1. PICK phase \in Recording,
             status \in Positive, r \in {"accepted", "reconciled"} :
               RecordReceipt(c, phase, status, r)
    BY DEF RecordExisting, RecordAccepted, RecordReconciled, Recording, Positive
  <1>2. /\ pc[c] \in Recording
        /\ work[c] \in Orders
        /\ Backed(work[c])
        /\ UNCHANGED <<brokerVars, observation>>
    BY <1>1 DEF RecordReceipt, At, IInv, TypeOK, OrdersBacked, Recording
  <1>3. CASE /\ Allowed(work[c], status) /\ SetStatus(work[c], status)
             /\ Return(c, r) /\ UNCHANGED faults
    BY <1>2, <1>3, VerdictKeepsIInv DEF Positive, Results, Recording, IInv, TypeOK
  <1>4. CASE Go(c, "suspect") /\ UNCHANGED ledgerVars /\ (Fault \/ UNCHANGED faults)
    <2>1. faults' \in 0..MaxFaults
      BY <1>4, ConstantsAssumption DEF Fault, IInv, TypeOK
    <2> QED BY <1>2, <1>4, <2>1, GoKeepsIInv
            DEF Active, SharedPhases, Recording, Unsent, PreSend
  <1> QED BY <1>1, <1>3, <1>4 DEF RecordReceipt

\* mark_submission_unknown and mark_failure, with all their failures.
LEMMA MarkKeepsIInv ==
  ASSUME IInv, NEW c \in Calls,
         MarkBlocked(c) \/ MarkRejected(c) \/ MarkUnknown(c) \/ MarkSuspect(c)
  PROVE  IInv'
  <1>1. PICK phase \in {"mark_blocked", "mark_rejected", "mark_unknown", "suspect"},
             status \in {"blocked", "rejected", "submission_unknown"},
             done \in {"blocked", "rejected", "unknown"},
             refused \in {"blocked", "unknown"} :
               /\ Mark(c, phase, status, done, refused)
               /\ status = "blocked" => phase = "mark_blocked"
               /\ status = "rejected" => phase = "mark_rejected"
    BY DEF MarkBlocked, MarkRejected, MarkUnknown, MarkSuspect
  <1>2. /\ pc[c] = phase
        /\ UNCHANGED <<brokerVars, observation>>
        /\ faults' \in 0..MaxFaults
    BY <1>1, ConstantsAssumption DEF Mark, At, Fault, IInv, TypeOK
  <1>3. phase = "mark_rejected" => reply[work[c]] = "rejected"
    BY <1>2 DEF IInv, RejectionsReal
  <1>4. \E r \in Results : Return(c, r)
    BY <1>1 DEF Mark, Results
  <1>5. CASE Allowed(work[c], status) /\ SetStatus(work[c], status)
    BY <1>1, <1>2, <1>3, <1>4, <1>5, VerdictKeepsIInv DEF Positive
  <1>6. CASE UNCHANGED ledgerVars
    BY <1>2, <1>4, <1>6, ReturnKeepsIInv
  <1> QED BY <1>1, <1>5, <1>6 DEF Mark

\* The reservation: the session had no row, so the order was never sent and no
\* other call is about to send it.
LEMMA ReserveKeepsIInv ==
  ASSUME IInv, NEW c \in Calls, Reserve(c)
  PROVE  IInv'
  <1> USE DEF Reserve, At, SetStatus, Go, brokerVars, SessionAvailable,
      Statuses, Pending, Terminal, Positive, Negative, Phases, Unsent, PreSend, Recording
  <1>1. work[c] \in Orders /\ attempt[work[c]] = "none" /\ sent[work[c]] = 0
    BY DEF IInv, TypeOK, SentOnce
  <1>2. TypeOK'
    BY <1>1 DEF IInv, TypeOK, Active, SubmitPhases, EarlyGates
  <1>3. OneClaim'
    BY <1>1 DEF IInv, TypeOK, OneClaim
  <1>4. UnsentHoldsRow' /\ SoleUnsent'
    BY <1>1 DEF IInv, TypeOK, UnsentHoldsRow, SoleUnsent
  <1>5. SentOnce' /\ RepliesFollowRequests'
    BY <1>1 DEF IInv, TypeOK, SentOnce, RepliesFollowRequests
  <1>6. RejectionsReal' /\ OrdersBacked'
    BY <1>1 DEF IInv, TypeOK, RejectionsReal, OrdersBacked, Backed
  <1> QED BY <1>2, <1>3, <1>4, <1>5, <1>6 DEF IInv

\* The submission request: the sender is the only call that could send, and it
\* leaves the unsent phases.
LEMMA SendKeepsIInv ==
  ASSUME IInv, NEW c \in Calls, Send(c)
  PROVE  IInv'
  <1> USE DEF Send, At, Go, ledgerVars, Phases, Unsent, PreSend, Recording
  <1>1. /\ work[c] \in Orders /\ sent[work[c]] = 0
        /\ attempt[work[c]] \notin {"none", "blocked"}
        /\ reply[work[c]] = "none"
    BY DEF IInv, TypeOK, UnsentHoldsRow, RepliesFollowRequests
  <1>2. TypeOK'
    BY <1>1 DEF IInv, TypeOK, Active, SubmitPhases
  <1>3. OneClaim' /\ RejectionsReal'
    BY DEF IInv, TypeOK, OneClaim, RejectionsReal
  <1>4. UnsentHoldsRow' /\ SoleUnsent'
    BY <1>1 DEF IInv, TypeOK, UnsentHoldsRow, SoleUnsent
  <1>5. SentOnce' /\ RepliesFollowRequests'
    BY <1>1 DEF IInv, TypeOK, SentOnce, RepliesFollowRequests
  <1>6. OrdersBacked'
    BY DEF IInv, TypeOK, OrdersBacked, Backed
  <1> QED BY <1>2, <1>3, <1>4, <1>5, <1>6 DEF IInv

\* The broker answers requests that were sent, once each, and only adds orders.
LEMMA BrokerKeepsIInv ==
  ASSUME IInv, NEW o \in Orders, BrokerStep(o)
  PROVE  IInv'
  <1> USE DEF IInv, TypeOK, OneClaim, UnsentHoldsRow, SoleUnsent, SentOnce,
      RepliesFollowRequests, RejectionsReal, OrdersBacked, Backed, ledgerVars, callVars,
      observation
  <1>1. CASE BrokerAccepts(o)
    BY <1>1 DEF BrokerAccepts
  <1>2. CASE BrokerRejects(o)
    BY <1>2 DEF BrokerRejects
  <1>3. CASE RequestLost(o)
    BY <1>3 DEF RequestLost
  <1>4. CASE ExternalOrder(o)
    BY <1>4 DEF ExternalOrder
  <1>5. CASE Fill(o)
    BY <1>5 DEF Fill
  <1> QED BY <1>1, <1>2, <1>3, <1>4, <1>5 DEF BrokerStep

\* Every gate, read and answer of a call is a Go or a Return.
LEMMA ReadKeepsIInv ==
  ASSUME IInv, NEW c \in Calls,
         \/ PassGates(c) \/ PassKillSwitch(c) \/ PassPositions(c) \/ PassOpenOrders(c)
         \/ Refuse(c) \/ LookupNothing(c) \/ LookupExisting(c) \/ LookupFails(c)
         \/ RefreshClock(c) \/ RefreshRefuses(c) \/ FinalGate(c) \/ FinalGateUnreadable(c)
         \/ BuildRequestFails(c) \/ ReceiveAccepted(c) \/ ReceiveRejected(c)
         \/ NoUsableReply(c) \/ ReconcileNothing(c) \/ ReconcileFound(c)
  PROVE  IInv'
  <1> USE DEF At, PreSend, Recording, Unsent, Active, SubmitPhases, EarlyGates,
      ReconcilePhases, SharedPhases
  <1>1. /\ faults \in 0..MaxFaults
        /\ Fault => faults' \in 0..MaxFaults
    BY ConstantsAssumption DEF Fault, IInv, TypeOK
  <1>2. pc[c] # "idle" => work[c] \in Orders
    BY DEF IInv, TypeOK
  <1>3. CASE \/ PassGates(c) \/ PassKillSwitch(c) \/ PassPositions(c) \/ PassOpenOrders(c)
             \/ LookupNothing(c) \/ RefreshClock(c) \/ RefreshRefuses(c)
             \/ FinalGate(c) \/ BuildRequestFails(c) \/ NoUsableReply(c)
    <2>1. PICK phase \in Active :
            /\ Go(c, phase) /\ phase \notin Recording \cup {"mark_rejected"}
            /\ phase \in Unsent => pc[c] \in PreSend
      BY <1>3 DEF PassGates, PassKillSwitch, PassPositions, PassOpenOrders, LookupNothing,
         RefreshClock, RefreshRefuses, FinalGate, BuildRequestFails, NoUsableReply
    <2>2. /\ UNCHANGED <<ledgerVars, brokerVars, faults, observation>>
          /\ pc[c] # "idle" /\ pc[c] # "done"
      BY <1>3 DEF PassGates, PassKillSwitch, PassPositions, PassOpenOrders, LookupNothing,
         RefreshClock, RefreshRefuses, FinalGate, BuildRequestFails, NoUsableReply
    <2> QED BY <1>1, <1>2, <2>1, <2>2, GoKeepsIInv
  <1>4. CASE LookupExisting(c) \/ ReconcileFound(c)
    BY <1>1, <1>2, <1>4, GoKeepsIInv DEF LookupExisting, ReconcileFound, Backed
  <1>5. CASE ReceiveAccepted(c)
    BY <1>1, <1>2, <1>5, GoKeepsIInv DEF ReceiveAccepted, IInv, OrdersBacked
  <1>6. CASE ReceiveRejected(c)
    BY <1>1, <1>2, <1>6, GoKeepsIInv DEF ReceiveRejected
  <1>7. CASE Refuse(c) \/ LookupFails(c) \/ ReconcileNothing(c)
    BY <1>1, <1>7, ReturnKeepsIInv DEF Refuse, LookupFails, ReconcileNothing, Results
  <1>8. CASE FinalGateUnreadable(c)
    <2>1. CASE Go(c, "mark_blocked")
      BY <1>1, <1>2, <1>8, <2>1, GoKeepsIInv DEF FinalGateUnreadable
    <2>2. CASE Return(c, "error")
      BY <1>1, <1>8, <2>2, ReturnKeepsIInv DEF FinalGateUnreadable, Results
    <2> QED BY <1>8, <2>1, <2>2 DEF FinalGateUnreadable
  <1> QED BY <1>3, <1>4, <1>5, <1>6, <1>7, <1>8

\* A slot given up, by a call that finished or died.
LEMMA ReleaseKeepsIInv ==
  ASSUME IInv, NEW c \in Calls, Release(c), faults' \in 0..MaxFaults
  PROVE  IInv'
  BY DEF IInv, OneClaim, UnsentHoldsRow, SoleUnsent, SentOnce, RepliesFollowRequests,
     RejectionsReal, OrdersBacked, Backed, Unsent, PreSend, Recording,
     Release, TypeOK, Phases, Results, ledgerVars, brokerVars

\* Calls that begin, end or die, the operator and the clock.
LEMMA AroundKeepsIInv ==
  ASSUME IInv,
         \/ \E c \in Calls : StartCall(c) \/ Finish(c) \/ Crash(c)
         \/ MoveKillSwitch \/ Tick
  PROVE  IInv'
  <1> USE DEF IInv, OneClaim, UnsentHoldsRow, SoleUnsent, SentOnce,
      RepliesFollowRequests, RejectionsReal, OrdersBacked, Backed, At,
      Unsent, PreSend, Recording
  <1>1. ASSUME NEW c \in Calls, StartCall(c) PROVE IInv'
    BY <1>1 DEF StartCall, StartSubmit, StartReconcile, ReconcileRefused, TypeOK, Phases,
       Active, SubmitPhases, EarlyGates, ReconcilePhases, Results,
       ledgerVars, brokerVars, observation
  <1>2. ASSUME NEW c \in Calls, Finish(c) \/ Crash(c) PROVE IInv'
    <2>1. Release(c) /\ faults' \in 0..MaxFaults
      BY <1>2, ConstantsAssumption DEF Finish, Crash, Fault, TypeOK
    <2> QED BY <2>1, ReleaseKeepsIInv
  <1>3. CASE MoveKillSwitch
    BY <1>3 DEF MoveKillSwitch, TypeOK, callVars, brokerVars
  <1>4. CASE Tick
    BY <1>4, ConstantsAssumption
       DEF Tick, TypeOK, WorkingOrders, Instants, ledgerVars, callVars, observation
  <1> QED BY <1>1, <1>2, <1>3, <1>4

\* Every step preserves the invariant.
LEMMA StepIInv == IInv /\ [Next]_vars => IInv'
  <1> SUFFICES ASSUME IInv, [Next]_vars PROVE IInv'
    OBVIOUS
  <1>1. ASSUME NEW c \in Calls, CallStep(c) PROVE IInv'
    BY <1>1, ReadKeepsIInv, RecordKeepsIInv, MarkKeepsIInv, ReserveKeepsIInv, SendKeepsIInv
       DEF CallStep, SubmitStep, ReconcileStep
  <1>2. CASE UNCHANGED vars
    BY <1>2 DEF vars, ledgerVars, callVars, brokerVars, observation, IInv, TypeOK, OneClaim,
       UnsentHoldsRow, SoleUnsent, SentOnce, RepliesFollowRequests, RejectionsReal,
       OrdersBacked, Backed
  <1> QED BY <1>1, <1>2, AroundKeepsIInv, BrokerKeepsIInv DEF Next

\* The invariant holds in every state of every behaviour of the service.
THEOREM Invariance == Spec => []IInv
  BY InitIInv, StepIInv, PTL DEF Spec

-----------------------------------------------------------------------------
(***************************************************************************)
(* What follows from it.                                                   *)
(***************************************************************************)

\* The ledger, the calls and the broker only ever hold the values they are
\* meant to hold.
THEOREM TypeCorrectness == Spec => []TypeOK
  <1>1. IInv => TypeOK
    BY DEF IInv
  <1> QED BY <1>1, Invariance, PTL

\* The ledger's reservation admits one submission request per execution
\* session, for any number of concurrent submit and reconcile calls, crashes
\* and ledger failures.
THEOREM AtMostOneSubmission == Spec => []OneSubmissionPerSession
  <1>1. IInv => OneSubmissionPerSession
    <2> SUFFICES ASSUME IInv, NEW o \in Orders, NEW p \in Orders
                 PROVE  /\ sent[o] <= 1
                        /\ SessionOf[o] = SessionOf[p] /\ sent[o] > 0 /\ sent[p] > 0 => o = p
      BY DEF OneSubmissionPerSession
    <2>1. sent[o] > 0 => attempt[o] # "none"
      BY DEF IInv, SentOnce
    <2>2. sent[p] > 0 => attempt[p] # "none"
      BY DEF IInv, SentOnce
    <2> QED BY <2>1, <2>2 DEF IInv, SentOnce, OneClaim
  <1> QED BY <1>1, Invariance, PTL

\* "blocked" and "rejected" are never recorded for an order the broker has
\* from us or may still get.
THEOREM WrittenOffIsDead == Spec => []NoLiveOrderWrittenOff
  <1>1. IInv => NoLiveOrderWrittenOff
    BY DEF IInv, NoLiveOrderWrittenOff, SentOnce, RejectionsReal, RepliesFollowRequests
  <1> QED BY <1>1, Invariance, PTL

\* "accepted", "broker_existing_order_found" and "reconciled" are only recorded
\* for an order the broker holds and that matches the attempt.
THEOREM PositiveIsBacked == Spec => []PositiveStatusIsBacked
  <1>1. IInv => PositiveStatusIsBacked
    BY DEF IInv, PositiveStatusIsBacked, OrdersBacked, Backed
  <1> QED BY <1>1, Invariance, PTL

-----------------------------------------------------------------------------
(***************************************************************************)
(* The service implements SubmissionPromise: what each step of the service *)
(* is, seen through the refinement mapping.                                *)
(***************************************************************************)

\* A step that changes no status, request, reply or the fact that the broker
\* has a given order is invisible.
LEMMA InvisibleStep ==
  ASSUME UNCHANGED <<attempt, sent, alien, reply>>,
         \A o \in Orders : brokerOrder'[o] = "none" <=> brokerOrder[o] = "none"
  PROVE  UNCHANGED Promise!vars
  BY DEF Promise!vars

\* Writing a verdict concludes it in the promise, or leaves it open.
LEMMA VerdictIsPromised ==
  ASSUME IInv, NEW o \in Orders,
         NEW status \in {"accepted", "broker_existing_order_found", "reconciled",
                         "submission_unknown", "blocked", "rejected"},
         Allowed(o, status), SetStatus(o, status),
         UNCHANGED <<brokerVars, observation>>,
         status \in Positive => Backed(o),
         status = "blocked" => sent[o] = 0,
         status = "rejected" => reply[o] = "rejected"
  PROVE  [Promise!Next]_(Promise!vars)
  <1> USE DEF SetStatus, Allowed, PriorStates, Pending, Positive, Negative,
      brokerVars, observation
  <1>1. attempt \in [Orders -> Statuses] /\ attempt[o] \in Pending
    BY DEF IInv, TypeOK
  <1>2. CASE status \in Positive
    <2>1. Promise!ConcludeLive(o)
      BY <1>1, <1>2 DEF Promise!ConcludeLive, Backed
    <2> QED BY <2>1 DEF Promise!Next
  <1>3. CASE status \in Negative
    <2>1. \/ o \notin {p \in Orders : sent[p] > 0}
          \/ o \in {p \in Orders : reply[p] = "rejected"}
      <3>1. CASE status = "blocked"
        BY <3>1
      <3>2. CASE status = "rejected"
        BY <3>2
      <3> QED BY <1>3, <3>1, <3>2
    <2>2. attempt'[o] \in Negative
      BY <1>1, <1>3
    <2>3. \A p \in Orders \ {o} : attempt'[p] = attempt[p]
      BY <1>1
    <2>4. Promise!ConcludeDead(o)
      BY <1>1, <2>1, <2>2, <2>3 DEF Promise!ConcludeDead
    <2> QED BY <2>4 DEF Promise!Next
  <1>4. CASE status = "submission_unknown"
    BY <1>1, <1>4 DEF Promise!vars
  <1> QED BY <1>2, <1>3, <1>4

\* The ledger updates of a call.
LEMMA UpdateIsPromised ==
  ASSUME IInv, NEW c \in Calls,
         \/ RecordExisting(c) \/ RecordAccepted(c) \/ RecordReconciled(c)
         \/ MarkBlocked(c) \/ MarkRejected(c) \/ MarkUnknown(c) \/ MarkSuspect(c)
  PROVE  [Promise!Next]_(Promise!vars)
  <1>1. work[c] \in Orders /\ UNCHANGED <<brokerVars, observation>>
    BY DEF RecordExisting, RecordAccepted, RecordReconciled, RecordReceipt,
       MarkBlocked, MarkRejected, MarkUnknown, MarkSuspect, Mark, At, IInv, TypeOK
  <1>2. CASE UNCHANGED ledgerVars
    BY <1>1, <1>2, InvisibleStep DEF ledgerVars, brokerVars, observation
  <1>3. ASSUME NEW status \in Positive, NEW phase \in Recording, NEW r,
               RecordReceipt(c, phase, status, r)
        PROVE  [Promise!Next]_(Promise!vars)
    <2>1. Backed(work[c])
      BY <1>3 DEF RecordReceipt, At, IInv, OrdersBacked
    <2> QED BY <1>1, <1>2, <1>3, <2>1, VerdictIsPromised
            DEF RecordReceipt, Positive
  <1>4. ASSUME NEW status \in {"blocked", "rejected", "submission_unknown"},
               NEW phase, NEW done, NEW refused,
               Mark(c, phase, status, done, refused),
               status = "blocked" => phase = "mark_blocked",
               status = "rejected" => phase = "mark_rejected"
        PROVE  [Promise!Next]_(Promise!vars)
    <2>1. status = "blocked" => sent[work[c]] = 0
      BY <1>4 DEF Mark, At, IInv, UnsentHoldsRow, Unsent
    <2>2. status = "rejected" => reply[work[c]] = "rejected"
      BY <1>4 DEF Mark, At, IInv, RejectionsReal
    <2> QED BY <1>1, <1>2, <1>4, <2>1, <2>2, VerdictIsPromised
            DEF Mark, Positive
  <1>5. CASE RecordExisting(c) \/ RecordAccepted(c) \/ RecordReconciled(c)
    BY <1>3, <1>5 DEF RecordExisting, RecordAccepted, RecordReconciled, Recording, Positive
  <1>6. CASE MarkBlocked(c) \/ MarkRejected(c) \/ MarkUnknown(c) \/ MarkSuspect(c)
    BY <1>4, <1>6 DEF MarkBlocked, MarkRejected, MarkUnknown, MarkSuspect
  <1> QED BY <1>5, <1>6

\* Reserving claims the session, submitting sends.
LEMMA ReserveAndSendArePromised ==
  ASSUME IInv, NEW c \in Calls, Reserve(c) \/ Send(c)
  PROVE  Promise!Next
  <1>1. PICK o \in Orders : o = work[c]
    BY DEF Reserve, Send, At, IInv, TypeOK
  <1>2. CASE Reserve(c)
    <2>1. attempt[o] = "none" /\ attempt \in [Orders -> Statuses]
      BY <1>1, <1>2 DEF Reserve, SessionAvailable, IInv, TypeOK
    <2>2. Promise!Claim(o)
      BY <1>1, <1>2, <2>1 DEF Reserve, SessionAvailable, SetStatus, Promise!Claim,
         Positive, Negative, brokerVars
    <2> QED BY <2>2 DEF Promise!Next
  <1>3. CASE Send(c)
    <2>1. /\ attempt[o] # "none" /\ sent[o] = 0
          /\ attempt[o] \notin Negative
      BY <1>1, <1>3 DEF Send, At, IInv, UnsentHoldsRow, RejectionsReal,
         RepliesFollowRequests, Negative, Unsent, PreSend
    <2>2. Promise!Send(o)
      BY <1>1, <1>3, <2>1 DEF Send, Promise!Send, Positive, Negative, ledgerVars,
         IInv, TypeOK
    <2> QED BY <2>2 DEF Promise!Next
  <1> QED BY <1>2, <1>3

\* What the broker does with a request, or receives from elsewhere.
LEMMA BrokerIsPromised ==
  ASSUME IInv, NEW o \in Orders, BrokerStep(o)
  PROVE  [Promise!Next]_(Promise!vars)
  <1> USE DEF IInv, TypeOK, RepliesFollowRequests, OrdersBacked,
      ledgerVars, callVars, observation
  <1>1. CASE BrokerAccepts(o)
    <2>1. Promise!Arrive(o)
      BY <1>1 DEF BrokerAccepts, Promise!Arrive
    <2> QED BY <2>1 DEF Promise!Next
  <1>2. CASE BrokerRejects(o)
    <2>1. Promise!BeRefused(o)
      BY <1>2 DEF BrokerRejects, Promise!BeRefused
    <2> QED BY <2>1 DEF Promise!Next
  <1>3. CASE RequestLost(o)
    BY <1>3, InvisibleStep DEF RequestLost
  <1>4. CASE ExternalOrder(o)
    <2>1. CASE alien' = alien
      <3>1. Promise!Arrive(o)
        BY <1>4, <2>1 DEF ExternalOrder, Promise!Arrive
      <3> QED BY <3>1 DEF Promise!Next
    <2>2. CASE alien' = alien \cup {o}
      BY <1>4, <2>2 DEF ExternalOrder, Promise!vars
    <2> QED BY <1>4, <2>1, <2>2 DEF ExternalOrder
  <1>5. CASE Fill(o)
    BY <1>5, InvisibleStep DEF Fill
  <1> QED BY <1>1, <1>2, <1>3, <1>4, <1>5 DEF BrokerStep

\* Every other step is invisible.
LEMMA OthersAreInvisible ==
  ASSUME IInv,
         \/ \E c \in Calls :
              \/ StartCall(c) \/ Finish(c) \/ Crash(c)
              \/ PassGates(c) \/ PassKillSwitch(c) \/ PassPositions(c) \/ PassOpenOrders(c)
              \/ Refuse(c) \/ LookupNothing(c) \/ LookupExisting(c) \/ LookupFails(c)
              \/ RefreshClock(c) \/ RefreshRefuses(c) \/ FinalGate(c)
              \/ FinalGateUnreadable(c) \/ BuildRequestFails(c) \/ ReceiveAccepted(c)
              \/ ReceiveRejected(c) \/ NoUsableReply(c) \/ ReconcileNothing(c)
              \/ ReconcileFound(c)
         \/ MoveKillSwitch \/ Tick
  PROVE  UNCHANGED Promise!vars
  <1>1. UNCHANGED <<attempt, sent, alien, reply>>
    BY DEF StartCall, StartSubmit, StartReconcile, ReconcileRefused, Finish, Crash, Release,
       PassGates, PassKillSwitch, PassPositions, PassOpenOrders, Refuse, LookupNothing,
       LookupExisting, LookupFails, RefreshClock, RefreshRefuses, FinalGate,
       FinalGateUnreadable, BuildRequestFails, ReceiveAccepted, ReceiveRejected,
       NoUsableReply, ReconcileNothing, ReconcileFound, MoveKillSwitch, Tick,
       ledgerVars, brokerVars, observation
  <1>2. \A o \in Orders : brokerOrder'[o] = "none" <=> brokerOrder[o] = "none"
    <2>1. CASE Tick
      BY <2>1 DEF Tick, WorkingOrders
    <2>2. CASE UNCHANGED brokerOrder
      BY <2>2
    <2> QED BY <2>1, <2>2
         DEF StartCall, StartSubmit, StartReconcile, ReconcileRefused, Finish, Crash, Release,
         PassGates, PassKillSwitch, PassPositions, PassOpenOrders, Refuse, LookupNothing,
         LookupExisting, LookupFails, RefreshClock, RefreshRefuses, FinalGate,
         FinalGateUnreadable, BuildRequestFails, ReceiveAccepted, ReceiveRejected,
         NoUsableReply, ReconcileNothing, ReconcileFound, MoveKillSwitch, brokerVars
  <1> QED BY <1>1, <1>2, InvisibleStep

LEMMA StepIsPromised == IInv /\ [Next]_vars => [Promise!Next]_(Promise!vars)
  <1> SUFFICES ASSUME IInv, [Next]_vars PROVE [Promise!Next]_(Promise!vars)
    OBVIOUS
  <1>1. ASSUME NEW c \in Calls, CallStep(c) PROVE [Promise!Next]_(Promise!vars)
    BY <1>1, UpdateIsPromised, ReserveAndSendArePromised, OthersAreInvisible
       DEF CallStep, SubmitStep, ReconcileStep
  <1>2. CASE UNCHANGED vars
    BY <1>2, InvisibleStep DEF vars, ledgerVars, brokerVars, observation
  <1> QED BY <1>1, <1>2, BrokerIsPromised, OthersAreInvisible DEF Next

\* The service implements the promise: a session is claimed for good, an order
\* is sent at most once and never after it was written off, and a verdict is
\* final and true of the broker.
THEOREM Implementation == Spec => KeepsPromise
  <1>1. Init => Promise!Init
    BY DEF Init, Promise!Init, Positive, Negative
  <1> QED BY <1>1, StepIsPromised, Invariance, PTL DEF Spec, KeepsPromise, Promise!Spec

-----------------------------------------------------------------------------
(***************************************************************************)
(* Final statuses, and the kill switch.                                    *)
(***************************************************************************)

\* A final status never changes and a row never disappears.
THEOREM TerminalStaysTerminal == Spec => TerminalIsFinal
  <1> DEFINE Final == \A o \in Orders :
                        /\ attempt[o] \in Terminal => attempt'[o] = attempt[o]
                        /\ attempt[o] # "none" => attempt'[o] # "none"
  <1> USE DEF Terminal, Positive, Negative, Pending
  <1>1. IInv /\ [Next]_vars => [Final]_vars
    <2> SUFFICES ASSUME IInv, Next PROVE Final
      OBVIOUS
    <2>1. CASE UNCHANGED attempt
      BY <2>1
    <2>2. ASSUME NEW c \in Calls, NEW status \in Statuses \ {"none"}, work[c] \in Orders,
                 attempt[work[c]] \in Pending \cup {"none"}, SetStatus(work[c], status)
          PROVE  Final
      BY <2>2 DEF SetStatus, Statuses, IInv, TypeOK
    <2>3. ASSUME NEW c \in Calls, CallStep(c) PROVE Final
      <3>1. work[c] \in Orders \/ UNCHANGED attempt
        BY <2>3 DEF IInv, TypeOK, CallStep, SubmitStep, ReconcileStep, PassGates,
           PassKillSwitch, PassPositions, PassOpenOrders, Refuse, Reserve, LookupNothing,
           LookupExisting, LookupFails, RefreshClock, RefreshRefuses, FinalGate,
           FinalGateUnreadable, BuildRequestFails, Send, ReceiveAccepted, ReceiveRejected,
           NoUsableReply, RecordExisting, RecordAccepted, RecordReconciled, RecordReceipt,
           MarkBlocked, MarkRejected, MarkUnknown, MarkSuspect, Mark, ReconcileNothing,
           ReconcileFound, At, ledgerVars
      <3>2. \/ UNCHANGED attempt
            \/ \E status \in Statuses \ {"none"} :
                 /\ attempt[work[c]] \in Pending \cup {"none"}
                 /\ SetStatus(work[c], status)
        <4>1. CASE Reserve(c)
          BY <3>1, <4>1 DEF Reserve, SessionAvailable, Statuses
        <4>2. CASE RecordExisting(c) \/ RecordAccepted(c) \/ RecordReconciled(c)
          BY <4>2 DEF RecordExisting, RecordAccepted, RecordReconciled, RecordReceipt,
             Allowed, PriorStates, Statuses, ledgerVars
        <4>3. CASE MarkBlocked(c) \/ MarkRejected(c) \/ MarkUnknown(c) \/ MarkSuspect(c)
          BY <4>3 DEF MarkBlocked, MarkRejected, MarkUnknown, MarkSuspect, Mark,
             Allowed, PriorStates, Statuses, ledgerVars
        <4> QED BY <2>3, <4>1, <4>2, <4>3
             DEF CallStep, SubmitStep, ReconcileStep, PassGates,
             PassKillSwitch, PassPositions, PassOpenOrders, Refuse, LookupNothing,
             LookupExisting, LookupFails, RefreshClock, RefreshRefuses, FinalGate,
             FinalGateUnreadable, BuildRequestFails, Send, ReceiveAccepted, ReceiveRejected,
             NoUsableReply, ReconcileNothing, ReconcileFound, ledgerVars
      <3> QED BY <2>1, <2>2, <3>1, <3>2
    <2>4. UNCHANGED attempt \/ \E c \in Calls : CallStep(c)
      BY DEF Next, StartCall, StartSubmit, StartReconcile, ReconcileRefused, Finish, Crash,
         Release, BrokerStep, BrokerAccepts, BrokerRejects, RequestLost, ExternalOrder, Fill,
         MoveKillSwitch, Tick, ledgerVars
    <2> QED BY <2>1, <2>3, <2>4
  <1> QED BY <1>1, Invariance, PTL DEF Spec, TerminalIsFinal

\* What makes KillSwitchHonoured inductive: while a call may still submit, a
\* switch that is off has been seen off, and a call about to submit saw it off.
SwitchSeen ==
  /\ KillSwitchHonoured
  /\ \A c \in Calls :
       /\ pc[c] \in PreSend /\ ~killSwitch => c \in sawDisengaged
       /\ pc[c] = "submit" => c \in sawDisengaged

\* Every step preserves it: only Reserve enters the phases that may submit, and
\* only the final kill-switch read, with the switch off, leads to submission.
LEMMA StepSwitchSeen == TypeOK /\ SwitchSeen /\ [Next]_vars => SwitchSeen'
  <1> SUFFICES ASSUME TypeOK, SwitchSeen, [Next]_vars PROVE SwitchSeen'
    OBVIOUS
  <1> USE DEF SwitchSeen, KillSwitchHonoured, TypeOK, PreSend, At
  <1>1. CASE UNCHANGED <<pc, killSwitch, submitted, sawDisengaged>>
    BY <1>1
  <1>2. ASSUME NEW c \in Calls, NEW phase \in Phases,
               pc' = [pc EXCEPT ![c] = phase],
               phase \in PreSend => pc[c] \in PreSend,
               phase = "submit" => ~killSwitch,
               UNCHANGED killSwitch, UNCHANGED observation
        PROVE  SwitchSeen'
    BY <1>2 DEF observation
  <1>3. ASSUME NEW c \in Calls, CallStep(c) PROVE SwitchSeen'
    <2>1. CASE Reserve(c)
      BY <2>1 DEF Reserve, Go, SetStatus
    <2>2. CASE Send(c)
      BY <2>2 DEF Send, Go, ledgerVars
    <2>3. CASE FinalGate(c)
      BY <2>3 DEF FinalGate, Go, ledgerVars, observation
    <2>4. CASE RecordExisting(c) \/ RecordAccepted(c) \/ RecordReconciled(c)
      <3>1. PICK phase \in {"suspect", "done"} : pc' = [pc EXCEPT ![c] = phase]
        BY <2>4 DEF RecordExisting, RecordAccepted, RecordReconciled, RecordReceipt, Go, Return
      <3>2. UNCHANGED killSwitch /\ UNCHANGED observation
        BY <2>4 DEF RecordExisting, RecordAccepted, RecordReconciled, RecordReceipt,
           SetStatus, ledgerVars
      <3> QED BY <1>2, <3>1, <3>2 DEF Phases, Active, SharedPhases
    <2>5. CASE MarkBlocked(c) \/ MarkRejected(c) \/ MarkUnknown(c) \/ MarkSuspect(c)
      <3>1. pc' = [pc EXCEPT ![c] = "done"]
        BY <2>5 DEF MarkBlocked, MarkRejected, MarkUnknown, MarkSuspect, Mark, Return
      <3>2. UNCHANGED killSwitch /\ UNCHANGED observation
        BY <2>5 DEF MarkBlocked, MarkRejected, MarkUnknown, MarkSuspect, Mark,
           SetStatus, ledgerVars
      <3> QED BY <1>2, <3>1, <3>2 DEF Phases
    <2>6. CASE \/ PassGates(c) \/ PassKillSwitch(c) \/ PassPositions(c)
               \/ PassOpenOrders(c) \/ Refuse(c) \/ LookupNothing(c)
               \/ LookupExisting(c) \/ LookupFails(c) \/ RefreshClock(c)
               \/ RefreshRefuses(c) \/ FinalGateUnreadable(c)
               \/ BuildRequestFails(c) \/ ReceiveAccepted(c) \/ ReceiveRejected(c)
               \/ NoUsableReply(c) \/ ReconcileNothing(c) \/ ReconcileFound(c)
      <3> USE DEF PassGates, PassKillSwitch, PassPositions, PassOpenOrders, Refuse,
          LookupNothing, LookupExisting, LookupFails, RefreshClock, RefreshRefuses,
          FinalGateUnreadable, BuildRequestFails, ReceiveAccepted, ReceiveRejected,
          NoUsableReply, ReconcileNothing, ReconcileFound, ledgerVars
      <3>1. PICK phase \in Phases :
              /\ pc' = [pc EXCEPT ![c] = phase]
              /\ phase \in PreSend => pc[c] \in PreSend
              /\ phase # "submit"
        BY <2>6 DEF Go, Return, Phases, Active, SubmitPhases, EarlyGates, ReconcilePhases,
           SharedPhases
      <3>2. UNCHANGED killSwitch /\ UNCHANGED observation
        BY <2>6
      <3> QED BY <1>2, <3>1, <3>2
    <2> QED BY <1>3, <2>1, <2>2, <2>3, <2>4, <2>5, <2>6
            DEF CallStep, SubmitStep, ReconcileStep
  <1>4. ASSUME NEW c \in Calls, StartCall(c) PROVE SwitchSeen'
    BY <1>4 DEF StartCall, StartSubmit, StartReconcile, ReconcileRefused, ledgerVars,
       observation
  <1>5. ASSUME NEW c \in Calls, Finish(c) \/ Crash(c) PROVE SwitchSeen'
    BY <1>5 DEF Finish, Crash, Release, ledgerVars
  <1>6. ASSUME NEW o \in Orders, BrokerStep(o) PROVE SwitchSeen'
    BY <1>1, <1>6 DEF BrokerStep, BrokerAccepts, BrokerRejects, RequestLost, ExternalOrder,
       Fill, ledgerVars, callVars, observation
  <1>7. CASE MoveKillSwitch
    BY <1>7 DEF MoveKillSwitch, callVars
  <1>8. CASE Tick
    BY <1>1, <1>8 DEF Tick, ledgerVars, callVars, observation
  <1>9. CASE UNCHANGED vars
    BY <1>1, <1>9 DEF vars, ledgerVars, callVars, observation
  <1> QED BY <1>3, <1>4, <1>5, <1>6, <1>7, <1>8, <1>9 DEF Next

\* No call submits unless the switch was off at some moment after it reserved.
THEOREM KillSwitchIsHonoured == Spec => []KillSwitchHonoured
  <1>1. Init => SwitchSeen
    BY DEF Init, SwitchSeen, KillSwitchHonoured, PreSend
  <1>2. SwitchSeen => KillSwitchHonoured
    BY DEF SwitchSeen
  <1> QED BY <1>1, <1>2, StepSwitchSeen, TypeCorrectness, PTL DEF Spec

-----------------------------------------------------------------------------
(***************************************************************************)
(* The shapes of a call's step: it reserves, sends, goes on, ends without  *)
(* touching the ledger, or writes its verdict and ends.                    *)
(***************************************************************************)
Alone == UNCHANGED <<ledgerVars, brokerVars, observation>>

\* Where a call comes from when it turns to the ledger, and when it answers.
LeadsTo(c, phase) ==
  /\ phase = "mark_blocked" => pc[c] \in {"refresh", "finalgate", "submit"}
  /\ phase = "record_existing" => pc[c] = "lookup"
  /\ phase = "record_accepted" => pc[c] = "await"
  /\ phase = "record_reconciled" => pc[c] = "rlookup"
  /\ phase = "mark_unknown" => pc[c] \in {"lookup", "await", "rlookup"}
  /\ phase = "suspect" => pc[c] \in Recording

AnswersWith(c, r) ==
  /\ r = "unknown" => pc[c] \in {"mark_unknown", "suspect"}
  /\ r = "not_found" => pc[c] = "rlookup"

Moves(c, phase) ==
  /\ Go(c, phase) /\ Alone /\ pc[c] \in Active
  /\ phase \in Active \ {"gates", "lookup", "await", "rlookup"}
  /\ phase = "killswitch" => pc[c] = "gates" /\ Fresh(work[c])
  /\ phase = "positions" => pc[c] = "killswitch"
  /\ phase = "openorders" => pc[c] = "positions" /\ PositionPermits(work[c])
  /\ phase = "reserve" => pc[c] = "openorders"
  /\ phase = "refresh" => pc[c] = "lookup"
  /\ phase = "finalgate" => pc[c] = "refresh" /\ Fresh(work[c])
  /\ phase = "submit" => pc[c] = "finalgate"
  /\ phase = "mark_rejected" => pc[c] = "await"
  /\ LeadsTo(c, phase)

Ends(c, r) == Return(c, r) /\ Alone /\ pc[c] \in Active
              /\ r \in {"blocked", "error", "not_found", "unknown"}
              /\ AnswersWith(c, r)

Concludes(c, status, r) ==
  /\ Allowed(work[c], status) /\ SetStatus(work[c], status) /\ Return(c, r)
  /\ UNCHANGED <<brokerVars, observation>>
  /\ pc[c] \in Active /\ status \in Terminal \cup {"submission_unknown"} /\ r \in Results
  /\ r = "accepted" => status \in {"accepted", "broker_existing_order_found"}
  /\ r = "reconciled" => status = "reconciled"
  /\ r = "rejected" => status = "rejected"
  /\ AnswersWith(c, r)
  /\ status = "blocked" => pc[c] = "mark_blocked"
  /\ status = "rejected" => pc[c] = "mark_rejected" /\ r \in {"rejected", "blocked", "error"}

\* A receipt is recorded, or its failure is passed on.
LEMMA RecordShape ==
  ASSUME NEW c \in Calls, RecordExisting(c) \/ RecordAccepted(c) \/ RecordReconciled(c)
  PROVE  \/ Moves(c, "suspect")
         \/ \E status \in Positive, r \in Results : Concludes(c, status, r)
  <1> USE DEF RecordReceipt, At, Active, SubmitPhases, EarlyGates, PreSend, ReconcilePhases,
      SharedPhases, Moves, Concludes, Alone, Positive, Negative, Terminal, Results, Recording,
      LeadsTo, AnswersWith
  <1>1. CASE RecordExisting(c)
    BY <1>1 DEF RecordExisting
  <1>2. CASE RecordAccepted(c)
    BY <1>2 DEF RecordAccepted
  <1>3. CASE RecordReconciled(c)
    BY <1>3 DEF RecordReconciled
  <1> QED
    BY <1>1, <1>2, <1>3

\* A mark is written, or is not.
LEMMA MarkShape ==
  ASSUME NEW c \in Calls,
         MarkBlocked(c) \/ MarkRejected(c) \/ MarkUnknown(c) \/ MarkSuspect(c)
  PROVE  \/ \E r \in Results : Ends(c, r)
         \/ \E status \in Statuses, r \in Results : Concludes(c, status, r)
  <1> USE DEF Mark, At, Active, SubmitPhases, SharedPhases, Ends, Concludes, Alone, Positive,
      Negative, Terminal, Pending, Statuses, Results, AnswersWith
  <1>1. CASE MarkBlocked(c)
    BY <1>1 DEF MarkBlocked
  <1>2. CASE MarkRejected(c)
    BY <1>2 DEF MarkRejected
  <1>3. CASE MarkUnknown(c)
    BY <1>3 DEF MarkUnknown
  <1>4. CASE MarkSuspect(c)
    BY <1>4 DEF MarkSuspect
  <1> QED
    BY <1>1, <1>2, <1>3, <1>4

\* A gate, a read or an answer: the call goes on, or ends.
LEMMA ReadShape ==
  ASSUME NEW c \in Calls,
         \/ PassGates(c) \/ PassKillSwitch(c) \/ PassPositions(c) \/ PassOpenOrders(c)
         \/ Refuse(c) \/ LookupNothing(c) \/ LookupExisting(c) \/ LookupFails(c)
         \/ RefreshClock(c) \/ RefreshRefuses(c) \/ FinalGate(c) \/ FinalGateUnreadable(c)
         \/ BuildRequestFails(c) \/ ReceiveAccepted(c) \/ ReceiveRejected(c)
         \/ NoUsableReply(c) \/ ReconcileNothing(c) \/ ReconcileFound(c)
  PROVE  (\E phase \in Active : Moves(c, phase)) \/ (\E r \in Results : Ends(c, r))
  <1> USE DEF At, Active, SubmitPhases, EarlyGates, PreSend, ReconcilePhases,
      SharedPhases, Moves, Ends, Alone, Results, LeadsTo, AnswersWith
  <1>1. CASE PassGates(c) \/ PassKillSwitch(c) \/ PassPositions(c) \/ PassOpenOrders(c)
    BY <1>1 DEF PassGates, PassKillSwitch, PassPositions, PassOpenOrders
  <1>2. CASE Refuse(c) \/ LookupFails(c) \/ ReconcileNothing(c)
    BY <1>2 DEF Refuse, LookupFails, ReconcileNothing
  <1>3. CASE LookupNothing(c) \/ LookupExisting(c) \/ ReconcileFound(c)
    BY <1>3 DEF LookupNothing, LookupExisting, ReconcileFound
  <1>4. CASE RefreshClock(c) \/ RefreshRefuses(c) \/ BuildRequestFails(c)
    BY <1>4 DEF RefreshClock, RefreshRefuses, BuildRequestFails
  <1>5. CASE FinalGate(c) \/ FinalGateUnreadable(c)
    BY <1>5 DEF FinalGate, FinalGateUnreadable
  <1>6. CASE ReceiveAccepted(c) \/ ReceiveRejected(c) \/ NoUsableReply(c)
    BY <1>6 DEF ReceiveAccepted, ReceiveRejected, NoUsableReply
  <1> QED
    BY <1>1, <1>2, <1>3, <1>4, <1>5, <1>6

LEMMA CallShape ==
  ASSUME NEW c \in Calls, CallStep(c)
  PROVE  \/ Reserve(c) \/ Send(c)
         \/ \E phase \in Active : Moves(c, phase)
         \/ \E r \in Results : Ends(c, r)
         \/ \E status \in Statuses, r \in Results : Concludes(c, status, r)
  <1>1. Positive \subseteq Statuses /\ "suspect" \in Active
    BY DEF Statuses, Terminal, Active, SharedPhases
  <1> QED
    BY <1>1, RecordShape, MarkShape, ReadShape DEF CallStep, SubmitStep, ReconcileStep

-----------------------------------------------------------------------------
(***************************************************************************)
(* The audit trail.                                                        *)
(***************************************************************************)
\* What the ledger did: nothing, or one admitted change of one attempt, with
\* its event.
LedgerStep ==
  \/ UNCHANGED <<attempt, trail>>
  \/ \E o \in Orders, status \in Statuses :
       /\ SetStatus(o, status)
       /\ \/ attempt[o] = "none" /\ status = "reserved"
          \/ attempt[o] \in Pending /\ status \in Terminal \cup {"submission_unknown"}

LEMMA LedgerShape ==
  ASSUME IInv, [Next]_vars
  PROVE  LedgerStep
  <1>1. CASE UNCHANGED ledgerVars
    BY <1>1 DEF LedgerStep, ledgerVars
  <1>2. ASSUME NEW c \in Calls, Reserve(c) PROVE LedgerStep
    <2>1. work[c] \in Orders /\ attempt[work[c]] = "none"
      BY <1>2 DEF Reserve, At, SessionAvailable, IInv, TypeOK
    <2> QED
      BY <1>2, <2>1 DEF Reserve, LedgerStep, Statuses, Pending
  <1>3. ASSUME NEW c \in Calls, NEW status \in Statuses, NEW r \in Results, Concludes(c, status, r)
        PROVE  LedgerStep
    <2>1. work[c] \in Orders /\ attempt[work[c]] \in Pending
      BY <1>3 DEF Concludes, Allowed, PriorStates, Pending, IInv, TypeOK, Active, SubmitPhases,
         EarlyGates, PreSend, ReconcilePhases, SharedPhases
    <2> QED
      BY <1>3, <2>1 DEF Concludes, LedgerStep
  <1>4. ASSUME NEW c \in Calls, CallStep(c) PROVE LedgerStep
    BY <1>1, <1>2, <1>3, <1>4, CallShape DEF Send, Moves, Ends, Alone
  <1>5. UNCHANGED ledgerVars \/ MoveKillSwitch \/ \E c \in Calls : CallStep(c)
    BY DEF Next, StartCall, StartSubmit, StartReconcile, ReconcileRefused, Finish, Crash,
       Release, BrokerStep, BrokerAccepts, BrokerRejects, RequestLost, ExternalOrder, Fill,
       Tick, vars
  <1> QED
    BY <1>1, <1>4, <1>5 DEF MoveKillSwitch, LedgerStep

\* The trail of one attempt.  TrailRetracesAttempt counts final events; that
\* there is one at most follows from what is inductive: two are equal.
TrailOf(o) ==
  /\ attempt[o] = "none" => \A e \in trail : e[1] # o
  /\ attempt[o] # "none" => \E e \in trail : e[1] = o /\ e[3] = attempt[o]
  /\ \A e \in trail : e[1] = o /\ e[2] # "none" => \E f \in trail : f[1] = o /\ f[3] = e[2]
  /\ \A e \in trail : e[1] = o /\ e[3] \in Terminal => attempt[o] \in Terminal
  /\ \A e, f \in trail :
       e[1] = o /\ f[1] = o /\ e[3] \in Terminal /\ f[3] \in Terminal => e = f

Trails == \A o \in Orders : TrailOf(o)

LEMMA StepTrails == IInv /\ Trails /\ [Next]_vars => Trails'
  <1> SUFFICES ASSUME IInv, Trails, [Next]_vars, NEW o \in Orders PROVE TrailOf(o)'
    BY DEF Trails
  <1>1. CASE UNCHANGED <<attempt, trail>>
    BY <1>1 DEF Trails, TrailOf
  <1>2. ASSUME NEW p \in Orders, NEW status \in Statuses, SetStatus(p, status),
               \/ attempt[p] = "none" /\ status = "reserved"
               \/ attempt[p] \in Pending /\ status \in Terminal \cup {"submission_unknown"}
        PROVE  TrailOf(o)'
    <2> DEFINE link == <<p, attempt[p], status>>
    <2>1. /\ link[1] = p /\ link[2] = attempt[p] /\ link[3] = status
          /\ trail' = trail \cup {link}
          /\ attempt'[p] = status
          /\ \A q \in Orders : q # p => attempt'[q] = attempt[q]
      BY <1>2 DEF SetStatus, IInv, TypeOK
    <2>2. attempt[p] \notin Terminal /\ status # "none"
      BY <1>2 DEF Terminal, Positive, Negative, Pending
    <2> HIDE DEF link
    <2>3. CASE o # p
      BY <2>1, <2>3 DEF Trails, TrailOf
    <2>4. CASE o = p
      <3>1. attempt'[o] # "none" /\ \E e \in trail' : e[1] = o /\ e[3] = attempt'[o]
        BY <2>1, <2>2, <2>4
      <3>2. \A e \in trail' : e[1] = o /\ e[2] # "none" => \E f \in trail' : f[1] = o /\ f[3] = e[2]
        BY <2>1, <2>4 DEF Trails, TrailOf
      <3>3. \A e \in trail : e[1] = o => e[3] \notin Terminal
        BY <2>2, <2>4 DEF Trails, TrailOf
      <3>4. \A e \in trail' : e[1] = o /\ e[3] \in Terminal => e = link /\ attempt'[o] \in Terminal
        BY <2>1, <2>4, <3>3
      <3> QED
        BY <3>1, <3>2, <3>4 DEF TrailOf
    <2> QED
      BY <2>3, <2>4
  <1>3. LedgerStep
    BY LedgerShape
  <1> QED
    BY <1>1, <1>2, <1>3 DEF LedgerStep

\* The trail retraces every attempt, whatever calls, crashes and failing
\* transactions led to it: a status never changes without its event.
THEOREM TrailIsComplete == Spec => []TrailRetracesAttempt
  <1>1. Init => Trails
    BY DEF Init, Trails, TrailOf
  <1>2. Trails => TrailRetracesAttempt
    <2> SUFFICES ASSUME Trails, NEW o \in Orders
                 PROVE  LET events == {e \in trail : e[1] = o} IN
                        /\ attempt[o] # "none" => \E e \in events : e[3] = attempt[o]
                        /\ \A e \in events : e[2] # "none" => \E f \in events : f[3] = e[2]
                        /\ Cardinality({e \in events : e[3] \in Terminal}) =
                             (IF attempt[o] \in Terminal THEN 1 ELSE 0)
      BY DEF TrailRetracesAttempt
    <2> DEFINE events == {e \in trail : e[1] = o}
               final == {e \in events : e[3] \in Terminal}
    <2>1. TrailOf(o)
      BY DEF Trails
    <2>2. /\ attempt[o] # "none" => \E e \in events : e[3] = attempt[o]
          /\ \A e \in events : e[2] # "none" => \E f \in events : f[3] = e[2]
      BY <2>1 DEF TrailOf
    <2>3. CASE attempt[o] \in Terminal
      <3>1. attempt[o] # "none"
        BY <2>3 DEF Terminal, Positive, Negative
      <3>2. PICK e \in events : e[3] = attempt[o]
        BY <2>2, <3>1
      <3>3. final = {e}
        BY <2>1, <2>3, <3>2 DEF TrailOf
      <3>4. Cardinality(final) = 1
        BY <3>3, FS_Singleton
      <3> QED
        BY <2>2, <2>3, <3>4
    <2>4. CASE attempt[o] \notin Terminal
      <3>1. final = {}
        BY <2>1, <2>4 DEF TrailOf
      <3>2. Cardinality(final) = 0
        BY <3>1, FS_EmptySet
      <3> QED
        BY <2>2, <2>4, <3>2
    <2> QED
      BY <2>3, <2>4
  <1> QED
    BY <1>1, <1>2, StepTrails, Invariance, PTL DEF Spec

-----------------------------------------------------------------------------
(***************************************************************************)
(* What callers are told.  A call that has submitted is the only one that  *)
(* may write its attempt off, and only with the broker's rejection.        *)
(***************************************************************************)
Senders ==
  /\ \A c \in Calls : pc[c] \in {"await", "mark_rejected"} => c \in submitted
  /\ \A c \in submitted : pc[c] # "idle" /\ sent[work[c]] > 0
  /\ \A c, d \in submitted : work[c] = work[d] => c = d
  /\ \A c \in submitted :
       attempt[work[c]] \in Negative => result[c] \in {"rejected", "blocked", "error"}

Told ==
  \A c \in Calls :
    /\ result[c] = "accepted" =>
         attempt[work[c]] \in {"accepted", "broker_existing_order_found"}
    /\ result[c] = "reconciled" => attempt[work[c]] = "reconciled"
    /\ result[c] = "rejected" => attempt[work[c]] = "rejected" /\ c \in submitted

\* A call that goes on, or ends without touching the ledger.
LEMMA ReadKeepsTold ==
  ASSUME IInv, Senders, Told, NEW c \in Calls,
         (\E phase \in Active : Moves(c, phase)) \/ (\E r \in Results : Ends(c, r))
  PROVE  Senders' /\ Told'
  <1>1. pc[c] \in Active /\ pc[c] \notin {"idle", "done"} /\ result[c] = "none"
    BY DEF Moves, Ends, Active, SubmitPhases, EarlyGates, PreSend, ReconcilePhases,
       SharedPhases, IInv, TypeOK
  <1>2. UNCHANGED <<attempt, work, sent, submitted>>
    BY DEF Moves, Ends, Alone, Go, Return, ledgerVars, observation
  <1>3. \E phase \in Phases, r \in Results :
          /\ pc' = [pc EXCEPT ![c] = phase] /\ result' = [result EXCEPT ![c] = r]
          /\ phase # "idle" /\ phase # "await" /\ (phase = "mark_rejected" => pc[c] = "await")
          /\ r \in {"none", "blocked", "error", "not_found", "unknown"}
    <2>1. CASE \E phase \in Active : Moves(c, phase)
      <3>1. result' = [result EXCEPT ![c] = "none"]
        BY <1>1, <2>1 DEF Moves, Go, IInv, TypeOK
      <3> QED
        BY <2>1, <3>1 DEF Moves, Go, Active, SubmitPhases, EarlyGates, PreSend,
           ReconcilePhases, SharedPhases, Phases, Results
    <2>2. CASE \E r \in Results : Ends(c, r)
      BY <2>2 DEF Ends, Return, Phases, Results
    <2> QED
      BY <2>1, <2>2
  <1>4. \A d \in Calls : d # c => pc'[d] = pc[d] /\ result'[d] = result[d]
    BY <1>3
  <1>5. /\ pc'[c] \notin {"idle", "await"} /\ (pc'[c] = "mark_rejected" => c \in submitted)
        /\ result'[c] \notin {"accepted", "reconciled", "rejected"}
    BY <1>3 DEF IInv, TypeOK, Senders
  <1>6. submitted \subseteq Calls /\ (c \in submitted => attempt[work[c]] \notin Negative)
    BY <1>1 DEF IInv, TypeOK, Senders
  <1>7. Senders'
    BY <1>2, <1>4, <1>5, <1>6 DEF Senders
  <1>8. Told'
    BY <1>2, <1>4, <1>5 DEF Told
  <1> QED
    BY <1>7, <1>8

\* A verdict changes an attempt nobody was told the end of, and writes off
\* the attempt of no other sender.
LEMMA VerdictKeepsTold ==
  ASSUME IInv, Senders, Told, NEW c \in Calls, NEW status \in Statuses, NEW r \in Results,
         Concludes(c, status, r)
  PROVE  Senders' /\ Told'
  <1>1. /\ pc[c] \in Active /\ pc[c] # "idle" /\ work[c] \in Orders
        /\ attempt[work[c]] \in Pending
    BY DEF Concludes, Active, SubmitPhases, EarlyGates, PreSend, ReconcilePhases,
       SharedPhases, IInv, TypeOK, Allowed, PriorStates, Pending
  <1>2. /\ UNCHANGED <<work, sent, submitted>>
        /\ pc' = [pc EXCEPT ![c] = "done"] /\ result' = [result EXCEPT ![c] = r]
        /\ attempt' = [attempt EXCEPT ![work[c]] = status]
    BY DEF Concludes, Return, SetStatus, observation
  <1>3. /\ \A d \in Calls : d # c => pc'[d] = pc[d] /\ result'[d] = result[d]
        /\ pc'[c] = "done" /\ result'[c] = r
        /\ attempt'[work[c]] = status
        /\ \A o : o # work[c] => attempt'[o] = attempt[o]
    BY <1>1, <1>2 DEF IInv, TypeOK
  <1>4. submitted \subseteq Calls
    BY DEF IInv, TypeOK
  <1>5. status = "blocked" => \A d \in submitted : work[d] # work[c]
    BY DEF Concludes, IInv, UnsentHoldsRow, Unsent, Senders
  <1>6. status = "rejected" => c \in submitted /\ r \in {"rejected", "blocked", "error"}
    BY DEF Concludes, Senders
  <1>7. \A d \in submitted : attempt'[work[d]] \in Negative => result'[d] \in {"rejected", "blocked", "error"}
    <2> SUFFICES ASSUME NEW d \in submitted, attempt'[work[d]] \in Negative
                 PROVE  result'[d] \in {"rejected", "blocked", "error"}
      OBVIOUS
    <2>1. CASE work[d] = work[c]
      <3>1. status = "rejected" /\ d = c
        BY <1>3, <1>5, <1>6, <2>1 DEF Negative, Senders
      <3> QED
        BY <1>3, <1>6, <3>1
    <2>2. CASE work[d] # work[c]
      BY <1>3, <1>4, <2>2 DEF Senders
    <2> QED
      BY <2>1, <2>2
  <1>8. Senders'
    BY <1>2, <1>3, <1>4, <1>7 DEF Senders
  <1>9. Told'
    <2> SUFFICES ASSUME NEW d \in Calls
                 PROVE  /\ result'[d] = "accepted" =>
                             attempt'[work[d]] \in {"accepted", "broker_existing_order_found"}
                        /\ result'[d] = "reconciled" => attempt'[work[d]] = "reconciled"
                        /\ result'[d] = "rejected" =>
                             attempt'[work[d]] = "rejected" /\ d \in submitted
      BY <1>2 DEF Told
    <2>1. CASE d = c
      BY <1>3, <1>6, <2>1 DEF Concludes
    <2>2. CASE d # c /\ work[d] = work[c]
      BY <1>1, <1>3, <2>2 DEF Told, Pending
    <2>3. CASE d # c /\ work[d] # work[c]
      BY <1>3, <2>3 DEF Told
    <2> QED
      BY <2>1, <2>2, <2>3
  <1> QED
    BY <1>8, <1>9

\* Reserving and submitting.
LEMMA ReserveKeepsTold ==
  ASSUME IInv, Senders, Told, NEW c \in Calls, Reserve(c)
  PROVE  Senders' /\ Told'
  <1>1. /\ pc[c] = "reserve" /\ work[c] \in Orders /\ attempt[work[c]] = "none"
        /\ sent[work[c]] = 0 /\ submitted \subseteq Calls
    BY DEF Reserve, At, SessionAvailable, IInv, TypeOK, SentOnce
  <1>2. /\ UNCHANGED <<work, result, sent, submitted>>
        /\ pc' = [pc EXCEPT ![c] = "lookup"]
        /\ attempt' = [attempt EXCEPT ![work[c]] = "reserved"]
    BY DEF Reserve, Go, SetStatus
  <1>3. /\ \A d \in Calls : d # c => pc'[d] = pc[d]
        /\ pc'[c] = "lookup" /\ attempt'[work[c]] = "reserved"
        /\ \A o : o # work[c] => attempt'[o] = attempt[o]
    BY <1>1, <1>2 DEF IInv, TypeOK
  <1>4. Senders'
    BY <1>1, <1>2, <1>3 DEF Senders, Negative
  <1>5. Told'
    BY <1>1, <1>2, <1>3 DEF Told
  <1> QED
    BY <1>4, <1>5

LEMMA SendKeepsTold ==
  ASSUME IInv, Senders, Told, NEW c \in Calls, Send(c)
  PROVE  Senders' /\ Told'
  <1>1. /\ pc[c] = "submit" /\ work[c] \in Orders /\ sent[work[c]] = 0
        /\ attempt[work[c]] \notin Negative /\ submitted \subseteq Calls
    BY DEF Send, At, IInv, TypeOK, UnsentHoldsRow, RejectionsReal, RepliesFollowRequests,
       Negative, Unsent, PreSend
  <1>2. /\ UNCHANGED <<attempt, work, result>>
        /\ pc' = [pc EXCEPT ![c] = "await"] /\ submitted' = submitted \cup {c}
        /\ sent' = [sent EXCEPT ![work[c]] = @ + 1]
    BY DEF Send, Go, ledgerVars
  <1>3. /\ \A d \in Calls : d # c => pc'[d] = pc[d]
        /\ pc'[c] = "await" /\ sent'[work[c]] = 1
        /\ \A o \in Orders : o # work[c] => sent'[o] = sent[o]
    BY <1>1, <1>2 DEF IInv, TypeOK
  <1>4. \A d \in submitted : work[d] \in Orders /\ work[d] # work[c]
    BY <1>1 DEF Senders, IInv, TypeOK
  <1>5. Senders'
    BY <1>1, <1>2, <1>3, <1>4 DEF Senders
  <1>6. Told'
    BY <1>2 DEF Told
  <1> QED
    BY <1>5, <1>6

LEMMA ReleaseKeepsTold ==
  ASSUME IInv, Senders, Told, NEW c \in Calls, Release(c)
  PROVE  Senders' /\ Told'
  <1>1. submitted \subseteq Calls /\ UNCHANGED <<attempt, sent>>
    BY DEF Release, ledgerVars, IInv, TypeOK
  <1>2. /\ pc'[c] = "idle" /\ result'[c] = "none" /\ submitted' = submitted \ {c}
        /\ \A d \in Calls : d # c => /\ pc'[d] = pc[d] /\ work'[d] = work[d]
                                     /\ result'[d] = result[d]
    BY DEF Release, IInv, TypeOK
  <1> QED
    BY <1>1, <1>2 DEF Senders, Told

\* Calls that begin, end or die.
LEMMA AroundKeepsTold ==
  ASSUME IInv, Senders, Told, NEW c \in Calls, StartCall(c) \/ Finish(c) \/ Crash(c)
  PROVE  Senders' /\ Told'
  <1>1. submitted \subseteq Calls /\ UNCHANGED <<attempt, sent>>
    BY DEF StartCall, StartSubmit, StartReconcile, ReconcileRefused, Finish, Crash, Release,
       ledgerVars, observation, IInv, TypeOK
  <1>2. CASE StartCall(c)
    <2>1. pc[c] = "idle" /\ c \notin submitted /\ result[c] = "none"
      BY <1>2 DEF StartCall, StartSubmit, StartReconcile, ReconcileRefused, At, Senders, IInv,
         TypeOK
    <2>2. /\ pc'[c] \in {"gates", "rlookup", "done"} /\ result'[c] \in {"none", "blocked"}
          /\ \A d \in Calls : d # c => /\ pc'[d] = pc[d] /\ work'[d] = work[d]
                                       /\ result'[d] = result[d]
          /\ UNCHANGED submitted
      BY <1>2, <2>1 DEF StartCall, StartSubmit, StartReconcile, ReconcileRefused, IInv, TypeOK,
         observation
    <2> QED
      BY <1>1, <2>1, <2>2 DEF Senders, Told
  <1>3. CASE Finish(c) \/ Crash(c)
    BY <1>3, ReleaseKeepsTold DEF Finish, Crash
  <1> QED
    BY <1>2, <1>3

LEMMA StepTold == IInv /\ Senders /\ Told /\ [Next]_vars => Senders' /\ Told'
  <1> SUFFICES ASSUME IInv, Senders, Told, [Next]_vars PROVE Senders' /\ Told'
    OBVIOUS
  <1>1. CASE UNCHANGED <<attempt, pc, work, result, sent, submitted>>
    BY <1>1 DEF Senders, Told
  <1>2. ASSUME NEW c \in Calls, CallStep(c) PROVE Senders' /\ Told'
    BY <1>2, CallShape, ReserveKeepsTold, SendKeepsTold, ReadKeepsTold, VerdictKeepsTold
  <1>3. ASSUME NEW o \in Orders, BrokerStep(o)
        PROVE  UNCHANGED <<attempt, pc, work, result, sent, submitted>>
    BY <1>3 DEF BrokerStep, BrokerAccepts, BrokerRejects, RequestLost, ExternalOrder, Fill,
       ledgerVars, callVars, observation
  <1>4. MoveKillSwitch \/ Tick \/ UNCHANGED vars =>
          UNCHANGED <<attempt, pc, work, result, sent, submitted>>
    BY DEF MoveKillSwitch, Tick, vars, ledgerVars, callVars, observation
  <1> QED
    BY <1>1, <1>2, <1>3, <1>4, AroundKeepsTold DEF Next

\* Success and rejection are on record when the caller hears of them, and who
\* submitted and heard "unknown" has no attempt that was written off.
THEOREM AnswersAreTruthful == Spec => []ResultIsTruthful
  <1>1. Init => Senders /\ Told
    BY DEF Init, Senders, Told
  <1>2. Senders /\ Told => ResultIsTruthful
    BY DEF Senders, Told, ResultIsTruthful
  <1> QED
    BY <1>1, <1>2, StepTold, Invariance, PTL DEF Spec

-----------------------------------------------------------------------------
(***************************************************************************)
(* Sessions and positions, on the assumption that a submission never       *)
(* straddles two instants of the broker's clock.  The position theorem     *)
(* also assumes that nobody else trades the account and that a session is  *)
(* an interval: its market opens once.                                     *)
(***************************************************************************)
SessionsAreIntervals ==
  \A i, j, k \in Instants :
    i <= j /\ j <= k /\ OpenSession[i] = OpenSession[k] /\ OpenSession[i] # Closed =>
      OpenSession[j] = OpenSession[i]

\* A request under way, or past its last clock check, is in its session.
InTime ==
  /\ \A o \in wire : Fresh(o)
  /\ \A c \in Calls : pc[c] \in {"finalgate", "submit"} => Fresh(work[c])

LEMMA StepInTime ==
  ASSUME PromptDelivery, IInv, InTime, [Next]_vars
  PROVE  InTime'
  <1>1. CASE UNCHANGED <<now, pc, work>> /\ wire' \subseteq wire
    BY <1>1 DEF InTime, Fresh
  <1>2. ASSUME NEW c \in Calls, CallStep(c) PROVE InTime'
    <2>1. UNCHANGED <<now, work>>
      BY <1>2, CallShape DEF Reserve, Send, Moves, Ends, Concludes, Alone, Go, Return, brokerVars
    <2>2. CASE Send(c)
      BY <2>2 DEF Send, At, Go, IInv, TypeOK, InTime, Fresh
    <2>3. CASE Reserve(c) \/ (\E r \in Results : Ends(c, r))
                 \/ (\E status \in Statuses, r \in Results : Concludes(c, status, r))
      <3>1. /\ UNCHANGED wire /\ pc'[c] \in {"lookup", "done"}
            /\ \A d \in Calls : d # c => pc'[d] = pc[d]
        BY <2>3 DEF Reserve, Ends, Concludes, Alone, Go, Return, brokerVars, IInv, TypeOK
      <3> QED
        BY <2>1, <3>1 DEF InTime, Fresh
    <2>4. ASSUME NEW phase \in Active, Moves(c, phase) PROVE InTime'
      <3>1. /\ UNCHANGED wire /\ pc'[c] = phase
            /\ \A d \in Calls : d # c => pc'[d] = pc[d]
            /\ phase \in {"finalgate", "submit"} => Fresh(work[c])
        BY <2>4 DEF Moves, Alone, Go, brokerVars, IInv, TypeOK, InTime
      <3> QED
        BY <2>1, <3>1 DEF InTime, Fresh
    <2> QED
      BY <1>2, <2>2, <2>3, <2>4, CallShape
  <1>3. ASSUME NEW c \in Calls, StartCall(c) \/ Finish(c) \/ Crash(c) PROVE InTime'
    <2>1. /\ UNCHANGED <<wire, now>> /\ pc'[c] \notin {"finalgate", "submit"}
          /\ \A d \in Calls : d # c => pc'[d] = pc[d] /\ work'[d] = work[d]
      BY <1>3 DEF StartCall, StartSubmit, StartReconcile, ReconcileRefused, Finish, Crash,
         Release, brokerVars, IInv, TypeOK
    <2> QED
      BY <2>1 DEF InTime, Fresh
  <1>4. ASSUME NEW o \in Orders, BrokerStep(o) PROVE InTime'
    BY <1>1, <1>4 DEF BrokerStep, BrokerAccepts, BrokerRejects, RequestLost, ExternalOrder,
       Fill, callVars
  <1>5. CASE Tick
    BY <1>5 DEF Tick, InTransit, callVars, InTime
  <1>6. CASE MoveKillSwitch \/ UNCHANGED vars
    BY <1>1, <1>6 DEF MoveKillSwitch, callVars, brokerVars, vars
  <1> QED
    BY <1>2, <1>3, <1>4, <1>5, <1>6 DEF Next

\* An order of ours reaches the broker in the session, and under the approval,
\* it was made for, if no submission straddles two instants (the refreshed
\* clock of submit_approved_order).
THEOREM ArrivesInTime == ASSUME PromptDelivery PROVE Spec => ArrivesInItsSession
  <1>1. Init => InTime
    BY DEF Init, InTime
  <1>2. IInv /\ InTime /\ [Next]_vars => InTime'
    BY StepInTime
  <1>3. ASSUME InTime, [Next]_vars
        PROVE  [\A o \in wire : brokerOrder'[o] # brokerOrder[o] =>
                  OpenSession[now] = SessionOf[o] /\ now \in ValidAt[o]]_vars
    BY <1>3 DEF InTime, Fresh
  <1> QED
    BY <1>1, <1>2, <1>3, Invariance, PTL DEF Spec, ArrivesInItsSession

\* Phases that follow the first look at the clock, and those that follow the
\* look at the position: before, and after, the reservation.
Scheduled == {"killswitch", "positions", "openorders", "reserve"} \cup PreSend
Checked == {"openorders", "reserve"}
InSession(o) == OpenSession[now] = SessionOf[o]

\* Why the early look at the position is enough: in an open session only the
\* order that reserved it can trade, so the position stays as it was seen.
PositionInv ==
  /\ shares \in {0, 1}
  /\ \A o \in Orders :
       /\ brokerOrder[o] # "none" => sent[o] > 0 /\ o \notin wire
       /\ brokerOrder[o] = "working" => InSession(o) /\ PositionPermits(o)
       /\ o \in wire => PositionPermits(o)
  /\ \A c \in Calls :
       /\ pc[c] \in Scheduled =>
            \E t \in Instants : t <= now /\ OpenSession[t] = SessionOf[work[c]]
       /\ pc[c] \in Checked /\ InSession(work[c]) /\ SessionAvailable(work[c]) =>
            PositionPermits(work[c])
       /\ pc[c] \in PreSend /\ InSession(work[c]) => PositionPermits(work[c])

\* Nothing but calls moved, and each call is where its claims hold already.
LEMMA CallsKeepPosition ==
  ASSUME IInv, PositionInv, NEW c \in Calls,
         UNCHANGED <<now, shares, brokerOrder, wire, sent>>,
         \A o \in Orders : attempt[o] # "none" => attempt'[o] # "none",
         \A d \in Calls : d # c => pc'[d] = pc[d] /\ work'[d] = work[d],
         pc'[c] \in Scheduled =>
           /\ work'[c] = work[c] /\ work[c] \in Orders
           /\ pc[c] \in Scheduled \/ InSession(work[c])
           /\ pc'[c] \in Checked =>
                pc[c] \in Checked \/ PositionPermits(work[c])
           /\ pc'[c] \in PreSend =>
                \/ pc[c] \in PreSend
                \/ pc[c] \in Checked /\ SessionAvailable(work[c])
  PROVE  PositionInv'
  <1>1. \A o \in Orders : InSession(o)' <=> InSession(o)
    BY DEF InSession
  <1>2. \A o : PositionPermits(o)' <=> PositionPermits(o)
    BY DEF PositionPermits
  <1>3. \A o \in Orders : SessionAvailable(o)' => SessionAvailable(o)
    BY DEF SessionAvailable
  <1>4. now \in Instants
    BY DEF IInv, TypeOK
  <1>5. ASSUME NEW d \in Calls
        PROVE  /\ pc'[d] \in Scheduled =>
                    \E t \in Instants : t <= now' /\ OpenSession[t] = SessionOf[work'[d]]
               /\ pc'[d] \in Checked /\ InSession(work[d])' /\ SessionAvailable(work[d])' =>
                    PositionPermits(work[d])'
               /\ pc'[d] \in PreSend /\ InSession(work[d])' => PositionPermits(work[d])'
    <2>1. Checked \cup PreSend \subseteq Scheduled /\ "idle" \notin Scheduled
      BY DEF Checked, Scheduled, PreSend
    <2>2. CASE d = c
      <3>1. pc'[c] \in Scheduled => \E t \in Instants : t <= now /\ OpenSession[t] = SessionOf[work[c]]
        BY <1>4 DEF PositionInv, InSession, Instants
      <3> QED
        BY <1>1, <1>2, <1>3, <2>1, <2>2, <3>1 DEF PositionInv
    <2>3. CASE d # c
      <3>1. pc[d] \in Scheduled => work[d] \in Orders
        BY <2>1 DEF IInv, TypeOK
      <3> QED
        BY <1>1, <1>2, <1>3, <2>1, <2>3, <3>1 DEF PositionInv
    <2> QED
      BY <2>2, <2>3
  <1> QED
    BY <1>1, <1>2, <1>5 DEF PositionInv

\* The steps of a call, and its beginning and end.
LEMMA CallKeepsPosition ==
  ASSUME IInv, InTime, PositionInv, NEW c \in Calls,
         CallStep(c) \/ StartCall(c) \/ Finish(c) \/ Crash(c)
  PROVE  PositionInv'
  <1>1. CASE Send(c)
    <2>1. /\ pc[c] = "submit" /\ work[c] \in Orders /\ sent[work[c]] = 0
          /\ Fresh(work[c]) /\ PositionPermits(work[c])
      BY <1>1 DEF Send, At, IInv, TypeOK, UnsentHoldsRow, Unsent, PreSend, InTime, PositionInv,
         Fresh, InSession
    <2>2. /\ UNCHANGED <<attempt, work, now, shares, brokerOrder>>
          /\ wire' = wire \cup {work[c]}
          /\ pc'[c] = "await" /\ \A d \in Calls : d # c => pc'[d] = pc[d]
          /\ \A o \in Orders : sent[o] > 0 => sent'[o] > 0
      BY <1>1, <2>1 DEF Send, Go, ledgerVars, IInv, TypeOK
    <2>3. brokerOrder[work[c]] = "none"
      BY <2>1 DEF PositionInv
    <2>4. \A o \in Orders :
            /\ brokerOrder'[o] # "none" => sent'[o] > 0 /\ o \notin wire'
            /\ brokerOrder'[o] = "working" => InSession(o)' /\ PositionPermits(o)'
            /\ o \in wire' => PositionPermits(o)'
      BY <2>1, <2>2, <2>3 DEF PositionInv, InSession, PositionPermits
    <2>5. \A d \in Calls :
            /\ pc'[d] \in Scheduled =>
                 \E t \in Instants : t <= now' /\ OpenSession[t] = SessionOf[work'[d]]
            /\ pc'[d] \in Checked /\ InSession(work[d])' /\ SessionAvailable(work[d])' =>
                 PositionPermits(work[d])'
            /\ pc'[d] \in PreSend /\ InSession(work[d])' => PositionPermits(work[d])'
      BY <2>2 DEF PositionInv, InSession, PositionPermits, SessionAvailable, Scheduled, Checked,
         PreSend
    <2> QED
      BY <2>2, <2>4, <2>5 DEF PositionInv
  <1>2. CASE Reserve(c)
    <2>1. /\ pc[c] = "reserve" /\ work[c] \in Orders /\ SessionAvailable(work[c])
          /\ UNCHANGED <<work, now, shares, brokerOrder, wire, sent>>
          /\ pc'[c] = "lookup" /\ \A d \in Calls : d # c => pc'[d] = pc[d]
          /\ \A o \in Orders : attempt[o] # "none" => attempt'[o] # "none"
      BY <1>2 DEF Reserve, At, Go, SetStatus, brokerVars, IInv, TypeOK
    <2> QED
      BY <2>1, CallsKeepPosition DEF Scheduled, Checked, PreSend
  <1>3. ASSUME NEW phase \in Active, Moves(c, phase) PROVE PositionInv'
    <2>1. /\ UNCHANGED <<attempt, work, now, shares, brokerOrder, wire, sent>>
          /\ pc'[c] = phase /\ \A d \in Calls : d # c => pc'[d] = pc[d]
          /\ work[c] \in Orders
      BY <1>3 DEF Moves, Alone, Go, ledgerVars, brokerVars, observation, IInv, TypeOK, Active,
         SubmitPhases, EarlyGates, PreSend, ReconcilePhases, SharedPhases
    <2>2. /\ phase = "killswitch" => InSession(work[c])
          /\ phase = "positions" => pc[c] = "killswitch"
          /\ phase = "openorders" => pc[c] = "positions" /\ PositionPermits(work[c])
          /\ phase = "reserve" => pc[c] = "openorders"
          /\ phase = "refresh" => pc[c] = "lookup"
          /\ phase = "finalgate" => pc[c] = "refresh"
          /\ phase = "submit" => pc[c] = "finalgate"
          /\ phase # "lookup"
      BY <1>3 DEF Moves, Fresh, InSession
    <2> QED
      BY <2>1, <2>2, CallsKeepPosition DEF Scheduled, Checked, PreSend
  <1>4. CASE (\E r \in Results : Ends(c, r))
               \/ (\E status \in Statuses, r \in Results : Concludes(c, status, r))
    <2>1. /\ UNCHANGED <<work, now, shares, brokerOrder, wire, sent>>
          /\ pc'[c] = "done" /\ \A d \in Calls : d # c => pc'[d] = pc[d]
      BY <1>4 DEF Ends, Concludes, Alone, Return, brokerVars, observation, IInv, TypeOK
    <2>2. \A o \in Orders : attempt[o] # "none" => attempt'[o] # "none"
      BY <1>4 DEF Ends, Concludes, Alone, ledgerVars, SetStatus, IInv, TypeOK, Terminal, Positive,
         Negative
    <2> QED
      BY <2>1, <2>2, CallsKeepPosition DEF Scheduled, PreSend
  <1>5. CASE StartCall(c) \/ Finish(c) \/ Crash(c)
    <2>1. /\ UNCHANGED <<attempt, now, shares, brokerOrder, wire, sent>>
          /\ pc'[c] \in {"gates", "rlookup", "done", "idle"}
          /\ \A d \in Calls : d # c => pc'[d] = pc[d] /\ work'[d] = work[d]
      BY <1>5 DEF StartCall, StartSubmit, StartReconcile, ReconcileRefused, Finish, Crash,
         Release, ledgerVars, brokerVars, observation, IInv, TypeOK
    <2> QED
      BY <2>1, CallsKeepPosition DEF Scheduled, PreSend
  <1> QED
    BY <1>1, <1>2, <1>3, <1>4, <1>5, CallShape

\* Two orders of ours in one session are one order.
LEMMA SentAlone ==
  ASSUME IInv, NEW o \in Orders, NEW p \in Orders, SessionOf[o] = SessionOf[p],
         sent[o] > 0, attempt[p] # "none"
  PROVE  o = p
  BY DEF IInv, SentOnce, OneClaim

\* The broker: an order it fills was the only one in its session.
LEMMA BrokerKeepsPosition ==
  ASSUME ExternalOrders = {}, IInv, InTime, PositionInv, NEW o \in Orders, BrokerStep(o)
  PROVE  PositionInv'
  <1>1. UNCHANGED <<attempt, pc, work, now, sent>>
    BY DEF BrokerStep, BrokerAccepts, BrokerRejects, RequestLost, ExternalOrder, Fill,
       ledgerVars, callVars, observation
  <1>2. CASE BrokerAccepts(o) \/ BrokerRejects(o) \/ RequestLost(o)
    <2>1. /\ o \in wire /\ wire' = wire \ {o} /\ UNCHANGED shares
          /\ brokerOrder'[o] \in {brokerOrder[o], "working"}
          /\ \A p \in Orders : p # o => brokerOrder'[p] = brokerOrder[p]
      BY <1>2 DEF BrokerAccepts, BrokerRejects, RequestLost, IInv, TypeOK
    <2>2. InSession(o) /\ PositionPermits(o) /\ sent[o] > 0
      BY <2>1 DEF InTime, Fresh, InSession, PositionInv, IInv, RepliesFollowRequests
    <2>3. \A p \in Orders :
            /\ brokerOrder'[p] # "none" => sent'[p] > 0 /\ p \notin wire'
            /\ brokerOrder'[p] = "working" => InSession(p)' /\ PositionPermits(p)'
            /\ p \in wire' => PositionPermits(p)'
      BY <1>1, <2>1, <2>2 DEF PositionInv, InSession, PositionPermits
    <2>4. \A d \in Calls :
            /\ pc'[d] \in Scheduled =>
                 \E t \in Instants : t <= now' /\ OpenSession[t] = SessionOf[work'[d]]
            /\ pc'[d] \in Checked /\ InSession(work[d])' /\ SessionAvailable(work[d])' =>
                 PositionPermits(work[d])'
            /\ pc'[d] \in PreSend /\ InSession(work[d])' => PositionPermits(work[d])'
      BY <1>1, <2>1 DEF PositionInv, InSession, PositionPermits, SessionAvailable
    <2> QED
      BY <2>1, <2>3, <2>4 DEF PositionInv
  <1>3. CASE ExternalOrder(o)
    BY <1>3 DEF ExternalOrder
  <1>4. CASE Fill(o)
    <2>1. /\ brokerOrder[o] = "working" /\ brokerOrder' = [brokerOrder EXCEPT ![o] = "filled"]
          /\ shares' = IF SideOf[o] = "buy" THEN shares + 1 ELSE shares - 1
          /\ UNCHANGED wire
      BY <1>4 DEF Fill
    <2>2. InSession(o) /\ PositionPermits(o) /\ sent[o] > 0 /\ attempt[o] # "none"
      BY <2>1 DEF PositionInv, IInv, SentOnce
    <2>3. shares' \in {0, 1}
      BY <2>1, <2>2 DEF PositionPermits, PositionInv
    <2>4. ASSUME NEW p \in Orders, p # o PROVE brokerOrder[p] # "working" /\ p \notin wire
      <3>1. sent[p] > 0 /\ InSession(p) => FALSE
        BY <2>2, <2>4, SentAlone DEF InSession
      <3> QED
        BY <3>1 DEF PositionInv, InTime, Fresh, InSession, IInv, RepliesFollowRequests
    <2>5. \A p \in Orders :
            /\ brokerOrder'[p] # "none" => sent'[p] > 0 /\ p \notin wire'
            /\ brokerOrder'[p] = "working" => InSession(p)' /\ PositionPermits(p)'
            /\ p \in wire' => PositionPermits(p)'
      BY <1>1, <2>1, <2>4 DEF PositionInv, IInv, TypeOK
    <2>6. ASSUME NEW d \in Calls
          PROVE  /\ pc'[d] \in Scheduled =>
                      \E t \in Instants : t <= now' /\ OpenSession[t] = SessionOf[work'[d]]
                 /\ ~(pc'[d] \in Checked /\ InSession(work[d])' /\ SessionAvailable(work[d])')
                 /\ ~(pc'[d] \in PreSend /\ InSession(work[d])')
      <3>1. pc[d] \in Checked \cup PreSend => work[d] \in Orders
        BY DEF Checked, PreSend, IInv, TypeOK
      <3>2. ~(pc[d] \in Checked /\ InSession(work[d]) /\ SessionAvailable(work[d]))
        BY <2>2, <3>1 DEF InSession, SessionAvailable
      <3>3. ~(pc[d] \in PreSend /\ InSession(work[d]))
        <4> SUFFICES ASSUME pc[d] \in PreSend, InSession(work[d]) PROVE FALSE
          OBVIOUS
        <4>1. sent[work[d]] = 0 /\ attempt[work[d]] # "none" /\ work[d] \in Orders
          BY <3>1 DEF IInv, UnsentHoldsRow, Unsent
        <4>2. SessionOf[work[d]] = SessionOf[o]
          BY <2>2 DEF InSession
        <4>3. work[d] = o
          BY <2>2, <4>1, <4>2, SentAlone
        <4> QED
          BY <2>2, <4>1, <4>3
      <3> QED
        BY <1>1, <3>2, <3>3 DEF PositionInv, InSession, SessionAvailable
    <2> QED
      BY <2>3, <2>5, <2>6 DEF PositionInv
  <1> QED
    BY <1>2, <1>3, <1>4 DEF BrokerStep

\* The clock: who is in session after the tick was in session before it.
LEMMA TickKeepsPosition ==
  ASSUME PromptDelivery, SessionsAreIntervals, IInv, PositionInv, Tick
  PROVE  PositionInv'
  <1>1. /\ UNCHANGED <<attempt, pc, work, shares, wire, sent>> /\ wire = {}
        /\ now \in Instants /\ now' = now + 1 /\ now' \in Instants
    BY ConstantsAssumption
    DEF ConstantsAssumption, Tick, InTransit, ledgerVars, callVars, observation, IInv, TypeOK, Instants
  <1>2. ASSUME NEW o \in Orders
        PROVE  /\ brokerOrder'[o] # "none" => sent'[o] > 0 /\ o \notin wire'
               /\ brokerOrder'[o] = "working" => InSession(o)' /\ PositionPermits(o)'
               /\ o \in wire' => PositionPermits(o)'
    <2>1. brokerOrder'[o] # "none" => brokerOrder[o] # "none"
      BY DEF Tick, WorkingOrders, IInv, TypeOK
    <2>2. brokerOrder'[o] = "working" =>
            brokerOrder[o] = "working" /\ OpenSession[now] \in {Closed, OpenSession[now + 1]}
      BY DEF Tick, WorkingOrders, IInv, TypeOK
    <2>3. SessionOf[o] # Closed
      BY ConstantsAssumption DEF ConstantsAssumption
    <2> QED
      BY <1>1, <2>1, <2>2, <2>3 DEF PositionInv, InSession, PositionPermits
  <1>3. ASSUME NEW d \in Calls, pc[d] \in Scheduled
        PROVE  /\ \E t \in Instants : t <= now' /\ OpenSession[t] = SessionOf[work[d]]
               /\ InSession(work[d])' => InSession(work[d])
    <2>1. PICK t \in Instants : t <= now /\ OpenSession[t] = SessionOf[work[d]]
      BY <1>3 DEF PositionInv
    <2>2. work[d] \in Orders /\ SessionOf[work[d]] # Closed
      BY <1>3, ConstantsAssumption DEF ConstantsAssumption, IInv, TypeOK, Scheduled, PreSend
    <2>3. t <= now'
      BY <1>1, <2>1 DEF Instants
    <2>4. now <= now'
      BY <1>1 DEF Instants
    <2>5. OpenSession[now'] = SessionOf[work[d]] => OpenSession[now] = SessionOf[work[d]]
      BY <1>1, <2>1, <2>2, <2>4 DEF SessionsAreIntervals
    <2> QED
      BY <1>1, <2>1, <2>3, <2>5 DEF InSession
  <1>4. \A d \in Calls :
          /\ pc'[d] \in Scheduled =>
               \E t \in Instants : t <= now' /\ OpenSession[t] = SessionOf[work'[d]]
          /\ pc'[d] \in Checked /\ InSession(work[d])' /\ SessionAvailable(work[d])' =>
               PositionPermits(work[d])'
          /\ pc'[d] \in PreSend /\ InSession(work[d])' => PositionPermits(work[d])'
    BY <1>1, <1>3 DEF PositionInv, Checked, Scheduled, PositionPermits, SessionAvailable
  <1> QED
    BY <1>1, <1>2, <1>4 DEF PositionInv

LEMMA StepPosition ==
  ASSUME PromptDelivery, SessionsAreIntervals, ExternalOrders = {},
         IInv, InTime, PositionInv, [Next]_vars
  PROVE  PositionInv'
  <1>1. CASE MoveKillSwitch \/ UNCHANGED vars
    <2>1. UNCHANGED <<attempt, pc, work, now, brokerOrder, wire, shares, sent>>
      BY <1>1 DEF MoveKillSwitch, vars, ledgerVars, callVars, brokerVars, observation
    <2> QED
      BY <2>1 DEF PositionInv, InSession, PositionPermits, SessionAvailable
  <1> QED
    BY <1>1, CallKeepsPosition, BrokerKeepsPosition, TickKeepsPosition DEF Next

\* Exposure stays between flat and one position, orders still working
\* included, though the position is only looked at before the reservation:
\* neither pyramiding across sessions nor a short position, whatever calls
\* overlap, die or are repeated.
THEOREM LongOnly ==
  ASSUME PromptDelivery, SessionsAreIntervals, ExternalOrders = {}
  PROVE  Spec => []LongOnlyOnePosition
  <1>1. Init => InTime /\ PositionInv
    BY DEF Init, InTime, PositionInv, Scheduled, Checked, PreSend
  <1>2. IInv /\ InTime /\ PositionInv /\ [Next]_vars => InTime' /\ PositionInv'
    BY StepInTime, StepPosition
  <1>3. IInv /\ PositionInv => LongOnlyOnePosition
    <2> SUFFICES ASSUME IInv, PositionInv PROVE LongOnlyOnePosition
      OBVIOUS
    <2> DEFINE Working(side) == {o \in WorkingOrders : SideOf[o] = side}
    <2>1. CASE WorkingOrders = {}
      <3>1. Working("buy") = {} /\ Working("sell") = {}
        BY <2>1
      <3>2. Cardinality(Working("buy")) = 0 /\ Cardinality(Working("sell")) = 0
        BY <3>1, FS_EmptySet
      <3> QED
        BY <3>2 DEF LongOnlyOnePosition, PositionInv
    <2>2. CASE WorkingOrders # {}
      <3>1. PICK o \in Orders : brokerOrder[o] = "working"
        BY <2>2 DEF WorkingOrders
      <3>2. sent[o] > 0 /\ InSession(o) /\ PositionPermits(o)
        BY <3>1 DEF PositionInv
      <3>3. ASSUME NEW p \in Orders, brokerOrder[p] = "working" PROVE p = o
        <4>1. sent[p] > 0 /\ InSession(p) /\ attempt[o] # "none"
          BY <3>2, <3>3 DEF PositionInv, IInv, SentOnce
        <4> QED
          BY <3>2, <4>1, SentAlone DEF InSession
      <3>4. WorkingOrders = {o}
        BY <3>1, <3>3 DEF WorkingOrders
      <3>5. CASE SideOf[o] = "buy"
        <4>1. Working("buy") = {o} /\ Working("sell") = {}
          BY <3>4, <3>5
        <4>2. Cardinality(Working("buy")) = 1 /\ Cardinality(Working("sell")) = 0
          BY <4>1, FS_EmptySet, FS_Singleton
        <4> QED
          BY <3>2, <3>5, <4>2 DEF LongOnlyOnePosition, PositionPermits
      <3>6. CASE SideOf[o] # "buy"
        <4>1. SideOf[o] = "sell"
          BY <3>6, ConstantsAssumption DEF ConstantsAssumption
        <4>2. Working("sell") = {o} /\ Working("buy") = {}
          BY <3>4, <4>1
        <4>3. Cardinality(Working("sell")) = 1 /\ Cardinality(Working("buy")) = 0
          BY <4>2, FS_EmptySet, FS_Singleton
        <4> QED
          BY <3>2, <4>1, <4>3 DEF LongOnlyOnePosition, PositionPermits
      <3> QED
        BY <3>5, <3>6
    <2> QED
      BY <2>1, <2>2
  <1> QED
    BY <1>1, <1>2, <1>3, Invariance, PTL DEF Spec

-----------------------------------------------------------------------------
(***************************************************************************)
(* The human-confirmed workflow                                            *)
(***************************************************************************)

\* Stages of a run that holds the claim of an authorization not yet delegated.
Claiming == {"write_claim", "delegate"}

\* Phases of a service call that may still send its order.
MaySend == EarlyGates \cup PreSend

ConsumptionOf(a) == <<a, "consumption">>

(***************************************************************************)
(* The inductive invariant.  Creating the claim file makes a run the only  *)
(* one that may delegate its authorization (SoleClaim); a file that is     *)
(* removed again, or that stays empty, was never delegated (ClaimedFirst); *)
(* a call that may send was delegated by a claimed authorization           *)
(* (SendersDelegated).                                                     *)
(***************************************************************************)
Shapes ==
  /\ stage \in [Calls -> Stages]
  /\ kind \in [Calls -> Kinds]
  /\ auth \in [Calls -> Authorizations \cup {NoAuthorization}]
  /\ artifact \in [Authorizations \X Slots -> {"absent", "empty", "written"}]
  /\ delegated \in [Authorizations -> Nat]
  /\ pc \in [Calls -> Phases]
  /\ work \in [Calls -> Orders \cup {NoOrder}]
  /\ sent \in [Orders -> Nat]
  /\ \A c \in Calls : /\ stage[c] # "idle" => auth[c] \in Authorizations
                      /\ stage[c] # "serve" => pc[c] \in {"idle", "done"}

SoleClaim ==
  \A c, d \in Calls :
    stage[c] \in Claiming /\ stage[d] \in Claiming /\ auth[c] = auth[d] => c = d

ClaimedFirst ==
  /\ \A c \in Calls :
       /\ stage[c] \in Claiming => artifact[ConsumptionOf(auth[c])] # "absent"
       /\ stage[c] = "delegate" => artifact[ConsumptionOf(auth[c])] = "written"
       /\ stage[c] \in Claiming => delegated[auth[c]] = 0
  /\ \A a \in Authorizations :
       /\ delegated[a] <= 1
       /\ delegated[a] > 0 => artifact[ConsumptionOf(a)] = "written"

SendersDelegated ==
  /\ \A c \in Calls : pc[c] \in MaySend =>
       /\ stage[c] = "serve"
       /\ work[c] = OrderOf[auth[c]]
       /\ delegated[auth[c]] > 0
  /\ \A o \in Orders : sent[o] > 0 =>
       \E a \in Authorizations : OrderOf[a] = o /\ delegated[a] > 0

CInv == Shapes /\ SoleClaim /\ ClaimedFirst /\ SendersDelegated

-----------------------------------------------------------------------------
\* No run has started and no file exists.
LEMMA InitCInv == ConfirmedInit => CInv
  BY AuthorizationAssumption
  DEF ConfirmedInit, Init, CInv, Shapes, SoleClaim, ClaimedFirst, SendersDelegated,
      Claiming, MaySend, ConsumptionOf, EarlyGates, PreSend, Stages, Kinds,
      Phases

\* What a step of the service does to the slot it runs in: it may only go on
\* towards sending, for the same order, if it could send before; and it sends
\* its own order, from a phase that may send.
LEMMA ServiceStep ==
  ASSUME Shapes, NEW c \in Calls, CallStep(c)
  PROVE  /\ work' = work
         /\ \E phase \in Phases :
              /\ pc' = [pc EXCEPT ![c] = phase]
              /\ phase \in MaySend => pc[c] \in MaySend
         /\ \/ sent' = sent
            \/ pc[c] \in MaySend /\ sent' = [sent EXCEPT ![work[c]] = @ + 1]
  <1> USE DEF Phases, Active, SubmitPhases, EarlyGates,
      PreSend, ReconcilePhases, SharedPhases, MaySend,
      At, Go, Return, observation
  <1>1. CASE \/ PassGates(c) \/ PassKillSwitch(c)
             \/ PassPositions(c) \/ PassOpenOrders(c)
             \/ Refuse(c) \/ Reserve(c)
    BY <1>1 DEF PassGates, PassKillSwitch, PassPositions,
       PassOpenOrders, Refuse, Reserve
  <1>2. CASE \/ LookupNothing(c) \/ LookupExisting(c)
             \/ LookupFails(c) \/ RefreshClock(c)
             \/ RefreshRefuses(c) \/ FinalGate(c)
             \/ FinalGateUnreadable(c) \/ BuildRequestFails(c)
    BY <1>2 DEF LookupNothing, LookupExisting, LookupFails,
       RefreshClock, RefreshRefuses, FinalGate,
       FinalGateUnreadable, BuildRequestFails
  <1>3. CASE \/ Send(c)
             \/ ReceiveAccepted(c) \/ ReceiveRejected(c)
             \/ NoUsableReply(c) \/ ReconcileNothing(c)
             \/ ReconcileFound(c)
    BY <1>3 DEF Send, ReceiveAccepted, ReceiveRejected,
       NoUsableReply, ReconcileNothing, ReconcileFound
  <1>4. CASE \/ RecordExisting(c) \/ RecordAccepted(c)
             \/ RecordReconciled(c)
    <2>1. PICK phase \in {"suspect", "done"} :
            pc' = [pc EXCEPT ![c] = phase] /\ work' = work /\ sent' = sent
      BY <1>4 DEF RecordExisting, RecordAccepted, RecordReconciled,
         RecordReceipt
    <2> QED BY <2>1
  <1>5. CASE \/ MarkBlocked(c) \/ MarkRejected(c)
             \/ MarkUnknown(c) \/ MarkSuspect(c)
    <2>1. pc' = [pc EXCEPT ![c] = "done"] /\ work' = work /\ sent' = sent
      BY <1>5 DEF MarkBlocked, MarkRejected, MarkUnknown,
         MarkSuspect, Mark
    <2> QED BY <2>1
  <1> QED BY <1>1, <1>2, <1>3, <1>4, <1>5
          DEF CallStep, SubmitStep, ReconcileStep

\* A run that ends gives up its slot, and the slot of the service with it.  It
\* may take back the claim file of an authorization it alone was claiming.
LEMMA LeaveCInv ==
  ASSUME CInv, NEW c \in Calls, Leave(c), UNCHANGED delegated,
         artifact' \in [Authorizations \X Slots -> {"absent", "empty", "written"}],
         \A a \in Authorizations :
           \/ artifact'[ConsumptionOf(a)] = artifact[ConsumptionOf(a)]
           \/ stage[c] \in Claiming /\ auth[c] = a
  PROVE  CInv'
  <1> USE DEF Claiming, Leave, Forget, Release, ledgerVars,
      brokerVars, serviceState
  <1>1. UNCHANGED sent
    BY DEF Leave
  <1>2. Shapes'
    BY <1>1 DEF CInv, Shapes, Stages, Kinds, Phases
  <1>3. SoleClaim'
    BY DEF CInv, Shapes, SoleClaim, Stages
  <1>4. ClaimedFirst'
    <2>1. ASSUME NEW d \in Calls, stage'[d] \in Claiming
          PROVE  d # c /\ stage[d] = stage'[d] /\ auth[d] = auth'[d]
      BY <2>1 DEF CInv, Shapes
    <2>2. ASSUME NEW d \in Calls, stage'[d] \in Claiming
          PROVE  artifact'[ConsumptionOf(auth[d])] = artifact[ConsumptionOf(auth[d])]
      BY <2>1, <2>2 DEF CInv, Shapes, SoleClaim
    <2>3. ASSUME NEW a \in Authorizations, delegated[a] > 0
          PROVE  artifact'[ConsumptionOf(a)] = artifact[ConsumptionOf(a)]
      BY <2>3 DEF CInv, Shapes, ClaimedFirst
    <2> QED BY <2>1, <2>2, <2>3 DEF CInv, ClaimedFirst
  <1>5. SendersDelegated'
    BY <1>1 DEF CInv, Shapes, SendersDelegated, MaySend, EarlyGates, PreSend
  <1> QED BY <1>2, <1>3, <1>4, <1>5 DEF CInv

\* A run between the service and its report moves on without touching a claim.
LEMMA ProceedCInv ==
  ASSUME CInv, NEW c \in Calls,
         NEW s \in {"guard", "write_guard", "record", "report"},
         GoTo(c, s), stage[c] \in {"check", "guard", "write_guard", "record"},
         UNCHANGED <<serviceState, delegated>>,
         artifact' \in [Authorizations \X Slots -> {"absent", "empty", "written"}],
         \A a \in Authorizations : artifact'[ConsumptionOf(a)] = artifact[ConsumptionOf(a)]
  PROVE  CInv'
  BY DEF CInv, Shapes, SoleClaim, ClaimedFirst, SendersDelegated, Claiming, MaySend,
     ConsumptionOf, EarlyGates, PreSend, Stages, Phases,
     GoTo, serviceState

\* Claiming: the exclusive open admits one run, which alone may delegate.
LEMMA ClaimCInv ==
  ASSUME CInv, NEW c \in Calls, Claim(c) \/ WriteClaim(c) \/ Delegate(c)
  PROVE  CInv'
  <1> USE DEF Claiming, MaySend, EarlyGates, PreSend, Stages, GoTo,
      serviceState, In
  <1>1. PICK a \in Authorizations : auth[c] = a
    BY DEF Claim, WriteClaim, Delegate, CInv, Shapes
  <1>2. \A b \in Authorizations : ConsumptionOf(b) \in Authorizations \X Slots
    BY DEF Slots, ConsumptionOf
  <1>3. \A b \in Authorizations : b # a => ConsumptionOf(b) # ConsumptionOf(a)
    BY DEF ConsumptionOf
  <1>4. CASE Claim(c)
    <2>1. CASE Leave(c) /\ UNCHANGED artifact
      BY <1>4, <2>1, LeaveCInv DEF Claim, CInv, Shapes
    <2>2. CASE /\ artifact[ConsumptionOf(a)] = "absent"
               /\ artifact' = [artifact EXCEPT ![ConsumptionOf(a)] = "empty"]
               /\ GoTo(c, "write_claim") /\ UNCHANGED serviceState
      <3>1. delegated[a] = 0 /\ UNCHANGED delegated
        BY <1>4, <2>2 DEF Claim, CInv, Shapes, ClaimedFirst
      <3>2. \A d \in Calls : stage[d] \in Claiming => auth[d] # a
        BY <2>2 DEF CInv, ClaimedFirst
      <3>3. Shapes' /\ SendersDelegated'
        BY <1>4, <2>2, <3>1 DEF Claim, CInv, Shapes, SendersDelegated
      <3>4. SoleClaim'
        BY <1>1, <2>2, <3>2 DEF CInv, Shapes, SoleClaim
      <3>5. ClaimedFirst'
        BY <1>1, <1>2, <1>3, <2>2, <3>1, <3>2 DEF CInv, Shapes, ClaimedFirst
      <3> QED BY <3>3, <3>4, <3>5 DEF CInv
    <2> QED BY <1>1, <1>4, <2>1, <2>2 DEF Claim, CreateExclusive, ConsumptionOf
  <1>5. CASE WriteClaim(c)
    <2>1. delegated[a] = 0 /\ UNCHANGED delegated /\ stage[c] = "write_claim"
      BY <1>1, <1>5 DEF WriteClaim, CInv, ClaimedFirst
    <2>2. CASE /\ artifact' = [artifact EXCEPT ![ConsumptionOf(a)] = "written"]
               /\ GoTo(c, "delegate") /\ UNCHANGED serviceState
      <3>1. Shapes' /\ SendersDelegated'
        BY <1>5, <2>1, <2>2 DEF CInv, Shapes, SendersDelegated
      <3>2. SoleClaim'
        BY <2>1, <2>2 DEF CInv, Shapes, SoleClaim
      <3>3. ClaimedFirst'
        BY <1>1, <1>2, <1>3, <2>1, <2>2 DEF CInv, Shapes, ClaimedFirst
      <3> QED BY <3>1, <3>2, <3>3 DEF CInv
    <2>3. ASSUME NEW left \in {"absent", "written"},
                 artifact' = [artifact EXCEPT ![ConsumptionOf(a)] = left], Leave(c)
          PROVE  CInv'
      <3>1. artifact' \in [Authorizations \X Slots -> {"absent", "empty", "written"}]
        BY <2>3 DEF CInv, Shapes
      <3>2. \A b \in Authorizations :
              b # a => artifact'[ConsumptionOf(b)] = artifact[ConsumptionOf(b)]
        BY <1>2, <1>3, <2>3 DEF CInv, Shapes
      <3> QED BY <1>1, <2>1, <2>3, <3>1, <3>2, LeaveCInv
    <2> QED BY <1>1, <1>5, <2>2, <2>3 DEF WriteClaim, WriteExclusive, ConsumptionOf
  <1>6. CASE Delegate(c)
    <2>1. /\ stage[c] = "delegate" /\ UNCHANGED <<artifact, kind, auth, sent>>
          /\ stage' = [stage EXCEPT ![c] = "serve"]
          /\ pc' = [pc EXCEPT ![c] = "gates"]
          /\ work' = [work EXCEPT ![c] = OrderOf[a]]
          /\ delegated' = [delegated EXCEPT ![a] = @ + 1]
      BY <1>1, <1>6 DEF Delegate, StartSubmit, memory, observation
    <2>2. delegated[a] = 0 /\ artifact[ConsumptionOf(a)] = "written"
      BY <1>1, <2>1 DEF CInv, ClaimedFirst
    <2>3. Shapes'
      <3>1. OrderOf[a] \in Orders
        BY AuthorizationAssumption
      <3>2. delegated' \in [Authorizations -> Nat]
        BY <2>1 DEF CInv, Shapes
      <3>3. pc' \in [Calls -> Phases] /\ work' \in [Calls -> Orders \cup {NoOrder}]
        BY <2>1, <3>1 DEF CInv, Shapes, Phases, Active, SubmitPhases
      <3> QED BY <2>1, <3>2, <3>3 DEF CInv, Shapes
    <2>4. SoleClaim'
      BY <2>1 DEF CInv, Shapes, SoleClaim
    <2>5. ClaimedFirst'
      <3>1. \A d \in Calls : stage'[d] \in Claiming => stage[d] = stage'[d] /\ auth[d] # a
        BY <1>1, <2>1 DEF CInv, Shapes, SoleClaim
      <3> QED BY <2>1, <2>2, <3>1 DEF CInv, Shapes, ClaimedFirst
    <2>6. SendersDelegated'
      <3>1. \A b \in Authorizations : delegated[b] > 0 => delegated'[b] > 0
        BY <2>1, <2>2 DEF CInv, Shapes
      <3>2. delegated'[a] > 0
        BY <2>1, <2>2 DEF CInv, Shapes
      <3>3. \A d \in Calls : pc'[d] \in MaySend =>
              stage'[d] = "serve" /\ work'[d] = OrderOf[auth[d]] /\ delegated'[auth[d]] > 0
        BY <1>1, <2>1, <3>1, <3>2 DEF CInv, Shapes, SendersDelegated
      <3>4. \A o \in Orders : sent[o] > 0 =>
              \E b \in Authorizations : OrderOf[b] = o /\ delegated'[b] > 0
        BY <3>1 DEF CInv, SendersDelegated
      <3> QED BY <2>1, <3>3, <3>4 DEF SendersDelegated
    <2> QED BY <2>3, <2>4, <2>5, <2>6 DEF CInv
  <1> QED BY <1>4, <1>5, <1>6

\* Everything a run does besides claiming.
LEMMA RunCInv ==
  ASSUME CInv, NEW c \in Calls,
         \/ Serve(c) \/ Conclude(c) \/ CheckOutcome(c) \/ Guard(c) \/ WriteGuard(c)
         \/ RecordOutcome(c) \/ WriteReport(c) \/ Die(c)
  PROVE  CInv'
  <1> USE DEF In, memory
  <1>1. CASE Serve(c)
    <2>1. UNCHANGED <<stage, kind, auth, artifact, delegated>> /\ stage[c] = "serve"
      BY <1>1 DEF Serve, flow
    <2>2. work' = work
      BY <1>1, ServiceStep DEF Serve, CInv
    <2>3. PICK phase \in Phases : /\ pc' = [pc EXCEPT ![c] = phase]
                                  /\ phase \in MaySend => pc[c] \in MaySend
      BY <1>1, ServiceStep DEF Serve, CInv
    <2>4. Shapes' /\ SoleClaim' /\ ClaimedFirst'
      <3>1. \/ sent' = sent
            \/ sent' = [sent EXCEPT ![work[c]] = @ + 1]
        BY <1>1, ServiceStep DEF Serve, CInv
      <3>2. sent' \in [Orders -> Nat]
        BY <3>1 DEF CInv, Shapes
      <3>3. Shapes'
        BY <2>1, <2>2, <2>3, <3>2 DEF CInv, Shapes
      <3>4. SoleClaim' /\ ClaimedFirst'
        BY <2>1 DEF CInv, SoleClaim, ClaimedFirst
      <3> QED BY <3>3, <3>4
    <2>5. SendersDelegated'
      <3>1. \/ sent' = sent
            \/ pc[c] \in MaySend /\ sent' = [sent EXCEPT ![work[c]] = @ + 1]
        BY <1>1, ServiceStep DEF Serve, CInv
      <3>2. \A d \in Calls : pc'[d] \in MaySend =>
             stage[d] = "serve" /\ work[d] = OrderOf[auth[d]] /\ delegated[auth[d]] > 0
        <4>1. \A d \in Calls : pc'[d] \in MaySend => pc[d] \in MaySend
          BY <2>3 DEF CInv, Shapes
        <4> QED BY <4>1 DEF CInv, SendersDelegated
      <3>3. \A o \in Orders : sent'[o] > 0 =>
             \E a \in Authorizations : OrderOf[a] = o /\ delegated[a] > 0
        BY <2>1, <3>1 DEF CInv, Shapes, SendersDelegated
      <3> QED BY <2>1, <2>2, <3>2, <3>3 DEF SendersDelegated
    <2> QED BY <2>4, <2>5 DEF CInv
  <1>2. CASE Conclude(c)
    <2>1. CASE Leave(c)
      BY <1>2, <2>1, LeaveCInv DEF Conclude, CInv, Shapes
    <2>2. CASE stage' = [stage EXCEPT ![c] = "check"]
               /\ UNCHANGED <<kind, auth, serviceState>>
      BY <1>2, <2>2 DEF Conclude, CInv, Shapes, SoleClaim, ClaimedFirst, SendersDelegated,
         Claiming, MaySend, ConsumptionOf, EarlyGates, PreSend, Stages,
         Phases, serviceState
    <2> QED BY <1>2, <2>1, <2>2 DEF Conclude
  <1>3. CASE CheckOutcome(c)
    BY <1>3, LeaveCInv, ProceedCInv DEF CheckOutcome, CInv, Shapes
  <1>4. CASE Guard(c) \/ WriteGuard(c)
    <2>1. PICK a \in Authorizations, k \in Kinds : auth[c] = a /\ kind[c] = k
      BY <1>4 DEF Guard, WriteGuard, CInv, Shapes
    <2>2. ASSUME NEW state \in {"absent", "empty", "written"},
                 artifact' = [artifact EXCEPT ![<<a, k>>] = state]
          PROVE  /\ artifact' \in [Authorizations \X Slots -> {"absent", "empty", "written"}]
                 /\ \A b \in Authorizations :
                      artifact'[ConsumptionOf(b)] = artifact[ConsumptionOf(b)]
      BY <2>2 DEF CInv, Shapes, Slots, Kinds, ConsumptionOf
    <2>3. CASE Leave(c) /\ UNCHANGED artifact
      BY <1>4, <2>3, LeaveCInv DEF Guard, WriteGuard, CInv, Shapes
    <2>4. CASE /\ \E s \in {"write_guard", "record"} : GoTo(c, s)
               /\ \E state \in {"empty", "written"} :
                    artifact' = [artifact EXCEPT ![<<a, k>>] = state]
               /\ UNCHANGED serviceState
      BY <1>4, <2>2, <2>4, ProceedCInv DEF Guard, WriteGuard
    <2>5. CASE /\ Leave(c)
               /\ \E state \in {"absent", "written"} :
                    artifact' = [artifact EXCEPT ![<<a, k>>] = state]
      <3>1. UNCHANGED delegated
        BY <1>4 DEF Guard, WriteGuard
      <3> QED BY <2>2, <2>5, <3>1, LeaveCInv
    <2> QED BY <1>4, <2>1, <2>3, <2>4, <2>5 DEF Guard, WriteGuard, CreateExclusive,
            WriteExclusive
  <1>5. CASE RecordOutcome(c)
    BY <1>5, LeaveCInv, ProceedCInv DEF RecordOutcome, CInv, Shapes
  <1>6. CASE WriteReport(c) \/ Die(c)
    BY <1>6, LeaveCInv DEF WriteReport, Die, CInv, Shapes
  <1> QED BY <1>1, <1>2, <1>3, <1>4, <1>5, <1>6

\* Runs that begin.
LEMMA StartCInv ==
  ASSUME CInv, NEW c \in Calls, NEW a \in Authorizations,
         StartSubmission(c, a) \/ StartReconciliation(c, a)
  PROVE  CInv'
  <1> USE DEF CInv, Shapes, SoleClaim, ClaimedFirst, SendersDelegated, Claiming, MaySend,
      ConsumptionOf, EarlyGates, PreSend, Stages, Kinds, In
  <1>1. CASE StartSubmission(c, a)
    BY <1>1 DEF StartSubmission, serviceState
  <1>2. CASE StartReconciliation(c, a)
    <2>1. /\ \E phase \in {"rlookup", "done"} : pc' = [pc EXCEPT ![c] = phase]
          /\ work' = [work EXCEPT ![c] = OrderOf[a]]
          /\ UNCHANGED <<sent, artifact, delegated>>
      BY <1>2 DEF StartReconciliation, StartReconcile, ReconcileRefused,
         observation, memory
    <2> QED BY <1>2, <2>1, AuthorizationAssumption
            DEF StartReconciliation, Phases, Active, ReconcilePhases
  <1> QED BY <1>1, <1>2

\* Every step preserves the invariant.
LEMMA StepCInv == CInv /\ [ConfirmedNext]_allVars => CInv'
  <1> SUFFICES ASSUME CInv, [ConfirmedNext]_allVars PROVE CInv'
    OBVIOUS
  <1>1. CASE Surroundings \/ UNCHANGED allVars
    <2>1. UNCHANGED <<stage, kind, auth, artifact, delegated, pc, work, sent>>
      BY <1>1 DEF Surroundings, BrokerStep, BrokerAccepts,
         BrokerRejects, RequestLost, ExternalOrder, Fill,
         MoveKillSwitch, Tick, callVars, observation,
         memory, flow, allVars, serviceState
    <2> QED BY <2>1 DEF CInv, Shapes, SoleClaim, ClaimedFirst, SendersDelegated
  <1> QED BY <1>1, ClaimCInv, RunCInv, StartCInv DEF ConfirmedNext, Run

\* An authorization delegates at most one submission, and whatever is sent was
\* claimed by an authorization for that order, on disk, before.
THEOREM AuthorizationUsedOnce == ConfirmedSpec => []SingleUse
  <1>1. CInv => SingleUse
    <2> SUFFICES ASSUME CInv PROVE SingleUse
      OBVIOUS
    <2>1. \A a \in Authorizations : delegated[a] <= 1
      BY DEF CInv, ClaimedFirst
    <2>2. ASSUME NEW o \in Orders, sent[o] > 0
          PROVE  \E a \in Authorizations :
                   OrderOf[a] = o /\ artifact[<<a, "consumption">>] = "written"
      <3>1. PICK a \in Authorizations : OrderOf[a] = o /\ delegated[a] > 0
        BY <2>2 DEF CInv, SendersDelegated
      <3>2. artifact[<<a, "consumption">>] = "written"
        BY <3>1 DEF CInv, ClaimedFirst, ConsumptionOf
      <3> QED BY <3>1, <3>2
    <2> QED BY <2>1, <2>2 DEF SingleUse
  <1> QED BY <1>1, InitCInv, StepCInv, PTL DEF ConfirmedSpec

-----------------------------------------------------------------------------
(***************************************************************************)
(* The chain of outcomes.  The guard file of an authorization and a kind   *)
(* makes a run the only one that may record that outcome (SoleRecorder),   *)
(* stands as long as an outcome it guards (GuardsStand), and finds again   *)
(* what the check saw: nothing recorded, and for a reconciliation the      *)
(* unknown submission, which nobody adds to (StillRecordable).             *)
(***************************************************************************)
Guarding == {"write_guard", "record"}

OneOutcome ==
  \A a \in Authorizations, k \in Kinds : \A e, f \in Recorded(a, k) : e = f

FollowsUnknown(a) ==
  Recorded(a, "submission") = {<<a, "submission", "submission_unknown">>}

ReconciliationsFollow ==
  \A a \in Authorizations : Recorded(a, "reconciliation") # {} => FollowsUnknown(a)

SoleRecorder ==
  \A c, d \in Calls :
    stage[c] \in Guarding /\ stage[d] \in Guarding /\ auth[c] = auth[d] /\ kind[c] = kind[d]
      => c = d

GuardsStand ==
  /\ \A a \in Authorizations, k \in Kinds :
       Recorded(a, k) # {} => artifact[<<a, k>>] # "absent"
  /\ \A c \in Calls : stage[c] \in Guarding => artifact[<<auth[c], kind[c]>>] # "absent"

StillRecordable ==
  \A c \in Calls :
    /\ stage[c] \in Guarding => Recorded(auth[c], kind[c]) = {}
    /\ stage[c] \in {"guard"} \cup Guarding /\ kind[c] = "reconciliation"
         => FollowsUnknown(auth[c])

GInv == OneOutcome /\ ReconciliationsFollow /\ SoleRecorder /\ GuardsStand /\ StillRecordable

\* A run that neither guards nor records leaves the chain alone.
LEMMA QuietGInv ==
  ASSUME CInv, GInv, NEW c \in Calls,
         UNCHANGED outcomes,
         \A a \in Authorizations, k \in Kinds : artifact'[<<a, k>>] = artifact[<<a, k>>],
         \A d \in Calls : d # c => /\ stage'[d] = stage[d] /\ auth'[d] = auth[d]
                                   /\ kind'[d] = kind[d],
         stage'[c] \notin {"guard", "write_guard", "record"}
  PROVE  GInv'
  <1>3. \A d \in Calls : stage[d] \in Guarding => auth[d] \in Authorizations /\ kind[d] \in Kinds
    BY DEF Guarding, CInv, Shapes
  <1>4. OneOutcome' /\ ReconciliationsFollow'
    BY DEF GInv, OneOutcome, ReconciliationsFollow, FollowsUnknown, Recorded
  <1>5. SoleRecorder'
    BY DEF GInv, SoleRecorder, Guarding
  <1>6. GuardsStand'
    BY <1>3 DEF GInv, GuardsStand, Guarding, Recorded
  <1>7. StillRecordable'
    BY DEF GInv, StillRecordable, Guarding, FollowsUnknown, Recorded
  <1> QED
    BY <1>4, <1>5, <1>6, <1>7 DEF GInv

\* Steps outside the passage from the check to the report.
LEMMA OtherRunsKeepGInv ==
  ASSUME CInv, GInv, NEW c \in Calls,
         \/ Claim(c) \/ WriteClaim(c) \/ Delegate(c) \/ Serve(c) \/ Conclude(c)
         \/ WriteReport(c) \/ Die(c)
         \/ \E a \in Authorizations : StartSubmission(c, a) \/ StartReconciliation(c, a)
  PROVE  GInv'
  <1> DEFINE Away == /\ \A d \in Calls : d # c => /\ stage'[d] = stage[d] /\ auth'[d] = auth[d]
                                                  /\ kind'[d] = kind[d]
                     /\ stage'[c] \notin {"guard", "write_guard", "record"}
  <1>1. Leave(c) => Away
    BY DEF Leave, Forget, CInv, Shapes
  <1>2. ASSUME NEW s \in {"write_claim", "delegate", "serve"}, GoTo(c, s) PROVE Away
    BY <1>2 DEF GoTo, CInv, Shapes
  <1>3. Serve(c) => Away
    BY DEF Serve, flow, In
  <1>4. Away
    <2>1. CASE Claim(c) \/ WriteClaim(c)
      BY <1>1, <1>2, <2>1 DEF Claim, WriteClaim, CreateExclusive, WriteExclusive
    <2>2. CASE Delegate(c) \/ Serve(c) \/ WriteReport(c) \/ Die(c)
      BY <1>1, <1>2, <1>3, <2>2 DEF Delegate, WriteReport, Die
    <2>3. CASE Conclude(c)
      BY <1>1, <2>3 DEF Conclude, CInv, Shapes
    <2>4. CASE \E a \in Authorizations : StartSubmission(c, a) \/ StartReconciliation(c, a)
      BY <2>4 DEF StartSubmission, StartReconciliation, CInv, Shapes
    <2> QED
      BY <2>1, <2>2, <2>3, <2>4
  <1>5. UNCHANGED outcomes
    BY DEF Claim, WriteClaim, Delegate, Serve, Conclude, WriteReport, Die, StartSubmission,
       StartReconciliation, memory
  <1>6. \A a \in Authorizations, k \in Kinds : artifact'[<<a, k>>] = artifact[<<a, k>>]
    <2>1. UNCHANGED artifact \/ \E state : artifact' = [artifact EXCEPT ![<<auth[c], "consumption">>] = state]
      BY DEF Claim, WriteClaim, Delegate, Serve, Conclude, WriteReport, Die, StartSubmission,
         StartReconciliation, memory, CreateExclusive, WriteExclusive
    <2> QED
      BY <2>1 DEF CInv, Shapes, Kinds, Slots
  <1> HIDE DEF Away
  <1> QED
    BY <1>4, <1>5, <1>6, QuietGInv DEF Away

\* The check finds the outcome recordable; for a reconciliation this stays so.
LEMMA CheckKeepsGInv ==
  ASSUME CInv, GInv, NEW c \in Calls, CheckOutcome(c)
  PROVE  GInv'
  <1>1. UNCHANGED <<artifact, outcomes>>
    BY DEF CheckOutcome, memory
  <1>2. CASE Leave(c)
    BY <1>1, <1>2, QuietGInv DEF Leave, Forget, CInv, Shapes
  <1>3. CASE GoTo(c, "guard") /\ Recordable(auth[c], kind[c])
    <2>1. UNCHANGED <<auth, kind>> /\ stage' = [stage EXCEPT ![c] = "guard"]
      BY <1>3 DEF GoTo
    <2>2. \A d \in Calls : stage'[d] \in Guarding => stage[d] \in Guarding
      BY <2>1 DEF CInv, Shapes, Guarding
    <2>3. OneOutcome' /\ ReconciliationsFollow' /\ SoleRecorder' /\ GuardsStand'
      BY <1>1, <2>1, <2>2 DEF GInv, OneOutcome, ReconciliationsFollow, SoleRecorder,
         GuardsStand, FollowsUnknown, Recorded
    <2>4. StillRecordable'
      <3>1. kind[c] = "reconciliation" => FollowsUnknown(auth[c])
        BY <1>3 DEF Recordable, FollowsUnknown
      <3>2. \A d \in Calls : d # c => stage'[d] = stage[d]
        BY <2>1 DEF CInv, Shapes
      <3> QED
        BY <1>1, <2>1, <2>2, <3>1, <3>2 DEF GInv, StillRecordable, FollowsUnknown, Recorded
    <2> QED
      BY <2>3, <2>4 DEF GInv
  <1> QED
    BY <1>2, <1>3 DEF CheckOutcome

\* The exclusive open admits one recorder, and only before any outcome.
LEMMA GuardKeepsGInv ==
  ASSUME CInv, GInv, NEW c \in Calls, Guard(c)
  PROVE  GInv'
  <1>1. stage[c] = "guard" /\ UNCHANGED outcomes
    BY DEF Guard, In
  <1>2. PICK a \in Authorizations, k \in Kinds : auth[c] = a /\ kind[c] = k
    BY <1>1 DEF CInv, Shapes
  <1>3. CASE Leave(c) /\ UNCHANGED artifact
    BY <1>1, <1>3, QuietGInv DEF Leave, Forget, CInv, Shapes
  <1>4. CASE /\ artifact[<<a, k>>] = "absent"
             /\ artifact' = [artifact EXCEPT ![<<a, k>>] = "empty"]
             /\ GoTo(c, "write_guard")
    <2>1. /\ UNCHANGED <<auth, kind>> /\ stage'[c] = "write_guard"
          /\ \A d \in Calls : d # c => stage'[d] = stage[d]
      BY <1>4 DEF GoTo, CInv, Shapes
    <2>2. artifact'[<<a, k>>] = "empty" /\ \A f \in Authorizations \X Slots :
            artifact[f] # "absent" => artifact'[f] # "absent"
      BY <1>2, <1>4 DEF CInv, Shapes, Slots
    <2>3. Recorded(a, k) = {}
      BY <1>4 DEF GInv, GuardsStand
    <2>4. \A d \in Calls : stage[d] \in Guarding => ~(auth[d] = a /\ kind[d] = k)
      BY <1>4 DEF GInv, GuardsStand
    <2>5. OneOutcome' /\ ReconciliationsFollow'
      BY <1>1 DEF GInv, OneOutcome, ReconciliationsFollow, FollowsUnknown, Recorded
    <2>6. SoleRecorder'
      BY <1>2, <2>1, <2>4 DEF GInv, SoleRecorder, Guarding
    <2>7. GuardsStand'
      <3>1. \A b \in Authorizations, j \in Kinds : <<b, j>> \in Authorizations \X Slots
        BY DEF Slots
      <3>2. \A d \in Calls : stage[d] \in Guarding => auth[d] \in Authorizations /\ kind[d] \in Kinds
        BY DEF CInv, Shapes, Guarding
      <3>3. \A b \in Authorizations, j \in Kinds :
              artifact[<<b, j>>] # "absent" => artifact'[<<b, j>>] # "absent"
        BY <2>2, <3>1
      <3>4. \A d \in Calls : stage'[d] \in Guarding => artifact'[<<auth[d], kind[d]>>] # "absent"
        BY <1>2, <2>1, <2>2, <3>2, <3>3 DEF GInv, GuardsStand
      <3> QED
        BY <1>1, <2>1, <3>3, <3>4 DEF GInv, GuardsStand, Recorded
    <2>8. StillRecordable'
      BY <1>1, <1>2, <2>1, <2>3 DEF GInv, StillRecordable, Guarding, FollowsUnknown, Recorded
    <2> QED
      BY <2>5, <2>6, <2>7, <2>8 DEF GInv
  <1> QED
    BY <1>2, <1>3, <1>4 DEF Guard, CreateExclusive

\* The guard is written, or its run gives up; only its own run unlinks it, and
\* before any outcome.
LEMMA WriteGuardKeepsGInv ==
  ASSUME CInv, GInv, NEW c \in Calls, WriteGuard(c)
  PROVE  GInv'
  <1>1. stage[c] = "write_guard" /\ UNCHANGED outcomes
    BY DEF WriteGuard, In
  <1>2. PICK a \in Authorizations, k \in Kinds : auth[c] = a /\ kind[c] = k
    BY <1>1 DEF CInv, Shapes
  <1>3. PICK left \in {"absent", "written"} :
          /\ artifact' = [artifact EXCEPT ![<<a, k>>] = left]
          /\ (GoTo(c, "record") /\ left = "written") \/ Leave(c)
    BY <1>2 DEF WriteGuard, WriteExclusive
  <1>4. /\ stage'[c] \in {"record", "idle"} /\ (stage'[c] = "record" => left = "written")
        /\ stage'[c] = "record" => auth'[c] = a /\ kind'[c] = k
        /\ \A d \in Calls : d # c => /\ stage'[d] = stage[d] /\ auth'[d] = auth[d]
                                     /\ kind'[d] = kind[d]
    BY <1>2, <1>3 DEF GoTo, Leave, Forget, CInv, Shapes
  <1>5. /\ \A d \in Calls : d # c /\ stage[d] \in Guarding => ~(auth[d] = a /\ kind[d] = k)
        /\ Recorded(a, k) = {}
    BY <1>1, <1>2 DEF GInv, SoleRecorder, StillRecordable, Guarding
  <1>6. /\ artifact'[<<a, k>>] = left
        /\ \A b \in Authorizations, j \in Kinds :
             <<b, j>> # <<a, k>> => artifact'[<<b, j>>] = artifact[<<b, j>>]
    BY <1>3 DEF CInv, Shapes, Slots
  <1>7. OneOutcome' /\ ReconciliationsFollow'
    BY <1>1 DEF GInv, OneOutcome, ReconciliationsFollow, FollowsUnknown, Recorded
  <1>8. SoleRecorder'
    BY <1>2, <1>4, <1>5 DEF GInv, SoleRecorder, Guarding
  <1>9. GuardsStand'
    <2>1. \A b \in Authorizations, j \in Kinds :
            Recorded(b, j) # {} => artifact'[<<b, j>>] # "absent"
      BY <1>5, <1>6 DEF GInv, GuardsStand
    <2>2. ASSUME NEW d \in Calls, stage'[d] \in Guarding
          PROVE  artifact'[<<auth'[d], kind'[d]>>] # "absent"
      <3>1. CASE d = c
        BY <1>4, <1>6, <2>2, <3>1 DEF Guarding
      <3>2. CASE d # c
        <4>1. stage[d] \in Guarding /\ auth'[d] = auth[d] /\ kind'[d] = kind[d]
          BY <1>4, <2>2, <3>2
        <4>2. auth[d] \in Authorizations /\ kind[d] \in Kinds /\ <<auth[d], kind[d]>> # <<a, k>>
          BY <1>5, <3>2, <4>1 DEF CInv, Shapes, Guarding
        <4> QED
          BY <1>6, <4>1, <4>2 DEF GInv, GuardsStand
      <3> QED
        BY <3>1, <3>2
    <2> QED
      BY <1>1, <2>1, <2>2 DEF GuardsStand, Recorded
  <1>10. StillRecordable'
    BY <1>1, <1>2, <1>4 DEF GInv, StillRecordable, Guarding, FollowsUnknown, Recorded
  <1> QED
    BY <1>7, <1>8, <1>9, <1>10 DEF GInv

\* The one recorder adds the first outcome of its kind.
LEMMA RecordKeepsGInv ==
  ASSUME CInv, GInv, NEW c \in Calls, RecordOutcome(c)
  PROVE  GInv'
  <1>1. stage[c] = "record" /\ UNCHANGED artifact
    BY DEF RecordOutcome, In
  <1>2. PICK a \in Authorizations, k \in Kinds : auth[c] = a /\ kind[c] = k
    BY <1>1 DEF CInv, Shapes
  <1>3. CASE Leave(c) /\ UNCHANGED outcomes
    BY <1>1, <1>3, QuietGInv DEF Leave, Forget, CInv, Shapes
  <1>4. CASE /\ outcomes' = outcomes \cup {<<a, k, disposition[c]>>}
             /\ GoTo(c, "report")
    <2>1. /\ UNCHANGED <<auth, kind>> /\ stage'[c] = "report"
          /\ \A d \in Calls : d # c => stage'[d] = stage[d]
      BY <1>4 DEF GoTo, CInv, Shapes
    <2>2. /\ Recorded(a, k) = {} /\ artifact[<<a, k>>] # "absent"
          /\ k = "reconciliation" => FollowsUnknown(a)
          /\ \A d \in Calls : d # c /\ stage[d] \in Guarding => ~(auth[d] = a /\ kind[d] = k)
      BY <1>1, <1>2 DEF GInv, StillRecordable, GuardsStand, SoleRecorder, Guarding
    <2>3. /\ Recorded(a, k)' = {<<a, k, disposition[c]>>}
          /\ \A b \in Authorizations, j \in Kinds :
               <<b, j>> # <<a, k>> => Recorded(b, j)' = Recorded(b, j)
      BY <1>4, <2>2 DEF Recorded
    <2>4. ASSUME NEW b \in Authorizations, FollowsUnknown(b) PROVE FollowsUnknown(b)'
      <3>1. <<b, "submission">> # <<a, k>>
        BY <2>2, <2>4 DEF FollowsUnknown
      <3> QED
        BY <2>3, <2>4, <3>1 DEF FollowsUnknown, Kinds
    <2>5. OneOutcome'
      <3>1. ASSUME NEW b \in Authorizations, NEW j \in Kinds,
                   NEW e \in Recorded(b, j)', NEW f \in Recorded(b, j)'
            PROVE  e = f
        <4>1. CASE <<b, j>> = <<a, k>>
          BY <2>3, <3>1, <4>1
        <4>2. CASE <<b, j>> # <<a, k>>
          BY <2>3, <3>1, <4>2 DEF GInv, OneOutcome
        <4> QED
          BY <4>1, <4>2
      <3> QED
        BY <3>1 DEF OneOutcome
    <2>6. ReconciliationsFollow'
      <3>1. ASSUME NEW b \in Authorizations, Recorded(b, "reconciliation")' # {}
            PROVE  FollowsUnknown(b)
        BY <2>2, <2>3, <3>1 DEF GInv, ReconciliationsFollow, Kinds
      <3> QED
        BY <2>4, <3>1 DEF ReconciliationsFollow
    <2>7. SoleRecorder'
      BY <2>1 DEF GInv, SoleRecorder, Guarding
    <2>8. GuardsStand'
      <3>1. \A b \in Authorizations, j \in Kinds :
              Recorded(b, j)' # {} => artifact[<<b, j>>] # "absent"
        BY <2>2, <2>3 DEF GInv, GuardsStand
      <3> QED
        BY <1>1, <2>1, <3>1 DEF GInv, GuardsStand, Guarding
    <2>9. StillRecordable'
      <3>1. ASSUME NEW d \in Calls, stage'[d] \in Guarding
            PROVE  Recorded(auth[d], kind[d])' = {}
        <4>1. d # c /\ stage[d] \in Guarding
          BY <2>1, <3>1 DEF Guarding
        <4>2. auth[d] \in Authorizations /\ kind[d] \in Kinds /\ <<auth[d], kind[d]>> # <<a, k>>
          BY <2>2, <4>1 DEF CInv, Shapes, Guarding
        <4> QED
          BY <2>1, <2>3, <4>1, <4>2 DEF GInv, StillRecordable
      <3>2. ASSUME NEW d \in Calls, stage'[d] \in {"guard"} \cup Guarding,
                   kind[d] = "reconciliation"
            PROVE  FollowsUnknown(auth[d])'
        <4>1. d # c /\ stage[d] \in {"guard"} \cup Guarding /\ auth[d] \in Authorizations
          BY <2>1, <3>2 DEF Guarding, CInv, Shapes
        <4> QED
          BY <2>1, <2>4, <3>2, <4>1 DEF GInv, StillRecordable
      <3> QED
        BY <2>1, <3>1, <3>2 DEF StillRecordable, Recorded, FollowsUnknown
    <2> QED
      BY <2>5, <2>6, <2>7, <2>8, <2>9 DEF GInv
  <1> QED
    BY <1>2, <1>3, <1>4 DEF RecordOutcome

LEMMA StepGInv == CInv /\ GInv /\ [ConfirmedNext]_allVars => GInv'
  <1> SUFFICES ASSUME CInv, GInv, [ConfirmedNext]_allVars PROVE GInv'
    OBVIOUS
  <1>1. CASE Surroundings \/ UNCHANGED allVars
    <2>1. UNCHANGED <<stage, kind, auth, artifact, outcomes>>
      BY <1>1 DEF Surroundings, memory, flow, allVars
    <2> QED
      BY <2>1 DEF GInv, OneOutcome, ReconciliationsFollow, SoleRecorder, GuardsStand,
         StillRecordable, FollowsUnknown, Recorded
  <1> QED
    BY <1>1, OtherRunsKeepGInv, CheckKeepsGInv, GuardKeepsGInv, WriteGuardKeepsGInv,
       RecordKeepsGInv DEF ConfirmedNext, Run

\* However runs race, die or fail to write, an authorization has at most one
\* outcome of each kind, and a reconciliation only after an unknown submission.
THEOREM OutcomesAreChained == ConfirmedSpec => []OutcomeChain
  <1>1. ConfirmedInit => GInv
    BY DEF ConfirmedInit, GInv, OneOutcome, ReconciliationsFollow, SoleRecorder, GuardsStand,
       StillRecordable, FollowsUnknown, Recorded, Guarding
  <1>2. GInv => OutcomeChain
    <2> SUFFICES ASSUME GInv, NEW a \in Authorizations
                 PROVE  /\ \A k \in Kinds : Cardinality(Recorded(a, k)) <= 1
                        /\ Recorded(a, "reconciliation") # {} => FollowsUnknown(a)
      BY DEF OutcomeChain, FollowsUnknown
    <2>1. ASSUME NEW k \in Kinds PROVE Cardinality(Recorded(a, k)) <= 1
      <3>1. CASE Recorded(a, k) = {}
        BY <3>1, FS_EmptySet
      <3>2. ASSUME NEW e \in Recorded(a, k) PROVE Cardinality(Recorded(a, k)) <= 1
        <4>1. Recorded(a, k) = {e}
          BY <3>2 DEF GInv, OneOutcome
        <4> QED
          BY <4>1, FS_Singleton
      <3> QED
        BY <3>1, <3>2
    <2> QED
      BY <2>1 DEF GInv, ReconciliationsFollow
  <1> QED
    BY <1>1, <1>2, InitCInv, StepCInv, StepGInv, PTL DEF ConfirmedSpec

-----------------------------------------------------------------------------
(***************************************************************************)
(* The audit memory against the ledger.  The service's own invariants hold *)
(* here too.  An order is settled when its attempt is neither free nor     *)
(* written off and no call is left that could write it off.                *)
(***************************************************************************)
Settled(o) ==
  /\ attempt[o] \in Pending \cup Positive
  /\ \A d \in Calls : work[d] = o => pc[d] \notin Unsent \cup {"await", "mark_rejected"}

ServiceInv == IInv /\ Senders /\ Told

\* A step of the workflow leaves the service alone, gives up a slot or is a
\* step of the service.
LEMMA ComposedStep ==
  ASSUME CInv, IInv, [ConfirmedNext]_allVars
  PROVE  \/ UNCHANGED serviceState /\ faults' \in 0..MaxFaults
         \/ \E c \in Calls : Release(c) /\ faults' \in 0..MaxFaults
         \/ \E c \in Calls : StartCall(c) \/ CallStep(c)
         \/ \E o \in Orders : BrokerStep(o)
         \/ MoveKillSwitch \/ Tick
  <1> DEFINE Aside == \/ UNCHANGED serviceState /\ faults' \in 0..MaxFaults
                      \/ \E c \in Calls : Release(c) /\ faults' \in 0..MaxFaults
  <1>1. faults \in 0..MaxFaults /\ (Fault => faults' \in 0..MaxFaults)
    BY ConstantsAssumption DEF IInv, TypeOK, Fault
  <1>2. ASSUME NEW c \in Calls, Leave(c), UNCHANGED faults \/ Fault PROVE Aside
    BY <1>1, <1>2 DEF Leave
  <1>3. ASSUME NEW c \in Calls, Run(c) \/ Die(c)
        PROVE  Aside \/ StartCall(c) \/ CallStep(c)
    <2>1. CASE Claim(c) \/ WriteClaim(c) \/ Guard(c) \/ WriteGuard(c)
      BY <1>1, <1>2, <2>1
         DEF Claim, WriteClaim, Guard, WriteGuard, CreateExclusive, WriteExclusive
    <2>2. CASE Conclude(c) \/ CheckOutcome(c) \/ RecordOutcome(c) \/ WriteReport(c) \/ Die(c)
      BY <1>1, <1>2, <2>2 DEF Conclude, CheckOutcome, RecordOutcome, WriteReport, Die
    <2>3. CASE Delegate(c)
      <3>1. StartSubmit(c, OrderOf[auth[c]])
        BY <2>3 DEF Delegate
      <3>2. OrderOf[auth[c]] \in Orders
        BY <2>3, AuthorizationAssumption DEF Delegate, In, CInv, Shapes
      <3> QED
        BY <3>1, <3>2 DEF StartCall
    <2>4. CASE Serve(c)
      BY <2>4 DEF Serve
    <2> QED
      BY <1>3, <2>1, <2>2, <2>3, <2>4 DEF Run
  <1>4. ASSUME NEW c \in Calls, NEW a \in Authorizations, StartSubmission(c, a) PROVE Aside
    BY <1>1, <1>4 DEF StartSubmission
  <1>5. ASSUME NEW c \in Calls, NEW a \in Authorizations, StartReconciliation(c, a)
        PROVE  StartCall(c)
    BY <1>5, AuthorizationAssumption DEF StartReconciliation, StartCall
  <1>6. UNCHANGED allVars => Aside
    BY <1>1 DEF allVars
  <1> HIDE DEF Aside
  <1> QED
    BY <1>3, <1>4, <1>5, <1>6 DEF ConfirmedNext, Surroundings, Aside

LEMMA StepServiceInv == CInv /\ ServiceInv /\ [ConfirmedNext]_allVars => ServiceInv'
  <1> SUFFICES ASSUME CInv, ServiceInv, [ConfirmedNext]_allVars PROVE ServiceInv'
    OBVIOUS
  <1>1. CASE UNCHANGED serviceState /\ faults' \in 0..MaxFaults
    BY <1>1 DEF ServiceInv, serviceState, IInv, TypeOK, OneClaim, UnsentHoldsRow, SoleUnsent,
       SentOnce, RepliesFollowRequests, RejectionsReal, OrdersBacked, Backed, Senders, Told
  <1>2. ASSUME NEW c \in Calls, Release(c), faults' \in 0..MaxFaults PROVE ServiceInv'
    BY <1>2, ReleaseKeepsIInv, ReleaseKeepsTold DEF ServiceInv
  <1>3. CASE [Next]_vars
    BY <1>3, StepIInv, StepTold DEF ServiceInv
  <1> QED
    BY <1>1, <1>2, <1>3, ComposedStep DEF ServiceInv, Next

\* What the ledger says for good stays, and so does a settled order.
LEMMA VerdictsStay ==
  ASSUME CInv, ServiceInv, [ConfirmedNext]_allVars, NEW o \in Orders, attempt[o] \in Terminal
  PROVE  attempt'[o] = attempt[o]
  <1>1. UNCHANGED attempt \/ [Next]_vars
    BY ComposedStep DEF ServiceInv, serviceState, Release, ledgerVars, Next
  <1>2. CASE LedgerStep
    BY <1>2 DEF LedgerStep, SetStatus, ServiceInv, IInv, TypeOK, Terminal, Positive, Negative, Pending
  <1> QED
    BY <1>1, <1>2, LedgerShape DEF ServiceInv

LEMMA SettledStays ==
  ASSUME CInv, ServiceInv, [ConfirmedNext]_allVars, NEW o \in Orders, Settled(o)
  PROVE  Settled(o)'
  <1>1. CASE UNCHANGED <<attempt, pc, work>>
    BY <1>1 DEF Settled
  <1>2. ASSUME NEW c \in Calls, UNCHANGED attempt, pc' = [pc EXCEPT ![c] = pc'[c]],
               work' = [work EXCEPT ![c] = work'[c]],
               pc'[c] \notin Unsent \cup {"await", "mark_rejected"}
        PROVE  Settled(o)'
    BY <1>2 DEF Settled, ServiceInv, IInv, TypeOK
  <1>3. ASSUME NEW c \in Calls, Release(c) \/ StartCall(c) PROVE Settled(o)'
    BY <1>2, <1>3 DEF Release, StartCall, StartSubmit, StartReconcile, ReconcileRefused,
       ledgerVars, ServiceInv, IInv, TypeOK, Unsent, PreSend
  <1>4. ASSUME NEW c \in Calls, CallStep(c) PROVE Settled(o)'
    <2>1. CASE Reserve(c)
      <3>1. attempt[work[c]] = "none" /\ work[c] \in Orders
        BY <2>1 DEF Reserve, At, SessionAvailable, ServiceInv, IInv, TypeOK
      <3>2. work[c] # o
        BY <3>1 DEF Settled, Pending, Positive
      <3> QED
        BY <2>1, <3>2 DEF Reserve, Go, SetStatus, Settled, ServiceInv, IInv, TypeOK
    <2>2. CASE Send(c)
      <3>1. work[c] # o
        BY <2>2 DEF Send, At, Settled, Unsent, PreSend
      <3> QED
        BY <2>2, <3>1 DEF Send, Go, ledgerVars, Settled, ServiceInv, IInv, TypeOK
    <2>3. ASSUME NEW phase \in Active, Moves(c, phase) PROVE Settled(o)'
      <3>1. UNCHANGED <<attempt, work>> /\ pc' = [pc EXCEPT ![c] = phase]
        BY <2>3 DEF Moves, Go, Alone, ledgerVars
      <3>2. work[c] = o => phase \notin Unsent \cup {"await", "mark_rejected"}
        BY <2>3 DEF Moves, LeadsTo, Settled, Unsent, PreSend
      <3> QED
        BY <3>1, <3>2 DEF Settled, ServiceInv, IInv, TypeOK
    <2>4. ASSUME NEW r \in Results, Ends(c, r) PROVE Settled(o)'
      BY <1>2, <2>4 DEF Ends, Return, Alone, ledgerVars, ServiceInv, IInv, TypeOK, Unsent, PreSend
    <2>5. ASSUME NEW status \in Statuses, NEW r \in Results, Concludes(c, status, r)
          PROVE  Settled(o)'
      <3>1. /\ UNCHANGED work /\ pc' = [pc EXCEPT ![c] = "done"]
            /\ attempt' = [attempt EXCEPT ![work[c]] = status]
        BY <2>5 DEF Concludes, Return, SetStatus
      <3>2. work[c] = o => status \in Pending \cup Positive
        BY <2>5 DEF Concludes, Settled, Terminal, Negative, Pending, Unsent
      <3> QED
        BY <3>1, <3>2 DEF Settled, ServiceInv, IInv, TypeOK, Unsent, PreSend
    <2> QED
      BY <1>4, <2>1, <2>2, <2>3, <2>4, <2>5, CallShape
  <1>5. (\E p \in Orders : BrokerStep(p)) \/ MoveKillSwitch \/ Tick \/ UNCHANGED serviceState
          => UNCHANGED <<attempt, pc, work>>
    BY DEF BrokerStep, BrokerAccepts, BrokerRejects, RequestLost, ExternalOrder, Fill,
       MoveKillSwitch, Tick, ledgerVars, callVars, serviceState
  <1> QED
    BY <1>1, <1>3, <1>4, <1>5, ComposedStep DEF ServiceInv

(***************************************************************************)
(* What a run hands to the audit memory.  A built outcome is the answer of *)
(* the run's finished call (Answered); a submission that does not know its *)
(* outcome was the only call that could still write its order off, so the  *)
(* order is settled (UnknownSettles), and stays so once that is recorded   *)
(* (RecordsHold).                                                          *)
(***************************************************************************)
Built == {"check", "guard", "write_guard", "record", "report"}
Unresolved == {"record_existing", "record_accepted", "mark_unknown", "suspect"}

Answered(c) ==
  /\ stage[c] \in {"serve"} \cup Built => work[c] = OrderOf[auth[c]]
  /\ stage[c] \in Built => /\ pc[c] = "done" /\ result[c] # "error"
                           /\ disposition[c] = DispositionOf(result[c])

UnknownSettles(c) ==
  kind[c] = "submission" /\ stage[c] \in {"serve"} \cup Built =>
    /\ pc[c] \notin ReconcilePhases /\ result[c] # "not_found"
    /\ pc[c] \in Unresolved \/ result[c] = "unknown" => Settled(work[c])

RecordHolds(a, k, d) ==
  LET status == attempt[OrderOf[a]] IN
  /\ d = "accepted" => status \in {"accepted", "broker_existing_order_found"}
  /\ d \in {"rejected", "reconciled"} => status = d
  /\ k = "submission" /\ d = "submission_unknown" => Settled(OrderOf[a])

RecordsHold ==
  \A e \in outcomes : \E a \in Authorizations, k \in Kinds :
    e = <<a, k, e[3]>> /\ RecordHolds(a, k, e[3])

AInv ==
  /\ DOMAIN disposition = Calls
  /\ \A c \in Calls : Answered(c) /\ UnknownSettles(c)
  /\ RecordsHold

\* A call that has asked the broker, or is about to, is the last that could
\* write its order off.
LEMMA LastSender ==
  ASSUME ServiceInv, NEW c \in Calls, pc[c] \in {"lookup", "await"}
  PROVE  /\ attempt[work[c]] \in Pending \cup Positive
         /\ \A d \in Calls \ {c} :
              work[d] = work[c] => pc[d] \notin Unsent \cup {"await", "mark_rejected"}
  <1> USE DEF ServiceInv
  <1>1. work[c] \in Orders /\ sent[work[c]] \in Nat /\ attempt[work[c]] \in Statuses /\ result[c] = "none"
    BY DEF IInv, TypeOK
  <1>2. CASE pc[c] = "lookup"
    <2>1. sent[work[c]] = 0 /\ attempt[work[c]] \notin {"none", "blocked"}
      BY <1>2 DEF IInv, UnsentHoldsRow, Unsent, PreSend
    <2>2. attempt[work[c]] # "rejected"
      BY <1>1, <2>1 DEF IInv, RejectionsReal, RepliesFollowRequests
    <2>3. \A d \in Calls : pc[d] \in {"await", "mark_rejected"} => sent[work[d]] > 0
      BY DEF Senders
    <2>4. \A d \in Calls : pc[d] \in Unsent /\ work[d] = work[c] => d = c
      BY <1>2 DEF IInv, SoleUnsent, Unsent, PreSend
    <2> QED
      BY <1>1, <2>1, <2>2, <2>3, <2>4 DEF Statuses, Terminal, Negative
  <1>3. CASE pc[c] = "await"
    <2>1. c \in submitted /\ sent[work[c]] > 0 /\ attempt[work[c]] \notin Negative
      BY <1>1, <1>3 DEF Senders
    <2>2. attempt[work[c]] # "none"
      BY <1>1, <2>1 DEF IInv, SentOnce
    <2>3. \A d \in Calls : pc[d] \in {"await", "mark_rejected"} /\ work[d] = work[c] => d = c
      BY <2>1 DEF Senders
    <2>4. \A d \in Calls : pc[d] \in Unsent => sent[work[d]] = 0
      BY DEF IInv, UnsentHoldsRow
    <2> QED
      BY <1>1, <2>1, <2>2, <2>3, <2>4 DEF Statuses, Terminal
  <1> QED
    BY <1>2, <1>3

\* So when it turns to recording what it does not know, the order is settled.
LEMMA TurnSettles ==
  ASSUME ServiceInv, NEW c \in Calls, NEW phase \in Active, Moves(c, phase),
         phase \in Unresolved, pc[c] \in {"lookup", "await"}
  PROVE  Settled(work[c])'
  <1>1. UNCHANGED <<attempt, work>> /\ pc' = [pc EXCEPT ![c] = phase]
    BY DEF Moves, Go, Alone, ledgerVars
  <1>2. pc'[c] = phase /\ \A d \in Calls \ {c} : pc'[d] = pc[d]
    BY <1>1 DEF ServiceInv, IInv, TypeOK
  <1>3. phase \notin Unsent \cup {"await", "mark_rejected"}
    BY DEF Unresolved, Unsent, PreSend
  <1> QED
    BY <1>1, <1>2, <1>3, LastSender DEF Settled

\* A run another run steps beside keeps what it stands on.
LEMMA BystanderKeeps ==
  ASSUME CInv, ServiceInv, AInv, [ConfirmedNext]_allVars, NEW d \in Calls,
         pc'[d] = pc[d], work'[d] = work[d], result'[d] = result[d], stage'[d] = stage[d],
         kind'[d] = kind[d], auth'[d] = auth[d], disposition'[d] = disposition[d]
  PROVE  Answered(d)' /\ UnknownSettles(d)'
  <1>1. Answered(d) /\ UnknownSettles(d)
    BY DEF AInv
  <1>2. Answered(d)'
    BY <1>1 DEF Answered
  <1>3. ASSUME stage[d] \in {"serve"} \cup Built, kind[d] = "submission",
               pc[d] \in Unresolved \/ result[d] = "unknown"
        PROVE  Settled(work[d])'
    <2>1. Settled(work[d])
      BY <1>1, <1>3 DEF UnknownSettles
    <2>2. PICK o \in Orders : work[d] = o
      <3>1. auth[d] \in Authorizations /\ work[d] = OrderOf[auth[d]]
        BY <1>1, <1>3 DEF Answered, CInv, Shapes, Built
      <3> QED
        BY <3>1, AuthorizationAssumption
    <2>3. Settled(o)'
      BY <2>1, <2>2, SettledStays
    <2>4. work'[d] = o
      BY <2>2
    <2> QED
      BY <2>3, <2>4 DEF Settled
  <1>4. UnknownSettles(d)'
    <2> SUFFICES ASSUME kind'[d] = "submission", stage'[d] \in {"serve"} \cup Built
                 PROVE  /\ pc'[d] \notin ReconcilePhases /\ result'[d] # "not_found"
                        /\ pc'[d] \in Unresolved \/ result'[d] = "unknown" => Settled(work[d])'
      BY DEF UnknownSettles
    <2> QED
      BY <1>1, <1>3 DEF UnknownSettles
  <1> QED
    BY <1>2, <1>4

\* The run's own call moves on.
LEMMA ServeKeeps ==
  ASSUME CInv, ServiceInv, AInv, [ConfirmedNext]_allVars, NEW c \in Calls, Serve(c)
  PROVE  Answered(c)' /\ UnknownSettles(c)'
  <1>1. /\ stage[c] = "serve" /\ CallStep(c) /\ UNCHANGED <<stage, kind, auth, disposition>>
        /\ Answered(c) /\ UnknownSettles(c) /\ work' = work
    BY ServiceStep DEF Serve, In, flow, AInv, CInv
  <1>2. Answered(c)'
    BY <1>1 DEF Answered, Built
  <1>3. work[c] = OrderOf[auth[c]] /\ auth[c] \in Authorizations /\ work[c] \in Orders
    BY <1>1, AuthorizationAssumption DEF Answered, CInv, Shapes
  <1>4. ASSUME kind[c] = "submission"
        PROVE  /\ pc'[c] \notin ReconcilePhases /\ result'[c] # "not_found"
               /\ pc'[c] \in Unresolved \/ result'[c] = "unknown" => Settled(work[c])'
    <2>1. /\ pc[c] \notin ReconcilePhases /\ result[c] # "not_found"
          /\ pc[c] \in Unresolved => Settled(work[c])
      BY <1>1, <1>4 DEF UnknownSettles
    <2>2. Settled(work[c]) => Settled(work[c])'
      <3>1. PICK o \in Orders : work[c] = o
        BY <1>3
      <3>2. Settled(o) => Settled(o)'
        BY SettledStays
      <3>3. work'[c] = o
        BY <1>1, <3>1
      <3> QED
        BY <3>1, <3>2, <3>3 DEF Settled
    <2>3. CASE Reserve(c) \/ Send(c)
      <3>1. pc'[c] \in {"lookup", "await"} /\ result'[c] = "none"
        BY <2>3 DEF Reserve, Send, Go, At, ServiceInv, IInv, TypeOK
      <3> QED
        BY <3>1 DEF Unresolved, ReconcilePhases
    <2>4. ASSUME NEW phase \in Active, Moves(c, phase)
          PROVE  /\ pc'[c] \notin ReconcilePhases /\ result'[c] # "not_found"
                 /\ pc'[c] \in Unresolved \/ result'[c] = "unknown" => Settled(work[c])'
      <3>1. pc'[c] = phase /\ result'[c] = "none"
        BY <2>4 DEF Moves, Go, ServiceInv, IInv, TypeOK, Active, SubmitPhases, EarlyGates,
           PreSend, ReconcilePhases, SharedPhases
      <3>2. phase \notin ReconcilePhases
        BY <2>1, <2>4 DEF Moves, LeadsTo, ReconcilePhases
      <3>3. phase \in Unresolved =>
              pc[c] \in {"lookup", "await"} \/ pc[c] \in Unresolved
        BY <2>1, <2>4 DEF Moves, LeadsTo, ReconcilePhases, Recording, Unresolved
      <3> QED
        BY <2>1, <2>2, <2>4, <3>1, <3>2, <3>3, TurnSettles
    <2>5. ASSUME NEW r \in Results, pc'[c] = "done", result'[c] = r, AnswersWith(c, r)
          PROVE  /\ pc'[c] \notin ReconcilePhases /\ result'[c] # "not_found"
                 /\ pc'[c] \in Unresolved \/ result'[c] = "unknown" => Settled(work[c])'
      BY <2>1, <2>2, <2>5 DEF AnswersWith, ReconcilePhases, Unresolved
    <2>6. \A r \in Results : Ends(c, r) \/ (\E status \in Statuses : Concludes(c, status, r))
            => pc'[c] = "done" /\ result'[c] = r /\ AnswersWith(c, r)
      BY DEF Ends, Concludes, Return, ServiceInv, IInv, TypeOK
    <2> QED
      BY <1>1, <2>3, <2>4, <2>5, <2>6, CallShape
  <1>5. UnknownSettles(c)'
    BY <1>1, <1>4 DEF UnknownSettles
  <1> QED
    BY <1>2, <1>5

\* The run that steps keeps it too, and no other run is touched.
LEMMA RunKeeps ==
  ASSUME CInv, ServiceInv, AInv, [ConfirmedNext]_allVars, NEW c \in Calls,
         \/ Run(c) \/ Die(c)
         \/ \E a \in Authorizations : StartSubmission(c, a) \/ StartReconciliation(c, a)
  PROVE  \A d \in Calls : Answered(d)' /\ UnknownSettles(d)'
  <1> DEFINE Others == \A d \in Calls \ {c} :
                /\ pc'[d] = pc[d] /\ work'[d] = work[d] /\ result'[d] = result[d]
                /\ stage'[d] = stage[d] /\ kind'[d] = kind[d] /\ auth'[d] = auth[d]
                /\ disposition'[d] = disposition[d]
             Own == Answered(c)' /\ UnknownSettles(c)'
  <1> SUFFICES Others /\ Own
    BY BystanderKeeps
  <1> USE DEF In
  <1>1. /\ pc \in [Calls -> Phases] /\ stage \in [Calls -> Stages]
        /\ work \in [Calls -> Orders \cup {NoOrder}] /\ result \in [Calls -> Results]
        /\ pc[c] # "done" => result[c] = "none"
        /\ kind \in [Calls -> Kinds] /\ DOMAIN auth = Calls /\ DOMAIN disposition = Calls
    BY DEF CInv, Shapes, ServiceInv, IInv, TypeOK, AInv
  <1>2. ASSUME Leave(c) PROVE Others /\ Own
    BY <1>1, <1>2 DEF Leave, Forget, Release, serviceState, Answered, UnknownSettles, Built
  <1>3. ASSUME NEW s \in Stages, GoTo(c, s), UNCHANGED serviceState,
               s \in Built => stage[c] \in Built,
               s # "serve"
        PROVE  Others /\ Own
    <2>1. /\ UNCHANGED <<pc, work, result, kind, auth, disposition, attempt>>
          /\ stage'[c] = s /\ \A d \in Calls \ {c} : stage'[d] = stage[d]
      BY <1>1, <1>3 DEF GoTo, serviceState
    <2>2. Answered(c) /\ UnknownSettles(c)
      BY DEF AInv
    <2> QED
      BY <1>3, <2>1, <2>2 DEF Answered, UnknownSettles, Built, Settled
  <1>4. CASE Claim(c) \/ WriteClaim(c) \/ CheckOutcome(c) \/ Guard(c) \/ WriteGuard(c)
    BY <1>2, <1>3, <1>4 DEF Claim, WriteClaim, CheckOutcome, Guard, WriteGuard,
       CreateExclusive, WriteExclusive, Stages, Built
  <1>5. CASE RecordOutcome(c) \/ WriteReport(c) \/ Die(c)
    BY <1>2, <1>3, <1>5 DEF RecordOutcome, WriteReport, Die, Stages, Built
  <1>6. CASE Delegate(c)
    <2>1. /\ pc' = [pc EXCEPT ![c] = "gates"] /\ work' = [work EXCEPT ![c] = OrderOf[auth[c]]]
          /\ UNCHANGED <<result, kind, auth, disposition>> /\ stage' = [stage EXCEPT ![c] = "serve"]
          /\ result[c] = "none"
      BY <1>1, <1>6 DEF Delegate, StartSubmit, GoTo, At
    <2> QED
      BY <1>1, <2>1 DEF Answered, UnknownSettles, Built, ReconcilePhases, Unresolved
  <1>7. CASE Serve(c)
    <2>1. Others
      <3>1. work' = work /\ \E phase \in Phases : pc' = [pc EXCEPT ![c] = phase]
        BY <1>7, ServiceStep DEF Serve, CInv
      <3>2. \E r : result' = [result EXCEPT ![c] = r]
        <4>1. Reserve(c) \/ Send(c) => UNCHANGED result
          BY DEF Reserve, Send, Go
        <4>2. \A phase : Moves(c, phase) => UNCHANGED result
          BY DEF Moves, Go
        <4>3. \A status, r : Ends(c, r) \/ Concludes(c, status, r) => result' = [result EXCEPT ![c] = r]
          BY DEF Ends, Concludes, Return
        <4>4. UNCHANGED result => result' = [result EXCEPT ![c] = result[c]]
          BY <1>1
        <4> QED
          BY <1>7, <4>1, <4>2, <4>3, <4>4, CallShape DEF Serve
      <3> QED
        BY <1>1, <1>7, <3>1, <3>2 DEF Serve, flow
    <2> QED
      BY <1>7, <2>1, ServeKeeps
  <1>8. CASE Conclude(c)
    <2>1. CASE Leave(c)
      BY <1>2, <2>1
    <2>2. CASE /\ disposition' = [disposition EXCEPT ![c] = DispositionOf(result[c])]
               /\ stage' = [stage EXCEPT ![c] = "check"]
               /\ UNCHANGED <<kind, auth>> /\ UNCHANGED serviceState /\ result[c] # "error"
      <3>1. Answered(c) /\ UnknownSettles(c) /\ stage[c] = "serve" /\ pc[c] = "done"
        BY <1>8 DEF AInv, Conclude
      <3>2. disposition'[c] = DispositionOf(result[c])
        BY <2>2 DEF AInv
      <3> QED
        BY <1>1, <2>2, <3>1, <3>2
           DEF serviceState, Answered, UnknownSettles, Built, Settled, DispositionOf
    <2> QED
      BY <1>8, <2>1, <2>2 DEF Conclude
  <1>9. ASSUME NEW a \in Authorizations, StartSubmission(c, a) \/ StartReconciliation(c, a)
        PROVE  Others /\ Own
    <2>1. CASE StartSubmission(c, a)
      BY <1>1, <2>1 DEF StartSubmission, serviceState, Answered, UnknownSettles, Built, CInv, Shapes
    <2>2. CASE StartReconciliation(c, a)
      <3>1. work'[c] = OrderOf[a] /\ \A d \in Calls \ {c} :
              pc'[d] = pc[d] /\ work'[d] = work[d] /\ result'[d] = result[d]
        BY <1>1, <2>2 DEF StartReconciliation, StartReconcile, ReconcileRefused
      <3> QED
        BY <1>1, <2>2, <3>1 DEF StartReconciliation, Answered, UnknownSettles, Built, CInv, Shapes
    <2> QED
      BY <1>9, <2>1, <2>2
  <1> HIDE DEF Others, Own
  <1> QED
    BY <1>4, <1>5, <1>6, <1>7, <1>8, <1>9 DEF Run

\* What is recorded goes on being true.
LEMMA RecordsGoOnHolding ==
  ASSUME CInv, ServiceInv, [ConfirmedNext]_allVars,
         NEW a \in Authorizations, NEW k \in Kinds, NEW d, RecordHolds(a, k, d)
  PROVE  RecordHolds(a, k, d)'
  <1>1. PICK o \in Orders : OrderOf[a] = o
    BY AuthorizationAssumption
  <1>2. attempt[o] \in Terminal => attempt'[o] = attempt[o]
    BY VerdictsStay
  <1>3. Settled(o) => Settled(o)'
    BY SettledStays
  <1> QED
    BY <1>1, <1>2, <1>3 DEF RecordHolds, Terminal, Positive, Negative, Settled

LEMMA StepAInv == CInv /\ ServiceInv /\ AInv /\ [ConfirmedNext]_allVars => AInv'
  <1> SUFFICES ASSUME CInv, ServiceInv, AInv, [ConfirmedNext]_allVars PROVE AInv'
    OBVIOUS
  <1>1. DOMAIN disposition' = Calls
    BY DEF AInv, ConfirmedNext, Run, Claim, WriteClaim, Delegate, Serve, Conclude, CheckOutcome,
       Guard, WriteGuard, RecordOutcome, WriteReport, Die, StartSubmission, StartReconciliation,
       Surroundings, CreateExclusive, WriteExclusive, Leave, Forget, GoTo, flow, allVars
  <1>2. \A c \in Calls : Answered(c)' /\ UnknownSettles(c)'
    <2>1. CASE Surroundings \/ UNCHANGED allVars
      <3>1. UNCHANGED <<pc, work, result, stage, kind, auth, disposition>>
        BY <2>1 DEF Surroundings, BrokerStep, BrokerAccepts, BrokerRejects, RequestLost,
           ExternalOrder, Fill, MoveKillSwitch, Tick, callVars, flow, allVars, serviceState
      <3> QED
        BY <3>1, BystanderKeeps
    <2> QED
      BY <2>1, RunKeeps DEF ConfirmedNext
  <1>3. RecordsHold'
    <2>1. ASSUME NEW e \in outcomes
          PROVE  \E a \in Authorizations, k \in Kinds : e = <<a, k, e[3]>> /\ RecordHolds(a, k, e[3])'
      BY RecordsGoOnHolding DEF AInv, RecordsHold
    <2>2. ASSUME NEW c \in Calls, RecordOutcome(c)
          PROVE  \E a \in Authorizations, k \in Kinds : \E d :
                   /\ <<auth[c], kind[c], disposition[c]>> = <<a, k, d>>
                   /\ RecordHolds(a, k, d)'
      <3>1. stage[c] = "record" /\ auth[c] \in Authorizations /\ kind[c] \in Kinds
        BY <2>2 DEF RecordOutcome, In, CInv, Shapes
      <3>2. /\ work[c] = OrderOf[auth[c]] /\ disposition[c] = DispositionOf(result[c])
            /\ result[c] \in Results
            /\ kind[c] = "submission" =>
                 result[c] # "not_found" /\ (result[c] = "unknown" => Settled(work[c]))
        BY <3>1 DEF AInv, Answered, UnknownSettles, Built, ServiceInv, IInv, TypeOK
      <3>3. RecordHolds(auth[c], kind[c], disposition[c])
        BY <3>2 DEF RecordHolds, DispositionOf, Results, ServiceInv, Told
      <3>4. \A a \in Authorizations, k \in Kinds : \A d :
              RecordHolds(a, k, d) => RecordHolds(a, k, d)'
        BY RecordsGoOnHolding
      <3>5. PICK a \in Authorizations, k \in Kinds :
              \E d : <<auth[c], kind[c], disposition[c]>> = <<a, k, d>>
        BY <3>1
      <3>6. PICK d : <<auth[c], kind[c], disposition[c]>> = <<a, k, d>>
        BY <3>5
      <3> QED
        BY <3>3, <3>4, <3>6
    <2>3. \/ UNCHANGED outcomes
          \/ \E c \in Calls : /\ RecordOutcome(c)
                              /\ outcomes' = outcomes \cup {<<auth[c], kind[c], disposition[c]>>}
      BY DEF ConfirmedNext, Run, Claim, WriteClaim, Delegate, Serve, Conclude, CheckOutcome,
         Guard, WriteGuard, RecordOutcome, WriteReport, Die, StartSubmission, StartReconciliation,
         Surroundings, memory, allVars
    <2>4. \A e \in outcomes' : e \in outcomes \/ \E c \in Calls :
            RecordOutcome(c) /\ e = <<auth[c], kind[c], disposition[c]>>
      BY <2>3
    <2>5. ASSUME NEW e \in outcomes'
          PROVE  \E a \in Authorizations, k \in Kinds : e = <<a, k, e[3]>> /\ RecordHolds(a, k, e[3])'
      BY <2>1, <2>2, <2>4
    <2> QED
      BY <2>5 DEF RecordsHold
  <1> QED
    BY <1>1, <1>2, <1>3 DEF AInv

\* Nothing is recorded, reserved, built or promised before the first run.
LEMMA InitAll == ConfirmedInit => CInv /\ GInv /\ ServiceInv /\ AInv
  <1> SUFFICES ASSUME ConfirmedInit PROVE GInv /\ ServiceInv /\ AInv
    BY InitCInv
  <1>1. Init => Senders /\ Told
    BY DEF Init, Senders, Told
  <1>2. ServiceInv /\ AInv
    BY <1>1, InitIInv
       DEF ConfirmedInit, ServiceInv, AInv, Answered, UnknownSettles, RecordsHold, Built
  <1>3. GInv
    BY DEF ConfirmedInit, GInv, OneOutcome, ReconciliationsFollow, SoleRecorder, GuardsStand,
       StillRecordable, FollowsUnknown, Recorded, Guarding
  <1> QED
    BY <1>2, <1>3

THEOREM ConfirmedInvariance == ConfirmedSpec => [](CInv /\ GInv /\ ServiceInv /\ AInv)
  BY InitAll, StepCInv, StepGInv, StepServiceInv, StepAInv, PTL DEF ConfirmedSpec

\* The audit memory never contradicts the ledger: success, rejection and
\* reconciliation are on it, and an unknown submission was not written off.
THEOREM AuditMemoryIsTruthful == ConfirmedSpec => []AuditIsTruthful
  <1>1. AInv /\ GInv => AuditIsTruthful
    <2> SUFFICES ASSUME AInv, GInv, NEW e \in outcomes
                 PROVE  LET status == attempt[OrderOf[e[1]]] IN
                        /\ e[3] = "accepted" => status \in {"accepted", "broker_existing_order_found"}
                        /\ e[3] \in {"rejected", "reconciled"} => status = e[3]
                        /\ e[3] = "submission_unknown" => status \in Pending \cup Positive
      BY DEF AuditIsTruthful
    <2>1. PICK a \in Authorizations, k \in Kinds : e = <<a, k, e[3]>> /\ RecordHolds(a, k, e[3])
      BY DEF AInv, RecordsHold
    <2>2. CASE k = "reconciliation" /\ e[3] = "submission_unknown"
      <3>1. FollowsUnknown(a)
        BY <2>1, <2>2 DEF GInv, ReconciliationsFollow, Recorded
      <3>2. <<a, "submission", "submission_unknown">> \in outcomes
        BY <3>1 DEF FollowsUnknown, Recorded
      <3>3. PICK b \in Authorizations, j \in Kinds :
              /\ <<a, "submission", "submission_unknown">> = <<b, j, "submission_unknown">>
              /\ RecordHolds(b, j, "submission_unknown")
        BY <3>2 DEF AInv, RecordsHold
      <3>4. Settled(OrderOf[a])
        BY <3>3 DEF RecordHolds
      <3> QED
        BY <2>1, <2>2, <3>4 DEF Settled
    <2>3. CASE k = "submission" \/ e[3] # "submission_unknown"
      BY <2>1, <2>3 DEF RecordHolds, Settled
    <2> QED
      BY <2>2, <2>3 DEF Kinds
  <1> QED
    BY <1>1, ConfirmedInvariance, PTL

\* Under the workflow, whose runs hold and give up their slots at other points
\* than plain calls, the service still keeps the promise of SubmissionPromise.
THEOREM WorkflowKeepsPromise == ConfirmedSpec => KeepsPromise
  <1>1. ConfirmedInit => Promise!Init
    BY DEF ConfirmedInit, Init, Promise!Init, Positive, Negative
  <1>2. CInv /\ ServiceInv /\ [ConfirmedNext]_allVars => [Promise!Next]_(Promise!vars)
    <2> SUFFICES ASSUME CInv, ServiceInv, [ConfirmedNext]_allVars
                 PROVE  [Promise!Next]_(Promise!vars)
      OBVIOUS
    <2>1. CASE UNCHANGED serviceState \/ \E c \in Calls : Release(c)
      BY <2>1, InvisibleStep DEF serviceState, Release, ledgerVars, brokerVars
    <2>2. CASE [Next]_vars
      BY <2>2, StepIsPromised DEF ServiceInv
    <2> QED
      BY <2>1, <2>2, ComposedStep DEF ServiceInv, Next
  <1> QED
    BY <1>1, <1>2, ConfirmedInvariance, PTL DEF ConfirmedSpec, KeepsPromise, Promise!Spec
=============================================================================
