--------------------------- MODULE PaperExecution ---------------------------
(***************************************************************************)
(* The paper-order submission service (execution/service.py) running       *)
(* against its SQLite ledger (execution/repository.py) and the Alpaca      *)
(* paper broker (execution/alpaca_paper.py).                               *)
(*                                                                         *)
(* A call is one invocation of submit_approved_order or                    *)
(* reconcile_by_client_order_id.  Calls run concurrently, each in its own  *)
(* process, and share only the ledger and the broker, so a step of a call  *)
(* is one ledger transaction or one broker request; everything the code    *)
(* does between two of those is folded into the step.                      *)
(*                                                                         *)
(* Covered: the order of the gates, the reservation and its uniqueness     *)
(* constraints, every exit of the submission, reconciliation, the durable  *)
(* kill switch and the operator who moves it, process crashes, failing     *)
(* ledger transactions, lost or late broker requests and answers, orders   *)
(* another installation placed under the same client_order_id, fills and   *)
(* the end-of-session expiry of DAY orders.                                *)
(* Abstracted: identifiers, prices and quantities (an order buys or sells  *)
(* one whole position), failure codes and timestamps.                      *)
(***************************************************************************)
EXTENDS Integers, FiniteSets

CONSTANTS
  Orders,          \* instructions with their approvals, named by client_order_id
  Calls,           \* slots for concurrent invocations of the service
  NoOrder,         \* the order of an idle slot
  SessionOf,       \* [Orders -> execution sessions]
  SideOf,          \* [Orders -> {"buy", "sell"}]
  Horizon,         \* bound: the last instant of the broker clock
  OpenSession,     \* [0..Horizon -> the session whose market is open, or Closed]
  Closed,          \* no market is open
  ValidAt,         \* [Orders -> the instants at which instruction and approval hold]
  ExternalOrders,  \* client ids another installation may use at the broker
  MaxFaults,       \* bound: crashes, failed transactions and failed lookups
  AdapterReportsRejection, \* does the adapter raise PaperExecutionBrokerRejectionError?
  PromptDelivery   \* assumption: a submission never straddles two clock instants

Instants == 0..Horizon

ASSUME ConstantsAssumption ==
  /\ NoOrder \notin Orders
  /\ SideOf \in [Orders -> {"buy", "sell"}]
  /\ DOMAIN SessionOf = Orders
  /\ Horizon \in Nat
  /\ DOMAIN OpenSession = Instants
  /\ \A o \in Orders : SessionOf[o] # Closed
  /\ ValidAt \in [Orders -> SUBSET Instants]
  /\ ExternalOrders \subseteq Orders
  /\ MaxFaults \in Nat
  /\ AdapterReportsRejection \in BOOLEAN
  /\ PromptDelivery \in BOOLEAN

VARIABLES
  attempt,     \* paper_execution_attempts.attempt_status, "none" without a row
  trail,       \* paper_execution_events of attempts: <<order, prior, new>>
  killSwitch,  \* paper_execution_control.kill_switch_engaged
  pc,          \* where each call stands
  work,        \* the order each call is about
  result,      \* what the call gave its caller
  now,         \* the broker clock
  brokerOrder, \* the order the broker holds under each client id
  alien,       \* client ids whose broker order does not match the attempt
  wire,        \* submission requests on their way to the broker
  reply,       \* the broker's answer to each submission request
  shares,      \* positions held at the broker
  faults       \* faults so far
\* Observations, read by properties only.
VARIABLES
  sent,            \* how many submission requests each order has caused
  submitted,       \* calls that have sent a submission request
  sawDisengaged    \* calls during which, after reserving, the switch was off

ledgerVars  == <<attempt, trail, killSwitch>>
callVars    == <<pc, work, result>>
brokerVars  == <<now, brokerOrder, alien, wire, reply, shares>>
observation == <<sent, submitted, sawDisengaged>>
vars == <<ledgerVars, callVars, brokerVars, faults, observation>>

Pending  == {"reserved", "submission_unknown"}
Positive == {"accepted", "broker_existing_order_found", "reconciled"}
Negative == {"blocked", "rejected"}
Terminal == Positive \cup Negative
Statuses == {"none"} \cup Pending \cup Terminal

EarlyGates    == {"gates", "killswitch", "positions", "openorders", "reserve"}
PreSend       == {"lookup", "refresh", "finalgate", "submit"}
SubmitPhases  == EarlyGates \cup PreSend \cup
  {"record_existing", "await", "record_accepted", "mark_rejected", "mark_blocked"}
ReconcilePhases == {"rlookup", "record_reconciled"}
SharedPhases  == {"mark_unknown", "suspect"}
Active == SubmitPhases \cup ReconcilePhases \cup SharedPhases
Phases == {"idle", "done"} \cup Active
Results == {"none", "accepted", "unknown", "rejected", "blocked", "error",
            "reconciled", "not_found"}

Init ==
  /\ attempt = [o \in Orders |-> "none"]
  /\ trail = {}
  /\ killSwitch = TRUE
  /\ pc = [c \in Calls |-> "idle"]
  /\ work = [c \in Calls |-> NoOrder]
  /\ result = [c \in Calls |-> "none"]
  /\ now = 0
  /\ brokerOrder = [o \in Orders |-> "none"]
  /\ alien = {}
  /\ wire = {}
  /\ reply = [o \in Orders |-> "none"]
  /\ shares = 0
  /\ faults = 0
  /\ sent = [o \in Orders |-> 0]
  /\ submitted = {}
  /\ sawDisengaged = {}

(***************************************************************************)
(* Steps of a call.                                                        *)
(***************************************************************************)
At(c, phase) == pc[c] = phase

Go(c, phase) ==
  /\ pc' = [pc EXCEPT ![c] = phase]
  /\ UNCHANGED <<work, result>>

Return(c, r) ==
  /\ pc' = [pc EXCEPT ![c] = "done"]
  /\ result' = [result EXCEPT ![c] = r]
  /\ UNCHANGED work

Fault ==
  /\ faults < MaxFaults
  /\ faults' = faults + 1

(***************************************************************************)
(* The ledger.  Every update runs in one BEGIN IMMEDIATE transaction with  *)
(* the event that documents it.                                            *)
(***************************************************************************)
\* Variant: only the client id is unique, not the symbol and session.
SessionAvailable_ByClientId(o) == attempt[o] = "none"

SessionAvailable(o) == \A p \in Orders : SessionOf[p] = SessionOf[o] => attempt[p] = "none"

\* The statuses an update to the given status may start from.
PriorStates(status) ==
  IF status \in {"reconciled", "submission_unknown"} THEN Pending ELSE {"reserved"}

\* Variant: the row is updated without its event.
SetStatus_NoEvent(o, status) ==
  /\ attempt' = [attempt EXCEPT ![o] = status]
  /\ UNCHANGED <<trail, killSwitch>>

SetStatus(o, status) ==
  /\ attempt' = [attempt EXCEPT ![o] = status]
  /\ trail' = trail \cup {<<o, attempt[o], status>>}
  /\ UNCHANGED killSwitch

Allowed(o, status) == attempt[o] \in PriorStates(status)

(***************************************************************************)
(* The gates before the reservation.                                       *)
(***************************************************************************)
Fresh(o) == OpenSession[now] = SessionOf[o] /\ now \in ValidAt[o]

WorkingOrders == {o \in Orders : brokerOrder[o] = "working"}

\* Variant: a buy does not look at the position.
PositionPermits_AnyBuy(o) == IF SideOf[o] = "buy" THEN TRUE ELSE shares = 1

PositionPermits(o) == IF SideOf[o] = "buy" THEN shares = 0 ELSE shares = 1

NoConflictingOrder(o) == WorkingOrders \subseteq {o}

StartSubmit(c, o) ==
  /\ At(c, "idle")
  /\ pc' = [pc EXCEPT ![c] = "gates"]
  /\ work' = [work EXCEPT ![c] = o]
  /\ UNCHANGED <<result, ledgerVars, brokerVars, faults, observation>>

\* Configuration, environment, account and first clock check, approval.
PassGates(c) ==
  /\ At(c, "gates") /\ Fresh(work[c])
  /\ Go(c, "killswitch")
  /\ UNCHANGED <<ledgerVars, brokerVars, faults, observation>>

PassKillSwitch(c) ==
  /\ At(c, "killswitch") /\ ~killSwitch
  /\ Go(c, "positions")
  /\ UNCHANGED <<ledgerVars, brokerVars, faults, observation>>

PassPositions(c) ==
  /\ At(c, "positions") /\ PositionPermits(work[c])
  /\ Go(c, "openorders")
  /\ UNCHANGED <<ledgerVars, brokerVars, faults, observation>>

PassOpenOrders(c) ==
  /\ At(c, "openorders") /\ NoConflictingOrder(work[c])
  /\ Go(c, "reserve")
  /\ UNCHANGED <<ledgerVars, brokerVars, faults, observation>>

\* Any early gate may refuse: a failed condition above, a setting, the account,
\* the asset, the execution-time risk rules or a broker read that fails.  Live
\* mode and a raw SQLite failure surface as an error of another class.
Refuse(c) ==
  /\ pc[c] \in EarlyGates
  /\ \E r \in {"blocked", "error"} : Return(c, r)
  /\ UNCHANGED <<ledgerVars, brokerVars, faults, observation>>

Reserve(c) ==
  /\ At(c, "reserve") /\ SessionAvailable(work[c])
  /\ SetStatus(work[c], "reserved")
  /\ Go(c, "lookup")
  /\ sawDisengaged' = IF killSwitch THEN sawDisengaged ELSE sawDisengaged \cup {c}
  /\ UNCHANGED <<brokerVars, faults, sent, submitted>>

(***************************************************************************)
(* After the reservation: lookup by client id, refreshed clock, final      *)
(* kill-switch read, submission.                                           *)
(***************************************************************************)
LookupNothing(c) ==
  /\ At(c, "lookup") /\ brokerOrder[work[c]] = "none"
  /\ Go(c, "refresh")
  /\ UNCHANGED <<ledgerVars, brokerVars, faults, observation>>

LookupExisting(c) ==
  /\ At(c, "lookup") /\ brokerOrder[work[c]] # "none"
  /\ Go(c, IF work[c] \in alien THEN "mark_unknown" ELSE "record_existing")
  /\ UNCHANGED <<ledgerVars, brokerVars, faults, observation>>

\* Neither lookup is wrapped: the transport error leaves the attempt as it is.
LookupFails(c) ==
  /\ pc[c] \in {"lookup", "rlookup"}
  /\ Fault
  /\ Return(c, "blocked")
  /\ UNCHANGED <<ledgerVars, brokerVars, observation>>

\* Variant: the refreshed clock is not checked.
RefreshClock_Unchecked(c) ==
  /\ At(c, "refresh")
  /\ Go(c, "finalgate")
  /\ UNCHANGED <<ledgerVars, brokerVars, faults, observation>>

RefreshClock(c) ==
  /\ At(c, "refresh") /\ Fresh(work[c])
  /\ Go(c, "finalgate")
  /\ UNCHANGED <<ledgerVars, brokerVars, faults, observation>>

\* The refreshed clock is unusable or says the order is out of its session.
RefreshRefuses(c) ==
  /\ At(c, "refresh")
  /\ Go(c, "mark_blocked")
  /\ UNCHANGED <<ledgerVars, brokerVars, faults, observation>>

\* Variant: no kill-switch read after the reservation.
FinalGate_NoRead(c) ==
  /\ At(c, "finalgate")
  /\ Go(c, "submit")
  /\ UNCHANGED <<ledgerVars, brokerVars, faults, observation>>

FinalGate(c) ==
  /\ At(c, "finalgate")
  /\ Go(c, IF killSwitch THEN "mark_blocked" ELSE "submit")
  /\ UNCHANGED <<ledgerVars, brokerVars, faults, observation>>

\* A corrupt row is caught and blocks the attempt; an unopenable database or a
\* raw SQLite error is of another class and escapes.
FinalGateUnreadable(c) ==
  /\ At(c, "finalgate")
  /\ Fault
  /\ \/ Go(c, "mark_blocked")
     \/ Return(c, "error")
  /\ UNCHANGED <<ledgerVars, brokerVars, observation>>

\* The request could not be built locally; the SDK was not called.
BuildRequestFails(c) ==
  /\ At(c, "submit")
  /\ Go(c, "mark_blocked")
  /\ UNCHANGED <<ledgerVars, brokerVars, faults, observation>>

Send(c) ==
  /\ At(c, "submit")
  /\ wire' = wire \cup {work[c]}
  /\ Go(c, "await")
  /\ sent' = [sent EXCEPT ![work[c]] = @ + 1]
  /\ submitted' = submitted \cup {c}
  /\ UNCHANGED <<ledgerVars, now, brokerOrder, alien, reply, shares, faults, sawDisengaged>>

ReceiveAccepted(c) ==
  /\ At(c, "await") /\ reply[work[c]] = "accepted"
  /\ Go(c, "record_accepted")
  /\ UNCHANGED <<ledgerVars, brokerVars, faults, observation>>

\* The adapter turns every SDK exception, a rejection too, into an unknown
\* outcome; the service also knows a definitive rejection.
ReceiveRejected(c) ==
  /\ At(c, "await") /\ reply[work[c]] = "rejected"
  /\ Go(c, IF AdapterReportsRejection THEN "mark_rejected" ELSE "mark_unknown")
  /\ UNCHANGED <<ledgerVars, brokerVars, faults, observation>>

\* Variant: a timeout counts as a failed submission.
NoUsableReply_Failed(c) ==
  /\ At(c, "await") /\ reply[work[c]] # "rejected"
  /\ Go(c, "mark_blocked")
  /\ UNCHANGED <<ledgerVars, brokerVars, faults, observation>>

\* Timeout, cancellation, connection loss or an answer that does not match.  (A
\* rejection whose answer is lost is a lost request.)
NoUsableReply(c) ==
  /\ At(c, "await") /\ reply[work[c]] # "rejected"
  /\ Go(c, "mark_unknown")
  /\ UNCHANGED <<ledgerVars, brokerVars, faults, observation>>

(***************************************************************************)
(* Ledger updates after a broker answer.                                   *)
(***************************************************************************)
\* Variant: a failing update is swallowed and success reported.
RecordReceipt_Swallow(c, phase, status, r) ==
  /\ At(c, phase)
  /\ \/ Allowed(work[c], status) /\ SetStatus(work[c], status) /\ UNCHANGED faults
     \/ ~Allowed(work[c], status) /\ UNCHANGED <<ledgerVars, faults>>
     \/ Fault /\ UNCHANGED ledgerVars
  /\ Return(c, r)
  /\ UNCHANGED <<brokerVars, observation>>

\* record_receipt; when it fails the attempt is marked unknown, best effort.
RecordReceipt(c, phase, status, r) ==
  /\ At(c, phase)
  /\ \/ /\ Allowed(work[c], status)
        /\ SetStatus(work[c], status)
        /\ Return(c, r)
        /\ UNCHANGED faults
     \/ /\ ~Allowed(work[c], status)
        /\ Go(c, "suspect")
        /\ UNCHANGED <<ledgerVars, faults>>
     \/ /\ Fault
        /\ Go(c, "suspect")
        /\ UNCHANGED ledgerVars
  /\ UNCHANGED <<brokerVars, observation>>

RecordExisting(c) ==
  RecordReceipt(c, "record_existing", "broker_existing_order_found", "accepted")
RecordAccepted(c) == RecordReceipt(c, "record_accepted", "accepted", "accepted")
RecordReconciled(c) == RecordReceipt(c, "record_reconciled", "reconciled", "reconciled")

\* mark_submission_unknown or mark_failure.  The transition may be refused; the
\* transaction may fail, before the commit or in the read that follows it, as a
\* ledger error or as an error of another class.
Mark(c, phase, status, done, refused) ==
  /\ At(c, phase)
  /\ \/ /\ Allowed(work[c], status)
        /\ SetStatus(work[c], status)
        /\ Return(c, done)
        /\ UNCHANGED faults
     \/ /\ ~Allowed(work[c], status)
        /\ Return(c, refused)
        /\ UNCHANGED <<ledgerVars, faults>>
     \/ /\ Fault
        /\ \/ Allowed(work[c], status) /\ SetStatus(work[c], status)
           \/ UNCHANGED ledgerVars
        /\ \E r \in {refused, "error"} : Return(c, r)
  /\ UNCHANGED <<brokerVars, observation>>

MarkBlocked(c)  == Mark(c, "mark_blocked", "blocked", "blocked", "blocked")
MarkRejected(c) == Mark(c, "mark_rejected", "rejected", "rejected", "blocked")
MarkUnknown(c)  == Mark(c, "mark_unknown", "submission_unknown", "unknown", "blocked")
MarkSuspect(c)  == Mark(c, "suspect", "submission_unknown", "unknown", "unknown")

(***************************************************************************)
(* reconcile_by_client_order_id: lookup only.                              *)
(***************************************************************************)
\* Variant: only submission_unknown is eligible for reconciliation.
StartReconcile_UnknownOnly(c, o) ==
  /\ At(c, "idle")
  /\ attempt[o] = "submission_unknown"
  /\ pc' = [pc EXCEPT ![c] = "rlookup"]
  /\ work' = [work EXCEPT ![c] = o]
  /\ UNCHANGED <<result, ledgerVars, brokerVars, faults, observation>>

StartReconcile(c, o) ==
  /\ At(c, "idle")
  /\ attempt[o] \in Pending
  /\ pc' = [pc EXCEPT ![c] = "rlookup"]
  /\ work' = [work EXCEPT ![c] = o]
  /\ UNCHANGED <<result, ledgerVars, brokerVars, faults, observation>>

\* No row, or a status that is not eligible.
ReconcileRefused(c, o) ==
  /\ At(c, "idle")
  /\ attempt[o] \notin Pending
  /\ pc' = [pc EXCEPT ![c] = "done"]
  /\ work' = [work EXCEPT ![c] = o]
  /\ result' = [result EXCEPT ![c] = "blocked"]
  /\ UNCHANGED <<ledgerVars, brokerVars, faults, observation>>

ReconcileNothing(c) ==
  /\ At(c, "rlookup") /\ brokerOrder[work[c]] = "none"
  /\ Return(c, "not_found")
  /\ UNCHANGED <<ledgerVars, brokerVars, faults, observation>>

ReconcileFound(c) ==
  /\ At(c, "rlookup") /\ brokerOrder[work[c]] # "none"
  /\ Go(c, IF work[c] \in alien THEN "mark_unknown" ELSE "record_reconciled")
  /\ UNCHANGED <<ledgerVars, brokerVars, faults, observation>>

(***************************************************************************)
(* The end of a call: its slot is free for the next invocation.            *)
(***************************************************************************)
Release(c) ==
  /\ pc' = [pc EXCEPT ![c] = "idle"]
  /\ work' = [work EXCEPT ![c] = NoOrder]
  /\ result' = [result EXCEPT ![c] = "none"]
  /\ submitted' = submitted \ {c}
  /\ sawDisengaged' = sawDisengaged \ {c}
  /\ UNCHANGED <<ledgerVars, brokerVars, sent>>

Finish(c) == At(c, "done") /\ Release(c) /\ UNCHANGED faults

Crash(c) == pc[c] \in Active /\ Fault /\ Release(c)

(***************************************************************************)
(* The operator, the broker and the clock.                                 *)
(***************************************************************************)
\* set_paper_execution_kill_switch, either way (confirmed when disengaging).
MoveKillSwitch ==
  /\ killSwitch' = ~killSwitch
  /\ sawDisengaged' = IF killSwitch
                        THEN sawDisengaged \cup {c \in Calls : pc[c] \in PreSend}
                        ELSE sawDisengaged
  /\ UNCHANGED <<attempt, trail, callVars, brokerVars, faults, sent, submitted>>

BrokerAccepts(o) ==
  /\ o \in wire /\ brokerOrder[o] = "none"
  /\ wire' = wire \ {o}
  /\ brokerOrder' = [brokerOrder EXCEPT ![o] = "working"]
  /\ reply' = [reply EXCEPT ![o] = "accepted"]
  /\ UNCHANGED <<ledgerVars, callVars, now, alien, shares, faults, observation>>

\* Buying power, a halted asset, or a client id the broker already knows.
BrokerRejects(o) ==
  /\ o \in wire
  /\ wire' = wire \ {o}
  /\ reply' = [reply EXCEPT ![o] = "rejected"]
  /\ UNCHANGED <<ledgerVars, callVars, now, brokerOrder, alien, shares, faults, observation>>

RequestLost(o) ==
  /\ o \in wire
  /\ wire' = wire \ {o}
  /\ UNCHANGED <<ledgerVars, callVars, now, brokerOrder, alien, reply, shares, faults, observation>>

ExternalOrder(o) ==
  /\ o \in ExternalOrders /\ brokerOrder[o] = "none"
  /\ brokerOrder' = [brokerOrder EXCEPT ![o] = "working"]
  /\ alien' \in {alien, alien \cup {o}}
  /\ UNCHANGED <<ledgerVars, callVars, now, wire, reply, shares, faults, observation>>

Fill(o) ==
  /\ brokerOrder[o] = "working" /\ OpenSession[now] # Closed
  /\ brokerOrder' = [brokerOrder EXCEPT ![o] = "filled"]
  /\ shares' = IF SideOf[o] = "buy" THEN shares + 1 ELSE shares - 1
  /\ UNCHANGED <<ledgerVars, callVars, now, alien, wire, reply, faults, observation>>

InTransit == wire # {} \/ \E c \in Calls : pc[c] \in {"finalgate", "submit"}

\* Working DAY orders expire when their market closes.
Tick ==
  /\ now < Horizon
  /\ PromptDelivery => ~InTransit
  /\ now' = now + 1
  /\ brokerOrder' = IF OpenSession[now] \notin {Closed, OpenSession[now + 1]}
                      THEN [o \in Orders |-> IF o \in WorkingOrders THEN "expired"
                                             ELSE brokerOrder[o]]
                      ELSE brokerOrder
  /\ UNCHANGED <<ledgerVars, callVars, alien, wire, reply, shares, faults, observation>>

SubmitStep(c) ==
  \/ PassGates(c) \/ PassKillSwitch(c) \/ PassPositions(c) \/ PassOpenOrders(c)
  \/ Refuse(c) \/ Reserve(c)
  \/ LookupNothing(c) \/ LookupExisting(c) \/ LookupFails(c)
  \/ RefreshClock(c) \/ RefreshRefuses(c)
  \/ FinalGate(c) \/ FinalGateUnreadable(c)
  \/ BuildRequestFails(c) \/ Send(c)
  \/ ReceiveAccepted(c) \/ ReceiveRejected(c) \/ NoUsableReply(c)
  \/ RecordExisting(c) \/ RecordAccepted(c)
  \/ MarkBlocked(c) \/ MarkRejected(c) \/ MarkUnknown(c) \/ MarkSuspect(c)

ReconcileStep(c) ==
  \/ ReconcileNothing(c) \/ ReconcileFound(c) \/ RecordReconciled(c)

CallStep(c) == SubmitStep(c) \/ ReconcileStep(c)

StartCall(c) ==
  \E o \in Orders : StartSubmit(c, o) \/ StartReconcile(c, o) \/ ReconcileRefused(c, o)

BrokerStep(o) ==
  \/ BrokerAccepts(o) \/ BrokerRejects(o) \/ RequestLost(o)
  \/ ExternalOrder(o) \/ Fill(o)

Next ==
  \/ \E c \in Calls : StartCall(c) \/ CallStep(c) \/ Finish(c) \/ Crash(c)
  \/ \E o \in Orders : BrokerStep(o)
  \/ MoveKillSwitch
  \/ Tick

Spec == Init /\ [][Next]_vars

-----------------------------------------------------------------------------
(***************************************************************************)
(* Properties.                                                             *)
(***************************************************************************)

\* The variables hold values of the expected kind; a call past "idle" always
\* has an order, and only a finished call has a result.
TypeOK ==
  /\ attempt \in [Orders -> Statuses]
  /\ trail \subseteq Orders \X Statuses \X Statuses
  /\ killSwitch \in BOOLEAN
  /\ pc \in [Calls -> Phases]
  /\ work \in [Calls -> Orders \cup {NoOrder}]
  /\ result \in [Calls -> Results]
  /\ \A c \in Calls : /\ pc[c] # "idle" => work[c] \in Orders
                      /\ pc[c] # "done" => result[c] = "none"
  /\ now \in Instants
  /\ brokerOrder \in [Orders -> {"none", "working", "filled", "expired"}]
  /\ alien \subseteq Orders
  /\ wire \subseteq Orders
  /\ reply \in [Orders -> {"none", "accepted", "rejected"}]
  /\ shares \in Int
  /\ faults \in 0..MaxFaults
  /\ sent \in [Orders -> Nat]
  /\ submitted \subseteq Calls
  /\ sawDisengaged \subseteq Calls

\* However calls, crashes and ledger failures interleave, an execution session
\* sees at most one submission request: no order is submitted twice and no two
\* orders of one session are submitted (SECURITY_AND_SAFETY.md, "Duplicate and
\* Concurrency Controls").
OneSubmissionPerSession ==
  \A o, p \in Orders :
    /\ sent[o] <= 1
    /\ SessionOf[o] = SessionOf[p] /\ sent[o] > 0 /\ sent[p] > 0 => o = p

\* A status that tells the operator nothing is outstanding is never held by an
\* order of ours that the broker has or may still get: "blocked" means it was
\* never sent, "rejected" that the broker refused it.
NoLiveOrderWrittenOff ==
  \A o \in Orders :
    /\ attempt[o] \in {"none", "blocked"} => sent[o] = 0
    /\ attempt[o] = "rejected" => reply[o] = "rejected" /\ o \notin wire

\* A status that says the broker has the order is only recorded when it has
\* it, and has it in the form the attempt asked for.
PositiveStatusIsBacked ==
  \A o \in Orders : attempt[o] \in Positive => brokerOrder[o] # "none" /\ o \notin alien

\* No call submits unless the durable kill switch was disengaged at some moment
\* after the call reserved its attempt: a switch engaged from the reservation
\* on stops the order, whatever the first read said.
KillSwitchHonoured == submitted \subseteq sawDisengaged

\* What the caller is told agrees with the ledger and the broker: success and
\* rejection are on record, and "unknown" never hides a written-off attempt.
ResultIsTruthful ==
  \A c \in Calls :
    /\ result[c] = "accepted" =>
         attempt[work[c]] \in {"accepted", "broker_existing_order_found"}
    /\ result[c] = "reconciled" => attempt[work[c]] = "reconciled"
    /\ result[c] = "rejected" => attempt[work[c]] = "rejected" /\ c \in submitted
    /\ c \in submitted /\ result[c] = "unknown" => attempt[work[c]] \notin Negative

\* The audit trail retraces the attempt: its last link is the current status,
\* every link starts where another ended, and a final status is reached once.
TrailRetracesAttempt ==
  \A o \in Orders :
    LET events == {e \in trail : e[1] = o} IN
    /\ attempt[o] # "none" => \E e \in events : e[3] = attempt[o]
    /\ \A e \in events : e[2] # "none" => \E f \in events : f[3] = e[2]
    /\ Cardinality({e \in events : e[3] \in Terminal}) =
         (IF attempt[o] \in Terminal THEN 1 ELSE 0)

\* A final status is final, and an attempt once reserved keeps its row.
TerminalIsFinal ==
  [][\A o \in Orders : /\ attempt[o] \in Terminal => attempt'[o] = attempt[o]
                       /\ attempt[o] # "none" => attempt'[o] # "none"]_vars

\* If a submission never straddles two instants, the order reaches the broker
\* in the session, and while the approval, it was made for.
ArrivesInItsSession ==
  [][\A o \in wire : brokerOrder'[o] # brokerOrder[o] =>
       OpenSession[now] = SessionOf[o] /\ now \in ValidAt[o]]_vars

\* If a submission never straddles two instants and nobody else trades the
\* account, SPY exposure stays between flat and one position, counting orders
\* still working: no pyramiding across sessions and never short.
LongOnlyOnePosition ==
  LET Working(side) == Cardinality({o \in WorkingOrders : SideOf[o] = side}) IN
  /\ shares + Working("buy") <= 1
  /\ shares - Working("sell") >= 0

(***************************************************************************)
(* The service keeps the promise of SubmissionPromise.                     *)
(***************************************************************************)
Promise == INSTANCE SubmissionPromise WITH
  claimed  <- {o \in Orders : attempt[o] # "none"},
  sent     <- {o \in Orders : sent[o] > 0},
  atBroker <- {o \in Orders : brokerOrder[o] # "none" /\ o \notin alien},
  refused  <- {o \in Orders : reply[o] = "rejected"},
  verdict  <- [o \in Orders |-> IF attempt[o] \in Positive THEN "live"
                                ELSE IF attempt[o] \in Negative THEN "dead"
                                ELSE "open"]

\* Every step of the service, with its crashes and failures, is a step of the
\* promise or leaves the promise's state alone.
KeepsPromise == Promise!Spec

(***************************************************************************)
(* Progress.  A process that is not killed runs on: its lookups and ledger *)
(* transactions return or raise.  A submission request may be left without *)
(* an answer for ever.  Faults are finite, so they end.                    *)
(***************************************************************************)
Waiting(c) == pc[c] = "await" /\ reply[work[c]] = "none"

FairSpec == Spec /\ \A c \in Calls : WF_vars(~Waiting(c) /\ CallStep(c))

\* The operator who keeps running the lookup for an unresolved attempt.
OperatorReconciles ==
  /\ \A c \in Calls : WF_vars(Finish(c))
  /\ \A o \in Orders : SF_vars(\E c \in Calls : StartReconcile(c, o))

PatientSpec == FairSpec /\ OperatorReconciles

\* An attempt whose order the broker holds, as asked for, does not stay
\* unresolved for ever if the operator keeps reconciling it, through crashes,
\* failed lookups and failed transactions, and without resubmission.
ReconciliationConverges ==
  \A o \in Orders :
    (attempt[o] \in Pending /\ brokerOrder[o] # "none" /\ o \notin alien)
      ~> attempt[o] \in Terminal
=============================================================================
