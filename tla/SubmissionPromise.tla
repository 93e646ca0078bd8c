------------------------- MODULE SubmissionPromise --------------------------
(***************************************************************************)
(* What paper submission promises its operator, without ledger, phases or  *)
(* processes: an order claims its execution session for good, is sent at   *)
(* most once and only while it is not written off, and a verdict on it is  *)
(* final and true of the broker.                                           *)
(***************************************************************************)
CONSTANTS
  Orders,        \* orders that may be submitted
  SessionOf,     \* the execution session of each order
  ExternalOrders \* orders that may reach the broker from elsewhere

VARIABLES
  claimed,  \* orders holding their session
  sent,     \* orders the service has sent
  atBroker, \* orders the broker holds, as asked for
  refused,  \* orders whose request the broker refused
  verdict   \* "open" until something definite is known

vars == <<claimed, sent, atBroker, refused, verdict>>

Init ==
  /\ claimed = {} /\ sent = {} /\ refused = {}
  /\ atBroker = {}
  /\ verdict = [o \in Orders |-> "open"]

Claim(o) ==
  /\ \A p \in claimed : SessionOf[p] # SessionOf[o]
  /\ claimed' = claimed \cup {o}
  /\ UNCHANGED <<sent, atBroker, refused, verdict>>

Send(o) ==
  /\ o \in claimed \ sent /\ verdict[o] # "dead"
  /\ sent' = sent \cup {o}
  /\ UNCHANGED <<claimed, atBroker, refused, verdict>>

Arrive(o) ==
  /\ o \in (sent \ refused) \cup ExternalOrders
  /\ atBroker' = atBroker \cup {o}
  /\ UNCHANGED <<claimed, sent, refused, verdict>>

BeRefused(o) ==
  /\ o \in sent
  /\ refused' = refused \cup {o}
  /\ UNCHANGED <<claimed, sent, atBroker, verdict>>

ConcludeLive(o) ==
  /\ o \in claimed \cap atBroker /\ verdict[o] = "open"
  /\ verdict' = [verdict EXCEPT ![o] = "live"]
  /\ UNCHANGED <<claimed, sent, atBroker, refused>>

ConcludeDead(o) ==
  /\ o \in claimed /\ (o \notin sent \/ o \in refused) /\ verdict[o] = "open"
  /\ verdict' = [verdict EXCEPT ![o] = "dead"]
  /\ UNCHANGED <<claimed, sent, atBroker, refused>>

Next ==
  \E o \in Orders : \/ Claim(o) \/ Send(o) \/ Arrive(o) \/ BeRefused(o)
                    \/ ConcludeLive(o) \/ ConcludeDead(o)

Spec == Init /\ [][Next]_vars
=============================================================================
