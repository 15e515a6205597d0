-------------------------------- MODULE Outbox --------------------------------
(***************************************************************************)
(* The notification outbox: rows written with the change they announce,    *)
(* sent by workers that claim them for the time a send may take and record *)
(* the outcome afterwards. Nothing renews the lease, so a worker that      *)
(* stalls, or that dies after the send, leaves the message to be sent      *)
(* again.                                                                  *)
(***************************************************************************)
EXTENDS Naturals

CONSTANTS
    Message,       \* rows of notification_outbox
    None,          \* no message
    Sender,        \* notification workers
    MaxAttempts    \* notification_outbox.max_attempts

AttemptsAssumption == MaxAttempts \in Nat \ {0}

Rows == INSTANCE JobRows

VARIABLES
    outbox,   \* rows of notification_outbox
    sent,     \* how often the mail server accepted each message
    worker    \* what each worker is doing

vars == <<outbox, sent, worker>>

Off == [message |-> None, attempt |-> 0, phase |-> "idle"]

Init ==
    /\ outbox = [m \in Message |-> Rows!NoJob]
    /\ sent = [m \in Message |-> 0]
    /\ worker = [w \in Sender |-> Off]

(* With the grant, invitation, acceptance or mention it tells of. *)
Enqueue(m) ==
    /\ outbox[m] = Rows!NoJob
    /\ outbox' = [outbox EXCEPT ![m] = Rows!QueuedJob]
    /\ UNCHANGED <<sent, worker>>

Recover == [m \in Message |-> Rows!Recovered(outbox[m])]

ClaimNotificationJob(w) ==
    LET R == Recover
        C == {m \in Message : Rows!Claimable(R[m])}
    IN
    /\ worker[w] = Off
    /\ \/ C = {} /\ R # outbox /\ outbox' = R /\ UNCHANGED worker
       \/ \E m \in C :
            /\ outbox' = [R EXCEPT ![m] = Rows!Claimed(R[m])]
            /\ worker' = [worker EXCEPT ![w] =
                   [message |-> m, attempt |-> R[m].attempts + 1, phase |-> "sending"]]
    /\ UNCHANGED sent

Goes(w, phase) ==
    worker' = [worker EXCEPT ![w] =
        [message |-> worker[w].message, attempt |-> worker[w].attempt, phase |-> phase]]

(* The server takes the message; the worker may be told otherwise, by a    *)
(* timeout or a broken connection.                                         *)
Send(w) ==
    /\ worker[w].phase = "sending"
    /\ \/ /\ sent' = [sent EXCEPT ![worker[w].message] = @ + 1]
          /\ \E p \in {"sent", "failing"} : Goes(w, p)
       \/ /\ Goes(w, "failing")
          /\ UNCHANGED sent
    /\ UNCHANGED outbox

\* Faulty: the row is marked before the send has ended.
InHand(w) == worker[w].phase \in {"sending", "sent"}

Confirmed(w) == worker[w].phase = "sent"

CompleteNotificationJob(w) ==
    LET m == worker[w].message IN
    /\ Confirmed(w)
    /\ worker' = [worker EXCEPT ![w] = Off]
    /\ outbox' = IF Rows!Holds(outbox[m], worker[w].attempt)
                 THEN [outbox EXCEPT ![m] = Rows!Ended(@, "delivered")] ELSE outbox
    /\ UNCHANGED sent

FailNotificationJob(w) ==
    LET m == worker[w].message IN
    /\ worker[w].phase = "failing"
    /\ worker' = [worker EXCEPT ![w] = Off]
    /\ outbox' = IF Rows!Holds(outbox[m], worker[w].attempt)
                 THEN [outbox EXCEPT ![m] = Rows!GivenBack(@)] ELSE outbox
    /\ UNCHANGED sent

LeaseLapses(m) ==
    /\ outbox[m].status = "processing" /\ outbox[m].lease
    /\ outbox' = [outbox EXCEPT ![m] = Rows!LeaseLost(@)]
    /\ UNCHANGED <<sent, worker>>

WorkerDies(w) ==
    /\ worker[w] # Off
    /\ worker' = [worker EXCEPT ![w] = Off]
    /\ UNCHANGED <<outbox, sent>>

Work(w) ==
    \/ ClaimNotificationJob(w) \/ Send(w)
    \/ CompleteNotificationJob(w) \/ FailNotificationJob(w)

Next ==
    \/ \E m \in Message : Enqueue(m) \/ LeaseLapses(m)
    \/ \E w \in Sender :
        \/ ClaimNotificationJob(w) \/ Send(w)
        \/ CompleteNotificationJob(w) \/ FailNotificationJob(w) \/ WorkerDies(w)

Spec == Init /\ [][Next]_vars

Unattended(m) ==
    ~\E w \in Sender : worker[w].message = m /\ worker[w].attempt = outbox[m].attempts
Fairness ==
    /\ \A w \in Sender : WF_vars(Work(w))
    /\ \A m \in Message : WF_vars(Unattended(m) /\ LeaseLapses(m))

FairSpec == Spec /\ Fairness

-----------------------------------------------------------------------------
TypeOK ==
    /\ outbox \in [Message -> Rows!JobRow({"delivered"})]
    /\ sent \in [Message -> 0..MaxAttempts]
    /\ \A w \in Sender : worker[w].phase \in {"idle", "sending", "sent", "failing"}

\* A message marked delivered was taken by the mail server.
DeliveredWasSent == \A m \in Message : outbox[m].status = "delivered" => sent[m] > 0

\* Sending again is bounded by the attempts claimed, whatever leases lapse
\* while a worker is still sending: no attempt reaches the server twice.
SendsAreAttempts ==
    \A m \in Message :
        sent[m] + (IF \E w \in Sender :
                        /\ worker[w].message = m /\ worker[w].phase = "sending"
                        /\ worker[w].attempt = outbox[m].attempts
                   THEN 1 ELSE 0) <= outbox[m].attempts

\* No late worker takes a recorded delivery back.
DeliveredStaysDelivered ==
    [][\A m \in Message : outbox[m].status = "delivered" => outbox'[m] = outbox[m]]_vars

\* Every message ends delivered or given up, once, after at most MaxAttempts
\* attempts: what the job table promises. (When it is given up is Outbox's own.)
OutboxStatus(s) == IF s = "delivered" THEN "done" ELSE s
Jobs == INSTANCE JobLease WITH
    Job <- Message,
    status <- [m \in Message |-> OutboxStatus(outbox[m].status)],
    attempts <- [m \in Message |-> outbox[m].attempts]
MessagesAreLeasedJobs == Jobs!Spec
=============================================================================
