------------------------------- MODULE Outbox -------------------------------
(***************************************************************************)
(* Delivery of the notifications table into Telegram (worker/outbox.go).   *)
(*                                                                         *)
(* The single worker reads a batch of due rows - the row locks of its      *)
(* FOR UPDATE SKIP LOCKED end with that statement - and then takes the     *)
(* rows one by one: it calls Telegram and afterwards records the outcome   *)
(* in a statement of its own. Telegram may accept a message and lose the   *)
(* answer, a statement may fail, and the process may stop and start again  *)
(* between any two steps.                                                  *)
(***************************************************************************)
EXTENDS Naturals, Sequences, SequencesExt

CONSTANTS
  Message,        \* the rows that may ever be queued
  Unrenderable,   \* rows whose payload carries no text
  BatchSize,      \* batchSize: rows claimed in one pass
  MaxAttempts,    \* notify.MaxAttempts: the retry budget
  MaxFaults       \* bound on failed statements and process stops

ASSUME UnrenderableAssumption == Unrenderable \subseteq Message
ASSUME BatchAssumption == BatchSize \in Nat \ {0}
ASSUME BudgetAssumption == MaxAttempts \in Nat \ {0} /\ MaxFaults \in Nat

VARIABLES
  \* notifications: status and attempts of each row
  row, attempts,
  \* the rows whose next_attempt_at has passed, in the order it passed
  ripe,
  \* what Tick has claimed and not delivered yet, and the outcome of the call
  \* about the first of them
  batch, outcome,
  \* history: calls that offered a message to Telegram, calls it accepted, calls
  \* whose outcome never reached the table, and faults so far
  sends, delivered, unrecorded, faults

tableVars == <<row, attempts, ripe>>
workerVars == <<batch, outcome>>
historyVars == <<sends, delivered, unrecorded, faults>>
outboxVars == <<tableVars, workerVars, historyVars>>

RowState == {"unqueued", "pending", "sent", "failed"}
Outcome == {"none", "accepted", "error"}
Claim == [message : Message, attempts : Nat]

Init ==
  /\ row = [m \in Message |-> "unqueued"]
  /\ attempts = [m \in Message |-> 0]
  /\ ripe = <<>>
  /\ batch = <<>> /\ outcome = "none"
  /\ sends = [m \in Message |-> 0] /\ delivered = [m \in Message |-> 0]
  /\ unrecorded = [m \in Message |-> 0] /\ faults = 0

-----------------------------------------------------------------------------
(* The table.                                                              *)

\* A transition or a link queues a message, to be sent at once.
EnqueueMessage(m) ==
  /\ row[m] = "unqueued"
  /\ row' = [row EXCEPT ![m] = "pending"]
  /\ ripe' = Append(ripe, m)
  /\ UNCHANGED <<attempts, workerVars, historyVars>>

\* next_attempt_at of a row that waits for its retry passes.
Ripen(m) ==
  /\ row[m] = "pending"
  /\ ~Contains(ripe, m)
  /\ ripe' = Append(ripe, m)
  /\ UNCHANGED <<row, attempts, workerVars, historyVars>>

\* Fault (mutation run): a row is due whatever became of it.
DueWhateverStatus == DOMAIN ripe

\* Fault (mutation run): a row that failed once is never read again.
DueUntried == {i \in DOMAIN ripe : row[ripe[i]] = "pending" /\ attempts[ripe[i]] = 0}

\* WHERE status = 'pending' AND next_attempt_at <= now, as places in `ripe`.
Due == {i \in DOMAIN ripe : row[ripe[i]] = "pending"}

-----------------------------------------------------------------------------
(* The worker.                                                             *)

\* The places of the first due rows, in order: ORDER BY next_attempt_at LIMIT batchSize.
FirstDue(n, first) ==
  /\ \A i, j \in 1..n : i < j => first[i] < first[j]
  /\ \A k \in Due : (\E i \in 1..n : first[i] = k) \/ (n = BatchSize /\ first[n] < k)

\* ClaimDue: the rows are read, nothing is written.
ClaimDue ==
  /\ batch = <<>>
  /\ \E n \in 1..BatchSize : \E first \in [1..n -> Due] :
       /\ FirstDue(n, first)
       /\ batch' = [i \in 1..n |-> [message |-> ripe[first[i]], attempts |-> attempts[ripe[first[i]]]]]
  /\ UNCHANGED <<tableVars, outcome, historyVars>>

\* SendMessage: Telegram accepts the message or not; its answer may get lost.
Send ==
  LET m == batch[1].message
  IN /\ batch # <<>> /\ outcome = "none"
     /\ m \notin Unrenderable
     /\ sends' = [sends EXCEPT ![m] = @ + 1]
     /\ \/ outcome' = "accepted" /\ delivered' = [delivered EXCEPT ![m] = @ + 1]
        \/ outcome' = "error" /\ delivered' \in {delivered, [delivered EXCEPT ![m] = @ + 1]}
     /\ UNCHANGED <<tableVars, batch, unrecorded, faults>>

\* NextAttemptAt: is a retry left after n failures?
RetryLeft(n) == 1 <= n /\ n < MaxAttempts

\* The worker has an outcome to record about the first row of its batch.
Answered ==
  /\ batch # <<>>
  /\ outcome # "none" \/ batch[1].message \in Unrenderable

\* Fault (mutation run): a message that failed to send is not taken off the schedule
\* and its attempt is not counted.
RecordUncounted ==
  LET m == batch[1].message
      n == batch[1].attempts + 1
      outOfTries == m \in Unrenderable \/ (outcome = "error" /\ ~RetryLeft(n))
  IN /\ Answered
     /\ row' = [row EXCEPT ![m] = IF outOfTries THEN "failed"
                                  ELSE IF outcome = "accepted" THEN "sent" ELSE @]
     /\ UNCHANGED <<attempts, ripe, historyVars>>
     /\ batch' = Tail(batch) /\ outcome' = "none"

\* Fault (mutation run): the row is marked without a look at the answer.
RecordUnread ==
  LET m == batch[1].message
  IN /\ Answered
     /\ attempts' = [attempts EXCEPT ![m] = @ + 1]
     /\ row' = [row EXCEPT ![m] = IF m \in Unrenderable THEN "failed" ELSE "sent"]
     /\ batch' = Tail(batch) /\ outcome' = "none"
     /\ UNCHANGED <<ripe, historyVars>>

\* MarkSent, MarkRetry or MarkFailed. The attempts decided on are those claimed;
\* the statement increments the column, which only MarkRetry schedules again.
Record ==
  LET m == batch[1].message
      n == batch[1].attempts + 1
  IN /\ Answered
     /\ attempts' = [attempts EXCEPT ![m] = @ + 1]
     /\ \/ /\ outcome = "accepted"
           /\ row' = [row EXCEPT ![m] = "sent"]
           /\ UNCHANGED ripe
        \/ /\ outcome = "error" /\ RetryLeft(n)
           /\ \E i \in DOMAIN ripe : ripe[i] = m /\ ripe' = RemoveAt(ripe, i)
           /\ UNCHANGED row
        \/ /\ (outcome = "error" /\ ~RetryLeft(n)) \/ m \in Unrenderable
           /\ row' = [row EXCEPT ![m] = "failed"]
           /\ UNCHANGED ripe
     /\ batch' = Tail(batch) /\ outcome' = "none"
     /\ UNCHANGED historyVars

\* The outcome of the call at hand, if there is one, is known to nobody any more.
Forget ==
  /\ faults < MaxFaults
  /\ faults' = faults + 1
  /\ unrecorded' = IF outcome = "none" THEN unrecorded
                   ELSE [unrecorded EXCEPT ![batch[1].message] = @ + 1]
  /\ outcome' = "none"
  /\ UNCHANGED <<tableVars, sends, delivered>>

\* The statement fails: it is logged, and the pass goes on with the next row.
RecordFails == Answered /\ Forget /\ batch' = Tail(batch)

\* The process stops and starts again. A graceful shutdown does the same: it cancels
\* the context of the pass, and with it of the statement that would record the send.
Stop == batch # <<>> /\ Forget /\ batch' = <<>>

Deliver == ClaimDue \/ Send \/ Record

Next ==
  \/ \E m \in Message : EnqueueMessage(m) \/ Ripen(m)
  \/ Deliver
  \/ RecordFails \/ Stop

Spec == Init /\ [][Next]_outboxVars

\* The worker ticks for as long as the process runs and the clock advances.
OutboxFairness == WF_outboxVars(Deliver) /\ \A m \in Message : WF_outboxVars(Ripen(m))

-----------------------------------------------------------------------------
(* Properties.                                                             *)

TypeOK ==
  /\ row \in [Message -> RowState]
  /\ attempts \in [Message -> 0..MaxAttempts]
  /\ ripe \in Seq(Message) /\ IsInjective(ripe)
  /\ batch \in Seq(Claim)
  /\ outcome \in Outcome
  /\ sends \in [Message -> Nat] /\ delivered \in [Message -> Nat]
  /\ unrecorded \in [Message -> Nat]
  /\ faults \in 0..MaxFaults

\* "Maximum 5 attempts" (tech.md 5.5): Telegram is offered a message at most as often
\* as the budget allows, plus once for every outcome that never reached the table,
\* and a row is parked as failed only when its whole budget was spent.
BudgetKept ==
  \A m \in Message \ Unrenderable :
    /\ sends[m] <= MaxAttempts + unrecorded[m]
    /\ row[m] = "failed" => sends[m] >= MaxAttempts

\* A message is reported as sent only if Telegram has it, and one it refused every
\* time is never reported as sent: crashes and lost statements between the call and
\* the record lose no message.
SentIsDelivered ==
  \A m \in Message : row[m] = "sent" => delivered[m] >= 1

\* "A row that was already sent is no longer pending, so it is never claimed again"
\* (Tick), and neither is one that was parked: once settled, a message is not offered
\* to Telegram any more.
SettledStaysSettled ==
  [][\A m \in Message :
       row[m] \in {"sent", "failed"} => sends'[m] = sends[m] /\ row'[m] = row[m]]_outboxVars

\* Every queued message is sent or parked in the end: no row waits behind another that
\* keeps failing, and no retry is left without a date.
EverySettled ==
  \A m \in Message : row[m] = "pending" ~> row[m] \in {"sent", "failed"}
=============================================================================
