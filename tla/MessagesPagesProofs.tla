------------------------- MODULE MessagesPagesProofs -------------------------
(***************************************************************************)
(* Theorems about how people are told what the shop knows.                 *)
(*                                                                         *)
(* Messages, for any number of them, any batch size, any budget and any    *)
(* number of faults. The argument is a ledger of calls: every call that    *)
(* offered a message is an attempt the table knows of, an outcome that got *)
(* lost or the call at hand (Accounted). It rests on what a batch still    *)
(* says about the table when its rows are reached, although no lock keeps  *)
(* it true (Claimed).                                                      *)
(*                                                                         *)
(* Pages, for any number of tabs, sizes, orders and pages: what an open    *)
(* page offers is honoured unless something it was drawn from has changed, *)
(* and a walk through the order list misses no order.                      *)
(***************************************************************************)
EXTENDS Outbox, Pages, OrderBook, FiniteSetTheorems, TLAPS

-----------------------------------------------------------------------------
(* The delivery of the messages: the inductive invariant.                  *)

\* What was read by ClaimDue is still so: a single worker writes the rows it claimed.
Claimed ==
  /\ \A i \in DOMAIN batch :
       /\ row[batch[i].message] = "pending"
       /\ batch[i].attempts = attempts[batch[i].message]
       /\ \E k \in DOMAIN ripe : ripe[k] = batch[i].message
  /\ \A i, j \in DOMAIN batch : batch[i].message = batch[j].message => i = j

\* The call at hand is about the first row of the batch.
AtHand ==
  /\ outcome # "none" => batch # <<>> /\ batch[1].message \notin Unrenderable
  /\ outcome = "accepted" => delivered[batch[1].message] >= 1

\* A row is scheduled only once it is queued, and has tries left while it is not settled.
Scheduled ==
  \A m \in Message :
    /\ row[m] = "unqueued" => \A k \in DOMAIN ripe : ripe[k] # m
    /\ row[m] \in {"unqueued", "pending"} => attempts[m] < MaxAttempts

\* Calls made are attempts recorded, outcomes lost and the call at hand.
Calls(m) == IF outcome # "none" /\ batch[1].message = m THEN 1 ELSE 0
Accounted ==
  \A m \in Message \ Unrenderable :
    /\ sends[m] = attempts[m] + unrecorded[m] + Calls(m)
    /\ row[m] = "failed" => attempts[m] >= MaxAttempts

Delivery == TypeOK /\ Claimed /\ AtHand /\ Scheduled /\ Accounted /\ SentIsDelivered

-----------------------------------------------------------------------------
(* Facts about sequences.                                                  *)

LEMMA Appended ==
  ASSUME NEW S, NEW s \in Seq(S), IsInjective(s), NEW x \in S,
         \A k \in DOMAIN s : s[k] # x
  PROVE  LET t == Append(s, x) IN
           /\ t \in Seq(S) /\ IsInjective(t)
           /\ \A k \in DOMAIN s : k \in DOMAIN t /\ t[k] = s[k]
           /\ \A k \in DOMAIN t : t[k] = x \/ \E j \in DOMAIN s : t[k] = s[j]
<1> DEFINE t == Append(s, x)
<1>1. t \in Seq(S) /\ Len(t) = Len(s) + 1 /\ DOMAIN s = 1..Len(s) /\ DOMAIN t = 1..Len(t)
  OBVIOUS
<1>2. \A k \in DOMAIN t : t[k] = IF k = Len(s) + 1 THEN x ELSE s[k]
  OBVIOUS
<1>3. IsInjective(t)
  BY <1>1, <1>2 DEF IsInjective
<1> QED
  BY <1>1, <1>2, <1>3

LEMMA Removed ==
  ASSUME NEW S, NEW s \in Seq(S), IsInjective(s), NEW i \in DOMAIN s
  PROVE  LET t == RemoveAt(s, i) IN
           /\ t \in Seq(S) /\ IsInjective(t)
           /\ \A k \in DOMAIN s : k # i => \E j \in DOMAIN t : t[j] = s[k]
           /\ \A j \in DOMAIN t : \E k \in DOMAIN s : t[j] = s[k]
<1> DEFINE t == RemoveAt(s, i)
           left == SubSeq(s, 1, i - 1)
           right == SubSeq(s, i + 1, Len(s))
<1>1. i \in 1..Len(s) /\ DOMAIN s = 1..Len(s) /\ Len(s) \in Nat
  OBVIOUS
<1>2. left \in Seq(S) /\ Len(left) = i - 1 /\ \A k \in 1..(i - 1) : left[k] = s[k]
  BY <1>1
<1>3. /\ right \in Seq(S) /\ Len(right) = Len(s) - i
      /\ \A k \in 1..(Len(s) - i) : right[k] = s[k + i]
  BY <1>1
<1>4. t = left \o right
  BY DEF RemoveAt
<1>5. t \in Seq(S) /\ Len(t) = Len(s) - 1 /\ DOMAIN t = 1..(Len(s) - 1)
  BY <1>1, <1>2, <1>3, <1>4
<1>6. \A k \in 1..(Len(s) - 1) : t[k] = IF k < i THEN s[k] ELSE s[k + 1]
  <2> SUFFICES ASSUME NEW k \in 1..(Len(s) - 1)
               PROVE  t[k] = IF k < i THEN s[k] ELSE s[k + 1]
    OBVIOUS
  <2> HIDE DEF left, right
  <2>1. t[k] = IF k <= Len(left) THEN left[k] ELSE right[k - Len(left)]
    BY <1>1, <1>2, <1>3, <1>4
  <2>2. CASE k < i
    BY <1>1, <1>2, <2>1, <2>2
  <2>3. CASE k >= i
    <3>1. k - Len(left) = k - i + 1 /\ k - i + 1 \in 1..(Len(s) - i) /\ ~(k <= Len(left))
      BY <1>1, <1>2, <2>3
    <3>2. right[k - i + 1] = s[(k - i + 1) + i] /\ (k - i + 1) + i = k + 1
      BY <1>1, <1>3, <3>1
    <3> QED
      BY <2>1, <2>3, <3>1, <3>2, <1>1
  <2> QED
    BY <1>1, <2>2, <2>3
<1>7. IsInjective(t)
  <2> DEFINE old(k) == IF k < i THEN k ELSE k + 1
  <2> SUFFICES ASSUME NEW a \in 1..(Len(s) - 1), NEW b \in 1..(Len(s) - 1), t[a] = t[b]
               PROVE  a = b
    BY <1>5 DEF IsInjective
  <2> HIDE DEF t
  <2>1. old(a) \in DOMAIN s /\ old(b) \in DOMAIN s /\ s[old(a)] = s[old(b)]
    BY <1>1, <1>6
  <2>2. old(a) = old(b)
    BY <2>1 DEF IsInjective
  <2> QED
    BY <1>1, <2>2
<1>8. ASSUME NEW k \in DOMAIN s, k # i PROVE \E j \in DOMAIN t : t[j] = s[k]
  <2>1. CASE k < i
    BY <1>1, <1>5, <1>6, <2>1
  <2>2. CASE k > i
    <3>1. k - 1 \in DOMAIN t /\ t[k - 1] = s[k]
      BY <1>1, <1>5, <1>6, <2>2
    <3> QED
      BY <3>1
  <2> QED
    BY <1>1, <1>8, <2>1, <2>2
<1>9. ASSUME NEW j \in DOMAIN t PROVE \E k \in DOMAIN s : t[j] = s[k]
  <2>1. j \in 1..(Len(s) - 1) /\ j \in 1..Len(s) /\ j + 1 \in 1..Len(s)
    BY <1>1, <1>5
  <2> QED
    BY <1>1, <1>6, <2>1
<1> QED
  BY <1>5, <1>7, <1>8, <1>9

LEMMA ElementOf ==
  ASSUME NEW S, NEW s \in Seq(S), NEW i \in DOMAIN s
  PROVE  s[i] \in S /\ i \in Nat
OBVIOUS

LEMMA TailOf ==
  ASSUME NEW S, NEW s \in Seq(S), s # <<>>
  PROVE  /\ 1 \in DOMAIN s /\ s[1] \in S /\ Tail(s) \in Seq(S)
         /\ \A i \in DOMAIN Tail(s) : i + 1 \in DOMAIN s /\ i + 1 # 1 /\ Tail(s)[i] = s[i + 1]
OBVIOUS

-----------------------------------------------------------------------------
(* Each step preserves the invariant.                                      *)

LEMMA InitDelivery == Init => Delivery
<1> SUFFICES ASSUME Init PROVE Delivery
  OBVIOUS
<1>1. TypeOK
  <2>1. <<>> \in Seq(Message) /\ <<>> \in Seq(Claim) /\ IsInjective(<<>>)
    BY DEF IsInjective
  <2> QED
    BY <2>1, BudgetAssumption DEF Init, TypeOK, RowState, Outcome
<1>2. Claimed /\ AtHand /\ Scheduled /\ Accounted /\ SentIsDelivered
  BY BudgetAssumption, UnrenderableAssumption
     DEF Init, Claimed, AtHand, Scheduled, Accounted, Calls, SentIsDelivered
<1> QED
  BY <1>1, <1>2 DEF Delivery

LEMMA EnqueueDelivery ==
  ASSUME Delivery, NEW m \in Message, EnqueueMessage(m)
  PROVE  Delivery'
<1> USE DEF Delivery
<1>1. \A k \in DOMAIN ripe : ripe[k] # m
  BY DEF EnqueueMessage, Scheduled
<1>2. /\ ripe' \in Seq(Message) /\ IsInjective(ripe')
      /\ \A k \in DOMAIN ripe : k \in DOMAIN ripe' /\ ripe'[k] = ripe[k]
      /\ \A k \in DOMAIN ripe' : ripe'[k] = m \/ \E j \in DOMAIN ripe : ripe'[k] = ripe[j]
  BY <1>1, Appended DEF EnqueueMessage, TypeOK
<1>3. TypeOK'
  BY <1>2 DEF TypeOK, EnqueueMessage, workerVars, historyVars, RowState
<1>4. \A i \in DOMAIN batch : batch[i].message # m
  BY DEF Claimed, EnqueueMessage
<1>5. Claimed'
  <2>1. /\ batch' = batch /\ attempts' = attempts
        /\ \A x \in Message : x # m => row'[x] = row[x]
    BY DEF EnqueueMessage, workerVars, TypeOK
  <2>2. \A i \in DOMAIN batch : batch[i].message \in Message
    <3>1. \A i \in DOMAIN batch : batch[i] \in Claim
      BY ElementOf DEF TypeOK
    <3> QED
      BY <3>1 DEF Claim
  <2> QED
    BY <1>2, <1>4, <2>1, <2>2 DEF Claimed
<1>6. AtHand'
  BY DEF AtHand, EnqueueMessage, workerVars, historyVars
<1>7. Scheduled'
  BY <1>2 DEF Scheduled, EnqueueMessage, TypeOK
<1>8. Accounted' /\ SentIsDelivered'
  BY DEF Accounted, Calls, SentIsDelivered, EnqueueMessage, workerVars, historyVars, TypeOK
<1> QED
  BY <1>3, <1>5, <1>6, <1>7, <1>8

LEMMA RipenDelivery ==
  ASSUME Delivery, NEW m \in Message, Ripen(m)
  PROVE  Delivery'
<1> USE DEF Delivery
<1>1. \A k \in DOMAIN ripe : ripe[k] # m
  BY DEF Ripen, Contains, TypeOK
<1>2. /\ ripe' \in Seq(Message) /\ IsInjective(ripe')
      /\ \A k \in DOMAIN ripe : k \in DOMAIN ripe' /\ ripe'[k] = ripe[k]
      /\ \A k \in DOMAIN ripe' : ripe'[k] = m \/ \E j \in DOMAIN ripe : ripe'[k] = ripe[j]
  BY <1>1, Appended DEF Ripen, TypeOK
<1>3. TypeOK'
  BY <1>2 DEF TypeOK, Ripen, workerVars, historyVars
<1>4. Claimed'
  BY <1>2 DEF Claimed, Ripen, workerVars
<1>5. AtHand'
  BY DEF AtHand, Ripen, workerVars, historyVars
<1>6. Scheduled'
  BY <1>2 DEF Scheduled, Ripen
<1>7. Accounted' /\ SentIsDelivered'
  BY DEF Accounted, Calls, SentIsDelivered, Ripen, workerVars, historyVars
<1> QED
  BY <1>3, <1>4, <1>5, <1>6, <1>7

LEMMA ClaimDelivery ==
  ASSUME Delivery, ClaimDue
  PROVE  Delivery'
<1> USE DEF Delivery
<1>1. PICK n \in 1..BatchSize : \E first \in [1..n -> Due] :
        /\ FirstDue(n, first)
        /\ batch' = [i \in 1..n |-> [message |-> ripe[first[i]], attempts |-> attempts[ripe[first[i]]]]]
  BY DEF ClaimDue
<1>2. PICK first \in [1..n -> Due] :
        /\ FirstDue(n, first)
        /\ batch' = [i \in 1..n |-> [message |-> ripe[first[i]], attempts |-> attempts[ripe[first[i]]]]]
  BY <1>1
<1>3. n \in Nat /\ DOMAIN batch' = 1..n
  BY <1>2, BatchAssumption
<1>4. ASSUME NEW i \in 1..n
      PROVE  /\ first[i] \in DOMAIN ripe /\ first[i] \in Nat /\ ripe[first[i]] \in Message
             /\ row[ripe[first[i]]] = "pending" /\ attempts[ripe[first[i]]] \in Nat
             /\ batch'[i] = [message |-> ripe[first[i]], attempts |-> attempts[ripe[first[i]]]]
             /\ batch'[i].message = ripe[first[i]]
  <2>1. first[i] \in DOMAIN ripe /\ row[ripe[first[i]]] = "pending"
    BY <1>2 DEF Due
  <2>2. ripe[first[i]] \in Message /\ first[i] \in Nat
    BY <2>1, ElementOf DEF TypeOK
  <2> QED
    BY <1>2, <2>1, <2>2 DEF TypeOK
<1>5. batch' \in Seq(Claim)
  <2>1. batch' \in [1..n -> Claim]
    BY <1>2, <1>4 DEF Claim
  <2> QED
    BY <1>3, <2>1
<1>6. TypeOK'
  BY <1>5 DEF TypeOK, ClaimDue, tableVars, historyVars
<1>7. ASSUME NEW i \in 1..n, NEW j \in 1..n, batch'[i].message = batch'[j].message
      PROVE  i = j
  <2>1. first[i] = first[j]
    <3>1. ripe[first[i]] = ripe[first[j]] /\ first[i] \in DOMAIN ripe /\ first[j] \in DOMAIN ripe
      BY <1>4, <1>7
    <3> QED
      BY <3>1 DEF TypeOK, IsInjective
  <2>2. i < j => first[i] < first[j]
    BY <1>2 DEF FirstDue
  <2>3. j < i => first[j] < first[i]
    BY <1>2 DEF FirstDue
  <2>4. first[i] \in Nat /\ first[j] \in Nat
    BY <1>4
  <2> QED
    BY <1>3, <2>1, <2>2, <2>3, <2>4
<1>8. Claimed'
  <2>1. UNCHANGED <<row, attempts, ripe>>
    BY DEF ClaimDue, tableVars
  <2>2. \A i \in DOMAIN batch' : /\ row[batch'[i].message] = "pending"
                                /\ batch'[i].attempts = attempts[batch'[i].message]
                                /\ \E k \in DOMAIN ripe : ripe[k] = batch'[i].message
    BY <1>3, <1>4
  <2> QED
    BY <1>3, <1>7, <2>1, <2>2 DEF Claimed
<1>9. outcome = "none" /\ UNCHANGED <<outcome, tableVars, historyVars>>
  BY DEF ClaimDue, AtHand
<1>10. AtHand' /\ Scheduled' /\ Accounted' /\ SentIsDelivered'
  BY <1>9 DEF AtHand, Scheduled, Accounted, Calls, SentIsDelivered, tableVars, historyVars
<1> QED
  BY <1>6, <1>8, <1>10

LEMMA SendDelivery ==
  ASSUME Delivery, Send
  PROVE  Delivery'
<1> DEFINE m == batch[1].message
<1> USE DEF Delivery
<1>1. batch # <<>> /\ 1 \in DOMAIN batch /\ m \in Message /\ m \notin Unrenderable
  <2>1. batch # <<>> /\ m \notin Unrenderable
    BY DEF Send
  <2>2. batch \in Seq(Claim)
    BY DEF TypeOK
  <2>3. 1 \in DOMAIN batch /\ batch[1] \in Claim
    BY <2>1, <2>2, TailOf
  <2> QED
    BY <2>1, <2>3 DEF Claim
<1>2. /\ outcome = "none" /\ outcome' \in {"accepted", "error"}
      /\ sends' = [sends EXCEPT ![m] = @ + 1]
      /\ delivered' \in {delivered, [delivered EXCEPT ![m] = @ + 1]}
      /\ outcome' = "accepted" => delivered' = [delivered EXCEPT ![m] = @ + 1]
      /\ UNCHANGED <<row, attempts, ripe, batch, unrecorded, faults>>
  BY DEF Send, tableVars
<1> HIDE DEF m
<1>3. /\ sends' \in [Message -> Nat] /\ delivered' \in [Message -> Nat]
      /\ \A x \in Message : delivered'[x] >= delivered[x]
      /\ \A x \in Message : sends'[x] = IF x = m THEN sends[x] + 1 ELSE sends[x]
      /\ outcome' = "accepted" => delivered'[m] >= 1
  <2>1. sends \in [Message -> Nat] /\ delivered \in [Message -> Nat]
    BY DEF TypeOK
  <2>2. /\ sends' \in [Message -> Nat]
        /\ \A x \in Message : sends'[x] = IF x = m THEN sends[x] + 1 ELSE sends[x]
    BY <1>1, <1>2, <2>1
  <2>3. /\ delivered' \in [Message -> Nat]
        /\ \A x \in Message : delivered'[x] >= delivered[x]
    <3>1. CASE delivered' = delivered
      BY <2>1, <3>1
    <3>2. CASE delivered' = [delivered EXCEPT ![m] = @ + 1]
      BY <1>1, <2>1, <3>2
    <3> QED
      BY <1>2, <3>1, <3>2
  <2>4. outcome' = "accepted" => delivered'[m] >= 1
    BY <1>1, <1>2, <2>1
  <2> QED
    BY <2>2, <2>3, <2>4
<1>4. TypeOK'
  BY <1>2, <1>3 DEF TypeOK, Outcome
<1>5. Claimed' /\ Scheduled'
  BY <1>2 DEF Claimed, Scheduled
<1>6. AtHand'
  BY <1>1, <1>2, <1>3 DEF AtHand, m
<1>7. Accounted'
  <2> SUFFICES ASSUME NEW x \in Message \ Unrenderable
               PROVE  /\ sends'[x] = attempts[x] + unrecorded[x] + Calls(x)'
                      /\ row[x] = "failed" => attempts[x] >= MaxAttempts
    BY <1>2 DEF Accounted
  <2>1. /\ sends[x] = attempts[x] + unrecorded[x] + Calls(x)
        /\ row[x] = "failed" => attempts[x] >= MaxAttempts
    BY DEF Accounted
  <2>2. Calls(x) = 0 /\ Calls(x)' = IF x = m THEN 1 ELSE 0
    BY <1>2 DEF Calls, m
  <2>3. sends'[x] = IF x = m THEN sends[x] + 1 ELSE sends[x]
    BY <1>3
  <2>4. attempts[x] \in Nat /\ unrecorded[x] \in Nat
    BY BudgetAssumption DEF TypeOK
  <2> QED
    BY <2>1, <2>2, <2>3, <2>4
<1>8. SentIsDelivered'
  BY <1>2, <1>3 DEF SentIsDelivered, TypeOK
<1> QED
  BY <1>4, <1>5, <1>6, <1>7, <1>8

\* What is left of a batch once its first row is dealt with: other rows.
LEMMA DroppedFirst ==
  ASSUME TypeOK, Claimed, batch # <<>>
  PROVE  LET m == batch[1].message IN
           /\ 1 \in DOMAIN batch /\ m \in Message /\ batch[1].attempts = attempts[m]
           /\ row[m] = "pending" /\ Tail(batch) \in Seq(Claim)
           /\ \A i \in DOMAIN Tail(batch) :
                /\ i + 1 \in DOMAIN batch /\ Tail(batch)[i] = batch[i + 1]
                /\ batch[i + 1].message \in Message \ {m}
           /\ \A i, j \in DOMAIN Tail(batch) :
                Tail(batch)[i].message = Tail(batch)[j].message => i = j
<1>1. batch \in Seq(Claim)
  BY DEF TypeOK
<1>2. /\ 1 \in DOMAIN batch /\ batch[1] \in Claim /\ Tail(batch) \in Seq(Claim)
      /\ \A i \in DOMAIN Tail(batch) :
           i + 1 \in DOMAIN batch /\ i + 1 # 1 /\ Tail(batch)[i] = batch[i + 1]
  BY <1>1, TailOf
<1>3. ASSUME NEW i \in DOMAIN Tail(batch)
      PROVE  batch[i + 1].message \in Message \ {batch[1].message} /\ i \in Nat
  <2>1. batch[i + 1] \in Claim
    BY <1>1, <1>2, ElementOf
  <2>2. batch[i + 1].message # batch[1].message
    BY <1>2 DEF Claimed
  <2>3. i \in Nat
    BY <1>2, ElementOf
  <2> QED
    BY <2>1, <2>2, <2>3 DEF Claim
<1>4. ASSUME NEW i \in DOMAIN Tail(batch), NEW j \in DOMAIN Tail(batch),
             Tail(batch)[i].message = Tail(batch)[j].message
      PROVE  i = j
  <2>1. i + 1 = j + 1
    BY <1>2, <1>4 DEF Claimed
  <2> QED
    BY <1>3, <2>1
<1> QED
  BY <1>2, <1>3, <1>4 DEF Claimed, Claim

LEMMA RecordDelivery ==
  ASSUME Delivery, Record
  PROVE  Delivery'
<1> DEFINE m == batch[1].message
<1> USE DEF Delivery
<1>1. /\ 1 \in DOMAIN batch /\ m \in Message /\ batch[1].attempts = attempts[m]
      /\ row[m] = "pending" /\ Tail(batch) \in Seq(Claim)
      /\ \A i \in DOMAIN Tail(batch) :
           /\ i + 1 \in DOMAIN batch /\ Tail(batch)[i] = batch[i + 1]
           /\ batch[i + 1].message \in Message \ {m}
      /\ \A i, j \in DOMAIN Tail(batch) :
           Tail(batch)[i].message = Tail(batch)[j].message => i = j
  BY DroppedFirst DEF Record, Answered
<1>2. /\ attempts' = [attempts EXCEPT ![m] = @ + 1]
      /\ batch' = Tail(batch) /\ outcome' = "none"
      /\ UNCHANGED <<sends, delivered, unrecorded, faults>>
  BY DEF Record, historyVars
<1>3. /\ \/ outcome = "accepted" /\ row' = [row EXCEPT ![m] = "sent"] /\ UNCHANGED ripe
         \/ /\ outcome = "error" /\ RetryLeft(attempts[m] + 1) /\ UNCHANGED row
            /\ \E i \in DOMAIN ripe : ripe[i] = m /\ ripe' = RemoveAt(ripe, i)
         \/ /\ (outcome = "error" /\ ~RetryLeft(attempts[m] + 1)) \/ m \in Unrenderable
            /\ row' = [row EXCEPT ![m] = "failed"] /\ UNCHANGED ripe
      /\ outcome # "none" \/ m \in Unrenderable
  BY <1>1 DEF Record, Answered
<1>4. attempts[m] \in Nat /\ attempts[m] < MaxAttempts /\ MaxAttempts \in Nat
  BY <1>1, BudgetAssumption DEF TypeOK, Scheduled
<1>5. /\ attempts' \in [Message -> 0..MaxAttempts]
      /\ \A x \in Message : attempts'[x] = IF x = m THEN attempts[m] + 1 ELSE attempts[x]
  <2>1. attempts \in [Message -> 0..MaxAttempts]
    BY DEF TypeOK
  <2>2. attempts[m] + 1 \in 0..MaxAttempts
    BY <1>4
  <2> QED
    BY <1>1, <1>2, <2>1, <2>2
<1>6. /\ row' \in [Message -> RowState]
      /\ \A x \in Message : x # m => row'[x] = row[x]
      /\ row'[m] \in {"sent", "pending", "failed"}
      /\ row'[m] = "sent" => outcome = "accepted"
      /\ row'[m] = "pending" => attempts[m] + 1 < MaxAttempts
      /\ row'[m] = "failed" => m \in Unrenderable \/ attempts[m] + 1 >= MaxAttempts
  <2>1. row \in [Message -> RowState]
    BY DEF TypeOK
  <2>2. CASE outcome = "accepted" /\ row' = [row EXCEPT ![m] = "sent"]
    BY <1>1, <2>1, <2>2 DEF RowState
  <2>3. CASE RetryLeft(attempts[m] + 1) /\ UNCHANGED row
    BY <1>1, <2>1, <2>3 DEF RowState, RetryLeft
  <2>4. CASE /\ (outcome = "error" /\ ~RetryLeft(attempts[m] + 1)) \/ m \in Unrenderable
             /\ row' = [row EXCEPT ![m] = "failed"]
    BY <1>1, <1>4, <2>1, <2>4 DEF RowState, RetryLeft
  <2> QED
    BY <1>3, <2>2, <2>3, <2>4
<1>7. /\ ripe' \in Seq(Message) /\ IsInjective(ripe')
      /\ \A k \in DOMAIN ripe : ripe[k] # m => \E j \in DOMAIN ripe' : ripe'[j] = ripe[k]
      /\ \A j \in DOMAIN ripe' : \E k \in DOMAIN ripe : ripe'[j] = ripe[k]
  <2>1. ripe \in Seq(Message) /\ IsInjective(ripe)
    BY DEF TypeOK
  <2>2. CASE UNCHANGED ripe
    BY <2>1, <2>2
  <2>3. ASSUME NEW i \in DOMAIN ripe, ripe[i] = m, ripe' = RemoveAt(ripe, i)
        PROVE  /\ ripe' \in Seq(Message) /\ IsInjective(ripe')
               /\ \A k \in DOMAIN ripe : ripe[k] # m => \E j \in DOMAIN ripe' : ripe'[j] = ripe[k]
               /\ \A j \in DOMAIN ripe' : \E k \in DOMAIN ripe : ripe'[j] = ripe[k]
    <3>1. /\ ripe' \in Seq(Message) /\ IsInjective(ripe')
          /\ \A k \in DOMAIN ripe : k # i => \E j \in DOMAIN ripe' : ripe'[j] = ripe[k]
          /\ \A j \in DOMAIN ripe' : \E k \in DOMAIN ripe : ripe'[j] = ripe[k]
      BY <2>1, <2>3, Removed
    <3>2. \A k \in DOMAIN ripe : ripe[k] # m => k # i
      BY <2>3
    <3> QED
      BY <3>1, <3>2
  <2> QED
    BY <1>3, <2>2, <2>3
<1> HIDE DEF m
<1>8. TypeOK'
  BY <1>1, <1>2, <1>5, <1>6, <1>7 DEF TypeOK, Outcome
<1>9. Claimed'
  <2>1. ASSUME NEW i \in DOMAIN batch'
        PROVE  /\ row'[batch'[i].message] = "pending"
               /\ batch'[i].attempts = attempts'[batch'[i].message]
               /\ \E k \in DOMAIN ripe' : ripe'[k] = batch'[i].message
    <3>1. i + 1 \in DOMAIN batch /\ batch'[i] = batch[i + 1] /\ batch'[i].message \in Message \ {m}
      BY <1>1, <1>2
    <3>2. /\ row[batch'[i].message] = "pending"
          /\ batch'[i].attempts = attempts[batch'[i].message]
          /\ \E k \in DOMAIN ripe : ripe[k] = batch'[i].message
      BY <3>1 DEF Claimed
    <3> QED
      BY <1>5, <1>6, <1>7, <3>1, <3>2
  <2> QED
    BY <1>1, <1>2, <2>1 DEF Claimed
<1>10. AtHand'
  BY <1>2 DEF AtHand
<1>11. Scheduled'
  <2> SUFFICES ASSUME NEW x \in Message
               PROVE  /\ row'[x] = "unqueued" => \A k \in DOMAIN ripe' : ripe'[k] # x
                      /\ row'[x] \in {"unqueued", "pending"} => attempts'[x] < MaxAttempts
    BY DEF Scheduled
  <2>1. CASE x = m
    BY <1>5, <1>6, <2>1
  <2>2. CASE x # m
    BY <1>5, <1>6, <1>7, <2>2 DEF Scheduled
  <2> QED
    BY <2>1, <2>2
<1>12. Accounted'
  <2> SUFFICES ASSUME NEW x \in Message \ Unrenderable
               PROVE  /\ sends[x] = attempts'[x] + unrecorded[x] + Calls(x)'
                      /\ row'[x] = "failed" => attempts'[x] >= MaxAttempts
    BY <1>2 DEF Accounted
  <2>1. /\ sends[x] = attempts[x] + unrecorded[x] + Calls(x)
        /\ row[x] = "failed" => attempts[x] >= MaxAttempts
        /\ attempts[x] \in Nat /\ unrecorded[x] \in Nat
    BY BudgetAssumption DEF Accounted, TypeOK
  <2>2. Calls(x)' = 0 /\ Calls(x) = IF x = m THEN 1 ELSE 0
    BY <1>2, <1>3 DEF Calls, m
  <2>3. CASE x = m
    BY <1>5, <1>6, <2>1, <2>2, <2>3
  <2>4. CASE x # m
    BY <1>5, <1>6, <2>1, <2>2, <2>4
  <2> QED
    BY <2>3, <2>4
<1>13. SentIsDelivered'
  BY <1>2, <1>6 DEF SentIsDelivered, AtHand, m
<1> QED
  BY <1>8, <1>9, <1>10, <1>11, <1>12, <1>13

\* A failed statement or a stop: what is left of the batch is its tail, or nothing.
LEMMA ForgetDelivery ==
  ASSUME Delivery, RecordFails \/ Stop
  PROVE  Delivery'
<1> USE DEF Delivery
<1>1. /\ batch # <<>> /\ Forget
      /\ batch' = Tail(batch) \/ batch' = <<>>
  BY DEF RecordFails, Stop, Answered
<1>2. /\ faults' \in 0..MaxFaults /\ outcome' = "none"
      /\ UNCHANGED <<row, attempts, ripe, sends, delivered>>
  BY <1>1, BudgetAssumption DEF Forget, tableVars, TypeOK
<1>3. /\ unrecorded' \in [Message -> Nat]
      /\ \A x \in Message : unrecorded'[x] = unrecorded[x] + Calls(x)
  <2>1. CASE outcome = "none"
    BY <1>1, <2>1 DEF Forget, Calls, TypeOK
  <2>2. CASE outcome # "none"
    <3>1. unrecorded' = [unrecorded EXCEPT ![batch[1].message] = @ + 1]
      BY <1>1, <2>2 DEF Forget
    <3>2. unrecorded \in [Message -> Nat] /\ batch[1].message \in Message
      BY <1>1, DroppedFirst DEF TypeOK
    <3>3. \A x \in Message : Calls(x) = IF x = batch[1].message THEN 1 ELSE 0
      BY <2>2 DEF Calls
    <3> QED
      BY <3>1, <3>2, <3>3
  <2> QED
    BY <2>1, <2>2
<1>4. batch' \in Seq(Claim) /\ Claimed'
  <2>1. CASE batch' = <<>>
    BY <2>1 DEF Claimed
  <2>2. CASE batch' = Tail(batch)
    <3>1. /\ Tail(batch) \in Seq(Claim)
          /\ \A i \in DOMAIN Tail(batch) : i + 1 \in DOMAIN batch /\ Tail(batch)[i] = batch[i + 1]
          /\ \A i, j \in DOMAIN Tail(batch) :
               Tail(batch)[i].message = Tail(batch)[j].message => i = j
      BY <1>1, DroppedFirst
    <3> QED
      BY <1>2, <2>2, <3>1 DEF Claimed
  <2> QED
    BY <1>1, <2>1, <2>2
<1>5. TypeOK'
  BY <1>2, <1>3, <1>4 DEF TypeOK, Outcome
<1>6. AtHand' /\ Scheduled' /\ SentIsDelivered'
  BY <1>2 DEF AtHand, Scheduled, SentIsDelivered
<1>7. Accounted'
  <2> SUFFICES ASSUME NEW x \in Message \ Unrenderable
               PROVE  /\ sends[x] = attempts[x] + unrecorded'[x] + Calls(x)'
                      /\ row[x] = "failed" => attempts[x] >= MaxAttempts
    BY <1>2 DEF Accounted
  <2>1. /\ sends[x] = attempts[x] + unrecorded[x] + Calls(x)
        /\ row[x] = "failed" => attempts[x] >= MaxAttempts
        /\ attempts[x] \in Nat /\ unrecorded[x] \in Nat /\ Calls(x) \in Nat
    BY BudgetAssumption DEF Accounted, TypeOK, Calls
  <2>2. Calls(x)' = 0
    BY <1>2 DEF Calls
  <2> QED
    BY <1>3, <2>1, <2>2
<1> QED
  BY <1>4, <1>5, <1>6, <1>7

LEMMA DeliveryStep == Delivery /\ [Next]_outboxVars => Delivery'
<1> SUFFICES ASSUME Delivery, [Next]_outboxVars PROVE Delivery'
  OBVIOUS
<1>1. CASE UNCHANGED outboxVars
  BY <1>1 DEF outboxVars, tableVars, workerVars, historyVars, Delivery, TypeOK, Claimed, AtHand,
              Scheduled, Accounted, Calls, SentIsDelivered
<1> QED
  BY <1>1, EnqueueDelivery, RipenDelivery, ClaimDelivery, SendDelivery, RecordDelivery,
     ForgetDelivery DEF Next, Deliver

LEMMA DeliveryHolds == Spec => []Delivery
BY InitDelivery, DeliveryStep, PTL DEF Spec

-----------------------------------------------------------------------------
(* The theorems.                                                           *)

\* The table stays well formed: no row is tried more often than the budget allows, and
\* none is scheduled twice.
THEOREM OutboxTypeCorrect == Spec => []TypeOK
<1>1. Delivery => TypeOK
  BY DEF Delivery
<1> QED
  BY <1>1, DeliveryHolds, PTL

\* Telegram is offered a message at most as often as the budget allows, plus once for every
\* outcome that never reached the table, and only a spent budget parks a message.
THEOREM BudgetKeptHolds == Spec => []BudgetKept
<1>1. Delivery => BudgetKept
  <2> SUFFICES ASSUME Delivery, NEW m \in Message \ Unrenderable
               PROVE  /\ sends[m] <= MaxAttempts + unrecorded[m]
                      /\ row[m] = "failed" => sends[m] >= MaxAttempts
    BY DEF BudgetKept
  <2>1. /\ sends[m] = attempts[m] + unrecorded[m] + Calls(m)
        /\ row[m] = "failed" => attempts[m] >= MaxAttempts
        /\ attempts[m] \in Nat /\ attempts[m] <= MaxAttempts /\ MaxAttempts \in Nat
        /\ unrecorded[m] \in Nat
    BY BudgetAssumption DEF Delivery, Accounted, TypeOK
  <2>2. Calls(m) \in {0, 1} /\ (Calls(m) = 1 => attempts[m] < MaxAttempts)
    <3>1. CASE outcome # "none" /\ batch[1].message = m
      <4>1. row[m] = "pending"
        BY <3>1, DroppedFirst DEF Delivery, AtHand
      <4> QED
        BY <3>1, <4>1 DEF Delivery, Scheduled, Calls
    <3> QED
      BY <3>1 DEF Calls
  <2> QED
    BY <2>1, <2>2
<1> QED
  BY <1>1, DeliveryHolds, PTL

\* A message is reported as sent only if Telegram has it.
THEOREM SentIsDeliveredHolds == Spec => []SentIsDelivered
<1>1. Delivery => SentIsDelivered
  BY DEF Delivery
<1> QED
  BY <1>1, DeliveryHolds, PTL

\* A message that was sent or parked is never offered to Telegram again.
THEOREM SettledStaysSettledHolds == Spec => SettledStaysSettled
<1> DEFINE Settled(m) ==
      row[m] \in {"sent", "failed"} => sends'[m] = sends[m] /\ row'[m] = row[m]
<1>1. Delivery /\ [Next]_outboxVars => [\A m \in Message : Settled(m)]_outboxVars
  <2> SUFFICES ASSUME Delivery, Next, NEW m \in Message, row[m] \in {"sent", "failed"}
               PROVE  sends'[m] = sends[m] /\ row'[m] = row[m]
    OBVIOUS
  <2> USE DEF Delivery
  <2>1. ASSUME NEW x \in Message, EnqueueMessage(x) \/ Ripen(x)
        PROVE  sends'[m] = sends[m] /\ row'[m] = row[m]
    BY <2>1 DEF EnqueueMessage, Ripen, historyVars, TypeOK
  <2>2. CASE ClaimDue \/ RecordFails \/ Stop
    BY <2>2 DEF ClaimDue, RecordFails, Stop, Forget, tableVars, historyVars
  <2>3. CASE Send \/ Record
    <3>1. batch # <<>>
      BY <2>3 DEF Send, Record, Answered
    <3>2. batch[1].message # m
      BY <3>1, DroppedFirst
    <3> QED
      BY <2>3, <3>2 DEF Send, Record, tableVars, historyVars, TypeOK
  <2> QED
    BY <2>1, <2>2, <2>3 DEF Next, Deliver
<1> QED
  BY <1>1, DeliveryHolds, PTL DEF Spec, SettledStaysSettled

-----------------------------------------------------------------------------
(* The pages and their forms.                                              *)

\* A page is a record of these fields; what is in `forms` is told by Truthful.
IsPage(page) ==
  /\ page = [kind |-> page.kind, forms |-> page.forms, lines |-> page.lines,
             status |-> page.status, fresh |-> page.fresh]
  /\ page.fresh \in BOOLEAN

PagesTypeOK ==
  /\ stock \in [Size -> Int] /\ reserved \in [Size -> Int]
  /\ inCart \in [Size -> Nat]
  /\ shown = [t \in Tab |-> shown[t]]
  /\ \A t \in Tab : IsPage(shown[t])

\* What the forms of a page promise, when nothing it was drawn from has changed.
Truthful(page) ==
  \A f \in page.forms :
    /\ f[1] = "add" => Available(f[2]) > 0
    /\ f[1] \in {"update", "remove"} => f[2] \in page.lines
    /\ f[1] = "place" => Lines # {}
    /\ f[1] = "pay" => status = "awaiting_payment"
    /\ f[1] = "move" => f[2] \in ManualTargets(status)

\* The pages that have such a form at all.
Placed(page) ==
  \A f \in page.forms :
    /\ f[1] = "add" => page.kind \in {"home", "product"} /\ f[2] \in Size
    /\ f[1] \in {"update", "remove"} => page.kind \in {"home", "product", "cart"}
    /\ f[1] = "place" => page.kind = "checkout"
    /\ f[1] = "pay" => page.kind = "status"
    /\ f[1] = "move" => page.kind = "card"

Honest(page) ==
  /\ Placed(page)
  /\ page.lines \subseteq Lines
  /\ page.fresh => Truthful(page)

PagesInv == PagesTypeOK /\ \A t \in Tab : Honest(shown[t])

-----------------------------------------------------------------------------
\* The forms that are drawn, by their name.
LEMMA DrawnForms ==
  /\ \A f \in AddForms : f[1] = "add" /\ f[2] \in Size /\ Available(f[2]) > 0
  /\ \A f \in HomeForms : f \in AddForms
  /\ \A f \in CartFragment : f[1] \in {"update", "remove"} /\ f[2] \in Lines
  /\ \A f \in CheckoutForms : f[1] = "place"
  /\ \A f \in InvoiceLink : f[1] = "pay" /\ status = "awaiting_payment"
  /\ \A f \in MoveButtons : f[1] = "move" /\ f[2] \in ManualTargets(status)
  /\ \A f \in StockForms : f[1] = "stock"
<1>1. \A f \in AddForms : f[1] = "add" /\ f[2] \in Size /\ Available(f[2]) > 0
  BY DEF AddForms, sizeOptions
<1>2. \A f \in HomeForms : f \in AddForms
  BY DEF HomeForms
<1>3. \A f \in CartFragment : f[1] \in {"update", "remove"} /\ f[2] \in Lines
  BY DEF CartFragment
<1>4. \A f \in CheckoutForms : f[1] = "place"
  BY DEF CheckoutForms
<1>5. \A f \in InvoiceLink : f[1] = "pay" /\ status = "awaiting_payment"
  BY DEF InvoiceLink, Payable
<1>6. \A f \in MoveButtons : f[1] = "move" /\ f[2] \in ManualTargets(status)
  BY DEF MoveButtons
<1>7. \A f \in StockForms : f[1] = "stock"
  BY DEF StockForms
<1> QED
  BY <1>1, <1>2, <1>3, <1>4, <1>5, <1>6, <1>7

\* A page that has just been drawn keeps what it promises.
DrawnHonest ==
  \A kind \in PageKind :
    (kind = "checkout" => Lines # {}) => IsPage(Drawn(kind)) /\ Honest(Drawn(kind))

LEMMA DrawnIsHonest == DrawnHonest
<1> SUFFICES ASSUME NEW kind \in PageKind, kind = "checkout" => Lines # {}
             PROVE  IsPage(Drawn(kind)) /\ Honest(Drawn(kind))
  BY DEF DrawnHonest
<1> DEFINE page == Drawn(kind)
<1>1. /\ page.kind = kind /\ page.forms = FormsOf(kind) /\ page.lines = Lines /\ page.fresh = TRUE
      /\ IsPage(page)
  BY DEF Drawn, IsPage
<1> HIDE DEF page
<1>2. Placed(page) /\ Truthful(page)
  <2>1. CASE kind = "home"
    <3>1. page.forms = HomeForms \cup CartFragment
      BY <1>1, <2>1 DEF FormsOf
    <3> QED
      BY <1>1, <2>1, <3>1, DrawnForms DEF Placed, Truthful
  <2>2. CASE kind = "product"
    <3>1. page.forms = AddForms \cup CartFragment
      BY <1>1, <2>2 DEF FormsOf
    <3> QED
      BY <1>1, <2>2, <3>1, DrawnForms DEF Placed, Truthful
  <2>3. CASE kind = "cart"
    <3>1. page.forms = CartFragment
      BY <1>1, <2>3 DEF FormsOf
    <3> QED
      BY <1>1, <2>3, <3>1, DrawnForms DEF Placed, Truthful
  <2>4. CASE kind = "checkout"
    <3>1. page.forms = CheckoutForms
      BY <1>1, <2>4 DEF FormsOf
    <3> QED
      BY <1>1, <2>4, <3>1, DrawnForms DEF Placed, Truthful
  <2>5. CASE kind = "status"
    <3>1. page.forms = InvoiceLink
      BY <1>1, <2>5 DEF FormsOf
    <3> QED
      BY <1>1, <2>5, <3>1, DrawnForms DEF Placed, Truthful
  <2>6. CASE kind = "card"
    <3>1. page.forms = MoveButtons
      BY <1>1, <2>6 DEF FormsOf
    <3> QED
      BY <1>1, <2>6, <3>1, DrawnForms DEF Placed, Truthful
  <2>7. CASE kind = "products"
    <3>1. page.forms = StockForms
      BY <1>1, <2>7 DEF FormsOf
    <3> QED
      BY <1>1, <2>7, <3>1, DrawnForms DEF Placed, Truthful
  <2> QED
    BY <2>1, <2>2, <2>3, <2>4, <2>5, <2>6, <2>7 DEF PageKind
<1>3. IsPage(page) /\ Honest(page)
  BY <1>1, <1>2 DEF Honest
<1> QED
  BY <1>3 DEF page

\* An empty page promises nothing, nor does one that is being loaded.
Loading == [Blank EXCEPT !.kind = "loading"]

LEMMA BlankIsHonest ==
  /\ IsPage(Blank) /\ Honest(Blank)
  /\ IsPage(Loading) /\ Honest(Loading)
<1>1. /\ Blank.kind = "blank" /\ Blank.forms = {} /\ Blank.lines = {} /\ Blank.fresh = TRUE
      /\ IsPage(Blank)
  BY DEF Blank, IsPage
<1>2. /\ Loading.kind = "loading" /\ Loading.forms = {} /\ Loading.lines = {} /\ Loading.fresh = TRUE
      /\ IsPage(Loading)
  <2>1. Loading = [kind |-> "loading", forms |-> Blank.forms, lines |-> Blank.lines,
                    status |-> Blank.status, fresh |-> Blank.fresh]
    BY <1>1 DEF Loading, IsPage
  <2> QED
    BY <1>1, <2>1 DEF IsPage
<1>3. Honest(Blank)
  BY <1>1 DEF Honest, Placed, Truthful
<1>4. Honest(Loading)
  BY <1>2 DEF Honest, Placed, Truthful
<1> QED
  BY <1>1, <1>2, <1>3, <1>4

\* A page that is left alone stays honest, whatever the step does to the tables: it is marked
\* as stale when it should be.
LEMMA AgedIsHonest ==
  ASSUME PagesInv, NEW u \in Tab, NEW page, page = Aged[u]
  PROVE  IsPage(page) /\ Honest(page)'
<1>0. PICK old : old = shown[u]
  OBVIOUS
<1>1. IsPage(old) /\ Honest(old)
  BY <1>0 DEF PagesInv, PagesTypeOK
<1>2. page = [old EXCEPT !.fresh = old.fresh /\ old.kind \notin Changed, !.lines = old.lines \cap Lines']
  BY <1>0 DEF Aged
<1>3. /\ page.kind = old.kind /\ page.forms = old.forms /\ page.lines = old.lines \cap Lines'
      /\ page.fresh = (old.fresh /\ old.kind \notin Changed)
      /\ IsPage(page)
  BY <1>1, <1>2 DEF IsPage
<1>4. Placed(page)
  BY <1>1, <1>3 DEF Honest, Placed
<1>5. ASSUME page.fresh PROVE Truthful(page)'
  <2>1. old.fresh /\ Truthful(old) /\ old.kind \notin Changed
    BY <1>1, <1>3, <1>5 DEF Honest
  <2>2. old.kind \in PageKind => Basis(old.kind)' = Basis(old.kind)
    BY <2>1 DEF Changed
  <2>3. ASSUME old.kind \in {"home", "product", "cart", "checkout"}
        PROVE  inCart' = inCart /\ \A s \in Size : Available(s)' = Available(s)
    <3>1. inCart' = inCart /\ [s \in Size |-> Available(s)'] = [s \in Size |-> Available(s)]
      BY <2>2, <2>3 DEF PageKind, Basis
    <3>2. ASSUME NEW s \in Size PROVE Available(s)' = Available(s)
      <4>1. [z \in Size |-> Available(z)'][s] = [z \in Size |-> Available(z)][s]
        BY <3>1
      <4> QED
        BY <4>1
    <3> QED
      BY <3>1, <3>2
  <2>4. ASSUME old.kind \in {"status", "card"} PROVE status' = status
    BY <2>2, <2>4 DEF PageKind, Basis
  <2> SUFFICES ASSUME NEW f \in old.forms
               PROVE  /\ f[1] = "add" => Available(f[2])' > 0
                      /\ f[1] \in {"update", "remove"} => f[2] \in page.lines
                      /\ f[1] = "place" => Lines' # {}
                      /\ f[1] = "pay" => status' = "awaiting_payment"
                      /\ f[1] = "move" => f[2] \in ManualTargets(status')
    BY <1>3 DEF Truthful
  <2>5. f[1] = "add" => Available(f[2])' > 0
    BY <1>1, <2>1, <2>3 DEF Honest, Placed, Truthful
  <2>6. f[1] \in {"update", "remove"} => f[2] \in page.lines
    <3>1. SUFFICES ASSUME f[1] \in {"update", "remove"} PROVE f[2] \in page.lines
      OBVIOUS
    <3>2. f[2] \in old.lines /\ old.lines \subseteq Lines /\ old.kind \in {"home", "product", "cart"}
      BY <1>1, <2>1, <3>1 DEF Honest, Placed, Truthful
    <3>3. Lines' = Lines
      BY <2>3, <3>2 DEF Lines
    <3> QED
      BY <1>3, <3>2, <3>3
  <2>7. f[1] = "place" => Lines' # {}
    BY <1>1, <2>1, <2>3 DEF Honest, Placed, Truthful, Lines
  <2>8. f[1] = "pay" => status' = "awaiting_payment"
    BY <1>1, <2>1, <2>4 DEF Honest, Placed, Truthful
  <2>9. f[1] = "move" => f[2] \in ManualTargets(status')
    BY <1>1, <2>1, <2>4 DEF Honest, Placed, Truthful
  <2> QED
    BY <2>5, <2>6, <2>7, <2>8, <2>9
<1>6. Honest(page)'
  BY <1>3, <1>4, <1>5 DEF Honest, Placed
<1> QED
  BY <1>3, <1>6

\* What PagesTypeOK says of the tables, which every step keeps.
Shelved ==
  /\ stock \in [Size -> Int] /\ reserved \in [Size -> Int]
  /\ inCart \in [Size -> Nat]

\* A step that draws one page and leaves the others alone.
LEMMA DrawKeeps ==
  ASSUME PagesInv, Shelved', NEW t \in Tab, NEW page, Draw(t, page),
         IsPage(page), Honest(page)'
  PROVE  PagesInv'
<1>1. shown' = [Aged EXCEPT ![t] = page] /\ DOMAIN Aged = Tab
  BY DEF Draw, Aged
<1>2. ASSUME NEW u \in Tab PROVE IsPage(shown'[u]) /\ Honest(shown[u])'
  <2>1. CASE u = t
    <3>1. shown'[u] = page
      BY <1>1, <2>1
    <3> QED
      BY <3>1 DEF IsPage, Honest, Placed, Truthful
  <2>2. CASE u # t
    <3>1. shown'[u] = Aged[u]
      BY <1>1, <2>2
    <3>2. IsPage(shown'[u])
      BY <3>1, AgedIsHonest
    <3>3. PICK aged : aged = Aged[u]
      OBVIOUS
    <3>4. Honest(aged)'
      BY <3>3, AgedIsHonest
    <3> QED
      BY <3>1, <3>2, <3>3, <3>4 DEF Honest, Placed, Truthful
  <2> QED
    BY <2>1, <2>2
<1>3. shown' = [u \in Tab |-> shown'[u]]
  BY <1>1
<1> QED
  BY <1>2, <1>3 DEF PagesInv, PagesTypeOK, Shelved, IsPage

\* A step that draws no page.
LEMMA AgedKeeps ==
  ASSUME PagesInv, Shelved', shown' = Aged
  PROVE  PagesInv'
<1>1. ASSUME NEW u \in Tab PROVE IsPage(shown'[u]) /\ Honest(shown[u])'
  <2>1. PICK aged : aged = Aged[u]
    OBVIOUS
  <2>2. IsPage(aged) /\ Honest(aged)'
    BY <2>1, AgedIsHonest
  <2> QED
    BY <2>1, <2>2 DEF IsPage, Honest, Placed, Truthful
<1>2. shown' = [u \in Tab |-> shown'[u]]
  BY DEF Aged
<1> QED
  BY <1>1, <1>2 DEF PagesInv, PagesTypeOK, Shelved, IsPage

\* A page that is opened, or loaded again.
LEMMA OpenKeeps ==
  ASSUME PagesInv, Untouched, NEW t \in Tab, NEW page, IsPage(page), Honest(page), Draw(t, page)
  PROVE  PagesInv'
<1>1. UNCHANGED <<stock, reserved, inCart, status>>
  BY DEF Untouched, shelfVars, orderVars
<1>2. Shelved'
  BY <1>1 DEF PagesInv, PagesTypeOK, Shelved
<1>3. Honest(page)'
  BY <1>1 DEF Honest, Placed, Truthful, Available, Lines
<1> QED
  BY <1>2, <1>3, DrawKeeps

\* The answer to a cart form: the panel is new, and the rest of the page as good as it was,
\* because a form of the cart moves no stock.
LEMMA SwapKeeps ==
  ASSUME PagesInv, NEW t \in Tab, SwapPanel(t), UNCHANGED <<shelfVars, orderVars>>,
         inCart' \in [Size -> Nat], shown[t].kind \in {"home", "product", "cart"}
  PROVE  PagesInv'
<1>0. PICK old : old = shown[t]
  OBVIOUS
<1>1. IsPage(old) /\ Honest(old)
  BY <1>0 DEF PagesInv, PagesTypeOK
<1>2. UNCHANGED <<stock, reserved>>
  BY DEF shelfVars
<1>3. PICK aged : aged = Aged[t]
  OBVIOUS
<1>4. /\ aged.kind = old.kind /\ aged.forms = old.forms /\ aged.status = old.status
      /\ IsPage(aged)
  <2>1. aged = [old EXCEPT !.fresh = old.fresh /\ old.kind \notin Changed, !.lines = old.lines \cap Lines']
    BY <1>0, <1>3 DEF Aged
  <2>2. IsPage(aged)
    BY <1>3, AgedIsHonest
  <2> QED
    BY <1>1, <2>1, <2>2 DEF IsPage
<1> DEFINE adds == {f \in old.forms : f[1] = "add"}
<1>5. PICK panel : panel = CartFragment'
  OBVIOUS
<1>6. PICK lines : lines = Lines'
  OBVIOUS
<1>7. PICK page : page = [aged EXCEPT !.forms = adds \cup panel, !.lines = lines, !.fresh = old.fresh]
  OBVIOUS
<1>8. /\ page.kind = old.kind /\ page.forms = adds \cup panel /\ page.lines = lines
      /\ page.fresh = old.fresh /\ IsPage(page)
  BY <1>1, <1>4, <1>7 DEF IsPage
<1>9. \A f \in panel : f[1] \in {"update", "remove"} /\ f[2] \in lines
  BY <1>5, <1>6 DEF CartFragment
<1>10. Placed(page)
  BY <1>0, <1>1, <1>8, <1>9 DEF Honest, Placed
<1>11. page.fresh => Truthful(page)'
  <2>1. SUFFICES ASSUME old.fresh, NEW f \in adds \cup panel
                 PROVE  /\ f[1] = "add" => Available(f[2])' > 0
                        /\ f[1] \in {"update", "remove"} => f[2] \in lines
                        /\ f[1] \notin {"place", "pay", "move"}
    BY <1>8 DEF Truthful
  <2>2. CASE f \in adds
    BY <1>1, <1>2, <2>1, <2>2 DEF Honest, Truthful, Available
  <2>3. CASE f \in panel
    BY <1>9, <2>3
  <2> QED
    BY <2>1, <2>2, <2>3
<1>12. Honest(page)'
  BY <1>6, <1>8, <1>10, <1>11 DEF Honest, Placed
<1>13. shown' = [Aged EXCEPT ![t] = page]
  BY ZenonT(60), <1>0, <1>3, <1>4, <1>5, <1>6, <1>7 DEF SwapPanel, Aged
<1>14. Shelved'
  BY <1>2 DEF PagesInv, PagesTypeOK, Shelved
<1> QED
  BY <1>8, <1>12, <1>13, <1>14, DrawKeeps DEF Draw
-----------------------------------------------------------------------------
(* Action by action.                                                       *)

LEMMA OpensKeep ==
  ASSUME PagesInv, NEW t \in Tab,
         \/ Home(t) \/ Product(t) \/ CartPage(t) \/ CheckoutForm(t) \/ Leave(t)
         \/ OrderPage(t) \/ Order(t) \/ Products(t)
         \/ Poll(t) \/ Reload(t) \/ CheckoutUninvoiced(t)
  PROVE  PagesInv'
<1>1. PICK page : /\ Untouched /\ Draw(t, page)
                  /\ \/ page = Blank \/ page = Loading
                     \/ \E kind \in PageKind : page = Drawn(kind) /\ (kind = "checkout" => Lines # {})
  <2>1. CASE Home(t)
    BY <2>1 DEF Home, PageKind
  <2>2. CASE Product(t)
    BY <2>2 DEF Product, PageKind
  <2>3. CASE CartPage(t)
    BY <2>3 DEF CartPage, PageKind
  <2>4. CASE CheckoutForm(t)
    <3>1. CASE Lines = {}
      BY <2>4, <3>1 DEF CheckoutForm, PageKind
    <3>2. CASE Lines # {}
      BY <2>4, <3>2 DEF CheckoutForm, PageKind
    <3> QED
      BY <3>1, <3>2
  <2>5. CASE Leave(t)
    BY <2>5 DEF Leave
  <2>6. CASE OrderPage(t)
    BY <2>6 DEF OrderPage, PageKind
  <2>7. CASE Order(t)
    BY <2>7 DEF Order, PageKind
  <2>8. CASE Products(t)
    BY <2>8 DEF Products, PageKind
  <2>9. CASE Poll(t)
    BY <2>9 DEF Poll, Loading
  <2>10. CASE Reload(t)
    BY <2>10 DEF Reload, PageKind
  <2>11. CASE CheckoutUninvoiced(t)
    BY <2>11 DEF CheckoutUninvoiced, PageKind
  <2> QED
    BY <2>1, <2>2, <2>3, <2>4, <2>5, <2>6, <2>7, <2>8, <2>9, <2>10, <2>11
<1>2. IsPage(page) /\ Honest(page)
  BY <1>1, DrawnIsHonest, BlankIsHonest DEF DrawnHonest
<1> QED
  BY <1>1, <1>2, OpenKeeps

LEMMA CartFormsKeep ==
  ASSUME PagesInv, NEW t \in Tab, NEW s \in Size, NEW qty \in 1..MaxQty,
         AddItem(t, s) \/ UpdateItem(t, s, qty) \/ RemoveItem(t, s)
  PROVE  PagesInv'
<1>1. SwapPanel(t) /\ UNCHANGED <<shelfVars, orderVars>>
  BY DEF AddItem, UpdateItem, RemoveItem
<1>2. PICK form : form \in shown[t].forms /\ form[1] \in {"add", "update", "remove"}
  BY DEF AddItem, UpdateItem, RemoveItem, Offers
<1>3. shown[t].kind \in {"home", "product", "cart"}
  BY <1>2 DEF PagesInv, Honest, Placed
<1>4. inCart \in [Size -> Nat]
  BY DEF PagesInv, PagesTypeOK
<1>5. inCart' \in [Size -> Nat]
  <2>1. inCart[s] + 1 \in Nat /\ qty \in Nat
    BY <1>4
  <2> QED
    BY <1>4, <2>1 DEF AddItem, UpdateItem, RemoveItem
<1> QED
  BY <1>1, <1>3, <1>5, SwapKeeps

LEMMA CheckoutKeeps ==
  ASSUME PagesInv, NEW t \in Tab, Checkout(t)
  PROVE  PagesInv'
<1> DEFINE ok == Lines # {} /\ ~paused /\ Fits
<1>1. CASE ok
  <2>1. /\ stock' = stock /\ Draw(t, Blank)
        /\ reserved' = [s \in Size |-> reserved[s] + inCart[s]]
        /\ inCart' = [s \in Size |-> 0]
    BY <1>1 DEF Checkout
  <2>2. Shelved'
    BY <2>1 DEF PagesInv, PagesTypeOK, Shelved
  <2>3. PICK page : page = Blank
    OBVIOUS
  <2>4. IsPage(page) /\ Honest(page)'
    BY <2>3, BlankIsHonest DEF Blank, Honest, Placed, Truthful
  <2> QED
    BY <2>1, <2>2, <2>3, <2>4, DrawKeeps
<1>2. CASE ~ok
  <2>1. PICK kind \in PageKind : kind = IF Lines = {} THEN "cart" ELSE "checkout"
    BY DEF PageKind
  <2>2. Draw(t, Drawn(kind)) /\ UNCHANGED <<stock, reserved, inCart, status>>
    BY <1>2, <2>1 DEF Checkout, orderVars
  <2>3. PICK page : page = Drawn(kind)
    OBVIOUS
  <2>4. IsPage(page) /\ Honest(page)
    BY <2>1, <2>3, DrawnIsHonest DEF DrawnHonest
  <2>5. Honest(page)'
    BY <2>2, <2>4 DEF Honest, Placed, Truthful, Available, Lines
  <2>6. Shelved'
    BY <2>2 DEF PagesInv, PagesTypeOK, Shelved
  <2> QED
    BY <2>2, <2>3, <2>4, <2>5, <2>6, DrawKeeps
<1> QED
  BY <1>1, <1>2

\* The pages of the panel are drawn again with what the form has changed.
LEMMA PanelFormsKeep ==
  ASSUME PagesInv, NEW t \in Tab,
         \/ \E to \in manualTargets : MoveOrder(t, to)
         \/ \E s \in Size, units \in 0..MaxStock : SetStock(t, s, units)
  PROVE  PagesInv'
<1>1. PICK kind \in {"card", "products"} : Draw(t, Drawn(kind)')
  BY DEF MoveOrder, SetStock
<1>2. UNCHANGED <<reserved, inCart>> /\ stock' \in [Size -> Int]
  <2>1. CASE \E to \in manualTargets : MoveOrder(t, to)
    BY <2>1 DEF MoveOrder, shelfVars, PagesInv, PagesTypeOK
  <2>2. ASSUME NEW s \in Size, NEW units \in 0..MaxStock, SetStock(t, s, units)
        PROVE  UNCHANGED <<reserved, inCart>> /\ stock' \in [Size -> Int]
    <3>1. units \in Int /\ stock \in [Size -> Int]
      BY DEF PagesInv, PagesTypeOK
    <3> QED
      BY <2>2, <3>1 DEF SetStock
  <2> QED
    BY <2>1, <2>2
<1>3. Shelved'
  BY <1>2 DEF PagesInv, PagesTypeOK, Shelved
<1>4. PICK page : page = Drawn(kind)'
  OBVIOUS
<1>5. DrawnHonest'
  BY DrawnIsHonest, PTL
<1>6. IsPage(Drawn(kind))' /\ Honest(Drawn(kind))'
  BY <1>5 DEF PageKind, DrawnHonest
<1>7. IsPage(page) /\ Honest(page)'
  BY <1>4, <1>6 DEF IsPage, Honest, Placed, Truthful
<1> QED
  BY <1>1, <1>3, <1>4, <1>7, DrawKeeps

LEMMA FollowInvoiceKeeps ==
  ASSUME PagesInv, NEW t \in Tab, FollowInvoice(t)
  PROVE  PagesInv'
<1>1. PICK page : page = Blank
  OBVIOUS
<1>2. Draw(t, page) /\ UNCHANGED <<stock, reserved, inCart>>
  BY <1>1 DEF FollowInvoice, shelfVars
<1>3. IsPage(page) /\ Honest(page)'
  BY <1>1, BlankIsHonest DEF Blank, Honest, Placed, Truthful
<1>4. Shelved'
  BY <1>2 DEF PagesInv, PagesTypeOK, Shelved
<1> QED
  BY <1>2, <1>3, <1>4, DrawKeeps

LEMMA OthersKeep ==
  ASSUME PagesInv,
         \/ \E s \in Size : OthersTrade(s)
         \/ TurnSale \/ TurnPause \/ OrderMoves \/ DeadlinePasses
  PROVE  PagesInv'
<1>1. shown' = Aged
  BY DEF OthersTrade, TurnSale, TurnPause, OrderMoves, DeadlinePasses
<1>2. Shelved'
  <2>1. CASE TurnSale \/ TurnPause \/ OrderMoves \/ DeadlinePasses
    BY <2>1 DEF TurnSale, TurnPause, OrderMoves, DeadlinePasses, shelfVars, PagesInv, PagesTypeOK, Shelved
  <2>2. ASSUME NEW s \in Size, OthersTrade(s) PROVE Shelved'
    <3>1. /\ stock \in [Size -> Int] /\ reserved \in [Size -> Int] /\ inCart \in [Size -> Nat]
          /\ reserved[s] + 1 \in Int /\ reserved[s] - 1 \in Int /\ stock[s] - 1 \in Int
      BY DEF PagesInv, PagesTypeOK
    <3> QED
      BY <2>2, <3>1 DEF OthersTrade, Shelved
  <2> QED
    BY <2>1, <2>2
<1> QED
  BY <1>1, <1>2, AgedKeeps

LEMMA PagesStep ==
  ASSUME PagesInv, [PagesNext]_pagesVars
  PROVE  PagesInv'
<1>1. CASE BuyerStep
  <2>1. CASE \E t \in Tab, s \in Size :
               AddItem(t, s) \/ RemoveItem(t, s) \/ \E qty \in 1..MaxQty : UpdateItem(t, s, qty)
    <3>1. 1 \in 1..MaxQty
      BY PagesAssumption
    <3> QED
      BY <2>1, <3>1, CartFormsKeep
  <2>2. CASE \E t \in Tab : Checkout(t)
    BY <2>2, CheckoutKeeps
  <2>3. CASE \E t \in Tab : \/ Home(t) \/ Product(t) \/ CartPage(t) \/ CheckoutForm(t) \/ Leave(t)
                            \/ CheckoutUninvoiced(t)
    BY <2>3, OpensKeep
  <2> QED
    BY <1>1, <2>1, <2>2, <2>3 DEF BuyerStep
<1>2. CASE ShelfStep
  BY <1>2, OpensKeep, PanelFormsKeep, OthersKeep DEF ShelfStep
<1>3. CASE OrderStep
  BY <1>3, OpensKeep, FollowInvoiceKeeps, PanelFormsKeep, OthersKeep DEF OrderStep
<1>4. CASE UNCHANGED pagesVars
  BY <1>4 DEF pagesVars, shelfVars, orderVars, PagesInv, PagesTypeOK, IsPage, Honest, Placed, Truthful,
              Available, Lines
<1> QED
  BY <1>1, <1>2, <1>3, <1>4 DEF PagesNext
LEMMA PagesStart == PagesInit => PagesInv
<1> SUFFICES ASSUME PagesInit PROVE PagesInv
  OBVIOUS
<1>1. shown = [t \in Tab |-> Blank]
  BY DEF PagesInit
<1>2. PagesTypeOK
  BY <1>1, PagesAssumption, BlankIsHonest DEF PagesInit, PagesTypeOK
<1> QED
  BY <1>1, <1>2, BlankIsHonest DEF PagesInv

LEMMA PagesHold == PagesSpec => []PagesInv
<1>1. PagesInv /\ [PagesNext]_pagesVars => PagesInv'
  BY PagesStep
<1> QED
  BY <1>1, PagesStart, PTL DEF PagesSpec

\* A refusal names the tab and the form it has offered; all other steps refuse nothing.
LEMMA RefusedFairly ==
  ASSUME PagesInv, PagesNext, NEW t \in Tab,
         refused' # NoForm, refused'[1] = t, shown[t].fresh
  PROVE  Excused(refused'[2])
<1>1. /\ Truthful(shown[t]) /\ shown[t].lines \subseteq Lines
      /\ \A f \in shown[t].forms : f[1] = "add" => f[2] \in Size
  BY DEF PagesInv, Honest, Placed
<1>2. ASSUME NEW u \in Tab, NEW form, NEW ok, Judged(u, form, ok)
      PROVE  u = t /\ refused'[2] = form /\ ~ok
  BY <1>2 DEF Judged
<1>3. ASSUME NEW u \in Tab, NEW s \in Size, AddItem(u, s) PROVE Excused(refused'[2])
  <2>1. /\ u = t /\ refused'[2] = <<"add", s>> /\ <<"add", s>> \in shown[t].forms
        /\ ~(inCart[s] + 1 <= MaxQty /\ inCart[s] + 1 <= Available(s))
    BY <1>2, <1>3 DEF AddItem, Offers
  <2>2. Available(s) > 0
    BY <1>1, <2>1 DEF Truthful
  <2>3. /\ inCart[s] \in Nat /\ Available(s) \in Int /\ MaxQty \in Nat /\ MaxQty > 0
    BY PagesAssumption DEF PagesInv, PagesTypeOK, Available
  <2>4. inCart[s] > 0 /\ inCart[s] + 1 > Least(MaxQty, Available(s))
    BY <2>1, <2>2, <2>3 DEF Least
  <2> QED
    BY <2>1, <2>4 DEF Excused
<1>4. ASSUME NEW u \in Tab, NEW s \in Size, NEW qty \in 1..MaxQty, UpdateItem(u, s, qty)
      PROVE  Excused(refused'[2])
  <2>1. /\ u = t /\ refused'[2] = <<"update", s, qty>> /\ <<"update", s>> \in shown[t].forms
        /\ ~(s \in shown[t].lines /\ qty <= Available(s))
    BY <1>2, <1>4 DEF UpdateItem, Offers
  <2>2. s \in shown[t].lines
    BY <1>1, <2>1 DEF Truthful
  <2>3. qty > Available(s)
    BY <2>1, <2>2 DEF PagesInv, PagesTypeOK, Available
  <2> QED
    BY <2>1, <2>3 DEF Excused
<1>5. ASSUME NEW u \in Tab, NEW s \in Size, RemoveItem(u, s) PROVE FALSE
  <2>1. u = t /\ <<"remove", s>> \in shown[t].forms /\ s \notin shown[t].lines
    BY <1>2, <1>5 DEF RemoveItem, Offers
  <2> QED
    BY <1>1, <2>1 DEF Truthful
<1>6. ASSUME NEW u \in Tab, Checkout(u) PROVE Excused(refused'[2])
  <2>1. /\ u = t /\ refused'[2] = <<"place">> /\ <<"place">> \in shown[t].forms
        /\ ~(Lines # {} /\ ~paused /\ Fits)
    BY <1>2, <1>6 DEF Checkout, Offers
  <2>2. Lines # {}
    BY <1>1, <2>1 DEF Truthful
  <2> QED
    BY <2>1, <2>2 DEF Excused
<1>7. ASSUME NEW u \in Tab, NEW to \in manualTargets, MoveOrder(u, to) PROVE FALSE
  <2>1. u = t /\ <<"move", to>> \in shown[t].forms /\ to \notin ManualTargets(status)
    BY <1>2, <1>7 DEF MoveOrder, Offers
  <2> QED
    BY <1>1, <2>1 DEF Truthful
<1>8. ASSUME NEW u \in Tab, NEW s \in Size, NEW units \in 0..MaxStock, SetStock(u, s, units)
      PROVE  Excused(refused'[2])
  <2>1. refused'[2] = <<"stock", s, units>> /\ ~(reserved[s] <= units)
    BY <1>2, <1>8 DEF SetStock
  <2>2. units < reserved[s]
    BY <2>1 DEF PagesInv, PagesTypeOK
  <2> QED
    BY <2>1, <2>2 DEF Excused
<1>9. ASSUME NEW u \in Tab, FollowInvoice(u) PROVE FALSE
  <2>1. u = t /\ <<"pay">> \in shown[t].forms /\ status # "awaiting_payment"
    BY <1>2, <1>9 DEF FollowInvoice, Offers
  <2> QED
    BY <1>1, <2>1 DEF Truthful
<1>10. CASE Untouched
  BY <1>10 DEF Untouched
<1>11. CASE \/ \E s \in Size : OthersTrade(s)
            \/ TurnSale \/ TurnPause \/ OrderMoves \/ DeadlinePasses
  BY <1>11 DEF OthersTrade, TurnSale, TurnPause, OrderMoves, DeadlinePasses
<1>12. CASE BuyerStep
  BY <1>3, <1>4, <1>5, <1>6, <1>10, <1>12 DEF BuyerStep, Home, Product, CartPage, CheckoutForm, Leave,
     CheckoutUninvoiced
<1>13. CASE ShelfStep
  BY <1>8, <1>10, <1>11, <1>13 DEF ShelfStep, Products
<1>14. CASE OrderStep
  BY <1>7, <1>9, <1>10, <1>11, <1>14 DEF OrderStep, OrderPage, Order, Leave, Poll, Reload
<1> QED
  BY <1>12, <1>13, <1>14 DEF PagesNext

\* A form is refused only when something its page was drawn from has changed since, or for
\* a reason no page could have known (sizeAvailability, ManualTargets and their handlers).
THEOREM OffersAreHonouredHolds == PagesSpec => OffersAreHonoured
<1>1. PagesInv /\ [PagesNext]_pagesVars
        => [\A t \in Tab : refused' # NoForm /\ refused'[1] = t /\ shown[t].fresh
                             => Excused(refused'[2])]_pagesVars
  BY RefusedFairly
<1> QED
  BY <1>1, PagesHold, PTL DEF PagesSpec, OffersAreHonoured

-----------------------------------------------------------------------------
(* The walk through the order list.                                        *)
(*                                                                         *)
(* An order keeps its place from the end of the list and can only be       *)
(* pushed to a later page while nothing leaves the filter. So an order not *)
(* shown yet is beyond the pages walked, and there is a next page: the     *)
(* total that comes with the rows counts it.                               *)

BookTypeOK ==
  /\ placed \subseteq Orders
  /\ screen.page \in Nat
  /\ walk \in [page : Nat, due : SUBSET Orders, seen : SUBSET Orders, departed : BOOLEAN]

Unseen == walk.due \ walk.seen

WalkInv ==
  walk.page > 0 =>
    /\ walk.page = screen.page
    /\ ~walk.departed =>
         /\ walk.due \subseteq Matching(screen.form)
         /\ \A o \in Unseen : Before(o, Matching(screen.form)) >= walk.page * PageSize
         /\ Unseen # {} => HasNext(screen)

BookInv == BookTypeOK /\ WalkInv

\* The orders are finitely many, and each stands somewhere in the list.
LEMMA Places ==
  ASSUME NEW found \in SUBSET Orders
  PROVE  /\ IsFiniteSet(found) /\ Cardinality(found) \in Nat
         /\ \A o \in found : Before(o, found) \in 0..(Cardinality(found) - 1)
<1>1. IsFiniteSet(Orders)
  BY FS_Interval, BookAssumption DEF Orders
<1>2. IsFiniteSet(found) /\ Cardinality(found) \in Nat
  BY <1>1, FS_Subset, FS_CardinalityType
<1>3. ASSUME NEW o \in found PROVE Before(o, found) \in 0..(Cardinality(found) - 1)
  <2> DEFINE newer == {x \in found : x > o}
  <2>1. newer \in SUBSET (found \ {o})
    BY DEF Orders
  <2>2. IsFiniteSet(found \ {o}) /\ Cardinality(found \ {o}) = Cardinality(found) - 1
    BY <1>2, FS_RemoveElement
  <2>3. Cardinality(newer) <= Cardinality(found) - 1 /\ Cardinality(newer) \in Nat
    BY <2>1, <2>2, FS_Subset, FS_CardinalityType
  <2> QED
    BY <1>2, <2>3 DEF Before
<1> QED
  BY <1>2, <1>3

\* No order comes before fewer others because the list has grown.
LEMMA PlacesGrow ==
  ASSUME NEW more \in SUBSET Orders, NEW found \in SUBSET more, NEW o
  PROVE  Before(o, found) <= Before(o, more)
<1>1. {x \in more : x > o} \in SUBSET Orders /\ {x \in found : x > o} \in SUBSET {x \in more : x > o}
  OBVIOUS
<1>2. IsFiniteSet({x \in more : x > o})
  BY <1>1, Places
<1> QED
  BY <1>1, <1>2, FS_Subset DEF Before

\* The places of a list have no gap: where one order stands, another stands at every
\* earlier place.
LEMMA NoGap ==
  ASSUME NEW found \in SUBSET Orders, NEW o \in found, NEW k \in 0..Before(o, found)
  PROVE  \E x \in found : Before(x, found) = k
<1> DEFINE place == [x \in found |-> Before(x, found)]
<1> DEFINE N == Cardinality(found)
<1>1. IsFiniteSet(found) /\ N \in Nat /\ \A x \in found : Before(x, found) \in 0..(N - 1)
  BY Places
<1>2. ASSUME NEW x \in found, NEW y \in found, x < y PROVE Before(y, found) # Before(x, found)
  <2> DEFINE A == {z \in found : z > x}
  <2> DEFINE B == {z \in found : z > y}
  <2>0. found \subseteq Int
    BY BookAssumption DEF Orders
  <2>1. B \in SUBSET A /\ y \in A /\ y \notin B
    <3>1. \A z \in found : z > y => z > x
      BY <1>2, <2>0
    <3>2. y > x /\ ~(y > y)
      BY <1>2, <2>0
    <3> QED
      BY <3>1, <3>2
  <2>2. A \in SUBSET Orders
    OBVIOUS
  <2>3. IsFiniteSet(A)
    BY <2>2, Places
  <2>4. Cardinality(A) # Cardinality(B)
    BY <2>1, <2>3, FS_Subset
  <2> QED
    BY <2>4 DEF Before
<1>3. ASSUME NEW x \in found, NEW y \in found, x # y PROVE Before(y, found) # Before(x, found)
  BY <1>2, <1>3 DEF Orders
<1>4. place \in Injection(found, 0..(N - 1))
  BY <1>1, <1>3 DEF Injection, IsInjective
<1>5. IsFiniteSet(0..(N - 1)) /\ Cardinality(0..(N - 1)) = N
  BY <1>1, FS_Interval
<1>6. place \in Surjection(found, 0..(N - 1))
  BY <1>4, <1>5, FS_Injection
<1>7. k \in 0..(N - 1)
  BY <1>1
<1>8. PICK x \in found : place[x] = k
  BY <1>6, <1>7 DEF Surjection
<1> QED
  BY <1>8

\* Pages are cut by division: what lies beyond so many full pages is on a page of its own.
LEMMA MorePages ==
  ASSUME NEW pages \in Nat, NEW size \in Nat, size > 0, NEW total \in Nat, total > pages * size
  PROVE  pages < (total + size - 1) \div size
<1> DEFINE a == total + size - 1
<1> DEFINE d == a \div size
<1>1. a >= (pages + 1) * size /\ a \in Nat /\ (pages + 1) * size \in Nat
  OBVIOUS
<1>2. d \in Int /\ a < (d + 1) * size
  OBVIOUS
<1>3. (pages + 1) * size < (d + 1) * size
  BY <1>1, <1>2
<1>4. pages + 1 < d + 1
  BY <1>2, <1>3
<1> QED
  BY <1>2, <1>4

LEMMA MatchesAreOrders ==
  ASSUME BookTypeOK, NEW form
  PROVE  Matching(form) \in SUBSET Orders
  BY DEF BookTypeOK, Matching

LEMMA RowsPerPage == PageSize \in Nat /\ PageSize > 0
  BY BookAssumption DEF PageSize, PageSizeOf

\* One more page of the walk, or its first: what is on none of the pages so far lies beyond
\* them, and the list knows that there is more.
LEMMA PageShowsItsRows ==
  ASSUME BookTypeOK, NEW form, NEW page \in Nat, page > 0, NEW o \in Matching(form),
         Before(o, Matching(form)) >= Offset(page), o \notin ListAdminOrders(form, page).rows
  PROVE  /\ Before(o, Matching(form)) >= page * PageSize
         /\ HasNext(ListAdminOrders(form, page))
<1> PICK list : list = ListAdminOrders(form, page)
  OBVIOUS
<1>0. PICK found : found = Matching(form)
  OBVIOUS
<1>1. /\ list.page = page
      /\ list.rows = {x \in found : Before(x, found) \in Offset(page)..(Offset(page) + PageSize - 1)}
      /\ list.total = IF list.rows = {} THEN 0 ELSE Cardinality(found)
  BY <1>0 DEF ListAdminOrders
<1>2. found \in SUBSET Orders
  BY <1>0, MatchesAreOrders
<1>3. /\ Cardinality(found) \in Nat
      /\ \A x \in found : Before(x, found) \in 0..(Cardinality(found) - 1)
  BY <1>2, Places
<1>4. PageSize \in Nat /\ PageSize > 0 /\ Offset(page) \in Nat /\ Offset(page) + PageSize = page * PageSize
  <2>1. PICK size \in Nat : size = PageSize /\ size > 0
    BY RowsPerPage
  <2>2. (page - 1) * size \in Nat /\ (page - 1) * size + size = page * size
    OBVIOUS
  <2> QED
    BY <2>1, <2>2 DEF Offset
<1>5. Before(o, found) >= page * PageSize
  <2>1. Before(o, found) \in Nat /\ Before(o, found) >= Offset(page)
    BY <1>0, <1>3
  <2>2. ~(Before(o, found) \in Offset(page)..(Offset(page) + PageSize - 1))
    BY <1>0, <1>1
  <2> QED
    BY <1>4, <2>1, <2>2
<1>6. PICK x \in found : Before(x, found) = Offset(page)
  <2>1. Offset(page) \in 0..Before(o, found)
    BY <1>0, <1>3, <1>4
  <2> QED
    BY <1>0, <1>2, <2>1, NoGap
<1>7. x \in list.rows
  BY <1>1, <1>4, <1>6
<1>8. list.total = Cardinality(found)
  BY <1>1, <1>7
<1>9. list.total \in Nat /\ list.total > page * PageSize /\ list.total > 0
  BY <1>0, <1>3, <1>4, <1>5, <1>8
<1>10. page < (list.total + PageSize - 1) \div PageSize
  BY <1>4, <1>9, MorePages
<1>11. HasNext(list)
  BY <1>1, <1>9, <1>10 DEF HasNext, TotalPages
<1> QED
  BY <1>0, <1>5, <1>11

\* The invariant of the next state, over the values it speaks of.
LEMMA WalkNext ==
  ASSUME NEW list, screen' = list, NEW found, Matching(screen.form)' = found,
         walk'.page > 0 =>
           /\ walk'.page = list.page
           /\ ~walk'.departed =>
                /\ walk'.due \subseteq found
                /\ \A o \in walk'.due \ walk'.seen :
                     Before(o, found) >= walk'.page * PageSize /\ HasNext(list)
  PROVE  WalkInv'
<1>1. HasNext(screen)' <=> HasNext(list)
  BY DEF HasNext, TotalPages, PageSize, PageSizeOf
<1>2. \A o : Before(o, Matching(screen.form))' = Before(o, found)
  BY DEF Before
<1>3. PageSize' = PageSize
  BY DEF PageSize, PageSizeOf
<1> QED
  BY <1>1, <1>2, <1>3 DEF WalkInv, Unseen

LEMMA ShowKeeps ==
  ASSUME BookInv, NEW form, NEW page \in Nat, page > 0, Show(form, page)
  PROVE  BookInv'
<1>0. BookTypeOK /\ WalkInv
  BY DEF BookInv
<1> PICK found : found = Matching(form)
  OBVIOUS
<1> PICK list : list = ListAdminOrders(form, page)
  OBVIOUS
<1>1. /\ screen' = list /\ placed' = placed /\ wanted' = wanted
      /\ list.page = page /\ list.form = form /\ list.rows \subseteq found
  BY DEF Show, ListAdminOrders
<1>2. found \in SUBSET Orders /\ Matching(screen.form)' = found
  BY <1>0, <1>1, MatchesAreOrders DEF Matching
<1>3. \A o \in found \ list.rows : Before(o, found) >= Offset(page)
        => Before(o, found) >= page * PageSize /\ HasNext(list)
  BY <1>0, PageShowsItsRows
<1>4. \A o \in found : Before(o, found) \in Nat
  BY <1>2, Places
<1>5. walk' = CASE page = 1 -> [page |-> 1, due |-> found, seen |-> list.rows, departed |-> FALSE]
                [] walk.page > 0 /\ form = screen.form /\ page = walk.page + 1 ->
                     [walk EXCEPT !.page = page, !.seen = walk.seen \cup list.rows]
                [] OTHER -> NoWalk
  BY <1>1 DEF Show, Walked
<1>6. CASE page = 1
  <2>1. walk' = [page |-> 1, due |-> found, seen |-> list.rows, departed |-> FALSE]
    <3>1. ~(walk.page > 0 /\ page = walk.page + 1)
      BY <1>0, <1>6 DEF BookTypeOK
    <3> QED
      BY <1>5, <1>6, <3>1
  <2>2. Offset(page) = 0
    BY <1>6, RowsPerPage DEF Offset
  <2>3. \A o \in found \ list.rows : Before(o, found) >= page * PageSize /\ HasNext(list)
    BY <1>3, <1>4, <2>2
  <2>4. BookTypeOK'
    BY <1>0, <1>1, <1>2, <2>1 DEF BookTypeOK
  <2>5. WalkInv'
    BY <1>1, <1>2, <1>6, <2>1, <2>3, WalkNext
  <2> QED
    BY <2>4, <2>5 DEF BookInv
<1>7. CASE page # 1 /\ walk.page > 0 /\ form = screen.form /\ page = walk.page + 1
  <2>1. walk' = [walk EXCEPT !.page = page, !.seen = walk.seen \cup list.rows]
    BY <1>5, <1>7
  <2>2. /\ walk'.page = page /\ walk'.due = walk.due /\ walk'.seen = walk.seen \cup list.rows
        /\ walk'.departed = walk.departed
    BY <1>0, <2>1 DEF BookTypeOK
  <2>3. BookTypeOK'
    BY <1>0, <1>1, <1>2, <2>1 DEF BookTypeOK
  <2>4. Offset(page) = walk.page * PageSize
    BY <1>0, <1>7, RowsPerPage DEF Offset, BookTypeOK
  <2>5. ASSUME ~walk.departed
        PROVE  /\ walk.due \subseteq found
               /\ \A o \in walk.due \ (walk.seen \cup list.rows) :
                    Before(o, found) >= page * PageSize /\ HasNext(list)
    BY <1>0, <1>3, <1>7, <2>4, <2>5 DEF WalkInv, Unseen
  <2>6. WalkInv'
    BY <1>1, <1>2, <2>2, <2>5, WalkNext
  <2> QED
    BY <2>3, <2>6 DEF BookInv
<1>8. CASE page # 1 /\ ~(walk.page > 0 /\ form = screen.form /\ page = walk.page + 1)
  <2>1. walk' = NoWalk
    BY <1>5, <1>8
  <2>2. BookTypeOK'
    BY <1>0, <1>1, <2>1 DEF BookTypeOK, NoWalk
  <2>3. WalkInv'
    BY <2>1 DEF WalkInv, NoWalk
  <2> QED
    BY <2>2, <2>3 DEF BookInv
<1> QED
  BY <1>6, <1>7, <1>8

\* Orders that arrive push the others back and never forward.
LEMMA GrowthKeeps ==
  ASSUME BookTypeOK, WalkInv, BookTypeOK', screen' = screen,
         walk'.page = walk.page, walk'.due = walk.due, walk'.seen = walk.seen,
         walk.page > 0 /\ ~walk'.departed
           => ~walk.departed /\ Matching(screen.form) \subseteq Matching(screen.form)'
  PROVE  WalkInv'
<1>1. PICK found : found = Matching(screen.form)
  OBVIOUS
<1>2. PICK more : more = Matching(screen.form)'
  OBVIOUS
<1>3. PICK list : list = screen
  OBVIOUS
<1>4. more \in SUBSET Orders
  BY <1>2 DEF BookTypeOK, Matching
<1>5. ASSUME walk.page > 0, ~walk'.departed
      PROVE  /\ walk.due \subseteq more
             /\ \A o \in walk.due \ walk.seen :
                  Before(o, more) >= walk.page * PageSize /\ HasNext(list)
  <2>1. found \in SUBSET more
    BY <1>1, <1>2, <1>5
  <2>2. /\ walk.due \subseteq found
        /\ \A o \in Unseen : Before(o, found) >= walk.page * PageSize
        /\ Unseen # {} => HasNext(list)
    BY <1>1, <1>3, <1>5 DEF WalkInv
  <2>3. ASSUME NEW o \in Unseen PROVE Before(o, more) >= walk.page * PageSize
    <3>1. o \in found /\ o \in more
      BY <2>1, <2>2 DEF Unseen
    <3>2. Before(o, found) >= walk.page * PageSize /\ Before(o, found) <= Before(o, more)
      BY <1>4, <2>1, <2>2, PlacesGrow
    <3>3. Before(o, found) \in Int /\ Before(o, more) \in Int
      <4>1. found \in SUBSET Orders
        BY <1>4, <2>1
      <4>2. Before(o, found) \in 0..(Cardinality(found) - 1)
        BY <3>1, <4>1, Places
      <4>3. Before(o, more) \in 0..(Cardinality(more) - 1)
        BY <1>4, <3>1, Places
      <4> QED
        BY <4>2, <4>3
    <3>4. PICK bound : bound = walk.page * PageSize /\ bound \in Int
      BY RowsPerPage DEF BookTypeOK
    <3> QED
      BY <3>2, <3>3, <3>4
  <2> QED
    BY <2>1, <2>2, <2>3 DEF Unseen
<1>6. walk.page > 0 => walk'.page = list.page
  BY <1>3 DEF WalkInv
<1> QED
  BY <1>2, <1>3, <1>5, <1>6, WalkNext

LEMMA BookStep ==
  ASSUME BookInv, [BookNext]_bookVars
  PROVE  BookInv'
<1>0. BookTypeOK /\ WalkInv
  BY DEF BookInv
<1>1. CASE Filter
  BY <1>1, ShowKeeps DEF Filter
<1>2. CASE FollowLink
  <2>1. PICK page \in Pagination(screen) : Show(screen.form, page)
    BY <1>2 DEF FollowLink
  <2>2. page \in Nat /\ page > 0
    BY <1>0, <2>1 DEF Pagination, pageRange, BookTypeOK
  <2> QED
    BY <2>1, <2>2, ShowKeeps
<1>3. CASE TypePage
  <2>1. PICK typed \in 0..MaxOrders : Show(screen.form, PageOf(typed))
    BY <1>3 DEF TypePage
  <2>2. PageOf(typed) \in Nat /\ PageOf(typed) > 0
    BY DEF PageOf
  <2> QED
    BY <2>1, <2>2, ShowKeeps
<1>4. CASE Place
  <2>1. BookTypeOK'
    BY <1>0, <1>4 DEF Place, BookTypeOK
  <2>2. UNCHANGED <<wanted, screen, walk>> /\ placed \subseteq placed'
    BY <1>4 DEF Place
  <2>3. Matching(screen.form) \subseteq Matching(screen.form)'
    BY <2>2 DEF Matching
  <2>4. WalkInv'
    BY <1>0, <2>1, <2>2, <2>3, GrowthKeeps
  <2> QED
    BY <2>1, <2>4 DEF BookInv
<1>5. CASE Move
  <2> DEFINE leaves == walk.page > 0 /\ ~(Matching(screen.form) \subseteq Matching(screen.form)')
  <2>1. UNCHANGED <<placed, screen>> /\ walk' = [walk EXCEPT !.departed = walk.departed \/ leaves]
    BY <1>5 DEF Move, Departs
  <2>2. walk'.page = walk.page /\ walk'.due = walk.due /\ walk'.seen = walk.seen
    BY <1>0, <2>1 DEF BookTypeOK
  <2>3. walk'.departed = (walk.departed \/ leaves) /\ walk' = [walk EXCEPT !.departed = walk'.departed]
    BY <1>0, <2>1 DEF BookTypeOK
  <2>4. BookTypeOK'
    BY <1>0, <2>1, <2>3 DEF BookTypeOK
  <2>5. walk.page > 0 /\ ~walk'.departed
          => ~walk.departed /\ Matching(screen.form) \subseteq Matching(screen.form)'
    BY <2>3
  <2>6. WalkInv'
    BY <1>0, <2>1, <2>2, <2>4, <2>5, GrowthKeeps
  <2> QED
    BY <2>4, <2>6 DEF BookInv
<1>6. CASE UNCHANGED bookVars
  BY <1>0, <1>6 DEF bookVars, BookInv, BookTypeOK, WalkInv, Unseen, Matching, Before, HasNext, TotalPages,
                    PageSize, PageSizeOf
<1> QED
  BY <1>1, <1>2, <1>3, <1>4, <1>5, <1>6 DEF BookNext

LEMMA BookStart == BookInit => BookInv
<1> SUFFICES ASSUME BookInit PROVE BookInv
  OBVIOUS
<1>1. placed = {} /\ screen.page = 0
  BY DEF BookInit, NoScreen
<1>2. walk = [page |-> 0, due |-> {}, seen |-> {}, departed |-> FALSE]
  BY DEF BookInit, NoWalk
<1> QED
  BY <1>1, <1>2 DEF BookInv, BookTypeOK, WalkInv

\* Whoever goes from the first page by "next" to the end has been shown every order that
\* matched when he began, whatever arrived on the way, unless an order left the filter
\* (ListAdminOrders, Pagination).
THEOREM WalkListsAllHolds == BookSpec => []WalkListsAll
<1>1. BookInv /\ [BookNext]_bookVars => BookInv'
  BY BookStep
<1>2. BookInv => WalkListsAll
  BY DEF BookInv, WalkInv, WalkListsAll, Unseen
<1> QED
  BY <1>1, <1>2, BookStart, PTL DEF BookSpec
=============================================================================
