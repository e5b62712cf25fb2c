---------------------------- MODULE VariantLocks ----------------------------
(***************************************************************************)
(* The transactions that move stock, one SQL statement at a time. An       *)
(* UPDATE of a variant takes the lock of its row and keeps it until the    *)
(* transaction ends; a second one waits. A checkout updates its variants   *)
(* in the order of their ids; releases, commits and restocks follow        *)
(* order_items.id, a random uuid, so any order of the lines is possible.   *)
(*                                                                         *)
(* Postgres runs at READ COMMITTED: the condition of an UPDATE is read off *)
(* the last committed row first - no match, no wait - and read again off   *)
(* the row as it is once the lock is there.                                *)
(***************************************************************************)
EXTENDS SequencesExt

CONSTANTS
  Tx,         \* transactions, each run at most once
  Variants,   \* how many variants there are; a number is a variant's id
  MaxQty,     \* the most units of a line
  MaxStock    \* bound on the stock an administrator types in

ASSUME VariantsAssumption == Variants \in Nat \ {0}
ASSUME QtyAssumption == MaxQty \in Nat \ {0} /\ MaxStock \in Nat

Variant == 1..Variants

\* The owner of a row that no open transaction has updated.
NoTx == "none"

ASSUME TxAssumption == NoTx \notin Tx

VARIABLES
  \* product_variants: the rows as committed, and as the lock holders have them
  committed, current,
  \* the transaction that has updated the row and not ended yet
  owner,
  \* what each transaction is about, and the variants it still has to update
  job, todo

lockVars == <<committed, current, owner, job, todo>>

Atomic == INSTANCE StockTransactions WITH rows <- committed

Init ==
  /\ Atomic!Init
  /\ current = committed
  /\ owner = [v \in Variant |-> NoTx]
  /\ todo = [t \in Tx |-> <<>>]

Running(t) == job[t].phase = "running"

-----------------------------------------------------------------------------
(* The statements of a transaction.                                        *)

\* Fault (mutation run): a checkout takes the lines as they come.
LineOrdersUnsorted(kind, lines) == SetToSeqs({v \in Variant : lines[v] > 0})

\* The order of a transaction's statements: any order of its lines, which follow the ids of
\* their rows - but reservationOrder sorts a checkout's lines by variant id.
LineOrders(kind, lines) ==
  {order \in SetToSeqs({v \in Variant : lines[v] > 0}) :
     kind = "reserve" => \A i, j \in DOMAIN order : i < j => order[i] < order[j]}

Begin(t, kind, lines) ==
  /\ job[t].phase = "idle"
  /\ job' = [job EXCEPT ![t] = [phase |-> "running", kind |-> kind, lines |-> lines]]
  /\ \E order \in LineOrders(kind, lines) : todo' = [todo EXCEPT ![t] = order]
  /\ UNCHANGED <<committed, current, owner>>

\* What t's next statement asks of a row.
Matches(t, row) == Atomic!Allows(job[t].kind, job[t].lines[Head(todo[t])], row)

\* Fault (mutation run): the check is left to the row read before the lock.
UpdateRowUnchecked(t) ==
  LET v == Head(todo[t])
  IN /\ Running(t) /\ todo[t] # <<>>
     /\ owner[v] \in {NoTx, t}
     /\ current' = [current EXCEPT ![v] = Atomic!Effect(job[t].kind, job[t].lines[v], @)]
     /\ owner' = [owner EXCEPT ![v] = t]
     /\ todo' = [todo EXCEPT ![t] = Tail(@)]
     /\ UNCHANGED <<committed, job>>

\* The statement gets the lock of the row and finds that the row matches.
UpdateRow(t) ==
  LET v == Head(todo[t])
  IN /\ Running(t) /\ todo[t] # <<>>
     /\ owner[v] \in {NoTx, t}
     /\ Matches(t, current[v])
     /\ current' = [current EXCEPT ![v] = Atomic!Effect(job[t].kind, job[t].lines[v], @)]
     /\ owner' = [owner EXCEPT ![v] = t]
     /\ todo' = [todo EXCEPT ![t] = Tail(@)]
     /\ UNCHANGED <<committed, job>>

-----------------------------------------------------------------------------
(* The end of a transaction.                                               *)

Mine(t) == {v \in Variant : owner[v] = t}

End(t, phase) ==
  /\ job' = [job EXCEPT ![t].phase = phase]
  /\ todo' = [todo EXCEPT ![t] = <<>>]
  /\ owner' = [v \in Variant |-> IF v \in Mine(t) THEN NoTx ELSE owner[v]]

Commit(t) ==
  /\ Running(t) /\ todo[t] = <<>>
  /\ committed' = [v \in Variant |-> IF v \in Mine(t) THEN current[v] ELSE committed[v]]
  /\ UNCHANGED current
  /\ End(t, "committed")

\* Fault (mutation run): an early return leaves the transaction open.
RollbackKeepingLocks(t) ==
  /\ job' = [job EXCEPT ![t].phase = "rolledBack"]
  /\ todo' = [todo EXCEPT ![t] = <<>>]
  /\ UNCHANGED <<committed, current, owner>>

\* withTx rolls back on every error.
Rollback(t) ==
  /\ current' = [v \in Variant |-> IF v \in Mine(t) THEN committed[v] ELSE current[v]]
  /\ UNCHANGED committed
  /\ End(t, "rolledBack")

\* ErrOutOfStock: the statement matched no row.
Miss(t) ==
  /\ Running(t) /\ todo[t] # <<>>
  /\ ~Matches(t, committed[Head(todo[t])])
  /\ Rollback(t)

\* The connection breaks or the request is cancelled.
Fail(t) == Running(t) /\ Rollback(t)

-----------------------------------------------------------------------------
(* Waiting.                                                                *)

Waits(t) == Running(t) /\ todo[t] # <<>> /\ owner[Head(todo[t])] \notin {NoTx, t}

\* The transactions of S wait for each other and for nobody else.
Deadlocked(S) ==
  /\ S # {}
  /\ \A t \in S : Waits(t)
  /\ {owner[Head(todo[t])] : t \in S} = S

\* Postgres ends a deadlock by failing a statement of one of them.
BreakDeadlock(t) == (\E S \in SUBSET Tx : t \in S /\ Deadlocked(S)) /\ Rollback(t)

-----------------------------------------------------------------------------
\* SetStock is one statement: it takes the lock and commits.
SetStock(v, n) ==
  /\ owner[v] = NoTx
  /\ n >= current[v].reserved
  /\ committed' = [committed EXCEPT ![v].stock = n]
  /\ current' = [current EXCEPT ![v].stock = n]
  /\ UNCHANGED <<owner, job, todo>>

Next ==
  \/ \E t \in Tx :
       \/ \E kind \in Atomic!Kind, lines \in Atomic!Cart : Begin(t, kind, lines)
       \/ UpdateRow(t) \/ Miss(t) \/ Commit(t) \/ Fail(t) \/ BreakDeadlock(t)
  \/ \E v \in Variant, n \in 0..MaxStock : SetStock(v, n)

Spec == Init /\ [][Next]_lockVars

\* A transaction goes on while nobody keeps it waiting, and the database looks for
\* deadlocks. Neither requests nor broken connections are owed.
LockFairness ==
  \A t \in Tx : WF_lockVars(UpdateRow(t) \/ Miss(t) \/ Commit(t)) /\ WF_lockVars(BreakDeadlock(t))

FairSpec == Spec /\ LockFairness

-----------------------------------------------------------------------------
(* Properties.                                                             *)

\* Whatever the statements of concurrent transactions do to each other, the committed
\* columns change by whole orders: every transaction takes effect at its commit, on
\* the rows as the commits before it left them, or not at all (withTx: "it either
\* happens completely or not at all").
AtomicSpec == Atomic!Spec

\* "Reserving in a fixed order keeps two concurrent checkouts over the same sizes from
\* deadlocking each other" (Create): checkouts alone never wait in a circle.
CheckoutsNeverDeadlock ==
  \A S \in SUBSET Tx : Deadlocked(S) => \E t \in S : job[t].kind # "reserve"

\* A callback, an expiry or a cancellation may still wait in a circle with a checkout
\* or with another of them; every transaction that starts ends all the same.
EveryTransactionEnds == \A t \in Tx : Running(t) ~> ~Running(t)
=============================================================================
