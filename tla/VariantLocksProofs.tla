-------------------------- MODULE VariantLocksProofs --------------------------
(***************************************************************************)
(* What the row locks of the database give the stock transactions, for any *)
(* number of transactions, variants and units: they act as if each of them *)
(* were one step, and checkouts alone never wait in a circle.              *)
(*                                                                         *)
(* The invariant says what a row that is locked holds: what its owner will *)
(* have made of the committed row, whose condition still holds because     *)
(* nobody else can change it; and that the lines of an open transaction    *)
(* are split between the rows it holds and those it still has to update.   *)
(***************************************************************************)
EXTENDS VariantLocks, Sums, TLAPS

\* The variants a transaction has lines of, and those it has not updated yet.
Asked(t) == {v \in Variant : job[t].lines[v] > 0}
Left(t) == {todo[t][i] : i \in DOMAIN todo[t]}

TypeOK ==
  /\ committed \in [Variant -> Atomic!Row]
  /\ current \in [Variant -> Atomic!Row]
  /\ owner \in [Variant -> Tx \cup {NoTx}]
  /\ job \in [Tx -> Atomic!Job]
  /\ todo \in [Tx -> Seq(Variant)]

\* The database's own CHECK holds for the committed rows.
RowsHold == \A v \in Variant : committed[v].reserved <= committed[v].stock

\* A row nobody holds is as committed; one that is held is what its owner makes of it.
HeldRow(v, t) ==
  /\ Running(t)
  /\ Atomic!Allows(job[t].kind, job[t].lines[v], committed[v])
  /\ current[v] = Atomic!Effect(job[t].kind, job[t].lines[v], committed[v])

RowsHeld ==
  \A v \in Variant :
    /\ owner[v] = NoTx => current[v] = committed[v]
    /\ \A t \in Tx : owner[v] = t => HeldRow(v, t)

\* The lines of an open transaction: updated and held, or still to come, each once.
LinesSplit(t) ==
  /\ \A v \in Variant : v \in Asked(t) <=> owner[v] = t \/ v \in Left(t)
  /\ \A v \in Left(t) : owner[v] # t
  /\ \A i, j \in DOMAIN todo[t] : todo[t][i] = todo[t][j] => i = j

\* A checkout goes through the variants upwards.
GoesUp(t) ==
  job[t].kind = "reserve" =>
    /\ \A i, j \in DOMAIN todo[t] : i < j => todo[t][i] < todo[t][j]
    /\ \A v \in Variant : owner[v] = t => \A w \in Left(t) : v < w

Open == \A t \in Tx : Running(t) => LinesSplit(t) /\ GoesUp(t)

LocksInv == TypeOK /\ RowsHold /\ RowsHeld /\ Open

-----------------------------------------------------------------------------
(* The operators of the model.                                             *)

\* The order of a transaction's statements names each of its lines once, and a checkout's
\* goes up (LineOrders).
LEMMA OrderOfLines ==
  ASSUME NEW kind, NEW lines, NEW order \in LineOrders(kind, lines)
  PROVE  /\ order \in Seq(Variant)
         /\ \A v \in Variant : lines[v] > 0 <=> v \in {order[i] : i \in DOMAIN order}
         /\ \A i, j \in DOMAIN order : order[i] = order[j] => i = j
         /\ kind = "reserve" => \A i, j \in DOMAIN order : i < j => order[i] < order[j]
<1> DEFINE asked == {v \in Variant : lines[v] > 0}
<1> DEFINE D == 1..Cardinality(asked)
<1>1. IsFiniteSet(asked) /\ Cardinality(asked) \in Nat
  <2>1. IsFiniteSet(Variant)
    BY FS_Interval, VariantsAssumption DEF Variant
  <2>2. asked \in SUBSET Variant
    OBVIOUS
  <2> HIDE DEF asked
  <2>3. IsFiniteSet(asked)
    BY <2>1, <2>2, FS_Subset
  <2> QED
    BY <2>3, FS_CardinalityType
<1>2. order \in [D -> asked] /\ (\A i, j \in D : i # j => order[i] # order[j])
  BY DEF LineOrders, SetToSeqs
<1>3. kind = "reserve" => \A i, j \in DOMAIN order : i < j => order[i] < order[j]
  BY DEF LineOrders
<1> HIDE DEF asked
<1>4. order \in Injection(D, asked)
  BY <1>2 DEF Injection, IsInjective
<1>5. IsFiniteSet(D) /\ Cardinality(D) = Cardinality(asked)
  BY <1>1, FS_Interval
<1>6. order \in Surjection(D, asked)
  BY <1>1, <1>4, <1>5, FS_Injection
<1>7. \A v \in asked : \E i \in D : order[i] = v
  BY <1>6 DEF Surjection
<1>8. order \in Seq(asked)
  BY <1>1, <1>2
<1>9. asked \subseteq Variant
  BY DEF asked
<1>10. order \in Seq(Variant)
  BY <1>8, <1>9
<1>11. DOMAIN order = D
  BY <1>2
<1>12. \A v \in Variant : lines[v] > 0 <=> v \in asked
  BY DEF asked
<1> QED
  BY <1>2, <1>3, <1>7, <1>10, <1>11, <1>12

\* A statement whose condition holds leaves a row that passes the database's CHECK, and
\* nothing happens to a row without a line.
LEMMA EffectKeepsRows ==
  ASSUME NEW kind \in Atomic!Kind, NEW qty \in Nat, NEW row \in Atomic!Row,
         row.reserved <= row.stock, Atomic!Allows(kind, qty, row)
  PROVE  /\ Atomic!Effect(kind, qty, row) \in Atomic!Row
         /\ Atomic!Effect(kind, qty, row).reserved <= Atomic!Effect(kind, qty, row).stock
<1>1. row.stock \in Nat /\ row.reserved \in Nat
  BY DEF Atomic!Row
<1>2. row = [stock |-> row.stock, reserved |-> row.reserved]
  BY DEF Atomic!Row
<1>3. CASE kind = "reserve"
  <2>1. Atomic!Effect(kind, qty, row) = [stock |-> row.stock, reserved |-> row.reserved + qty]
    BY <1>2, <1>3 DEF Atomic!Effect
  <2> QED
    BY <1>1, <1>3, <2>1 DEF Atomic!Row, Atomic!Allows
<1>4. CASE kind = "release"
  <2>1. Atomic!Effect(kind, qty, row)
          = [stock |-> row.stock, reserved |-> Atomic!Minus(row.reserved, qty)]
    BY <1>2, <1>4 DEF Atomic!Effect
  <2> QED
    BY <1>1, <2>1 DEF Atomic!Row, Atomic!Minus
<1>5. CASE kind = "commit"
  <2>1. Atomic!Effect(kind, qty, row)
          = [stock |-> Atomic!Minus(row.stock, qty), reserved |-> Atomic!Minus(row.reserved, qty)]
    BY <1>2, <1>5 DEF Atomic!Effect
  <2> QED
    BY <1>1, <2>1 DEF Atomic!Row, Atomic!Minus
<1>6. CASE kind = "restock"
  <2>1. Atomic!Effect(kind, qty, row) = [stock |-> row.stock + qty, reserved |-> row.reserved]
    BY <1>2, <1>6 DEF Atomic!Effect
  <2> QED
    BY <1>1, <2>1 DEF Atomic!Row
<1> QED
  BY <1>3, <1>4, <1>5, <1>6 DEF Atomic!Kind

LEMMA NoLineNoEffect ==
  ASSUME NEW kind \in Atomic!Kind, NEW row \in Atomic!Row, row.reserved <= row.stock
  PROVE  Atomic!Allows(kind, 0, row) /\ Atomic!Effect(kind, 0, row) = row
<1>1. row.stock \in Nat /\ row.reserved \in Nat
  BY DEF Atomic!Row
<1>2. row = [stock |-> row.stock, reserved |-> row.reserved]
  BY DEF Atomic!Row
<1>3. Atomic!Minus(row.stock, 0) = row.stock /\ Atomic!Minus(row.reserved, 0) = row.reserved
  BY <1>1 DEF Atomic!Minus
<1>4. row.stock + 0 = row.stock /\ row.reserved + 0 = row.reserved /\ row.stock - row.reserved >= 0
  BY <1>1
<1>5. Atomic!Effect(kind, 0, row) = [stock |-> row.stock, reserved |-> row.reserved]
  BY <1>2, <1>3, <1>4 DEF Atomic!Effect, Atomic!Kind
<1> QED
  BY <1>2, <1>4, <1>5 DEF Atomic!Allows

\* The statements that are left after the next one.
LEMMA RestOfStatements ==
  ASSUME NEW s \in Seq(Variant), s # <<>>
  PROVE  /\ Head(s) \in Variant /\ 1 \in DOMAIN s /\ Head(s) = s[1]
         /\ Tail(s) \in Seq(Variant)
         /\ \A i \in DOMAIN Tail(s) : i + 1 \in DOMAIN s /\ Tail(s)[i] = s[i + 1]
         /\ \A i \in DOMAIN s : i # 1 => i - 1 \in DOMAIN Tail(s) /\ Tail(s)[i - 1] = s[i]
         /\ DOMAIN s \subseteq Nat /\ DOMAIN Tail(s) \subseteq Nat
  OBVIOUS
-----------------------------------------------------------------------------
(* The invariant, action by action.                                        *)

LEMMA InitHolds == Init => LocksInv
<1> SUFFICES ASSUME Init PROVE LocksInv
  OBVIOUS
<1>1. /\ committed \in [Variant -> [stock : 0..MaxStock, reserved : 0..MaxStock]]
      /\ \A v \in Variant : committed[v].reserved <= committed[v].stock
      /\ job = [t \in Tx |-> Atomic!NoJob]
      /\ current = committed
      /\ owner = [v \in Variant |-> NoTx]
      /\ todo = [t \in Tx |-> <<>>]
  BY DEF Init, Atomic!Init
<1>2. Atomic!NoJob \in Atomic!Job /\ Atomic!NoJob.phase = "idle"
  BY QtyAssumption DEF Atomic!NoJob, Atomic!Job, Atomic!Phase, Atomic!Kind, Atomic!Lines
<1>3. 0..MaxStock \subseteq Nat
  BY QtyAssumption
<1>4. committed \in [Variant -> Atomic!Row]
  BY <1>1, <1>3 DEF Atomic!Row
<1>5. TypeOK
  BY <1>1, <1>2, <1>4 DEF TypeOK
<1>6. RowsHeld
  BY <1>1, TxAssumption DEF RowsHeld
<1>7. \A t \in Tx : ~Running(t)
  BY <1>1, <1>2 DEF Running
<1> QED
  BY <1>1, <1>5, <1>6, <1>7 DEF LocksInv, RowsHold, Open

LEMMA BeginKeeps ==
  ASSUME LocksInv, NEW t \in Tx, NEW kind \in Atomic!Kind, NEW lines \in Atomic!Cart,
         Begin(t, kind, lines)
  PROVE  LocksInv'
<1> USE DEF LocksInv
<1>1. PICK order \in LineOrders(kind, lines) : todo' = [todo EXCEPT ![t] = order]
  BY DEF Begin
<1>2. /\ order \in Seq(Variant)
      /\ \A v \in Variant : lines[v] > 0 <=> v \in {order[i] : i \in DOMAIN order}
      /\ \A i, j \in DOMAIN order : order[i] = order[j] => i = j
      /\ kind = "reserve" => \A i, j \in DOMAIN order : i < j => order[i] < order[j]
  BY OrderOfLines
<1> DEFINE new == [phase |-> "running", kind |-> kind, lines |-> lines]
<1>3. new \in Atomic!Job /\ new.phase = "running" /\ new.kind = kind /\ new.lines = lines
  BY DEF Atomic!Job, Atomic!Phase, Atomic!Cart
<1> HIDE DEF new
<1>4. /\ job' = [job EXCEPT ![t] = new] /\ ~Running(t)
      /\ committed' = committed /\ current' = current /\ owner' = owner
  BY DEF Begin, Running, new
<1>5. /\ job'[t] = new /\ todo'[t] = order
      /\ \A u \in Tx : u # t => job'[u] = job[u] /\ todo'[u] = todo[u]
  BY <1>1, <1>4 DEF TypeOK
<1>6. TypeOK'
  BY <1>1, <1>2, <1>3, <1>4 DEF TypeOK
<1>7. \A v \in Variant : owner[v] # t
  BY <1>4 DEF RowsHeld, HeldRow
<1>8. RowsHold'
  BY <1>4 DEF RowsHold
<1>9. RowsHeld'
  BY <1>4, <1>5, <1>7 DEF RowsHeld, HeldRow, Running
<1>10. ASSUME NEW u \in Tx, Running(u)' PROVE LinesSplit(u)' /\ GoesUp(u)'
  <2>1. CASE u = t
    <3>1. LinesSplit(t)'
      BY <1>2, <1>3, <1>4, <1>5, <1>7 DEF LinesSplit, Asked, Left
    <3>2. GoesUp(t)'
      BY <1>2, <1>3, <1>4, <1>5, <1>7 DEF GoesUp, Left
    <3> QED
      BY <2>1, <3>1, <3>2
  <2>2. CASE u # t
    <3>1. LinesSplit(u) /\ GoesUp(u)
      BY <1>5, <1>10, <2>2 DEF Open, Running
    <3> QED
      BY <1>4, <1>5, <2>2, <3>1 DEF LinesSplit, GoesUp, Asked, Left
  <2> QED
    BY <2>1, <2>2
<1> QED
  BY <1>6, <1>8, <1>9, <1>10 DEF Open

LEMMA UpdateKeeps ==
  ASSUME LocksInv, NEW t \in Tx, UpdateRow(t)
  PROVE  LocksInv'
<1> USE DEF LocksInv
<1> DEFINE v == Head(todo[t])
<1> DEFINE done == Atomic!Effect(job[t].kind, job[t].lines[v], current[v])
<1>1. /\ Running(t) /\ todo[t] # <<>> /\ owner[v] \in {NoTx, t}
      /\ Atomic!Allows(job[t].kind, job[t].lines[v], current[v])
      /\ current' = [current EXCEPT ![v] = done]
      /\ owner' = [owner EXCEPT ![v] = t]
      /\ todo' = [todo EXCEPT ![t] = Tail(todo[t])]
      /\ committed' = committed /\ job' = job
  BY DEF UpdateRow, Matches
<1>2. todo[t] \in Seq(Variant)
  BY DEF TypeOK
<1>3. /\ v \in Variant /\ 1 \in DOMAIN todo[t] /\ v = todo[t][1]
      /\ Tail(todo[t]) \in Seq(Variant)
      /\ \A i \in DOMAIN Tail(todo[t]) : i + 1 \in DOMAIN todo[t] /\ Tail(todo[t])[i] = todo[t][i + 1]
      /\ \A i \in DOMAIN todo[t] :
           i # 1 => i - 1 \in DOMAIN Tail(todo[t]) /\ Tail(todo[t])[i - 1] = todo[t][i]
      /\ DOMAIN todo[t] \subseteq Nat /\ DOMAIN Tail(todo[t]) \subseteq Nat
  BY <1>1, <1>2, RestOfStatements
<1>4. LinesSplit(t) /\ GoesUp(t)
  BY <1>1 DEF Open
<1>5. v \in Left(t)
  BY <1>3 DEF Left
<1>6. owner[v] = NoTx /\ current[v] = committed[v]
  BY <1>1, <1>3, <1>4, <1>5 DEF LinesSplit, RowsHeld
<1>7. /\ job[t] \in Atomic!Job /\ job[t].kind \in Atomic!Kind /\ job[t].lines[v] \in Nat
      /\ current[v] \in Atomic!Row /\ committed[v].reserved <= committed[v].stock
  BY <1>3, QtyAssumption DEF TypeOK, Atomic!Job, Atomic!Lines, RowsHold
<1>8. done \in Atomic!Row
  BY <1>1, <1>6, <1>7, EffectKeepsRows
<1> HIDE DEF v, done
<1>9. /\ current'[v] = done /\ owner'[v] = t /\ todo'[t] = Tail(todo[t])
      /\ \A w \in Variant : w # v => current'[w] = current[w] /\ owner'[w] = owner[w]
      /\ \A u \in Tx : u # t => todo'[u] = todo[u]
  BY <1>1, <1>3 DEF TypeOK
<1>10. TypeOK'
  BY <1>1, <1>3, <1>8 DEF TypeOK
<1>11. RowsHold'
  BY <1>1 DEF RowsHold
<1>12. RowsHeld'
  <2> SUFFICES ASSUME NEW w \in Variant
               PROVE  /\ owner'[w] = NoTx => current'[w] = committed'[w]
                      /\ \A u \in Tx : owner'[w] = u => HeldRow(w, u)'
    BY DEF RowsHeld
  <2>1. CASE w = v
    BY <1>1, <1>6, <1>9, <2>1, TxAssumption DEF HeldRow, Running, done
  <2>2. CASE w # v
    BY <1>1, <1>9, <2>2 DEF RowsHeld, HeldRow, Running
  <2> QED
    BY <2>1, <2>2
<1>13. ASSUME NEW u \in Tx, Running(u)' PROVE LinesSplit(u)' /\ GoesUp(u)'
  <2>1. CASE u = t
    <3>1. \A w \in Variant : w \in Left(t)' <=> w \in Left(t) /\ w # v
      <4>1. ASSUME NEW i \in DOMAIN todo'[t]
            PROVE  todo'[t][i] \in Left(t) /\ todo'[t][i] # v
        <5>1. /\ i + 1 \in DOMAIN todo[t] /\ todo'[t][i] = todo[t][i + 1]
              /\ i + 1 # 1
          BY <1>3, <1>9, <4>1
        <5>2. todo[t][i + 1] # todo[t][1]
          BY <1>3, <1>4, <5>1 DEF LinesSplit
        <5> QED
          BY <1>3, <5>1, <5>2 DEF Left
      <4>2. ASSUME NEW i \in DOMAIN todo[t], todo[t][i] # v
            PROVE  todo[t][i] \in Left(t)'
        <5>1. i # 1
          BY <1>3, <4>2
        <5>2. i - 1 \in DOMAIN todo'[t] /\ todo'[t][i - 1] = todo[t][i]
          BY <1>3, <1>9, <4>2, <5>1
        <5> QED
          BY <5>2 DEF Left
      <4> QED
        BY <4>1, <4>2 DEF Left
    <3>2. Left(t)' \subseteq Variant /\ Left(t)' \subseteq Left(t)
      BY <1>3, <1>9 DEF Left
    <3>3. \A i, j \in DOMAIN todo'[t] : todo'[t][i] = todo'[t][j] => i = j
      <4>1. TAKE i, j \in DOMAIN todo'[t]
      <4>2. /\ i + 1 \in DOMAIN todo[t] /\ todo'[t][i] = todo[t][i + 1] /\ i \in Nat
            /\ j + 1 \in DOMAIN todo[t] /\ todo'[t][j] = todo[t][j + 1] /\ j \in Nat
        BY <1>3, <1>9
      <4>3. \A x, y \in DOMAIN todo[t] : todo[t][x] = todo[t][y] => x = y
        BY <1>4 DEF LinesSplit
      <4>4. todo[t][i + 1] = todo[t][j + 1] => i + 1 = j + 1
        BY <4>2, <4>3
      <4> QED
        BY <4>2, <4>4
    <3>4. LinesSplit(t)'
      BY <1>1, <1>3, <1>4, <1>5, <1>9, <3>1, <3>2, <3>3 DEF LinesSplit, Asked
    <3>5. GoesUp(t)'
      <4> SUFFICES ASSUME job'[t].kind = "reserve"
                   PROVE  /\ \A i, j \in DOMAIN todo'[t] : i < j => todo'[t][i] < todo'[t][j]
                          /\ \A w \in Variant : owner'[w] = t => \A x \in Left(t)' : w < x
        BY DEF GoesUp
      <4>1. \A i, j \in DOMAIN todo[t] : i < j => todo[t][i] < todo[t][j]
        BY <1>1, <1>4 DEF GoesUp
      <4>2. \A i, j \in DOMAIN todo'[t] : i < j => todo'[t][i] < todo'[t][j]
        BY <1>3, <1>9, <4>1
      <4>3. \A x \in Left(t)' : v < x
        <5>1. SUFFICES ASSUME NEW i \in DOMAIN todo'[t] PROVE v < todo'[t][i]
          BY DEF Left
        <5>2. i + 1 \in DOMAIN todo[t] /\ todo'[t][i] = todo[t][i + 1] /\ 1 < i + 1
          BY <1>3, <1>9, <5>1
        <5> QED
          BY <1>3, <4>1, <5>2
      <4> QED
        BY <1>1, <1>4, <1>9, <3>2, <4>2, <4>3 DEF GoesUp
    <3> QED
      BY <2>1, <3>4, <3>5
  <2>2. CASE u # t
    <3>1. LinesSplit(u) /\ GoesUp(u)
      BY <1>1, <1>13 DEF Open, Running
    <3>2. \A w \in Variant : owner'[w] = u <=> owner[w] = u
      BY <1>6, <1>9, <2>2, TxAssumption
    <3>3. Left(u)' = Left(u) /\ Asked(u)' = Asked(u)
      BY <1>1, <1>9, <2>2 DEF Left, Asked
    <3>4. Left(u) \subseteq Variant
      BY DEF Left, TypeOK
    <3>5. LinesSplit(u)'
      BY <1>9, <2>2, <3>1, <3>2, <3>3, <3>4 DEF LinesSplit
    <3>6. GoesUp(u)'
      BY <1>1, <1>9, <2>2, <3>1, <3>2, <3>3, <3>4 DEF GoesUp
    <3> QED
      BY <3>5, <3>6
  <2> QED
    BY <2>1, <2>2
<1> QED
  BY <1>10, <1>11, <1>12, <1>13 DEF Open

\* What both ends of a transaction do: the rows it held are nobody's.
LEMMA EndKeeps ==
  ASSUME LocksInv, NEW t \in Tx, NEW phase \in Atomic!Phase \ {"running"}, End(t, phase),
         committed' \in [Variant -> Atomic!Row], current' \in [Variant -> Atomic!Row],
         \A v \in Variant : owner[v] = t => current'[v] = committed'[v],
         \A v \in Variant : owner[v] # t => current'[v] = current[v] /\ committed'[v] = committed[v]
  PROVE  TypeOK' /\ RowsHeld' /\ Open'
<1> USE DEF LocksInv
<1> DEFINE ended == [job[t] EXCEPT !.phase = phase]
<1>1. /\ job' = [job EXCEPT ![t] = ended]
      /\ todo' = [todo EXCEPT ![t] = <<>>]
      /\ owner' = [v \in Variant |-> IF v \in Mine(t) THEN NoTx ELSE owner[v]]
  BY DEF End, TypeOK
<1>2. ended \in Atomic!Job /\ ended.phase # "running"
  <2>1. job[t] \in Atomic!Job
    BY DEF TypeOK
  <2> QED
    BY <2>1 DEF Atomic!Job
<1> HIDE DEF ended
<1>3. /\ job'[t] = ended
      /\ \A u \in Tx : u # t => job'[u] = job[u] /\ todo'[u] = todo[u]
      /\ \A v \in Variant : owner[v] = t => owner'[v] = NoTx
      /\ \A v \in Variant : owner[v] # t => owner'[v] = owner[v]
  BY <1>1 DEF TypeOK, Mine
<1>4. TypeOK'
  <2>1. owner' \in [Variant -> Tx \cup {NoTx}]
    BY <1>1 DEF TypeOK, Mine
  <2>2. job' \in [Tx -> Atomic!Job]
    BY <1>1, <1>2 DEF TypeOK
  <2>3. todo' \in [Tx -> Seq(Variant)]
    BY <1>1 DEF TypeOK
  <2> QED
    BY <2>1, <2>2, <2>3 DEF TypeOK
<1>5. RowsHeld'
  <2> SUFFICES ASSUME NEW v \in Variant
               PROVE  /\ owner'[v] = NoTx => current'[v] = committed'[v]
                      /\ \A u \in Tx : owner'[v] = u => HeldRow(v, u)'
    BY DEF RowsHeld
  <2>1. CASE owner[v] = t
    BY <1>3, <2>1, TxAssumption
  <2>2. CASE owner[v] # t
    BY <1>3, <2>2 DEF RowsHeld, HeldRow, Running
  <2> QED
    BY <2>1, <2>2
<1>6. Open'
  <2> SUFFICES ASSUME NEW u \in Tx, Running(u)' PROVE LinesSplit(u)' /\ GoesUp(u)'
    BY DEF Open
  <2>1. u # t
    BY <1>2, <1>3 DEF Running
  <2>2. LinesSplit(u) /\ GoesUp(u)
    BY <1>3, <2>1 DEF Open, Running
  <2>3. \A v \in Variant : owner'[v] = u <=> owner[v] = u
    BY <1>3, <2>1, TxAssumption
  <2>4. Left(u)' = Left(u) /\ Asked(u)' = Asked(u) /\ Left(u) \subseteq Variant
    BY <1>3, <2>1 DEF Left, Asked, TypeOK
  <2>5. LinesSplit(u)'
    BY <1>3, <2>1, <2>2, <2>3, <2>4 DEF LinesSplit
  <2>6. GoesUp(u)'
    BY <1>3, <2>1, <2>2, <2>3, <2>4 DEF GoesUp
  <2> QED
    BY <2>5, <2>6
<1> QED
  BY <1>4, <1>5, <1>6

LEMMA RollbackKeeps ==
  ASSUME LocksInv, NEW t \in Tx, Rollback(t)
  PROVE  LocksInv'
<1>1. /\ current' = [v \in Variant |-> IF v \in Mine(t) THEN committed[v] ELSE current[v]]
      /\ committed' = committed /\ End(t, "rolledBack")
  BY DEF Rollback
<1>2. current' \in [Variant -> Atomic!Row] /\ committed' \in [Variant -> Atomic!Row]
  BY <1>1 DEF LocksInv, TypeOK
<1>3. "rolledBack" \in Atomic!Phase \ {"running"}
  BY DEF Atomic!Phase
<1>4. \A v \in Variant : owner[v] = t => current'[v] = committed'[v]
  BY <1>1 DEF Mine
<1>5. \A v \in Variant : owner[v] # t => current'[v] = current[v] /\ committed'[v] = committed[v]
  BY <1>1 DEF Mine
<1>6. TypeOK' /\ RowsHeld' /\ Open'
  BY <1>1, <1>2, <1>3, <1>4, <1>5, EndKeeps
<1> QED
  BY <1>1, <1>6 DEF LocksInv, RowsHold

\* A transaction that has run all its statements holds the rows of exactly its lines: what
\* it has made of each of them, its lines allowed, and it becomes the committed row.
LEMMA CommitSettles ==
  ASSUME LocksInv, NEW t \in Tx, Commit(t)
  PROVE  /\ \A v \in Variant : /\ Atomic!Allows(job[t].kind, job[t].lines[v], committed[v])
                               /\ committed'[v] = Atomic!Effect(job[t].kind, job[t].lines[v], committed[v])
         /\ committed' = [v \in Variant |-> Atomic!Effect(job[t].kind, job[t].lines[v], committed[v])]
<1> USE DEF LocksInv
<1>1. /\ Running(t) /\ todo[t] = <<>>
      /\ committed' = [v \in Variant |-> IF v \in Mine(t) THEN current[v] ELSE committed[v]]
  BY DEF Commit
<1> SUFFICES ASSUME NEW v \in Variant
             PROVE  /\ Atomic!Allows(job[t].kind, job[t].lines[v], committed[v])
                    /\ committed'[v] = Atomic!Effect(job[t].kind, job[t].lines[v], committed[v])
  BY <1>1
<1>2. CASE owner[v] = t
  BY <1>1, <1>2 DEF RowsHeld, HeldRow, Mine
<1>3. CASE owner[v] # t
  <2>1. v \notin Left(t)
    BY <1>1 DEF Left
  <2>2. ~(job[t].lines[v] > 0)
    BY <1>1, <1>3, <2>1 DEF Open, LinesSplit, Asked
  <2>3. job[t].kind \in Atomic!Kind /\ job[t].lines[v] \in 0..MaxQty
    BY DEF TypeOK, Atomic!Job, Atomic!Lines
  <2>4. job[t].lines[v] = 0
    BY <2>2, <2>3, QtyAssumption
  <2>5. committed[v] \in Atomic!Row /\ committed[v].reserved <= committed[v].stock
    BY DEF TypeOK, RowsHold
  <2>6. committed'[v] = committed[v]
    BY <1>1, <1>3 DEF Mine
  <2> QED
    BY <2>3, <2>4, <2>5, <2>6, NoLineNoEffect
<1> QED
  BY <1>2, <1>3

LEMMA CommitKeeps ==
  ASSUME LocksInv, NEW t \in Tx, Commit(t)
  PROVE  LocksInv'
<1>1. /\ committed' = [v \in Variant |-> IF v \in Mine(t) THEN current[v] ELSE committed[v]]
      /\ current' = current /\ End(t, "committed")
  BY DEF Commit
<1>2. current' \in [Variant -> Atomic!Row] /\ committed' \in [Variant -> Atomic!Row]
  BY <1>1 DEF LocksInv, TypeOK
<1>3. "committed" \in Atomic!Phase \ {"running"}
  BY DEF Atomic!Phase
<1>4. \A v \in Variant : owner[v] = t => current'[v] = committed'[v]
  BY <1>1 DEF Mine
<1>5. \A v \in Variant : owner[v] # t => current'[v] = current[v] /\ committed'[v] = committed[v]
  BY <1>1 DEF Mine
<1>6. TypeOK' /\ RowsHeld' /\ Open'
  BY <1>1, <1>2, <1>3, <1>4, <1>5, EndKeeps
<1>7. ASSUME NEW v \in Variant PROVE committed'[v].reserved <= committed'[v].stock
  <2>1. /\ job[t].kind \in Atomic!Kind /\ job[t].lines[v] \in Nat
        /\ committed[v] \in Atomic!Row /\ committed[v].reserved <= committed[v].stock
    BY QtyAssumption DEF LocksInv, TypeOK, RowsHold, Atomic!Job, Atomic!Lines
  <2> QED
    BY <2>1, CommitSettles, EffectKeepsRows
<1> QED
  BY <1>6, <1>7 DEF LocksInv, RowsHold

LEMMA SetStockKeeps ==
  ASSUME LocksInv, NEW v \in Variant, NEW n \in 0..MaxStock, SetStock(v, n)
  PROVE  LocksInv'
<1> USE DEF LocksInv
<1> DEFINE typed == [committed[v] EXCEPT !.stock = n]
<1>1. owner[v] = NoTx /\ current[v] = committed[v] /\ n >= committed[v].reserved
  BY DEF SetStock, RowsHeld
<1>2. /\ committed' = [committed EXCEPT ![v] = typed] /\ current' = [current EXCEPT ![v] = typed]
      /\ owner' = owner /\ job' = job /\ todo' = todo
  BY <1>1 DEF SetStock
<1>3. committed[v] \in Atomic!Row /\ n \in Nat
  BY QtyAssumption DEF TypeOK
<1>4. typed \in Atomic!Row /\ typed.reserved <= typed.stock
  BY <1>1, <1>3 DEF Atomic!Row
<1> HIDE DEF typed
<1>5. TypeOK'
  BY <1>2, <1>4 DEF TypeOK
<1>6. /\ committed'[v] = typed /\ current'[v] = typed
      /\ \A w \in Variant : w # v => committed'[w] = committed[w] /\ current'[w] = current[w]
  BY <1>2 DEF TypeOK
<1>7. RowsHold'
  BY <1>4, <1>6 DEF RowsHold
<1>8. RowsHeld'
  BY <1>1, <1>2, <1>6, TxAssumption DEF RowsHeld, HeldRow, Running
<1>9. Open'
  BY <1>2 DEF Open, Running, LinesSplit, GoesUp, Asked, Left
<1> QED
  BY <1>5, <1>7, <1>8, <1>9

-----------------------------------------------------------------------------
(* The theorems.                                                           *)

LEMMA StepKeeps ==
  ASSUME LocksInv, [Next]_lockVars
  PROVE  LocksInv'
<1>1. CASE \E t \in Tx, kind \in Atomic!Kind, lines \in Atomic!Cart : Begin(t, kind, lines)
  BY <1>1, BeginKeeps
<1>2. CASE \E t \in Tx : UpdateRow(t)
  BY <1>2, UpdateKeeps
<1>3. CASE \E t \in Tx : Miss(t) \/ Fail(t) \/ BreakDeadlock(t)
  <2>1. PICK t \in Tx : Rollback(t)
    BY <1>3 DEF Miss, Fail, BreakDeadlock
  <2> QED
    BY <2>1, RollbackKeeps
<1>4. CASE \E t \in Tx : Commit(t)
  BY <1>4, CommitKeeps
<1>5. CASE \E v \in Variant, n \in 0..MaxStock : SetStock(v, n)
  BY <1>5, SetStockKeeps
<1>6. CASE UNCHANGED lockVars
  BY <1>6 DEF lockVars, LocksInv, TypeOK, RowsHold, RowsHeld, HeldRow, Open, LinesSplit, GoesUp,
              Running, Asked, Left
<1> QED
  BY <1>1, <1>2, <1>3, <1>4, <1>5, <1>6 DEF Next

\* What every locked row holds, and what every open transaction still has to do.
THEOREM LocksHold == Spec => []LocksInv
<1>1. Init => LocksInv
  BY InitHolds
<1>2. LocksInv /\ [Next]_lockVars => LocksInv'
  BY StepKeeps
<1> QED
  BY <1>1, <1>2, PTL DEF Spec

\* Among the variants some transactions wait for there is a last one.
LEMMA LastVariant ==
  ASSUME NEW W \in SUBSET Variant, W # {}
  PROVE  \E v \in W : \A w \in W : w <= v
<1> DEFINE short == {n \in Nat : \E w \in W : n = Variants - w}
<1>1. ASSUME NEW w \in W PROVE Variants - w \in short
  BY VariantsAssumption DEF Variant
<1>2. short \in SUBSET Nat /\ short # {}
  BY <1>1
<1> HIDE DEF short
<1>3. PICK least \in short : \A n \in short : least <= n
  BY <1>2, LeastNumber
<1>4. PICK v \in W : least = Variants - v
  BY <1>3 DEF short
<1>5. ASSUME NEW w \in W PROVE w <= v
  <2>1. Variants - v <= Variants - w
    BY <1>1, <1>3, <1>4
  <2> QED
    BY <2>1, VariantsAssumption DEF Variant
<1> QED
  BY <1>5

\* Of checkouts that wait in a circle, take the one that waits for the last variant: who
\* holds it goes on upwards, and waits for a later one.
LEMMA OrderPreventsCircles == LocksInv => CheckoutsNeverDeadlock
<1> SUFFICES ASSUME LocksInv, NEW S \in SUBSET Tx, Deadlocked(S),
                    \A t \in S : job[t].kind = "reserve"
             PROVE  FALSE
  BY DEF CheckoutsNeverDeadlock
<1> DEFINE W == {Head(todo[t]) : t \in S}
<1>1. \A t \in S : Waits(t) /\ owner[Head(todo[t])] \in S
  BY DEF Deadlocked
<1>2. ASSUME NEW t \in S PROVE Head(todo[t]) \in Variant /\ Head(todo[t]) \in Left(t)
  <2>1. todo[t] \in Seq(Variant) /\ todo[t] # <<>>
    BY <1>1 DEF LocksInv, TypeOK, Waits
  <2> QED
    BY <2>1, RestOfStatements DEF Left
<1>3. W \in SUBSET Variant /\ W # {}
  BY <1>2 DEF Deadlocked
<1>4. PICK v \in W : \A w \in W : w <= v
  BY <1>3, LastVariant
<1>5. PICK u \in S : owner[v] = u
  BY <1>1, <1>4
<1>6. Running(u) /\ Head(todo[u]) \in Left(u)
  BY <1>1, <1>2 DEF Waits
<1>7. v < Head(todo[u])
  BY <1>3, <1>5, <1>6 DEF LocksInv, Open, GoesUp
<1>8. Head(todo[u]) <= v
  BY <1>4
<1> QED
  BY <1>2, <1>3, <1>7, <1>8 DEF Variant

\* "Reserving in a fixed order keeps two concurrent checkouts over the same sizes from
\* deadlocking each other" (Create), however many of them there are.
THEOREM CheckoutsDoNotDeadlock == Spec => []CheckoutsNeverDeadlock
  BY LocksHold, OrderPreventsCircles, PTL

\* Each step of the statements is a step of the whole transactions, or is not seen there.
LEMMA StepIsAtomic ==
  ASSUME LocksInv, [Next]_lockVars
  PROVE  [Atomic!Next]_Atomic!txVars
<1>1. ASSUME NEW t \in Tx, NEW kind \in Atomic!Kind, NEW lines \in Atomic!Cart, Begin(t, kind, lines)
      PROVE  Atomic!Next
  <2>1. Atomic!Start(t, kind, lines)
    BY <1>1 DEF Begin, Atomic!Start
  <2> QED
    BY <2>1 DEF Atomic!Next
<1>2. ASSUME NEW t \in Tx, UpdateRow(t) PROVE UNCHANGED Atomic!txVars
  BY <1>2 DEF UpdateRow, Atomic!txVars
<1>3. ASSUME NEW t \in Tx, Running(t), Rollback(t) PROVE Atomic!Next
  <2>1. Atomic!GiveUp(t)
    BY <1>3 DEF Rollback, End, Running, Atomic!GiveUp
  <2> QED
    BY <2>1 DEF Atomic!Next
<1>4. ASSUME NEW t \in Tx, Commit(t) PROVE Atomic!Next
  <2>1. /\ \A v \in Variant : Atomic!Allows(job[t].kind, job[t].lines[v], committed[v])
        /\ committed' = [v \in Variant |-> Atomic!Effect(job[t].kind, job[t].lines[v], committed[v])]
    BY <1>4, CommitSettles
  <2>2. Running(t) /\ job' = [job EXCEPT ![t].phase = "committed"]
    BY <1>4 DEF Commit, End
  <2>3. Atomic!Settle(t)
    BY <2>1, <2>2 DEF Running, Atomic!Settle
  <2> QED
    BY <2>3 DEF Atomic!Next
<1>5. ASSUME NEW v \in Variant, NEW n \in 0..MaxStock, SetStock(v, n) PROVE Atomic!Next
  <2>1. current[v] = committed[v]
    BY <1>5 DEF SetStock, LocksInv, RowsHeld
  <2>2. Atomic!Recount(v, n)
    BY <1>5, <2>1 DEF SetStock, Atomic!Recount
  <2> QED
    BY <2>2 DEF Atomic!Next
<1>6. CASE \E t \in Tx : Miss(t) \/ Fail(t) \/ BreakDeadlock(t)
  <2>1. PICK t \in Tx : Running(t) /\ Rollback(t)
    BY <1>6 DEF Miss, Fail, BreakDeadlock, Deadlocked, Waits
  <2> QED
    BY <1>3, <2>1
<1>7. CASE UNCHANGED lockVars
  BY <1>7 DEF lockVars, Atomic!txVars
<1> QED
  BY <1>1, <1>2, <1>4, <1>5, <1>6, <1>7 DEF Next

\* The rows and transactions of VariantLocks implement those of StockTransactions: every
\* transaction takes effect at its commit, as a whole and on the rows the commits before it
\* left, or not at all (withTx).
THEOREM LocksMakeAtomic == Spec => AtomicSpec
<1>1. Init => Atomic!Init
  BY DEF Init
<1>2. LocksInv /\ [Next]_lockVars => [Atomic!Next]_Atomic!txVars
  BY StepIsAtomic
<1> QED
  BY <1>1, <1>2, LocksHold, PTL DEF Spec, AtomicSpec, Atomic!Spec
=============================================================================
