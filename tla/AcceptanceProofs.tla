-------------------------- MODULE AcceptanceProofs --------------------------
(* What TLAPS proves about the acceptance of a proposal in                 *)
(* StandardClauses: the operations already run are all there, in the       *)
(* transaction's view, on the rows they were reviewed against.             *)
EXTENDS StandardClausesProofs, FiniteSetTheorems

-----------------------------------------------------------------------------
(* A list of operations against rows: old, the committed ones, and r, what *)
(* the transaction that has run the first n of them sees.                  *)

Shaped(ops) ==
    /\ ops \in Seq(Op)
    /\ \A i \in 1..Len(ops) : /\ ops[i].op \in {"edit", "delete", "add"}
                              /\ ops[i].op = "add" => ops[i].at \in {0, 1}

Reviewed(ops, old) ==
    /\ \A i \in 1..Len(ops) :
           /\ ops[i].clause \in Live(old)
           /\ ops[i].op # "add" => old[ops[i].clause].body = ops[i].before
    /\ \A i, j \in 1..Len(ops) :
           ops[i].op = "add" /\ ops[j].op = "delete" => ops[i].clause # ops[j].clause

EditsHold(ops, n, r) ==
    \A i \in 1..n : /\ ops[i].op = "edit"
                    /\ \A j \in 1..n : j > i /\ ops[j].op = "edit" => ops[j].clause # ops[i].clause
                    => r[ops[i].clause].body = ops[i].body

DeletesHold(ops, n, r) ==
    /\ \A i \in 1..n : ops[i].op = "delete" => ops[i].clause \notin Live(r)
    /\ \A i \in 1..Len(ops) : ops[i].op = "add" => ops[i].clause \in Live(r)

Between(r, a, b, h) == r[a].place < r[h].place /\ r[h].place < r[b].place

(* The new clause stands on its side of the anchor, and no older one stands *)
(* between them.                                                           *)
Beside(o, new, old, r) ==
    /\ IF o.at = 0 THEN r[new].place < r[o.clause].place ELSE r[o.clause].place < r[new].place
    /\ \A h \in Live(old) \cap Live(r) :
           ~Between(r, o.clause, new, h) /\ ~Between(r, new, o.clause, h)

AddsStand(ops, n, old, r) ==
    \A i \in 1..n : ops[i].op = "add" =>
        \E h \in Live(r) \ Live(old) : r[h].body = ops[i].body /\ Beside(ops[i], h, old, r)

Adds(ops, n) == {i \in 1..n : ops[i].op = "add"}

AddsCounted(ops, n, old, r) == Cardinality(Live(r) \ Live(old)) = Cardinality(Adds(ops, n))

Applied(ops, n, old, r) ==
    /\ EditsHold(ops, n, r) /\ DeletesHold(ops, n, r)
    /\ AddsStand(ops, n, old, r) /\ AddsCounted(ops, n, old, r)

LEMMA NothingApplied ==
    ASSUME NEW ops, Shaped(ops), NEW old, Reviewed(ops, old) PROVE Applied(ops, 0, old, old)
<1>1. Live(old) \ Live(old) = {} /\ Adds(ops, 0) = {}
  BY DEF Adds
<1> QED
  BY <1>1 DEF Applied, EditsHold, DeletesHold, AddsStand, AddsCounted, Reviewed

LEMMA EditApplied ==
    ASSUME NEW ops, Shaped(ops), NEW old \in [Handle -> Row], Reviewed(ops, old),
           NEW r \in [Handle -> Row], NEW n \in Nat, n < Len(ops), Applied(ops, n, old, r),
           ops[n + 1].op = "edit", NEW s,
           \A h \in Handle : s[h] = IF h = ops[n + 1].clause
                                      THEN [r[h] EXCEPT !.body = ops[n + 1].body] ELSE r[h]
    PROVE  Applied(ops, n + 1, old, s)
<1> DEFINE o == ops[n + 1]
<1>0. Len(ops) \in Nat /\ n + 1 \in 1..Len(ops) /\ o.clause \in Live(old)
  BY DEF Shaped, Reviewed
<1>1. \A h \in Handle : s[h].status = r[h].status /\ s[h].place = r[h].place
  BY DEF Row
<1>2. Live(s) = Live(r) /\ Live(r) \subseteq Handle /\ Live(old) \subseteq Handle
  BY <1>1 DEF Live
<1>3. s[o.clause].body = o.body /\ \A h \in Handle \ {o.clause} : s[h].body = r[h].body
  BY <1>0, <1>2 DEF Row
<1>4. \A i \in 1..n : i \in 1..Len(ops) /\ ops[i].clause \in Handle
  BY <1>0, <1>2 DEF Reviewed
<1>5. EditsHold(ops, n + 1, s)
  <2> SUFFICES ASSUME NEW i \in 1..n + 1, ops[i].op = "edit",
                      \A j \in 1..n + 1 : j > i /\ ops[j].op = "edit" => ops[j].clause # ops[i].clause
               PROVE  s[ops[i].clause].body = ops[i].body
    BY DEF EditsHold
  <2>1. CASE i = n + 1
    BY <1>3, <2>1
  <2>2. CASE i # n + 1
    <3>1. i \in 1..n /\ ops[i].clause # o.clause /\ 1..n \subseteq 1..n + 1
      BY <2>2
    <3>2. r[ops[i].clause].body = ops[i].body
      BY <3>1 DEF Applied, EditsHold
    <3> QED BY <1>3, <1>4, <3>1, <3>2
  <2> QED BY <2>1, <2>2
<1>6. DeletesHold(ops, n + 1, s)
  BY <1>2 DEF Applied, DeletesHold
<1>7. AddsStand(ops, n + 1, old, s)
  <2> SUFFICES ASSUME NEW i \in 1..n + 1, ops[i].op = "add"
               PROVE  \E h \in Live(s) \ Live(old) :
                          s[h].body = ops[i].body /\ Beside(ops[i], h, old, s)
    BY DEF AddsStand
  <2>1. i \in 1..n
    OBVIOUS
  <2>2. PICK h \in Live(r) \ Live(old) : r[h].body = ops[i].body /\ Beside(ops[i], h, old, r)
    BY <2>1 DEF Applied, AddsStand
  <2>3. h # o.clause /\ h \in Handle /\ ops[i].clause \in Handle
    BY <1>0, <1>2, <1>4, <2>1, <2>2
  <2>4. Beside(ops[i], h, old, s)
    BY <1>1, <1>2, <2>2, <2>3 DEF Beside, Between
  <2> QED BY <1>2, <1>3, <2>2, <2>3, <2>4
<1>8. Adds(ops, n + 1) = Adds(ops, n)
  BY DEF Adds
<1> QED
  BY <1>2, <1>5, <1>6, <1>7, <1>8 DEF Applied, AddsCounted

LEMMA DeleteApplied ==
    ASSUME NEW ops, Shaped(ops), NEW old \in [Handle -> Row], Reviewed(ops, old),
           NEW r \in [Handle -> Row], NEW n \in Nat, n < Len(ops), Applied(ops, n, old, r),
           ops[n + 1].op = "delete", NEW s,
           \A h \in Handle : s[h] = IF h = ops[n + 1].clause
                                      THEN [r[h] EXCEPT !.status = "deleted"] ELSE r[h]
    PROVE  Applied(ops, n + 1, old, s)
<1> DEFINE o == ops[n + 1]
<1>0. Len(ops) \in Nat /\ n + 1 \in 1..Len(ops) /\ o.clause \in Live(old)
  BY DEF Shaped, Reviewed
<1>1. \A h \in Handle : s[h].body = r[h].body /\ s[h].place = r[h].place
  BY DEF Row
<1>2. Live(s) = Live(r) \ {o.clause} /\ Live(r) \subseteq Handle /\ Live(old) \subseteq Handle
  BY DEF Live, Row
<1>3. Live(s) \ Live(old) = Live(r) \ Live(old)
  BY <1>0, <1>2
<1>4. \A i \in 1..n : i \in 1..Len(ops) /\ ops[i].clause \in Handle
  BY <1>0, <1>2 DEF Reviewed
<1>5. EditsHold(ops, n + 1, s)
  <2> SUFFICES ASSUME NEW i \in 1..n + 1, ops[i].op = "edit",
                      \A j \in 1..n + 1 : j > i /\ ops[j].op = "edit" => ops[j].clause # ops[i].clause
               PROVE  s[ops[i].clause].body = ops[i].body
    BY DEF EditsHold
  <2>1. i \in 1..n /\ 1..n \subseteq 1..n + 1
    OBVIOUS
  <2>2. r[ops[i].clause].body = ops[i].body
    BY <2>1 DEF Applied, EditsHold
  <2> QED BY <1>1, <1>4, <2>1, <2>2
<1>6. DeletesHold(ops, n + 1, s)
  <2>1. ASSUME NEW i \in 1..n + 1, ops[i].op = "delete" PROVE ops[i].clause \notin Live(s)
    <3>1. CASE i = n + 1
      BY <1>2, <3>1
    <3>2. CASE i # n + 1
      BY <1>2, <2>1, <3>2 DEF Applied, DeletesHold
    <3> QED BY <3>1, <3>2
  <2>2. ASSUME NEW i \in 1..Len(ops), ops[i].op = "add" PROVE ops[i].clause \in Live(s)
    BY <1>0, <1>2, <2>2 DEF Applied, DeletesHold, Reviewed
  <2> QED BY <2>1, <2>2 DEF DeletesHold
<1>7. AddsStand(ops, n + 1, old, s)
  <2> SUFFICES ASSUME NEW i \in 1..n + 1, ops[i].op = "add"
               PROVE  \E h \in Live(s) \ Live(old) :
                          s[h].body = ops[i].body /\ Beside(ops[i], h, old, s)
    BY DEF AddsStand
  <2>1. i \in 1..n
    OBVIOUS
  <2>2. PICK h \in Live(r) \ Live(old) : r[h].body = ops[i].body /\ Beside(ops[i], h, old, r)
    BY <2>1 DEF Applied, AddsStand
  <2>3. h \in Handle /\ ops[i].clause \in Handle
    BY <1>2, <1>4, <2>1, <2>2
  <2>4. Beside(ops[i], h, old, s)
    BY <1>1, <1>2, <2>2, <2>3 DEF Beside, Between
  <2> QED BY <1>1, <1>3, <2>2, <2>3, <2>4
<1>8. Adds(ops, n + 1) = Adds(ops, n)
  BY DEF Adds
<1> QED
  BY <1>3, <1>5, <1>6, <1>7, <1>8 DEF Applied, AddsCounted

(* Making room keeps the order.                                            *)
LEMMA RoomKeepsOrder ==
    ASSUME NEW x \in Nat, NEW y \in Nat, NEW t \in Nat
    PROVE  (IF x >= t THEN x + 1 ELSE x) < (IF y >= t THEN y + 1 ELSE y) <=> x < y
OBVIOUS

(* The new clause takes the place o.at asks for, and whatever stands there *)
(* or after moves on by one.                                               *)
LEMMA AddApplied ==
    ASSUME NEW ops, Shaped(ops), NEW old \in [Handle -> Row], Reviewed(ops, old),
           NEW r \in [Handle -> Row], NEW n \in Nat, n < Len(ops), Applied(ops, n, old, r),
           ops[n + 1].op = "add", NEW ord, ord = r[ops[n + 1].clause].place + ops[n + 1].at,
           NEW new \in Handle, new \notin Live(r), new \notin Live(old), NEW s,
           s[new].status = "active", s[new].body = ops[n + 1].body, s[new].place = ord,
           \A h \in Handle \ {new} :
               /\ s[h].status = r[h].status /\ s[h].body = r[h].body
               /\ s[h].place = IF h \in Live(r) /\ r[h].place >= ord
                                 THEN r[h].place + 1 ELSE r[h].place
    PROVE  Applied(ops, n + 1, old, s)
<1> DEFINE o == ops[n + 1]
<1>0. Len(ops) \in Nat /\ n + 1 \in 1..Len(ops) /\ o.at \in {0, 1}
  BY DEF Shaped
<1>1. o.clause \in Live(r) /\ o.clause \in Live(old)
  BY <1>0 DEF Applied, DeletesHold, Reviewed
<1>2. Live(s) = Live(r) \cup {new} /\ Live(r) \subseteq Handle /\ Live(old) \subseteq Handle
  BY DEF Live
<1>3. \A h \in Handle : r[h].place \in Nat
  BY DEF Row
<1>4. ord \in Nat
  BY <1>0, <1>1, <1>2, <1>3
<1>5. \A a, b \in Live(r) : s[a].place < s[b].place <=> r[a].place < r[b].place
  <2> SUFFICES ASSUME NEW a \in Live(r), NEW b \in Live(r)
               PROVE  s[a].place < s[b].place <=> r[a].place < r[b].place
    OBVIOUS
  <2>1. /\ s[a].place = IF r[a].place >= ord THEN r[a].place + 1 ELSE r[a].place
        /\ s[b].place = IF r[b].place >= ord THEN r[b].place + 1 ELSE r[b].place
        /\ r[a].place \in Nat /\ r[b].place \in Nat
    BY <1>2, <1>3
  <2> HIDE DEF o
  <2> QED BY <1>4, <2>1, RoomKeepsOrder
<1>6. \A i \in 1..n : i \in 1..Len(ops) /\ ops[i].clause \in Live(old)
  BY <1>0 DEF Reviewed
<1>7. EditsHold(ops, n + 1, s)
  <2> SUFFICES ASSUME NEW i \in 1..n + 1, ops[i].op = "edit",
                      \A j \in 1..n + 1 : j > i /\ ops[j].op = "edit" => ops[j].clause # ops[i].clause
               PROVE  s[ops[i].clause].body = ops[i].body
    BY DEF EditsHold
  <2>1. i \in 1..n /\ 1..n \subseteq 1..n + 1
    OBVIOUS
  <2>2. r[ops[i].clause].body = ops[i].body
    BY <2>1 DEF Applied, EditsHold
  <2>3. ops[i].clause \in Handle \ {new}
    BY <1>2, <1>6, <2>1
  <2> QED BY <2>2, <2>3
<1>8. DeletesHold(ops, n + 1, s)
  <2>1. ASSUME NEW i \in 1..n + 1, ops[i].op = "delete" PROVE ops[i].clause \notin Live(s)
    <3>1. i \in 1..n
      BY <2>1
    <3> QED BY <1>2, <1>6, <2>1, <3>1 DEF Applied, DeletesHold
  <2> QED BY <1>2, <2>1 DEF Applied, DeletesHold
<1>9. Live(old) \cap Live(s) = Live(old) \cap Live(r)
  BY <1>2
<1>10. AddsStand(ops, n + 1, old, s)
  <2> SUFFICES ASSUME NEW i \in 1..n + 1, ops[i].op = "add"
               PROVE  \E h \in Live(s) \ Live(old) :
                          s[h].body = ops[i].body /\ Beside(ops[i], h, old, s)
    BY DEF AddsStand
  <2>1. CASE i = n + 1
    <3>1. new \in Live(s) \ Live(old) /\ s[new].body = o.body
      BY <1>2
    <3>2. s[o.clause].place = IF r[o.clause].place >= ord THEN r[o.clause].place + 1
                                                          ELSE r[o.clause].place
      BY <1>1, <1>2
    <3>3. IF o.at = 0 THEN s[new].place < s[o.clause].place ELSE s[o.clause].place < s[new].place
      BY <1>0, <1>1, <1>2, <1>3, <3>2
    <3>4. ASSUME NEW h \in Live(old) \cap Live(s)
          PROVE  ~Between(s, o.clause, new, h) /\ ~Between(s, new, o.clause, h)
      <4>1. h \in Live(r) /\ h # new
        BY <1>2, <3>4
      <4>2. s[h].place = IF r[h].place >= ord THEN r[h].place + 1 ELSE r[h].place
        BY <1>2, <4>1
      <4>3. r[h].place \in Nat /\ r[o.clause].place \in Nat
        BY <1>1, <1>2, <1>3, <4>1
      <4>4. CASE o.at = 0
        <5>1. ord = r[o.clause].place /\ s[o.clause].place = ord + 1
          BY <3>2, <4>3, <4>4
        <5> QED BY <1>4, <4>2, <4>3, <5>1 DEF Between
      <4>5. CASE o.at = 1
        <5>1. ord = r[o.clause].place + 1 /\ s[o.clause].place = r[o.clause].place
          BY <3>2, <4>3, <4>5
        <5> QED BY <1>4, <4>2, <4>3, <5>1 DEF Between
      <4> QED BY <1>0, <4>4, <4>5
    <3>5. Beside(o, new, old, s)
      BY <3>3, <3>4 DEF Beside
    <3> QED BY <2>1, <3>1, <3>5
  <2>2. CASE i # n + 1
    <3>1. i \in 1..n
      BY <2>2
    <3>2. PICK h \in Live(r) \ Live(old) : r[h].body = ops[i].body /\ Beside(ops[i], h, old, r)
      BY <3>1 DEF Applied, AddsStand
    <3>3. h # new /\ h \in Handle
      BY <1>2, <3>2
    <3>4. ops[i].clause \in Live(r)
      BY <1>6, <3>1 DEF Applied, DeletesHold
    <3>5. Beside(ops[i], h, old, s)
      BY <1>5, <1>9, <3>2, <3>4 DEF Beside, Between
    <3> QED BY <1>2, <3>2, <3>3, <3>5
  <2> QED BY <2>1, <2>2
<1>11. AddsCounted(ops, n + 1, old, s)
  <2> DEFINE S == Live(r) \ Live(old)
             A == Adds(ops, n)
  <2>1. IsFiniteSet(Handle) /\ IsFiniteSet(1..n)
    BY FS_Interval, SeqAssumption DEF Handle
  <2>2. S \in SUBSET Handle /\ A \in SUBSET (1..n)
    BY <1>2 DEF Adds
  <2>3. IsFiniteSet(S) /\ IsFiniteSet(A)
    BY <2>1, <2>2, FS_Subset
  <2>4. Live(s) \ Live(old) = S \cup {new} /\ new \notin S
    BY <1>2
  <2>5. Adds(ops, n + 1) = A \cup {n + 1} /\ n + 1 \notin A
    BY DEF Adds
  <2>6. Cardinality(S) = Cardinality(A)
    BY DEF Applied, AddsCounted
  <2> HIDE DEF S, A
  <2>7. Cardinality(S \cup {new}) = Cardinality(S) + 1
    BY <2>3, <2>4, FS_AddElement
  <2>8. Cardinality(A \cup {n + 1}) = Cardinality(A) + 1
    BY <2>3, <2>5, FS_AddElement
  <2> QED BY <2>4, <2>5, <2>6, <2>7, <2>8 DEF AddsCounted
<1> QED
  BY <1>7, <1>8, <1>10, <1>11 DEF Applied

-----------------------------------------------------------------------------
(* The invariant of an acceptance nobody has interfered with.              *)

Ops(p) == proposal[of[p]].ops
Done(p) == Len(Ops(p)) - Len(todo[p])

(* What is left to do is the rest of the list.                             *)
Rest(p) ==
    /\ Done(p) \in Nat
    /\ \A i \in 1..Len(todo[p]) : todo[p][i] = Ops(p)[Done(p) + i]

(* The place read for an addition is still its anchor's.                   *)
Anchored(p) ==
    pc[p] \in {"anchored", "counted"} =>
        /\ Head(todo[p]).op = "add"
        /\ ordinal[p] = View(p)[Head(todo[p]).clause].place + Head(todo[p]).at

InOrder(p) ==
    /\ proposal[of[p]].state = "open"
    /\ Rest(p) /\ Anchored(p)
    /\ Reviewed(Ops(p), row)
    /\ Applied(Ops(p), Done(p), row, View(p))

Undisturbed(p) == of[p] # NoProposal /\ alone[p]

AcceptanceInv ==
    /\ \A k \in Proposal : Shaped(proposal[k].ops)
    /\ \A p \in Proc : pc[p] = "composed" => todo[p] = <<>>
    /\ \A p \in Proc : Undisturbed(p) => InOrder(p)

(* Steps after which nothing p relies on has changed.                      *)
LEMMA InOrderKept ==
    ASSUME NEW p \in Proc, InOrder(p), row' = row, View(p)' = View(p),
           of'[p] = of[p], todo'[p] = todo[p], proposal'[of[p]] = proposal[of[p]],
           pc'[p] \in {"anchored", "counted"} =>
               pc[p] \in {"anchored", "counted"} /\ ordinal'[p] = ordinal[p]
    PROVE  InOrder(p)'
<1>1. Ops(p)' = Ops(p) /\ Done(p)' = Done(p)
  BY DEF Ops, Done
<1> QED
  BY <1>1 DEF InOrder, Rest, Anchored

(* The first operation left is the next of the list.                       *)
LEMMA NextOp ==
    ASSUME IInv, AcceptanceInv, NEW p \in Proc, Undisturbed(p), todo[p] # <<>>
    PROVE  /\ Shaped(Ops(p)) /\ Done(p) \in Nat /\ Done(p) < Len(Ops(p))
           /\ Head(todo[p]) = Ops(p)[Done(p) + 1]
           /\ Head(todo[p]).clause \in Live(row)
<1>1. of[p] \in Proposal /\ todo[p] \in Seq(Op) /\ todo[p] # <<>>
  BY DEF IInv, Structure, TypeOK, Undisturbed
<1>2. Shaped(Ops(p)) /\ InOrder(p)
  BY <1>1 DEF AcceptanceInv, Ops
<1>3. Len(Ops(p)) \in Nat /\ Len(todo[p]) \in Nat /\ Len(todo[p]) > 0
  BY <1>1, <1>2 DEF Shaped
<1>4. Done(p) \in Nat /\ Done(p) < Len(Ops(p))
  BY <1>2, <1>3 DEF InOrder, Rest, Done
<1>5. Head(todo[p]) = todo[p][1] /\ 1 \in 1..Len(todo[p])
  BY <1>1, <1>3
<1>6. Head(todo[p]) = Ops(p)[Done(p) + 1]
  BY <1>2, <1>5 DEF InOrder, Rest
<1>7. Done(p) + 1 \in 1..Len(Ops(p))
  BY <1>3, <1>4
<1> QED
  BY <1>2, <1>4, <1>6, <1>7 DEF InOrder, Reviewed

(* One more operation has run.                                             *)
LEMMA Ran ==
    ASSUME IInv, AcceptanceInv, NEW p \in Proc, Undisturbed(p), NEW H, NEW r, Write(p, H, r),
           todo[p] # <<>>, Applied(Ops(p), Done(p) + 1, row, View(p)')
    PROVE  InOrder(p)'
<1>1. TypeOK /\ todo[p] \in Seq(Op)
  BY DEF IInv, Structure, TypeOK
<1>2. InOrder(p) /\ Shaped(Ops(p))
  BY NextOp DEF AcceptanceInv
<1>3. /\ todo'[p] = Tail(todo[p]) /\ pc'[p] = "running" /\ of' = of /\ proposal' = proposal /\ row' = row
  BY <1>1 DEF Write, TypeOK, table
<1>4. /\ Len(todo[p]) \in Nat /\ Len(todo[p]) > 0 /\ Len(Ops(p)) \in Nat
      /\ Len(todo'[p]) = Len(todo[p]) - 1
      /\ \A i \in 1..Len(todo'[p]) : todo'[p][i] = todo[p][i + 1] /\ i + 1 \in 1..Len(todo[p])
  BY <1>1, <1>2, <1>3 DEF Shaped
<1>5. Ops(p)' = Ops(p) /\ Done(p)' = Done(p) + 1
  <2>1. Ops(p)' = Ops(p)
    BY <1>3 DEF Ops
  <2>2. Done(p)' = Len(Ops(p)) - Len(todo'[p])
    BY <2>1 DEF Done
  <2> QED BY <1>4, <2>1, <2>2 DEF Done
<1>6. Done(p) \in Nat
  BY <1>2 DEF InOrder, Rest
<1>7. Rest(p)'
  <2>1. \A i \in 1..Len(todo'[p]) : todo'[p][i] = Ops(p)[Done(p) + (i + 1)]
    BY <1>2, <1>4 DEF InOrder, Rest
  <2>2. \A i \in 1..Len(todo'[p]) : Done(p) + (i + 1) = Done(p) + 1 + i
    BY <1>6, <1>4
  <2>3. \A i \in 1..Len(todo'[p]) : todo'[p][i] = Ops(p)[Done(p) + 1 + i]
    BY <2>1, <2>2
  <2> QED BY <1>5, <1>6, <2>3 DEF Rest
<1> QED
  BY <1>2, <1>3, <1>5, <1>7 DEF InOrder, Anchored

LEMMA EditRan ==
    ASSUME IInv, AcceptanceInv, NEW p \in Proc, Undisturbed(p), updateClauseBodyTx(p)
    PROVE  InOrder(p)'
<1> DEFINE o == Head(todo[p])
           r == [View(p) EXCEPT ![o.clause].body = o.body]
<1>1. TypeOK /\ row \in [Handle -> Row] /\ View(p) \in [Handle -> Row]
  BY ViewType DEF IInv, Structure, TypeOK
<1>2. todo[p] # <<>> /\ o.op = "edit" /\ Write(p, {o.clause}, r)
  BY DEF updateClauseBodyTx, Running
<1>3. /\ Shaped(Ops(p)) /\ Done(p) \in Nat /\ Done(p) < Len(Ops(p))
      /\ o = Ops(p)[Done(p) + 1] /\ o.clause \in Handle
  BY <1>2, NextOp DEF Live
<1>4. \A h \in Handle : r[h] = IF h = o.clause THEN [View(p)[h] EXCEPT !.body = o.body] ELSE View(p)[h]
  BY <1>1, <1>3
<1>5. Reviewed(Ops(p), row) /\ Applied(Ops(p), Done(p), row, View(p))
  BY DEF AcceptanceInv, InOrder
<1> HIDE DEF o, r
<1>6. \A h \in Handle : View(p)'[h] = IF h \in {o.clause} THEN r[h] ELSE View(p)[h]
  BY <1>1, <1>2, ViewWrite
<1>7. \A h \in Handle : View(p)'[h] = IF h = o.clause THEN [View(p)[h] EXCEPT !.body = o.body]
                                                     ELSE View(p)[h]
  BY <1>4, <1>6
<1>8. Applied(Ops(p), Done(p) + 1, row, View(p)')
  BY <1>1, <1>2, <1>3, <1>5, <1>7, EditApplied
<1> QED
  BY <1>2, <1>8, Ran

LEMMA DeleteRan ==
    ASSUME IInv, AcceptanceInv, NEW p \in Proc, Undisturbed(p), softDeleteClauseTx(p)
    PROVE  InOrder(p)'
<1> DEFINE o == Head(todo[p])
           r == [View(p) EXCEPT ![o.clause].status = "deleted"]
<1>1. TypeOK /\ row \in [Handle -> Row] /\ View(p) \in [Handle -> Row]
  BY ViewType DEF IInv, Structure, TypeOK
<1>2. todo[p] # <<>> /\ o.op = "delete" /\ Write(p, {o.clause}, r)
  BY DEF softDeleteClauseTx, Running
<1>3. /\ Shaped(Ops(p)) /\ Done(p) \in Nat /\ Done(p) < Len(Ops(p))
      /\ o = Ops(p)[Done(p) + 1] /\ o.clause \in Handle
  BY <1>2, NextOp DEF Live
<1>4. \A h \in Handle :
          r[h] = IF h = o.clause THEN [View(p)[h] EXCEPT !.status = "deleted"] ELSE View(p)[h]
  BY <1>1, <1>3
<1>5. Reviewed(Ops(p), row) /\ Applied(Ops(p), Done(p), row, View(p))
  BY DEF AcceptanceInv, InOrder
<1> HIDE DEF o, r
<1>6. \A h \in Handle : View(p)'[h] = IF h \in {o.clause} THEN r[h] ELSE View(p)[h]
  BY <1>1, <1>2, ViewWrite
<1>7. \A h \in Handle : View(p)'[h] = IF h = o.clause THEN [View(p)[h] EXCEPT !.status = "deleted"]
                                                     ELSE View(p)[h]
  BY <1>4, <1>6
<1>8. Applied(Ops(p), Done(p) + 1, row, View(p)')
  BY <1>1, <1>2, <1>3, <1>5, <1>7, DeleteApplied
<1> QED
  BY <1>2, <1>8, Ran

LEMMA AddRan ==
    ASSUME IInv, AcceptanceInv, NEW p \in Proc, Undisturbed(p), insertClauseTx(p)
    PROVE  InOrder(p)'
<1> DEFINE o == Head(todo[p])
           new == Minted(p)
           r == [h \in Handle |-> IF h = new
                   THEN [status |-> "active", body |-> o.body, place |-> ordinal[p]]
                   ELSE [View(p)[h] EXCEPT !.place = @ + 1]]
<1>1. TypeOK /\ row \in [Handle -> Row] /\ View(p) \in [Handle -> Row]
  BY ViewType DEF IInv, Structure, TypeOK
<1>2. pc[p] = "counted" /\ todo[p] # <<>> /\ Write(p, Pushed(p) \cup {new}, r)
  BY DEF insertClauseTx, IInv, Structure, TodoOK
<1>3. /\ Shaped(Ops(p)) /\ Done(p) \in Nat /\ Done(p) < Len(Ops(p))
      /\ o = Ops(p)[Done(p) + 1] /\ o.clause \in Handle
  BY <1>2, NextOp DEF Live
<1>4. InOrder(p) /\ Reviewed(Ops(p), row) /\ Applied(Ops(p), Done(p), row, View(p))
  BY DEF AcceptanceInv, InOrder
<1>5. o.op = "add" /\ ordinal[p] = View(p)[o.clause].place + o.at
  BY <1>2, <1>4 DEF InOrder, Anchored
<1>6. new \in Handle /\ new \notin Live(View(p)) /\ new \notin Live(row)
  BY NextHandle DEF IInv, Live
<1>7. \A h \in Handle : View(p)'[h] = IF h \in Pushed(p) \cup {new} THEN r[h] ELSE View(p)[h]
  BY <1>1, <1>2, ViewWrite
<1>8. \A h \in Handle : h \in Pushed(p) <=> h \in Live(View(p)) /\ View(p)[h].place >= ordinal[p]
  BY <1>5 DEF Pushed, Appends, Live
<1>9. /\ r[new].status = "active" /\ r[new].body = o.body /\ r[new].place = ordinal[p]
      /\ \A h \in Handle \ {new} :
             /\ r[h].status = View(p)[h].status /\ r[h].body = View(p)[h].body
             /\ r[h].place = View(p)[h].place + 1
  BY <1>1, <1>6 DEF Row
<1> HIDE DEF o, r, new
<1>10. /\ View(p)'[new].status = "active" /\ View(p)'[new].body = o.body
       /\ View(p)'[new].place = ordinal[p]
  BY <1>6, <1>7, <1>9
<1>11. \A h \in Handle \ {new} :
           /\ View(p)'[h].status = View(p)[h].status /\ View(p)'[h].body = View(p)[h].body
           /\ View(p)'[h].place = IF h \in Live(View(p)) /\ View(p)[h].place >= ordinal[p]
                                    THEN View(p)[h].place + 1 ELSE View(p)[h].place
  BY <1>7, <1>8, <1>9
<1>12. Applied(Ops(p), Done(p) + 1, row, View(p)')
  BY <1>1, <1>3, <1>4, <1>5, <1>6, <1>10, <1>11, AddApplied
<1> QED
  BY <1>2, <1>12, Ran

LEMMA Accepted ==
    ASSUME IInv, AcceptanceInv, NEW p \in Proc, NEW k \in Proposal, acceptStandardChange(p, k)
    PROVE  InOrder(p)'
<1> DEFINE ops == proposal[k].ops
<1>1. TypeOK /\ HeldOK /\ pc[p] = "idle" /\ Shaped(ops)
  BY DEF IInv, Structure, acceptStandardChange, Begin, AcceptanceInv
<1>2. /\ proposal[k].state = "open" /\ DOMAIN ops = 1..Len(ops) /\ Len(ops) \in Nat
      /\ \A i \in DOMAIN ops : row[ops[i].clause].status = "active" /\ Fresh(ops[i])
      /\ ~ \E i, j \in DOMAIN ops :
              ops[i].op = "add" /\ ops[j].op = "delete" /\ ops[i].clause = ops[j].clause
  BY <1>1 DEF acceptStandardChange, Shaped
<1>3. /\ of'[p] = k /\ todo'[p] = ops /\ pc'[p] = "running"
      /\ row' = row /\ holder' = holder /\ draft' = draft /\ proposal' = proposal
  BY <1>1 DEF acceptStandardChange, Begin, table, locks, TypeOK
<1>4. \A i \in 1..Len(ops) : ops[i].clause \in Handle
  BY DEF IInv, Structure, TodoOK
<1>5. Reviewed(ops, row)
  BY <1>2, <1>4 DEF Reviewed, Fresh, Live
<1>6. View(p)' = row
  <2>1. \A h \in Handle : holder[h] # p
    BY <1>1, ProcAssumption DEF TypeOK
  <2> QED BY <1>1, <1>3, <2>1 DEF View, TypeOK
<1>7. Applied(ops, 0, row, row)
  BY <1>1, <1>5, NothingApplied
<1>8. Ops(p)' = ops
  BY <1>3 DEF Ops
<1>9. Done(p)' = 0
  BY <1>2, <1>3, <1>8 DEF Done
<1>10. Rest(p)'
  <2>1. \A i \in 1..Len(ops) : 0 + i = i
    BY <1>2
  <2> QED BY <1>3, <1>8, <1>9, <2>1 DEF Rest
<1> HIDE DEF ops
<1> QED
  BY <1>2, <1>3, <1>5, <1>6, <1>7, <1>8, <1>9, <1>10 DEF InOrder, Anchored

LEMMA StepInOrder ==
    ASSUME IInv, AcceptanceInv, [Next]_vars, NEW p \in Proc, of'[p] # NoProposal, alone'[p]
    PROVE  InOrder(p)'
<1>1. TypeOK /\ TodoOK /\ HeldOK /\ Structure /\ CountedOK
  BY DEF IInv, Structure
<1> DEFINE Still ==
        /\ Undisturbed(p) /\ row' = row /\ View(p)' = View(p)
        /\ of'[p] = of[p] /\ todo'[p] = todo[p] /\ proposal'[of[p]] = proposal[of[p]]
        /\ pc'[p] \in {"anchored", "counted"} =>
               pc[p] \in {"anchored", "counted"} /\ ordinal'[p] = ordinal[p]
<1>2. Still => InOrder(p)'
  BY InOrderKept DEF AcceptanceInv
<1>3. CASE UNCHANGED vars
  <2>1. Still
    BY <1>3, ViewQuiet DEF vars, table, request, Undisturbed
  <2> QED BY <1>2, <2>1
<1>4. ASSUME NEW q \in Proc, NEW ops, NEW k, Begin(q, ops, k), q # p \/ k = NoProposal
      PROVE  Still
  <2>1. q # p
    BY <1>1, <1>4 DEF TypeOK, Begin
  <2> QED
    BY <1>1, <1>4, <2>1, ViewQuiet DEF TypeOK, Begin, table, Undisturbed
<1>5. ASSUME NEW q \in Proc, NEW k \in Proposal, acceptStandardChange(q, k) PROVE InOrder(p)'
  <2>1. CASE q = p
    BY <1>5, <2>1, Accepted
  <2>2. CASE q # p
    BY <1>2, <1>4, <1>5, <2>2 DEF acceptStandardChange
  <2> QED BY <2>1, <2>2
<1>6. ASSUME NEW q \in Proc, Amends(q) \/ insertClauseTx(q) PROVE InOrder(p)'
  <2>1. PICK H, r : Write(q, H, r)
    BY <1>6, Zenon DEF Amends, updateClauseBodyTx, softDeleteClauseTx, insertClauseTx
  <2>2. Undisturbed(p)
    BY <2>1 DEF Write, Undisturbed
  <2>3. CASE q = p
    BY <1>6, <2>2, <2>3, EditRan, DeleteRan, AddRan DEF Amends
  <2>4. CASE q # p
    <3>1. View(p)' = View(p) /\ row' = row
      BY <1>1, <1>6, <2>4, Amended, Inserted
    <3>2. Still
      BY <1>1, <2>1, <2>2, <2>4, <3>1 DEF TypeOK, Write, table
    <3> QED BY <1>2, <3>2
  <2> QED BY <2>3, <2>4
<1>7. ASSUME NEW q \in Proc, ReadAnchor(q) PROVE InOrder(p)'
  <2>1. /\ Undisturbed(p) /\ row' = row /\ View(p)' = View(p) /\ of' = of /\ todo' = todo
        /\ proposal' = proposal
    BY <1>7, ViewQuiet DEF ReadAnchor, table, Undisturbed
  <2>2. CASE q = p
    <3>1. InOrder(p)
      BY <2>1 DEF AcceptanceInv
    <3>2. Head(todo[p]).op = "add" /\ ordinal'[p] = View(p)[Head(todo[p]).clause].place + Head(todo[p]).at
      BY <1>1, <1>7, <2>2 DEF ReadAnchor, Running, TypeOK
    <3>3. Ops(p)' = Ops(p) /\ Done(p)' = Done(p)
      BY <2>1 DEF Ops, Done
    <3> QED
      BY <2>1, <3>1, <3>2, <3>3 DEF InOrder, Rest, Anchored
  <2>3. CASE q # p
    BY <1>1, <1>2, <1>7, <2>1, <2>3 DEF ReadAnchor, TypeOK
  <2> QED BY <2>2, <2>3
<1>8. ASSUME NEW q \in Proc, ReadMaxSeq(q) \/ ReadMaxPosition(q) PROVE InOrder(p)'
  <2>1. /\ Undisturbed(p) /\ row' = row /\ View(p)' = View(p) /\ of' = of /\ todo' = todo
        /\ proposal' = proposal
    BY <1>8, ViewQuiet DEF ReadMaxSeq, ReadMaxPosition, table, Undisturbed
  <2>2. CASE q = p
    <3>1. todo[p] # <<>>
      BY <1>1, <1>8, <2>2 DEF ReadMaxSeq, ReadMaxPosition, Running, TodoOK
    <3>2. Head(todo[p]).op # "insert"
      <4>1. Done(p) + 1 \in 1..Len(Ops(p))
        BY <2>1, <3>1, NextOp DEF Shaped
      <4> QED
        BY <2>1, <3>1, <4>1, NextOp DEF Shaped
    <3>3. pc[p] = "anchored" /\ ordinal' = ordinal
      BY <1>1, <1>8, <2>2, <3>2 DEF ReadMaxSeq, ReadMaxPosition, Running, TodoOK, Appends
    <3> QED BY <1>2, <2>1, <3>3
  <2>3. CASE q # p
    <3>1. pc'[p] = pc[p] /\ ordinal'[p] = ordinal[p]
      BY <1>1, <1>8, <2>3 DEF ReadMaxSeq, ReadMaxPosition, TypeOK
    <3> QED BY <1>2, <2>1, <3>1
  <2> QED BY <2>2, <2>3
<1>9. ASSUME NEW q \in Proc, regenerateSectionContentTx(q) PROVE Still
  BY <1>1, <1>9, ViewQuiet DEF regenerateSectionContentTx, TypeOK, table, Undisturbed
<1>10. ASSUME NEW q \in Proc, Commit(q) PROVE FALSE
  <2>1. q = p
    BY <1>10 DEF Commit
  <2> QED
    BY <1>1, <1>10, <2>1 DEF Commit, Release, TypeOK
<1>11. ASSUME NEW q \in Proc, Abort(q) PROVE Still
  <2>1. q # p
    BY <1>1, <1>11 DEF Abort, Release, TypeOK
  <2>2. View(p)' = View(p)
    BY <1>1, <1>11, <2>1, ViewAbort
  <2> QED
    BY <1>1, <1>11, <2>1, <2>2 DEF Abort, Release, TypeOK, table, Undisturbed
<1>12. ASSUME NEW k \in Proposal, NEW d \in Draft, proposeStandardChange(k, d) PROVE Still
  <2>1. Undisturbed(p) /\ row' = row /\ View(p)' = View(p) /\ UNCHANGED request
    BY <1>12, ViewQuiet DEF proposeStandardChange, request, Undisturbed
  <2>2. of[p] # k
    BY <1>12, <2>1 DEF proposeStandardChange, AcceptanceInv, InOrder
  <2>3. proposal'[of[p]] = proposal[of[p]]
    BY <1>1, <1>12, <2>1, <2>2 DEF proposeStandardChange, TypeOK, Undisturbed
  <2> QED
    BY <2>1, <2>3 DEF request
<1>13. ASSUME NEW k \in Proposal, NEW state, Mark(k, state) PROVE Still
  <2>1. alone'[p] = (alone[p] /\ of[p] # k)
    BY <1>13, Zenon DEF Mark
  <2>2. alone[p] /\ of[p] # k /\ UNCHANGED request /\ row' = row
    BY <1>13, <2>1, Zenon DEF Mark
  <2>3. Undisturbed(p) /\ View(p)' = View(p)
    BY <1>13, <2>2, ViewQuiet DEF Mark, request, Undisturbed
  <2>4. proposal'[of[p]] = proposal[of[p]]
    BY <1>1, <1>13, <2>2, <2>3 DEF Mark, TypeOK, Undisturbed
  <2> QED
    BY <2>2, <2>3, <2>4 DEF request
<1> HIDE DEF Still
<1>14. ASSUME NEW q \in Proc,
              \/ \E b \in Text, n \in 0..MaxAt : createClause(q, b, n)
              \/ \E b, c \in Text : addClausesToSection(q, b, c)
              \/ \E h \in Handle, b \in Text : updateClause(q, h, b)
              \/ \E h \in Handle : deleteClause(q, h)
       PROVE  Still
  BY <1>4, <1>14, Zenon DEF createClause, addClausesToSection, updateClause, deleteClause
<1>15. ASSUME NEW k \in Proposal, resolveComment(k) \/ unresolveComment(k) PROVE Still
  BY <1>13, <1>15, Zenon DEF resolveComment, unresolveComment
<1>16. ASSUME Next PROVE InOrder(p)'
  BY <1>2, <1>5, <1>6, <1>7, <1>8, <1>9, <1>10, <1>11, <1>12, <1>14, <1>15, <1>16, Zenon
     DEF Next, Amends
<1> QED
  BY <1>3, <1>16

LEMMA StepShaped ==
    ASSUME IInv, AcceptanceInv, [Next]_vars
    PROVE  \A k \in Proposal : Shaped(proposal'[k].ops)
<1>1. TypeOK
  BY DEF IInv, Structure
<1>2. ASSUME \A k \in Proposal : proposal'[k].ops = proposal[k].ops
      PROVE  \A k \in Proposal : Shaped(proposal'[k].ops)
  BY <1>2 DEF AcceptanceInv
<1>3. ASSUME NEW p \in Proc, Commit(p) PROVE \A k \in Proposal : proposal'[k].ops = proposal[k].ops
  BY <1>1, <1>3 DEF Commit, TypeOK
<1>4. ASSUME NEW k \in Proposal, NEW state, Mark(k, state)
      PROVE  \A j \in Proposal : proposal'[j].ops = proposal[j].ops
  BY <1>1, <1>4 DEF Mark, TypeOK
<1>5. ASSUME NEW k \in Proposal, NEW d \in Draft, proposeStandardChange(k, d)
      PROVE  \A j \in Proposal : Shaped(proposal'[j].ops)
  <2> DEFINE ops == [i \in DOMAIN d |-> [d[i] EXCEPT !.before = row[d[i].clause].body]]
  <2>1. /\ d \in Seq(Op) /\ DOMAIN d = 1..Len(d) /\ Len(d) \in Nat
        /\ \A i \in 1..Len(d) : /\ d[i] \in Op /\ d[i].op # "insert" /\ d[i].clause \in Handle
                                /\ d[i].op = "add" => d[i].at \in {0, 1}
    <3>1. /\ d \in Seq(Op)
          /\ \A i \in DOMAIN d : /\ d[i].op # "insert" /\ d[i].clause \in Handle
                                 /\ d[i].op = "add" => d[i].at \in {0, 1}
      BY DraftAssumption
    <3>2. DOMAIN d = 1..Len(d) /\ Len(d) \in Nat /\ \A i \in 1..Len(d) : d[i] \in Op
      BY <3>1
    <3> QED BY <3>1, <3>2
  <2>2. \A i \in 1..Len(d) : row[d[i].clause].body \in Text \cup {NoText}
    BY <1>1, <2>1 DEF TypeOK, Row
  <2>3. \A i \in 1..Len(d) : /\ ops[i] \in Op /\ ops[i].op = d[i].op /\ ops[i].at = d[i].at
    BY <2>1, <2>2 DEF Op
  <2>4. ops \in Seq(Op) /\ Len(ops) = Len(d)
    BY <2>1, <2>3
  <2>5. \A i \in 1..Len(d) : d[i].op \in {"edit", "delete", "add"}
    BY <2>1 DEF Op
  <2>6. proposal' = [proposal EXCEPT ![k] = [state |-> "open", ops |-> ops]]
    BY <1>5 DEF proposeStandardChange
  <2> HIDE DEF ops
  <2>7. Shaped(ops)
    BY <2>1, <2>3, <2>4, <2>5 DEF Shaped
  <2> QED
    BY <1>1, <2>6, <2>7 DEF TypeOK, AcceptanceInv
<1>6. CASE proposal' = proposal
  BY <1>2, <1>6
<1>7. proposal' = proposal \/ \/ \E p \in Proc : Commit(p)
                              \/ \E k \in Proposal, state \in {"open", "resolved"} : Mark(k, state)
                              \/ \E k \in Proposal, d \in Draft : proposeStandardChange(k, d)
  BY Zenon DEF Next, vars, table, Begin, Write, createClause, addClausesToSection, updateClause,
     deleteClause, acceptStandardChange, updateClauseBodyTx, softDeleteClauseTx, ReadAnchor,
     ReadMaxSeq, ReadMaxPosition, insertClauseTx, regenerateSectionContentTx, Abort, resolveComment, unresolveComment
<1> QED
  BY <1>2, <1>3, <1>4, <1>5, <1>6, <1>7

LEMMA StepFinished ==
    ASSUME IInv, AcceptanceInv, [Next]_vars, NEW p \in Proc, pc'[p] = "composed"
    PROVE  todo'[p] = <<>>
<1>1. TypeOK
  BY DEF IInv, Structure
<1> DEFINE Still == pc'[p] = pc[p] /\ todo'[p] = todo[p]
<1>2. ASSUME NEW q \in Proc, NEW ops, NEW k, Begin(q, ops, k) PROVE Still
  BY <1>1, <1>2 DEF Begin, TypeOK
<1>3. ASSUME NEW q \in Proc, NEW H, NEW r, Write(q, H, r) PROVE Still
  BY <1>1, <1>3 DEF Write, TypeOK
<1>4. ASSUME NEW q \in Proc, ReadAnchor(q) \/ ReadMaxSeq(q) \/ ReadMaxPosition(q) PROVE Still
  BY <1>1, <1>4 DEF ReadAnchor, ReadMaxSeq, ReadMaxPosition, TypeOK
<1>5. ASSUME NEW q \in Proc, regenerateSectionContentTx(q) PROVE Still \/ todo'[p] = <<>>
  BY <1>1, <1>5 DEF regenerateSectionContentTx, TypeOK
<1>6. ASSUME NEW q \in Proc, Release(q) PROVE Still
  BY <1>1, <1>6 DEF Release, TypeOK
<1>7. ASSUME NEW k \in Proposal, \/ \E d \in Draft : proposeStandardChange(k, d)
                                 \/ resolveComment(k) \/ unresolveComment(k)
      PROVE  Still
  BY <1>7 DEF proposeStandardChange, resolveComment, unresolveComment, Mark, request
<1>8. CASE UNCHANGED vars
  BY <1>8 DEF vars, request, AcceptanceInv
<1> HIDE DEF Still
<1>9. Still \/ todo'[p] = <<>> \/ UNCHANGED vars
  BY <1>2, <1>3, <1>4, <1>5, <1>6, <1>7, Zenon
     DEF Next, createClause, addClausesToSection, updateClause, deleteClause,
         acceptStandardChange, updateClauseBodyTx, softDeleteClauseTx, insertClauseTx, Commit, Abort
<1> QED
  BY <1>8, <1>9 DEF Still, AcceptanceInv

LEMMA InitAcceptance == Init => AcceptanceInv
<1> SUFFICES ASSUME Init PROVE AcceptanceInv
  OBVIOUS
<1>1. \A k \in Proposal : proposal[k].ops = <<>>
  BY DEF Init
<1>2. Shaped(<<>>)
  BY DEF Shaped
<1> QED
  BY <1>1, <1>2 DEF Init, AcceptanceInv, Undisturbed

LEMMA StepAcceptance == IInv /\ AcceptanceInv /\ [Next]_vars => AcceptanceInv'
BY StepShaped, StepFinished, StepInOrder DEF AcceptanceInv, Undisturbed

-----------------------------------------------------------------------------
(* What the commit of an undisturbed acceptance does to the clauses.       *)
LEMMA CommitApplies ==
    ASSUME IInv, IInv', AcceptanceInv, NEW p \in Proc, Commit(p), of[p] # NoProposal, alone[p]
    PROVE  AppliesWhole(of[p])
<1> DEFINE ops == Ops(p)
           n == Len(ops)
<1>1. TypeOK /\ row' \in [Handle -> Row] /\ Distinct(row') /\ row' = View(p)
  BY ViewCommit DEF IInv, Structure, TypeOK, PlacesDistinct
<1>2. InOrder(p) /\ todo[p] = <<>> /\ Shaped(ops)
  BY <1>1 DEF AcceptanceInv, Undisturbed, Commit, Ops, TypeOK
<1>3. n \in Nat /\ DOMAIN ops = 1..n /\ Done(p) = n
  BY <1>2 DEF Shaped, Done
<1>4. Reviewed(ops, row) /\ Applied(ops, n, row, row')
  BY <1>1, <1>2, <1>3 DEF InOrder
<1>5. \A i \in 1..n : ops[i].op \in {"edit", "delete", "add"} /\ (ops[i].op = "add" => ops[i].at \in {0, 1})
  BY <1>2 DEF Shaped
<1>6. proposal[of[p]].state = "open" /\ proposal[of[p]].ops = ops
  BY <1>2 DEF InOrder, Ops
<1> HIDE DEF ops
<1>7. Cardinality(Live(row') \ Live(row)) = Cardinality({i \in 1..n : ops[i].op = "add"})
  BY <1>4 DEF Applied, AddsCounted, Adds
<1>8. ASSUME NEW i \in 1..n
      PROVE  /\ ops[i].op # "add" => row[ops[i].clause].body = ops[i].before
             /\ ops[i].op = "delete" => ops[i].clause \notin Live(row')
  BY <1>4, <1>8 DEF Reviewed, Applied, DeletesHold
<1>9. ASSUME NEW i \in 1..n, ops[i].op = "edit",
             ~ \E j \in 1..n : j > i /\ ops[j].op = "edit" /\ ops[j].clause = ops[i].clause
      PROVE  row'[ops[i].clause].body = ops[i].body
  BY <1>4, <1>9 DEF Applied, EditsHold
<1>10. ASSUME NEW i \in 1..n, ops[i].op = "add"
       PROVE  \E h \in Live(row') \ Live(row) :
                  row'[h].body = ops[i].body /\ ByItsAnchor(ops[i], h, Live(row))
  <2>1. PICK h \in Live(row') \ Live(row) :
            row'[h].body = ops[i].body /\ Beside(ops[i], h, row, row')
    BY <1>4, <1>10 DEF Applied, AddsStand
  <2>2. ops[i].clause \in Live(row')
    BY <1>4, <1>10 DEF Applied, DeletesHold
  <2>3. \A a, b \in Live(row') : Precedes(row', a, b) <=> row'[a].place < row'[b].place
    BY <1>1, PlacesOrder
  <2>4. ByItsAnchor(ops[i], h, Live(row))
    BY <2>1, <2>2, <2>3 DEF ByItsAnchor, Beside, Between
  <2> QED BY <2>1, <2>4
<1> HIDE DEF n
<1> QED
  BY <1>3, <1>6, <1>7, <1>8, <1>9, <1>10 DEF AppliesWhole

(* An acceptance that no other commit and no mark on its proposal          *)
(* overlapped applies the proposal whole, to the text it was reviewed on.  *)
THEOREM ReviewedIsApplied == Spec => AppliesWhatWasReviewed
<1>1. IInv /\ IInv' /\ AcceptanceInv /\ [Next]_vars =>
        [\A p \in Proc : Commit(p) /\ of[p] # NoProposal /\ alone[p] => AppliesWhole(of[p])]_vars
  BY CommitApplies
<1> QED
  BY <1>1, InitAcceptance, StepAcceptance, Invariant, PTL DEF Spec, AppliesWhatWasReviewed
=============================================================================
