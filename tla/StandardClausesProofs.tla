------------------------ MODULE StandardClausesProofs ------------------------
(* What TLAPS proves about StandardClauses, for every number of requests,  *)
(* clauses, texts, proposals and drafts.                                   *)
EXTENDS StandardClauses, TLAPS

(***************************************************************************)
(* The inductive invariant.                                                *)
(***************************************************************************)

Used(r) == {h \in Handle : r[h].status # "none"}
DownClosed(r) == \A g, h \in Handle : h \in Used(r) /\ g < h => g \in Used(r)

(* The handles issued are 1..n, in each transaction's view as well.        *)
IssuedInOrder == DownClosed(row) /\ \A p \in Proc : DownClosed(View(p))

(* An uncommitted row exists, a new one is live and a deleted one stays    *)
(* deleted.                                                                *)
HeldOK ==
    \A h \in Handle : holder[h] # Nobody =>
        /\ draft[h].status # "none"
        /\ row[h].status = "deleted" => draft[h].status = "deleted"
        /\ row[h].status = "none" => draft[h].status = "active"

Names(o) == o.clause \in Handle /\ row[o.clause].status # "none"

TodoOK ==
    /\ \A p \in Proc : \A i \in 1..Len(todo[p]) : todo[p][i].op # "insert" => Names(todo[p][i])
    /\ \A p \in Proc : pc[p] \in {"anchored", "numbered", "counted"} => todo[p] # <<>>
    /\ \A p \in Proc : pc[p] = "numbered" => Appends(Head(todo[p]))
    /\ \A k \in Proposal : \A i \in 1..Len(proposal[k].ops) : proposal[k].ops[i].clause \in Handle

(* The transaction of p has issued no handle.                              *)
NoInsert(p) == \A h \in Handle : holder[h] = p => row[h].status # "none"

(* The seqs up to the one p read are in use; the position it read later is *)
(* the last, or its seq has been taken since.                              *)
CountedOK ==
    \A p \in Proc : pc[p] \in {"numbered", "counted"} =>
        /\ number[p] < MaxSeq
        /\ \A g \in Handle : g <= number[p] => g \in Used(View(p))
        /\ pc[p] = "counted" /\ Appends(Head(todo[p])) /\ row[Minted(p)].status = "none" =>
               \A h \in Handle : View(p)[h].place < ordinal[p]

(* Only an insert moves rows.                                              *)
Unmoved ==
    \A p \in Proc : NoInsert(p) =>
        \A h \in Handle : holder[h] = p => draft[h].place = row[h].place

(* r2 orders the clauses both hold as r1 does.                             *)
SameOrder(r1, r2) ==
    \A a, b \in Live(r1) \cap Live(r2) : r1[a].place < r1[b].place <=> r2[a].place < r2[b].place

OrderKept == \A p \in Proc : SameOrder(row, View(p))

Structure == TypeOK /\ IssuedInOrder /\ HeldOK /\ TodoOK

IInv == Structure /\ CountedOK /\ Unmoved /\ OrderKept /\ PlacesDistinct

-----------------------------------------------------------------------------
(* Views.                                                                  *)

LEMMA HandleInt == Handle \subseteq Int /\ \A h \in Handle : h >= 1 /\ h <= MaxSeq
BY SeqAssumption DEF Handle

LEMMA ViewType ==
    ASSUME TypeOK, NEW p \in Proc
    PROVE  View(p) \in [Handle -> Row]
BY DEF TypeOK, View

(* What a write shows to the transaction and to the others.                *)
LEMMA ViewWrite ==
    ASSUME TypeOK, NEW p \in Proc, NEW H, NEW r, Write(p, H, r)
    PROVE  /\ \A h \in Handle : View(p)'[h] = IF h \in H THEN r[h] ELSE View(p)[h]
           /\ \A q \in Proc \ {p} : View(q)' = View(q)
           /\ \A q \in Proc \ {p}, h \in Handle : holder'[h] = q <=> holder[h] = q
           /\ \A h \in Handle : holder'[h] = p <=> holder[h] = p \/ h \in H
           /\ row' = row
BY ProcAssumption DEF Write, View, Free, table

LEMMA ViewQuiet ==
    ASSUME UNCHANGED <<row, locks>>, NEW p \in Proc
    PROVE  View(p)' = View(p)
BY DEF View, locks

(* After the commit of p, another transaction sees p's rows.               *)
LEMMA ViewCommit ==
    ASSUME TypeOK, NEW p \in Proc, Commit(p)
    PROVE  /\ row' = View(p)
           /\ View(p)' = row'
           /\ \A q \in Proc \ {p}, h \in Handle :
                  /\ holder'[h] = q <=> holder[h] = q
                  /\ holder[h] = q => draft'[h] = draft[h]
                  /\ View(q)'[h] = IF holder[h] = q THEN draft[h] ELSE View(p)[h]
                  /\ holder[h] = q => View(p)[h] = row[h]
           /\ \A h \in Handle : holder'[h] # p
BY ProcAssumption DEF Commit, Release, View, TypeOK

LEMMA ViewAbort ==
    ASSUME TypeOK, NEW p \in Proc, Abort(p)
    PROVE  /\ row' = row
           /\ View(p)' = row
           /\ \A q \in Proc \ {p} : View(q)' = View(q)
           /\ \A q \in Proc \ {p}, h \in Handle :
                  /\ holder'[h] = q <=> holder[h] = q
                  /\ holder[h] = q => draft'[h] = draft[h]
           /\ \A h \in Handle : holder'[h] # p
BY ProcAssumption DEF Abort, Release, View, TypeOK, table

(* Everything committed is seen.                                           *)
LEMMA UsedSeen ==
    ASSUME TypeOK, HeldOK, NEW p \in Proc
    PROVE  Used(row) \subseteq Used(View(p))
BY ProcAssumption DEF TypeOK, HeldOK, Used, View

(* Two transactions that issue handles would both issue the next one, and  *)
(* only one can hold it.                                                   *)
LEMMA OneInserter ==
    ASSUME TypeOK, IssuedInOrder, HeldOK, NEW p \in Proc, NEW q \in Proc, p # q, ~NoInsert(p)
    PROVE  NoInsert(q)
<1> SUFFICES ASSUME ~NoInsert(q) PROVE FALSE
  OBVIOUS
<1>1. PICK g \in Handle : holder[g] = p /\ row[g].status = "none"
  BY DEF NoInsert
<1>2. PICK h \in Handle : holder[h] = q /\ row[h].status = "none"
  BY DEF NoInsert
<1>3. g \in Used(View(p)) /\ h \in Used(View(q))
  BY <1>1, <1>2, ProcAssumption DEF HeldOK, Used, View
<1>4. g # h
  BY <1>1, <1>2
<1>5. CASE g < h
  <2>1. g \in Used(View(q))
    BY <1>3, <1>5 DEF IssuedInOrder, DownClosed
  <2> QED
    BY <2>1, <1>1 DEF Used, View
<1>6. CASE h < g
  <2>1. h \in Used(View(p))
    BY <1>3, <1>6 DEF IssuedInOrder, DownClosed
  <2> QED
    BY <2>1, <1>2 DEF Used, View
<1> QED
  BY <1>4, <1>5, <1>6, HandleInt

(* The handle an insert issues is the next one in its view.                *)
LEMMA NextHandle ==
    ASSUME Structure, CountedOK, NEW p \in Proc, insertClauseTx(p)
    PROVE  /\ Minted(p) \in Handle
           /\ View(p)[Minted(p)].status = "none" /\ row[Minted(p)].status = "none"
           /\ \A h \in Handle : h \in Used(View(p)) <=> h < Minted(p)
<1>1. number[p] \in 0..MaxSeq /\ number[p] < MaxSeq
  BY DEF Structure, TypeOK, CountedOK, insertClauseTx
<1>2. Minted(p) \in Handle
  BY <1>1, SeqAssumption DEF Minted, Handle
<1>3. View(p)[Minted(p)].status = "none" /\ row[Minted(p)].status = "none"
  BY <1>2, ProcAssumption DEF insertClauseTx, SeqFree, View
<1>4. \A h \in Handle : h < Minted(p) => h \in Used(View(p))
  BY <1>1, HandleInt DEF Minted, CountedOK, insertClauseTx
<1>5. \A h \in Handle : h \in Used(View(p)) => h < Minted(p)
  BY <1>1, <1>2, <1>3, HandleInt DEF Structure, IssuedInOrder, DownClosed, Used, Minted
<1> QED
  BY <1>2, <1>3, <1>4, <1>5

-----------------------------------------------------------------------------
(* Types.                                                                  *)

LEMMA PlainType ==
    ASSUME NEW kind \in {"edit", "delete", "insert"}, NEW h \in Handle \cup {0},
           NEW b \in Text \cup {NoText}, NEW n \in Nat
    PROVE  Plain(kind, h, b, n) \in Op
BY DEF Plain, Op

LEMMA BeginType ==
    ASSUME TypeOK, NEW p \in Proc, NEW ops \in Seq(Op), NEW k \in Proposal \cup {NoProposal},
           Begin(p, ops, k)
    PROVE  TypeOK'
BY ProcAssumption DEF TypeOK, Begin, table, locks

LEMMA WriteType ==
    ASSUME TypeOK, NEW p \in Proc, NEW H, NEW r, Write(p, H, r), todo[p] # <<>>,
           \A h \in H : r[h] \in Row
    PROVE  TypeOK'
<1>1. Tail(todo[p]) \in Seq(Op)
  BY DEF TypeOK
<1>2. draft' \in [Handle -> Row] /\ holder' \in [Handle -> Proc \cup {Nobody}]
  BY DEF TypeOK, Write
<1>3. \A h \in Handle : holder'[h] = Nobody \/ pc'[holder'[h]] # "idle"
  BY DEF TypeOK, Write
<1> QED
  BY <1>1, <1>2, <1>3 DEF TypeOK, Write, table

LEMMA ReleaseType ==
    ASSUME TypeOK, NEW p \in Proc, Release(p), row' \in [Handle -> Row],
           proposal' \in [Proposal -> [state : {"none", "open", "resolved"}, ops : Seq(Op)]],
           alone' \in [Proc -> BOOLEAN]
    PROVE  TypeOK'
<1>1. NoRow \in Row
  BY DEF NoRow, Row
<1>2. draft' \in [Handle -> Row] /\ holder' \in [Handle -> Proc \cup {Nobody}]
  BY <1>1 DEF TypeOK, Release
<1>3. \A h \in Handle : holder'[h] = Nobody \/ pc'[holder'[h]] # "idle"
  BY ProcAssumption DEF TypeOK, Release
<1>4. todo' \in [Proc -> Seq(Op)] /\ of' \in [Proc -> Proposal \cup {NoProposal}]
  BY DEF TypeOK, Release
<1>5. number' \in [Proc -> 0..MaxSeq] /\ ordinal' \in [Proc -> Nat]
  BY SeqAssumption DEF TypeOK, Release
<1>6. pc' \in [Proc -> {"idle", "running", "anchored", "numbered", "counted", "composed"}]
  BY DEF TypeOK, Release
<1> QED
  BY <1>2, <1>3, <1>4, <1>5, <1>6 DEF TypeOK, Release

LEMMA InitType == Init => TypeOK
<1> SUFFICES ASSUME Init PROVE TypeOK
  OBVIOUS
<1>1. NoRow \in Row
  BY DEF NoRow, Row
<1>2. row \in [Handle -> Row]
  <2>1. \A h \in Handle : h \in DOMAIN FirstBody => FirstBody[h] \in Text /\ h \in Nat
    BY FirstAssumption, HandleInt
  <2> QED
    BY <1>1, <2>1 DEF Init, Row
<1>3. proposal \in [Proposal -> [state : {"none", "open", "resolved"}, ops : Seq(Op)]]
  BY DEF Init
<1>4. todo \in [Proc -> Seq(Op)] /\ number \in [Proc -> 0..MaxSeq] /\ ordinal \in [Proc -> Nat]
  BY SeqAssumption DEF Init
<1> QED
  BY <1>1, <1>2, <1>3, <1>4 DEF Init, TypeOK

LEMMA StepType == TypeOK /\ TodoOK /\ [Next]_vars => TypeOK'
<1> SUFFICES ASSUME TypeOK, TodoOK, [Next]_vars PROVE TypeOK'
  OBVIOUS
<1>1. CASE UNCHANGED vars
  BY <1>1 DEF TypeOK, vars, table, locks, request
<1>2. ASSUME NEW p \in Proc, NEW b \in Text, NEW n \in 0..MaxAt, createClause(p, b, n)
      PROVE  TypeOK'
  <2>1. Plain("insert", 0, b, n) \in Op
    BY PlainType, SeqAssumption
  <2>2. <<Plain("insert", 0, b, n)>> \in Seq(Op)
    BY <2>1
  <2>3. Begin(p, <<Plain("insert", 0, b, n)>>, NoProposal)
    BY <1>2 DEF createClause
  <2> QED
    BY <2>2, <2>3, BeginType
<1>3. ASSUME NEW p \in Proc, NEW b \in Text, NEW c \in Text, addClausesToSection(p, b, c)
      PROVE  TypeOK'
  <2>1. Plain("insert", 0, b, 0) \in Op /\ Plain("insert", 0, c, 0) \in Op
    BY PlainType
  <2>2. <<Plain("insert", 0, b, 0), Plain("insert", 0, c, 0)>> \in Seq(Op)
    BY <2>1
  <2>3. Begin(p, <<Plain("insert", 0, b, 0), Plain("insert", 0, c, 0)>>, NoProposal)
    BY <1>3 DEF addClausesToSection
  <2> QED
    BY <2>2, <2>3, BeginType
<1>4. ASSUME NEW p \in Proc, NEW h \in Handle, NEW b \in Text, updateClause(p, h, b)
      PROVE  TypeOK'
  <2>1. Plain("edit", h, b, 0) \in Op
    BY PlainType
  <2>2. <<Plain("edit", h, b, 0)>> \in Seq(Op)
    BY <2>1
  <2>3. Begin(p, <<Plain("edit", h, b, 0)>>, NoProposal)
    BY <1>4 DEF updateClause
  <2> QED
    BY <2>2, <2>3, BeginType
<1>5. ASSUME NEW p \in Proc, NEW h \in Handle, deleteClause(p, h)
      PROVE  TypeOK'
  <2>1. Plain("delete", h, NoText, 0) \in Op
    BY PlainType
  <2>2. <<Plain("delete", h, NoText, 0)>> \in Seq(Op)
    BY <2>1
  <2>3. Begin(p, <<Plain("delete", h, NoText, 0)>>, NoProposal)
    BY <1>5 DEF deleteClause
  <2> QED
    BY <2>2, <2>3, BeginType
<1>6. ASSUME NEW p \in Proc, NEW k \in Proposal, acceptStandardChange(p, k)
      PROVE  TypeOK'
  <2>1. proposal[k].ops \in Seq(Op)
    BY DEF TypeOK
  <2> QED
    BY <1>6, <2>1, BeginType DEF acceptStandardChange
<1>7. ASSUME NEW p \in Proc, updateClauseBodyTx(p)
      PROVE  TypeOK'
  <2> DEFINE o == Head(todo[p])
             r == [View(p) EXCEPT ![o.clause].body = o.body]
  <2>1. todo[p] \in Seq(Op) /\ todo[p] # <<>> /\ Write(p, {o.clause}, r)
    BY <1>7 DEF updateClauseBodyTx, Running, TypeOK
  <2>2. o \in Op
    BY <2>1
  <2>3. o.clause \in Handle
    BY <2>1 DEF Write, Free
  <2>4. r[o.clause] \in Row
    BY <2>2, <2>3, ViewType DEF Op, Row
  <2> HIDE DEF r
  <2> QED
    BY <2>1, <2>4, WriteType
<1>8. ASSUME NEW p \in Proc, softDeleteClauseTx(p)
      PROVE  TypeOK'
  <2> DEFINE o == Head(todo[p])
             r == [View(p) EXCEPT ![o.clause].status = "deleted"]
  <2>1. todo[p] # <<>> /\ Write(p, {o.clause}, r)
    BY <1>8 DEF softDeleteClauseTx, Running
  <2>2. o.clause \in Handle
    BY <2>1 DEF Write, Free
  <2>3. r[o.clause] \in Row
    BY <2>2, ViewType DEF Row
  <2> HIDE DEF r
  <2> QED
    BY <2>1, <2>3, WriteType
<1>9. ASSUME NEW p \in Proc, ReadAnchor(p)
      PROVE  TypeOK'
  <2>1. todo[p] \in Seq(Op) /\ todo[p] # <<>>
    BY <1>9 DEF ReadAnchor, Running, TypeOK
  <2>2. Head(todo[p]) \in Op
    BY <2>1
  <2>3. PICK n \in Nat : n = Head(todo[p]).at
    BY <2>2 DEF Op
  <2>4. Head(todo[p]).clause \in Handle
    BY <1>9, <2>1 DEF ReadAnchor, Running, TodoOK, Names
  <2>5. View(p)[Head(todo[p]).clause].place \in Nat
    BY <2>4, ViewType DEF Row
  <2>6. ordinal'[p] \in Nat
    BY <1>9, <2>3, <2>5 DEF ReadAnchor, TypeOK
  <2> QED
    BY <1>9, <2>6 DEF ReadAnchor, TypeOK, table, locks
<1>10. ASSUME NEW p \in Proc, ReadMaxSeq(p)
       PROVE  TypeOK'
  <2> DEFINE o == Head(todo[p])
  <2>1. number' \in [Proc -> 0..MaxSeq]
    BY <1>10, SeqAssumption DEF ReadMaxSeq, TypeOK, Handle
  <2>2. ordinal' \in [Proc -> Nat]
    <3>1. CASE o.op = "insert"
      <4>1. o \in Op
        BY <1>10 DEF ReadMaxSeq, Running, TodoOK, TypeOK
      <4>2. o.at \in Nat
        BY <4>1 DEF Op
      <4> QED
        BY <1>10, <3>1, <4>2 DEF ReadMaxSeq, TypeOK
    <3>2. CASE o.op # "insert"
      BY <1>10, <3>2 DEF ReadMaxSeq, TypeOK
    <3> QED
      BY <3>1, <3>2
  <2>3. pc' \in [Proc -> {"idle", "running", "anchored", "numbered", "counted", "composed"}]
    BY <1>10 DEF ReadMaxSeq, TypeOK
  <2>4. \A q \in Proc : pc'[q] = "idle" => pc[q] = "idle"
    BY <1>10 DEF ReadMaxSeq, TypeOK
  <2> QED
    BY <1>10, <2>1, <2>2, <2>3, <2>4 DEF ReadMaxSeq, TypeOK, table, locks
<1>22. ASSUME NEW p \in Proc, ReadMaxPosition(p)
       PROVE  TypeOK'
  <2>1. PICK m \in {0} \cup {View(p)[h].place : h \in Handle} :
            ordinal' = [ordinal EXCEPT ![p] = m + 1]
    BY <1>22 DEF ReadMaxPosition
  <2>2. m \in Nat
    BY ViewType DEF Row
  <2>3. ordinal' \in [Proc -> Nat]
    BY <2>1, <2>2 DEF TypeOK
  <2> QED
    BY <1>22, <2>3 DEF ReadMaxPosition, TypeOK, table, locks
<1>11. ASSUME NEW p \in Proc, insertClauseTx(p)
       PROVE  TypeOK'
  <2> DEFINE o == Head(todo[p])
             new == Minted(p)
             r == [h \in Handle |-> IF h = new
                     THEN [status |-> "active", body |-> o.body, place |-> ordinal[p]]
                     ELSE [View(p)[h] EXCEPT !.place = @ + 1]]
  <2>1. todo[p] \in Seq(Op) /\ todo[p] # <<>> /\ Write(p, Pushed(p) \cup {new}, r)
    BY <1>11 DEF insertClauseTx, TodoOK, TypeOK
  <2>2. o \in Op
    BY <2>1
  <2>3. ASSUME NEW h \in Handle PROVE r[h] \in Row
    <3>1. CASE h = new
      <4>1. o.body \in Text \cup {NoText} /\ ordinal[p] \in Nat
        BY <2>2 DEF Op, TypeOK
      <4> QED
        BY <3>1, <4>1 DEF Row
    <3>2. CASE h # new
      <4>1. View(p)[h] \in Row
        BY ViewType
      <4> QED
        BY <3>2, <4>1 DEF Row
    <3> QED
      BY <3>1, <3>2
  <2>4. Pushed(p) \cup {new} \subseteq Handle
    BY <2>1 DEF Write, Free
  <2> HIDE DEF r
  <2> QED
    BY <2>1, <2>3, <2>4, WriteType
<1>12. ASSUME NEW p \in Proc, regenerateSectionContentTx(p)
       PROVE  TypeOK'
  BY <1>12 DEF regenerateSectionContentTx, TypeOK, table, locks
<1>13. ASSUME NEW p \in Proc, Commit(p)
       PROVE  TypeOK'
  <2>1. proposal' \in [Proposal -> [state : {"none", "open", "resolved"}, ops : Seq(Op)]]
    <3>1. CASE of[p] \in Proposal /\ of[p] # NoProposal
      <4>1. proposal' = [proposal EXCEPT ![of[p]].state = "resolved"]
        BY <1>13, <3>1 DEF Commit
      <4> QED
        BY <3>1, <4>1 DEF TypeOK
    <3>2. CASE of[p] = NoProposal
      BY <1>13, <3>2 DEF Commit, TypeOK
    <3> QED
      BY <3>1, <3>2 DEF TypeOK
  <2>2. row' \in [Handle -> Row] /\ alone' \in [Proc -> BOOLEAN] /\ Release(p)
    BY <1>13, ViewType DEF Commit
  <2> QED
    BY <2>1, <2>2, ReleaseType
<1>14. ASSUME NEW p \in Proc, Abort(p)
       PROVE  TypeOK'
  <2>1. Release(p) /\ UNCHANGED <<row, proposal, alone>>
    BY <1>14 DEF Abort, table
  <2> QED
    BY <2>1, ReleaseType DEF TypeOK
<1>15. ASSUME NEW k \in Proposal, NEW d \in Draft, proposeStandardChange(k, d)
       PROVE  TypeOK'
  <2> DEFINE ops == [i \in DOMAIN d |-> [d[i] EXCEPT !.before = row[d[i].clause].body]]
  <2>1. d \in Seq(Op) /\ \A i \in DOMAIN d : d[i].clause \in Handle
    BY DraftAssumption
  <2>2. \A i \in 1..Len(d) : ops[i] \in Op
    <3> SUFFICES ASSUME NEW i \in 1..Len(d) PROVE ops[i] \in Op
      OBVIOUS
    <3>1. d[i] \in Op /\ d[i].clause \in Handle
      BY <2>1
    <3>2. row[d[i].clause].body \in Text \cup {NoText}
      BY <3>1 DEF TypeOK, Row
    <3>3. ops[i] = [d[i] EXCEPT !.before = row[d[i].clause].body]
      BY <2>1
    <3> QED
      BY <3>1, <3>2, <3>3 DEF Op
  <2>3. ops \in Seq(Op)
    <3>1. Len(d) \in Nat /\ DOMAIN d = 1..Len(d)
      BY <2>1
    <3> QED
      BY <2>2, <3>1
  <2>4. proposal' = [proposal EXCEPT ![k] = [state |-> "open", ops |-> ops]]
    BY <1>15 DEF proposeStandardChange
  <2> HIDE DEF ops
  <2>5. proposal' \in [Proposal -> [state : {"none", "open", "resolved"}, ops : Seq(Op)]]
    BY <2>3, <2>4 DEF TypeOK
  <2> QED
    BY <1>15, <2>5 DEF proposeStandardChange, TypeOK, locks, request
<1>16. ASSUME NEW k \in Proposal, NEW state \in {"open", "resolved"}, Mark(k, state)
       PROVE  TypeOK'
  <2>1. proposal' \in [Proposal -> [state : {"none", "open", "resolved"}, ops : Seq(Op)]]
    BY <1>16 DEF Mark, TypeOK
  <2>2. alone' \in [Proc -> BOOLEAN]
    BY <1>16, Zenon DEF Mark, TypeOK
  <2> QED
    BY <1>16, <2>1, <2>2 DEF Mark, TypeOK, locks, request
<1> QED
  BY <1>1, <1>2, <1>3, <1>4, <1>5, <1>6, <1>7, <1>8, <1>9, <1>10, <1>11, <1>12, <1>13, <1>14,
     <1>15, <1>16, <1>22, Zenon DEF Next, resolveComment, unresolveComment

-----------------------------------------------------------------------------
(* What a step does to the rows.                                           *)

Quiet == UNCHANGED <<row, locks>>

Amends(p) == updateClauseBodyTx(p) \/ softDeleteClauseTx(p)

LEMMA StepKinds ==
    ASSUME [Next]_vars
    PROVE  \/ Quiet
           \/ \E p \in Proc : Amends(p) \/ insertClauseTx(p) \/ Commit(p) \/ Abort(p)
BY Zenon DEF Next, vars, table, Quiet, Amends, Begin, createClause, addClausesToSection,
   updateClause, deleteClause, acceptStandardChange, ReadAnchor, ReadMaxSeq, ReadMaxPosition,
   regenerateSectionContentTx, proposeStandardChange, Mark, resolveComment, unresolveComment

(* An edit or a deletion writes one row, which keeps its position, is not  *)
(* revived and is not unmade.                                              *)
LEMMA Amended ==
    ASSUME TypeOK, TodoOK, HeldOK, NEW p \in Proc, Amends(p)
    PROVE  /\ row' = row
           /\ \A q \in Proc \ {p} : View(q)' = View(q)
           /\ \A h \in Handle :
                  /\ View(p)'[h].place = View(p)[h].place
                  /\ View(p)'[h].status = "active" => View(p)[h].status = "active"
                  /\ View(p)'[h].status = "none" <=> View(p)[h].status = "none"
                  /\ View(p)[h].status = "deleted" => View(p)'[h].status = "deleted"
                  /\ row[h].status = "none" => View(p)'[h] = View(p)[h]
           /\ \A h \in Handle, q \in Proc \ {p} : holder'[h] = q <=> holder[h] = q
           /\ \A h \in Handle : holder'[h] = p => holder[h] = p \/ row[h].status # "none"
           /\ \A h \in Handle : holder[h] = p => holder'[h] = p
           /\ \A h \in Handle : holder'[h] = p => draft'[h] = View(p)'[h]
           /\ \A h \in Handle, q \in Proc \ {p} : holder[h] = q => draft'[h] = draft[h]
<1> DEFINE c == Head(todo[p]).clause
           r1 == [View(p) EXCEPT ![c].body = Head(todo[p]).body]
           r2 == [View(p) EXCEPT ![c].status = "deleted"]
<1>1. todo[p] \in Seq(Op) /\ todo[p] # <<>> /\ Head(todo[p]).op # "insert"
  BY DEF Amends, updateClauseBodyTx, softDeleteClauseTx, Running, TypeOK
<1>2. c \in Handle /\ row[c].status # "none"
  BY <1>1 DEF TodoOK, Names
<1>3. PICK r \in {r1, r2} : Write(p, {c}, r)
  BY DEF Amends, updateClauseBodyTx, softDeleteClauseTx
<1>4. View(p)[c].status # "none"
  BY <1>2, ProcAssumption DEF View, HeldOK
<1>5. \A h \in Handle : View(p)[h] \in Row
  BY ViewType
<1>6. /\ r[c].place = View(p)[c].place
      /\ r[c].status \in {View(p)[c].status, "deleted"}
  BY <1>2, <1>5, ViewType DEF Row
<1> HIDE DEF c, r1, r2
<1>7. row' = row /\ \A q \in Proc \ {p} : View(q)' = View(q)
  BY <1>3, ViewWrite
<1>8. \A h \in Handle : View(p)'[h] = IF h \in {c} THEN r[h] ELSE View(p)[h]
  BY <1>3, ViewWrite
<1>9. /\ \A h \in Handle, q \in Proc \ {p} : holder'[h] = q <=> holder[h] = q
      /\ \A h \in Handle : holder'[h] = p <=> holder[h] = p \/ h = c
  BY <1>3, ViewWrite
<1>10. \A h \in Handle : holder'[h] = p => draft'[h] = View(p)'[h]
  BY DEF View
<1>11. \A h \in Handle, q \in Proc \ {p} : holder[h] = q => draft'[h] = draft[h]
  BY <1>3, ProcAssumption DEF Write, Free
<1> QED
  BY <1>2, <1>4, <1>6, <1>7, <1>8, <1>9, <1>10, <1>11

(* An insert adds the next handle and pushes what stands at or after it.   *)
LEMMA Inserted ==
    ASSUME Structure, CountedOK, NEW p \in Proc, insertClauseTx(p)
    PROVE  /\ row' = row
           /\ \A q \in Proc \ {p} : View(q)' = View(q)
           /\ View(p)'[Minted(p)].status = "active" /\ View(p)'[Minted(p)].place = ordinal[p]
           /\ \A h \in Handle \ {Minted(p)} :
                  /\ View(p)'[h].status = View(p)[h].status
                  /\ View(p)'[h].place = IF h \in Pushed(p) THEN View(p)[h].place + 1
                                                           ELSE View(p)[h].place
           /\ \A h \in Handle, q \in Proc \ {p} : holder'[h] = q <=> holder[h] = q
           /\ \A h \in Handle : holder'[h] = p <=> holder[h] = p \/ h \in Pushed(p) \cup {Minted(p)}
           /\ \A h \in Handle : holder'[h] = p => draft'[h] = View(p)'[h]
           /\ \A h \in Handle, q \in Proc \ {p} : holder[h] = q => draft'[h] = draft[h]
<1> DEFINE H == Pushed(p) \cup {Minted(p)}
           r == [h \in Handle |-> IF h = Minted(p)
                   THEN [status |-> "active", body |-> Head(todo[p]).body, place |-> ordinal[p]]
                   ELSE [View(p)[h] EXCEPT !.place = @ + 1]]
<1>1. TypeOK /\ Write(p, H, r)
  BY DEF Structure, insertClauseTx
<1>2. Minted(p) \in Handle /\ Minted(p) \notin Pushed(p)
  BY NextHandle DEF Pushed, Live
<1>3. \A h \in Handle : View(p)[h] \in Row
  BY <1>1, ViewType
<1>4. /\ r[Minted(p)].status = "active" /\ r[Minted(p)].place = ordinal[p]
      /\ \A h \in Handle \ {Minted(p)} :
             r[h].status = View(p)[h].status /\ r[h].place = View(p)[h].place + 1
  BY <1>2, <1>3 DEF Row
<1>5. \A h \in Handle, q \in Proc \ {p} : holder[h] = q => draft'[h] = draft[h]
  BY <1>1, ProcAssumption DEF Write, Free
<1> HIDE DEF r, H
<1>6. row' = row /\ \A q \in Proc \ {p} : View(q)' = View(q)
  BY <1>1, ViewWrite
<1>7. \A h \in Handle : View(p)'[h] = IF h \in H THEN r[h] ELSE View(p)[h]
  BY <1>1, ViewWrite
<1>8. /\ \A h \in Handle, q \in Proc \ {p} : holder'[h] = q <=> holder[h] = q
      /\ \A h \in Handle : holder'[h] = p <=> holder[h] = p \/ h \in H
  BY <1>1, ViewWrite
<1>9. \A h \in Handle : holder'[h] = p => draft'[h] = View(p)'[h]
  BY DEF View
<1> QED
  BY <1>2, <1>4, <1>5, <1>6, <1>7, <1>8, <1>9 DEF H

(* Committed rows are never unmade, and a deleted one never revived.       *)
LEMMA RowsStay ==
    ASSUME Structure, CountedOK, [Next]_vars, NEW h \in Handle
    PROVE  /\ row[h].status # "none" => row'[h].status # "none"
           /\ row[h].status = "deleted" => row'[h].status = "deleted"
<1>1. CASE Quiet
  BY <1>1 DEF Quiet
<1>2. ASSUME NEW p \in Proc, Amends(p) \/ insertClauseTx(p) \/ Abort(p) PROVE row' = row
  BY <1>2, Amended, Inserted, ViewAbort DEF Structure
<1>3. ASSUME NEW p \in Proc, Commit(p)
      PROVE  /\ row[h].status # "none" => row'[h].status # "none"
             /\ row[h].status = "deleted" => row'[h].status = "deleted"
  BY <1>3, ProcAssumption DEF Commit, View, HeldOK, Structure
<1> QED
  BY <1>1, <1>2, <1>3, StepKinds

-----------------------------------------------------------------------------
(* Every step keeps the structural part of the invariant.                  *)

LEMMA StepTodo ==
    ASSUME Structure, CountedOK, [Next]_vars
    PROVE  TodoOK'
<1> DEFINE Named(o) == o.clause \in Handle /\ row'[o.clause].status # "none"
<1>1. \A o \in Op : Names(o) => Named(o)
  BY RowsStay DEF Names
<1> HIDE DEF Named
<1>2. ASSUME NEW q \in Proc, NEW ops \in Seq(Op), NEW k, Begin(q, ops, k),
             \A i \in 1..Len(ops) : ops[i].op # "insert" => Names(ops[i])
      PROVE  TodoOK'
  <2>1. proposal' = proposal /\ TypeOK /\ TodoOK
    BY <1>2 DEF Begin, table, Structure
  <2>2. ASSUME NEW p \in Proc, NEW i \in 1..Len(todo'[p]), todo'[p][i].op # "insert"
        PROVE  Named(todo'[p][i])
    <3>1. CASE p = q
      <4>1. todo'[p] = ops
        BY <1>2, <2>1, <3>1 DEF Begin, TypeOK
      <4> QED
        BY <1>1, <1>2, <2>2, <4>1
    <3>2. CASE p # q
      <4>1. todo'[p] = todo[p] /\ todo[p] \in Seq(Op)
        BY <1>2, <2>1, <3>2 DEF Begin, TypeOK
      <4> QED
        BY <1>1, <2>1, <2>2, <4>1 DEF TodoOK
    <3> QED
      BY <3>1, <3>2
  <2>3. \A p \in Proc : pc'[p] \in {"anchored", "numbered", "counted"} =>
            todo'[p] # <<>> /\ (pc'[p] = "numbered" => Appends(Head(todo'[p])))
    BY <1>2, <2>1 DEF Begin, TypeOK, TodoOK
  <2> QED
    BY <2>1, <2>2, <2>3 DEF TodoOK, Names, Named
<1>3. ASSUME NEW q \in Proc, NEW H, NEW r, Write(q, H, r), todo[q] # <<>>
      PROVE  TodoOK'
  <2>1. proposal' = proposal /\ TypeOK /\ TodoOK
    BY <1>3 DEF Write, table, Structure
  <2>2. ASSUME NEW p \in Proc, NEW i \in 1..Len(todo'[p]), todo'[p][i].op # "insert"
        PROVE  Named(todo'[p][i])
    <3>1. CASE p = q
      <4>1. todo'[p] = Tail(todo[p]) /\ todo[p] \in Seq(Op) /\ todo[p] # <<>>
        BY <1>3, <2>1, <3>1 DEF Write, TypeOK
      <4>2. i + 1 \in 1..Len(todo[p]) /\ todo'[p][i] = todo[p][i + 1]
        BY <2>2, <4>1
      <4> QED
        BY <1>1, <2>1, <2>2, <4>1, <4>2 DEF TodoOK
    <3>2. CASE p # q
      <4>1. todo'[p] = todo[p] /\ todo[p] \in Seq(Op)
        BY <1>3, <2>1, <3>2 DEF Write, TypeOK
      <4> QED
        BY <1>1, <2>1, <2>2, <4>1 DEF TodoOK
    <3> QED
      BY <3>1, <3>2
  <2>3. \A p \in Proc : pc'[p] \in {"anchored", "numbered", "counted"} =>
            todo'[p] # <<>> /\ (pc'[p] = "numbered" => Appends(Head(todo'[p])))
    BY <1>3, <2>1 DEF Write, TypeOK, TodoOK
  <2> QED
    BY <2>1, <2>2, <2>3 DEF TodoOK, Names, Named
<1>4. ASSUME NEW q \in Proc, Release(q),
             \A k \in Proposal : proposal'[k].ops = proposal[k].ops
      PROVE  TodoOK'
  <2>1. TypeOK /\ TodoOK
    BY DEF Structure
  <2>2. ASSUME NEW p \in Proc, NEW i \in 1..Len(todo'[p]), todo'[p][i].op # "insert"
        PROVE  Named(todo'[p][i])
    <3>1. p # q
      BY <1>4, <2>1, <2>2 DEF Release, TypeOK
    <3>2. todo'[p] = todo[p] /\ todo[p] \in Seq(Op)
      BY <1>4, <2>1, <3>1 DEF Release, TypeOK
    <3> QED
      BY <1>1, <2>1, <2>2, <3>2 DEF TodoOK
  <2>3. \A p \in Proc : pc'[p] \in {"anchored", "numbered", "counted"} =>
            todo'[p] # <<>> /\ (pc'[p] = "numbered" => Appends(Head(todo'[p])))
    BY <1>4, <2>1 DEF Release, TypeOK, TodoOK
  <2> QED
    BY <1>4, <2>1, <2>2, <2>3 DEF TodoOK, Names, Named
<1>5. ASSUME UNCHANGED <<todo, row>>, \A k \in Proposal : proposal'[k].ops = proposal[k].ops,
             \A p \in Proc : pc'[p] \in {"anchored", "numbered", "counted"} =>
                 /\ todo[p] # <<>>
                 /\ pc'[p] = "numbered" => Appends(Head(todo[p]))
      PROVE  TodoOK'
  BY <1>5 DEF TodoOK, Structure, Names
<1>6. CASE UNCHANGED vars
  BY <1>5, <1>6 DEF vars, table, request, Structure, TodoOK
<1>7. ASSUME NEW p \in Proc, NEW b \in Text, NEW n \in 0..MaxAt, createClause(p, b, n)
      PROVE  TodoOK'
  <2> DEFINE o == Plain("insert", 0, b, n)
  <2>1. o \in Op /\ o.op = "insert"
    BY PlainType, SeqAssumption DEF Plain
  <2>2. Begin(p, <<o>>, NoProposal)
    BY <1>7 DEF createClause
  <2> HIDE DEF o
  <2>3. <<o>> \in Seq(Op) /\ \A i \in 1..Len(<<o>>) : <<o>>[i] = o
    BY <2>1
  <2> QED
    BY <1>2, <2>1, <2>2, <2>3
<1>8. ASSUME NEW p \in Proc, NEW b \in Text, NEW c \in Text, addClausesToSection(p, b, c)
      PROVE  TodoOK'
  <2> DEFINE ops == <<Plain("insert", 0, b, 0), Plain("insert", 0, c, 0)>>
  <2>1. ops \in Seq(Op) /\ \A i \in 1..Len(ops) : ops[i].op = "insert"
    BY PlainType DEF Plain
  <2>2. Begin(p, ops, NoProposal)
    BY <1>8 DEF addClausesToSection
  <2> HIDE DEF ops
  <2> QED
    BY <1>2, <2>1, <2>2
<1>9. ASSUME NEW p \in Proc, NEW h \in Handle, NEW b \in Text, updateClause(p, h, b)
      PROVE  TodoOK'
  <2> DEFINE o == Plain("edit", h, b, 0)
  <2>1. o \in Op /\ Names(o)
    BY <1>9, PlainType DEF Plain, Names, updateClause
  <2>2. Begin(p, <<o>>, NoProposal)
    BY <1>9 DEF updateClause
  <2> HIDE DEF o
  <2>3. <<o>> \in Seq(Op) /\ \A i \in 1..Len(<<o>>) : <<o>>[i] = o
    BY <2>1
  <2> QED
    BY <1>2, <2>1, <2>2, <2>3
<1>10. ASSUME NEW p \in Proc, NEW h \in Handle, deleteClause(p, h)
       PROVE  TodoOK'
  <2> DEFINE o == Plain("delete", h, NoText, 0)
  <2>1. o \in Op /\ Names(o)
    BY <1>10, PlainType DEF Plain, Names, deleteClause
  <2>2. Begin(p, <<o>>, NoProposal)
    BY <1>10 DEF deleteClause
  <2> HIDE DEF o
  <2>3. <<o>> \in Seq(Op) /\ \A i \in 1..Len(<<o>>) : <<o>>[i] = o
    BY <2>1
  <2> QED
    BY <1>2, <2>1, <2>2, <2>3
<1>11. ASSUME NEW p \in Proc, NEW k \in Proposal, acceptStandardChange(p, k)
       PROVE  TodoOK'
  <2> DEFINE ops == proposal[k].ops
  <2>1. ops \in Seq(Op) /\ \A i \in 1..Len(ops) : ops[i].clause \in Handle
    BY DEF Structure, TypeOK, TodoOK
  <2>2. \A i \in 1..Len(ops) : Names(ops[i])
    BY <1>11, <2>1 DEF acceptStandardChange, Names
  <2>3. Begin(p, ops, k)
    BY <1>11 DEF acceptStandardChange
  <2> HIDE DEF ops
  <2> QED
    BY <1>2, <2>1, <2>2, <2>3
<1>12. ASSUME NEW p \in Proc, Amends(p) \/ insertClauseTx(p) PROVE TodoOK'
  BY <1>3, <1>12 DEF Amends, updateClauseBodyTx, softDeleteClauseTx, insertClauseTx, Running,
     Structure, TodoOK
<1>13. ASSUME NEW p \in Proc, ReadAnchor(p) PROVE TodoOK'
  BY <1>5, <1>13 DEF ReadAnchor, Running, table, Structure, TypeOK, TodoOK
<1>14. ASSUME NEW p \in Proc, ReadMaxSeq(p) PROVE TodoOK'
  <2>1. todo[p] # <<>>
    BY <1>14 DEF ReadMaxSeq, Running, Structure, TodoOK
  <2>2. \A q \in Proc : pc'[q] \in {"anchored", "numbered", "counted"} =>
            /\ todo[q] # <<>>
            /\ pc'[q] = "numbered" => Appends(Head(todo[q]))
    <3>2. pc'[p] = "numbered" => Appends(Head(todo[p]))
      BY <1>14 DEF ReadMaxSeq, Structure, TypeOK
    <3>3. \A q \in Proc \ {p} : pc'[q] = pc[q]
      BY <1>14 DEF ReadMaxSeq, Structure, TypeOK
    <3> QED
      BY <2>1, <3>2, <3>3 DEF Structure, TodoOK
  <2> QED
    BY <1>5, <1>14, <2>2 DEF ReadMaxSeq, table
<1>22. ASSUME NEW p \in Proc, ReadMaxPosition(p) PROVE TodoOK'
  BY <1>5, <1>22 DEF ReadMaxPosition, table, Structure, TypeOK, TodoOK
<1>15. ASSUME NEW p \in Proc, regenerateSectionContentTx(p) PROVE TodoOK'
  BY <1>5, <1>15 DEF regenerateSectionContentTx, table, Structure, TypeOK, TodoOK
<1>16. ASSUME NEW p \in Proc, Commit(p) PROVE TodoOK'
  <2>1. Release(p)
    BY <1>16 DEF Commit
  <2>2. \A k \in Proposal : proposal'[k].ops = proposal[k].ops
    <3>1. CASE of[p] = NoProposal
      BY <1>16, <3>1 DEF Commit
    <3>2. CASE of[p] # NoProposal
      <4>1. proposal' = [proposal EXCEPT ![of[p]].state = "resolved"]
        BY <1>16, <3>2 DEF Commit
      <4> QED
        BY <4>1 DEF Structure, TypeOK
    <3> QED
      BY <3>1, <3>2
  <2> QED
    BY <1>4, <2>1, <2>2
<1>17. ASSUME NEW p \in Proc, Abort(p) PROVE TodoOK'
  BY <1>4, <1>17 DEF Abort, table
<1>18. ASSUME NEW k \in Proposal, NEW d \in Draft, proposeStandardChange(k, d) PROVE TodoOK'
  <2> DEFINE ops == [i \in DOMAIN d |-> [d[i] EXCEPT !.before = row[d[i].clause].body]]
  <2>1. d \in Seq(Op) /\ \A i \in DOMAIN d : d[i].clause \in Handle
    BY DraftAssumption
  <2>2. Len(ops) = Len(d) /\ DOMAIN d = 1..Len(d)
    BY <2>1
  <2>3. \A i \in 1..Len(ops) : ops[i].clause \in Handle
    <3> SUFFICES ASSUME NEW i \in 1..Len(d) PROVE ops[i].clause \in Handle
      BY <2>2
    <3>1. d[i] \in Op /\ d[i].clause \in Handle
      BY <2>1
    <3>2. ops[i] = [d[i] EXCEPT !.before = row[d[i].clause].body]
      BY <2>2
    <3> QED
      BY <3>1, <3>2 DEF Op
  <2>4. proposal' = [proposal EXCEPT ![k] = [state |-> "open", ops |-> ops]]
    BY <1>18 DEF proposeStandardChange
  <2> HIDE DEF ops
  <2>5. \A j \in Proposal : \A i \in 1..Len(proposal'[j].ops) : proposal'[j].ops[i].clause \in Handle
    BY <2>3, <2>4 DEF Structure, TypeOK, TodoOK
  <2>6. UNCHANGED <<row, todo, pc>>
    BY <1>18 DEF proposeStandardChange, request
  <2> QED
    BY <2>5, <2>6 DEF Structure, TodoOK, Names
<1>19. ASSUME NEW k \in Proposal, NEW state \in {"open", "resolved"}, Mark(k, state) PROVE TodoOK'
  <2>1. \A j \in Proposal : proposal'[j].ops = proposal[j].ops
    BY <1>19 DEF Mark, Structure, TypeOK
  <2> QED
    BY <1>5, <1>19, <2>1 DEF Mark, request, Structure, TodoOK
<1> QED
  BY <1>6, <1>7, <1>8, <1>9, <1>10, <1>11, <1>12, <1>13, <1>14, <1>15, <1>16, <1>17, <1>18, <1>19,
     <1>22, Zenon DEF Next, Amends, resolveComment, unresolveComment

LEMMA StepHeld ==
    ASSUME Structure, CountedOK, [Next]_vars
    PROVE  HeldOK'
<1> USE ProcAssumption
<1>1. TypeOK /\ TodoOK /\ HeldOK
  BY DEF Structure
<1>2. CASE Quiet
  BY <1>1, <1>2 DEF Quiet, locks, HeldOK
<1>3. ASSUME NEW p \in Proc, Amends(p) PROVE HeldOK'
  <2> SUFFICES ASSUME NEW h \in Handle, holder'[h] # Nobody
               PROVE  /\ draft'[h].status # "none"
                      /\ row'[h].status = "deleted" => draft'[h].status = "deleted"
                      /\ row'[h].status = "none" => draft'[h].status = "active"
    BY DEF HeldOK
  <2>1. holder'[h] \in Proc
    BY <1>1, <1>3, StepType DEF TypeOK
  <2>2. CASE holder'[h] = p
    <3>1. /\ draft'[h] = View(p)'[h]
          /\ holder[h] = p \/ row[h].status # "none"
          /\ View(p)'[h].status = "none" <=> View(p)[h].status = "none"
          /\ View(p)[h].status = "deleted" => View(p)'[h].status = "deleted"
          /\ row[h].status = "none" => View(p)'[h] = View(p)[h]
      BY <1>1, <1>3, <2>2, Amended
    <3>2. row' = row
      BY <1>1, <1>3, Amended
    <3> QED
      BY <1>1, <3>1, <3>2 DEF HeldOK, View
  <2>3. CASE holder'[h] # p
    <3>1. row' = row /\ holder[h] = holder'[h] /\ draft'[h] = draft[h]
      BY <1>1, <1>3, <2>1, <2>3, Amended
    <3> QED
      BY <1>1, <3>1 DEF HeldOK
  <2> QED
    BY <2>2, <2>3
<1>4. ASSUME NEW p \in Proc, insertClauseTx(p) PROVE HeldOK'
  <2> SUFFICES ASSUME NEW h \in Handle, holder'[h] # Nobody
               PROVE  /\ draft'[h].status # "none"
                      /\ row'[h].status = "deleted" => draft'[h].status = "deleted"
                      /\ row'[h].status = "none" => draft'[h].status = "active"
    BY DEF HeldOK
  <2>1. holder'[h] \in Proc /\ row' = row
    BY <1>1, <1>4, StepType, Inserted DEF TypeOK
  <2>2. CASE holder'[h] = p
    <3>1. /\ draft'[h] = View(p)'[h]
          /\ h # Minted(p) => View(p)'[h].status = View(p)[h].status
          /\ View(p)'[Minted(p)].status = "active"
          /\ holder[h] = p \/ h \in Pushed(p) \cup {Minted(p)}
      BY <1>4, <2>2, Inserted
    <3>2. row[Minted(p)].status = "none"
      BY <1>4, NextHandle
    <3>3. CASE h = Minted(p)
      BY <2>1, <3>1, <3>2, <3>3
    <3>4. CASE h # Minted(p)
      <4>1. View(p)[h].status # "none"
        BY <1>1, <3>1, <3>4 DEF HeldOK, View, Pushed, Live
      <4>2. /\ row[h].status = "deleted" => View(p)[h].status = "deleted"
            /\ row[h].status = "none" => View(p)[h].status \in {"none", "active"}
        BY <1>1 DEF HeldOK, View
      <4> QED
        BY <2>1, <3>1, <3>4, <4>1, <4>2
    <3> QED
      BY <3>3, <3>4
  <2>3. CASE holder'[h] # p
    <3>1. holder[h] = holder'[h] /\ draft'[h] = draft[h]
      BY <1>4, <2>1, <2>3, Inserted
    <3> QED
      BY <1>1, <2>1, <3>1 DEF HeldOK
  <2> QED
    BY <2>2, <2>3
<1>5. ASSUME NEW p \in Proc, Commit(p) \/ Abort(p) PROVE HeldOK'
  <2> SUFFICES ASSUME NEW h \in Handle, holder'[h] # Nobody
               PROVE  /\ draft'[h].status # "none"
                      /\ row'[h].status = "deleted" => draft'[h].status = "deleted"
                      /\ row'[h].status = "none" => draft'[h].status = "active"
    BY DEF HeldOK
  <2>1. Release(p) /\ row'[h] \in {row[h], View(p)[h]}
    BY <1>5 DEF Commit, Abort, table
  <2>2. holder[h] # p /\ holder[h] # Nobody /\ draft'[h] = draft[h]
    BY <2>1 DEF Release
  <2> QED
    BY <1>1, <2>1, <2>2 DEF HeldOK, View
<1> QED
  BY <1>2, <1>3, <1>4, <1>5, StepKinds

LEMMA StepIssued ==
    ASSUME Structure, CountedOK, [Next]_vars
    PROVE  IssuedInOrder'
<1>1. TypeOK /\ TodoOK /\ HeldOK /\ IssuedInOrder
  BY DEF Structure
<1>2. CASE Quiet
  <2>1. row' = row /\ \A q \in Proc : View(q)' = View(q)
    BY <1>2, ViewQuiet DEF Quiet
  <2> QED
    BY <1>1, <2>1 DEF IssuedInOrder, DownClosed, Used
<1>3. ASSUME NEW p \in Proc, Amends(p) PROVE IssuedInOrder'
  <2>1. row' = row /\ \A q \in Proc \ {p} : View(q)' = View(q)
    BY <1>1, <1>3, Amended
  <2>2. \A h \in Handle : View(p)'[h].status = "none" <=> View(p)[h].status = "none"
    BY <1>1, <1>3, Amended
  <2> QED
    BY <1>1, <2>1, <2>2 DEF IssuedInOrder, DownClosed, Used
<1>4. ASSUME NEW p \in Proc, insertClauseTx(p) PROVE IssuedInOrder'
  <2>1. row' = row /\ \A q \in Proc \ {p} : View(q)' = View(q)
    BY <1>4, Inserted
  <2>2. \A h \in Handle : View(p)'[h].status # "none" <=> h <= Minted(p)
    <3>1. Minted(p) \in Int
      BY <1>4, NextHandle, HandleInt
    <3>2. \A h \in Handle \ {Minted(p)} : View(p)'[h].status # "none" <=> h < Minted(p)
      BY <1>4, Inserted, NextHandle DEF Used
    <3>3. View(p)'[Minted(p)].status = "active"
      BY <1>4, Inserted
    <3> QED
      BY <3>1, <3>2, <3>3, HandleInt
  <2>3. Minted(p) \in Int
    BY <1>4, NextHandle, HandleInt
  <2>4. \A g, h \in Handle : View(p)'[h].status # "none" /\ g < h => View(p)'[g].status # "none"
    <3> SUFFICES ASSUME NEW g \in Handle, NEW h \in Handle,
                        View(p)'[h].status # "none", g < h
                 PROVE  View(p)'[g].status # "none"
      OBVIOUS
    <3>1. h <= Minted(p) /\ g \in Int /\ h \in Int
      BY <2>2, HandleInt
    <3>2. g <= Minted(p)
      BY <3>1, <2>3
    <3> QED
      BY <3>2, <2>2
  <2> QED
    BY <1>1, <2>1, <2>4 DEF IssuedInOrder, DownClosed, Used
<1>5. ASSUME NEW p \in Proc, Abort(p) PROVE IssuedInOrder'
  <2>1. row' = row /\ View(p)' = row /\ \A q \in Proc \ {p} : View(q)' = View(q)
    BY <1>1, <1>5, ViewAbort
  <2> QED
    BY <1>1, <2>1 DEF IssuedInOrder, DownClosed, Used
<1>6. ASSUME NEW p \in Proc, Commit(p) PROVE IssuedInOrder'
  <2>1. row' = View(p) /\ View(p)' = View(p)
    BY <1>1, <1>6, ViewCommit
  <2>2. ASSUME NEW q \in Proc \ {p}
        PROVE  \A g, h \in Handle :
                   View(q)'[h].status # "none" /\ g < h => View(q)'[g].status # "none"
    <3>1. \A h \in Handle :
              View(q)'[h].status # "none" <=> h \in Used(View(p)) \/ h \in Used(View(q))
      <4> SUFFICES ASSUME NEW h \in Handle
                   PROVE  View(q)'[h].status # "none" <=> h \in Used(View(p)) \/ h \in Used(View(q))
        OBVIOUS
      <4>1. View(q)'[h] = IF holder[h] = q THEN draft[h] ELSE View(p)[h]
        BY <1>1, <1>6, ViewCommit
      <4>2. CASE holder[h] = q
        BY <1>1, <4>1, <4>2, ProcAssumption DEF HeldOK, Used, View
      <4>3. CASE holder[h] # q
        BY <1>1, <4>1, <4>3, UsedSeen DEF Used, View
      <4> QED
        BY <4>2, <4>3
    <3> QED
      BY <1>1, <3>1 DEF IssuedInOrder, DownClosed
  <2> QED
    BY <1>1, <2>1, <2>2 DEF IssuedInOrder, DownClosed, Used
<1> QED
  BY <1>2, <1>3, <1>4, <1>5, <1>6, StepKinds

LEMMA CountedSteps ==
    ASSUME TypeOK, [Next]_vars, NEW p \in Proc, pc'[p] \in {"numbered", "counted"}
    PROVE  \/ ReadMaxSeq(p) \/ ReadMaxPosition(p)
           \/ /\ pc'[p] = pc[p]
              /\ number'[p] = number[p] /\ ordinal'[p] = ordinal[p] /\ todo'[p] = todo[p]
<1> DEFINE Same == /\ pc'[p] = pc[p]
                   /\ number'[p] = number[p] /\ ordinal'[p] = ordinal[p] /\ todo'[p] = todo[p]
<1>1. CASE UNCHANGED vars
  BY <1>1 DEF vars, request
<1>2. ASSUME NEW q \in Proc, NEW ops, NEW k, Begin(q, ops, k) PROVE Same
  BY <1>2 DEF TypeOK, Begin
<1>3. ASSUME NEW q \in Proc, NEW H, NEW r, Write(q, H, r) PROVE Same
  BY <1>3 DEF TypeOK, Write
<1>4. ASSUME NEW q \in Proc, Release(q) PROVE Same
  BY <1>4 DEF TypeOK, Release
<1>5. ASSUME NEW q \in Proc, ReadAnchor(q) \/ regenerateSectionContentTx(q) PROVE Same
  BY <1>5 DEF TypeOK, ReadAnchor, regenerateSectionContentTx
<1>6. ASSUME NEW q \in Proc, ReadMaxSeq(q) \/ ReadMaxPosition(q), q # p PROVE Same
  BY <1>6 DEF TypeOK, ReadMaxSeq, ReadMaxPosition
<1>7. ASSUME UNCHANGED request PROVE Same
  BY <1>7 DEF request
<1> HIDE DEF Same
<1>8. ASSUME NEW q \in Proc, Amends(q) \/ insertClauseTx(q) PROVE Same
  BY <1>3, <1>8, Zenon DEF Amends, updateClauseBodyTx, softDeleteClauseTx, insertClauseTx
<1>9. ASSUME NEW q \in Proc, Commit(q) \/ Abort(q) PROVE Same
  BY <1>4, <1>9, Zenon DEF Commit, Abort
<1>10. ASSUME NEW k \in Proposal, NEW d \in Draft,
              proposeStandardChange(k, d)
       PROVE  Same
  BY <1>7, <1>10 DEF proposeStandardChange
<1>11. ASSUME NEW k \in Proposal, resolveComment(k) \/ unresolveComment(k) PROVE Same
  BY <1>7, <1>11 DEF resolveComment, unresolveComment, Mark
<1>12. ASSUME NEW q \in Proc,
              \/ \E b \in Text, n \in 0..MaxAt : createClause(q, b, n)
              \/ \E b, c \in Text : addClausesToSection(q, b, c)
              \/ \E h \in Handle, b \in Text : updateClause(q, h, b)
              \/ \E h \in Handle : deleteClause(q, h)
              \/ \E k \in Proposal : acceptStandardChange(q, k)
       PROVE  Same
  BY <1>2, <1>12, Zenon DEF createClause, addClausesToSection, updateClause, deleteClause,
     acceptStandardChange
<1>13. ASSUME NEW q \in Proc, ReadMaxSeq(q) \/ ReadMaxPosition(q)
       PROVE  Same \/ ReadMaxSeq(p) \/ ReadMaxPosition(p)
  BY <1>6, <1>13
<1>14. ASSUME Next PROVE Same \/ ReadMaxSeq(p) \/ ReadMaxPosition(p)
  BY <1>5, <1>8, <1>9, <1>10, <1>11, <1>12, <1>13, <1>14, Zenon DEF Next, Amends
<1> QED
  BY <1>1, <1>14 DEF Same

(* What a commit does to the other transactions: if it issued no handle it *)
(* moved no row; if it did, they issued none and moved none.               *)
LEMMA CommitPlaces ==
    ASSUME Structure, Unmoved, NEW p \in Proc, Commit(p), NEW q \in Proc, q # p
    PROVE  /\ NoInsert(p) => \A h \in Handle :
                  /\ row'[h].place = row[h].place
                  /\ row'[h].status = "none" <=> row[h].status = "none"
                  /\ row'[h].status = "active" => row[h].status = "active"
                  /\ View(q)'[h].place = View(q)[h].place
                  /\ View(q)'[h].status = "active" => View(q)[h].status = "active"
                  /\ View(q)'[h].status = "none" <=> View(q)[h].status = "none"
           /\ ~NoInsert(p) => NoInsert(q) /\ \A h \in Handle :
                  /\ View(q)'[h].place = row'[h].place
                  /\ View(q)'[h].status = "active" => row'[h].status = "active"
<1>1. TypeOK /\ HeldOK /\ IssuedInOrder
  BY DEF Structure
<1>2. row' = View(p)
  BY <1>1, ViewCommit
<1>3. \A h \in Handle :
          /\ View(q)'[h] = IF holder[h] = q THEN draft[h] ELSE View(p)[h]
          /\ holder[h] = q => View(p)[h] = row[h]
  BY <1>1, ViewCommit
<1>4. \A h \in Handle : row[h] \in Row /\ draft[h] \in Row
  BY <1>1 DEF TypeOK
<1>5. CASE NoInsert(p)
  <2> SUFFICES ASSUME NEW h \in Handle
               PROVE  /\ row'[h].place = row[h].place
                      /\ row'[h].status = "none" <=> row[h].status = "none"
                      /\ row'[h].status = "active" => row[h].status = "active"
                      /\ View(q)'[h].place = View(q)[h].place
                      /\ View(q)'[h].status = "active" => View(q)[h].status = "active"
                      /\ View(q)'[h].status = "none" <=> View(q)[h].status = "none"
    BY <1>5
  <2>1. CASE holder[h] = p
    <3>1. draft[h].place = row[h].place /\ row[h].status # "none" /\ draft[h].status # "none"
      BY <1>1, <1>5, <2>1, ProcAssumption DEF Unmoved, NoInsert, HeldOK
    <3>2. row[h].status = "deleted" => draft[h].status = "deleted"
      BY <1>1, <2>1, ProcAssumption DEF HeldOK
    <3>3. View(p)[h] = draft[h] /\ View(q)[h] = row[h] /\ View(q)'[h] = draft[h]
      BY <1>3, <2>1 DEF View
    <3> QED
      BY <1>2, <1>4, <3>1, <3>2, <3>3 DEF Row
  <2>2. CASE holder[h] # p
    BY <1>2, <1>3, <2>2 DEF View
  <2> QED
    BY <2>1, <2>2
<1>6. CASE ~NoInsert(p)
  <2>1. NoInsert(q)
    BY <1>1, <1>6, OneInserter
  <2> SUFFICES ASSUME NEW h \in Handle
               PROVE  /\ View(q)'[h].place = row'[h].place
                      /\ View(q)'[h].status = "active" => row'[h].status = "active"
    BY <1>6, <2>1
  <2>2. CASE holder[h] = q
    <3>1. draft[h].place = row[h].place /\ row[h].status # "none"
      BY <2>1, <2>2 DEF Unmoved, NoInsert
    <3>2. row[h].status = "deleted" => draft[h].status = "deleted"
      BY <1>1, <2>2, ProcAssumption DEF HeldOK
    <3> QED
      BY <1>2, <1>3, <1>4, <2>2, <3>1, <3>2 DEF Row
  <2>3. CASE holder[h] # q
    BY <1>2, <1>3, <2>3
  <2> QED
    BY <2>2, <2>3
<1> QED
  BY <1>5, <1>6

LEMMA StepCounted ==
    ASSUME Structure, CountedOK, Unmoved, [Next]_vars
    PROVE  CountedOK'
<1>1. TypeOK /\ TodoOK /\ HeldOK /\ IssuedInOrder
  BY DEF Structure
<1> SUFFICES ASSUME NEW p \in Proc, pc'[p] \in {"numbered", "counted"}
             PROVE  /\ number'[p] < MaxSeq
                    /\ \A g \in Handle : g <= number'[p] => View(p)'[g].status # "none"
                    /\ pc'[p] = "counted" /\ Appends(Head(todo'[p])) /\ row'[number'[p] + 1].status = "none" =>
                           \A h \in Handle : View(p)'[h].place < ordinal'[p]
  BY DEF CountedOK, Minted, Used
<1>2. CASE ReadMaxSeq(p)
  <2> DEFINE seqs == {0} \cup {h \in Handle : View(p)[h].status # "none"}
  <2>1. View(p)' = View(p) /\ todo' = todo
    BY <1>2, ViewQuiet DEF ReadMaxSeq, table
  <2>2. number'[p] \in seqs /\ number'[p] < MaxSeq
    BY <1>1, <1>2 DEF ReadMaxSeq, Highest, TypeOK
  <2>3. \A g \in Handle : g <= number'[p] => View(p)[g].status # "none"
    <3>1. DownClosed(View(p))
      BY <1>1 DEF IssuedInOrder
    <3>2. CASE number'[p] = 0
      BY <3>2, HandleInt
    <3>3. ASSUME NEW g \in Handle, g <= number'[p], number'[p] \in Used(View(p))
          PROVE  View(p)[g].status # "none"
      <4>1. number'[p] \in Handle
        BY <3>3 DEF Used
      <4>2. g = number'[p] \/ g < number'[p]
        <5>1. g \in Int /\ number'[p] \in Int
          BY <4>1, HandleInt
        <5> QED
          BY <3>3, <5>1
      <4> QED
        BY <3>1, <3>3, <4>1, <4>2 DEF DownClosed, Used
    <3> QED
      BY <2>2, <3>2, <3>3 DEF Used
  <2>4. pc'[p] = "counted" => ~Appends(Head(todo[p]))
    BY <1>1, <1>2 DEF ReadMaxSeq, TypeOK
  <2> QED
    BY <2>1, <2>2, <2>3, <2>4
<1>4. CASE ReadMaxPosition(p)
  <2> DEFINE places == {0} \cup {View(p)[h].place : h \in Handle}
  <2>1. View(p)' = View(p) /\ todo' = todo /\ number' = number
    BY <1>4, ViewQuiet DEF ReadMaxPosition, table
  <2>2. PICK m \in places : Highest(m, places) /\ ordinal'[p] = m + 1
    BY <1>1, <1>4 DEF ReadMaxPosition, TypeOK
  <2>3. \A h \in Handle : View(p)[h].place \in Nat
    BY <1>1, ViewType DEF Row
  <2>4. m \in Nat
    BY <2>2, <2>3
  <2>5. \A h \in Handle : View(p)[h].place <= m
    BY <2>2 DEF Highest
  <2>6. \A h \in Handle : View(p)[h].place < ordinal'[p]
    BY <2>2, <2>3, <2>4, <2>5
  <2> QED
    BY <1>4, <2>1, <2>6 DEF ReadMaxPosition, CountedOK, Used
<1>3. CASE /\ pc'[p] = pc[p]
           /\ number'[p] = number[p] /\ ordinal'[p] = ordinal[p] /\ todo'[p] = todo[p]
  <2>1. /\ number[p] < MaxSeq
        /\ \A g \in Handle : g <= number[p] => View(p)[g].status # "none"
        /\ pc[p] = "counted" /\ Appends(Head(todo[p])) /\ row[number[p] + 1].status = "none" =>
               \A h \in Handle : View(p)[h].place < ordinal[p]
    BY <1>3 DEF CountedOK, Minted, Used
  <2>2. CASE row' = row /\ View(p)' = View(p)
    BY <1>3, <2>1, <2>2
  <2>3. ASSUME NEW q \in Proc, Commit(q), NoInsert(q)
        PROVE  /\ \A g \in Handle : g <= number'[p] => View(p)'[g].status # "none"
               /\ pc'[p] = "counted" /\ Appends(Head(todo'[p])) /\ row'[number'[p] + 1].status = "none" =>
                      \A h \in Handle : View(p)'[h].place < ordinal'[p]
    <3>1. p # q
      BY <1>3, <2>3 DEF Commit
    <3>2. \A h \in Handle :
              /\ row'[h].status = "none" <=> row[h].status = "none"
              /\ View(p)'[h].place = View(p)[h].place
              /\ View(p)'[h].status = "none" <=> View(p)[h].status = "none"
      BY <2>3, <3>1, CommitPlaces
    <3>3. number[p] + 1 \in Handle
      BY <1>1, <2>1, SeqAssumption DEF TypeOK, Handle
    <3> QED
      BY <1>3, <2>1, <3>2, <3>3
  <2>4. ASSUME NEW q \in Proc, Commit(q), ~NoInsert(q)
        PROVE  /\ \A g \in Handle : g <= number'[p] => View(p)'[g].status # "none"
               /\ row'[number'[p] + 1].status # "none"
    <3>1. p # q
      BY <1>3, <2>4 DEF Commit
    <3>2. NoInsert(p) /\ row' = View(q)
      BY <1>1, <2>4, <3>1, OneInserter, ViewCommit
    <3>3. PICK h \in Handle : holder[h] = q /\ row[h].status = "none"
      BY <2>4 DEF NoInsert
    <3>4. h \in Used(View(q))
      BY <1>1, <3>3, ProcAssumption DEF HeldOK, Used, View
    <3>5. \A g \in Handle : g <= number[p] => row[g].status # "none"
      BY <1>1, <2>1, <3>2 DEF NoInsert, View
    <3>6. number[p] + 1 \in Handle /\ number[p] \in Int
      BY <1>1, <2>1, SeqAssumption DEF TypeOK, Handle
    <3>7. number[p] + 1 <= h
      BY <3>3, <3>5, <3>6, HandleInt
    <3>8. number[p] + 1 \in Used(View(q))
      BY <1>1, <3>4, <3>6, <3>7, HandleInt DEF IssuedInOrder, DownClosed
    <3>9. \A g \in Handle : g <= number[p] => View(p)'[g].status # "none"
      <4>1. \A g \in Handle : row[g].status # "none" => View(q)[g].status # "none"
        BY <1>1, UsedSeen DEF Used
      <4>2. \A g \in Handle : View(p)'[g] = IF holder[g] = p THEN draft[g] ELSE View(q)[g]
        BY <1>1, <2>4, <3>1, ViewCommit
      <4> QED
        BY <1>1, <3>5, <4>1, <4>2, ProcAssumption DEF HeldOK
    <3> QED
      BY <1>3, <3>2, <3>8, <3>9 DEF Used
  <2>5. CASE Quiet
    BY <2>2, <2>5, ViewQuiet DEF Quiet
  <2>6. ASSUME NEW q \in Proc, Amends(q) \/ insertClauseTx(q) \/ Abort(q)
        PROVE  row' = row /\ View(p)' = View(p)
    <3>1. p # q
      <4>1. TypeOK /\ (Amends(q) \/ insertClauseTx(q) => pc'[q] = "running") /\ (Abort(q) => pc'[q] = "idle")
        BY <1>1 DEF Amends, updateClauseBodyTx, softDeleteClauseTx, insertClauseTx, Write, Abort, Release, TypeOK
      <4> QED
        BY <2>6, <4>1
    <3> QED
      BY <1>1, <2>6, <3>1, Amended, Inserted, ViewAbort
  <2> QED
    BY <1>3, <2>1, <2>2, <2>3, <2>4, <2>5, <2>6, StepKinds
<1> QED
  BY <1>1, <1>2, <1>3, <1>4, CountedSteps

-----------------------------------------------------------------------------
(* Every step keeps the positions distinct and the order.                  *)

LEMMA StepUnmoved ==
    ASSUME Structure, CountedOK, Unmoved, [Next]_vars
    PROVE  Unmoved'
<1>1. TypeOK /\ TodoOK /\ HeldOK /\ IssuedInOrder
  BY DEF Structure
<1>2. CASE Quiet
  BY <1>2 DEF Quiet, locks, Unmoved, NoInsert
<1> SUFFICES ASSUME NEW q \in Proc, \A h \in Handle : holder'[h] = q => row'[h].status # "none",
                    NEW h \in Handle, holder'[h] = q, ~Quiet
             PROVE  draft'[h].place = row'[h].place
  BY <1>2 DEF Unmoved, NoInsert
<1>3. ASSUME NEW p \in Proc, Amends(p) PROVE draft'[h].place = row'[h].place
  <2>1. row' = row
    BY <1>1, <1>3, Amended
  <2>2. CASE q = p
    <3>1. draft'[h].place = View(p)[h].place
      BY <1>1, <1>3, <2>2, Amended
    <3>2. NoInsert(p)
      BY <1>1, <1>3, <2>1, <2>2, Amended DEF NoInsert
    <3> QED
      BY <2>1, <3>1, <3>2 DEF Unmoved, View
  <2>3. CASE q # p
    <3>1. \A g \in Handle : holder'[g] = q <=> holder[g] = q
      BY <1>1, <1>3, <2>3, Amended
    <3>2. NoInsert(q) /\ holder[h] = q /\ draft'[h] = draft[h]
      BY <1>1, <1>3, <2>1, <2>3, <3>1, Amended DEF NoInsert
    <3> QED
      BY <2>1, <3>2 DEF Unmoved
  <2> QED
    BY <2>2, <2>3
<1>4. ASSUME NEW p \in Proc, insertClauseTx(p) PROVE draft'[h].place = row'[h].place
  <2>1. row' = row /\ \A g \in Handle : holder'[g] = p <=> holder[g] = p \/ g \in Pushed(p) \cup {Minted(p)}
    BY <1>4, Inserted
  <2>2. q # p
    BY <1>4, <2>1, NextHandle
  <2>3. \A g \in Handle : holder'[g] = q <=> holder[g] = q
    BY <1>4, <2>2, Inserted
  <2>4. NoInsert(q) /\ holder[h] = q /\ draft'[h] = draft[h]
    BY <1>4, <2>1, <2>2, <2>3, Inserted DEF NoInsert
  <2> QED
    BY <2>1, <2>4 DEF Unmoved
<1>5. ASSUME NEW p \in Proc, Abort(p) PROVE draft'[h].place = row'[h].place
  <2>1. row' = row /\ q # p
    BY <1>1, <1>5, ViewAbort
  <2>2. \A g \in Handle : holder'[g] = q <=> holder[g] = q
    BY <1>1, <1>5, <2>1, ViewAbort
  <2>3. NoInsert(q) /\ holder[h] = q /\ draft'[h] = draft[h]
    BY <1>1, <1>5, <2>1, <2>2, ViewAbort DEF NoInsert
  <2> QED
    BY <2>1, <2>3 DEF Unmoved
<1>6. ASSUME NEW p \in Proc, Commit(p) PROVE draft'[h].place = row'[h].place
  <2>1. q # p
    BY <1>1, <1>6, ViewCommit
  <2>2. holder[h] = q /\ draft'[h] = draft[h] /\ row'[h] = row[h]
    BY <1>1, <1>6, <2>1, ViewCommit
  <2>3. NoInsert(q)
    <3>1. CASE NoInsert(p)
      <4>1. \A g \in Handle : row'[g].status = "none" <=> row[g].status = "none"
        BY <1>6, <2>1, <3>1, CommitPlaces
      <4>2. \A g \in Handle : holder'[g] = q <=> holder[g] = q
        BY <1>1, <1>6, <2>1, ViewCommit
      <4> QED
        BY <4>1, <4>2 DEF NoInsert
    <3>2. CASE ~NoInsert(p)
      BY <1>6, <2>1, <3>2, CommitPlaces
    <3> QED
      BY <3>1, <3>2
  <2> QED
    BY <2>2, <2>3 DEF Unmoved
<1> QED
  BY <1>3, <1>4, <1>5, <1>6, StepKinds

LEMMA StepPlaces ==
    ASSUME IInv, [Next]_vars
    PROVE  PlacesDistinct' /\ OrderKept'
<1>1. /\ TypeOK /\ TodoOK /\ HeldOK /\ IssuedInOrder
      /\ Structure /\ CountedOK /\ Unmoved /\ OrderKept /\ PlacesDistinct
  BY DEF IInv, Structure
<1> DEFINE D(r) == \A a, b \in Handle :
                       r[a].status = "active" /\ r[b].status = "active" /\ a # b => r[a].place # r[b].place
           S(r, t) == \A a, b \in Handle :
                          /\ r[a].status = "active" /\ r[b].status = "active"
                          /\ t[a].status = "active" /\ t[b].status = "active"
                          => (r[a].place < r[b].place <=> t[a].place < t[b].place)
<1>2. D(row) /\ \A q \in Proc : D(View(q)) /\ S(row, View(q))
  BY <1>1 DEF PlacesDistinct, Distinct, Live, OrderKept, SameOrder
<1> SUFFICES D(row') /\ \A q \in Proc : D(View(q)') /\ S(row', View(q)')
  BY DEF PlacesDistinct, Distinct, Live, OrderKept, SameOrder
<1>3. CASE Quiet
  <2>1. row' = row /\ \A q \in Proc : View(q)' = View(q)
    BY <1>3, ViewQuiet DEF Quiet
  <2> QED
    BY <1>2, <2>1
<1>4. ASSUME NEW p \in Proc, Amends(p)
      PROVE  D(row') /\ \A q \in Proc : D(View(q)') /\ S(row', View(q)')
  <2>1. row' = row /\ \A q \in Proc \ {p} : View(q)' = View(q)
    BY <1>1, <1>4, Amended
  <2>2. \A h \in Handle : /\ View(p)'[h].place = View(p)[h].place
                          /\ View(p)'[h].status = "active" => View(p)[h].status = "active"
    BY <1>1, <1>4, Amended
  <2>3. D(View(p)') /\ S(row, View(p)')
    BY <1>2, <2>2
  <2> HIDE DEF D, S
  <2> QED
    BY <1>2, <2>1, <2>3
<1>5. ASSUME NEW p \in Proc, insertClauseTx(p)
      PROVE  D(row') /\ \A q \in Proc : D(View(q)') /\ S(row', View(q)')
  <2>1. row' = row /\ \A q \in Proc \ {p} : View(q)' = View(q)
    BY <1>1, <1>5, Inserted
  <2>2. /\ View(p)'[Minted(p)].status = "active" /\ View(p)'[Minted(p)].place = ordinal[p]
        /\ \A h \in Handle \ {Minted(p)} :
               /\ View(p)'[h].status = View(p)[h].status
               /\ View(p)'[h].place = IF h \in Pushed(p) THEN View(p)[h].place + 1
                                                        ELSE View(p)[h].place
    BY <1>1, <1>5, Inserted
  <2>3. row[Minted(p)].status = "none" /\ Minted(p) \in Handle
    BY <1>1, <1>5, NextHandle
  <2>4. \A h \in Handle : View(p)[h].place \in Nat
    BY <1>1, ViewType DEF Row
  <2>5. ordinal[p] \in Nat
    BY <1>1 DEF TypeOK
  <2>6. \A h \in Handle : View(p)[h].status = "active" =>
            \/ h \in Pushed(p) /\ View(p)[h].place >= ordinal[p]
            \/ h \notin Pushed(p) /\ View(p)[h].place < ordinal[p]
    <3>1. CASE Appends(Head(todo[p]))
      <4>1. \A h \in Handle : View(p)[h].place < ordinal[p]
        BY <1>1, <1>5, <2>3, <3>1 DEF CountedOK, insertClauseTx
      <4> QED
        BY <3>1, <4>1 DEF Pushed
    <3>2. CASE ~Appends(Head(todo[p]))
      BY <2>4, <2>5, <3>2 DEF Pushed, Live
    <3> QED
      BY <3>1, <3>2
  <2>7. D(View(p)') /\ S(row, View(p)')
    <3>1. D(View(p)) /\ S(row, View(p))
      BY <1>2
    <3> QED
      BY <2>2, <2>3, <2>4, <2>5, <2>6, <3>1
  <2> HIDE DEF D, S
  <2> QED
    BY <1>2, <2>1, <2>7
<1>6. ASSUME NEW p \in Proc, Abort(p)
      PROVE  D(row') /\ \A q \in Proc : D(View(q)') /\ S(row', View(q)')
  <2>1. row' = row /\ View(p)' = row /\ \A q \in Proc \ {p} : View(q)' = View(q)
    BY <1>1, <1>6, ViewAbort
  <2>2. S(row, row)
    OBVIOUS
  <2> HIDE DEF D, S
  <2> QED
    BY <1>2, <2>1, <2>2
<1>7. ASSUME NEW p \in Proc, Commit(p)
      PROVE  D(row') /\ \A q \in Proc : D(View(q)') /\ S(row', View(q)')
  <2>1. row' = View(p) /\ View(p)' = row'
    BY <1>1, <1>7, ViewCommit
  <2>2. D(row') /\ S(row', row')
    BY <1>2, <2>1
  <2>3. ASSUME NEW q \in Proc, q # p, NoInsert(p) PROVE D(View(q)') /\ S(row', View(q)')
    <3>1. \A h \in Handle :
              /\ row'[h].place = row[h].place
              /\ row'[h].status = "active" => row[h].status = "active"
              /\ View(q)'[h].place = View(q)[h].place
              /\ View(q)'[h].status = "active" => View(q)[h].status = "active"
      BY <1>1, <1>7, <2>3, CommitPlaces
    <3>2. D(View(q)) /\ S(row, View(q))
      BY <1>2
    <3> QED
      BY <3>1, <3>2
  <2>4. ASSUME NEW q \in Proc, q # p, ~NoInsert(p) PROVE D(View(q)') /\ S(row', View(q)')
    <3>1. \A h \in Handle :
              /\ View(q)'[h].place = row'[h].place
              /\ View(q)'[h].status = "active" => row'[h].status = "active"
      BY <1>1, <1>7, <2>4, CommitPlaces
    <3> QED
      BY <2>2, <3>1
  <2> HIDE DEF D, S
  <2> QED
    BY <2>1, <2>2, <2>3, <2>4
<1> HIDE DEF D, S
<1> QED
  BY <1>3, <1>4, <1>5, <1>6, <1>7, StepKinds

-----------------------------------------------------------------------------
LEMMA InitInv == Init => IInv
<1> SUFFICES ASSUME Init PROVE IInv
  OBVIOUS
<1>1. TypeOK
  BY InitType
<1>2. \A p \in Proc : View(p) = row
  BY ProcAssumption DEF Init, View
<1>3. /\ DOMAIN FirstBody = 1..Len(FirstBody) /\ Len(FirstBody) \in Nat
      /\ \A h \in Handle : /\ row[h].status = "active" <=> h <= Len(FirstBody)
                           /\ row[h].status # "active" => row[h].status = "none"
                           /\ row[h].status = "active" => row[h].place = h
  BY FirstAssumption, HandleInt DEF Init, NoRow
<1>4. IssuedInOrder
  <2>1. \A h \in Handle : row[h].status # "none" <=> h <= Len(FirstBody)
    BY <1>3
  <2>2. \A g, h \in Handle : row[h].status # "none" /\ g < h => row[g].status # "none"
    BY <1>3, <2>1, HandleInt
  <2> QED
    BY <1>2, <2>2 DEF IssuedInOrder, DownClosed, Used
<1>5. HeldOK /\ TodoOK /\ CountedOK /\ Unmoved
  BY ProcAssumption DEF Init, HeldOK, TodoOK, CountedOK, Unmoved
<1>6. PlacesDistinct /\ OrderKept
  BY <1>2, <1>3 DEF PlacesDistinct, Distinct, OrderKept, SameOrder, Live
<1> QED
  BY <1>1, <1>4, <1>5, <1>6 DEF IInv, Structure

LEMMA StepInv == IInv /\ [Next]_vars => IInv'
<1> SUFFICES ASSUME IInv, [Next]_vars PROVE IInv'
  OBVIOUS
<1>1. TypeOK' /\ TodoOK' /\ HeldOK' /\ IssuedInOrder'
  BY StepType, StepTodo, StepHeld, StepIssued DEF IInv, Structure
<1>2. CountedOK' /\ Unmoved' /\ PlacesDistinct' /\ OrderKept'
  BY StepCounted, StepUnmoved, StepPlaces DEF IInv
<1> QED
  BY <1>1, <1>2 DEF IInv, Structure

THEOREM Invariant == Spec => []IInv
BY InitInv, StepInv, PTL DEF Spec

(* Every variable keeps its type and no finished request holds a row.      *)
THEOREM TypeCorrect == Spec => []TypeOK
BY Invariant, PTL DEF IInv, Structure

(* No interleaving of the clause verbs ties two live clauses.              *)
THEOREM PlacesStayDistinct == Spec => []PlacesDistinct
BY Invariant, PTL DEF IInv

-----------------------------------------------------------------------------
(* The refinement.                                                         *)

LEMMA RowsOrdered ==
    ASSUME NEW r \in [Handle -> Row]
    PROVE  Ledger!TotalOrder({x \in Live(r) \X Live(r) : Precedes(r, x[1], x[2])}, Live(r))
<1>1. \A h \in Live(r) : h \in Int /\ r[h].place \in Nat
  BY HandleInt DEF Live, Row
<1>2. \A a \in Live(r) : ~Precedes(r, a, a)
  BY <1>1 DEF Precedes
<1>3. \A a, b \in Live(r) : a # b => Precedes(r, a, b) \/ Precedes(r, b, a)
  BY <1>1 DEF Precedes
<1>4. \A a, b, c \in Live(r) : Precedes(r, a, b) /\ Precedes(r, b, c) => Precedes(r, a, c)
  BY <1>1 DEF Precedes
<1> QED
  BY <1>2, <1>3, <1>4 DEF Ledger!TotalOrder

(* Where positions are distinct, the order is that of the positions.       *)
LEMMA PlacesOrder ==
    ASSUME NEW r \in [Handle -> Row], Distinct(r), NEW a \in Live(r), NEW b \in Live(r)
    PROVE  Precedes(r, a, b) <=> r[a].place < r[b].place
<1>1. r[a].place \in Nat /\ r[b].place \in Nat /\ a \in Int /\ b \in Int
  BY HandleInt DEF Live, Row
<1>2. a # b => r[a].place # r[b].place
  BY DEF Distinct
<1> QED
  BY <1>1, <1>2 DEF Precedes

(* A commit issues the handles it adds and strikes the clauses it deletes; *)
(* one that does neither changes nothing the ledger shows.                 *)
LEMMA CommitRevises ==
    ASSUME IInv, IInv', NEW p \in Proc, Commit(p)
    PROVE  Ledger!Next \/ UNCHANGED Ledger!vars
<1> DEFINE before(r) == {x \in Live(r) \X Live(r) : Precedes(r, x[1], x[2])}
           status(r) == [h \in Handle |-> r[h].status]
<1>1. /\ TypeOK /\ HeldOK /\ IssuedInOrder /\ OrderKept /\ PlacesDistinct
      /\ row' \in [Handle -> Row] /\ row \in [Handle -> Row]
  BY DEF IInv, Structure, TypeOK
<1>2. row' = View(p)
  BY <1>1, ViewCommit
<1>3. Distinct(row) /\ Distinct(row') /\ SameOrder(row, row')
  BY <1>1, <1>2 DEF PlacesDistinct, OrderKept
<1>4. \A a, b \in Live(row) \cap Live(row') : Precedes(row', a, b) <=> Precedes(row, a, b)
  BY <1>1, <1>3, PlacesOrder DEF SameOrder
<1>5. \A h \in Handle :
          /\ row[h].status = "deleted" => row'[h].status = "deleted"
          /\ row[h].status = "none" => row'[h].status \in {"none", "active"}
          /\ row[h].status = "active" => row'[h].status \in {"active", "deleted"}
  <2> SUFFICES ASSUME NEW h \in Handle
               PROVE  /\ row[h].status = "deleted" => row'[h].status = "deleted"
                      /\ row[h].status = "none" => row'[h].status \in {"none", "active"}
                      /\ row[h].status = "active" => row'[h].status \in {"active", "deleted"}
    OBVIOUS
  <2>1. row'[h] = IF holder[h] = p THEN draft[h] ELSE row[h]
    BY <1>2 DEF View
  <2>2. draft[h].status \in {"none", "active", "deleted"}
    BY <1>1 DEF TypeOK, Row
  <2> QED
    BY <1>1, <2>1, <2>2, ProcAssumption DEF HeldOK
<1>6. CASE status(row') = status(row)
  <2>1. \A h \in Handle : row'[h].status = row[h].status
    <3> SUFFICES ASSUME NEW h \in Handle PROVE row'[h].status = row[h].status
      OBVIOUS
    <3>1. status(row')[h] = status(row)[h]
      BY <1>6
    <3> QED
      BY <3>1
  <2>2. Live(row') = Live(row)
    BY <2>1 DEF Live
  <2>3. before(row') = before(row)
    BY <1>4, <2>2
  <2> QED
    BY <1>6, <2>3 DEF Ledger!vars
<1>7. CASE status(row') # status(row)
  <2> DEFINE cut == {h \in Handle : row[h].status = "active" /\ row'[h].status = "deleted"}
             added == {h \in Handle : row[h].status = "none" /\ row'[h].status = "active"}
             issued == {h \in Handle : status(row)[h] # "none"}
  <2>1. cut \in SUBSET Ledger!Live(status(row)) /\ added \in SUBSET (Handle \ issued)
    BY DEF Ledger!Live
  <2>2. \A a \in added : \A u \in issued : u < a
    <3> SUFFICES ASSUME NEW a \in added, NEW u \in issued PROVE u < a
      OBVIOUS
    <3>1. DownClosed(row) /\ u \in Used(row)
      BY <1>1 DEF IssuedInOrder, Used
    <3>2. a # u /\ ~(a < u)
      BY <3>1 DEF DownClosed, Used
    <3> QED
      BY <3>2, HandleInt
  <2>3. status(row') = [h \in Handle |-> CASE h \in cut   -> "deleted"
                                            [] h \in added -> "active"
                                            [] OTHER       -> status(row)[h]]
    <3> SUFFICES ASSUME NEW h \in Handle
                 PROVE  row'[h].status = CASE h \in cut   -> "deleted"
                                           [] h \in added -> "active"
                                           [] OTHER       -> row[h].status
      OBVIOUS
    <3>1. row[h].status \in {"none", "active", "deleted"}
      BY <1>1 DEF Row
    <3>2. CASE row[h].status = "active"
      BY <1>5, <3>2
    <3>3. CASE row[h].status = "none"
      BY <1>5, <3>3
    <3>4. CASE row[h].status = "deleted"
      BY <1>5, <3>4
    <3> QED
      BY <3>1, <3>2, <3>3, <3>4
  <2>4. /\ Ledger!Live(status(row)) = Live(row)
        /\ Ledger!Live(status(row')) = Live(row')
    BY DEF Ledger!Live, Live
  <2>5. Ledger!TotalOrder(before(row'), Live(row'))
    BY <1>1, RowsOrdered
  <2>6. \A a, b \in Live(row) \cap Live(row') : <<a, b>> \in before(row') <=> <<a, b>> \in before(row)
    BY <1>4
  <2> HIDE DEF cut, added, before, status
  <2>7. Ledger!Revise(cut, added)
    BY <2>2, <2>3, <2>4, <2>5, <2>6 DEF Ledger!Revise, Ledger!Issued, before, status
  <2>8. cut \in SUBSET Ledger!Live(status(row)) /\ added \in SUBSET (Handle \ Ledger!Issued)
    BY <2>1 DEF Ledger!Issued, status
  <2>9. \E c \in SUBSET Ledger!Live(status(row)), a \in SUBSET (Handle \ Ledger!Issued) : Ledger!Revise(c, a)
    BY <2>7, <2>8 DEF Ledger!Revise
  <2> QED
    BY <1>7, <2>9 DEF Ledger!Next, status
<1> QED
  BY <1>6, <1>7

(* What the clauses promise to whoever cites them: a handle is issued      *)
(* once, a struck clause does not return, and no verb, proposal or         *)
(* rolled-back attempt reorders the clauses that stay.                     *)
THEOREM Refinement == Spec => KeepsHandlesAndOrder
<1>1. Init => Ledger!Init
  <2> SUFFICES ASSUME Init PROVE Ledger!Init
    OBVIOUS
  <2>1. row \in [Handle -> Row] /\ \A h \in Handle : row[h].status \in {"none", "active"}
    BY InitType DEF TypeOK, Init, NoRow
  <2>2. Ledger!Live([h \in Handle |-> row[h].status]) = Live(row)
    BY DEF Ledger!Live, Live
  <2> QED
    BY <2>1, <2>2, RowsOrdered DEF Ledger!Init
<1>2. IInv /\ IInv' /\ [Next]_vars => [Ledger!Next]_Ledger!vars
  <2> SUFFICES ASSUME IInv, IInv', [Next]_vars PROVE Ledger!Next \/ UNCHANGED Ledger!vars
    OBVIOUS
  <2>1. CASE row' = row
    BY <2>1 DEF Ledger!vars, Live, Precedes
  <2>2. ASSUME row' # row PROVE \E p \in Proc : Commit(p)
    BY <2>2, StepKinds, Amended, Inserted, ViewAbort DEF Quiet, IInv, Structure
  <2> QED
    BY <2>1, <2>2, CommitRevises
<1> QED
  BY <1>1, <1>2, Invariant, PTL DEF Spec, KeepsHandlesAndOrder, Ledger!Spec

-----------------------------------------------------------------------------
(* The content.                                                            *)

(* What a request composed is still the text of its rows, if no other      *)
(* commit came between.                                                    *)
ComposedOK ==
    \A p \in Proc : pc[p] = "composed" /\ alone[p] => composed[p] = Projection(View(p))

LEMMA StepComposed ==
    ASSUME IInv, ComposedOK, [Next]_vars
    PROVE  ComposedOK'
<1>1. TypeOK /\ TodoOK /\ HeldOK /\ Structure /\ CountedOK
  BY DEF IInv, Structure
<1> SUFFICES ASSUME NEW p \in Proc, pc'[p] = "composed", alone'[p]
             PROVE  composed'[p] = Projection(View(p)')
  BY DEF ComposedOK
<1> DEFINE Same == pc[p] = "composed" /\ alone[p] /\ composed'[p] = composed[p]
<1>2. CASE regenerateSectionContentTx(p)
  <2>1. composed'[p] = Projection(View(p)) /\ View(p)' = View(p)
    BY <1>1, <1>2, ViewQuiet DEF regenerateSectionContentTx, TypeOK, table
  <2> QED
    BY <2>1
<1>3. ASSUME Same, View(p)' = View(p) PROVE composed'[p] = Projection(View(p)')
  BY <1>3 DEF ComposedOK
<1>4. CASE UNCHANGED vars
  BY <1>3, <1>4, ViewQuiet DEF vars, table, request
<1>5. ASSUME NEW q \in Proc, NEW ops, NEW k, Begin(q, ops, k)
      PROVE  Same /\ View(p)' = View(p)
  <2>1. q # p
    BY <1>1, <1>5 DEF TypeOK, Begin
  <2> QED
    BY <1>1, <1>5, <2>1, ViewQuiet DEF TypeOK, Begin, table
<1>6. ASSUME NEW q \in Proc, Amends(q) \/ insertClauseTx(q)
      PROVE  Same /\ View(p)' = View(p)
  <2>1. PICK H, r : Write(q, H, r)
    BY <1>6, Zenon DEF Amends, updateClauseBodyTx, softDeleteClauseTx, insertClauseTx
  <2>2. q # p
    BY <1>1, <2>1 DEF TypeOK, Write
  <2>3. Same
    BY <1>1, <2>1, <2>2 DEF TypeOK, Write
  <2>4. View(p)' = View(p)
    BY <1>1, <1>6, <2>2, Amended, Inserted
  <2> QED
    BY <2>3, <2>4
<1>7. ASSUME NEW q \in Proc, ReadAnchor(q) \/ ReadMaxSeq(q) \/ ReadMaxPosition(q)
      PROVE  Same /\ View(p)' = View(p)
  BY <1>1, <1>7, ViewQuiet DEF TypeOK, ReadAnchor, ReadMaxSeq, ReadMaxPosition, table
<1>8. ASSUME NEW q \in Proc, regenerateSectionContentTx(q), q # p
      PROVE  Same /\ View(p)' = View(p)
  BY <1>1, <1>8, ViewQuiet DEF TypeOK, regenerateSectionContentTx, table
<1>9. ASSUME NEW q \in Proc, Commit(q) PROVE FALSE
  <2>1. q # p
    BY <1>1, <1>9 DEF TypeOK, Commit, Release
  <2> QED
    BY <1>1, <1>9, <2>1 DEF Commit
<1>10. ASSUME NEW q \in Proc, Abort(q) PROVE Same /\ View(p)' = View(p)
  <2>1. q # p
    BY <1>1, <1>10 DEF TypeOK, Abort, Release
  <2>2. Same
    BY <1>1, <1>10, <2>1 DEF TypeOK, Abort, Release
  <2>3. View(p)' = View(p)
    BY <1>1, <1>10, <2>1, ViewAbort
  <2> QED
    BY <2>2, <2>3
<1>11. ASSUME NEW k \in Proposal, NEW d \in Draft, proposeStandardChange(k, d)
       PROVE  Same /\ View(p)' = View(p)
  BY <1>11, ViewQuiet DEF proposeStandardChange, request
<1>12. ASSUME NEW k \in Proposal, NEW state, Mark(k, state)
       PROVE  Same /\ View(p)' = View(p)
  <2>1. alone'[p] = (alone[p] /\ of[p] # k)
    BY <1>12, Zenon DEF Mark
  <2> QED
    BY <1>12, <2>1, ViewQuiet DEF Mark, request
<1> HIDE DEF Same
<1>13. ASSUME NEW q \in Proc, regenerateSectionContentTx(q)
       PROVE  composed'[p] = Projection(View(p)')
  BY <1>2, <1>3, <1>8, <1>13
<1>14. ASSUME NEW q \in Proc,
              \/ \E b \in Text, n \in 0..MaxAt : createClause(q, b, n)
              \/ \E b, c \in Text : addClausesToSection(q, b, c)
              \/ \E h \in Handle, b \in Text : updateClause(q, h, b)
              \/ \E h \in Handle : deleteClause(q, h)
              \/ \E k \in Proposal : acceptStandardChange(q, k)
       PROVE  Same /\ View(p)' = View(p)
  BY <1>5, <1>14, Zenon DEF createClause, addClausesToSection, updateClause, deleteClause,
     acceptStandardChange
<1>15. ASSUME NEW k \in Proposal, resolveComment(k) \/ unresolveComment(k)
       PROVE  Same /\ View(p)' = View(p)
  BY <1>12, <1>15, Zenon DEF resolveComment, unresolveComment
<1>16. ASSUME Next PROVE (Same /\ View(p)' = View(p)) \/ composed'[p] = Projection(View(p)')
  BY <1>6, <1>7, <1>9, <1>10, <1>11, <1>13, <1>14, <1>15, <1>16, Zenon DEF Next, Amends
<1> QED
  BY <1>3, <1>4, <1>16

(* A change no other commit overlaps leaves the content the text of the    *)
(* clauses, whatever it found.                                             *)
THEOREM ContentRepaired == Spec => ContentHeals
<1>1. Init => ComposedOK
  BY DEF Init, ComposedOK
<1>2. IInv /\ ComposedOK /\ [Next]_vars => ComposedOK'
  BY StepComposed
<1>3. IInv /\ ComposedOK /\ [Next]_vars =>
        [\A p \in Proc : Commit(p) /\ alone[p] => content' = Projection(row')]_vars
  BY DEF Commit, ComposedOK
<1> QED
  BY <1>1, <1>2, <1>3, Invariant, PTL DEF Spec, ContentHeals
=============================================================================
