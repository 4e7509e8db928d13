---------------------- MODULE DocumentVersioningProofs ----------------------
(* Theorems of DocumentVersioning for any number of requests, any tables    *)
(* and any bounds.                                                          *)
EXTENDS DocumentVersioning, TLAPS

(* What keeps the numbering: a request's number is never ahead of the       *)
(* counter; one that holds its number holds the counter's value, and no two *)
(* hold the same; a restore's source is below the checkpoint it makes.      *)
NumbersHeld ==
    /\ \A p \in Proc :
        /\ op[p].pc # "idle" => op[p].N \in 1 .. version /\ op[p].kind # "none"
        /\ HoldsNumber(p) => op[p].N = version
        /\ op[p].kind = "restore" /\ op[p].pc # "idle"
                => op[p].src \in 1 .. version - 1
        /\ op[p].pc \in {"between", "mread", "mwrite", "minsert", "mcommit"}
                => op[p].kind = "restore" /\ op[p].src \in 1 .. version - 2
    /\ \A p, q \in Proc : p # q /\ HoldsNumber(p) => ~HoldsNumber(q)

Inv == TypeOK /\ Numbering /\ NumbersHeld

LEMMA InitInv == Init => Inv
  BY TablesAssumption, BoundsAssumption
     DEF Init, Inv, TypeOK, Numbering, NumbersHeld, HoldsNumber, IsRows, NoRows, Idle,
         Request

-----------------------------------------------------------------------------
(* Sets of rows *)

LEMMA OverRows ==
    ASSUME NEW f, NEW g, IsRows(f), IsRows(g)
    PROVE  IsRows(Over(f, g))
  BY DEF IsRows, Over

LEMMA RestrictRows ==
    ASSUME NEW f, NEW S, IsRows(f), S \subseteq DOMAIN f
    PROVE  IsRows(Restrict(f, S))
  BY DEF IsRows, Restrict

LEMMA RetiredRow ==
    ASSUME NEW r \in Row, NEW n \in Nat
    PROVE  [r EXCEPT !.retired = n] \in Row
  BY DEF Row

LEMMA RestoredRow ==
    ASSUME NEW r \in Row, NEW s \in Row
    PROVE  Restored(r, s) \in Row
  BY DEF Row, Restored

LEMMA TableAtType ==
    ASSUME TypeOK, NEW p \in Proc
    PROVE  TableAt(p) \in TableSet
  BY TablesAssumption DEF TypeOK, Request, TableAt, TableSet

(* Advancing over the tables keeps the index within them. *)
LEMMA NextTable ==
    ASSUME TypeOK, NEW p \in Proc
    PROVE  /\ Len(Tables) \in Nat /\ 1 \in 1 .. Len(Tables)
           /\ ~LastTable(p) => op[p].i + 1 \in 1 .. Len(Tables)
  BY TablesAssumption DEF TypeOK, Request, LastTable

(* What a restore writes is made of rows: the source is one of the versions. *)
LEMMA WrittenRows ==
    ASSUME Inv, NEW p \in Proc, op[p].pc = "mwrite"
    PROVE  IsRows(Reconciled(p)) /\ IsRows(Reinserted(p))
PROOF
  <1>1. IsRows(Source(p)) /\ op[p].src \in Nat
    BY DEF Inv, TypeOK, Numbering, NumbersHeld, Source
  <1>2. IsRows(rows)
    BY DEF Inv, TypeOK
  <1>3. IsRows(Reconciled(p))
    <2>1. ASSUME NEW id \in SeenIds(p)
          PROVE  /\ id \in RowId /\ rows[id] \in Row
                 /\ [rows[id] EXCEPT !.retired = op[p].src] \in Row
      BY <1>1, <1>2 DEF SeenIds, IsRows, Row
    <2>2. ASSUME NEW id \in SeenIds(p), SourceOf(p, id) # {}
          PROVE  Source(p)[CHOOSE s \in SourceOf(p, id) : TRUE] \in Row
      BY <1>1, <2>2 DEF SourceOf, SnapRows, InTable, IsRows
    <2>3. ASSUME NEW id \in SeenIds(p), SourceOf(p, id) # {}
          PROVE  Restored(rows[id], Source(p)[CHOOSE s \in SourceOf(p, id) : TRUE]) \in Row
      BY <2>1, <2>2, <2>3, RestoredRow
    <2> QED
      BY <2>1, <2>3 DEF Reconciled, IsRows
  <1>4. IsRows(Reinserted(p))
    <2>1. ASSUME NEW s \in Unmatched(p)
          PROVE  /\ <<op[p].N, TableAt(p), Source(p)[s].seq>> \in RowId
                 /\ Source(p)[s] \in Row
      BY <1>1, TableAtType DEF Inv, TypeOK, Request, Unmatched, SnapRows, InTable, IsRows, Row, RowId
    <2> DEFINE ids == {<<op[p].N, TableAt(p), Source(p)[s].seq>> : s \in Unmatched(p)}
               of(id) == CHOOSE s \in Unmatched(p) : Source(p)[s].seq = id[3]
    <2>2. ASSUME NEW id \in ids
          PROVE  of(id) \in Unmatched(p) /\ id \in RowId
      BY <2>1
    <2> HIDE DEF ids, of
    <2>3. \A id \in ids : Source(p)[of(id)] \in Row
      BY <2>1, <2>2
    <2>4. Reinserted(p) = [id \in ids |-> Source(p)[of(id)]]
      BY DEF Reinserted, ids, of
    <2> QED
      BY <2>2, <2>3, <2>4 DEF IsRows
  <1> QED
    BY <1>3, <1>4

-----------------------------------------------------------------------------
(* Inv is inductive *)

LEMMA WriteStep == Inv /\ Write => Inv'
PROOF
  <1> SUFFICES ASSUME Inv, Write PROVE Inv'
    OBVIOUS
  <1>1. UNCHANGED <<version, versions, op, snap, pend>> /\ IsRows(rows') /\ writes' \in Nat
    <2>1. CASE \E c \in TableSet, on \in DOMAIN rows \cup {NoTarget} : Create(c, on)
      <3>1. PICK c \in TableSet, on \in DOMAIN rows \cup {NoTarget},
                 s \in 1 .. writes + 1 :
               /\ rows' = Plus(rows, <<0, c, writes + 1>>,
                               [cls |-> c, seq |-> s, art |-> writes + 1,
                                rev |-> writes + 1, retired |-> 0, on |-> on])
               /\ writes' = writes + 1
               /\ UNCHANGED <<version, versions, op, snap, pend>>
        BY <2>1 DEF Create
      <3>2. on \in Target
        BY DEF Inv, TypeOK, IsRows, RowId, Target, NoTarget
      <3>3. /\ <<0, c, writes + 1>> \in RowId
            /\ [cls |-> c, seq |-> s, art |-> writes + 1,
                rev |-> writes + 1, retired |-> 0, on |-> on] \in Row
        BY <3>2 DEF Inv, TypeOK, RowId, Row
      <3> QED
        BY <3>1, <3>3 DEF Inv, TypeOK, IsRows, Plus, Over
    <2>2. CASE \E id \in DOMAIN rows : Edit(id)
      <3>1. PICK id \in DOMAIN rows : Edit(id)
        BY <2>2
      <3>2. [rows[id] EXCEPT !.rev = writes + 1] \in Row
        BY DEF Inv, TypeOK, IsRows, Row
      <3> QED
        BY <3>1, <3>2 DEF Inv, TypeOK, IsRows, Edit
    <2>3. CASE \E id \in DOMAIN rows : Delete(id)
      BY <2>3 DEF Inv, TypeOK, IsRows, Delete, Restrict
    <2> QED
      BY <2>1, <2>2, <2>3 DEF Write
  <1> QED
    BY <1>1 DEF Inv, TypeOK, Numbering, NumbersHeld, HoldsNumber

(* A step that changes only where p stands, and p's own snapshot or pending *)
(* rows, has to keep p's part of the invariant and no more.                 *)
LEMMA LocalStep ==
    ASSUME Inv, NEW p \in Proc, NEW o \in Request, Step(p, o),
           UNCHANGED <<version, versions, rows, writes>>,
           DOMAIN snap' = Proc, DOMAIN pend' = Proc,
           IsRows(snap'[p]), IsRows(pend'[p]),
           \A q \in Proc \ {p} : snap'[q] = snap[q] /\ pend'[q] = pend[q],
           o.pc # "idle" => o.N \in 1 .. version /\ o.kind # "none",
           o.pc \in {"retire", "commit", "mcommit"} =>
                /\ o.N = version
                /\ \A q \in Proc \ {p} : ~HoldsNumber(q),
           o.kind = "restore" /\ o.pc # "idle" => o.src \in 1 .. version - 1,
           o.pc \in {"between", "mread", "mwrite", "minsert", "mcommit"} =>
                o.kind = "restore" /\ o.src \in 1 .. version - 2
    PROVE  Inv'
PROOF
  <1>1. op'[p] = o /\ \A q \in Proc \ {p} : op'[q] = op[q]
    BY DEF Inv, TypeOK, Step
  <1>2. TypeOK'
    <2>1. op' \in [Proc -> Request]
      BY DEF Inv, TypeOK, Step
    <2> QED
      BY <2>1 DEF Inv, TypeOK
  <1>3. Numbering'
    BY DEF Inv, Numbering
  <1>4. NumbersHeld'
    BY <1>1 DEF Inv, NumbersHeld, HoldsNumber
  <1> QED
    BY <1>2, <1>3, <1>4 DEF Inv

LEMMA IdleType == Idle \in Request
  BY TablesAssumption DEF Idle, Request

LEMMA BeginStep == ASSUME Inv, NEW p \in Proc, Begin(p) PROVE Inv'
PROOF
  <1>1. CASE \E carry \in SUBSET Prunable : BeginCut(p, carry)
    <2>1. PICK carry \in SUBSET Prunable : BeginCut(p, carry)
      BY <1>1
    <2> DEFINE o == [Idle EXCEPT !.kind = "cut", !.pc = "read", !.N = version,
                                 !.carry = carry, !.mark = writes]
    <2>2. /\ o \in Request /\ o.pc = "read" /\ o.N = version /\ o.kind = "cut"
      BY IdleType DEF Inv, TypeOK, Request
    <2> HIDE DEF o
    <2>3. Step(p, o) /\ UNCHANGED <<version, versions, rows, writes, snap, pend>>
      BY <2>1 DEF BeginCut, o
    <2>4. version \in Nat \ {0} /\ IsRows(snap[p]) /\ IsRows(pend[p])
          /\ DOMAIN snap = Proc /\ DOMAIN pend = Proc
      BY DEF Inv, TypeOK
    <2> QED
      BY <2>2, <2>3, <2>4, LocalStep
  <1>2. CASE \E v \in DOMAIN versions : BeginRestore(p, v)
    <2>1. PICK v \in DOMAIN versions : BeginRestore(p, v)
      BY <1>2
    <2> DEFINE o == [Idle EXCEPT !.kind = "restore", !.pc = "read", !.N = version,
                                 !.carry = Prunable, !.mark = writes, !.src = v]
    <2>2. /\ o \in Request /\ o.pc = "read" /\ o.N = version /\ o.kind = "restore"
          /\ o.src \in 1 .. version - 1
      BY IdleType DEF Inv, TypeOK, Numbering, Request
    <2> HIDE DEF o
    <2>3. Step(p, o) /\ UNCHANGED <<version, versions, rows, writes, snap, pend>>
      BY <2>1 DEF BeginRestore, o
    <2>4. version \in Nat \ {0} /\ IsRows(snap[p]) /\ IsRows(pend[p])
          /\ DOMAIN snap = Proc /\ DOMAIN pend = Proc
      BY DEF Inv, TypeOK
    <2> QED
      BY <2>2, <2>3, <2>4, LocalStep
  <1> QED
    BY <1>1, <1>2 DEF Begin

LEMMA RollBackStep == ASSUME Inv, NEW p \in Proc, RollBack(p) PROVE Inv'
  BY LocalStep, IdleType DEF RollBack, Inv, TypeOK, Idle, IsRows, NoRows

(* What the invariant says of the request p that moves. *)
LEMMA Mine ==
    ASSUME Inv, NEW p \in Proc
    PROVE  /\ op[p] \in Request /\ version \in Nat \ {0}
           /\ IsRows(snap[p]) /\ IsRows(pend[p]) /\ IsRows(rows)
           /\ DOMAIN snap = Proc /\ DOMAIN pend = Proc
  BY DEF Inv, TypeOK

LEMMA ReadTableStep == ASSUME Inv, NEW p \in Proc, ReadTable(p) PROVE Inv'
PROOF
  <1> DEFINE o == [op[p] EXCEPT !.pc = IF LastTable(p) THEN "insert" ELSE "read",
                                !.i = IF LastTable(p) THEN 1 ELSE op[p].i + 1]
             new == Over(Restrict(rows, InTable(rows, TableAt(p))), snap[p])
  <1>1. /\ o \in Request /\ o.pc \in {"insert", "read"}
        /\ o.N = op[p].N /\ o.kind = op[p].kind /\ o.src = op[p].src
    BY Mine, NextTable DEF Inv, Request
  <1>2. IsRows(new)
    BY Mine, OverRows, RestrictRows DEF InTable
  <1> HIDE DEF o, new
  <1>3. /\ Step(p, o) /\ snap' = [snap EXCEPT ![p] = new] /\ op[p].pc = "read"
        /\ UNCHANGED <<version, versions, rows, writes, pend>>
    BY Mine DEF ReadTable, o, new
  <1>4. /\ op[p].N \in 1 .. version /\ op[p].kind # "none"
        /\ op[p].kind = "restore" => op[p].src \in 1 .. version - 1
    BY <1>3 DEF Inv, NumbersHeld
  <1> QED
    BY <1>1, <1>2, <1>3, <1>4, Mine, LocalStep

LEMMA InsertVersionStep == ASSUME Inv, NEW p \in Proc, InsertVersion(p) PROVE Inv'
PROOF
  <1> DEFINE o == [op[p] EXCEPT !.pc = IF op[p].pc = "insert" THEN "retire" ELSE "mcommit"]
  <1>1. /\ o \in Request
        /\ o.N = op[p].N /\ o.kind = op[p].kind /\ o.src = op[p].src
        /\ o.pc = IF op[p].pc = "insert" THEN "retire" ELSE "mcommit"
    BY Mine DEF Request
  <1> HIDE DEF o
  <1>2. /\ Step(p, o) /\ op[p].pc \in {"insert", "minsert"}
        /\ op[p].N \notin DOMAIN versions /\ Blockers(p) = {}
        /\ UNCHANGED <<version, versions, rows, writes, snap, pend>>
    BY DEF InsertVersion, o
  <1>3. /\ op[p].N \in 1 .. version /\ op[p].kind # "none"
        /\ op[p].kind = "restore" => op[p].src \in 1 .. version - 1
        /\ op[p].pc = "minsert" => op[p].kind = "restore" /\ op[p].src \in 1 .. version - 2
    BY <1>2 DEF Inv, NumbersHeld
  (* The number is free and not ahead of the counter, so it is the counter. *)
  <1>4. op[p].N = version
    BY <1>2, <1>3, Mine DEF Inv, Numbering
  <1>5. \A q \in Proc \ {p} : ~HoldsNumber(q)
    <2> SUFFICES ASSUME NEW q \in Proc \ {p}, HoldsNumber(q) PROVE FALSE
      OBVIOUS
    <2>1. op[q].N = op[p].N
      BY <1>4 DEF Inv, NumbersHeld
    <2>2. Blockers(p) = {r \in Proc \ {p} : HoldsNumber(r) /\ op[r].N = op[p].N}
      BY <1>2 DEF Blockers
    <2> QED
      BY <1>2, <2>1, <2>2
  <1> QED
    BY <1>1, <1>2, <1>3, <1>4, <1>5, Mine, LocalStep

LEMMA RetireTableStep == ASSUME Inv, NEW p \in Proc, RetireTable(p) PROVE Inv'
PROOF
  <1> DEFINE o == [op[p] EXCEPT !.pc = IF LastTable(p) THEN "commit" ELSE "retire",
                                !.i = IF LastTable(p) THEN 1 ELSE op[p].i + 1]
             new == Over(Retired(p), pend[p])
  <1>1. /\ o \in Request /\ o.pc \in {"commit", "retire"}
        /\ o.N = op[p].N /\ o.kind = op[p].kind /\ o.src = op[p].src
    BY Mine, NextTable DEF Inv, Request
  <1>2. IsRows(Retired(p))
    <2>1. ASSUME NEW id \in ToRetire(p)
          PROVE  id \in RowId /\ [rows[id] EXCEPT !.retired = op[p].N] \in Row
      <3>1. id \in RowId /\ rows[id] \in Row /\ op[p].N \in Nat
        BY Mine DEF ToRetire, InTable, Live, IsRows, Request
      <3> QED
        BY <3>1, RetiredRow
    <2> QED
      BY <2>1 DEF Retired, IsRows
  <1>3. IsRows(new)
    BY <1>2, Mine, OverRows
  <1> HIDE DEF o, new
  <1>4. /\ Step(p, o) /\ pend' = [pend EXCEPT ![p] = new] /\ op[p].pc = "retire"
        /\ UNCHANGED <<version, versions, rows, writes, snap>>
    BY Mine DEF RetireTable, o, new
  <1>5. /\ op[p].N \in 1 .. version /\ op[p].kind # "none" /\ op[p].N = version
        /\ op[p].kind = "restore" => op[p].src \in 1 .. version - 1
        /\ \A q \in Proc \ {p} : ~HoldsNumber(q)
    BY <1>4 DEF Inv, NumbersHeld, HoldsNumber
  <1> QED
    BY <1>1, <1>3, <1>4, <1>5, Mine, LocalStep

LEMMA BeginMaterialiseStep ==
    ASSUME Inv, NEW p \in Proc, BeginMaterialise(p) PROVE Inv'
PROOF
  <1> DEFINE o == [op[p] EXCEPT !.pc = "mread", !.N = version, !.i = 1]
  <1>1. /\ o \in Request /\ o.pc = "mread"
        /\ o.N = version /\ o.kind = op[p].kind /\ o.src = op[p].src
    BY Mine, NextTable DEF Inv, Request
  <1> HIDE DEF o
  <1>2. /\ Step(p, o) /\ op[p].pc = "between"
        /\ UNCHANGED <<version, versions, rows, writes, snap, pend>>
    BY DEF BeginMaterialise, o
  <1>3. /\ op[p].kind = "restore" /\ op[p].src \in 1 .. version - 2
        /\ op[p].src \in 1 .. version - 1
    BY <1>2 DEF Inv, NumbersHeld
  <1> QED
    BY <1>1, <1>2, <1>3, Mine, LocalStep

LEMMA ReadLiveStep == ASSUME Inv, NEW p \in Proc, ReadLive(p) PROVE Inv'
PROOF
  <1> DEFINE see == {<<id, rows[id].seq>> : id \in InTable(rows, TableAt(p))}
             o == [op[p] EXCEPT !.pc = "mwrite", !.seen = see]
  <1>1. see \subseteq RowId \X Nat
    BY Mine DEF InTable, IsRows, Row
  <1> HIDE DEF see
  <1>2. /\ o \in Request /\ o.pc = "mwrite"
        /\ o.N = op[p].N /\ o.kind = op[p].kind /\ o.src = op[p].src
    BY <1>1, Mine DEF Request
  <1> HIDE DEF o
  <1>3. /\ Step(p, o) /\ op[p].pc = "mread"
        /\ UNCHANGED <<version, versions, rows, writes, snap, pend>>
    BY DEF ReadLive, o, see
  <1>4. /\ op[p].N \in 1 .. version
        /\ op[p].kind = "restore" /\ op[p].src \in 1 .. version - 2
        /\ op[p].src \in 1 .. version - 1
    BY <1>3 DEF Inv, NumbersHeld
  <1> QED
    BY <1>2, <1>3, <1>4, Mine, LocalStep

LEMMA WriteTableStep == ASSUME Inv, NEW p \in Proc, WriteTable(p) PROVE Inv'
PROOF
  <1> DEFINE o == [op[p] EXCEPT !.seen = {},
                                !.pc = IF LastTable(p) THEN "minsert" ELSE "mread",
                                !.i = IF LastTable(p) THEN 1 ELSE op[p].i + 1]
             new == Over(Reconciled(p), Over(Reinserted(p), pend[p]))
  <1>1. /\ o \in Request /\ o.pc \in {"minsert", "mread"}
        /\ o.N = op[p].N /\ o.kind = op[p].kind /\ o.src = op[p].src
    BY Mine, NextTable DEF Inv, Request
  <1>2. IsRows(new)
    BY WrittenRows, Mine, OverRows DEF WriteTable
  <1> HIDE DEF o, new
  <1>3. /\ Step(p, o) /\ pend' = [pend EXCEPT ![p] = new] /\ op[p].pc = "mwrite"
        /\ UNCHANGED <<version, versions, rows, writes, snap>>
    BY Mine DEF WriteTable, o, new
  <1>4. /\ op[p].N \in 1 .. version
        /\ op[p].kind = "restore" /\ op[p].src \in 1 .. version - 2
        /\ op[p].src \in 1 .. version - 1
    BY <1>3 DEF Inv, NumbersHeld
  <1> QED
    BY <1>1, <1>2, <1>3, <1>4, Mine, LocalStep

(* Both commits: the holder of the number adds one entry and moves on. *)
LEMMA CommitStep ==
    ASSUME Inv, NEW p \in Proc, HoldsNumber(p),
           NEW o \in Request, Step(p, o),
           NEW s, IsRows(s), NEW f \in Nat,
           versions' = Plus(versions, op[p].N, [snap |-> s, from |-> f]),
           version' = op[p].N + 1, rows' = Over(pend[p], rows), writes' = writes,
           DOMAIN snap' = Proc, DOMAIN pend' = Proc,
           \A q \in Proc : IsRows(snap'[q]) /\ IsRows(pend'[q]),
           o.pc \in {"idle", "between"},
           o.pc = "between" => /\ o.N \in 1 .. version /\ o.kind = "restore"
                               /\ o.src \in 1 .. version - 1
    PROVE  Inv'
PROOF
  <1>1. /\ op[p].N = version /\ version \in Nat \ {0} /\ version' = version + 1
        /\ \A q \in Proc \ {p} : ~HoldsNumber(q)
    BY DEF Inv, TypeOK, NumbersHeld
  <1>2. op'[p] = o /\ \A q \in Proc \ {p} : op'[q] = op[q]
    BY DEF Inv, TypeOK, Step
  <1>3. /\ DOMAIN versions' = DOMAIN versions \cup {version}
        /\ versions'[version] = [snap |-> s, from |-> f]
        /\ \A v \in DOMAIN versions \ {version} : versions'[v] = versions[v]
    BY <1>1 DEF Plus, Over
  <1>4. TypeOK'
    <2>1. op' \in [Proc -> Request]
      BY DEF Inv, TypeOK, Step
    <2>2. IsRows(rows')
      BY Mine, OverRows
    <2>3. \A v \in DOMAIN versions' : /\ v \in Nat \ {0}
                                      /\ versions'[v].from \in Nat
                                      /\ IsRows(versions'[v].snap)
      BY <1>1, <1>3 DEF Inv, TypeOK
    <2> QED
      BY <1>1, <2>1, <2>2, <2>3 DEF Inv, TypeOK
  <1>5. Numbering'
    <2>1. (1 .. version - 1) \cup {version} = 1 .. (version + 1) - 1
      BY <1>1
    <2> QED
      BY <1>1, <1>3, <2>1 DEF Inv, Numbering
  <1>6. NumbersHeld'
    <2>1. ASSUME NEW q \in Proc \ {p}
          PROVE  /\ op'[q] = op[q] /\ ~HoldsNumber(q)
                 /\ op[q].pc # "idle" => op[q].N \in 1 .. version' /\ op[q].kind # "none"
                 /\ op[q].kind = "restore" /\ op[q].pc # "idle"
                        => op[q].src \in 1 .. version' - 1
                 /\ op[q].pc \in {"between", "mread", "mwrite", "minsert", "mcommit"}
                        => op[q].kind = "restore" /\ op[q].src \in 1 .. version' - 2
      BY <1>1, <1>2 DEF Inv, NumbersHeld
    <2>2. /\ o.pc # "idle" => o.N \in 1 .. version' /\ o.kind # "none"
          /\ o.kind = "restore" /\ o.pc # "idle" => o.src \in 1 .. version' - 1
          /\ o.pc = "between" => o.kind = "restore" /\ o.src \in 1 .. version' - 2
      BY <1>1
    <2> QED
      BY <1>2, <2>1, <2>2 DEF NumbersHeld, HoldsNumber
  <1> QED
    BY <1>4, <1>5, <1>6 DEF Inv

LEMMA CommitCutStep == ASSUME Inv, NEW p \in Proc, CommitCut(p) PROVE Inv'
PROOF
  <1> DEFINE o == IF op[p].kind = "cut" THEN Idle ELSE [op[p] EXCEPT !.pc = "between"]
  <1>1. /\ op[p].pc = "commit" /\ HoldsNumber(p) /\ op[p].kind # "none"
        /\ op[p].N \in 1 .. version
        /\ op[p].kind = "restore" => op[p].src \in 1 .. version - 1
    BY DEF CommitCut, HoldsNumber, Inv, NumbersHeld
  <1>2. /\ o \in Request /\ o.pc \in {"idle", "between"}
        /\ o.pc = "between" => /\ o.N \in 1 .. version /\ o.kind = "restore"
                               /\ o.src \in 1 .. version - 1
    <2>1. CASE op[p].kind = "cut"
      BY <2>1, IdleType DEF Idle
    <2>2. CASE op[p].kind = "restore"
      BY <1>1, <2>2, Mine DEF Request
    <2> QED
      BY <1>1, <2>1, <2>2, Mine DEF Request
  <1> HIDE DEF o
  <1>3. Step(p, o) /\ 0 \in Nat
    BY DEF CommitCut, o
  <1>4. /\ DOMAIN snap' = Proc /\ DOMAIN pend' = Proc
        /\ \A q \in Proc : IsRows(snap'[q]) /\ IsRows(pend'[q])
    BY DEF CommitCut, Inv, TypeOK, NoRows, IsRows
  <1>5. /\ versions' = Plus(versions, op[p].N, [snap |-> snap[p], from |-> 0])
        /\ version' = op[p].N + 1 /\ rows' = Over(pend[p], rows) /\ writes' = writes
        /\ IsRows(snap[p])
    BY Mine DEF CommitCut
  <1> QED
    BY <1>1, <1>2, <1>3, <1>4, <1>5, CommitStep

LEMMA CommitRestoreStep == ASSUME Inv, NEW p \in Proc, CommitRestore(p) PROVE Inv'
PROOF
  <1>1. /\ HoldsNumber(p) /\ op[p].src \in DOMAIN versions
        /\ op[p].src \in Nat /\ IsRows(Source(p))
    BY DEF CommitRestore, HoldsNumber, Inv, TypeOK, Numbering, NumbersHeld, Source
  <1>2. /\ DOMAIN snap' = Proc /\ DOMAIN pend' = Proc
        /\ \A q \in Proc : IsRows(snap'[q]) /\ IsRows(pend'[q])
    BY DEF CommitRestore, Inv, TypeOK, NoRows, IsRows
  <1>3. Idle \in Request /\ Idle.pc = "idle"
    BY IdleType DEF Idle
  <1>4. /\ versions' = Plus(versions, op[p].N, [snap |-> Source(p), from |-> op[p].src])
        /\ version' = op[p].N + 1 /\ rows' = Over(pend[p], rows) /\ writes' = writes
        /\ Step(p, Idle)
    BY DEF CommitRestore
  <1> QED
    BY <1>1, <1>2, <1>3, <1>4, CommitStep

LEMMA NextStep == Inv /\ [Next]_vars => Inv'
PROOF
  <1> SUFFICES ASSUME Inv, [Next]_vars PROVE Inv'
    OBVIOUS
  <1>1. CASE Write
    BY <1>1, WriteStep
  <1>2. ASSUME NEW p \in Proc, Begin(p) PROVE Inv'
    BY <1>2, BeginStep
  <1>3. ASSUME NEW p \in Proc, Advance(p) PROVE Inv'
    BY <1>3, ReadTableStep, InsertVersionStep, RetireTableStep, CommitCutStep,
       BeginMaterialiseStep, ReadLiveStep, WriteTableStep, CommitRestoreStep,
       RollBackStep DEF Advance, FailUnique, FailTarget, FailDeadlock
  <1>4. ASSUME NEW p \in Proc, Crash(p) PROVE Inv'
    BY <1>4, RollBackStep DEF Crash
  <1>5. CASE UNCHANGED vars
    BY <1>5 DEF vars, Inv, TypeOK, Numbering, NumbersHeld, HoldsNumber
  <1> QED
    BY <1>1, <1>2, <1>3, <1>4, <1>5 DEF Next

LEMMA Invariance == Spec => []Inv
  BY InitInv, NextStep, PTL DEF Spec

-----------------------------------------------------------------------------
(* The variables have their types at every reachable state. *)
THEOREM TypeCorrect == Spec => []TypeOK
PROOF
  <1>1. Inv => TypeOK
    BY DEF Inv
  <1> QED
    BY <1>1, Invariance, PTL

(* However many cuts and restores race, document_versions holds the numbers *)
(* 1 .. documents.version - 1 with no gap and no repeat (versioning.ts:286- *)
(* 317, 815-841, and the unique index of schema.ts:1370).                   *)
THEOREM NumbersContiguous == Spec => []Numbering
PROOF
  <1>1. Inv => Numbering
    BY DEF Inv
  <1> QED
    BY <1>1, Invariance, PTL

-----------------------------------------------------------------------------
(* Refinement: the history is an append-only log *)

Log == [v \in 1 .. version - 1 |-> versions[v]]

(* The log after a commit: what it was, and one entry more. *)
LEMMA LogGrows ==
    ASSUME Inv, NEW p \in Proc, HoldsNumber(p), NEW e,
           versions' = Plus(versions, op[p].N, e), version' = op[p].N + 1,
           e.from # 0 => /\ e.from \in 1 .. version - 2
                         /\ e.snap = versions[e.from].snap
    PROVE  History!Grow
PROOF
  <1>1. version \in Nat \ {0} /\ op[p].N = version /\ version' = version + 1
    BY DEF Inv, TypeOK, NumbersHeld
  <1>2. /\ DOMAIN Log = 1 .. version - 1 /\ Len(Log) = version - 1
        /\ \A v \in 1 .. version - 1 : Log[v] = versions[v]
    BY <1>1 DEF Log
  <1>3. /\ Len(Log') = version
        /\ \A v \in 1 .. version : Log'[v] = versions'[v]
    BY <1>1 DEF Log
  <1>4. /\ versions'[version] = e
        /\ \A v \in 1 .. version - 1 : versions'[v] = versions[v]
    BY <1>1 DEF Plus, Over, Inv, Numbering
  <1>5. Len(Log') = Len(Log) + 1
    BY <1>1, <1>2, <1>3
  <1>6. \A v \in 1 .. Len(Log) : Log'[v] = Log[v]
    BY <1>1, <1>2, <1>3, <1>4
  <1>7. Log'[Len(Log) + 1] = e
    BY <1>1, <1>2, <1>3, <1>4
  <1>8. e.from # 0 => e.from \in 1 .. Len(Log) - 1 /\ e.snap = Log[e.from].snap
    BY <1>1, <1>2
  <1> QED
    BY <1>5, <1>6, <1>7, <1>8 DEF History!Grow, History!WellFounded, Log

LEMMA StepRefines == Inv /\ [Next]_vars => [History!Grow]_Log
PROOF
  <1> SUFFICES ASSUME Inv, [Next]_vars, ~UNCHANGED <<version, versions>>
               PROVE  History!Grow
    BY DEF Log
  <1>1. PICK p \in Proc : CommitCut(p) \/ CommitRestore(p)
    BY DEF Next, Write, Create, Edit, Delete, Begin, BeginCut, BeginRestore, Advance,
           ReadTable, InsertVersion, RetireTable, BeginMaterialise, ReadLive,
           WriteTable, FailUnique, FailTarget, FailDeadlock, Crash, RollBack, vars
  <1>2. CASE CommitCut(p)
    <2> DEFINE e == [snap |-> snap[p], from |-> 0]
    <2>1. /\ HoldsNumber(p) /\ e.from = 0
          /\ versions' = Plus(versions, op[p].N, e) /\ version' = op[p].N + 1
      BY <1>2 DEF CommitCut, HoldsNumber
    <2> HIDE DEF e
    <2> QED
      BY <2>1, LogGrows
  <1>3. CASE CommitRestore(p)
    <2> DEFINE e == [snap |-> Source(p), from |-> op[p].src]
    <2>1. /\ HoldsNumber(p) /\ e.from \in 1 .. version - 2
          /\ e.snap = versions[e.from].snap
          /\ versions' = Plus(versions, op[p].N, e) /\ version' = op[p].N + 1
      BY <1>3 DEF CommitRestore, HoldsNumber, Inv, NumbersHeld, Source
    <2> HIDE DEF e
    <2> QED
      BY <2>1, LogGrows
  <1> QED
    BY <1>1, <1>2, <1>3

(* Cutting and restoring implement the append-only history: no version is   *)
(* rewritten, renumbered or lost, and a restored version is a verbatim copy *)
(* of one older than the checkpoint before it (versioning.ts:757-772).      *)
THEOREM HistoryIsAppendOnly == Spec => AppendOnlyHistory
PROOF
  <1>1. Init => History!Init
    <2> SUFFICES ASSUME Init PROVE History!Init
      OBVIOUS
    <2>1. 1 .. version - 1 = {}
      BY DEF Init
    <2> QED
      BY <2>1 DEF History!Init
  <1>2. Inv /\ [Next]_vars => [History!Grow]_Log
    BY StepRefines
  <1> QED
    BY <1>1, <1>2, Invariance, PTL DEF Spec, AppendOnlyHistory, History!Spec, Log
-----------------------------------------------------------------------------
(* What a checkpoint saves and what a restore leaves                        *)
(*                                                                          *)
(* A request that commits has its number still current, so no other has     *)
(* committed since it took it: all that can have changed under it are       *)
(* single writes, and those are late.  The invariant follows one request at *)
(* a time and speaks of the current ones only.                              *)

Cutting == {"read", "insert", "retire", "commit"}
Materialising == {"mread", "mwrite", "minsert", "mcommit"}

(* The tables the request's loop has behind it. *)
Done(p) == IF op[p].pc \in {"read", "mread", "mwrite"}
           THEN {Tables[j] : j \in 1 .. op[p].i - 1} ELSE TableSet

Current(p) == op[p].N = version

Late(p, r) == r.rev > op[p].mark

(* Ids and stamps are never issued twice. *)
NewIsNew ==
    /\ \A id \in DOMAIN rows : id[1] = 0 => id[3] <= writes
    /\ \A p \in Proc : /\ op[p].mark <= writes
                       /\ \A e \in op[p].seen : e[1][1] = 0 => e[1][3] <= writes
                       /\ \A id \in DOMAIN pend[p] : id[1] = 0 => id[3] <= writes

(* Nothing is pending before the first statement that writes. *)
Clean(p) == op[p].pc \in {"idle", "read", "insert", "between"} => DOMAIN pend[p] = {}

(* The snapshot has every text of the tables read so far that is not late.  *)
Covered(p) == op[p].pc \in Cutting /\ Current(p) =>
    \A id \in DOMAIN rows : rows[id].cls \in Done(p) =>
        Late(p, rows[id]) \/ (id \in DOMAIN snap[p] /\ snap[p][id].rev = rows[id].rev)

(* A pending row brings a text that is archived, or leaves the row its own. *)
Kept(p) == Current(p) =>
    \A id \in DOMAIN pend[p] :
        Archived(pend[p][id]) \/ (id \in DOMAIN rows /\ pend[p][id].rev = rows[id].rev)

(* After the checkpoint whatever is in a table is archived or late. *)
Saved(p) == op[p].pc \in {"between"} \cup Materialising =>
    \A id \in DOMAIN rows : Late(p, rows[id]) \/ Archived(rows[id])

(* What a restore has written is live only as in the source, what it has    *)
(* passed by in the tables behind it is late, and what it has just read is  *)
(* still so.                                                                *)
Reconciling(p) == op[p].pc \in Materialising /\ Current(p) =>
    /\ \A id \in DOMAIN pend[p] :
            pend[p][id].retired = 0 => Text(pend[p][id]) \in LiveTexts(Source(p))
    /\ \A id \in DOMAIN rows : rows[id].cls \in Done(p) =>
            id \in DOMAIN pend[p] \/ Late(p, rows[id])
    /\ op[p].pc = "mwrite" =>
        /\ \A id \in InTable(rows, TableAt(p)) :
                <<id, rows[id].seq>> \in op[p].seen \/ Late(p, rows[id])
        /\ \A e \in op[p].seen : e[1] \in DOMAIN rows =>
                rows[e[1]].cls = TableAt(p) /\ rows[e[1]].seq = e[2]

Careful(p) == Clean(p) /\ Covered(p) /\ Kept(p) /\ Saved(p) /\ Reconciling(p)

Preserving == NewIsNew /\ \A p \in Proc : Careful(p)

LEMMA InitPreserving == Init => Preserving
  BY DEF Init, Preserving, NewIsNew, Careful, Clean, Covered, Kept, Saved, Reconciling,
         NoRows, Idle, Cutting, Materialising

(* A request that does not move keeps its part as long as nothing it shares *)
(* with the others changes.                                                 *)
LEMMA Frame ==
    ASSUME NEW q \in Proc, Careful(q), UNCHANGED <<version, versions, rows>>,
           op'[q] = op[q], snap'[q] = snap[q], pend'[q] = pend[q]
    PROVE  Careful(q)'
PROOF
  <1>1. /\ Done(q)' = Done(q) /\ Source(q)' = Source(q) /\ TableAt(q)' = TableAt(q)
        /\ Current(q)' = Current(q) /\ \A r : Archived(r)' = Archived(r) /\ Late(q, r)' = Late(q, r)
    BY DEF Done, Source, TableAt, Current, Archived, Late
  <1>2. Clean(q)' /\ Covered(q)' /\ Kept(q)' /\ Saved(q)'
    BY <1>1 DEF Careful, Clean, Covered, Kept, Saved
  <1>3. Reconciling(q)'
    BY <1>1 DEF Careful, Reconciling, LiveTexts, Live, Text, InTable
  <1> QED
    BY <1>2, <1>3 DEF Careful

(* A write leaves the rows alone, but for one: a new one, or a text that is *)
(* new.  Rows some request has written are locked.                          *)
LEMMA WhatAWriteDoes ==
    ASSUME Inv, NewIsNew, Write
    PROVE  /\ UNCHANGED <<version, versions, op, snap, pend>>
           /\ writes' \in Nat /\ writes' >= writes
           /\ \A id \in DOMAIN rows' :
                \/ /\ id \in DOMAIN rows
                   /\ rows'[id].cls = rows[id].cls /\ rows'[id].seq = rows[id].seq
                   /\ rows'[id].rev = rows[id].rev \/ rows'[id].rev = writes + 1
                \/ id \notin DOMAIN rows /\ id[1] = 0 /\ id[3] = writes + 1
                   /\ writes' = writes + 1 /\ rows'[id].rev = writes + 1
           /\ \A q \in Proc : \A id \in DOMAIN pend[q] \cap DOMAIN rows :
                id \in DOMAIN rows' /\ rows'[id] = rows[id]
PROOF
  <1>1. IsRows(rows) /\ writes \in Nat
    BY DEF Inv, TypeOK
  <1>2. ASSUME NEW c \in TableSet, NEW on \in DOMAIN rows \cup {NoTarget}, Create(c, on)
        PROVE  /\ UNCHANGED <<version, versions, op, snap, pend>>
               /\ writes' = writes + 1
               /\ DOMAIN rows' = DOMAIN rows \cup {<<0, c, writes + 1>>}
               /\ <<0, c, writes + 1>> \notin DOMAIN rows
               /\ \A id \in DOMAIN rows : rows'[id] = rows[id]
               /\ rows'[<<0, c, writes + 1>>].rev = writes + 1
    <2>1. PICK s \in 1 .. writes + 1 :
               /\ rows' = Plus(rows, <<0, c, writes + 1>>,
                               [cls |-> c, seq |-> s, art |-> writes + 1,
                                rev |-> writes + 1, retired |-> 0, on |-> on])
               /\ writes' = writes + 1
               /\ UNCHANGED <<version, versions, op, snap, pend>>
      BY <1>2 DEF Create
    <2>2. <<0, c, writes + 1>> \notin DOMAIN rows
      BY <1>1 DEF NewIsNew
    <2> DEFINE x == <<0, c, writes + 1>>
               e == [cls |-> c, seq |-> s, art |-> writes + 1,
                     rev |-> writes + 1, retired |-> 0, on |-> on]
    <2>3. rows' = Plus(rows, x, e) /\ x \notin DOMAIN rows /\ e.rev = writes + 1
      BY <2>1, <2>2
    <2> HIDE DEF x, e
    <2>4. /\ DOMAIN rows' = DOMAIN rows \cup {x} /\ rows'[x] = e
          /\ \A id \in DOMAIN rows : rows'[id] = rows[id]
      BY <2>3 DEF Plus, Over
    <2> QED
      BY <2>1, <2>2, <2>3, <2>4 DEF x
  <1>3. CASE \E c \in TableSet, on \in DOMAIN rows \cup {NoTarget} : Create(c, on)
    <2>1. PICK c \in TableSet, on \in DOMAIN rows \cup {NoTarget} : Create(c, on)
      BY <1>3
    <2> DEFINE x == <<0, c, writes + 1>>
    <2>2. x[1] = 0 /\ x[3] = writes + 1
      OBVIOUS
    <2>3. /\ UNCHANGED <<version, versions, op, snap, pend>>
          /\ writes' = writes + 1
          /\ DOMAIN rows' = DOMAIN rows \cup {x} /\ x \notin DOMAIN rows
          /\ \A id \in DOMAIN rows : rows'[id] = rows[id]
          /\ rows'[x].rev = writes + 1
      BY <2>1, <1>2
    <2> HIDE DEF x
    <2> QED
      BY <1>1, <2>2, <2>3
  <1>4. CASE \E id \in DOMAIN rows : Edit(id)
    <2>1. PICK x \in DOMAIN rows : Edit(x)
      BY <1>4
    <2>2. /\ UNCHANGED <<version, versions, op, snap, pend>> /\ writes' = writes + 1
          /\ rows' = [rows EXCEPT ![x].rev = writes + 1]
          /\ \A q \in Proc : x \notin DOMAIN pend[q]
      BY <2>1 DEF Edit, Locked, LockedBy
    <2>3. /\ DOMAIN rows' = DOMAIN rows
          /\ \A id \in DOMAIN rows \ {x} : rows'[id] = rows[id]
          /\ rows'[x] = [rows[x] EXCEPT !.rev = writes + 1] /\ rows[x] \in Row
      BY <1>1, <2>2 DEF IsRows
    <2>4. rows'[x].cls = rows[x].cls /\ rows'[x].seq = rows[x].seq /\ rows'[x].rev = writes + 1
      BY <2>3 DEF Row
    <2> QED
      BY <1>1, <2>2, <2>3, <2>4
  <1>5. CASE \E id \in DOMAIN rows : Delete(id)
    <2>1. PICK x \in DOMAIN rows : Delete(x)
      BY <1>5
    <2> DEFINE gone == {x} \cup {y \in DOMAIN rows : rows[y].on = x}
    <2>2. /\ UNCHANGED <<version, versions, op, snap, pend, writes>>
          /\ rows' = Restrict(rows, DOMAIN rows \ gone)
          /\ \A q \in Proc : \A y \in gone : y \notin DOMAIN pend[q]
      BY <2>1 DEF Delete, Locked, LockedBy
    <2> HIDE DEF gone
    <2>3. DOMAIN rows' = DOMAIN rows \ gone /\ \A id \in DOMAIN rows' : rows'[id] = rows[id]
      BY <2>2 DEF Restrict
    <2> QED
      BY <1>1, <2>2, <2>3
  <1> QED
    BY <1>3, <1>4, <1>5 DEF Write

LEMMA PreservingWrite == ASSUME Inv, Preserving, Write PROVE Preserving'
PROOF
  <1>1. /\ UNCHANGED <<version, versions, op, snap, pend>>
        /\ writes \in Nat /\ writes' \in Nat /\ writes' >= writes
        /\ \A id \in DOMAIN rows' :
             \/ /\ id \in DOMAIN rows
                /\ rows'[id].cls = rows[id].cls /\ rows'[id].seq = rows[id].seq
                /\ rows'[id].rev = rows[id].rev \/ rows'[id].rev = writes + 1
             \/ id \notin DOMAIN rows /\ id[1] = 0 /\ id[3] = writes + 1
                /\ writes' = writes + 1 /\ rows'[id].rev = writes + 1
        /\ \A q \in Proc : \A id \in DOMAIN pend[q] \cap DOMAIN rows :
             id \in DOMAIN rows' /\ rows'[id] = rows[id]
    BY WhatAWriteDoes DEF Preserving, Inv, TypeOK
  <1>0. IsRows(rows) /\ IsRows(rows') /\ \A q \in Proc : op[q] \in Request
    BY WriteStep DEF Inv, TypeOK
  <1>2. NewIsNew'
    <2>1. \A id \in DOMAIN rows' : id[1] = 0 => id[3] <= writes'
      BY <1>0, <1>1 DEF Preserving, NewIsNew, IsRows, RowId
    <2>2. ASSUME NEW q \in Proc
          PROVE  /\ op'[q].mark <= writes'
                 /\ \A e \in op'[q].seen : e[1][1] = 0 => e[1][3] <= writes'
                 /\ \A id \in DOMAIN pend'[q] : id[1] = 0 => id[3] <= writes'
      <3>1. /\ op[q].mark \in Nat /\ \A e \in op[q].seen : e[1][3] \in Nat
            /\ \A id \in DOMAIN pend[q] : id[3] \in Nat
        BY <1>0, Mine DEF Request, RowId, IsRows
      <3> QED
        BY <1>1, <3>1 DEF Preserving, NewIsNew
    <2> QED
      BY <2>1, <2>2 DEF NewIsNew
  <1>3. ASSUME NEW q \in Proc PROVE Careful(q)'
    <2>1. /\ Done(q)' = Done(q) /\ Source(q)' = Source(q) /\ TableAt(q)' = TableAt(q)
          /\ Current(q)' = Current(q) /\ \A r : Archived(r)' = Archived(r) /\ Late(q, r)' = Late(q, r)
      BY <1>1 DEF Done, Source, TableAt, Current, Archived, Late
    <2>2. \A id \in DOMAIN rows' : rows'[id].rev = writes + 1 => Late(q, rows'[id])
      BY <1>0, <1>1 DEF Preserving, NewIsNew, Late, Request
    <2>3. \A id \in DOMAIN rows' :
            Late(q, rows'[id]) \/ (/\ id \in DOMAIN rows /\ rows'[id].cls = rows[id].cls
                                   /\ rows'[id].seq = rows[id].seq
                                   /\ rows'[id].rev = rows[id].rev)
      BY <1>1, <2>2
    <2>4. Careful(q)
      BY DEF Preserving
    <2>5. Clean(q)'
      BY <1>1, <2>4 DEF Careful, Clean
    <2>6. Covered(q)'
      BY <1>1, <2>1, <2>3, <2>4 DEF Careful, Covered, Late
    <2>7. Kept(q)'
      BY <1>1, <2>1, <2>4 DEF Careful, Kept
    <2>8. Saved(q)'
      BY <1>1, <2>1, <2>3, <2>4 DEF Careful, Saved, Archived, Late
    <2>9. Reconciling(q)'
      <3> SUFFICES ASSUME op[q].pc \in Materialising, Current(q) PROVE Reconciling(q)'
        BY <1>1, <2>1 DEF Reconciling
      <3>1. /\ \A id \in DOMAIN pend[q] :
                   pend[q][id].retired = 0 => Text(pend[q][id]) \in LiveTexts(Source(q))
            /\ \A id \in DOMAIN rows : rows[id].cls \in Done(q) =>
                   id \in DOMAIN pend[q] \/ Late(q, rows[id])
        BY <2>4 DEF Careful, Reconciling
      <3>2. \A id \in DOMAIN pend'[q] :
                   pend'[q][id].retired = 0 => Text(pend'[q][id]) \in LiveTexts(Source(q)')
        BY <1>1, <2>1, <3>1
      <3>3. \A id \in DOMAIN rows' : rows'[id].cls \in Done(q)' =>
                   id \in DOMAIN pend'[q] \/ Late(q, rows'[id])
        BY <1>1, <2>1, <2>3, <3>1 DEF Late
      <3>4. op[q].pc = "mwrite" =>
                \A id \in InTable(rows', TableAt(q)) :
                    <<id, rows'[id].seq>> \in op[q].seen \/ Late(q, rows'[id])
        BY <2>3, <2>4 DEF Careful, Reconciling, InTable, Late
      <3>5. op[q].pc = "mwrite" =>
                \A e \in op[q].seen : e[1] \in DOMAIN rows' =>
                    rows'[e[1]].cls = TableAt(q) /\ rows'[e[1]].seq = e[2]
        <4> SUFFICES ASSUME op[q].pc = "mwrite", NEW e \in op[q].seen, e[1] \in DOMAIN rows'
                     PROVE  rows'[e[1]].cls = TableAt(q) /\ rows'[e[1]].seq = e[2]
          OBVIOUS
        <4>1. e[1][3] \in Nat /\ (e[1][1] = 0 => e[1][3] <= writes)
          BY <1>0 DEF Request, RowId, Preserving, NewIsNew
        <4>2. e[1] \in DOMAIN rows => rows[e[1]].cls = TableAt(q) /\ rows[e[1]].seq = e[2]
          BY <2>4 DEF Careful, Reconciling
        <4> QED
          BY <1>1, <4>1, <4>2
      <3> QED
        BY <1>1, <2>1, <3>2, <3>3, <3>4, <3>5 DEF Reconciling, LiveTexts, Live, Text, InTable, Late, Source, TableAt
    <2> QED
      BY <2>5, <2>6, <2>7, <2>8, <2>9 DEF Careful
  <1> QED
    BY <1>2, <1>3 DEF Preserving

(* A step of p that touches no row: p's part, and the others' unchanged.    *)
LEMMA PreservingLocal ==
    ASSUME Preserving, NEW p \in Proc, NEW o, op' = [op EXCEPT ![p] = o], op \in [Proc -> Request],
           UNCHANGED <<version, versions, rows, writes>>,
           \A q \in Proc \ {p} : snap'[q] = snap[q] /\ pend'[q] = pend[q],
           o.mark <= writes, \A e \in o.seen : e[1][1] = 0 => e[1][3] <= writes,
           \A id \in DOMAIN pend'[p] : id[1] = 0 => id[3] <= writes,
           Careful(p)'
    PROVE  Preserving'
PROOF
  <1>1. op'[p] = o /\ \A q \in Proc \ {p} : op'[q] = op[q]
    OBVIOUS
  <1>2. NewIsNew'
    BY <1>1 DEF Preserving, NewIsNew
  <1>3. \A q \in Proc \ {p} : Careful(q)'
    BY <1>1, Frame DEF Preserving
  <1> QED
    BY <1>2, <1>3 DEF Preserving

(* What Preserving says of the request that moves. *)
LEMMA Marks ==
    ASSUME Inv, Preserving, NEW p \in Proc
    PROVE  /\ op \in [Proc -> Request] /\ Idle.mark <= writes /\ Idle.seen = {}
           /\ op[p].mark <= writes /\ writes \in Nat /\ version \in Nat \ {0}
           /\ \A e \in op[p].seen : e[1][1] = 0 => e[1][3] <= writes
           /\ \A id \in DOMAIN pend[p] \cup DOMAIN rows : id[1] = 0 => id[3] <= writes
  BY DEF Inv, TypeOK, Preserving, NewIsNew, Idle

LEMMA PreservingIdle ==
    ASSUME Inv, Preserving, NEW p \in Proc, RollBack(p)
    PROVE  Preserving'
PROOF
  <1>1. /\ op' = [op EXCEPT ![p] = Idle] /\ UNCHANGED <<version, versions, rows, writes>>
        /\ pend' = [pend EXCEPT ![p] = NoRows] /\ snap' = [snap EXCEPT ![p] = NoRows]
    BY DEF RollBack, Step
  <1>2. op'[p] = Idle /\ pend'[p] = NoRows
    BY <1>1 DEF Inv, TypeOK
  <1>3. Careful(p)'
    BY <1>1, <1>2, Marks DEF Careful, Clean, Covered, Kept, Saved, Reconciling, Idle, Cutting,
             Materialising, NoRows, Current
  <1>4. /\ \A q \in Proc \ {p} : snap'[q] = snap[q] /\ pend'[q] = pend[q]
        /\ DOMAIN pend'[p] = {}
    BY <1>1, <1>2 DEF NoRows
  <1> QED
    BY <1>1, <1>3, <1>4, Marks, PreservingLocal

LEMMA PreservingBegin ==
    ASSUME Inv, Preserving, NEW p \in Proc, NEW o,
           op[p].pc = "idle", Step(p, o), o.pc = "read", o.N = version, o.mark = writes, o.i = 1,
           o.seen = {}, UNCHANGED <<version, versions, rows, writes, snap, pend>>
    PROVE  Preserving'
PROOF
  <1>1. op' = [op EXCEPT ![p] = o] /\ op'[p] = o
    BY DEF Step, Inv, TypeOK
  <1>2. DOMAIN pend[p] = {}
    BY DEF Preserving, Careful, Clean
  <1>3. Done(p)' = {}
    BY <1>1 DEF Done
  <1>4. Careful(p)'
    BY <1>1, <1>2, <1>3 DEF Careful, Clean, Covered, Kept, Saved, Reconciling, Cutting,
             Materialising
  <1>5. /\ o.mark <= writes /\ \A e \in o.seen : e[1][1] = 0 => e[1][3] <= writes
        /\ \A q \in Proc \ {p} : snap'[q] = snap[q] /\ pend'[q] = pend[q]
    BY Marks
  <1> QED
    BY <1>1, <1>2, <1>4, <1>5, Marks, PreservingLocal

LEMMA PreservingReadTable ==
    ASSUME Inv, Preserving, NEW p \in Proc, ReadTable(p)
    PROVE  Preserving'
PROOF
  <1> DEFINE o == [op[p] EXCEPT !.pc = IF LastTable(p) THEN "insert" ELSE "read",
                                !.i = IF LastTable(p) THEN 1 ELSE op[p].i + 1]
             read == InTable(rows, TableAt(p))
  <1>1. op[p] \in Request /\ Len(Tables) \in Nat /\ op[p].i \in 1 .. Len(Tables)
    BY Mine, NextTable DEF Request
  <1>2. /\ op' = [op EXCEPT ![p] = o] /\ op'[p] = o /\ op[p].pc = "read"
        /\ snap'[p] = Over(Restrict(rows, read), snap[p])
        /\ UNCHANGED <<version, versions, rows, writes, pend>>
        /\ \A q \in Proc \ {p} : snap'[q] = snap[q]
    BY DEF ReadTable, Step, Inv, TypeOK
  <1>3. /\ o.N = op[p].N /\ o.mark = op[p].mark /\ o.seen = op[p].seen
        /\ o.pc = (IF LastTable(p) THEN "insert" ELSE "read")
        /\ ~LastTable(p) => o.i = op[p].i + 1
    BY <1>1 DEF Request
  <1> HIDE DEF o
  <1>4. Done(p)' = Done(p) \cup {TableAt(p)}
    <2>1. CASE LastTable(p)
      BY <1>1, <1>2, <1>3, <2>1 DEF Done, TableSet, TableAt, LastTable
    <2>2. CASE ~LastTable(p)
      BY <1>1, <1>2, <1>3, <2>2 DEF Done, TableSet, TableAt, LastTable
    <2> QED
      BY <2>1, <2>2
  <1>5. \A id \in DOMAIN rows :
            /\ rows[id].cls = TableAt(p) => id \in DOMAIN snap'[p] /\ snap'[p][id] = rows[id]
            /\ rows[id].cls # TableAt(p) /\ id \in DOMAIN snap[p]
                    => id \in DOMAIN snap'[p] /\ snap'[p][id] = snap[p][id]
    BY <1>2 DEF Over, Restrict, InTable
  <1>6. Covered(p)'
    BY <1>2, <1>3, <1>4, <1>5 DEF Preserving, Careful, Covered, Cutting, Current, Late
  <1>7. Careful(p)'
    BY <1>2, <1>3, <1>6 DEF Preserving, Careful, Clean, Kept, Saved, Reconciling, Materialising,
             Current, Archived
  <1> QED
    BY <1>2, <1>3, <1>7, Marks, PreservingLocal

LEMMA PreservingInsertVersion ==
    ASSUME Inv, Preserving, NEW p \in Proc, InsertVersion(p)
    PROVE  Preserving'
PROOF
  <1> DEFINE o == [op[p] EXCEPT !.pc = IF op[p].pc = "insert" THEN "retire" ELSE "mcommit"]
  <1>1. op[p] \in Request
    BY Mine
  <1>2. /\ op' = [op EXCEPT ![p] = o] /\ op'[p] = o /\ op[p].pc \in {"insert", "minsert"}
        /\ UNCHANGED <<version, versions, rows, writes, snap, pend>>
    BY DEF InsertVersion, Step, Inv, TypeOK
  <1>3. /\ o.N = op[p].N /\ o.mark = op[p].mark /\ o.seen = op[p].seen /\ o.src = op[p].src
        /\ o.pc = (IF op[p].pc = "insert" THEN "retire" ELSE "mcommit")
    BY <1>1 DEF Request
  <1> HIDE DEF o
  <1>4. Done(p)' = Done(p) /\ Source(p)' = Source(p)
    BY <1>2, <1>3 DEF Done, Source
  <1>5. Careful(p)'
    BY <1>2, <1>3, <1>4 DEF Preserving, Careful, Clean, Covered, Kept, Saved, Reconciling, Cutting,
             Materialising, Current, Late, Archived, LiveTexts, Live, Text
  <1> QED
    BY <1>2, <1>3, <1>5, Marks, PreservingLocal

LEMMA PreservingRetireTable ==
    ASSUME Inv, Preserving, NEW p \in Proc, RetireTable(p)
    PROVE  Preserving'
PROOF
  <1> DEFINE o == [op[p] EXCEPT !.pc = IF LastTable(p) THEN "commit" ELSE "retire",
                                !.i = IF LastTable(p) THEN 1 ELSE op[p].i + 1]
  <1>1. op[p] \in Request /\ IsRows(rows)
    BY Mine
  <1>2. /\ op' = [op EXCEPT ![p] = o] /\ op'[p] = o /\ op[p].pc = "retire"
        /\ pend'[p] = Over(Retired(p), pend[p])
        /\ UNCHANGED <<version, versions, rows, writes, snap>>
        /\ \A q \in Proc \ {p} : pend'[q] = pend[q]
    BY DEF RetireTable, Step, Inv, TypeOK
  <1>3. /\ o.N = op[p].N /\ o.mark = op[p].mark /\ o.seen = op[p].seen
        /\ o.pc \in {"retire", "commit"}
    BY <1>1 DEF Request
  <1> HIDE DEF o
  <1>4. Done(p)' = Done(p)
    BY <1>2, <1>3 DEF Done
  <1>5. \A id \in DOMAIN pend'[p] :
            \/ id \in DOMAIN rows /\ pend'[p][id].rev = rows[id].rev
            \/ id \in DOMAIN pend[p] /\ pend'[p][id] = pend[p][id]
    BY <1>1, <1>2 DEF Over, Retired, ToRetire, InTable, Live, IsRows, Row
  <1>6. Kept(p)'
    BY <1>2, <1>3, <1>5 DEF Preserving, Careful, Kept, Current, Archived
  <1>7. Careful(p)'
    BY <1>2, <1>3, <1>4, <1>6 DEF Preserving, Careful, Clean, Covered, Saved, Reconciling, Cutting,
             Materialising, Current, Late
  <1>8. \A id \in DOMAIN pend'[p] : id[1] = 0 => id[3] <= writes
    BY <1>5, Marks
  <1> QED
    BY <1>2, <1>3, <1>7, <1>8, Marks, PreservingLocal

LEMMA PreservingBeginMaterialise ==
    ASSUME Inv, Preserving, NEW p \in Proc, BeginMaterialise(p)
    PROVE  Preserving'
PROOF
  <1> DEFINE o == [op[p] EXCEPT !.pc = "mread", !.N = version, !.i = 1]
  <1>1. op[p] \in Request
    BY Mine
  <1>2. /\ op' = [op EXCEPT ![p] = o] /\ op'[p] = o /\ op[p].pc = "between"
        /\ UNCHANGED <<version, versions, rows, writes, snap, pend>>
    BY DEF BeginMaterialise, Step, Inv, TypeOK
  <1>3. /\ o.pc = "mread" /\ o.mark = op[p].mark /\ o.seen = op[p].seen /\ o.i = 1
    BY <1>1 DEF Request
  <1> HIDE DEF o
  <1>4. Done(p)' = {} /\ DOMAIN pend[p] = {}
    BY <1>2, <1>3 DEF Done, Preserving, Careful, Clean
  <1>5. Careful(p)'
    BY <1>2, <1>3, <1>4 DEF Preserving, Careful, Clean, Covered, Kept, Saved, Reconciling, Cutting,
             Materialising, Late, Archived
  <1> QED
    BY <1>2, <1>3, <1>5, Marks, PreservingLocal

LEMMA PreservingReadLive ==
    ASSUME Inv, Preserving, NEW p \in Proc, ReadLive(p)
    PROVE  Preserving'
PROOF
  <1> DEFINE see == {<<id, rows[id].seq>> : id \in InTable(rows, TableAt(p))}
             o == [op[p] EXCEPT !.pc = "mwrite", !.seen = see]
  <1>1. op[p] \in Request
    BY Mine
  <1>2. /\ op' = [op EXCEPT ![p] = o] /\ op'[p] = o /\ op[p].pc = "mread"
        /\ UNCHANGED <<version, versions, rows, writes, snap, pend>>
    BY DEF ReadLive, Step, Inv, TypeOK
  <1>3. /\ o.pc = "mwrite" /\ o.mark = op[p].mark /\ o.seen = see /\ o.i = op[p].i
        /\ o.N = op[p].N /\ o.src = op[p].src
    BY <1>1 DEF Request
  <1>4. \A e \in see : /\ e[1] \in DOMAIN rows /\ rows[e[1]].cls = TableAt(p)
                       /\ rows[e[1]].seq = e[2]
    BY DEF InTable
  <1>5. \A id \in InTable(rows, TableAt(p)) : <<id, rows[id].seq>> \in see
    OBVIOUS
  <1> HIDE DEF o, see
  <1>6. \A e \in see : e[1][1] = 0 => e[1][3] <= writes
    BY <1>4 DEF Preserving, NewIsNew
  <1>7. Done(p)' = Done(p) /\ Source(p)' = Source(p) /\ TableAt(p)' = TableAt(p)
    BY <1>2, <1>3 DEF Done, Source, TableAt
  <1>8. Reconciling(p)'
    <2>1. Reconciling(p)
      BY DEF Preserving, Careful
    <2> QED
      BY <1>2, <1>3, <1>4, <1>5, <1>7, <2>1 DEF Reconciling, Materialising, Current, Late,
               LiveTexts, Live, Text, InTable
  <1>9. Careful(p)'
    BY <1>2, <1>3, <1>8 DEF Preserving, Careful, Clean, Covered, Kept, Saved, Cutting,
             Materialising, Current, Late, Archived
  <1> QED
    BY <1>2, <1>3, <1>6, <1>9, Marks, PreservingLocal


(* What a table's reconciliation writes, row by row. *)
LEMMA WhatReconcileWrites ==
    ASSUME NEW p \in Proc
    PROVE  /\ DOMAIN Reconciled(p) = SeenIds(p)
           /\ \A id \in SeenIds(p) :
                \/ \E s \in SourceOf(p, id) :
                        Reconciled(p)[id] = Restored(rows[id], Source(p)[s])
                \/ /\ SourceOf(p, id) = {}
                   /\ Reconciled(p)[id] = [rows[id] EXCEPT !.retired = op[p].src]
           /\ DOMAIN Reinserted(p) = {<<op[p].N, TableAt(p), Source(p)[s].seq>> : s \in Unmatched(p)}
           /\ \A id \in DOMAIN Reinserted(p) : \E s \in Unmatched(p) :
                /\ id = <<op[p].N, TableAt(p), Source(p)[s].seq>>
                /\ Reinserted(p)[id] = Source(p)[s]
PROOF
  <1>1. \A id \in SeenIds(p) :
                \/ \E s \in SourceOf(p, id) :
                        Reconciled(p)[id] = Restored(rows[id], Source(p)[s])
                \/ /\ SourceOf(p, id) = {}
                   /\ Reconciled(p)[id] = [rows[id] EXCEPT !.retired = op[p].src]
    <2> TAKE id \in SeenIds(p)
    <2>1. CASE SourceOf(p, id) = {}
      BY <2>1 DEF Reconciled
    <2>2. CASE SourceOf(p, id) # {}
      <3> DEFINE s == CHOOSE s \in SourceOf(p, id) : TRUE
      <3>1. s \in SourceOf(p, id)
        BY <2>2
      <3>2. Reconciled(p)[id] = Restored(rows[id], Source(p)[s])
        BY <2>2 DEF Reconciled
      <3> HIDE DEF s
      <3> QED
        BY <3>1, <3>2
    <2> QED
      BY <2>1, <2>2
  <1>2. \A id \in DOMAIN Reinserted(p) : \E s \in Unmatched(p) :
                /\ id = <<op[p].N, TableAt(p), Source(p)[s].seq>>
                /\ Reinserted(p)[id] = Source(p)[s]
    <2> TAKE id \in DOMAIN Reinserted(p)
    <2> DEFINE s == CHOOSE s \in Unmatched(p) : Source(p)[s].seq = id[3]
    <2>1. PICK t \in Unmatched(p) : id = <<op[p].N, TableAt(p), Source(p)[t].seq>>
      BY DEF Reinserted
    <2>2. Source(p)[t].seq = id[3]
      BY <2>1
    <2>3. s \in Unmatched(p) /\ Source(p)[s].seq = id[3]
      BY <2>2
    <2>4. Reinserted(p)[id] = Source(p)[s]
      BY DEF Reinserted
    <2> HIDE DEF s
    <2> QED
      BY <2>1, <2>3, <2>4
  <1> QED
    BY <1>1, <1>2 DEF Reconciled, Reinserted

(* The rows a restore has pending after it wrote a table. *)
LEMMA WhatWriteTablePends ==
    ASSUME Inv, NEW p \in Proc, WriteTable(p)
    PROVE  /\ DOMAIN pend'[p] = SeenIds(p) \cup DOMAIN Reinserted(p) \cup DOMAIN pend[p]
           /\ \A id \in SeenIds(p) : pend'[p][id] = Reconciled(p)[id]
           /\ \A id \in DOMAIN pend[p] \ (SeenIds(p) \cup DOMAIN Reinserted(p)) :
                pend'[p][id] = pend[p][id]
           /\ \A id \in DOMAIN Reinserted(p) \ SeenIds(p) : pend'[p][id] = Reinserted(p)[id]
           /\ \A q \in Proc \ {p} : pend'[q] = pend[q]
PROOF
  <1>1. /\ pend'[p] = Over(Reconciled(p), Over(Reinserted(p), pend[p]))
        /\ \A q \in Proc \ {p} : pend'[q] = pend[q]
    BY DEF WriteTable, Inv, TypeOK
  <1>2. DOMAIN Reconciled(p) = SeenIds(p)
    BY WhatReconcileWrites
  <1> QED
    BY <1>1, <1>2 DEF Over

(* How p moves on from a table it has written. *)
LEMMA AfterWriteTable ==
    ASSUME Inv, NEW p \in Proc, WriteTable(p)
    PROVE  /\ op[p].pc = "mwrite" /\ op'[p].pc = (IF LastTable(p) THEN "minsert" ELSE "mread")
           /\ op'[p].N = op[p].N /\ op'[p].mark = op[p].mark /\ op'[p].src = op[p].src
           /\ op'[p].seen = {}
           /\ Done(p)' = Done(p) \cup {TableAt(p)} /\ Source(p)' = Source(p)
           /\ op' = [op EXCEPT ![p] = op'[p]]
           /\ UNCHANGED <<version, versions, rows, writes, snap>>
PROOF
  <1> DEFINE o == [op[p] EXCEPT !.seen = {},
                                !.pc = IF LastTable(p) THEN "minsert" ELSE "mread",
                                !.i = IF LastTable(p) THEN 1 ELSE op[p].i + 1]
  <1>1. op[p] \in Request /\ Len(Tables) \in Nat /\ op[p].i \in 1 .. Len(Tables)
    BY Mine, NextTable DEF Request, Inv
  <1>2. /\ op' = [op EXCEPT ![p] = o] /\ op'[p] = o /\ op[p].pc = "mwrite"
        /\ UNCHANGED <<version, versions, rows, writes, snap>>
    BY DEF WriteTable, Step, Inv, TypeOK
  <1>3. /\ o.N = op[p].N /\ o.mark = op[p].mark /\ o.seen = {} /\ o.src = op[p].src
        /\ o.pc = (IF LastTable(p) THEN "minsert" ELSE "mread")
        /\ ~LastTable(p) => o.i = op[p].i + 1
    BY <1>1 DEF Request
  <1> HIDE DEF o
  <1>4. Done(p)' = Done(p) \cup {TableAt(p)}
    <2>1. CASE LastTable(p)
      BY <1>1, <1>2, <1>3, <2>1 DEF Done, TableSet, TableAt, LastTable
    <2>2. CASE ~LastTable(p)
      BY <1>1, <1>2, <1>3, <2>2 DEF Done, TableSet, TableAt, LastTable
    <2> QED
      BY <2>1, <2>2
  <1> QED
    BY <1>2, <1>3, <1>4 DEF Source

LEMMA PreservingWriteTable ==
    ASSUME Inv, Preserving, NEW p \in Proc, WriteTable(p)
    PROVE  Preserving'
PROOF
  <1>1. op[p] \in Request /\ IsRows(rows) /\ IsRows(Source(p)) /\ op[p].src \in DOMAIN versions
        /\ op[p].src \in Nat \ {0} /\ op[p].N \in Nat \ {0}
    BY Mine DEF WriteTable, Inv, TypeOK, Numbering, NumbersHeld, Source
  <1>2. ASSUME NEW id \in SeenIds(p), NEW s \in SourceOf(p, id),
               pend'[p][id] = Restored(rows[id], Source(p)[s])
        PROVE  /\ s \in DOMAIN Source(p)
               /\ pend'[p][id].rev = Source(p)[s].rev
               /\ Current(p) => /\ pend'[p][id].retired = Source(p)[s].retired
                                /\ Text(pend'[p][id]) = Text(Source(p)[s])
    <2>1. s \in DOMAIN Source(p) /\ Source(p)[s].cls = TableAt(p)
          /\ <<id, Source(p)[s].seq>> \in op[p].seen /\ id \in DOMAIN rows
      BY DEF SourceOf, SnapRows, InTable, SeenIds
    <2>2. rows[id] \in Row /\ Source(p)[s] \in Row
      BY <1>1, <2>1 DEF IsRows
    <2>3. /\ pend'[p][id].rev = Source(p)[s].rev /\ pend'[p][id].art = Source(p)[s].art
          /\ pend'[p][id].retired = Source(p)[s].retired
          /\ pend'[p][id].cls = rows[id].cls /\ pend'[p][id].seq = rows[id].seq
      BY <1>2, <2>2 DEF Restored, Row
    <2>4. Current(p) => rows[id].cls = TableAt(p) /\ rows[id].seq = Source(p)[s].seq
      <3>1. op[p].pc = "mwrite" /\ Reconciling(p)
        BY AfterWriteTable DEF Preserving, Careful
      <3> DEFINE e == <<id, Source(p)[s].seq>>
      <3>2. e \in op[p].seen /\ e[1] = id /\ e[2] = Source(p)[s].seq /\ e[1] \in DOMAIN rows
        BY <2>1
      <3> HIDE DEF e
      <3>3. Current(p) => rows[e[1]].cls = TableAt(p) /\ rows[e[1]].seq = e[2]
        BY <3>1, <3>2 DEF Reconciling, Materialising
      <3> QED
        BY <3>2, <3>3
    <2> QED
      BY <2>1, <2>3, <2>4 DEF Text
  <1>3. ASSUME NEW id \in SeenIds(p),
               pend'[p][id] = [rows[id] EXCEPT !.retired = op[p].src]
        PROVE  /\ pend'[p][id].rev = rows[id].rev /\ id \in DOMAIN rows
               /\ pend'[p][id].retired # 0
    BY <1>1, <1>3 DEF SeenIds, IsRows, Row
  <1>4. ASSUME NEW id \in DOMAIN Reinserted(p) \ SeenIds(p)
        PROVE  /\ id[1] # 0
               /\ \E s \in DOMAIN Source(p) : pend'[p][id] = Source(p)[s]
    <2>1. pend'[p][id] = Reinserted(p)[id]
      BY WhatWriteTablePends
    <2>2. PICK s \in Unmatched(p) : id = <<op[p].N, TableAt(p), Source(p)[s].seq>>
                                    /\ Reinserted(p)[id] = Source(p)[s]
      BY WhatReconcileWrites
    <2>3. id[1] = op[p].N
      BY <2>2
    <2> QED
      BY <1>1, <2>1, <2>2, <2>3 DEF Unmatched, SnapRows, InTable
  <1>5. ASSUME NEW s \in DOMAIN Source(p), NEW r, r.rev = Source(p)[s].rev
        PROVE  Archived(r)
    BY <1>1, <1>5 DEF Archived, Source
  <1>6. ASSUME NEW id \in DOMAIN pend'[p]
        PROVE  /\ id[1] = 0 => id[3] <= writes
               /\ Current(p) => \/ Archived(pend'[p][id])
                                \/ id \in DOMAIN rows /\ pend'[p][id].rev = rows[id].rev
               /\ Current(p) /\ pend'[p][id].retired = 0 =>
                        Text(pend'[p][id]) \in LiveTexts(Source(p))
    <2>1. CASE id \in SeenIds(p)
      <3>1. id[1] = 0 => id[3] <= writes
        BY <2>1, Marks DEF SeenIds
      <3>2. \/ \E s \in SourceOf(p, id) : pend'[p][id] = Restored(rows[id], Source(p)[s])
            \/ pend'[p][id] = [rows[id] EXCEPT !.retired = op[p].src]
        <4>1. pend'[p][id] = Reconciled(p)[id]
          BY <2>1, WhatWriteTablePends
        <4>2. \/ \E s \in SourceOf(p, id) : Reconciled(p)[id] = Restored(rows[id], Source(p)[s])
              \/ Reconciled(p)[id] = [rows[id] EXCEPT !.retired = op[p].src]
          BY <2>1, WhatReconcileWrites
        <4> QED
          BY <4>1, <4>2
      <3>3. CASE \E s \in SourceOf(p, id) : pend'[p][id] = Restored(rows[id], Source(p)[s])
        BY <1>2, <1>5, <2>1, <3>1, <3>3 DEF LiveTexts, Live
      <3>4. CASE pend'[p][id] = [rows[id] EXCEPT !.retired = op[p].src]
        BY <1>3, <2>1, <3>1, <3>4
      <3> QED
        BY <3>2, <3>3, <3>4
    <2>2. CASE id \in DOMAIN Reinserted(p) \ SeenIds(p)
      <3>1. PICK s \in DOMAIN Source(p) : pend'[p][id] = Source(p)[s]
        BY <1>4, <2>2
      <3> QED
        BY <1>4, <1>5, <2>2, <3>1 DEF LiveTexts, Live
    <2>3. CASE id \in DOMAIN pend[p] \ (SeenIds(p) \cup DOMAIN Reinserted(p))
      <3>1. pend'[p][id] = pend[p][id] /\ op[p].pc = "mwrite"
        BY <2>3, WhatWriteTablePends, AfterWriteTable
      <3> QED
        BY <2>3, <3>1, Marks DEF Preserving, Careful, Kept, Reconciling, Materialising
    <2> QED
      BY <2>1, <2>2, <2>3, WhatWriteTablePends
  <1>7. ASSUME Current(p), NEW id \in DOMAIN rows, rows[id].cls \in Done(p) \cup {TableAt(p)}
        PROVE  id \in DOMAIN pend'[p] \/ Late(p, rows[id])
    <2>1. CASE rows[id].cls \in Done(p)
      BY <1>7, <2>1, WhatWriteTablePends, AfterWriteTable
         DEF Preserving, Careful, Reconciling, Materialising
    <2>2. CASE rows[id].cls = TableAt(p)
      <3>1. <<id, rows[id].seq>> \in op[p].seen \/ Late(p, rows[id])
        BY <1>7, <2>2, AfterWriteTable DEF Preserving, Careful, Reconciling, Materialising, InTable
      <3>2. <<id, rows[id].seq>> \in op[p].seen => id \in SeenIds(p)
        <4> SUFFICES ASSUME <<id, rows[id].seq>> \in op[p].seen PROVE id \in SeenIds(p)
          OBVIOUS
        <4>1. <<id, rows[id].seq>>[1] = id
          OBVIOUS
        <4> QED
          BY <4>1 DEF SeenIds
      <3> QED
        BY <3>1, <3>2, WhatWriteTablePends
    <2> QED
      BY <1>7, <2>1, <2>2
  <1>8. Careful(p)'
    <2>1. /\ Current(p)' = Current(p) /\ LiveTexts(Source(p))' = LiveTexts(Source(p))
          /\ \A r : Archived(r)' = Archived(r) /\ Late(p, r)' = Late(p, r)
      BY AfterWriteTable DEF Current, LiveTexts, Live, Text, Archived, Late
    <2>2. Kept(p)'
      BY <1>6, <2>1, AfterWriteTable DEF Kept
    <2>3. Saved(p)'
      BY <2>1, AfterWriteTable DEF Preserving, Careful, Saved, Materialising
    <2>4. Reconciling(p)'
      <3>1. op'[p].pc \in {"mread", "minsert"}
        BY AfterWriteTable
      <3> QED
        BY <1>6, <1>7, <2>1, <3>1, AfterWriteTable DEF Reconciling, Text
    <2>5. Clean(p)' /\ Covered(p)'
      BY AfterWriteTable DEF Clean, Covered, Cutting
    <2> QED
      BY <2>2, <2>3, <2>4, <2>5 DEF Careful
  <1>9. /\ op'[p].mark <= writes /\ \A e \in op'[p].seen : e[1][1] = 0 => e[1][3] <= writes
        /\ \A q \in Proc \ {p} : snap'[q] = snap[q] /\ pend'[q] = pend[q]
        /\ op' = [op EXCEPT ![p] = op'[p]] /\ UNCHANGED <<version, versions, rows, writes>>
    BY AfterWriteTable, WhatWriteTablePends, Marks
  <1>10. \A id \in DOMAIN pend'[p] : id[1] = 0 => id[3] <= writes
    BY <1>6
  <1> DEFINE o == op'[p]
  <1>11. /\ op' = [op EXCEPT ![p] = o] /\ o.mark <= writes
         /\ \A e \in o.seen : e[1][1] = 0 => e[1][3] <= writes
    BY <1>9
  <1> HIDE DEF o
  <1> QED
    BY <1>8, <1>9, <1>10, <1>11, Marks, PreservingLocal

(* Both commits.  The committer's rows bring archived texts or keep their   *)
(* own; whoever else took the same number will never commit under it.       *)
LEMMA PreservingCommit ==
    ASSUME Inv, Preserving, NEW p \in Proc, HoldsNumber(p),
           NEW o, op' = [op EXCEPT ![p] = o], NEW e,
           versions' = Plus(versions, op[p].N, e), version' = op[p].N + 1,
           rows' = Over(pend[p], rows), writes' = writes,
           pend' = [pend EXCEPT ![p] = NoRows],
           \A q \in Proc \ {p} : snap'[q] = snap[q],
           o.mark <= writes, \A x \in o.seen : x[1][1] = 0 => x[1][3] <= writes,
           o.pc \in {"idle", "between"},
           o.pc = "between" => /\ op[p].pc = "commit" /\ e.snap = snap[p]
                               /\ o.mark = op[p].mark
    PROVE  Preserving'
PROOF
  <1>1. /\ op[p].N = version /\ version \in Nat \ {0} /\ version' = version + 1
        /\ version \notin DOMAIN versions /\ Current(p)
    BY DEF Inv, TypeOK, NumbersHeld, Numbering, Current
  <1>2. /\ op'[p] = o /\ pend'[p] = NoRows
        /\ \A q \in Proc \ {p} : op'[q] = op[q] /\ pend'[q] = pend[q] /\ snap'[q] = snap[q]
    BY DEF Inv, TypeOK
  <1>3. /\ DOMAIN versions' = DOMAIN versions \cup {version} /\ versions'[version] = e
        /\ \A v \in DOMAIN versions : versions'[v] = versions[v]
    BY <1>1 DEF Plus, Over
  <1>4. \A r : Archived(r) => Archived(r)'
    BY <1>3 DEF Archived
  <1>5. /\ DOMAIN rows' = DOMAIN rows \cup DOMAIN pend[p]
        /\ \A id \in DOMAIN pend[p] : rows'[id] = pend[p][id]
        /\ \A id \in DOMAIN rows \ DOMAIN pend[p] : rows'[id] = rows[id]
    BY DEF Over
  (* What a commit leaves in a row is archived, or was there before. *)
  <1>6. \A id \in DOMAIN rows' :
            \/ Archived(rows[id])'
            \/ id \in DOMAIN rows /\ rows'[id].rev = rows[id].rev
    <2> TAKE id \in DOMAIN rows'
    <2>1. CASE id \in DOMAIN pend[p]
      <3>1. \/ Archived(pend[p][id])
            \/ id \in DOMAIN rows /\ pend[p][id].rev = rows[id].rev
        BY <1>1, <2>1 DEF Preserving, Careful, Kept
      <3>2. rows'[id] = pend[p][id]
        BY <1>5, <2>1
      <3>3. Archived(pend[p][id]) => Archived(rows[id])'
        BY <1>3, <3>2 DEF Archived
      <3> QED
        BY <1>5, <2>1, <3>1, <3>2, <3>3
    <2>2. CASE id \notin DOMAIN pend[p]
      BY <1>5, <2>2
    <2> QED
      BY <2>1, <2>2
  <1>7. ASSUME NEW id \in DOMAIN rows', id \in DOMAIN rows, rows'[id].rev = rows[id].rev,
               Archived(rows[id])
        PROVE  Archived(rows[id])'
    BY <1>3, <1>7 DEF Archived
  <1>8. NewIsNew'
    <2>1. \A id \in DOMAIN rows \cup DOMAIN pend[p] : id[1] = 0 => id[3] <= writes
      BY DEF Preserving, NewIsNew
    <2>2. \A q \in Proc : /\ op'[q].mark <= writes
                          /\ \A x \in op'[q].seen : x[1][1] = 0 => x[1][3] <= writes
                          /\ \A id \in DOMAIN pend'[q] : id[1] = 0 => id[3] <= writes
      BY <1>2 DEF Preserving, NewIsNew, NoRows
    <2> QED
      BY <1>5, <2>1, <2>2 DEF NewIsNew
  <1>9. ASSUME NEW q \in Proc \ {p} PROVE Careful(q)'
    <2>1. op[q].pc # "idle" => ~Current(q)'
      BY <1>1, <1>2 DEF Current, Inv, TypeOK, NumbersHeld, Request
    <2>2. op[q].pc = "idle" => DOMAIN pend[q] = {}
      BY DEF Preserving, Careful, Clean
    <2>3. Saved(q)'
      <3> SUFFICES ASSUME op[q].pc \in {"between"} \cup Materialising, NEW id \in DOMAIN rows'
                   PROVE  Late(q, rows[id])' \/ Archived(rows[id])'
        BY <1>2 DEF Saved
      <3>1. CASE Archived(rows[id])'
        BY <3>1
      <3>2. CASE id \in DOMAIN rows /\ rows'[id].rev = rows[id].rev
        <4>1. Late(q, rows[id]) \/ Archived(rows[id])
          BY <3>2 DEF Preserving, Careful, Saved
        <4> QED
          BY <1>2, <1>7, <3>2, <4>1 DEF Late
      <3> QED
        BY <1>6, <3>1, <3>2
    <2>4. Clean(q)'
      BY <1>2 DEF Preserving, Careful, Clean
    <2>5. Covered(q)' /\ Kept(q)' /\ Reconciling(q)'
      BY <1>2, <2>1, <2>2 DEF Covered, Kept, Reconciling, Cutting, Materialising
    <2> QED
      BY <2>3, <2>4, <2>5 DEF Careful
  <1>10. Careful(p)'
    <2>1. Saved(p)'
      <3> SUFFICES ASSUME o.pc = "between", NEW id \in DOMAIN rows'
                   PROVE  Late(p, rows[id])' \/ Archived(rows[id])'
        BY <1>2 DEF Saved, Materialising
      <3>1. CASE Archived(rows[id])'
        BY <3>1
      <3>2. CASE id \in DOMAIN rows /\ rows'[id].rev = rows[id].rev
        <4>1. rows[id].cls \in Done(p)
          BY <3>2 DEF Done, Inv, TypeOK, IsRows, Row
        <4>2. \/ Late(p, rows[id])
              \/ id \in DOMAIN snap[p] /\ snap[p][id].rev = rows[id].rev
          BY <1>1, <3>2, <4>1 DEF Preserving, Careful, Covered, Cutting
        <4> QED
          BY <1>2, <1>3, <3>2, <4>2 DEF Late, Archived
      <3> QED
        BY <1>6, <3>1, <3>2
    <2> QED
      BY <1>2, <2>1 DEF Careful, Clean, Covered, Kept, Reconciling, Cutting, Materialising, NoRows
  <1> QED
    BY <1>8, <1>9, <1>10 DEF Preserving

LEMMA PreservingCommitCut ==
    ASSUME Inv, Preserving, NEW p \in Proc, CommitCut(p)
    PROVE  Preserving'
PROOF
  <1> DEFINE o == IF op[p].kind = "cut" THEN Idle ELSE [op[p] EXCEPT !.pc = "between"]
             e == [snap |-> snap[p], from |-> 0]
  <1>1. op[p] \in Request /\ DOMAIN snap = Proc
    BY Mine
  <1>2. \/ o.pc = "idle" /\ o.mark = Idle.mark /\ o.seen = Idle.seen
        \/ o.pc = "between" /\ o.mark = op[p].mark /\ o.seen = op[p].seen
    <2>1. CASE op[p].kind = "cut"
      BY <2>1 DEF Idle
    <2>2. CASE op[p].kind # "cut"
      <3> DEFINE x == [op[p] EXCEPT !.pc = "between"]
      <3>1. x.pc = "between" /\ x.mark = op[p].mark /\ x.seen = op[p].seen
        BY <1>1 DEF Request
      <3>2. o = x
        BY <2>2
      <3> QED
        BY <3>1, <3>2
    <2> QED
      BY <2>1, <2>2
  <1>3. e.snap = snap[p]
    OBVIOUS
  <1>4. /\ op' = [op EXCEPT ![p] = o] /\ versions' = Plus(versions, op[p].N, e)
        /\ version' = op[p].N + 1 /\ rows' = Over(pend[p], rows) /\ writes' = writes
        /\ pend' = [pend EXCEPT ![p] = NoRows] /\ op[p].pc = "commit" /\ HoldsNumber(p)
        /\ \A q \in Proc \ {p} : snap'[q] = snap[q]
    BY DEF CommitCut, Step, HoldsNumber
  <1> HIDE DEF o, e
  <1>5. o.mark <= writes /\ \A x \in o.seen : x[1][1] = 0 => x[1][3] <= writes
    BY <1>2, Marks
  <1> QED
    BY <1>2, <1>3, <1>4, <1>5, PreservingCommit

LEMMA PreservingCommitRestore ==
    ASSUME Inv, Preserving, NEW p \in Proc, CommitRestore(p)
    PROVE  Preserving'
PROOF
  <1> DEFINE e == [snap |-> Source(p), from |-> op[p].src]
             o == Idle
  <1>1. /\ op' = [op EXCEPT ![p] = o] /\ versions' = Plus(versions, op[p].N, e)
        /\ version' = op[p].N + 1 /\ rows' = Over(pend[p], rows) /\ writes' = writes
        /\ pend' = [pend EXCEPT ![p] = NoRows] /\ op[p].pc = "mcommit" /\ HoldsNumber(p)
        /\ \A q \in Proc \ {p} : snap'[q] = snap[q]
    BY DEF CommitRestore, Step, HoldsNumber
  <1>2. /\ o.pc = "idle" /\ o.mark <= writes
        /\ \A x \in o.seen : x[1][1] = 0 => x[1][3] <= writes
    BY Marks DEF Idle
  <1> HIDE DEF e, o
  <1> QED
    BY <1>1, <1>2, PreservingCommit

LEMMA PreservingStep == Inv /\ Preserving /\ [Next]_vars => Preserving'
PROOF
  <1> SUFFICES ASSUME Inv, Preserving, [Next]_vars PROVE Preserving'
    OBVIOUS
  <1>1. CASE Write
    BY <1>1, PreservingWrite
  <1>2. ASSUME NEW p \in Proc, Begin(p) PROVE Preserving'
    <2>1. CASE \E carry \in SUBSET Prunable : BeginCut(p, carry)
      <3>1. PICK carry \in SUBSET Prunable : BeginCut(p, carry)
        BY <2>1
      <3> DEFINE o == [Idle EXCEPT !.kind = "cut", !.pc = "read", !.N = version,
                                   !.carry = carry, !.mark = writes]
      <3>2. o.pc = "read" /\ o.N = version /\ o.mark = writes /\ o.i = 1 /\ o.seen = {}
        BY DEF Idle
      <3>3. /\ op[p].pc = "idle" /\ Step(p, o)
            /\ UNCHANGED <<version, versions, rows, writes, snap, pend>>
        BY <3>1 DEF BeginCut
      <3> HIDE DEF o
      <3> QED
        BY <3>2, <3>3, PreservingBegin
    <2>2. CASE \E v \in DOMAIN versions : BeginRestore(p, v)
      <3>1. PICK v \in DOMAIN versions : BeginRestore(p, v)
        BY <2>2
      <3> DEFINE o == [Idle EXCEPT !.kind = "restore", !.pc = "read", !.N = version,
                                   !.carry = Prunable, !.mark = writes, !.src = v]
      <3>2. o.pc = "read" /\ o.N = version /\ o.mark = writes /\ o.i = 1 /\ o.seen = {}
        BY DEF Idle
      <3>3. /\ op[p].pc = "idle" /\ Step(p, o)
            /\ UNCHANGED <<version, versions, rows, writes, snap, pend>>
        BY <3>1 DEF BeginRestore
      <3> HIDE DEF o
      <3> QED
        BY <3>2, <3>3, PreservingBegin
    <2> QED
      BY <1>2, <2>1, <2>2 DEF Begin
  <1>3. ASSUME NEW p \in Proc, Advance(p) PROVE Preserving'
    BY <1>3, PreservingReadTable, PreservingInsertVersion, PreservingRetireTable,
       PreservingCommitCut, PreservingBeginMaterialise, PreservingReadLive,
       PreservingWriteTable, PreservingCommitRestore, PreservingIdle
       DEF Advance, FailUnique, FailTarget, FailDeadlock
  <1>4. ASSUME NEW p \in Proc, Crash(p) PROVE Preserving'
    BY <1>4, PreservingIdle DEF Crash
  <1>5. CASE UNCHANGED vars
    <2>1. UNCHANGED <<version, versions, rows, writes, op, snap, pend>>
      BY <1>5 DEF vars
    <2>2. NewIsNew'
      BY <2>1 DEF Preserving, NewIsNew
    <2>3. ASSUME NEW q \in Proc PROVE Careful(q)'
      BY <2>1, Frame DEF Preserving
    <2> QED
      BY <2>2, <2>3 DEF Preserving
  <1> QED
    BY <1>1, <1>2, <1>3, <1>4, <1>5 DEF Next

LEMMA PreservingInvariance == Spec => [](Inv /\ Preserving)
PROOF
  <1>1. Init => Inv /\ Preserving
    BY InitInv, InitPreserving
  <1>2. Inv /\ Preserving /\ [Next]_vars => (Inv /\ Preserving)'
    BY NextStep, PreservingStep
  <1> QED
    BY <1>1, <1>2, PTL DEF Spec

(* A committer's number is current, and it has all its tables behind it. *)
LEMMA AtCommit ==
    ASSUME Inv, NEW p \in Proc, op[p].pc \in {"commit", "mcommit"}
    PROVE  Current(p) /\ \A id \in DOMAIN rows : rows[id].cls \in Done(p)
  BY DEF Inv, TypeOK, NumbersHeld, HoldsNumber, Current, Done, IsRows, Row

(* The texts a restore replaces were in some version already or were        *)
(* written after the restore was asked for: its checkpoint has read every   *)
(* table, and no cut or restore can have committed since without making it  *)
(* fail on the number (versioning.ts:757-772, 815-841).                     *)
THEOREM RestoreLosesLittle == Spec => RestoreLosesOnlyLateWrites
PROOF
  <1>1. Inv /\ Preserving /\ [Next]_vars =>
            [\A p \in Proc : CommitRestore(p) =>
                \A id \in DOMAIN rows :
                    \/ rows'[id].rev = rows[id].rev
                    \/ rows[id].rev > op[p].mark
                    \/ Archived(rows[id])]_vars
    BY DEF Preserving, Careful, Saved, Late, CommitRestore, Materialising
  <1> QED
    BY <1>1, PreservingInvariance, PTL DEF Spec, RestoreLosesOnlyLateWrites

(* What a cut retires and its frozen version lacks was written after the    *)
(* cut was asked for (versioning.ts:286-317).                               *)
THEOREM CutStrandsLittle == Spec => CutStrandsOnlyLateWrites
PROOF
  <1>1. Inv /\ Preserving /\ [Next]_vars =>
            [\A p \in Proc : CommitCut(p) =>
                \A id \in DOMAIN rows : rows'[id].retired # rows[id].retired
                    => id \in DOMAIN snap[p] \/ rows[id].rev > op[p].mark]_vars
    BY AtCommit DEF Preserving, Careful, Covered, Cutting, Late, CommitCut
  <1> QED
    BY <1>1, PreservingInvariance, PTL DEF Spec, CutStrandsOnlyLateWrites

(* Whatever is live after a restore is in the version restored or was       *)
(* written after the restore was asked for: reconcile() passes over every   *)
(* row it has read (versioning.ts:613-755).                                 *)
THEOREM RestoreLeavesLittle == Spec => RestoreLeavesNothingStale
PROOF
  <1>1. Inv /\ Preserving /\ [Next]_vars =>
            [\A p \in Proc : CommitRestore(p) =>
                \A id \in Live(rows') : \/ Text(rows'[id]) \in LiveTexts(Source(p))
                                        \/ rows'[id].rev > op[p].mark]_vars
    <2> SUFFICES ASSUME Inv, Preserving, NEW p \in Proc, CommitRestore(p), NEW id \in Live(rows')
                 PROVE  \/ Text(rows'[id]) \in LiveTexts(Source(p))
                        \/ rows'[id].rev > op[p].mark
      OBVIOUS
    <2>1. op[p].pc = "mcommit" /\ rows' = Over(pend[p], rows)
      BY DEF CommitRestore
    <2>2. CASE id \in DOMAIN pend[p]
      <3>1. rows'[id] = pend[p][id] /\ pend[p][id].retired = 0
        BY <2>1, <2>2 DEF Over, Live
      <3>2. Text(pend[p][id]) \in LiveTexts(Source(p))
        BY <2>1, <2>2, <3>1, AtCommit DEF Preserving, Careful, Reconciling, Materialising
      <3> QED
        BY <3>1, <3>2
    <2>3. CASE id \notin DOMAIN pend[p]
      <3>1. id \in DOMAIN rows /\ rows'[id] = rows[id]
        BY <2>1, <2>3 DEF Over, Live
      <3> QED
        BY <2>1, <2>3, <3>1, AtCommit DEF Preserving, Careful, Reconciling, Materialising, Late
    <2> QED
      BY <2>2, <2>3
  <1> QED
    BY <1>1, PreservingInvariance, PTL DEF Spec, RestoreLeavesNothingStale

-----------------------------------------------------------------------------
(* When nobody writes beside a cut or a restore                             *)
(*                                                                          *)
(* No row changes then while a request's number is current, so nothing is   *)
(* late, a snapshot is the tables as they are, and what a restore has       *)
(* pending is the source, slot by slot.                                     *)

(* No request has been overtaken by a write. *)
Unhurried == \A p \in Proc : op[p].pc # "idle" => op[p].mark = writes

(* A target is there, and only a comment has one, which is no comment.      *)
Hung(id, on, f) == on # NoTarget => /\ id[2] \in Hanging /\ on[2] \notin Hanging
                                    /\ on \in DOMAIN f

(* Rows as they can be before version N with w writes made: an id names the *)
(* table and was issued before, and (doc_id, seq) is unique.                *)
Fit(f, N, w) ==
    /\ \A id \in DOMAIN f : /\ f[id].cls = id[2] /\ f[id].rev <= w
                            /\ id[1] < N /\ (id[1] = 0 => id[3] <= w)
                            /\ id # NoTarget /\ Hung(id, f[id].on, f)
    /\ \A a, b \in DOMAIN f : SameSlot(f[a], f[b]) => a = b

(* What two sets of rows share has the same slot in both. *)
Agree(f, g) == \A id \in DOMAIN f \cap DOMAIN g : SameSlot(f[id], g[id])

Placed == /\ Fit(rows, version, writes)
          /\ \A v \in DOMAIN versions : /\ Fit(versions[v].snap, version, writes)
                                        /\ Agree(versions[v].snap, rows)

Shot(p) ==
    /\ op[p].pc \notin Cutting => DOMAIN snap[p] = {}
    /\ Current(p) => \A id \in DOMAIN snap[p] : id \in DOMAIN rows /\ snap[p][id] = rows[id]

(* A written row g[id] has the slot row id has in f, or one that is free    *)
(* there under an id of the number N.                                       *)
Fills(g, f, N) == \A id \in DOMAIN g :
    /\ \/ id \in DOMAIN f /\ SameSlot(g[id], f[id])
       \/ /\ id = <<N, g[id].cls, g[id].seq>>
          /\ \A b \in DOMAIN f : ~SameSlot(f[b], g[id])
    /\ Hung(id, g[id].on, f)

(* A pending row that stands for row s of the source. *)
StandsFor(r, s) == /\ Text(r) = Text(s) /\ r.retired = s.retired
                   /\ Unwritten = {} => r.on = s.on

Rebuilt(p) == op[p].pc \in Materialising /\ Current(p) =>
    /\ \A s \in DOMAIN Source(p) : Source(p)[s].cls \in Done(p) =>
            \E id \in DOMAIN pend[p] : StandsFor(pend[p][id], Source(p)[s])
    /\ op[p].pc = "mwrite" => \A e \in op[p].seen : e[1] \in DOMAIN rows

Orderly(p) == /\ Shot(p) /\ Rebuilt(p)
              /\ Current(p) => Fills(pend[p], rows, op[p].N)

Settled == Unhurried /\ Placed /\ \A p \in Proc : Orderly(p)

(* What keeps rows fit: time passing, a new row in a free slot, a new text, *)
(* a row leaving with what hangs on it, and a commit.                       *)
LEMMA FitGrows ==
    ASSUME NEW f, NEW N \in Nat, NEW w \in Nat, NEW M \in Nat, NEW u \in Nat,
           N <= M, w <= u, IsRows(f), Fit(f, N, w)
    PROVE  Fit(f, M, u)
  BY DEF Fit, IsRows, RowId, Row

LEMMA FitPlus ==
    ASSUME NEW f, NEW N \in Nat \ {0}, NEW w \in Nat, IsRows(f), Fit(f, N, w),
           NEW c \in TableSet, NEW e \in Row, NEW x, x = <<0, c, w + 1>>,
           e.cls = c, e.rev = w + 1, Hung(x, e.on, f),
           \A id \in DOMAIN f : ~SameSlot(f[id], e)
    PROVE  Fit(Plus(f, x, e), N, w + 1)
PROOF
  <1> DEFINE g == Plus(f, x, e)
  <1>1. x[1] = 0 /\ x[2] = c /\ x[3] = w + 1 /\ x \notin DOMAIN f /\ x # NoTarget
    BY DEF Fit, IsRows, RowId, NoTarget
  <1>2. /\ DOMAIN g = DOMAIN f \cup {x} /\ g[x] = e
        /\ \A id \in DOMAIN f : g[id] = f[id]
    BY <1>1 DEF Plus, Over
  <1>3. Fit(f, N, w + 1)
    BY FitGrows
  <1>4. \A id \in DOMAIN f : ~SameSlot(e, f[id])
    BY DEF SameSlot
  <1> HIDE DEF g
  <1>5. \A id \in DOMAIN g : Hung(id, g[id].on, g)
    BY <1>2 DEF Fit, Hung
  <1>6. \A id \in DOMAIN g : /\ g[id].cls = id[2] /\ g[id].rev <= w + 1
                             /\ id[1] < N /\ (id[1] = 0 => id[3] <= w + 1)
                             /\ id # NoTarget
    BY <1>1, <1>2, <1>3 DEF Fit
  <1>7. \A a, b \in DOMAIN g : SameSlot(g[a], g[b]) => a = b
    BY <1>2, <1>3, <1>4 DEF Fit
  <1>8. Fit(g, N, w + 1)
    BY <1>5, <1>6, <1>7 DEF Fit
  <1> QED
    BY <1>8 DEF g

LEMMA FitEdit ==
    ASSUME NEW f, NEW N \in Nat, NEW w \in Nat, IsRows(f), Fit(f, N, w), NEW x \in DOMAIN f,
           NEW g, DOMAIN g = DOMAIN f, \A id \in DOMAIN f \ {x} : g[id] = f[id],
           g[x].cls = f[x].cls, g[x].seq = f[x].seq, g[x].on = f[x].on, g[x].rev = w + 1
    PROVE  Fit(g, N, w + 1)
PROOF
  <1>1. Fit(f, N, w + 1)
    BY FitGrows
  <1>2. \A id \in DOMAIN g : /\ g[id].cls = f[id].cls /\ g[id].seq = f[id].seq
                             /\ g[id].on = f[id].on /\ g[id].rev <= w + 1
    BY <1>1 DEF Fit
  <1> QED
    BY <1>1, <1>2 DEF Fit, Hung, SameSlot

LEMMA FitWithout ==
    ASSUME NEW f, NEW N, NEW w, Fit(f, N, w), NEW S, NEW g,
           DOMAIN g = DOMAIN f \ S, \A id \in DOMAIN g : g[id] = f[id],
           \A id \in DOMAIN f \ S : f[id].on \notin S
    PROVE  Fit(g, N, w)
  BY DEF Fit, Hung

LEMMA FitSame ==
    ASSUME NEW f, NEW N, NEW w, Fit(f, N, w), NEW g, DOMAIN g = DOMAIN f,
           \A id \in DOMAIN g : g[id] = f[id]
    PROVE  Fit(g, N, w)
  BY DEF Fit, Hung

LEMMA FitOver ==
    ASSUME NEW f, NEW g, NEW N \in Nat \ {0}, NEW w \in Nat, IsRows(f), IsRows(g),
           Fit(f, N, w), Fills(g, f, N), \A id \in DOMAIN g : g[id].rev <= w
    PROVE  Fit(Over(g, f), N + 1, w)
PROOF
  <1> DEFINE h == Over(g, f)
  <1>1. /\ DOMAIN h = DOMAIN f \cup DOMAIN g
        /\ \A id \in DOMAIN g : h[id] = g[id]
        /\ \A id \in DOMAIN f \ DOMAIN g : h[id] = f[id]
    BY DEF Over
  <1> HIDE DEF h
  <1>2. ASSUME NEW id \in DOMAIN g
        PROVE  /\ g[id].cls = id[2] /\ id[1] < N + 1 /\ (id[1] = 0 => id[3] <= w)
               /\ id # NoTarget
    <2>1. CASE id \in DOMAIN f /\ SameSlot(g[id], f[id])
      BY <2>1 DEF Fit, SameSlot, IsRows, RowId
    <2>2. CASE id = <<N, g[id].cls, g[id].seq>>
      <3>1. id[1] = N /\ id[2] = g[id].cls
        BY <2>2
      <3> QED
        BY <3>1 DEF NoTarget
    <2> QED
      BY <2>1, <2>2 DEF Fills
  <1>3. \A id \in DOMAIN h : /\ h[id].cls = id[2] /\ h[id].rev <= w
                             /\ id[1] < N + 1 /\ (id[1] = 0 => id[3] <= w)
                             /\ id # NoTarget
    BY <1>1, <1>2 DEF Fit, IsRows, RowId
  <1>4. \A id \in DOMAIN h : Hung(id, h[id].on, h)
    BY <1>1 DEF Fit, Fills, Hung
  (* A slot of the written rows is the row's own or a free one. *)
  <1>5. ASSUME NEW a \in DOMAIN g, NEW b \in DOMAIN f, SameSlot(g[a], f[b])
        PROVE  a = b
    <2>1. SameSlot(f[b], g[a])
      BY <1>5 DEF SameSlot
    <2>2. a \in DOMAIN f /\ SameSlot(g[a], f[a])
      BY <2>1 DEF Fills
    <2>3. SameSlot(f[a], f[b])
      BY <1>5, <2>2 DEF SameSlot
    <2> QED
      BY <2>2, <2>3 DEF Fit
  <1>6. ASSUME NEW a \in DOMAIN g, NEW b \in DOMAIN g, SameSlot(g[a], g[b])
        PROVE  a = b
    <2>1. CASE b \in DOMAIN f /\ SameSlot(g[b], f[b])
      <3>1. SameSlot(g[a], f[b])
        BY <1>6, <2>1 DEF SameSlot
      <3> QED
        BY <1>5, <2>1, <3>1
    <2>2. CASE a \in DOMAIN f /\ SameSlot(g[a], f[a])
      <3>1. SameSlot(g[b], f[a])
        BY <1>6, <2>2 DEF SameSlot
      <3> QED
        BY <1>5, <2>2, <3>1
    <2>3. CASE a = <<N, g[a].cls, g[a].seq>> /\ b = <<N, g[b].cls, g[b].seq>>
      BY <1>6, <2>3 DEF SameSlot
    <2> QED
      BY <2>1, <2>2, <2>3 DEF Fills
  <1>7. ASSUME NEW a \in DOMAIN h, NEW b \in DOMAIN h, SameSlot(h[a], h[b])
        PROVE  a = b
    <2>1. SameSlot(h[b], h[a])
      BY <1>7 DEF SameSlot
    <2>2. CASE a \in DOMAIN g /\ b \in DOMAIN g
      BY <1>1, <1>6, <1>7, <2>2
    <2>3. CASE a \in DOMAIN g /\ b \notin DOMAIN g
      BY <1>1, <1>5, <1>7, <2>3
    <2>4. CASE a \notin DOMAIN g /\ b \in DOMAIN g
      BY <1>1, <1>5, <2>1, <2>4
    <2>5. CASE a \notin DOMAIN g /\ b \notin DOMAIN g
      BY <1>1, <1>7, <2>5 DEF Fit
    <2> QED
      BY <2>2, <2>3, <2>4, <2>5
  <1>8. Fit(h, N + 1, w)
    BY <1>3, <1>4, <1>7 DEF Fit
  <1> QED
    BY <1>8 DEF h

(* A commit keeps the agreement with what was there before it. *)
LEMMA AgreeOver ==
    ASSUME NEW s, NEW f, NEW g, NEW N \in Nat, NEW w, IsRows(s), IsRows(f), IsRows(g), Fit(s, N, w),
           Fills(g, f, N), Agree(s, f)
    PROVE  Agree(s, Over(g, f))
PROOF
  <1> SUFFICES ASSUME NEW id \in DOMAIN s \cap (DOMAIN f \cup DOMAIN g)
               PROVE  SameSlot(s[id], Over(g, f)[id])
    BY DEF Agree, Over
  <1>1. id[1] \in Nat /\ id[1] < N
    BY DEF Fit, IsRows, RowId
  <1>2. CASE id \in DOMAIN g
    <2>1. id # <<N, g[id].cls, g[id].seq>>
      <3> SUFFICES ASSUME id = <<N, g[id].cls, g[id].seq>> PROVE FALSE
        OBVIOUS
      <3>1. id[1] = N
        OBVIOUS
      <3> QED
        BY <1>1, <3>1
    <2>2. id \in DOMAIN f /\ SameSlot(g[id], f[id])
      BY <1>2, <2>1 DEF Fills
    <2>3. SameSlot(s[id], f[id])
      BY <2>2 DEF Agree
    <2> QED
      BY <1>2, <2>2, <2>3 DEF Over, SameSlot
  <1>3. CASE id \notin DOMAIN g
    BY <1>3 DEF Over, Agree
  <1> QED
    BY <1>2, <1>3

LEMMA InitSettled == Init => Settled
  BY DEF Init, Settled, Unhurried, Placed, Fit, Agree, Orderly, Shot, Rebuilt, Fills, Hung,
         NoRows, Idle, Cutting, Materialising

(* Nobody writes but when everyone is idle: then only the tables change.    *)
LEMMA SettledIdle ==
    ASSUME Settled, Preserving, \A p \in Proc : op[p].pc = "idle",
           UNCHANGED <<op, snap, pend>>, Placed'
    PROVE  Settled'
PROOF
  <1>1. ASSUME NEW p \in Proc PROVE Orderly(p)'
    <2>1. op'[p].pc = "idle" /\ DOMAIN pend'[p] = {} /\ DOMAIN snap'[p] = {}
      BY DEF Preserving, Careful, Clean, Settled, Orderly, Shot, Cutting
    <2> QED
      BY <2>1 DEF Orderly, Shot, Rebuilt, Fills, Cutting, Materialising
  <1>2. Unhurried'
    BY DEF Unhurried
  <1> QED
    BY <1>1, <1>2 DEF Settled

LEMMA PlacedCreate ==
    ASSUME Inv, Placed, NEW c \in TableSet, NEW on \in DOMAIN rows \cup {NoTarget}, Create(c, on)
    PROVE  Placed'
PROOF
  <1>1. PICK s \in 1 .. writes + 1 :
           /\ IsNextSeq(c, s)
           /\ IF c \in Hanging THEN on \in DOMAIN rows /\ rows[on].cls \notin Hanging
              ELSE on = NoTarget
           /\ rows' = Plus(rows, <<0, c, writes + 1>>,
                           [cls |-> c, seq |-> s, art |-> writes + 1,
                            rev |-> writes + 1, retired |-> 0, on |-> on])
           /\ writes' = writes + 1 /\ UNCHANGED <<version, versions>>
    BY DEF Create
  <1> DEFINE x == <<0, c, writes + 1>>
             e == [cls |-> c, seq |-> s, art |-> writes + 1,
                   rev |-> writes + 1, retired |-> 0, on |-> on]
  <1>2. IsRows(rows) /\ version \in Nat \ {0} /\ writes \in Nat
    BY DEF Inv, TypeOK
  <1>3. on \in Target
    BY <1>2 DEF IsRows, RowId, Target, NoTarget
  <1>4. e \in Row /\ e.cls = c /\ e.seq = s /\ e.rev = writes + 1 /\ e.on = on
    BY <1>2, <1>3 DEF Row
  <1>5. x[1] = 0 /\ x[2] = c /\ x[3] = writes + 1 /\ x = <<0, c, writes + 1>>
    OBVIOUS
  <1>6. rows' = Plus(rows, x, e)
    BY <1>1
  <1> HIDE DEF x, e
  <1>7. Hung(x, e.on, rows)
    BY <1>1, <1>4, <1>5 DEF Hung, Placed, Fit
  <1>8. \A id \in DOMAIN rows : ~SameSlot(rows[id], e)
    <2> SUFFICES ASSUME NEW id \in DOMAIN rows, SameSlot(rows[id], e) PROVE FALSE
      OBVIOUS
    <2>1. rows[id].cls = c /\ rows[id].seq = s /\ rows[id].seq \in Nat
      BY <1>2, <1>4 DEF SameSlot, IsRows, Row
    <2>2. rows[id].seq < s
      BY <1>1, <2>1 DEF IsNextSeq, InTable
    <2> QED
      BY <2>1, <2>2
  <1>9. Fit(rows', version, writes + 1)
    BY <1>2, <1>4, <1>5, <1>6, <1>7, <1>8, FitPlus DEF Placed
  <1>10. ASSUME NEW v \in DOMAIN versions
         PROVE  Fit(versions[v].snap, version, writes + 1) /\ Agree(versions[v].snap, rows')
    <2>1. IsRows(versions[v].snap) /\ Fit(versions[v].snap, version, writes)
          /\ Agree(versions[v].snap, rows)
      BY DEF Inv, TypeOK, Placed
    <2>2. Fit(versions[v].snap, version, writes + 1)
      BY <1>2, <2>1, FitGrows
    <2>3. x \notin DOMAIN versions[v].snap
      BY <1>2, <1>5, <2>1 DEF Fit, IsRows, RowId
    <2>4. DOMAIN rows' = DOMAIN rows \cup {x} /\ \A id \in DOMAIN rows \ {x} : rows'[id] = rows[id]
      BY <1>6 DEF Plus, Over
    <2> QED
      BY <2>1, <2>2, <2>3, <2>4 DEF Agree
  <1> QED
    BY <1>1, <1>9, <1>10 DEF Placed

LEMMA PlacedEdit ==
    ASSUME Inv, Placed, NEW x \in DOMAIN rows, Edit(x)
    PROVE  Placed'
PROOF
  <1>1. /\ rows' = [rows EXCEPT ![x].rev = writes + 1] /\ writes' = writes + 1
        /\ UNCHANGED <<version, versions>>
        /\ IsRows(rows) /\ version \in Nat /\ writes \in Nat
    BY DEF Edit, Inv, TypeOK
  <1>2. /\ DOMAIN rows' = DOMAIN rows /\ \A id \in DOMAIN rows \ {x} : rows'[id] = rows[id]
        /\ rows'[x].cls = rows[x].cls /\ rows'[x].seq = rows[x].seq
        /\ rows'[x].on = rows[x].on /\ rows'[x].rev = writes + 1
    BY <1>1 DEF IsRows, Row
  <1>3. Fit(rows', version, writes + 1)
    BY <1>1, <1>2, FitEdit DEF Placed
  <1>4. ASSUME NEW v \in DOMAIN versions
        PROVE  Fit(versions[v].snap, version, writes + 1) /\ Agree(versions[v].snap, rows')
    <2>1. IsRows(versions[v].snap) /\ Fit(versions[v].snap, version, writes)
          /\ Agree(versions[v].snap, rows)
      BY DEF Inv, TypeOK, Placed
    <2>2. Fit(versions[v].snap, version, writes + 1)
      BY <1>1, <2>1, FitGrows
    <2> QED
      BY <1>2, <2>1, <2>2 DEF Agree, SameSlot
  <1> QED
    BY <1>1, <1>3, <1>4 DEF Placed

(* What hangs on a deleted row goes with it, and nothing hangs on that.     *)
LEMMA PlacedDelete ==
    ASSUME Inv, Placed, NEW x \in DOMAIN rows, Delete(x)
    PROVE  Placed'
PROOF
  <1> DEFINE gone == {x} \cup {y \in DOMAIN rows : rows[y].on = x}
  <1>1. /\ rows' = Restrict(rows, DOMAIN rows \ gone)
        /\ UNCHANGED <<version, versions, writes>>
    BY DEF Delete
  <1>2. \A id \in DOMAIN rows \ gone : rows[id].on \notin gone
    <2> SUFFICES ASSUME NEW id \in DOMAIN rows \ gone, rows[id].on \in gone PROVE FALSE
      OBVIOUS
    <2>1. PICK y \in DOMAIN rows : rows[id].on = y /\ rows[y].on = x
      OBVIOUS
    <2>2. y # NoTarget /\ x # NoTarget
      BY DEF Placed, Fit
    <2> QED
      BY <2>1, <2>2 DEF Placed, Fit, Hung
  <1> HIDE DEF gone
  <1>3. DOMAIN rows' = DOMAIN rows \ gone /\ \A id \in DOMAIN rows' : rows'[id] = rows[id]
    BY <1>1 DEF Restrict
  <1>4. Fit(rows', version, writes)
    BY <1>2, <1>3, FitWithout DEF Placed
  <1> QED
    BY <1>1, <1>3, <1>4 DEF Placed, Agree

LEMMA SettledWrite ==
    ASSUME QuietWriters, Inv, Preserving, Settled, Write
    PROVE  Settled'
PROOF
  <1>1. /\ \A p \in Proc : op[p].pc = "idle"
        /\ UNCHANGED <<op, snap, pend>>
    BY DEF Write, Create, Edit, Delete, MayWrite
  <1>2. Placed'
    BY PlacedCreate, PlacedEdit, PlacedDelete DEF Write, Settled
  <1> QED
    BY <1>1, <1>2, SettledIdle

(* A step of p that touches no row.                                         *)
LEMMA OrderlyFrame ==
    ASSUME NEW q \in Proc, Orderly(q), UNCHANGED <<version, versions, rows>>,
           op'[q] = op[q], snap'[q] = snap[q], pend'[q] = pend[q]
    PROVE  Orderly(q)'
PROOF
  <1>1. /\ Done(q)' = Done(q) /\ Source(q)' = Source(q) /\ Current(q)' = Current(q)
    BY DEF Done, Source, Current
  <1>2. Shot(q)' /\ (Current(q) => Fills(pend[q], rows, op[q].N))'
    BY <1>1 DEF Orderly, Shot, Fills, Hung
  <1>3. Rebuilt(q)'
    BY <1>1 DEF Orderly, Rebuilt, StandsFor, Text
  <1> QED
    BY <1>2, <1>3 DEF Orderly

LEMMA SettledLocal ==
    ASSUME Inv, Settled, NEW p \in Proc, NEW o, op' = [op EXCEPT ![p] = o],
           UNCHANGED <<version, versions, rows, writes>>,
           \A q \in Proc \ {p} : snap'[q] = snap[q] /\ pend'[q] = pend[q],
           o.pc # "idle" => o.mark = writes,
           Orderly(p)'
    PROVE  Settled'
PROOF
  <1>1. op'[p] = o /\ \A q \in Proc \ {p} : op'[q] = op[q]
    BY DEF Inv, TypeOK
  <1>2. Unhurried'
    BY <1>1 DEF Settled, Unhurried
  <1>3. Placed'
    BY DEF Settled, Placed
  <1>4. \A q \in Proc \ {p} : Orderly(q)'
    BY <1>1, OrderlyFrame DEF Settled
  <1> QED
    BY <1>2, <1>3, <1>4 DEF Settled

LEMMA SettledIdling ==
    ASSUME Inv, Settled, NEW p \in Proc, RollBack(p)
    PROVE  Settled'
PROOF
  <1>1. /\ op' = [op EXCEPT ![p] = Idle] /\ UNCHANGED <<version, versions, rows, writes>>
        /\ pend' = [pend EXCEPT ![p] = NoRows] /\ snap' = [snap EXCEPT ![p] = NoRows]
    BY DEF RollBack, Step
  <1>2. /\ op'[p] = Idle /\ DOMAIN pend'[p] = {} /\ DOMAIN snap'[p] = {}
        /\ \A q \in Proc \ {p} : snap'[q] = snap[q] /\ pend'[q] = pend[q]
    BY <1>1 DEF Inv, TypeOK, NoRows
  <1>3. Orderly(p)'
    BY <1>2 DEF Orderly, Shot, Rebuilt, Fills, Idle, Materialising
  <1> DEFINE o == Idle
  <1>4. op' = [op EXCEPT ![p] = o] /\ o.pc = "idle"
    BY <1>1 DEF Idle
  <1> HIDE DEF o
  <1> QED
    BY <1>1, <1>2, <1>3, <1>4, SettledLocal

LEMMA SettledBegin ==
    ASSUME Inv, Preserving, Settled, NEW p \in Proc, NEW o,
           op[p].pc = "idle", Step(p, o), o.pc = "read", o.N = version, o.mark = writes,
           UNCHANGED <<version, versions, rows, writes, snap, pend>>
    PROVE  Settled'
PROOF
  <1>1. op' = [op EXCEPT ![p] = o] /\ op'[p] = o
    BY DEF Step, Inv, TypeOK
  <1>2. DOMAIN pend[p] = {} /\ DOMAIN snap[p] = {}
    BY DEF Preserving, Careful, Clean, Settled, Orderly, Shot, Cutting
  <1>3. Orderly(p)'
    BY <1>1, <1>2 DEF Orderly, Shot, Rebuilt, Fills, Materialising
  <1>4. \A q \in Proc \ {p} : snap'[q] = snap[q] /\ pend'[q] = pend[q]
    OBVIOUS
  <1> QED
    BY <1>1, <1>3, <1>4, SettledLocal

LEMMA SettledReadTable ==
    ASSUME Inv, Settled, NEW p \in Proc, ReadTable(p)
    PROVE  Settled'
PROOF
  <1> DEFINE o == [op[p] EXCEPT !.pc = IF LastTable(p) THEN "insert" ELSE "read",
                                !.i = IF LastTable(p) THEN 1 ELSE op[p].i + 1]
             read == InTable(rows, TableAt(p))
  <1>1. op[p] \in Request
    BY Mine
  <1>2. /\ op' = [op EXCEPT ![p] = o] /\ op'[p] = o /\ op[p].pc = "read"
        /\ snap'[p] = Over(Restrict(rows, read), snap[p])
        /\ UNCHANGED <<version, versions, rows, writes, pend>>
        /\ \A q \in Proc \ {p} : snap'[q] = snap[q] /\ pend'[q] = pend[q]
    BY DEF ReadTable, Step, Inv, TypeOK
  <1>3. o.N = op[p].N /\ o.mark = op[p].mark /\ o.pc \in {"read", "insert"}
    BY <1>1 DEF Request
  <1> HIDE DEF o
  <1>4. Current(p) => \A id \in DOMAIN snap'[p] : id \in DOMAIN rows /\ snap'[p][id] = rows[id]
    BY <1>2 DEF Settled, Orderly, Shot, Over, Restrict, InTable
  <1>5. Orderly(p)'
    BY <1>2, <1>3, <1>4 DEF Settled, Orderly, Shot, Rebuilt, Fills, Hung, Cutting, Materialising,
             Current
  <1>6. o.mark = writes
    BY <1>2, <1>3 DEF Settled, Unhurried
  <1> QED
    BY <1>2, <1>5, <1>6, SettledLocal

LEMMA SettledInsertVersion ==
    ASSUME Inv, Settled, NEW p \in Proc, InsertVersion(p)
    PROVE  Settled'
PROOF
  <1> DEFINE o == [op[p] EXCEPT !.pc = IF op[p].pc = "insert" THEN "retire" ELSE "mcommit"]
  <1>1. op[p] \in Request
    BY Mine
  <1>2. /\ op' = [op EXCEPT ![p] = o] /\ op'[p] = o /\ op[p].pc \in {"insert", "minsert"}
        /\ UNCHANGED <<version, versions, rows, writes, snap, pend>>
        /\ \A q \in Proc \ {p} : snap'[q] = snap[q] /\ pend'[q] = pend[q]
    BY DEF InsertVersion, Step, Inv, TypeOK
  <1>3. /\ o.N = op[p].N /\ o.mark = op[p].mark /\ o.src = op[p].src
        /\ o.pc = (IF op[p].pc = "insert" THEN "retire" ELSE "mcommit")
    BY <1>1 DEF Request
  <1> HIDE DEF o
  <1>4. Done(p)' = Done(p) /\ Source(p)' = Source(p) /\ Current(p)' = Current(p)
    BY <1>2, <1>3 DEF Done, Source, Current
  <1>5. Rebuilt(p)'
    <2> SUFFICES ASSUME op[p].pc = "minsert", Current(p) PROVE Rebuilt(p)'
      BY <1>2, <1>3, <1>4 DEF Rebuilt, Materialising
    <2>1. \A s \in DOMAIN Source(p) : Source(p)[s].cls \in Done(p) =>
            \E id \in DOMAIN pend[p] : StandsFor(pend[p][id], Source(p)[s])
      BY DEF Settled, Orderly, Rebuilt, Materialising
    <2> QED
      BY <1>2, <1>3, <1>4, <2>1 DEF Rebuilt, StandsFor, Text
  <1>6. Orderly(p)'
    BY <1>2, <1>3, <1>4, <1>5 DEF Settled, Orderly, Shot, Fills, Hung, Cutting
  <1>7. o.mark = writes
    BY <1>2, <1>3 DEF Settled, Unhurried
  <1> QED
    BY <1>2, <1>6, <1>7, SettledLocal

LEMMA SettledRetireTable ==
    ASSUME Inv, Settled, NEW p \in Proc, RetireTable(p)
    PROVE  Settled'
PROOF
  <1> DEFINE o == [op[p] EXCEPT !.pc = IF LastTable(p) THEN "commit" ELSE "retire",
                                !.i = IF LastTable(p) THEN 1 ELSE op[p].i + 1]
  <1>1. op[p] \in Request /\ IsRows(rows)
    BY Mine
  <1>2. /\ op' = [op EXCEPT ![p] = o] /\ op'[p] = o /\ op[p].pc = "retire"
        /\ pend'[p] = Over(Retired(p), pend[p])
        /\ UNCHANGED <<version, versions, rows, writes, snap>>
        /\ \A q \in Proc \ {p} : snap'[q] = snap[q] /\ pend'[q] = pend[q]
    BY DEF RetireTable, Step, Inv, TypeOK
  <1>3. o.N = op[p].N /\ o.mark = op[p].mark /\ o.pc \in {"retire", "commit"}
    BY <1>1 DEF Request
  <1> HIDE DEF o
  <1>4. \A id \in DOMAIN pend'[p] :
            \/ /\ id \in DOMAIN rows /\ SameSlot(pend'[p][id], rows[id])
               /\ pend'[p][id].on = rows[id].on
            \/ id \in DOMAIN pend[p] /\ pend'[p][id] = pend[p][id]
    BY <1>1, <1>2 DEF Over, Retired, ToRetire, InTable, Live, IsRows, Row, SameSlot
  <1>5. \A id \in DOMAIN rows : Hung(id, rows[id].on, rows)
    BY DEF Settled, Placed, Fit
  <1>6. Current(p) => Fills(pend'[p], rows, op[p].N)
    BY <1>4, <1>5 DEF Settled, Orderly, Fills
  <1>7. Orderly(p)'
    BY <1>2, <1>3, <1>6 DEF Settled, Orderly, Shot, Rebuilt, Fills, Hung, Cutting, Materialising,
             Current
  <1>8. o.mark = writes
    BY <1>2, <1>3 DEF Settled, Unhurried
  <1> QED
    BY <1>2, <1>7, <1>8, SettledLocal

LEMMA SettledBeginMaterialise ==
    ASSUME Inv, Preserving, Settled, NEW p \in Proc, BeginMaterialise(p)
    PROVE  Settled'
PROOF
  <1> DEFINE o == [op[p] EXCEPT !.pc = "mread", !.N = version, !.i = 1]
  <1>1. op[p] \in Request
    BY Mine
  <1>2. /\ op' = [op EXCEPT ![p] = o] /\ op'[p] = o /\ op[p].pc = "between"
        /\ UNCHANGED <<version, versions, rows, writes, snap, pend>>
        /\ \A q \in Proc \ {p} : snap'[q] = snap[q] /\ pend'[q] = pend[q]
    BY DEF BeginMaterialise, Step, Inv, TypeOK
  <1>3. o.pc = "mread" /\ o.mark = op[p].mark /\ o.i = 1
    BY <1>1 DEF Request
  <1> HIDE DEF o
  <1>4. Done(p)' = {} /\ DOMAIN pend[p] = {} /\ DOMAIN snap[p] = {}
    BY <1>2, <1>3 DEF Done, Preserving, Careful, Clean, Settled, Orderly, Shot, Cutting
  <1>5. Orderly(p)'
    BY <1>2, <1>3, <1>4 DEF Orderly, Shot, Rebuilt, Fills
  <1>6. o.mark = writes
    BY <1>2, <1>3 DEF Settled, Unhurried
  <1> QED
    BY <1>2, <1>5, <1>6, SettledLocal

LEMMA SettledReadLive ==
    ASSUME Inv, Settled, NEW p \in Proc, ReadLive(p)
    PROVE  Settled'
PROOF
  <1> DEFINE see == {<<id, rows[id].seq>> : id \in InTable(rows, TableAt(p))}
             o == [op[p] EXCEPT !.pc = "mwrite", !.seen = see]
  <1>1. op[p] \in Request
    BY Mine
  <1>2. /\ op' = [op EXCEPT ![p] = o] /\ op'[p] = o /\ op[p].pc = "mread"
        /\ UNCHANGED <<version, versions, rows, writes, snap, pend>>
        /\ \A q \in Proc \ {p} : snap'[q] = snap[q] /\ pend'[q] = pend[q]
    BY DEF ReadLive, Step, Inv, TypeOK
  <1>3. /\ o.pc = "mwrite" /\ o.mark = op[p].mark /\ o.seen = see /\ o.i = op[p].i
        /\ o.N = op[p].N /\ o.src = op[p].src
    BY <1>1 DEF Request
  <1>4. \A e \in see : e[1] \in DOMAIN rows
    BY DEF InTable
  <1> HIDE DEF o, see
  <1>5. Done(p)' = Done(p) /\ Source(p)' = Source(p) /\ Current(p)' = Current(p)
    BY <1>2, <1>3 DEF Done, Source, Current
  <1>6. Rebuilt(p)'
    <2> SUFFICES ASSUME Current(p) PROVE Rebuilt(p)'
      BY <1>5 DEF Rebuilt
    <2>1. \A s \in DOMAIN Source(p) : Source(p)[s].cls \in Done(p) =>
            \E id \in DOMAIN pend[p] : StandsFor(pend[p][id], Source(p)[s])
      BY <1>2 DEF Settled, Orderly, Rebuilt, Materialising
    <2> QED
      BY <1>2, <1>3, <1>4, <1>5, <2>1 DEF Rebuilt, StandsFor, Text
  <1>7. Orderly(p)'
    BY <1>2, <1>3, <1>5, <1>6 DEF Settled, Orderly, Shot, Fills, Hung, Cutting
  <1>8. o.mark = writes
    BY <1>2, <1>3 DEF Settled, Unhurried
  <1> QED
    BY <1>2, <1>7, <1>8, SettledLocal

(* What a current restore knows when it writes a table: it has seen all of  *)
(* it, nothing else, and each row where it is.                              *)
LEMMA AtWriteTable ==
    ASSUME Inv, Preserving, Settled, NEW p \in Proc, WriteTable(p), Current(p)
    PROVE  /\ IsRows(rows) /\ IsRows(Source(p)) /\ op[p].N = version /\ version \in Nat \ {0}
           /\ Fit(rows, version, writes) /\ Fit(Source(p), version, writes)
           /\ Fills(pend[p], rows, op[p].N)
           /\ \A e \in op[p].seen : /\ e[1] \in DOMAIN rows /\ rows[e[1]].cls = TableAt(p)
                                    /\ rows[e[1]].seq = e[2] /\ e = <<e[1], e[2]>>
           /\ \A s \in DOMAIN Source(p) : Source(p)[s].cls \in Done(p) =>
                \E id \in DOMAIN pend[p] : StandsFor(pend[p][id], Source(p)[s])
PROOF
  <1>1. op[p].pc = "mwrite" /\ op[p] \in Request
    BY Mine DEF WriteTable
  <1>2. /\ IsRows(rows) /\ IsRows(Source(p)) /\ op[p].src \in DOMAIN versions
        /\ op[p].N = version /\ version \in Nat \ {0}
    BY <1>1 DEF Inv, TypeOK, Numbering, NumbersHeld, Source, Current
  <1>3. /\ Fit(rows, version, writes) /\ Fit(Source(p), version, writes)
        /\ Fills(pend[p], rows, op[p].N)
    BY <1>2 DEF Settled, Placed, Source, Orderly
  <1>4. ASSUME NEW e \in op[p].seen
        PROVE  /\ e[1] \in DOMAIN rows /\ rows[e[1]].cls = TableAt(p)
               /\ rows[e[1]].seq = e[2] /\ e = <<e[1], e[2]>>
    <2>1. e = <<e[1], e[2]>>
      BY <1>1 DEF Request
    <2>2. e[1] \in DOMAIN rows
      BY <1>1 DEF Settled, Orderly, Rebuilt, Materialising
    <2> QED
      BY <1>1, <2>1, <2>2 DEF Preserving, Careful, Reconciling, Materialising
  <1>5. \A s \in DOMAIN Source(p) : Source(p)[s].cls \in Done(p) =>
                \E id \in DOMAIN pend[p] : StandsFor(pend[p][id], Source(p)[s])
    BY <1>1 DEF Settled, Orderly, Rebuilt, Materialising
  <1> QED
    BY <1>2, <1>3, <1>4, <1>5

(* A row matched by seq becomes the source's row of its slot, its target    *)
(* included unless the code never writes that column.                       *)
LEMMA MatchedStandsFor ==
    ASSUME NEW r \in Row, NEW s \in Row, SameSlot(r, s)
    PROVE  /\ StandsFor(Restored(r, s), s)
           /\ Restored(r, s).cls = r.cls /\ Restored(r, s).seq = r.seq
           /\ Restored(r, s).on = (IF s.on[2] \in Unwritten THEN r.on ELSE s.on)
PROOF
  <1>1. /\ Restored(r, s).cls = r.cls /\ Restored(r, s).seq = r.seq
        /\ Restored(r, s).art = s.art /\ Restored(r, s).rev = s.rev
        /\ Restored(r, s).retired = s.retired
        /\ Restored(r, s).on = (IF s.on[2] \in Unwritten THEN r.on ELSE s.on)
    BY DEF Restored, Row
  <1> QED
    BY <1>1 DEF StandsFor, Text, SameSlot

(* The rows a current restore has matched.                                  *)
LEMMA Match ==
    ASSUME Inv, Preserving, Settled, NEW p \in Proc, WriteTable(p), Current(p),
           NEW id \in SeenIds(p), NEW s \in SourceOf(p, id)
    PROVE  /\ id \in DOMAIN rows /\ rows[id] \in Row /\ rows[id].cls = TableAt(p)
           /\ s \in DOMAIN Source(p) /\ Source(p)[s] \in Row /\ Source(p)[s].cls = TableAt(p)
           /\ SameSlot(rows[id], Source(p)[s])
PROOF
  <1> DEFINE e == <<id, Source(p)[s].seq>>
  <1>1. /\ s \in DOMAIN Source(p) /\ Source(p)[s].cls = TableAt(p)
        /\ e \in op[p].seen /\ e[1] = id /\ e[2] = Source(p)[s].seq
    BY DEF SourceOf, SnapRows, InTable
  <1> HIDE DEF e
  <1>2. rows[e[1]].cls = TableAt(p) /\ rows[e[1]].seq = e[2] /\ e[1] \in DOMAIN rows
    BY <1>1, AtWriteTable
  <1>3. IsRows(rows) /\ IsRows(Source(p))
    BY AtWriteTable
  <1> QED
    BY <1>1, <1>2, <1>3 DEF SameSlot, IsRows

(* What a current restore writes fills the slots of its rows and free ones. *)
LEMMA WriteTableFills ==
    ASSUME Inv, Preserving, Settled, NEW p \in Proc, WriteTable(p), Current(p)
    PROVE  Fills(pend'[p], rows, op[p].N)
PROOF
  <1> SUFFICES ASSUME NEW id \in DOMAIN pend'[p]
               PROVE  /\ \/ id \in DOMAIN rows /\ SameSlot(pend'[p][id], rows[id])
                         \/ /\ id = <<op[p].N, pend'[p][id].cls, pend'[p][id].seq>>
                            /\ \A b \in DOMAIN rows : ~SameSlot(rows[b], pend'[p][id])
                      /\ Hung(id, pend'[p][id].on, rows)
    BY DEF Fills
  <1>1. ~Collides(p) /\ ~Dangles(p)
    BY DEF WriteTable
  <1>2. CASE id \in SeenIds(p)
    <2>0. PICK e \in op[p].seen : id = e[1]
      BY <1>2 DEF SeenIds
    <2>1. id \in DOMAIN rows /\ rows[id] \in Row /\ rows[id].cls = TableAt(p) /\ id[2] = TableAt(p)
          /\ Hung(id, rows[id].on, rows)
      BY <2>0, AtWriteTable DEF IsRows, Fit
    <2>2. pend'[p][id] = Reconciled(p)[id]
      BY <1>2, WhatWriteTablePends
    <2>3. CASE \E s \in SourceOf(p, id) : Reconciled(p)[id] = Restored(rows[id], Source(p)[s])
      <3>1. PICK s \in SourceOf(p, id) : Reconciled(p)[id] = Restored(rows[id], Source(p)[s])
        BY <2>3
      <3>2. /\ s \in DOMAIN Source(p) /\ Source(p)[s] \in Row /\ Source(p)[s].cls = TableAt(p)
            /\ SameSlot(rows[id], Source(p)[s])
        BY <1>2, Match
      <3>3. /\ pend'[p][id].cls = rows[id].cls /\ pend'[p][id].seq = rows[id].seq
            /\ pend'[p][id].on = (IF Source(p)[s].on[2] \in Unwritten THEN rows[id].on
                                  ELSE Source(p)[s].on)
        BY <2>1, <2>2, <3>1, <3>2, MatchedStandsFor
      <3>4. Source(p)[s].on[2] \in Unwritten \/ Exists(Source(p)[s].on)
        BY <1>1, <1>2 DEF Dangles
      <3>5. s[2] = TableAt(p) /\ Hung(s, Source(p)[s].on, Source(p))
        BY <3>2, AtWriteTable DEF Fit
      <3>6. Exists(Source(p)[s].on) => Hung(id, Source(p)[s].on, rows)
        BY <2>1, <3>5 DEF Hung, Exists
      <3> QED
        BY <2>1, <3>3, <3>4, <3>6 DEF SameSlot
    <2>4. CASE Reconciled(p)[id] = [rows[id] EXCEPT !.retired = op[p].src]
      <3>1. /\ pend'[p][id].cls = rows[id].cls /\ pend'[p][id].seq = rows[id].seq
            /\ pend'[p][id].on = rows[id].on
        BY <2>1, <2>2, <2>4 DEF Row
      <3> QED
        BY <2>1, <3>1 DEF SameSlot
    <2> QED
      BY <1>2, <2>3, <2>4, WhatReconcileWrites
  <1>3. CASE id \in DOMAIN Reinserted(p) \ SeenIds(p)
    <2>1. PICK s \in Unmatched(p) : id = <<op[p].N, TableAt(p), Source(p)[s].seq>>
                                    /\ Reinserted(p)[id] = Source(p)[s]
      BY <1>3, WhatReconcileWrites
    <2>2. pend'[p][id] = Source(p)[s] /\ id[2] = TableAt(p)
      BY <1>3, <2>1, WhatWriteTablePends
    <2>3. s \in DOMAIN Source(p) /\ Source(p)[s].cls = TableAt(p)
      BY DEF Unmatched, SnapRows, InTable
    <2>4. Exists(Source(p)[s].on) /\ \A b \in DOMAIN rows : ~SameSlot(rows[b], Source(p)[s])
      BY <1>1 DEF Dangles, Collides
    <2>5. s[2] = TableAt(p) /\ Hung(s, Source(p)[s].on, Source(p))
      BY <2>3, AtWriteTable DEF Fit
    <2>6. Hung(id, Source(p)[s].on, rows)
      BY <2>2, <2>4, <2>5 DEF Hung, Exists
    <2> QED
      BY <2>1, <2>2, <2>3, <2>4, <2>6
  <1>4. CASE id \in DOMAIN pend[p] \ (SeenIds(p) \cup DOMAIN Reinserted(p))
    <2>1. pend'[p][id] = pend[p][id]
      BY <1>4, WhatWriteTablePends
    <2>2. Fills(pend[p], rows, op[p].N)
      BY AtWriteTable
    <2> QED
      BY <1>4, <2>1, <2>2 DEF Fills
  <1> QED
    BY <1>2, <1>3, <1>4, WhatWriteTablePends

LEMMA ReinsertedIn ==
    ASSUME NEW p \in Proc, NEW id \in DOMAIN Reinserted(p)
    PROVE  id[1] = op[p].N /\ id[2] = TableAt(p)
PROOF
  <1>1. PICK s \in Unmatched(p) : id = <<op[p].N, TableAt(p), Source(p)[s].seq>>
    BY DEF Reinserted
  <1> QED
    BY <1>1

(* Every row of the source has its stand-in once its table is written.      *)
LEMMA WriteTableRebuilds ==
    ASSUME Inv, Preserving, Settled, NEW p \in Proc, WriteTable(p), Current(p),
           NEW s \in DOMAIN Source(p), Source(p)[s].cls \in Done(p) \cup {TableAt(p)}
    PROVE  \E id \in DOMAIN pend'[p] : StandsFor(pend'[p][id], Source(p)[s])
PROOF
  <1>0. Source(p)[s] \in Row /\ \A t \in DOMAIN Source(p) :
            SameSlot(Source(p)[t], Source(p)[s]) => t = s
    BY AtWriteTable DEF IsRows, Fit
  <1>1. CASE s \in Unmatched(p)
    <2> DEFINE id == <<op[p].N, TableAt(p), Source(p)[s].seq>>
    <2>1. id \in DOMAIN Reinserted(p) /\ id[1] = op[p].N /\ id[3] = Source(p)[s].seq
      BY <1>1, WhatReconcileWrites
    <2> HIDE DEF id
    <2>2. id \notin SeenIds(p)
      BY <2>1, AtWriteTable DEF SeenIds, Fit, IsRows, RowId
    <2>3. PICK t \in Unmatched(p) : id = <<op[p].N, TableAt(p), Source(p)[t].seq>>
                                    /\ Reinserted(p)[id] = Source(p)[t]
      BY <2>1, WhatReconcileWrites
    <2>4. id[3] = Source(p)[t].seq
      BY <2>3
    <2>5. t = s
      BY <1>0, <1>1, <2>1, <2>4 DEF Unmatched, SnapRows, InTable, SameSlot
    <2>6. pend'[p][id] = Source(p)[s] /\ id \in DOMAIN pend'[p]
      BY <2>1, <2>2, <2>3, <2>5, WhatWriteTablePends
    <2> QED
      BY <2>6 DEF StandsFor
  <1>2. CASE s \in SnapRows(p) \ Unmatched(p)
    <2>1. PICK e \in op[p].seen : e[2] = Source(p)[s].seq
      BY <1>2 DEF Unmatched
    <2>2. e[1] \in DOMAIN rows /\ e = <<e[1], e[2]>>
      BY AtWriteTable
    <2>3. e[1] \in SeenIds(p) /\ s \in SourceOf(p, e[1])
      BY <1>2, <2>1, <2>2 DEF SeenIds, SourceOf
    <2>4. PICK t \in SourceOf(p, e[1]) : Reconciled(p)[e[1]] = Restored(rows[e[1]], Source(p)[t])
      BY <2>3, WhatReconcileWrites
    <2>5. /\ SameSlot(rows[e[1]], Source(p)[s]) /\ SameSlot(rows[e[1]], Source(p)[t])
          /\ rows[e[1]] \in Row /\ t \in DOMAIN Source(p)
      BY <2>3, Match
    <2>6. t = s
      BY <1>0, <2>5 DEF SameSlot
    <2>7. StandsFor(Restored(rows[e[1]], Source(p)[s]), Source(p)[s])
      BY <1>0, <2>5, MatchedStandsFor
    <2>8. pend'[p][e[1]] = Restored(rows[e[1]], Source(p)[s]) /\ e[1] \in DOMAIN pend'[p]
      BY <2>3, <2>4, <2>6, WhatWriteTablePends
    <2> QED
      BY <2>7, <2>8
  <1>3. CASE s \notin SnapRows(p)
    <2>1. Source(p)[s].cls # TableAt(p) /\ Source(p)[s].cls \in Done(p)
      BY <1>3 DEF SnapRows, InTable
    <2>2. PICK id \in DOMAIN pend[p] : StandsFor(pend[p][id], Source(p)[s])
      BY <2>1, AtWriteTable
    <2>3. pend[p][id].cls # TableAt(p)
      BY <2>1, <2>2 DEF StandsFor, Text
    <2>4. id \notin SeenIds(p) /\ id \notin DOMAIN Reinserted(p)
      <3>1. CASE id \in DOMAIN rows /\ SameSlot(pend[p][id], rows[id])
        <4>1. rows[id].cls # TableAt(p) /\ id[2] # TableAt(p)
          BY <2>3, <3>1, AtWriteTable DEF SameSlot, Fit
        <4>2. id \notin SeenIds(p)
          BY <4>1, AtWriteTable DEF SeenIds
        <4>3. id \notin DOMAIN Reinserted(p)
          BY <4>1, ReinsertedIn
        <4> QED
          BY <4>2, <4>3
      <3>2. CASE id = <<op[p].N, pend[p][id].cls, pend[p][id].seq>>
        <4>1. id[1] = op[p].N /\ id[2] = pend[p][id].cls
          BY <3>2
        <4>2. id \notin SeenIds(p)
          BY <4>1, AtWriteTable DEF SeenIds, Fit, IsRows, RowId
        <4>3. id \notin DOMAIN Reinserted(p)
          BY <2>3, <4>1, ReinsertedIn
        <4> QED
          BY <4>2, <4>3
      <3> QED
        BY <3>1, <3>2, AtWriteTable DEF Fills
    <2>5. id \in DOMAIN pend'[p] /\ pend'[p][id] = pend[p][id]
      BY <2>4, WhatWriteTablePends
    <2> QED
      BY <2>2, <2>5
  <1> QED
    BY <1>1, <1>2, <1>3

LEMMA SettledWriteTable ==
    ASSUME Inv, Preserving, Settled, NEW p \in Proc, WriteTable(p)
    PROVE  Settled'
PROOF
  <1>1. /\ op'[p].pc \in {"minsert", "mread"} /\ op[p].pc = "mwrite"
        /\ op'[p].N = op[p].N /\ Source(p)' = Source(p) /\ Done(p)' = Done(p) \cup {TableAt(p)}
        /\ op'[p].mark = op[p].mark /\ op' = [op EXCEPT ![p] = op'[p]]
        /\ UNCHANGED <<version, versions, rows, writes, snap>>
        /\ \A q \in Proc \ {p} : snap'[q] = snap[q] /\ pend'[q] = pend[q]
    BY AfterWriteTable, WhatWriteTablePends
  <1>2. Current(p)' = Current(p)
    BY <1>1 DEF Current
  <1>3. Shot(p)'
    BY <1>1, <1>2 DEF Settled, Orderly, Shot, Cutting
  <1>4. (Current(p) => Fills(pend[p], rows, op[p].N))'
    <2>1. Current(p) => Fills(pend'[p], rows, op[p].N)
      BY WriteTableFills
    <2> QED
      BY <1>1, <1>2, <2>1 DEF Fills, Hung
  <1>5. Rebuilt(p)'
    <2> SUFFICES ASSUME Current(p) PROVE Rebuilt(p)'
      BY <1>2 DEF Rebuilt
    <2>1. \A s \in DOMAIN Source(p) : Source(p)[s].cls \in Done(p) \cup {TableAt(p)} =>
            \E id \in DOMAIN pend'[p] : StandsFor(pend'[p][id], Source(p)[s])
      BY WriteTableRebuilds
    <2> QED
      BY <1>1, <2>1 DEF Rebuilt, StandsFor, Text
  <1>6. Orderly(p)'
    BY <1>3, <1>4, <1>5 DEF Orderly
  <1> DEFINE o == op'[p]
  <1>7. op' = [op EXCEPT ![p] = o] /\ o.mark = writes
    BY <1>1 DEF Settled, Unhurried
  <1> HIDE DEF o
  <1> QED
    BY <1>1, <1>6, <1>7, SettledLocal

(* Both commits: the tables take the pending rows, and the history a set of *)
(* rows that agrees with the tables.                                        *)
LEMMA SettledCommit ==
    ASSUME Inv, Preserving, Settled, NEW p \in Proc, HoldsNumber(p),
           NEW o, op' = [op EXCEPT ![p] = o], NEW e,
           versions' = Plus(versions, op[p].N, e), version' = op[p].N + 1,
           rows' = Over(pend[p], rows), writes' = writes,
           pend' = [pend EXCEPT ![p] = NoRows], DOMAIN snap'[p] = {},
           \A q \in Proc \ {p} : snap'[q] = snap[q],
           o.pc = "idle" \/ (o.pc = "between" /\ o.mark = writes),
           IsRows(e.snap), Fit(e.snap, version, writes), Agree(e.snap, rows)
    PROVE  Settled'
PROOF
  <1>1. /\ op[p].N = version /\ version \in Nat \ {0} /\ version' = version + 1
        /\ version \notin DOMAIN versions /\ Current(p) /\ writes \in Nat
    BY DEF Inv, TypeOK, NumbersHeld, Numbering, Current
  <1>2. /\ op'[p] = o /\ DOMAIN pend'[p] = {}
        /\ \A q \in Proc \ {p} : op'[q] = op[q] /\ pend'[q] = pend[q] /\ snap'[q] = snap[q]
    BY DEF Inv, TypeOK, NoRows
  <1>3. /\ DOMAIN versions' = DOMAIN versions \cup {version} /\ versions'[version] = e
        /\ \A v \in DOMAIN versions : versions'[v] = versions[v]
    BY <1>1 DEF Plus, Over
  <1>4. /\ IsRows(rows) /\ IsRows(pend[p])
        /\ Fit(rows, version, writes) /\ Fills(pend[p], rows, version)
    BY <1>1, Mine DEF Settled, Placed, Orderly
  <1>5. \A id \in DOMAIN pend[p] : pend[p][id].rev <= writes
    <2> TAKE id \in DOMAIN pend[p]
    <2>1. Archived(pend[p][id]) \/ (id \in DOMAIN rows /\ pend[p][id].rev = rows[id].rev)
      BY <1>1 DEF Preserving, Careful, Kept
    <2>2. CASE Archived(pend[p][id])
      BY <2>2 DEF Archived, Settled, Placed, Fit
    <2>3. CASE id \in DOMAIN rows /\ pend[p][id].rev = rows[id].rev
      BY <1>4, <2>3 DEF Fit
    <2> QED
      BY <2>1, <2>2, <2>3
  <1>6. Fit(rows', version + 1, writes)
    BY <1>1, <1>4, <1>5, FitOver
  <1>7. ASSUME NEW s, IsRows(s), Fit(s, version, writes), Agree(s, rows)
        PROVE  Fit(s, version + 1, writes) /\ Agree(s, Over(pend[p], rows))
    BY <1>1, <1>4, <1>7, FitGrows, AgreeOver
  <1>8. ASSUME NEW v \in DOMAIN versions'
        PROVE  Fit(versions'[v].snap, version + 1, writes) /\ Agree(versions'[v].snap, rows')
    <2>1. CASE v = version
      BY <1>3, <1>7, <2>1
    <2>2. CASE v \in DOMAIN versions
      BY <1>3, <1>7, <2>2 DEF Settled, Placed, Inv, TypeOK
    <2> QED
      BY <1>3, <2>1, <2>2
  <1>9. Placed'
    BY <1>1, <1>6, <1>8 DEF Placed
  <1>10. Unhurried'
    BY <1>2 DEF Settled, Unhurried
  <1>11. Orderly(p)'
    BY <1>2 DEF Orderly, Shot, Rebuilt, Fills, Materialising
  <1>12. ASSUME NEW q \in Proc \ {p} PROVE Orderly(q)'
    <2>1. op[q].pc # "idle" => ~Current(q)'
      BY <1>1, <1>2 DEF Current, Inv, TypeOK, NumbersHeld, Request
    <2>2. op[q].pc = "idle" => DOMAIN pend[q] = {} /\ DOMAIN snap[q] = {}
      BY DEF Preserving, Careful, Clean, Settled, Orderly, Shot, Cutting
    <2>3. Shot(q)'
      BY <1>2, <2>1, <2>2 DEF Settled, Orderly, Shot
    <2> QED
      BY <1>2, <2>1, <2>2, <2>3 DEF Orderly, Rebuilt, Fills, Materialising
  <1> QED
    BY <1>9, <1>10, <1>11, <1>12 DEF Settled

(* Nothing in the tables is late for a request under way. *)
LEMMA NothingLate ==
    ASSUME Inv, Settled, NEW p \in Proc, op[p].pc # "idle", NEW id \in DOMAIN rows
    PROVE  ~Late(p, rows[id])
PROOF
  <1>1. op[p].mark = writes /\ rows[id].rev <= writes
    BY DEF Settled, Unhurried, Placed, Fit
  <1>2. writes \in Nat /\ rows[id].rev \in Nat
    BY DEF Inv, TypeOK, IsRows, Row
  <1> QED
    BY <1>1, <1>2 DEF Late

(* A snapshot that commits is the tables, row for row. *)
LEMMA SnapshotIsTables ==
    ASSUME Inv, Preserving, Settled, NEW p \in Proc, op[p].pc = "commit"
    PROVE  DOMAIN snap[p] = DOMAIN rows /\ \A id \in DOMAIN rows : snap[p][id] = rows[id]
PROOF
  <1>1. Current(p) /\ \A id \in DOMAIN rows : rows[id].cls \in Done(p)
    BY AtCommit
  <1>2. \A id \in DOMAIN snap[p] : id \in DOMAIN rows /\ snap[p][id] = rows[id]
    BY <1>1 DEF Settled, Orderly, Shot
  <1>3. \A id \in DOMAIN rows : id \in DOMAIN snap[p]
    BY <1>1, NothingLate DEF Preserving, Careful, Covered, Cutting
  <1> QED
    BY <1>2, <1>3

LEMMA SettledCommitCut ==
    ASSUME Inv, Preserving, Settled, NEW p \in Proc, CommitCut(p)
    PROVE  Settled'
PROOF
  <1> DEFINE o == IF op[p].kind = "cut" THEN Idle ELSE [op[p] EXCEPT !.pc = "between"]
             e == [snap |-> snap[p], from |-> 0]
  <1>1. op[p] \in Request /\ IsRows(snap[p]) /\ op[p].pc = "commit"
    BY Mine DEF CommitCut
  <1>2. o.pc = "idle" \/ (o.pc = "between" /\ o.mark = writes)
    <2>1. CASE op[p].kind = "cut"
      BY <2>1 DEF Idle
    <2>2. CASE op[p].kind # "cut"
      <3> DEFINE x == [op[p] EXCEPT !.pc = "between"]
      <3>1. x.pc = "between" /\ x.mark = writes
        BY <1>1 DEF Request, Settled, Unhurried
      <3>2. o = x
        BY <2>2
      <3> QED
        BY <3>1, <3>2
    <2> QED
      BY <2>1, <2>2
  <1>3. e.snap = snap[p]
    OBVIOUS
  <1>4. /\ op' = [op EXCEPT ![p] = o] /\ versions' = Plus(versions, op[p].N, e)
        /\ version' = op[p].N + 1 /\ rows' = Over(pend[p], rows) /\ writes' = writes
        /\ pend' = [pend EXCEPT ![p] = NoRows] /\ HoldsNumber(p)
        /\ \A q \in Proc \ {p} : snap'[q] = snap[q]
    BY DEF CommitCut, Step, HoldsNumber
  <1>5. DOMAIN snap'[p] = {}
    BY DEF CommitCut, Inv, TypeOK, NoRows
  <1> HIDE DEF o, e
  <1>6. DOMAIN snap[p] = DOMAIN rows /\ \A id \in DOMAIN rows : snap[p][id] = rows[id]
    BY <1>1, SnapshotIsTables
  <1>7. Fit(snap[p], version, writes)
    BY <1>6, FitSame DEF Settled, Placed
  <1>8. Agree(snap[p], rows)
    BY <1>6 DEF Agree, SameSlot
  <1> QED
    BY <1>1, <1>2, <1>3, <1>4, <1>5, <1>7, <1>8, SettledCommit

LEMMA SettledCommitRestore ==
    ASSUME Inv, Preserving, Settled, NEW p \in Proc, CommitRestore(p)
    PROVE  Settled'
PROOF
  <1> DEFINE e == [snap |-> Source(p), from |-> op[p].src]
             o == Idle
  <1>1. /\ op' = [op EXCEPT ![p] = o] /\ versions' = Plus(versions, op[p].N, e)
        /\ version' = op[p].N + 1 /\ rows' = Over(pend[p], rows) /\ writes' = writes
        /\ pend' = [pend EXCEPT ![p] = NoRows] /\ op[p].pc = "mcommit" /\ HoldsNumber(p)
        /\ snap' = snap
    BY DEF CommitRestore, Step, HoldsNumber
  <1>2. o.pc = "idle" /\ e.snap = Source(p)
    BY DEF Idle
  <1>3. op[p].src \in DOMAIN versions
    BY <1>1 DEF Inv, Numbering, NumbersHeld
  <1>4. IsRows(Source(p)) /\ Fit(Source(p), version, writes) /\ Agree(Source(p), rows)
    BY <1>3 DEF Source, Settled, Placed, Inv, TypeOK
  <1>5. DOMAIN snap'[p] = {}
    BY <1>1 DEF Settled, Orderly, Shot, Cutting
  <1> HIDE DEF e, o
  <1> QED
    BY <1>1, <1>2, <1>4, <1>5, SettledCommit

LEMMA SettledStep ==
    ASSUME QuietWriters, Inv, Preserving, Settled, [Next]_vars
    PROVE  Settled'
PROOF
  <1>1. CASE Write
    BY <1>1, SettledWrite
  <1>2. ASSUME NEW p \in Proc, Begin(p) PROVE Settled'
    <2>1. CASE \E carry \in SUBSET Prunable : BeginCut(p, carry)
      <3>1. PICK carry \in SUBSET Prunable : BeginCut(p, carry)
        BY <2>1
      <3> DEFINE o == [Idle EXCEPT !.kind = "cut", !.pc = "read", !.N = version,
                                   !.carry = carry, !.mark = writes]
      <3>2. o.pc = "read" /\ o.N = version /\ o.mark = writes
        BY DEF Idle
      <3>3. /\ op[p].pc = "idle" /\ Step(p, o)
            /\ UNCHANGED <<version, versions, rows, writes, snap, pend>>
        BY <3>1 DEF BeginCut
      <3> HIDE DEF o
      <3> QED
        BY <3>2, <3>3, SettledBegin
    <2>2. CASE \E v \in DOMAIN versions : BeginRestore(p, v)
      <3>1. PICK v \in DOMAIN versions : BeginRestore(p, v)
        BY <2>2
      <3> DEFINE o == [Idle EXCEPT !.kind = "restore", !.pc = "read", !.N = version,
                                   !.carry = Prunable, !.mark = writes, !.src = v]
      <3>2. o.pc = "read" /\ o.N = version /\ o.mark = writes
        BY DEF Idle
      <3>3. /\ op[p].pc = "idle" /\ Step(p, o)
            /\ UNCHANGED <<version, versions, rows, writes, snap, pend>>
        BY <3>1 DEF BeginRestore
      <3> HIDE DEF o
      <3> QED
        BY <3>2, <3>3, SettledBegin
    <2> QED
      BY <1>2, <2>1, <2>2 DEF Begin
  <1>3. ASSUME NEW p \in Proc, Advance(p) PROVE Settled'
    BY <1>3, SettledReadTable, SettledInsertVersion, SettledRetireTable, SettledCommitCut,
       SettledBeginMaterialise, SettledReadLive, SettledWriteTable, SettledCommitRestore,
       SettledIdling DEF Advance, FailUnique, FailTarget, FailDeadlock
  <1>4. ASSUME NEW p \in Proc, Crash(p) PROVE Settled'
    BY <1>4, SettledIdling DEF Crash
  <1>5. CASE UNCHANGED vars
    <2>1. UNCHANGED <<version, versions, rows, writes, op, snap, pend>>
      BY <1>5 DEF vars
    <2>2. Unhurried' /\ Placed'
      BY <2>1 DEF Settled, Unhurried, Placed
    <2>3. ASSUME NEW q \in Proc PROVE Orderly(q)'
      BY <2>1, OrderlyFrame DEF Settled
    <2> QED
      BY <2>2, <2>3 DEF Settled
  <1> QED
    BY <1>1, <1>2, <1>3, <1>4, <1>5 DEF Next

LEMMA SettledInvariance ==
    ASSUME QuietWriters
    PROVE  Spec => [](Inv /\ Preserving /\ Settled)
PROOF
  <1>1. Init => Inv /\ Preserving /\ Settled
    BY InitInv, InitPreserving, InitSettled
  <1>2. Inv /\ Preserving /\ Settled /\ [Next]_vars => (Inv /\ Preserving /\ Settled)'
    BY NextStep, PreservingStep, SettledStep
  <1> QED
    BY <1>1, <1>2, PTL DEF Spec

(* What a restore has written is all there is, and it is the source.        *)
LEMMA AtCommitRestore ==
    ASSUME Inv, Preserving, Settled, NEW p \in Proc, CommitRestore(p)
    PROVE  /\ DOMAIN rows' = DOMAIN pend[p] /\ \A id \in DOMAIN pend[p] : rows'[id] = pend[p][id]
           /\ \A id \in Live(rows') : Text(rows'[id]) \in LiveTexts(Source(p))
           /\ \A s \in DOMAIN Source(p) :
                \E id \in DOMAIN rows' : StandsFor(rows'[id], Source(p)[s])
           /\ DOMAIN rows \subseteq DOMAIN rows'
PROOF
  <1>1. op[p].pc = "mcommit" /\ rows' = Over(pend[p], rows)
    BY DEF CommitRestore
  <1>2. Current(p) /\ \A id \in DOMAIN rows : rows[id].cls \in Done(p)
    BY <1>1, AtCommit
  <1>3. \A id \in DOMAIN rows : id \in DOMAIN pend[p]
    BY <1>1, <1>2, NothingLate DEF Preserving, Careful, Reconciling, Materialising
  <1>4. /\ DOMAIN rows' = DOMAIN pend[p] /\ \A id \in DOMAIN pend[p] : rows'[id] = pend[p][id]
        /\ DOMAIN rows \subseteq DOMAIN rows'
    BY <1>1, <1>3 DEF Over
  <1>5. \A id \in Live(rows') : Text(rows'[id]) \in LiveTexts(Source(p))
    BY <1>1, <1>2, <1>4 DEF Preserving, Careful, Reconciling, Materialising, Live
  <1>6. op[p].src \in DOMAIN versions
    BY <1>1 DEF Inv, Numbering, NumbersHeld
  <1>7. \A s \in DOMAIN Source(p) : Source(p)[s].cls \in Done(p)
    BY <1>1, <1>6 DEF Source, Done, Inv, TypeOK, IsRows, Row
  <1>8. ASSUME NEW s \in DOMAIN Source(p)
        PROVE  \E id \in DOMAIN rows' : StandsFor(rows'[id], Source(p)[s])
    <2>1. PICK id \in DOMAIN pend[p] : StandsFor(pend[p][id], Source(p)[s])
      BY <1>1, <1>2, <1>7 DEF Settled, Orderly, Rebuilt, Materialising
    <2> QED
      BY <1>4, <2>1
  <1> QED
    BY <1>4, <1>5, <1>8

(* When nobody writes beside it, a restore leaves exactly the live texts of *)
(* the version it restores, whatever cuts and restores ran beside it: what  *)
(* it read is still so when it commits (versioning.ts:613-755).             *)
THEOREM RestoreIsFaithful ==
    ASSUME QuietWriters
    PROVE  Spec => RestoreMaterialisesSource
PROOF
  <1>1. Inv /\ Preserving /\ Settled /\ [Next]_vars =>
            [\A p \in Proc : CommitRestore(p) =>
                LiveTexts(rows') = LiveTexts(Source(p))]_vars
    <2> SUFFICES ASSUME Inv, Preserving, Settled, NEW p \in Proc, CommitRestore(p)
                 PROVE  LiveTexts(rows') = LiveTexts(Source(p))
      OBVIOUS
    <2>1. LiveTexts(rows') \subseteq LiveTexts(Source(p))
      BY AtCommitRestore DEF LiveTexts
    <2>2. ASSUME NEW s \in Live(Source(p)) PROVE Text(Source(p)[s]) \in LiveTexts(rows')
      <3>1. PICK id \in DOMAIN rows' : StandsFor(rows'[id], Source(p)[s])
        BY AtCommitRestore DEF Live
      <3>2. id \in Live(rows') /\ Text(rows'[id]) = Text(Source(p)[s])
        BY <3>1 DEF StandsFor, Live
      <3> QED
        BY <3>2 DEF LiveTexts
    <2>3. LiveTexts(Source(p)) \subseteq LiveTexts(rows')
      BY <2>2 DEF LiveTexts
    <2> QED
      BY <2>1, <2>3
  <1> QED
    BY <1>1, SettledInvariance, PTL DEF Spec, RestoreMaterialisesSource

(* When nobody writes beside it and the restore writes every target column, *)
(* every live comment hangs afterwards on the artifact it hung on in the    *)
(* version restored (versioning.ts:694-696).                                *)
THEOREM TargetsKept ==
    ASSUME QuietWriters, Unwritten = {}
    PROVE  Spec => RestoreKeepsTargets
PROOF
  <1>1. Inv /\ Preserving /\ Settled /\ [Next]_vars =>
            [\A p \in Proc : CommitRestore(p) =>
                \A id \in Live(rows') : rows'[id].on # NoTarget =>
                    \E s \in DOMAIN Source(p) :
                        /\ Source(p)[s].cls = rows'[id].cls /\ Source(p)[s].art = rows'[id].art
                        /\ rows'[id].on \in DOMAIN rows'
                        /\ Source(p)[Source(p)[s].on].art = rows'[rows'[id].on].art]_vars
    <2> SUFFICES ASSUME Inv, Preserving, Settled, NEW p \in Proc, CommitRestore(p),
                        NEW id \in Live(rows'), rows'[id].on # NoTarget
                 PROVE  \E s \in DOMAIN Source(p) :
                        /\ Source(p)[s].cls = rows'[id].cls /\ Source(p)[s].art = rows'[id].art
                        /\ rows'[id].on \in DOMAIN rows'
                        /\ Source(p)[Source(p)[s].on].art = rows'[rows'[id].on].art
      OBVIOUS
    <2>1. op[p].pc = "mcommit" /\ rows' = Over(pend[p], rows) /\ Current(p)
      BY AtCommit DEF CommitRestore
    <2>2. op[p].src \in DOMAIN versions /\ id \in DOMAIN rows'
      BY <2>1 DEF Inv, Numbering, NumbersHeld, Live
    <2>3. Fit(Source(p), version, writes) /\ Agree(Source(p), rows)
      BY <2>2 DEF Source, Settled, Placed
    <2>4. Fills(pend[p], rows, op[p].N)
      BY <2>1 DEF Settled, Orderly
    (* No two rows share a slot after the commit. *)
    <2>5. \A a, b \in DOMAIN rows' : SameSlot(rows'[a], rows'[b]) => a = b
      <3>1. Settled'
        BY SettledCommitRestore
      <3> QED
        BY <3>1 DEF Settled, Placed, Fit
    <2>6. PICK s \in Live(Source(p)) : Text(rows'[id]) = Text(Source(p)[s])
      BY AtCommitRestore DEF LiveTexts
    <2>7. s \in DOMAIN Source(p)
      BY DEF Live
    <2>8. PICK a \in DOMAIN rows' : StandsFor(rows'[a], Source(p)[s])
      BY <2>7, AtCommitRestore
    <2>9. a = id
      BY <2>2, <2>5, <2>6, <2>8 DEF StandsFor, Text, SameSlot
    <2>10. rows'[id].on = Source(p)[s].on
      BY <2>8, <2>9 DEF StandsFor
    <2> DEFINE t == rows'[id].on
    <2>11. t \in DOMAIN rows
      BY <2>2, <2>4, AtCommitRestore DEF Fills, Hung
    <2>12. t \in DOMAIN rows' /\ t \in DOMAIN pend[p] /\ rows'[t] = pend[p][t]
      BY <2>11, AtCommitRestore
    <2>13. t \in DOMAIN Source(p)
      BY <2>3, <2>7, <2>10 DEF Fit, Hung
    <2> HIDE DEF t
    (* The row t has kept its slot, so it is the one that stands for the target. *)
    <2>14. SameSlot(Source(p)[t], rows'[t])
      <3>1. SameSlot(Source(p)[t], rows[t])
        BY <2>3, <2>11, <2>13 DEF Agree
      <3>2. SameSlot(pend[p][t], rows[t])
        <4>1. t[1] < version /\ version \in Nat /\ t[1] \in Nat
          BY <2>11 DEF Settled, Placed, Fit, Inv, TypeOK, IsRows, RowId
        <4>2. t # <<op[p].N, pend[p][t].cls, pend[p][t].seq>>
          <5> SUFFICES ASSUME t = <<op[p].N, pend[p][t].cls, pend[p][t].seq>> PROVE FALSE
            OBVIOUS
          <5>1. t[1] = version
            BY <2>1 DEF Current
          <5> QED
            BY <4>1, <5>1
        <4> QED
          BY <2>4, <2>12, <4>2 DEF Fills
      <3> QED
        BY <2>12, <3>1, <3>2 DEF SameSlot
    <2>15. PICK b \in DOMAIN rows' : StandsFor(rows'[b], Source(p)[t])
      BY <2>13, AtCommitRestore
    <2>16. b = t
      BY <2>5, <2>12, <2>14, <2>15 DEF StandsFor, Text, SameSlot
    <2>17. Source(p)[t].art = rows'[t].art
      BY <2>15, <2>16 DEF StandsFor, Text
    <2>18. Source(p)[s].cls = rows'[id].cls /\ Source(p)[s].art = rows'[id].art
      BY <2>6 DEF Text
    <2> QED
      BY <2>7, <2>10, <2>12, <2>17, <2>18 DEF t
  <1> QED
    BY <1>1, SettledInvariance, PTL DEF Spec, RestoreKeepsTargets

-----------------------------------------------------------------------------
(* Tables nobody deletes from                                               *)
(*                                                                          *)
(* A row of a table that is only ever soft-deleted stays for good, so its   *)
(* seq names its artifact in the tables, in every version and in whatever a *)
(* request has read or written, however stale.                              *)

Lasting == TableSet \ (HardDeletable \cup Hanging)

(* What the row set f knows of the lasting rows is so in g. *)
Anchored(f, g) == \A id \in DOMAIN f :
    /\ f[id].cls = id[2] /\ id # NoTarget
    /\ f[id].on # NoTarget => /\ id[2] \in Hanging /\ f[id].on[2] \in TableSet \ Hanging
                              /\ f[id].on[2] \in Lasting => f[id].on \in DOMAIN g
    /\ id[2] \in Lasting => /\ id \in DOMAIN g /\ SameSlot(f[id], g[id])
                            /\ f[id].art = g[id].art

LastingSlots == \A a, b \in DOMAIN rows :
    a[2] \in Lasting /\ SameSlot(rows[a], rows[b]) => a = b

(* A restore about to write a lasting table has matched every source row.   *)
LastingSeen(p) == op[p].pc = "mwrite" =>
    /\ \A e \in op[p].seen :
            /\ e[1][2] = TableAt(p)
            /\ TableAt(p) \in Lasting => e[1] \in DOMAIN rows /\ rows[e[1]].seq = e[2]
    /\ TableAt(p) \in Lasting =>
            \A s \in SnapRows(p) : <<s, Source(p)[s].seq>> \in op[p].seen

Named == /\ Anchored(rows, rows) /\ LastingSlots
         /\ \A v \in DOMAIN versions : Anchored(versions[v].snap, rows)
         /\ \A p \in Proc : /\ Anchored(snap[p], rows) /\ Anchored(pend[p], rows)
                            /\ LastingSeen(p)

(* The lasting rows of g are in h, as they were. *)
Lasts(g, h) == \A id \in DOMAIN g : id[2] \in Lasting =>
                  id \in DOMAIN h /\ SameSlot(g[id], h[id]) /\ g[id].art = h[id].art

LEMMA AnchoredLasts ==
    ASSUME NEW f, NEW g, NEW h, Anchored(f, g), Lasts(g, h)
    PROVE  Anchored(f, h)
  BY DEF Anchored, Lasts, SameSlot

LEMMA AnchoredOver ==
    ASSUME NEW f, NEW g, NEW h, Anchored(f, h), Anchored(g, h)
    PROVE  Anchored(Over(f, g), h)
PROOF
  <1>1. /\ DOMAIN Over(f, g) = DOMAIN f \cup DOMAIN g
        /\ \A id \in DOMAIN f : Over(f, g)[id] = f[id]
        /\ \A id \in DOMAIN g \ DOMAIN f : Over(f, g)[id] = g[id]
    BY DEF Over
  <1> HIDE DEF Over
  <1> QED
    BY <1>1 DEF Anchored

LEMMA LastsItself == ASSUME NEW g PROVE Lasts(g, g)
  BY DEF Lasts, SameSlot

LEMMA InitNamed == Init => Named
  BY DEF Init, Named, Anchored, LastingSlots, LastingSeen, NoRows, Idle

(* Restores and cuts touch lasting rows without moving them, so what is     *)
(* anchored stays so through every step.                                    *)
LEMMA NamedLocal ==
    ASSUME Inv, Named, NEW p \in Proc, NEW o, op' = [op EXCEPT ![p] = o],
           UNCHANGED <<version, versions, rows, writes>>,
           \A q \in Proc \ {p} : snap'[q] = snap[q] /\ pend'[q] = pend[q],
           Anchored(snap'[p], rows), Anchored(pend'[p], rows), LastingSeen(p)'
    PROVE  Named'
PROOF
  <1>1. op'[p] = o /\ \A q \in Proc \ {p} : op'[q] = op[q]
    BY DEF Inv, TypeOK
  <1>2. ASSUME NEW q \in Proc \ {p} PROVE LastingSeen(q)'
    <2>1. Source(q)' = Source(q) /\ TableAt(q)' = TableAt(q) /\ SnapRows(q)' = SnapRows(q)
      BY <1>1 DEF Source, TableAt, SnapRows, InTable
    <2> QED
      BY <1>1, <2>1 DEF Named, LastingSeen
  <1>3. \A q \in Proc : Anchored(snap'[q], rows) /\ Anchored(pend'[q], rows)
    BY DEF Named
  <1>4. Anchored(rows', rows') /\ \A v \in DOMAIN versions' : Anchored(versions'[v].snap, rows')
    BY DEF Named
  <1>5. LastingSlots'
    BY DEF Named, LastingSlots
  <1>6. \A q \in Proc : Anchored(snap'[q], rows') /\ Anchored(pend'[q], rows')
    BY <1>3
  <1> QED
    BY <1>2, <1>4, <1>5, <1>6 DEF Named

(* What a write leaves behind for everyone else. *)
LEMMA NamedWritten ==
    ASSUME Inv, Named, UNCHANGED <<version, versions, op, snap, pend>>,
           Lasts(rows, rows'), Anchored(rows', rows'), LastingSlots'
    PROVE  Named'
PROOF
  <1>1. /\ \A v \in DOMAIN versions : Anchored(versions[v].snap, rows')
        /\ \A q \in Proc : Anchored(snap[q], rows') /\ Anchored(pend[q], rows')
    BY AnchoredLasts DEF Named
  <1>2. ASSUME NEW q \in Proc PROVE LastingSeen(q)'
    <2>1. Source(q)' = Source(q) /\ TableAt(q)' = TableAt(q) /\ SnapRows(q)' = SnapRows(q)
      BY DEF Source, TableAt, SnapRows, InTable
    <2>2. ASSUME op[q].pc = "mwrite", TableAt(q) \in Lasting, NEW e \in op[q].seen
          PROVE  e[1] \in DOMAIN rows' /\ rows'[e[1]].seq = e[2]
      <3>1. e[1][2] = TableAt(q) /\ e[1] \in DOMAIN rows /\ rows[e[1]].seq = e[2]
        BY <2>2 DEF Named, LastingSeen
      <3> QED
        BY <2>2, <3>1 DEF Lasts, SameSlot
    <2> QED
      BY <2>1, <2>2 DEF Named, LastingSeen
  <1> QED
    BY <1>1, <1>2 DEF Named

LEMMA NamedCreate ==
    ASSUME Inv, Preserving, Named, NEW c \in TableSet, NEW on \in DOMAIN rows \cup {NoTarget},
           Create(c, on)
    PROVE  Named'
PROOF
  <1>1. PICK s \in 1 .. writes + 1 :
           /\ IsNextSeq(c, s)
           /\ IF c \in Hanging THEN on \in DOMAIN rows /\ rows[on].cls \notin Hanging
              ELSE on = NoTarget
           /\ rows' = Plus(rows, <<0, c, writes + 1>>,
                           [cls |-> c, seq |-> s, art |-> writes + 1,
                            rev |-> writes + 1, retired |-> 0, on |-> on])
           /\ UNCHANGED <<version, versions, op, snap, pend>>
    BY DEF Create
  <1> DEFINE x == <<0, c, writes + 1>>
             e == [cls |-> c, seq |-> s, art |-> writes + 1,
                   rev |-> writes + 1, retired |-> 0, on |-> on]
  <1>2. IsRows(rows) /\ writes \in Nat /\ Anchored(rows, rows) /\ LastingSlots
    BY DEF Inv, TypeOK, Named
  <1>3. x[1] = 0 /\ x[2] = c /\ x[3] = writes + 1 /\ x # NoTarget
    BY <1>2 DEF NoTarget
  <1>4. rows' = Plus(rows, x, e) /\ e.cls = c /\ e.seq = s /\ e.on = on
    BY <1>1
  <1> HIDE DEF x, e
  <1>5. x \notin DOMAIN rows
    BY <1>2, <1>3 DEF Preserving, NewIsNew
  <1>6. /\ DOMAIN rows' = DOMAIN rows \cup {x} /\ rows'[x] = e
        /\ \A id \in DOMAIN rows : rows'[id] = rows[id]
    BY <1>4, <1>5 DEF Plus, Over
  <1>7. Lasts(rows, rows')
    BY <1>6 DEF Lasts, SameSlot
  <1>8. e.on # NoTarget => /\ c \in Hanging /\ e.on[2] \in TableSet \ Hanging
                           /\ e.on \in DOMAIN rows'
    BY <1>1, <1>2, <1>4, <1>6 DEF Anchored, IsRows, Row
  <1>9. Anchored(rows', rows')
    BY <1>2, <1>3, <1>4, <1>6, <1>8 DEF Anchored, SameSlot
  <1>10. \A id \in DOMAIN rows : ~SameSlot(rows[id], e) /\ ~SameSlot(e, rows[id])
    <2> SUFFICES ASSUME NEW id \in DOMAIN rows, rows[id].cls = c, rows[id].seq = s PROVE FALSE
      BY <1>4 DEF SameSlot
    <2>1. rows[id].seq < s /\ rows[id].seq \in Nat
      BY <1>1, <1>2 DEF IsNextSeq, InTable, IsRows, Row
    <2> QED
      BY <2>1
  <1>11. LastingSlots'
    BY <1>2, <1>6, <1>10 DEF LastingSlots
  <1> QED
    BY <1>1, <1>7, <1>9, <1>11, NamedWritten

LEMMA NamedEdit ==
    ASSUME Inv, Named, NEW x \in DOMAIN rows, Edit(x)
    PROVE  Named'
PROOF
  <1>1. /\ rows' = [rows EXCEPT ![x].rev = writes + 1]
        /\ UNCHANGED <<version, versions, op, snap, pend>>
        /\ IsRows(rows) /\ Anchored(rows, rows) /\ LastingSlots
    BY DEF Edit, Inv, TypeOK, Named
  <1>2. /\ DOMAIN rows' = DOMAIN rows
        /\ \A id \in DOMAIN rows : /\ rows'[id].cls = rows[id].cls /\ rows'[id].seq = rows[id].seq
                                   /\ rows'[id].art = rows[id].art /\ rows'[id].on = rows[id].on
    BY <1>1 DEF IsRows, Row
  <1>3. Lasts(rows, rows')
    BY <1>2 DEF Lasts, SameSlot
  <1>4. Anchored(rows', rows')
    BY <1>1, <1>2 DEF Anchored, SameSlot
  <1>5. LastingSlots'
    BY <1>1, <1>2 DEF LastingSlots, SameSlot
  <1> QED
    BY <1>1, <1>3, <1>4, <1>5, NamedWritten

(* Only rows of hard-deletable tables go, and comments with them. *)
LEMMA NamedDelete ==
    ASSUME Inv, Named, NEW x \in DOMAIN rows, Delete(x)
    PROVE  Named'
PROOF
  <1> DEFINE gone == {x} \cup {y \in DOMAIN rows : rows[y].on = x}
  <1>1. /\ rows' = Restrict(rows, DOMAIN rows \ gone) /\ rows[x].cls \in HardDeletable
        /\ UNCHANGED <<version, versions, op, snap, pend>>
        /\ Anchored(rows, rows) /\ LastingSlots
    BY DEF Delete, Named
  <1>2. \A id \in gone : id[2] \notin Lasting
    BY <1>1 DEF Anchored, Lasting
  <1> HIDE DEF gone
  <1>3. DOMAIN rows' = DOMAIN rows \ gone /\ \A id \in DOMAIN rows' : rows'[id] = rows[id]
    BY <1>1 DEF Restrict
  <1>4. Lasts(rows, rows')
    BY <1>2, <1>3 DEF Lasts, SameSlot
  <1>5. \A id \in DOMAIN rows' : rows'[id].on # NoTarget /\ rows'[id].on[2] \in Lasting
                                    => rows'[id].on \in DOMAIN rows'
    BY <1>1, <1>2, <1>3 DEF Anchored
  <1>6. Anchored(rows', rows')
    BY <1>1, <1>3, <1>5 DEF Anchored, SameSlot
  <1>7. LastingSlots'
    BY <1>1, <1>3 DEF LastingSlots
  <1> QED
    BY <1>1, <1>4, <1>6, <1>7, NamedWritten

(* The steps of a request that write no pending row and read no table. *)
LEMMA NamedMove ==
    ASSUME Inv, Named, NEW p \in Proc, NEW o, Step(p, o), o.pc # "mwrite",
           UNCHANGED <<version, versions, rows, writes, snap, pend>>
    PROVE  Named'
PROOF
  <1>1. op' = [op EXCEPT ![p] = o] /\ op'[p] = o
    BY DEF Step, Inv, TypeOK
  <1>2. LastingSeen(p)'
    BY <1>1 DEF LastingSeen
  <1>3. /\ Anchored(snap'[p], rows) /\ Anchored(pend'[p], rows)
        /\ \A q \in Proc \ {p} : snap'[q] = snap[q] /\ pend'[q] = pend[q]
    BY DEF Named
  <1> QED
    BY <1>1, <1>2, <1>3, NamedLocal

LEMMA NamedIdling ==
    ASSUME Inv, Named, NEW p \in Proc, RollBack(p)
    PROVE  Named'
PROOF
  <1> DEFINE o == Idle
  <1>1. /\ op' = [op EXCEPT ![p] = o] /\ op'[p] = o
        /\ UNCHANGED <<version, versions, rows, writes>>
        /\ DOMAIN pend'[p] = {} /\ DOMAIN snap'[p] = {}
        /\ \A q \in Proc \ {p} : snap'[q] = snap[q] /\ pend'[q] = pend[q]
    BY DEF RollBack, Step, Inv, TypeOK, NoRows
  <1>2. LastingSeen(p)' /\ Anchored(snap'[p], rows) /\ Anchored(pend'[p], rows)
    BY <1>1 DEF LastingSeen, Anchored, Idle
  <1> HIDE DEF o
  <1> QED
    BY <1>1, <1>2, NamedLocal

LEMMA NamedReadTable ==
    ASSUME Inv, Named, NEW p \in Proc, ReadTable(p)
    PROVE  Named'
PROOF
  <1> DEFINE o == [op[p] EXCEPT !.pc = IF LastTable(p) THEN "insert" ELSE "read",
                                !.i = IF LastTable(p) THEN 1 ELSE op[p].i + 1]
             read == Restrict(rows, InTable(rows, TableAt(p)))
  <1>1. op[p] \in Request
    BY Mine
  <1>2. /\ op' = [op EXCEPT ![p] = o] /\ op'[p] = o /\ snap'[p] = Over(read, snap[p])
        /\ UNCHANGED <<version, versions, rows, writes, pend>>
        /\ \A q \in Proc \ {p} : snap'[q] = snap[q] /\ pend'[q] = pend[q]
    BY DEF ReadTable, Step, Inv, TypeOK
  <1>3. o.pc # "mwrite"
    BY <1>1 DEF Request
  <1>4. Anchored(read, rows)
    BY DEF Named, Anchored, Restrict, InTable
  <1> HIDE DEF o, read
  <1>5. Anchored(snap'[p], rows) /\ Anchored(pend'[p], rows)
    BY <1>2, <1>4, AnchoredOver DEF Named
  <1>6. LastingSeen(p)'
    BY <1>2, <1>3 DEF LastingSeen
  <1> QED
    BY <1>2, <1>5, <1>6, NamedLocal

LEMMA NamedRetireTable ==
    ASSUME Inv, Named, NEW p \in Proc, RetireTable(p)
    PROVE  Named'
PROOF
  <1> DEFINE o == [op[p] EXCEPT !.pc = IF LastTable(p) THEN "commit" ELSE "retire",
                                !.i = IF LastTable(p) THEN 1 ELSE op[p].i + 1]
  <1>1. op[p] \in Request /\ IsRows(rows) /\ Anchored(rows, rows)
    BY Mine DEF Named
  <1>2. /\ op' = [op EXCEPT ![p] = o] /\ op'[p] = o /\ pend'[p] = Over(Retired(p), pend[p])
        /\ UNCHANGED <<version, versions, rows, writes, snap>>
        /\ \A q \in Proc \ {p} : snap'[q] = snap[q] /\ pend'[q] = pend[q]
    BY DEF RetireTable, Step, Inv, TypeOK
  <1>3. o.pc # "mwrite"
    BY <1>1 DEF Request
  <1> HIDE DEF o
  <1>4. \A id \in DOMAIN Retired(p) :
            /\ id \in DOMAIN rows /\ Retired(p)[id].cls = rows[id].cls
            /\ Retired(p)[id].seq = rows[id].seq /\ Retired(p)[id].art = rows[id].art
            /\ Retired(p)[id].on = rows[id].on
    BY <1>1 DEF Retired, ToRetire, InTable, Live, IsRows, Row
  <1>5. Anchored(Retired(p), rows)
    BY <1>1, <1>4 DEF Anchored, SameSlot
  <1>6. Anchored(snap'[p], rows) /\ Anchored(pend'[p], rows)
    BY <1>2, <1>5, AnchoredOver DEF Named
  <1>7. LastingSeen(p)'
    BY <1>2, <1>3 DEF LastingSeen
  <1> QED
    BY <1>2, <1>6, <1>7, NamedLocal

LEMMA NamedReadLive ==
    ASSUME Inv, Named, NEW p \in Proc, ReadLive(p)
    PROVE  Named'
PROOF
  <1> DEFINE see == {<<id, rows[id].seq>> : id \in InTable(rows, TableAt(p))}
             o == [op[p] EXCEPT !.pc = "mwrite", !.seen = see]
  <1>1. op[p] \in Request /\ op[p].pc = "mread" /\ op[p].src \in DOMAIN versions
    BY Mine DEF ReadLive, Inv, NumbersHeld, Numbering
  <1>2. /\ op' = [op EXCEPT ![p] = o] /\ op'[p] = o
        /\ UNCHANGED <<version, versions, rows, writes, snap, pend>>
        /\ \A q \in Proc \ {p} : snap'[q] = snap[q] /\ pend'[q] = pend[q]
    BY DEF ReadLive, Step, Inv, TypeOK
  <1>3. o.seen = see /\ o.i = op[p].i /\ o.src = op[p].src
    BY <1>1 DEF Request
  <1>4. \A e \in see : /\ e[1] \in DOMAIN rows /\ rows[e[1]].seq = e[2]
                       /\ rows[e[1]].cls = TableAt(p)
    BY DEF InTable
  <1>5. \A id \in DOMAIN rows : rows[id].cls = TableAt(p) => <<id, rows[id].seq>> \in see
    BY DEF InTable
  <1> HIDE DEF o, see
  <1>6. \A e \in see : e[1][2] = TableAt(p)
    BY <1>4 DEF Named, Anchored
  (* The source has been there since before this read, and so have its rows. *)
  <1>7. ASSUME TableAt(p) \in Lasting, NEW s \in SnapRows(p)
        PROVE  <<s, Source(p)[s].seq>> \in see
    <2>1. s \in DOMAIN Source(p) /\ Source(p)[s].cls = TableAt(p) /\ Anchored(Source(p), rows)
      BY <1>1 DEF SnapRows, InTable, Named, Source
    <2>2. s \in DOMAIN rows /\ SameSlot(Source(p)[s], rows[s])
      BY <1>7, <2>1 DEF Anchored
    <2> QED
      BY <1>5, <2>1, <2>2 DEF SameSlot
  <1>8. TableAt(p)' = TableAt(p) /\ Source(p)' = Source(p) /\ SnapRows(p)' = SnapRows(p)
    BY <1>2, <1>3 DEF TableAt, Source, SnapRows, InTable
  <1>9. LastingSeen(p)'
    BY <1>2, <1>3, <1>4, <1>6, <1>7, <1>8 DEF LastingSeen
  <1>10. Anchored(snap'[p], rows) /\ Anchored(pend'[p], rows)
    BY <1>2 DEF Named
  <1> QED
    BY <1>2, <1>9, <1>10, NamedLocal

(* A lasting row is matched with itself, so it takes its own artifact's     *)
(* text, and none is inserted again.                                        *)
LEMMA NamedWriteTable ==
    ASSUME Inv, Named, NEW p \in Proc, WriteTable(p)
    PROVE  Named'
PROOF
  <1>1. op[p].pc = "mwrite" /\ op[p].src \in DOMAIN versions /\ op[p].N \in Nat \ {0}
    BY Mine DEF WriteTable, Inv, NumbersHeld, Numbering
  <1>2. /\ IsRows(rows) /\ Anchored(rows, rows) /\ IsRows(Source(p)) /\ Anchored(Source(p), rows)
        /\ LastingSlots
    BY <1>1 DEF Inv, TypeOK, Named, Source
  <1>3. /\ \A e \in op[p].seen :
            /\ e[1][2] = TableAt(p)
            /\ TableAt(p) \in Lasting => e[1] \in DOMAIN rows /\ rows[e[1]].seq = e[2]
        /\ TableAt(p) \in Lasting =>
            \A s \in SnapRows(p) : <<s, Source(p)[s].seq>> \in op[p].seen
    BY <1>1 DEF Named, LastingSeen
  <1>4. ASSUME NEW id \in SeenIds(p)
        PROVE  id \in DOMAIN rows /\ rows[id] \in Row /\ id[2] = TableAt(p) /\ rows[id].cls = id[2]
    BY <1>2, <1>3 DEF SeenIds, Anchored, IsRows
  <1>5. ASSUME NEW id \in SeenIds(p)
        PROVE  /\ Reconciled(p)[id].cls = id[2] /\ Reconciled(p)[id].seq = rows[id].seq
               /\ id[2] \in Lasting => Reconciled(p)[id].art = rows[id].art
               /\ Reconciled(p)[id].on # NoTarget =>
                    /\ id[2] \in Hanging /\ Reconciled(p)[id].on[2] \in TableSet \ Hanging
                    /\ Reconciled(p)[id].on[2] \in Lasting => Reconciled(p)[id].on \in DOMAIN rows
    <2>1. CASE \E s \in SourceOf(p, id) : Reconciled(p)[id] = Restored(rows[id], Source(p)[s])
      <3>1. PICK s \in SourceOf(p, id) : Reconciled(p)[id] = Restored(rows[id], Source(p)[s])
        BY <2>1
      <3>2. /\ s \in DOMAIN Source(p) /\ Source(p)[s] \in Row /\ Source(p)[s].cls = TableAt(p)
            /\ <<id, Source(p)[s].seq>> \in op[p].seen /\ s[2] = TableAt(p)
        BY <1>2 DEF SourceOf, SnapRows, InTable, IsRows, Anchored
      <3>3. /\ Reconciled(p)[id].cls = rows[id].cls /\ Reconciled(p)[id].seq = rows[id].seq
            /\ Reconciled(p)[id].art = Source(p)[s].art
            /\ Reconciled(p)[id].on = (IF Source(p)[s].on[2] \in Unwritten THEN rows[id].on
                                       ELSE Source(p)[s].on)
        BY <1>4, <3>1, <3>2 DEF Restored, Row
      <3>4. ASSUME id[2] \in Lasting PROVE Source(p)[s].art = rows[id].art
        <4> DEFINE e == <<id, Source(p)[s].seq>>
        <4>1. e \in op[p].seen /\ e[1] = id /\ e[2] = Source(p)[s].seq
          BY <3>2
        <4> HIDE DEF e
        <4>2. rows[id].seq = Source(p)[s].seq
          BY <1>3, <1>4, <3>4, <4>1
        <4>3. s \in DOMAIN rows /\ SameSlot(Source(p)[s], rows[s]) /\ Source(p)[s].art = rows[s].art
          BY <1>2, <1>4, <3>2, <3>4 DEF Anchored
        <4>4. id = s
          BY <1>2, <1>4, <3>2, <3>4, <4>2, <4>3 DEF LastingSlots, SameSlot
        <4> QED
          BY <4>3, <4>4
      <3> QED
        BY <1>2, <1>4, <3>2, <3>3, <3>4 DEF Anchored
    <2>2. CASE Reconciled(p)[id] = [rows[id] EXCEPT !.retired = op[p].src]
      <3>1. /\ Reconciled(p)[id].cls = rows[id].cls /\ Reconciled(p)[id].seq = rows[id].seq
            /\ Reconciled(p)[id].art = rows[id].art /\ Reconciled(p)[id].on = rows[id].on
        BY <1>4, <2>2 DEF Row
      <3> QED
        BY <1>2, <1>4, <3>1 DEF Anchored
    <2> QED
      BY <2>1, <2>2, WhatReconcileWrites
  <1>6. Anchored(Reconciled(p), rows)
    <2>1. DOMAIN Reconciled(p) = SeenIds(p)
      BY WhatReconcileWrites
    <2> QED
      BY <1>2, <1>4, <1>5, <2>1 DEF Anchored, SameSlot
  <1>7. ASSUME NEW id \in DOMAIN Reinserted(p)
        PROVE  /\ TableAt(p) \notin Lasting /\ id[2] = TableAt(p) /\ id # NoTarget
               /\ \E s \in DOMAIN Source(p) : s[2] = TableAt(p) /\ Reinserted(p)[id] = Source(p)[s]
    <2>1. PICK s \in Unmatched(p) : id = <<op[p].N, TableAt(p), Source(p)[s].seq>>
                                    /\ Reinserted(p)[id] = Source(p)[s]
      BY WhatReconcileWrites
    <2>2. id[1] = op[p].N /\ id[2] = TableAt(p)
      BY <2>1
    <2>3. s \in SnapRows(p) /\ s \in DOMAIN Source(p) /\ Source(p)[s].cls = TableAt(p)
      BY DEF Unmatched, SnapRows, InTable
    <2>4. TableAt(p) \notin Lasting
      <3> SUFFICES ASSUME TableAt(p) \in Lasting PROVE FALSE
        OBVIOUS
      <3> DEFINE e == <<s, Source(p)[s].seq>>
      <3>1. e \in op[p].seen /\ e[2] = Source(p)[s].seq
        BY <1>3, <2>3
      <3> HIDE DEF e
      <3> QED
        BY <3>1 DEF Unmatched
    <2>5. id # NoTarget
      BY <1>1, <2>2 DEF NoTarget
    <2> QED
      BY <1>2, <2>1, <2>2, <2>3, <2>4, <2>5 DEF Anchored
  <1>8. Anchored(Reinserted(p), rows)
    BY <1>2, <1>7 DEF Anchored
  <1>9. Anchored(pend'[p], rows)
    <2>1. pend'[p] = Over(Reconciled(p), Over(Reinserted(p), pend[p]))
      BY DEF WriteTable, Inv, TypeOK
    <2>2. Anchored(pend[p], rows)
      BY DEF Named
    <2> QED
      BY <1>6, <1>8, <2>1, <2>2, AnchoredOver
  <1>10. /\ op' = [op EXCEPT ![p] = op'[p]] /\ op'[p].pc # "mwrite"
         /\ UNCHANGED <<version, versions, rows, writes, snap>>
         /\ \A q \in Proc \ {p} : snap'[q] = snap[q] /\ pend'[q] = pend[q]
    BY AfterWriteTable, WhatWriteTablePends
  <1>11. LastingSeen(p)' /\ Anchored(snap'[p], rows)
    BY <1>10 DEF LastingSeen, Named
  <1> DEFINE o == op'[p]
  <1>12. op' = [op EXCEPT ![p] = o]
    BY <1>10
  <1> HIDE DEF o
  <1> QED
    BY <1>9, <1>10, <1>11, <1>12, NamedLocal

(* A commit writes what is anchored in the tables, into the tables and into *)
(* the version, so the rows already there keep their slots and artifacts.   *)
LEMMA NamedCommit ==
    ASSUME Inv, Named, NEW p \in Proc, HoldsNumber(p),
           NEW o, op' = [op EXCEPT ![p] = o], o.pc # "mwrite",
           NEW e, Anchored(e.snap, rows),
           versions' = Plus(versions, op[p].N, e), rows' = Over(pend[p], rows),
           pend' = [pend EXCEPT ![p] = NoRows],
           \A q \in Proc : snap'[q] = snap[q] \/ DOMAIN snap'[q] = {}
    PROVE  Named'
PROOF
  <1>1. /\ op[p].N = version /\ version \notin DOMAIN versions
        /\ \A q \in Proc : op[q].pc = "mwrite" => op[q].src \in DOMAIN versions
    BY DEF Inv, TypeOK, NumbersHeld, Numbering
  <1>2. /\ op'[p] = o /\ DOMAIN pend'[p] = {}
        /\ \A q \in Proc \ {p} : op'[q] = op[q] /\ pend'[q] = pend[q]
    BY DEF Inv, TypeOK, NoRows
  <1>3. /\ DOMAIN versions' = DOMAIN versions \cup {version} /\ versions'[version] = e
        /\ \A v \in DOMAIN versions : versions'[v] = versions[v]
    BY <1>1 DEF Plus, Over
  <1>4. /\ Anchored(rows, rows) /\ LastingSlots /\ Anchored(pend[p], rows)
        /\ \A v \in DOMAIN versions : Anchored(versions[v].snap, rows)
        /\ \A q \in Proc : Anchored(snap[q], rows) /\ Anchored(pend[q], rows)
    BY DEF Named
  <1>5. Anchored(rows', rows)
    BY <1>4, AnchoredOver
  <1>6. Lasts(rows, rows')
    <2>1. ASSUME NEW id \in DOMAIN rows, id[2] \in Lasting
          PROVE  id \in DOMAIN rows' /\ SameSlot(rows[id], rows'[id])
                 /\ rows[id].art = rows'[id].art
      <3>1. id \in DOMAIN rows'
        BY DEF Over
      <3> QED
        BY <1>5, <2>1, <3>1 DEF Anchored, SameSlot
    <2> QED
      BY <2>1 DEF Lasts
  <1>7. Anchored(rows', rows')
    BY <1>5, <1>6, AnchoredLasts
  <1>8. \A v \in DOMAIN versions' : Anchored(versions'[v].snap, rows')
    <2> TAKE v \in DOMAIN versions'
    <2>1. Anchored(versions'[v].snap, rows)
      BY <1>3, <1>4
    <2> QED
      BY <1>6, <2>1, AnchoredLasts
  <1>9. \A q \in Proc : Anchored(snap'[q], rows') /\ Anchored(pend'[q], rows')
    <2> TAKE q \in Proc
    <2>1. Anchored(snap'[q], rows)
      BY <1>4 DEF Anchored
    <2>2. Anchored(pend'[q], rows)
      BY <1>2, <1>4 DEF Anchored
    <2> QED
      BY <1>6, <2>1, <2>2, AnchoredLasts
  <1>10. LastingSlots'
    <2> SUFFICES ASSUME NEW a \in DOMAIN rows', NEW b \in DOMAIN rows',
                        a[2] \in Lasting, SameSlot(rows'[a], rows'[b])
                 PROVE  a = b
      BY DEF LastingSlots
    <2>1. b[2] = a[2]
      BY <1>5 DEF Anchored, SameSlot
    <2>2. /\ a \in DOMAIN rows /\ SameSlot(rows'[a], rows[a])
          /\ b \in DOMAIN rows /\ SameSlot(rows'[b], rows[b])
      BY <1>5, <2>1 DEF Anchored
    <2>3. SameSlot(rows[a], rows[b])
      BY <2>2 DEF SameSlot
    <2> QED
      BY <1>4, <2>2, <2>3 DEF LastingSlots
  <1>11. ASSUME NEW q \in Proc PROVE LastingSeen(q)'
    <2>1. CASE q = p
      BY <1>2, <2>1 DEF LastingSeen
    <2>2. CASE q # p /\ op[q].pc # "mwrite"
      BY <1>2, <2>2 DEF LastingSeen
    <2>3. CASE q # p /\ op[q].pc = "mwrite"
      <3>1. op'[q] = op[q] /\ op[q].src \in DOMAIN versions
        BY <1>1, <1>2, <2>3
      <3>2. Source(q)' = Source(q) /\ TableAt(q)' = TableAt(q) /\ SnapRows(q)' = SnapRows(q)
        BY <1>3, <3>1 DEF Source, TableAt, SnapRows, InTable
      <3>3. ASSUME TableAt(q) \in Lasting, NEW x \in op[q].seen
            PROVE  x[1] \in DOMAIN rows' /\ rows'[x[1]].seq = x[2]
        <4>1. x[1][2] = TableAt(q) /\ x[1] \in DOMAIN rows /\ rows[x[1]].seq = x[2]
          BY <2>3, <3>3 DEF Named, LastingSeen
        <4> QED
          BY <1>6, <3>3, <4>1 DEF Lasts, SameSlot
      <3> QED
        BY <2>3, <3>1, <3>2, <3>3 DEF Named, LastingSeen
    <2> QED
      BY <2>1, <2>2, <2>3
  <1> QED
    BY <1>7, <1>8, <1>9, <1>10, <1>11 DEF Named

LEMMA NamedCommitCut ==
    ASSUME Inv, Named, NEW p \in Proc, CommitCut(p)
    PROVE  Named'
PROOF
  <1> DEFINE o == IF op[p].kind = "cut" THEN Idle ELSE [op[p] EXCEPT !.pc = "between"]
             e == [snap |-> snap[p], from |-> 0]
  <1>1. op[p] \in Request
    BY Mine
  <1>2. o.pc # "mwrite"
    <2>1. CASE op[p].kind = "cut"
      BY <2>1 DEF Idle
    <2>2. CASE op[p].kind # "cut"
      <3> DEFINE x == [op[p] EXCEPT !.pc = "between"]
      <3>1. x.pc = "between" /\ o = x
        BY <1>1, <2>2 DEF Request
      <3> HIDE DEF o, x
      <3> QED
        BY <3>1
    <2> QED
      BY <2>1, <2>2
  <1>3. Anchored(e.snap, rows)
    BY DEF Named
  <1>4. /\ op' = [op EXCEPT ![p] = o] /\ versions' = Plus(versions, op[p].N, e)
        /\ rows' = Over(pend[p], rows) /\ HoldsNumber(p)
        /\ pend' = [pend EXCEPT ![p] = NoRows]
    BY DEF CommitCut, Step, HoldsNumber
  <1>5. \A q \in Proc : snap'[q] = snap[q] \/ DOMAIN snap'[q] = {}
    BY DEF CommitCut, Inv, TypeOK, NoRows
  <1> HIDE DEF o, e
  <1> QED
    BY <1>2, <1>3, <1>4, <1>5, NamedCommit

LEMMA NamedCommitRestore ==
    ASSUME Inv, Named, NEW p \in Proc, CommitRestore(p)
    PROVE  Named'
PROOF
  <1> DEFINE e == [snap |-> Source(p), from |-> op[p].src]
             o == Idle
  <1>1. /\ op' = [op EXCEPT ![p] = o] /\ versions' = Plus(versions, op[p].N, e)
        /\ rows' = Over(pend[p], rows) /\ op[p].pc = "mcommit" /\ HoldsNumber(p)
        /\ pend' = [pend EXCEPT ![p] = NoRows] /\ snap' = snap
    BY DEF CommitRestore, Step, HoldsNumber
  <1>2. o.pc # "mwrite" /\ e.snap = Source(p)
    BY DEF Idle
  <1>3. op[p].src \in DOMAIN versions
    BY <1>1 DEF Inv, Numbering, NumbersHeld
  <1>4. Anchored(Source(p), rows)
    BY <1>3 DEF Source, Named
  <1> HIDE DEF e, o
  <1> QED
    BY <1>1, <1>2, <1>4, NamedCommit

LEMMA NamedStep == Inv /\ Preserving /\ Named /\ [Next]_vars => Named'
PROOF
  <1> SUFFICES ASSUME Inv, Preserving, Named, [Next]_vars PROVE Named'
    OBVIOUS
  <1>1. CASE Write
    BY <1>1, NamedCreate, NamedEdit, NamedDelete DEF Write
  <1>2. ASSUME NEW p \in Proc, Begin(p) PROVE Named'
    <2>1. CASE \E carry \in SUBSET Prunable : BeginCut(p, carry)
      <3>1. PICK carry \in SUBSET Prunable : BeginCut(p, carry)
        BY <2>1
      <3> DEFINE o == [Idle EXCEPT !.kind = "cut", !.pc = "read", !.N = version,
                                   !.carry = carry, !.mark = writes]
      <3>2. o.pc # "mwrite"
        BY DEF Idle
      <3>3. Step(p, o) /\ UNCHANGED <<version, versions, rows, writes, snap, pend>>
        BY <3>1 DEF BeginCut
      <3> HIDE DEF o
      <3> QED
        BY <3>2, <3>3, NamedMove
    <2>2. CASE \E v \in DOMAIN versions : BeginRestore(p, v)
      <3>1. PICK v \in DOMAIN versions : BeginRestore(p, v)
        BY <2>2
      <3> DEFINE o == [Idle EXCEPT !.kind = "restore", !.pc = "read", !.N = version,
                                   !.carry = Prunable, !.mark = writes, !.src = v]
      <3>2. o.pc # "mwrite"
        BY DEF Idle
      <3>3. Step(p, o) /\ UNCHANGED <<version, versions, rows, writes, snap, pend>>
        BY <3>1 DEF BeginRestore
      <3> HIDE DEF o
      <3> QED
        BY <3>2, <3>3, NamedMove
    <2> QED
      BY <1>2, <2>1, <2>2 DEF Begin
  <1>3. ASSUME NEW p \in Proc, InsertVersion(p) PROVE Named'
    <2> DEFINE o == [op[p] EXCEPT !.pc = IF op[p].pc = "insert" THEN "retire" ELSE "mcommit"]
    <2>1. op[p] \in Request
      BY Mine
    <2>2. o.pc # "mwrite"
      BY <2>1 DEF Request
    <2>3. Step(p, o) /\ UNCHANGED <<version, versions, rows, writes, snap, pend>>
      BY <1>3 DEF InsertVersion
    <2> HIDE DEF o
    <2> QED
      BY <2>2, <2>3, NamedMove
  <1>4. ASSUME NEW p \in Proc, BeginMaterialise(p) PROVE Named'
    <2> DEFINE o == [op[p] EXCEPT !.pc = "mread", !.N = version, !.i = 1]
    <2>1. op[p] \in Request
      BY Mine
    <2>2. o.pc # "mwrite"
      BY <2>1 DEF Request
    <2>3. Step(p, o) /\ UNCHANGED <<version, versions, rows, writes, snap, pend>>
      BY <1>4 DEF BeginMaterialise
    <2> HIDE DEF o
    <2> QED
      BY <2>2, <2>3, NamedMove
  <1>5. ASSUME NEW p \in Proc, Advance(p) PROVE Named'
    BY <1>3, <1>4, <1>5, NamedReadTable, NamedRetireTable, NamedCommitCut, NamedReadLive,
       NamedWriteTable, NamedCommitRestore, NamedIdling
       DEF Advance, FailUnique, FailTarget, FailDeadlock
  <1>6. ASSUME NEW p \in Proc, Crash(p) PROVE Named'
    BY <1>6, NamedIdling DEF Crash
  <1>7. CASE UNCHANGED vars
    <2>1. UNCHANGED <<version, versions, rows, writes, op, snap, pend>>
      BY <1>7 DEF vars
    <2>2. Lasts(rows, rows') /\ Anchored(rows', rows') /\ LastingSlots'
      BY <2>1, LastsItself DEF Named, LastingSlots
    <2> QED
      BY <2>1, <2>2, NamedWritten
  <1> QED
    BY <1>1, <1>2, <1>5, <1>6, <1>7 DEF Next

LEMMA NamedInvariance == Spec => [](Inv /\ Preserving /\ Named)
PROOF
  <1>1. Init => Inv /\ Preserving /\ Named
    BY InitInv, InitPreserving, InitNamed
  <1>2. Inv /\ Preserving /\ Named /\ [Next]_vars => (Inv /\ Preserving /\ Named)'
    BY NextStep, PreservingStep, NamedStep
  <1> QED
    BY <1>1, <1>2, PTL DEF Spec

(* SeqNamesOneArtifact, for the tables it is true of. *)
LastingSeqNamesOneArtifact ==
    LET all == {rows[id] : id \in DOMAIN rows} \cup
               UNION {{versions[v].snap[s] : s \in DOMAIN versions[v].snap} :
                        v \in DOMAIN versions}
    IN  \A r, s \in all : SameSlot(r, s) /\ r.cls \in Lasting => r.art = s.art

(* In a table nobody deletes rows from for good and no comment cascade      *)
(* reaches, a seq names one artifact for ever, live, retired and in every   *)
(* version: "the allocate-once identity" a restore matches rows by          *)
(* (versioning.ts:481-482), with cuts, restores and writers interleaved.    *)
THEOREM LastingSeqsName == Spec => []LastingSeqNamesOneArtifact
PROOF
  <1>1. ASSUME Named PROVE LastingSeqNamesOneArtifact
    <2> DEFINE all == {rows[id] : id \in DOMAIN rows} \cup
                      UNION {{versions[v].snap[s] : s \in DOMAIN versions[v].snap} :
                               v \in DOMAIN versions}
    <2>1. ASSUME NEW f, Anchored(f, rows), NEW id \in DOMAIN f, f[id].cls \in Lasting
          PROVE  \E a \in DOMAIN rows : /\ a[2] \in Lasting /\ SameSlot(f[id], rows[a])
                                        /\ f[id].art = rows[a].art
      BY <2>1 DEF Anchored
    <2>2. ASSUME NEW r \in all, r.cls \in Lasting
          PROVE  \E a \in DOMAIN rows : /\ a[2] \in Lasting /\ SameSlot(r, rows[a])
                                        /\ r.art = rows[a].art
      <3>1. CASE \E id \in DOMAIN rows : r = rows[id]
        BY <1>1, <2>1, <2>2, <3>1 DEF Named
      <3>2. CASE \E v \in DOMAIN versions : \E s \in DOMAIN versions[v].snap :
                    r = versions[v].snap[s]
        <4>1. PICK v \in DOMAIN versions : \E s \in DOMAIN versions[v].snap :
                    r = versions[v].snap[s]
          BY <3>2
        <4>2. PICK s \in DOMAIN versions[v].snap : r = versions[v].snap[s]
          BY <4>1
        <4>3. Anchored(versions[v].snap, rows)
          BY <1>1 DEF Named
        <4> QED
          BY <2>1, <2>2, <4>2, <4>3
      <3> QED
        BY <3>1, <3>2
    <2>3. ASSUME NEW r \in all, NEW s \in all, SameSlot(r, s), r.cls \in Lasting
          PROVE  r.art = s.art
      <3>1. s.cls \in Lasting
        BY <2>3 DEF SameSlot
      <3>2. PICK a \in DOMAIN rows : /\ a[2] \in Lasting /\ SameSlot(r, rows[a])
                                     /\ r.art = rows[a].art
        BY <2>2, <2>3
      <3>3. PICK b \in DOMAIN rows : /\ b[2] \in Lasting /\ SameSlot(s, rows[b])
                                     /\ s.art = rows[b].art
        BY <2>2, <3>1
      <3>4. SameSlot(rows[a], rows[b])
        BY <2>3, <3>2, <3>3 DEF SameSlot
      <3>5. a = b
        BY <1>1, <3>2, <3>4 DEF Named, LastingSlots
      <3> QED
        BY <3>2, <3>3, <3>5
    <2> QED
      BY <2>3 DEF LastingSeqNamesOneArtifact
  <1> QED
    BY <1>1, NamedInvariance, PTL

(* What a restore that cannot place a comment has met.                      *)
FailsOnlyOverLostTargets ==
    [][\A p \in Proc : FailTarget(p) =>
        \/ \E s \in SnapRows(p) : Source(p)[s].on[2] \in HardDeletable \cup Unwritten
        \/ \E id \in SeenIds(p) : rows[id].on[2] \in Unwritten]_vars

(* A restore is refused for a comment's target only where the version or    *)
(* the table has a comment on a row of a table whose rows are deleted for   *)
(* good, or on one no restore writes: over all other targets the comments'  *)
(* foreign keys "need no remapping" (versioning.ts:490-493, 694-696).       *)
THEOREM OtherTargetsAreFound == Spec => FailsOnlyOverLostTargets
PROOF
  <1>1. ASSUME Inv, Named, NEW p \in Proc, FailTarget(p)
        PROVE  \/ \E s \in SnapRows(p) : Source(p)[s].on[2] \in HardDeletable \cup Unwritten
               \/ \E id \in SeenIds(p) : rows[id].on[2] \in Unwritten
    <2>1. op[p].pc = "mwrite" /\ Dangles(p) /\ op[p].src \in DOMAIN versions
      BY <1>1 DEF FailTarget, Inv, NumbersHeld, Numbering
    <2>2. Anchored(Source(p), rows)
      BY <1>1, <2>1 DEF Named, Source
    (* A target of any other table is still there. *)
    <2>3. ASSUME NEW s \in SnapRows(p), ~Exists(Source(p)[s].on)
          PROVE  Source(p)[s].on[2] \in HardDeletable
      <3>1. s \in DOMAIN Source(p) /\ Source(p)[s].on # NoTarget
            /\ Source(p)[s].on \notin DOMAIN rows
        BY <2>3 DEF SnapRows, InTable, Exists
      <3>2. Source(p)[s].on[2] \in TableSet \ Hanging /\ Source(p)[s].on[2] \notin Lasting
        BY <2>2, <3>1 DEF Anchored
      <3> QED
        BY <3>2 DEF Lasting
    <2>4. CASE \E s \in Unmatched(p) : LET target == Source(p)[s].on
                                       IN  target[2] \in Unwritten \/ ~Exists(target)
      BY <2>3, <2>4 DEF Unmatched
    <2>5. CASE \E id \in SeenIds(p) : \E s \in SourceOf(p, id) :
                  LET target == Source(p)[s].on
                  IN  IF target[2] \in Unwritten THEN rows[id].on[2] \notin Unwritten
                      ELSE rows[id].on[2] \in Unwritten \/ ~Exists(target)
      BY <2>3, <2>5 DEF SourceOf
    <2> QED
      BY <2>1, <2>4, <2>5 DEF Dangles
  <1>2. Inv /\ Preserving /\ Named /\ [Next]_vars =>
            [\A p \in Proc : FailTarget(p) =>
                \/ \E s \in SnapRows(p) : Source(p)[s].on[2] \in HardDeletable \cup Unwritten
                \/ \E id \in SeenIds(p) : rows[id].on[2] \in Unwritten]_vars
    BY <1>1
  <1> QED
    BY <1>2, NamedInvariance, PTL DEF Spec, FailsOnlyOverLostTargets

-----------------------------------------------------------------------------
(* What of EveryRequestEnds needs no fairness *)

UnderWay == {p \in Proc : op[p].pc # "idle"}

(* A request that waits, waits for one under way: so either somebody can go *)
(* on, or somebody is in a cycle of waits.                                  *)
SomebodyCanMove == UnderWay # {} =>
    \E p \in UnderWay : Blockers(p) = {} \/ Deadlocked(p)

(* No wait is for a request that has ended: whatever the locks, one of the  *)
(* requests under way is free to take its next statement or is in a cycle,  *)
(* which the database breaks.  So the waits that the unique index on the    *)
(* number (versioning.ts:311-314) and the row locks cause cannot leave      *)
(* everyone waiting.                                                        *)
THEOREM NoStandstill == Spec => []SomebodyCanMove
PROOF
  <1>1. ASSUME Inv, Preserving, NEW p \in Proc, NEW q \in Blockers(p) PROVE q \in UnderWay
    <2>1. q \in Proc /\ (HoldsNumber(q) \/ \E id : LockedBy(q, id))
      <3>1. CASE op[p].pc \in {"insert", "minsert"}
        BY <1>1, <3>1 DEF Blockers
      <3>2. CASE op[p].pc = "retire"
        BY <1>1, <3>2 DEF Blockers
      <3>3. CASE op[p].pc = "mwrite"
        BY <1>1, <3>3 DEF Blockers, LockedBy
      <3> QED
        BY <1>1, <3>1, <3>2, <3>3 DEF Blockers
    <2>2. CASE HoldsNumber(q)
      BY <2>1, <2>2 DEF UnderWay, HoldsNumber
    <2>3. CASE \E id : LockedBy(q, id)
      BY <1>1, <2>1, <2>3 DEF UnderWay, LockedBy, Preserving, Careful, Clean
    <2> QED
      BY <2>1, <2>2, <2>3
  <1>2. Inv /\ Preserving => SomebodyCanMove
    <2> SUFFICES ASSUME Inv, Preserving, NEW p \in UnderWay,
                        \A q \in UnderWay : Blockers(q) # {}
                 PROVE  Deadlocked(p)
      BY DEF SomebodyCanMove
    <2>1. \A q \in UnderWay : Blockers(q) \cap UnderWay # {}
      <3> TAKE q \in UnderWay
      <3>1. PICK r \in Blockers(q) : TRUE
        OBVIOUS
      <3>2. r \in UnderWay
        BY <1>1, <3>1 DEF UnderWay
      <3> QED
        BY <3>1, <3>2
    <2>2. UnderWay \in SUBSET Proc
      BY DEF UnderWay
    <2> QED
      BY <2>1, <2>2 DEF Deadlocked
  <1> QED
    BY <1>2, PreservingInvariance, PTL

(* The statements a request has still to run, at most: for each table one   *)
(* read and one retirement, one read and one rewrite; two inserts, two      *)
(* commits and the start of the rewrite.                                    *)
TablesAhead(o) == Len(Tables) + 1 - o.i
Left(o) ==
    CASE o.pc = "idle" -> 0
      [] o.pc = "mcommit" -> 1
      [] o.pc = "minsert" -> 2
      [] o.pc = "mwrite" -> 1 + 2 * TablesAhead(o)
      [] o.pc = "mread" -> 2 + 2 * TablesAhead(o)
      [] o.pc = "between" -> 3 + 2 * Len(Tables)
      [] o.pc = "commit" -> 4 + 2 * Len(Tables)
      [] o.pc = "retire" -> 4 + 2 * Len(Tables) + TablesAhead(o)
      [] o.pc = "insert" -> 5 + 3 * Len(Tables)
      [] o.pc = "read" -> 5 + 3 * Len(Tables) + TablesAhead(o)

LEMMA SomeTables == Len(Tables) \in Nat \ {0}
  BY TablesAssumption

LEMMA LeftType == \A o \in Request : /\ Left(o) \in Nat /\ Left(o) <= 5 + 4 * Len(Tables)
                                     /\ o.pc # "idle" => Left(o) > 0
PROOF
  <1> TAKE o \in Request
  <1>1. /\ TablesAhead(o) \in 1 .. Len(Tables)
        /\ o.pc \in {"idle", "read", "insert", "retire", "commit", "between",
                     "mread", "mwrite", "minsert", "mcommit"}
    BY SomeTables DEF Request, TablesAhead
  <1> QED
    BY <1>1, SomeTables DEF Left

(* A cut or a restore never goes back: each statement it takes leaves fewer *)
(* to take, of 5 + 4 * Len(Tables) at most, and no other request's step and *)
(* no writer's puts it back.  There is no retry on either path              *)
(* (versioning.ts:280-333, 757-841): with NoStandstill, all that its end    *)
(* still asks for is that the database gives it its turns.                  *)
EachStepIsProgress ==
    [][\A p \in UnderWay : op'[p] = op[p] \/ Left(op'[p]) < Left(op[p])]_vars

LEMMA ProgressOf ==
    ASSUME Inv, NEW r \in Proc, NEW o, op' = [op EXCEPT ![r] = o],
           op[r].pc = "idle" \/ Left(o) < Left(op[r])
    PROVE  \A p \in UnderWay : op'[p] = op[p] \/ Left(op'[p]) < Left(op[p])
  BY DEF UnderWay, Inv, TypeOK

(* Where a request goes on to the next table, or on from the last one. *)
LEMMA LeftNext ==
    ASSUME NEW x \in Request, NEW y \in Request, NEW last \in BOOLEAN,
           last = (x.i = Len(Tables)), y.i = IF last THEN 1 ELSE x.i + 1,
           \/ x.pc = "read" /\ y.pc = IF last THEN "insert" ELSE "read"
           \/ x.pc = "retire" /\ y.pc = IF last THEN "commit" ELSE "retire"
           \/ x.pc = "mwrite" /\ y.pc = IF last THEN "minsert" ELSE "mread"
    PROVE  Left(y) < Left(x)
PROOF
  <1>1. x.i \in 1 .. Len(Tables) /\ Len(Tables) \in Nat \ {0}
    BY SomeTables DEF Request
  <1>2. CASE last
    BY <1>1, <1>2 DEF Left, TablesAhead
  <1>3. CASE ~last
    <2>1. TablesAhead(y) = TablesAhead(x) - 1 /\ TablesAhead(x) \in Nat
      BY <1>1, <1>3 DEF TablesAhead
    <2>2. /\ x.pc = "read" => Left(x) = 5 + 3 * Len(Tables) + TablesAhead(x)
          /\ x.pc = "retire" => Left(x) = 4 + 2 * Len(Tables) + TablesAhead(x)
          /\ x.pc = "mwrite" => Left(x) = 1 + 2 * TablesAhead(x)
          /\ y.pc = "read" => Left(y) = 5 + 3 * Len(Tables) + TablesAhead(y)
          /\ y.pc = "retire" => Left(y) = 4 + 2 * Len(Tables) + TablesAhead(y)
          /\ y.pc = "mread" => Left(y) = 2 + 2 * TablesAhead(y)
      BY DEF Left
    <2> QED
      BY <1>1, <1>3, <2>1, <2>2
  <1> QED
    BY <1>2, <1>3

LEMMA ProgressAdvance ==
    ASSUME Inv, NEW p \in Proc, Advance(p), op[p].pc # "idle"
    PROVE  \E o : op' = [op EXCEPT ![p] = o] /\ Left(o) < Left(op[p])
PROOF
  <1>1. op[p] \in Request /\ op[p].i \in 1 .. Len(Tables) /\ Len(Tables) \in Nat \ {0}
        /\ op' \in [Proc -> Request]
    <2>1. Inv'
      BY NextStep DEF Next
    <2> QED
      BY <2>1, Mine, SomeTables DEF Request, Inv, TypeOK
  <1>2. CASE ReadTable(p)
    <2> DEFINE o == [op[p] EXCEPT !.pc = IF LastTable(p) THEN "insert" ELSE "read",
                                  !.i = IF LastTable(p) THEN 1 ELSE op[p].i + 1]
    <2>1. op' = [op EXCEPT ![p] = o] /\ op[p].pc = "read" /\ o \in Request
      BY <1>1, <1>2 DEF ReadTable, Step, Inv, TypeOK
    <2>2. o.pc = (IF LastTable(p) THEN "insert" ELSE "read")
          /\ o.i = IF LastTable(p) THEN 1 ELSE op[p].i + 1
      BY <1>1 DEF Request
    <2> HIDE DEF o
    <2> QED
      BY <1>1, <2>1, <2>2, LeftNext DEF LastTable
  <1>3. CASE InsertVersion(p)
    <2> DEFINE o == [op[p] EXCEPT !.pc = IF op[p].pc = "insert" THEN "retire" ELSE "mcommit"]
    <2>1. op' = [op EXCEPT ![p] = o] /\ op[p].pc \in {"insert", "minsert"}
      BY <1>3 DEF InsertVersion, Step
    <2>2. o.pc = (IF op[p].pc = "insert" THEN "retire" ELSE "mcommit") /\ o.i = op[p].i
      BY <1>1 DEF Request
    <2> HIDE DEF o
    <2>3. Left(o) < Left(op[p])
      BY <1>1, <2>1, <2>2 DEF Left, TablesAhead
    <2> QED
      BY <2>1, <2>3
  <1>4. CASE RetireTable(p)
    <2> DEFINE o == [op[p] EXCEPT !.pc = IF LastTable(p) THEN "commit" ELSE "retire",
                                  !.i = IF LastTable(p) THEN 1 ELSE op[p].i + 1]
    <2>1. op' = [op EXCEPT ![p] = o] /\ op[p].pc = "retire" /\ o \in Request
      BY <1>1, <1>4 DEF RetireTable, Step, Inv, TypeOK
    <2>2. o.pc = (IF LastTable(p) THEN "commit" ELSE "retire")
          /\ o.i = IF LastTable(p) THEN 1 ELSE op[p].i + 1
      BY <1>1 DEF Request
    <2> HIDE DEF o
    <2> QED
      BY <1>1, <2>1, <2>2, LeftNext DEF LastTable
  <1>5. CASE CommitCut(p)
    <2> DEFINE o == IF op[p].kind = "cut" THEN Idle ELSE [op[p] EXCEPT !.pc = "between"]
    <2>1. op' = [op EXCEPT ![p] = o] /\ op[p].pc = "commit"
      BY <1>5 DEF CommitCut, Step
    <2>2. o.pc = "idle" \/ o.pc = "between"
      <3>1. CASE op[p].kind = "cut"
        BY <3>1 DEF Idle
      <3>2. CASE op[p].kind # "cut"
        <4> DEFINE x == [op[p] EXCEPT !.pc = "between"]
        <4>1. x.pc = "between" /\ o = x
          BY <1>1, <3>2 DEF Request
        <4> HIDE DEF o, x
        <4> QED
          BY <4>1
      <3> QED
        BY <3>1, <3>2
    <2> HIDE DEF o
    <2>3. Left(o) < Left(op[p])
      BY <1>1, <2>1, <2>2 DEF Left
    <2> QED
      BY <2>1, <2>3
  <1>6. CASE BeginMaterialise(p)
    <2> DEFINE o == [op[p] EXCEPT !.pc = "mread", !.N = version, !.i = 1]
    <2>1. op' = [op EXCEPT ![p] = o] /\ op[p].pc = "between"
      BY <1>6 DEF BeginMaterialise, Step
    <2>2. o.pc = "mread" /\ o.i = 1
      BY <1>1 DEF Request
    <2> HIDE DEF o
    <2>3. Left(o) < Left(op[p])
      BY <1>1, <2>1, <2>2 DEF Left, TablesAhead
    <2> QED
      BY <2>1, <2>3
  <1>7. CASE ReadLive(p)
    <2> DEFINE o == [op[p] EXCEPT !.pc = "mwrite",
                        !.seen = {<<id, rows[id].seq>> : id \in InTable(rows, TableAt(p))}]
    <2>1. op' = [op EXCEPT ![p] = o] /\ op[p].pc = "mread"
      BY <1>7 DEF ReadLive, Step
    <2>2. o.pc = "mwrite" /\ o.i = op[p].i
      BY <1>1 DEF Request
    <2> HIDE DEF o
    <2>3. Left(o) < Left(op[p])
      BY <1>1, <2>1, <2>2 DEF Left, TablesAhead
    <2> QED
      BY <2>1, <2>3
  <1>8. CASE WriteTable(p)
    <2> DEFINE o == [op[p] EXCEPT !.seen = {},
                                  !.pc = IF LastTable(p) THEN "minsert" ELSE "mread",
                                  !.i = IF LastTable(p) THEN 1 ELSE op[p].i + 1]
    <2>1. op' = [op EXCEPT ![p] = o] /\ op[p].pc = "mwrite" /\ o \in Request
      BY <1>1, <1>8 DEF WriteTable, Step, Inv, TypeOK
    <2>2. o.pc = (IF LastTable(p) THEN "minsert" ELSE "mread")
          /\ o.i = IF LastTable(p) THEN 1 ELSE op[p].i + 1
      BY <1>1 DEF Request
    <2> HIDE DEF o
    <2> QED
      BY <1>1, <2>1, <2>2, LeftNext DEF LastTable
  <1>9. CASE op' = [op EXCEPT ![p] = Idle]
    <2>1. Left(Idle) = 0
      BY DEF Left, Idle
    <2> QED
      BY <1>1, <1>9, <2>1, LeftType
  <1> QED
    BY <1>2, <1>3, <1>4, <1>5, <1>6, <1>7, <1>8, <1>9
       DEF Advance, CommitRestore, FailUnique, FailTarget, FailDeadlock, RollBack, Step

THEOREM RequestsProgress == Spec => EachStepIsProgress
PROOF
  <1>1. ASSUME Inv, [Next]_vars
        PROVE  \A p \in UnderWay : op'[p] = op[p] \/ Left(op'[p]) < Left(op[p])
    <2>1. CASE op' = op
      BY <2>1
    <2>2. ASSUME NEW r \in Proc, Begin(r)
          PROVE  \A p \in UnderWay : op'[p] = op[p] \/ Left(op'[p]) < Left(op[p])
      <3>1. \E o : op' = [op EXCEPT ![r] = o] /\ op[r].pc = "idle"
        BY <2>2 DEF Begin, BeginCut, BeginRestore, Step
      <3> QED
        BY <1>1, <3>1, ProgressOf
    <2>3. ASSUME NEW r \in Proc, Advance(r)
          PROVE  \A p \in UnderWay : op'[p] = op[p] \/ Left(op'[p]) < Left(op[p])
      <3>1. op[r].pc # "idle" \/ op' = [op EXCEPT ![r] = Idle]
        BY <2>3 DEF Advance, ReadTable, InsertVersion, RetireTable, CommitCut, BeginMaterialise,
                    ReadLive, WriteTable, CommitRestore, FailUnique, FailTarget, FailDeadlock,
                    RollBack, Step
      <3>2. CASE op[r].pc # "idle"
        BY <1>1, <2>3, <3>2, ProgressAdvance, ProgressOf
      <3>3. CASE op[r].pc = "idle" /\ op' = [op EXCEPT ![r] = Idle]
        <4> DEFINE o == Idle
        <4>1. op' = [op EXCEPT ![r] = o] /\ op[r].pc = "idle"
          BY <3>3
        <4> HIDE DEF o
        <4> QED
          BY <1>1, <4>1, ProgressOf
      <3> QED
        BY <3>1, <3>2, <3>3
    <2>4. ASSUME NEW r \in Proc, Crash(r)
          PROVE  \A p \in UnderWay : op'[p] = op[p] \/ Left(op'[p]) < Left(op[p])
      <3> DEFINE o == Idle
      <3>1. op' = [op EXCEPT ![r] = o] /\ op[r].pc # "idle" /\ Left(o) = 0
        BY <2>4 DEF Crash, RollBack, Step, Left, Idle
      <3> HIDE DEF o
      <3>2. Left(op[r]) \in Nat \ {0}
        BY <1>1, <3>1, Mine, LeftType
      <3> QED
        BY <1>1, <3>1, <3>2, ProgressOf
    <2> QED
      BY <1>1, <2>1, <2>2, <2>3, <2>4
         DEF Next, Write, Create, Edit, Delete, vars
  <1>2. Inv /\ [Next]_vars =>
            [\A p \in UnderWay : op'[p] = op[p] \/ Left(op'[p]) < Left(op[p])]_vars
    BY <1>1
  <1> QED
    BY <1>2, Invariance, PTL DEF Spec, EachStepIsProgress
=============================================================================
