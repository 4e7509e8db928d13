------------------------- MODULE DocumentVersioning -------------------------
(***************************************************************************)
(* Versions of one document (services/versioning.ts): cutVersion,          *)
(* restoreVersion and the reads they are built from, run by concurrent     *)
(* requests against a Postgres database at READ COMMITTED, while other     *)
(* requests create, edit and delete the document's artifacts.              *)
(*                                                                         *)
(* One step is one statement of a transaction.  What a transaction has     *)
(* written and not committed is in pend[p], invisible to the others, and   *)
(* the rows it has written are locked.  An artifact's text is abstracted   *)
(* to the stamp `rev' of the write that produced it and to `art', the      *)
(* artifact the text was written for; a soft delete is one of the edits.   *)
(***************************************************************************)
EXTENDS Naturals, Sequences, Functions

CONSTANTS
    Proc,           \* requests that cut or restore
    Tables,         \* the artifact tables, in the order the code visits them
    Prunable,       \* CARRY_FORWARD_CLASSES: those a cut may leave behind
    HardDeletable,  \* those whose service deletes rows for good
    Hanging,        \* those whose rows hang on a row of another (comments)
    Unwritten,      \* those with a target column a restore never writes (acs)
    QuietWriters,   \* TRUE: nobody writes artifacts during a cut or restore
    MaxVersion,     \* bound: no cut or restore starts at this version
    MaxWrites       \* bound on artifact writes

TableSet == {Tables[i] : i \in 1 .. Len(Tables)}

ASSUME TablesAssumption == /\ Tables \in Seq(STRING) /\ Tables # <<>>
                           /\ Prunable \subseteq TableSet
                           /\ HardDeletable \subseteq TableSet
                           /\ Hanging \subseteq TableSet
                           /\ Unwritten \subseteq TableSet
ASSUME BoundsAssumption == /\ MaxVersion \in Nat /\ MaxWrites \in Nat
                           /\ QuietWriters \in BOOLEAN

VARIABLES
    version,    \* documents.version: the number the next cut will take
    versions,   \* document_versions: number -> [snap, from]
    rows,       \* the six artifact tables: RowId -> Row
    writes,     \* artifact writes so far; stamps the next text
    op,         \* op[p]: where request p stands
    snap,       \* snap[p]: what the snapshot p is building holds so far
    pend        \* pend[p]: rows p's open transaction has written

vars == <<version, versions, rows, writes, op, snap, pend>>

(* A row is named by the write that created it or by the restore (its       *)
(* version, the table and the seq) that reinserted it.                      *)
RowId == Nat \X TableSet \X Nat

(* `on' is the one of section_id, decision_id, task_id and ac_id that is    *)
(* not null, with the class that says which; retired = 0 is                 *)
(* retired_at_version IS NULL.                                              *)
Target == Nat \X (TableSet \cup {"none"}) \X Nat
NoTarget == <<0, "none", 0>>
Row == [cls : TableSet, seq : Nat, art : Nat, rev : Nat, retired : Nat, on : Target]

NoRows == << >>
Idle == [kind |-> "none", pc |-> "idle", N |-> 0, i |-> 1, carry |-> {},
         src |-> 0, mark |-> 0, seen |-> {}]

-----------------------------------------------------------------------------
(* Rows, locks and waiting *)

InTable(f, c) == {id \in DOMAIN f : f[id].cls = c}
Over(f, g) == [x \in DOMAIN f \cup DOMAIN g |-> IF x \in DOMAIN f THEN f[x] ELSE g[x]]
Plus(f, x, e) == Over([y \in {x} |-> e], f)
SameSlot(r, s) == r.cls = s.cls /\ r.seq = s.seq

LockedBy(q, id) == id \in DOMAIN pend[q]
Locked(id) == \E q \in Proc : LockedBy(q, id)

(* The insert of the version row has been made and not committed. *)
HoldsNumber(q) == op[q].pc \in {"retire", "commit", "mcommit"}

TableAt(p) == Tables[op[p].i]
(* Mutant: runs off the end of the tables. *)
LastTablePlusOne(p) == op[p].i > Len(Tables)

LastTable(p) == op[p].i = Len(Tables)

Live(f) == {id \in DOMAIN f : f[id].retired = 0}

(* retiredAtVersion is set only on live rows of a class not carried. *)
ToRetire(p) == IF TableAt(p) \in Prunable \ op[p].carry
               THEN InTable(rows, TableAt(p)) \cap Live(rows) ELSE {}

(* reconcile(): the snapshot's rows of the table, the one a live row the    *)
(* restore has read (seen) is matched with by seq, and those with no match. *)
Source(p) == versions[op[p].src].snap
SnapRows(p) == InTable(Source(p), TableAt(p))
SourceOf(p, id) == {s \in SnapRows(p) : <<id, Source(p)[s].seq>> \in op[p].seen}
Unmatched(p) == {s \in SnapRows(p) : \A e \in op[p].seen : e[2] # Source(p)[s].seq}
SeenIds(p) == {e[1] : e \in op[p].seen} \cap DOMAIN rows

(* What keeps a table from being reconciled: UNIQUE(doc_id, seq), and the   *)
(* foreign keys and the CHECK that a comment has exactly one target.  A row *)
(* reinserted without its target column has none; a matched row whose       *)
(* target is in that column keeps it, beside or instead of the snapshot's.  *)
Collides(p) == \E s \in Unmatched(p), id \in DOMAIN rows :
                    SameSlot(rows[id], Source(p)[s])

(* Mutant: the target columns have no foreign keys. *)
ExistsOrNot(target) == target \in RowId \cup {NoTarget}

Exists(target) == target \in DOMAIN rows \cup {NoTarget}
Dangles(p) ==
    \/ \E s \in Unmatched(p) : LET target == Source(p)[s].on
                              IN  target[2] \in Unwritten \/ ~Exists(target)
    \/ \E id \in SeenIds(p) : \E s \in SourceOf(p, id) :
            LET target == Source(p)[s].on
            IN  IF target[2] \in Unwritten THEN rows[id].on[2] \notin Unwritten
                ELSE rows[id].on[2] \in Unwritten \/ ~Exists(target)

Blockers(p) ==
    CASE op[p].pc \in {"insert", "minsert"} ->
            {q \in Proc \ {p} : HoldsNumber(q) /\ op[q].N = op[p].N}
      [] op[p].pc = "retire" ->
            {q \in Proc \ {p} : \E id \in ToRetire(p) : LockedBy(q, id)}
      [] op[p].pc = "mwrite" ->
            {q \in Proc \ {p} :
                \/ \E id \in SeenIds(p) : LockedBy(q, id)
                \/ \E sid \in Unmatched(p), id \in DOMAIN pend[q] :
                        SameSlot(pend[q][id], Source(p)[sid])}
      [] OTHER -> {}

(* A cycle of requests each waiting for a lock of another in it. *)
Deadlocked(p) == \E S \in SUBSET Proc :
                    p \in S /\ \A q \in S : Blockers(q) \cap S # {}

-----------------------------------------------------------------------------
(* The document's writers: single-statement transactions *)

MayWrite == /\ writes < MaxWrites
            /\ QuietWriters => \A p \in Proc : op[p].pc = "idle"

(* nextSeq: MAX(seq) + 1 over the rows that are there, retired or not. *)
IsNextSeq(c, s) == LET used == {rows[id].seq : id \in InTable(rows, c)} \cup {0}
                   IN  s - 1 \in used /\ \A k \in used : k < s

(* An insert at a (doc, seq) another transaction has inserted waits for it, *)
(* and takes the next seq if it commits (withSeqRetry).  A comment hangs on *)
(* a row of another class.                                                  *)
Create(c, on) == \E s \in 1 .. writes + 1 :
    LET row == [cls |-> c, seq |-> s, art |-> writes + 1, rev |-> writes + 1,
                retired |-> 0, on |-> on]
    IN  /\ MayWrite
        /\ IsNextSeq(c, s)
        /\ IF c \in Hanging THEN on \in DOMAIN rows /\ rows[on].cls \notin Hanging
           ELSE on = NoTarget
        /\ \A q \in Proc : \A id \in DOMAIN pend[q] : ~SameSlot(pend[q][id], row)
        /\ rows' = Plus(rows, <<0, c, writes + 1>>, row)
        /\ writes' = writes + 1
        /\ UNCHANGED <<version, versions, op, snap, pend>>

Edit(id) ==
    /\ MayWrite
    /\ ~Locked(id)
    /\ rows' = [rows EXCEPT ![id].rev = writes + 1]
    /\ writes' = writes + 1
    /\ UNCHANGED <<version, versions, op, snap, pend>>

(* deleteAc, deleteTask, deleteIssue, deleteComment: the comments on the    *)
(* row go with it (ON DELETE CASCADE).                                      *)
Delete(id) ==
    LET gone == {id} \cup {x \in DOMAIN rows : rows[x].on = id}
    IN  /\ MayWrite
        /\ rows[id].cls \in HardDeletable
        /\ \A x \in gone : ~Locked(x)
        /\ \A q \in Proc : \A x \in DOMAIN pend[q] : pend[q][x].on # id
        /\ rows' = Restrict(rows, DOMAIN rows \ gone)
        /\ UNCHANGED <<version, versions, writes, op, snap, pend>>

Write == \/ \E c \in TableSet, on \in DOMAIN rows \cup {NoTarget} : Create(c, on)
         \/ \E id \in DOMAIN rows : Edit(id) \/ Delete(id)

-----------------------------------------------------------------------------
(* cutVersion *)

Step(p, f) == op' = [op EXCEPT ![p] = f]

BeginCut(p, carry) ==
    /\ op[p].pc = "idle"
    /\ version < MaxVersion
    /\ Step(p, [Idle EXCEPT !.kind = "cut", !.pc = "read", !.N = version,
                            !.carry = carry, !.mark = writes])
    /\ UNCHANGED <<version, versions, rows, writes, snap, pend>>

(* Mutant: the snapshot leaves out the classes the cut leaves behind. *)
ReadTableIfCarried(p) ==
    LET read == IF TableAt(p) \in Prunable \ op[p].carry THEN {}
                ELSE InTable(rows, TableAt(p))
    IN  /\ op[p].pc = "read"
        /\ snap' = [snap EXCEPT ![p] = Over(Restrict(rows, read), @)]
        /\ Step(p, [op[p] EXCEPT !.pc = IF LastTable(p) THEN "insert" ELSE "read",
                                 !.i = IF LastTable(p) THEN 1 ELSE op[p].i + 1])
        /\ UNCHANGED <<version, versions, rows, writes, pend>>

(* Mutant: the snapshot is the live view. *)
ReadTableLive(p) ==
    LET read == InTable(rows, TableAt(p)) \cap Live(rows)
    IN  /\ op[p].pc = "read"
        /\ snap' = [snap EXCEPT ![p] = Over(Restrict(rows, read), @)]
        /\ Step(p, [op[p] EXCEPT !.pc = IF LastTable(p) THEN "insert" ELSE "read",
                                 !.i = IF LastTable(p) THEN 1 ELSE op[p].i + 1])
        /\ UNCHANGED <<version, versions, rows, writes, pend>>

(* buildSnapshot: every row of the table, live or retired. *)
ReadTable(p) ==
    /\ op[p].pc = "read"
    /\ snap' = [snap EXCEPT ![p] = Over(Restrict(rows, InTable(rows, TableAt(p))), @)]
    /\ Step(p, [op[p] EXCEPT
            !.pc = IF LastTable(p) THEN "insert" ELSE "read",
            !.i = IF LastTable(p) THEN 1 ELSE op[p].i + 1])
    /\ UNCHANGED <<version, versions, rows, writes, pend>>

(* Mutant: no unique index on (doc_id, version_number). *)
InsertVersionAnyway(p) ==
    /\ op[p].pc \in {"insert", "minsert"}
    /\ Step(p, [op[p] EXCEPT !.pc = IF op[p].pc = "insert" THEN "retire"
                                    ELSE "mcommit"])
    /\ UNCHANGED <<version, versions, rows, writes, snap, pend>>

(* UNIQUE(doc_id, version_number): a number already there fails the         *)
(* request; one another transaction has inserted is waited for.             *)
InsertVersion(p) ==
    /\ op[p].pc \in {"insert", "minsert"}
    /\ op[p].N \notin DOMAIN versions
    /\ Blockers(p) = {}
    /\ Step(p, [op[p] EXCEPT !.pc = IF op[p].pc = "insert" THEN "retire"
                                    ELSE "mcommit"])
    /\ UNCHANGED <<version, versions, rows, writes, snap, pend>>

Retired(p) == [id \in ToRetire(p) |-> [rows[id] EXCEPT !.retired = op[p].N]]

RetireTable(p) ==
    /\ op[p].pc = "retire"
    /\ Blockers(p) = {}
    /\ pend' = [pend EXCEPT ![p] = Over(Retired(p), @)]
    /\ Step(p, [op[p] EXCEPT !.pc = IF LastTable(p) THEN "commit" ELSE "retire",
                             !.i = IF LastTable(p) THEN 1 ELSE op[p].i + 1])
    /\ UNCHANGED <<version, versions, rows, writes, snap>>

(* A restore's checkpoint is a cut that carries everything; the restore     *)
(* goes on from it in a transaction of its own.                             *)
CommitCut(p) ==
    /\ op[p].pc = "commit"
    /\ versions' = Plus(versions, op[p].N, [snap |-> snap[p], from |-> 0])
    /\ version' = op[p].N + 1
    /\ rows' = Over(pend[p], rows)
    /\ pend' = [pend EXCEPT ![p] = NoRows]
    /\ Step(p, IF op[p].kind = "cut" THEN Idle
               ELSE [op[p] EXCEPT !.pc = "between"])
    /\ snap' = [snap EXCEPT ![p] = NoRows]
    /\ UNCHANGED writes

-----------------------------------------------------------------------------
(* restoreVersion *)

BeginRestore(p, v) ==
    /\ op[p].pc = "idle"
    /\ version < MaxVersion
    /\ Step(p, [Idle EXCEPT !.kind = "restore", !.pc = "read", !.N = version,
                            !.carry = Prunable, !.mark = writes, !.src = v])
    /\ UNCHANGED <<version, versions, rows, writes, snap, pend>>

BeginMaterialise(p) ==
    /\ op[p].pc = "between"
    /\ Step(p, [op[p] EXCEPT !.pc = "mread", !.N = version, !.i = 1])
    /\ UNCHANGED <<version, versions, rows, writes, snap, pend>>

ReadLive(p) ==
    /\ op[p].pc = "mread"
    /\ Step(p, [op[p] EXCEPT !.pc = "mwrite",
            !.seen = {<<id, rows[id].seq>> : id \in InTable(rows, TableAt(p))}])
    /\ UNCHANGED <<version, versions, rows, writes, snap, pend>>

(* Mutant: a matched row keeps its own retirement. *)
RestoredUnretired(r, s) ==
    [r EXCEPT !.art = s.art, !.rev = s.rev,
              !.on = IF s.on[2] \in Unwritten THEN r.on ELSE s.on]

(* contentFields: what a matched row r takes from the snapshot's row s. *)
Restored(r, s) ==
    [r EXCEPT !.art = s.art, !.rev = s.rev, !.retired = s.retired,
              !.on = IF s.on[2] \in Unwritten THEN r.on ELSE s.on]

(* Mutant: rows the snapshot lacks are left as they are. *)
ReconciledMatches(p) ==
    [id \in {i \in SeenIds(p) : SourceOf(p, i) # {}} |->
        Restored(rows[id], Source(p)[CHOOSE s \in SourceOf(p, id) : TRUE])]

(* reconcile: a row matched by seq takes the snapshot's content (an update  *)
(* of a row since deleted changes nothing), a snapshot row with no match is *)
(* inserted under a fresh id, and a row of a seq the snapshot lacks is      *)
(* retired at the source version.                                           *)
Reconciled(p) ==
    [id \in SeenIds(p) |->
        IF SourceOf(p, id) # {}
        THEN Restored(rows[id], Source(p)[CHOOSE s \in SourceOf(p, id) : TRUE])
        ELSE [rows[id] EXCEPT !.retired = op[p].src]]

Reinserted(p) ==
    LET of(id) == CHOOSE s \in Unmatched(p) : Source(p)[s].seq = id[3]
    IN  [id \in {<<op[p].N, TableAt(p), Source(p)[s].seq>> : s \in Unmatched(p)} |->
            Source(p)[of(id)]]

WriteTable(p) ==
    /\ op[p].pc = "mwrite"
    /\ Blockers(p) = {}
    /\ ~Collides(p) /\ ~Dangles(p)
    /\ pend' = [pend EXCEPT ![p] = Over(Reconciled(p), Over(Reinserted(p), @))]
    /\ Step(p, [op[p] EXCEPT !.seen = {},
                             !.pc = IF LastTable(p) THEN "minsert" ELSE "mread",
                             !.i = IF LastTable(p) THEN 1 ELSE op[p].i + 1])
    /\ UNCHANGED <<version, versions, rows, writes, snap>>

(* Mutant: the new version is read back from the rows just written. *)
CommitRestoreReread(p) ==
    /\ op[p].pc = "mcommit"
    /\ versions' = Plus(versions, op[p].N, [snap |-> Over(pend[p], rows), from |-> op[p].src])
    /\ version' = op[p].N + 1
    /\ rows' = Over(pend[p], rows)
    /\ pend' = [pend EXCEPT ![p] = NoRows]
    /\ Step(p, Idle)
    /\ UNCHANGED <<writes, snap>>

(* The new version is the source's snapshot, byte for byte. *)
CommitRestore(p) ==
    /\ op[p].pc = "mcommit"
    /\ versions' = Plus(versions, op[p].N, [snap |-> Source(p), from |-> op[p].src])
    /\ version' = op[p].N + 1
    /\ rows' = Over(pend[p], rows)
    /\ pend' = [pend EXCEPT ![p] = NoRows]
    /\ Step(p, Idle)
    /\ UNCHANGED <<writes, snap>>

-----------------------------------------------------------------------------
(* The ways a request fails: its transaction is rolled back.  A restore     *)
(* that fails after its checkpoint leaves the checkpoint.                   *)

RollBack(p) ==
    /\ Step(p, Idle)
    /\ pend' = [pend EXCEPT ![p] = NoRows]
    /\ snap' = [snap EXCEPT ![p] = NoRows]
    /\ UNCHANGED <<version, versions, rows, writes>>

(* Mutant: a taken version number is not an error. *)
FailUniqueRowsOnly(p) ==
    /\ op[p].pc = "mwrite" /\ Collides(p)
    /\ RollBack(p)

(* 23505 from one of the two unique constraints. *)
FailUnique(p) ==
    /\ \/ op[p].pc \in {"insert", "minsert"} /\ op[p].N \in DOMAIN versions
       \/ op[p].pc = "mwrite" /\ Collides(p)
    /\ RollBack(p)

(* 23503 or 23514: a comment would be left without its one target. *)
FailTarget(p) == op[p].pc = "mwrite" /\ Dangles(p) /\ RollBack(p)

(* The database's deadlock detector picks p as its victim. *)
FailDeadlock(p) == Deadlocked(p) /\ RollBack(p)

(* The server dies, or its connection does. *)
Crash(p) == op[p].pc # "idle" /\ RollBack(p)

-----------------------------------------------------------------------------
Init == /\ version = 1
        /\ versions = << >>
        /\ rows = NoRows
        /\ writes = 0
        /\ op = [p \in Proc |-> Idle]
        /\ snap = [p \in Proc |-> NoRows]
        /\ pend = [p \in Proc |-> NoRows]

Begin(p) == \/ \E carry \in SUBSET Prunable : BeginCut(p, carry)
            \/ \E v \in DOMAIN versions : BeginRestore(p, v)

Advance(p) == \/ ReadTable(p)
              \/ InsertVersion(p)
              \/ RetireTable(p)
              \/ CommitCut(p)
              \/ BeginMaterialise(p)
              \/ ReadLive(p)
              \/ WriteTable(p)
              \/ CommitRestore(p)
              \/ FailUnique(p) \/ FailTarget(p)
              \/ FailDeadlock(p)

Next == Write \/ \E p \in Proc : Begin(p) \/ Advance(p) \/ Crash(p)

Spec == Init /\ [][Next]_vars

(* Postgres runs the statements it is sent, breaks the deadlocks it meets   *)
(* and hands a released lock to the longest waiter, so a request that waits *)
(* is not passed over for ever: strong fairness.  Nothing obliges anyone to *)
(* start a request, to write or to crash.                                   *)
FairSpec == Spec /\ \A p \in Proc : SF_vars(Advance(p))

-----------------------------------------------------------------------------
IsRows(f) == DOMAIN f \subseteq RowId /\ \A id \in DOMAIN f : f[id] \in Row

Request ==
    [kind : {"none", "cut", "restore"},
     pc   : {"idle", "read", "insert", "retire", "commit", "between",
             "mread", "mwrite", "minsert", "mcommit"},
     N : Nat, i : 1 .. Len(Tables), carry : SUBSET Prunable, src : Nat, mark : Nat,
     seen : SUBSET (RowId \X Nat)]

TypeOK ==
    /\ version \in Nat \ {0}
    /\ \A v \in DOMAIN versions : /\ v \in Nat \ {0}
                                  /\ versions[v].from \in Nat
                                  /\ IsRows(versions[v].snap)
    /\ IsRows(rows)
    /\ writes \in Nat
    /\ op \in [Proc -> Request]
    /\ DOMAIN snap = Proc /\ DOMAIN pend = Proc
    /\ \A p \in Proc : IsRows(snap[p]) /\ IsRows(pend[p])

(* document_versions numbers a document's versions 1, 2, 3, ... with no gap *)
(* and no repeat, up to the last one before documents.version: concurrent   *)
(* cuts and restores that read the same number never both keep it           *)
(* (schema.ts:1340, versioning.ts:311-314).                                 *)
Numbering == DOMAIN versions = 1 .. version - 1

(* Both inserts and the advance of the counter are one append to a log that *)
(* is never rewritten, and a restored version is the verbatim copy of an    *)
(* older one (versioning.ts:757-772).                                       *)
History == INSTANCE VersionLog WITH log <- [v \in 1 .. version - 1 |-> versions[v]]
AppendOnlyHistory == History!Spec

Text(r) == <<r.cls, r.seq, r.art, r.rev>>
Archived(r) == \E v \in DOMAIN versions : \E s \in DOMAIN versions[v].snap :
                  versions[v].snap[s].rev = r.rev

(* The texts a restore replaces were either in some version or written after *)
(* the restore was asked for: the checkpoint covers all that came before.   *)
RestoreLosesOnlyLateWrites ==
    [][\A p \in Proc : CommitRestore(p) =>
        \A id \in DOMAIN rows :
            \/ rows'[id].rev = rows[id].rev
            \/ rows[id].rev > op[p].mark
            \/ Archived(rows[id])]_vars

(* Rolling back loses nothing: `so the pre-restore state is never lost      *)
(* (ac-20)' (versioning.ts:764).                                            *)
RestoreLosesNothing ==
    [][\A p \in Proc : CommitRestore(p) =>
        \A id \in DOMAIN rows : rows'[id].rev = rows[id].rev \/ Archived(rows[id])]_vars

(* An artifact a cut retires from the working set at version N is in the    *)
(* frozen version N, where readers are told to find it (versioning.ts:12-16).*)
CutArchivesWhatItRetires ==
    [][\A p \in Proc : CommitCut(p) =>
        \A id \in DOMAIN rows : rows'[id].retired # rows[id].retired
                                    => id \in DOMAIN snap[p]]_vars

(* With writes going on, what slips past the snapshot was created after the *)
(* cut was asked for.                                                       *)
CutStrandsOnlyLateWrites ==
    [][\A p \in Proc : CommitCut(p) =>
        \A id \in DOMAIN rows : rows'[id].retired # rows[id].retired
                => id \in DOMAIN snap[p] \/ rows[id].rev > op[p].mark]_vars

(* A retired artifact renders in the version it was retired at: the leave-  *)
(* behind marker's meaning, for cuts (12-16) and restores (486-489) alike.  *)
RetiredRendersInItsVersion ==
    \A id \in DOMAIN rows : rows[id].retired # 0 =>
        \E s \in DOMAIN versions[rows[id].retired].snap :
            versions[rows[id].retired].snap[s].art = rows[id].art

(* Nothing but another request makes a restore fail: `comments' ... FKs     *)
(* need no remapping at all: a matched row keeps its id' (versioning.ts      *)
(* 490-493), and what was deleted is inserted again (482-485).              *)
RestoreFindsItsTargets == [][\A p \in Proc : ~FailTarget(p)]_vars

(* After a restore every live comment hangs on the artifact it hung on in   *)
(* the version restored (versioning.ts:694-696).                            *)
RestoreKeepsTargets ==
    [][\A p \in Proc : CommitRestore(p) =>
        \A id \in Live(rows') : rows'[id].on # NoTarget =>
            \E s \in DOMAIN Source(p) :
                /\ Source(p)[s].cls = rows'[id].cls /\ Source(p)[s].art = rows'[id].art
                /\ rows'[id].on \in DOMAIN rows'
                /\ Source(p)[Source(p)[s].on].art = rows'[rows'[id].on].art]_vars

LiveTexts(f) == {Text(f[id]) : id \in Live(f)}

(* A restore leaves the working set as the version it restores had it: the  *)
(* same live artifacts with the same texts, whatever cuts and restores ran  *)
(* beside it.                                                               *)
RestoreMaterialisesSource ==
    [][\A p \in Proc : CommitRestore(p) =>
        LiveTexts(rows') = LiveTexts(Source(p))]_vars

(* With writes going on, everything live after a restore is either in the   *)
(* source or was written after the restore was asked for.                   *)
RestoreLeavesNothingStale ==
    [][\A p \in Proc : CommitRestore(p) =>
        \A id \in Live(rows') : \/ Text(rows'[id]) \in LiveTexts(Source(p))
                                \/ rows'[id].rev > op[p].mark]_vars

(* The seq a restore matches rows by is `the allocate-once identity every   *)
(* one of these tables already carries' (versioning.ts:481-482): within a   *)
(* table it never names two artifacts, neither live nor in any version.     *)
SeqNamesOneArtifact ==
    LET all == {rows[id] : id \in DOMAIN rows} \cup
               UNION {{versions[v].snap[s] : s \in DOMAIN versions[v].snap} :
                        v \in DOMAIN versions}
    IN  \A r, s \in all : SameSlot(r, s) => r.art = s.art

(* Every cut and restore ends, committed or refused: the waits the unique   *)
(* index and the row locks cause never last for ever.                       *)
EveryRequestEnds == \A p \in Proc : op[p].pc # "idle" ~> op[p].pc = "idle"
=============================================================================
