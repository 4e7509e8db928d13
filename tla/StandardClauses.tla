--------------------------- MODULE StandardClauses ---------------------------
(***************************************************************************)
(* The clauses of one clause-first section of a standard: the verbs that   *)
(* write them (services/clauses.ts), the proposals that name them          *)
(* (proposeStandardChange, services/standards.ts) and the acceptance that  *)
(* applies a proposal (services/standard-accept.ts).                       *)
(*                                                                         *)
(* The verbs run concurrently, on one server or on several.  Each reads    *)
(* and checks outside a transaction, then runs one: its operations in      *)
(* order, then the section's content composed anew, then the commit.       *)
(* PostgreSQL runs it READ COMMITTED: a statement sees what is committed   *)
(* and what its own transaction wrote, and waits for a row another one has *)
(* written.  So an uncommitted row has one holder, and a statement is one  *)
(* action, enabled once it need not wait.  The UPDATEs of the section and  *)
(* of the proposal run last and belong to the commit.                      *)
(***************************************************************************)
EXTENDS Integers, Sequences, FiniteSets, SequencesExt

CONSTANTS
    Proc,       \* requests in progress
    Nobody,     \* no request
    Text,       \* clause bodies
    NoText,     \* the body of a row that does not exist
    MaxSeq,     \* bound: handles the standard issues
    MaxAt,      \* bound: positions a caller asks for
    MaxJobs,    \* bound: verbs called
    Proposal,   \* comments of type plan_revision
    NoProposal, \* the verb applies no proposal
    Draft,      \* the operation lists agents propose, without their "before"
    FirstBody   \* the bodies of the clauses the section starts with

Handle == 1..MaxSeq

ASSUME ProcAssumption == Nobody \notin Proc
ASSUME SeqAssumption == MaxSeq \in Nat /\ MaxAt \in Nat
ASSUME TextAssumption == NoText \notin Text
ASSUME ProposalAssumption == NoProposal \notin Proposal
ASSUME FirstAssumption == FirstBody \in Seq(Text) /\ Len(FirstBody) <= MaxSeq

(* An operation.  clause is the row it edits or deletes, or the anchor of  *)
(* an add; at is the position an insert asks for, 0 for none, and of an    *)
(* add 0 for "before" and 1 for "after"; before is the text a proposal     *)
(* read.  NoText fills what an operation does not use.                     *)
Op == [op : {"edit", "delete", "insert", "add"}, clause : Handle \cup {0},
       body : Text \cup {NoText}, at : Nat, before : Text \cup {NoText}]

ASSUME DraftAssumption ==
    \A d \in Draft :
        /\ d \in Seq(Op) /\ d # <<>>
        /\ \A i \in DOMAIN d : /\ d[i].op # "insert" /\ d[i].clause \in Handle
                               /\ d[i].op = "add" => d[i].at \in {0, 1}

Row == [status : {"none", "active", "deleted"}, body : Text \cup {NoText}, place : Nat]
NoRow == [status |-> "none", body |-> NoText, place |-> 0]

VARIABLES
    row,        \* standard_clauses, committed, by seq
    content,    \* doc_sections.content: the bodies it joins
    proposal,   \* doc_comments of type plan_revision: state and operations
    holder,     \* holder[h]: whose uncommitted version of row h exists
    draft,      \* draft[h]: that version
    pc,         \* pc[p]: where the request is
    todo,       \* todo[p]: its operations still to run
    number,     \* number[p]: the MAX(seq) it read
    ordinal,    \* ordinal[p]: the position it inserts at
    composed,   \* composed[p]: the content it composed
    of,         \* of[p]: the proposal it applies
    alone,      \* alone[p]: nothing was committed by others since it began (history)
    jobs        \* verbs called so far

table == <<row, content, proposal>>
locks == <<holder, draft>>
request == <<pc, todo, number, ordinal, composed, of>>
vars == <<table, locks, request, alone, jobs>>
-----------------------------------------------------------------------------
(* What a request's next statement sees.                                   *)
View(p) == [h \in Handle |-> IF holder[h] = p THEN draft[h] ELSE row[h]]

Live(r) == {h \in Handle : r[h].status = "active"}

(* ORDER BY position, seq.                                                 *)
Precedes(r, a, b) ==
    \/ r[a].place < r[b].place
    \/ r[a].place = r[b].place /\ a < b

(* The content regenerateSectionContentTx writes for these rows.           *)
Projection(r) ==
    LET ordered == SetToSortSeq(Live(r), LAMBDA a, b : Precedes(r, a, b))
    IN  [i \in DOMAIN ordered |-> r[ordered[i]].body]

Highest(m, S) == m \in S /\ \A x \in S : x <= m
-----------------------------------------------------------------------------
Init ==
    /\ row = [h \in Handle |-> IF h \in DOMAIN FirstBody
                                 THEN [status |-> "active", body |-> FirstBody[h], place |-> h]
                                 ELSE NoRow]
    /\ content = FirstBody
    /\ proposal = [k \in Proposal |-> [state |-> "none", ops |-> <<>>]]
    /\ holder = [h \in Handle |-> Nobody]
    /\ draft = [h \in Handle |-> NoRow]
    /\ pc = [p \in Proc |-> "idle"]
    /\ todo = [p \in Proc |-> <<>>]
    /\ number = [p \in Proc |-> 0]
    /\ ordinal = [p \in Proc |-> 0]
    /\ composed = [p \in Proc |-> <<>>]
    /\ of = [p \in Proc |-> NoProposal]
    /\ alone = [p \in Proc |-> TRUE]
    /\ jobs = 0

(* The checks of a verb have passed; its transaction is about to start.    *)
Begin(p, ops, k) ==
    /\ pc[p] = "idle" /\ jobs < MaxJobs
    /\ jobs' = jobs + 1
    /\ pc' = [pc EXCEPT ![p] = "running"]
    /\ todo' = [todo EXCEPT ![p] = ops]
    /\ of' = [of EXCEPT ![p] = k]
    /\ alone' = [alone EXCEPT ![p] = TRUE]
    /\ UNCHANGED <<table, locks, number, ordinal, composed>>

Plain(kind, h, b, n) == [op |-> kind, clause |-> h, body |-> b, at |-> n, before |-> NoText]

createClause(p, b, n) == Begin(p, <<Plain("insert", 0, b, n)>>, NoProposal)

(* A batch appends; the seq and the position it increments are the ones a  *)
(* second read would give, as its own first row holds the next seq.        *)
addClausesToSection(p, b, c) ==
    Begin(p, <<Plain("insert", 0, b, 0), Plain("insert", 0, c, 0)>>, NoProposal)

(* No check that the clause is live.                                       *)
updateClause(p, h, b) ==
    row[h].status # "none" /\ Begin(p, <<Plain("edit", h, b, 0)>>, NoProposal)

deleteClause(p, h) ==
    row[h].status = "active" /\ Begin(p, <<Plain("delete", h, NoText, 0)>>, NoProposal)

(* The text each operation replaces is read from the live clause.          *)
proposeStandardChange(k, ops) ==
    /\ proposal[k].state = "none"
    /\ \A i \in DOMAIN ops : row[ops[i].clause].status = "active"
    /\ proposal' = [proposal EXCEPT ![k] =
           [state |-> "open",
            ops |-> [i \in DOMAIN ops |-> [ops[i] EXCEPT !.before = row[ops[i].clause].body]]]]
    /\ UNCHANGED <<row, content, locks, request, alone, jobs>>

(* Mutant: only a deletion is compared.                                    *)
FreshIfDeleted(o) == o.op # "delete" \/ row[o.clause].body = o.before

(* dec-3: the text compared is the text reviewed.                          *)
Fresh(o) == o.op = "add" \/ row[o.clause].body = o.before

acceptStandardChange(p, k) ==
    LET ops == proposal[k].ops IN
    /\ proposal[k].state = "open"
    /\ \A i \in DOMAIN ops : row[ops[i].clause].status = "active" /\ Fresh(ops[i])
    /\ ~ \E i, j \in DOMAIN ops :
            ops[i].op = "add" /\ ops[j].op = "delete" /\ ops[i].clause = ops[j].clause
    /\ Begin(p, ops, k)

(* resolveComment and unresolveComment ask nothing.                        *)
Mark(k, state) ==
    /\ proposal[k].state \notin {"none", state}
    /\ proposal' = [proposal EXCEPT ![k].state = state]
    /\ alone' = [q \in Proc |-> alone[q] /\ of[q] # k]
    /\ UNCHANGED <<row, content, locks, request, jobs>>

resolveComment(k) == Mark(k, "resolved")
unresolveComment(k) == Mark(k, "open")
-----------------------------------------------------------------------------
Running(p, kind) == pc[p] = "running" /\ todo[p] # <<>> /\ Head(todo[p]).op = kind

(* Rows p can write without waiting.                                       *)
Free(p) == {h \in Handle : holder[h] \in {p, Nobody}}

Write(p, H, r) ==
    /\ H \subseteq Free(p)
    /\ holder' = [h \in Handle |-> IF h \in H THEN p ELSE holder[h]]
    /\ draft' = [h \in Handle |-> IF h \in H THEN r[h] ELSE draft[h]]
    /\ pc' = [pc EXCEPT ![p] = "running"]
    /\ todo' = [todo EXCEPT ![p] = Tail(todo[p])]
    /\ UNCHANGED <<table, number, ordinal, composed, of, alone, jobs>>

updateClauseBodyTx(p) ==
    LET o == Head(todo[p]) IN
    /\ Running(p, "edit")
    /\ Write(p, {o.clause}, [View(p) EXCEPT ![o.clause].body = o.body])

softDeleteClauseTx(p) ==
    LET o == Head(todo[p]) IN
    /\ Running(p, "delete")
    /\ Write(p, {o.clause}, [View(p) EXCEPT ![o.clause].status = "deleted"])

(* The anchor's current position, read inside the transaction.             *)
ReadAnchor(p) ==
    LET o == Head(todo[p]) IN
    /\ Running(p, "add")
    /\ ordinal' = [ordinal EXCEPT ![p] = View(p)[o.clause].place + o.at]
    /\ pc' = [pc EXCEPT ![p] = "anchored"]
    /\ UNCHANGED <<table, locks, todo, number, composed, of, alone, jobs>>

Appends(o) == o.op = "insert" /\ o.at = 0

(* insertClauseTx reads MAX(seq), over deleted rows too ...                *)
ReadMaxSeq(p) ==
    LET o == Head(todo[p])
        seqs == {0} \cup {h \in Handle : View(p)[h].status # "none"}
    IN
    /\ Running(p, "insert") \/ pc[p] = "anchored"
    /\ \E m \in seqs : Highest(m, seqs) /\ m < MaxSeq /\ number' = [number EXCEPT ![p] = m]
    /\ ordinal' = IF o.op = "insert" THEN [ordinal EXCEPT ![p] = o.at] ELSE ordinal
    /\ pc' = [pc EXCEPT ![p] = IF Appends(o) THEN "numbered" ELSE "counted"]
    /\ UNCHANGED <<table, locks, todo, composed, of, alone, jobs>>

(* ... and then, to append, MAX(position), another statement that sees     *)
(* what was committed in between.                                          *)
ReadMaxPosition(p) ==
    LET places == {0} \cup {View(p)[h].place : h \in Handle} IN
    /\ pc[p] = "numbered"
    /\ \E m \in places : Highest(m, places) /\ ordinal' = [ordinal EXCEPT ![p] = m + 1]
    /\ pc' = [pc EXCEPT ![p] = "counted"]
    /\ UNCHANGED <<table, locks, todo, number, composed, of, alone, jobs>>

(* shiftPositionsFromTx makes room among the live siblings, except for an  *)
(* append.                                                                 *)
Pushed(p) == {h \in Live(View(p)) : ~Appends(Head(todo[p])) /\ View(p)[h].place >= ordinal[p]}

(* Mutant: MAX(seq) is read after MAX(position).                           *)
MintedLate(p) ==
    CHOOSE n \in 1..MaxSeq + 1 : Highest(n - 1, {0} \cup {h \in Handle : View(p)[h].status # "none"})

Minted(p) == number[p] + 1

(* Mutant: without the unique index any seq is free.                       *)
SeqAlwaysFree(h) == TRUE

(* The seq is free in the unique index (doc_id, seq).                      *)
SeqFree(h) == row[h].status = "none"

insertClauseTx(p) ==
    LET o == Head(todo[p])  new == Minted(p)  r == View(p) IN
    /\ pc[p] = "counted"
    /\ SeqFree(new)
    /\ holder[new] = Nobody
    /\ Write(p, Pushed(p) \cup {new},
           [h \in Handle |-> IF h = new
                THEN [status |-> "active", body |-> o.body, place |-> ordinal[p]]
                ELSE [r[h] EXCEPT !.place = @ + 1]])

(* Mutant: the clauses are read through db instead of tx.                  *)
RegenerateOutsideTx(p) ==
    /\ pc[p] = "running" /\ todo[p] = <<>>
    /\ composed' = [composed EXCEPT ![p] = Projection(row)]
    /\ pc' = [pc EXCEPT ![p] = "composed"]
    /\ UNCHANGED <<table, locks, todo, number, ordinal, of, alone, jobs>>

regenerateSectionContentTx(p) ==
    /\ pc[p] = "running" /\ todo[p] = <<>>
    /\ composed' = [composed EXCEPT ![p] = Projection(View(p))]
    /\ pc' = [pc EXCEPT ![p] = "composed"]
    /\ UNCHANGED <<table, locks, todo, number, ordinal, of, alone, jobs>>

(* Mutant: the connection goes back to the pool, its transaction open.     *)
ReleaseOpen(p) ==
    /\ UNCHANGED <<holder, draft, jobs>>
    /\ pc' = [pc EXCEPT ![p] = "idle"]
    /\ todo' = [todo EXCEPT ![p] = <<>>]
    /\ number' = [number EXCEPT ![p] = 0]
    /\ ordinal' = [ordinal EXCEPT ![p] = 0]
    /\ composed' = [composed EXCEPT ![p] = <<>>]
    /\ of' = [of EXCEPT ![p] = NoProposal]

Release(p) ==
    /\ holder' = [h \in Handle |-> IF holder[h] = p THEN Nobody ELSE holder[h]]
    /\ draft' = [h \in Handle |-> IF holder[h] = p THEN NoRow ELSE draft[h]]
    /\ pc' = [pc EXCEPT ![p] = "idle"]
    /\ todo' = [todo EXCEPT ![p] = <<>>]
    /\ number' = [number EXCEPT ![p] = 0]
    /\ ordinal' = [ordinal EXCEPT ![p] = 0]
    /\ composed' = [composed EXCEPT ![p] = <<>>]
    /\ of' = [of EXCEPT ![p] = NoProposal]
    /\ UNCHANGED jobs

Commit(p) ==
    /\ pc[p] = "composed"
    /\ row' = View(p)
    /\ content' = composed[p]
    /\ proposal' = IF of[p] = NoProposal THEN proposal
                                         ELSE [proposal EXCEPT ![of[p]].state = "resolved"]
    /\ alone' = [q \in Proc |-> q = p]
    /\ Release(p)

(* The transaction is rolled back: the insert met a seq already committed, *)
(* a deadlock was broken here, or the server or the connection was lost.   *)
Abort(p) ==
    /\ pc[p] # "idle"
    /\ Release(p)
    /\ UNCHANGED <<table, alone>>

Next ==
    \/ \E p \in Proc :
        \/ \E b \in Text, n \in 0..MaxAt : createClause(p, b, n)
        \/ \E b, c \in Text : addClausesToSection(p, b, c)
        \/ \E h \in Handle, b \in Text : updateClause(p, h, b)
        \/ \E h \in Handle : deleteClause(p, h)
        \/ \E k \in Proposal : acceptStandardChange(p, k)
        \/ updateClauseBodyTx(p)
        \/ softDeleteClauseTx(p)
        \/ ReadAnchor(p)
        \/ ReadMaxSeq(p)
        \/ ReadMaxPosition(p)
        \/ insertClauseTx(p)
        \/ regenerateSectionContentTx(p)
        \/ Commit(p)
        \/ Abort(p)
    \/ \E k \in Proposal :
        \/ \E d \in Draft : proposeStandardChange(k, d)
        \/ resolveComment(k)
        \/ unresolveComment(k)

Spec == Init /\ [][Next]_vars
-----------------------------------------------------------------------------
(* The type of the state; a request in no transaction holds no row.  What  *)
(* content and composed are, Projection says.                              *)
TypeOK ==
    /\ row \in [Handle -> Row] /\ draft \in [Handle -> Row]
    /\ proposal \in [Proposal -> [state : {"none", "open", "resolved"}, ops : Seq(Op)]]
    /\ holder \in [Handle -> Proc \cup {Nobody}]
    /\ pc \in [Proc -> {"idle", "running", "anchored", "numbered", "counted", "composed"}]
    /\ todo \in [Proc -> Seq(Op)]
    /\ number \in [Proc -> 0..MaxSeq] /\ ordinal \in [Proc -> Nat]
    /\ DOMAIN composed = Proc
    /\ of \in [Proc -> Proposal \cup {NoProposal}]
    /\ alone \in [Proc -> BOOLEAN]
    /\ jobs \in Nat
    /\ \A h \in Handle : holder[h] = Nobody \/ pc[holder[h]] # "idle"

(* dec-5: no two live clauses share a position, in what is committed and   *)
(* in what any transaction is about to commit, although nothing locks the  *)
(* section: a position read before another insert committed is never used, *)
(* because the seq read after it is taken (shiftPositionsFromTx,           *)
(* standard_clauses_doc_seq_unique).                                       *)
Distinct(r) == \A a, b \in Live(r) : a # b => r[a].place # r[b].place

PlacesDistinct == Distinct(row) /\ \A p \in Proc : Distinct(View(p))

(* The handles and the order of clauses.ts: see ClauseLedger.              *)
Ledger == INSTANCE ClauseLedger WITH
    status <- [h \in Handle |-> row[h].status],
    before <- {x \in Live(row) \X Live(row) : Precedes(row, x[1], x[2])}

KeepsHandlesAndOrder == Ledger!Spec

(* The new clause of an add stands right by its anchor: only clauses this  *)
(* set adds come between.                                                  *)
ByItsAnchor(o, new, old) ==
    LET anchor == o.clause IN
    /\ IF o.at = 0 THEN Precedes(row', new, anchor) ELSE Precedes(row', anchor, new)
    /\ ~ \E h \in old \cap Live(row') :
            \/ Precedes(row', anchor, h) /\ Precedes(row', h, new)
            \/ Precedes(row', new, h) /\ Precedes(row', h, anchor)

(* The proposal was open, what it edits or deletes still read as reviewed, *)
(* each deletion and the last edit of each clause hold, each addition      *)
(* stands by its anchor, and nothing else is added.                        *)
AppliesWhole(k) ==
    LET ops == proposal[k].ops
        fresh == Live(row') \ Live(row)
        Overridden(i) == \E j \in DOMAIN ops :
                             j > i /\ ops[j].op = "edit" /\ ops[j].clause = ops[i].clause
    IN
    /\ proposal[k].state = "open"
    /\ Cardinality(fresh) = Cardinality({i \in DOMAIN ops : ops[i].op = "add"})
    /\ \A i \in DOMAIN ops :
        LET o == ops[i] IN
        /\ o.op # "add" => row[o.clause].body = o.before
        /\ o.op = "edit" /\ ~Overridden(i) => row'[o.clause].body = o.body
        /\ o.op = "delete" => o.clause \notin Live(row')
        /\ o.op = "add" =>
               \E h \in fresh : row'[h].body = o.body /\ ByItsAnchor(o, h, Live(row))

(* An acceptance nobody interferes with applies its proposal whole         *)
(* (acceptStandardChange: ac-10, dec-3, ac-19).                            *)
AppliesWhatWasReviewed ==
    [][\A p \in Proc : Commit(p) /\ of[p] # NoProposal /\ alone[p] => AppliesWhole(of[p])]_vars

(* The content is the text of the clauses, in order, whenever a change     *)
(* commits that no other commit overlapped, whatever state earlier ones    *)
(* left it in (regenerateSectionContentTx; header of clauses.ts).          *)
ContentHeals ==
    [][\A p \in Proc : Commit(p) /\ alone[p] => content' = Projection(row')]_vars
-----------------------------------------------------------------------------
(* "Applying blind at T1 discards the intervening edit silently": an       *)
(* acceptance that commits replaces only text the proposal was written     *)
(* against (standard-accept.ts, dec-3's staleness guard).                  *)
NoSilentDiscard ==
    [][\A p \in Proc : Commit(p) /\ of[p] # NoProposal =>
        \A i \in DOMAIN proposal[of[p]].ops : Fresh(proposal[of[p]].ops[i])]_vars

(* "content is the derived byte-identical projection of [the] clauses,     *)
(* maintained here" (header of clauses.ts).                                *)
ContentIsProjection == content = Projection(row)
=============================================================================
