--------------------------- MODULE SpecGovernance ---------------------------
(***************************************************************************)
(* How the criteria of one Spec may change (services/acs.ts,               *)
(* ac-supersession.ts, done-gate.ts, spec-reopen.ts, lifecycle-journal.ts  *)
(* and updateDocStatus in documents.ts).  A criterion that reads as        *)
(* satisfied, or whose Spec is closed, is changed by a proposal a human    *)
(* accepts; a Spec with an undecided proposal closes by a recorded         *)
(* override, and reopens with a recorded reason.                           *)
(*                                                                         *)
(* A request checks what it has to, awaits, and then writes in one         *)
(* transaction: Check... and the action after it are two steps.  What only *)
(* looks a row up before writing is one.  Nothing serves requests one at a *)
(* time: between a check and its write anything else may happen, and what  *)
(* the properties say is how much can slip through.  Statements are the    *)
(* stamps of the writes that made them; a criterion is known by its first  *)
(* statement.  `mark' is history: what there was when the request looked.  *)
(***************************************************************************)
EXTENDS Naturals, Sequences, FiniteSets, Functions

CONSTANTS
    Proc,       \* requests that may be under way at once
    Phases,     \* the phases of a Spec before `done'
    Tests,      \* test identifiers
    Ops,        \* what else people do, see below
    MaxTexts,   \* bound on statements written
    MaxFiled,   \* bound on proposals
    MaxJournal  \* bound on journal entries

(* "sign": criteria are signed off by hand;  "age": runs grow stale;        *)
(* "resolve", "unresolve": proposals are handled by the generic comment     *)
(* verbs;  "retire": tests are retired;  "delete": criteria are deleted.    *)
ASSUME OpsAssumption ==
    Ops \subseteq {"sign", "age", "resolve", "unresolve", "retire", "delete"}
ASSUME PhasesAssumption == Phases # {} /\ "done" \notin Phases
ASSUME BoundsAssumption == MaxTexts \in Nat /\ MaxFiled \in Nat /\ MaxJournal \in Nat

VARIABLES
    status,     \* documents.status
    acs,        \* the criteria: id -> Ac
    latest,     \* test_event_latest: <<seq, test>> -> [verdict, of]
    stale,      \* seqs whose last run is older than the threshold
    proposals,  \* the plan_revision comments on criteria: number -> Proposal
    journal,    \* spec_lifecycle_events
    texts,      \* statements written so far
    filed,      \* proposals filed so far
    op,         \* op[p]: what request p has read and not yet acted on
    closedOn,   \* requests under way when the Spec was last closed (history)
    provenOn    \* edits under way when their criterion's evidence changed (history)

evidence == <<latest, stale>>
record == <<proposals, journal, filed>>
history == <<closedOn, provenOn>>
vars == <<status, acs, evidence, record, texts, op, history>>

(* `signed' is the statement the criterion was signed off with (acceptedAt  *)
(* is null: 0), `from' the proposal whose acceptance minted it.             *)
Ac == [seq : Nat, text : Nat, status : {"active", "superseded"}, signed : Nat, from : Nat,
       mark : Nat]
Proposal == [on : Nat, before : Nat, replaces : BOOLEAN, mark : Nat,
             state : {"open", "accepted", "rejected", "other"}]
Entry == [kind : {"ac_status_changed", "gate_overridden", "spec_reopened", "test_retired"},
          ac : Nat, at : Nat, mark : Nat, counted : SUBSET Nat]
Result == [verdict : {"pass", "fail"}, of : Nat]

Idle == [kind |-> "none"]

Put(f, x, e) == [y \in DOMAIN f \cup {x} |-> IF y = x THEN e ELSE f[y]]

-----------------------------------------------------------------------------
(* What the checks compute *)

ResultsOf(a) == {latest[x] : x \in {y \in DOMAIN latest : y[1] = acs[a].seq}}

(* deriveVerificationState: a failing run outweighs a sign-off, which       *)
(* outweighs the age of the runs.                                           *)
VerificationOf(a) ==
    IF \E r \in ResultsOf(a) : r.verdict = "fail" THEN "failing"
    ELSE IF acs[a].signed # 0 THEN "accepted"
    ELSE IF ResultsOf(a) = {} THEN "untested"
    ELSE IF acs[a].seq \in stale THEN "stale" ELSE "verified"

Satisfied(a) == VerificationOf(a) \in {"verified", "accepted"}

OpenOn(a) == {c \in DOMAIN proposals : proposals[c].on = a /\ proposals[c].state = "open"}

Entries(kind) == {journal[i] : i \in {j \in DOMAIN journal : journal[j].kind = kind}}

(* Mutant: one override clears the gate for good. *)
BlockersUntilOverridden ==
    IF Entries("gate_overridden") # {} THEN {}
    ELSE {c \in DOMAIN proposals : proposals[c].state = "open"}

(* listDoneGateBlockers: open proposals filed since the latest override. *)
Blockers == {c \in DOMAIN proposals :
                /\ proposals[c].state = "open"
                /\ \A e \in Entries("gate_overridden") : c > e.at}

(* Mutant: only a move back to verify counts. *)
IsReopenToVerify(from, to) == from = "done" /\ to = "verify"

IsReopen(from, to) == from = "done" /\ to # "done"

(* maxAcSeq + 1, nextSeq *)
IsNextSeq(s) == LET used == {acs[a].seq : a \in DOMAIN acs} \cup {0}
                IN  s - 1 \in used /\ \A k \in used : k < s

NewAc(s, from, mark) == [seq |-> s, text |-> texts + 1, status |-> "active",
                         signed |-> 0, from |-> from, mark |-> mark]

Log(kind, ac, mark, counted) ==
    journal' = Append(journal, [kind |-> kind, ac |-> ac, at |-> filed, mark |-> mark,
                                counted |-> counted])

InFlight == {p \in Proc : op[p] # Idle}

(* Every request under way may still journal. *)
Room == Len(journal) + Cardinality(InFlight) < MaxJournal

(* The evidence of the criteria of seq s changes. *)
Proves(s) ==
    provenOn' = provenOn \cup {p \in Proc : /\ op[p].kind = "update" /\ op[p].on \in DOMAIN acs
                                            /\ acs[op[p].on].seq = s}

-----------------------------------------------------------------------------
(* Writes that check nothing but that their row is there *)

CreateAc ==
    /\ texts < MaxTexts
    /\ \E s \in 1 .. MaxTexts :
        /\ IsNextSeq(s)
        /\ acs' = Put(acs, texts + 1, NewAc(s, 0, 0))
    /\ texts' = texts + 1
    /\ UNCHANGED <<status, evidence, record, op, history>>

(* Mutant: a criterion's proposals outlive it. *)
DeleteAcKeepingProposals(a) ==
    /\ "delete" \in Ops
    /\ acs' = Restrict(acs, DOMAIN acs \ {a})
    /\ UNCHANGED <<status, evidence, record, texts, op, history>>

(* deleteAc: its proposals go with it (ON DELETE CASCADE).  Its test        *)
(* results stay, and so do its journal entries, which the code lets point   *)
(* nowhere (SET NULL) and the model at a criterion that is gone.            *)
DeleteAc(a) ==
    /\ "delete" \in Ops
    /\ acs' = Restrict(acs, DOMAIN acs \ {a})
    /\ proposals' = Restrict(proposals, {c \in DOMAIN proposals : proposals[c].on # a})
    /\ UNCHANGED <<status, evidence, journal, filed, texts, op, history>>

(* setAcAcceptance, setAcReviewedVerification *)
SignOff(a) ==
    /\ "sign" \in Ops
    /\ acs' = [acs EXCEPT ![a].signed = acs[a].text]
    /\ Proves(acs[a].seq)
    /\ UNCHANGED <<status, evidence, record, texts, op, closedOn>>

(* clearAcAcceptance *)
RevokeSignOff(a) ==
    /\ "sign" \in Ops
    /\ acs[a].signed # 0
    /\ acs' = [acs EXCEPT ![a].signed = 0]
    /\ UNCHANGED <<status, evidence, record, texts, op, history>>

(* A run is of the statement its tag names, 0 if no criterion has that seq. *)
IsTextOf(s, text) ==
    \/ \E a \in DOMAIN acs : acs[a].seq = s /\ text = acs[a].text
    \/ text = 0 /\ \A a \in DOMAIN acs : acs[a].seq # s

(* processOneEvent, applyEmissionToSummary: the tag is parsed and stored;   *)
(* whether there is such a criterion, or will be, nobody asks.              *)
Emit(s, t, verdict) ==
    /\ \E text \in 0 .. texts :
        /\ IsTextOf(s, text)
        /\ latest' = Put(latest, <<s, t>>, [verdict |-> verdict, of |-> text])
    /\ stale' = stale \ {s}
    /\ Proves(s)
    /\ UNCHANGED <<status, acs, record, texts, op, closedOn>>

(* The last run tagged with seq s passes the staleness threshold. *)
Age(s) ==
    /\ "age" \in Ops
    /\ \E x \in DOMAIN latest : x[1] = s
    /\ stale' = stale \cup {s}
    /\ UNCHANGED <<status, acs, latest, record, texts, op, history>>

(* discontinueTestEventsForAc: the results go, the receipt stays. *)
RetireTest(a, t) ==
    /\ "retire" \in Ops /\ Room
    /\ latest' = Restrict(latest, DOMAIN latest \ {<<acs[a].seq, t>>})
    /\ Log("test_retired", a, 0, {})
    /\ Proves(acs[a].seq)
    /\ UNCHANGED <<status, acs, stale, proposals, filed, texts, op, closedOn>>

ResolveComment(c) ==
    /\ "resolve" \in Ops
    /\ proposals' = [proposals EXCEPT ![c].state = "other"]
    /\ UNCHANGED <<status, acs, evidence, journal, filed, texts, op, history>>

UnresolveComment(c) ==
    /\ "unresolve" \in Ops
    /\ proposals' = [proposals EXCEPT ![c].state = "open"]
    /\ UNCHANGED <<status, acs, evidence, journal, filed, texts, op, history>>

-----------------------------------------------------------------------------
(* Requests that check, and then write *)

Begins(p, f) == /\ op[p] = Idle /\ Room
                /\ op' = [op EXCEPT ![p] = f]
                /\ UNCHANGED <<status, acs, evidence, record, texts, history>>

Ends(p) == op' = [op EXCEPT ![p] = Idle] /\ provenOn' = provenOn \ {p}

Forgets(p) == closedOn' = closedOn \ {p}

(* Mutant: any statement may be edited while the Spec is open. *)
CheckUpdateFree(p, a) ==
    /\ status # "done"
    /\ Begins(p, [kind |-> "update", on |-> a])

(* Mutant: a closed Spec does not freeze its criteria. *)
CheckUpdateWhenDone(p, a) ==
    /\ ~Satisfied(a)
    /\ Begins(p, [kind |-> "update", on |-> a])

(* updateAc: the two guards. *)
CheckUpdate(p, a) ==
    /\ status # "done" /\ ~Satisfied(a)
    /\ Begins(p, [kind |-> "update", on |-> a])

(* An update of a row that is gone changes nothing. *)
Update(p) ==
    /\ op[p].kind = "update" /\ texts < MaxTexts
    /\ IF op[p].on \in DOMAIN acs
       THEN /\ acs' = [acs EXCEPT ![op[p].on].text = texts + 1]
            /\ texts' = texts + 1
       ELSE UNCHANGED <<acs, texts>>
    /\ Ends(p) /\ Forgets(p)
    /\ UNCHANGED <<status, evidence, record>>

(* Mutant: a criterion may hold several open proposals. *)
CheckProposeAnother(p, a, replaces) ==
    /\ acs[a].status = "active"
    /\ Begins(p, [kind |-> "propose", on |-> a, replaces |-> replaces, before |-> acs[a].text,
                  mark |-> filed])

(* proposeAcSupersession: `before' is the statement the server read. *)
CheckPropose(p, a, replaces) ==
    /\ acs[a].status = "active"
    /\ OpenOn(a) = {}
    /\ Begins(p, [kind |-> "propose", on |-> a, replaces |-> replaces, before |-> acs[a].text,
                  mark |-> filed])

(* addAcComment: NotFoundError when the criterion is gone. *)
Propose(p) ==
    /\ op[p].kind = "propose" /\ filed < MaxFiled
    /\ IF op[p].on \in DOMAIN acs
       THEN /\ proposals' = Put(proposals, filed + 1,
                    [on |-> op[p].on, before |-> op[p].before,
                     replaces |-> op[p].replaces, mark |-> op[p].mark, state |-> "open"])
            /\ filed' = filed + 1
       ELSE UNCHANGED <<proposals, filed>>
    /\ Ends(p) /\ Forgets(p)
    /\ UNCHANGED <<status, acs, evidence, journal, texts>>

(* Mutant: no staleness guard. *)
CheckAcceptStale(p, c) ==
    /\ proposals[c].state = "open"
    /\ acs[proposals[c].on].status = "active"
    /\ Begins(p, [kind |-> "accept", on |-> c, mark |-> texts])

(* Mutant: an open proposal is applied, whatever became of its criterion. *)
CheckAcceptAnyStatus(p, c) ==
    /\ proposals[c].state = "open"
    /\ acs[proposals[c].on].text = proposals[c].before
    /\ Begins(p, [kind |-> "accept", on |-> c, mark |-> texts])

(* acceptAcSupersession: everything is checked before anything is written. *)
CheckAccept(p, c) ==
    /\ proposals[c].state = "open"
    /\ acs[proposals[c].on].status = "active"
    /\ acs[proposals[c].on].text = proposals[c].before
    /\ Begins(p, [kind |-> "accept", on |-> c, mark |-> texts])

(* supersedeAcTx and createSuccessorAcTx: the criterion is superseded, and  *)
(* replaced if the proposal brings a statement.                             *)
Supersede(c, mark) ==
    LET superseded == [acs EXCEPT ![proposals[c].on].status = "superseded"]
    IN  \/ ~proposals[c].replaces /\ acs' = superseded /\ UNCHANGED texts
        \/ /\ proposals[c].replaces /\ texts < MaxTexts
           /\ \E s \in 1 .. MaxTexts :
                /\ IsNextSeq(s)
                /\ acs' = Put(superseded, texts + 1, NewAc(s, c, mark))
           /\ texts' = texts + 1

Accepts(p) == op[p].kind = "accept" /\ op[p].on \in DOMAIN proposals

(* Mutant: the journal is left to the caller. *)
AcceptUnrecorded(p) ==
    /\ Accepts(p)
    /\ Supersede(op[p].on, op[p].mark)
    /\ proposals' = [proposals EXCEPT ![op[p].on].state = "accepted"]
    /\ Ends(p) /\ Forgets(p)
    /\ UNCHANGED <<status, evidence, journal, filed>>

(* Mutant: the proposal is resolved in a request of its own. *)
AcceptLeavingOpen(p) ==
    /\ Accepts(p)
    /\ Supersede(op[p].on, op[p].mark)
    /\ Log("ac_status_changed", proposals[op[p].on].on, 0, {op[p].on})
    /\ Ends(p) /\ Forgets(p)
    /\ UNCHANGED <<status, evidence, proposals, filed>>

(* One transaction: the criterion is superseded, its successor minted, the  *)
(* journal written and the proposal resolved.                               *)
Accept(p) ==
    /\ Accepts(p)
    /\ Supersede(op[p].on, op[p].mark)
    /\ Log("ac_status_changed", proposals[op[p].on].on, 0, {op[p].on})
    /\ proposals' = [proposals EXCEPT ![op[p].on].state = "accepted"]
    /\ Ends(p) /\ Forgets(p)
    /\ UNCHANGED <<status, evidence, filed>>

CheckReject(p, c) ==
    /\ proposals[c].state = "open"
    /\ Begins(p, [kind |-> "reject", on |-> c])

Reject(p) ==
    /\ op[p].kind = "reject"
    /\ op[p].on \in DOMAIN proposals
    /\ proposals' = [proposals EXCEPT ![op[p].on].state = "rejected"]
    /\ Ends(p) /\ Forgets(p)
    /\ UNCHANGED <<status, acs, evidence, journal, filed, texts>>

(* updateDocStatus: the done-gate; a reopening comes with a reason.  `mark' *)
(* is the last proposal the gate could see.                                 *)
CheckMove(p, to) ==
    /\ to = "done" /\ status # "done" => Blockers = {}
    /\ Begins(p, [kind |-> "move", from |-> status, to |-> to, mark |-> filed])

Move(p) ==
    /\ op[p].kind = "move"
    /\ status' = op[p].to
    /\ IF IsReopen(op[p].from, op[p].to) THEN Log("spec_reopened", 0, 0, {})
       ELSE UNCHANGED journal
    /\ Ends(p)
    /\ closedOn' = IF status # "done" /\ op[p].to = "done" THEN InFlight \ {p} ELSE closedOn \ {p}
    /\ UNCHANGED <<acs, evidence, proposals, filed, texts>>

(* Mutant: the author is shown the oldest blocker alone. *)
CheckOverrideOldest(p) ==
    /\ Blockers # {}
    /\ Begins(p, [kind |-> "override", mark |-> filed,
                  seen |-> {c \in Blockers : \A d \in Blockers : c <= d}])

(* overrideDoneGate: there must be something to override. *)
CheckOverride(p) ==
    /\ Blockers # {}
    /\ Begins(p, [kind |-> "override", seen |-> Blockers, mark |-> filed])

Override(p) ==
    /\ op[p].kind = "override"
    /\ Log("gate_overridden", 0, op[p].mark, op[p].seen)
    /\ Ends(p) /\ Forgets(p)
    /\ UNCHANGED <<status, acs, evidence, proposals, filed, texts>>

(* The request dies before it writes, or finds its proposal deleted. *)
Abandon(p) ==
    /\ op[p] # Idle
    /\ Ends(p) /\ Forgets(p)
    /\ UNCHANGED <<status, acs, evidence, record, texts>>

-----------------------------------------------------------------------------
Init == /\ status \in Phases
        /\ acs = << >>
        /\ latest = << >> /\ stale = {}
        /\ proposals = << >> /\ journal = << >> /\ filed = 0
        /\ texts = 0
        /\ op = [p \in Proc |-> Idle]
        /\ closedOn = {} /\ provenOn = {}

Write == \/ CreateAc
         \/ \E a \in DOMAIN acs : \/ DeleteAc(a) \/ SignOff(a) \/ RevokeSignOff(a)
                                  \/ \E t \in Tests : RetireTest(a, t)
         \/ \E s \in 1 .. MaxTexts : \/ Age(s)
                                     \/ \E t \in Tests : Emit(s, t, "pass") \/ Emit(s, t, "fail")
         \/ \E c \in DOMAIN proposals : ResolveComment(c) \/ UnresolveComment(c)

Check(p) == \/ \E a \in DOMAIN acs : \/ CheckUpdate(p, a)
                                     \/ \E b \in BOOLEAN : CheckPropose(p, a, b)
            \/ \E c \in DOMAIN proposals : CheckAccept(p, c) \/ CheckReject(p, c)
            \/ \E to \in Phases \cup {"done"} : CheckMove(p, to)
            \/ CheckOverride(p)

Act(p) == Update(p) \/ Propose(p) \/ Accept(p) \/ Reject(p) \/ Move(p) \/ Override(p)

Next == Write \/ \E p \in Proc : Check(p) \/ Act(p) \/ Abandon(p)

Spec == Init /\ [][Next]_vars

-----------------------------------------------------------------------------
Request == [kind : {"none"}]
           \cup [kind : {"update", "reject"}, on : Nat]
           \cup [kind : {"propose"}, on : Nat, replaces : BOOLEAN, before : Nat, mark : Nat]
           \cup [kind : {"accept"}, on : Nat, mark : Nat]
           \cup [kind : {"move"}, from : Phases \cup {"done"}, to : Phases \cup {"done"},
                 mark : Nat]
           \cup [kind : {"override"}, seen : SUBSET Nat, mark : Nat]

(* Every variable holds values of its kind, and a proposal is about a       *)
(* criterion that is there (doc_comments.ac_id ON DELETE CASCADE).          *)
TypeOK ==
    /\ status \in Phases \cup {"done"}
    /\ DOMAIN acs \subseteq Nat \ {0} /\ \A a \in DOMAIN acs : acs[a] \in Ac
    /\ DOMAIN latest \subseteq Nat \X Tests /\ \A x \in DOMAIN latest : latest[x] \in Result
    /\ stale \subseteq Nat
    /\ DOMAIN proposals \subseteq Nat
    /\ \A c \in DOMAIN proposals : proposals[c] \in Proposal /\ proposals[c].on \in DOMAIN acs
    /\ journal \in Seq(Entry)
    /\ texts \in Nat /\ filed \in Nat
    /\ op \in [Proc -> Request]
    /\ closedOn \subseteq Proc /\ provenOn \subseteq Proc

Succeeds(e, a) == e.kind = "ac_status_changed" /\ e.ac = a

(* Whatever requests race, a criterion is superseded exactly when the       *)
(* journal says so: the record and the act commit together                  *)
(* (ac-supersession.ts:493-495).                                            *)
SupersededOnRecord ==
    \A a \in DOMAIN acs : acs[a].status = "superseded"
        <=> \E i \in DOMAIN journal : Succeeds(journal[i], a)

(* A proposal joins one that is open on its criterion only if it was        *)
(* checked before that one was filed: nothing but the check keeps them one  *)
(* at a time (proposeAcSupersession, ac-supersession.ts:205).               *)
ProposalsOverlap ==
    \A a \in DOMAIN acs : \A c, d \in OpenOn(a) : c < d => proposals[d].mark < c

(* A second successor of a proposal was minted by an acceptance that was    *)
(* checked before the first one was minted, whatever happened to the        *)
(* proposal in between (acceptAcSupersession, ac-supersession.ts:404).      *)
SuccessorsOverlap ==
    \A a, b \in DOMAIN acs : acs[a].from = acs[b].from /\ acs[a].from # 0 /\ a < b =>
        acs[b].mark < a

Acceptances(c) == {i \in DOMAIN journal :
                      journal[i].kind = "ac_status_changed" /\ journal[i].counted = {c}}
Successors(c) == {a \in DOMAIN acs : acs[a].from = c}

(* No partial apply (ac-supersession.ts:254-258), also when a proposal is   *)
(* accepted twice: accepted means journalled, journalled means superseded   *)
(* and not open, and each acceptance minted the successor it asked for.     *)
SupersessionIsWhole ==
    \A c \in DOMAIN proposals :
        /\ proposals[c].state = "accepted" => Acceptances(c) # {}
        /\ Acceptances(c) # {} => /\ proposals[c].state # "open"
                                  /\ acs[proposals[c].on].status = "superseded"
        /\ Cardinality(Successors(c)) =
               IF proposals[c].replaces THEN Cardinality(Acceptances(c)) ELSE 0

(* What is superseded is what was reviewed, or was rewritten while the      *)
(* acceptance was under way (the staleness guard, ac-supersession.ts:433).  *)
AcceptAppliesReviewed ==
    [][\A p \in Proc : Accept(p) =>
        LET c == proposals[op[p].on]
        IN  acs[c.on].text = c.before \/ acs[c.on].text > op[p].mark]_vars

(* Proposal c was undecided and filed by the time request p looked, and no  *)
(* override has cleared it.                                                 *)
Overlooked(p, c) == /\ proposals[c].state = "open" /\ c <= op[p].mark
                    /\ \A e \in Entries("gate_overridden") : c > e.at

(* A Spec closes over no undecided proposal but those an override cleared   *)
(* or that were filed while the closing request was under way               *)
(* (done-gate.ts:3-5), when that request found the Spec open.               *)
GateMissesOnlyLateProposals ==
    [][\A p \in Proc : Move(p) /\ op[p].to = "done" /\ op[p].from # "done" =>
        \A c \in DOMAIN proposals : ~Overlooked(p, c)]_vars

(* An undecided proposal the watermark clears was counted by an override,   *)
(* or was filed while one was under way (done-gate.ts:31-33, 198-224).      *)
OverridesClearWhatTheyCount ==
    \A c \in DOMAIN proposals : proposals[c].state = "open" =>
        \A e \in Entries("gate_overridden") : c <= e.at =>
            \E o \in Entries("gate_overridden") :
                c \in o.counted \/ (o.mark < c /\ c <= o.at)

(* The write of request p ends it in this step. *)
Completes(p, kind) == op[p].kind = kind /\ op'[p] = Idle

(* While a Spec stays closed the statement of a criterion changes only by   *)
(* an edit that was under way when it was closed (acs.ts:276: a closed      *)
(* Spec's record does not change after the fact).                           *)
FrozenButForOvertaken ==
    [][status = "done" /\ status' = "done" =>
        \A a \in DOMAIN acs \cap DOMAIN acs' : acs'[a].text # acs[a].text =>
            \E p \in closedOn : Completes(p, "update") /\ op[p].on = a]_vars

(* The statement of a criterion that reads verified or accepted changes     *)
(* only by an edit since whose check evidence for it came in (acs.ts:285).  *)
ProvenButForOvertaken ==
    [][\A a \in DOMAIN acs \cap DOMAIN acs' : acs'[a].text # acs[a].text /\ Satisfied(a) =>
            \E p \in provenOn : Completes(p, "update") /\ op[p].on = a]_vars

(* A Spec leaves `done' with a spec_reopened entry, or by a move that read  *)
(* it open and was under way when it was closed (documents.ts:1546-1590).   *)
ReopenedOnRecordOrOvertaken ==
    [][status = "done" /\ status' # "done" =>
        \/ /\ Len(journal') = Len(journal) + 1
           /\ journal'[Len(journal) + 1].kind = "spec_reopened"
        \/ \E p \in closedOn : Completes(p, "move") /\ op[p].from # "done"]_vars

-----------------------------------------------------------------------------
(* What the code's comments say of it, and the code does not keep.          *)

(* `One at a time, by construction' (ac-supersession.ts:127): a criterion   *)
(* never holds two open proposals.                                          *)
OneOpenProposal == \A a \in DOMAIN acs : \A c, d \in OpenOn(a) : c = d

(* An accepted proposal mints one successor at most: a second acceptance    *)
(* finds it `already resolved - nothing to apply' (ac-supersession.ts:405). *)
OneSuccessor == \A a, b \in DOMAIN acs : acs[a].from = acs[b].from /\ acs[a].from # 0 => a = b

(* A Spec closes over no undecided proposal that was there when the closing *)
(* request looked: `closing a Spec that holds an unaccepted supersession    *)
(* proposal is REFUSED by default' (done-gate.ts:3-5).                      *)
ClosesThroughTheGate ==
    [][\A p \in Proc : Move(p) /\ status # "done" /\ op[p].to = "done" =>
        \A c \in DOMAIN proposals : ~Overlooked(p, c)]_vars

(* A criterion comes to read verified only with a run of the statement it   *)
(* has, not of an earlier one: `changing it now would retroactively change  *)
(* what the passing tests proved' (acs.ts:285).  Results posted before      *)
(* there was a criterion are of no statement: see SuccessorBornUntested.    *)
VerifiedOnOwnText ==
    [][\A a \in DOMAIN acs \cap DOMAIN acs' :
        VerificationOf(a) # "verified" /\ VerificationOf(a)' = "verified" =>
            \E r \in ResultsOf(a)' : r.of \in {0, acs'[a].text}]_vars

(* A criterion that reads accepted was signed off with the statement it has *)
(* (acs.ts:239-243: the door is not left open on that hinge).               *)
AcceptedOnOwnText ==
    \A a \in DOMAIN acs : VerificationOf(a) = "accepted" => acs[a].signed = acs[a].text

(* While a Spec stays closed no statement of its criteria changes: `a       *)
(* closed Spec's record of what was accepted must not change after the      *)
(* fact' (acs.ts:276).                                                      *)
FrozenWhenDone ==
    [][status = "done" /\ status' = "done" =>
        \A a \in DOMAIN acs \cap DOMAIN acs' : acs'[a].text = acs[a].text]_vars

(* A Spec never leaves `done' without a spec_reopened entry: `a reopen      *)
(* nobody can see ... is exactly the state this guard exists to make        *)
(* impossible' (documents.ts:1586-1588).                                    *)
ReopenOnRecord ==
    [][status = "done" /\ status' # "done" =>
        /\ Len(journal') = Len(journal) + 1
        /\ journal'[Len(journal) + 1].kind = "spec_reopened"]_vars

(* The original is `preserved verbatim' (ac-supersession.ts:283-284): a     *)
(* superseded criterion keeps its statement.                                *)
SupersededVerbatim ==
    [][\A a \in DOMAIN acs \cap DOMAIN acs' :
        acs[a].status = "superseded" => acs'[a].text = acs[a].text]_vars

(* A successor is `born with no test events, therefore untested'            *)
(* (ac-supersession.ts:304).                                                *)
SuccessorBornUntested ==
    [][\A a \in DOMAIN acs' \ DOMAIN acs :
        acs'[a].from # 0 => \A x \in DOMAIN latest' : x[1] # acs'[a].seq]_vars
=============================================================================
