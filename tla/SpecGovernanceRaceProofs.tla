---------------------- MODULE SpecGovernanceRaceProofs -----------------------
(* How much can slip between a request's check and its write: theorems of  *)
(* SpecGovernance for any number of overlapping requests, any phases, tests *)
(* and bounds.                                                             *)
EXTENDS SpecGovernanceProofs, FiniteSetTheorems

-----------------------------------------------------------------------------
(* What a step does to the criteria *)

(* Criterion a is one that was there and keeps its seq and its origin; its  *)
(* statement is rewritten by an edit and its status by an acceptance.       *)
Kept(a) ==
    /\ a \in DOMAIN acs
    /\ acs'[a].seq = acs[a].seq /\ acs'[a].from = acs[a].from /\ acs'[a].mark = acs[a].mark
    /\ acs'[a].text = acs[a].text \/ \E p \in Proc : Update(p) /\ op[p].on = a
    /\ \/ acs'[a].status = acs[a].status
       \/ /\ acs'[a].status = "superseded"
          /\ \E p \in Proc : Accept(p) /\ proposals[op[p].on].on = a
    /\ acs'[a].signed = acs[a].signed \/ \E b \in DOMAIN acs : SignOff(b) \/ RevokeSignOff(b)

(* Criterion a is minted by this step, for an accepted proposal or by hand. *)
Minted(a) ==
    /\ a = texts + 1 /\ a \notin DOMAIN acs
    /\ acs'[a].text = a /\ acs'[a].status = "active" /\ acs'[a].signed = 0
    /\ IsNextSeq(acs'[a].seq)
    /\ \/ acs'[a].from = 0
       \/ \E p \in Proc : /\ Accept(p) /\ op[p].on = acs'[a].from
                          /\ acs'[a].mark = op[p].mark
                          /\ proposals[op[p].on].replaces

LEMMA SupersedeKeeps ==
    ASSUME Inv, NEW p \in Proc, Accept(p)
    PROVE  \A a \in DOMAIN acs' : Kept(a) \/ Minted(a)
  <1> DEFINE c == op[p].on
             n == proposals[c].on
             superseded == [acs EXCEPT ![n].status = "superseded"]
  <1>1. c \in DOMAIN proposals /\ n \in DOMAIN acs /\ texts \in Nat /\ Supersede(c, op[p].mark)
    BY DEF Inv, TypeOK, Accept, Accepts
  <1>2. texts + 1 \notin DOMAIN acs
    BY <1>1 DEF Inv, Bounded
  <1>3. superseded[n] = [acs[n] EXCEPT !.status = "superseded"] /\ acs[n] \in Ac
    BY <1>1 DEF Inv, TypeOK
  <1>4. /\ superseded[n].seq = acs[n].seq /\ superseded[n].from = acs[n].from
        /\ superseded[n].mark = acs[n].mark
        /\ superseded[n].text = acs[n].text /\ superseded[n].signed = acs[n].signed
        /\ superseded[n].status = "superseded"
    BY <1>3 DEF Ac
  <1>5. DOMAIN superseded = DOMAIN acs /\ \A a \in DOMAIN acs \ {n} : superseded[a] = acs[a]
    OBVIOUS
  <1>6. ASSUME NEW a \in DOMAIN acs, acs'[a] = superseded[a] PROVE Kept(a)
    <2>1. CASE a = n
      BY <1>1, <1>4, <1>6, <2>1 DEF Kept
    <2>2. CASE a # n
      BY <1>5, <1>6, <2>2 DEF Kept
    <2> QED
      BY <2>1, <2>2
  <1> HIDE DEF superseded
  <1>7. CASE acs' = superseded
    BY <1>5, <1>6, <1>7
  <1>8. CASE acs' # superseded
    <2>1. PICK s \in 1 .. MaxTexts : /\ proposals[c].replaces /\ IsNextSeq(s)
                                     /\ acs' = Put(superseded, texts + 1, NewAc(s, c, op[p].mark))
      BY <1>1, <1>8 DEF Supersede, superseded
    <2>2. /\ DOMAIN acs' = DOMAIN acs \cup {texts + 1}
          /\ acs'[texts + 1] = NewAc(s, c, op[p].mark)
          /\ \A a \in DOMAIN acs : acs'[a] = superseded[a]
      BY <1>2, <1>5, <2>1 DEF Put
    <2>3. Minted(texts + 1)
      BY <1>2, <2>1, <2>2 DEF Minted, NewAc
    <2> QED
      BY <1>6, <2>2, <2>3
  <1> QED
    BY <1>7, <1>8

LEMMA AcsStep ==
    ASSUME Inv, [Next]_vars
    PROVE  \A a \in DOMAIN acs' : Kept(a) \/ Minted(a)
  <1> DEFINE Goal == \A a \in DOMAIN acs' : Kept(a) \/ Minted(a)
  <1>0. TypeOK /\ texts \in Nat /\ \A a \in DOMAIN acs : acs[a] \in Ac
    BY DEF Inv, TypeOK
  <1>1. CASE UNCHANGED acs
    BY <1>1 DEF Kept
  <1>2. CASE CreateAc
    <2>1. PICK s \in 1 .. MaxTexts : IsNextSeq(s) /\ acs' = Put(acs, texts + 1, NewAc(s, 0, 0))
      BY <1>2 DEF CreateAc
    <2>2. texts + 1 \notin DOMAIN acs
      BY <1>0 DEF Inv, Bounded
    <2>3. /\ DOMAIN acs' = DOMAIN acs \cup {texts + 1}
          /\ acs'[texts + 1] = NewAc(s, 0, 0)
          /\ \A a \in DOMAIN acs : acs'[a] = acs[a]
      BY <2>1, <2>2 DEF Put
    <2>4. Minted(texts + 1)
      BY <2>1, <2>2, <2>3 DEF Minted, NewAc
    <2>5. \A a \in DOMAIN acs : Kept(a)
      BY <2>3 DEF Kept
    <2> QED
      BY <2>3, <2>4, <2>5
  <1>3. ASSUME NEW b \in DOMAIN acs, DeleteAc(b) PROVE Goal
    <2>1. \A a \in DOMAIN acs' : a \in DOMAIN acs /\ acs'[a] = acs[a]
      BY <1>3, RestrictFacts DEF DeleteAc
    <2> QED
      BY <2>1 DEF Kept
  <1>4. ASSUME NEW b \in DOMAIN acs, SignOff(b) \/ RevokeSignOff(b) PROVE Goal
    <2>1. PICK n : acs' = [acs EXCEPT ![b].signed = n]
      BY <1>4 DEF SignOff, RevokeSignOff
    <2>2. acs'[b] = [acs[b] EXCEPT !.signed = n]
      BY <2>1
    <2>3. /\ acs'[b].seq = acs[b].seq /\ acs'[b].from = acs[b].from
          /\ acs'[b].mark = acs[b].mark
          /\ acs'[b].text = acs[b].text /\ acs'[b].status = acs[b].status
      BY <1>0, <2>2 DEF Ac
    <2>4. DOMAIN acs' = DOMAIN acs /\ \A a \in DOMAIN acs \ {b} : acs'[a] = acs[a]
      BY <2>1
    <2> QED
      BY <1>4, <2>3, <2>4 DEF Kept
  <1>5. CASE Write
    BY <1>1, <1>2, <1>3, <1>4, <1>5
       DEF Write, Emit, Age, RetireTest, ResolveComment, UnresolveComment
  <1>6. ASSUME NEW p \in Proc, Check(p) \/ Abandon(p) PROVE Goal
    BY <1>1, <1>6 DEF Check, Abandon, Begins, CheckUpdate, CheckPropose, CheckAccept,
                      CheckReject, CheckMove, CheckOverride
  <1>7. ASSUME NEW p \in Proc, Update(p) PROVE Goal
    <2> DEFINE b == op[p].on
    <2>1. CASE acs' = [acs EXCEPT ![b].text = texts + 1] /\ b \in DOMAIN acs
      <3>1. acs'[b] = [acs[b] EXCEPT !.text = texts + 1] /\ acs[b] \in Ac
        BY <1>0, <2>1
      <3>2. /\ acs'[b].seq = acs[b].seq /\ acs'[b].from = acs[b].from
            /\ acs'[b].mark = acs[b].mark
            /\ acs'[b].signed = acs[b].signed /\ acs'[b].status = acs[b].status
        BY <3>1 DEF Ac
      <3>3. DOMAIN acs' = DOMAIN acs /\ \A a \in DOMAIN acs \ {b} : acs'[a] = acs[a]
        BY <2>1
      <3> QED
        BY <1>7, <3>2, <3>3 DEF Kept
    <2> QED
      BY <1>1, <1>7, <2>1 DEF Update
  <1>8. ASSUME NEW p \in Proc, Propose(p) \/ Reject(p) \/ Move(p) \/ Override(p) PROVE Goal
    BY <1>1, <1>8 DEF Propose, Reject, Move, Override
  <1>9. CASE UNCHANGED vars
    BY <1>1, <1>9 DEF vars
  <1> QED
    BY <1>5, <1>6, <1>7, <1>8, <1>9, SupersedeKeeps DEF Next, Act

-----------------------------------------------------------------------------
(* What a step does to the phase, the proposals and the journal *)

LEMMA StatusStep ==
    ASSUME [Next]_vars, status' # status
    PROVE  \E p \in Proc : Move(p)
  <1>1. ~Write
    BY DEF Write, CreateAc, DeleteAc, SignOff, RevokeSignOff, Emit, Age, RetireTest,
           ResolveComment, UnresolveComment
  <1>2. \A p \in Proc : ~Check(p) /\ ~Abandon(p)
    BY DEF Check, Abandon, Begins, CheckUpdate, CheckPropose, CheckAccept, CheckReject,
           CheckMove, CheckOverride
  <1>3. \A p \in Proc : ~Update(p) /\ ~Propose(p) /\ ~Accept(p) /\ ~Reject(p) /\ ~Override(p)
    BY DEF Update, Propose, Accept, Reject, Override
  <1> QED
    BY <1>1, <1>2, <1>3 DEF Next, Act, vars

(* Proposal c is one that was there, about the same criterion, and reopened *)
(* by nobody but the generic comment verb; or it is the one just filed.     *)
SameProposal(c) ==
    /\ c \in DOMAIN proposals
    /\ proposals'[c].on = proposals[c].on
    /\ proposals'[c].replaces = proposals[c].replaces
    /\ proposals'[c].mark = proposals[c].mark
    /\ \/ proposals'[c].state = proposals[c].state
       \/ proposals'[c].state \in {"rejected", "other"}
       \/ proposals'[c].state = "accepted" /\ \E p \in Proc : Accept(p) /\ op[p].on = c

JustFiled(c) ==
    /\ c = filed + 1 /\ c \notin DOMAIN proposals /\ filed' = filed + 1
    /\ proposals'[c].state = "open"
    /\ \E p \in Proc : /\ Propose(p) /\ proposals'[c].on = op[p].on
                       /\ proposals'[c].mark = op[p].mark
                       /\ op[p].on \in DOMAIN acs

LEMMA ProposalsStepButOne ==
    ASSUME Inv, [Next]_vars, \A c \in DOMAIN proposals : ~UnresolveComment(c)
    PROVE  \A c \in DOMAIN proposals' : SameProposal(c) \/ JustFiled(c)
  <1> DEFINE Goal == \A c \in DOMAIN proposals' : SameProposal(c) \/ JustFiled(c)
  <1>0. TypeOK /\ filed \in Nat /\ \A c \in DOMAIN proposals : proposals[c] \in Proposal
    BY DEF Inv, TypeOK
  <1>1. CASE UNCHANGED proposals
    BY <1>1 DEF SameProposal
  <1>2. ASSUME NEW d \in DOMAIN proposals, NEW s \in {"accepted", "rejected", "other"},
               proposals' = [proposals EXCEPT ![d].state = s],
               s = "accepted" => \E p \in Proc : Accept(p) /\ op[p].on = d
        PROVE  Goal
    <2>1. proposals'[d] = [proposals[d] EXCEPT !.state = s]
      BY <1>2
    <2>2. /\ proposals'[d].on = proposals[d].on /\ proposals'[d].state = s
          /\ proposals'[d].replaces = proposals[d].replaces
          /\ proposals'[d].mark = proposals[d].mark
      BY <1>0, <2>1 DEF Proposal
    <2>3. DOMAIN proposals' = DOMAIN proposals
          /\ \A c \in DOMAIN proposals \ {d} : proposals'[c] = proposals[c]
      BY <1>2
    <2> QED
      BY <1>2, <2>2, <2>3 DEF SameProposal
  <1>3. ASSUME NEW a \in DOMAIN acs, DeleteAc(a) PROVE Goal
    <2>1. \A c \in DOMAIN proposals' : c \in DOMAIN proposals /\ proposals'[c] = proposals[c]
      BY <1>3, RestrictFacts DEF DeleteAc
    <2> QED
      BY <2>1 DEF SameProposal
  <1>4. ASSUME NEW c \in DOMAIN proposals, ResolveComment(c) PROVE Goal
    BY <1>2, <1>4 DEF ResolveComment
  <1>5. CASE Write
    BY <1>1, <1>3, <1>4, <1>5
       DEF Write, CreateAc, SignOff, RevokeSignOff, Emit, Age, RetireTest, UnresolveComment,
           evidence, record
  <1>6. ASSUME NEW p \in Proc, Check(p) \/ Abandon(p) PROVE Goal
    BY <1>1, <1>6 DEF Check, Abandon, Begins, CheckUpdate, CheckPropose, CheckAccept,
                      CheckReject, CheckMove, CheckOverride, record
  <1>7. ASSUME NEW p \in Proc, Propose(p) PROVE Goal
    <2> DEFINE e == [on |-> op[p].on, before |-> op[p].before,
                     replaces |-> op[p].replaces, mark |-> op[p].mark, state |-> "open"]
    <2>1. CASE op[p].on \in DOMAIN acs
      <3>1. proposals' = Put(proposals, filed + 1, e) /\ filed' = filed + 1
        BY <1>7, <2>1 DEF Propose
      <3>2. filed + 1 \notin DOMAIN proposals
        BY <1>0 DEF Inv, Bounded
      <3>3. e.on = op[p].on /\ e.state = "open" /\ e.mark = op[p].mark
        OBVIOUS
      <3> HIDE DEF e
      <3>4. /\ DOMAIN proposals' = DOMAIN proposals \cup {filed + 1}
            /\ proposals'[filed + 1] = e
            /\ \A c \in DOMAIN proposals : proposals'[c] = proposals[c]
        BY <3>1, <3>2 DEF Put
      <3>5. JustFiled(filed + 1)
        BY <1>7, <2>1, <3>1, <3>2, <3>3, <3>4 DEF JustFiled
      <3>6. \A c \in DOMAIN proposals : SameProposal(c)
        BY <3>4 DEF SameProposal
      <3> QED
        BY <3>4, <3>5, <3>6
    <2>2. CASE op[p].on \notin DOMAIN acs
      BY <1>1, <1>7, <2>2 DEF Propose
    <2> QED
      BY <2>1, <2>2
  <1>8. ASSUME NEW p \in Proc, Accept(p) PROVE Goal
    BY <1>2, <1>8 DEF Accept, Accepts
  <1>9. ASSUME NEW p \in Proc, Reject(p) PROVE Goal
    BY <1>2, <1>9 DEF Reject
  <1>10. ASSUME NEW p \in Proc, Update(p) \/ Move(p) \/ Override(p) PROVE Goal
    BY <1>1, <1>10 DEF Update, Move, Override, record
  <1>11. CASE UNCHANGED vars
    BY <1>1, <1>11 DEF vars, record
  <1> QED
    BY <1>5, <1>6, <1>7, <1>8, <1>9, <1>10, <1>11 DEF Next, Act

LEMMA ProposalsStep ==
    ASSUME Inv, "unresolve" \notin Ops, [Next]_vars
    PROVE  \A c \in DOMAIN proposals' : SameProposal(c) \/ JustFiled(c)
  BY ProposalsStepButOne DEF UnresolveComment

(* Whatever is done to a proposal, it stays about the same criterion. *)
LEMMA StaysAbout ==
    ASSUME Inv, [Next]_vars
    PROVE  \A c \in DOMAIN proposals' :
              \/ c \in DOMAIN proposals /\ proposals'[c].on = proposals[c].on
              \/ c = filed + 1
  <1>1. ASSUME NEW d \in DOMAIN proposals, UnresolveComment(d),
               NEW c \in DOMAIN proposals'
        PROVE  c \in DOMAIN proposals /\ proposals'[c].on = proposals[c].on
    <2>1. proposals' = [proposals EXCEPT ![d].state = "open"] /\ proposals[d] \in Proposal
      BY <1>1 DEF UnresolveComment, Inv, TypeOK
    <2> QED
      BY <2>1 DEF Proposal
  <1> QED
    BY <1>1, ProposalsStepButOne DEF SameProposal, JustFiled

(* Entry i of the journal is one that was there, or the one just written:   *)
(* an override carries what its request saw, an acceptance the proposal it  *)
(* applied.                                                                 *)
SameEntry(i) == i \in DOMAIN journal /\ journal'[i] = journal[i]

JustLogged(i) ==
    /\ i \in DOMAIN journal' /\ i \notin DOMAIN journal
    /\ journal'[i].at = filed /\ filed' = filed
    /\ journal'[i].kind = "gate_overridden" =>
        \E p \in Proc : /\ Override(p) /\ journal'[i].counted = op[p].seen
                        /\ journal'[i].mark = op[p].mark
    /\ journal'[i].kind = "ac_status_changed" =>
        \E p \in Proc : /\ Accept(p)
                        /\ journal'[i].ac = proposals[op[p].on].on
                        /\ journal'[i].counted = {op[p].on}

LEMMA AcceptLogs ==
    ASSUME Inv, NEW p \in Proc, Accept(p)
    PROVE  /\ DOMAIN journal' = DOMAIN journal \cup {Len(journal) + 1}
           /\ Len(journal) + 1 \notin DOMAIN journal
           /\ \A i \in DOMAIN journal : journal'[i] = journal[i]
           /\ journal'[Len(journal) + 1].kind = "ac_status_changed"
           /\ journal'[Len(journal) + 1].ac = proposals[op[p].on].on
           /\ journal'[Len(journal) + 1].at = filed
           /\ journal'[Len(journal) + 1].counted = {op[p].on}
  <1> DEFINE m == op[p].on
             n == proposals[m].on
  <1>1. m \in Nat /\ n \in Nat /\ Log("ac_status_changed", n, 0, {m}) /\ TypeOK
    BY DEF Inv, TypeOK, Accept, Accepts
  <1> HIDE DEF m, n
  <1>2. /\ DOMAIN journal' = DOMAIN journal \cup {Len(journal) + 1}
        /\ Len(journal) + 1 \notin DOMAIN journal
        /\ journal'[Len(journal) + 1].kind = "ac_status_changed"
        /\ journal'[Len(journal) + 1].ac = n
        /\ journal'[Len(journal) + 1].at = filed
        /\ journal'[Len(journal) + 1].counted = {m}
        /\ \A i \in DOMAIN journal : journal'[i] = journal[i]
    BY <1>1, AcceptLogFacts
  <1> QED
    BY <1>2 DEF m, n

LEMMA JournalStep ==
    ASSUME Inv, [Next]_vars
    PROVE  /\ DOMAIN journal \subseteq DOMAIN journal'
           /\ \A i \in DOMAIN journal' : SameEntry(i) \/ JustLogged(i)
  <1> DEFINE Goal == /\ DOMAIN journal \subseteq DOMAIN journal'
                     /\ \A i \in DOMAIN journal' : SameEntry(i) \/ JustLogged(i)
  <1>1. CASE UNCHANGED journal
    BY <1>1 DEF SameEntry
  <1>2. {} \in SUBSET Nat /\ 0 \in Nat
    OBVIOUS
  <1>3. ASSUME NEW kind \in {"gate_overridden", "spec_reopened", "test_retired"},
               NEW ac \in Nat, NEW mark \in Nat, NEW counted \in SUBSET Nat,
               Log(kind, ac, mark, counted), filed' = filed,
               kind = "gate_overridden" =>
                 \E p \in Proc : Override(p) /\ counted = op[p].seen /\ mark = op[p].mark
        PROVE  Goal
    <2> DEFINE e == [kind |-> kind, ac |-> ac, at |-> filed, mark |-> mark,
                     counted |-> counted]
    <2>1. /\ e \in Entry /\ journal' = Append(journal, e) /\ TypeOK
          /\ e.kind = kind /\ e.at = filed /\ e.mark = mark /\ e.counted = counted
      BY <1>3 DEF Inv, TypeOK, Entry, Log
    <2> HIDE DEF e
    <2>2. /\ DOMAIN journal' = DOMAIN journal \cup {Len(journal) + 1}
          /\ Len(journal) + 1 \notin DOMAIN journal
          /\ \A i \in DOMAIN journal : journal'[i] = journal[i]
          /\ journal'[Len(journal) + 1] = e
      BY <2>1, Appended
    <2>3. JustLogged(Len(journal) + 1)
      BY <1>3, <2>1, <2>2 DEF JustLogged
    <2> QED
      BY <2>2, <2>3 DEF SameEntry
  <1>4. ASSUME NEW a \in DOMAIN acs, NEW t \in Tests, RetireTest(a, t) PROVE Goal
    <2>1. a \in Nat
      BY DEF Inv, TypeOK
    <2> QED
      BY <1>2, <1>3, <1>4, <2>1 DEF RetireTest
  <1>5. CASE Write
    BY <1>1, <1>4, <1>5
       DEF Write, CreateAc, DeleteAc, SignOff, RevokeSignOff, Emit, Age, ResolveComment,
           UnresolveComment, evidence, record
  <1>6. ASSUME NEW p \in Proc, Check(p) \/ Abandon(p) PROVE Goal
    BY <1>1, <1>6 DEF Check, Abandon, Begins, CheckUpdate, CheckPropose, CheckAccept,
                      CheckReject, CheckMove, CheckOverride, record
  <1>7. ASSUME NEW p \in Proc, Update(p) \/ Propose(p) \/ Reject(p) PROVE Goal
    BY <1>1, <1>7 DEF Update, Propose, Reject, record
  <1>8. ASSUME NEW p \in Proc, Accept(p) PROVE Goal
    <2>1. JustLogged(Len(journal) + 1)
      BY <1>8, AcceptLogs DEF JustLogged, Accept
    <2> QED
      BY <1>8, <2>1, AcceptLogs DEF SameEntry
  <1>9. ASSUME NEW p \in Proc, Move(p) PROVE Goal
    BY <1>1, <1>2, <1>3, <1>9 DEF Move
  <1>10. ASSUME NEW p \in Proc, Override(p) PROVE Goal
    <2>1. op[p].seen \in SUBSET Nat /\ op[p].mark \in Nat
      BY <1>10, RequestFields DEF Override, Inv, TypeOK
    <2> QED
      BY <1>2, <1>3, <1>10, <2>1 DEF Override
  <1>11. CASE UNCHANGED vars
    BY <1>1, <1>11 DEF vars, record
  <1> QED
    BY <1>5, <1>6, <1>7, <1>8, <1>9, <1>10, <1>11 DEF Next, Act

LEMMA NothingLost ==
    ASSUME Inv, "delete" \notin Ops, [Next]_vars
    PROVE  DOMAIN acs \subseteq DOMAIN acs' /\ DOMAIN proposals \subseteq DOMAIN proposals'
  <1> DEFINE Goal == /\ DOMAIN acs \subseteq DOMAIN acs'
                     /\ DOMAIN proposals \subseteq DOMAIN proposals'
  <1>1. CASE Write
    BY <1>1 DEF Write, CreateAc, DeleteAc, SignOff, RevokeSignOff, Emit, Age, RetireTest,
                ResolveComment, UnresolveComment, Put, record
  <1>2. ASSUME NEW p \in Proc, Check(p) \/ Abandon(p) PROVE Goal
    BY <1>2 DEF Check, Abandon, Begins, CheckUpdate, CheckPropose, CheckAccept,
                CheckReject, CheckMove, CheckOverride, record
  <1>3. ASSUME NEW p \in Proc, Update(p) \/ Propose(p) \/ Reject(p) \/ Move(p) \/ Override(p)
        PROVE  Goal
    BY <1>3 DEF Update, Propose, Reject, Move, Override, Put, record
  <1>4. ASSUME NEW p \in Proc, Accept(p) PROVE Goal
    <2>1. DOMAIN proposals' = DOMAIN proposals
      BY <1>4 DEF Accept
    <2>2. /\ op[p].on \in DOMAIN proposals /\ Supersede(op[p].on, op[p].mark)
          /\ op[p].mark \in Nat
      BY <1>4, RequestFields DEF Accept, Accepts, Inv, TypeOK
    <2> QED
      BY <2>1, <2>2, SupersedeFacts
  <1>5. CASE UNCHANGED vars
    BY <1>5 DEF vars, record
  <1> QED
    BY <1>1, <1>2, <1>3, <1>4, <1>5 DEF Next, Act

(* What an acceptance leaves behind. *)
LEMMA AcceptApplies ==
    ASSUME Inv, NEW p \in Proc, Accept(p)
    PROVE  LET c == op[p].on IN
           /\ c \in DOMAIN proposals /\ c \in DOMAIN proposals'
           /\ proposals'[c].state = "accepted"
           /\ proposals'[c].on = proposals[c].on
           /\ proposals'[c].replaces = proposals[c].replaces
           /\ proposals[c].on \in DOMAIN acs'
           /\ acs'[proposals[c].on].status = "superseded"
           /\ proposals[c].replaces => /\ DOMAIN acs' = DOMAIN acs \cup {texts + 1}
                                      /\ acs'[texts + 1].from = c
           /\ ~proposals[c].replaces => DOMAIN acs' = DOMAIN acs
  <1> DEFINE c == op[p].on
  <1>1. /\ c \in DOMAIN proposals /\ proposals[c] \in Proposal
        /\ Supersede(c, op[p].mark) /\ op[p].mark \in Nat
        /\ proposals' = [proposals EXCEPT ![c].state = "accepted"]
    BY RequestFields DEF Inv, TypeOK, Accept, Accepts
  <1> HIDE DEF c
  <1>2. proposals'[c] = [proposals[c] EXCEPT !.state = "accepted"]
    BY <1>1
  <1>3. /\ proposals'[c].state = "accepted" /\ proposals'[c].on = proposals[c].on
        /\ proposals'[c].replaces = proposals[c].replaces
    BY <1>1, <1>2 DEF Proposal
  <1>4. /\ proposals[c].on \in DOMAIN acs'
        /\ acs'[proposals[c].on].status = "superseded"
    BY <1>1, SupersedeFacts
  <1> DEFINE superseded == [acs EXCEPT ![proposals[c].on].status = "superseded"]
  <1>5. ASSUME proposals[c].replaces
        PROVE  DOMAIN acs' = DOMAIN acs \cup {texts + 1} /\ acs'[texts + 1].from = c
    <2>1. PICK s \in 1 .. MaxTexts : acs' = Put(superseded, texts + 1, NewAc(s, c, op[p].mark))
      BY <1>1, <1>5 DEF Supersede
    <2>2. DOMAIN superseded = DOMAIN acs
      OBVIOUS
    <2> HIDE DEF superseded
    <2> QED
      BY <2>1, <2>2 DEF Put, NewAc
  <1>6. ASSUME ~proposals[c].replaces PROVE DOMAIN acs' = DOMAIN acs
    BY <1>1, <1>6 DEF Supersede
  <1> QED
    BY <1>1, <1>3, <1>4, <1>5, <1>6 DEF c

-----------------------------------------------------------------------------
(* What a step does to the requests under way *)

LEMMA OpStep ==
    ASSUME Inv, [Next]_vars, NEW q \in Proc
    PROVE  op'[q] = op[q] \/ op'[q] = Idle \/ Check(q)
  <1>0. op \in [Proc -> Request] /\ TypeOK
    BY DEF Inv, TypeOK
  <1>1. CASE UNCHANGED op
    BY <1>1
  <1>2. CASE Write
    BY <1>1, <1>2 DEF Write, CreateAc, DeleteAc, SignOff, RevokeSignOff, Emit, Age, RetireTest,
                      ResolveComment, UnresolveComment
  <1>3. ASSUME NEW p \in Proc, Check(p), p # q PROVE op'[q] = op[q]
    BY <1>0, <1>3 DEF Check, Begins, CheckUpdate, CheckPropose, CheckAccept, CheckReject,
                      CheckMove, CheckOverride
  <1>4. ASSUME NEW p \in Proc, Act(p) \/ Abandon(p) PROVE op'[q] = op[q] \/ op'[q] = Idle
    <2>1. Ends(p)
      BY <1>4 DEF Act, Update, Propose, Accept, Reject, Move, Override, Abandon
    <2> QED
      BY <1>0, <2>1 DEF Ends
  <1> QED
    BY <1>1, <1>2, <1>3, <1>4 DEF Next, vars

(* A request that begins has looked, and written nothing. *)
LEMMA Checked ==
    ASSUME Inv, NEW q \in Proc, Check(q)
    PROVE  /\ UNCHANGED <<status, acs, latest, stale, proposals, journal, filed, texts>>
           /\ UNCHANGED <<closedOn, provenOn>>
           /\ op'[q].kind = "update" =>
                op'[q].on \in DOMAIN acs /\ status # "done" /\ ~Satisfied(op'[q].on)
           /\ op'[q].kind = "propose" => OpenOn(op'[q].on) = {} /\ op'[q].mark = filed
           /\ op'[q].kind = "accept" =>
                /\ op'[q].on \in DOMAIN proposals /\ op'[q].mark = texts
                /\ acs[proposals[op'[q].on].on].status = "active"
           /\ op'[q].kind = "move" => op'[q].from = status
           /\ op'[q].kind = "override" => op'[q].seen = Blockers /\ op'[q].mark = filed
  <1> DEFINE Goal ==
        /\ UNCHANGED <<status, acs, latest, stale, proposals, journal, filed, texts>>
        /\ UNCHANGED <<closedOn, provenOn>>
        /\ op'[q].kind = "update" =>
             op'[q].on \in DOMAIN acs /\ status # "done" /\ ~Satisfied(op'[q].on)
        /\ op'[q].kind = "propose" => OpenOn(op'[q].on) = {} /\ op'[q].mark = filed
        /\ op'[q].kind = "accept" =>
             /\ op'[q].on \in DOMAIN proposals /\ op'[q].mark = texts
             /\ acs[proposals[op'[q].on].on].status = "active"
        /\ op'[q].kind = "move" => op'[q].from = status
        /\ op'[q].kind = "override" => op'[q].seen = Blockers /\ op'[q].mark = filed
  <1>0. op \in [Proc -> Request]
    BY DEF Inv, TypeOK
  <1>1. ASSUME NEW f, Begins(q, f)
        PROVE  /\ op'[q] = f
               /\ UNCHANGED <<status, acs, latest, stale, proposals, journal, filed, texts>>
               /\ UNCHANGED <<closedOn, provenOn>>
    BY <1>0, <1>1 DEF Begins, evidence, record, history
  <1>2. ASSUME NEW a \in DOMAIN acs, CheckUpdate(q, a) PROVE Goal
    BY <1>1, <1>2 DEF CheckUpdate
  <1>3. ASSUME NEW a \in DOMAIN acs, NEW b \in BOOLEAN, CheckPropose(q, a, b) PROVE Goal
    BY <1>1, <1>3 DEF CheckPropose
  <1>4. ASSUME NEW c \in DOMAIN proposals, CheckAccept(q, c) PROVE Goal
    BY <1>1, <1>4 DEF CheckAccept
  <1>5. ASSUME NEW c \in DOMAIN proposals, CheckReject(q, c) PROVE Goal
    BY <1>1, <1>5 DEF CheckReject
  <1>6. ASSUME NEW to \in Phases \cup {"done"}, CheckMove(q, to) PROVE Goal
    BY <1>1, <1>6 DEF CheckMove
  <1>7. CASE CheckOverride(q)
    BY <1>1, <1>7 DEF CheckOverride
  <1> QED
    BY <1>2, <1>3, <1>4, <1>5, <1>6, <1>7 DEF Check

(* Statements and proposals are numbered upwards. *)
LEMMA CountsGrow ==
    ASSUME Inv, [Next]_vars
    PROVE  filed <= filed' /\ texts <= texts'
  <1> DEFINE Goal == /\ filed' = filed \/ filed' = filed + 1
                     /\ texts' = texts \/ texts' = texts + 1
  <1>0. filed \in Nat /\ texts \in Nat
    BY DEF Inv, TypeOK
  <1>1. ASSUME Write PROVE Goal
    BY <1>1 DEF Write, CreateAc, DeleteAc, SignOff, RevokeSignOff, Emit, Age, RetireTest,
                ResolveComment, UnresolveComment, record
  <1>2. ASSUME NEW p \in Proc, Check(p) PROVE Goal
    BY <1>2, Checked
  <1>3. ASSUME NEW p \in Proc, Act(p) \/ Abandon(p) PROVE Goal
    BY <1>3 DEF Act, Update, Propose, Accept, Supersede, Reject, Move, Override, Abandon, record
  <1>4. ASSUME UNCHANGED vars PROVE Goal
    BY <1>4 DEF vars, record
  <1>5. Goal
    BY <1>1, <1>2, <1>3, <1>4 DEF Next
  <1> QED
    BY <1>0, <1>5

-----------------------------------------------------------------------------
(* Requests overtaken by the closing of the Spec *)

(* closedOn remembers a request until it ends. *)
LEMMA ClosedStep ==
    ASSUME Inv, [Next]_vars, NEW q \in Proc, op'[q] # Idle
    PROVE  /\ q \in closedOn => q \in closedOn'
           /\ status # "done" /\ status' = "done" => q \in closedOn'
  <1> DEFINE Goal == /\ q \in closedOn => q \in closedOn'
                     /\ status # "done" /\ status' = "done" => q \in closedOn'
  <1>0. TypeOK
    BY DEF Inv
  <1>1. CASE UNCHANGED <<closedOn, status>>
    BY <1>1
  <1>2. CASE Write
    BY <1>1, <1>2 DEF Write, CreateAc, DeleteAc, SignOff, RevokeSignOff, Emit, Age, RetireTest,
                      ResolveComment, UnresolveComment, history
  <1>3. ASSUME NEW p \in Proc, Check(p) PROVE Goal
    BY <1>1, <1>3, Checked
  <1>4. ASSUME NEW p \in Proc, Ends(p), Forgets(p), UNCHANGED status PROVE Goal
    BY <1>0, <1>4, EndsFacts DEF Forgets
  <1>5. ASSUME NEW p \in Proc,
               Update(p) \/ Propose(p) \/ Accept(p) \/ Reject(p) \/ Override(p) \/ Abandon(p)
        PROVE  Goal
    BY <1>4, <1>5 DEF Update, Propose, Accept, Reject, Override, Abandon
  <1>6. ASSUME NEW p \in Proc, Move(p) PROVE Goal
    <2>1. /\ status' = op[p].to
          /\ closedOn' = IF status # "done" /\ op[p].to = "done" THEN InFlight \ {p}
                         ELSE closedOn \ {p}
          /\ Ends(p)
      BY <1>6 DEF Move
    <2>2. q # p /\ op[q] # Idle
      BY <1>0, <2>1, EndsFacts
    <2> QED
      BY <2>1, <2>2 DEF InFlight
  <1>7. CASE UNCHANGED vars
    BY <1>1, <1>7 DEF vars, history
  <1> QED
    BY <1>2, <1>3, <1>5, <1>6, <1>7 DEF Next, Act

(* What could still change a closed Spec without its guards was under way   *)
(* when it was closed.                                                      *)
Overtaken ==
    status = "done" =>
        \A p \in Proc : \/ op[p].kind = "update"
                        \/ op[p].kind = "move" /\ op[p].from # "done"
            => p \in closedOn

LEMMA OvertakenStep ==
    ASSUME Inv, Overtaken, [Next]_vars
    PROVE  Overtaken'
  <1> SUFFICES ASSUME status' = "done", NEW q \in Proc,
                      \/ op'[q].kind = "update"
                      \/ op'[q].kind = "move" /\ op'[q].from # "done"
               PROVE  q \in closedOn'
    BY DEF Overtaken
  <1>1. op'[q] # Idle
    BY DEF Idle
  <1>2. CASE status # "done"
    BY <1>1, <1>2, ClosedStep
  <1>3. CASE status = "done" /\ op'[q] = op[q]
    BY <1>1, <1>3, ClosedStep DEF Overtaken
  <1>4. CASE status = "done" /\ Check(q)
    BY <1>4, Checked
  <1> QED
    BY <1>1, <1>2, <1>3, <1>4, OpStep

LEMMA AlwaysOvertaken == Spec => []Overtaken
  <1>1. Init => Overtaken
    BY PhasesAssumption DEF Init, Overtaken
  <1>2. Inv /\ Overtaken /\ [Next]_vars => Overtaken'
    BY OvertakenStep
  <1> QED
    BY <1>1, <1>2, Invariance, PTL DEF Spec

(* However requests race, the record of a closed Spec changes only by an    *)
(* edit that was under way when it was closed: one that was checked against *)
(* the open Spec.  No edit checked afterwards gets through (acs.ts:276).    *)
THEOREM ClosedIsFrozen == Spec => FrozenButForOvertaken
  <1>1. Inv /\ Overtaken /\ [Next]_vars =>
          [status = "done" /\ status' = "done" =>
            \A a \in DOMAIN acs \cap DOMAIN acs' : acs'[a].text # acs[a].text =>
                \E p \in closedOn : Completes(p, "update") /\ op[p].on = a]_vars
    <2> SUFFICES ASSUME Inv, Overtaken, [Next]_vars, status = "done",
                        NEW a \in DOMAIN acs \cap DOMAIN acs', acs'[a].text # acs[a].text
                 PROVE  \E p \in closedOn : Completes(p, "update") /\ op[p].on = a
      OBVIOUS
    <2>1. PICK p \in Proc : Update(p) /\ op[p].on = a
      BY AcsStep DEF Kept, Minted
    <2>2. op[p].kind = "update" /\ op'[p] = Idle
      BY <2>1, EndsFacts DEF Update, Inv
    <2> QED
      BY <2>1, <2>2 DEF Overtaken, Completes
  <1> QED
    BY <1>1, AlwaysOvertaken, Invariance, PTL DEF Spec, FrozenButForOvertaken

(* However requests race, a Spec is reopened with a reason on the record,   *)
(* or by a move that was under way, from a phase it read before, when the   *)
(* Spec was closed (documents.ts:1546-1590).                                *)
THEOREM ReopensOnRecord == Spec => ReopenedOnRecordOrOvertaken
  <1>1. Inv /\ Overtaken /\ [Next]_vars =>
          [status = "done" /\ status' # "done" =>
            \/ /\ Len(journal') = Len(journal) + 1
               /\ journal'[Len(journal) + 1].kind = "spec_reopened"
            \/ \E p \in closedOn : Completes(p, "move") /\ op[p].from # "done"]_vars
    <2> SUFFICES ASSUME Inv, Overtaken, [Next]_vars, status = "done", status' # "done"
                 PROVE  \/ /\ Len(journal') = Len(journal) + 1
                           /\ journal'[Len(journal) + 1].kind = "spec_reopened"
                        \/ \E p \in closedOn : Completes(p, "move") /\ op[p].from # "done"
      OBVIOUS
    <2>1. PICK p \in Proc : Move(p)
      BY StatusStep
    <2>2. op[p].kind = "move" /\ status' = op[p].to /\ op'[p] = Idle
      BY <2>1, EndsFacts DEF Move, Inv
    <2>3. CASE op[p].from # "done"
      BY <2>2, <2>3 DEF Overtaken, Completes
    <2>4. CASE op[p].from = "done"
      <3> DEFINE e == [kind |-> "spec_reopened", ac |-> 0, at |-> filed, mark |-> 0,
                       counted |-> {}]
      <3>1. journal' = Append(journal, e)
        BY <2>1, <2>2, <2>4 DEF Move, IsReopen, Log
      <3>2. e \in Entry /\ e.kind = "spec_reopened"
        BY DEF Inv, TypeOK, Entry
      <3> HIDE DEF e
      <3> QED
        BY <3>1, <3>2, Appended DEF Inv
    <2> QED
      BY <2>3, <2>4
  <1> QED
    BY <1>1, AlwaysOvertaken, Invariance, PTL DEF Spec, ReopenedOnRecordOrOvertaken

-----------------------------------------------------------------------------
(* Requests overtaken by evidence *)

(* provenOn remembers a request until it ends. *)
LEMMA ProvenStep ==
    ASSUME Inv, [Next]_vars, NEW q \in Proc, op'[q] # Idle, q \in provenOn
    PROVE  q \in provenOn'
  <1> DEFINE Goal == q \in provenOn'
  <1>0. TypeOK
    BY DEF Inv
  <1>1. CASE UNCHANGED provenOn
    BY <1>1
  <1>2. CASE Write
    BY <1>1, <1>2 DEF Write, CreateAc, DeleteAc, SignOff, RevokeSignOff, Emit, Age, RetireTest,
                      ResolveComment, UnresolveComment, history, Proves
  <1>3. ASSUME NEW p \in Proc, Check(p) PROVE Goal
    BY <1>1, <1>3, Checked
  <1>4. ASSUME NEW p \in Proc, Act(p) \/ Abandon(p) PROVE Goal
    <2>1. Ends(p)
      BY <1>4 DEF Act, Update, Propose, Accept, Reject, Move, Override, Abandon
    <2> QED
      BY <1>0, <2>1, EndsFacts DEF Ends
  <1>5. CASE UNCHANGED vars
    BY <1>1, <1>5 DEF vars, history
  <1> QED
    BY <1>2, <1>3, <1>4, <1>5 DEF Next

(* What a criterion's state is computed from. *)
LEMMA SameEvidence ==
    ASSUME NEW a, acs'[a].seq = acs[a].seq, acs'[a].signed = acs[a].signed,
           \A x \in DOMAIN latest \cup DOMAIN latest' : x[1] = acs[a].seq =>
                /\ x \in DOMAIN latest /\ x \in DOMAIN latest'
                /\ latest'[x] = latest[x],
           acs[a].seq \in stale' <=> acs[a].seq \in stale
    PROVE  Satisfied(a)' <=> Satisfied(a)
  <1>1. ResultsOf(a)' = ResultsOf(a)
    BY DEF ResultsOf
  <1> QED
    BY <1>1 DEF Satisfied, VerificationOf

(* A criterion comes to read as satisfied only by what Proves it. *)
LEMMA VerificationStep ==
    ASSUME Inv, [Next]_vars, NEW a \in DOMAIN acs, a \in DOMAIN acs',
           Satisfied(a)', ~Satisfied(a)
    PROVE  Proves(acs[a].seq)
  <1> DEFINE Goal == Proves(acs[a].seq)
  <1>0. /\ TypeOK /\ acs[a] \in Ac /\ a # texts + 1 /\ acs'[a].seq = acs[a].seq
        /\ acs'[a].signed = acs[a].signed \/ \E b \in DOMAIN acs : SignOff(b) \/ RevokeSignOff(b)
    <2>1. a # texts + 1
      BY DEF Inv, TypeOK, Bounded
    <2>2. Kept(a)
      BY <2>1, AcsStep DEF Minted
    <2> QED
      BY <2>1, <2>2 DEF Kept, Inv, TypeOK
  <1>1. ASSUME UNCHANGED <<latest, stale>>, acs'[a].signed = acs[a].signed PROVE FALSE
    BY <1>0, <1>1, SameEvidence
  <1>2. ASSUME NEW b \in DOMAIN acs, SignOff(b) PROVE Goal
    <2>1. /\ acs' = [acs EXCEPT ![b].signed = acs[b].text] /\ UNCHANGED <<latest, stale>>
          /\ Proves(acs[b].seq)
      BY <1>2 DEF SignOff, evidence
    <2>2. CASE a # b
      BY <1>1, <2>1, <2>2
    <2> QED
      BY <2>1, <2>2
  <1>3. ASSUME NEW b \in DOMAIN acs, RevokeSignOff(b) PROVE FALSE
    <2>1. /\ acs' = [acs EXCEPT ![b].signed = 0] /\ UNCHANGED <<latest, stale>>
          /\ acs[b].signed # 0
      BY <1>3 DEF RevokeSignOff, evidence
    <2>2. CASE a # b
      BY <1>1, <2>1, <2>2
    <2>3. CASE a = b
      <3>1. ResultsOf(a)' = ResultsOf(a)
        BY <1>0, <2>1 DEF ResultsOf
      <3> QED
        BY <2>1, <2>3, <3>1 DEF Satisfied, VerificationOf
    <2> QED
      BY <2>2, <2>3
  <1>4. ASSUME NEW s \in 1 .. MaxTexts, NEW t \in Tests, NEW v, Emit(s, t, v) PROVE Goal
    <2> DEFINE key == <<s, t>>
    <2>1. PICK e : latest' = Put(latest, key, e)
      BY <1>4 DEF Emit
    <2>2. stale' = stale \ {s} /\ UNCHANGED acs /\ Proves(s) /\ key[1] = s
      BY <1>4 DEF Emit
    <2> HIDE DEF key
    <2>3. CASE acs[a].seq # s
      <3>1. \A x \in DOMAIN latest \cup DOMAIN latest' : x # key =>
               x \in DOMAIN latest /\ x \in DOMAIN latest' /\ latest'[x] = latest[x]
        BY <2>1 DEF Put
      <3> QED
        BY <1>0, <2>2, <2>3, <3>1, SameEvidence
    <2> QED
      BY <2>2, <2>3
  <1>5. ASSUME NEW s \in 1 .. MaxTexts, Age(s) PROVE FALSE
    <2>1. stale \subseteq stale' /\ UNCHANGED <<acs, latest>>
      BY <1>5 DEF Age
    <2>2. ResultsOf(a)' = ResultsOf(a)
      BY <2>1 DEF ResultsOf
    <2> QED
      BY <2>1, <2>2 DEF Satisfied, VerificationOf
  <1>6. ASSUME NEW b \in DOMAIN acs, NEW t \in Tests, RetireTest(b, t) PROVE Goal
    <2> DEFINE key == <<acs[b].seq, t>>
    <2>1. /\ UNCHANGED <<acs, stale>> /\ Proves(acs[b].seq)
          /\ key[1] = acs[b].seq
          /\ DOMAIN latest' = DOMAIN latest \ {key}
          /\ \A x \in DOMAIN latest' : latest'[x] = latest[x]
      BY <1>6, RestrictFacts DEF RetireTest
    <2> HIDE DEF key
    <2>2. CASE acs[a].seq # acs[b].seq
      BY <2>1, <2>2, SameEvidence
    <2> QED
      BY <2>1, <2>2
  (* Everything else leaves the evidence and the sign-offs alone. *)
  <1>7. ASSUME UNCHANGED <<latest, stale>>, \A b \in DOMAIN acs : ~SignOff(b) /\ ~RevokeSignOff(b)
        PROVE  FALSE
    BY <1>0, <1>1, <1>7
  <1>8. CASE \A b \in DOMAIN acs : ~SignOff(b) /\ ~RevokeSignOff(b)
    <2>1. CASE Write
      BY <1>4, <1>5, <1>6, <1>7, <1>8, <2>1
         DEF Write, CreateAc, DeleteAc, ResolveComment, UnresolveComment, evidence
    <2>2. ASSUME NEW p \in Proc, Check(p) PROVE FALSE
      BY <1>7, <1>8, <2>2, Checked
    <2>3. ASSUME NEW p \in Proc, Act(p) \/ Abandon(p) PROVE FALSE
      BY <1>7, <1>8, <2>3 DEF Act, Update, Propose, Accept, Reject, Move, Override, Abandon,
                              evidence
    <2>4. CASE UNCHANGED vars
      BY <1>7, <1>8, <2>4 DEF vars, evidence
    <2> QED
      BY <2>1, <2>2, <2>3, <2>4 DEF Next
  <1> QED
    BY <1>2, <1>3, <1>8

(* An edit under way whose criterion has come to read as satisfied was      *)
(* overtaken by the evidence.                                               *)
SatisfiedAcs == {a \in DOMAIN acs : Satisfied(a)}

Watched ==
    \A p \in Proc : op[p].kind = "update" =>
        /\ op[p].on \in Nat /\ op[p].on <= texts
        /\ op[p].on \in SatisfiedAcs => p \in provenOn

LEMMA WatchedStep ==
    ASSUME Inv, Watched, [Next]_vars
    PROVE  Watched'
  <1> SUFFICES ASSUME NEW q \in Proc, op'[q].kind = "update"
               PROVE  /\ op'[q].on \in Nat /\ op'[q].on <= texts'
                      /\ op'[q].on \in SatisfiedAcs' => q \in provenOn'
    BY DEF Watched
  <1>1. op'[q] # Idle /\ texts \in Nat /\ texts' \in Nat /\ texts <= texts'
    BY NextInv, CountsGrow DEF Idle, Inv, TypeOK
  <1>2. CASE Check(q)
    <2>1. /\ op'[q].on \in DOMAIN acs /\ ~Satisfied(op'[q].on)
          /\ UNCHANGED <<acs, latest, stale, texts>>
      BY <1>2, Checked
    <2>2. op'[q].on \in Nat /\ op'[q].on <= texts'
      BY <2>1 DEF Inv, TypeOK, Bounded
    <2>3. SatisfiedAcs' = SatisfiedAcs
      BY <2>1 DEF SatisfiedAcs, Satisfied, VerificationOf, ResultsOf
    <2>4. op'[q].on \notin SatisfiedAcs
      BY <2>1 DEF SatisfiedAcs
    <2> QED
      BY <2>2, <2>3, <2>4
  <1>3. CASE op'[q] = op[q]
    <2>1. PICK a : a = op[q].on
      OBVIOUS
    <2>2. /\ op[q].kind = "update"
          /\ a \in Nat /\ a <= texts /\ (a \in SatisfiedAcs => q \in provenOn)
      BY <1>3, <2>1 DEF Watched
    <2>3. ASSUME a \in SatisfiedAcs' PROVE q \in provenOn'
      <3>1. a \in DOMAIN acs' /\ Satisfied(a)'
        BY <2>3 DEF SatisfiedAcs
      <3>2. Kept(a)
        BY <1>1, <2>2, <3>1, AcsStep DEF Minted
      <3>3. a \in DOMAIN acs
        BY <3>2 DEF Kept
      <3>4. CASE Satisfied(a)
        BY <1>1, <2>2, <3>3, <3>4, ProvenStep DEF SatisfiedAcs
      <3>5. CASE ~Satisfied(a)
        <4>1. Proves(acs[a].seq)
          BY <3>1, <3>3, <3>5, VerificationStep
        <4> QED
          BY <2>1, <2>2, <3>3, <4>1 DEF Proves
      <3> QED
        BY <3>4, <3>5
    <2> QED
      BY <1>1, <1>3, <2>1, <2>2, <2>3
  <1> QED
    BY <1>1, <1>2, <1>3, OpStep

(* However requests race, the statement of a criterion that reads verified  *)
(* or accepted changes only by an edit overtaken by the evidence for it:    *)
(* none that was checked while the criterion read so gets through           *)
(* (acs.ts:285).                                                            *)
THEOREM ProvenIsFrozen == Spec => ProvenButForOvertaken
  <1>1. Init => Watched
    BY DEF Init, Watched, Idle
  <1>2. Inv /\ Watched /\ [Next]_vars => Watched'
    BY WatchedStep
  <1>3. Inv /\ Watched /\ [Next]_vars =>
          [\A a \in DOMAIN acs \cap DOMAIN acs' : acs'[a].text # acs[a].text /\ Satisfied(a) =>
            \E p \in provenOn : Completes(p, "update") /\ op[p].on = a]_vars
    <2> SUFFICES ASSUME Inv, Watched, [Next]_vars, NEW a \in DOMAIN acs \cap DOMAIN acs',
                        acs'[a].text # acs[a].text, Satisfied(a)
                 PROVE  \E p \in provenOn : Completes(p, "update") /\ op[p].on = a
      OBVIOUS
    <2>1. PICK p \in Proc : Update(p) /\ op[p].on = a
      BY AcsStep DEF Kept, Minted
    <2>2. op[p].kind = "update" /\ op'[p] = Idle
      BY <2>1, EndsFacts DEF Update, Inv
    <2>3. a \in SatisfiedAcs
      BY DEF SatisfiedAcs
    <2> QED
      BY <2>1, <2>2, <2>3 DEF Watched, Completes
  <1> QED
    BY <1>1, <1>2, <1>3, Invariance, PTL DEF Spec, ProvenButForOvertaken

-----------------------------------------------------------------------------
(* Requests overtaken by one another *)

(* A proposal about to be filed joins only what was filed since its check. *)
ProposesAlone ==
    \A p \in Proc : op[p].kind = "propose" => \A c \in OpenOn(op[p].on) : op[p].mark < c

LEMMA ProposesAloneStep ==
    ASSUME Inv, ProposesAlone, "unresolve" \notin Ops, [Next]_vars
    PROVE  ProposesAlone'
  <1> SUFFICES ASSUME NEW q \in Proc, op'[q].kind = "propose", NEW c \in DOMAIN proposals',
                      proposals'[c].on = op'[q].on, proposals'[c].state = "open"
               PROVE  op'[q].mark < c
    BY DEF ProposesAlone, OpenOn
  <1>1. filed \in Nat /\ op'[q] # Idle
    BY DEF Inv, TypeOK, Idle
  <1>2. CASE Check(q)
    <2>1. OpenOn(op'[q].on) = {} /\ UNCHANGED proposals
      BY <1>2, Checked
    <2> QED
      BY <2>1 DEF OpenOn
  <1>3. CASE op'[q] = op[q] /\ SameProposal(c)
    <2>1. c \in OpenOn(op[q].on)
      BY <1>3 DEF SameProposal, OpenOn
    <2> QED
      BY <1>3, <2>1 DEF ProposesAlone
  <1>4. CASE op'[q] = op[q] /\ JustFiled(c)
    <2>1. op[q].mark <= filed /\ op[q].mark \in Nat /\ c = filed + 1
      BY <1>4, RequestFields DEF JustFiled, Inv, TypeOK, Bounded
    <2> QED
      BY <1>1, <1>4, <2>1
  <1> QED
    BY <1>1, <1>2, <1>3, <1>4, OpStep, ProposalsStep

LEMMA ProposalsOverlapStep ==
    ASSUME Inv, ProposesAlone, ProposalsOverlap, "unresolve" \notin Ops, [Next]_vars
    PROVE  ProposalsOverlap'
  <1> SUFFICES ASSUME NEW a \in DOMAIN acs',
                      NEW c \in DOMAIN proposals', proposals'[c].on = a,
                      proposals'[c].state = "open",
                      NEW d \in DOMAIN proposals', proposals'[d].on = a,
                      proposals'[d].state = "open", c < d
               PROVE  proposals'[d].mark < c
    BY DEF ProposalsOverlap, OpenOn
  <1>1. /\ filed \in Nat /\ filed' \in Nat /\ DOMAIN proposals' \subseteq Nat
        /\ \A x \in DOMAIN proposals : x <= filed /\ x \in Nat
    BY NextInv DEF Inv, TypeOK, Bounded
  <1>2. CASE SameProposal(c) /\ SameProposal(d)
    <2>1. c \in OpenOn(a) /\ d \in OpenOn(a) /\ proposals'[d].mark = proposals[d].mark
      BY <1>2 DEF SameProposal, OpenOn
    <2>2. a \in DOMAIN acs
      BY <2>1 DEF OpenOn, Inv, TypeOK
    <2> QED
      BY <2>1, <2>2 DEF ProposalsOverlap
  <1>3. CASE SameProposal(c) /\ JustFiled(d)
    <2>1. PICK p \in Proc : Propose(p) /\ op[p].on = a /\ proposals'[d].mark = op[p].mark
      BY <1>3 DEF JustFiled
    <2>2. c \in OpenOn(a)
      BY <1>3 DEF SameProposal, OpenOn
    <2> QED
      BY <2>1, <2>2 DEF ProposesAlone, Propose
  <1>4. CASE JustFiled(c)
    <2>1. c = filed + 1 /\ d <= filed + 1
      <3>1. SameProposal(d) => d <= filed
        BY <1>1 DEF SameProposal
      <3>2. JustFiled(d) => d = filed + 1
        BY DEF JustFiled
      <3> QED
        BY <1>1, <1>4, <3>1, <3>2, ProposalsStep DEF JustFiled
    <2> QED
      BY <1>1, <2>1
  <1> QED
    BY <1>2, <1>3, <1>4, ProposalsStep

(* As long as no decided proposal is reopened as a plain comment, several   *)
(* proposals are open on a criterion only where the requests that filed     *)
(* them overlapped: each later one was checked before the earlier was filed *)
(* (ac-supersession.ts:205).                                                *)
THEOREM OverlappingProposals ==
    ASSUME "unresolve" \notin Ops
    PROVE  Spec => []ProposalsOverlap
  <1>1. Init => ProposesAlone /\ ProposalsOverlap
    BY DEF Init, ProposesAlone, ProposalsOverlap, OpenOn, Idle
  <1>2. Inv /\ ProposesAlone /\ ProposalsOverlap /\ [Next]_vars
            => (ProposesAlone /\ ProposalsOverlap)'
    BY ProposesAloneStep, ProposalsOverlapStep
  <1> QED
    BY <1>1, <1>2, Invariance, PTL DEF Spec

(* The proposal a successor came from, where it is still there, is about a  *)
(* criterion that is superseded.                                            *)
Succession == \A b \in DOMAIN acs : acs[b].from # 0 =>
    /\ acs[b].from \in Nat /\ acs[b].from <= filed
    /\ acs[b].from \in DOMAIN proposals
            => acs[proposals[acs[b].from].on].status = "superseded"

LEMMA SuccessionStep ==
    ASSUME Inv, Succession, [Next]_vars
    PROVE  Succession'
  <1>1. Inv' /\ filed \in Nat /\ filed' \in Nat /\ filed <= filed'
    BY NextInv, CountsGrow DEF Inv, TypeOK
  <1>2. ASSUME NEW b \in DOMAIN acs', NEW c, c = acs'[b].from, c # 0
        PROVE  /\ c \in Nat /\ c <= filed'
               /\ c \in DOMAIN proposals' => acs'[proposals'[c].on].status = "superseded"
    <2>1. CASE Kept(b)
      <3>1. c = acs[b].from /\ b \in DOMAIN acs
        BY <1>2, <2>1 DEF Kept
      <3>2. c \in Nat /\ c <= filed
            /\ (c \in DOMAIN proposals => acs[proposals[c].on].status = "superseded")
        BY <1>2, <3>1 DEF Succession
      <3>3. ASSUME c \in DOMAIN proposals' PROVE acs'[proposals'[c].on].status = "superseded"
        <4>1. c \in DOMAIN proposals /\ proposals'[c].on = proposals[c].on
          BY <1>1, <3>2, <3>3, StaysAbout
        <4>2. proposals'[c].on \in DOMAIN acs' /\ proposals[c].on \in DOMAIN acs
          BY <1>1, <3>3, <4>1 DEF Inv, TypeOK
        <4>3. proposals[c].on # texts + 1
          BY <4>2 DEF Inv, TypeOK, Bounded
        <4>4. Kept(proposals[c].on)
          BY <4>1, <4>2, <4>3, AcsStep DEF Minted
        <4> QED
          BY <3>2, <4>1, <4>4 DEF Kept
      <3>4. c <= filed'
        BY <1>1, <3>2
      <3> QED
        BY <3>2, <3>3, <3>4
    <2>2. CASE Minted(b)
      <3>1. PICK p \in Proc : Accept(p) /\ op[p].on = c
        BY <1>2, <2>2 DEF Minted
      <3>2. /\ c \in DOMAIN proposals /\ proposals'[c].on = proposals[c].on
            /\ acs'[proposals[c].on].status = "superseded"
        BY <3>1, AcceptApplies
      <3>3. c \in Nat /\ c <= filed
        BY <3>2 DEF Inv, TypeOK, Bounded
      <3>4. c <= filed'
        BY <1>1, <3>3
      <3> QED
        BY <3>2, <3>3, <3>4
    <2> QED
      BY <2>1, <2>2, AcsStep
  <1> QED
    BY <1>2 DEF Succession

(* An acceptance under way repeats only one that came after its check. *)
AcceptsAlone ==
    \A p \in Proc : op[p].kind = "accept" =>
        \A b \in DOMAIN acs : acs[b].from = op[p].on /\ acs[b].from # 0 => op[p].mark < b

LEMMA AcceptsAloneStep ==
    ASSUME Inv, Succession, AcceptsAlone, [Next]_vars
    PROVE  AcceptsAlone'
  <1> SUFFICES ASSUME NEW q \in Proc, op'[q].kind = "accept", NEW b \in DOMAIN acs',
                      acs'[b].from = op'[q].on, acs'[b].from # 0
               PROVE  op'[q].mark < b
    BY DEF AcceptsAlone
  <1>1. texts \in Nat /\ op'[q] # Idle
    BY DEF Inv, TypeOK, Idle
  <1>2. CASE Check(q)
    <2>1. /\ op'[q].on \in DOMAIN proposals /\ UNCHANGED acs
          /\ acs[proposals[op'[q].on].on].status = "active"
      BY <1>2, Checked
    <2> QED
      BY <2>1 DEF Succession
  <1>3. CASE op'[q] = op[q] /\ Kept(b)
    BY <1>3 DEF Kept, AcceptsAlone
  <1>4. CASE op'[q] = op[q] /\ Minted(b)
    <2>1. op[q].mark <= texts /\ op[q].mark \in Nat /\ b = texts + 1
      BY <1>4, RequestFields DEF Minted, Inv, TypeOK, Bounded
    <2> QED
      BY <1>1, <1>4, <2>1
  <1> QED
    BY <1>1, <1>2, <1>3, <1>4, OpStep, AcsStep

LEMMA SuccessorsOverlapStep ==
    ASSUME Inv, AcceptsAlone, SuccessorsOverlap, [Next]_vars
    PROVE  SuccessorsOverlap'
  <1> SUFFICES ASSUME NEW a \in DOMAIN acs', NEW b \in DOMAIN acs',
                      acs'[a].from = acs'[b].from, acs'[a].from # 0, a < b
               PROVE  acs'[b].mark < a
    BY DEF SuccessorsOverlap
  <1>1. /\ texts \in Nat /\ \A x \in DOMAIN acs : x <= texts /\ x \in Nat
    BY DEF Inv, TypeOK, Bounded
  <1>2. CASE Kept(a) /\ Kept(b)
    BY <1>2 DEF Kept, SuccessorsOverlap
  <1>3. CASE Kept(a) /\ Minted(b)
    <2>1. PICK p \in Proc : Accept(p) /\ op[p].on = acs'[b].from /\ acs'[b].mark = op[p].mark
      BY <1>3 DEF Minted
    <2>2. a \in DOMAIN acs /\ acs[a].from = op[p].on
      BY <1>3, <2>1 DEF Kept
    <2> QED
      BY <2>1, <2>2 DEF AcceptsAlone, Accept, Accepts
  <1>4. CASE Minted(a)
    <2>1. a = texts + 1
      BY <1>4 DEF Minted
    <2>2. Kept(b) => b <= texts /\ b \in Nat
      BY <1>1 DEF Kept
    <2>3. Minted(b) => b = texts + 1
      BY DEF Minted
    <2> QED
      BY <1>1, <2>1, <2>2, <2>3, AcsStep
  <1> QED
    BY <1>2, <1>3, <1>4, AcsStep

(* A proposal has several successors only where its acceptances overlapped: *)
(* each later one was checked before the earlier successor was minted.      *)
(* This holds of anything else people may do, a decided proposal reopened   *)
(* as a plain comment included: its criterion stays superseded, which a     *)
(* check refuses (ac-supersession.ts:404).                                  *)
THEOREM OverlappingSuccessors == Spec => []SuccessorsOverlap
  <1>1. Init => Succession /\ AcceptsAlone /\ SuccessorsOverlap
    BY DEF Init, Succession, AcceptsAlone, SuccessorsOverlap, Idle
  <1>2. Inv /\ Succession /\ AcceptsAlone /\ SuccessorsOverlap /\ [Next]_vars
            => (Succession /\ AcceptsAlone /\ SuccessorsOverlap)'
    BY SuccessionStep, AcceptsAloneStep, SuccessorsOverlapStep
  <1> QED
    BY <1>1, <1>2, Invariance, PTL DEF Spec

-----------------------------------------------------------------------------
(* What an override clears *)

(* An entry that waives every proposal up to its watermark. *)
Waives(i, c) ==
    i \in DOMAIN journal /\ journal[i].kind = "gate_overridden" /\ c <= journal[i].at

(* One that names the proposal, or overlapped its filing. *)
Counts(i, c) ==
    /\ i \in DOMAIN journal /\ journal[i].kind = "gate_overridden"
    /\ c \in journal[i].counted \/ (journal[i].mark < c /\ c <= journal[i].at)

LEMMA OverridesParts ==
    OverridesClearWhatTheyCount <=>
        \A c \in DOMAIN proposals : proposals[c].state = "open" =>
            \A i : Waives(i, c) => \E j : Counts(j, c)
  BY DEF OverridesClearWhatTheyCount, Waives, Counts, Entries

(* An override under way names what it will clear, but for what was filed   *)
(* since its check and what another override has cleared.                   *)
OverridesInformed ==
    /\ \A i \in DOMAIN journal : journal[i].at \in Nat /\ journal[i].at <= filed
    /\ \A p \in Proc : op[p].kind = "override" =>
        \A c \in DOMAIN proposals : proposals[c].state = "open" =>
            c \in op[p].seen \/ c > op[p].mark \/ \E i : Waives(i, c)

(* A step forgets no entry. *)
LEMMA EntriesStay ==
    ASSUME Inv, [Next]_vars
    PROVE  \A i \in DOMAIN journal : i \in DOMAIN journal' /\ journal'[i] = journal[i]
  BY JournalStep DEF SameEntry, JustLogged

LEMMA OverridesInformedStep ==
    ASSUME Inv, OverridesInformed, "unresolve" \notin Ops, [Next]_vars
    PROVE  OverridesInformed'
  <1>1. filed \in Nat /\ filed' \in Nat /\ filed <= filed'
    BY NextInv, CountsGrow DEF Inv, TypeOK
  <1>2. ASSUME NEW i \in DOMAIN journal' PROVE journal'[i].at \in Nat /\ journal'[i].at <= filed'
    <2>1. CASE SameEntry(i)
      <3>1. journal'[i].at \in Nat /\ journal'[i].at <= filed
        BY <2>1 DEF SameEntry, OverridesInformed
      <3> QED
        BY <1>1, <3>1
    <2>2. CASE JustLogged(i)
      BY <1>1, <2>2 DEF JustLogged
    <2> QED
      BY <2>1, <2>2, JournalStep
  <1>3. ASSUME NEW q \in Proc, op'[q].kind = "override", NEW c \in DOMAIN proposals',
               proposals'[c].state = "open"
        PROVE  c \in op'[q].seen \/ c > op'[q].mark \/ \E i : Waives(i, c)'
    <2>1. op'[q] # Idle
      BY <1>3 DEF Idle
    <2>2. CASE Check(q)
      <3>1. op'[q].seen = Blockers /\ UNCHANGED <<proposals, journal>>
        BY <1>3, <2>2, Checked
      <3>2. CASE c \in Blockers
        BY <3>1, <3>2
      <3>3. CASE c \notin Blockers
        <4>1. PICK i \in DOMAIN journal :
                 journal[i].kind = "gate_overridden" /\ ~(c > journal[i].at)
          BY <1>3, <3>1, <3>3 DEF Blockers, Entries
        <4>2. c \in Nat /\ journal[i].at \in Nat
          BY <1>3, <3>1 DEF OverridesInformed, Inv, TypeOK
        <4>3. i \in DOMAIN journal' /\ journal'[i].kind = "gate_overridden" /\ c <= journal'[i].at
          BY <3>1, <4>1, <4>2
        <4> QED
          BY <4>3 DEF Waives
      <3> QED
        BY <3>2, <3>3
    <2>3. CASE op'[q] = op[q] /\ SameProposal(c)
      <3>1. c \in op[q].seen \/ c > op[q].mark \/ \E i : Waives(i, c)
        BY <1>3, <2>3 DEF SameProposal, OverridesInformed
      <3>2. ASSUME NEW i, Waives(i, c) PROVE Waives(i, c)'
        BY <3>2, EntriesStay DEF Waives
      <3> QED
        BY <2>3, <3>1, <3>2
    <2>4. CASE op'[q] = op[q] /\ JustFiled(c)
      <3>1. op[q].mark <= filed /\ op[q].mark \in Nat /\ c = filed + 1
        BY <1>3, <2>4, RequestFields DEF JustFiled, Inv, TypeOK, Bounded
      <3> QED
        BY <1>1, <2>4, <3>1
    <2> QED
      BY <2>1, <2>2, <2>3, <2>4, OpStep, ProposalsStep
  <1> QED
    BY <1>2, <1>3 DEF OverridesInformed

LEMMA OverridesStep ==
    ASSUME Inv, OverridesInformed, OverridesClearWhatTheyCount, "unresolve" \notin Ops,
           [Next]_vars
    PROVE  OverridesClearWhatTheyCount'
  <1>1. ASSUME NEW c \in DOMAIN proposals', proposals'[c].state = "open",
               NEW i, i \in DOMAIN journal', journal'[i].kind = "gate_overridden",
               c <= journal'[i].at
        PROVE  \E j : Counts(j, c)'
    <2>1. /\ filed \in Nat /\ filed' \in Nat
          /\ \A k \in DOMAIN journal : journal[k].at \in Nat /\ journal[k].at <= filed
      BY NextInv DEF Inv, TypeOK, OverridesInformed
    <2>2. ASSUME NEW j, Counts(j, c) PROVE Counts(j, c)'
      BY <2>2, EntriesStay DEF Counts
    <2>3. CASE SameProposal(c)
      <3>1. c \in DOMAIN proposals /\ proposals[c].state = "open"
        BY <1>1, <2>3 DEF SameProposal
      <3>2. ASSUME NEW k, Waives(k, c) PROVE \E j : Counts(j, c)'
        BY <2>2, <3>1, <3>2, OverridesParts
      <3>3. CASE SameEntry(i)
        <4>1. Waives(i, c)
          BY <1>1, <3>3 DEF SameEntry, Waives
        <4> QED
          BY <3>2, <4>1
      <3>4. CASE JustLogged(i)
        <4>1. PICK p \in Proc : /\ Override(p) /\ journal'[i].counted = op[p].seen
                                /\ journal'[i].mark = op[p].mark
          BY <1>1, <3>4 DEF JustLogged
        <4>2. c \in op[p].seen \/ c > op[p].mark \/ \E k : Waives(k, c)
          BY <3>1, <4>1 DEF OverridesInformed, Override
        <4>3. op[p].mark \in Nat /\ c \in Nat
          BY <3>1, <4>1, RequestFields DEF Override, Inv, TypeOK
        <4>4. c \in op[p].seen \/ c > op[p].mark => Counts(i, c)'
          BY <1>1, <4>1, <4>3 DEF Counts
        <4> QED
          BY <3>2, <4>2, <4>4
      <3> QED
        BY <1>1, <3>3, <3>4, JournalStep
    <2>4. CASE JustFiled(c)
      <3>1. ~JustLogged(i)
        BY <2>1, <2>4 DEF JustFiled, JustLogged
      <3>2. journal'[i].at <= filed /\ journal'[i].at \in Nat
        BY <1>1, <2>1, <3>1, JournalStep DEF SameEntry
      <3> QED
        BY <1>1, <2>1, <2>4, <3>2 DEF JustFiled
    <2> QED
      BY <1>1, <2>3, <2>4, ProposalsStep
  <1>2. \A c \in DOMAIN proposals' : proposals'[c].state = "open" =>
            \A i : Waives(i, c)' => \E j : Counts(j, c)'
    BY <1>1 DEF Waives
  <1> QED
    BY <1>2 DEF OverridesClearWhatTheyCount, Waives, Counts, Entries

(* However overrides, filings and decisions race: as long as no decided     *)
(* proposal is reopened as a plain comment, an undecided one is waived only *)
(* by an override that named it, or that was under way when it was filed    *)
(* (done-gate.ts:31-33, 198-224).                                           *)
THEOREM OverridesCount ==
    ASSUME "unresolve" \notin Ops
    PROVE  Spec => []OverridesClearWhatTheyCount
  <1>1. Init => OverridesInformed /\ OverridesClearWhatTheyCount
    BY DEF Init, OverridesInformed, OverridesClearWhatTheyCount, Idle
  <1>2. Inv /\ OverridesInformed /\ OverridesClearWhatTheyCount /\ [Next]_vars
            => (OverridesInformed /\ OverridesClearWhatTheyCount)'
    BY OverridesInformedStep, OverridesStep
  <1> QED
    BY <1>1, <1>2, Invariance, PTL DEF Spec

-----------------------------------------------------------------------------
(* Supersession, whole *)

(* Proposals are numbered from one, and an acceptance names one of them. *)
Numbered ==
    /\ 0 \notin DOMAIN proposals
    /\ \A i \in DOMAIN journal : journal[i].kind = "ac_status_changed" =>
        \A c : journal[i].counted = {c} => c \in Nat /\ c <= filed

Whole == Succession /\ Numbered /\ SupersessionIsWhole

LEMMA NumberedStep ==
    ASSUME Inv, Numbered, "unresolve" \notin Ops, [Next]_vars
    PROVE  Numbered'
  <1>0. filed \in Nat /\ filed' \in Nat /\ filed <= filed'
    BY NextInv, CountsGrow DEF Inv, TypeOK
  <1>1. 0 \notin DOMAIN proposals'
    <2>1. filed + 1 # 0
      BY <1>0
    <2> QED
      BY <2>1, ProposalsStep DEF SameProposal, JustFiled, Numbered
  <1>2. ASSUME NEW i \in DOMAIN journal', journal'[i].kind = "ac_status_changed", NEW c,
               journal'[i].counted = {c}
        PROVE  c \in Nat /\ c <= filed
    <2>1. CASE SameEntry(i)
      BY <1>2, <2>1 DEF SameEntry, Numbered
    <2>2. CASE JustLogged(i)
      <3>1. PICK p \in Proc : Accept(p) /\ journal'[i].counted = {op[p].on}
        BY <1>2, <2>2 DEF JustLogged
      <3>2. c = op[p].on
        BY <1>2, <3>1
      <3> QED
        BY <3>1, <3>2 DEF Accept, Accepts, Inv, TypeOK, Bounded
    <2> QED
      BY <2>1, <2>2, JournalStep
  <1>3. ASSUME NEW i \in DOMAIN journal', journal'[i].kind = "ac_status_changed", NEW c,
               journal'[i].counted = {c}
        PROVE  c \in Nat /\ c <= filed'
    <2>1. c \in Nat /\ c <= filed
      BY <1>2, <1>3
    <2> QED
      BY <1>0, <2>1
  <1> QED
    BY <1>1, <1>3 DEF Numbered

LEMMA Finiteness ==
    ASSUME Inv, NEW c
    PROVE  IsFiniteSet(Acceptances(c)) /\ IsFiniteSet(Successors(c))
  <1>1. IsFiniteSet(DOMAIN journal)
    BY JournalFacts, FS_Interval DEF Inv
  <1>2. DOMAIN acs \subseteq 1 .. texts /\ texts \in Nat
    BY DEF Inv, TypeOK, Bounded
  <1>3. IsFiniteSet(DOMAIN acs)
    <2>1. IsFiniteSet(1 .. texts)
      BY <1>2, FS_Interval
    <2> QED
      BY <1>2, <2>1, FS_Subset
  <1>4. Acceptances(c) \subseteq DOMAIN journal /\ Successors(c) \subseteq DOMAIN acs
    BY DEF Acceptances, Successors
  <1> QED
    BY <1>1, <1>3, <1>4, FS_Subset

(* Where no criterion is deleted, each keeps its origin. *)
LEMMA OriginsStay ==
    ASSUME Inv, "delete" \notin Ops, [Next]_vars
    PROVE  \A b \in DOMAIN acs : b \in DOMAIN acs' /\ acs'[b].from = acs[b].from
  BY NothingLost, AcsStep DEF Kept, Minted

(* The proposal just filed is nobody's yet. *)
LEMMA FiledIsWhole ==
    ASSUME Inv, Succession, Numbered, [Next]_vars, NEW c, JustFiled(c)
    PROVE  Acceptances(c)' = {} /\ Successors(c)' = {}
  <1>1. filed \in Nat /\ c = filed + 1 /\ filed' = filed + 1 /\ c \notin DOMAIN proposals
    BY DEF JustFiled, Inv, TypeOK
  <1>2. ASSUME NEW i \in DOMAIN journal', journal'[i].kind = "ac_status_changed",
               journal'[i].counted = {c}
        PROVE  FALSE
    <2>1. ~JustLogged(i)
      BY <1>1 DEF JustLogged
    <2>2. c <= filed
      BY <1>2, <2>1, JournalStep DEF SameEntry, Numbered
    <2> QED
      BY <1>1, <2>2
  <1>3. ASSUME NEW b \in DOMAIN acs', acs'[b].from = c PROVE FALSE
    <2>1. c # 0 /\ ~(c <= filed)
      BY <1>1
    <2>2. ~Kept(b)
      BY <1>3, <2>1 DEF Kept, Succession
    <2>3. ~Minted(b)
      BY <1>1, <1>3, <2>1 DEF Minted, Accept, Accepts
    <2> QED
      BY <2>2, <2>3, AcsStep
  <1> QED
    BY <1>2, <1>3 DEF Acceptances, Successors

(* A step that accepts something else, or nothing. *)
LEMMA UntouchedIsWhole ==
    ASSUME Inv, "delete" \notin Ops, [Next]_vars, NEW c \in DOMAIN proposals, c # 0,
           \A p \in Proc : Accept(p) => op[p].on # c
    PROVE  Acceptances(c)' = Acceptances(c) /\ Successors(c)' = Successors(c)
  <1>1. ASSUME NEW i
        PROVE  i \in DOMAIN journal' /\ journal'[i].kind = "ac_status_changed"
                                     /\ journal'[i].counted = {c}
               <=> i \in DOMAIN journal /\ journal[i].kind = "ac_status_changed"
                                        /\ journal[i].counted = {c}
    <2>1. ASSUME i \in DOMAIN journal', journal'[i].kind = "ac_status_changed",
                 journal'[i].counted = {c}, JustLogged(i)
          PROVE  FALSE
      <3>1. PICK p \in Proc : Accept(p) /\ journal'[i].counted = {op[p].on}
        BY <2>1 DEF JustLogged
      <3>2. op[p].on = c
        BY <2>1, <3>1
      <3> QED
        BY <3>1, <3>2
    <2> QED
      BY <2>1, JournalStep, EntriesStay DEF SameEntry
  <1>2. ASSUME NEW b
        PROVE  b \in DOMAIN acs' /\ acs'[b].from = c <=> b \in DOMAIN acs /\ acs[b].from = c
    <2>1. ASSUME b \in DOMAIN acs', acs'[b].from = c PROVE b \in DOMAIN acs /\ acs[b].from = c
      BY <2>1, AcsStep DEF Kept, Minted
    <2> QED
      BY <2>1, OriginsStay
  <1> QED
    BY <1>1, <1>2 DEF Acceptances, Successors

(* A step that accepts it. *)
LEMMA AppliedIsWhole ==
    ASSUME Inv, "delete" \notin Ops, [Next]_vars, NEW p \in Proc, Accept(p),
           NEW c, c = op[p].on, c # 0
    PROVE  /\ Acceptances(c)' # {}
           /\ Cardinality(Acceptances(c))' = Cardinality(Acceptances(c)) + 1
           /\ proposals[c].replaces =>
                Cardinality(Successors(c))' = Cardinality(Successors(c)) + 1
           /\ ~proposals[c].replaces => Cardinality(Successors(c))' = Cardinality(Successors(c))
  <1> DEFINE i == Len(journal) + 1
  <1>1. /\ DOMAIN journal' = DOMAIN journal \cup {i} /\ i \notin DOMAIN journal
        /\ \A j \in DOMAIN journal : journal'[j] = journal[j]
        /\ journal'[i].kind = "ac_status_changed" /\ journal'[i].counted = {c}
    BY AcceptLogs
  <1> HIDE DEF i
  <1>2. Acceptances(c)' = Acceptances(c) \cup {i} /\ i \notin Acceptances(c)
    BY <1>1 DEF Acceptances
  <1>3. Cardinality(Acceptances(c) \cup {i}) = Cardinality(Acceptances(c)) + 1
    BY <1>2, Finiteness, FS_AddElement
  <1>4. ASSUME proposals[c].replaces
        PROVE  Cardinality(Successors(c))' = Cardinality(Successors(c)) + 1
    <2> DEFINE n == texts + 1
    <2>1. DOMAIN acs' = DOMAIN acs \cup {n} /\ acs'[n].from = c
      BY <1>4, AcceptApplies
    <2>2. n \notin DOMAIN acs
      BY DEF Inv, TypeOK, Bounded
    <2> HIDE DEF n
    <2>3. Successors(c)' = Successors(c) \cup {n} /\ n \notin Successors(c)
      BY <2>1, <2>2, OriginsStay DEF Successors
    <2>4. Cardinality(Successors(c) \cup {n}) = Cardinality(Successors(c)) + 1
      BY <2>3, Finiteness, FS_AddElement
    <2> QED
      BY <2>3, <2>4
  <1>5. ASSUME ~proposals[c].replaces
        PROVE  Cardinality(Successors(c))' = Cardinality(Successors(c))
    <2>1. DOMAIN acs' = DOMAIN acs
      BY <1>5, AcceptApplies
    <2>2. Successors(c)' = Successors(c)
      BY <2>1, OriginsStay DEF Successors
    <2> QED
      BY <2>2
  <1> QED
    BY <1>2, <1>3, <1>4, <1>5

LEMMA WholeParts ==
    ASSUME NEW c \in DOMAIN proposals, SupersessionIsWhole
    PROVE  /\ proposals[c].state = "accepted" => Acceptances(c) # {}
           /\ Acceptances(c) # {} => /\ proposals[c].state # "open"
                                     /\ acs[proposals[c].on].status = "superseded"
           /\ proposals[c].replaces => Cardinality(Successors(c)) = Cardinality(Acceptances(c))
           /\ ~proposals[c].replaces => Cardinality(Successors(c)) = 0
  BY DEF SupersessionIsWhole

LEMMA WholeStep ==
    ASSUME Inv, Whole, "unresolve" \notin Ops, "delete" \notin Ops, [Next]_vars
    PROVE  Whole'
  <1>1. (Succession /\ Numbered)'
    BY SuccessionStep, NumberedStep DEF Whole
  <1>2. ASSUME NEW c \in DOMAIN proposals'
        PROVE  /\ proposals'[c].state = "accepted" => Acceptances(c)' # {}
               /\ Acceptances(c)' # {} =>
                    /\ proposals'[c].state # "open"
                    /\ acs'[proposals'[c].on].status = "superseded"
               /\ proposals'[c].replaces =>
                    Cardinality(Successors(c))' = Cardinality(Acceptances(c))'
               /\ ~proposals'[c].replaces => Cardinality(Successors(c))' = 0
    <2>1. CASE JustFiled(c)
      <3>1. Acceptances(c)' = {} /\ Successors(c)' = {}
        BY <2>1, FiledIsWhole DEF Whole
      <3>2. Cardinality({}) = 0 /\ proposals'[c].state = "open"
        BY <2>1, FS_EmptySet DEF JustFiled
      <3> QED
        BY <3>1, <3>2
    <2>2. ASSUME SameProposal(c), NEW p \in Proc, Accept(p), op[p].on = c
          PROVE  /\ Acceptances(c)' # {}
                 /\ proposals'[c].state = "accepted"
                 /\ acs'[proposals'[c].on].status = "superseded"
                 /\ proposals'[c].replaces =>
                      Cardinality(Successors(c))' = Cardinality(Acceptances(c))'
                 /\ ~proposals'[c].replaces => Cardinality(Successors(c))' = 0
      <3>1. c \in DOMAIN proposals /\ c # 0
        BY <2>2 DEF SameProposal, Whole, Numbered
      <3>2. /\ proposals'[c].state = "accepted" /\ proposals'[c].on = proposals[c].on
            /\ proposals'[c].replaces = proposals[c].replaces
            /\ acs'[proposals[c].on].status = "superseded"
        BY <2>2, AcceptApplies
      <3>3. /\ Acceptances(c)' # {}
            /\ Cardinality(Acceptances(c))' = Cardinality(Acceptances(c)) + 1
            /\ proposals[c].replaces =>
                 Cardinality(Successors(c))' = Cardinality(Successors(c)) + 1
            /\ ~proposals[c].replaces =>
                 Cardinality(Successors(c))' = Cardinality(Successors(c))
        BY <2>2, <3>1, AppliedIsWhole
      <3>4. /\ proposals[c].replaces => Cardinality(Successors(c)) = Cardinality(Acceptances(c))
            /\ ~proposals[c].replaces => Cardinality(Successors(c)) = 0
        BY <3>1, WholeParts DEF Whole
      <3> QED
        BY <3>2, <3>3, <3>4
    <2>3. ASSUME SameProposal(c), \A p \in Proc : Accept(p) => op[p].on # c
          PROVE  /\ proposals'[c].state = "accepted" => Acceptances(c)' # {}
                 /\ Acceptances(c)' # {} =>
                      /\ proposals'[c].state # "open"
                      /\ acs'[proposals'[c].on].status = "superseded"
                 /\ proposals'[c].replaces =>
                      Cardinality(Successors(c))' = Cardinality(Acceptances(c))'
                 /\ ~proposals'[c].replaces => Cardinality(Successors(c))' = 0
      <3>1. c \in DOMAIN proposals /\ c # 0
        BY <2>3 DEF SameProposal, Whole, Numbered
      <3>2. Acceptances(c)' = Acceptances(c) /\ Successors(c)' = Successors(c)
        BY <2>3, <3>1, UntouchedIsWhole
      <3>3. /\ proposals'[c].on = proposals[c].on /\ proposals'[c].replaces = proposals[c].replaces
            /\ proposals'[c].state = proposals[c].state
                 \/ proposals'[c].state \in {"rejected", "other"}
        BY <2>3 DEF SameProposal
      <3>4. /\ proposals[c].state = "accepted" => Acceptances(c) # {}
            /\ Acceptances(c) # {} => /\ proposals[c].state # "open"
                                      /\ acs[proposals[c].on].status = "superseded"
            /\ proposals[c].replaces => Cardinality(Successors(c)) = Cardinality(Acceptances(c))
            /\ ~proposals[c].replaces => Cardinality(Successors(c)) = 0
        BY <3>1, WholeParts DEF Whole
      <3>5. ASSUME Acceptances(c) # {} PROVE acs'[proposals[c].on].status = "superseded"
        <4>1. proposals[c].on \in DOMAIN acs
          BY <3>1 DEF Inv, TypeOK
        <4>2. Kept(proposals[c].on)
          BY <4>1, NothingLost, AcsStep DEF Minted
        <4> QED
          BY <3>4, <3>5, <4>2 DEF Kept
      <3>6. /\ proposals'[c].state = "accepted" => Acceptances(c)' # {}
            /\ Acceptances(c)' # {} =>
                 /\ proposals'[c].state # "open"
                 /\ acs'[proposals'[c].on].status = "superseded"
        BY <3>2, <3>3, <3>4, <3>5
      <3>7. /\ proposals'[c].replaces =>
                 Cardinality(Successors(c))' = Cardinality(Acceptances(c))'
            /\ ~proposals'[c].replaces => Cardinality(Successors(c))' = 0
        BY <3>2, <3>3, <3>4
      <3> QED
        BY <3>6, <3>7
    <2> QED
      BY <2>1, <2>2, <2>3, ProposalsStep
  <1>3. SupersessionIsWhole'
    BY <1>2 DEF SupersessionIsWhole
  <1> QED
    BY <1>1, <1>3 DEF Whole

(* However acceptances race, as long as no decided proposal is reopened as  *)
(* a plain comment and no criterion is deleted, each one is applied whole   *)
(* or not at all: journalled, superseded, decided, and with just the        *)
(* successor it asked for - a proposal accepted twice has two entries and   *)
(* two successors (ac-supersession.ts:254-258).                             *)
THEOREM AcceptancesAreWhole ==
    ASSUME "unresolve" \notin Ops, "delete" \notin Ops
    PROVE  Spec => []SupersessionIsWhole
  <1>1. Init => Whole
    BY DEF Init, Whole, Succession, Numbered, SupersessionIsWhole
  <1>2. Inv /\ Whole /\ [Next]_vars => Whole'
    BY WholeStep
  <1>3. Whole => SupersessionIsWhole
    BY DEF Whole
  <1> QED
    BY <1>1, <1>2, <1>3, Invariance, PTL DEF Spec

=============================================================================
