------------------------ MODULE SpecGovernanceProofs ------------------------
(* Theorems of SpecGovernance for any requests, phases, tests and bounds. *)
EXTENDS SpecGovernance, SequenceTheorems, TLAPS

-----------------------------------------------------------------------------
(* The inductive invariant *)

(* What is numbered is numbered in order and for good: the stamps of        *)
(* criteria and statements, the numbers of proposals, and what a request    *)
(* remembers of either.                                                     *)
Bounded ==
    /\ \A a \in DOMAIN acs : a <= texts /\ acs[a].text <= texts
    /\ \A c \in DOMAIN proposals : c <= filed
    /\ \A i \in DOMAIN journal : journal[i].ac <= texts
    /\ \A p \in Proc : /\ op[p].kind = "accept" => op[p].on <= filed /\ op[p].mark <= texts
                       /\ op[p].kind \in {"move", "propose", "override"} => op[p].mark <= filed

Inv == TypeOK /\ Bounded

HistoryOK == closedOn \subseteq Proc /\ provenOn \subseteq Proc

(* The history variables name requests. *)
LEMMA HistoryStep ==
    ASSUME TypeOK, [Next]_vars
    PROVE  HistoryOK'
  <1> USE DEF TypeOK, HistoryOK, history
  <1>1. CASE UNCHANGED history
    BY <1>1
  <1>2. ASSUME NEW s, Proves(s), UNCHANGED closedOn PROVE HistoryOK'
    BY <1>2 DEF Proves
  <1>3. CASE Write
    BY <1>1, <1>2, <1>3 DEF Write, CreateAc, DeleteAc, SignOff, RevokeSignOff, Emit, Age,
                            RetireTest, ResolveComment, UnresolveComment
  <1>4. ASSUME NEW p \in Proc, Ends(p), Forgets(p) PROVE HistoryOK'
    BY <1>4 DEF Ends, Forgets
  <1>5. ASSUME NEW p \in Proc, Check(p) PROVE HistoryOK'
    BY <1>1, <1>5 DEF Check, Begins, CheckUpdate, CheckPropose, CheckAccept,
                      CheckReject, CheckMove, CheckOverride
  <1>6. ASSUME NEW p \in Proc, Move(p) PROVE HistoryOK'
    BY <1>6 DEF Move, Ends, InFlight
  <1>7. ASSUME NEW p \in Proc,
               Update(p) \/ Propose(p) \/ Accept(p) \/ Reject(p) \/ Override(p) \/ Abandon(p)
        PROVE  HistoryOK'
    BY <1>4, <1>7 DEF Update, Propose, Accept, Reject, Override, Abandon
  <1> QED
    BY <1>1, <1>3, <1>5, <1>6, <1>7 DEF Next, Act, vars

LEMMA RestrictFacts ==
    ASSUME NEW f, NEW D
    PROVE  /\ DOMAIN Restrict(f, D) = D
           /\ \A y \in D : Restrict(f, D)[y] = f[y]
  BY DEF Restrict

LEMMA JournalFacts ==
    ASSUME TypeOK
    PROVE  /\ \A i \in DOMAIN journal : journal[i] \in Entry /\ journal[i].ac \in Nat
                                                            /\ journal[i].at \in Nat
           /\ DOMAIN journal = 1 .. Len(journal) /\ Len(journal) \in Nat
  <1>1. journal \in Seq(Entry)
    BY DEF TypeOK
  <1>2. DOMAIN journal = 1 .. Len(journal) /\ Len(journal) \in Nat
    BY <1>1, LenProperties
  <1>3. \A i \in DOMAIN journal : journal[i] \in Entry
    BY <1>1, <1>2, ElementOfSeq
  <1> QED
    BY <1>2, <1>3 DEF Entry

(* A journal with one more entry. *)
LEMMA Appended ==
    ASSUME TypeOK, NEW e \in Entry, journal' = Append(journal, e)
    PROVE  /\ journal' \in Seq(Entry)
           /\ DOMAIN journal' = DOMAIN journal \cup {Len(journal) + 1}
           /\ Len(journal) + 1 \notin DOMAIN journal
           /\ Len(journal') = Len(journal) + 1
           /\ journal'[Len(journal) + 1] = e
           /\ \A i \in DOMAIN journal : journal'[i] = journal[i]
  <1>1. journal \in Seq(Entry)
    BY DEF TypeOK
  <1>2. /\ DOMAIN journal = 1 .. Len(journal)
        /\ DOMAIN Append(journal, e) = 1 .. Len(journal) + 1
        /\ Len(journal) \in Nat
    BY <1>1, AppendProperties, LenProperties
  <1> QED
    BY <1>1, <1>2, AppendProperties

LEMMA LogFacts ==
    ASSUME TypeOK,
           NEW kind \in {"ac_status_changed", "gate_overridden", "spec_reopened", "test_retired"},
           NEW ac \in Nat, NEW mark \in Nat, NEW counted \in SUBSET Nat,
           Log(kind, ac, mark, counted)
    PROVE  /\ journal' \in Seq(Entry)
           /\ DOMAIN journal' = DOMAIN journal \cup {Len(journal) + 1}
           /\ Len(journal) + 1 \notin DOMAIN journal
           /\ journal'[Len(journal) + 1].kind = kind
           /\ journal'[Len(journal) + 1].ac = ac
           /\ journal'[Len(journal) + 1].at = filed
           /\ \A i \in DOMAIN journal : journal'[i] = journal[i]
  <1> DEFINE e == [kind |-> kind, ac |-> ac, at |-> filed, mark |-> mark,
                   counted |-> counted]
  <1>1. /\ e \in Entry /\ e.kind = kind /\ e.ac = ac /\ e.at = filed
        /\ journal' = Append(journal, e)
    BY DEF TypeOK, Entry, Log
  <1> HIDE DEF e
  <1> QED
    BY <1>1, Appended

(* The entry of an acceptance. *)
LEMMA AcceptLogFacts ==
    ASSUME TypeOK, NEW n \in Nat, NEW m \in Nat, Log("ac_status_changed", n, 0, {m})
    PROVE  /\ journal' \in Seq(Entry)
           /\ DOMAIN journal' = DOMAIN journal \cup {Len(journal) + 1}
           /\ Len(journal) + 1 \notin DOMAIN journal
           /\ journal'[Len(journal) + 1].kind = "ac_status_changed"
           /\ journal'[Len(journal) + 1].ac = n
           /\ journal'[Len(journal) + 1].at = filed
           /\ journal'[Len(journal) + 1].counted = {m}
           /\ \A i \in DOMAIN journal : journal'[i] = journal[i]
  <1> DEFINE e == [kind |-> "ac_status_changed", ac |-> n, at |-> filed, mark |-> 0,
                   counted |-> {m}]
  <1>1. /\ e \in Entry /\ journal' = Append(journal, e)
        /\ e.kind = "ac_status_changed" /\ e.ac = n /\ e.at = filed /\ e.counted = {m}
    BY DEF TypeOK, Entry, Log
  <1> HIDE DEF e
  <1> QED
    BY <1>1, Appended

LEMMA InitInv == Init => Inv
  <1> SUFFICES ASSUME Init PROVE Inv
    OBVIOUS
  <1>1. << >> \in Seq(Entry) /\ DOMAIN << >> = {}
    OBVIOUS
  <1>2. Idle \in Request /\ Idle.kind = "none"
    BY DEF Idle, Request
  <1> QED
    BY <1>1, <1>2 DEF Init, Inv, TypeOK, Bounded

(* A request that begins. *)
LEMMA BeginsInv ==
    ASSUME Inv, NEW p \in Proc, NEW f \in Request, Begins(p, f),
           f.kind = "accept" => f.on <= filed /\ f.mark <= texts,
           f.kind \in {"move", "propose", "override"} => f.mark <= filed
    PROVE  Inv'
  <1> USE DEF Inv
  <1>1. TypeOK'
    BY DEF Begins, TypeOK, evidence, record, history
  <1>2. Bounded'
    BY DEF Begins, TypeOK, Bounded, evidence, record
  <1> QED
    BY <1>1, <1>2

(* What a request remembers. *)
LEMMA RequestFields ==
    ASSUME NEW r \in Request
    PROVE  /\ r.kind \in {"none", "update", "propose", "accept", "reject", "move", "override"}
           /\ r.kind \in {"update", "reject", "propose", "accept"} => r.on \in Nat
           /\ r.kind \in {"accept", "move", "propose", "override"} => r.mark \in Nat
           /\ r.kind = "propose" => r.replaces \in BOOLEAN /\ r.before \in Nat
           /\ r.kind = "move" => /\ r.from \in Phases \cup {"done"}
                                 /\ r.to \in Phases \cup {"done"}
           /\ r.kind = "override" => r.seen \in SUBSET Nat
  BY DEF Request

LEMMA CheckInv ==
    ASSUME Inv, NEW p \in Proc, Check(p)
    PROVE  Inv'
  <1> USE DEF Request
  <1>0. /\ DOMAIN acs \subseteq Nat /\ DOMAIN proposals \subseteq Nat
        /\ texts \in Nat /\ filed \in Nat
        /\ \A a \in DOMAIN acs : acs[a].text \in Nat
        /\ \A c \in DOMAIN proposals : c <= filed
        /\ status \in Phases \cup {"done"}
    BY DEF Inv, TypeOK, Bounded, Ac
  <1>1. ASSUME NEW a \in DOMAIN acs, CheckUpdate(p, a) PROVE Inv'
    <2> DEFINE f == [kind |-> "update", on |-> a]
    <2>1. f \in Request /\ f.kind = "update" /\ Begins(p, f)
      BY <1>0, <1>1 DEF CheckUpdate
    <2> QED
      BY <2>1, BeginsInv
  <1>2. ASSUME NEW a \in DOMAIN acs, NEW b \in BOOLEAN, CheckPropose(p, a, b) PROVE Inv'
    <2> DEFINE f == [kind |-> "propose", on |-> a, replaces |-> b, before |-> acs[a].text,
                    mark |-> filed]
    <2>1. f \in Request /\ f.kind = "propose" /\ f.mark <= filed /\ Begins(p, f)
      BY <1>0, <1>2 DEF CheckPropose
    <2> QED
      BY <2>1, BeginsInv
  <1>3. ASSUME NEW c \in DOMAIN proposals, CheckAccept(p, c) PROVE Inv'
    <2> DEFINE f == [kind |-> "accept", on |-> c, mark |-> texts]
    <2>1. /\ f \in Request /\ Begins(p, f)
          /\ f.kind = "accept" /\ f.on <= filed /\ f.mark <= texts
      BY <1>0, <1>3 DEF CheckAccept
    <2> QED
      BY <2>1, BeginsInv
  <1>4. ASSUME NEW c \in DOMAIN proposals, CheckReject(p, c) PROVE Inv'
    <2> DEFINE f == [kind |-> "reject", on |-> c]
    <2>1. f \in Request /\ f.kind = "reject" /\ Begins(p, f)
      BY <1>0, <1>4 DEF CheckReject
    <2> QED
      BY <2>1, BeginsInv
  <1>5. ASSUME NEW to \in Phases \cup {"done"}, CheckMove(p, to) PROVE Inv'
    <2> DEFINE f == [kind |-> "move", from |-> status, to |-> to, mark |-> filed]
    <2>1. f \in Request /\ f.kind = "move" /\ f.mark <= filed /\ Begins(p, f)
      BY <1>0, <1>5 DEF CheckMove
    <2> QED
      BY <2>1, BeginsInv
  <1>6. CASE CheckOverride(p)
    <2> DEFINE f == [kind |-> "override", seen |-> Blockers, mark |-> filed]
    <2>1. f \in Request /\ f.kind = "override" /\ f.mark <= filed /\ Begins(p, f)
      BY <1>0, <1>6 DEF CheckOverride, Blockers
    <2> QED
      BY <2>1, BeginsInv
  <1> QED
    BY <1>1, <1>2, <1>3, <1>4, <1>5, <1>6 DEF Check

LEMMA WriteInv ==
    ASSUME Inv, Write, HistoryOK'
    PROVE  Inv'
  <1> USE DEF Inv, evidence, record, HistoryOK
  <1>1. CASE CreateAc
    <2>1. PICK s \in 1 .. MaxTexts : acs' = Put(acs, texts + 1, NewAc(s, 0, 0))
      BY <1>1 DEF CreateAc
    <2>2. NewAc(s, 0, 0) \in Ac /\ NewAc(s, 0, 0).text = texts + 1
      BY DEF NewAc, Ac, TypeOK
    <2>3. /\ DOMAIN acs' = DOMAIN acs \cup {texts + 1}
          /\ acs'[texts + 1] = NewAc(s, 0, 0)
          /\ \A a \in DOMAIN acs : a # texts + 1 => acs'[a] = acs[a]
      BY <2>1 DEF Put
    <2>4. texts' = texts + 1 /\ UNCHANGED <<status, evidence, record, op>>
      BY <1>1 DEF CreateAc
    <2>5. TypeOK'
      BY <2>2, <2>3, <2>4 DEF TypeOK
    <2>6. Bounded'
      <3>1. \A i \in DOMAIN journal : journal[i].ac \in Nat
        BY JournalFacts
      <3>2. \A q \in Proc : op[q].kind = "accept" => op[q].mark \in Nat
        BY RequestFields DEF TypeOK
      <3>3. \A a \in DOMAIN acs : acs[a].text \in Nat
        BY DEF TypeOK, Ac
      <3> QED
        BY <2>2, <2>3, <2>4, <3>1, <3>2, <3>3 DEF Bounded, TypeOK
    <2> QED
      BY <2>5, <2>6
  <1>2. ASSUME NEW a \in DOMAIN acs, DeleteAc(a) PROVE Inv'
    <2>1. /\ DOMAIN acs' = DOMAIN acs \ {a}
          /\ \A b \in DOMAIN acs' : acs'[b] = acs[b]
          /\ DOMAIN proposals' = {c \in DOMAIN proposals : proposals[c].on # a}
          /\ \A c \in DOMAIN proposals' : proposals'[c] = proposals[c]
      BY <1>2, RestrictFacts DEF DeleteAc
    <2>2. UNCHANGED <<status, evidence, journal, filed, texts, op>>
      BY <1>2 DEF DeleteAc
    <2>3. TypeOK'
      BY <2>1, <2>2 DEF TypeOK
    <2>4. Bounded'
      BY <2>1, <2>2 DEF Bounded
    <2> QED
      BY <2>3, <2>4
  <1>3. ASSUME NEW a \in DOMAIN acs, NEW n \in Nat, acs' = [acs EXCEPT ![a].signed = n],
               UNCHANGED <<status, evidence, record, texts, op>>
        PROVE  Inv'
    <2>1. /\ DOMAIN acs' = DOMAIN acs
          /\ \A b \in DOMAIN acs : acs'[b] \in Ac /\ acs'[b].text = acs[b].text
      <3>1. acs[a] \in Ac /\ acs'[a] = [acs[a] EXCEPT !.signed = n]
        BY <1>3 DEF TypeOK
      <3>2. acs'[a] \in Ac /\ acs'[a].text = acs[a].text
        BY <3>1 DEF Ac
      <3> QED
        BY <1>3, <3>2 DEF TypeOK
    <2>2. TypeOK'
      BY <1>3, <2>1 DEF TypeOK
    <2>3. Bounded'
      BY <1>3, <2>1 DEF Bounded
    <2> QED
      BY <2>2, <2>3
  <1>4. ASSUME NEW a \in DOMAIN acs, SignOff(a) PROVE Inv'
    <2>1. acs[a].text \in Nat
      BY DEF TypeOK, Ac
    <2> QED
      BY <1>3, <1>4, <2>1 DEF SignOff
  <1>5. ASSUME NEW a \in DOMAIN acs, RevokeSignOff(a) PROVE Inv'
    BY <1>3, <1>5 DEF RevokeSignOff
  <1>6. ASSUME NEW s \in 1 .. MaxTexts, NEW t \in Tests, NEW v \in {"pass", "fail"},
               Emit(s, t, v)
        PROVE  Inv'
    <2>1. PICK text \in 0 .. texts :
             latest' = Put(latest, <<s, t>>, [verdict |-> v, of |-> text])
      BY <1>6 DEF Emit
    <2>2. /\ DOMAIN latest' = DOMAIN latest \cup {<<s, t>>}
          /\ latest'[<<s, t>>] = [verdict |-> v, of |-> text]
          /\ \A y \in DOMAIN latest : y # <<s, t>> => latest'[y] = latest[y]
      BY <2>1 DEF Put
    <2>3. DOMAIN latest' \subseteq Nat \X Tests
          /\ \A x \in DOMAIN latest' : latest'[x] \in Result
      <3> DEFINE key == <<s, t>>
      <3>1. key \in Nat \X Tests
        OBVIOUS
      <3>2. latest'[key] \in Result
        BY <2>2 DEF Result
      <3>3. DOMAIN latest \subseteq Nat \X Tests /\ \A x \in DOMAIN latest : latest[x] \in Result
        BY DEF TypeOK
      <3> HIDE DEF key
      <3>4. /\ DOMAIN latest' = DOMAIN latest \cup {key}
            /\ \A y \in DOMAIN latest : y # key => latest'[y] = latest[y]
        BY <2>2 DEF key
      <3> QED
        BY <3>1, <3>2, <3>3, <3>4
    <2>4. /\ UNCHANGED <<status, acs, record, texts, op>>
          /\ stale' \subseteq Nat
      BY <1>6 DEF Emit, TypeOK
    <2>5. TypeOK'
      BY <2>3, <2>4 DEF TypeOK
    <2>6. Bounded'
      BY <2>4 DEF Bounded
    <2> QED
      BY <2>5, <2>6
  <1>7. ASSUME NEW s \in 1 .. MaxTexts, Age(s) PROVE Inv'
    <2>1. s \in Nat
      OBVIOUS
    <2>2. TypeOK'
      BY <1>7, <2>1 DEF Age, TypeOK
    <2>3. Bounded'
      BY <1>7 DEF Age, Bounded
    <2> QED
      BY <2>2, <2>3
  <1>8. ASSUME NEW a \in DOMAIN acs, NEW t \in Tests, RetireTest(a, t) PROVE Inv'
    <2>1. /\ DOMAIN latest' = DOMAIN latest \ {<<acs[a].seq, t>>}
          /\ \A x \in DOMAIN latest' : latest'[x] = latest[x]
      BY <1>8, RestrictFacts DEF RetireTest
    <2>2. /\ UNCHANGED <<status, acs, stale, proposals, filed, texts, op>>
          /\ Log("test_retired", a, 0, {})
          /\ a \in Nat /\ a <= texts
      BY <1>8 DEF RetireTest, TypeOK, Bounded
    <2>3. /\ journal' \in Seq(Entry)
          /\ DOMAIN journal' = DOMAIN journal \cup {Len(journal) + 1}
          /\ journal'[Len(journal) + 1].ac = a
          /\ \A i \in DOMAIN journal : journal'[i] = journal[i]
      <3>1. {} \in SUBSET Nat
        OBVIOUS
      <3> QED
        BY <2>2, <3>1, LogFacts
    <2>4. TypeOK'
      BY <2>1, <2>2, <2>3 DEF TypeOK
    <2>5. Bounded'
      BY <2>2, <2>3 DEF Bounded
    <2> QED
      BY <2>4, <2>5
  <1>9. ASSUME NEW c \in DOMAIN proposals, ResolveComment(c) \/ UnresolveComment(c) PROVE Inv'
    <2>1. /\ DOMAIN proposals' = DOMAIN proposals
          /\ \A d \in DOMAIN proposals : /\ proposals'[d] \in Proposal
                                         /\ proposals'[d].on = proposals[d].on
      <3>1. PICK s \in {"other", "open"} : proposals' = [proposals EXCEPT ![c].state = s]
        BY <1>9 DEF ResolveComment, UnresolveComment
      <3>2. proposals[c] \in Proposal /\ proposals'[c] = [proposals[c] EXCEPT !.state = s]
        BY <3>1 DEF TypeOK
      <3>3. proposals'[c] \in Proposal /\ proposals'[c].on = proposals[c].on
        BY <3>2 DEF Proposal
      <3> QED
        BY <3>1, <3>3 DEF TypeOK
    <2>2. UNCHANGED <<status, acs, evidence, journal, filed, texts, op>>
      BY <1>9 DEF ResolveComment, UnresolveComment
    <2>3. TypeOK'
      BY <2>1, <2>2 DEF TypeOK
    <2>4. Bounded'
      BY <2>1, <2>2 DEF Bounded
    <2> QED
      BY <2>3, <2>4
  <1> QED
    BY <1>1, <1>2, <1>4, <1>5, <1>6, <1>7, <1>8, <1>9 DEF Write

(* A request that ends is remembered no more, the others as before. *)
LEMMA EndsFacts ==
    ASSUME TypeOK, NEW p \in Proc, Ends(p)
    PROVE  /\ op' \in [Proc -> Request]
           /\ op'[p] = Idle /\ op'[p].kind = "none"
           /\ \A q \in Proc : q # p => op'[q] = op[q]
           /\ \A q \in Proc : op'[q].kind # "none" => op'[q] = op[q]
  BY DEF Ends, TypeOK, Idle, Request

(* What an acceptance does to the criteria. *)
LEMMA SupersedeFacts ==
    ASSUME Inv, NEW c \in DOMAIN proposals, NEW mark \in Nat, Supersede(c, mark)
    PROVE  LET a == proposals[c].on IN
           /\ texts' \in Nat
           /\ \/ texts' = texts /\ DOMAIN acs' = DOMAIN acs
              \/ /\ texts' = texts + 1 /\ DOMAIN acs' = DOMAIN acs \cup {texts + 1}
                 /\ acs'[texts + 1].status = "active" /\ acs'[texts + 1] \in Ac
                 /\ acs'[texts + 1].text = texts + 1
           /\ a \in DOMAIN acs /\ texts + 1 \notin DOMAIN acs
           /\ acs'[a].status = "superseded"
           /\ \A b \in DOMAIN acs : acs'[b] \in Ac /\ acs'[b].text = acs[b].text
           /\ \A b \in DOMAIN acs \ {a} : acs'[b] = acs[b]
  <1> DEFINE a == proposals[c].on
             superseded == [acs EXCEPT ![a].status = "superseded"]
  <1>1. a \in DOMAIN acs /\ texts \in Nat
    BY DEF Inv, TypeOK
  <1>2. texts + 1 \notin DOMAIN acs
    BY <1>1 DEF Inv, Bounded
  <1>3. /\ DOMAIN superseded = DOMAIN acs
        /\ superseded[a] \in Ac /\ superseded[a].text = acs[a].text
        /\ superseded[a].status = "superseded"
        /\ \A b \in DOMAIN acs \ {a} : superseded[b] = acs[b] /\ superseded[b] \in Ac
    <2>1. acs[a] \in Ac /\ superseded[a] = [acs[a] EXCEPT !.status = "superseded"]
      BY <1>1 DEF Inv, TypeOK
    <2>2. /\ superseded[a] \in Ac /\ superseded[a].text = acs[a].text
          /\ superseded[a].status = "superseded"
      BY <2>1 DEF Ac
    <2> QED
      BY <1>1, <2>2 DEF Inv, TypeOK
  <1> HIDE DEF superseded
  <1>4. CASE acs' = superseded /\ UNCHANGED texts
    BY <1>1, <1>2, <1>3, <1>4
  <1>5. CASE ~(acs' = superseded /\ UNCHANGED texts)
    <2>1. PICK s \in 1 .. MaxTexts : /\ acs' = Put(superseded, texts + 1, NewAc(s, c, mark))
                                     /\ texts' = texts + 1
      BY <1>5 DEF Supersede, superseded
    <2>2. /\ DOMAIN acs' = DOMAIN superseded \cup {texts + 1}
          /\ acs'[texts + 1] = NewAc(s, c, mark)
          /\ \A b \in DOMAIN superseded : b # texts + 1 => acs'[b] = superseded[b]
      BY <2>1 DEF Put
    <2>3. c \in Nat
      BY DEF Inv, TypeOK
    <2>4. /\ NewAc(s, c, mark) \in Ac /\ NewAc(s, c, mark).text = texts + 1
          /\ NewAc(s, c, mark).status = "active"
      BY <1>1, <2>3 DEF NewAc, Ac
    <2> QED
      BY <1>1, <1>2, <1>3, <2>1, <2>2, <2>4
  <1> QED
    BY <1>4, <1>5

LEMMA ActInv ==
    ASSUME Inv, NEW p \in Proc, Act(p), HistoryOK'
    PROVE  Inv'
  <1> USE DEF Inv, evidence, record, HistoryOK
  <1>0. /\ texts \in Nat /\ filed \in Nat
        /\ \A i \in DOMAIN journal : journal[i].ac \in Nat
        /\ \A a \in DOMAIN acs : a \in Nat /\ acs[a] \in Ac /\ acs[a].text \in Nat
        /\ \A q \in Proc : /\ op[q].kind \in {"accept", "move", "propose", "override"}
                                    => op[q].mark \in Nat
                           /\ op[q].kind = "accept" => op[q].on \in Nat
        /\ op[p] \in Request
    BY JournalFacts, RequestFields DEF TypeOK, Ac
  <1>1. CASE Update(p)
    <2>1. Ends(p) /\ UNCHANGED <<status, evidence, record>>
      BY <1>1 DEF Update
    <2>2. CASE op[p].on \in DOMAIN acs
      <3> DEFINE a == op[p].on
      <3>1. acs' = [acs EXCEPT ![a].text = texts + 1] /\ texts' = texts + 1
        BY <1>1, <2>2 DEF Update
      <3>2. acs'[a] = [acs[a] EXCEPT !.text = texts + 1] /\ acs[a] \in Ac
        BY <3>1, <2>2, <1>0
      <3>3. acs'[a] \in Ac /\ acs'[a].text = texts + 1
        BY <3>2, <1>0 DEF Ac
      <3>4. /\ DOMAIN acs' = DOMAIN acs
            /\ \A b \in DOMAIN acs : b # a => acs'[b] = acs[b]
        BY <3>1
      <3> HIDE DEF a
      <3>5. TypeOK'
        <4>1. \A b \in DOMAIN acs' : acs'[b] \in Ac
          BY <1>0, <3>3, <3>4
        <4>2. texts' \in Nat
          BY <1>0, <3>1
        <4> QED
          BY <2>1, <3>4, <4>1, <4>2, EndsFacts DEF TypeOK
      <3>6. Bounded'
        BY <1>0, <2>1, <3>1, <3>3, <3>4, EndsFacts DEF Bounded
      <3> QED
        BY <3>5, <3>6
    <2>3. CASE op[p].on \notin DOMAIN acs
      <3>1. UNCHANGED <<acs, texts>>
        BY <1>1, <2>3 DEF Update
      <3>2. TypeOK'
        BY <2>1, <3>1, EndsFacts DEF TypeOK
      <3>3. Bounded'
        BY <2>1, <3>1, EndsFacts DEF Bounded
      <3> QED
        BY <3>2, <3>3
    <2> QED
      BY <2>2, <2>3
  <1>2. CASE Propose(p)
    <2>1. Ends(p) /\ UNCHANGED <<status, acs, evidence, journal, texts>>
      BY <1>2 DEF Propose
    <2>2. CASE op[p].on \in DOMAIN acs
      <3> DEFINE new == [on |-> op[p].on, before |-> op[p].before,
                         replaces |-> op[p].replaces, mark |-> op[p].mark,
                         state |-> "open"]
      <3>1. proposals' = Put(proposals, filed + 1, new) /\ filed' = filed + 1
        BY <1>2, <2>2 DEF Propose
      <3>2. new \in Proposal /\ new.on \in DOMAIN acs
        BY <1>0, <1>2, <2>2, RequestFields DEF Propose, Proposal
      <3> HIDE DEF new
      <3>3. /\ DOMAIN proposals' = DOMAIN proposals \cup {filed + 1}
            /\ proposals'[filed + 1] = new
            /\ \A c \in DOMAIN proposals : c # filed + 1 => proposals'[c] = proposals[c]
        BY <3>1 DEF Put
      <3>4. TypeOK'
        <4>1. /\ DOMAIN proposals' \subseteq Nat
              /\ \A c \in DOMAIN proposals' : proposals'[c] \in Proposal
                                           /\ proposals'[c].on \in DOMAIN acs
          BY <1>0, <3>2, <3>3 DEF TypeOK
        <4>2. filed' \in Nat
          BY <1>0, <3>1
        <4> QED
          BY <2>1, <4>1, <4>2, EndsFacts DEF TypeOK
      <3>5. Bounded'
        <4>1. \A c \in DOMAIN proposals : c \in Nat
          BY DEF TypeOK
        <4> QED
          BY <1>0, <2>1, <3>1, <3>3, <4>1, EndsFacts DEF Bounded
      <3> QED
        BY <3>4, <3>5
    <2>3. CASE op[p].on \notin DOMAIN acs
      <3>1. UNCHANGED <<proposals, filed>>
        BY <1>2, <2>3 DEF Propose
      <3>2. TypeOK'
        BY <2>1, <3>1, EndsFacts DEF TypeOK
      <3>3. Bounded'
        BY <2>1, <3>1, EndsFacts DEF Bounded
      <3> QED
        BY <3>2, <3>3
    <2> QED
      BY <2>2, <2>3
  <1>3. ASSUME NEW c \in DOMAIN proposals, NEW s \in {"accepted", "rejected"},
               proposals' = [proposals EXCEPT ![c].state = s]
        PROVE  /\ DOMAIN proposals' = DOMAIN proposals
               /\ \A d \in DOMAIN proposals : /\ proposals'[d] \in Proposal
                                              /\ proposals'[d].on = proposals[d].on
    <2>1. proposals[c] \in Proposal /\ proposals'[c] = [proposals[c] EXCEPT !.state = s]
      BY <1>3 DEF TypeOK
    <2>2. proposals'[c] \in Proposal /\ proposals'[c].on = proposals[c].on
      BY <2>1 DEF Proposal
    <2> QED
      BY <1>3, <2>2 DEF TypeOK
  <1>4. CASE Accept(p)
    <2> DEFINE m == op[p].on
               n == proposals[m].on
    <2>1. /\ m \in DOMAIN proposals /\ Supersede(m, op[p].mark) /\ Ends(p)
          /\ Log("ac_status_changed", n, 0, {m})
          /\ proposals' = [proposals EXCEPT ![m].state = "accepted"]
          /\ UNCHANGED <<status, evidence, filed>>
      BY <1>4 DEF Accept, Accepts
    <2>2. n \in DOMAIN acs /\ n \in Nat /\ m \in Nat /\ op[p].mark \in Nat
      BY <1>0, <1>4, <2>1 DEF TypeOK, Accept, Accepts
    <2> HIDE DEF m, n
    <2>3. /\ DOMAIN proposals' = DOMAIN proposals
          /\ \A d \in DOMAIN proposals : /\ proposals'[d] \in Proposal
                                         /\ proposals'[d].on = proposals[d].on
      BY <2>1, <1>3
    <2>5. /\ journal' \in Seq(Entry)
          /\ DOMAIN journal' = DOMAIN journal \cup {Len(journal) + 1}
          /\ journal'[Len(journal) + 1].ac = n
          /\ \A i \in DOMAIN journal : journal'[i] = journal[i]
      BY <2>1, <2>2, AcceptLogFacts
    <2>6. /\ texts' \in Nat /\ texts' >= texts
          /\ DOMAIN acs \subseteq DOMAIN acs' /\ DOMAIN acs' \subseteq DOMAIN acs \cup {texts'}
          /\ \A b \in DOMAIN acs' : acs'[b] \in Ac
          /\ \A b \in DOMAIN acs : acs'[b].text = acs[b].text
          /\ texts' # texts => acs'[texts'].text = texts'
          /\ texts' = texts => DOMAIN acs' = DOMAIN acs
      BY <1>0, <2>1, <2>2, SupersedeFacts
    <2>7. TypeOK'
      <3>1. DOMAIN acs' \subseteq Nat \ {0}
        BY <1>0, <2>6 DEF TypeOK
      <3> QED
        BY <2>1, <2>3, <2>5, <2>6, <3>1, EndsFacts DEF TypeOK
    <2>8. Bounded'
      <3>1. \A b \in DOMAIN acs' : b <= texts' /\ acs'[b].text <= texts'
        BY <1>0, <2>6 DEF Bounded
      <3>2. \A i \in DOMAIN journal' : journal'[i].ac <= texts'
        BY <1>0, <2>2, <2>5, <2>6 DEF Bounded
      <3>3. \A q \in Proc : /\ op'[q].kind = "accept" =>
                                   op'[q].on <= filed' /\ op'[q].mark <= texts'
                            /\ op'[q].kind \in {"move", "propose", "override"} =>
                                   op'[q].mark <= filed'
        BY <1>0, <2>1, <2>6, EndsFacts DEF Bounded
      <3>4. \A d \in DOMAIN proposals' : d <= filed'
        BY <2>1, <2>3 DEF Bounded
      <3> QED
        BY <3>1, <3>2, <3>3, <3>4 DEF Bounded
    <2> QED
      BY <2>7, <2>8
  <1>5. CASE Reject(p)
    <2>1. /\ op[p].on \in DOMAIN proposals
          /\ proposals' = [proposals EXCEPT ![op[p].on].state = "rejected"]
          /\ Ends(p) /\ UNCHANGED <<status, acs, evidence, journal, filed, texts>>
      BY <1>5 DEF Reject
    <2>2. /\ DOMAIN proposals' = DOMAIN proposals
          /\ \A d \in DOMAIN proposals : /\ proposals'[d] \in Proposal
                                         /\ proposals'[d].on = proposals[d].on
      BY <2>1, <1>3
    <2>3. TypeOK'
      BY <2>1, <2>2, EndsFacts DEF TypeOK
    <2>4. Bounded'
      BY <2>1, <2>2, EndsFacts DEF Bounded
    <2> QED
      BY <2>3, <2>4
  <1>6. ASSUME NEW kind \in {"gate_overridden", "spec_reopened"},
               NEW mark \in Nat, NEW counted \in SUBSET Nat,
               Log(kind, 0, mark, counted), Ends(p), status' \in Phases \cup {"done"},
               UNCHANGED <<acs, evidence, proposals, filed, texts>>
        PROVE  Inv'
    <2>1. /\ journal' \in Seq(Entry)
          /\ DOMAIN journal' = DOMAIN journal \cup {Len(journal) + 1}
          /\ journal'[Len(journal) + 1].ac = 0
          /\ \A i \in DOMAIN journal : journal'[i] = journal[i]
      <3>1. 0 \in Nat /\ kind \in {"ac_status_changed", "gate_overridden",
                                    "spec_reopened", "test_retired"}
        OBVIOUS
      <3> QED
        BY <1>6, <3>1, LogFacts
    <2>2. TypeOK'
      BY <1>6, <2>1, EndsFacts DEF TypeOK
    <2>3. Bounded'
      BY <1>0, <1>6, <2>1, EndsFacts DEF Bounded
    <2> QED
      BY <2>2, <2>3
  <1>7. CASE Move(p)
    <2>1. /\ op[p].kind = "move" /\ status' = op[p].to /\ Ends(p)
          /\ UNCHANGED <<acs, evidence, proposals, filed, texts>>
      BY <1>7 DEF Move
    <2>2. status' \in Phases \cup {"done"}
      BY <1>0, <2>1, RequestFields
    <2>3. CASE UNCHANGED journal
      <3>1. TypeOK'
        BY <2>1, <2>2, <2>3, EndsFacts DEF TypeOK
      <3>2. Bounded'
        BY <2>1, <2>3, EndsFacts DEF Bounded
      <3> QED
        BY <3>1, <3>2
    <2>4. CASE Log("spec_reopened", 0, 0, {})
      <3>1. {} \in SUBSET Nat
        OBVIOUS
      <3> QED
        BY <1>6, <2>1, <2>2, <2>4, <3>1
    <2> QED
      BY <1>7, <2>3, <2>4 DEF Move
  <1>8. CASE Override(p)
    <2>1. op[p].seen \in SUBSET Nat /\ op[p].mark \in Nat
      BY <1>0, <1>8, RequestFields DEF Override
    <2>2. status' \in Phases \cup {"done"}
      BY <1>8 DEF Override, TypeOK
    <2> QED
      BY <1>6, <1>8, <2>1, <2>2 DEF Override
  <1> QED
    BY <1>1, <1>2, <1>4, <1>5, <1>7, <1>8 DEF Act

LEMMA NextInv == Inv /\ [Next]_vars => Inv'
  <1> SUFFICES ASSUME Inv, [Next]_vars PROVE Inv'
    OBVIOUS
  <1>0. HistoryOK'
    BY HistoryStep DEF Inv
  <1>1. ASSUME NEW p \in Proc, Abandon(p) PROVE Inv'
    <2>1. TypeOK /\ Ends(p) /\ UNCHANGED <<status, acs, evidence, record, texts>>
      BY <1>1 DEF Abandon, Inv
    <2>2. TypeOK'
      BY <1>0, <2>1, EndsFacts DEF TypeOK, HistoryOK, evidence, record
    <2>3. Bounded'
      BY <2>1, EndsFacts DEF Inv, Bounded, evidence, record
    <2> QED
      BY <2>2, <2>3 DEF Inv
  <1>2. CASE UNCHANGED vars
    BY <1>2 DEF vars, evidence, record, history, Inv, TypeOK, Bounded
  <1> QED
    BY <1>0, <1>1, <1>2, WriteInv, CheckInv, ActInv DEF Next

LEMMA Invariance == Spec => []Inv
  <1> QED
    BY InitInv, NextInv, PTL DEF Spec

(* Every variable keeps its type, and a proposal is always about a          *)
(* criterion that is there.                                                 *)
THEOREM TypeCorrect == Spec => []TypeOK
  <1>1. Inv => TypeOK
    BY DEF Inv
  <1> QED
    BY <1>1, Invariance, PTL

-----------------------------------------------------------------------------
(* The record of supersessions *)

(* A step that keeps the criteria's statuses and the record of supersessions. *)
LEMMA RecordKept ==
    ASSUME Inv, SupersededOnRecord,
           \A a \in DOMAIN acs' : \/ a \in DOMAIN acs /\ acs'[a].status = acs[a].status
                                  \/ a > texts /\ acs'[a].status = "active",
           DOMAIN journal \subseteq DOMAIN journal',
           \A i \in DOMAIN journal : journal'[i] = journal[i],
           \A i \in DOMAIN journal' \ DOMAIN journal : journal'[i].kind # "ac_status_changed"
    PROVE  SupersededOnRecord'
  <1> SUFFICES ASSUME NEW a \in DOMAIN acs'
               PROVE  acs'[a].status = "superseded"
                        <=> \E i \in DOMAIN journal' : Succeeds(journal'[i], a)
    BY DEF SupersededOnRecord, Succeeds
  <1>1. (\E i \in DOMAIN journal' : Succeeds(journal'[i], a))
          <=> \E i \in DOMAIN journal : Succeeds(journal[i], a)
    BY DEF Succeeds
  <1>2. CASE a \in DOMAIN acs /\ acs'[a].status = acs[a].status
    BY <1>1, <1>2 DEF SupersededOnRecord
  <1>3. CASE a > texts /\ acs'[a].status = "active"
    <2>1. \A i \in DOMAIN journal : journal[i].ac \in Nat /\ journal[i].ac <= texts
      BY JournalFacts DEF Inv, Bounded
    <2>2. texts \in Nat
      BY DEF Inv, TypeOK
    <2>3. \A i \in DOMAIN journal : journal[i].ac # a
      BY <1>3, <2>1, <2>2
    <2> QED
      BY <1>1, <1>3, <2>3 DEF Succeeds
  <1> QED
    BY <1>2, <1>3

LEMMA RecordStep ==
    ASSUME Inv, SupersededOnRecord, [Next]_vars
    PROVE  SupersededOnRecord'
  <1> USE DEF evidence, record
  <1>0. texts \in Nat /\ TypeOK
    BY DEF Inv, TypeOK
  <1>1. CASE UNCHANGED <<acs, journal>>
    BY <1>1, RecordKept
  <1>2. CASE CreateAc
    <2>1. PICK s \in 1 .. MaxTexts : acs' = Put(acs, texts + 1, NewAc(s, 0, 0))
      BY <1>2 DEF CreateAc
    <2>2. UNCHANGED journal /\ NewAc(s, 0, 0).status = "active"
      BY <1>2 DEF CreateAc, NewAc
    <2>3. \A a \in DOMAIN acs' : \/ a \in DOMAIN acs /\ acs'[a].status = acs[a].status
                                 \/ a > texts /\ acs'[a].status = "active"
      BY <1>0, <2>1, <2>2 DEF Put
    <2> QED
      BY <2>2, <2>3, RecordKept
  <1>3. ASSUME NEW a \in DOMAIN acs, DeleteAc(a) PROVE SupersededOnRecord'
    BY <1>3, RestrictFacts, RecordKept DEF DeleteAc
  <1>4. ASSUME NEW a \in DOMAIN acs, NEW n \in Nat, UNCHANGED journal,
               \/ acs' = [acs EXCEPT ![a].signed = n]
               \/ acs' = [acs EXCEPT ![a].text = n]
        PROVE  SupersededOnRecord'
    <2>1. /\ DOMAIN acs' = DOMAIN acs /\ acs[a] \in Ac
          /\ \A b \in DOMAIN acs \ {a} : acs'[b] = acs[b]
          /\ \/ acs'[a] = [acs[a] EXCEPT !.signed = n]
             \/ acs'[a] = [acs[a] EXCEPT !.text = n]
      BY <1>0, <1>4 DEF TypeOK
    <2>2. acs'[a].status = acs[a].status
      BY <2>1 DEF Ac
    <2> QED
      BY <1>4, <2>1, <2>2, RecordKept
  <1>5. ASSUME NEW a \in DOMAIN acs, SignOff(a) \/ RevokeSignOff(a) PROVE SupersededOnRecord'
    <2>1. acs[a].text \in Nat
      BY <1>0 DEF TypeOK, Ac
    <2> QED
      BY <1>4, <1>5, <2>1 DEF SignOff, RevokeSignOff
  <1>6. ASSUME NEW kind \in {"gate_overridden", "spec_reopened", "test_retired"},
               NEW ac \in Nat, NEW mark \in Nat, NEW counted \in SUBSET Nat,
               Log(kind, ac, mark, counted), UNCHANGED acs
        PROVE  SupersededOnRecord'
    <2>1. /\ DOMAIN journal' = DOMAIN journal \cup {Len(journal) + 1}
          /\ journal'[Len(journal) + 1].kind = kind
          /\ \A i \in DOMAIN journal : journal'[i] = journal[i]
      <3>1. kind \in {"ac_status_changed", "gate_overridden", "spec_reopened", "test_retired"}
        OBVIOUS
      <3> QED
        BY <1>0, <1>6, <3>1, LogFacts
    <2> QED
      BY <1>6, <2>1, RecordKept
  <1>7. {} \in SUBSET Nat /\ 0 \in Nat
    OBVIOUS
  <1>8. ASSUME NEW a \in DOMAIN acs, NEW t \in Tests, RetireTest(a, t)
        PROVE  SupersededOnRecord'
    <2>1. a \in Nat
      BY <1>0 DEF TypeOK
    <2> QED
      BY <1>6, <1>7, <1>8, <2>1 DEF RetireTest
  <1>9. CASE Write
    BY <1>1, <1>2, <1>3, <1>5, <1>8, <1>9
       DEF Write, Emit, Age, ResolveComment, UnresolveComment
  <1>10. ASSUME NEW p \in Proc, Check(p) \/ Abandon(p) PROVE SupersededOnRecord'
    BY <1>1, <1>10 DEF Check, Abandon, Begins, CheckUpdate, CheckPropose, CheckAccept,
                       CheckReject, CheckMove, CheckOverride
  <1>11. ASSUME NEW p \in Proc, Update(p) PROVE SupersededOnRecord'
    <2>1. CASE op[p].on \in DOMAIN acs
      <3>1. texts + 1 \in Nat
        BY <1>0
      <3> QED
        BY <1>4, <1>11, <2>1, <3>1 DEF Update
    <2>2. CASE op[p].on \notin DOMAIN acs
      BY <1>1, <1>11, <2>2 DEF Update
    <2> QED
      BY <2>1, <2>2
  <1>12. ASSUME NEW p \in Proc, Propose(p) \/ Reject(p) PROVE SupersededOnRecord'
    BY <1>1, <1>12 DEF Propose, Reject
  <1>13. ASSUME NEW p \in Proc, Move(p) PROVE SupersededOnRecord'
    BY <1>1, <1>6, <1>7, <1>13 DEF Move
  <1>14. ASSUME NEW p \in Proc, Override(p) PROVE SupersededOnRecord'
    <2>1. op[p].seen \in SUBSET Nat /\ op[p].mark \in Nat
      BY <1>0, <1>14, RequestFields DEF Override, TypeOK
    <2> QED
      BY <1>6, <1>7, <1>14, <2>1 DEF Override
  <1>15. ASSUME NEW p \in Proc, Accept(p) PROVE SupersededOnRecord'
    <2> DEFINE m == op[p].on
               n == proposals[m].on
    <2>1. /\ m \in DOMAIN proposals /\ Supersede(m, op[p].mark)
          /\ Log("ac_status_changed", n, 0, {m})
      BY <1>15 DEF Accept, Accepts
    <2>2. /\ n \in DOMAIN acs /\ n \in Nat /\ {m} \in SUBSET Nat
          /\ 0 \in Nat /\ op[p].mark \in Nat
          /\ "ac_status_changed" \in {"ac_status_changed", "gate_overridden",
                                       "spec_reopened", "test_retired"}
      BY <1>0, <1>15, <2>1, RequestFields DEF TypeOK, Accept, Accepts
    <2> HIDE DEF m, n
    <2>3. /\ DOMAIN journal' = DOMAIN journal \cup {Len(journal) + 1}
          /\ journal'[Len(journal) + 1].kind = "ac_status_changed"
          /\ journal'[Len(journal) + 1].ac = n
          /\ \A i \in DOMAIN journal : journal'[i] = journal[i]
      BY <1>0, <2>1, <2>2, AcceptLogFacts
    <2>4. /\ texts + 1 \notin DOMAIN acs
          /\ DOMAIN acs' \subseteq DOMAIN acs \cup {texts + 1}
          /\ texts + 1 \in DOMAIN acs' => acs'[texts + 1].status = "active"
          /\ acs'[n].status = "superseded"
          /\ \A b \in DOMAIN acs \ {n} : acs'[b] = acs[b]
      BY <2>1, <2>2, SupersedeFacts DEF n
    <2>5. \A i \in DOMAIN journal : journal[i].ac # texts + 1
      <3>1. \A i \in DOMAIN journal : journal[i].ac \in Nat /\ journal[i].ac <= texts
        BY <1>0, JournalFacts DEF Inv, Bounded
      <3> QED
        BY <1>0, <3>1
    <2>6. ASSUME NEW a \in DOMAIN acs'
          PROVE  acs'[a].status = "superseded"
                   <=> \E i \in DOMAIN journal' : Succeeds(journal'[i], a)
      <3>1. CASE a = n
        BY <2>3, <2>4, <3>1 DEF Succeeds
      <3>2. CASE a # n /\ a \in DOMAIN acs
        <4>1. acs'[a] = acs[a]
          BY <2>4, <3>2
        <4>2. (\E i \in DOMAIN journal' : Succeeds(journal'[i], a))
                <=> \E i \in DOMAIN journal : Succeeds(journal[i], a)
          BY <2>3, <3>2 DEF Succeeds
        <4> QED
          BY <3>2, <4>1, <4>2 DEF SupersededOnRecord
      <3>3. CASE a = texts + 1
        <4>1. a # n
          BY <2>2, <2>4, <3>3
        <4>2. \A i \in DOMAIN journal' : ~Succeeds(journal'[i], a)
          BY <2>3, <2>5, <3>3, <4>1 DEF Succeeds
        <4> QED
          BY <2>4, <3>3, <4>2
      <3> QED
        BY <2>4, <3>1, <3>2, <3>3
    <2> QED
      BY <2>6 DEF SupersededOnRecord, Succeeds
  <1>16. CASE UNCHANGED vars
    BY <1>1, <1>16 DEF vars
  <1> QED
    BY <1>9, <1>10, <1>11, <1>12, <1>13, <1>14, <1>15, <1>16 DEF Next, Act

(* However many requests race over one Spec, and whatever is deleted, a     *)
(* criterion is superseded exactly when the journal has an entry saying so  *)
(* (ac-supersession.ts:493-495).                                            *)
THEOREM SupersessionsRecorded == Spec => []SupersededOnRecord
  <1>1. Init => SupersededOnRecord
    BY DEF Init, SupersededOnRecord
  <1>2. Inv /\ SupersededOnRecord /\ [Next]_vars => SupersededOnRecord'
    BY RecordStep
  <1> QED
    BY <1>1, <1>2, Invariance, PTL DEF Spec

-----------------------------------------------------------------------------
(* What is accepted is what was reviewed *)

(* The proposal a request is about to apply was written about the statement *)
(* its criterion still has, unless that was rewritten after the check.      *)
Reviewed ==
    \A p \in Proc : Accepts(p) =>
        LET c == proposals[op[p].on]
        IN  acs[c.on].text = c.before \/ acs[c.on].text > op[p].mark

(* A step that begins no acceptance, and only rewrites statements with new  *)
(* ones and files proposals with new numbers.                               *)
LEMMA ReviewedKept ==
    ASSUME Inv, Reviewed,
           \A q \in Proc : op'[q].kind = "accept" => op'[q] = op[q],
           \A c \in DOMAIN proposals' : c > filed \/
                /\ c \in DOMAIN proposals
                /\ proposals'[c].on = proposals[c].on
                /\ proposals'[c].before = proposals[c].before,
           \A a \in DOMAIN acs \cap DOMAIN acs' : acs'[a].text = acs[a].text
                                                    \/ acs'[a].text = texts + 1,
           \A c \in DOMAIN proposals' : proposals'[c].on \in DOMAIN acs'
    PROVE  Reviewed'
  <1> SUFFICES ASSUME NEW q \in Proc, op'[q].kind = "accept", op'[q].on \in DOMAIN proposals'
               PROVE  LET c == proposals'[op'[q].on]
                      IN  acs'[c.on].text = c.before \/ acs'[c.on].text > op'[q].mark
    BY DEF Reviewed, Accepts
  <1> DEFINE m == op[q].on
             n == proposals[m].on
  <1>1. op'[q] = op[q] /\ m <= filed /\ op[q].mark <= texts
    BY DEF Inv, Bounded
  <1>2. /\ m \in Nat /\ op[q].mark \in Nat /\ filed \in Nat /\ texts \in Nat
    BY <1>1, RequestFields DEF Inv, TypeOK
  <1>3. /\ m \in DOMAIN proposals
        /\ proposals'[m].on = n /\ proposals'[m].before = proposals[m].before
    BY <1>1, <1>2
  <1>4. n \in DOMAIN acs \cap DOMAIN acs'
    BY <1>1, <1>3 DEF Inv, TypeOK
  <1>5. acs[n].text = proposals[m].before \/ acs[n].text > op[q].mark
    BY <1>1, <1>3 DEF Reviewed, Accepts
  <1>6. acs'[n].text = proposals[m].before \/ acs'[n].text > op[q].mark
    BY <1>1, <1>2, <1>4, <1>5
  <1> QED
    BY <1>1, <1>3, <1>6

LEMMA ReviewedStep ==
    ASSUME Inv, Reviewed, [Next]_vars
    PROVE  Reviewed'
  <1> USE DEF evidence, record
  <1>0. /\ TypeOK /\ texts \in Nat /\ filed \in Nat
        /\ Inv'
    BY NextInv DEF Inv, TypeOK
  <1>1. \A c \in DOMAIN proposals' : proposals'[c].on \in DOMAIN acs'
    BY <1>0 DEF Inv, TypeOK
  <1>2. CASE /\ \A q \in Proc : op'[q].kind = "accept" => op'[q] = op[q]
             /\ UNCHANGED <<acs, proposals>>
    BY <1>1, <1>2, ReviewedKept
  <1>3. CASE CreateAc
    <2>1. PICK s \in 1 .. MaxTexts : acs' = Put(acs, texts + 1, NewAc(s, 0, 0))
      BY <1>3 DEF CreateAc
    <2>2. /\ UNCHANGED <<op, proposals>>
          /\ \A a \in DOMAIN acs : acs'[a] = acs[a]
      <3>1. \A a \in DOMAIN acs : a # texts + 1
        BY <1>0 DEF Inv, Bounded, TypeOK
      <3> QED
        BY <1>3, <2>1, <3>1 DEF CreateAc, Put
    <2> QED
      BY <1>1, <2>2, ReviewedKept
  <1>4. ASSUME NEW a \in DOMAIN acs, DeleteAc(a) PROVE Reviewed'
    <2>1. /\ UNCHANGED op
          /\ \A b \in DOMAIN acs \cap DOMAIN acs' : acs'[b] = acs[b]
          /\ \A c \in DOMAIN proposals' : c \in DOMAIN proposals /\ proposals'[c] = proposals[c]
      BY <1>4 DEF DeleteAc, Restrict
    <2> QED
      BY <1>1, <2>1, ReviewedKept
  <1>5. ASSUME NEW a \in DOMAIN acs, NEW n, UNCHANGED <<op, proposals>>,
               acs' = [acs EXCEPT ![a].signed = n]
        PROVE  Reviewed'
    <2>1. acs'[a] = [acs[a] EXCEPT !.signed = n] /\ acs[a] \in Ac
      BY <1>0, <1>5 DEF TypeOK
    <2>2. acs'[a].text = acs[a].text
      BY <2>1 DEF Ac
    <2>3. \A b \in DOMAIN acs : acs'[b].text = acs[b].text
      BY <1>5, <2>2
    <2> QED
      BY <1>1, <1>5, <2>3, ReviewedKept
  <1>6. ASSUME NEW a \in DOMAIN acs, SignOff(a) \/ RevokeSignOff(a) PROVE Reviewed'
    BY <1>5, <1>6 DEF SignOff, RevokeSignOff
  (* A proposal changes its state only. *)
  <1>7. ASSUME NEW c \in DOMAIN proposals, NEW s \in {"open", "accepted", "rejected", "other"},
               proposals' = [proposals EXCEPT ![c].state = s]
        PROVE  \A d \in DOMAIN proposals' : /\ d \in DOMAIN proposals
                                            /\ proposals'[d].on = proposals[d].on
                                            /\ proposals'[d].before = proposals[d].before
    <2>1. proposals[c] \in Proposal /\ proposals'[c] = [proposals[c] EXCEPT !.state = s]
      BY <1>0, <1>7 DEF TypeOK
    <2>2. proposals'[c].on = proposals[c].on /\ proposals'[c].before = proposals[c].before
      BY <2>1 DEF Proposal
    <2> QED
      BY <1>7, <2>2
  <1>8. ASSUME NEW c \in DOMAIN proposals, ResolveComment(c) \/ UnresolveComment(c)
        PROVE  Reviewed'
    <2>1. UNCHANGED <<op, acs>>
      BY <1>8 DEF ResolveComment, UnresolveComment
    <2>2. \A d \in DOMAIN proposals' : /\ d \in DOMAIN proposals
                                       /\ proposals'[d].on = proposals[d].on
                                       /\ proposals'[d].before = proposals[d].before
      BY <1>7, <1>8 DEF ResolveComment, UnresolveComment
    <2> QED
      BY <1>1, <2>1, <2>2, ReviewedKept
  <1>9. CASE Write
    BY <1>2, <1>3, <1>4, <1>6, <1>8, <1>9 DEF Write, Emit, Age, RetireTest
  <1>10. ASSUME NEW p \in Proc, NEW f, Begins(p, f), f.kind # "accept" PROVE Reviewed'
    <2>1. op' = [op EXCEPT ![p] = f] /\ UNCHANGED <<acs, proposals>>
      BY <1>10 DEF Begins
    <2> QED
      BY <1>0, <1>2, <1>10, <2>1 DEF TypeOK
  <1>11. ASSUME NEW p \in Proc, NEW c \in DOMAIN proposals, CheckAccept(p, c) PROVE Reviewed'
    <2>1. /\ op' = [op EXCEPT ![p] = [kind |-> "accept", on |-> c, mark |-> texts]]
          /\ UNCHANGED <<acs, proposals>> /\ op \in [Proc -> Request]
          /\ acs[proposals[c].on].text = proposals[c].before
      BY <1>0, <1>11 DEF CheckAccept, Begins, TypeOK
    <2> QED
      BY <2>1 DEF Reviewed, Accepts
  <1>12. ASSUME NEW p \in Proc, Check(p) PROVE Reviewed'
    <2>1. ASSUME NEW a \in DOMAIN acs, CheckUpdate(p, a) PROVE Reviewed'
      <3> DEFINE f == [kind |-> "update", on |-> a]
      <3>1. f.kind # "accept" /\ Begins(p, f)
        BY <2>1 DEF CheckUpdate
      <3> QED
        BY <1>10, <3>1
    <2>2. ASSUME NEW a \in DOMAIN acs, NEW b \in BOOLEAN, CheckPropose(p, a, b) PROVE Reviewed'
      <3> DEFINE f == [kind |-> "propose", on |-> a, replaces |-> b, before |-> acs[a].text,
                    mark |-> filed]
      <3>1. f.kind # "accept" /\ Begins(p, f)
        BY <2>2 DEF CheckPropose
      <3> QED
        BY <1>10, <3>1
    <2>3. ASSUME NEW c \in DOMAIN proposals, CheckReject(p, c) PROVE Reviewed'
      <3> DEFINE f == [kind |-> "reject", on |-> c]
      <3>1. f.kind # "accept" /\ Begins(p, f)
        BY <2>3 DEF CheckReject
      <3> QED
        BY <1>10, <3>1
    <2>4. ASSUME NEW to \in Phases \cup {"done"}, CheckMove(p, to) PROVE Reviewed'
      <3> DEFINE f == [kind |-> "move", from |-> status, to |-> to, mark |-> filed]
      <3>1. f.kind # "accept" /\ Begins(p, f)
        BY <2>4 DEF CheckMove
      <3> QED
        BY <1>10, <3>1
    <2>5. CASE CheckOverride(p)
      <3> DEFINE f == [kind |-> "override", seen |-> Blockers, mark |-> filed]
      <3>1. f.kind # "accept" /\ Begins(p, f)
        BY <2>5 DEF CheckOverride
      <3> QED
        BY <1>10, <3>1
    <2> QED
      BY <1>11, <1>12, <2>1, <2>2, <2>3, <2>4, <2>5 DEF Check
  (* A request that ends. *)
  <1>13. ASSUME NEW p \in Proc, Ends(p)
         PROVE  \A q \in Proc : op'[q].kind = "accept" => op'[q] = op[q]
    BY <1>0, <1>13, EndsFacts
  <1>14. ASSUME NEW p \in Proc, Update(p) PROVE Reviewed'
    <2>1. Ends(p) /\ UNCHANGED proposals
      BY <1>14 DEF Update
    <2>2. \A a \in DOMAIN acs \cap DOMAIN acs' : acs'[a].text = acs[a].text
                                                   \/ acs'[a].text = texts + 1
      <3>1. CASE UNCHANGED acs
        BY <3>1
      <3>2. CASE op[p].on \in DOMAIN acs /\ acs' = [acs EXCEPT ![op[p].on].text = texts + 1]
        <4> DEFINE a == op[p].on
        <4>1. acs'[a] = [acs[a] EXCEPT !.text = texts + 1] /\ acs[a] \in Ac
          BY <1>0, <3>2 DEF TypeOK
        <4>2. acs'[a].text = texts + 1
          BY <4>1 DEF Ac
        <4>3. \A b \in DOMAIN acs \ {a} : acs'[b] = acs[b]
          BY <3>2
        <4> QED
          BY <4>2, <4>3
      <3> QED
        BY <1>14, <3>1, <3>2 DEF Update
    <2> QED
      BY <1>1, <1>13, <2>1, <2>2, ReviewedKept
  <1>15. ASSUME NEW p \in Proc, Propose(p) PROVE Reviewed'
    <2>1. Ends(p) /\ UNCHANGED acs
      BY <1>15 DEF Propose
    <2>2. \A c \in DOMAIN proposals' : \/ c = filed + 1
                                       \/ c \in DOMAIN proposals /\ proposals'[c] = proposals[c]
      <3>1. \/ UNCHANGED proposals
            \/ proposals' = Put(proposals, filed + 1,
                    [on |-> op[p].on, before |-> op[p].before,
                     replaces |-> op[p].replaces, mark |-> op[p].mark,
                         state |-> "open"])
        BY <1>15 DEF Propose
      <3> QED
        BY <3>1 DEF Put
    <2>3. filed + 1 > filed
      BY <1>0
    <2> QED
      BY <1>1, <1>13, <2>1, <2>2, <2>3, ReviewedKept
  <1>16. ASSUME NEW p \in Proc, Reject(p) PROVE Reviewed'
    <2>1. Ends(p) /\ UNCHANGED acs /\ op[p].on \in DOMAIN proposals
      BY <1>16 DEF Reject
    <2>2. \A d \in DOMAIN proposals' : /\ d \in DOMAIN proposals
                                       /\ proposals'[d].on = proposals[d].on
                                       /\ proposals'[d].before = proposals[d].before
      BY <1>7, <1>16 DEF Reject
    <2> QED
      BY <1>1, <1>13, <2>1, <2>2, ReviewedKept
  <1>17. ASSUME NEW p \in Proc, Accept(p) PROVE Reviewed'
    <2> DEFINE m == op[p].on
    <2>1. /\ m \in DOMAIN proposals /\ Supersede(m, op[p].mark) /\ Ends(p)
          /\ proposals' = [proposals EXCEPT ![m].state = "accepted"]
      BY <1>17 DEF Accept, Accepts
    <2> HIDE DEF m
    <2>2. \A d \in DOMAIN proposals' : /\ d \in DOMAIN proposals
                                       /\ proposals'[d].on = proposals[d].on
                                       /\ proposals'[d].before = proposals[d].before
      BY <1>7, <2>1
    <2>3. \A b \in DOMAIN acs : acs'[b].text = acs[b].text
      <3>1. op[p].mark \in Nat
        BY <1>0, <1>17, RequestFields DEF TypeOK, Accept, Accepts
      <3> QED
        BY <2>1, <3>1, SupersedeFacts
    <2> QED
      BY <1>1, <1>13, <2>1, <2>2, <2>3, ReviewedKept
  <1>18. ASSUME NEW p \in Proc, Move(p) \/ Override(p) \/ Abandon(p) PROVE Reviewed'
    <2>1. Ends(p) /\ UNCHANGED <<acs, proposals>>
      BY <1>18 DEF Move, Override, Abandon
    <2> QED
      BY <1>2, <1>13, <2>1
  <1>19. CASE UNCHANGED vars
    BY <1>2, <1>19 DEF vars
  <1> QED
    BY <1>9, <1>12, <1>14, <1>15, <1>16, <1>17, <1>18, <1>19 DEF Next, Act

(* Whatever requests race, an acceptance applies a proposal to the          *)
(* statement it was written about, or to one written after the acceptance's *)
(* own check: never to one the staleness guard could have refused           *)
(* (ac-supersession.ts:433).                                                *)
THEOREM ReviewedIsApplied == Spec => AcceptAppliesReviewed
  <1>1. Init => Reviewed
    BY DEF Init, Reviewed, Accepts
  <1>2. Inv /\ Reviewed /\ [Next]_vars => Reviewed'
    BY ReviewedStep
  <1>3. Reviewed /\ [Next]_vars =>
          [\A p \in Proc : Accept(p) =>
            LET c == proposals[op[p].on]
            IN  acs[c.on].text = c.before \/ acs[c.on].text > op[p].mark]_vars
    BY DEF Reviewed, Accept
  <1> QED
    BY <1>1, <1>2, <1>3, Invariance, PTL DEF Spec, AcceptAppliesReviewed

-----------------------------------------------------------------------------
(* What the done-gate lets through *)

(* A request about to close the Spec has overlooked nothing. *)
GateChecked ==
    \A p \in Proc : op[p].kind = "move" /\ op[p].to = "done" /\ op[p].from # "done" =>
        \A c \in DOMAIN proposals : ~Overlooked(p, c)

(* A step that begins no move, reopens no proposal and forgets no override. *)
LEMMA GateKept ==
    ASSUME Inv, GateChecked,
           \A q \in Proc : op'[q].kind = "move" => op'[q] = op[q],
           \A c \in DOMAIN proposals' :
                \/ c = filed + 1
                \/ c \in DOMAIN proposals /\ (proposals'[c].state = "open" =>
                                               proposals[c].state = "open"),
           DOMAIN journal \subseteq DOMAIN journal',
           \A i \in DOMAIN journal : journal'[i] = journal[i]
    PROVE  GateChecked'
  <1> SUFFICES ASSUME NEW q \in Proc, NEW c \in DOMAIN proposals',
                      op'[q].kind = "move", op'[q].to = "done", op'[q].from # "done",
                      proposals'[c].state = "open", c <= op'[q].mark,
                      \A i \in DOMAIN journal' :
                        journal'[i].kind = "gate_overridden" => c > journal'[i].at
               PROVE  FALSE
    BY DEF GateChecked, Overlooked, Entries
  <1>1. op'[q] = op[q] /\ op[q].mark <= filed /\ op[q].mark \in Nat /\ filed \in Nat
    BY RequestFields DEF Inv, Bounded, TypeOK
  <1>2. c \in DOMAIN proposals /\ c \in Nat
    <2>1. c # filed + 1
      BY <1>1
    <2> QED
      BY <2>1 DEF Inv, TypeOK
  <1>3. \A i \in DOMAIN journal : journal[i].kind = "gate_overridden" => c > journal[i].at
    OBVIOUS
  <1>4. Overlooked(q, c)
    BY <1>1, <1>2, <1>3 DEF Overlooked, Entries
  <1> QED
    BY <1>1, <1>2, <1>4 DEF GateChecked

LEMMA GateStep ==
    ASSUME Inv, GateChecked, "unresolve" \notin Ops, [Next]_vars
    PROVE  GateChecked'
  <1> USE DEF evidence, record
  <1>0. /\ TypeOK /\ texts \in Nat /\ filed \in Nat
        /\ DOMAIN proposals \subseteq Nat
    BY DEF Inv, TypeOK
  (* A step that files nothing and leaves no proposal open that was not. *)
  <1>1. CASE /\ \A q \in Proc : op'[q].kind = "move" => op'[q] = op[q]
             /\ \A c \in DOMAIN proposals' :
                    \/ c = filed + 1
                    \/ c \in DOMAIN proposals /\ (proposals'[c].state = "open" =>
                                                   proposals[c].state = "open")
             /\ UNCHANGED journal
    BY <1>1, GateKept
  <1>2. ASSUME NEW kind \in {"ac_status_changed", "gate_overridden", "spec_reopened",
                             "test_retired"},
               NEW ac \in Nat, NEW mark \in Nat, NEW counted \in SUBSET Nat,
               Log(kind, ac, mark, counted)
        PROVE  /\ DOMAIN journal \subseteq DOMAIN journal'
               /\ \A i \in DOMAIN journal : journal'[i] = journal[i]
    BY <1>0, <1>2, LogFacts
  <1>3. {} \in SUBSET Nat /\ 0 \in Nat
    OBVIOUS
  (* A proposal that is decided. *)
  <1>4. ASSUME NEW c \in DOMAIN proposals, NEW s \in {"accepted", "rejected", "other"},
               proposals' = [proposals EXCEPT ![c].state = s]
        PROVE  \A d \in DOMAIN proposals' :
                 d \in DOMAIN proposals /\ (proposals'[d].state = "open" =>
                                             proposals[d].state = "open")
    <2>1. proposals[c] \in Proposal /\ proposals'[c] = [proposals[c] EXCEPT !.state = s]
      BY <1>0, <1>4 DEF TypeOK
    <2>2. proposals'[c].state # "open"
      BY <2>1 DEF Proposal
    <2> QED
      BY <1>4, <2>2
  <1>5. ASSUME NEW a \in DOMAIN acs, NEW t \in Tests, RetireTest(a, t) PROVE GateChecked'
    <2>1. a \in Nat
      BY <1>0 DEF TypeOK
    <2> QED
      BY <1>2, <1>3, <1>5, <2>1, GateKept DEF RetireTest
  <1>6. CASE Write
    <2>1. ASSUME NEW a \in DOMAIN acs, DeleteAc(a) PROVE GateChecked'
      BY <1>1, <2>1 DEF DeleteAc, Restrict
    <2>2. ASSUME NEW c \in DOMAIN proposals, ResolveComment(c) PROVE GateChecked'
      BY <1>1, <1>4, <2>2 DEF ResolveComment
    <2> QED
      BY <1>1, <1>5, <1>6, <2>1, <2>2
         DEF Write, CreateAc, SignOff, RevokeSignOff, Emit, Age, UnresolveComment
  <1>7. ASSUME NEW p \in Proc, NEW f, Begins(p, f), f.kind # "move" PROVE GateChecked'
    <2>1. op' = [op EXCEPT ![p] = f] /\ UNCHANGED <<journal, proposals>>
      BY <1>7 DEF Begins
    <2> QED
      BY <1>0, <1>1, <1>7, <2>1 DEF TypeOK
  <1>8. ASSUME NEW p \in Proc, NEW to \in Phases \cup {"done"}, CheckMove(p, to)
        PROVE  GateChecked'
    <2>1. /\ op' = [op EXCEPT ![p] = [kind |-> "move", from |-> status, to |-> to,
                                      mark |-> filed]]
          /\ UNCHANGED <<journal, proposals>> /\ op \in [Proc -> Request]
          /\ to = "done" /\ status # "done" => Blockers = {}
      BY <1>0, <1>8 DEF CheckMove, Begins, TypeOK
    <2>2. ASSUME NEW q \in Proc, q # p, op'[q].kind = "move", op'[q].to = "done",
                 op'[q].from # "done", NEW c \in DOMAIN proposals'
          PROVE  ~Overlooked(q, c)'
      BY <2>1, <2>2 DEF GateChecked, Overlooked, Entries
    <2>3. ASSUME op'[p].to = "done", op'[p].from # "done", NEW c \in DOMAIN proposals'
          PROVE  ~Overlooked(p, c)'
      <3>1. c \notin Blockers
        BY <2>1, <2>3
      <3> QED
        BY <2>1, <3>1 DEF Blockers, Overlooked, Entries
    <2> QED
      BY <2>2, <2>3 DEF GateChecked
  <1>9. ASSUME NEW p \in Proc, Check(p) PROVE GateChecked'
    <2>1. ASSUME NEW a \in DOMAIN acs, CheckUpdate(p, a) PROVE GateChecked'
      <3> DEFINE f == [kind |-> "update", on |-> a]
      <3>1. f.kind # "move" /\ Begins(p, f)
        BY <2>1 DEF CheckUpdate
      <3> QED
        BY <1>7, <3>1
    <2>2. ASSUME NEW a \in DOMAIN acs, NEW b \in BOOLEAN, CheckPropose(p, a, b)
          PROVE  GateChecked'
      <3> DEFINE f == [kind |-> "propose", on |-> a, replaces |-> b, before |-> acs[a].text,
                    mark |-> filed]
      <3>1. f.kind # "move" /\ Begins(p, f)
        BY <2>2 DEF CheckPropose
      <3> QED
        BY <1>7, <3>1
    <2>3. ASSUME NEW c \in DOMAIN proposals, CheckReject(p, c) PROVE GateChecked'
      <3> DEFINE f == [kind |-> "reject", on |-> c]
      <3>1. f.kind # "move" /\ Begins(p, f)
        BY <2>3 DEF CheckReject
      <3> QED
        BY <1>7, <3>1
    <2>4. ASSUME NEW c \in DOMAIN proposals, CheckAccept(p, c) PROVE GateChecked'
      <3> DEFINE f == [kind |-> "accept", on |-> c, mark |-> texts]
      <3>1. f.kind # "move" /\ Begins(p, f)
        BY <2>4 DEF CheckAccept
      <3> QED
        BY <1>7, <3>1
    <2>5. CASE CheckOverride(p)
      <3> DEFINE f == [kind |-> "override", seen |-> Blockers, mark |-> filed]
      <3>1. f.kind # "move" /\ Begins(p, f)
        BY <2>5 DEF CheckOverride
      <3> QED
        BY <1>7, <3>1
    <2> QED
      BY <1>8, <1>9, <2>1, <2>2, <2>3, <2>4, <2>5 DEF Check
  (* A request that ends. *)
  <1>10. ASSUME NEW p \in Proc, Ends(p)
         PROVE  \A q \in Proc : op'[q].kind = "move" => op'[q] = op[q]
    BY <1>0, <1>10, EndsFacts
  <1>11. ASSUME NEW p \in Proc, Update(p) \/ Abandon(p) PROVE GateChecked'
    <2>1. Ends(p) /\ UNCHANGED <<proposals, journal>>
      BY <1>11 DEF Update, Abandon
    <2> QED
      BY <1>1, <1>10, <2>1
  <1>12. ASSUME NEW p \in Proc, Propose(p) PROVE GateChecked'
    <2>1. Ends(p) /\ UNCHANGED journal
      BY <1>12 DEF Propose
    <2>2. \A c \in DOMAIN proposals' : \/ c = filed + 1
                                       \/ c \in DOMAIN proposals /\ proposals'[c] = proposals[c]
      <3>1. \/ UNCHANGED proposals
            \/ proposals' = Put(proposals, filed + 1,
                    [on |-> op[p].on, before |-> op[p].before,
                     replaces |-> op[p].replaces, mark |-> op[p].mark,
                         state |-> "open"])
        BY <1>12 DEF Propose
      <3> QED
        BY <3>1 DEF Put
    <2>3. \A c \in DOMAIN proposals' :
             \/ c = filed + 1
             \/ c \in DOMAIN proposals /\ (proposals'[c].state = "open" =>
                                            proposals[c].state = "open")
      BY <1>0, <2>2
    <2>4. \A q \in Proc : op'[q].kind = "move" => op'[q] = op[q]
      BY <1>10, <2>1
    <2> QED
      BY <1>1, <2>1, <2>3, <2>4
  <1>13. ASSUME NEW p \in Proc, Reject(p) PROVE GateChecked'
    <2>1. Ends(p) /\ UNCHANGED journal
      BY <1>13 DEF Reject
    <2>2. \A d \in DOMAIN proposals' :
             d \in DOMAIN proposals /\ (proposals'[d].state = "open" =>
                                         proposals[d].state = "open")
      BY <1>4, <1>13 DEF Reject
    <2> QED
      BY <1>1, <1>10, <2>1, <2>2
  <1>14. ASSUME NEW p \in Proc, Accept(p) PROVE GateChecked'
    <2> DEFINE m == op[p].on
               n == proposals[m].on
    <2>1. /\ m \in DOMAIN proposals /\ Ends(p) /\ Log("ac_status_changed", n, 0, {m})
          /\ proposals' = [proposals EXCEPT ![m].state = "accepted"]
      BY <1>14 DEF Accept, Accepts
    <2>2. n \in Nat /\ {m} \in SUBSET Nat
      BY <1>0, <2>1 DEF TypeOK
    <2> HIDE DEF m, n
    <2>3. \A d \in DOMAIN proposals' :
             d \in DOMAIN proposals /\ (proposals'[d].state = "open" =>
                                         proposals[d].state = "open")
      BY <1>4, <2>1
    <2> QED
      BY <1>2, <1>10, <2>1, <2>2, <2>3, GateKept
  <1>15. ASSUME NEW p \in Proc, Move(p) PROVE GateChecked'
    <2>1. /\ Ends(p) /\ UNCHANGED proposals
          /\ Log("spec_reopened", 0, 0, {}) \/ UNCHANGED journal
      BY <1>15 DEF Move
    <2> QED
      BY <1>1, <1>2, <1>3, <1>10, <2>1, GateKept
  <1>16. ASSUME NEW p \in Proc, Override(p) PROVE GateChecked'
    <2>1. /\ Ends(p) /\ UNCHANGED proposals
          /\ op[p].seen \in SUBSET Nat /\ op[p].mark \in Nat
          /\ Log("gate_overridden", 0, op[p].mark, op[p].seen)
      BY <1>0, <1>16, RequestFields DEF Override, TypeOK
    <2> QED
      BY <1>2, <1>3, <1>10, <2>1, GateKept
  <1>17. CASE UNCHANGED vars
    BY <1>1, <1>17 DEF vars
  <1> QED
    BY <1>6, <1>9, <1>11, <1>12, <1>13, <1>14, <1>15, <1>16, <1>17 DEF Next, Act

(* As long as no decided proposal is reopened as a plain comment, a request *)
(* that found the Spec open closes it over no undecided proposal it could   *)
(* have seen, unless an override cleared it - whatever else is under way    *)
(* (done-gate.ts:3-5).                                                      *)
THEOREM GateHolds ==
    ASSUME "unresolve" \notin Ops
    PROVE  Spec => GateMissesOnlyLateProposals
  <1>1. Init => GateChecked
    BY DEF Init, GateChecked
  <1>2. Inv /\ GateChecked /\ [Next]_vars => GateChecked'
    BY GateStep
  <1>3. GateChecked /\ [Next]_vars =>
          [\A p \in Proc : Move(p) /\ op[p].to = "done" /\ op[p].from # "done" =>
            \A c \in DOMAIN proposals : ~Overlooked(p, c)]_vars
    BY DEF GateChecked, Move
  <1> QED
    BY <1>1, <1>2, <1>3, Invariance, PTL DEF Spec, GateMissesOnlyLateProposals
=============================================================================
