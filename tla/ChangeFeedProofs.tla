-------------------------- MODULE ChangeFeedProofs --------------------------
(* Theorems of ChangeFeed for any instances, any consumers and any bounds. *)
EXTENDS ChangeFeed, SequenceTheorems, TLAPS

-----------------------------------------------------------------------------
(* Types *)

LEMMA NoConnType == NoConn.at \in Instance
  BY InstanceAssumption DEF NoConn

LEMMA InitType == Init => TypeOK
  <1> SUFFICES ASSUME Init PROVE TypeOK
    OBVIOUS
  <1>1. << >> \in Seq(0 .. MaxWrites)
    OBVIOUS
  <1>2. conn \in [state : {"none", "down", "live"}, at : Instance, ever : BOOLEAN]
    BY NoConnType DEF Init, NoConn
  <1>3. rev \in 1 .. MaxWrites /\ drops \in 0 .. MaxDrops
    BY BoundsAssumption DEF Init
  <1>4. view \in [Consumer -> 0 .. MaxWrites]
    BY BoundsAssumption DEF Init
  <1>5. fetches \in [Consumer -> Seq(0 .. MaxWrites)]
    BY <1>1 DEF Init
  <1>6. heard \in [Instance -> [Event -> Nat]] /\ logged \in [Event -> Nat]
    BY DEF Init
  <1>7. since \in 0 .. rev
    BY <1>3 DEF Init
  <1>8. /\ conn.state = "none" <=> ~Loaded
        /\ ~Loaded => mounted \subseteq {Page}
        /\ \A k \in Consumer \ mounted : view[k] = 0 /\ ~due[k] /\ fetches[k] = << >>
    BY PageAssumption DEF Init, NoConn, Loaded
  <1> QED
    BY <1>2, <1>3, <1>4, <1>5, <1>6, <1>7, <1>8 DEF Init, TypeOK, NoConn

(* Taking an answer out of the fetches in flight. *)
LEMMA RemoveAtType ==
    ASSUME NEW S, NEW s \in Seq(S), NEW n \in 1 .. Len(s)
    PROVE  /\ RemoveAt(s, n) \in Seq(S)
           /\ Len(RemoveAt(s, n)) = Len(s) - 1
           /\ \A m \in 1 .. Len(s) - 1 :
                RemoveAt(s, n)[m] = IF m < n THEN s[m] ELSE s[m + 1]
  <1> DEFINE a == SubSeq(s, 1, n - 1)
             b == SubSeq(s, n + 1, Len(s))
  <1>1. /\ a \in Seq(S) /\ Len(a) = n - 1
        /\ \A m \in 1 .. n - 1 : a[m] = s[m]
    <2>1. \A m \in 1 .. n - 1 : s[m] \in S
      OBVIOUS
    <2> QED
      BY <2>1, SubSeqProperties
  <1>2. /\ b \in Seq(S) /\ Len(b) = Len(s) - n
        /\ \A m \in 1 .. Len(s) - n : b[m] = s[m + n]
    <2>1. \A m \in n + 1 .. Len(s) : s[m] \in S
      OBVIOUS
    <2>2. /\ SubSeq(s, n + 1, Len(s)) \in Seq(S)
          /\ Len(b) = IF n + 1 <= Len(s) THEN Len(s) - (n + 1) + 1 ELSE 0
          /\ \A m \in 1 .. Len(s) - (n + 1) + 1 : b[m] = s[n + 1 + m - 1]
      BY <2>1, SubSeqProperties
    <2> QED
      BY <2>2
  <1> HIDE DEF a, b
  <1>3. /\ a \o b \in Seq(S) /\ Len(a \o b) = Len(a) + Len(b)
        /\ \A m \in 1 .. Len(a) + Len(b) :
             (a \o b)[m] = IF m <= Len(a) THEN a[m] ELSE b[m - Len(a)]
    BY <1>1, <1>2, ConcatProperties
  <1>4. RemoveAt(s, n) = a \o b
    BY DEF RemoveAt, a, b
  <1>5. ASSUME NEW m \in 1 .. Len(s) - 1
        PROVE  (a \o b)[m] = IF m < n THEN s[m] ELSE s[m + 1]
    <2>1. Len(s) \in Nat /\ m \in Nat /\ n \in Nat /\ m \in 1 .. Len(a) + Len(b)
      BY <1>1, <1>2
    <2>2. CASE m < n
      BY <2>1, <2>2, <1>1, <1>3
    <2>3. CASE ~(m < n)
      <3>1. /\ m - (n - 1) \in 1 .. Len(s) - n
            /\ m - (n - 1) + n = m + 1
            /\ ~(m <= Len(a)) /\ m - Len(a) = m - (n - 1)
        BY <2>1, <2>3, <1>1
      <3>2. (a \o b)[m] = b[m - (n - 1)]
        BY <2>1, <3>1, <1>3
      <3>3. b[m - (n - 1)] = s[m - (n - 1) + n]
        BY <3>1, <1>2
      <3>4. s[m - (n - 1) + n] = s[m + 1]
        BY <3>1
      <3>5. (a \o b)[m] = s[m + 1]
        BY <3>2, <3>3, <3>4
      <3> QED
        BY <2>3, <3>5
    <2> QED
      BY <2>2, <2>3
  <1>6. Len(a \o b) = Len(s) - 1
    BY <1>1, <1>2, <1>3
  <1> QED
    BY <1>3, <1>4, <1>5, <1>6

LEMMA HeardType ==
    ASSUME heard \in [Instance -> [Event -> Nat]], NEW i \in Instance, NEW e \in Event
    PROVE  [heard EXCEPT ![i][e] = @ + 1] \in [Instance -> [Event -> Nat]]
  <1>1. heard[i] \in [Event -> Nat]
    OBVIOUS
  <1>2. [heard[i] EXCEPT ![e] = @ + 1] \in [Event -> Nat]
    BY <1>1
  <1> QED
    BY <1>2

(* The stream as a record. *)
LEMMA ConnFields ==
    ASSUME TypeOK, NEW t \in {"none", "down", "live"}
    PROVE  /\ [conn EXCEPT !.state = t]
                \in [state : {"none", "down", "live"}, at : Instance, ever : BOOLEAN]
           /\ [conn EXCEPT !.state = t].state = t
           /\ [conn EXCEPT !.state = t].ever = conn.ever
           /\ [conn EXCEPT !.state = t].at = conn.at
  BY DEF TypeOK

(* The steps of the servers keep the types. *)
LEMMA ServerType ==
    ASSUME TypeOK, NEW i \in Instance, ServerStep(i)
    PROVE  TypeOK'
  <1> USE DEF TypeOK, serverVars, pageVars, Dispatch, StreamHears, Loaded
  <1>1. CASE Commit(i)
    <2>1. rev + 1 \in Event /\ rev + 1 \in 1 .. MaxWrites
      BY <1>1, BoundsAssumption DEF Commit, Event
    <2>2. emitting' \in [Instance -> SUBSET Event]
      BY <1>1, <2>1 DEF Commit
    <2> QED
      BY <1>1, <2>1, <2>2 DEF Commit
  <1>2. CASE ListenFirst(i)
    BY <1>2 DEF ListenFirst
  <1>3. CASE ListenRejected(i)
    BY <1>3, BoundsAssumption DEF ListenRejected
  <1>4. CASE ListenDrops(i)
    BY <1>4, BoundsAssumption DEF ListenDrops
  <1>5. CASE ListenRecovers(i)
    BY <1>5 DEF ListenRecovers, IsReconnect, Nudge
  <1>6. CASE Crash(i)
    <2>1. /\ conn' \in [state : {"none", "down", "live"}, at : Instance, ever : BOOLEAN]
          /\ sent' \in BOOLEAN
          /\ conn'.state = "none" <=> conn.state = "none"
          /\ sent' => conn'.state = "live"
      BY <1>6 DEF Crash
    <2>2. drops' \in 0 .. MaxDrops
      BY <1>6, BoundsAssumption DEF Crash
    <2> QED
      BY <1>6, <2>1, <2>2 DEF Crash
  <1>7. ASSUME NEW e \in Event, Emit(i, e) PROVE TypeOK'
    <2>1. heard' \in [Instance -> [Event -> Nat]] /\ logged' \in [Event -> Nat]
      BY <1>7, HeardType DEF Emit
    <2>2. /\ emitting' \in [Instance -> SUBSET Event]
          /\ wire' \in [Instance -> SUBSET Event]
      BY <1>7 DEF Emit
    <2>3. sent' \in BOOLEAN /\ (sent' => conn.state = "live")
      BY <1>7 DEF Emit
    <2> QED
      BY <1>7, <2>1, <2>2, <2>3 DEF Emit
  <1>8. ASSUME NEW e \in Event, Notify(i, e) PROVE TypeOK'
    BY <1>8 DEF Notify
  <1>9. ASSUME NEW e \in Event, NotifyFails(i, e) PROVE TypeOK'
    BY <1>9 DEF NotifyFails
  <1>10. ASSUME NEW m \in inbox[i], OnNotify(i, m) PROVE TypeOK'
    <2>1. m[2] \in Event
      OBVIOUS
    <2>2. heard' \in [Instance -> [Event -> Nat]]
      <3>1. CASE m[1] = i
        BY <1>10, <3>1 DEF OnNotify
      <3>2. CASE m[1] # i
        <4>1. heard' = [heard EXCEPT ![i][m[2]] = @ + 1]
          BY <1>10, <3>2 DEF OnNotify
        <4> QED
          BY <4>1, <2>1, HeardType
      <3> QED
        BY <3>1, <3>2
    <2>3. sent' \in BOOLEAN /\ (sent' => conn.state = "live")
      BY <1>10 DEF OnNotify
    <2> QED
      BY <1>10, <2>2, <2>3 DEF OnNotify
  <1> QED
    BY <1>1, <1>2, <1>3, <1>4, <1>5, <1>6, <1>7, <1>8, <1>9, <1>10 DEF ServerStep

(* What a component shows, waits for and fetches, apart from the stream.    *)
LEMMA FetchType ==
    ASSUME TypeOK, NEW k \in Consumer, NEW n \in DOMAIN fetches[k]
    PROVE  /\ k \in mounted
           /\ n \in 1 .. Len(fetches[k])
           /\ RemoveAt(fetches[k], n) \in Seq(0 .. MaxWrites)
           /\ fetches[k][n] \in 0 .. MaxWrites
           /\ [fetches[k] EXCEPT ![n] = rev] \in Seq(0 .. MaxWrites)
  <1>0. /\ fetches[k] \in Seq(0 .. MaxWrites) /\ rev \in 0 .. MaxWrites
        /\ k \notin mounted => fetches[k] = << >>
    BY DEF TypeOK
  <1>1. n \in 1 .. Len(fetches[k])
    BY <1>0, LenProperties
  <1>2. k \in mounted
    BY <1>0, <1>1
  <1>3. RemoveAt(fetches[k], n) \in Seq(0 .. MaxWrites)
    BY <1>0, <1>1, RemoveAtType
  <1>4. fetches[k][n] \in 0 .. MaxWrites
    BY <1>0, <1>1, ElementOfSeq
  <1>5. [fetches[k] EXCEPT ![n] = rev] \in Seq(0 .. MaxWrites)
    BY <1>0, <1>1, ExceptSeq
  <1> QED
    BY <1>1, <1>2, <1>3, <1>4, <1>5

(* A new stream, and none. *)
LEMMA FreshConn ==
    /\ NoConn \in [state : {"none", "down", "live"}, at : Instance, ever : BOOLEAN]
    /\ NoConn.state = "none" /\ ~NoConn.ever
    /\ [NoConn EXCEPT !.state = "down"]
            \in [state : {"none", "down", "live"}, at : Instance, ever : BOOLEAN]
    /\ [NoConn EXCEPT !.state = "down"].state = "down"
    /\ ~[NoConn EXCEPT !.state = "down"].ever
  BY NoConnType DEF NoConn

(* So do the steps of the page. *)
LEMMA ConsumerType ==
    ASSUME TypeOK, NEW k \in Consumer, ConsumerStep(k)
    PROVE  TypeOK'
  <1> USE DEF TypeOK, serverVars, pageVars
  <1>0. fetches[k] \in Seq(0 .. MaxWrites)
    OBVIOUS
  <1>1. CASE Mount(k)
    <2>1. << 0 >> \in Seq(0 .. MaxWrites)
      BY BoundsAssumption
    <2>2. /\ Loaded' <=> Loaded
          /\ ~Loaded => mounted' \subseteq {Page}
      BY <1>1 DEF Mount, Loaded
    <2>3. \A l \in Consumer \ mounted' : l \notin mounted /\ fetches'[l] = fetches[l]
      BY <1>1 DEF Mount
    <2> QED
      BY <1>1, <2>1, <2>2, <2>3 DEF Mount
  <1>2. CASE Unmount(k)
    <2>1. drops' \in 0 .. MaxDrops
      BY <1>2, BoundsAssumption DEF Unmount
    <2>2. /\ mounted' \subseteq Consumer /\ view' \in [Consumer -> 0 .. MaxWrites]
          /\ due' \in [Consumer -> BOOLEAN] /\ fetches' \in [Consumer -> Seq(0 .. MaxWrites)]
          /\ \A l \in Consumer \ mounted' : view'[l] = 0 /\ ~due'[l] /\ fetches'[l] = << >>
      <3>1. 0 \in 0 .. MaxWrites /\ << >> \in Seq(0 .. MaxWrites)
        BY BoundsAssumption
      <3> QED
        BY <1>2, <3>1 DEF Unmount, Unmounted
    <2>3. /\ conn' \in [state : {"none", "down", "live"}, at : Instance, ever : BOOLEAN]
          /\ sent' \in BOOLEAN /\ (sent' => conn'.state = "live")
          /\ conn'.state = "none" <=> ~Loaded'
          /\ ~Loaded' => mounted' \subseteq {Page}
      <3>1. CASE k = Page
        <4>1. conn' = NoConn /\ sent' = FALSE /\ mounted' = {} /\ view'[Page] = 0
          BY <1>2, <3>1, PageAssumption DEF Unmount, Unmounted, Leaving
        <4> QED
          BY <4>1, FreshConn DEF Loaded
      <3>2. CASE k # Page
        <4>1. conn' = conn /\ sent' = sent /\ mounted' \subseteq mounted /\ view'[Page] = view[Page]
          BY <1>2, <3>2, PageAssumption DEF Unmount, Unmounted, Leaving
        <4> QED
          BY <4>1 DEF Loaded
      <3> QED
        BY <3>1, <3>2
    <2> QED
      BY <1>2, <2>1, <2>2, <2>3 DEF Unmount
  <1>3. CASE Refetch(k)
    <2>1. Append(fetches[k], 0) \in Seq(0 .. MaxWrites)
      BY <1>0, BoundsAssumption, AppendProperties
    <2>2. k \in mounted
      BY <1>3 DEF Refetch
    <2> QED
      BY <1>3, <2>1, <2>2 DEF Refetch, Loaded
  <1>4. ASSUME NEW n \in DOMAIN fetches[k], Answer(k, n) PROVE TypeOK'
    <2>1. fetches' = [fetches EXCEPT ![k] = [fetches[k] EXCEPT ![n] = rev]]
      BY <1>4 DEF Answer
    <2>2. k \in mounted /\ [fetches[k] EXCEPT ![n] = rev] \in Seq(0 .. MaxWrites)
      BY <1>4, FetchType
    <2> QED
      BY <1>4, <2>1, <2>2 DEF Answer, Loaded
  <1>5. ASSUME NEW n \in DOMAIN fetches[k], Show(k, n) PROVE TypeOK'
    <2>1. /\ k \in mounted /\ RemoveAt(fetches[k], n) \in Seq(0 .. MaxWrites)
          /\ fetches[k][n] \in 0 .. MaxWrites
      BY <1>5, FetchType
    <2>2. /\ view' \in [Consumer -> 0 .. MaxWrites] /\ fetches' \in [Consumer -> Seq(0 .. MaxWrites)]
          /\ mounted' = mounted /\ sent' = sent
          /\ \A l \in Consumer \ mounted' : view'[l] = 0 /\ fetches'[l] = << >>
      BY <1>5, <2>1 DEF Show
    <2>3. /\ conn' \in [state : {"none", "down", "live"}, at : Instance, ever : BOOLEAN]
          /\ due' \in [Consumer -> BOOLEAN]
          /\ \A l \in Consumer \ mounted' : ~due'[l]
          /\ sent' => conn'.state = "live"
          /\ conn'.state = "none" <=> ~Loaded'
          /\ ~Loaded' => mounted' \subseteq {Page}
      <3>1. CASE k = Page /\ ~Loaded
        <4>1. /\ conn' = [NoConn EXCEPT !.state = "down"] /\ due' = [due EXCEPT ![Page] = FALSE]
              /\ ~sent /\ view'[Page] # 0
          BY <1>5, <3>1 DEF Show
        <4> QED
          BY <4>1, <2>2, FreshConn, PageAssumption DEF Loaded
      <3>2. CASE ~(k = Page /\ ~Loaded)
        <4>1. conn' = conn /\ due' = due
          BY <1>5, <3>2 DEF Show
        <4>2. Loaded' <=> Loaded
          BY <1>5, <3>2, PageAssumption DEF Show, Loaded
        <4> QED
          BY <4>1, <4>2, <2>2
      <3> QED
        BY <3>1, <3>2
    <2> QED
      BY <1>5, <2>2, <2>3 DEF Show
  <1>6. ASSUME NEW n \in DOMAIN fetches[k], FetchFails(k, n) PROVE TypeOK'
    <2>1. k \in mounted /\ RemoveAt(fetches[k], n) \in Seq(0 .. MaxWrites)
      BY <1>6, FetchType
    <2> QED
      BY <1>6, <2>1 DEF FetchFails, Loaded
  <1> QED
    BY <1>1, <1>2, <1>3, <1>4, <1>5, <1>6 DEF ConsumerStep

LEMMA TypeStep == TypeOK /\ [Next]_vars => TypeOK'
  <1> SUFFICES ASSUME TypeOK, [Next]_vars PROVE TypeOK'
    OBVIOUS
  <1> USE DEF TypeOK, serverVars, pageVars, NotifySubscribers, Loaded
  <1>1. ASSUME NEW i \in Instance, Connect(i) PROVE TypeOK'
    <2>1. /\ conn' \in [state : {"none", "down", "live"}, at : Instance, ever : BOOLEAN]
          /\ conn'.state = "live" /\ conn.state = "down" /\ since' \in 0 .. rev
      BY <1>1 DEF Connect, Attach
    <2>2. due' \in [Consumer -> BOOLEAN] /\ \A k \in Consumer \ mounted : ~due'[k]
      BY <1>1 DEF Connect
    <2> QED
      BY <1>1, <2>1, <2>2 DEF Connect
  <1>2. CASE StreamDrops
    <2>1. drops' \in 0 .. MaxDrops
      BY <1>2, BoundsAssumption DEF StreamDrops
    <2>2. conn' \in [state : {"none", "down", "live"}, at : Instance, ever : BOOLEAN]
          /\ conn'.state = "down" /\ conn.state = "live"
      BY <1>2, ConnFields DEF StreamDrops
    <2> QED
      BY <1>2, <2>1, <2>2 DEF StreamDrops
  <1>3. CASE Deliver
    BY <1>3 DEF Deliver
  <1>4. CASE HearsAll
    BY <1>4, PageAssumption DEF HearsAll
  <1>5. CASE UNCHANGED vars
    BY <1>5 DEF vars
  <1> QED
    BY <1>1, <1>2, <1>3, <1>4, <1>5, ServerType, ConsumerType DEF Next

(* The variables keep to their kinds, and the document's stream is open     *)
(* exactly while a loaded page uses it.                                     *)
THEOREM TypeCorrect == Spec => []TypeOK
  BY InitType, TypeStep, PTL DEF Spec

-----------------------------------------------------------------------------
(* Every event is dispatched once at most *)

(* What has not happened to an event yet, by how far it has come: nobody    *)
(* has heard of one that is not committed, or committed and not emitted;    *)
(* only its origin has heard of one whose NOTIFY is on the wire; and an     *)
(* instance that a foreign event is on its way to has not heard of it.      *)
NotYetHeard(i, e) == heard[i][e] = 0 /\ \A j \in Instance : <<j, e>> \notin inbox[i]

Uncommitted ==
    \A e \in Event : e > rev =>
        /\ logged[e] = 0
        /\ \A i \in Instance : e \notin emitting[i] /\ e \notin wire[i] /\ NotYetHeard(i, e)

Unemitted ==
    \A i \in Instance : \A e \in emitting[i] :
        /\ logged[e] = 0
        /\ \A j \in Instance :
            /\ e \notin wire[j] /\ NotYetHeard(j, e)
            /\ j # i => e \notin emitting[j]

OnTheWire ==
    \A i \in Instance : \A e \in wire[i] : \A j \in Instance :
        /\ \A l \in Instance : <<l, e>> \notin inbox[j]
        /\ j # i => heard[j][e] = 0 /\ e \notin wire[j]

OnTheWay ==
    \A i, j \in Instance, e \in Event : <<j, e>> \in inbox[i] =>
        /\ j # i => heard[i][e] = 0
        /\ \A l \in Instance : <<l, e>> \in inbox[i] => l = j

OnceInv == Uncommitted /\ Unemitted /\ OnTheWire /\ OnTheWay /\ DispatchedOnce /\ LoggedOnce

LEMMA InitOnce == Init => OnceInv
  BY BoundsAssumption
     DEF Init, OnceInv, Uncommitted, Unemitted, OnTheWire, OnTheWay, DispatchedOnce,
         LoggedOnce, NotYetHeard

(* What dispatching does to the counts. *)
LEMMA DispatchCounts ==
    ASSUME TypeOK, NEW i \in Instance, NEW e \in Event, Dispatch(i, e)
    PROVE  /\ heard'[i][e] = heard[i][e] + 1
           /\ \A j \in Instance, f \in Event :
                j # i \/ f # e => heard'[j][f] = heard[j][f]
  BY DEF TypeOK, Dispatch

(* The parts speak only of these variables. *)
LEMMA OnceUnchanged ==
    ASSUME OnceInv, UNCHANGED <<rev, emitting, wire, inbox, heard, logged>>
    PROVE  OnceInv'
  BY DEF OnceInv, Uncommitted, Unemitted, OnTheWire, OnTheWay, DispatchedOnce,
         LoggedOnce, NotYetHeard

(* Losing what is under way breaks nothing. *)
LEMMA OnceLost ==
    ASSUME OnceInv, TypeOK, TypeOK', UNCHANGED <<rev, heard, logged>>,
           \A i \in Instance : /\ emitting'[i] \subseteq emitting[i]
                               /\ wire'[i] \subseteq wire[i]
                               /\ inbox'[i] \subseteq inbox[i]
    PROVE  OnceInv'
  <1> USE DEF TypeOK, NotYetHeard
  <1>1. Uncommitted'
    BY DEF OnceInv, Uncommitted
  <1>2. Unemitted'
    BY DEF OnceInv, Unemitted
  <1>3. OnTheWire'
    BY DEF OnceInv, OnTheWire
  <1>4. OnTheWay'
    BY DEF OnceInv, OnTheWay
  <1> QED
    BY <1>1, <1>2, <1>3, <1>4 DEF OnceInv, DispatchedOnce, LoggedOnce

LEMMA OnceCommit ==
    ASSUME OnceInv, TypeOK, NEW i \in Instance, Commit(i)
    PROVE  OnceInv'
  <1> USE DEF TypeOK, NotYetHeard, serverVars, pageVars
  <1>0. /\ rev + 1 \in Event /\ rev' = rev + 1
        /\ \A j \in Instance, e \in Event :
             e \in emitting'[j] <=> e \in emitting[j] \/ (j = i /\ e = rev + 1)
        /\ UNCHANGED <<wire, inbox, heard, logged>>
    BY BoundsAssumption DEF Commit, Event
  <1>1. Uncommitted'
    BY <1>0 DEF OnceInv, Uncommitted, Event
  <1>2. Unemitted'
    <2>1. \A e \in Event : \A j \in Instance : e \in emitting[j] => e # rev + 1
      BY <1>0 DEF OnceInv, Uncommitted, Event
    <2> SUFFICES ASSUME NEW j \in Instance, NEW e \in emitting'[j]
                 PROVE  /\ logged[e] = 0
                        /\ \A l \in Instance :
                            /\ e \notin wire[l] /\ NotYetHeard(l, e)
                            /\ l # j => e \notin emitting'[l]
      BY <1>0 DEF Unemitted
    <2>2. e \in Event
      BY <1>0 DEF Commit
    <2>3. CASE e = rev + 1
      BY <1>0, <2>1, <2>2, <2>3 DEF OnceInv, Uncommitted, Event
    <2>4. CASE e # rev + 1
      BY <1>0, <2>2, <2>4 DEF OnceInv, Unemitted
    <2> QED
      BY <2>3, <2>4
  <1>3. OnTheWire' /\ OnTheWay' /\ DispatchedOnce' /\ LoggedOnce'
    BY <1>0 DEF OnceInv, OnTheWire, OnTheWay, DispatchedOnce, LoggedOnce
  <1> QED
    BY <1>1, <1>2, <1>3 DEF OnceInv

LEMMA OnceEmit ==
    ASSUME OnceInv, TypeOK, NEW i \in Instance, NEW e \in Event, Emit(i, e)
    PROVE  OnceInv'
  <1> USE DEF NotYetHeard
  <1>1. /\ e \in emitting[i] /\ rev' = rev /\ inbox' = inbox
        /\ \A j \in Instance, f \in Event :
             /\ f \in emitting'[j] <=> f \in emitting[j] /\ (j # i \/ f # e)
             /\ f \in wire'[j] <=> f \in wire[j] \/ (j = i /\ f = e)
    BY DEF Emit, TypeOK
  <1>2. /\ emitting' \in [Instance -> SUBSET Event]
        /\ wire' \in [Instance -> SUBSET Event]
    BY DEF Emit, TypeOK
  <1>3. /\ rev >= e /\ logged[e] = 0
        /\ \A j \in Instance :
             /\ e \notin wire[j] /\ NotYetHeard(j, e)
             /\ j # i => e \notin emitting[j]
    BY <1>1 DEF OnceInv, Uncommitted, Unemitted, Event, TypeOK
  <1>4. /\ heard'[i][e] = 1
        /\ \A j \in Instance, f \in Event : j # i \/ f # e => heard'[j][f] = heard[j][f]
    <2>1. heard'[i][e] = heard[i][e] + 1
      BY DispatchCounts DEF Emit
    <2>2. \A j \in Instance, f \in Event : j # i \/ f # e => heard'[j][f] = heard[j][f]
      BY DispatchCounts DEF Emit
    <2> QED
      BY <1>3, <2>1, <2>2
  <1>5. logged'[e] = 1 /\ \A f \in Event : f # e => logged'[f] = logged[f]
    BY <1>3 DEF Emit, TypeOK
  <1>6. Uncommitted'
    <2> SUFFICES ASSUME NEW f \in Event, f > rev
                 PROVE  /\ logged'[f] = 0
                        /\ \A j \in Instance : /\ f \notin emitting'[j] /\ f \notin wire'[j]
                                              /\ NotYetHeard(j, f)'
      BY <1>1 DEF Uncommitted
    <2>1. f # e
      BY <1>3 DEF Event, TypeOK
    <2> QED
      BY <2>1, <1>1, <1>4, <1>5 DEF OnceInv, Uncommitted
  <1>7. Unemitted'
    <2> SUFFICES ASSUME NEW j \in Instance, NEW f \in emitting'[j]
                 PROVE  /\ logged'[f] = 0
                        /\ \A l \in Instance :
                            /\ f \notin wire'[l] /\ heard'[l][f] = 0
                            /\ \A o \in Instance : <<o, f>> \notin inbox'[l]
                            /\ l # j => f \notin emitting'[l]
      BY Zenon DEF Unemitted
    <2>1. f \in Event /\ f # e /\ f \in emitting[j]
      BY <1>1, <1>2, <1>3
    <2> QED
      BY <2>1, <1>1, <1>4, <1>5 DEF OnceInv, Unemitted
  <1>8. OnTheWire'
    <2> SUFFICES ASSUME NEW j \in Instance, NEW f \in wire'[j], NEW l \in Instance
                 PROVE  /\ \A o \in Instance : <<o, f>> \notin inbox'[l]
                        /\ l # j => heard'[l][f] = 0 /\ f \notin wire'[l]
      BY DEF OnTheWire
    <2>1. f \in Event
      BY <1>2
    <2>2. CASE f = e
      BY <2>1, <2>2, <1>1, <1>3, <1>4
    <2>3. CASE f # e
      BY <2>1, <2>3, <1>1, <1>4 DEF OnceInv, OnTheWire
    <2> QED
      BY <2>2, <2>3
  <1>9. OnTheWay'
    BY <1>1, <1>3, <1>4 DEF OnceInv, OnTheWay
  <1>10. DispatchedOnce' /\ LoggedOnce'
    BY <1>4, <1>5 DEF OnceInv, DispatchedOnce, LoggedOnce
  <1> QED
    BY <1>6, <1>7, <1>8, <1>9, <1>10 DEF OnceInv

LEMMA OnceNotify ==
    ASSUME OnceInv, TypeOK, NEW i \in Instance, NEW e \in Event, Notify(i, e)
    PROVE  OnceInv'
  <1> USE DEF TypeOK, NotYetHeard, serverVars, pageVars
  <1>0. /\ e \in wire[i] /\ UNCHANGED <<rev, emitting, heard, logged>>
        /\ \A j \in Instance, f \in Event :
             f \in wire'[j] <=> f \in wire[j] /\ (j # i \/ f # e)
        /\ \A j, l \in Instance, f \in Event :
             <<l, f>> \in inbox'[j] => <<l, f>> \in inbox[j] \/ (l = i /\ f = e)
    BY DEF Notify
  <1>1. /\ rev >= e
        /\ \A j \in Instance :
             /\ e \notin emitting[j] /\ \A l \in Instance : <<l, e>> \notin inbox[j]
             /\ j # i => heard[j][e] = 0 /\ e \notin wire[j]
    BY <1>0 DEF OnceInv, Uncommitted, Unemitted, OnTheWire, Event
  <1>t. wire' \in [Instance -> SUBSET Event]
    BY DEF Notify
  <1>2. Uncommitted'
    BY <1>0, <1>1 DEF OnceInv, Uncommitted, Event
  <1>3. Unemitted'
    BY <1>0, <1>1 DEF OnceInv, Unemitted
  <1>4. OnTheWire'
    BY <1>0, <1>1, <1>t DEF OnceInv, OnTheWire
  <1>5. OnTheWay'
    BY <1>0, <1>1 DEF OnceInv, OnTheWay
  <1> QED
    BY <1>0, <1>2, <1>3, <1>4, <1>5 DEF OnceInv, DispatchedOnce, LoggedOnce

LEMMA OnceOnNotify ==
    ASSUME OnceInv, TypeOK, TypeOK', NEW i \in Instance, NEW m \in inbox[i], OnNotify(i, m)
    PROVE  OnceInv'
  <1> USE DEF NotYetHeard
  <1>1. CASE m[1] = i
    BY <1>1, OnceLost DEF OnNotify, TypeOK
  <1>2. CASE m[1] # i
    <2> DEFINE j == m[1]
               e == m[2]
    <2>1. j \in Instance /\ e \in Event /\ m = <<j, e>> /\ j # i
      BY <1>2 DEF TypeOK
    <2>2. UNCHANGED <<rev, emitting, wire, logged>> /\ Dispatch(i, e)
      BY <1>2 DEF OnNotify
    <2>3. /\ <<j, e>> \in inbox[i] /\ <<j, e>> \notin inbox'[i]
          /\ \A l \in Instance : inbox'[l] \subseteq inbox[l]
      BY <2>1 DEF OnNotify, TypeOK
    <2> HIDE DEF j, e
    <2>4. heard[i][e] = 0 /\ \A l \in Instance : <<l, e>> \notin inbox'[i]
      BY <2>1, <2>3 DEF OnceInv, OnTheWay
    <2>5. /\ heard'[i][e] = 1
          /\ \A l \in Instance, f \in Event : l # i \/ f # e => heard'[l][f] = heard[l][f]
      BY <2>1, <2>2, <2>4, DispatchCounts
    <2>6. /\ rev >= e
          /\ \A l \in Instance : e \notin emitting[l] /\ e \notin wire[l]
      <3>1. <<j, e>> \in inbox[i] /\ i \in Instance /\ j \in Instance /\ e \in Event
        BY <2>1, <2>3
      <3>2. ~NotYetHeard(i, e)
        BY <3>1 DEF NotYetHeard
      <3>3. ~(e > rev)
        BY <3>1, <3>2 DEF OnceInv, Uncommitted
      <3>4. rev \in Nat /\ e \in Nat
        BY <3>1 DEF TypeOK, Event
      <3>5. rev >= e
        BY <3>3, <3>4
      <3>6. \A l \in Instance : e \notin emitting[l]
        BY <3>1, <3>2 DEF OnceInv, Unemitted
      <3>7. \A l \in Instance : e \notin wire[l]
        BY <3>1 DEF OnceInv, OnTheWire
      <3> QED
        BY <3>5, <3>6, <3>7
    <2>7. Uncommitted'
      <3> SUFFICES ASSUME NEW f \in Event, f > rev
                   PROVE  /\ logged'[f] = 0
                          /\ \A l \in Instance : /\ f \notin emitting'[l] /\ f \notin wire'[l]
                                                /\ NotYetHeard(l, f)'
        BY <2>2 DEF Uncommitted
      <3>1. f # e
        BY <2>1, <2>6 DEF Event, TypeOK
      <3> QED
        BY <3>1, <2>2, <2>3, <2>5 DEF OnceInv, Uncommitted
    <2>8. Unemitted'
      <3> SUFFICES ASSUME NEW o \in Instance, NEW f \in emitting[o]
                   PROVE  /\ logged[f] = 0
                          /\ \A l \in Instance :
                              /\ f \notin wire[l] /\ heard'[l][f] = 0
                              /\ \A q \in Instance : <<q, f>> \notin inbox'[l]
                              /\ l # o => f \notin emitting[l]
        BY <2>2, Zenon DEF Unemitted
      <3>1. f \in Event /\ f # e
        BY <2>6 DEF TypeOK
      <3> QED
        BY <3>1, <2>3, <2>5 DEF OnceInv, Unemitted
    <2>9. OnTheWire'
      <3> SUFFICES ASSUME NEW o \in Instance, NEW f \in wire[o], NEW l \in Instance
                   PROVE  /\ \A q \in Instance : <<q, f>> \notin inbox'[l]
                          /\ l # o => heard'[l][f] = 0 /\ f \notin wire[l]
        BY <2>2 DEF OnTheWire
      <3>1. f \in Event /\ f # e
        BY <2>6 DEF TypeOK
      <3> QED
        BY <3>1, <2>3, <2>5 DEF OnceInv, OnTheWire
    <2>10. OnTheWay'
      <3> SUFFICES ASSUME NEW l, NEW o, NEW f, l \in Instance, o \in Instance, f \in Event,
                          <<o, f>> \in inbox'[l]
                   PROVE  /\ o # l => heard'[l][f] = 0
                          /\ \A q \in Instance : <<q, f>> \in inbox'[l] => q = o
        BY DEF OnTheWay
      <3>1. <<o, f>> \in inbox[l] /\ (l # i \/ f # e)
        BY <2>3, <2>4
      <3> QED
        BY <3>1, <2>3, <2>5 DEF OnceInv, OnTheWay
    <2>11. DispatchedOnce' /\ LoggedOnce'
      BY <2>1, <2>2, <2>5 DEF OnceInv, DispatchedOnce, LoggedOnce
    <2> QED
      BY <2>7, <2>8, <2>9, <2>10, <2>11 DEF OnceInv
  <1> QED
    BY <1>1, <1>2

LEMMA OnceStep == TypeOK /\ TypeOK' /\ OnceInv /\ [Next]_vars => OnceInv'
  <1> SUFFICES ASSUME TypeOK, TypeOK', OnceInv, [Next]_vars PROVE OnceInv'
    OBVIOUS
  <1> USE DEF serverVars, pageVars
  <1>1. ASSUME NEW i \in Instance, ServerStep(i) PROVE OnceInv'
    <2>1. CASE Commit(i)
      BY <2>1, OnceCommit
    <2>2. CASE ListenFirst(i) \/ ListenRejected(i) \/ ListenRecovers(i)
      BY <2>2, OnceUnchanged DEF ListenFirst, ListenRejected, ListenRecovers
    <2>3. CASE ListenDrops(i)
      BY <2>3, OnceLost DEF ListenDrops, TypeOK
    <2>4. CASE Crash(i)
      BY <2>4, OnceLost DEF Crash, TypeOK
    <2>5. ASSUME NEW e \in Event, Emit(i, e) \/ Notify(i, e) PROVE OnceInv'
      BY <2>5, OnceEmit, OnceNotify
    <2>6. ASSUME NEW e \in Event, NotifyFails(i, e) PROVE OnceInv'
      BY <2>6, OnceLost DEF NotifyFails, TypeOK
    <2>7. ASSUME NEW m \in inbox[i], OnNotify(i, m) PROVE OnceInv'
      BY <2>7, OnceOnNotify
    <2> QED
      BY <1>1, <2>1, <2>2, <2>3, <2>4, <2>5, <2>6, <2>7 DEF ServerStep
  <1>2. ASSUME NEW k \in Consumer, ConsumerStep(k) PROVE OnceInv'
    BY <1>2, OnceUnchanged
       DEF ConsumerStep, Mount, Unmount, Refetch, Answer, Show, FetchFails
  <1>3. CASE StreamDrops \/ Deliver \/ HearsAll \/ (\E i \in Instance : Connect(i)) \/ UNCHANGED vars
    BY <1>3, OnceUnchanged DEF StreamDrops, Deliver, HearsAll, Connect, vars
  <1> QED
    BY <1>1, <1>2, <1>3 DEF Next

(* No instance dispatches an event twice, whatever crashes, is lost or is   *)
(* reconnected: the relay recognises its own events and never sends on what *)
(* it received.                                                             *)
THEOREM EventsDispatchedOnce == Spec => []DispatchedOnce
  <1>1. Init => TypeOK /\ OnceInv
    BY InitType, InitOnce
  <1>2. TypeOK /\ OnceInv /\ [Next]_vars => (TypeOK /\ OnceInv)'
    BY TypeStep, OnceStep
  <1>3. OnceInv => DispatchedOnce
    BY DEF OnceInv
  <1> QED
    BY <1>1, <1>2, <1>3, PTL DEF Spec

(* An event leaves at most one activity_log row, at its origin.             *)
THEOREM EventsLoggedOnce == Spec => []LoggedOnce
  <1>1. Init => TypeOK /\ OnceInv
    BY InitType, InitOnce
  <1>2. TypeOK /\ OnceInv /\ [Next]_vars => (TypeOK /\ OnceInv)'
    BY TypeStep, OnceStep
  <1>3. OnceInv => LoggedOnce
    BY DEF OnceInv
  <1> QED
    BY <1>1, <1>2, <1>3, PTL DEF Spec

(* However an event travels, and whatever fails on the way, each instance   *)
(* shows it to its streams once and the activity log holds it once.         *)
THEOREM EventsHandledOnce == Spec => []HandledOnce
  BY EventsDispatchedOnce, EventsLoggedOnce, PTL DEF HandledOnce

(* An instance whose LISTEN is up reports itself listening, also when it    *)
(* came up only after its first listen() was rejected.                      *)
THEOREM HealthIsTruthful == Spec => []HealthTruthful
  <1>1. Init => TypeOK /\ HealthTruthful
    BY InitType DEF Init, HealthTruthful
  <1>2. TypeOK /\ HealthTruthful /\ [Next]_vars => HealthTruthful'
    <2> SUFFICES ASSUME TypeOK, HealthTruthful, [Next]_vars PROVE HealthTruthful'
      OBVIOUS
    <2> USE DEF HealthTruthful, TypeOK, serverVars
    <2>1. ASSUME NEW i \in Instance, ServerStep(i) PROVE HealthTruthful'
      BY <2>1 DEF ServerStep, Commit, Emit, Notify, NotifyFails, OnNotify, ListenFirst,
                  ListenRejected, ListenDrops, ListenRecovers, IsReconnect, Crash
    <2>2. ASSUME NEW k \in Consumer, ConsumerStep(k) PROVE HealthTruthful'
      BY <2>2 DEF ConsumerStep, Mount, Unmount, Refetch, Answer, Show, FetchFails
    <2>3. CASE StreamDrops \/ Deliver \/ HearsAll \/ (\E i \in Instance : Connect(i)) \/ UNCHANGED vars
      BY <2>3 DEF StreamDrops, Deliver, HearsAll, Connect, vars
    <2> QED
      BY <2>1, <2>2, <2>3 DEF Next
  <1> QED
    BY <1>1, <1>2, TypeStep, PTL DEF Spec

-----------------------------------------------------------------------------
(* Nothing is forgotten when only connections drop *)

(* A stream that is live has connected, one that is not open has not.       *)
StreamKnown == /\ conn.state = "live" => conn.ever
               /\ conn.state = "none" => ~conn.ever

FeedInv == StreamKnown /\ NothingForgotten

LEMMA InitFeed == Init => FeedInv
  BY FreshConn DEF Init, FeedInv, StreamKnown, NothingForgotten, Attends

(* With a stream that has connected before, a dropped stream or LISTEN is   *)
(* itself the cause to refetch.                                             *)
LEMMA DownRefetches ==
    conn.state = "down" /\ conn.ever => WillRefetch
  BY DEF WillRefetch

(* An event stays on its way unless a step takes it from where it is.       *)
LEMMA StaysOnItsWay ==
    ASSUME NEW a \in Instance, rev' = rev, OnItsWay(rev, a), listen'[a] = "up",
           \A j \in Instance :
                /\ rev \in emitting[j] => rev \in emitting'[j]
                /\ rev \in wire[j] => rev \in wire'[j]
                /\ j # a /\ <<j, rev>> \in inbox[a] => <<j, rev>> \in inbox'[a]
    PROVE  OnItsWay(rev, a)'
  BY DEF OnItsWay

(* While its instance listens, the latest event reaches the stream or stays *)
(* on its way.                                                              *)
LEMMA EventTravels ==
    ASSUME Faults = {}, TypeOK, NEW i \in Instance, ServerStep(i), ~Commit(i), ~Crash(i),
           NEW a \in Instance, conn.state = "live", conn.at = a,
           listen[a] = "up", listen'[a] = "up", rev' = rev, OnItsWay(rev, a)
    PROVE  sent' \/ OnItsWay(rev, a)'
  <1> USE DEF serverVars, pageVars
  <1>0. /\ conn.state = "live" /\ conn.at = a /\ listen[a] = "up" /\ listen'[a] = "up"
        /\ rev' = rev /\ OnItsWay(rev, a) /\ ~Commit(i) /\ ~Crash(i)
    OBVIOUS
  <1>4. CASE ListenFirst(i) \/ ListenRejected(i) \/ ListenRecovers(i)
    BY <1>0, <1>4
       DEF OnItsWay, ListenFirst, ListenRejected, ListenRecovers
  <1>5. CASE ListenDrops(i)
    <2>1. i # a
      BY <1>0, <1>5 DEF ListenDrops, TypeOK
    <2> QED
      <3>1. /\ inbox'[a] = inbox[a] /\ UNCHANGED <<emitting, wire>>
        BY <1>0, <1>5, <2>1 DEF ListenDrops, TypeOK
      <3> QED
        BY <1>0, <3>1, StaysOnItsWay
  <1>6. ASSUME NEW e \in Event, Emit(i, e) PROVE sent' \/ OnItsWay(rev, a)'
    <2>1. CASE e = rev /\ i = a
      BY <1>0, <1>6, <2>1 DEF Emit, Dispatch, StreamHears
    <2>2. CASE e = rev /\ i # a
      <3>1. e \in wire'[i]
        BY <1>6 DEF Emit, TypeOK
      <3> QED
        BY <1>0, <2>2, <3>1 DEF OnItsWay
    <2>3. CASE e # rev
      <3>1. \A j \in Instance :
              /\ rev \in emitting[j] => rev \in emitting'[j]
              /\ rev \in wire[j] => rev \in wire'[j]
              /\ j # a /\ <<j, rev>> \in inbox[a] => <<j, rev>> \in inbox'[a]
        BY <1>6, <2>3 DEF Emit, TypeOK
      <3>2. rev' = rev /\ listen'[a] = "up" /\ OnItsWay(rev, a)
        BY <1>0
      <3> QED
        BY <1>0, <3>1, <3>2, StaysOnItsWay
    <2> QED
      BY <2>1, <2>2, <2>3
  <1>7. ASSUME NEW e \in Event, Notify(i, e) PROVE sent' \/ OnItsWay(rev, a)'
    <2>1. CASE e = rev /\ i # a
      <3>1. <<i, e>> \in inbox'[a]
        BY <1>0, <1>7 DEF Notify, TypeOK
      <3> QED
        BY <1>0, <2>1, <3>1 DEF OnItsWay
    <2>2. CASE e # rev \/ i = a
      BY <1>0, <1>7, <2>2 DEF OnItsWay, Notify, TypeOK
    <2> QED
      BY <2>1, <2>2
  <1>8. ASSUME NEW m \in inbox[i], OnNotify(i, m) PROVE sent' \/ OnItsWay(rev, a)'
    <2>1. CASE i = a /\ m[1] # i
      BY <1>0, <1>8, <2>1 DEF OnNotify, Dispatch, StreamHears
    <2>2. CASE i # a \/ m[1] = i
      <3>1. /\ UNCHANGED <<emitting, wire>>
            /\ \A j \in Instance : j # a /\ <<j, rev>> \in inbox[a] => <<j, rev>> \in inbox'[a]
        BY <1>0, <1>8, <2>2 DEF OnNotify, TypeOK
      <3> QED
        BY <1>0, <3>1, StaysOnItsWay
    <2> QED
      BY <2>1, <2>2
  <1> QED
    BY <1>0, <1>4, <1>5, <1>6, <1>7, <1>8 DEF ServerStep, NotifyFails

(* The steps of the servers. *)
LEMMA FeedServer ==
    ASSUME Faults = {}, TypeOK, TypeOK', FeedInv, NEW i \in Instance, ServerStep(i)
    PROVE  FeedInv'
  <1> USE DEF serverVars, pageVars
  <1>p. /\ StreamKnown /\ NothingForgotten
        /\ conn \in [state : {"none", "down", "live"}, at : Instance, ever : BOOLEAN]
        /\ listen \in [Instance -> {"booting", "rejected", "up", "down"}]
        /\ rev \in Nat /\ since \in 0 .. rev
    BY DEF FeedInv, TypeOK
  <1>0. ~Crash(i) /\ UNCHANGED <<conn, mounted, view, due, fetches>>
    BY DEF ServerStep, Crash, Commit, Emit, Notify, NotifyFails, OnNotify, ListenFirst,
           ListenRejected, ListenDrops, ListenRecovers
  <1>1. StreamKnown'
    BY <1>0, <1>p DEF StreamKnown
  <1>2. \A k \in mounted : WillShow(k)' = WillShow(k)
    BY <1>0 DEF WillShow
  <1>3. SUFFICES ASSUME Attends', rev' > since' PROVE NothingForgotten'
    BY <1>1 DEF FeedInv, NothingForgotten
  <1>4. SUFFICES ASSUME rev' # rev \/ ~(Attends /\ rev > since) \/ (WillRefetch /\ ~WillRefetch')
                 PROVE  WillRefetch'
    BY <1>0, <1>2, <1>3, <1>p DEF NothingForgotten, Heeded
  <1>5. CASE conn.state # "live"
    BY <1>0, <1>3, <1>5, <1>p DEF WillRefetch, Attends, StreamKnown
  <1>6. CASE conn.state = "live"
    <2>1. conn.at \in Instance /\ conn.ever
      BY <1>p, <1>6 DEF StreamKnown
    <2>2. SUFFICES ASSUME listen'[conn.at] \notin {"down", "rejected"}
                   PROVE  sent' \/ OnItsWay(rev, conn.at)'
      BY <1>0, <1>6 DEF WillRefetch
    <2>3. listen'[conn.at] = "up"
      BY <1>0, <1>3, <1>6, <2>1, <2>2 DEF Attends, TypeOK
    <2>4. CASE Commit(i)
      <3>1. /\ rev' \in emitting'[i] /\ UNCHANGED <<listen, wire, inbox>>
        BY <2>4 DEF Commit, TypeOK
      <3>2. CASE conn.at = i
        BY <1>0, <3>1, <3>2 DEF OnItsWay
      <3>3. CASE conn.at # i
        BY <1>0, <2>1, <2>3, <3>1, <3>3 DEF OnItsWay
      <3> QED
        BY <3>2, <3>3
    <2>5. CASE ~Commit(i)
      <3>0. rev' = rev /\ (sent => sent')
        BY <2>5
           DEF ServerStep, Crash, Emit, Notify, NotifyFails, OnNotify, ListenFirst, Dispatch,
               ListenRejected, ListenDrops, ListenRecovers, Nudge, StreamHears
      <3>6. CASE ListenFirst(i) /\ conn.at = i
        BY <1>3, <1>6, <3>0, <3>6, <1>p DEF ListenFirst
      <3>7. CASE ListenRecovers(i) /\ conn.at = i
        BY <1>6, <3>7 DEF ListenRecovers, IsReconnect, Nudge, StreamHears
      <3>8. CASE ~(ListenFirst(i) /\ conn.at = i) /\ ~(ListenRecovers(i) /\ conn.at = i)
        <4>1. listen[conn.at] = "up" /\ since' = since
         BY <1>0, <1>p, <2>1, <2>3, <2>5, <3>8
            DEF ServerStep, Emit, Notify, NotifyFails, OnNotify, ListenFirst,
                ListenRejected, ListenDrops, ListenRecovers
        <4>2. Attends /\ rev > since
         BY <1>3, <2>1, <3>0, <4>1 DEF Attends
        <4>3. WillRefetch
         BY <1>4, <3>0, <4>2
        <4>4. sent \/ OnItsWay(rev, conn.at)
         BY <1>6, <4>1, <4>3 DEF WillRefetch
        <4>5. PICK a \in Instance : a = conn.at
         BY <2>1
        <4>6. CASE sent
         BY <3>0, <4>6
        <4>7. CASE OnItsWay(rev, conn.at)
         <5>1. sent' \/ OnItsWay(rev, a)'
           BY <1>0, <1>6, <2>3, <2>5, <3>0, <4>1, <4>5, <4>7, EventTravels
         <5> QED
           BY <1>0, <4>5, <5>1
        <4> QED
         BY <4>4, <4>6, <4>7
      <3> QED
        BY <3>6, <3>7, <3>8
    <2> QED
      BY <2>4, <2>5
  <1> QED
    BY <1>5, <1>6

(* The steps of the page. *)
LEMMA FeedConsumer ==
    ASSUME Faults = {}, TypeOK, FeedInv, NEW k \in Consumer, ConsumerStep(k)
    PROVE  FeedInv'
  <1> USE DEF serverVars
  <1>p. /\ StreamKnown /\ NothingForgotten
        /\ fetches \in [Consumer -> Seq(0 .. MaxWrites)] /\ mounted \subseteq Consumer
        /\ view \in [Consumer -> 0 .. MaxWrites] /\ due \in [Consumer -> BOOLEAN]
    BY DEF FeedInv, TypeOK
  <1>s. fetches[k] \in Seq(0 .. MaxWrites) /\ Len(fetches[k]) \in Nat
    BY <1>p, LenProperties
  <1>u. UNCHANGED <<rev, since, emitting, wire, inbox, listen>>
    BY DEF ConsumerStep, Mount, Unmount, Refetch, Answer, Show, FetchFails
  <1>1. CASE ~conn'.ever
    <2>1. StreamKnown'
      BY <1>1, <1>p, FreshConn
         DEF ConsumerStep, Mount, Unmount, Refetch, Answer, Show, FetchFails, StreamKnown
    <2> QED
      BY <1>1, <2>1 DEF FeedInv, NothingForgotten, Attends
  <1>2. CASE conn'.ever
    <2>1. conn' = conn /\ sent' = sent
      BY <1>2, FreshConn DEF ConsumerStep, Mount, Unmount, Refetch, Answer, Show, FetchFails
    <2>2. (WillRefetch' <=> WillRefetch) /\ (Attends' <=> Attends) /\ StreamKnown'
      BY <1>p, <1>u, <2>1 DEF WillRefetch, OnItsWay, Attends, StreamKnown
    <2>3. \A l \in mounted' : l # k =>
            l \in mounted /\ WillShow(l)' = WillShow(l) /\ due'[l] = due[l]
      <3>1. CASE Mount(k)
        BY <1>p, <3>1 DEF Mount, WillShow
      <3>2. CASE Unmount(k)
        <4>1. \A l \in mounted' : /\ l \in mounted /\ view'[l] = view[l]
                                 /\ fetches'[l] = fetches[l] /\ due'[l] = due[l]
          BY <1>p, <3>2 DEF Unmount, Unmounted
        <4> QED
          BY <4>1 DEF WillShow
      <3>3. ASSUME NEW n \in DOMAIN fetches[k], Show(k, n), NEW l \in mounted', l # k
            PROVE  l \in mounted /\ WillShow(l)' = WillShow(l) /\ due'[l] = due[l]
        <4>1. conn' # [NoConn EXCEPT !.state = "down"]
          BY <1>2, FreshConn
        <4>2. due' = due /\ mounted' = mounted /\ view'[l] = view[l] /\ fetches'[l] = fetches[l]
          BY <1>p, <3>3, <4>1 DEF Show
        <4> QED
          BY <4>2 DEF WillShow
      <3>4. CASE Refetch(k) \/ \E n \in DOMAIN fetches[k] : Answer(k, n)
        BY <1>p, <3>4 DEF Refetch, Answer, WillShow
      <3> QED
        BY <3>1, <3>2, <3>3, <3>4 DEF ConsumerStep, FetchFails
    <2>4. SUFFICES ASSUME k \in mounted', Attends, rev > since PROVE Heeded(k)'
      BY <1>p, <1>u, <2>2, <2>3 DEF FeedInv, NothingForgotten, Heeded
    <2>5. CASE Mount(k)
      <3>1. fetches'[k] = << 0 >>
        BY <1>p, <2>5 DEF Mount
      <3>2. WillShow(k)' = 0
        BY <3>1 DEF WillShow, Last
      <3> QED
        BY <3>2 DEF Heeded
    <2>6. CASE Unmount(k)
      BY <2>4, <2>6 DEF Unmount, Unmounted, Leaving
    <2>7. CASE ~Mount(k) /\ ~Unmount(k)
      <3>1. k \in mounted
        BY <2>4, <2>7 DEF ConsumerStep, Refetch, Answer, Show, FetchFails
      <3>2. WillShow(k) \in {0, rev} \/ due[k] \/ WillRefetch
        BY <1>p, <2>4, <3>1 DEF NothingForgotten, Heeded
      <3>3. SUFFICES WillShow(k)' \in {0, rev} \/ due'[k] \/ WillRefetch
        BY <1>u, <2>2 DEF Heeded
      <3>4. CASE Refetch(k)
        <4>1. /\ fetches'[k] = Append(fetches[k], 0)
              /\ 0 \in 0 .. MaxWrites
          BY <1>p, <3>4, BoundsAssumption DEF Refetch
        <4>2. /\ fetches'[k] # << >> /\ Len(fetches'[k]) = Len(fetches[k]) + 1
              /\ fetches'[k][Len(fetches[k]) + 1] = 0
          BY <1>s, <4>1, AppendProperties
        <4>3. WillShow(k)' = 0
          BY <4>2 DEF WillShow, Last
        <4> QED
          BY <4>3
      <3>5. ASSUME NEW n \in DOMAIN fetches[k], Answer(k, n)
            PROVE  WillShow(k)' \in {0, rev} \/ due'[k] \/ WillRefetch
        <4>1. /\ n = 1 /\ due' = due /\ view' = view
              /\ fetches'[k] = [fetches[k] EXCEPT ![1] = rev]
          BY <1>p, <3>5 DEF Answer, Turn
        <4>2. 1 \in 1 .. Len(fetches[k]) /\ rev \in 0 .. MaxWrites
          BY <1>s, <3>5, <4>1, LenProperties DEF TypeOK
        <4>3. /\ fetches'[k] \in Seq(0 .. MaxWrites) /\ Len(fetches'[k]) = Len(fetches[k])
              /\ \A m \in 1 .. Len(fetches[k]) :
                   fetches'[k][m] = IF m = 1 THEN rev ELSE fetches[k][m]
          BY <1>s, <4>1, <4>2, ExceptSeq
        <4>4. fetches[k] # << >> /\ fetches'[k] # << >>
          BY <1>s, <4>2, <4>3, EmptySeq
        <4>5. WillShow(k)' = IF Len(fetches[k]) = 1 THEN rev ELSE WillShow(k)
          <5>1. Len(fetches[k]) \in 1 .. Len(fetches[k])
            BY <1>s, <4>2
          <5>2. WillShow(k)' = fetches'[k][Len(fetches[k])]
            BY <4>3, <4>4 DEF WillShow, Last
          <5>3. WillShow(k) = fetches[k][Len(fetches[k])]
            BY <4>4 DEF WillShow, Last
          <5> QED
            BY <4>3, <5>1, <5>2, <5>3
        <4> QED
          BY <4>1, <4>5, <3>2
      <3>6. ASSUME NEW n \in DOMAIN fetches[k], Show(k, n)
            PROVE  WillShow(k)' \in {0, rev} \/ due'[k] \/ WillRefetch
        <4>0. conn' # [NoConn EXCEPT !.state = "down"]
          BY <1>2, FreshConn
        <4>1. /\ n = 1 /\ due' = due /\ view'[k] = fetches[k][1] /\ fetches[k][1] # 0
              /\ fetches'[k] = RemoveAt(fetches[k], 1)
          BY <1>p, <3>6, <4>0 DEF Show, Turn
        <4>2. 1 \in 1 .. Len(fetches[k])
          BY <1>s, <3>6, <4>1, LenProperties
        <4>3. /\ fetches'[k] \in Seq(0 .. MaxWrites) /\ Len(fetches'[k]) = Len(fetches[k]) - 1
              /\ \A m \in 1 .. Len(fetches[k]) - 1 : fetches'[k][m] = fetches[k][m + 1]
          <5>1. /\ RemoveAt(fetches[k], 1) \in Seq(0 .. MaxWrites)
                /\ Len(RemoveAt(fetches[k], 1)) = Len(fetches[k]) - 1
                /\ \A m \in 1 .. Len(fetches[k]) - 1 : RemoveAt(fetches[k], 1)[m] =
                      IF m < 1 THEN fetches[k][m] ELSE fetches[k][m + 1]
            BY <1>s, <4>2, RemoveAtType
          <5>2. \A m \in 1 .. Len(fetches[k]) - 1 : ~(m < 1)
            BY <1>s
          <5> QED
            BY <4>1, <5>1, <5>2
        <4>4. fetches[k] # << >>
          BY <1>s, <4>2, EmptySeq
        <4>5. WillShow(k)' = WillShow(k)
          <5>1. CASE Len(fetches[k]) = 1
            <6>1. fetches'[k] = << >>
              BY <4>3, <5>1, EmptySeq
            <6> QED
              BY <4>1, <4>4, <5>1, <6>1 DEF WillShow, Last
          <5>2. CASE Len(fetches[k]) # 1
            <6>1. fetches'[k] # << >> /\ Len(fetches[k]) - 1 \in 1 .. Len(fetches[k]) - 1
              <7>1. Len(fetches[k]) - 1 \in 1 .. Len(fetches[k]) - 1
                <8>1. ASSUME NEW x \in Nat, 1 \in 1 .. x, x # 1
                      PROVE  x - 1 \in 1 .. x - 1
                  BY <8>1
                <8> QED
                  BY <1>s, <4>2, <5>2, <8>1
              <7>2. Len(fetches'[k]) # 0
                BY <1>s, <4>3, <5>2
              <7> QED
                BY <7>1, <7>2, EmptySeq
            <6>2. Last(fetches'[k]) = Last(fetches[k])
              BY <1>s, <4>3, <6>1 DEF Last
            <6> QED
              BY <4>4, <6>1, <6>2 DEF WillShow
          <5> QED
            BY <5>1, <5>2
        <4> QED
          BY <4>1, <4>5, <3>2
      <3> QED
        BY <2>7, <3>4, <3>5, <3>6 DEF ConsumerStep, FetchFails
    <2> QED
      BY <2>5, <2>6, <2>7
  <1> QED
    BY <1>1, <1>2

LEMMA FeedStep ==
    Faults = {} /\ TypeOK /\ TypeOK' /\ FeedInv /\ [Next]_vars => FeedInv'
  <1> SUFFICES ASSUME Faults = {}, TypeOK, TypeOK', FeedInv, [Next]_vars PROVE FeedInv'
    OBVIOUS
  <1> USE DEF serverVars, pageVars
  <1>p. /\ StreamKnown /\ NothingForgotten /\ rev \in Nat
        /\ conn \in [state : {"none", "down", "live"}, at : Instance, ever : BOOLEAN]
        /\ mounted \subseteq Consumer /\ due \in [Consumer -> BOOLEAN]
    BY DEF FeedInv, TypeOK
  <1>1. ASSUME NEW i \in Instance, Connect(i) PROVE FeedInv'
    <2>1. /\ conn'.state = "live" /\ conn'.ever /\ conn.state = "down"
          /\ UNCHANGED <<rev, mounted>>
      BY <1>1 DEF Connect, Attach
    <2>2. StreamKnown'
      BY <2>1 DEF StreamKnown
    <2>3. CASE conn.ever
      <3>1. \A k \in mounted : due'[k]
        BY <1>1, <1>p, <2>3 DEF Connect, NotifySubscribers
      <3> QED
        BY <2>1, <2>2, <3>1 DEF FeedInv, NothingForgotten, Heeded
    <2>4. CASE ~conn.ever
      <3>1. since' = rev
        BY <1>1, <2>4 DEF Connect, Attach
      <3> QED
        BY <1>p, <2>1, <2>2, <3>1 DEF FeedInv, NothingForgotten
    <2> QED
      BY <2>3, <2>4
  <1>2. CASE StreamDrops
    <2>1. conn'.state = "down" /\ conn'.ever
      BY <1>2, <1>p, ConnFields DEF StreamDrops, StreamKnown
    <2> QED
      BY <2>1 DEF FeedInv, StreamKnown, NothingForgotten, Heeded, WillRefetch
  <1>3. CASE Deliver
    <2>1. /\ \A k \in mounted : due'[k]
          /\ UNCHANGED <<conn, mounted>>
      BY <1>3, <1>p DEF Deliver, NotifySubscribers
    <2> QED
      BY <1>p, <2>1 DEF FeedInv, StreamKnown, NothingForgotten, Heeded
  <1>4. CASE HearsAll
    <2>1. /\ \A k \in mounted : due[k] => due'[k]
          /\ UNCHANGED <<rev, emitting, wire, inbox, listen, conn, since, sent, mounted, view, fetches>>
      BY <1>4, <1>p DEF HearsAll
    <2> QED
      BY <1>p, <2>1
         DEF FeedInv, StreamKnown, NothingForgotten, Heeded, Attends, WillShow, WillRefetch, OnItsWay
  <1>5. CASE UNCHANGED vars
    BY <1>5, <1>p
       DEF vars, FeedInv, StreamKnown, NothingForgotten, Heeded, Attends, WillShow,
           WillRefetch, OnItsWay
  <1> QED
    BY <1>1, <1>2, <1>3, <1>4, <1>5, FeedServer, FeedConsumer DEF Next

(* Whatever connections drop, and although the page fetches before it       *)
(* listens, a component that has missed a mutation made since the stream    *)
(* was attached has something under way that will make it refetch.          *)
THEOREM FeedForgetsNothing ==
    ASSUME Faults = {}
    PROVE  Spec => []NothingForgotten
  <1>1. Init => TypeOK /\ FeedInv
    BY InitType, InitFeed
  <1>2. TypeOK /\ FeedInv /\ [Next]_vars => (TypeOK /\ FeedInv)'
    BY TypeStep, FeedStep
  <1>3. FeedInv => NothingForgotten
    BY DEF FeedInv
  <1> QED
    BY <1>1, <1>2, <1>3, PTL DEF Spec

-----------------------------------------------------------------------------
(* A feed at rest *)

(* A component that shows nothing yet has a fetch in flight. *)
Fetching == \A k \in mounted : view[k] # 0 \/ fetches[k] # << >>

LEMMA FetchingStep ==
    ASSUME TypeOK, TypeOK', Fetching, "fetch_fails" \notin Faults, [Next]_vars
    PROVE  Fetching'
  <1>0. /\ mounted \subseteq Consumer /\ view \in [Consumer -> 0 .. MaxWrites]
        /\ fetches \in [Consumer -> Seq(0 .. MaxWrites)]
    BY DEF TypeOK
  <1>1. ASSUME UNCHANGED <<mounted, view, fetches>> PROVE Fetching'
    BY <1>1 DEF Fetching
  <1>2. ASSUME NEW i \in Instance, ServerStep(i) \/ Connect(i) PROVE Fetching'
    BY <1>1, <1>2 DEF ServerStep, Commit, Emit, Notify, NotifyFails, OnNotify, ListenFirst,
                      ListenRejected, ListenDrops, ListenRecovers, Crash, Connect, pageVars
  <1>3. CASE StreamDrops \/ Deliver \/ HearsAll \/ UNCHANGED vars
    BY <1>1, <1>3 DEF StreamDrops, Deliver, HearsAll, vars, pageVars
  <1>4. ASSUME NEW k \in Consumer, ConsumerStep(k) PROVE Fetching'
    <2>1. CASE Mount(k)
      <3>1. /\ mounted' = mounted \cup {k} /\ fetches' = [fetches EXCEPT ![k] = <<0>>]
            /\ view' = view
        BY <2>1 DEF Mount
      <3>2. \A x \in mounted' : x # k => x \in mounted /\ view'[x] = view[x]
                                         /\ fetches'[x] = fetches[x]
        BY <1>0, <3>1
      <3>3. fetches'[k] = <<0>>
        BY <1>0, <3>1
      <3>4. <<0>> # << >>
        OBVIOUS
      <3> QED
        BY <3>2, <3>3, <3>4 DEF Fetching
    <2>2. CASE Unmount(k)
      BY <1>0, <2>2 DEF Unmount, Unmounted, Fetching
    <2>3. CASE Refetch(k)
      <3>1. fetches' = [fetches EXCEPT ![k] = Append(fetches[k], 0)] /\ UNCHANGED <<mounted, view>>
        BY <2>3 DEF Refetch
      <3>2. fetches[k] \in Seq(0 .. MaxWrites)
        BY <1>0
      <3>3. Append(fetches[k], 0) # << >>
        BY <3>2, AppendProperties, LenProperties
      <3>4. \A x \in Consumer : fetches'[x] = IF x = k THEN Append(fetches[k], 0) ELSE fetches[x]
        BY <1>0, <3>1
      <3> QED
        BY <1>0, <3>1, <3>3, <3>4 DEF Fetching
    <2>4. ASSUME NEW n \in DOMAIN fetches[k], Answer(k, n) PROVE Fetching'
      <3>1. fetches' = [fetches EXCEPT ![k][n] = rev] /\ UNCHANGED <<mounted, view>>
        BY <2>4 DEF Answer
      <3>2. \A x \in Consumer : x # k => fetches'[x] = fetches[x]
        BY <1>0, <3>1
      <3>3. DOMAIN fetches'[k] = DOMAIN fetches[k]
        BY <1>0, <3>1
      <3>4. n \in DOMAIN fetches'[k]
        BY <3>3
      <3>5. fetches'[k] # << >>
        BY <3>4
      <3> QED
        BY <1>0, <3>1, <3>2, <3>5 DEF Fetching
    <2>5. ASSUME NEW n \in DOMAIN fetches[k], Show(k, n) PROVE Fetching'
      <3>1. /\ view'[k] # 0 /\ UNCHANGED mounted
            /\ \A x \in Consumer : x # k => view'[x] = view[x] /\ fetches'[x] = fetches[x]
        BY <1>0, <2>5 DEF Show
      <3> QED
        BY <1>0, <3>1 DEF Fetching
    <2> QED
      BY <1>4, <2>1, <2>2, <2>3, <2>4, <2>5 DEF ConsumerStep, FetchFails
  <1> QED
    BY <1>2, <1>3, <1>4 DEF Next

(* Whatever carries changes has arrived: nothing to emit, to notify or to   *)
(* deliver, every LISTEN up, no stream reconnecting, no timer and no fetch. *)
NothingUnderWay ==
    /\ \A i \in Instance : /\ emitting[i] = {} /\ wire[i] = {} /\ inbox[i] = {}
                           /\ listen[i] = "up"
    /\ conn.state # "down" /\ ~sent
    /\ \A k \in Consumer : ~due[k] /\ fetches[k] = << >>

(* A feed at rest is current, over whatever connections dropped on the way: *)
(* no component is left without a mutation that was made since the stream   *)
(* was attached (Converges, but for the fairness that brings the feed to    *)
(* rest).                                                                   *)
THEOREM RestingFeedIsCurrent ==
    ASSUME Faults = {}
    PROVE  Spec => [](NothingUnderWay /\ rev > since => \A k \in mounted : view[k] = rev)
  <1>1. Init => Fetching
    BY DEF Init, Fetching
  <1>2. TypeOK /\ TypeOK' /\ Fetching /\ [Next]_vars => Fetching'
    BY FetchingStep
  <1>3. Init => TypeOK /\ FeedInv
    BY InitType, InitFeed
  <1>4. TypeOK /\ FeedInv /\ [Next]_vars => (TypeOK /\ FeedInv)'
    BY TypeStep, FeedStep
  <1>5. ASSUME TypeOK, Fetching, FeedInv, NothingUnderWay, rev > since, NEW k \in mounted
        PROVE  view[k] = rev
    <2>1. k \in Consumer /\ fetches[k] = << >> /\ ~due[k] /\ WillShow(k) = view[k] /\ view[k] # 0
      BY <1>5 DEF NothingUnderWay, WillShow, Fetching, TypeOK
    <2>2. conn.state = "live" /\ conn.at \in Instance
      <3>1. Loaded
        BY <1>5, <2>1 DEF TypeOK, Loaded
      <3> QED
        BY <1>5, <3>1 DEF TypeOK, NothingUnderWay
    <2>3. Attends
      BY <1>5, <2>2 DEF FeedInv, StreamKnown, Attends, NothingUnderWay
    <2>4. ~OnItsWay(rev, conn.at)
      BY <1>5, <2>2 DEF OnItsWay, NothingUnderWay
    <2>5. ~WillRefetch
      BY <1>5, <2>2, <2>4 DEF WillRefetch, NothingUnderWay
    <2> QED
      BY <1>5, <2>1, <2>3, <2>5 DEF FeedInv, NothingForgotten, Heeded
  <1>6. TypeOK /\ Fetching /\ FeedInv
            => (NothingUnderWay /\ rev > since => \A k \in mounted : view[k] = rev)
    BY <1>5
  <1> QED
    BY <1>1, <1>2, <1>3, <1>4, <1>6, PTL DEF Spec
=============================================================================
