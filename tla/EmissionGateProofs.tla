------------------------- MODULE EmissionGateProofs -------------------------
(* What TLAPS proves about EmissionGate, for every number of requests,     *)
(* credential, pool, budget and queue limit.                               *)
EXTENDS EmissionGate, FiniteSetTheorems, TLAPS

(***************************************************************************)
(* The inductive invariant.                                                *)
(***************************************************************************)

(* place is a queue: its members are the waiters, each at its own place.   *)
QueueOK ==
    /\ \A r \in Request : slot[r] = "queued" <=> place[r] > 0
    /\ \A r \in Request : place[r] <= waiting
    /\ \A q, r \in Queued : place[q] = place[r] => q = r

(* The caller and the slot of a request go together.                       *)
LifeOK ==
    \A r \in Request :
        /\ caller[r] = "idle" <=> slot[r] = "none"
        /\ slot[r] = "handed" => caller[r] = "running"
        /\ mode = "enforcing" =>
            /\ caller[r] = "waiting" <=> slot[r] \in {"queued", "granted"}
            /\ caller[r] = "running" <=> slot[r] = "handed"
        /\ mode = "shadow" => caller[r] \in {"idle", "running", "done"}

BoundsOK ==
    /\ \A k \in Key : gate.held[k] <= derivePerKeySlice
    /\ gate.inFlight <= deriveCeiling

(* What #take tests, the backstop left out.                                *)
Full(r) ==
    \/ gate.held[key[r]] >= derivePerKeySlice
    \/ gate.inFlight >= deriveCeiling
    \/ gate.events + weight[r] > EventBudget

(* A waiter the running scan has passed cannot be served.                  *)
PassedOver == \A r \in Queued \ scan : Full(r)

(* The shadow counters, and the types they need.                           *)
ShadowOK ==
    /\ caller \in [Request -> Caller]
    /\ real \in Counters /\ SlotsOf(real, Callers)
    /\ ceilingOnlyInFlight \in 0 .. deriveCeiling
    /\ ceilingOnlyInFlight = Cardinality(ceilingOnlyHeld)
    /\ ceilingOnlyHeld \subseteq Running
    /\ mode = "enforcing" => ceilingOnlyHeld = {}

IInv == TypeOK /\ QueueOK /\ SlotsCounted /\ ShadowOK /\ LifeOK /\ BoundsOK /\ PassedOver

-----------------------------------------------------------------------------
(* Counting.                                                               *)

LEMMA Derived ==
    /\ deriveCeiling \in Nat \ {0}
    /\ derivePerKeySlice \in Nat \ {0}
    /\ deriveCeiling > 1 => derivePerKeySlice < deriveCeiling
BY PoolAssumption DEF deriveCeiling, derivePerKeySlice, Larger, Smaller

LEMMA FiniteSubsets == \A S \in SUBSET Request : IsFiniteSet(S) /\ Cardinality(S) \in Nat
BY RequestAssumption, FS_Subset, FS_CardinalityType

(* Counting one request more or less keeps the counters honest.            *)
LEMMA CountedOne ==
    ASSUME TypeOK, NEW c \in Counters, NEW S \in SUBSET Request, SlotsOf(c, S),
           NEW r \in Request, r \notin S
    PROVE  Counted(c, r) \in Counters /\ SlotsOf(Counted(c, r), S \cup {r})
<1>1. key[r] \in Key /\ weight[r] \in Nat
  BY WeightAssumption DEF TypeOK
<1>2. Counted(c, r) \in Counters
  BY <1>1 DEF Counters, Counted
<1>3. Cardinality(S \cup {r}) = Cardinality(S) + 1
  BY FiniteSubsets, FS_AddElement
<1>4. ASSUME NEW k \in Key
      PROVE  Counted(c, r).held[k] = Cardinality({q \in S \cup {r} : key[q] = k})
  <2> DEFINE Of(T) == {q \in T : key[q] = k}
  <2>1. IsFiniteSet(Of(S)) /\ r \notin Of(S) /\ Cardinality(Of(S)) \in Nat
    BY FiniteSubsets
  <2>2. CASE key[r] = k
    <3>1. Of(S \cup {r}) = Of(S) \cup {r}
      BY <2>2
    <3>2. Cardinality(Of(S \cup {r})) = Cardinality(Of(S)) + 1
      BY <2>1, <3>1, FS_AddElement
    <3> QED BY <2>2, <3>2, <1>1 DEF SlotsOf, Counted, Counters
  <2>3. CASE key[r] # k
    <3>1. Of(S \cup {r}) = Of(S)
      BY <2>3
    <3> QED BY <2>3, <3>1, <1>1 DEF SlotsOf, Counted, Counters
  <2> QED BY <2>2, <2>3
<1> QED BY <1>2, <1>3, <1>4 DEF SlotsOf, Counted

LEMMA UncountedOne ==
    ASSUME TypeOK, NEW c \in Counters, NEW S \in SUBSET Request, SlotsOf(c, S),
           NEW r \in S
    PROVE  Uncounted(c, r) \in Counters /\ SlotsOf(Uncounted(c, r), S \ {r})
<1>1. key[r] \in Key /\ weight[r] \in Nat
  BY WeightAssumption DEF TypeOK
<1>3. Cardinality(S \ {r}) = Cardinality(S) - 1 /\ Cardinality(S \ {r}) \in Nat
  BY FiniteSubsets, FS_RemoveElement
<1>4. ASSUME NEW k \in Key
      PROVE  Uncounted(c, r).held[k] = Cardinality({q \in S \ {r} : key[q] = k})
  <2> DEFINE Of(T) == {q \in T : key[q] = k}
  <2>1. IsFiniteSet(Of(S)) /\ Cardinality(Of(S)) \in Nat
    BY FiniteSubsets
  <2>2. CASE key[r] = k
    <3>1. Of(S \ {r}) = Of(S) \ {r} /\ r \in Of(S)
      BY <2>2
    <3>2. Cardinality(Of(S \ {r})) = Cardinality(Of(S)) - 1 /\ Cardinality(Of(S \ {r})) \in Nat
      <4>1. Cardinality(Of(S) \ {r}) = Cardinality(Of(S)) - 1
        BY <2>1, <3>1, FS_RemoveElement
      <4>2. Of(S \ {r}) \in SUBSET Request
        OBVIOUS
      <4> QED BY <3>1, <4>1, <4>2, FiniteSubsets
    <3>3. c.held[k] = Cardinality(Of(S)) /\ c.held \in [Key -> Nat]
      BY DEF SlotsOf, Counters
    <3>4. Uncounted(c, r).held[k] = Larger(0, c.held[k] - 1)
      BY <2>2, <3>3, <1>1 DEF Uncounted
    <3> QED BY <2>1, <3>2, <3>3, <3>4 DEF Larger
  <2>3. CASE key[r] # k
    <3>1. Of(S \ {r}) = Of(S)
      BY <2>3
    <3> QED BY <2>3, <3>1, <1>1 DEF SlotsOf, Uncounted, Counters, Larger
  <2> QED BY <2>2, <2>3
<1>2. Uncounted(c, r) \in Counters
  <2>1. Uncounted(c, r).inFlight \in Nat
    BY <1>3 DEF Uncounted, SlotsOf, Counters
  <2>2. \A n \in Nat : Larger(0, n - 1) \in Nat
    BY DEF Larger
  <2> QED BY <1>1, <2>1, <2>2 DEF Uncounted, Counters
<1> QED BY <1>2, <1>3, <1>4 DEF SlotsOf, Uncounted, Counters

(* The backstop on tracked keys is out of reach: "size <= ceiling << cap". *)
LEMMA CauseIsFull ==
    ASSUME TypeOK, SlotsCounted, NEW r \in Request
    PROVE  /\ Cause(r) = "none" <=> ~Full(r)
           /\ Cause(r) = "instance_ceiling_full" => gate.inFlight >= deriveCeiling
<1>1. Cardinality(TrackedKeys) \in Nat /\ Cardinality(TrackedKeys) <= gate.inFlight
  <2> DEFINE Keys == {key[q] : q \in Holders}
  <2>1. Holders \in SUBSET Request /\ IsFiniteSet(Holders)
    BY FiniteSubsets DEF Holders
  <2>2. IsFiniteSet(Keys) /\ Cardinality(Keys) <= Cardinality(Holders)
    <3> DEFINE f == [q \in Holders |-> key[q]]
    <3>1. f \in Surjection(Holders, Keys)
      BY DEF Surjection
    <3> QED BY <2>1, <3>1, FS_Surjection
  <2>3. TrackedKeys \subseteq Keys
    <3> SUFFICES ASSUME NEW k \in TrackedKeys PROVE k \in Keys
      OBVIOUS
    <3>1. {q \in Holders : key[q] = k} # {}
      BY FS_EmptySet DEF TrackedKeys, SlotsCounted, SlotsOf
    <3> QED BY <3>1
  <2>4. IsFiniteSet(TrackedKeys) /\ Cardinality(TrackedKeys) <= Cardinality(Keys)
    BY <2>2, <2>3, FS_Subset
  <2>5. Cardinality(TrackedKeys) \in Nat /\ Cardinality(Keys) \in Nat /\ Cardinality(Holders) \in Nat
    BY <2>1, <2>2, <2>4, FS_CardinalityType
  <2>6. gate.inFlight = Cardinality(Holders)
    BY DEF SlotsCounted, SlotsOf
  <2> QED BY <2>2, <2>4, <2>5, <2>6
<1>2. gate.inFlight \in Nat /\ gate.held[key[r]] \in Nat /\ gate.events + weight[r] \in Int
  <2>1. gate.inFlight \in Nat /\ gate.held \in [Key -> Nat] /\ gate.events \in Int
    BY DEF TypeOK, Counters
  <2>2. key[r] \in Key /\ weight[r] \in Nat
    BY WeightAssumption DEF TypeOK
  <2> QED BY <2>1, <2>2
<1>3. gate.inFlight < deriveCeiling => Cardinality(TrackedKeys) < MaxTrackedKeys
  BY <1>1, <1>2, Derived, BackstopAssumption
<1> QED BY <1>1, <1>2, <1>3, Derived, LimitsAssumption, BackstopAssumption DEF Cause, Full

-----------------------------------------------------------------------------
(* What the parts of a step do.                                            *)

LEMMA TakeStep ==
    ASSUME TypeOK, SlotsCounted, BoundsOK, NEW r \in Request, Take(r),
           r \notin Holders, UNCHANGED request
    PROVE  /\ gate' \in Counters
           /\ slot' \in [Request -> Slot]
           /\ Holders' = Holders \cup {r}
           /\ SlotsOf(gate, Holders)'
           /\ BoundsOK'
           /\ \A q \in Request : Full(q) => Full(q)'
<1>1. /\ gate \in Counters /\ key \in [Request -> Key] /\ weight \in [Request -> Weight]
      /\ slot \in [Request -> Slot] /\ Holders \in SUBSET Request
  BY DEF TypeOK, Holders
<1>2. gate' = Counted(gate, r) /\ slot' = [slot EXCEPT ![r] = "granted"] /\ ~Full(r)
  BY CauseIsFull DEF Take
<1>3. slot' \in [Request -> Slot] /\ Holders' = Holders \cup {r}
  BY <1>1, <1>2 DEF Holders, Slot
<1>4. gate' \in Counters /\ SlotsOf(gate', Holders \cup {r})
  BY <1>1, <1>2, CountedOne DEF SlotsCounted
<1>5. SlotsOf(gate, Holders)'
  BY <1>3, <1>4 DEF SlotsOf, request
<1>6. weight[r] \in Nat /\ key[r] \in Key
  BY <1>1, WeightAssumption
<1>7. /\ gate.held \in [Key -> Nat] /\ gate.inFlight \in Nat /\ gate.events \in Int
      /\ gate'.inFlight = gate.inFlight + 1
      /\ gate'.events = gate.events + weight[r]
      /\ gate'.held = [gate.held EXCEPT ![key[r]] = @ + 1]
  BY <1>1, <1>2 DEF Counted, Counters
<1>8. BoundsOK'
  BY <1>2, <1>6, <1>7, Derived DEF BoundsOK, Full, derivePerKeySlice, deriveCeiling
<1>9. ASSUME NEW q \in Request, Full(q) PROVE Full(q)'
  <2>1. key[q] \in Key /\ weight[q] \in Nat /\ key' = key /\ weight' = weight
    BY <1>1, WeightAssumption DEF request
  <2>2. gate'.held[key[q]] >= gate.held[key[q]] /\ gate.held[key[q]] \in Nat
    BY <2>1, <1>6, <1>7
  <2>3. EventBudget \in Nat
    BY LimitsAssumption
  <2> QED BY <1>6, <1>7, <1>9, <2>1, <2>2, <2>3, Derived DEF Full
<1> QED BY <1>3, <1>4, <1>5, <1>8, <1>9

LEMMA GiveBackStep ==
    ASSUME TypeOK, SlotsCounted, BoundsOK, NEW r \in Holders, GiveBack(r), UNCHANGED request
    PROVE  /\ gate' \in Counters
           /\ slot' \in [Request -> Slot]
           /\ Holders' = Holders \ {r}
           /\ SlotsOf(gate, Holders)'
           /\ BoundsOK'
           /\ Queued' = Queued /\ scan' = Queued
<1>1. /\ gate \in Counters /\ key \in [Request -> Key] /\ weight \in [Request -> Weight]
      /\ slot \in [Request -> Slot] /\ Holders \in SUBSET Request /\ r \in Request
      /\ slot[r] \in {"granted", "handed"}
  BY DEF TypeOK, Holders
<1>2. gate' = Uncounted(gate, r) /\ slot' = [slot EXCEPT ![r] = "back"] /\ scan' = Queued
  BY DEF GiveBack
<1>3. /\ slot' \in [Request -> Slot] /\ Holders' = Holders \ {r}
      /\ Queued' = Queued
  BY <1>1, <1>2 DEF Holders, Slot, Queued
<1>4. gate' \in Counters /\ SlotsOf(gate', Holders \ {r})
  BY <1>1, <1>2, UncountedOne DEF SlotsCounted
<1>5. SlotsOf(gate, Holders)'
  BY <1>3, <1>4 DEF SlotsOf, request
<1>6. /\ gate.held \in [Key -> Nat] /\ gate.inFlight \in Nat /\ key[r] \in Key
      /\ gate'.inFlight = gate.inFlight - 1
      /\ gate'.held = [gate.held EXCEPT ![key[r]] = Larger(0, @ - 1)]
  BY <1>1, <1>2 DEF Uncounted, Counters
<1>7. \A k \in Key : gate'.held[k] <= gate.held[k] /\ gate'.held[k] \in Nat /\ gate.held[k] \in Nat
  BY <1>6 DEF Larger
<1>8. BoundsOK'
  BY <1>6, <1>7, Derived DEF BoundsOK, derivePerKeySlice, deriveCeiling
<1> QED BY <1>2, <1>3, <1>4, <1>5, <1>8

LEMMA EnqueueStep ==
    ASSUME TypeOK, QueueOK, NEW r \in Request, slot[r] # "queued", waiting < MaxWaiters,
           Enqueue(r), slot' = [slot EXCEPT ![r] = "queued"]
    PROVE  /\ place' \in [Request -> 0 .. MaxWaiters] /\ waiting' \in 0 .. MaxWaiters
           /\ slot' \in [Request -> Slot]
           /\ QueueOK'
           /\ Queued' = Queued \cup {r}
<1>1. /\ place \in [Request -> 0 .. MaxWaiters] /\ waiting \in 0 .. MaxWaiters
      /\ MaxWaiters \in Nat /\ slot \in [Request -> Slot]
  BY LimitsAssumption DEF TypeOK
<1>2. place' = [place EXCEPT ![r] = waiting + 1] /\ waiting' = waiting + 1
  BY DEF Enqueue
<1>3. Queued' = Queued \cup {r} /\ slot' \in [Request -> Slot]
  BY <1>1 DEF Queued, Slot
<1>4. \A q \in Request : slot'[q] = "queued" <=> place'[q] > 0
  BY <1>1, <1>2 DEF QueueOK
<1>5. \A q \in Request : place'[q] <= waiting'
  BY <1>1, <1>2 DEF QueueOK
<1>6. \A p, q \in Queued' : place'[p] = place'[q] => p = q
  <2>1. \A q \in Request \ {r} : place'[q] = place[q] /\ place'[q] < waiting + 1
    BY <1>1, <1>2 DEF QueueOK
  <2>2. place'[r] = waiting + 1
    BY <1>1, <1>2
  <2> QED BY <1>1, <1>3, <2>1, <2>2 DEF QueueOK, Queued
<1> QED BY <1>1, <1>2, <1>3, <1>4, <1>5, <1>6 DEF QueueOK

LEMMA SpliceStep ==
    ASSUME TypeOK, QueueOK, NEW r \in Queued, Splice(r),
           NEW phase \in {"granted", "refused"}, slot' = [slot EXCEPT ![r] = phase]
    PROVE  /\ place' \in [Request -> 0 .. MaxWaiters] /\ waiting' \in 0 .. MaxWaiters
           /\ QueueOK'
           /\ Queued' = Queued \ {r}
           /\ \A p, q \in Queued' : place'[p] < place'[q] <=> place[p] < place[q]
<1>1. /\ place \in [Request -> 0 .. MaxWaiters] /\ waiting \in 0 .. MaxWaiters
      /\ MaxWaiters \in Nat /\ slot \in [Request -> Slot] /\ r \in Request
      /\ place[r] > 0 /\ place[r] <= waiting
  BY LimitsAssumption DEF TypeOK, QueueOK, Queued
<1>2. /\ waiting' = waiting - 1 /\ place'[r] = 0
      /\ \A q \in Request \ {r} :
            place'[q] = IF place[q] > place[r] THEN place[q] - 1 ELSE place[q]
  BY <1>1 DEF Splice
<1>3. Queued' = Queued \ {r} /\ r \notin Queued'
  BY <1>1 DEF Queued
<1>4. \A q \in Request : place'[q] \in 0 .. MaxWaiters /\ place'[q] <= waiting'
  <2> SUFFICES ASSUME NEW q \in Request PROVE place'[q] \in 0 .. MaxWaiters /\ place'[q] <= waiting'
    OBVIOUS
  <2>1. place[q] \in 0 .. MaxWaiters /\ place[q] <= waiting
    BY <1>1 DEF QueueOK
  <2>2. CASE q = r
    BY <1>1, <1>2, <2>2
  <2>3. CASE q # r
    <3>1. place[q] # place[r]
      BY <1>1, <2>1, <2>3 DEF QueueOK, Queued
    <3> QED BY <1>1, <1>2, <2>1, <2>3, <3>1
  <2> QED BY <2>2, <2>3
<1>5. place' \in [Request -> 0 .. MaxWaiters]
  <2>1. place' = [q \in Request |-> place'[q]]
    BY DEF Splice
  <2> QED BY <2>1, <1>4
<1>6. \A q \in Request : slot'[q] = "queued" <=> place'[q] > 0
  <2> SUFFICES ASSUME NEW q \in Request PROVE slot'[q] = "queued" <=> place'[q] > 0
    OBVIOUS
  <2>1. place[q] \in 0 .. MaxWaiters /\ (slot[q] = "queued" <=> place[q] > 0)
    BY <1>1 DEF QueueOK
  <2> QED BY <1>1, <1>2, <2>1
<1>7. \A p, q \in Queued' :
        /\ place'[p] < place'[q] <=> place[p] < place[q]
        /\ place'[p] = place'[q] => p = q
  <2> SUFFICES ASSUME NEW p \in Queued \ {r}, NEW q \in Queued \ {r}
               PROVE  /\ place'[p] < place'[q] <=> place[p] < place[q]
                      /\ place'[p] = place'[q] => p = q
    BY <1>3
  <2>1. /\ p \in Request \ {r} /\ q \in Request \ {r}
        /\ place[p] # place[r] /\ place[q] # place[r] /\ (place[p] = place[q] => p = q)
    BY <1>1 DEF QueueOK, Queued
  <2>2. place[p] \in Nat /\ place[q] \in Nat /\ place[r] \in Nat
    BY <1>1, <2>1
  <2>3. /\ place'[p] = IF place[p] > place[r] THEN place[p] - 1 ELSE place[p]
        /\ place'[q] = IF place[q] > place[r] THEN place[q] - 1 ELSE place[q]
    BY <1>2, <2>1
  <2> QED BY <2>1, <2>2, <2>3
<1>8. waiting' \in 0 .. MaxWaiters
  BY <1>1, <1>2
<1>9. QueueOK'
  BY <1>4, <1>6, <1>7 DEF QueueOK
<1> QED BY <1>3, <1>5, <1>7, <1>8, <1>9

(* An arrival and the end of a caller, in the shadow counters.             *)
LEMMA AdmitStep ==
    ASSUME TypeOK, ShadowOK, NEW r \in Request, caller[r] = "idle", Admit(r), UNCHANGED request
    PROVE  /\ ShadowOK'
           /\ caller' = [caller EXCEPT ![r] = IF mode = "shadow" THEN "running" ELSE "waiting"]
<1>1. /\ caller \in [Request -> Caller] /\ mode \in {"shadow", "enforcing"}
      /\ real \in Counters /\ Running \in SUBSET Request /\ r \notin Running
      /\ ceilingOnlyHeld \in SUBSET Request /\ r \notin ceilingOnlyHeld
  BY DEF TypeOK, Running
<1>2. CASE mode = "shadow"
  <2>1. /\ caller' = [caller EXCEPT ![r] = "running"] /\ real' = Counted(real, r)
        /\ Callers = Running /\ Callers' = Running'
    BY <1>2 DEF Admit, Callers, request
  <2>2. Running' = Running \cup {r} /\ caller' \in [Request -> Caller]
    BY <1>1, <2>1 DEF Running, Caller
  <2>3. real' \in Counters /\ SlotsOf(real', Running \cup {r})
    BY <1>1, <2>1, CountedOne DEF ShadowOK
  <2>4. SlotsOf(real, Callers)'
    BY <2>1, <2>2, <2>3 DEF SlotsOf, request
  <2>5. CASE ceilingOnlyInFlight >= deriveCeiling
    <3>1. ceilingOnlyInFlight' = ceilingOnlyInFlight /\ ceilingOnlyHeld' = ceilingOnlyHeld
      BY <1>2, <2>5 DEF Admit
    <3> QED BY <1>2, <2>1, <2>2, <2>3, <2>4, <3>1 DEF ShadowOK, deriveCeiling, request
  <2>6. CASE ceilingOnlyInFlight < deriveCeiling
    <3>1. /\ ceilingOnlyInFlight' = ceilingOnlyInFlight + 1
          /\ ceilingOnlyHeld' = ceilingOnlyHeld \cup {r}
      BY <1>2, <2>6, Derived DEF Admit, ShadowOK
    <3>2. Cardinality(ceilingOnlyHeld') = Cardinality(ceilingOnlyHeld) + 1
      BY <1>1, <3>1, FiniteSubsets, FS_AddElement
    <3>3. ceilingOnlyInFlight' \in 0 .. deriveCeiling /\ deriveCeiling' = deriveCeiling
      BY <2>6, <3>1, Derived DEF ShadowOK, deriveCeiling
    <3> QED BY <1>2, <2>1, <2>2, <2>3, <2>4, <3>1, <3>2, <3>3 DEF ShadowOK, request
  <2> QED BY <1>2, <2>1, <2>5, <2>6, Derived DEF ShadowOK
<1>3. CASE mode = "enforcing"
  <2>1. /\ caller' = [caller EXCEPT ![r] = "waiting"] /\ UNCHANGED shadow
        /\ Callers = {} /\ Callers' = {}
    BY <1>3 DEF Admit, Callers, request
  <2>2. Running' = Running /\ caller' \in [Request -> Caller]
    BY <1>1, <2>1 DEF Running, Caller
  <2>3. SlotsOf(real, Callers)'
    BY <2>1 DEF SlotsOf, request, ShadowOK, shadow
  <2> QED BY <1>3, <2>1, <2>2, <2>3 DEF ShadowOK, shadow, deriveCeiling, request
<1> QED BY <1>1, <1>2, <1>3

LEMMA FinishStep ==
    ASSUME TypeOK, ShadowOK, NEW r \in Request, Finish(r)
    PROVE  ShadowOK'
<1>1. /\ caller \in [Request -> Caller] /\ mode \in {"shadow", "enforcing"}
      /\ real \in Counters /\ Running \in SUBSET Request /\ r \in Running
      /\ ceilingOnlyHeld \in SUBSET Request
  BY DEF TypeOK, Running, Finish
<1>2. /\ caller' = [caller EXCEPT ![r] = "done"] /\ UNCHANGED request
      /\ deriveCeiling' = deriveCeiling
  BY DEF Finish, deriveCeiling
<1>3. Running' = Running \ {r} /\ caller' \in [Request -> Caller]
  BY <1>1, <1>2 DEF Running, Caller
<1>4. CASE mode = "shadow"
  <2>1. real' = Uncounted(real, r) /\ Callers = Running /\ Callers' = Running'
    BY <1>2, <1>4 DEF Finish, Callers, request
  <2>2. real' \in Counters /\ SlotsOf(real', Running \ {r})
    BY <1>1, <2>1, UncountedOne DEF ShadowOK
  <2>3. SlotsOf(real, Callers)'
    BY <1>2, <1>3, <2>1, <2>2 DEF SlotsOf, request
  <2>4. ceilingOnlyHeld' = ceilingOnlyHeld \ {r}
    BY <1>4 DEF Finish
  <2>5. Cardinality(ceilingOnlyHeld) \in Nat /\ Cardinality(ceilingOnlyHeld') \in Nat
    BY <1>1, <2>4, FiniteSubsets
  <2>6. ceilingOnlyInFlight' = Cardinality(ceilingOnlyHeld') /\ ceilingOnlyInFlight' <= ceilingOnlyInFlight
    <3>1. Cardinality(ceilingOnlyHeld') =
            IF r \in ceilingOnlyHeld THEN Cardinality(ceilingOnlyHeld) - 1
            ELSE Cardinality(ceilingOnlyHeld)
      BY <1>1, <2>4, FiniteSubsets, FS_RemoveElement
    <3> QED BY <1>4, <2>5, <3>1 DEF Finish, ShadowOK
  <2> QED BY <1>2, <1>3, <2>2, <2>3, <2>4, <2>5, <2>6, Derived DEF ShadowOK, request
<1>5. CASE mode = "enforcing"
  <2>1. UNCHANGED shadow /\ Callers = {} /\ Callers' = {}
    BY <1>2, <1>5 DEF Finish, Callers, request
  <2>2. SlotsOf(real, Callers)'
    BY <1>2, <2>1 DEF SlotsOf, request, ShadowOK, shadow
  <2>3. ceilingOnlyHeld = {}
    BY <1>5 DEF ShadowOK
  <2> QED BY <1>2, <1>3, <1>5, <2>1, <2>2, <2>3 DEF ShadowOK, shadow, request
<1> QED BY <1>1, <1>4, <1>5

LEMMA ShadowKept ==
    ASSUME TypeOK, ShadowOK, UNCHANGED <<shadow, request>>, caller' \in [Request -> Caller],
           mode = "shadow" => Running' = Running
    PROVE  ShadowOK'
<1>1. Callers' = Callers /\ (ceilingOnlyHeld # {} => Running' = Running)
  BY DEF Callers, ShadowOK, TypeOK, request
<1>2. SlotsOf(real, Callers)'
  BY <1>1 DEF SlotsOf, ShadowOK, shadow, request
<1> QED BY <1>1, <1>2 DEF ShadowOK, shadow, request, deriveCeiling

LEMMA GateKept ==
    ASSUME SlotsCounted, BoundsOK, UNCHANGED <<gate, request>>, Holders' = Holders
    PROVE  SlotsOf(gate, Holders)' /\ BoundsOK' /\ \A q \in Request : Full(q)' = Full(q)
BY DEF SlotsCounted, SlotsOf, BoundsOK, Full, request, derivePerKeySlice, deriveCeiling

(* The parts of TypeOK' and SlotsCounted' put together.                    *)
LEMMA Together ==
    ASSUME IInv, UNCHANGED request, ShadowOK', slot' \in [Request -> Slot],
           place' \in [Request -> 0 .. MaxWaiters], waiting' \in 0 .. MaxWaiters,
           scan' \subseteq Queued', gate' \in Counters, SlotsOf(gate, Holders)', LifeOK'
    PROVE  TypeOK' /\ SlotsCounted'
<1>1. TypeOK'
  BY DEF IInv, TypeOK, ShadowOK, request, deriveCeiling
<1>2. \A r \in Request : slot'[r] = "handed" => caller'[r] = "running"
  BY DEF LifeOK
<1> QED BY <1>1, <1>2 DEF SlotsCounted, ShadowOK

-----------------------------------------------------------------------------
(* Every step keeps the invariant.                                         *)

LEMMA InitInv == Init => IInv
<1> SUFFICES ASSUME Init PROVE IInv
  OBVIOUS
<1>1. /\ Holders = {} /\ Queued = {} /\ Running = {} /\ Callers = {}
      /\ Cardinality({}) = 0
  BY FS_EmptySet DEF Init, Holders, Queued, Running, Callers
<1>2. NothingCounted \in Counters /\ SlotsOf(NothingCounted, {})
  BY <1>1, FS_EmptySet DEF NothingCounted, Counters, SlotsOf
<1>3. 0 \in 0 .. MaxWaiters /\ 0 \in 0 .. deriveCeiling
  BY LimitsAssumption, Derived
<1>4. TypeOK
  BY <1>1, <1>2, <1>3 DEF Init, TypeOK, Caller, Slot
<1>5. ShadowOK /\ SlotsCounted
  BY <1>1, <1>2, <1>3 DEF Init, ShadowOK, SlotsCounted, Caller
<1>6. QueueOK /\ LifeOK /\ PassedOver
  BY <1>1 DEF Init, QueueOK, LifeOK, PassedOver
<1>7. BoundsOK
  BY Derived DEF Init, BoundsOK, NothingCounted
<1> QED BY <1>4, <1>5, <1>6, <1>7 DEF IInv

LEMMA ArriveToRoomInv == ASSUME IInv, NEW r \in Request, ArriveToRoom(r) PROVE IInv'
<1>1. /\ TypeOK /\ QueueOK /\ SlotsCounted /\ ShadowOK /\ LifeOK /\ BoundsOK /\ PassedOver
      /\ caller[r] = "idle" /\ slot[r] = "none" /\ Take(r) /\ Admit(r)
      /\ UNCHANGED <<request, queue, scan>> /\ scan = {}
  BY DEF IInv, ArriveToRoom, LifeOK
<1>2. slot \in [Request -> Slot] /\ slot' = [slot EXCEPT ![r] = "granted"] /\ r \notin Holders
  BY <1>1 DEF TypeOK, Take, Holders
<1>3. /\ gate' \in Counters /\ slot' \in [Request -> Slot] /\ SlotsOf(gate, Holders)'
      /\ BoundsOK' /\ \A q \in Request : Full(q) => Full(q)'
  BY <1>1, <1>2, TakeStep
<1>4. /\ ShadowOK'
      /\ caller' = [caller EXCEPT ![r] = IF mode = "shadow" THEN "running" ELSE "waiting"]
  BY <1>1, AdmitStep
<1>5. Queued' = Queued
  BY <1>1, <1>2 DEF Queued
<1>6. QueueOK'
  BY <1>1, <1>2, <1>5 DEF QueueOK, queue
<1>7. LifeOK'
  BY <1>1, <1>2, <1>4 DEF LifeOK, request, TypeOK, Caller
<1>8. PassedOver'
  BY <1>1, <1>3, <1>5 DEF PassedOver, Queued
<1>9. TypeOK' /\ SlotsCounted'
  BY <1>1, <1>3, <1>4, <1>5, <1>7, Together DEF TypeOK, queue
<1> QED BY <1>3, <1>4, <1>6, <1>7, <1>8, <1>9 DEF IInv

LEMMA ArriveToWaitInv == ASSUME IInv, NEW r \in Request, ArriveToWait(r) PROVE IInv'
<1>1. /\ TypeOK /\ QueueOK /\ SlotsCounted /\ ShadowOK /\ LifeOK /\ BoundsOK /\ PassedOver
      /\ caller[r] = "idle" /\ slot[r] = "none" /\ Cause(r) # "none" /\ waiting < MaxWaiters
      /\ Enqueue(r) /\ slot' = [slot EXCEPT ![r] = "queued"] /\ Admit(r)
      /\ UNCHANGED <<request, scan, gate>> /\ scan = {}
  BY DEF IInv, ArriveToWait, LifeOK
<1>2. /\ place' \in [Request -> 0 .. MaxWaiters] /\ waiting' \in 0 .. MaxWaiters
      /\ slot' \in [Request -> Slot] /\ QueueOK' /\ Queued' = Queued \cup {r}
  BY <1>1, EnqueueStep
<1>3. Holders' = Holders
  BY <1>1 DEF Holders, TypeOK
<1>4. SlotsOf(gate, Holders)' /\ BoundsOK' /\ \A q \in Request : Full(q)' = Full(q)
  BY <1>1, <1>3, GateKept
<1>5. /\ ShadowOK'
      /\ caller' = [caller EXCEPT ![r] = IF mode = "shadow" THEN "running" ELSE "waiting"]
  BY <1>1, AdmitStep
<1>6. LifeOK'
  BY <1>1, <1>5 DEF LifeOK, request, TypeOK, Caller
<1>7. PassedOver'
  BY <1>1, <1>2, <1>4, CauseIsFull DEF PassedOver, Queued
<1>8. TypeOK' /\ SlotsCounted'
  <2>1. gate' \in Counters /\ scan' \subseteq Queued'
    BY <1>1 DEF TypeOK
  <2> QED BY <1>1, <1>2, <1>4, <1>5, <1>6, <2>1, Together
<1> QED BY <1>2, <1>4, <1>5, <1>6, <1>7, <1>8 DEF IInv

LEMMA ArriveToFloodInv == ASSUME IInv, NEW r \in Request, ArriveToFlood(r) PROVE IInv'
<1>1. /\ TypeOK /\ QueueOK /\ SlotsCounted /\ ShadowOK /\ LifeOK /\ BoundsOK /\ PassedOver
      /\ caller[r] = "idle" /\ slot[r] = "none" /\ slot' = [slot EXCEPT ![r] = "refused"]
      /\ UNCHANGED <<request, queue, scan, gate>> /\ scan = {}
  BY DEF IInv, ArriveToFlood, LifeOK
<1>2. slot' \in [Request -> Slot] /\ Holders' = Holders /\ Queued' = Queued
  BY <1>1 DEF Holders, Queued, TypeOK, Slot
<1>3. SlotsOf(gate, Holders)' /\ BoundsOK' /\ \A q \in Request : Full(q)' = Full(q)
  BY <1>1, <1>2, GateKept
<1>4. /\ ShadowOK'
      /\ caller' = [caller EXCEPT ![r] = IF mode = "shadow" THEN "running" ELSE "refused"]
  <2>1. CASE mode = "shadow"
    BY <1>1, <2>1, AdmitStep DEF ArriveToFlood
  <2>2. CASE mode # "shadow"
    <3>1. caller' = [caller EXCEPT ![r] = "refused"] /\ UNCHANGED shadow
      BY <2>2 DEF ArriveToFlood
    <3>2. caller' \in [Request -> Caller]
      BY <1>1, <3>1 DEF TypeOK, Caller
    <3> QED BY <1>1, <2>2, <3>1, <3>2, ShadowKept
  <2> QED BY <2>1, <2>2
<1>5. QueueOK'
  BY <1>1, <1>2 DEF QueueOK, queue, TypeOK
<1>6. LifeOK'
  BY <1>1, <1>4 DEF LifeOK, request, TypeOK, Caller
<1>7. PassedOver'
  BY <1>1, <1>2, <1>3 DEF PassedOver, Queued
<1>8. TypeOK' /\ SlotsCounted'
  <2>1. /\ gate' \in Counters /\ scan' \subseteq Queued'
        /\ place' \in [Request -> 0 .. MaxWaiters] /\ waiting' \in 0 .. MaxWaiters
    BY <1>1 DEF TypeOK, queue
  <2> QED BY <1>1, <1>2, <1>3, <1>4, <1>6, <2>1, Together
<1> QED BY <1>3, <1>4, <1>5, <1>6, <1>7, <1>8 DEF IInv

(* The last chance finds no room: the waiter was passed over (PassedOver). *)
LEMMA TimerFiresInv == ASSUME IInv, NEW r \in Request, TimerFires(r) PROVE IInv'
<1>1. /\ TypeOK /\ QueueOK /\ SlotsCounted /\ ShadowOK /\ LifeOK /\ BoundsOK /\ PassedOver
      /\ slot[r] = "queued" /\ scan = {} /\ Splice(r)
      /\ UNCHANGED <<request, scan, shadow>>
  BY DEF IInv, TimerFires
<1>2. Cause(r) # "none"
  BY <1>1, CauseIsFull DEF PassedOver, Queued
<1>3. /\ slot' = [slot EXCEPT ![r] = "refused"] /\ UNCHANGED gate
      /\ caller' = IF mode = "shadow" THEN caller ELSE [caller EXCEPT ![r] = "refused"]
  BY <1>2 DEF TimerFires
<1>4. slot' \in [Request -> Slot] /\ Holders' = Holders
  BY <1>1, <1>3 DEF Holders, TypeOK, Slot
<1>5. /\ place' \in [Request -> 0 .. MaxWaiters] /\ waiting' \in 0 .. MaxWaiters
      /\ QueueOK' /\ Queued' = Queued \ {r}
  <2>1. r \in Queued /\ "refused" \in {"granted", "refused"}
    BY <1>1 DEF Queued
  <2> QED BY <1>1, <1>3, <2>1, SpliceStep
<1>6. SlotsOf(gate, Holders)' /\ BoundsOK' /\ \A q \in Request : Full(q)' = Full(q)
  BY <1>1, <1>3, <1>4, GateKept
<1>7. ShadowOK'
  <2>1. caller' \in [Request -> Caller] /\ (mode = "shadow" => Running' = Running)
    BY <1>1, <1>3 DEF TypeOK, Caller, Running
  <2> QED BY <1>1, <2>1, ShadowKept
<1>8. LifeOK'
  BY <1>1, <1>3 DEF LifeOK, request, TypeOK, Caller
<1>9. PassedOver'
  BY <1>1, <1>5, <1>6 DEF PassedOver, Queued
<1>10. TypeOK' /\ SlotsCounted'
  <2>1. gate' \in Counters /\ scan' \subseteq Queued'
    BY <1>1, <1>3 DEF TypeOK
  <2> QED BY <1>1, <1>4, <1>5, <1>6, <1>7, <1>8, <2>1, Together
<1> QED BY <1>5, <1>6, <1>7, <1>8, <1>9, <1>10 DEF IInv

LEMMA ContinueInv == ASSUME IInv, NEW r \in Request, Continue(r) PROVE IInv'
<1>1. /\ TypeOK /\ QueueOK /\ SlotsCounted /\ ShadowOK /\ LifeOK /\ BoundsOK /\ PassedOver
      /\ slot[r] = "granted" /\ scan = {} /\ UNCHANGED <<request, queue, shadow>>
      /\ slot \in [Request -> Slot] /\ caller \in [Request -> Caller]
  BY DEF IInv, TypeOK, Continue
<1>2. /\ place' \in [Request -> 0 .. MaxWaiters] /\ waiting' \in 0 .. MaxWaiters
  BY <1>1 DEF TypeOK, queue
<1>3. CASE mode = "shadow" /\ caller[r] = "done"
  <2>1. GiveBack(r) /\ UNCHANGED caller /\ r \in Holders
    BY <1>1, <1>3 DEF Continue, Holders
  <2>2. /\ gate' \in Counters /\ slot' \in [Request -> Slot] /\ SlotsOf(gate, Holders)'
        /\ BoundsOK' /\ Queued' = Queued /\ scan' = Queued
    BY <1>1, <2>1, GiveBackStep
  <2>3. slot' = [slot EXCEPT ![r] = "back"]
    BY <2>1 DEF GiveBack
  <2>4. QueueOK'
    BY <1>1, <2>2, <2>3 DEF QueueOK, queue
  <2>5. ShadowOK'
    <3>1. Running' = Running
      BY <2>1 DEF Running
    <3> QED BY <1>1, <2>1, <3>1, ShadowKept
  <2>6. LifeOK'
    BY <1>1, <1>3, <2>1, <2>3 DEF LifeOK, request
  <2>7. PassedOver'
    BY <2>2 DEF PassedOver
  <2>8. TypeOK' /\ SlotsCounted'
    BY <1>1, <1>2, <2>2, <2>5, <2>6, Together
  <2> QED BY <2>2, <2>4, <2>5, <2>6, <2>7, <2>8 DEF IInv
<1>4. CASE ~(mode = "shadow" /\ caller[r] = "done")
  <2>1. /\ slot' = [slot EXCEPT ![r] = "handed"] /\ caller' = [caller EXCEPT ![r] = "running"]
        /\ UNCHANGED <<gate, scan>>
    BY <1>4 DEF Continue
  <2>2. /\ slot' \in [Request -> Slot] /\ Holders' = Holders /\ Queued' = Queued
        /\ caller' \in [Request -> Caller]
    BY <1>1, <2>1 DEF Holders, Queued, Slot, Caller
  <2>3. SlotsOf(gate, Holders)' /\ BoundsOK' /\ \A q \in Request : Full(q)' = Full(q)
    BY <1>1, <2>1, <2>2, GateKept
  <2>4. ShadowOK'
    <3>1. mode = "shadow" => caller[r] = "running"
      BY <1>1, <1>4 DEF LifeOK
    <3>2. mode = "shadow" => Running' = Running
      BY <1>1, <2>1, <3>1 DEF Running
    <3> QED BY <1>1, <2>2, <3>2, ShadowKept
  <2>5. QueueOK'
    BY <1>1, <2>1, <2>2 DEF QueueOK, queue
  <2>6. LifeOK'
    BY <1>1, <1>4, <2>1 DEF LifeOK, request, Caller
  <2>7. PassedOver'
    BY <1>1, <2>1, <2>2, <2>3 DEF PassedOver, Queued
  <2>8. TypeOK' /\ SlotsCounted'
    <3>1. gate' \in Counters /\ scan' \subseteq Queued'
      BY <1>1, <2>1 DEF TypeOK
    <3> QED BY <1>1, <1>2, <2>2, <2>3, <2>4, <2>6, <3>1, Together
  <2> QED BY <2>3, <2>4, <2>5, <2>6, <2>7, <2>8 DEF IInv
<1> QED BY <1>3, <1>4

LEMMA FinishInv == ASSUME IInv, NEW r \in Request, Finish(r) PROVE IInv'
<1>1. /\ TypeOK /\ QueueOK /\ SlotsCounted /\ ShadowOK /\ LifeOK /\ BoundsOK /\ PassedOver
      /\ caller[r] = "running" /\ scan = {} /\ caller' = [caller EXCEPT ![r] = "done"]
      /\ UNCHANGED <<request, queue>>
      /\ slot \in [Request -> Slot] /\ caller \in [Request -> Caller]
  BY DEF IInv, TypeOK, Finish
<1>2. /\ place' \in [Request -> 0 .. MaxWaiters] /\ waiting' \in 0 .. MaxWaiters
  BY <1>1 DEF TypeOK, queue
<1>3. ShadowOK'
  BY <1>1, FinishStep
<1>4. CASE slot[r] = "handed"
  <2>1. GiveBack(r) /\ r \in Holders
    BY <1>4 DEF Finish, Holders
  <2>2. /\ gate' \in Counters /\ slot' \in [Request -> Slot] /\ SlotsOf(gate, Holders)'
        /\ BoundsOK' /\ Queued' = Queued /\ scan' = Queued
    BY <1>1, <2>1, GiveBackStep
  <2>3. slot' = [slot EXCEPT ![r] = "back"]
    BY <2>1 DEF GiveBack
  <2>4. QueueOK'
    BY <1>1, <1>4, <2>2, <2>3 DEF QueueOK, queue
  <2>5. LifeOK'
    BY <1>1, <1>4, <2>3 DEF LifeOK, request, Caller
  <2>6. PassedOver'
    BY <2>2 DEF PassedOver
  <2>7. TypeOK' /\ SlotsCounted'
    BY <1>1, <1>2, <1>3, <2>2, <2>5, Together
  <2> QED BY <1>3, <2>2, <2>4, <2>5, <2>6, <2>7 DEF IInv
<1>5. CASE slot[r] # "handed"
  <2>1. UNCHANGED <<gate, slot, scan>>
    BY <1>5 DEF Finish
  <2>2. Holders' = Holders /\ Queued' = Queued
    BY <2>1 DEF Holders, Queued
  <2>3. SlotsOf(gate, Holders)' /\ BoundsOK' /\ \A q \in Request : Full(q)' = Full(q)
    BY <1>1, <2>1, <2>2, GateKept
  <2>4. QueueOK'
    BY <1>1, <2>1, <2>2 DEF QueueOK, queue
  <2>5. LifeOK'
    BY <1>1, <1>5, <2>1 DEF LifeOK, request, Caller
  <2>6. PassedOver'
    BY <1>1, <2>1, <2>2, <2>3 DEF PassedOver, Queued
  <2>7. TypeOK' /\ SlotsCounted'
    <3>1. slot' \in [Request -> Slot] /\ gate' \in Counters /\ scan' \subseteq Queued'
      BY <1>1, <2>1, <2>2 DEF TypeOK
    <3> QED BY <1>1, <1>2, <1>3, <2>3, <2>5, <3>1, Together
  <2> QED BY <1>3, <2>3, <2>4, <2>5, <2>6, <2>7 DEF IInv
<1> QED BY <1>4, <1>5

LEMMA PumpServesInv == ASSUME IInv, NEW r \in Request, PumpServes(r) PROVE IInv'
<1>1. /\ TypeOK /\ QueueOK /\ SlotsCounted /\ ShadowOK /\ LifeOK /\ BoundsOK /\ PassedOver
      /\ r \in scan /\ Take(r) /\ Splice(r) /\ scan' = scan \ {r}
      /\ UNCHANGED <<request, caller, shadow>> /\ scan \subseteq Queued
      /\ slot \in [Request -> Slot] /\ caller \in [Request -> Caller]
  BY DEF IInv, TypeOK, PumpServes, Oldest
<1>2. r \in Queued /\ slot[r] = "queued" /\ r \notin Holders
      /\ slot' = [slot EXCEPT ![r] = "granted"]
  BY <1>1 DEF Queued, Holders, Take
<1>3. /\ gate' \in Counters /\ slot' \in [Request -> Slot] /\ SlotsOf(gate, Holders)'
      /\ BoundsOK' /\ \A q \in Request : Full(q) => Full(q)'
  BY <1>1, <1>2, TakeStep
<1>4. /\ place' \in [Request -> 0 .. MaxWaiters] /\ waiting' \in 0 .. MaxWaiters
      /\ QueueOK' /\ Queued' = Queued \ {r}
  <2>1. "granted" \in {"granted", "refused"}
    OBVIOUS
  <2> QED BY <1>1, <1>2, <2>1, SpliceStep
<1>5. ShadowOK'
  <2>1. caller' \in [Request -> Caller] /\ Running' = Running
    BY <1>1 DEF Running
  <2> QED BY <1>1, <2>1, ShadowKept
<1>6. LifeOK'
  BY <1>1, <1>2 DEF LifeOK, request
<1>7. PassedOver'
  BY <1>1, <1>3, <1>4 DEF PassedOver, Queued
<1>8. TypeOK' /\ SlotsCounted'
  BY <1>1, <1>3, <1>4, <1>5, <1>6, Together
<1> QED BY <1>3, <1>4, <1>5, <1>6, <1>7, <1>8 DEF IInv

(* A scan that skips or stops changes nothing but the scan.                *)
LEMMA ScanInv ==
    ASSUME IInv, UNCHANGED <<request, caller, slot, queue, gate, shadow>>,
           scan' \subseteq scan, \A q \in scan \ scan' : Full(q)
    PROVE  IInv'
<1>1. Holders' = Holders /\ Queued' = Queued /\ Running' = Running
  BY DEF Holders, Queued, Running
<1>2. SlotsOf(gate, Holders)' /\ BoundsOK' /\ \A q \in Request : Full(q)' = Full(q)
  BY <1>1, GateKept DEF IInv
<1>3. ShadowOK'
  <2>1. caller' \in [Request -> Caller]
    BY DEF IInv, TypeOK
  <2> QED BY <1>1, <2>1, ShadowKept DEF IInv
<1>4. QueueOK' /\ LifeOK'
  BY <1>1 DEF IInv, QueueOK, LifeOK, queue, request
<1>5. PassedOver'
  BY <1>1, <1>2 DEF IInv, PassedOver, Queued
<1>6. TypeOK' /\ SlotsCounted'
  <2>1. /\ place' \in [Request -> 0 .. MaxWaiters] /\ waiting' \in 0 .. MaxWaiters
        /\ slot' \in [Request -> Slot] /\ scan' \subseteq Queued' /\ gate' \in Counters
    BY <1>1 DEF IInv, TypeOK, queue
  <2> QED BY <1>2, <1>3, <1>4, <2>1, Together
<1> QED BY <1>2, <1>3, <1>4, <1>5, <1>6 DEF IInv

LEMMA PumpSkipsInv == ASSUME IInv, NEW r \in Request, PumpSkips(r) PROVE IInv'
<1>1. /\ UNCHANGED <<request, caller, slot, queue, gate, shadow>>
      /\ scan' = scan \ {r} /\ Cause(r) # "none"
  BY DEF PumpSkips
<1>2. Full(r)
  BY <1>1, CauseIsFull DEF IInv
<1> QED BY <1>1, <1>2, ScanInv

(* At the ceiling nobody left in the scan can be served either.            *)
LEMMA PumpStopsInv == ASSUME IInv, PumpStops PROVE IInv'
<1>1. /\ UNCHANGED <<request, caller, slot, queue, gate, shadow>> /\ scan' = {}
      /\ \E r \in Request : Cause(r) = "instance_ceiling_full" \/ gate.inFlight >= deriveCeiling
  BY DEF PumpStops
<1>2. gate.inFlight >= deriveCeiling
  BY <1>1, CauseIsFull DEF IInv
<1>3. \A q \in scan \ scan' : Full(q)
  BY <1>2 DEF Full
<1> QED BY <1>1, <1>3, ScanInv

LEMMA StepInv == IInv /\ [Next]_vars => IInv'
<1> SUFFICES ASSUME IInv, [Next]_vars PROVE IInv'
  OBVIOUS
<1>1. ASSUME NEW r \in Request, Step(r) PROVE IInv'
  BY <1>1, ArriveToRoomInv, ArriveToWaitInv, ArriveToFloodInv, TimerFiresInv, ContinueInv,
     FinishInv, PumpServesInv, PumpSkipsInv DEF Step
<1>2. CASE PumpStops
  BY <1>2, PumpStopsInv
<1>3. CASE UNCHANGED vars
  <2>1. UNCHANGED <<request, caller, slot, queue, gate, shadow>> /\ scan' = scan
    BY <1>3 DEF vars
  <2> QED BY <2>1, ScanInv
<1> QED BY <1>1, <1>2, <1>3 DEF Next

LEMMA Invariance == Spec => []IInv
BY InitInv, StepInv, PTL DEF Spec

(* Every variable of the gate keeps its type, the queue within maxWaiters  *)
(* and the counters natural numbers.                                       *)
THEOREM TypeCorrect == Spec => []TypeOK
BY Invariance, PTL DEF IInv

(* The gate's counters are what is really held: #held, #inFlight, their    *)
(* shadow twins and the ceiling-only one drift neither open nor closed.    *)
THEOREM SlotsHonest == Spec => []SlotsCounted
BY Invariance, PTL DEF IInv

(* No wake-up is lost: between scans nobody waits whom #take would serve.  *)
THEOREM NoLostWakeUp == Spec => []NoServableWaiter
<1>1. IInv => NoServableWaiter
  BY CauseIsFull DEF IInv, NoServableWaiter, PassedOver, Queued
<1> QED BY <1>1, Invariance, PTL

(* ac-10 at every pool size: the slice of a loud credential leaves room,   *)
(* and emission never runs past its half of the pool.                      *)
THEOREM RoomForOthers == Spec => []LoudKeyLeavesRoom
<1>1. ASSUME IInv PROVE LoudKeyLeavesRoom
  <2>1. /\ Holders \in SUBSET Request /\ IsFiniteSet(Holders) /\ gate.inFlight = Cardinality(Holders)
        /\ \A k \in Key : gate.held[k] = Cardinality({q \in Holders : key[q] = k})
        /\ \A k \in Key : gate.held[k] <= derivePerKeySlice /\ gate.held[k] \in Nat
        /\ gate.inFlight <= deriveCeiling /\ gate.inFlight \in Nat
        /\ key \in [Request -> Key]
    BY <1>1, FiniteSubsets DEF IInv, SlotsCounted, SlotsOf, Holders, BoundsOK, TypeOK, Counters
  <2>2. ASSUME NEW k \in Key, TrackedKeys \subseteq {k}, deriveCeiling > 1
        PROVE  gate.inFlight < deriveCeiling
    <3>1. ASSUME NEW q \in Holders PROVE key[q] = k
      <4>1. key[q] \in Key /\ q \in {h \in Holders : key[h] = key[q]}
        BY <2>1
      <4>2. IsFiniteSet({h \in Holders : key[h] = key[q]})
        BY <2>1, FiniteSubsets
      <4>3. gate.held[key[q]] # 0
        BY <2>1, <4>1, <4>2, FS_EmptySet
      <4>4. key[q] \in TrackedKeys
        BY <2>1, <4>1, <4>3 DEF TrackedKeys
      <4> QED BY <2>2, <4>4
    <3>2. {h \in Holders : key[h] = k} = Holders
      BY <3>1
    <3>3. gate.inFlight = gate.held[k]
      BY <2>1, <3>2
    <3> QED BY <2>1, <2>2, <3>3, Derived
  <2>3. mode = "enforcing" => Cardinality(Running) <= deriveCeiling
    <3>1. mode = "enforcing" => Running \subseteq Holders
      BY <1>1 DEF IInv, LifeOK, Running, Holders
    <3>2. mode = "enforcing" => Cardinality(Running) <= Cardinality(Holders)
      BY <2>1, <3>1, FS_Subset
    <3>3. Cardinality(Running) \in Nat
      BY FiniteSubsets DEF Running
    <3> QED BY <2>1, <3>2, <3>3, Derived
  <2> QED BY <2>2, <2>3 DEF LoudKeyLeavesRoom
<1> QED BY <1>1, Invariance, PTL

-----------------------------------------------------------------------------
(* The gate implements the abstract pool.                                  *)

Line == {p \in Queued \X Queued : place[p[1]] < place[p[2]]}
Gone == {r \in Request : slot[r] \in {"refused", "back"}}

LEMMA SameCardinality == \A S : Pool!Cardinality(S) = Cardinality(S)
BY Zenon DEF Pool!Cardinality, Cardinality

LEMMA FitsIsNotFull ==
    ASSUME IInv, NEW r \in Request
    PROVE  Pool!Fits(r) <=> ~Full(r)
<1>1. /\ key[r] \in Key /\ gate.inFlight = Cardinality(Holders) /\ gate.inFlight \in Nat
      /\ gate.held[key[r]] = Cardinality({q \in Holders : key[q] = key[r]})
      /\ gate.held[key[r]] \in Nat
  BY DEF IInv, TypeOK, Counters, SlotsCounted, SlotsOf
<1>2. gate.events \in Int /\ weight[r] \in Nat /\ EventBudget \in Nat
  BY WeightAssumption, LimitsAssumption DEF IInv, TypeOK, Counters
<1>3. Pool!Fits(r) <=>
        /\ Cardinality({q \in Holders : key[q] = key[r]}) < derivePerKeySlice
        /\ Cardinality(Holders) < deriveCeiling
        /\ gate.events + weight[r] <= EventBudget
  BY SameCardinality DEF Pool!Fits
<1>4. Pool!Fits(r) <=>
        /\ gate.held[key[r]] < derivePerKeySlice
        /\ gate.inFlight < deriveCeiling
        /\ gate.events + weight[r] <= EventBudget
  BY <1>1, <1>3, Zenon
<1> QED BY <1>1, <1>2, <1>4, Derived DEF Full

(* What keeps a waiter out keeps a heavier one of the same credential out. *)
LEMMA FullForHeavier ==
    ASSUME IInv, NEW q \in Request, NEW r \in Request,
           key[q] = key[r], weight[q] <= weight[r], Full(q)
    PROVE  Full(r)
<1>1. weight[q] \in Nat /\ weight[r] \in Nat /\ gate.events \in Int /\ EventBudget \in Nat
  BY WeightAssumption, LimitsAssumption DEF IInv, TypeOK, Counters
<1> QED BY <1>1 DEF Full

LEMMA EntersStep ==
    ASSUME IInv, IInv', NEW r \in Request, Take(r), UNCHANGED request,
           slot[r] \in {"none", "queued"}, Queued' = Queued \ {r},
           Line' = {p \in Line : r \notin {p[1], p[2]}}, Pool!InTurn(r)
    PROVE  Pool!Enters(r)
<1>1. slot \in [Request -> Slot] /\ slot' = [slot EXCEPT ![r] = "granted"]
  BY DEF IInv, TypeOK, Take
<1>2. Holders' = Holders \cup {r} /\ Gone' = Gone /\ r \notin Holders \cup Gone
  BY <1>1 DEF Holders, Gone
<1>3. gate'.events = gate.events + weight[r]
  BY DEF Take, Counted
<1>4. Pool!Fits(r)
  BY CauseIsFull, FitsIsNotFull DEF Take, IInv
<1> QED BY <1>2, <1>3, <1>4 DEF Pool!Enters, Pool!LeaveLine, request, Line, Gone

LEMMA TurnedAwayStep ==
    ASSUME IInv, NEW r \in Request, UNCHANGED <<request, gate>>,
           slot[r] \in {"none", "queued"}, slot' = [slot EXCEPT ![r] = "refused"],
           Queued' = Queued \ {r}, Line' = {p \in Line : r \notin {p[1], p[2]}},
           Cause(r) # "none"
    PROVE  Pool!TurnedAway(r)
<1>1. slot \in [Request -> Slot]
  BY DEF IInv, TypeOK
<1>2. Holders' = Holders /\ Gone' = Gone \cup {r} /\ r \notin Holders \cup Gone
  BY <1>1 DEF Holders, Gone
<1>3. ~Pool!Fits(r)
  BY CauseIsFull, FitsIsNotFull DEF IInv
<1> QED BY <1>2, <1>3 DEF Pool!TurnedAway, Pool!LeaveLine, request, Line, Gone

LEMMA LeavesStep ==
    ASSUME IInv, NEW r \in Holders, GiveBack(r), UNCHANGED <<request, queue>>
    PROVE  Pool!Leaves(r)
<1>1. /\ slot \in [Request -> Slot] /\ slot' = [slot EXCEPT ![r] = "back"] /\ r \in Request
      /\ slot[r] \in {"granted", "handed"}
  BY DEF IInv, TypeOK, GiveBack, Holders
<1>2. /\ Holders' = Holders \ {r} /\ Gone' = Gone \cup {r} /\ Queued' = Queued
  BY <1>1 DEF Holders, Gone, Queued
<1>3. gate'.events = gate.events - weight[r]
  BY DEF GiveBack, Uncounted
<1>4. Line' = Line
  BY <1>2 DEF Line, queue
<1> QED BY <1>2, <1>3, <1>4 DEF Pool!Leaves, request, Line, Gone

(* A step that moves no request in or out of the gate.                     *)
LEMMA PoolStutters ==
    ASSUME UNCHANGED <<request, queue, gate>>, Queued' = Queued, Holders' = Holders, Gone' = Gone
    PROVE  UNCHANGED Pool!vars
<1>1. Line' = Line
  BY DEF Line, queue
<1> QED BY <1>1 DEF Pool!vars, request, Line, Gone

LEMMA PoolStep ==
    ASSUME IInv, IInv', NEW r \in Request, Step(r)
    PROVE  Pool!Next \/ UNCHANGED Pool!vars
<1>0. /\ slot \in [Request -> Slot] /\ place \in [Request -> 0 .. MaxWaiters]
      /\ waiting \in 0 .. MaxWaiters /\ MaxWaiters \in Nat
  BY LimitsAssumption DEF IInv, TypeOK
<1>1. CASE ArriveToRoom(r)
  <2>1. /\ slot[r] = "none" /\ Take(r) /\ UNCHANGED <<request, queue>> /\ scan = {}
        /\ slot' = [slot EXCEPT ![r] = "granted"] /\ ~Full(r)
    BY <1>1, CauseIsFull DEF ArriveToRoom, Take, IInv, LifeOK
  <2>2. Queued' = Queued /\ r \notin Queued
    BY <1>0, <2>1 DEF Queued
  <2>3. Line' = {p \in Line : r \notin {p[1], p[2]}}
    BY <2>1, <2>2 DEF Line, queue
  <2>4. Pool!InTurn(r)
    BY <2>1, <2>2, FullForHeavier DEF Pool!InTurn, IInv, PassedOver, Queued
  <2> QED BY <2>1, <2>2, <2>3, <2>4, EntersStep DEF Pool!Next
<1>2. CASE ArriveToWait(r)
  <2>1. /\ slot[r] = "none" /\ Cause(r) # "none" /\ UNCHANGED <<request, gate>>
        /\ slot' = [slot EXCEPT ![r] = "queued"] /\ place' = [place EXCEPT ![r] = waiting + 1]
    BY <1>2 DEF ArriveToWait, Enqueue, IInv, LifeOK
  <2>2. /\ Queued' = Queued \cup {r} /\ r \notin Queued \cup Holders \cup Gone
        /\ Holders' = Holders /\ Gone' = Gone
    BY <1>0, <2>1 DEF Queued, Holders, Gone
  <2>3. Line' = Line \cup (Queued \X {r})
    <3>1. \A q \in Queued : q \in Request /\ place'[q] = place[q] /\ place[q] < waiting + 1
      BY <1>0, <2>1, <2>2 DEF IInv, QueueOK, Queued
    <3>2. place'[r] = waiting + 1
      BY <1>0, <2>1
    <3>3. \A q \in Queued : ~(place'[r] < place'[q]) /\ place'[q] < place'[r]
      BY <1>0, <3>1, <3>2
    <3>4. ~(place'[r] < place'[r])
      BY <1>0, <3>2
    <3> QED BY <2>2, <3>1, <3>3, <3>4 DEF Line
  <2>4. ~Pool!Fits(r)
    BY <2>1, CauseIsFull, FitsIsNotFull DEF IInv
  <2> QED BY <2>1, <2>2, <2>3, <2>4 DEF Pool!Next, Pool!Waits, request, Line, Gone
<1>3. CASE ArriveToFlood(r)
  <2>1. /\ slot[r] = "none" /\ Cause(r) # "none" /\ UNCHANGED <<request, gate, queue>>
        /\ slot' = [slot EXCEPT ![r] = "refused"]
    BY <1>3 DEF ArriveToFlood, IInv, LifeOK
  <2>2. Queued' = Queued /\ r \notin Queued
    BY <1>0, <2>1 DEF Queued
  <2>3. Line' = {p \in Line : r \notin {p[1], p[2]}}
    BY <2>1, <2>2 DEF Line, queue
  <2> QED BY <2>1, <2>2, <2>3, TurnedAwayStep DEF Pool!Next
<1>4. CASE TimerFires(r)
  <2>1. slot[r] = "queued" /\ r \in Queued /\ Splice(r) /\ UNCHANGED request /\ scan = {}
    BY <1>4 DEF TimerFires, Queued
  <2>2. Cause(r) # "none"
    BY <2>1, CauseIsFull DEF IInv, PassedOver
  <2>3. slot' = [slot EXCEPT ![r] = "refused"] /\ UNCHANGED gate
    BY <1>4, <2>2 DEF TimerFires
  <2>4. /\ Queued' = Queued \ {r}
        /\ \A p, q \in Queued' : place'[p] < place'[q] <=> place[p] < place[q]
    <3>1. "refused" \in {"granted", "refused"}
      OBVIOUS
    <3> QED BY <2>1, <2>3, <3>1, SpliceStep DEF IInv
  <2>5. Line' = {p \in Line : r \notin {p[1], p[2]}}
    BY <2>4 DEF Line
  <2> QED BY <2>1, <2>2, <2>3, <2>4, <2>5, TurnedAwayStep DEF Pool!Next
<1>5. CASE Continue(r) \/ Finish(r)
  <2>1. UNCHANGED <<request, queue>>
    BY <1>5 DEF Continue, Finish
  <2>2. CASE GiveBack(r) /\ r \in Holders
    BY <2>1, <2>2, LeavesStep DEF Pool!Next
  <2>3. CASE ~(GiveBack(r) /\ r \in Holders)
    <3>1. /\ UNCHANGED gate
          /\ slot' = slot \/ (slot[r] = "granted" /\ slot' = [slot EXCEPT ![r] = "handed"])
      BY <1>5, <2>3 DEF Continue, Finish, Holders
    <3>2. Queued' = Queued /\ Holders' = Holders /\ Gone' = Gone
      BY <1>0, <3>1 DEF Queued, Holders, Gone
    <3> QED BY <2>1, <3>1, <3>2, PoolStutters
  <2> QED BY <2>2, <2>3
<1>6. CASE PumpServes(r)
  <2>1. /\ Oldest(r) /\ r \in Queued /\ Take(r) /\ Splice(r) /\ UNCHANGED request
        /\ slot' = [slot EXCEPT ![r] = "granted"] /\ ~Full(r) /\ slot[r] = "queued"
    BY <1>6, CauseIsFull DEF PumpServes, Oldest, Take, IInv, TypeOK, Queued
  <2>2. /\ Queued' = Queued \ {r}
        /\ \A p, q \in Queued' : place'[p] < place'[q] <=> place[p] < place[q]
    <3>1. "granted" \in {"granted", "refused"}
      OBVIOUS
    <3> QED BY <2>1, <3>1, SpliceStep DEF IInv
  <2>3. Line' = {p \in Line : r \notin {p[1], p[2]}}
    BY <2>2 DEF Line
  <2>4. Pool!InTurn(r)
    <3> SUFFICES ASSUME NEW q \in Queued \ {r}, key[q] = key[r], weight[q] <= weight[r]
                 PROVE  r \in Queued /\ <<q, r>> \notin Line
      BY DEF Pool!InTurn, Line
    <3>1. q \in scan
      BY <2>1, FullForHeavier DEF IInv, PassedOver, Queued
    <3>2. place[r] <= place[q] /\ place[r] \in Nat /\ place[q] \in Nat
      BY <1>0, <2>1, <3>1 DEF Oldest, Queued
    <3> QED BY <2>1, <3>2 DEF Line
  <2> QED BY <2>1, <2>2, <2>3, <2>4, EntersStep DEF Pool!Next
<1>7. CASE PumpSkips(r)
  <2>1. UNCHANGED <<request, queue, gate, slot>>
    BY <1>7 DEF PumpSkips
  <2> QED BY <2>1, PoolStutters DEF Queued, Holders, Gone
<1> QED BY <1>1, <1>2, <1>3, <1>4, <1>5, <1>6, <1>7 DEF Step

LEMMA PoolNext ==
    ASSUME IInv, IInv', [Next]_vars
    PROVE  Pool!Next \/ UNCHANGED Pool!vars
<1>1. ASSUME NEW r \in Request, Step(r) PROVE Pool!Next \/ UNCHANGED Pool!vars
  BY <1>1, PoolStep
<1>2. CASE PumpStops \/ UNCHANGED vars
  <2>1. UNCHANGED <<request, queue, gate, slot>>
    BY <1>2 DEF PumpStops, vars
  <2> QED BY <2>1, PoolStutters DEF Queued, Holders, Gone
<1> QED BY <1>1, <1>2 DEF Next

(* The gate with its queue, timers and scans implements AdmissionPool:     *)
(* the bounds, the turns and the reasons, for any traffic.                 *)
THEOREM Refinement == Spec => KeepsPromise
<1>1. Init => Pool!Init
  BY DEF Init, Pool!Init, Queued, Holders, NothingCounted
<1>2. IInv /\ IInv' /\ [Next]_vars => [Pool!Next]_(Pool!vars)
  BY PoolNext
<1> QED BY <1>1, <1>2, Invariance, PTL DEF Spec, KeepsPromise, Pool!Spec
-----------------------------------------------------------------------------
(* Sums over a finite set.  The induction theorems of the library take an  *)
(* operator and are out of the provers' reach; a smallest counterexample   *)
(* is a set, and does the same work.                                       *)

Total(w, S) == MapThenSumSet(LAMBDA r : w[r], S)

(* g sums w over the subsets of S.                                         *)
Additive(g, w, S) ==
    /\ g \in [SUBSET S -> Int]
    /\ g[{}] = 0
    /\ \A T \in SUBSET S : \A x \in T : g[T] = w[x] + g[T \ {x}]

(* A smallest counterexample: the induction over finite sets in the form   *)
(* the provers can use.                                                    *)
LEMMA SmallestOne ==
    ASSUME NEW S, IsFiniteSet(S), NEW Bad \in SUBSET SUBSET S, Bad # {}
    PROVE  \E M \in Bad : \A T \in SUBSET M : T # M => T \notin Bad
<1>1. IsWellFoundedOn(StrictSubsetOrdering(S), FiniteSubsetsOf(S))
  BY FS_StrictSubsetOrderingWellFounded
<1>2. Bad \subseteq FiniteSubsetsOf(S)
  BY FS_Subset DEF FiniteSubsetsOf
<1> DEFINE R == StrictSubsetOrdering(S)
           F == FiniteSubsetsOf(S)
<1>3. \E M \in Bad : \A T \in Bad : ~(<<T, M>> \in R)
  <2>1. IsWellFoundedOn(R, F) /\ Bad \subseteq F
    BY <1>1, <1>2
  <2> HIDE DEF R, F
  <2> QED BY <2>1, WFMin
<1>4. PICK M \in Bad : \A T \in Bad : ~(<<T, M>> \in R)
  BY <1>3
<1>5. \A T \in SUBSET M : T # M => T \notin Bad
  BY <1>4 DEF StrictSubsetOrdering
<1> QED BY <1>5

(* Every finite set has such a sum.                                        *)
LEMMA AdditiveExists ==
    ASSUME NEW S, IsFiniteSet(S), NEW w, \A x \in S : w[x] \in Int
    PROVE  \E g : Additive(g, w, S)
<1> DEFINE Bad == {T \in SUBSET S : ~\E g : Additive(g, w, T)}
<1> SUFFICES ASSUME Bad # {} PROVE FALSE
  OBVIOUS
<1>1. PICK M \in Bad : \A T \in SUBSET M : T # M => T \notin Bad
  <2>1. Bad \in SUBSET SUBSET S
    OBVIOUS
  <2> HIDE DEF Bad
  <2> QED BY <2>1, SmallestOne
<1>2. M # {}
  <2>1. Additive([T \in SUBSET {} |-> 0], w, {})
    BY DEF Additive
  <2> QED BY <2>1
<1>3. PICK x \in M : TRUE
  BY <1>2
<1>4. PICK g : Additive(g, w, M \ {x})
  <2>1. M \ {x} \in SUBSET M /\ M \ {x} # M /\ M \ {x} \in SUBSET S
    OBVIOUS
  <2> QED BY <1>1, <2>1
<1> DEFINE h == [T \in SUBSET M |-> IF x \in T THEN w[x] + g[T \ {x}] ELSE g[T]]
<1>5. /\ g \in [SUBSET (M \ {x}) -> Int] /\ g[{}] = 0
      /\ \A T \in SUBSET (M \ {x}) : \A y \in T : g[T] = w[y] + g[T \ {y}]
  BY <1>4 DEF Additive
<1>6. \A T \in SUBSET M : T \ {x} \in SUBSET (M \ {x}) /\ (x \notin T => T \ {x} = T)
  OBVIOUS
<1>7. \A y \in M : w[y] \in Int
  OBVIOUS
<1>8. h \in [SUBSET M -> Int] /\ h[{}] = 0
  BY <1>5, <1>6, <1>7
<1>9. ASSUME NEW T \in SUBSET M, NEW y \in T PROVE h[T] = w[y] + h[T \ {y}]
  <2>0. T \ {y} \in SUBSET M /\ w[x] \in Int /\ w[y] \in Int
    BY <1>7
  <2>1. CASE x \notin T
    <3>1. T \in SUBSET (M \ {x}) /\ h[T] = g[T] /\ h[T \ {y}] = g[T \ {y}]
      BY <2>1, <2>0
    <3> QED BY <1>5, <3>1
  <2>2. CASE x \in T /\ x = y
    <3>1. h[T] = w[x] + g[T \ {x}] /\ h[T \ {y}] = g[T \ {y}]
      BY <2>2, <2>0
    <3> QED BY <3>1, <2>2
  <2>3. CASE x \in T /\ x # y
    <3>1. h[T] = w[x] + g[T \ {x}] /\ h[T \ {y}] = w[x] + g[(T \ {y}) \ {x}]
      BY <2>3, <2>0
    <3>2. /\ T \ {x} \in SUBSET (M \ {x}) /\ y \in T \ {x}
          /\ (T \ {y}) \ {x} = (T \ {x}) \ {y} /\ (T \ {x}) \ {y} \in SUBSET (M \ {x})
      BY <2>3
    <3>3. g[T \ {x}] = w[y] + g[(T \ {x}) \ {y}] /\ g[(T \ {x}) \ {y}] \in Int
      BY <1>5, <3>2
    <3> DEFINE a == g[(T \ {x}) \ {y}]
    <3>4. h[T] = w[x] + (w[y] + a) /\ h[T \ {y}] = w[x] + a /\ a \in Int
      <4> HIDE DEF h
      <4> QED BY <3>1, <3>2, <3>3, Zenon
    <3> HIDE DEF h, a
    <3> QED BY <2>0, <3>4
  <2> QED BY <2>1, <2>2, <2>3
<1>10. Additive(h, w, M)
  <2> HIDE DEF h
  <2> QED BY <1>8, <1>9 DEF Additive
<1> QED BY <1>10

(* The total is that sum, whatever the order the elements are chosen in.   *)
LEMMA TotalIs ==
    ASSUME NEW S, IsFiniteSet(S), NEW w, \A x \in S : w[x] \in Int, NEW g, Additive(g, w, S)
    PROVE  Total(w, S) = g[S]
<1> DEFINE pick(s) == CHOOSE x \in s : TRUE
           Def(f) == [s \in SUBSET S |->
                        IF s = {} THEN 0 ELSE w[pick(s)] + f[s \ {pick(s)}]]
           iter == CHOOSE f : f = Def(f)
<1>1. Total(w, S) = iter[S]
  BY DEF Total, MapThenSumSet, MapThenFoldSet
<1>2. g = Def(g)
  <2>1. ASSUME NEW s \in SUBSET S
        PROVE g[s] = IF s = {} THEN 0 ELSE w[pick(s)] + g[s \ {pick(s)}]
    <3>1. s # {} => pick(s) \in s
      OBVIOUS
    <3> HIDE DEF pick
    <3> QED BY <3>1 DEF Additive
  <2> HIDE DEF pick
  <2> QED BY <2>1 DEF Additive
<1>3. iter = Def(iter)
  <2> HIDE DEF Def
  <2> QED BY <1>2
<1> HIDE DEF iter
<1> DEFINE Bad == {s \in SUBSET S : iter[s] # g[s]}
<1>4. CASE Bad # {}
  <2>1. PICK M \in Bad : \A T \in SUBSET M : T # M => T \notin Bad
    <3>1. Bad \in SUBSET SUBSET S
      OBVIOUS
    <3> HIDE DEF Bad
    <3> QED BY <1>4, <3>1, SmallestOne
  <2>2. iter[M] = IF M = {} THEN 0 ELSE w[pick(M)] + iter[M \ {pick(M)}]
    <3> HIDE DEF pick
    <3> QED BY <1>3
  <2>3. CASE M = {}
    BY <2>2, <2>3, <2>1 DEF Additive
  <2>4. CASE M # {}
    <3>1. pick(M) \in M
      BY <2>4
    <3> HIDE DEF pick
    <3>2. iter[M \ {pick(M)}] = g[M \ {pick(M)}]
      BY <2>1, <3>1
    <3> QED BY <2>1, <2>2, <2>4, <3>1, <3>2 DEF Additive
  <2> QED BY <2>3, <2>4
<1> QED BY <1>1, <1>4

(* One element more, one element less.                                     *)
LEMMA TotalAdd ==
    ASSUME NEW S, IsFiniteSet(S), NEW w, \A x \in S : w[x] \in Int
    PROVE  /\ Total(w, {}) = 0
           /\ Total(w, S) \in Int
           /\ \A x \in S : Total(w, S) = w[x] + Total(w, S \ {x})
<1>1. PICK g : Additive(g, w, S)
  BY AdditiveExists
<1>2. ASSUME NEW T \in SUBSET S PROVE Total(w, T) = g[T]
  <2> DEFINE h == [U \in SUBSET T |-> g[U]]
  <2>1. IsFiniteSet(T) /\ \A x \in T : w[x] \in Int
    BY FS_Subset
  <2>2. Additive(h, w, T)
    <3>1. h \in [SUBSET T -> Int] /\ h[{}] = 0
      BY <1>1 DEF Additive
    <3>2. ASSUME NEW U \in SUBSET T, NEW x \in U PROVE h[U] = w[x] + h[U \ {x}]
      BY <1>1 DEF Additive
    <3> HIDE DEF h
    <3> QED BY <3>1, <3>2 DEF Additive
  <2>3. h[T] = g[T]
    OBVIOUS
  <2> HIDE DEF h
  <2> QED BY <2>1, <2>2, <2>3, TotalIs
<1>3. ASSUME NEW x \in S PROVE Total(w, S) = w[x] + Total(w, S \ {x})
  <2>1. Total(w, S) = g[S] /\ Total(w, S \ {x}) = g[S \ {x}]
    BY <1>2
  <2> QED BY <1>1, <2>1 DEF Additive
<1>4. Total(w, {}) = g[{}] /\ Total(w, S) = g[S]
  BY <1>2
<1> QED BY <1>1, <1>3, <1>4 DEF Additive

-----------------------------------------------------------------------------
(* The event counters.                                                     *)

LEMMA EventsAreTotals ==
    ASSUME NEW c, NEW S
    PROVE  EventsOf(c, S) <=> c.events = Total(weight, S)
BY DEF EventsOf, Total

LEMMA WeightsAreNumbers ==
    ASSUME TypeOK
    PROVE  \A x \in Request : weight[x] \in Int
<1>1. weight \in [Request -> Weight]
  BY DEF TypeOK
<1>2. Weight \subseteq Int
  BY WeightAssumption
<1> QED BY <1>1, <1>2

LEMMA TotalGrows ==
    ASSUME TypeOK, NEW S \in SUBSET Request, NEW r \in Request, r \notin S
    PROVE  Total(weight, S \cup {r}) = Total(weight, S) + weight[r]
<1>0. \A x \in Request : weight[x] \in Int
  BY WeightsAreNumbers
<1>1. /\ IsFiniteSet(S \cup {r}) /\ \A x \in S \cup {r} : weight[x] \in Int
      /\ IsFiniteSet(S) /\ \A x \in S : weight[x] \in Int
  <2>1. S \cup {r} \in SUBSET Request
    OBVIOUS
  <2> QED BY <1>0, <2>1, FiniteSubsets
<1>2. r \in S \cup {r} /\ (S \cup {r}) \ {r} = S
  OBVIOUS
<1>3. Total(weight, S \cup {r}) = weight[r] + Total(weight, S) /\ Total(weight, S) \in Int
  BY <1>1, <1>2, TotalAdd
<1> QED BY <1>1, <1>3

LEMMA TotalShrinks ==
    ASSUME TypeOK, NEW S \in SUBSET Request, NEW r \in S
    PROVE  Total(weight, S \ {r}) = Total(weight, S) - weight[r]
<1>1. S \ {r} \in SUBSET Request /\ r \notin S \ {r} /\ (S \ {r}) \cup {r} = S
  OBVIOUS
<1>2. Total(weight, S) = Total(weight, S \ {r}) + weight[r]
  BY <1>1, TotalGrows
<1>0. \A x \in Request : weight[x] \in Int
  BY WeightsAreNumbers
<1>3. IsFiniteSet(S \ {r}) /\ \A x \in S \ {r} : weight[x] \in Int
  BY <1>0, <1>1, FiniteSubsets
<1>4. Total(weight, S \ {r}) \in Int /\ weight[r] \in Int
  BY <1>0, <1>3, TotalAdd
<1> QED BY <1>2, <1>4

(* The slots: every step is one of the pool's, or moves nobody.            *)
LEMMA GateEventsStep ==
    ASSUME IInv, IInv', EventsOf(gate, Holders), [Next]_vars
    PROVE  EventsOf(gate, Holders)'
<1>1. TypeOK /\ Holders \in SUBSET Request /\ gate.events = Total(weight, Holders)
  BY EventsAreTotals DEF IInv, Holders
<1>2. weight' = weight
  BY DEF Next, Step, ArriveToRoom, ArriveToWait, ArriveToFlood, TimerFires, Continue, Finish,
         PumpServes, PumpSkips, PumpStops, vars, request
<1>3. gate'.events = Total(weight, Holders')
  <2>1. CASE UNCHANGED Pool!vars
    BY <1>1, <2>1 DEF Pool!vars
  <2>2. CASE \E r \in Request : Pool!Waits(r) \/ Pool!TurnedAway(r)
    BY <1>1, <2>2 DEF Pool!Waits, Pool!TurnedAway
  <2>3. ASSUME NEW r \in Request, Pool!Enters(r) PROVE gate'.events = Total(weight, Holders')
    <3>1. /\ r \notin Holders /\ Holders' = Holders \cup {r}
          /\ gate'.events = gate.events + weight[r]
      BY <2>3 DEF Pool!Enters
    <3> QED BY <1>1, <3>1, TotalGrows
  <2>4. ASSUME NEW r \in Request, Pool!Leaves(r) PROVE gate'.events = Total(weight, Holders')
    <3>1. /\ r \in Holders /\ Holders' = Holders \ {r}
          /\ gate'.events = gate.events - weight[r]
      BY <2>4 DEF Pool!Leaves
    <3> QED BY <1>1, <3>1, TotalShrinks
  <2>5. Pool!Next \/ UNCHANGED Pool!vars
    BY PoolNext
  <2> QED BY <2>1, <2>2, <2>3, <2>4, <2>5 DEF Pool!Next
<1>4. EventsOf(gate, Holders)' <=> gate'.events = Total(weight', Holders')
  BY DEF EventsOf, Total, MapThenSumSet, MapThenFoldSet
<1> QED BY <1>2, <1>3, <1>4

(* The callers of shadow mode: let in by Admit, out by Finish.             *)
LEMMA RealEventsStep ==
    ASSUME IInv, EventsOf(real, Callers), [Next]_vars
    PROVE  EventsOf(real, Callers)'
<1>1. /\ TypeOK /\ Callers \in SUBSET Request /\ real.events = Total(weight, Callers)
      /\ caller \in [Request -> Caller]
  BY EventsAreTotals DEF IInv, TypeOK, Callers, Running
<1>2. UNCHANGED request
  BY DEF Next, Step, ArriveToRoom, ArriveToWait, ArriveToFlood, TimerFires, Continue, Finish,
         PumpServes, PumpSkips, PumpStops, vars
<1>3. real'.events = Total(weight, Callers')
  <2>1. ASSUME real' = real, Callers' = Callers PROVE real'.events = Total(weight, Callers')
    BY <1>1, <2>1
  <2>2. CASE mode # "shadow"
    <3>1. real' = real
      BY <2>2 DEF Next, Step, ArriveToRoom, ArriveToWait, ArriveToFlood, Admit, TimerFires,
             Continue, Finish, PumpServes, PumpSkips, PumpStops, vars, shadow
    <3> QED BY <1>2, <2>1, <2>2, <3>1 DEF Callers, request
  <2>3. ASSUME NEW r \in Request, caller[r] = "idle", Admit(r), mode = "shadow"
        PROVE  real'.events = Total(weight, Callers')
    <3>1. /\ real'.events = real.events + weight[r]
          /\ caller' = [caller EXCEPT ![r] = "running"]
      BY <2>3 DEF Admit, Counted
    <3>2. r \notin Callers /\ Callers' = Callers \cup {r}
      BY <1>1, <1>2, <2>3, <3>1 DEF Callers, Running, request
    <3> QED BY <1>1, <3>1, <3>2, TotalGrows
  <2>4. ASSUME NEW r \in Request, Finish(r), mode = "shadow"
        PROVE  real'.events = Total(weight, Callers')
    <3>1. /\ real'.events = real.events - weight[r] /\ caller[r] = "running"
          /\ caller' = [caller EXCEPT ![r] = "done"]
      BY <2>4 DEF Finish, Uncounted
    <3>2. r \in Callers /\ Callers' = Callers \ {r}
      BY <1>1, <1>2, <2>4, <3>1 DEF Callers, Running, request
    <3> QED BY <1>1, <3>1, <3>2, TotalShrinks
  <2>5. ASSUME NEW r \in Request, TimerFires(r) \/ PumpServes(r) \/ PumpSkips(r), mode = "shadow"
        PROVE  real' = real /\ Callers' = Callers
    BY <1>2, <2>5 DEF TimerFires, PumpServes, PumpSkips, shadow, Callers, Running, request
  <2>6. ASSUME NEW r \in Request, Continue(r), mode = "shadow"
        PROVE  real' = real /\ Callers' = Callers
    <3>1. caller[r] \in {"running", "done"}
      BY <2>6 DEF Continue, IInv, LifeOK
    <3>2. caller' = caller
      BY <1>1, <2>6, <3>1 DEF Continue
    <3> QED BY <1>2, <2>6, <3>2 DEF Continue, shadow, Callers, Running, request
  <2>7. CASE PumpStops \/ UNCHANGED vars
    BY <1>2, <2>7, <2>1 DEF PumpStops, vars, shadow, Callers, Running, request
  <2>8. ASSUME NEW r \in Request, Step(r), mode = "shadow"
        PROVE  real'.events = Total(weight, Callers')
    <3>1. CASE ArriveToRoom(r) \/ ArriveToWait(r) \/ ArriveToFlood(r)
      BY <2>3, <2>8, <3>1 DEF ArriveToRoom, ArriveToWait, ArriveToFlood
    <3>2. CASE ~(ArriveToRoom(r) \/ ArriveToWait(r) \/ ArriveToFlood(r))
      BY <2>1, <2>4, <2>5, <2>6, <2>8, <3>2 DEF Step
    <3> QED BY <3>1, <3>2
  <2> QED BY <2>2, <2>7, <2>8 DEF Next
<1>4. EventsOf(real, Callers)' <=> real'.events = Total(weight', Callers')
  BY DEF EventsOf, Total, MapThenSumSet, MapThenFoldSet
<1> QED BY <1>2, <1>3, <1>4 DEF request

LEMMA EventsInvariance == Spec => []EventsCounted
<1>1. Init => EventsCounted
  <2> SUFFICES ASSUME Init PROVE EventsCounted
    OBVIOUS
  <2>1. Holders = {} /\ Callers = {}
    BY DEF Init, Holders, Callers, Running
  <2>2. Total(weight, {}) = 0
    BY TotalAdd, FS_EmptySet
  <2> QED BY <2>1, <2>2, EventsAreTotals DEF Init, EventsCounted, NothingCounted
<1>2. IInv /\ IInv' /\ EventsCounted /\ [Next]_vars => EventsCounted'
  BY GateEventsStep, RealEventsStep DEF EventsCounted
<1> QED BY <1>1, <1>2, Invariance, PTL DEF Spec

(* The counters, slots and events, of the gate and of shadow mode's real   *)
(* callers, are exactly what is held, whatever the traffic.                *)
THEOREM CountersHonest == Spec => []HonestCounters
<1>1. SlotsCounted /\ EventsCounted => HonestCounters
  BY DEF HonestCounters
<1> QED BY <1>1, SlotsHonest, EventsInvariance, PTL

(* So the budget binds what is really held, not only the counter: the      *)
(* batches let in together never carry more than EventBudget events.       *)
THEOREM BudgetKept ==
    Spec => [](MapThenSumSet(LAMBDA r : weight[r], Holders) <= EventBudget)
<1> DEFINE Within == gate.events <= EventBudget
<1>1. Init => Within
  BY LimitsAssumption DEF Init, NothingCounted
<1>2. IInv /\ IInv' /\ Within /\ [Next]_vars => Within'
  <2> SUFFICES ASSUME IInv, IInv', Within, [Next]_vars PROVE Within'
    OBVIOUS
  <2>1. /\ gate.events \in Int /\ EventBudget \in Nat
        /\ \A r \in Request : weight[r] \in Nat
    BY LimitsAssumption, WeightAssumption DEF IInv, TypeOK, Counters
  <2>2. Pool!Next \/ UNCHANGED Pool!vars
    BY PoolNext
  <2>3. \/ gate'.events = gate.events
        \/ \E r \in Request : gate'.events = gate.events - weight[r]
        \/ \E r \in Request : /\ gate'.events = gate.events + weight[r]
                              /\ gate.events + weight[r] <= EventBudget
    BY <2>2 DEF Pool!Next, Pool!vars, Pool!Waits, Pool!Enters, Pool!Fits, Pool!TurnedAway,
                Pool!Leaves
  <2> QED BY <2>1, <2>3
<1>3. Spec => []Within
  BY <1>1, <1>2, Invariance, PTL DEF Spec
<1>4. Within /\ EventsCounted => MapThenSumSet(LAMBDA r : weight[r], Holders) <= EventBudget
  BY DEF EventsCounted, EventsOf
<1> QED BY <1>3, <1>4, EventsInvariance, PTL

-----------------------------------------------------------------------------
(* What keeps the gate from standing still.                                *)

(* #queue.length counts the waiters.                                       *)
LEMMA WaitingCounts == Spec => [](waiting = Cardinality(Queued))
<1> DEFINE Counts == waiting = Cardinality(Queued)
<1>1. Init => Counts
  <2> SUFFICES ASSUME Init PROVE Counts
    OBVIOUS
  <2>1. Queued = {}
    BY DEF Init, Queued
  <2> QED BY <2>1, FS_EmptySet DEF Init
<1>2. IInv /\ Counts /\ [Next]_vars => Counts'
  <2> SUFFICES ASSUME IInv, Counts, [Next]_vars PROVE Counts'
    OBVIOUS
  <2>1. /\ IsFiniteSet(Queued) /\ Cardinality(Queued) \in Nat /\ waiting \in Nat
        /\ slot \in [Request -> Slot] /\ scan \subseteq Queued
    BY FiniteSubsets, LimitsAssumption DEF Queued, IInv, TypeOK
  <2>2. ASSUME NEW r \in Request, Queued' = Queued \cup {r}, r \notin Queued,
               waiting' = waiting + 1
        PROVE  Counts'
    <3>1. Cardinality(Queued \cup {r}) = Cardinality(Queued) + 1
      BY <2>1, <2>2, FS_AddElement
    <3> QED BY <2>2, <3>1
  <2>3. ASSUME NEW r \in Queued, Queued' = Queued \ {r}, waiting' = waiting - 1
        PROVE  Counts'
    <3>1. Cardinality(Queued \ {r}) = Cardinality(Queued) - 1
      BY <2>1, FS_RemoveElement
    <3> QED BY <2>3, <3>1
  <2>4. ASSUME Queued' = Queued, waiting' = waiting PROVE Counts'
    BY <2>4
  <2>5. ASSUME NEW r \in Request, ArriveToRoom(r) \/ ArriveToFlood(r) PROVE Counts'
    <3>1. /\ slot[r] = "none" /\ waiting' = waiting
          /\ \/ slot' = [slot EXCEPT ![r] = "granted"]
             \/ slot' = [slot EXCEPT ![r] = "refused"]
      BY <2>5 DEF ArriveToRoom, ArriveToFlood, Take, queue, IInv, LifeOK
    <3>2. Queued' = Queued
      BY <2>1, <3>1 DEF Queued
    <3> QED BY <2>4, <3>1, <3>2
  <2>6. ASSUME NEW r \in Request, ArriveToWait(r) PROVE Counts'
    <3>1. /\ slot[r] = "none" /\ waiting' = waiting + 1
          /\ slot' = [slot EXCEPT ![r] = "queued"]
      BY <2>6 DEF ArriveToWait, Enqueue, IInv, LifeOK
    <3>2. Queued' = Queued \cup {r} /\ r \notin Queued
      BY <2>1, <3>1 DEF Queued
    <3> QED BY <2>2, <3>1, <3>2
  <2>7. ASSUME NEW r \in Request, TimerFires(r) \/ PumpServes(r) PROVE Counts'
    <3>1. /\ r \in Queued /\ waiting' = waiting - 1
          /\ \/ slot' = [slot EXCEPT ![r] = "granted"]
             \/ slot' = [slot EXCEPT ![r] = "refused"]
      BY <2>1, <2>7 DEF TimerFires, PumpServes, Take, Splice, Oldest, Queued
    <3>2. Queued' = Queued \ {r}
      BY <2>1, <3>1 DEF Queued
    <3> QED BY <2>3, <3>1, <3>2
  <2>8. ASSUME NEW r \in Request, Continue(r) \/ Finish(r) PROVE Counts'
    <3>1. /\ waiting' = waiting
          /\ \/ slot' = slot
             \/ /\ slot[r] \in {"granted", "handed"}
                /\ \/ slot' = [slot EXCEPT ![r] = "handed"]
                   \/ slot' = [slot EXCEPT ![r] = "back"]
      BY <2>8 DEF Continue, Finish, GiveBack, queue
    <3>2. Queued' = Queued
      BY <2>1, <3>1 DEF Queued
    <3> QED BY <2>4, <3>1, <3>2
  <2>9. ASSUME NEW r \in Request, PumpSkips(r) PROVE Counts'
    BY <2>4, <2>9 DEF PumpSkips, queue, Queued
  <2>10. CASE PumpStops \/ UNCHANGED vars
    BY <2>4, <2>10 DEF PumpStops, vars, queue, Queued
  <2> QED BY <2>5, <2>6, <2>7, <2>8, <2>9, <2>10 DEF Next, Step
<1> QED BY <1>1, <1>2, Invariance, PTL DEF Spec

(* No timer, continuation, handler or scan is left to run.                 *)
NothingToRun ==
    /\ scan = {}
    /\ \A r \in Request : slot[r] \notin {"queued", "granted"} /\ caller[r] # "running"

(* The gate stands still only when it is drained: while a slot is held,    *)
(* real or simulated, or a caller waits, something is left to run that     *)
(* brings it back (with EveryStepCounts, all of EverySlotComesBack but     *)
(* the fairness).                                                          *)
THEOREM StandsStillOnlyDrained == Spec => [](NothingToRun => Drained)
<1>1. ASSUME IInv, EventsCounted, waiting = Cardinality(Queued), NothingToRun
      PROVE  Drained
  <2>1. Holders = {} /\ Queued = {} /\ Running = {} /\ Callers = {}
    BY <1>1 DEF NothingToRun, IInv, LifeOK, Holders, Queued, Running, Callers
  <2>2. \A S \in SUBSET Request : S = {} => Cardinality(S) = 0
    BY FS_EmptySet
  <2>3. Total(weight, {}) = 0
    BY TotalAdd, FS_EmptySet
  <2>4. ASSUME NEW c \in Counters, SlotsOf(c, {}), EventsOf(c, {}) PROVE c = NothingCounted
    <3>1. c.inFlight = 0 /\ c.events = 0
      BY <2>3, <2>4, FS_EmptySet, EventsAreTotals DEF SlotsOf
    <3>2. ASSUME NEW k \in Key PROVE c.held[k] = 0
      <4>1. {r \in {} : key[r] = k} = {}
        OBVIOUS
      <4>2. c.held[k] = Cardinality({})
        BY <2>4, <4>1 DEF SlotsOf
      <4> QED BY <4>2, FS_EmptySet
    <3>3. c.held = [k \in Key |-> 0]
      BY <3>2 DEF Counters
    <3> QED BY <3>1, <3>3 DEF Counters, NothingCounted
  <2>5. gate = NothingCounted
    BY <1>1, <2>1, <2>4 DEF IInv, TypeOK, SlotsCounted, EventsCounted
  <2>6. real = NothingCounted
    BY <1>1, <2>1, <2>4 DEF IInv, TypeOK, SlotsCounted, EventsCounted
  <2>7. ceilingOnlyInFlight = 0 /\ waiting = 0
    <3>1. ceilingOnlyHeld = {} /\ ceilingOnlyInFlight = Cardinality(ceilingOnlyHeld)
      BY <1>1, <2>1 DEF IInv, TypeOK, SlotsCounted
    <3> QED BY <1>1, <2>1, <3>1, FS_EmptySet
  <2>8. \A r \in Request : caller[r] \in {"idle", "done", "refused"}
    BY <1>1 DEF IInv, TypeOK, Caller, LifeOK, NothingToRun
  <2> QED BY <2>5, <2>6, <2>7, <2>8 DEF Drained
<1> QED BY <1>1, Invariance, EventsInvariance, WaitingCounts, PTL

(* Nobody waits for nobody: outside a scan, a request that waits for room  *)
(* waits for slots that others hold, unless it is heavier than the whole   *)
(* event budget.                                                           *)
THEOREM WaitersWaitForHolders ==
    Spec => [](scan = {} => \A r \in Queued : Holders # {} \/ weight[r] > EventBudget)
<1>1. ASSUME IInv, EventsCounted
      PROVE  scan = {} => \A r \in Queued : Holders # {} \/ weight[r] > EventBudget
  <2> SUFFICES ASSUME scan = {}, NEW r \in Queued, Holders = {}
               PROVE  weight[r] > EventBudget
    OBVIOUS
  <2>1. Full(r) /\ r \in Request
    BY <1>1 DEF IInv, PassedOver, Queued
  <2>2. gate.inFlight = 0
    BY <1>1, FS_EmptySet DEF IInv, SlotsCounted, SlotsOf
  <2>3. gate.held[key[r]] = 0
    <3>1. key[r] \in Key /\ {q \in Holders : key[q] = key[r]} = {}
      BY <1>1, <2>1 DEF IInv, TypeOK
    <3> QED BY <1>1, <3>1, FS_EmptySet DEF IInv, SlotsCounted, SlotsOf
  <2>4. gate.events = 0
    BY <1>1, TotalAdd, FS_EmptySet, EventsAreTotals DEF EventsCounted
  <2>5. weight[r] \in Nat /\ EventBudget \in Nat
    BY <1>1, <2>1, WeightAssumption, LimitsAssumption DEF IInv, TypeOK
  <2> QED BY <2>1, <2>2, <2>3, <2>4, <2>5, Derived DEF Full
<1> QED BY <1>1, Invariance, EventsInvariance, PTL

(* The stages a request still has before it, as a slot and as a call.      *)
SlotAhead(s) ==
    CASE s = "none" -> 4 [] s = "queued" -> 3 [] s = "granted" -> 2 [] s = "handed" -> 1
      [] OTHER -> 0
CallerAhead(c) ==
    CASE c = "idle" -> 3 [] c = "waiting" -> 2 [] c = "running" -> 1 [] OTHER -> 0
Ahead == [r \in Request |-> SlotAhead(slot[r]) + CallerAhead(caller[r])]
Left == MapThenSumSet(LAMBDA r : Ahead[r], Request)

LEMMA AheadIs ==
    /\ SlotAhead("none") = 4 /\ SlotAhead("queued") = 3 /\ SlotAhead("granted") = 2
    /\ SlotAhead("handed") = 1 /\ SlotAhead("refused") = 0 /\ SlotAhead("back") = 0
    /\ CallerAhead("idle") = 3 /\ CallerAhead("waiting") = 2 /\ CallerAhead("running") = 1
    /\ CallerAhead("done") = 0 /\ CallerAhead("refused") = 0
BY DEF SlotAhead, CallerAhead

(* Equal weights, equal totals; and a total of numbers is a number.        *)
LEMMA TotalSame ==
    ASSUME NEW S, IsFiniteSet(S), NEW v, NEW w,
           \A x \in S : v[x] \in Int /\ w[x] = v[x]
    PROVE  Total(v, S) = Total(w, S)
<1>1. PICK g : Additive(g, v, S)
  BY AdditiveExists
<1>2. Additive(g, w, S)
  BY <1>1 DEF Additive
<1>3. \A x \in S : w[x] \in Int
  OBVIOUS
<1> QED BY <1>1, <1>2, <1>3, TotalIs

LEMMA TotalNat ==
    ASSUME NEW S, IsFiniteSet(S), NEW w, \A x \in S : w[x] \in Nat
    PROVE  Total(w, S) \in Nat
<1>1. PICK g : Additive(g, w, S)
  BY AdditiveExists
<1>2. Total(w, S) = g[S]
  BY <1>1, TotalIs
<1> DEFINE Bad == {T \in SUBSET S : g[T] \notin Nat}
<1>3. CASE Bad # {}
  <2>1. PICK M \in Bad : \A T \in SUBSET M : T # M => T \notin Bad
    <3>1. Bad \in SUBSET SUBSET S
      OBVIOUS
    <3> HIDE DEF Bad
    <3> QED BY <1>3, <3>1, SmallestOne
  <2>2. M # {}
    <3>1. g[{}] = 0 /\ g[M] \notin Nat
      BY <1>1, <2>1 DEF Additive
    <3> QED BY <3>1
  <2>3. PICK x \in M : TRUE
    BY <2>2
  <2>4. M \ {x} \in SUBSET M /\ M \ {x} # M /\ M \ {x} \in SUBSET S /\ M \in SUBSET S
    OBVIOUS
  <2>5. g[M \ {x}] \in Nat
    BY <2>1, <2>4
  <2>6. g[M] = w[x] + g[M \ {x}] /\ w[x] \in Nat
    BY <1>1, <2>3, <2>4 DEF Additive
  <2> QED BY <2>1, <2>5, <2>6
<1> QED BY <1>2, <1>3

LEMMA AheadNat ==
    ASSUME TypeOK
    PROVE  \A r \in Request : Ahead[r] \in Nat
<1>1. \A s \in Slot : SlotAhead(s) \in Nat
  BY AheadIs DEF Slot
<1>2. \A c \in Caller : CallerAhead(c) \in Nat
  BY AheadIs DEF Caller
<1> QED BY <1>1, <1>2 DEF Ahead, TypeOK

(* A step of one request that leaves it fewer stages.                      *)
LEMMA LeftDrops ==
    ASSUME TypeOK, TypeOK', NEW r \in Request,
           \A q \in Request \ {r} : slot'[q] = slot[q] /\ caller'[q] = caller[q],
           SlotAhead(slot'[r]) + CallerAhead(caller'[r])
                < SlotAhead(slot[r]) + CallerAhead(caller[r])
    PROVE  Left' < Left
<1> DEFINE v == Ahead
           w == [q \in Request |-> SlotAhead(slot'[q]) + CallerAhead(caller'[q])]
<1>1. \A q \in Request : v[q] \in Nat
  BY AheadNat
<1>2. \A s \in Slot : SlotAhead(s) \in Nat
  BY AheadIs DEF Slot
<1>3. \A c \in Caller : CallerAhead(c) \in Nat
  BY AheadIs DEF Caller
<1>4. \A q \in Request : w[q] \in Nat
  BY <1>2, <1>3 DEF TypeOK
<1>5. (\A q \in Request \ {r} : w[q] = v[q]) /\ w[r] < v[r]
  BY DEF Ahead
<1>6. Left = Total(v, Request)
  BY DEF Left, Total
<1>7. Left' = Total(w, Request)
  BY DEF Left, Ahead, Total, MapThenSumSet, MapThenFoldSet, SlotAhead, CallerAhead
<1> HIDE DEF v, w
<1>8. IsFiniteSet(Request) /\ IsFiniteSet(Request \ {r})
  BY RequestAssumption, FS_RemoveElement
<1>9. Total(v, Request) = v[r] + Total(v, Request \ {r})
  <2>1. \A q \in Request : v[q] \in Int
    BY <1>1
  <2> QED BY <1>8, <2>1, TotalAdd
<1>10. Total(w, Request) = w[r] + Total(w, Request \ {r})
  <2>1. \A q \in Request : w[q] \in Int
    BY <1>4
  <2> QED BY <1>8, <2>1, TotalAdd
<1>11. Total(v, Request \ {r}) = Total(w, Request \ {r})
  BY <1>1, <1>5, <1>8, TotalSame
<1>12. Total(v, Request \ {r}) \in Nat
  BY <1>1, <1>8, TotalNat
<1> QED BY <1>1, <1>4, <1>5, <1>6, <1>7, <1>9, <1>10, <1>11, <1>12

LEMMA StepCounts ==
    ASSUME IInv, IInv', NEW r \in Request, Step(r)
    PROVE  \/ Left' < Left
           \/ Left' = Left /\ scan' \subseteq scan /\ scan' # scan
<1>0. /\ slot \in [Request -> Slot] /\ caller \in [Request -> Caller]
      /\ mode \in {"shadow", "enforcing"} /\ TypeOK /\ TypeOK' /\ LifeOK
  BY DEF IInv, TypeOK
<1>1. ASSUME NEW s \in Slot, NEW c \in Caller,
             slot' = [slot EXCEPT ![r] = s], caller' = [caller EXCEPT ![r] = c],
             SlotAhead(s) + CallerAhead(c) < SlotAhead(slot[r]) + CallerAhead(caller[r])
      PROVE  Left' < Left
  <2>1. \A q \in Request \ {r} : slot'[q] = slot[q] /\ caller'[q] = caller[q]
    BY <1>0, <1>1
  <2>2. slot'[r] = s /\ caller'[r] = c
    BY <1>0, <1>1
  <2> QED BY <1>0, <1>1, <2>1, <2>2, LeftDrops
<1>2. slot[r] \in Slot /\ caller[r] \in Caller
      /\ slot = [slot EXCEPT ![r] = slot[r]] /\ caller = [caller EXCEPT ![r] = caller[r]]
  BY <1>0
<1>3. CASE ArriveToRoom(r) \/ ArriveToWait(r) \/ ArriveToFlood(r)
  <2>1. slot[r] = "none" /\ caller[r] = "idle"
    BY <1>0, <1>3 DEF ArriveToRoom, ArriveToWait, ArriveToFlood, LifeOK
  <2>2. \E s \in {"granted", "queued", "refused"} : slot' = [slot EXCEPT ![r] = s]
    BY <1>3 DEF ArriveToRoom, ArriveToWait, ArriveToFlood, Take
  <2>3. \E c \in {"waiting", "running", "refused"} : caller' = [caller EXCEPT ![r] = c]
    BY <1>3 DEF ArriveToRoom, ArriveToWait, ArriveToFlood, Admit
  <2>4. PICK s \in {"granted", "queued", "refused"} : slot' = [slot EXCEPT ![r] = s]
    BY <2>2
  <2>5. PICK c \in {"waiting", "running", "refused"} : caller' = [caller EXCEPT ![r] = c]
    BY <2>3
  <2>6. SlotAhead(s) \in {0, 2, 3} /\ CallerAhead(c) \in {0, 1, 2}
    BY AheadIs
  <2>7. s \in Slot /\ c \in Caller
    BY DEF Slot, Caller
  <2>8. SlotAhead(s) + CallerAhead(c) < SlotAhead(slot[r]) + CallerAhead(caller[r])
    BY <2>1, <2>6, AheadIs
  <2> QED BY <1>1, <2>4, <2>5, <2>7, <2>8
<1>4. CASE TimerFires(r)
  <2>1. slot[r] = "queued"
    BY <1>4 DEF TimerFires
  <2>2. \E s \in {"granted", "refused"} : slot' = [slot EXCEPT ![r] = s]
    BY <1>4 DEF TimerFires, Take
  <2>3. PICK s \in {"granted", "refused"} : slot' = [slot EXCEPT ![r] = s]
    BY <2>2
  <2>4. caller' = [caller EXCEPT ![r] = caller[r]] \/ caller' = [caller EXCEPT ![r] = "refused"]
    BY <1>2, <1>4 DEF TimerFires
  <2>5. SlotAhead(s) \in {0, 2} /\ CallerAhead(caller[r]) \in {0, 1, 2, 3} /\ s \in Slot
    BY <1>2, AheadIs DEF Caller, Slot
  <2>6. "refused" \in Caller
    BY DEF Caller
  <2>7. /\ SlotAhead(s) < SlotAhead(slot[r])
        /\ SlotAhead(s) + CallerAhead(caller[r]) < SlotAhead(slot[r]) + CallerAhead(caller[r])
        /\ SlotAhead(s) + CallerAhead("refused") < SlotAhead(slot[r]) + CallerAhead(caller[r])
    BY <2>1, <2>5, AheadIs
  <2> QED BY <1>1, <1>2, <2>3, <2>4, <2>5, <2>6, <2>7
<1>5. CASE Continue(r)
  <2>1. slot[r] = "granted"
    BY <1>5 DEF Continue
  <2>2. CASE mode = "shadow" /\ caller[r] = "done"
    <3>1. slot' = [slot EXCEPT ![r] = "back"] /\ caller' = [caller EXCEPT ![r] = caller[r]]
      BY <1>2, <1>5, <2>2 DEF Continue, GiveBack
    <3>2. CallerAhead(caller[r]) \in Nat /\ "back" \in Slot
      BY <2>2, AheadIs DEF Slot
    <3>3. SlotAhead("back") + CallerAhead(caller[r]) < SlotAhead(slot[r]) + CallerAhead(caller[r])
      BY <2>1, <3>2, AheadIs
    <3> QED BY <1>1, <1>2, <3>1, <3>2, <3>3
  <2>3. CASE ~(mode = "shadow" /\ caller[r] = "done")
    <3>1. slot' = [slot EXCEPT ![r] = "handed"] /\ caller' = [caller EXCEPT ![r] = "running"]
      BY <1>5, <2>3 DEF Continue
    <3>2. caller[r] \in {"waiting", "running"}
      BY <1>0, <2>1, <2>3 DEF LifeOK
    <3>3. CallerAhead(caller[r]) \in {1, 2} /\ "handed" \in Slot /\ "running" \in Caller
      BY <3>2, AheadIs DEF Slot, Caller
    <3>4. SlotAhead("handed") + CallerAhead("running") < SlotAhead(slot[r]) + CallerAhead(caller[r])
      BY <2>1, <3>3, AheadIs
    <3> QED BY <1>1, <3>1, <3>3, <3>4
  <2> QED BY <2>2, <2>3
<1>6. CASE Finish(r)
  <2>1. caller[r] = "running" /\ caller' = [caller EXCEPT ![r] = "done"]
    BY <1>6 DEF Finish
  <2>2. \/ slot' = [slot EXCEPT ![r] = slot[r]]
        \/ slot[r] = "handed" /\ slot' = [slot EXCEPT ![r] = "back"]
    BY <1>2, <1>6 DEF Finish, GiveBack
  <2>3. SlotAhead(slot[r]) \in Nat /\ "back" \in Slot /\ "done" \in Caller
    BY <1>2, AheadIs DEF Slot, Caller
  <2>4. /\ SlotAhead(slot[r]) + CallerAhead("done") < SlotAhead(slot[r]) + CallerAhead(caller[r])
        /\ slot[r] = "handed" => SlotAhead("back") + CallerAhead("done")
                                   < SlotAhead(slot[r]) + CallerAhead(caller[r])
    BY <2>1, <2>3, AheadIs
  <2> QED BY <1>1, <1>2, <2>1, <2>2, <2>3, <2>4
<1>7. CASE PumpServes(r)
  <2>1. /\ slot[r] = "queued" /\ slot' = [slot EXCEPT ![r] = "granted"]
        /\ caller' = [caller EXCEPT ![r] = caller[r]]
    BY <1>2, <1>7 DEF PumpServes, Take, Oldest, IInv, TypeOK, Queued
  <2>2. CallerAhead(caller[r]) \in Nat /\ "granted" \in Slot
    BY <1>2, AheadIs DEF Slot, Caller
  <2>3. SlotAhead("granted") + CallerAhead(caller[r]) < SlotAhead(slot[r]) + CallerAhead(caller[r])
    BY <2>1, <2>2, AheadIs
  <2> QED BY <1>1, <1>2, <2>1, <2>2, <2>3
<1>8. CASE PumpSkips(r)
  <2>1. r \in scan /\ scan' = scan \ {r} /\ UNCHANGED <<slot, caller>>
    BY <1>8 DEF PumpSkips, Oldest
  <2>2. Left' = Left
    BY <2>1 DEF Left, Ahead, MapThenSumSet, MapThenFoldSet, SlotAhead, CallerAhead
  <2> QED BY <2>1, <2>2
<1> QED BY <1>3, <1>4, <1>5, <1>6, <1>7, <1>8 DEF Step

(* No livelock: every step of the gate leaves some request fewer stages,   *)
(* or the running scan fewer waiters to visit; timers, releases and scans  *)
(* cannot keep each other busy for ever (#pump, emission-gate.ts).         *)
THEOREM EveryStepCounts ==
    Spec => [][ /\ Left \in Nat
                /\ \/ Left' < Left
                   \/ Left' = Left /\ scan' \subseteq scan /\ scan' # scan ]_vars
<1>1. ASSUME IInv PROVE Left \in Nat
  <2>1. Left = Total(Ahead, Request) /\ \A r \in Request : Ahead[r] \in Nat
    BY <1>1, AheadNat DEF Left, Total, IInv
  <2> QED BY <2>1, RequestAssumption, TotalNat
<1>2. ASSUME PumpStops PROVE Left' = Left /\ scan' \subseteq scan /\ scan' # scan
  <2>1. scan # {} /\ scan' = {} /\ UNCHANGED <<slot, caller>>
    BY <1>2 DEF PumpStops, Oldest
  <2>2. Left' = Left
    BY <2>1 DEF Left, Ahead, MapThenSumSet, MapThenFoldSet, SlotAhead, CallerAhead
  <2> QED BY <2>1, <2>2
<1> DEFINE Counts == /\ Left \in Nat
                     /\ \/ Left' < Left
                        \/ Left' = Left /\ scan' \subseteq scan /\ scan' # scan
<1>3. IInv /\ IInv' /\ [Next]_vars => [Counts]_vars
  <2> SUFFICES ASSUME IInv, IInv', Next PROVE Counts
    OBVIOUS
  <2> QED BY <1>1, <1>2, StepCounts DEF Next
<1> QED BY <1>3, Invariance, PTL DEF Spec
=============================================================================
