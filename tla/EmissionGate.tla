---------------------------- MODULE EmissionGate ----------------------------
(***************************************************************************)
(* Admission control of POST /api/test-events on one server instance: the  *)
(* gate (services/admission/emission-gate.ts) and the middleware that      *)
(* calls it (middleware/emission-admission.ts).                            *)
(*                                                                         *)
(* Node runs one synchronous section at a time, so a section is an action. *)
(* The one exception is #pump, a loop of unbounded length: one action per  *)
(* waiter it visits, during which no other action is enabled.  A promise   *)
(* that is resolved runs its continuation later (Continue).                *)
(*                                                                         *)
(* #queue is its length, waiting, and the place of each waiter in it.      *)
(***************************************************************************)
EXTENDS Integers, FiniteSets, FiniteSetsExt

CONSTANTS
    Request,        \* calls of the middleware, one acquire() each
    Key,            \* hashed credentials, "anonymous" among them
    Weight,         \* events a request may carry
    PoolMax,        \* DB_POOL_MAX
    EventBudget,    \* MEMEX_EMISSION_EVENT_BUDGET
    MaxWaiters,     \* deriveMaxWaiters, at least 1
    MaxTrackedKeys  \* the backstop on #held

ASSUME RequestAssumption == IsFiniteSet(Request)
ASSUME WeightAssumption == Weight \subseteq Nat \ {0}
ASSUME PoolAssumption == PoolMax \in Nat \ {0}
ASSUME LimitsAssumption == EventBudget \in Nat \ {0} /\ MaxWaiters \in Nat \ {0}

Larger(a, b) == IF a > b THEN a ELSE b
Smaller(a, b) == IF a < b THEN a ELSE b

deriveCeiling == Larger(1, PoolMax \div 2)

(* Mutant: the floor of two without the cap that leaves room.              *)
SliceWithoutCap == Larger(2, deriveCeiling \div 2)

derivePerKeySlice == Larger(1, Smaller(deriveCeiling - 1, Larger(2, deriveCeiling \div 2)))

(* "the live size is bounded by ceiling -- far below this"                 *)
ASSUME BackstopAssumption == MaxTrackedKeys \in Nat /\ MaxTrackedKeys >= deriveCeiling

VARIABLES
    mode,       \* "shadow" or "enforcing"
    key,        \* key[r]: r's credential
    weight,     \* weight[r]: the events r carries
    caller,     \* caller[r]: the middleware's call of r
    slot,       \* slot[r]: r's slot, a simulated one in shadow mode
    place,      \* place[r]: r's place in #queue, 0 outside it
    waiting,    \* #queue.length
    scan,       \* waiters #pump's snapshot still holds
    gate,       \* #held, #inFlight, #inFlightEvents
    real,       \* #realHeld, #realInFlight, #realInFlightEvents (shadow only)
    ceilingOnlyInFlight,    \* slots held of the ceiling-only counterfactual (shadow only)
    ceilingOnlyHeld         \* callers that hold one

request == <<mode, key, weight>>
queue == <<place, waiting>>
shadow == <<real, ceilingOnlyInFlight, ceilingOnlyHeld>>
vars == <<request, caller, slot, queue, scan, gate, shadow>>

Caller == {"idle", "waiting", "running", "done", "refused"}

(* "granted": taken, the continuation that hands it over still to run.     *)
Slot == {"none", "queued", "granted", "handed", "refused", "back"}

-----------------------------------------------------------------------------
(* The counters.                                                           *)

Counted(c, r) ==
    [held |-> [c.held EXCEPT ![key[r]] = @ + 1],
     inFlight |-> c.inFlight + 1,
     events |-> c.events + weight[r]]

(* Mutant: a release takes one event off, whatever the weight.             *)
UncountedByOne(c, r) ==
    [held |-> [c.held EXCEPT ![key[r]] = Larger(0, @ - 1)],
     inFlight |-> c.inFlight - 1,
     events |-> c.events - 1]

Uncounted(c, r) ==
    [held |-> [c.held EXCEPT ![key[r]] = Larger(0, @ - 1)],
     inFlight |-> c.inFlight - 1,
     events |-> c.events - weight[r]]

TrackedKeys == {k \in Key : gate.held[k] > 0}

(* Why #take refuses r, "none" when it does not.                           *)
Cause(r) ==
    IF gate.held[key[r]] >= derivePerKeySlice THEN "key_slice_full"
    ELSE IF gate.inFlight >= deriveCeiling THEN "instance_ceiling_full"
    ELSE IF gate.events + weight[r] > EventBudget THEN "event_budget_full"
    ELSE IF gate.held[key[r]] = 0 /\ Cardinality(TrackedKeys) >= MaxTrackedKeys
    THEN "instance_ceiling_full"
    ELSE "none"

Take(r) ==
    /\ Cause(r) = "none"
    /\ gate' = Counted(gate, r)
    /\ slot' = [slot EXCEPT ![r] = "granted"]

-----------------------------------------------------------------------------
(* #queue.                                                                 *)

Queued == {r \in Request : slot[r] = "queued"}

Enqueue(r) ==
    /\ place' = [place EXCEPT ![r] = waiting + 1]
    /\ waiting' = waiting + 1

(* queue.splice(indexOf(r), 1)                                             *)
Splice(r) ==
    /\ place' = [q \in Request |->
                    CASE q = r -> 0
                      [] q # r /\ place[q] > place[r] -> place[q] - 1
                      [] OTHER -> place[q]]
    /\ waiting' = waiting - 1

(* release() of a slot: the counters, then #pump over a copy of the queue. *)
GiveBack(r) ==
    /\ gate' = Uncounted(gate, r)
    /\ slot' = [slot EXCEPT ![r] = "back"]
    /\ scan' = Queued

-----------------------------------------------------------------------------
(* acquire()                                                               *)

(* In shadow mode the caller is let through and counted at once; the       *)
(* decision is simulated beside it.                                        *)
Admit(r) ==
    IF mode = "shadow"
    THEN /\ caller' = [caller EXCEPT ![r] = "running"]
         /\ real' = Counted(real, r)
         /\ IF ceilingOnlyInFlight >= deriveCeiling
            THEN UNCHANGED <<ceilingOnlyInFlight, ceilingOnlyHeld>>
            ELSE /\ ceilingOnlyInFlight' = ceilingOnlyInFlight + 1
                 /\ ceilingOnlyHeld' = ceilingOnlyHeld \cup {r}
    ELSE /\ caller' = [caller EXCEPT ![r] = "waiting"]
         /\ UNCHANGED shadow

(* #decide: room now.                                                      *)
ArriveToRoom(r) ==
    /\ caller[r] = "idle" /\ scan = {}
    /\ Take(r)
    /\ Admit(r)
    /\ UNCHANGED <<request, queue, scan>>

(* Mutant: the queue has no limit.                                         *)
ArriveToWaitUnbounded(r) ==
    /\ caller[r] = "idle" /\ scan = {}
    /\ Cause(r) # "none"
    /\ Enqueue(r)
    /\ slot' = [slot EXCEPT ![r] = "queued"]
    /\ Admit(r)
    /\ UNCHANGED <<request, scan, gate>>

(* #decide: full, and the queue has space.                                 *)
ArriveToWait(r) ==
    /\ caller[r] = "idle" /\ scan = {}
    /\ Cause(r) # "none"
    /\ waiting < MaxWaiters
    /\ Enqueue(r)
    /\ slot' = [slot EXCEPT ![r] = "queued"]
    /\ Admit(r)
    /\ UNCHANGED <<request, scan, gate>>

(* #decide: the flood regime.  The caller gets its 429; in shadow mode the *)
(* refusal is only counted.                                                *)
ArriveToFlood(r) ==
    /\ caller[r] = "idle" /\ scan = {}
    /\ Cause(r) # "none"
    /\ waiting >= MaxWaiters
    /\ slot' = [slot EXCEPT ![r] = "refused"]
    /\ IF mode = "shadow" THEN Admit(r)
       ELSE caller' = [caller EXCEPT ![r] = "refused"] /\ UNCHANGED shadow
    /\ UNCHANGED <<request, queue, scan, gate>>

(* A waiter's timer: one last take, then settle().                         *)
TimerFires(r) ==
    /\ slot[r] = "queued" /\ scan = {}
    /\ Splice(r)
    /\ IF Cause(r) = "none"
       THEN Take(r) /\ UNCHANGED caller
       ELSE /\ slot' = [slot EXCEPT ![r] = "refused"]
            /\ caller' = IF mode = "shadow" THEN caller ELSE [caller EXCEPT ![r] = "refused"]
            /\ UNCHANGED gate
    /\ UNCHANGED <<request, scan, shadow>>

(* Mutant: the simulated slot is kept for a caller that is gone.           *)
ContinueForTheGone(r) ==
    /\ slot[r] = "granted" /\ scan = {}
    /\ slot' = [slot EXCEPT ![r] = "handed"]
    /\ caller' = IF caller[r] = "done" THEN caller ELSE [caller EXCEPT ![r] = "running"]
    /\ UNCHANGED <<request, queue, gate, scan, shadow>>

(* The continuation of a granted acquire: the handler starts; in shadow    *)
(* mode the slot is kept for the caller's release, or given straight back  *)
(* when the caller is already gone.                                        *)
Continue(r) ==
    /\ slot[r] = "granted" /\ scan = {}
    /\ IF mode = "shadow" /\ caller[r] = "done"
       THEN GiveBack(r) /\ UNCHANGED caller
       ELSE /\ slot' = [slot EXCEPT ![r] = "handed"]
            /\ caller' = [caller EXCEPT ![r] = "running"]
            /\ UNCHANGED <<gate, scan>>
    /\ UNCHANGED <<request, queue, shadow>>

(* next() has returned or thrown: release() in the finally.                *)
Finish(r) ==
    /\ caller[r] = "running" /\ scan = {}
    /\ caller' = [caller EXCEPT ![r] = "done"]
    /\ IF mode = "shadow"
       THEN /\ real' = Uncounted(real, r)
            /\ ceilingOnlyInFlight' =
                IF r \in ceilingOnlyHeld THEN ceilingOnlyInFlight - 1 ELSE ceilingOnlyInFlight
            /\ ceilingOnlyHeld' = ceilingOnlyHeld \ {r}
       ELSE UNCHANGED shadow
    /\ IF slot[r] = "handed" THEN GiveBack(r) ELSE UNCHANGED <<gate, slot, scan>>
    /\ UNCHANGED <<request, queue>>

(* Mutant: the scan visits the waiters in any order.                       *)
OldestOrNot(r) == r \in scan

(* The next waiter of the snapshot is the oldest one left in it.           *)
Oldest(r) == r \in scan /\ \A q \in scan : place[r] <= place[q]

PumpServes(r) ==
    /\ Oldest(r)
    /\ Take(r)
    /\ Splice(r)
    /\ scan' = scan \ {r}
    /\ UNCHANGED <<request, caller, shadow>>

(* A waiter whose slice is full, or whose batch does not fit, is skipped.  *)
PumpSkips(r) ==
    /\ Oldest(r)
    /\ gate.inFlight < deriveCeiling
    /\ Cause(r) \in {"key_slice_full", "event_budget_full"}
    /\ scan' = scan \ {r}
    /\ UNCHANGED <<request, caller, slot, queue, gate, shadow>>

(* Mutant: the scan stops at the first waiter it cannot serve.             *)
PumpStopsAtAny ==
    /\ \E r \in Request : Oldest(r) /\ Cause(r) # "none"
    /\ scan' = {}
    /\ UNCHANGED <<request, caller, slot, queue, gate, shadow>>

PumpStops ==
    /\ \E r \in Request :
        /\ Oldest(r)
        /\ Cause(r) = "instance_ceiling_full" \/ gate.inFlight >= deriveCeiling
    /\ scan' = {}
    /\ UNCHANGED <<request, caller, slot, queue, gate, shadow>>

-----------------------------------------------------------------------------
NothingCounted == [held |-> [k \in Key |-> 0], inFlight |-> 0, events |-> 0]

Init ==
    /\ mode \in {"shadow", "enforcing"}
    /\ key \in [Request -> Key]
    /\ weight \in [Request -> Weight]
    /\ caller = [r \in Request |-> "idle"]
    /\ slot = [r \in Request |-> "none"]
    /\ place = [r \in Request |-> 0]
    /\ waiting = 0
    /\ scan = {}
    /\ gate = NothingCounted
    /\ real = NothingCounted
    /\ ceilingOnlyInFlight = 0
    /\ ceilingOnlyHeld = {}

Step(r) ==
    \/ ArriveToRoom(r)
    \/ ArriveToWait(r)
    \/ ArriveToFlood(r)
    \/ TimerFires(r)
    \/ Continue(r)
    \/ Finish(r)
    \/ PumpServes(r)
    \/ PumpSkips(r)

Next == PumpStops \/ \E r \in Request : Step(r)

Spec == Init /\ [][Next]_vars

(* Timers fire, continuations run, a scan goes on, and a handler ends: it  *)
(* answers, or throws into the finally.                                    *)
Fairness ==
    /\ WF_vars(PumpStops)
    /\ \A r \in Request :
        /\ WF_vars(TimerFires(r))
        /\ WF_vars(Continue(r))
        /\ WF_vars(Finish(r))
        /\ WF_vars(PumpServes(r) \/ PumpSkips(r))

FairSpec == Spec /\ Fairness

-----------------------------------------------------------------------------
(* Properties.                                                             *)

Holders == {r \in Request : slot[r] \in {"granted", "handed"}}
Running == {r \in Request : caller[r] = "running"}

Counters == [held: [Key -> Nat], inFlight: Nat, events: Int]

(* Every variable of the gate stays within its type.                       *)
TypeOK ==
    /\ mode \in {"shadow", "enforcing"}
    /\ key \in [Request -> Key]
    /\ weight \in [Request -> Weight]
    /\ caller \in [Request -> Caller]
    /\ slot \in [Request -> Slot]
    /\ place \in [Request -> 0 .. MaxWaiters]
    /\ waiting \in 0 .. MaxWaiters
    /\ scan \subseteq Queued
    /\ gate \in Counters
    /\ real \in Counters
    /\ ceilingOnlyInFlight \in 0 .. deriveCeiling
    /\ ceilingOnlyHeld \subseteq Running

(* The counters c count the requests of S, and their events.               *)
SlotsOf(c, S) ==
    /\ \A k \in Key : c.held[k] = Cardinality({r \in S : key[r] = k})
    /\ c.inFlight = Cardinality(S)

EventsOf(c, S) == c.events = MapThenSumSet(LAMBDA r : weight[r], S)

Callers == IF mode = "shadow" THEN Running ELSE {}

SlotsCounted ==
    /\ SlotsOf(gate, Holders)
    /\ SlotsOf(real, Callers)
    /\ ceilingOnlyInFlight = Cardinality(ceilingOnlyHeld)
    /\ \A r \in Request : slot[r] = "handed" => caller[r] = "running"

EventsCounted == EventsOf(gate, Holders) /\ EventsOf(real, Callers)

(* The gate's counters are at every moment what is really held: they never *)
(* drift open (a slot given back twice) nor closed (one never given back), *)
(* the simulated slots of shadow mode no more than the real ones, and no   *)
(* slot handed over outlives its caller.                                   *)
HonestCounters == SlotsCounted /\ EventsCounted

(* #pump and the timers lose no wake-up: outside a scan nobody waits whom  *)
(* #take would serve, so the last chance a timer takes never finds room    *)
(* and a refusal after the wait is as true as one on arrival.              *)
NoServableWaiter == scan = {} => \A r \in Queued : Cause(r) # "none"

(* derivePerKeySlice leaves room: a credential that holds everything held  *)
(* never fills the room when the ceiling is more than one (ac-10); and     *)
(* while enforcing, no more handlers run than emission's half of the pool. *)
LoudKeyLeavesRoom ==
    /\ deriveCeiling > 1 =>
        \A k \in Key : TrackedKeys \subseteq {k} => gate.inFlight < deriveCeiling
    /\ mode = "enforcing" => Cardinality(Running) <= deriveCeiling

Pool == INSTANCE AdmissionPool WITH
    Ceiling <- deriveCeiling,
    Slice <- derivePerKeySlice,
    Budget <- EventBudget,
    line <- Queued,
    ahead <- {p \in Queued \X Queued : place[p[1]] < place[p[2]]},
    inside <- Holders,
    events <- gate.events,
    gone <- {r \in Request : slot[r] \in {"refused", "back"}}

(* The gate, its queue, timers and scans implement the abstract pool: the  *)
(* bounds, nobody overtaken by one of the same credential that is no       *)
(* lighter, nobody refused who would have fitted.                          *)
KeepsPromise == Pool!Spec

(* Every call is answered and every slot comes back: once calls stop, the  *)
(* gate drains, in shadow mode also of the slots it simulates for callers  *)
(* that have left before they were granted.                                *)
Drained ==
    /\ gate = NothingCounted /\ real = NothingCounted
    /\ ceilingOnlyInFlight = 0
    /\ waiting = 0
    /\ \A r \in Request : caller[r] \in {"idle", "done", "refused"}

EverySlotComesBack == <>[]Drained
=============================================================================
