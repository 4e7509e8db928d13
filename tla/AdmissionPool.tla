---------------------------- MODULE AdmissionPool ----------------------------
(***************************************************************************)
(* What the emission gate promises (services/admission/emission-gate.ts,   *)
(* its header and the comments on its bounds): a room of bounded size, a   *)
(* bounded share of it per credential and a bound on the events inside; a  *)
(* request is let in only if it fits and never past one of the same        *)
(* credential, no heavier, that waits since before it; a request is turned *)
(* away only when it does not fit.                                         *)
(***************************************************************************)
EXTENDS Integers, FiniteSets

CONSTANTS
    Request,    \* calls of acquire()
    Ceiling,    \* requests inside at once
    Slice,      \* requests of one credential inside at once
    Budget      \* events inside at once

VARIABLES
    key,        \* key[r]: r's credential
    weight,     \* weight[r]: the events r carries
    line,       \* the requests that wait
    ahead,      \* <<q, r>>: q waits since before r
    inside,     \* the requests let in that have not left
    events,     \* the events they carry
    gone        \* the requests that have left or were turned away

vars == <<key, weight, line, ahead, inside, events, gone>>

Fits(r) ==
    /\ Cardinality({q \in inside : key[q] = key[r]}) < Slice
    /\ Cardinality(inside) < Ceiling
    /\ events + weight[r] <= Budget

(* A request that has not joined the line has everybody in it before it.   *)
InTurn(r) ==
    \A q \in line \ {r} :
        key[q] = key[r] /\ weight[q] <= weight[r] => r \in line /\ <<q, r>> \notin ahead

LeaveLine(r) ==
    /\ line' = line \ {r}
    /\ ahead' = {p \in ahead : r \notin {p[1], p[2]}}

Waits(r) ==
    /\ r \notin line \cup inside \cup gone
    /\ ~Fits(r)
    /\ line' = line \cup {r}
    /\ ahead' = ahead \cup (line \X {r})
    /\ UNCHANGED <<key, weight, inside, events, gone>>

Enters(r) ==
    /\ r \notin inside \cup gone
    /\ Fits(r)
    /\ InTurn(r)
    /\ inside' = inside \cup {r}
    /\ events' = events + weight[r]
    /\ LeaveLine(r)
    /\ UNCHANGED <<key, weight, gone>>

TurnedAway(r) ==
    /\ r \notin inside \cup gone
    /\ ~Fits(r)
    /\ gone' = gone \cup {r}
    /\ LeaveLine(r)
    /\ UNCHANGED <<key, weight, inside, events>>

Leaves(r) ==
    /\ r \in inside
    /\ inside' = inside \ {r}
    /\ events' = events - weight[r]
    /\ gone' = gone \cup {r}
    /\ UNCHANGED <<key, weight, line, ahead>>

Init ==
    /\ line = {}
    /\ ahead = {}
    /\ inside = {}
    /\ events = 0
    /\ gone = {}

Next == \E r \in Request : Waits(r) \/ Enters(r) \/ TurnedAway(r) \/ Leaves(r)

Spec == Init /\ [][Next]_vars
=============================================================================
