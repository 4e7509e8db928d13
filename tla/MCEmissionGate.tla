---------------------------- MODULE MCEmissionGate ----------------------------
(* A small instance of EmissionGate for TLC. *)
EXTENDS EmissionGate, Sequences, TLC

CONSTANTS r1, r2, r3, r4, k1, k2

Calls == <<r1, r2, r3, r4>>

Rank(r) == (IF key[r] = k1 THEN 0 ELSE 2) + weight[r]

(* Requests are interchangeable until they arrive, so one order of their   *)
(* profiles stands for all.  So are the credentials: the first has at      *)
(* least as many requests as the second, four, three or two of the four.   *)
OneOfEachProfile ==
    /\ \A i \in 1 .. Len(Calls) - 1 : Rank(Calls[i]) <= Rank(Calls[i + 1])
    /\ key[r2] = k1

MCInit == Init /\ OneOfEachProfile

MCSpec == MCInit /\ [][Next]_vars /\ Fairness
===============================================================================
