---------------------------- MODULE ClauseLedger ----------------------------
(***************************************************************************)
(* What the clauses of a standard promise whoever cites them by handle     *)
(* (services/clauses.ts, "Identity vs order", and dec-5 on positions): a   *)
(* cl-N handle is issued once and above every earlier one, a deleted       *)
(* clause never returns under it, the live clauses are totally ordered,    *)
(* and no change reorders the clauses it leaves alive.                     *)
(***************************************************************************)
EXTENDS Integers

CONSTANT Handle     \* the numbers N of cl-N, a set of integers

VARIABLES
    status,     \* status[h]: "none" until issued, then "active", then "deleted"
    before      \* <<a, b>>: live clause a stands before live clause b

vars == <<status, before>>

Live(s) == {h \in Handle : s[h] = "active"}
Issued == {h \in Handle : status[h] # "none"}

TotalOrder(order, S) ==
    /\ order \subseteq S \X S
    /\ \A a \in S : <<a, a>> \notin order
    /\ \A a, b \in S : a # b => <<a, b>> \in order \/ <<b, a>> \in order
    /\ \A a, b, c \in S : <<a, b>> \in order /\ <<b, c>> \in order => <<a, c>> \in order

(* One change: the clauses of cut go, those of added come, where they come *)
(* is free.                                                                *)
Revise(cut, added) ==
    /\ \A a \in added : \A u \in Issued : u < a
    /\ status' = [h \in Handle |-> CASE h \in cut   -> "deleted"
                                     [] h \in added -> "active"
                                     [] OTHER       -> status[h]]
    /\ TotalOrder(before', Live(status'))
    /\ \A a, b \in Live(status) \cap Live(status') : <<a, b>> \in before' <=> <<a, b>> \in before

Init ==
    /\ status \in [Handle -> {"none", "active"}]
    /\ TotalOrder(before, Live(status))

Next ==
    /\ status' # status
    /\ \E cut \in SUBSET Live(status), added \in SUBSET (Handle \ Issued) : Revise(cut, added)

Spec == Init /\ [][Next]_vars
=============================================================================
