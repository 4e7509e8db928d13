----------------------------- MODULE VersionLog -----------------------------
(***************************************************************************)
(* What a document's version history promises its readers, with nothing    *)
(* said of how it is kept: a log of numbered entries (entry v is version   *)
(* v) that only ever grows, by one entry at a time.  An entry is either a  *)
(* fresh snapshot of the document or, when `from' is not 0, a verbatim     *)
(* copy of an earlier entry that a restore put back.                       *)
(***************************************************************************)
EXTENDS Naturals, Sequences

VARIABLE log

Init == log = <<>>

(* The entry a step adds.  A restored entry names an entry that was there  *)
(* before the checkpoint that precedes every restore, hence not the last.  *)
WellFounded(old, entry) ==
    entry.from # 0 => /\ entry.from \in 1 .. Len(old) - 1
                      /\ entry.snap = old[entry.from].snap

Grow == /\ Len(log') = Len(log) + 1
        /\ \A v \in 1 .. Len(log) : log'[v] = log[v]
        /\ WellFounded(log, log'[Len(log) + 1])

Spec == Init /\ [][Grow]_log
=============================================================================
