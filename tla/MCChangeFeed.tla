---------------------------- MODULE MCChangeFeed ----------------------------
(* Small instances of ChangeFeed. *)
EXTENDS ChangeFeed

MCAllFaults == {"crash", "notify_fails", "overtaking", "fetch_fails"}
=============================================================================
