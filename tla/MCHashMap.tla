------------------------------ MODULE MCHashMap ------------------------------
(***************************************************************************)
(* Values of HashMap's constants for TLC.  A byte has 8 values (SENTINEL   *)
(* is 4) and a row 2 slots, so that rows fill up and probes wrap with      *)
(* three or four keys; the hashes are chosen so that keys share a row, and *)
(* so that both complemented low bytes occur.                              *)
(***************************************************************************)
EXTENDS HashMap

(* three keys of one home row, in a table of 2 rows; k1 and k2 have equal   *)
(* low bytes, k3's is complemented from SENTINEL                           *)
MCHash3 == [k \in Keys |->
    CASE k = "k1" -> [low |-> 1, high |-> 1]
      [] k = "k2" -> [low |-> 1, high |-> 3]
      [] OTHER    -> [low |-> 4, high |-> 6]]   \* complement: low 3, high 1

(* four keys, homes 1, 1, 1, 0 of 2 rows; 1, 3, 1, 2 of 4                   *)
MCHash4 == [k \in Keys |->
    CASE k = "k1" -> [low |-> 1, high |-> 1]
      [] k = "k2" -> [low |-> 1, high |-> 3]
      [] k = "k3" -> [low |-> 0, high |-> 2]    \* complement: low 7, high 5
      [] OTHER    -> [low |-> 5, high |-> 2]]

Rows0 == RowsFor(0)
===============================================================================
