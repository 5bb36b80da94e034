------------------------------ MODULE MCAccess ------------------------------
(* Two names, the first of which may be an administrator already; root     *)
(* with a key, two keys, one and a line that does not parse, or none.      *)
EXTENDS Access
CONSTANTS alice, bob, mine, lost
Users == {alice, bob}
Keys == {mine, lost}
Mine == {mine}
Absent == [exists |-> FALSE, sudo |-> FALSE, keys |-> {}, home |-> FALSE,
           ssh |-> FALSE, password |-> "L"]
Ready == [exists |-> TRUE, sudo |-> TRUE, keys |-> {mine}, home |-> TRUE,
          ssh |-> TRUE, password |-> "P"]
Accounts == {[u \in Users |-> Absent], [u \in Users |-> IF u = alice THEN Ready ELSE Absent]}
Roots == {[keys |-> {mine}, password |-> "P"], [keys |-> {mine, lost}, password |-> "L"],
          [keys |-> {mine, "junk"}, password |-> "P"], [keys |-> {}, password |-> "P"]}
=============================================================================
