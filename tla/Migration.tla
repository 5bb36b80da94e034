------------------------------ MODULE Migration ------------------------------
(***************************************************************************)
(* What the SSH migration promises, without how: a transaction on a        *)
(* configuration, whose record on disk says whether it is open.  While     *)
(* it is open the configuration may be anything, also no configuration at  *)
(* all (Torn); it is closed either with a whole configuration, or with     *)
(* exactly the one it was opened on.  SSHMigration implements this         *)
(* specification (SSHMigration!IsTransaction).                             *)
(***************************************************************************)
CONSTANTS
    Config,  \* the configurations a host can be in as a whole
    Torn     \* what a host is in between two of them

VARIABLES
    config,  \* the configuration of the host, Torn if it is in between
    before,  \* the one the transaction was opened on
    record   \* "none", "open", or how the last transaction ended

vars == <<config, before, record>>

Init ==
    /\ config \in Config
    /\ before = config
    /\ record = "none"

Open ==
    /\ record # "open"
    /\ record' = "open"
    /\ UNCHANGED <<config, before>>

Change ==
    /\ record = "open"
    /\ config' \in Config \cup {Torn}
    /\ UNCHANGED <<before, record>>

(* Also the record of a configuration that was found as it should be.      *)
Commit ==
    /\ config \in Config
    /\ record' = "committed"
    /\ UNCHANGED <<config, before>>

(* A commit can still be taken back (Open, then RollBack) by the process   *)
(* that made it, when its record was written and the write reported to     *)
(* have failed; not once that process has ended.                           *)
End ==
    /\ record # "open"
    /\ before' = config
    /\ UNCHANGED <<config, record>>

RollBack ==
    /\ record = "open"
    /\ config = before
    /\ record' = "rolled back"
    /\ UNCHANGED <<config, before>>

Next == Open \/ Change \/ Commit \/ End \/ RollBack

Spec == Init /\ [][Next]_vars
=============================================================================
