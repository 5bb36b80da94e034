------------------------------- MODULE BaseRun -------------------------------
(***************************************************************************)
(* What the phases of the base system share: the record each has in        *)
(* state.json, the process that works on them one after the other          *)
(* (run_setup of app/resume.py, as in Setup, here with what the phases     *)
(* do), and what stops it.  TimeSync, Swap and SecurityUpdates extend it   *)
(* with the phases that change the host, Base puts them together.          *)
(***************************************************************************)
EXTENDS Naturals, Sequences, FiniteSets

CONSTANT MaxFaults  \* bound: failures, kills, reboots, changes by others
ASSUME FaultsAssumption == MaxFaults \in Nat

VARIABLES
    saved,   \* state.json: the status and the data of each phase
    data,    \* the data of the phases in the process
    phase,   \* the phase at work, "none" when no process runs
    step,    \* where it is in it
    faults

Order == <<"preflight", "time_sync", "swap", "security_updates">>
Phase == {Order[i] : i \in DOMAIN Order}
Status == {"pending", "running", "done", "failed", "skipped"}
Area == {"swapfile", "disk"}
Data == [mode : {"none", "existing", "managed", "skipped"},
         areas : SUBSET Area, size : Nat]
NoData == [mode |-> "none", areas |-> {}, size |-> 0]

runVars == <<saved, data, phase, step>>

(* The lines of a file at some positions, in their order.                  *)
Picked(lines, positions) ==
    LET picked[i \in 0..Len(lines)] ==
          IF i = 0 THEN <<>>
          ELSE IF i \in positions THEN Append(picked[i - 1], lines[i]) ELSE picked[i - 1]
    IN  picked[Len(lines)]

RunInit ==
    /\ saved = [p \in Phase |-> [status |-> "pending", data |-> NoData]]
    /\ data = [p \in Phase |-> NoData]
    /\ phase = "none" /\ step = "idle" /\ faults = 0

Fault == faults < MaxFaults /\ faults' = faults + 1
At(p, s) == phase = p /\ step = s

(* A step within a phase.                                                  *)
Goto(s) == step' = s /\ UNCHANGED <<saved, data, phase>>

Stop == phase' = "none" /\ step' = "idle" /\ data' = [p \in Phase |-> NoData]
Move(p, s) == phase' = p /\ step' = s /\ UNCHANGED data
Pass(p) ==
    LET i == CHOOSE i \in DOMAIN Order : Order[i] = p
    IN  IF i < Len(Order) THEN Move(Order[i + 1], "next") ELSE Stop

StartRun ==
    /\ phase = "none"
    /\ phase' = Order[1] /\ step' = "next"
    /\ data' = [p \in Phase |-> saved[p].data]
    /\ UNCHANGED <<saved, faults>>

(* A save can fail, with the old or the new content in the file; run_setup *)
(* then ends with the error.                                               *)
Record(p, status, onward) ==
    LET record == [saved EXCEPT ![p] = [status |-> status, data |-> data[p]]]
    IN  \/ saved' = record /\ onward /\ UNCHANGED faults
        \/ saved' \in {saved, record} /\ Stop /\ Fault

(* The head of the loop: a skipped phase is passed, a done one if it       *)
(* verifies.  The start of preflight is not saved.                         *)
Consider(p, verified, first) ==
    /\ At(p, "next")
    /\ IF saved[p].status = "skipped" \/ (saved[p].status = "done" /\ verified)
       THEN Pass(p) /\ UNCHANGED <<saved, faults>>
       ELSE IF p = "preflight" THEN Move(p, first) /\ UNCHANGED <<saved, faults>>
       ELSE Record(p, "running", Move(p, first))

(* What follows the executor.  A phase that failed ends the run.           *)
Verify(p, verified) ==
    /\ At(p, "verify")
    /\ IF verified THEN Record(p, "done", Pass(p)) ELSE Record(p, "failed", Stop)
ConcludeFailed == step = "failed" /\ Record(phase, "failed", Stop)
ConcludeSkipped == step = "skipped" /\ Record(phase, "skipped", Pass(phase))
=============================================================================
