------------------------------- MODULE Setup -------------------------------
(***************************************************************************)
(* The orchestrator: `vps-bootstrap base`, `full` and `resume` (run_setup  *)
(* of app/resume.py) and the component commands, on the phases of          *)
(* state.json (app/state.py).  A process loads the file, works through a   *)
(* queue of phases and saves; it can die anywhere, and the next process    *)
(* has nothing but the file.                                               *)
(*                                                                         *)
(* What a phase does to the host is reduced to ok[p], the answer its       *)
(* verifier would give.  Of the SSH phase's data what matters here is      *)
(* whether it is managed or an interrupted migration; that transaction     *)
(* itself is module SSHMigration.                                          *)
(***************************************************************************)
EXTENDS Naturals, Sequences, SequencesExt

CONSTANTS
    BasePhases, DefaultPhases,  \* the phases of the two scopes, in order
    LegacyOrders,               \* the phases of files of older versions
    Optional,                   \* phases the operator may decline
    Commands,                   \* phases that have a component command
    Spoils,                     \* phases that an executor may break besides its own
    Refusing,                   \* phases whose executor may come to refuse for good
    MaxRequests,                \* bound: base, full and component commands
    MaxFaults                   \* bound: failures, kills and drifts

Components == {"firewall", "fail2ban"}
Phase == ToSet(BasePhases) \cup ToSet(DefaultPhases) \cup (UNION {ToSet(o) : o \in LegacyOrders})
         \cup Components \cup {"admin_user", "root_hardening", "ssh_hardening"}

ASSUME PhaseAssumption ==
    /\ \A o \in LegacyOrders \cup {BasePhases, DefaultPhases} :
         o \in Seq(Phase) /\ o # <<>>
    /\ Optional \subseteq Phase /\ Commands \subseteq Phase /\ Refusing \subseteq Phase
ASSUME SpoilsAssumption ==
    /\ Spoils \in [Phase -> SUBSET (Phase \ {"ssh_hardening"})]
    /\ Spoils["ssh_hardening"] = {} /\ \A p \in Phase : p \notin Spoils[p]
ASSUME BoundAssumption == MaxRequests \in Nat /\ MaxFaults \in Nat

VARIABLES
    file,      \* state.json
    memory,    \* InstallState of the process
    command,   \* what runs: "base", "full", "resume", "component" or "none"
    queue,     \* the phases it still has to go through
    pc,        \* where it is in the first of them
    ok,        \* what the verifier of each phase would answer
    finished,  \* whether the last command was a setup that finished
    chosen,    \* the scope of the last base or full run, once it finished
    suspect,   \* phases the host may have lost since they were verified
    stuck,     \* phases whose executor refuses until the operator steps in
    requests, faults

vars == <<file, memory, command, queue, pc, ok, finished, chosen, suspect, stuck,
          requests, faults>>

(* A phase that is not in state.phases is "absent"; a file that is not     *)
(* there has no phases.                                                    *)
Status == {"absent", "pending", "running", "done", "failed", "skipped"}
State == [order : Seq(Phase), status : [Phase -> Status],
          ssh : {"open", "managed", "interrupted"},  \* "open": the wizard is shown
          members : SUBSET Components]  \* components the migration manages

WithMutant(state, names) ==
    [state EXCEPT !.status = [p \in Phase |-> IF p \in names THEN "pending" ELSE @[p]]]
(* phases.setdefault(name, PhaseState(name)) *)
With(state, names) ==
    [state EXCEPT !.status = [p \in Phase |-> IF p \in names /\ @[p] = "absent"
                                              THEN "pending" ELSE @[p]]]
NoFile == [order |-> <<>>, status |-> [p \in Phase |-> "absent"],
           ssh |-> "open", members |-> {}]
Fresh(order) == With([NoFile EXCEPT !.order = order], ToSet(order))
Interrupted(state) == state.ssh = "interrupted"

(* migrate_phases: a file of an older version has no root_hardening.       *)
Migrated(state) ==
    IF state.status["admin_user"] = "absent" THEN state ELSE With(state, {"root_hardening"})

(* The phase order that is loaded.  A file without one gives the order of  *)
(* its phases.                                                             *)
Position(order, p) == CHOOSE i \in DOMAIN order : order[i] = p
AfterAdmin(order) ==
    InsertAt(order, Position(order, "admin_user") + 1, "root_hardening")
Loaded(state) ==
    IF "admin_user" \in ToSet(state.order) /\ "root_hardening" \notin ToSet(state.order)
       /\ Migrated(state).status["root_hardening"] # "absent"
    THEN [Migrated(state) EXCEPT !.order = AfterAdmin(@)]
    ELSE Migrated(state)
Load(requested) ==
    IF file = NoFile THEN Fresh(requested) ELSE With(Loaded(file), ToSet(Loaded(file).order))

Init ==
    /\ \E legacy \in LegacyOrders \cup {<<>>}, done \in BOOLEAN :
         /\ file = [Fresh(legacy) EXCEPT !.status =
                      [p \in Phase |-> IF done /\ p \in ToSet(legacy) THEN "done" ELSE @[p]]]
         /\ ok = [p \in Phase |-> p = "preflight" \/ (done /\ p \in ToSet(legacy))]
    /\ memory = file /\ command = "none" /\ queue = <<>> /\ pc = "idle"
    /\ finished = FALSE /\ chosen = <<>> /\ suspect = {} /\ stuck = {}
    /\ requests = 0 /\ faults = 0

Fault == faults < MaxFaults /\ faults' = faults + 1
Request == requests < MaxRequests /\ requests' = requests + 1

(* The process ends; what it did not save is gone.                         *)
Exit(result) ==
    /\ pc' = "idle" /\ queue' = <<>> /\ command' = "none"
    /\ memory' = file' /\ finished' = (result = "finished")

-----------------------------------------------------------------------------
(* Starting: apply_phase_scope and the component commands                  *)

Begin(cmd, state, phases, at) ==
    /\ command' = cmd /\ memory' = state /\ queue' = phases /\ pc' = at
    /\ UNCHANGED <<file, ok, finished, suspect, stuck, faults>>

StartScope(scope, order) ==
    /\ pc = "idle" /\ Request
    /\ ~Interrupted(Load(order))
    /\ Begin(scope, With([Load(order) EXCEPT !.order = order], ToSet(order)), order, "next")
    /\ chosen' = <<>>

RefuseScope(order) ==
    /\ pc = "idle" /\ Request
    /\ Interrupted(Load(order))
    /\ finished' = FALSE
    /\ UNCHANGED <<file, memory, command, queue, pc, ok, chosen, suspect, stuck, faults>>

RecoveryFirstMutant(order) == order
RecoveryFirst(order) ==
    <<"ssh_hardening">> \o
    IF "ssh_hardening" \in ToSet(order)
    THEN RemoveAt(order, Position(order, "ssh_hardening")) ELSE order

ResumeSavedMutant ==
    LET state == Load(DefaultPhases)
        first == [state EXCEPT !.order = IF Interrupted(state) THEN RecoveryFirst(@) ELSE @]
    IN  /\ pc = "idle"
        /\ Begin("resume", With(first, ToSet(first.order)), first.order, "next")
        /\ UNCHANGED <<chosen, requests>>
Resume ==
    LET state == Load(DefaultPhases)
    IN  /\ pc = "idle"
        /\ IF Interrupted(state)
           THEN Begin("resume", With(state, {"ssh_hardening"}),
                      RecoveryFirst(state.order), "next")
           ELSE Begin("resume", state, state.order, "next")
        /\ UNCHANGED <<chosen, requests>>

(* run_component_reconfigure, run_root_hardening_reconfigure,              *)
(* run_ssh_reconfigure: at once in the phase's ensure function, with       *)
(* force_reconfigure and whatever status the phase has.                    *)
StartComponent(p) ==
    /\ pc = "idle" /\ Request
    /\ Begin("component",
             With(Load(DefaultPhases), IF p = "root_hardening" THEN {p, "admin_user"} ELSE {p}),
             <<p>>, "execute")
    /\ UNCHANGED chosen

-----------------------------------------------------------------------------
(* The loop of run_setup *)

Verifies(p) == ok[p] /\ (p = "ssh_hardening" => memory.ssh = "managed")
Recovering(p) == p = "ssh_hardening" /\ Interrupted(memory)
SettledMutant(p) == ~Recovering(p) /\ memory.status[p] \in {"done", "skipped"}
Settled(p) ==
    /\ ~Recovering(p)
    /\ memory.status[p] = "skipped" \/ (memory.status[p] = "done" /\ Verifies(p))

Skip ==
    /\ pc = "next" /\ queue # <<>> /\ Settled(Head(queue))
    /\ queue' = Tail(queue)
    /\ UNCHANGED <<file, memory, command, pc, ok, finished, chosen, suspect, stuck,
                   requests, faults>>

(* The verifier of a completed phase is called outside the try block.      *)
VerifierRaises ==
    /\ pc = "next" /\ queue # <<>>
    /\ memory.status[Head(queue)] = "done" /\ ~Recovering(Head(queue))
    /\ Fault /\ UNCHANGED file /\ Exit("failed")
    /\ UNCHANGED <<ok, chosen, suspect, stuck, requests>>

(* A save that fails raises; the file has the old or the new content.      *)
Saved == file' = memory' /\ UNCHANGED faults
NotSaved(state) == Fault /\ file' \in {file, state} /\ Exit("failed")

Run ==
    LET p == Head(queue)
        running == [memory EXCEPT !.status[p] = "running"]
    IN  /\ pc = "next" /\ queue # <<>> /\ ~Settled(p)
        /\ \/ /\ memory' = running /\ pc' = "execute"
              /\ IF p = "preflight" THEN UNCHANGED <<file, faults>> ELSE Saved
              /\ UNCHANGED <<command, queue, finished>>
           \/ p # "preflight" /\ NotSaved(running)
        /\ UNCHANGED <<ok, chosen, suspect, stuck, requests>>

Finish ==
    /\ pc = "next" /\ queue = <<>>
    /\ UNCHANGED file /\ Exit(IF command = "component" THEN "done" ELSE "finished")
    /\ chosen' = IF command \in {"base", "full"} THEN memory.order ELSE chosen
    /\ UNCHANGED <<ok, suspect, stuck, requests, faults>>

-----------------------------------------------------------------------------
(* The executors, with the verifier that follows: the outcome in pc'       *)

Here(p) == pc = "execute" /\ queue # <<>> /\ Head(queue) = p
Outcome(result) ==
    pc' = result /\ UNCHANGED <<command, queue, finished, chosen, requests>>

(* What else may stop verifying: what the phase takes from others (a swap  *)
(* file the disk space of preflight, another administrator the validation  *)
(* of root_hardening), and a jail that no metadata names when a migration  *)
(* or its recovery moves the ports: its rewrite was not saved yet, it is   *)
(* switched off, or its own command ran during the interruption.           *)
InRecovery == Here("ssh_hardening") /\ Interrupted(memory)
Moving == pc = "migrating" \/ InRecovery
Collateral ==
    {p \in Phase : ok[p] /\
       \/ pc = "execute" /\ p \in Spoils[Head(queue)]
       \/ Moving /\ p = "fail2ban" /\ p \notin memory.members}
Answers(verified, unsure, lost) ==
    \E after \in [unsure -> BOOLEAN] :
      ok' = [p \in Phase |-> IF p \in verified THEN TRUE
                             ELSE IF p \in unsure THEN after[p]
                             ELSE ok[p] /\ p \notin lost]
Suspects(more) == suspect' = {p \in suspect \cup more : ~ok'[p]}
(* Half-way it may have left what its next run refuses to touch.           *)
Sticks(p) ==
    stuck' \in {stuck} \cup {stuck \cup {q} : q \in {p} \cap (Refusing \ memory.members)}
             /\ (stuck' # stuck => ~ok'[p])

Succeeds ==
    \E p \in Phase \ {"ssh_hardening"} :
      /\ Here(p) /\ Outcome("done") /\ p \notin stuck
      /\ p = "preflight" => ok[p]
      /\ \E lost \in SUBSET Collateral :
           Answers({p}, {}, lost) /\ Suspects(lost)
      /\ UNCHANGED <<file, memory, stuck, faults>>

(* PhaseSkipped.  For the SSH phase: unless the migration is interrupted   *)
(* or, when nothing forces it, managed.                                    *)
WizardShown == memory.ssh = "open" \/ (memory.ssh = "managed" /\ command = "component")
Declines ==
    \E p \in Optional :
      /\ Here(p) /\ Outcome("skipped")
      /\ p = "ssh_hardening" => WizardShown
      /\ memory' = IF p = "ssh_hardening" THEN [memory EXCEPT !.ssh = "open"] ELSE memory
      /\ UNCHANGED <<file, ok, suspect, stuck, faults>>

(* It raises, half-way, or what it did does not verify.                    *)
Refuses(p) == p \in stuck \/ (p = "preflight" /\ ~ok[p])
Fails ==
    \E p \in Phase \ {"ssh_hardening"} :
      /\ Here(p) /\ Outcome("failed")
      /\ \/ Refuses(p) /\ UNCHANGED <<ok, suspect, stuck, faults>>
         \/ /\ ~Refuses(p) /\ Fault
            /\ \E lost \in SUBSET Collateral :
                 Answers({}, {p} \ {"preflight"}, lost) /\ Suspects(lost)
            /\ Sticks(p)
      /\ UNCHANGED <<file, memory>>

(* ensure_ssh_hardening_from_state.  A managed SSH is checked and, when it *)
(* drifted, left alone.                                                    *)
ChecksSSH ==
    /\ Here("ssh_hardening") /\ memory.ssh = "managed" /\ command # "component"
    /\ Outcome(IF ok["ssh_hardening"] THEN "done" ELSE "failed")
    /\ UNCHANGED <<file, memory, ok, suspect, stuck, faults>>

(* The wizard ends without a migration: current port kept, or blocked.     *)
KeepsPort ==
    /\ Here("ssh_hardening") /\ WizardShown
    /\ \/ /\ Outcome("done") /\ UNCHANGED faults
          /\ memory' = [memory EXCEPT !.ssh = "managed", !.members = {}]
          /\ ok' = [ok EXCEPT !["ssh_hardening"] = TRUE]
          /\ Suspects({})
       \/ Outcome("failed") /\ Fault /\ UNCHANGED <<memory, ok, suspect>>
    /\ UNCHANGED <<file, stuck>>

MigratesMutant ==
    /\ Here("ssh_hardening") /\ WizardShown
    /\ \E members \in SUBSET {c \in Components \ stuck : ok[c] \/ memory.status[c] = "done"} :
         memory' = [memory EXCEPT !.ssh = "interrupted", !.members = members]
    /\ Outcome("migrating")
    /\ UNCHANGED <<file, faults, ok, suspect, stuck>>
(* The migration's first save, then the host changes under it.             *)
Migrates ==
    /\ Here("ssh_hardening") /\ WizardShown
    /\ \E members \in SUBSET {c \in Components \ stuck : ok[c] \/ memory.status[c] = "done"} :
         memory' = [memory EXCEPT !.ssh = "interrupted", !.members = members]
    /\ Outcome("migrating") /\ Saved
    /\ UNCHANGED <<ok, suspect, stuck>>

(* synchronize_ssh_component_states: those in `synced` were verified in    *)
(* the transaction, the other components may not be what they were.        *)
Synchronized(status, synced) ==
    [p \in Phase |-> IF p \in synced THEN "done" ELSE status[p]]
EndsTransaction(mode, synced, result) ==
    /\ memory' = [memory EXCEPT !.ssh = mode, !.members = {},
                                !.status = Synchronized(@, synced)]
    /\ \E lost \in SUBSET Collateral :
         /\ Answers(synced \cup {"ssh_hardening"}, memory.members \ synced, lost)
         /\ Suspects((memory.members \ synced) \cup lost)
    /\ Outcome(result) /\ UNCHANGED stuck

Finalizes ==
    /\ pc = "migrating"
    /\ EndsTransaction("managed", memory.members, "done") /\ Saved

(* Recovery ends in a skipped phase, the rollback of this run in an error. *)
(* The marker of the firewall, or state.json, may fail to be written.      *)
RollsBack ==
    \/ InRecovery /\ EndsTransaction("open", memory.members, "skipped") /\ Saved
    \/ /\ Moving
       /\ \E synced \in {memory.members, memory.members \ {"firewall"}},
             result \in IF InRecovery THEN {"skipped", "failed"} ELSE {"failed"} :
            EndsTransaction("open", synced, result)
       /\ Fault /\ file' \in IF pc' = "failed" THEN {file, memory'} ELSE {memory'}

(* The rollback fails too, or the operator answers nothing that ends it.   *)
StaysInterrupted ==
    /\ Moving
    /\ Fault /\ Outcome("failed")
    /\ \E lost \in SUBSET Collateral :
         /\ Answers({}, memory.members \cup {"ssh_hardening"}, lost)
         /\ Suspects(lost)
    /\ UNCHANGED <<file, memory, stuck>>

-----------------------------------------------------------------------------
(* What a component command did not get to record.                         *)
Unrecorded ==
    IF command = "component" /\ pc \in {"execute", "failed"} THEN {Head(queue)} ELSE {}

ConcludeMutant ==
    LET p == Head(queue)
        ended == [memory EXCEPT !.status[p] = IF pc = "failed" THEN @ ELSE pc]
    IN  /\ pc \in {"done", "skipped", "failed"} /\ queue # <<>>
        /\ \/ /\ pc # "failed" /\ memory' = ended /\ Saved
              /\ queue' = Tail(queue) /\ pc' = "next"
              /\ UNCHANGED <<command, finished>>
           \/ pc = "failed" /\ file' = ended /\ Exit("failed") /\ UNCHANGED faults
        /\ UNCHANGED <<ok, chosen, suspect, stuck, requests>>
(* What follows an executor: the status, the save, the next phase.         *)
Conclude ==
    LET p == Head(queue)
        ended == [memory EXCEPT !.status[p] = pc]
    IN  /\ pc \in {"done", "skipped", "failed"} /\ queue # <<>>
        /\ UNCHANGED <<ok, chosen, stuck, requests>>
        /\ \/ /\ pc # "failed" /\ memory' = ended /\ Saved
              /\ queue' = Tail(queue) /\ pc' = "next"
              /\ UNCHANGED <<command, finished, suspect>>
           \/ /\ pc = "failed" /\ file' = ended /\ Exit("failed")
              /\ UNCHANGED <<suspect, faults>>
           \/ NotSaved(ended) /\ Suspects(Unrecorded)

(* Ctrl-C, a kill, a reboot, or in a component command an exception it     *)
(* does not catch.  The executor may have done part of its work.           *)
Dies ==
    LET unchanged == {"preflight", "ssh_hardening"} \cup stuck
        touched == CASE Moving -> memory.members \cup {"ssh_hardening"}
                     [] pc = "execute" /\ ~Moving -> {Head(queue)} \ unchanged
                     [] OTHER -> {}
    IN  /\ pc # "idle" /\ Fault
        /\ \E lost \in SUBSET Collateral :
             Answers({}, touched, lost) /\ Suspects(Unrecorded \cup lost)
        /\ IF pc = "execute" THEN Sticks(Head(queue)) ELSE UNCHANGED stuck
        /\ UNCHANGED <<file, chosen, requests>> /\ Exit("killed")

(* Somebody or something else changes the host; what only they can mend    *)
(* comes back.                                                             *)
Drift ==
    /\ pc = "idle" /\ Fault
    /\ \E p \in Phase :
         /\ ok[p] /\ ok' = [ok EXCEPT ![p] = FALSE]
         /\ Suspects({p}) /\ Sticks(p)
    /\ UNCHANGED <<file, memory, command, queue, pc, finished, chosen, requests>>
Mend ==
    /\ ~ok["preflight"]
    /\ ok' = [ok EXCEPT !["preflight"] = TRUE] /\ Suspects({})
    /\ UNCHANGED <<file, memory, command, queue, pc, finished, chosen, stuck,
                   requests, faults>>

-----------------------------------------------------------------------------
Start ==
    \/ StartScope("base", BasePhases) \/ StartScope("full", DefaultPhases)
    \/ RefuseScope(BasePhases) \/ RefuseScope(DefaultPhases)
    \/ \E p \in Commands : StartComponent(p)
Loop == Skip \/ Run \/ Finish \/ Conclude
Executor == Succeeds \/ Declines \/ Fails
SSHExecutor ==
    \/ ChecksSSH \/ KeepsPort \/ Migrates \/ Finalizes \/ RollsBack
    \/ StaysInterrupted
Process == Loop \/ Executor \/ SSHExecutor
Next == Start \/ Resume \/ Process \/ VerifierRaises \/ Dies \/ Drift \/ Mend

Spec == Init /\ [][Next]_vars
(* A process goes on, and when it has ended the operator answers "After    *)
(* fixing the problem run: sudo vps-bootstrap resume"; the operator mends  *)
(* what preflight complains of.                                            *)
FairSpec == Spec /\ WF_vars(Process \/ Resume) /\ WF_vars(Mend)

-----------------------------------------------------------------------------
TypeOK ==
    /\ file \in State /\ memory \in State
    /\ command \in {"none", "base", "full", "resume", "component"}
    /\ queue \in Seq(Phase)
    /\ pc \in {"idle", "next", "execute", "migrating", "done", "skipped", "failed"}
    /\ ok \in [Phase -> BOOLEAN] /\ suspect \subseteq Phase /\ stuck \subseteq Refusing
    /\ finished \in BOOLEAN
    /\ chosen \in Seq(Phase)
    /\ requests \in 0..MaxRequests /\ faults \in 0..MaxFaults

Setup == command \in {"base", "full", "resume"}

(* "Interrupted SSH recovery runs before ordinary firewall or Fail2ban     *)
(* drift handling": base, full and resume are at the SSH phase as long as  *)
(* a migration is interrupted, and pass on to no other phase.              *)
RecoveryComesFirst ==
    Setup /\ Interrupted(memory) => queue # <<>> /\ Head(queue) = "ssh_hardening"

(* What the rest of a run may do to a phase it has verified: an executor   *)
(* takes from another phase what that needs, a migration moves SSH away    *)
(* from a jail that no metadata names.                                     *)
LostSince(p) ==
    p \in suspect /\ (p = "fail2ban" \/ \E q \in Phase : p \in Spoils[q])

(* "v0.2.0 setup finished": no migration is interrupted, and every phase   *)
(* of the scope is saved as skipped, or as done and verifies, unless the   *)
(* run lost it after it verified it: preflight to a swap file or package,  *)
(* root_hardening to another administrator, fail2ban to a migration that   *)
(* does not manage its jail.                                               *)
FinishedMeansVerified ==
    Setup /\ pc = "next" /\ queue = <<>> =>
        /\ ~Interrupted(file)
        /\ \A p \in ToSet(memory.order) :
             /\ file.status[p] = memory.status[p]
             /\ \/ file.status[p] = "skipped"
                \/ file.status[p] = "done" /\ (Verifies(p) \/ LostSince(p))

(* A phase that state.json records as done verifies, also after processes  *)
(* failed or died in its executor, unless since its last verification      *)
(* something else changed the host, a component command on it was cut off, *)
(* an executor of another phase broke it (Spoils), a migration that has it *)
(* is interrupted or was rolled back without its marker, or one that does  *)
(* not name its jail moved the ports.                                      *)
DoneIsTrue ==
    pc = "idle" => \A p \in Phase \ {"ssh_hardening"} :
      file.status[p] = "done" /\ ~ok[p] =>
        p \in suspect \/ (Interrupted(file) /\ p \in file.members)

(* "SKIPPED -> stable skipped state": only the phase's own command, a      *)
(* migration that manages it, or the recovery of SSH takes it out.         *)
MayUnskip(p) ==
    \/ command = "component" /\ Head(queue) = p
    \/ p \in memory.members \cup file.members /\ Head(queue) = "ssh_hardening"
    \/ p = "ssh_hardening" /\ Interrupted(file)
SkippedStays ==
    [][\A p \in Phase :
         file.status[p] = "skipped" /\ file'.status[p] # "skipped" => MayUnskip(p)]_vars

(* The saved scope is changed by base and full only; loading an older file *)
(* adds root_hardening after admin_user, and nothing else.                 *)
ScopeKept ==
    [][file.order # <<>> /\ file'.order # file.order =>
         \/ command \in {"base", "full"}
         \/ "admin_user" \in ToSet(file.order) /\ file'.order = AfterAdmin(file.order)]_vars

(* Why: the inductive invariant of a process.                              *)
Resting ==
    /\ command = "none" <=> pc = "idle"
    /\ pc = "idle" => memory = file /\ queue = <<>>
InAPhase ==
    pc \notin {"idle", "next"} =>
        /\ queue # <<>>
        /\ pc = "migrating" => Head(queue) = "ssh_hardening" /\ Interrupted(memory)
        /\ pc = "done" => Verifies(Head(queue))
        /\ Setup => memory.status[Head(queue)] = "running"
(* Before the recovery nothing is behind; after it nothing is interrupted. *)
RecoveryAhead ==
    Setup /\ Interrupted(memory) =>
        /\ pc \notin {"done", "skipped"}
        /\ pc \in {"next", "execute"} => ToSet(memory.order) \subseteq ToSet(queue)
(* Until an executor returns the file has the SSH record of the process,   *)
(* the process has the order of the file, or that with root_hardening.     *)
FileKnows ==
    /\ pc \in {"next", "execute", "migrating"} =>
          file.ssh = memory.ssh /\ file.members = memory.members
    /\ pc \in {"execute", "migrating"} /\ Setup /\ Head(queue) # "preflight" =>
          file.status[Head(queue)] = "running"
    /\ file.order # <<>> /\ command \notin {"base", "full"} =>
          \/ memory.order = file.order
          \/ "admin_user" \in ToSet(file.order) /\ memory.order = AfterAdmin(file.order)
(* Between two phases the file lacks at most phases that are only pending. *)
SavedBetween ==
    pc = "next" =>
        \A p \in Phase :
          \/ file.status[p] = memory.status[p]
          \/ file.status[p] = "absent" /\ memory.status[p] = "pending"
(* What the loop has behind it is skipped, or verifies unless it was lost. *)
BehindIsSettled ==
    Setup /\ pc # "failed" =>
        \A p \in ToSet(memory.order) \ ToSet(queue) :
          \/ memory.status[p] = "skipped"
          \/ memory.status[p] = "done" /\ (Verifies(p) \/ LostSince(p))
(* A phase that leaves skipped leaves it in the process first.             *)
SkippedIsKnown ==
    \A p \in Phase : file.status[p] = "skipped" =>
                        memory.status[p] = "skipped" \/ MayUnskip(p)
(* Whose fault it is when a phase recorded as done does not verify.        *)
DoneIsKnown ==
    \A p \in Phase \ {"ssh_hardening"}, state \in {file, memory} :
      state.status[p] = "done" /\ ~ok[p] =>
        \/ p \in suspect
        \/ Interrupted(state) /\ p \in state.members
        \/ command = "component" /\ pc = "failed" /\ p = Head(queue)
SetupInv ==
    /\ Resting /\ InAPhase /\ RecoveryAhead /\ FileKnows /\ SavedBetween
    /\ BehindIsSettled /\ SkippedIsKnown /\ DoneIsKnown /\ RecoveryComesFirst

(* However often it failed or died, answering with `resume` ends in a      *)
(* finished setup, unless a managed SSH drifted, which only the ssh        *)
(* command repairs, or a phase of the scope that was not declined refuses  *)
(* for good: UFW with inactive rules, which a kill between `ufw allow` and *)
(* `ufw enable` leaves too, swap or APT settings it will not take over.    *)
SSHDrift == file.ssh = "managed" /\ ~ok["ssh_hardening"]
Blocked ==
    \E p \in stuck \cap ToSet(Load(DefaultPhases).order) : file.status[p] # "skipped"
Converges == <>[](finished \/ SSHDrift \/ Blocked)

(* "`resume` does not expand saved safe scope unexpectedly": it goes       *)
(* through no phase outside the scope that base or full finished last.     *)
ResumeKeepsScope ==
    [][command' = "resume" /\ command = "none" /\ chosen # <<>> =>
         ToSet(memory'.order) \subseteq ToSet(chosen)]_vars
=============================================================================
