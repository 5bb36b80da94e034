----------------------------- MODULE Operations -----------------------------
(***************************************************************************)
(* The component commands on the state the SSH migration works on:         *)
(* `vps-bootstrap firewall` (app/firewall.py) and `vps-bootstrap fail2ban` *)
(* (app/fail2ban.py), each run through run_component_reconfigure of        *)
(* app/resume.py, between the runs of `vps-bootstrap ssh` that             *)
(* SSHMigration models.  It adds the firewall and fail2ban phases of       *)
(* state.json, which the commands record and which the migration           *)
(* synchronizes (synchronize_ssh_component_states).                        *)
(*                                                                         *)
(* One process runs at a time.  The state file has no lock, so two at once *)
(* are possible and are not modelled.                                      *)
(***************************************************************************)
EXTENDS SSHMigration

CONSTANT MaxTasks   \* bound: how many component commands the operator starts
ASSUME TaskAssumption == MaxTasks \in Nat

VARIABLES
    task,    \* where the component command is, "none" when none runs
    work,    \* its ports, the UFW rules it added, whether it missed rules of
             \* an inactive UFW, and what it will record
    phases,  \* the firewall and fail2ban phases in state.json
    behind,  \* history: see LeftBehind
    loaded,  \* the same in the process, InstallState.phases
    tasks    \* how many commands were started

phaseVars == <<phases, behind>>
taskVars == <<task, work, phaseVars, loaded, tasks>>

Task == {"none", "fw_ask", "fw_allow", "fw_verify", "fw_undo", "f2b_ask",
         "f2b_apply", "f2b_verify", "save_firewall", "save_fail2ban", "exit"}
Phase == [status : {"pending", "done", "failed", "skipped"},
          mode : {"none", "managed", "skipped"}, ports : SUBSET Port]
Phases == [firewall : Phase, fail2ban : Phase]
Work == [ports : SUBSET Port, todo : SUBSET Port, attempted : SUBSET Port,
         unseen : BOOLEAN, marked : BOOLEAN,
         result : {"none", "managed", "skipped", "failed", "uncaught"}]

Pending == [status |-> "pending", mode |-> "none", ports |-> {}]
Managed(ports) == [status |-> "done", mode |-> "managed", ports |-> ports]
Skipped == [status |-> "skipped", mode |-> "skipped", ports |-> {}]
NoWork == [ports |-> {}, todo |-> {}, attempted |-> {}, unseen |-> FALSE,
           marked |-> FALSE, result |-> "none"]

(* current_ssh_ports: the listeners, or what is configured when there are  *)
(* none or ss fails.                                                       *)
Listeners == IF live.ports = {} THEN EffectivePorts(files.dropin) ELSE live.ports
Found(ports) ==
    \/ ports = Listeners /\ UNCHANGED faults
    \/ ports = EffectivePorts(files.dropin) /\ Fault

OpsInit ==
    /\ Init
    /\ task = "none" /\ work = NoWork /\ tasks = 0
    /\ phases = [firewall |-> IF marker = {} THEN Pending ELSE Managed(marker),
                 fail2ban |-> IF jail = NoJail THEN Pending ELSE Managed(jail.file)]
    /\ behind = FALSE /\ loaded = phases

-----------------------------------------------------------------------------
(* The migration's side.  A record that ends a transaction carries the     *)
(* component states its metadata establishes; any other carries none.      *)

FirewallState(record) ==
    IF ~record.fw.managed \/ record.interrupted THEN {}
    ELSE IF record.mode = "managed" THEN {record.fw.final}
    ELSE IF record.fw.restored THEN {record.fw.original} ELSE {}
JailStateMutant(record) ==
    IF record.f2b.managed THEN {record.f2b.original} ELSE {}
JailState(record) ==
    IF ~record.f2b.managed \/ record.interrupted THEN {}
    ELSE IF record.mode = "managed" THEN {record.f2b.final} ELSE {record.f2b.original}

(* synchronize_ssh_component_states                                        *)
Synchronized(ps, record) ==
    [firewall |-> IF FirewallState(record) = {} THEN ps.firewall
                  ELSE Managed(UNION FirewallState(record)),
     fail2ban |-> IF JailState(record) = {} THEN ps.fail2ban
                  ELSE Managed(UNION JailState(record))]

(* A rollback that ended without rewriting the marker file, because that   *)
(* write failed: its component states leave the firewall phase out, which  *)
(* is then behind the host until it is recorded again.                     *)
LeftBehind(record) ==
    record.mode # "managed" /\ ~record.interrupted /\ record.fw.managed /\ ~record.fw.restored

(* The saves of the migration write the whole of state.json.               *)
MigrationSteps ==
    /\ task = "none"
    /\ Process \/ KeepCurrent \/ StartMigration \/ StartRecovery \/ Crash
    /\ phases' = IF saved' = saved THEN phases ELSE Synchronized(loaded, saved')
    /\ behind' = IF saved' = saved THEN behind
                 ELSE FirewallState(saved') = {} /\ (behind \/ LeftBehind(saved'))
    /\ loaded' = IF pc' = "idle" THEN phases' ELSE Synchronized(loaded, memory')
    /\ UNCHANGED <<task, work, tasks>>

-----------------------------------------------------------------------------
(* vps-bootstrap firewall: ensure_firewall_from_state, reconfiguring.      *)

Unchanged == UNCHANGED <<hostVars, recordVars, pc, txnVars, metaVars, runs>>

StartTask ==
    /\ pc = "idle" /\ task = "none" /\ tasks < MaxTasks
    /\ task' \in {"fw_ask", "f2b_ask"}
    /\ tasks' = tasks + 1
    /\ UNCHANGED <<vars, work, phaseVars, loaded>>

(* The command ends its own part with a result for run_component_reconfigure *)
To(save, result) == task' = save /\ work' = [work EXCEPT !.result = result]

DeclineTask ==
    /\ \/ task = "fw_ask" /\ To("save_firewall", "skipped")
       \/ task = "f2b_ask" /\ To("save_fail2ban", "skipped")
    /\ UNCHANGED <<vars, phaseVars, loaded, tasks>>

(* Rules left in an inactive UFW were not reviewed; ufw status may fail.   *)
(* A customized setting of Fail2ban may be invalid.                        *)
InactiveRules == ~ufw.active /\ \E p \in Port : ufw.rules[p] # "none"
RefuseTask ==
    /\ \/ /\ task = "fw_ask" /\ To("save_firewall", "failed")
          /\ IF InactiveRules THEN UNCHANGED faults ELSE Fault
       \/ task = "f2b_ask" /\ To("save_fail2ban", "failed") /\ UNCHANGED faults
    /\ Unchanged /\ UNCHANGED <<ufwVars, jail, phaseVars, loaded, tasks>>

PlanFirewallMutant ==
    /\ task = "fw_ask"
    /\ task' = "fw_allow"
    /\ \E ports \in SUBSET Port :
         /\ Found(ports)
         /\ work' = [NoWork EXCEPT !.ports = ports, !.todo = ports \ ManagedPorts,
                                   !.marked = marker # {}]
    /\ ~InactiveRules
    /\ Unchanged /\ UNCHANGED <<ufwVars, jail, phaseVars, loaded, tasks>>
PlanFirewall ==
    /\ task = "fw_ask"
    /\ task' = "fw_allow"
    /\ \E ports \in SUBSET Port :
         /\ Found(ports)
         /\ work' = [NoWork EXCEPT !.ports = ports, !.todo = ports \ AllowedPorts,
                                   !.marked = marker # {}]
    /\ ~InactiveRules
    /\ Unchanged /\ UNCHANGED <<ufwVars, jail, phaseVars, loaded, tasks>>

(* When ufw show added fails, an inactive UFW seems to have no rules.      *)
PlanUnseen ==
    /\ task = "fw_ask" /\ InactiveRules /\ Fault
    /\ task' = "fw_allow"
    /\ \E ports \in {Listeners, EffectivePorts(files.dropin)} :
         work' = [NoWork EXCEPT !.ports = ports, !.todo = ports, !.unseen = TRUE,
                                !.marked = marker # {}]
    /\ Unchanged /\ UNCHANGED <<ufwVars, jail, phaseVars, loaded, tasks>>

AllowPortMutant ==
    /\ task = "fw_allow"
    /\ \E p \in work.todo :
         /\ work' = [work EXCEPT !.todo = @ \ {p}, !.attempted = @ \cup {p}]
         /\ \/ SetRules({p}, "managed") /\ UNCHANGED faults
            \/ Fault /\ UNCHANGED ufw
    /\ Unchanged /\ UNCHANGED <<marker, strays, jail, task, phaseVars, loaded, tasks>>
(* allow_managed_port, one port at a time.  It looks for rules of others   *)
(* only in an active UFW; there ufw allow makes an equal rule its own, by  *)
(* the comment.                                                            *)
AllowPort ==
    /\ task = "fw_allow"
    /\ \E p \in work.todo :
         /\ work' = [work EXCEPT !.todo = @ \ {p}, !.attempted = @ \cup {p}]
         /\ \/ SetRules({p}, "managed") /\ UNCHANGED <<task, faults>>
            \/ /\ Fault /\ task' = "fw_undo"
               /\ SetRules({p}, "managed") \/ UNCHANGED ufw
    /\ Unchanged /\ UNCHANGED <<marker, strays, jail, phaseVars, loaded, tasks>>

EnableUfwMutant ==
    /\ task = "fw_allow"
    /\ work.todo = {} \/ ~ufw.active
    /\ ufw' = [ufw EXCEPT !.active = TRUE]
    /\ task' = (IF work.todo = {} THEN "fw_verify" ELSE "fw_allow")
    /\ Unchanged /\ UNCHANGED <<marker, strays, jail, faults, work, phaseVars, loaded, tasks>>
(* The default policies, then ufw --force enable if it is not active.      *)
EnableUfw ==
    /\ task = "fw_allow" /\ work.todo = {}
    /\ \/ /\ ufw' = [ufw EXCEPT !.active = TRUE]
          /\ task' = "fw_verify" /\ UNCHANGED faults
       \/ /\ Fault /\ task' = "fw_undo"
          /\ ufw' \in {ufw, [ufw EXCEPT !.active = TRUE]}
    /\ Unchanged /\ UNCHANGED <<marker, strays, jail, work, phaseVars, loaded, tasks>>

(* verify_firewall_state, then write_managed_state.  An OSError of the     *)
(* write also undoes the rules, but is not the error that is recorded.     *)
VerifyAndMark ==
    /\ task = "fw_verify"
    /\ \/ /\ VerifyFirewall(work.ports)
          /\ marker' = work.ports
          /\ To("save_firewall", "managed") /\ UNCHANGED faults
       \/ /\ UNCHANGED marker /\ To("fw_undo", "failed")
          /\ IF VerifyFirewall(work.ports) THEN Fault ELSE UNCHANGED faults
       \/ /\ VerifyFirewall(work.ports) /\ Fault
          /\ marker' \in {marker, work.ports}
          /\ To("fw_undo", "uncaught")
    /\ Unchanged /\ UNCHANGED <<ufw, strays, jail, phaseVars, loaded, tasks>>

UndoFirewallMutant ==
    LET added == {p \in work.ports : ufw.rules[p] = "managed"}
    IN  /\ task = "fw_undo"
        /\ SetRules(added, "none")
        /\ IF work.result = "uncaught" THEN To("exit", "uncaught")
                                       ELSE To("save_firewall", "failed")
        /\ marker' = IF work.marked THEN marker ELSE {}
        /\ Unchanged /\ UNCHANGED <<strays, jail, faults, phaseVars, loaded, tasks>>
(* The except block: delete what was attempted, UFW active or not.         *)
UndoFirewall ==
    LET added == {p \in work.attempted : ufw.rules[p] = "managed"}
    IN  /\ task = "fw_undo"
        /\ \E kept \in SUBSET added :
             /\ SetRules(added \ kept, "none")
             /\ IF kept = {} THEN UNCHANGED faults ELSE Fault
             /\ IF kept = {} /\ work.result = "uncaught"
                THEN To("exit", "uncaught")
                ELSE To("save_firewall", "failed")
        /\ marker' = IF work.marked THEN marker ELSE {}
        /\ Unchanged /\ UNCHANGED <<strays, jail, phaseVars, loaded, tasks>>

-----------------------------------------------------------------------------
(* vps-bootstrap fail2ban: ensure_fail2ban_from_state, reconfiguring.      *)

(* Option [4]: the result of the restart is not looked at.                 *)
DisableJail ==
    /\ task = "f2b_ask" /\ To("save_fail2ban", "skipped")
    /\ \/ jail' = NoJail /\ UNCHANGED faults
       \/ jail' = [jail EXCEPT !.file = {}] /\ Fault
    /\ Unchanged /\ UNCHANGED <<ufwVars, phaseVars, loaded, tasks>>

PlanSettings ==
    /\ task = "f2b_ask"
    /\ task' = "f2b_apply"
    /\ \E ports \in SUBSET Port :
         Found(ports) /\ work' = [NoWork EXCEPT !.ports = ports]
    /\ Unchanged /\ UNCHANGED <<ufwVars, jail, phaseVars, loaded, tasks>>

(* apply_settings.  A Ctrl-C in it, once undone, ends the command.         *)
ApplySettings ==
    /\ task = "f2b_apply"
    /\ \/ /\ jail' = JailOf(work.ports) /\ UNCHANGED <<work, faults>>
          /\ task' = "f2b_verify"
       \/ /\ jail' \in FailedJails(work.ports) /\ Fault
          /\ To("save_fail2ban", "failed") \/ To("exit", "uncaught")
    /\ Unchanged /\ UNCHANGED <<ufwVars, phaseVars, loaded, tasks>>

VerifySettings ==
    /\ task = "f2b_verify"
    /\ \/ VerifyJail(work.ports) /\ To("save_fail2ban", "managed") /\ UNCHANGED faults
       \/ /\ To("save_fail2ban", "failed")
          /\ IF VerifyJail(work.ports) THEN Fault ELSE UNCHANGED faults
    /\ Unchanged /\ UNCHANGED <<ufwVars, jail, phaseVars, loaded, tasks>>

-----------------------------------------------------------------------------
(* run_component_reconfigure *)

(* What is recorded of a phase: a failed run keeps the data it found.      *)
Recorded(phase, verified) ==
    CASE work.result = "skipped" -> Skipped
      [] work.result = "failed" -> [phase EXCEPT !.status = "failed"]
      [] work.result = "managed" ->
           [Managed(work.ports) EXCEPT !.status = IF verified THEN "done" ELSE "failed"]

SaveTask ==
    /\ \/ /\ task = "save_firewall"
          /\ loaded' = [loaded EXCEPT !.firewall =
                          Recorded(@, VerifyFirewall(work.ports))]
       \/ /\ task = "save_fail2ban"
          /\ loaded' = [loaded EXCEPT !.fail2ban =
                          Recorded(@, VerifyJail(work.ports))]
    /\ \/ phases' = loaded' /\ UNCHANGED faults
       \/ phases' \in {phases, loaded'} /\ Fault
    /\ behind' = (behind /\ (task # "save_firewall" \/ phases' # loaded'))
    /\ task' = "exit"
    /\ Unchanged /\ UNCHANGED <<ufwVars, jail, work, tasks>>

NoTask == task' = "none" /\ work' = NoWork /\ loaded' = phases

(* The command returns, or an error that nothing catches ends it.          *)
EndTask ==
    /\ task = "exit" /\ NoTask
    /\ UNCHANGED <<vars, phaseVars, tasks>>

CrashTask ==
    /\ task # "none" /\ NoTask /\ Fault
    /\ Unchanged /\ UNCHANGED <<ufwVars, jail, phaseVars, tasks>>

RebootAll ==
    /\ Reboot /\ NoTask /\ UNCHANGED <<phaseVars, tasks>>

FirewallSteps ==
    \/ PlanFirewall \/ PlanUnseen \/ AllowPort \/ EnableUfw \/ VerifyAndMark
    \/ UndoFirewall
Fail2banSteps == DisableJail \/ PlanSettings \/ ApplySettings \/ VerifySettings
OpsNext ==
    \/ MigrationSteps \/ StartTask \/ DeclineTask \/ RefuseTask \/ FirewallSteps \/ Fail2banSteps
    \/ SaveTask \/ EndTask \/ CrashTask \/ RebootAll

OpsSpec == OpsInit /\ [][OpsNext]_<<vars, taskVars>>

-----------------------------------------------------------------------------
OpsTypeOK ==
    /\ TypeOK
    /\ task \in Task /\ work \in Work /\ tasks \in 0..MaxTasks
    /\ phases \in Phases /\ loaded \in Phases /\ behind \in BOOLEAN

Resting == task = "none" /\ pc = "idle" /\ ~saved.interrupted

(* UFW is never turned on in front of a port SSH listens on without a rule *)
(* for it, as long as no migration is interrupted: the interrupted one may *)
(* have written ports it has not yet applied.                              *)
EnabledWithRules ==
    [][~ufw.active /\ ufw'.active /\ ~saved.interrupted
          => \A p \in live.ports : ufw'.rules[p] # "none"]_<<vars, taskVars>>

(* "Unrelated firewall rules are never deleted", nor taken over, by the    *)
(* commands, the migrations, their rollbacks and their failures together.  *)
(* One exception: the firewall command takes over a rule for a port that   *)
(* SSH uses (and its undo then deletes it), when UFW is inactive and `ufw  *)
(* show added` failed (firewall.py:89-90).                                 *)
TakesOver(p) == task = "fw_allow" /\ work.unseen /\ ~ufw.active /\ p \in work.todo
UnmanagedKept ==
    [][\A p \in Port : ufw.rules[p] = "unmanaged"
          => ufw'.rules[p] = "unmanaged" \/ TakesOver(p)]_<<vars, taskVars>>

(* Why these two hold: their inductive invariant.  While `ufw allow` runs,  *)
(* what is still to do has no rule of the operator's that the command saw, *)
(* and in front of an inactive UFW each listening port is still to do or   *)
(* has its rule.                                                           *)
OneProcess == task # "none" => pc = "idle"
ResultKnown ==
    task \in {"save_firewall", "save_fail2ban"} =>
        work.result \in {"managed", "skipped", "failed"}
AllowedBeforeEnable ==
    task = "fw_allow" /\ ~ufw.active /\ ~saved.interrupted =>
        \A p \in live.ports : p \in work.todo \/ ufw.rules[p] # "none"
TodoNotForeign ==
    task = "fw_allow" =>
        IF work.unseen THEN ~ufw.active \/ work.todo = {}
        ELSE \A p \in work.todo : ufw.rules[p] # "unmanaged"
AllowInv == OneProcess /\ ResultKnown /\ AllowedBeforeEnable /\ TodoNotForeign

(* What state.json says of the firewall is true: a phase recorded as done  *)
(* verifies, whatever commands, migrations and rollbacks ran since, unless *)
(* a migration is interrupted or a rollback has left the phase behind.     *)
ClaimHolds(phase) ==
    phase.status = "done" /\ phase.mode = "managed" => VerifyFirewall(phase.ports)
FirewallPhaseTrue == Resting /\ ~behind => ClaimHolds(phases.firewall)

(* Successful migrations synchronize both phases with the authoritative    *)
(* ports, and no command run later makes them disagree with the SSH record.*)
Agrees(ps, record) ==
    record.mode = "managed" /\ ~record.interrupted =>
        /\ record.fw.managed /\ ps.firewall.mode = "managed" =>
              ps.firewall.ports = record.ports
        /\ record.f2b.managed /\ ps.fail2ban.mode = "managed" =>
              ps.fail2ban.ports = record.ports
PhasesAgree == Resting => Agrees(phases, saved)

(* Why these two hold.  A migration that manages the firewall says so in   *)
(* its open record before it deletes a rule, and its metadata can restore  *)
(* what the phase or the marker from before relies on; what closes the     *)
(* record has been verified, and a command touches only ports that had no  *)
(* rule when it started.                                                   *)
OpenManaged == saved.interrupted /\ saved.fw.managed
Same(m, n) ==
    /\ m.managed = n.managed /\ m.original = n.original
    /\ m.added = n.added /\ m.oldManaged = n.oldManaged
Restorable(m, old) ==
    m.managed => /\ ufw.active
                 /\ m.original \cap old \subseteq m.oldManaged
                 /\ m.original \ old \subseteq ManagedPorts
                 /\ m.added \cap m.original = {}
Claimed == IF OpenManaged THEN saved.fw.original \ saved.old
           ELSE IF ~behind /\ phases.firewall.status = "done"
                           /\ phases.firewall.mode = "managed"
           THEN phases.firewall.ports ELSE {}

MetaKnown ==
    /\ pc = "idle" => memory = NoRecord
    /\ pc \in {"idle", "planned", "backup", "backed", "applying", "fw_prepare"} => ~fwMeta.managed
    /\ pc = "backup" => memory.interrupted
    /\ pc \in Deleting /\ fwMeta.managed => saved.fw.managed /\ memory.fw.managed
    /\ pc \in {"exit", "finished"} /\ fwMeta.managed => memory.fw.managed
    /\ pc # "idle" =>
         /\ memory.fw.managed => fwMeta.managed
         /\ \A r \in {saved, memory} :
              r.interrupted /\ r.fw.managed => r.old = plan.old /\ Same(r.fw, fwMeta)
RestoreKnown ==
    /\ pc # "idle" => Restorable(fwMeta, plan.old)
    /\ pc = "idle" /\ saved.interrupted => Restorable(saved.fw, saved.old)
    /\ pc \in Restoration /\ fwMeta.managed => VerifyFirewall(fwMeta.original)
FinalKnown ==
    /\ pc = "verified" => live.ports = plan.final /\ (fwMeta.managed => VerifyFirewall(plan.final))
    /\ fwMeta.managed /\ pc \in {"fw_finalized", "verify", "verified"} => fwMeta.final = plan.final
    /\ f2bMeta.managed /\ pc \in {"f2b_finalized", "fw_finalizing", "fw_finalize",
                                  "fw_finalized", "verify", "verified"}
         => f2bMeta.final = plan.final
ClosedKnown ==
    /\ \A r \in {saved, memory} : r.mode = "managed" /\ ~r.interrupted =>
         (r.fw.managed => r.fw.final = r.ports) /\ (r.f2b.managed => r.f2b.final = r.ports)
    /\ saved.mode = "managed" /\ ~saved.interrupted => live.ports = saved.ports
    /\ pc \in {"exit", "finished"} =>
         /\ memory.mode = "managed" /\ ~memory.interrupted => live.ports = memory.ports
         /\ \A ports \in FirewallState(memory) : VerifyFirewall(ports)
RuleInv == MetaKnown /\ RestoreKnown /\ FinalKnown /\ ClosedKnown

PhasesLoaded ==
    /\ (IF task = "none" THEN pc = "idle" ELSE task # "exit") => loaded = phases
    /\ pc # "idle" /\ ~fwMeta.managed => loaded.firewall = phases.firewall
ClaimKnown == ~behind /\ ~OpenManaged => ClaimHolds(phases.firewall)
WorkKnown ==
    /\ task \in {"fw_allow", "fw_verify", "fw_undo"} =>
         Claimed \cap (work.todo \cup work.attempted) = {}
    /\ \/ task \in {"fw_allow", "fw_verify", "f2b_apply", "f2b_verify"}
       \/ task \in {"save_firewall", "save_fail2ban"} /\ work.result = "managed"
       => saved.interrupted \/ work.ports = live.ports
PhaseInv == PhasesLoaded /\ ClaimKnown /\ WorkKnown /\ Agrees(phases, saved)
OpsInv == AllowInv /\ RuleInv /\ PhaseInv

(* "`sudo vps-bootstrap firewall` enables UFW without breaking SSH": also  *)
(* when the command fails, the operator can still log in.                  *)
FirewallKeepsSsh == task = "none" /\ pc = "idle" => NoLockout

(* A recovered migration left the operator the old port: "SSH rollback     *)
(* restores and verifies OLD UFW access before restoring SSH".             *)
RecoveryKeepsSsh == task = "none" /\ Ended("skipped") => NoLockout
=============================================================================
