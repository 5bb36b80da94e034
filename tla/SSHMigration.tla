---------------------------- MODULE SSHMigration ----------------------------
(***************************************************************************)
(* The SSH/UFW/Fail2ban port migration of app/ssh_hardening.py             *)
(* (apply_ssh_plan, rollback_ssh_transaction, recover_interrupted_         *)
(* migration) with the migration halves of app/firewall.py and             *)
(* app/fail2ban.py.  One action is one system call, or one save of         *)
(* state.json, or one answer of the operator; between any two of them the  *)
(* process may be killed (Crash) or the machine may restart (Reboot).      *)
(*                                                                         *)
(* Definitions named ...Mutant break the one that follows them, as a bug   *)
(* would; no specification here uses them.                                 *)
(*                                                                         *)
(* A fault is an operation of the host that fails: a command that exits    *)
(* non-zero or times out (command.py reports 124), a write that raises, a  *)
(* Ctrl-C.  A failed operation may have had its effect, or part of it: a   *)
(* kill within one is its failure and then Crash or Reboot.                *)
(***************************************************************************)
EXTENDS Naturals, FiniteSets

CONSTANTS
    Port,        \* the TCP ports of the model, numbers
    Hosts,       \* the hosts considered, a subset of HostType
    Firewalls,   \* the states of UFW they may start in, a subset of Ufw
    DefaultPort, \* the port sshd uses when no Port directive exists (22)
    BlindDiscovery, \* whether sshd -T may fail while SSH is discovered
    MaxRuns,     \* bound: how many migrations the operator starts
    MaxFaults    \* bound: how many operations fail, crashes and reboots occur

VARIABLES
    host,    \* what no step changes: see HostType
    files,   \* on disk: the sshd drop-in and the ssh.socket override; torn
             \* (history): those whose restoration was cut off, not yet repeated
    live,    \* the ports SSH listens on and the auth policy it enforces;
             \* torn (history): the torn files it was started from
    ufw,     \* UFW: whether it is active, and its allow rules
    marker,  \* the ports in the managed UFW state file, {} if none
    strays,  \* history: the managed UFW rules that no record accounts for
    jail,    \* the ports in the managed Fail2ban jail and in the running one
    saved,   \* the ssh_hardening phase data in state.json
    memory,  \* the same data in the process, as of its last attempted save
    pc,      \* where the process is, "idle" when no process runs
    recovering, \* the rollback in progress was asked for by the operator
    plan,    \* the SSHPlan and what discovery saw, or the old ports to restore
    backups, \* the configuration files that a rollback restores
    fwMeta,  \* component_metadata["firewall"]
    f2bMeta, \* component_metadata["fail2ban"]
    runs, faults \* how much of the two bounds is used

hostVars == <<host, files, live>>
ufwVars == <<ufw, marker, strays>>
metaVars == <<fwMeta, f2bMeta>>
txnVars == <<recovering, plan, backups>>
recordVars == <<saved, memory>>
vars == <<host, files, live, ufw, marker, strays, jail, saved, memory, pc,
          recovering, plan, backups, fwMeta, f2bMeta, runs, faults>>

-----------------------------------------------------------------------------
(* Data.  The auth policies are ordered by what they forbid: "keyonly" no  *)
(* passwords, "noroot" no passwords and no root login.                     *)

Auth == {"open", "keyonly", "noroot"}
Rank == [open |-> 0, keyonly |-> 1, noroot |-> 2]
Stricter(a, b) == IF Rank[a] > Rank[b] THEN a ELSE b

HostType ==
    [activation : {"service", "socket"},
     base : SUBSET Port,       \* the Port lines of sshd_config
     auth : Auth,              \* its auth policy
     provider : SUBSET Port,   \* the ports the provider's firewall lets in
     login : {{"open"}, {"open", "keyonly"}, Auth}]
                               \* policies under which the operator's keys work
ASSUME PortAssumption == DefaultPort \in Port
ASSUME HostsAssumption == Hosts \subseteq HostType
RuleKind == {"none", "managed", "unmanaged"}
Ufw == [active : BOOLEAN, rules : [Port -> RuleKind]]
ASSUME FirewallsAssumption == Firewalls \subseteq Ufw
ASSUME BoundAssumption ==
    MaxRuns \in Nat /\ MaxFaults \in Nat /\ BlindDiscovery \in BOOLEAN

Jail == [file : SUBSET Port, up : SUBSET Port]
DropIn == [ports : SUBSET Port, auth : Auth \cup {"absent"}]
Torn == SUBSET {"dropin", "socket"}
Files == [dropin : DropIn, socket : SUBSET Port, torn : Torn]
Live == [ports : SUBSET Port, auth : Auth, torn : Torn]

JailOf(ports) == [file |-> ports, up |-> ports]
NoJail == JailOf({})
NoDropIn == [ports |-> {}, auth |-> "absent"]
NoFiles == [dropin |-> NoDropIn, socket |-> {}, torn |-> {}]
NoBackups == [taken |-> FALSE, files |-> NoFiles]
NoFwMeta == [managed |-> FALSE, added |-> {}, oldManaged |-> {},
             original |-> {}, final |-> {}, pending |-> {}, restored |-> FALSE]
NoF2bMeta == [managed |-> FALSE, original |-> {}, final |-> {}]
NoPlan == [old |-> {}, target |-> {}, final |-> {}, auth |-> "open",
           finalAuth |-> "open", ufwActive |-> FALSE, ufwAllowed |-> {}]
NoRecord == [mode |-> "none", stage |-> "none", interrupted |-> FALSE,
             backups |-> NoBackups, old |-> {}, ports |-> {},
             fw |-> NoFwMeta, f2b |-> NoF2bMeta]

Backups == [taken : BOOLEAN, files : Files]
FwMeta == [managed : BOOLEAN, added : SUBSET Port, oldManaged : SUBSET Port,
           original : SUBSET Port, final : SUBSET Port, pending : SUBSET Port,
           restored : BOOLEAN]
F2bMeta == [managed : BOOLEAN, original : SUBSET Port, final : SUBSET Port]
Plan == [old : SUBSET Port, target : SUBSET Port, final : SUBSET Port,
         auth : Auth, finalAuth : Auth, ufwActive : BOOLEAN,
         ufwAllowed : SUBSET Port]
Stages == {"none", "planned", "transition_applying", "transition_active",
           "awaiting_second_session", "finalizing", "fail2ban_finalized",
           "firewall_finalizing", "done", "rollback_started", "rolled_back",
           "rollback_failed"}
Record == [mode : {"none", "migration", "managed", "skipped"},
           stage : Stages, interrupted : BOOLEAN, backups : Backups,
           old : SUBSET Port, ports : SUBSET Port,
           fw : FwMeta, f2b : F2bMeta]

(* What sshd -T reports: Port directives of sshd_config and of the drop-in *)
(* add up, the first auth directive (the drop-in's) wins.                  *)
EffectivePorts(d) ==
    LET configured == host.base \cup d.ports
    IN  IF configured = {} THEN {DefaultPort} ELSE configured
EffectiveAuth(d) == IF d.auth = "absent" THEN host.auth ELSE d.auth

(* The ports bound when the unit (re)starts with configuration f.          *)
Listening(f) == IF host.activation = "socket" /\ f.socket # {}
                THEN f.socket ELSE EffectivePorts(f.dropin)
Started(f) == [ports |-> Listening(f), auth |-> EffectiveAuth(f.dropin), torn |-> f.torn]
Down == [live EXCEPT !.ports = {}]

(* parse_ufw_status: an inactive UFW lists no rule.                        *)
AllowedPorts == IF ufw.active THEN {p \in Port : ufw.rules[p] # "none"} ELSE {}
ManagedPorts == IF ufw.active THEN {p \in Port : ufw.rules[p] = "managed"} ELSE {}
VerifyFirewall(ports) == ufw.active /\ ports \subseteq ManagedPorts
ManagedFirewallExists == marker # {} /\ VerifyFirewall(marker)
SetRules(ports, kind) ==
    ufw' = [ufw EXCEPT !.rules = [p \in Port |->
                                    IF p \in ports THEN kind ELSE ufw.rules[p]]]

VerifyJail(ports) == jail.file = ports /\ jail.up # {} /\ live.ports = ports

(* An operator outside can log in through port p under policy a.           *)
Reachable(p) == /\ p \in live.ports \cap host.provider
                /\ ~ufw.active \/ ufw.rules[p] # "none"

-----------------------------------------------------------------------------
(* Initial states: a host an operator can reach, with or without explicit  *)
(* Port lines, with UFW off, on and unmanaged, or on and managed by        *)
(* vps-bootstrap, and with or without its Fail2ban jail.  A UFW that is    *)
(* off may have rules of the operator's, as one that is on.                *)

Init ==
    /\ host \in Hosts
    /\ files = NoFiles
    /\ live = Started(NoFiles)
    /\ live.auth \in host.login
    /\ live.ports \cap host.provider # {}
    /\ ufw \in Firewalls
    /\ marker \in {{}, live.ports}
    /\ ~ufw.active => \A p \in Port : ufw.rules[p] # "managed"
    /\ IF marker = {} THEN ManagedPorts = {} ELSE ManagedPorts = marker
    /\ \E p \in live.ports : Reachable(p)
    /\ strays = {}
    /\ jail \in {NoJail, JailOf(live.ports)}
    /\ saved = NoRecord
    /\ memory = NoRecord
    /\ pc = "idle"
    /\ recovering = FALSE
    /\ plan = NoPlan
    /\ backups = NoBackups
    /\ fwMeta = NoFwMeta
    /\ f2bMeta = NoF2bMeta
    /\ runs = 0
    /\ faults = 0

-----------------------------------------------------------------------------
PC == {"idle", "planned", "backup", "backed", "applying", "fw_prepare",
       "fw_prepared", "write_transition", "apply_transition", "f2b_prepare",
       "f2b_prepared", "activate", "await", "confirm_login", "confirm_sudo",
       "confirmed", "write_final", "apply_final", "f2b_finalize", "f2b_finalized",
       "fw_finalizing", "fw_finalize", "fw_finalized", "verify", "verified",
       "raised", "rb_firewall", "rb_ssh", "rb_jail", "rb_cleanup", "rb_failed",
       "rolled_back", "recovered", "finished", "exit"}

Fault == faults < MaxFaults /\ faults' = faults + 1
Goto(from, to) == pc = from /\ pc' = to

(* migration_state: what apply_ssh_plan hands to save_state.               *)
MigrationState(stage) ==
    [mode |-> "migration", stage |-> stage, interrupted |-> TRUE,
     backups |-> backups, old |-> plan.old, ports |-> {}, fw |-> fwMeta, f2b |-> f2bMeta]

(* update_phase_data, then InstallState.save: the data is in the process   *)
(* even when write_atomic raises, before or after it replaced state.json.  *)
Save(from, record, to, onFailure) ==
    /\ pc = from
    /\ memory' = record
    /\ \/ saved' = record /\ pc' = to /\ UNCHANGED faults
       \/ Fault /\ pc' = onFailure /\ saved' \in {saved, record}
    /\ UNCHANGED <<hostVars, ufwVars, jail, txnVars, metaVars, runs>>

-----------------------------------------------------------------------------
(* Discovery, the questions, the plan.                                     *)

(* What discover_ssh finds and build_ssh_plan makes of it.  When sshd -T    *)
(* fails, discovery goes on with the defaults of sshd; when ufw status     *)
(* fails, as if UFW were off.                                              *)
PlannedMutant(final, auth, old, current, allowed) ==
    [old |-> old, target |-> final, final |-> final,
     auth |-> current, finalAuth |-> Stricter(auth, current),
     ufwActive |-> ufw.active, ufwAllowed |-> allowed]
Planned(final, auth, old, current, allowed) ==
    [old |-> old, target |-> old \cup final, final |-> final,
     auth |-> current, finalAuth |-> Stricter(auth, current),
     ufwActive |-> ufw.active, ufwAllowed |-> allowed]

Discovered(final, auth) ==
    Planned(final, auth, EffectivePorts(files.dropin),
            EffectiveAuth(files.dropin), AllowedPorts)
DiscoveredWithoutUfw(final, auth) ==
    [Discovered(final, auth) EXCEPT !.ufwActive = FALSE, !.ufwAllowed = {}]
DiscoveredBlindly(final, auth) ==
    Planned(final, auth, {DefaultPort}, "open", AllowedPorts)

(* build_ssh_plan: blocked_reasons of a selected port.                     *)
Blocked(p) == /\ p.ufwActive /\ p.final # p.old
              /\ ~(p.final \subseteq p.ufwAllowed)
              /\ ~ManagedFirewallExists

(* The next record has nothing of the cleanup_pending of the last one.     *)
Replaced(record) == strays' = strays \cup record.fw.pending

(* apply_ssh_plan with nothing to change: verify, and record as managed.   *)
KeepCurrent ==
    LET ports == EffectivePorts(files.dropin)
        record == [NoRecord EXCEPT !.mode = "managed", !.old = ports,
                                   !.ports = ports]
    IN  /\ pc = "idle" /\ ~saved.interrupted /\ runs < MaxRuns
        /\ runs' = runs + 1
        /\ live.ports = ports
        /\ \/ saved' = record /\ UNCHANGED faults
           \/ Fault /\ UNCHANGED saved
        /\ Replaced(saved)
        /\ UNCHANGED <<hostVars, ufw, marker, jail, memory, pc, txnVars, metaVars>>

StartMigration ==
    \E auth \in Auth, final \in {EffectivePorts(files.dropin)} \cup {{p} : p \in Port} :
      /\ pc = "idle" /\ ~saved.interrupted /\ runs < MaxRuns
      /\ runs' = runs + 1
      /\ \/ plan' = Discovered(final, auth) /\ UNCHANGED faults
         \/ plan' = DiscoveredWithoutUfw(final, auth) /\ Fault
         \/ plan' = DiscoveredBlindly(final, auth) /\ Fault /\ BlindDiscovery
      /\ ~Blocked(plan')
      /\ plan'.final # plan'.old \/ plan'.finalAuth # plan'.auth
      /\ pc' = "planned"
      /\ Replaced(saved)
      /\ UNCHANGED <<hostVars, ufw, marker, jail, recordVars, recovering,
                     backups, metaVars>>

SavePlanned == Save("planned", MigrationState("planned"), "backup", "exit")

BackupFiles ==
    /\ \/ Goto("backup", "backed") /\ UNCHANGED faults
          /\ backups' = [taken |-> TRUE, files |-> files]
       \/ Goto("backup", "exit") /\ Fault /\ UNCHANGED backups
    /\ UNCHANGED <<hostVars, ufwVars, jail, recordVars, recovering, plan,
                   metaVars, runs>>

(* The last save outside apply_ssh_plan's try block.                       *)
SaveBackups ==
    Save("backed", MigrationState("planned"), "applying", "exit")

SaveApplying ==
    Save("applying", MigrationState("transition_applying"), "fw_prepare", "raised")

-----------------------------------------------------------------------------
(* The transition: both the old and the new ports.                         *)

(* firewall.prepare_ssh_migration.  A failing ufw status makes the         *)
(* firewall look unmanaged; a failing ufw allow leaves some rules, which   *)
(* the metadata it would have returned does not name.                      *)
PrepareFirewall ==
    LET missing == plan.target \ AllowedPorts
    IN  /\ pc = "fw_prepare"
        /\ \/ /\ ManagedFirewallExists
              /\ SetRules(missing, "managed")
              /\ fwMeta' = [managed |-> TRUE, added |-> missing,
                            oldManaged |-> ManagedPorts \cap plan.old,
                            original |-> marker, final |-> {}, pending |-> {},
                            restored |-> FALSE]
              /\ pc' = "fw_prepared"
              /\ UNCHANGED <<strays, faults>>
           \/ /\ ~ManagedFirewallExists
              /\ pc' = "fw_prepared"
              /\ UNCHANGED <<ufw, strays, fwMeta, faults>>
           \/ /\ ManagedFirewallExists /\ Fault
              /\ pc' = "fw_prepared"
              /\ UNCHANGED <<ufw, strays, fwMeta>>
           \/ /\ ManagedFirewallExists /\ Fault
              /\ \E some \in SUBSET missing :
                   SetRules(some, "managed") /\ strays' = strays \cup some
              /\ pc' = "raised"
              /\ UNCHANGED fwMeta
        /\ UNCHANGED <<hostVars, marker, jail, recordVars, txnVars, f2bMeta, runs>>

SaveFirewall ==
    Save("fw_prepared", MigrationState("transition_applying"),
         "write_transition", "raised")

(* write_atomic of the drop-in, then of the socket override.               *)
WriteConfig(from, ports, auth, to) ==
    LET dropin == [ports |-> ports, auth |-> auth]
        socket == IF host.activation = "socket" THEN ports ELSE files.socket
    IN  /\ \/ /\ Goto(from, to) /\ UNCHANGED faults
              /\ files' = [files EXCEPT !.dropin = dropin, !.socket = socket]
           \/ /\ Goto(from, "raised") /\ Fault
              /\ \/ UNCHANGED files
                 \/ host.activation = "socket" /\ files' = [files EXCEPT !.dropin = dropin]
        /\ UNCHANGED <<host, live, ufwVars, jail, recordVars, txnVars,
                       metaVars, runs>>

(* The transition rule the active UFW of discovery needs was not provided. *)
NoTransitionRule ==
    plan.ufwActive /\ ~(plan.target \subseteq plan.ufwAllowed) /\ ~fwMeta.managed

WriteTransition ==
    /\ ~NoTransitionRule
    /\ WriteConfig("write_transition", plan.target, plan.auth, "apply_transition")

RefuseTransition ==
    /\ NoTransitionRule
    /\ Goto("write_transition", "raised")
    /\ UNCHANGED <<hostVars, ufwVars, jail, recordVars, txnVars, metaVars, runs, faults>>

(* validate_candidate_effective, apply_systemd_ssh, then the check of the  *)
(* listeners.  A failed restart leaves the unit as it was, restarted or    *)
(* stopped.                                                                *)
ApplyConfig(from, ports, auth, to) ==
    LET valid == EffectivePorts(files.dropin) = ports /\ EffectiveAuth(files.dropin) = auth
    IN  /\ \/ /\ valid /\ Goto(from, to)
              /\ live' = Started(files)
              /\ UNCHANGED faults
           \/ /\ ~valid /\ Goto(from, "raised") /\ UNCHANGED <<live, faults>>
           \/ /\ valid /\ Goto(from, "raised") /\ Fault
              /\ live' \in {live, Started(files), Down}
        /\ UNCHANGED <<host, files, ufwVars, jail, recordVars, txnVars,
                       metaVars, runs>>

ApplyTransition ==
    ApplyConfig("apply_transition", plan.target, plan.auth, "f2b_prepare")

(* fail2ban.apply_settings: a failure restores the jail file, unless that  *)
(* fails too, and leaves any jail running, or none.  Restoring it copies   *)
(* in place, too, and can leave the file empty.                            *)
FailedJails(ports) ==
    {[jail EXCEPT !.file = ps] : ps \in {ports, {}}} \cup
    {[jail EXCEPT !.up = ps] : ps \in {jail.up, jail.file, ports, {}}}

ApplyJail(from, ports, to, meta) ==
    \/ /\ Goto(from, to) /\ UNCHANGED faults
       /\ jail' = JailOf(ports) /\ f2bMeta' = meta
    \/ /\ Goto(from, "raised") /\ Fault
       /\ jail' \in FailedJails(ports)
       /\ UNCHANGED f2bMeta

(* fail2ban.prepare_ssh_migration.                                         *)
PrepareJail ==
    /\ IF jail.file = {}
       THEN Goto("f2b_prepare", "f2b_prepared") /\ UNCHANGED <<jail, f2bMeta, faults>>
       ELSE ApplyJail("f2b_prepare", plan.target, "f2b_prepared",
                      [managed |-> TRUE, original |-> jail.file, final |-> {}])
    /\ UNCHANGED <<hostVars, ufwVars, recordVars, txnVars, fwMeta, runs>>

SaveJail ==
    Save("f2b_prepared", MigrationState("transition_applying"), "activate", "raised")
SaveActive ==
    Save("activate", MigrationState("transition_active"),
         IF plan.final # plan.old THEN "await" ELSE "confirm_login", "raised")
SaveAwaitingMutant ==
    Save("await", MigrationState("awaiting_confirmation"), "confirm_login", "raised")
SaveAwaiting ==
    Save("await", MigrationState("awaiting_second_session"), "confirm_login", "raised")

-----------------------------------------------------------------------------
(* The operator opens a second session and says so only if it worked.      *)

ConfirmLoginMutant ==
    /\ Goto("confirm_login",
            IF plan.finalAuth = "noroot" THEN "confirm_sudo" ELSE "confirmed")
    /\ UNCHANGED <<hostVars, ufwVars, jail, recordVars, txnVars, metaVars, runs, faults>>
ConfirmLogin ==
    /\ Goto("confirm_login",
            IF plan.finalAuth = "noroot" THEN "confirm_sudo" ELSE "confirmed")
    /\ \E p \in plan.final : Reachable(p)
    /\ plan.finalAuth # plan.auth => "keyonly" \in host.login
    /\ UNCHANGED <<hostVars, ufwVars, jail, recordVars, txnVars, metaVars, runs, faults>>

ConfirmSudo ==
    /\ Goto("confirm_sudo", "confirmed")
    /\ "noroot" \in host.login
    /\ UNCHANGED <<hostVars, ufwVars, jail, recordVars, txnVars, metaVars, runs, faults>>

DeclineMutant ==
    /\ pc \in {"confirm_login", "confirm_sudo"}
    /\ pc' = pc
    /\ UNCHANGED <<hostVars, ufwVars, jail, recordVars, txnVars, metaVars, runs, faults>>
(* An answer of no, an end of input, or Ctrl-C at the prompt.              *)
Decline ==
    /\ pc \in {"confirm_login", "confirm_sudo"}
    /\ pc' = "raised"
    /\ UNCHANGED <<hostVars, ufwVars, jail, recordVars, txnVars, metaVars, runs, faults>>

-----------------------------------------------------------------------------
(* Finalization: the new port only.                                        *)

SaveFinalizing ==
    Save("confirmed", MigrationState("finalizing"), "write_final", "raised")
WriteFinal ==
    WriteConfig("write_final", plan.final, plan.finalAuth, "apply_final")
ApplyFinal ==
    ApplyConfig("apply_final", plan.final, plan.finalAuth, "f2b_finalize")

(* fail2ban.finalize_ssh_migration.                                        *)
FinalizeJail ==
    /\ IF ~f2bMeta.managed
       THEN Goto("f2b_finalize", "f2b_finalized") /\ UNCHANGED <<jail, f2bMeta, faults>>
       ELSE ApplyJail("f2b_finalize", plan.final, "f2b_finalized",
                      [f2bMeta EXCEPT !.final = plan.final])
    /\ UNCHANGED <<hostVars, ufwVars, recordVars, txnVars, fwMeta, runs>>

SaveJailFinal ==
    Save("f2b_finalized", MigrationState("fail2ban_finalized"),
         IF fwMeta.managed THEN "fw_finalizing" ELSE "fw_finalize", "raised")
SaveFirewallFinalizing ==
    Save("fw_finalizing", MigrationState("firewall_finalizing"), "fw_finalize", "raised")

(* Delete the managed rules of ports but those in kept, whose deletion     *)
(* failed and is left pending.                                             *)
DeleteRules(ports, kept) ==
    SetRules((ports \cap ManagedPorts) \ kept, "none")

StaleMutant == plan.old
Stale == plan.old \ plan.final
FinalMarker == plan.final
FinalMetaMutant(kept) == [fwMeta EXCEPT !.final = plan.final]
FinalMeta(kept) == [fwMeta EXCEPT !.final = plan.final, !.pending = kept]

(* firewall.finalize_ssh_migration.  A managed firewall that was not seen  *)
(* keeps the rules of the ports SSH leaves; a new marker no longer counts  *)
(* those ports of the old one that the migration does not know.            *)
FinalizeFirewall ==
    /\ IF ~fwMeta.managed
       THEN /\ Goto("fw_finalize", "fw_finalized")
            /\ strays' = strays \cup (Stale \cap ManagedPorts)
            /\ UNCHANGED <<ufw, marker, fwMeta, faults>>
       ELSE /\ strays' = strays \cup (ManagedPorts \cap (marker \ plan.target))
            /\ \E kept \in SUBSET (Stale \cap ManagedPorts) :
                 /\ DeleteRules(Stale, kept)
                 /\ \/ /\ Goto("fw_finalize", "fw_finalized")
                       /\ IF kept = {} THEN UNCHANGED faults ELSE Fault
                       /\ marker' = FinalMarker
                       /\ fwMeta' = FinalMeta(kept)
                    \/ /\ Goto("fw_finalize", "raised") /\ Fault
                       /\ fwMeta' = [fwMeta EXCEPT !.pending = kept]
                       /\ UNCHANGED marker
    /\ UNCHANGED <<hostVars, jail, recordVars, txnVars, f2bMeta, runs>>

SaveFirewallFinal ==
    Save("fw_finalized",
         MigrationState(IF fwMeta.managed THEN "firewall_finalizing"
                                          ELSE "fail2ban_finalized"),
         "verify", "raised")

FinalStateHoldsMutant ==
    EffectivePorts(files.dropin) = plan.final /\ live.ports = plan.final
(* verify_expected_ssh_state and verify_transaction_components.            *)
FinalStateHolds ==
    /\ EffectivePorts(files.dropin) = plan.final /\ live.ports = plan.final
    /\ fwMeta.managed => VerifyFirewall(plan.final)
    /\ f2bMeta.managed => VerifyJail(plan.final)

VerifyComponents ==
    /\ \/ FinalStateHolds /\ Goto("verify", "verified") /\ UNCHANGED faults
       \/ ~FinalStateHolds /\ Goto("verify", "raised") /\ UNCHANGED faults
       \/ Goto("verify", "raised") /\ Fault
    /\ UNCHANGED <<hostVars, ufwVars, jail, recordVars, txnVars, metaVars, runs>>

SaveDone ==
    Save("verified",
         [MigrationState("done") EXCEPT !.mode = "managed", !.interrupted = FALSE,
                                        !.backups = NoBackups, !.ports = plan.final],
         "finished", "raised")

-----------------------------------------------------------------------------
(* Rollback, by apply_ssh_plan's handler or by the operator's recovery.    *)

SaveRollbackStarted ==
    Save("raised", MigrationState("rollback_started"), "rb_firewall", "exit")

RollbackFailed == IF recovering THEN "exit" ELSE "rb_failed"

(* firewall.restore_old_ssh_access and verify_old_ssh_access.              *)
RestoreFirewall ==
    LET lost == {p \in plan.old : ufw.rules[p] # "managed"
                        /\ (p \in fwMeta.oldManaged \/ ufw.rules[p] = "none")}
        addable == {p \in lost : ufw.active /\ ufw.rules[p] = "none"}
        possible == ufw.active /\ addable = lost
    IN  /\ \/ ~fwMeta.managed /\ Goto("rb_firewall", "rb_ssh") /\ UNCHANGED <<ufw, faults>>
           \/ /\ fwMeta.managed /\ possible
              /\ Goto("rb_firewall", "rb_ssh") /\ UNCHANGED faults
              /\ SetRules(lost, "managed")
           \/ /\ fwMeta.managed
              /\ Goto("rb_firewall", RollbackFailed)
              /\ IF possible THEN Fault ELSE UNCHANGED faults
              /\ \E some \in SUBSET addable : SetRules(some, "managed")
        /\ UNCHANGED <<hostVars, marker, strays, jail, recordVars, txnVars, metaVars, runs>>

RollbackSshMutant ==
    /\ pc = "rb_ssh"
    /\ files' = [files EXCEPT !.dropin = backups.files.dropin]
    /\ live' = Started(files')
    /\ pc' = IF plan.old \subseteq live'.ports THEN "rb_jail" ELSE RollbackFailed
    /\ UNCHANGED <<host, ufwVars, jail, recordVars, txnVars, metaVars, runs, faults>>

(* restore_file removes a file that has no backup; any other shutil.copy2  *)
(* empties and then writes.  Cut off there, by an error, a kill or a power *)
(* cut, the drop-in has none or some of its lines, the Port lines first;   *)
(* or the drop-in is restored and the override is cut off.                 *)
CutOff(b) ==
    LET lines == [ports : SUBSET b.dropin.ports, auth : {"absent"}]
    IN  {[files EXCEPT !.dropin = d, !.torn = @ \cup {"dropin"}] : d \in lines \ {b.dropin}}
        \cup {[b EXCEPT !.socket = ps, !.torn = {"socket"}] : ps \in (SUBSET b.socket) \ {b.socket}}
(* The drop-in is restored, the override is not.                           *)
HalfRestored(b) ==
    [files EXCEPT !.dropin = b.dropin, !.torn = @ \ {"dropin"}]

(* rollback_ssh: restore the files, restart, verify the old listeners.     *)
RollbackSsh ==
    /\ \/ /\ Goto("rb_ssh", IF plan.old \subseteq Listening(backups.files)
                            THEN "rb_jail" ELSE RollbackFailed)
          /\ files' = backups.files
          /\ live' = Started(backups.files)
          /\ UNCHANGED faults
       \/ /\ Goto("rb_ssh", RollbackFailed) /\ Fault
          /\ files' \in {files, HalfRestored(backups.files), backups.files}
                           \cup CutOff(backups.files)
          /\ IF files' = backups.files
             THEN live' \in {live, Started(backups.files), Down}
             ELSE UNCHANGED live
    /\ UNCHANGED <<host, ufwVars, jail, recordVars, txnVars, metaVars, runs>>

RollbackJailMutant ==
    /\ Goto("rb_jail", "rb_cleanup")
    /\ UNCHANGED <<hostVars, ufwVars, jail, recordVars, txnVars, metaVars, runs, faults>>

(* fail2ban.rollback_ssh_migration.                                        *)
RollbackJail ==
    /\ IF ~f2bMeta.managed
       THEN Goto("rb_jail", "rb_cleanup") /\ UNCHANGED <<jail, faults>>
       ELSE \/ /\ jail' = JailOf(f2bMeta.original)
               /\ Goto("rb_jail", IF f2bMeta.original = live.ports
                                  THEN "rb_cleanup" ELSE RollbackFailed)
               /\ UNCHANGED faults
            \/ /\ Goto("rb_jail", RollbackFailed) /\ Fault
               /\ jail' \in {jail, [jail EXCEPT !.file = {}]} \cup
                            [file : {f2bMeta.original},
                             up : {jail.up, f2bMeta.original, {}}]
    /\ UNCHANGED <<hostVars, ufwVars, recordVars, txnVars, metaVars, runs>>

(* firewall.rollback_ssh_migration: what fails here is left pending, only  *)
(* a Ctrl-C fails the rollback.                                            *)
CleanupFirewall ==
    LET done == Goto("rb_cleanup", IF recovering THEN "recovered" ELSE "rolled_back")
    IN  /\ IF ~fwMeta.managed
           THEN done /\ UNCHANGED <<ufw, marker, fwMeta, faults>>
           ELSE \E kept \in SUBSET (fwMeta.added \cap ManagedPorts) :
                  /\ DeleteRules(fwMeta.added, kept)
                  /\ \/ /\ done
                        /\ marker' = fwMeta.original
                        /\ fwMeta' = [fwMeta EXCEPT !.pending = kept, !.restored = TRUE]
                        /\ IF kept = {} THEN UNCHANGED faults ELSE Fault
                     \/ /\ done /\ Fault
                        /\ UNCHANGED marker
                        /\ fwMeta' = [fwMeta EXCEPT !.pending =
                                        IF kept = {} THEN fwMeta.added ELSE kept]
                     \/ /\ Goto("rb_cleanup", RollbackFailed) /\ Fault
                        /\ UNCHANGED <<marker, fwMeta>>
        /\ UNCHANGED <<hostVars, strays, jail, recordVars, txnVars, f2bMeta, runs>>

(* save_automatic_rollback_state.                                          *)
SaveRolledBack ==
    Save("rolled_back",
         [MigrationState("rolled_back") EXCEPT !.interrupted = FALSE,
                                               !.ports = plan.old],
         "exit", "exit")

SaveRollbackFailedMutant ==
    Save("rb_failed", [MigrationState("rollback_failed") EXCEPT !.interrupted = FALSE],
         "exit", "exit")
SaveRollbackFailed ==
    Save("rb_failed", MigrationState("rollback_failed"), "exit", "exit")

(* The caller saves the phase: with what a finished run returned, which   *)
(* has no stage, or as FAILED with the data the process holds.  It saves   *)
(* nothing after an error it does not catch.                               *)
(* With the process goes metadata that state.json has not got.             *)
Forget(record) ==
    /\ strays' = strays \cup (IF record.fw.managed THEN {} ELSE fwMeta.added)
    /\ memory' = NoRecord
    /\ recovering' = FALSE
    /\ plan' = NoPlan
    /\ backups' = NoBackups
    /\ fwMeta' = NoFwMeta
    /\ f2bMeta' = NoF2bMeta

Exit ==
    /\ pc \in {"exit", "finished"}
    /\ pc' = "idle"
    /\ saved' \in {saved, IF pc = "exit" THEN memory
                             ELSE [memory EXCEPT !.stage = "none"]}
    /\ Forget(saved')
    /\ UNCHANGED <<hostVars, ufw, marker, jail, runs, faults>>

-----------------------------------------------------------------------------
StartRecoveryMutant ==
    /\ Goto("idle", "rb_firewall")
    /\ saved.interrupted /\ saved.backups.taken /\ saved.old # {}
    /\ saved.stage # "rollback_failed"
    /\ recovering' = TRUE
    /\ plan' = [NoPlan EXCEPT !.old = saved.old]
    /\ backups' = saved.backups
    /\ fwMeta' = saved.fw
    /\ f2bMeta' = saved.f2b
    /\ memory' = saved
    /\ UNCHANGED <<hostVars, ufwVars, jail, saved, runs, faults>>

(* recover_interrupted_migration, option [2]; option [1] changes nothing.  *)
(* Without backup metadata it raises before it does anything.              *)

StartRecovery ==
    /\ Goto("idle", "rb_firewall")
    /\ saved.interrupted /\ saved.backups.taken /\ saved.old # {}
    /\ recovering' = TRUE
    /\ plan' = [NoPlan EXCEPT !.old = saved.old]
    /\ backups' = saved.backups
    /\ fwMeta' = saved.fw
    /\ f2bMeta' = saved.f2b
    /\ memory' = saved
    /\ UNCHANGED <<hostVars, ufwVars, jail, saved, runs, faults>>

SaveRecovered ==
    Save("recovered", [NoRecord EXCEPT !.mode = "skipped", !.old = plan.old,
                                       !.fw = fwMeta, !.f2b = f2bMeta],
         "finished", "exit")

-----------------------------------------------------------------------------
(* The process is killed, alone or with the machine.                       *)

Crash ==
    /\ pc # "idle"
    /\ Fault
    /\ pc' = "idle"
    /\ Forget(saved)
    /\ UNCHANGED <<hostVars, ufw, marker, jail, saved, runs>>

Reboot ==
    /\ Fault
    /\ live' = Started(files)
    /\ jail' = JailOf(jail.file)
    /\ pc' = "idle"
    /\ Forget(saved)
    /\ UNCHANGED <<host, files, ufw, marker, saved, runs>>

Saves ==
    \/ SavePlanned \/ SaveBackups \/ SaveApplying \/ SaveFirewall \/ SaveJail
    \/ SaveActive \/ SaveAwaiting \/ SaveFinalizing \/ SaveJailFinal
    \/ SaveFirewallFinalizing \/ SaveFirewallFinal \/ SaveDone
    \/ SaveRollbackStarted \/ SaveRolledBack \/ SaveRollbackFailed \/ SaveRecovered

Process ==
    \/ Saves \/ BackupFiles \/ PrepareFirewall \/ WriteTransition \/ RefuseTransition
    \/ ApplyTransition \/ PrepareJail \/ ConfirmLogin \/ ConfirmSudo \/ Decline
    \/ WriteFinal \/ ApplyFinal \/ FinalizeJail \/ FinalizeFirewall \/ VerifyComponents
    \/ RestoreFirewall \/ RollbackSsh \/ RollbackJail \/ CleanupFirewall \/ Exit

Next == Process \/ KeepCurrent \/ StartMigration \/ StartRecovery \/ Crash \/ Reboot

Spec == Init /\ [][Next]_vars

-----------------------------------------------------------------------------
TypeOK ==
    /\ host \in HostType /\ files \in Files /\ live \in Live
    /\ ufw \in Ufw
    /\ marker \in SUBSET Port /\ strays \in SUBSET Port /\ jail \in Jail
    /\ saved \in Record /\ memory \in Record
    /\ pc \in PC /\ recovering \in BOOLEAN
    /\ plan \in Plan /\ backups \in Backups
    /\ fwMeta \in FwMeta /\ f2bMeta \in F2bMeta
    /\ runs \in 0..MaxRuns /\ faults \in 0..MaxFaults

(* However often operations fail and the process or the machine stops, the *)
(* operator can log in wherever SSH listens at all: some port it listens   *)
(* on passes UFW and the provider, and its policy accepts the operator.    *)
(* One exception: a rollback was cut off while it copied the drop-in or    *)
(* the override of an earlier migration back (restore_file copies in       *)
(* place), and SSH was started again from what that left.                  *)
NoLockout ==
    live.ports # {} /\ live.torn = {} =>
        live.auth \in host.login /\ \E p \in live.ports : Reachable(p)

(* Unless the record asks for recovery, no half of a migration is left:    *)
(* the sshd drop-in, the socket override and the running daemon agree.     *)
Settled == live = Started(files) /\ EffectivePorts(files.dropin) = live.ports
SettledUnlessInterrupted == pc = "idle" /\ ~saved.interrupted => Settled

Ended(mode) == pc = "idle" /\ ~saved.interrupted /\ saved.mode = mode

(* A migration recorded as managed is finished in all three components:    *)
(* SSH, UFW with the marker file, and the Fail2ban jail.                   *)
DoneAgrees ==
    Ended("managed") =>
        /\ live.ports = saved.ports
        /\ saved.fw.managed => VerifyFirewall(saved.ports) /\ marker = saved.ports
        /\ saved.f2b.managed => jail = JailOf(saved.ports)

(* A migration recorded as rolled back, by itself or by the operator's     *)
(* recovery, has the old ports, the old managed UFW rules and, if the      *)
(* transaction had changed it, the old jail.                               *)
RolledBackAgrees ==
    Ended("skipped") \/ Ended("migration") =>
        /\ live.ports = saved.old
        /\ saved.fw.managed => saved.fw.oldManaged \subseteq ManagedPorts
        /\ saved.f2b.managed => jail = JailOf(saved.f2b.original)

(* Between the migrations every managed rule is accounted for: SSH uses    *)
(* its port, the marker file counts it, the record lists it in             *)
(* cleanup_pending, or it is a stray.  Strays come from five places only:  *)
(* prepare_ssh_migration raises half-way (firewall.py:263-265), or the     *)
(* process ends before the metadata it returned is saved                   *)
(* (ssh_hardening.py:767-769); the next record replaces the one that has   *)
(* the list; the migration did not see the managed firewall and keeps the  *)
(* rules of the ports SSH leaves; the marker is rewritten and had counted  *)
(* a port that SSH had left in that way.                                   *)
PendingIsComplete ==
    pc = "idle" /\ ~saved.interrupted =>
        ManagedPorts \subseteq marker \cup live.ports \cup saved.fw.pending \cup strays

(* The files an interrupted record would restore lead back to the ports it *)
(* names as old, so that the rollback can be verified.                     *)
RollbackTargetIsOld ==
    pc = "idle" /\ saved.interrupted /\ saved.backups.taken =>
       Listening(saved.backups.files) = saved.old

(* Where a migration is on its way.                                        *)
Transition == {"planned", "backup", "backed", "applying", "fw_prepare", "fw_prepared",
               "write_transition", "apply_transition", "f2b_prepare", "f2b_prepared",
               "activate", "await", "confirm_login"}
Finalization == {"confirmed", "write_final", "apply_final", "f2b_finalize",
                 "f2b_finalized", "fw_finalizing", "fw_finalize", "fw_finalized",
                 "verify", "verified"}
Forward == Transition \cup {"confirm_sudo"} \cup Finalization

(* Why these hold: the inductive invariant behind SettledUnlessInterrupted *)
(* and RollbackTargetIsOld.  Whatever is between two settled states is     *)
(* recorded as interrupted before it happens, and the files that rollback  *)
(* restores were taken from a settled state.                               *)
Coherent(f) == Listening(f) = EffectivePorts(f.dropin)
LeadsToOld(b, old) == b.taken => Listening(b.files) = old

RecordCovers ==
    /\ ~saved.interrupted => Settled
    /\ pc \in {"exit", "finished"} /\ ~memory.interrupted => Settled
    /\ pc \notin {"idle", "planned", "raised", "exit", "finished"} => saved.interrupted
    /\ pc \in {"rb_firewall", "rb_ssh", "rb_jail", "rb_cleanup"} => memory.interrupted
StepsSettle ==
    /\ pc \in {"planned", "backup", "verified", "rb_jail", "rb_cleanup",
              "rolled_back", "recovered"} => Settled
    /\ pc \in {"f2b_finalize", "f2b_finalized", "fw_finalizing", "fw_finalize",
              "fw_finalized", "verify"} => live = Started(files)
BackupsCoherent ==
    /\ Coherent(backups.files) /\ Coherent(saved.backups.files)
    /\ Coherent(memory.backups.files)
TargetsKnown ==
    /\ pc \in {"idle", "planned", "backup"} => ~backups.taken
    /\ ~BlindDiscovery =>
         /\ LeadsToOld(backups, plan.old)
         /\ LeadsToOld(saved.backups, saved.old)
         /\ LeadsToOld(memory.backups, memory.old)
         /\ pc \in {"planned", "backup"} => plan.old = EffectivePorts(files.dropin)
IInv == RecordCovers /\ StepsSettle /\ BackupsCoherent /\ TargetsKnown

(* The migration is a transaction on the sshd configuration (module        *)
(* Migration): the host leaves a configuration, files and running daemon,  *)
(* only while the record on disk says interrupted; what is recorded as     *)
(* rolled back is the configuration from before, whoever rolled it back    *)
(* and after however many kills and failures; and what is recorded as      *)
(* managed is whole.                                                       *)
Configurations == {{f} : f \in Files}
Transaction == INSTANCE Migration WITH
    Config <- Configurations,
    Torn <- {},
    config <- IF Settled THEN {files} ELSE {},
    before <- CASE backups.taken -> {backups.files}
                [] ~backups.taken /\ saved.interrupted /\ saved.backups.taken ->
                     {saved.backups.files}
                [] OTHER -> {files},
    record <- IF saved.interrupted THEN "open"
              ELSE CASE saved.mode = "none" -> "none"
                     [] saved.mode = "managed" -> "committed"
                     [] OTHER -> "rolled back"
IsTransaction == Transaction!Spec

(* Why it holds, besides IInv: what the process, its memory and the file   *)
(* know of the backups is the same, and nothing is touched before the file *)
(* knows them.                                                             *)
BackupsKnown ==
    /\ pc \notin {"idle", "planned", "backup", "exit", "finished"} => backups.taken
    /\ saved.interrupted /\ pc \notin {"idle", "planned", "backup", "backed", "exit", "finished"}
         => saved.backups.taken
    /\ saved.interrupted /\ pc # "idle" /\ ~backups.taken => ~saved.backups.taken
    /\ saved.interrupted /\ backups.taken =>
         IF saved.backups.taken THEN saved.backups = backups ELSE files = backups.files
Undone == backups.taken /\ files = backups.files
MemoryTrue ==
    /\ pc \in {"rb_jail", "rb_cleanup", "rolled_back", "recovered"} => Undone
    /\ pc = "backup" => memory.interrupted
    /\ memory.interrupted
        /\ pc \in {"backup", "rb_firewall", "rb_ssh", "rb_jail", "rb_cleanup", "exit"}
         => memory.backups = backups
    /\ pc = "exit" /\ ~memory.interrupted =>
         /\ memory.mode \in {"migration", "skipped"} /\ Undone
         /\ saved.interrupted \/ saved = memory
    /\ pc = "finished" =>
         /\ saved = memory /\ ~saved.interrupted
         /\ saved.mode = "managed" \/ (saved.mode = "skipped" /\ Undone)
UndoInv == BackupsKnown /\ MemoryTrue

(* Why DoneAgrees, RolledBackAgrees and PendingIsComplete hold: the steps  *)
(* that end a transaction make its record true, and nothing changes what a *)
(* closed record says.                                                     *)
ManagedHolds(r) ==
    /\ live.ports = r.ports
    /\ r.fw.managed =>
         /\ VerifyFirewall(r.ports) /\ marker = r.ports
         /\ (r.old \ r.ports) \cap ManagedPorts \subseteq r.fw.pending
    /\ r.f2b.managed => jail = JailOf(r.ports)
RestoredHolds(r) ==
    /\ ~BlindDiscovery => live.ports = r.old
    /\ r.fw.managed =>
         /\ r.fw.oldManaged \subseteq ManagedPorts
         /\ r.fw.added \cap ManagedPorts \subseteq r.fw.pending
    /\ r.f2b.managed => jail = JailOf(r.f2b.original)
RecordHolds(r) ==
    /\ r.mode = "none" => ~r.fw.managed
    /\ r.mode = "managed" => ManagedHolds(r)
    /\ r.mode \in {"migration", "skipped"} => RestoredHolds(r)
RulesApart(m, old) ==
    m.managed => m.oldManaged \subseteq old /\ m.added \cap m.oldManaged = {}

RecordsHold ==
    /\ ~saved.interrupted => RecordHolds(saved)
    /\ pc = "exit" /\ ~memory.interrupted => RecordHolds(memory)
RulesKnown ==
    /\ pc \in {"idle", "planned", "backup", "backed", "applying", "fw_prepare"} => ~fwMeta.managed
    /\ RulesApart(fwMeta, plan.old) /\ RulesApart(saved.fw, saved.old)
    /\ RulesApart(memory.fw, memory.old)
FinalSteps ==
    /\ f2bMeta.managed /\ pc \in {"f2b_finalized", "fw_finalizing", "fw_finalize",
                                  "fw_finalized", "verify", "verified"}
         => jail = JailOf(plan.final)
    /\ fwMeta.managed /\ pc \in {"fw_finalized", "verify", "verified"}
         => marker = plan.final /\ Stale \cap ManagedPorts \subseteq fwMeta.pending
    /\ pc = "verified" =>
         live.ports = plan.final /\ (fwMeta.managed => VerifyFirewall(plan.final))
UndoSteps ==
    /\ fwMeta.managed /\ pc \in {"rb_ssh", "rb_jail", "rb_cleanup", "rolled_back", "recovered"}
         => fwMeta.oldManaged \subseteq ManagedPorts
    /\ f2bMeta.managed /\ pc \in {"rb_cleanup", "rolled_back", "recovered"}
         => jail = JailOf(f2bMeta.original)
    /\ fwMeta.managed /\ pc \in {"rolled_back", "recovered"}
         => fwMeta.added \cap ManagedPorts \subseteq fwMeta.pending
RecordInv == RecordsHold /\ RulesKnown /\ FinalSteps /\ UndoSteps

(* ... and for PendingIsComplete, whom every managed rule belongs to:      *)
(* while a transaction is open the ports it found, the marker or what it   *)
(* added itself account for it.                                            *)
Listed(r) == ManagedPorts \subseteq strays \cup marker \cup live.ports \cup r.fw.pending
Accounted(m, old) ==
    /\ ManagedPorts \subseteq strays \cup old \cup marker \cup m.added
    /\ m.managed => ManagedPorts \subseteq strays \cup old \cup m.original \cup m.added
OfThisRun(r) ==
    r.interrupted =>
      /\ r.old = plan.old
      /\ r.fw.managed => /\ fwMeta.managed /\ r.fw.added = fwMeta.added
                         /\ r.fw.original = fwMeta.original
RulesListed ==
    /\ ~saved.interrupted => Listed(saved)
    /\ pc = "exit" /\ ~memory.interrupted => Listed(memory)
    /\ pc \in {"fw_finalized", "verify", "verified"} =>
         ManagedPorts \subseteq strays \cup marker \cup plan.final \cup fwMeta.pending
RulesAccounted ==
    IF pc = "idle"
    THEN ~memory.interrupted /\ (saved.interrupted => Accounted(saved.fw, saved.old))
    ELSE Accounted(fwMeta, plan.old) /\ OfThisRun(saved) /\ OfThisRun(memory)
AddedKnown ==
    /\ \A m \in {fwMeta, saved.fw, memory.fw} : ~m.managed => m.added = {}
    /\ pc \in Forward =>
         plan.target = plan.old \cup plan.final /\ fwMeta.added \subseteq plan.target
AccountInv == RulesListed /\ RulesAccounted /\ AddedKnown

(* "Two-port transition preserves old port until second session is         *)
(* confirmed": the ports that the configuration of before the migration    *)
(* opens stay open while the operator is asked.                            *)
OldPortsKeptUntilConfirmed ==
    pc \in {"confirm_login", "confirm_sudo"} =>
        Listening(backups.files) \subseteq live.ports

(* Why it holds: until then SSH runs with both sets of ports.              *)
BothPortsOpen ==
    /\ pc \in {"planned", "backup", "backed", "applying", "fw_prepare", "fw_prepared",
              "write_transition", "apply_transition", "f2b_prepare", "f2b_prepared",
              "activate", "await", "confirm_login", "confirm_sudo"}
         => plan.old \subseteq plan.target
    /\ pc = "apply_transition" /\ host.activation = "socket" => files.socket = plan.target
    /\ pc \in {"f2b_prepare", "f2b_prepared", "activate", "await", "confirm_login",
              "confirm_sudo"} => live.ports = plan.target

(* No step of a migration or of a rollback closes UFW for a port on which  *)
(* SSH still listens.                                                      *)
RuleDeletedOnlyWhenUnused ==
    [][\A p \in Port : ufw.rules[p] # "none" /\ ufw'.rules[p] = "none"
          => p \notin live.ports]_vars

(* Only an open record has torn files on disk, and no backup is one: a     *)
(* rollback ends once it has copied both files.                            *)
WholeInv ==
    /\ \A b \in {backups, saved.backups, memory.backups} : b.files.torn = {}
    /\ ~saved.interrupted => files.torn = {}
    /\ pc = "exit" /\ ~memory.interrupted => files.torn = {}
    /\ pc \in Forward \cup {"rb_jail", "rb_cleanup", "rolled_back", "recovered"}
         => files.torn = {}

(* Why NoLockout and RuleDeletedOnlyWhenUnused hold, where discovery sees  *)
(* what sshd does: the configuration on disk always lets the operator in,  *)
(* the one that a rollback restores would once UFW is restored, and a      *)
(* firewall that is managed has a rule for every port of SSH.              *)
Paths == {p \in host.provider : ~ufw.active \/ ufw.rules[p] # "none"}
Open(ports) == \E p \in ports : p \in Paths
LetsIn(f) == EffectiveAuth(f.dropin) \in host.login /\ Open(Listening(f))

Guarded == ufw.active /\ marker # {}
Covered(ports) == Guarded => ports \subseteq AllowedPorts
WayBack(b, old, m) ==
    /\ b.taken => EffectiveAuth(b.files.dropin) \in host.login
    /\ IF m.managed
       THEN /\ ufw.active /\ \E p \in old : p \in host.provider
            /\ m.added \cap old = {}
       ELSE Open(old) /\ Covered(old)

FinalListening == {"f2b_finalize", "f2b_finalized", "fw_finalizing", "fw_finalize",
                   "fw_finalized", "verify", "verified"}
Restoration == {"rb_ssh", "rb_jail", "rb_cleanup", "rolled_back", "recovered"}
Deleting == {"fw_finalize", "rb_firewall", "rb_ssh", "rb_jail", "rb_cleanup"}

DiskOpen ==
    /\ files.torn = {} => LetsIn(files)
    /\ "socket" \notin files.torn /\ host.activation = "socket" /\ files.socket # {}
         => Open(files.socket)
WayIn == NoLockout /\ DiskOpen
ClosedCovered ==
    /\ ~saved.interrupted => Covered(live.ports)
    /\ pc = "exit" /\ ~memory.interrupted => Covered(live.ports)
WaysBack ==
    /\ pc \notin {"idle", "exit", "finished"} => WayBack(backups, plan.old, fwMeta)
    /\ saved.interrupted => WayBack(saved.backups, saved.old, saved.fw)
    /\ memory.interrupted => WayBack(memory.backups, memory.old, memory.fw)
    /\ pc \in Deleting /\ fwMeta.managed => saved.fw.managed /\ memory.fw.managed
TransitionOpen ==
    pc \in Transition =>
      /\ Open(plan.old) /\ Covered(plan.old)
      /\ plan.auth \in host.login /\ plan.old \cup plan.final \subseteq plan.target
      /\ plan.finalAuth = "open" => plan.auth = "open"
      /\ plan.final = plan.old \/ \E p \in Port : plan.final = {p}
      /\ fwMeta.managed => plan.final \subseteq AllowedPorts
FinalOpen ==
    /\ pc = "confirm_sudo" \/ pc \in Finalization =>
         /\ Open(plan.final) /\ Covered(plan.final)
         /\ fwMeta.managed => plan.final \subseteq AllowedPorts
    /\ pc = "confirm_sudo" => plan.finalAuth = "noroot"
    /\ pc \in Finalization => plan.finalAuth \in host.login
    /\ pc = "apply_final" /\ host.activation = "socket" => files.socket = plan.final
    /\ pc \in FinalListening => live.ports = plan.final
RestoredOpen ==
    pc \in Restoration =>
      /\ Open(plan.old) /\ Covered(plan.old)
      /\ fwMeta.managed => plan.old \subseteq AllowedPorts
ReachInv ==
    WayIn /\ ClosedCovered /\ WaysBack /\ TransitionOpen /\ FinalOpen /\ RestoredOpen

(* The recovery prompt can resolve every interrupted migration: the record *)
(* has the backup metadata the rollback asks for.                          *)
InterruptedIsRecoverable == pc = "idle" /\ saved.interrupted => saved.backups.taken

(* A started process takes its next step, and the operator, asked whether  *)
(* to recover, in the end asks for the rollback.  Nothing is assumed of    *)
(* the start of new migrations, of crashes or of reboots.                  *)
Fairness == WF_vars(Process) /\ WF_vars(StartRecovery)
FairSpec == Spec /\ Fairness

(* No run of the program hangs: it ends, whatever fails in it.             *)
RunEnds == pc # "idle" ~> pc = "idle"

(* An interrupted migration that has its backups is in the end resolved,   *)
(* by its own rollback or by the operator's, unless it can never verify:   *)
(* the jail it found did not protect the ports the rollback opens, or the  *)
(* old ports that discovery recorded are not those (discover_ssh takes     *)
(* port 22 when sshd -T fails).                                            *)
JailWasWrong == saved.f2b.managed /\ saved.f2b.original # Listening(saved.backups.files)
OldPortsWereWrong == ~(saved.old \subseteq Listening(saved.backups.files))
Recoverable ==
    saved.interrupted /\ saved.backups.taken ~>
        ~saved.interrupted \/ JailWasWrong \/ OldPortsWereWrong
=============================================================================
