------------------------- MODULE SSHMigration_proofs -------------------------
(***************************************************************************)
(* Machine-checked facts about SSHMigration, for every set of ports, every *)
(* set of hosts and any number of migrations and faults.                   *)
(***************************************************************************)
EXTENDS SSHMigration, TLAPS

-----------------------------------------------------------------------------
(* Types of the operators.                                                 *)

LEMMA PortsType ==
    ASSUME host \in HostType, NEW d \in DropIn
    PROVE  EffectivePorts(d) \in SUBSET Port /\ EffectiveAuth(d) \in Auth
BY PortAssumption DEF EffectivePorts, EffectiveAuth, HostType, DropIn

LEMMA StartedType ==
    ASSUME host \in HostType, NEW f \in Files
    PROVE  Listening(f) \in SUBSET Port /\ Started(f) \in Live
<1>1. f.dropin \in DropIn /\ f.socket \in SUBSET Port /\ f.torn \in Torn
  BY DEF Files
<1>2. EffectivePorts(f.dropin) \in SUBSET Port /\ EffectiveAuth(f.dropin) \in Auth
  BY <1>1, PortsType
<1> QED
  BY <1>1, <1>2 DEF Listening, Started, Live

LEMMA StricterType ==
    ASSUME NEW a \in Auth, NEW b \in Auth PROVE Stricter(a, b) \in Auth
BY DEF Stricter

LEMMA DefaultsType ==
    /\ NoFiles \in Files /\ NoBackups \in Backups /\ NoFwMeta \in FwMeta
    /\ NoF2bMeta \in F2bMeta /\ NoPlan \in Plan /\ NoRecord \in Record
    /\ NoJail \in Jail
<1>1. NoFiles \in Files
  BY DEF NoFiles, Files, NoDropIn, DropIn, Torn
<1>2. NoBackups \in Backups
  BY <1>1 DEF NoBackups, Backups
<1>3. NoFwMeta \in FwMeta /\ NoF2bMeta \in F2bMeta
  BY DEF NoFwMeta, FwMeta, NoF2bMeta, F2bMeta
<1>4. NoPlan \in Plan
  BY DEF NoPlan, Plan, Auth
<1>5. NoRecord \in Record
  BY <1>2, <1>3 DEF NoRecord, Record, Stages
<1>6. NoJail \in Jail
  BY DEF NoJail, JailOf, Jail
<1> QED
  BY <1>1, <1>2, <1>3, <1>4, <1>5, <1>6

LEMMA PlannedType ==
    ASSUME NEW final \in SUBSET Port, NEW auth \in Auth, NEW old \in SUBSET Port,
           NEW current \in Auth, NEW allowed \in SUBSET Port,
           ufw.active \in BOOLEAN
    PROVE  Planned(final, auth, old, current, allowed) \in Plan
BY StricterType DEF Planned, Plan

LEMMA MigrationStateType ==
    ASSUME TypeOK, NEW stage \in Stages
    PROVE  MigrationState(stage) \in Record
BY DEF TypeOK, MigrationState, Record, Plan

LEMMA SetRulesType ==
    ASSUME ufw \in Ufw,
           NEW ports, NEW kind \in RuleKind, SetRules(ports, kind)
    PROVE  ufw' \in Ufw
BY DEF SetRules, Ufw

LEMMA DeleteRulesType ==
    ASSUME ufw \in Ufw,
           NEW ports, NEW kept, DeleteRules(ports, kept)
    PROVE  ufw' \in Ufw
BY SetRulesType DEF DeleteRules, RuleKind

(* A fault is within its bound.                                            *)
LEMMA FaultType ==
    ASSUME faults \in 0..MaxFaults, UNCHANGED faults \/ Fault
    PROVE  faults' \in 0..MaxFaults
BY BoundAssumption DEF Fault

LEMMA ForgetType ==
    ASSUME TypeOK, NEW record, Forget(record)
    PROVE  /\ memory' \in Record /\ recovering' \in BOOLEAN /\ plan' \in Plan
           /\ backups' \in Backups /\ fwMeta' \in FwMeta /\ f2bMeta' \in F2bMeta
           /\ strays' \in SUBSET Port
<1>1. fwMeta.added \in SUBSET Port /\ strays \in SUBSET Port
  BY DEF TypeOK, FwMeta
<1>2. strays' \in SUBSET Port
  BY <1>1 DEF Forget
<1> QED
  BY <1>2, DefaultsType DEF Forget

(* A save of a record keeps the types.                                     *)
LEMMA SaveType ==
    ASSUME TypeOK, NEW from, NEW record \in Record, NEW to \in PC,
           NEW onFailure \in PC, Save(from, record, to, onFailure)
    PROVE  TypeOK'
<1>1. UNCHANGED <<host, files, live, ufw, marker, strays, jail, recovering, plan,
                  backups, fwMeta, f2bMeta, runs>>
  BY DEF Save, hostVars, ufwVars, txnVars, metaVars
<1>2. memory' \in Record /\ saved' \in Record /\ pc' \in PC
  BY DEF Save, TypeOK
<1>3. faults' \in 0..MaxFaults
  BY FaultType DEF Save, TypeOK
<1> QED
  BY <1>1, <1>2, <1>3 DEF TypeOK

-----------------------------------------------------------------------------
(* Type correctness.                                                       *)

LEMMA InitType == Init => TypeOK
<1> SUFFICES ASSUME Init PROVE TypeOK
  OBVIOUS
<1>1. host \in HostType
  BY HostsAssumption DEF Init
<1>2. files \in Files /\ live \in Live
  BY <1>1, DefaultsType, StartedType DEF Init
<1>3. marker \in SUBSET Port /\ jail \in Jail
  BY <1>2 DEF Init, NoJail, JailOf, Jail, Live
<1>4. runs \in 0..MaxRuns /\ faults \in 0..MaxFaults
  BY BoundAssumption DEF Init
<1>5. ufw \in Ufw /\ strays \in SUBSET Port
  BY FirewallsAssumption DEF Init
<1> QED
  BY <1>1, <1>2, <1>3, <1>4, <1>5, DefaultsType DEF Init, TypeOK, PC

LEMMA SavesType == TypeOK /\ Saves => TypeOK'
<1> SUFFICES ASSUME TypeOK, Saves PROVE TypeOK'
  OBVIOUS
<1> USE MigrationStateType, SaveType
<1>1. CASE SavePlanned
  BY <1>1 DEF SavePlanned, Stages, PC
<1>2. CASE SaveBackups
  BY <1>2 DEF SaveBackups, Stages, PC
<1>3. CASE SaveApplying
  BY <1>3 DEF SaveApplying, Stages, PC
<1>4. CASE SaveFirewall
  BY <1>4 DEF SaveFirewall, Stages, PC
<1>5. CASE SaveJail
  BY <1>5 DEF SaveJail, Stages, PC
<1>6. CASE SaveActive
  BY <1>6 DEF SaveActive, Stages, PC
<1>7. CASE SaveAwaiting
  BY <1>7 DEF SaveAwaiting, Stages, PC
<1>8. CASE SaveFinalizing
  BY <1>8 DEF SaveFinalizing, Stages, PC
<1>9. CASE SaveJailFinal
  BY <1>9 DEF SaveJailFinal, Stages, PC
<1>10. CASE SaveFirewallFinalizing
  BY <1>10 DEF SaveFirewallFinalizing, Stages, PC
<1>11. CASE SaveFirewallFinal
  BY <1>11 DEF SaveFirewallFinal, Stages, PC
<1>12. CASE SaveDone
  <2>1. [MigrationState("done") EXCEPT !.mode = "managed", !.interrupted = FALSE,
              !.backups = NoBackups, !.ports = plan.final] \in Record
    <3>1. MigrationState("done") \in Record
      BY DEF Stages
    <3>2. NoBackups \in Backups /\ plan.final \in SUBSET Port
      BY DefaultsType DEF TypeOK, Plan
    <3> QED
      BY <3>1, <3>2 DEF Record
  <2> QED
    BY <1>12, <2>1 DEF SaveDone, PC
<1>13. CASE SaveRollbackStarted
  BY <1>13 DEF SaveRollbackStarted, Stages, PC
<1>14. CASE SaveRolledBack
  <2>1. [MigrationState("rolled_back") EXCEPT !.interrupted = FALSE,
              !.ports = plan.old] \in Record
    BY DEF Stages, Record, TypeOK, Plan
  <2> QED
    BY <1>14, <2>1 DEF SaveRolledBack, PC
<1>15. CASE SaveRollbackFailed
  BY <1>15 DEF SaveRollbackFailed, Stages, PC
<1>16. CASE SaveRecovered
  <2>1. [NoRecord EXCEPT !.mode = "skipped", !.old = plan.old,
                         !.fw = fwMeta, !.f2b = f2bMeta] \in Record
    BY DefaultsType DEF Record, TypeOK, Plan
  <2> QED
    BY <1>16, <2>1 DEF SaveRecovered, PC
<1> QED
  BY <1>1, <1>2, <1>3, <1>4, <1>5, <1>6, <1>7, <1>8, <1>9, <1>10, <1>11, <1>12,
     <1>13, <1>14, <1>15, <1>16 DEF Saves

LEMMA ForwardType ==
    ASSUME TypeOK,
           \/ BackupFiles \/ PrepareFirewall \/ WriteTransition \/ RefuseTransition
           \/ ApplyTransition \/ PrepareJail \/ ConfirmLogin \/ ConfirmSudo \/ Decline
           \/ WriteFinal \/ ApplyFinal \/ FinalizeJail \/ FinalizeFirewall
           \/ VerifyComponents
    PROVE  TypeOK'
<1>1. ASSUME BackupFiles PROVE TypeOK'
  <2>1. backups' \in Backups
    <3>1. [taken |-> TRUE, files |-> files] \in Backups
      BY DEF TypeOK, Backups
    <3> QED
      BY <1>1, <3>1 DEF BackupFiles, TypeOK
  <2>2. faults' \in 0..MaxFaults /\ pc' \in PC
    BY <1>1, FaultType DEF BackupFiles, Goto, TypeOK, PC
  <2> QED
    BY <1>1, <2>1, <2>2 DEF BackupFiles, TypeOK, hostVars, ufwVars, recordVars, metaVars
<1>2. ASSUME PrepareFirewall PROVE TypeOK'
  <2>1. faults' \in 0..MaxFaults /\ pc' \in PC
    BY <1>2, FaultType DEF PrepareFirewall, TypeOK, PC
  <2>2. ufw' \in Ufw
    BY <1>2, SetRulesType DEF PrepareFirewall, TypeOK, RuleKind
  <2>4. strays' \in SUBSET Port
    BY <1>2 DEF PrepareFirewall, TypeOK, Plan
  <2>3. fwMeta' \in FwMeta
    <3>1. /\ plan.target \ AllowedPorts \in SUBSET Port
          /\ ManagedPorts \cap plan.old \in SUBSET Port
      BY DEF TypeOK, Plan, ManagedPorts
    <3>2. [managed |-> TRUE, added |-> plan.target \ AllowedPorts,
           oldManaged |-> ManagedPorts \cap plan.old,
           original |-> marker, final |-> {}, pending |-> {},
           restored |-> FALSE] \in FwMeta
      BY <3>1 DEF TypeOK, FwMeta
    <3> QED
      BY <1>2, <3>2 DEF PrepareFirewall, TypeOK
  <2> QED
    BY <1>2, <2>1, <2>2, <2>3, <2>4 DEF PrepareFirewall, TypeOK, hostVars, recordVars, txnVars
<1>3. ASSUME NEW from, NEW ports \in SUBSET Port, NEW auth \in Auth, NEW to \in PC,
             WriteConfig(from, ports, auth, to)
      PROVE  TypeOK'
  <2>1. faults' \in 0..MaxFaults /\ pc' \in PC
    BY <1>3, FaultType DEF WriteConfig, Goto, TypeOK, PC
  <2>2. files' \in Files
    <3>1. [ports |-> ports, auth |-> auth] \in DropIn
      BY DEF DropIn
    <3>2. \A d \in DropIn, s \in SUBSET Port :
            /\ [files EXCEPT !.dropin = d, !.socket = s] \in Files
            /\ [files EXCEPT !.dropin = d] \in Files
      BY DEF TypeOK, Files
    <3>3. files.socket \in SUBSET Port
      BY DEF TypeOK, Files
    <3> QED
      BY <1>3, <3>1, <3>2, <3>3 DEF WriteConfig, TypeOK
  <2> QED
    BY <1>3, <2>1, <2>2 DEF WriteConfig, TypeOK, ufwVars, recordVars, txnVars, metaVars
<1>4. ASSUME NEW from, NEW ports, NEW auth, NEW to \in PC,
             ApplyConfig(from, ports, auth, to)
      PROVE  TypeOK'
  <2>1. faults' \in 0..MaxFaults /\ pc' \in PC
    BY <1>4, FaultType DEF ApplyConfig, Goto, TypeOK, PC
  <2>2. Started(files) \in Live
    BY StartedType DEF TypeOK
  <2>3. Down \in Live
    BY DEF TypeOK, Down, Live
  <2>4. live' \in Live
    BY <1>4, <2>2, <2>3 DEF ApplyConfig, TypeOK
  <2> QED
    BY <1>4, <2>1, <2>4 DEF ApplyConfig, TypeOK, ufwVars, recordVars, txnVars, metaVars
<1>5. ASSUME NEW from, NEW ports \in SUBSET Port, NEW to \in PC, NEW meta \in F2bMeta,
             ApplyJail(from, ports, to, meta)
      PROVE  faults' \in 0..MaxFaults /\ pc' \in PC /\ jail' \in Jail /\ f2bMeta' \in F2bMeta
  <2>1. faults' \in 0..MaxFaults /\ pc' \in PC
    BY <1>5, FaultType DEF ApplyJail, Goto, TypeOK, PC
  <2>2. jail' \in Jail /\ f2bMeta' \in F2bMeta
    BY <1>5 DEF ApplyJail, FailedJails, TypeOK, Jail, JailOf
  <2> QED
    BY <2>1, <2>2
<1>6. plan.target \in SUBSET Port /\ plan.final \in SUBSET Port
      /\ plan.auth \in Auth /\ plan.finalAuth \in Auth /\ jail.file \in SUBSET Port
  BY DEF TypeOK, Plan, Jail
<1>7. ASSUME PrepareJail PROVE TypeOK'
  <2>1. [managed |-> TRUE, original |-> jail.file, final |-> {}] \in F2bMeta
    BY <1>6 DEF F2bMeta
  <2>2. faults' \in 0..MaxFaults /\ pc' \in PC /\ jail' \in Jail /\ f2bMeta' \in F2bMeta
    BY <1>5, <1>6, <1>7, <2>1 DEF PrepareJail, Goto, TypeOK, PC
  <2> QED
    BY <1>7, <2>2 DEF PrepareJail, TypeOK, hostVars, ufwVars, recordVars, txnVars
<1>8. ASSUME FinalizeJail PROVE TypeOK'
  <2>1. [f2bMeta EXCEPT !.final = plan.final] \in F2bMeta
    BY <1>6 DEF F2bMeta, TypeOK
  <2>2. faults' \in 0..MaxFaults /\ pc' \in PC /\ jail' \in Jail /\ f2bMeta' \in F2bMeta
    BY <1>5, <1>6, <1>8, <2>1 DEF FinalizeJail, Goto, TypeOK, PC
  <2> QED
    BY <1>8, <2>2 DEF FinalizeJail, TypeOK, hostVars, ufwVars, recordVars, txnVars
<1>9. ASSUME FinalizeFirewall PROVE TypeOK'
  <2>1. faults' \in 0..MaxFaults /\ pc' \in PC
    BY <1>9, FaultType DEF FinalizeFirewall, Goto, TypeOK, PC
  <2>2. ufw' \in Ufw
    BY <1>9, DeleteRulesType DEF FinalizeFirewall, TypeOK, ufwVars
  <2>3. ManagedPorts \in SUBSET Port
    BY DEF ManagedPorts
  <2>4. fwMeta' \in FwMeta /\ marker' \in SUBSET Port
    BY <1>6, <1>9, <2>3
    DEF FinalizeFirewall, TypeOK, FwMeta, FinalMeta, FinalMarker, ufwVars
  <2>5. strays' \in SUBSET Port
    BY <1>9, <2>3 DEF FinalizeFirewall, TypeOK
  <2> QED
    BY <1>9, <2>1, <2>2, <2>4, <2>5 DEF FinalizeFirewall, TypeOK, hostVars, recordVars, txnVars
<1>10. ASSUME VerifyComponents PROVE TypeOK'
  <2>1. faults' \in 0..MaxFaults /\ pc' \in PC
    BY <1>10, FaultType DEF VerifyComponents, Goto, TypeOK, PC
  <2> QED
    BY <1>10, <2>1 DEF VerifyComponents, TypeOK, hostVars, ufwVars, recordVars, txnVars, metaVars
<1>11. ASSUME RefuseTransition \/ ConfirmLogin \/ ConfirmSudo \/ Decline PROVE TypeOK'
  <2>1. pc' \in PC
    BY <1>11 DEF RefuseTransition, ConfirmLogin, ConfirmSudo, Decline, Goto, PC
  <2> QED
    BY <1>11, <2>1 DEF RefuseTransition, ConfirmLogin, ConfirmSudo, Decline, TypeOK,
                       hostVars, ufwVars, recordVars, txnVars, metaVars
<1>12. WriteTransition => TypeOK'
  BY <1>3, <1>6 DEF WriteTransition, PC
<1>13. WriteFinal => TypeOK'
  BY <1>3, <1>6 DEF WriteFinal, PC
<1>14. ApplyTransition => TypeOK'
  BY <1>4 DEF ApplyTransition, PC
<1>15. ApplyFinal => TypeOK'
  BY <1>4 DEF ApplyFinal, PC
<1> QED
  BY <1>1, <1>2, <1>7, <1>8, <1>9, <1>10, <1>11, <1>12, <1>13, <1>14, <1>15

LEMMA CutOffType ==
    ASSUME files \in Files, NEW b \in Files
    PROVE  CutOff(b) \subseteq Files
<1>1. /\ files.dropin \in DropIn /\ files.socket \in SUBSET Port /\ files.torn \in Torn
      /\ b.dropin \in DropIn /\ b.socket \in SUBSET Port /\ b.dropin.ports \in SUBSET Port
  BY DEF Files, DropIn
<1>2. ASSUME NEW d \in [ports : SUBSET b.dropin.ports, auth : {"absent"}]
      PROVE  [files EXCEPT !.dropin = d, !.torn = @ \cup {"dropin"}] \in Files
  BY <1>1 DEF Files, DropIn, Torn
<1>3. ASSUME NEW ps \in SUBSET b.socket
      PROVE  [b EXCEPT !.socket = ps, !.torn = {"socket"}] \in Files
  BY <1>1 DEF Files, Torn
<1> QED
  BY <1>2, <1>3 DEF CutOff

LEMMA RollbackType ==
    ASSUME TypeOK,
           \/ RestoreFirewall \/ RollbackSsh \/ RollbackJail \/ CleanupFirewall \/ Exit
    PROVE  TypeOK'
<1>0. RollbackFailed \in PC
  BY DEF RollbackFailed, PC
<1>1. CASE RestoreFirewall
  <2>1. faults' \in 0..MaxFaults /\ pc' \in PC
    BY <1>0, <1>1, FaultType DEF RestoreFirewall, Goto, TypeOK, PC
  <2>2. ufw' \in Ufw
    BY <1>1, SetRulesType DEF RestoreFirewall, TypeOK, RuleKind
  <2> QED
    BY <1>1, <2>1, <2>2 DEF RestoreFirewall, TypeOK, hostVars, recordVars, txnVars, metaVars
<1>2. CASE RollbackSsh
  <2>1. faults' \in 0..MaxFaults /\ pc' \in PC
    BY <1>0, <1>2, FaultType DEF RollbackSsh, Goto, TypeOK, PC
  <2>2. backups.files \in Files
    BY DEF TypeOK, Backups
  <2>3. HalfRestored(backups.files) \in Files
    BY <2>2 DEF TypeOK, Files, HalfRestored, Torn
  <2>4. files' \in Files
    <3>1. CutOff(backups.files) \subseteq Files
      BY <2>2, CutOffType DEF TypeOK
    <3> QED
      BY <1>2, <2>2, <2>3, <3>1 DEF RollbackSsh, TypeOK
  <2>5. Started(backups.files) \in Live
    BY <2>2, StartedType DEF TypeOK
  <2>6. Down \in Live
    BY DEF TypeOK, Down, Live
  <2>7. live' \in Live
    BY <1>2, <2>5, <2>6 DEF RollbackSsh, TypeOK
  <2> QED
    BY <1>2, <2>1, <2>4, <2>7 DEF RollbackSsh, TypeOK, ufwVars, recordVars, txnVars, metaVars
<1>3. CASE RollbackJail
  <2>1. faults' \in 0..MaxFaults /\ pc' \in PC
    BY <1>0, <1>3, FaultType DEF RollbackJail, Goto, TypeOK, PC
  <2>2. jail' \in Jail
    BY <1>3 DEF RollbackJail, TypeOK, Jail, JailOf, F2bMeta
  <2> QED
    BY <1>3, <2>1, <2>2 DEF RollbackJail, TypeOK, hostVars, ufwVars, recordVars, txnVars, metaVars
<1>4. CASE CleanupFirewall
  <2>1. faults' \in 0..MaxFaults /\ pc' \in PC
    BY <1>0, <1>4, FaultType DEF CleanupFirewall, Goto, TypeOK, PC
  <2>2. ufw' \in Ufw
    BY <1>4, DeleteRulesType DEF CleanupFirewall, TypeOK, ufwVars
  <2>3. fwMeta.added \in SUBSET Port /\ fwMeta.original \in SUBSET Port
    BY DEF TypeOK, FwMeta
  <2>4. fwMeta' \in FwMeta /\ marker' \in SUBSET Port
    BY <1>4, <2>3 DEF CleanupFirewall, TypeOK, FwMeta, ufwVars
  <2> QED
    BY <1>4, <2>1, <2>2, <2>4 DEF CleanupFirewall, TypeOK, hostVars, recordVars, txnVars
<1>5. CASE Exit
  <2>1. [memory EXCEPT !.stage = "none"] \in Record
    BY DEF TypeOK, Record, Stages
  <2>2. saved' \in Record /\ pc' \in PC
    BY <1>5, <2>1 DEF Exit, TypeOK, PC
  <2> QED
    BY <1>5, <2>2, ForgetType DEF Exit, TypeOK, hostVars
<1> QED
  BY <1>1, <1>2, <1>3, <1>4, <1>5

LEMMA ReplacedType ==
    ASSUME TypeOK, Replaced(saved) PROVE strays' \in SUBSET Port
BY DEF TypeOK, Replaced, Record, FwMeta

LEMMA StartType ==
    ASSUME TypeOK, \/ KeepCurrent \/ StartMigration \/ StartRecovery \/ Crash \/ Reboot
    PROVE  TypeOK'
<1>1. EffectivePorts(files.dropin) \in SUBSET Port /\ EffectiveAuth(files.dropin) \in Auth
  BY PortsType DEF TypeOK, Files
<1>2. CASE KeepCurrent
  <2> DEFINE ports == EffectivePorts(files.dropin)
             record == [NoRecord EXCEPT !.mode = "managed", !.old = ports, !.ports = ports]
  <2>1. record \in Record
    BY <1>1, DefaultsType DEF Record
  <2>2. runs' \in 0..MaxRuns /\ faults' \in 0..MaxFaults /\ saved' \in Record
    BY <1>2, <2>1, FaultType, BoundAssumption DEF KeepCurrent, TypeOK
  <2>3. strays' \in SUBSET Port
    BY <1>2, ReplacedType DEF KeepCurrent
  <2> QED
    BY <1>2, <2>2, <2>3 DEF KeepCurrent, TypeOK, hostVars, txnVars, metaVars
<1>3. CASE StartMigration
  <2>1. PICK auth \in Auth, final \in {EffectivePorts(files.dropin)} \cup {{p} : p \in Port} :
          \/ plan' = Discovered(final, auth) /\ UNCHANGED faults
          \/ plan' = DiscoveredWithoutUfw(final, auth) /\ Fault
          \/ plan' = DiscoveredBlindly(final, auth) /\ Fault /\ BlindDiscovery
    BY <1>3 DEF StartMigration
  <2>2. final \in SUBSET Port
    BY <1>1
  <2>3. AllowedPorts \in SUBSET Port /\ {DefaultPort} \in SUBSET Port /\ ufw.active \in BOOLEAN
    BY PortAssumption DEF AllowedPorts, TypeOK, Ufw
  <2>4. Discovered(final, auth) \in Plan
    BY <1>1, <2>2, <2>3, PlannedType DEF Discovered
  <2>5. DiscoveredWithoutUfw(final, auth) \in Plan
    BY <2>4 DEF DiscoveredWithoutUfw, Plan
  <2>6. DiscoveredBlindly(final, auth) \in Plan
    <3>1. "open" \in Auth
      BY DEF Auth
    <3> QED
      BY <2>2, <2>3, <3>1, PlannedType DEF DiscoveredBlindly
  <2>7. plan' \in Plan /\ faults' \in 0..MaxFaults
    BY <2>1, <2>4, <2>5, <2>6, FaultType DEF TypeOK
  <2>8. runs' \in 0..MaxRuns /\ pc' \in PC
    BY <1>3, BoundAssumption DEF StartMigration, TypeOK, PC
  <2>9. strays' \in SUBSET Port
    BY <1>3, ReplacedType DEF StartMigration
  <2> QED
    BY <1>3, <2>7, <2>8, <2>9 DEF StartMigration, TypeOK, hostVars, recordVars, metaVars
<1>4. CASE StartRecovery
  <2>1. saved.old \in SUBSET Port /\ saved.backups \in Backups /\ saved.fw \in FwMeta
        /\ saved.f2b \in F2bMeta
    BY DEF TypeOK, Record
  <2>2. [NoPlan EXCEPT !.old = saved.old] \in Plan
    BY <2>1, DefaultsType DEF Plan
  <2>3. pc' \in PC
    BY <1>4 DEF StartRecovery, Goto, PC
  <2> QED
    BY <1>4, <2>1, <2>2, <2>3 DEF StartRecovery, TypeOK, hostVars, ufwVars
<1>5. CASE Crash
  <2>1. pc' \in PC /\ faults' \in 0..MaxFaults
    BY <1>5, FaultType DEF Crash, TypeOK, PC
  <2> QED
    BY <1>5, <2>1, ForgetType DEF Crash, TypeOK, hostVars
<1>6. CASE Reboot
  <2>1. pc' \in PC /\ faults' \in 0..MaxFaults
    BY <1>6, FaultType DEF Reboot, TypeOK, PC
  <2>2. live' \in Live /\ jail' \in Jail
    BY <1>6, StartedType DEF Reboot, TypeOK, Jail, JailOf
  <2> QED
    BY <1>6, <2>1, <2>2, ForgetType DEF Reboot, TypeOK
<1> QED
  BY <1>2, <1>3, <1>4, <1>5, <1>6

LEMMA NextType == TypeOK /\ [Next]_vars => TypeOK'
<1> SUFFICES ASSUME TypeOK, [Next]_vars PROVE TypeOK'
  OBVIOUS
<1>1. CASE Saves
  BY <1>1, SavesType
<1>2. CASE UNCHANGED vars
  BY <1>2 DEF vars, TypeOK
<1> QED
  BY <1>1, <1>2, ForwardType, RollbackType, StartType DEF Next, Process

(* Every variable keeps its type, in particular pc names a step of the     *)
(* transaction and the record one of its stages.                           *)
THEOREM TypeCorrect == Spec => []TypeOK
BY InitType, NextType, PTL DEF Spec

-----------------------------------------------------------------------------
(* The record covers what is unsettled.                                    *)

(* Nothing about the configuration changes while these do not.             *)
LEMMA SameConfiguration ==
    ASSUME UNCHANGED <<host, files, live>>
    PROVE  /\ Settled' <=> Settled
           /\ (live = Started(files))' <=> live = Started(files)
           /\ EffectivePorts(files.dropin)' = EffectivePorts(files.dropin)
           /\ \A f : Coherent(f)' <=> Coherent(f)
           /\ \A b, old : LeadsToOld(b, old)' <=> LeadsToOld(b, old)
BY DEF Settled, Started, Coherent, LeadsToOld, Listening, EffectivePorts, EffectiveAuth

LEMMA NoBackupsGood ==
    Coherent(NoBackups.files) /\ ~NoBackups.taken
BY DEF NoBackups, NoFiles, NoDropIn, Coherent, Listening

(* The control states that a run with an uninterrupted record can be in.   *)
AtRest == {"idle", "planned", "raised", "exit", "finished"}
Restarted == {"f2b_finalize", "f2b_finalized", "fw_finalizing", "fw_finalize",
              "fw_finalized", "verify"}
SettledSteps == {"planned", "backup", "verified", "rb_jail", "rb_cleanup",
                 "rolled_back", "recovered"}
Undoing == {"rb_firewall", "rb_ssh", "rb_jail", "rb_cleanup"}

LEMMA SaveInductive ==
    ASSUME IInv, NEW from, NEW record, NEW to, NEW onFailure,
           Save(from, record, to, onFailure),
           onFailure \in {"raised", "exit"},
           ~record.interrupted => Settled /\ to \in {"exit", "finished"},
           Coherent(record.backups.files),
           ~BlindDiscovery => LeadsToOld(record.backups, record.old),
           to \in SettledSteps => from = "planned" /\ to = "backup",
           to \in Restarted => from \in Restarted,
           to # "idle"
    PROVE  IInv'
<1>1. /\ UNCHANGED <<host, files, live, plan, backups>>
      /\ pc = from /\ memory' = record /\ saved' \in {saved, record}
      /\ (pc' = to /\ saved' = record) \/ pc' = onFailure
  BY DEF Save, hostVars, txnVars
<1>2. RecordCovers'
  BY <1>1, SameConfiguration DEF IInv, RecordCovers
<1>3. StepsSettle'
  BY <1>1, SameConfiguration DEF IInv, StepsSettle, Restarted, SettledSteps
<1>4. BackupsCoherent'
  BY <1>1, SameConfiguration DEF IInv, BackupsCoherent
<1>5. TargetsKnown'
  BY <1>1, SameConfiguration DEF IInv, TargetsKnown, SettledSteps
<1> QED
  BY <1>2, <1>3, <1>4, <1>5 DEF IInv

LEMMA SavesInductive == ASSUME TypeOK, IInv, Saves PROVE IInv'
<1>1. ASSUME NEW stage
      PROVE  LET r == MigrationState(stage)
             IN  /\ r.interrupted /\ Coherent(r.backups.files)
                 /\ ~BlindDiscovery => LeadsToOld(r.backups, r.old)
  BY DEF MigrationState, IInv, BackupsCoherent, TargetsKnown
<1>2. ASSUME NEW from, NEW stage, NEW to, NEW onFailure,
             Save(from, MigrationState(stage), to, onFailure),
             onFailure \in {"raised", "exit"},
             to \in SettledSteps => from = "planned" /\ to = "backup",
             to \in Restarted => from \in Restarted,
             to # "idle"
      PROVE  IInv'
  BY <1>1, <1>2, SaveInductive
<1> USE DEF SettledSteps, Restarted
<1>3. CASE SavePlanned
  BY <1>2, <1>3 DEF SavePlanned
<1>4. CASE SaveBackups
  BY <1>2, <1>4 DEF SaveBackups
<1>5. CASE SaveApplying
  BY <1>2, <1>5 DEF SaveApplying
<1>6. CASE SaveFirewall
  BY <1>2, <1>6 DEF SaveFirewall
<1>7. CASE SaveJail
  BY <1>2, <1>7 DEF SaveJail
<1>8. CASE SaveActive
  BY <1>2, <1>8 DEF SaveActive
<1>9. CASE SaveAwaiting
  BY <1>2, <1>9 DEF SaveAwaiting
<1>10. CASE SaveFinalizing
  BY <1>2, <1>10 DEF SaveFinalizing
<1>11. CASE SaveJailFinal
  BY <1>2, <1>11 DEF SaveJailFinal
<1>12. CASE SaveFirewallFinalizing
  BY <1>2, <1>12 DEF SaveFirewallFinalizing
<1>13. CASE SaveFirewallFinal
  BY <1>2, <1>13 DEF SaveFirewallFinal
<1>14. CASE SaveRollbackStarted
  BY <1>2, <1>14 DEF SaveRollbackStarted
<1>15. CASE SaveRollbackFailed
  BY <1>2, <1>15 DEF SaveRollbackFailed
<1>16. CASE SaveDone
  <2> DEFINE record == [MigrationState("done") EXCEPT
                          !.mode = "managed", !.interrupted = FALSE,
                          !.backups = NoBackups, !.ports = plan.final]
  <2>1. record.backups = NoBackups
    BY DEF MigrationState
  <2>2. Coherent(record.backups.files) /\ LeadsToOld(record.backups, record.old)
    BY <2>1, NoBackupsGood DEF LeadsToOld
  <2>3. Settled
    BY <1>16 DEF SaveDone, Save, IInv, StepsSettle
  <2>4. Save("verified", record, "finished", "raised")
    BY <1>16 DEF SaveDone
  <2> HIDE DEF record
  <2> QED
    BY <2>2, <2>3, <2>4, SaveInductive
<1>17. CASE SaveRolledBack
  <2> DEFINE record == [MigrationState("rolled_back") EXCEPT
                          !.interrupted = FALSE, !.ports = plan.old]
  <2>1. record.backups = backups /\ record.old = plan.old
    BY DEF MigrationState
  <2>2. Coherent(record.backups.files)
        /\ (~BlindDiscovery => LeadsToOld(record.backups, record.old))
    BY <2>1 DEF IInv, BackupsCoherent, TargetsKnown
  <2>3. Settled
    BY <1>17 DEF SaveRolledBack, Save, IInv, StepsSettle
  <2> QED
    BY <1>17, <2>2, <2>3, SaveInductive DEF SaveRolledBack
<1>18. CASE SaveRecovered
  <2> DEFINE record == [NoRecord EXCEPT !.mode = "skipped", !.old = plan.old,
                                        !.fw = fwMeta, !.f2b = f2bMeta]
  <2>1. record.backups = NoBackups
    BY DEF NoRecord
  <2>2. Coherent(record.backups.files) /\ LeadsToOld(record.backups, record.old)
    BY <2>1, NoBackupsGood DEF LeadsToOld
  <2>3. Settled
    BY <1>18 DEF SaveRecovered, Save, IInv, StepsSettle
  <2>4. Save("recovered", record, "finished", "exit")
    BY <1>18 DEF SaveRecovered
  <2> HIDE DEF record
  <2> QED
    BY <2>2, <2>3, <2>4, SaveInductive
<1> QED
  BY <1>3, <1>4, <1>5, <1>6, <1>7, <1>8, <1>9, <1>10, <1>11, <1>12, <1>13, <1>14,
     <1>15, <1>16, <1>17, <1>18 DEF Saves

(* A step that leaves SSH, the record and the backups alone.               *)
LEMMA QuietInductive ==
    ASSUME IInv, UNCHANGED <<host, files, live, saved, memory, plan, backups>>,
           pc \notin AtRest, pc' \notin {"idle", "planned", "backup"},
           pc' \in {"exit", "finished"} => saved.interrupted /\ memory.interrupted,
           pc' \in Undoing => memory.interrupted,
           pc' \in SettledSteps => Settled,
           pc' \in Restarted => live = Started(files)
    PROVE  IInv'
<1>1. RecordCovers'
  BY SameConfiguration DEF IInv, RecordCovers, AtRest, Undoing
<1>2. StepsSettle'
  BY SameConfiguration DEF IInv, StepsSettle, Restarted, SettledSteps
<1>3. BackupsCoherent' /\ TargetsKnown'
  BY SameConfiguration DEF IInv, BackupsCoherent, TargetsKnown
<1> QED
  BY <1>1, <1>2, <1>3 DEF IInv

(* A step that changes the configuration, while the record is interrupted. *)
LEMMA ChangeInductive ==
    ASSUME IInv, UNCHANGED <<host, saved, memory, plan, backups>>,
           pc \notin AtRest \cup {"backup"}, pc' \notin {"idle", "planned", "backup"},
           pc' \in {"exit", "finished"} => memory.interrupted,
           pc' \in Undoing => memory.interrupted,
           pc' \in SettledSteps => Settled',
           pc' \in Restarted => (live = Started(files))'
    PROVE  IInv'
<1>1. saved.interrupted /\ saved'.interrupted
  BY DEF IInv, RecordCovers, AtRest
<1>2. RecordCovers'
  BY <1>1 DEF RecordCovers, Undoing
<1>3. StepsSettle'
  BY DEF StepsSettle, Restarted, SettledSteps
<1>4. /\ \A f : Coherent(f)' <=> Coherent(f)
      /\ \A b, old : LeadsToOld(b, old)' <=> LeadsToOld(b, old)
  BY DEF Coherent, LeadsToOld, Listening, EffectivePorts
<1>5. BackupsCoherent' /\ TargetsKnown'
  BY <1>4 DEF IInv, BackupsCoherent, TargetsKnown
<1> QED
  BY <1>2, <1>3, <1>5 DEF IInv

LEMMA ForwardInductive ==
    ASSUME TypeOK, IInv,
           \/ BackupFiles \/ PrepareFirewall \/ WriteTransition \/ RefuseTransition
           \/ ApplyTransition \/ PrepareJail \/ ConfirmLogin \/ ConfirmSudo \/ Decline
           \/ WriteFinal \/ ApplyFinal \/ FinalizeJail \/ FinalizeFirewall
           \/ VerifyComponents
    PROVE  IInv'
<1> USE DEF AtRest, SettledSteps, Restarted, Undoing
<1>1. CASE BackupFiles
  <2>1. UNCHANGED <<host, files, live, saved, memory, plan>> /\ pc = "backup"
    BY <1>1 DEF BackupFiles, Goto, hostVars, recordVars
  <2>2. \/ pc' = "backed" /\ backups' = [taken |-> TRUE, files |-> files]
        \/ pc' = "exit" /\ backups' = backups
    BY <1>1 DEF BackupFiles, Goto
  <2>3. Settled /\ saved.interrupted
    BY <2>1 DEF IInv, StepsSettle, RecordCovers
  <2>4. Coherent(files) /\ (~BlindDiscovery => Listening(files) = plan.old)
    BY <2>1, <2>3 DEF Settled, Started, Coherent, IInv, TargetsKnown
  <2>5. Coherent(backups'.files) /\ (~BlindDiscovery => LeadsToOld(backups', plan.old))
    BY <2>2, <2>4 DEF LeadsToOld, IInv, BackupsCoherent, TargetsKnown
  <2>6. RecordCovers'
    BY <2>1, <2>2, <2>3, SameConfiguration DEF RecordCovers
  <2>7. StepsSettle'
    BY <2>2 DEF StepsSettle
  <2>8. BackupsCoherent' /\ TargetsKnown'
    BY <2>1, <2>2, <2>5, SameConfiguration DEF IInv, BackupsCoherent, TargetsKnown
  <2> QED
    BY <2>6, <2>7, <2>8 DEF IInv
<1>2. CASE \/ PrepareFirewall \/ RefuseTransition \/ PrepareJail \/ ConfirmLogin
           \/ ConfirmSudo \/ Decline
  BY <1>2, QuietInductive
  DEF PrepareFirewall, RefuseTransition, PrepareJail, ConfirmLogin, ConfirmSudo, Decline,
      Goto, ApplyJail, hostVars, recordVars, txnVars
<1>3. CASE FinalizeJail \/ FinalizeFirewall
  <2>1. pc \in {"f2b_finalize", "fw_finalize"} /\ live = Started(files)
    BY <1>3 DEF FinalizeJail, FinalizeFirewall, Goto, ApplyJail, IInv, StepsSettle
  <2> QED
    BY <1>3, <2>1, QuietInductive
    DEF FinalizeJail, FinalizeFirewall, Goto, ApplyJail, hostVars, recordVars, txnVars
<1>4. CASE VerifyComponents
  <2>1. pc = "verify" /\ live = Started(files)
    BY <1>4 DEF VerifyComponents, Goto, IInv, StepsSettle
  <2>2. pc' = "verified" => Settled
    BY <1>4, <2>1 DEF VerifyComponents, Goto, FinalStateHolds, Settled
  <2> QED
    BY <1>4, <2>1, <2>2, QuietInductive DEF VerifyComponents, Goto, hostVars, recordVars, txnVars
<1>5. CASE WriteTransition \/ WriteFinal
  BY <1>5, ChangeInductive
  DEF WriteTransition, WriteFinal, WriteConfig, Goto, recordVars, txnVars
<1>6. CASE ApplyTransition \/ ApplyFinal
  <2>1. UNCHANGED <<host, files, saved, memory, plan, backups>>
    BY <1>6 DEF ApplyTransition, ApplyFinal, ApplyConfig, recordVars, txnVars
  <2>2. pc' \in Restarted => live' = Started(files)
    BY <1>6 DEF ApplyTransition, ApplyFinal, ApplyConfig, Goto
  <2>3. pc' \in Restarted => (live = Started(files))'
    BY <2>1, <2>2 DEF Started, Listening, EffectivePorts, EffectiveAuth
  <2> QED
    BY <1>6, <2>1, <2>3, ChangeInductive DEF ApplyTransition, ApplyFinal, ApplyConfig, Goto
<1> QED
  BY <1>1, <1>2, <1>3, <1>4, <1>5, <1>6

LEMMA RollbackInductive ==
    ASSUME TypeOK, IInv,
           \/ RestoreFirewall \/ RollbackSsh \/ RollbackJail \/ CleanupFirewall \/ Exit
    PROVE  IInv'
<1> USE DEF AtRest, SettledSteps, Restarted, Undoing
<1>1. pc \in Undoing => saved.interrupted /\ memory.interrupted
  BY DEF IInv, RecordCovers
<1>2. pc \in {"rb_jail", "rb_cleanup"} => Settled
  BY DEF IInv, StepsSettle
<1>3. CASE RestoreFirewall \/ RollbackJail \/ CleanupFirewall
  BY <1>1, <1>2, <1>3, QuietInductive
  DEF RestoreFirewall, RollbackJail, CleanupFirewall, RollbackFailed, Goto,
      hostVars, recordVars, txnVars
<1>4. CASE RollbackSsh
  <2>1. UNCHANGED <<host, saved, memory, plan, backups>> /\ pc = "rb_ssh"
    BY <1>4 DEF RollbackSsh, Goto, recordVars, txnVars
  <2>2. pc' \in {"rb_jail", "exit", "rb_failed"}
    BY <1>4 DEF RollbackSsh, Goto, RollbackFailed
  <2>3. pc' = "rb_jail" => files' = backups.files /\ live' = Started(backups.files)
    BY <1>4 DEF RollbackSsh, Goto, RollbackFailed
  <2>4. Coherent(backups.files)
    BY DEF IInv, BackupsCoherent
  <2>5. pc' = "rb_jail" => Settled'
    BY <2>1, <2>3, <2>4
    DEF Settled, Started, Coherent, Listening, EffectivePorts, EffectiveAuth
  <2> QED
    BY <1>1, <2>1, <2>2, <2>5, ChangeInductive
<1>5. CASE Exit
  <2>1. UNCHANGED <<host, files, live>> /\ pc \in {"exit", "finished"} /\ pc' = "idle"
        /\ saved' \in {saved, memory, [memory EXCEPT !.stage = "none"]}
        /\ memory' = NoRecord /\ backups' = NoBackups
    BY <1>5 DEF Exit, Forget, hostVars
  <2>2. /\ [memory EXCEPT !.stage = "none"].interrupted = memory.interrupted
        /\ [memory EXCEPT !.stage = "none"].backups = memory.backups
        /\ [memory EXCEPT !.stage = "none"].old = memory.old
    BY DEF TypeOK, Record
  <2>3. \/ /\ saved'.interrupted = saved.interrupted /\ saved'.backups = saved.backups
           /\ saved'.old = saved.old
        \/ /\ saved'.interrupted = memory.interrupted /\ saved'.backups = memory.backups
           /\ saved'.old = memory.old
    BY <2>1, <2>2
  <2>4. NoRecord.backups = NoBackups
    BY DEF NoRecord
  <2>5. RecordCovers'
    BY <2>1, <2>3, SameConfiguration DEF IInv, RecordCovers
  <2>6. StepsSettle'
    BY <2>1 DEF StepsSettle
  <2>7. BackupsCoherent'
    BY <2>1, <2>3, <2>4, NoBackupsGood, SameConfiguration DEF IInv, BackupsCoherent
  <2>8. TargetsKnown'
    BY <2>1, <2>3, <2>4, NoBackupsGood, SameConfiguration DEF IInv, TargetsKnown, LeadsToOld
  <2> QED
    BY <2>5, <2>6, <2>7, <2>8 DEF IInv
<1> QED
  BY <1>3, <1>4, <1>5

LEMMA StartInductive ==
    ASSUME TypeOK, IInv, \/ KeepCurrent \/ StartMigration \/ StartRecovery \/ Crash \/ Reboot
    PROVE  IInv'
<1>0. NoRecord.backups = NoBackups /\ ~NoRecord.interrupted
  BY DEF NoRecord
<1>1. CASE KeepCurrent
  <2>1. /\ UNCHANGED <<host, files, live, memory, pc, plan, backups>>
        /\ pc = "idle" /\ ~saved.interrupted
    BY <1>1 DEF KeepCurrent, hostVars, txnVars
  <2>2. saved' # saved => ~saved'.interrupted /\ saved'.backups = NoBackups
    BY <1>1, <1>0 DEF KeepCurrent, NoRecord
  <2>3. Settled
    BY <2>1 DEF IInv, RecordCovers
  <2>4. RecordCovers' /\ StepsSettle'
    BY <2>1, <2>2, <2>3, SameConfiguration DEF IInv, RecordCovers, StepsSettle
  <2>5. BackupsCoherent'
    BY <2>1, <2>2, NoBackupsGood, SameConfiguration DEF IInv, BackupsCoherent
  <2>6. TargetsKnown'
    BY <2>1, <2>2, NoBackupsGood, SameConfiguration DEF IInv, TargetsKnown, LeadsToOld
  <2> QED
    BY <2>4, <2>5, <2>6 DEF IInv
<1>2. CASE StartMigration
  <2>1. /\ UNCHANGED <<host, files, live, saved, memory, backups>>
        /\ pc = "idle" /\ ~saved.interrupted /\ pc' = "planned"
    BY <1>2 DEF StartMigration, hostVars, recordVars
  <2>2. ASSUME ~BlindDiscovery PROVE plan'.old = EffectivePorts(files.dropin)
    <3>1. PICK auth \in Auth, final \in {EffectivePorts(files.dropin)} \cup {{p} : p \in Port} :
            plan' \in {Discovered(final, auth), DiscoveredWithoutUfw(final, auth)}
      BY <1>2, <2>2 DEF StartMigration
    <3>2. Discovered(final, auth).old = EffectivePorts(files.dropin)
      BY DEF Discovered, Planned
    <3>3. DiscoveredWithoutUfw(final, auth).old = EffectivePorts(files.dropin)
      BY DEF DiscoveredWithoutUfw, Discovered, Planned
    <3> QED
      BY <3>1, <3>2, <3>3
  <2>3. Settled
    BY <2>1 DEF IInv, RecordCovers
  <2>4. RecordCovers' /\ StepsSettle' /\ BackupsCoherent'
    BY <2>1, <2>3, SameConfiguration DEF IInv, RecordCovers, StepsSettle, BackupsCoherent
  <2>5. TargetsKnown'
    BY <2>1, <2>2, SameConfiguration DEF IInv, TargetsKnown, LeadsToOld
  <2> QED
    BY <2>4, <2>5 DEF IInv
<1>3. CASE StartRecovery
  <2>1. /\ UNCHANGED <<host, files, live, saved>>
        /\ saved.interrupted /\ pc' = "rb_firewall" /\ memory' = saved
        /\ backups' = saved.backups /\ plan'.old = saved.old
    BY <1>3 DEF StartRecovery, Goto, hostVars, NoPlan
  <2>2. RecordCovers' /\ StepsSettle'
    BY <2>1, SameConfiguration DEF IInv, RecordCovers, StepsSettle
  <2>3. BackupsCoherent' /\ TargetsKnown'
    BY <2>1, SameConfiguration DEF IInv, BackupsCoherent, TargetsKnown
  <2> QED
    BY <2>2, <2>3 DEF IInv
<1>4. CASE Crash \/ Reboot
  <2>1. /\ UNCHANGED <<host, files, saved>> /\ pc' = "idle"
        /\ memory' = NoRecord /\ backups' = NoBackups
    BY <1>4 DEF Crash, Reboot, Forget, hostVars
  <2>2. ~saved.interrupted => UNCHANGED live
    BY <1>4 DEF Crash, Reboot, hostVars, IInv, RecordCovers, Settled
  <2>3. RecordCovers' /\ StepsSettle'
    BY <2>1, <2>2, SameConfiguration DEF IInv, RecordCovers, StepsSettle
  <2>4. /\ \A f : Coherent(f)' <=> Coherent(f)
        /\ \A b, old : LeadsToOld(b, old)' <=> LeadsToOld(b, old)
    BY <2>1 DEF Coherent, LeadsToOld, Listening, EffectivePorts
  <2>5. BackupsCoherent'
    BY <1>0, <2>1, <2>4, NoBackupsGood DEF IInv, BackupsCoherent
  <2>6. TargetsKnown'
    BY <1>0, <2>1, <2>4, NoBackupsGood DEF IInv, TargetsKnown, LeadsToOld
  <2> QED
    BY <2>3, <2>5, <2>6 DEF IInv
<1> QED
  BY <1>1, <1>2, <1>3, <1>4

LEMMA InitInductive == Init => IInv
<1> SUFFICES ASSUME Init PROVE IInv
  OBVIOUS
<1>1. Coherent(files) /\ Settled
  BY DEF Init, Settled, Started, Coherent, Listening, NoFiles
<1>2. NoRecord.backups = NoBackups /\ ~NoRecord.interrupted
  BY DEF NoRecord
<1>3. RecordCovers /\ StepsSettle
  BY <1>1 DEF Init, RecordCovers, StepsSettle
<1>4. BackupsCoherent /\ TargetsKnown
  BY <1>2, NoBackupsGood DEF Init, BackupsCoherent, TargetsKnown, LeadsToOld
<1> QED
  BY <1>3, <1>4 DEF IInv

LEMMA NextInductive == TypeOK /\ IInv /\ [Next]_vars => IInv'
<1> SUFFICES ASSUME TypeOK, IInv, [Next]_vars PROVE IInv'
  OBVIOUS
<1>1. CASE Saves
  BY <1>1, SavesInductive
<1>2. CASE UNCHANGED vars
  <2>1. UNCHANGED <<host, files, live, saved, memory, plan, backups, pc>>
    BY <1>2 DEF vars
  <2> QED
    BY <2>1, SameConfiguration
    DEF IInv, RecordCovers, StepsSettle, BackupsCoherent, TargetsKnown
<1> QED
  BY <1>1, <1>2, ForwardInductive, RollbackInductive, StartInductive DEF Next, Process

(* Between any two steps, whatever failed or was killed before: what is    *)
(* not settled is recorded as interrupted, and the recorded backups come   *)
(* from a settled configuration.                                           *)
THEOREM Inductive == Spec => []IInv
<1>1. TypeOK /\ IInv /\ [Next]_vars => (TypeOK /\ IInv)'
  BY NextType, NextInductive
<1> QED
  BY <1>1, InitType, InitInductive, PTL DEF Spec

(* No process and no interrupted record: the drop-in, the socket override  *)
(* and the running SSH agree, for any ports, hosts and number of faults,   *)
(* blind discovery included.                                               *)
THEOREM Settles == Spec => []SettledUnlessInterrupted
<1>1. IInv => SettledUnlessInterrupted
  BY DEF IInv, RecordCovers, SettledUnlessInterrupted
<1> QED
  BY <1>1, Inductive, PTL

(* If sshd -T answers during discovery, the backups of an interrupted      *)
(* record reopen exactly the ports it names as old: the verification at    *)
(* the end of rollback_ssh is about the right ports.                       *)
THEOREM RollbackTarget ==
    ASSUME ~BlindDiscovery
    PROVE  Spec => []RollbackTargetIsOld
<1>1. IInv => RollbackTargetIsOld
  BY DEF IInv, TargetsKnown, LeadsToOld, RollbackTargetIsOld
<1> QED
  BY <1>1, Inductive, PTL

-----------------------------------------------------------------------------
(***************************************************************************)
(* SSHMigration implements Migration, for any ports, hosts and bounds: the *)
(* invariant UndoInv, and what each step is to the abstract transaction.   *)
(***************************************************************************)

(* Before the backups are known to the file, or after the run.             *)
Outside == {"idle", "planned", "backup", "backed", "exit", "finished"}
UndoneSteps == {"rb_jail", "rb_cleanup", "rolled_back", "recovered"}
UndoingSteps == {"rb_firewall", "rb_ssh", "rb_jail", "rb_cleanup"}

-----------------------------------------------------------------------------
(* A save of the migration's state.                                        *)
LEMMA StateUndo ==
    ASSUME UndoInv, NEW stage, NEW from, NEW to, NEW onFailure,
           Save(from, MigrationState(stage), to, onFailure),
           from \notin {"idle", "backup", "exit", "finished"},
           from = "planned" => to = "backup",
           onFailure = "exit" \/ (onFailure = "raised" /\ from \notin Outside),
           to \notin UndoneSteps \cup {"idle", "finished"}
    PROVE  UndoInv'
<1>1. MigrationState(stage).interrupted /\ MigrationState(stage).backups = backups
  BY DEF MigrationState
<1>2. /\ UNCHANGED <<files, backups>> /\ pc = from
      /\ memory' = MigrationState(stage) /\ saved' \in {saved, memory'}
      /\ (pc' = to /\ saved' = memory') \/ pc' = onFailure
  BY DEF Save, hostVars, txnVars
<1>3. BackupsKnown'
  BY <1>1, <1>2 DEF UndoInv, BackupsKnown, Outside, UndoneSteps
<1>4. MemoryTrue'
  BY <1>1, <1>2 DEF UndoInv, MemoryTrue, Undone, UndoneSteps, Outside
<1> QED
  BY <1>3, <1>4 DEF UndoInv

LEMMA SavesUndo == ASSUME TypeOK, IInv, UndoInv, Saves PROVE UndoInv'
<1> USE DEF Outside, UndoneSteps
<1>3. CASE SavePlanned
  BY <1>3, StateUndo DEF SavePlanned
<1>4. CASE SaveBackups
  BY <1>4, StateUndo DEF SaveBackups
<1>5. CASE SaveApplying
  BY <1>5, StateUndo DEF SaveApplying
<1>6. CASE SaveFirewall
  BY <1>6, StateUndo DEF SaveFirewall
<1>7. CASE SaveJail
  BY <1>7, StateUndo DEF SaveJail
<1>8. CASE SaveActive
  BY <1>8, StateUndo DEF SaveActive
<1>9. CASE SaveAwaiting
  BY <1>9, StateUndo DEF SaveAwaiting
<1>10. CASE SaveFinalizing
  BY <1>10, StateUndo DEF SaveFinalizing
<1>11. CASE SaveJailFinal
  BY <1>11, StateUndo DEF SaveJailFinal
<1>12. CASE SaveFirewallFinalizing
  BY <1>12, StateUndo DEF SaveFirewallFinalizing
<1>13. CASE SaveFirewallFinal
  BY <1>13, StateUndo DEF SaveFirewallFinal
<1>14. CASE SaveRollbackStarted
  BY <1>14, StateUndo DEF SaveRollbackStarted
<1>15. CASE SaveRollbackFailed
  BY <1>15, StateUndo DEF SaveRollbackFailed
<1>16. CASE SaveDone
  <2>1. PICK record : /\ ~record.interrupted /\ record.mode = "managed"
                      /\ Save("verified", record, "finished", "raised")
    <3> DEFINE record == [MigrationState("done") EXCEPT
                            !.mode = "managed", !.interrupted = FALSE,
                            !.backups = NoBackups, !.ports = plan.final]
    <3>1. ~record.interrupted /\ record.mode = "managed"
      BY DEF MigrationState
    <3> QED
      BY <1>16, <3>1 DEF SaveDone
  <2>2. /\ UNCHANGED <<files, backups>> /\ pc = "verified" /\ memory' = record
        /\ (pc' = "finished" /\ saved' = record) \/ (pc' = "raised" /\ saved' \in {saved, record})
    BY <2>1 DEF Save, hostVars, txnVars
  <2> QED
    BY <2>1, <2>2 DEF UndoInv, BackupsKnown, MemoryTrue
<1>17. CASE SaveRolledBack
  <2>1. PICK record : /\ ~record.interrupted /\ record.mode = "migration"
                      /\ Save("rolled_back", record, "exit", "exit")
    <3> DEFINE record == [MigrationState("rolled_back") EXCEPT
                            !.interrupted = FALSE, !.ports = plan.old]
    <3>1. ~record.interrupted /\ record.mode = "migration"
      BY DEF MigrationState
    <3> QED
      BY <1>17, <3>1 DEF SaveRolledBack
  <2>2. /\ UNCHANGED <<files, backups>> /\ pc = "rolled_back" /\ memory' = record
        /\ pc' = "exit" /\ saved' \in {saved, record}
    BY <2>1 DEF Save, hostVars, txnVars
  <2>3. saved.interrupted /\ Undone
    BY <2>2 DEF IInv, RecordCovers, UndoInv, MemoryTrue
  <2> QED
    BY <2>1, <2>2, <2>3 DEF UndoInv, BackupsKnown, MemoryTrue, Undone
<1>18. CASE SaveRecovered
  <2>1. PICK record : /\ ~record.interrupted /\ record.mode = "skipped"
                      /\ Save("recovered", record, "finished", "exit")
    <3> DEFINE record == [NoRecord EXCEPT !.mode = "skipped", !.old = plan.old,
                                          !.fw = fwMeta, !.f2b = f2bMeta]
    <3>1. ~record.interrupted /\ record.mode = "skipped"
      BY DEF NoRecord
    <3> QED
      BY <1>18, <3>1 DEF SaveRecovered
  <2>2. /\ UNCHANGED <<files, backups>> /\ pc = "recovered" /\ memory' = record
        /\ (pc' = "finished" /\ saved' = record) \/ (pc' = "exit" /\ saved' \in {saved, record})
    BY <2>1 DEF Save, hostVars, txnVars
  <2>3. saved.interrupted /\ Undone
    BY <2>2 DEF IInv, RecordCovers, UndoInv, MemoryTrue
  <2> QED
    BY <2>1, <2>2, <2>3 DEF UndoInv, BackupsKnown, MemoryTrue, Undone
<1> QED
  BY <1>3, <1>4, <1>5, <1>6, <1>7, <1>8, <1>9, <1>10, <1>11, <1>12, <1>13, <1>14,
     <1>15, <1>16, <1>17, <1>18 DEF Saves

(* A step within the transaction or the rollback that saves nothing.       *)
LEMMA StepUndo ==
    ASSUME UndoInv, UNCHANGED <<saved, memory, backups>>,
           pc \notin Outside, pc' \notin Outside \ {"exit"},
           pc' \in UndoneSteps => Undone',
           pc' \in UndoingSteps \cup {"exit"} =>
             memory.interrupted /\ memory.backups = backups
    PROVE  UndoInv'
<1> USE DEF Outside, UndoneSteps, UndoingSteps
<1>1. BackupsKnown'
  BY DEF UndoInv, BackupsKnown
<1>2. MemoryTrue'
  BY DEF UndoInv, MemoryTrue
<1> QED
  BY <1>1, <1>2 DEF UndoInv

LEMMA ForwardUndo ==
    ASSUME IInv, UndoInv,
           \/ BackupFiles \/ PrepareFirewall \/ WriteTransition \/ RefuseTransition
           \/ ApplyTransition \/ PrepareJail \/ ConfirmLogin \/ ConfirmSudo \/ Decline
           \/ WriteFinal \/ ApplyFinal \/ FinalizeJail \/ FinalizeFirewall
           \/ VerifyComponents
    PROVE  UndoInv'
<1> USE DEF Outside, UndoneSteps, UndoingSteps
<1>1. CASE BackupFiles
  <2>1. /\ UNCHANGED <<files, saved, memory>> /\ pc = "backup"
        /\ \/ pc' = "backed" /\ backups' = [taken |-> TRUE, files |-> files]
           \/ pc' = "exit" /\ backups' = backups
    BY <1>1 DEF BackupFiles, Goto, hostVars, recordVars
  <2>2. ~backups.taken /\ saved.interrupted /\ memory.interrupted
    BY <2>1 DEF IInv, RecordCovers, TargetsKnown, UndoInv, MemoryTrue
  <2>3. BackupsKnown'
    BY <2>1, <2>2 DEF UndoInv, BackupsKnown
  <2>4. MemoryTrue'
    BY <2>1, <2>2 DEF UndoInv, MemoryTrue
  <2> QED
    BY <2>3, <2>4 DEF UndoInv
<1>2. CASE \/ PrepareFirewall \/ RefuseTransition \/ ConfirmLogin \/ ConfirmSudo \/ Decline
           \/ FinalizeFirewall \/ VerifyComponents
  BY <1>2, StepUndo
  DEF PrepareFirewall, RefuseTransition, ConfirmLogin, ConfirmSudo, Decline,
      FinalizeFirewall, VerifyComponents, Goto, recordVars, txnVars
<1>3. CASE PrepareJail \/ FinalizeJail
  BY <1>3, StepUndo DEF PrepareJail, FinalizeJail, ApplyJail, Goto, recordVars, txnVars
<1>4. CASE WriteTransition \/ WriteFinal
  BY <1>4, StepUndo DEF WriteTransition, WriteFinal, WriteConfig, Goto, recordVars, txnVars
<1>5. CASE ApplyTransition \/ ApplyFinal
  BY <1>5, StepUndo DEF ApplyTransition, ApplyFinal, ApplyConfig, Goto, recordVars, txnVars
<1> QED
  BY <1>1, <1>2, <1>3, <1>4, <1>5

LEMMA RollbackUndo ==
    ASSUME IInv, UndoInv,
           \/ RestoreFirewall \/ RollbackSsh \/ RollbackJail \/ CleanupFirewall \/ Exit
    PROVE  UndoInv'
<1> USE DEF Outside, UndoneSteps, UndoingSteps
<1>1. pc \in UndoingSteps => memory.interrupted /\ memory.backups = backups /\ backups.taken
  BY DEF IInv, RecordCovers, UndoInv, MemoryTrue, BackupsKnown
<1>2. CASE RestoreFirewall
  BY <1>1, <1>2, StepUndo
  DEF RestoreFirewall, RollbackFailed, Goto, hostVars, recordVars, txnVars
<1>3. CASE RollbackSsh
  <2>1. UNCHANGED <<saved, memory, backups>> /\ pc = "rb_ssh"
        /\ pc' \in {"rb_jail", "exit", "rb_failed"}
    BY <1>3 DEF RollbackSsh, Goto, RollbackFailed, recordVars, txnVars
  <2>2. pc' = "rb_jail" => Undone'
    BY <1>1, <1>3, <2>1 DEF RollbackSsh, Goto, RollbackFailed, Undone
  <2> QED
    BY <1>1, <2>1, <2>2, StepUndo
<1>4. CASE RollbackJail \/ CleanupFirewall
  <2>1. UNCHANGED <<files, saved, memory, backups>> /\ pc \in {"rb_jail", "rb_cleanup"}
    BY <1>4 DEF RollbackJail, CleanupFirewall, Goto, hostVars, recordVars, txnVars
  <2>2. Undone'
    BY <2>1 DEF UndoInv, MemoryTrue, Undone
  <2>3. pc' \in {"rb_cleanup", "rb_failed", "exit", "rolled_back", "recovered"}
    BY <1>4 DEF RollbackJail, CleanupFirewall, RollbackFailed, Goto
  <2> QED
    BY <1>1, <2>1, <2>2, <2>3, StepUndo
<1>5. CASE Exit
  <2>1. pc' = "idle" /\ backups' = NoBackups
    BY <1>5 DEF Exit, Forget
  <2> QED
    BY <2>1, NoBackupsGood DEF UndoInv, BackupsKnown, MemoryTrue
<1> QED
  BY <1>2, <1>3, <1>4, <1>5

LEMMA StartUndo ==
    ASSUME TypeOK, IInv, UndoInv,
           \/ KeepCurrent \/ StartMigration \/ StartRecovery \/ Crash \/ Reboot
    PROVE  UndoInv'
<1>1. CASE KeepCurrent
  <2>1. UNCHANGED <<pc, backups>> /\ pc = "idle"
    BY <1>1 DEF KeepCurrent, txnVars
  <2>2. ~backups.taken
    BY <2>1 DEF IInv, TargetsKnown
  <2> QED
    BY <2>1, <2>2 DEF UndoInv, BackupsKnown, MemoryTrue
<1>2. CASE StartMigration
  <2>1. UNCHANGED <<saved, backups>> /\ ~saved.interrupted /\ pc' = "planned"
    BY <1>2 DEF StartMigration, recordVars
  <2> QED
    BY <2>1 DEF UndoInv, BackupsKnown, MemoryTrue
<1>3. CASE StartRecovery
  <2>1. /\ UNCHANGED saved /\ saved.interrupted /\ saved.backups.taken
        /\ pc' = "rb_firewall" /\ backups' = saved.backups /\ memory' = saved
    BY <1>3 DEF StartRecovery, Goto
  <2> QED
    BY <2>1 DEF UndoInv, BackupsKnown, MemoryTrue
<1>4. CASE Crash \/ Reboot
  <2>1. pc' = "idle" /\ backups' = NoBackups
    BY <1>4 DEF Crash, Reboot, Forget
  <2> QED
    BY <2>1, NoBackupsGood DEF UndoInv, BackupsKnown, MemoryTrue
<1> QED
  BY <1>1, <1>2, <1>3, <1>4

LEMMA InitUndo == Init => UndoInv
BY NoBackupsGood DEF Init, UndoInv, BackupsKnown, MemoryTrue, NoRecord

LEMMA NextUndo == TypeOK /\ IInv /\ UndoInv /\ [Next]_vars => UndoInv'
<1> SUFFICES ASSUME TypeOK, IInv, UndoInv, [Next]_vars PROVE UndoInv'
  OBVIOUS
<1>1. CASE UNCHANGED vars
  BY <1>1 DEF vars, UndoInv, BackupsKnown, MemoryTrue, Undone
<1> QED
  BY <1>1, SavesUndo, ForwardUndo, RollbackUndo, StartUndo DEF Next, Process

(* What the file, the process and its memory know of the backups is the    *)
(* same, for all ports, hosts, failures, kills and restarts.               *)
THEOREM UndoInductive == Spec => []UndoInv
<1>1. TypeOK /\ IInv /\ UndoInv /\ [Next]_vars => UndoInv'
  BY NextUndo
<1> QED
  BY <1>1, TypeCorrect, Inductive, InitUndo, PTL DEF Spec

-----------------------------------------------------------------------------
(* What the steps are to the abstract transaction, whose variables are:    *)
Config == IF Settled THEN {files} ELSE {}
Before == CASE backups.taken -> {backups.files}
            [] ~backups.taken /\ saved.interrupted /\ saved.backups.taken ->
                 {saved.backups.files}
            [] OTHER -> {files}
Outcome == IF saved.interrupted THEN "open"
           ELSE CASE saved.mode = "none" -> "none"
                  [] saved.mode = "managed" -> "committed"
                  [] OTHER -> "rolled back"
Simulates == Transaction!Next \/ UNCHANGED Transaction!vars

LEMMA Stutters ==
    ASSUME UNCHANGED <<Config, Before, Outcome>>
    PROVE  Simulates
BY DEF Simulates, Config, Before, Outcome, Transaction!vars

LEMMA Opens ==
    ASSUME Outcome # "open", Outcome' = "open", UNCHANGED <<Config, Before>>
    PROVE  Simulates
BY DEF Simulates, Config, Before, Outcome, Transaction!Next, Transaction!Open

LEMMA Changes ==
    ASSUME Outcome = "open", UNCHANGED <<Before, Outcome>>, files' \in Files
    PROVE  Simulates
BY DEF Simulates, Config, Before, Outcome, Configurations,
   Transaction!Next, Transaction!Change

LEMMA Commits ==
    ASSUME Outcome' = "committed", UNCHANGED <<Config, Before>>, Settled, files \in Files
    PROVE  Simulates
BY DEF Simulates, Config, Before, Outcome, Configurations,
   Transaction!Next, Transaction!Commit

LEMMA Ends ==
    ASSUME Outcome # "open", UNCHANGED <<Config, Outcome>>, Before' = Config
    PROVE  Simulates
BY DEF Simulates, Config, Before, Outcome, Transaction!Next, Transaction!End

LEMMA RollsBack ==
    ASSUME Outcome = "open", Outcome' = "rolled back", Config = Before,
           UNCHANGED <<Config, Before>>
    PROVE  Simulates
BY DEF Simulates, Config, Before, Outcome, Transaction!Next, Transaction!RollBack

(* While the configuration, the record and the backups stay, so does what  *)
(* they are to the transaction; before a taken backup only it counts.      *)
LEMMA SameTransaction ==
    ASSUME UNCHANGED <<host, files, live>>
    PROVE  /\ UNCHANGED Config
           /\ UNCHANGED <<saved, backups>> => UNCHANGED <<Before, Outcome>>
           /\ backups.taken /\ UNCHANGED backups => UNCHANGED Before
<1>1. Settled' <=> Settled
  BY SameConfiguration
<1> QED
  BY <1>1 DEF Config, Before, Outcome

LEMMA StateSimulated ==
    ASSUME IInv, UndoInv, NEW stage, NEW from, NEW to, NEW onFailure,
           Save(from, MigrationState(stage), to, onFailure),
           from \notin {"idle", "backup", "exit", "finished"}
    PROVE  Simulates
<1>1. MigrationState(stage).interrupted /\ MigrationState(stage).backups = backups
  BY DEF MigrationState
<1>2. /\ UNCHANGED <<host, files, live, backups>> /\ pc = from
      /\ saved' \in {saved, MigrationState(stage)}
  BY DEF Save, hostVars, txnVars
<1>3. CASE saved' = saved
  BY <1>2, <1>3, SameTransaction, Stutters
<1>4. CASE saved' = MigrationState(stage)
  <2>1. UNCHANGED Config
    BY <1>2, SameTransaction
  <2>2. UNCHANGED Before
    BY <1>1, <1>2, <1>4 DEF UndoInv, BackupsKnown, Before
  <2>3. Outcome' = "open"
    BY <1>1, <1>4 DEF Outcome
  <2> QED
    BY <2>1, <2>2, <2>3, Stutters, Opens
<1> QED
  BY <1>2, <1>3, <1>4

LEMMA SavesSimulated == ASSUME TypeOK, IInv, UndoInv, Saves PROVE Simulates
<1>1. ASSUME \/ SavePlanned \/ SaveBackups \/ SaveApplying \/ SaveFirewall \/ SaveJail
             \/ SaveActive \/ SaveAwaiting \/ SaveFinalizing
      PROVE  Simulates
  BY <1>1, StateSimulated
  DEF SavePlanned, SaveBackups, SaveApplying, SaveFirewall, SaveJail, SaveActive,
      SaveAwaiting, SaveFinalizing
<1>2. ASSUME \/ SaveJailFinal \/ SaveFirewallFinalizing \/ SaveFirewallFinal
             \/ SaveRollbackStarted \/ SaveRollbackFailed
      PROVE  Simulates
  BY <1>2, StateSimulated
  DEF SaveJailFinal, SaveFirewallFinalizing, SaveFirewallFinal, SaveRollbackStarted,
      SaveRollbackFailed
<1>3. CASE SaveDone
  <2>1. PICK record : /\ ~record.interrupted /\ record.mode = "managed"
                      /\ Save("verified", record, "finished", "raised")
    <3> DEFINE record == [MigrationState("done") EXCEPT
                            !.mode = "managed", !.interrupted = FALSE,
                            !.backups = NoBackups, !.ports = plan.final]
    <3>1. ~record.interrupted /\ record.mode = "managed"
      BY DEF MigrationState
    <3> QED
      BY <1>3, <3>1 DEF SaveDone
  <2>2. /\ UNCHANGED <<host, files, live, backups>> /\ pc = "verified"
        /\ saved' \in {saved, record}
    BY <2>1 DEF Save, hostVars, txnVars
  <2>3. backups.taken /\ Settled /\ files \in Files
    BY <2>2 DEF IInv, StepsSettle, UndoInv, BackupsKnown, TypeOK
  <2>4. saved' = record => Outcome' = "committed"
    BY <2>1 DEF Outcome
  <2> QED
    BY <2>2, <2>3, <2>4, SameTransaction, Stutters, Commits
<1>4. CASE SaveRolledBack \/ SaveRecovered
  <2>1. PICK record, from, to :
          /\ ~record.interrupted /\ record.mode \in {"migration", "skipped"}
          /\ from \in {"rolled_back", "recovered"} /\ Save(from, record, to, "exit")
    <3>1. CASE SaveRolledBack
      <4> DEFINE record == [MigrationState("rolled_back") EXCEPT
                              !.interrupted = FALSE, !.ports = plan.old]
      <4>1. ~record.interrupted /\ record.mode = "migration"
        BY DEF MigrationState
      <4> QED
        BY <3>1, <4>1 DEF SaveRolledBack
    <3>2. CASE SaveRecovered
      <4> DEFINE record == [NoRecord EXCEPT !.mode = "skipped", !.old = plan.old,
                                            !.fw = fwMeta, !.f2b = f2bMeta]
      <4>1. ~record.interrupted /\ record.mode = "skipped"
        BY DEF NoRecord
      <4> QED
        BY <3>2, <4>1 DEF SaveRecovered
    <3> QED
      BY <1>4, <3>1, <3>2
  <2>2. /\ UNCHANGED <<host, files, live, backups>> /\ pc \in {"rolled_back", "recovered"}
        /\ saved' \in {saved, record}
    BY <2>1 DEF Save, hostVars, txnVars
  <2>3. saved.interrupted /\ Settled /\ Undone
    BY <2>2 DEF IInv, RecordCovers, StepsSettle, UndoInv, MemoryTrue
  <2>4. Outcome = "open" /\ Config = Before
    BY <2>3 DEF Outcome, Config, Before, Undone
  <2>5. saved' = record => Outcome' = "rolled back"
    BY <2>1 DEF Outcome
  <2> QED
    BY <2>2, <2>3, <2>4, <2>5, SameTransaction, Stutters, RollsBack DEF Undone
<1> QED
  BY <1>1, <1>2, <1>3, <1>4 DEF Saves

(* Whatever a step within the open transaction does to the host.           *)
LEMMA StepSimulated ==
    ASSUME TypeOK', IInv, UndoInv, UNCHANGED <<saved, backups>>,
           pc \notin Outside \cup {"raised"}
    PROVE  Simulates
<1>1. saved.interrupted /\ backups.taken
  BY DEF IInv, RecordCovers, UndoInv, BackupsKnown, Outside
<1>2. Outcome = "open" /\ UNCHANGED <<Before, Outcome>>
  BY <1>1 DEF Outcome, Before
<1> QED
  BY <1>2, Changes DEF TypeOK

LEMMA ForwardSimulated ==
    ASSUME TypeOK', IInv, UndoInv,
           \/ BackupFiles \/ PrepareFirewall \/ WriteTransition \/ RefuseTransition
           \/ ApplyTransition \/ PrepareJail \/ ConfirmLogin \/ ConfirmSudo \/ Decline
           \/ WriteFinal \/ ApplyFinal \/ FinalizeJail \/ FinalizeFirewall
           \/ VerifyComponents
    PROVE  Simulates
<1> USE DEF Outside
<1>1. CASE BackupFiles
  <2>1. /\ UNCHANGED <<host, files, live, saved>> /\ pc = "backup"
        /\ \/ backups' = [taken |-> TRUE, files |-> files]
           \/ backups' = backups
    BY <1>1 DEF BackupFiles, Goto, hostVars, recordVars
  <2>2. ~backups.taken /\ saved.interrupted /\ ~saved.backups.taken
    BY <2>1 DEF IInv, RecordCovers, TargetsKnown, UndoInv, BackupsKnown
  <2>3. UNCHANGED <<Before, Outcome>>
    BY <2>1, <2>2 DEF Before, Outcome
  <2> QED
    BY <2>1, <2>3, SameTransaction, Stutters
<1>2. CASE \/ PrepareFirewall \/ RefuseTransition \/ ConfirmLogin \/ ConfirmSudo \/ Decline
           \/ FinalizeFirewall \/ VerifyComponents
  BY <1>2, StepSimulated
  DEF PrepareFirewall, RefuseTransition, ConfirmLogin, ConfirmSudo, Decline,
      FinalizeFirewall, VerifyComponents, Goto, recordVars, txnVars
<1>3. CASE PrepareJail \/ FinalizeJail
  BY <1>3, StepSimulated DEF PrepareJail, FinalizeJail, ApplyJail, Goto, recordVars, txnVars
<1>4. CASE WriteTransition \/ WriteFinal
  BY <1>4, StepSimulated DEF WriteTransition, WriteFinal, WriteConfig, Goto, recordVars, txnVars
<1>5. CASE ApplyTransition \/ ApplyFinal
  BY <1>5, StepSimulated DEF ApplyTransition, ApplyFinal, ApplyConfig, Goto, recordVars, txnVars
<1> QED
  BY <1>1, <1>2, <1>3, <1>4, <1>5

(* The end of a process: its last record reaches the file, or not.         *)
LEMMA ExitSimulated == ASSUME TypeOK, IInv, UndoInv, Exit PROVE Simulates
<1>1. /\ UNCHANGED <<host, files, live>> /\ ~backups'.taken
      /\ saved' \in {saved, memory, [memory EXCEPT !.stage = "none"]}
      /\ pc = "exit" => saved' \in {saved, memory}
      /\ pc \in {"exit", "finished"}
  BY NoBackupsGood DEF Exit, Forget, hostVars
<1>2. LET m == [memory EXCEPT !.stage = "none"]
      IN  m.interrupted = memory.interrupted /\ m.backups = memory.backups
          /\ m.mode = memory.mode
  BY DEF TypeOK, Record
<1>3. UNCHANGED Config
  BY <1>1, SameTransaction
<1>4. ~saved.interrupted => Settled
  BY DEF IInv, RecordCovers
<1>5. CASE pc = "finished"
  <2>1. saved = memory /\ ~saved.interrupted
    BY <1>5 DEF UndoInv, MemoryTrue
  <2>2. UNCHANGED Outcome /\ ~saved'.interrupted
    BY <1>1, <1>2, <2>1 DEF Outcome
  <2>3. Outcome # "open"
    BY <2>1 DEF Outcome
  <2>4. Before' = {files}
    BY <1>1, <2>2 DEF Before
  <2> QED
    BY <1>3, <1>4, <2>1, <2>2, <2>3, <2>4, Ends DEF Config
<1>6. CASE pc = "exit" /\ memory.interrupted /\ saved' = memory
  <2>1. memory.backups = backups
    BY <1>6 DEF UndoInv, MemoryTrue
  <2>2. UNCHANGED Before
    BY <1>1, <1>6, <2>1 DEF Before, UndoInv, BackupsKnown
  <2>3. Outcome' = "open"
    BY <1>6 DEF Outcome
  <2> QED
    BY <1>3, <2>2, <2>3, Stutters, Opens
<1>7. CASE pc = "exit" /\ ~memory.interrupted /\ saved' = memory
  <2>1. /\ memory.mode \in {"migration", "skipped"} /\ Undone
        /\ saved.interrupted \/ saved = memory
    BY <1>7 DEF UndoInv, MemoryTrue
  <2>2. Settled
    BY <1>7 DEF IInv, RecordCovers
  <2>3. Outcome' = "rolled back"
    BY <1>7, <2>1 DEF Outcome
  <2>4. Config = Before /\ UNCHANGED Before
    BY <1>1, <1>7, <2>1, <2>2 DEF Config, Before, Undone
  <2>5. Outcome \in {"open", "rolled back"}
    BY <2>1 DEF Outcome
  <2> QED
    BY <1>3, <2>3, <2>4, <2>5, Stutters, RollsBack
<1>8. CASE pc = "exit" /\ saved' = saved
  <2>1. UNCHANGED Outcome
    BY <1>8 DEF Outcome
  <2>2. CASE saved.interrupted
    <3>1. UNCHANGED Before
      BY <1>1, <1>8, <2>2 DEF Before, UndoInv, BackupsKnown
    <3> QED
      BY <1>3, <2>1, <3>1, Stutters
  <2>3. CASE ~saved.interrupted
    <3>1. Outcome # "open" /\ Before' = {files}
      BY <1>1, <1>8, <2>3 DEF Outcome, Before
    <3> QED
      BY <1>3, <1>4, <2>1, <2>3, <3>1, Ends DEF Config
  <2> QED
    BY <2>2, <2>3
<1> QED
  BY <1>1, <1>5, <1>6, <1>7, <1>8

LEMMA RollbackSimulated ==
    ASSUME TypeOK, TypeOK', IInv, UndoInv,
           \/ RestoreFirewall \/ RollbackSsh \/ RollbackJail \/ CleanupFirewall \/ Exit
    PROVE  Simulates
<1> USE DEF Outside
<1>1. CASE RestoreFirewall \/ RollbackSsh
  BY <1>1, StepSimulated DEF RestoreFirewall, RollbackSsh, Goto, recordVars, txnVars
<1>2. CASE RollbackJail \/ CleanupFirewall
  BY <1>2, StepSimulated DEF RollbackJail, CleanupFirewall, Goto, recordVars, txnVars
<1> QED
  BY <1>1, <1>2, ExitSimulated

(* A process that is killed leaves the transaction to the file.            *)
LEMMA KillSimulated == ASSUME TypeOK', IInv, UndoInv, Crash \/ Reboot PROVE Simulates
<1>1. UNCHANGED <<host, files, saved>> /\ ~backups'.taken
  BY NoBackupsGood DEF Crash, Reboot, Forget, hostVars
<1>2. UNCHANGED Outcome
  BY <1>1 DEF Outcome
<1>3. CASE saved.interrupted
  <2>1. pc = "idle" => ~backups.taken
    BY DEF IInv, TargetsKnown
  <2>2. UNCHANGED Before
    BY <1>1, <1>3, <2>1 DEF Before, UndoInv, BackupsKnown
  <2>3. Outcome = "open"
    BY <1>3 DEF Outcome
  <2> QED
    BY <1>2, <2>2, <2>3, Changes DEF TypeOK
<1>4. CASE ~saved.interrupted
  <2>1. Settled
    BY <1>4 DEF IInv, RecordCovers
  <2>2. UNCHANGED live
    BY <2>1 DEF Crash, Reboot, hostVars, Settled
  <2>3. UNCHANGED Config
    BY <1>1, <2>2, SameTransaction
  <2>4. Outcome # "open" /\ Before' = {files}
    BY <1>1, <1>4 DEF Outcome, Before
  <2> QED
    BY <1>2, <2>1, <2>3, <2>4, Ends DEF Config
<1> QED
  BY <1>3, <1>4

LEMMA StartSimulated ==
    ASSUME TypeOK, TypeOK', IInv, UndoInv,
           \/ KeepCurrent \/ StartMigration \/ StartRecovery \/ Crash \/ Reboot
    PROVE  Simulates
<1>1. CASE KeepCurrent
  <2>1. /\ UNCHANGED <<host, files, live, backups>> /\ pc = "idle" /\ ~saved.interrupted
    BY <1>1 DEF KeepCurrent, hostVars, txnVars
  <2>2. Settled /\ ~backups.taken /\ files \in Files
    BY <2>1 DEF IInv, RecordCovers, TargetsKnown, TypeOK
  <2>3. saved' # saved => ~saved'.interrupted /\ saved'.mode = "managed"
    BY <1>1 DEF KeepCurrent, NoRecord
  <2>4. UNCHANGED <<Config, Before>>
    BY <2>1, <2>2, <2>3, SameTransaction DEF Before
  <2>5. saved' # saved => Outcome' = "committed"
    BY <2>3 DEF Outcome
  <2> QED
    BY <2>1, <2>2, <2>4, <2>5, SameTransaction, Stutters, Commits
<1>2. CASE StartMigration
  BY <1>2, SameTransaction, Stutters DEF StartMigration, hostVars, recordVars
<1>3. CASE StartRecovery
  <2>1. /\ UNCHANGED <<host, files, live, saved>> /\ pc = "idle"
        /\ saved.interrupted /\ saved.backups.taken /\ backups' = saved.backups
    BY <1>3 DEF StartRecovery, Goto, hostVars
  <2>2. ~backups.taken
    BY <2>1 DEF IInv, TargetsKnown
  <2>3. UNCHANGED <<Before, Outcome>>
    BY <2>1, <2>2 DEF Before, Outcome
  <2> QED
    BY <2>1, <2>3, SameTransaction, Stutters
<1> QED
  BY <1>1, <1>2, <1>3, KillSimulated

LEMMA NextSimulates ==
    ASSUME TypeOK, TypeOK', IInv, UndoInv, [Next]_vars
    PROVE  Simulates
<1>1. CASE UNCHANGED vars
  BY <1>1, SameTransaction, Stutters DEF vars
<1> QED
  BY <1>1, SavesSimulated, ForwardSimulated, RollbackSimulated, StartSimulated
  DEF Next, Process

LEMMA InitSimulates == Init => Transaction!Init
<1> SUFFICES ASSUME Init PROVE Transaction!Init
  OBVIOUS
<1>1. Settled /\ files \in Files
  BY InitType, InitInductive DEF Init, IInv, RecordCovers, TypeOK, NoRecord
<1>2. ~saved.interrupted /\ saved.mode = "none" /\ ~backups.taken
  BY NoBackupsGood DEF Init, NoRecord
<1> QED
  BY <1>1, <1>2 DEF Transaction!Init, Configurations

(* The migration is a transaction on the configuration of sshd, for all    *)
(* ports, hosts, failures, kills and restarts: it is rolled back to what   *)
(* was there before, committed whole, or on record as open.                *)
THEOREM Implements == Spec => IsTransaction
<1>1. TypeOK /\ TypeOK' /\ IInv /\ UndoInv /\ [Next]_vars
        => [Transaction!Next]_(Transaction!vars)
  BY NextSimulates DEF Simulates
<1> QED
  BY <1>1, InitSimulates, TypeCorrect, Inductive, UndoInductive, PTL
  DEF Spec, IsTransaction, Transaction!Spec
=============================================================================
