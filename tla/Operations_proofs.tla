-------------------------- MODULE Operations_proofs --------------------------
(***************************************************************************)
(* Machine-checked facts about the component commands together with the    *)
(* SSH migration, for every set of ports and hosts and every bound.        *)
(***************************************************************************)
EXTENDS Operations, SSHMigration_proofs

-----------------------------------------------------------------------------
(* Types.                                                                  *)

USE DEF phaseVars, Ufw

LEMMA PhaseValues ==
    /\ Pending \in Phase /\ Skipped \in Phase /\ NoWork \in Work
    /\ \A ports \in SUBSET Port : Managed(ports) \in Phase
BY DEF Pending, Skipped, NoWork, Managed, Phase, Work

LEMMA FoundType ==
    ASSUME TypeOK, NEW ports \in SUBSET Port, Found(ports)
    PROVE  faults' \in 0..MaxFaults
BY FaultType DEF TypeOK, Found

LEMMA ListenersType ==
    ASSUME TypeOK
    PROVE  /\ Listeners \in SUBSET Port
           /\ EffectivePorts(files.dropin) \in SUBSET Port
BY PortAssumption DEF TypeOK, Listeners, EffectivePorts, HostType, Files, DropIn, Live

(* A component command leaves what Unchanged names as it was.              *)
LEMMA TaskType ==
    ASSUME TypeOK, Unchanged, UNCHANGED strays, faults' \in 0..MaxFaults,
           ufw' \in [active : BOOLEAN, rules : [Port -> RuleKind]],
           marker' \in SUBSET Port, jail' \in Jail
    PROVE  TypeOK'
BY DEF Unchanged, TypeOK, hostVars, recordVars, txnVars, metaVars

LEMMA ToType ==
    ASSUME NEW save \in Task, work \in Work,
           NEW result \in {"none", "managed", "skipped", "failed", "uncaught"},
           To(save, result)
    PROVE  task' \in Task /\ work' \in Work
BY DEF To, Work

LEMMA SynchronizedType ==
    ASSUME NEW ps \in Phases, NEW record \in Record
    PROVE  Synchronized(ps, record) \in Phases
<1>1. record.fw \in FwMeta /\ record.f2b \in F2bMeta
  BY DEF Record
<1>2. FirewallState(record) \subseteq SUBSET Port /\ JailState(record) \subseteq SUBSET Port
  BY <1>1 DEF FirewallState, JailState, FwMeta, F2bMeta
<1>3. UNION FirewallState(record) \in SUBSET Port /\ UNION JailState(record) \in SUBSET Port
  BY <1>2
<1>4. /\ Managed(UNION FirewallState(record)) \in Phase
      /\ Managed(UNION JailState(record)) \in Phase
  BY <1>3, PhaseValues
<1> QED
  BY <1>4 DEF Synchronized, Phases

LEMMA RecordedType ==
    ASSUME work \in Work, work.result \in {"managed", "skipped", "failed"},
           NEW phase \in Phase, NEW verified \in BOOLEAN
    PROVE  Recorded(phase, verified) \in Phase
<1>1. work.ports \in SUBSET Port
  BY DEF Work
<1> QED
  BY <1>1, PhaseValues DEF Recorded, Managed, Phase

LEMMA FirewallType ==
    ASSUME OpsTypeOK, FirewallSteps
    PROVE  OpsTypeOK'
<1>0. /\ TypeOK /\ work \in Work /\ faults \in 0..MaxFaults
      /\ ufw \in [active : BOOLEAN, rules : [Port -> RuleKind]]
      /\ marker \in SUBSET Port /\ jail \in Jail
  BY DEF OpsTypeOK, TypeOK
<1>1. CASE PlanFirewall
  <2>1. PICK ports \in SUBSET Port :
            /\ Found(ports)
            /\ work' = [NoWork EXCEPT !.ports = ports, !.todo = ports \ AllowedPorts,
                                      !.marked = marker # {}]
    BY <1>1 DEF PlanFirewall
  <2>2. work' \in Work
    <3>1. (marker # {}) \in BOOLEAN
      OBVIOUS
    <3> QED
      BY <2>1, <3>1 DEF NoWork, Work
  <2>3. TypeOK'
    BY <1>0, <1>1, <2>1, FoundType, TaskType DEF PlanFirewall, ufwVars
  <2> QED
    BY <1>1, <2>2, <2>3 DEF PlanFirewall, OpsTypeOK, Task
<1>2. CASE AllowPort
  <2>1. PICK p \in work.todo :
            /\ work' = [work EXCEPT !.todo = @ \ {p}, !.attempted = @ \cup {p}]
            /\ \/ SetRules({p}, "managed") /\ UNCHANGED <<task, faults>>
               \/ /\ Fault /\ task' = "fw_undo"
                  /\ SetRules({p}, "managed") \/ UNCHANGED ufw
    BY <1>2 DEF AllowPort
  <2>2. work' \in Work /\ task' \in Task
    BY <1>0, <2>1 DEF Work, Task, OpsTypeOK
  <2>3. faults' \in 0..MaxFaults
    BY <1>0, <2>1, FaultType
  <2>4. ufw' \in [active : BOOLEAN, rules : [Port -> RuleKind]]
    BY <1>0, <2>1, SetRulesType DEF RuleKind
  <2>5. TypeOK'
    BY <1>0, <1>2, <2>3, <2>4, TaskType DEF AllowPort
  <2> QED
    BY <1>2, <2>2, <2>5 DEF AllowPort, OpsTypeOK
<1>3. CASE EnableUfw
  <2>1. faults' \in 0..MaxFaults
    BY <1>0, <1>3, FaultType DEF EnableUfw
  <2>2. ufw' \in [active : BOOLEAN, rules : [Port -> RuleKind]] /\ task' \in Task
    BY <1>0, <1>3 DEF EnableUfw, Task
  <2>3. TypeOK'
    BY <1>0, <1>3, <2>1, <2>2, TaskType DEF EnableUfw
  <2> QED
    BY <1>3, <2>2, <2>3 DEF EnableUfw, OpsTypeOK
<1>4. CASE VerifyAndMark
  <2>1. faults' \in 0..MaxFaults
    BY <1>0, <1>4, FaultType DEF VerifyAndMark
  <2>2. marker' \in SUBSET Port
    BY <1>0, <1>4 DEF VerifyAndMark, Work
  <2>3. TypeOK'
    BY <1>0, <1>4, <2>1, <2>2, TaskType DEF VerifyAndMark
  <2>4. task' \in Task /\ work' \in Work
    BY <1>0, <1>4, ToType DEF VerifyAndMark, Task
  <2> QED
    BY <1>4, <2>3, <2>4 DEF VerifyAndMark, OpsTypeOK
<1>5. CASE UndoFirewall
  <2> DEFINE added == {p \in work.attempted : ufw.rules[p] = "managed"}
  <2>1. PICK kept \in SUBSET added :
            /\ SetRules(added \ kept, "none")
            /\ IF kept = {} THEN UNCHANGED faults ELSE Fault
            /\ IF kept = {} /\ work.result = "uncaught"
               THEN To("exit", "uncaught")
               ELSE To("save_firewall", "failed")
    BY <1>5 DEF UndoFirewall
  <2>2. faults' \in 0..MaxFaults
    BY <1>0, <2>1, FaultType
  <2>3. task' \in Task /\ work' \in Work
    BY <1>0, <2>1, ToType DEF Task
  <2>4. ufw' \in [active : BOOLEAN, rules : [Port -> RuleKind]]
    BY <1>0, <2>1, SetRulesType DEF RuleKind
  <2>5. marker' \in SUBSET Port
    BY <1>0, <1>5 DEF UndoFirewall
  <2>6. TypeOK'
    BY <1>0, <1>5, <2>2, <2>4, <2>5, TaskType DEF UndoFirewall
  <2> QED
    BY <1>5, <2>3, <2>6 DEF UndoFirewall, OpsTypeOK
<1>6. CASE PlanUnseen
  <2>1. PICK ports \in {Listeners, EffectivePorts(files.dropin)} :
          work' = [NoWork EXCEPT !.ports = ports, !.todo = ports, !.unseen = TRUE,
                                 !.marked = marker # {}]
    BY <1>6 DEF PlanUnseen
  <2>2. ports \in SUBSET Port
    BY <1>0, ListenersType DEF TypeOK
  <2>3. work' \in Work
    <3>1. (marker # {}) \in BOOLEAN
      OBVIOUS
    <3> QED
      BY <2>1, <2>2, <3>1 DEF NoWork, Work
  <2>4. faults' \in 0..MaxFaults
    BY <1>0, <1>6, FaultType DEF PlanUnseen
  <2>5. TypeOK'
    BY <1>0, <1>6, <2>4, TaskType DEF PlanUnseen, ufwVars
  <2> QED
    BY <1>6, <2>3, <2>5 DEF PlanUnseen, OpsTypeOK, Task
<1> QED
  BY <1>1, <1>2, <1>3, <1>4, <1>5, <1>6 DEF FirewallSteps

LEMMA Fail2banType ==
    ASSUME OpsTypeOK, Fail2banSteps
    PROVE  OpsTypeOK'
<1>0. /\ TypeOK /\ work \in Work /\ work.ports \in SUBSET Port
      /\ faults \in 0..MaxFaults /\ jail \in Jail
      /\ ufw \in [active : BOOLEAN, rules : [Port -> RuleKind]]
      /\ marker \in SUBSET Port
  BY DEF OpsTypeOK, TypeOK, Work
<1>1. CASE DisableJail
  <2>1. jail' \in Jail /\ faults' \in 0..MaxFaults
    BY <1>0, <1>1, FaultType DEF DisableJail, NoJail, JailOf, Jail
  <2>2. task' \in Task /\ work' \in Work
    BY <1>0, <1>1, ToType DEF DisableJail, Task
  <2>3. TypeOK'
    BY <1>0, <1>1, <2>1, TaskType DEF DisableJail, ufwVars
  <2> QED
    BY <1>1, <2>2, <2>3 DEF DisableJail, OpsTypeOK
<1>2. CASE PlanSettings
  <2>1. PICK ports \in SUBSET Port :
            Found(ports) /\ work' = [NoWork EXCEPT !.ports = ports]
    BY <1>2 DEF PlanSettings
  <2>2. TypeOK'
    BY <1>0, <1>2, <2>1, FoundType, TaskType DEF PlanSettings, ufwVars
  <2> QED
    BY <1>2, <2>1, <2>2 DEF PlanSettings, OpsTypeOK, Task, NoWork, Work
<1>3. CASE ApplySettings
  <2>1. jail' \in Jail /\ faults' \in 0..MaxFaults
    BY <1>0, <1>3, FaultType DEF ApplySettings, FailedJails, JailOf, Jail
  <2>2. task' \in Task /\ work' \in Work
    BY <1>0, <1>3, ToType DEF ApplySettings, Task
  <2>3. TypeOK'
    BY <1>0, <1>3, <2>1, TaskType DEF ApplySettings, ufwVars
  <2> QED
    BY <1>3, <2>2, <2>3 DEF ApplySettings, OpsTypeOK
<1>4. CASE VerifySettings
  <2>1. faults' \in 0..MaxFaults
    BY <1>0, <1>4, FaultType DEF VerifySettings
  <2>2. task' \in Task /\ work' \in Work
    BY <1>0, <1>4, ToType DEF VerifySettings, Task
  <2>3. TypeOK'
    BY <1>0, <1>4, <2>1, TaskType DEF VerifySettings, ufwVars
  <2> QED
    BY <1>4, <2>2, <2>3 DEF VerifySettings, OpsTypeOK
<1> QED
  BY <1>1, <1>2, <1>3, <1>4 DEF Fail2banSteps

LEMMA SaveTaskType ==
    ASSUME OpsTypeOK, SaveTask, work.result \in {"managed", "skipped", "failed"}
    PROVE  OpsTypeOK'
<1>0. /\ TypeOK /\ work \in Work /\ loaded \in Phases /\ phases \in Phases
      /\ faults \in 0..MaxFaults
  BY DEF OpsTypeOK, TypeOK
<1>1. loaded' \in Phases
  <2>1. VerifyFirewall(work.ports) \in BOOLEAN /\ VerifyJail(work.ports) \in BOOLEAN
    BY <1>0 DEF VerifyFirewall, VerifyJail, TypeOK
  <2>2. /\ Recorded(loaded.firewall, VerifyFirewall(work.ports)) \in Phase
        /\ Recorded(loaded.fail2ban, VerifyJail(work.ports)) \in Phase
    BY <1>0, <2>1, RecordedType DEF Phases
  <2> QED
    BY <1>0, <2>2 DEF SaveTask, Phases
<1>2. faults' \in 0..MaxFaults /\ phases' \in Phases
  BY <1>0, <1>1, FaultType DEF SaveTask
<1>3. TypeOK'
  BY <1>0, <1>2, TaskType DEF SaveTask, TypeOK, ufwVars
<1> QED
  BY <1>0, <1>1, <1>2, <1>3 DEF SaveTask, OpsTypeOK, Task

LEMMA OpsInitType == OpsInit => OpsTypeOK
<1> SUFFICES ASSUME OpsInit PROVE OpsTypeOK
  OBVIOUS
<1>1. TypeOK
  BY InitType DEF OpsInit
<1>2. Managed(marker) \in Phase /\ Managed(jail.file) \in Phase
  BY <1>1, PhaseValues DEF TypeOK, Jail
<1>3. phases \in Phases
  BY <1>2, PhaseValues DEF OpsInit, Phases
<1>4. loaded \in Phases /\ behind \in BOOLEAN
  BY <1>3 DEF OpsInit
<1>5. task \in Task /\ work \in Work /\ tasks \in 0..MaxTasks
  BY PhaseValues, TaskAssumption DEF OpsInit, Task
<1> QED
  BY <1>1, <1>3, <1>4, <1>5 DEF OpsTypeOK

(* A step of the migration is one of the actions of SSHMigration.          *)
LEMMA MigrationIsNext == MigrationSteps => Next
BY DEF MigrationSteps, Next

LEMMA OpsNextType == OpsTypeOK /\ ResultKnown /\ [OpsNext]_<<vars, taskVars>> => OpsTypeOK'
<1> SUFFICES ASSUME OpsTypeOK, ResultKnown, [OpsNext]_<<vars, taskVars>> PROVE OpsTypeOK'
  OBVIOUS
<1>0. /\ TypeOK /\ work \in Work /\ loaded \in Phases /\ phases \in Phases
      /\ faults \in 0..MaxFaults /\ task \in Task /\ tasks \in 0..MaxTasks
  BY DEF OpsTypeOK, TypeOK
<1>1. CASE MigrationSteps
  <2>1. TypeOK'
    BY <1>0, <1>1, MigrationIsNext, NextType
  <2>2. saved' \in Record /\ memory' \in Record
    BY <2>1 DEF TypeOK
  <2>3. /\ Synchronized(loaded, saved') \in Phases
        /\ Synchronized(loaded, memory') \in Phases
    BY <1>0, <2>2, SynchronizedType
  <2>4. phases' \in Phases /\ loaded' \in Phases
    BY <1>0, <1>1, <2>3 DEF MigrationSteps
  <2> QED
    BY <1>0, <1>1, <2>1, <2>4 DEF MigrationSteps, OpsTypeOK
<1>2. CASE StartTask
  <2>1. tasks' \in 0..MaxTasks
    BY <1>0, <1>2, TaskAssumption DEF StartTask
  <2>2. TypeOK'
    BY <1>0, <1>2 DEF StartTask, vars, TypeOK
  <2> QED
    BY <1>0, <1>2, <2>1, <2>2 DEF StartTask, OpsTypeOK, Task
<1>3. CASE DeclineTask
  <2>1. TypeOK'
    BY <1>0, <1>3 DEF DeclineTask, vars, TypeOK
  <2>2. task' \in Task /\ work' \in Work
    BY <1>0, <1>3, ToType DEF DeclineTask, Task
  <2> QED
    BY <1>0, <1>3, <2>1, <2>2 DEF DeclineTask, OpsTypeOK
<1>4. CASE RefuseTask
  <2>1. faults' \in 0..MaxFaults
    BY <1>0, <1>4, FaultType DEF RefuseTask
  <2>2. TypeOK'
    BY <1>0, <1>4, <2>1, TaskType DEF RefuseTask, ufwVars, TypeOK
  <2>3. task' \in Task /\ work' \in Work
    BY <1>0, <1>4, ToType DEF RefuseTask, Task
  <2> QED
    BY <1>0, <1>4, <2>2, <2>3 DEF RefuseTask, OpsTypeOK
<1>5. CASE FirewallSteps
  BY <1>5, FirewallType
<1>6. CASE Fail2banSteps
  BY <1>6, Fail2banType
<1>7. CASE SaveTask
  <2>1. task \in {"save_firewall", "save_fail2ban"}
    BY <1>7 DEF SaveTask
  <2> QED
    BY <1>7, <2>1, SaveTaskType DEF ResultKnown
<1>8. CASE EndTask
  <2>1. TypeOK'
    BY <1>0, <1>8 DEF EndTask, vars, TypeOK
  <2> QED
    BY <1>0, <1>8, <2>1, PhaseValues DEF EndTask, NoTask, OpsTypeOK, Task
<1>9. CASE CrashTask
  <2>1. faults' \in 0..MaxFaults
    BY <1>0, <1>9, FaultType DEF CrashTask
  <2>2. TypeOK'
    BY <1>0, <1>9, <2>1, TaskType DEF CrashTask, ufwVars, TypeOK
  <2> QED
    BY <1>0, <1>9, <2>2, PhaseValues DEF CrashTask, NoTask, OpsTypeOK, Task
<1>10. CASE RebootAll
  <2>1. TypeOK'
    BY <1>0, <1>10, NextType DEF RebootAll, Next
  <2> QED
    BY <1>0, <1>10, <2>1, PhaseValues DEF RebootAll, NoTask, OpsTypeOK, Task
<1>11. CASE UNCHANGED <<vars, taskVars>>
  BY <1>0, <1>11 DEF vars, taskVars, TypeOK, OpsTypeOK
<1> QED
  BY <1>1, <1>2, <1>3, <1>4, <1>5, <1>6, <1>7, <1>8, <1>9, <1>10, <1>11 DEF OpsNext

-----------------------------------------------------------------------------
(* The invariant of the migration survives the component commands, which   *)
(* touch nothing it speaks of.                                             *)

LEMMA UntouchedInductive ==
    ASSUME IInv, UNCHANGED <<host, files, live, saved, memory, plan, backups, pc>>
    PROVE  IInv'
BY SameConfiguration
   DEF IInv, RecordCovers, StepsSettle, BackupsCoherent, TargetsKnown

LEMMA OpsNextInductive == OpsTypeOK /\ IInv /\ [OpsNext]_<<vars, taskVars>> => IInv'
<1> SUFFICES ASSUME OpsTypeOK, IInv, [OpsNext]_<<vars, taskVars>> PROVE IInv'
  OBVIOUS
<1>1. CASE MigrationSteps
  BY <1>1, MigrationIsNext, NextInductive DEF OpsTypeOK
<1>2. CASE RebootAll
  BY <1>2, NextInductive DEF OpsTypeOK, RebootAll, Next
<1>3. ASSUME Unchanged PROVE IInv'
  BY <1>3, UntouchedInductive DEF Unchanged, hostVars, recordVars, txnVars
<1>4. ASSUME UNCHANGED vars PROVE IInv'
  BY <1>4, UntouchedInductive DEF vars
<1>5. CASE FirewallSteps
  BY <1>3, <1>5 DEF FirewallSteps, PlanFirewall, PlanUnseen, AllowPort, EnableUfw,
                    VerifyAndMark, UndoFirewall
<1>6. CASE Fail2banSteps
  BY <1>3, <1>6 DEF Fail2banSteps, DisableJail, PlanSettings, ApplySettings, VerifySettings
<1>7. CASE RefuseTask \/ SaveTask \/ CrashTask
  BY <1>3, <1>7 DEF RefuseTask, SaveTask, CrashTask
<1>8. CASE StartTask \/ DeclineTask \/ EndTask
  BY <1>4, <1>8 DEF StartTask, DeclineTask, EndTask
<1>9. CASE UNCHANGED <<vars, taskVars>>
  BY <1>4, <1>9
<1> QED
  BY <1>1, <1>2, <1>5, <1>6, <1>7, <1>8, <1>9 DEF OpsNext

-----------------------------------------------------------------------------
(* Each port is allowed before UFW is enabled.                             *)

LEMMA OpsInitInv == OpsInit => AllowInv
BY DEF OpsInit, AllowInv, OneProcess, ResultKnown, AllowedBeforeEnable, TodoNotForeign

(* What a command finds without an interrupted migration are the listeners. *)
LEMMA FoundAreLive ==
    ASSUME IInv, ~saved.interrupted, NEW ports, Found(ports)
    PROVE  ports = live.ports
<1>1. EffectivePorts(files.dropin) = live.ports
  BY DEF IInv, RecordCovers, Settled
<1> QED
  BY <1>1 DEF Found, Listeners

LEMMA OpsNextInv ==
    OpsTypeOK /\ IInv /\ AllowInv /\ [OpsNext]_<<vars, taskVars>> => AllowInv'
<1> SUFFICES ASSUME OpsTypeOK, IInv, AllowInv, [OpsNext]_<<vars, taskVars>> PROVE AllowInv'
  OBVIOUS
<1>0. /\ TypeOK /\ work \in Work
      /\ ufw \in [active : BOOLEAN, rules : [Port -> RuleKind]]
      /\ live.ports \subseteq Port
  BY DEF OpsTypeOK, TypeOK, Live
<1> USE DEF AllowInv, OneProcess, ResultKnown, AllowedBeforeEnable, TodoNotForeign
<1>1. CASE MigrationSteps
  BY <1>1 DEF MigrationSteps
<1>2. CASE StartTask
  BY <1>2 DEF StartTask, vars
<1>3. CASE DeclineTask
  BY <1>0, <1>3 DEF DeclineTask, To, vars, Work
<1>4. CASE RefuseTask
  BY <1>0, <1>4 DEF RefuseTask, To, Unchanged, Work
<1>5. CASE PlanFirewall
  <2>1. PICK ports \in SUBSET Port :
            /\ Found(ports)
            /\ work' = [NoWork EXCEPT !.ports = ports, !.todo = ports \ AllowedPorts,
                                      !.marked = marker # {}]
    BY <1>5 DEF PlanFirewall
  <2>2. UNCHANGED <<ufw, live, saved, pc>> /\ task = "fw_ask" /\ task' = "fw_allow"
    BY <1>5 DEF PlanFirewall, Unchanged, hostVars, ufwVars, recordVars
  <2>3. work'.todo = ports \ AllowedPorts
    BY <2>1 DEF NoWork
  <2>4. ASSUME ~ufw.active, ~saved.interrupted PROVE live.ports \subseteq work'.todo
    <3>1. AllowedPorts = {}
      BY <2>4 DEF AllowedPorts
    <3> QED
      BY <2>1, <2>3, <2>4, <3>1, FoundAreLive
  <2>5. ASSUME NEW p \in work'.todo PROVE ufw.rules[p] # "unmanaged"
    <3>1. p \in Port /\ p \notin AllowedPorts
      BY <2>3
    <3> QED
      BY <1>5, <3>1 DEF PlanFirewall, InactiveRules, AllowedPorts
  <2>6. work'.todo \subseteq Port /\ ~work'.unseen
    BY <2>1 DEF NoWork
  <2> QED
    BY <2>2, <2>4, <2>5, <2>6
<1>6. CASE AllowPort
  <2>1. PICK p \in work.todo :
            /\ work' = [work EXCEPT !.todo = @ \ {p}, !.attempted = @ \cup {p}]
            /\ \/ SetRules({p}, "managed") /\ UNCHANGED <<task, faults>>
               \/ /\ Fault /\ task' = "fw_undo"
                  /\ SetRules({p}, "managed") \/ UNCHANGED ufw
    BY <1>6 DEF AllowPort
  <2>2. UNCHANGED <<live, saved, pc>> /\ task = "fw_allow"
    BY <1>6 DEF AllowPort, Unchanged, hostVars, recordVars
  <2>3. ASSUME task' = "fw_allow"
        PROVE  /\ ufw'.active = ufw.active
               /\ \A q \in Port : ufw'.rules[q] = IF q = p THEN "managed" ELSE ufw.rules[q]
    BY <1>0, <2>1, <2>3 DEF SetRules
  <2>4. work'.todo = work.todo \ {p} /\ work'.unseen = work.unseen
    BY <1>0, <2>1 DEF Work
  <2>5. task' \in {"fw_allow", "fw_undo"}
    BY <2>1, <2>2
  <2>6. work.todo \subseteq Port
    BY <1>0 DEF Work
  <2>7. AllowedBeforeEnable'
    BY <1>0, <2>2, <2>3, <2>4
  <2>8. TodoNotForeign'
    BY <2>2, <2>3, <2>4, <2>6
  <2> QED
    BY <2>2, <2>5, <2>7, <2>8
<1>7. CASE EnableUfw
  BY <1>7 DEF EnableUfw, Unchanged
<1>8. CASE VerifyAndMark
  BY <1>0, <1>8 DEF VerifyAndMark, To, Unchanged, Work
<1>9. CASE UndoFirewall
  <2>1. \/ To("exit", "uncaught")
        \/ To("save_firewall", "failed")
    BY <1>9 DEF UndoFirewall
  <2> QED
    BY <1>0, <1>9, <2>1 DEF UndoFirewall, To, Unchanged, Work
<1>10. CASE Fail2banSteps
  BY <1>0, <1>10 DEF Fail2banSteps, DisableJail, PlanSettings, ApplySettings,
                     VerifySettings, To, Unchanged, Work
<1>11. CASE SaveTask
  BY <1>11 DEF SaveTask, Unchanged
<1>12. CASE EndTask \/ CrashTask \/ RebootAll
  BY <1>12 DEF EndTask, CrashTask, RebootAll, NoTask
<1>13. CASE UNCHANGED <<vars, taskVars>>
  BY <1>13 DEF vars, taskVars
<1>14. CASE PlanUnseen
  <2>1. PICK ports \in {Listeners, EffectivePorts(files.dropin)} :
          work' = [NoWork EXCEPT !.ports = ports, !.todo = ports, !.unseen = TRUE,
                                 !.marked = marker # {}]
    BY <1>14 DEF PlanUnseen
  <2>2. /\ UNCHANGED <<ufw, live, saved, pc>> /\ task = "fw_ask" /\ task' = "fw_allow"
        /\ ~ufw.active
    BY <1>14 DEF PlanUnseen, InactiveRules, Unchanged, hostVars, ufwVars, recordVars
  <2>3. work'.todo = ports /\ work'.unseen
    BY <2>1 DEF NoWork
  <2>4. ~saved.interrupted => live.ports \subseteq work'.todo
    BY <2>3 DEF IInv, RecordCovers, Settled, Listeners
  <2> QED
    BY <2>2, <2>3, <2>4
<1> QED
  BY <1>1, <1>2, <1>3, <1>4, <1>5, <1>6, <1>7, <1>8, <1>9, <1>10, <1>11, <1>12, <1>13, <1>14
     DEF OpsNext, FirewallSteps

(* With component commands run at any time the process of a migration is   *)
(* not running, files and daemon still agree wherever no record asks for   *)
(* recovery, and a port is allowed before UFW is enabled in front of it.   *)
THEOREM AllowInductive == OpsSpec => [](OpsTypeOK /\ IInv /\ AllowInv)
<1>1. OpsInit => OpsTypeOK /\ IInv /\ AllowInv
  BY OpsInitType, InitInductive, OpsInitInv DEF OpsInit
<1>2. /\ OpsTypeOK /\ IInv /\ AllowInv /\ [OpsNext]_<<vars, taskVars>>
      => (OpsTypeOK /\ IInv /\ AllowInv)'
  BY OpsNextType, OpsNextInductive, OpsNextInv DEF AllowInv
<1> QED
  BY <1>1, <1>2, PTL DEF OpsSpec

(* Every variable of the migration and of the commands keeps its type.     *)
THEOREM OpsTypeCorrect == OpsSpec => []OpsTypeOK
BY AllowInductive, PTL

(* Component commands do not disturb it: no process and no interrupted     *)
(* record, and the drop-in, the socket override and the daemon agree.      *)
THEOREM OpsSettles == OpsSpec => []SettledUnlessInterrupted
<1>1. IInv => SettledUnlessInterrupted
  BY DEF IInv, RecordCovers, SettledUnlessInterrupted
<1> QED
  BY <1>1, AllowInductive, PTL

(* The files that an interrupted record would restore still reopen exactly *)
(* the ports it names as old, also after commands have run in between.     *)
THEOREM OpsRollbackTarget ==
    ASSUME ~BlindDiscovery
    PROVE  OpsSpec => []RollbackTargetIsOld
<1>1. IInv => RollbackTargetIsOld
  BY DEF IInv, TargetsKnown, LeadsToOld, RollbackTargetIsOld
<1> QED
  BY <1>1, AllowInductive, PTL

-----------------------------------------------------------------------------
(* With commands in between, the migrations are still transactions.        *)

LEMMA UntouchedTransaction ==
    ASSUME UndoInv, UNCHANGED <<host, files, live, saved, memory, backups, pc>>
    PROVE  UndoInv' /\ Simulates
<1>1. UndoInv'
  BY DEF UndoInv, BackupsKnown, MemoryTrue, Undone
<1>2. UNCHANGED <<Config, Before, Outcome>>
  BY SameTransaction DEF Before, Outcome
<1> QED
  BY <1>1, <1>2, Stutters

LEMMA OpsNextSimulates ==
    ASSUME OpsTypeOK, OpsTypeOK', IInv, UndoInv, [OpsNext]_<<vars, taskVars>>
    PROVE  UndoInv' /\ Simulates
<1>0. TypeOK /\ TypeOK'
  BY DEF OpsTypeOK
<1>1. CASE MigrationSteps
  BY <1>0, <1>1, MigrationIsNext, NextUndo, NextSimulates
<1>2. CASE RebootAll
  BY <1>0, <1>2, NextUndo, NextSimulates DEF RebootAll, Next
<1>3. CASE Unchanged
  BY <1>3, UntouchedTransaction DEF Unchanged, hostVars, recordVars, txnVars
<1>4. CASE UNCHANGED vars
  BY <1>4, UntouchedTransaction DEF vars
<1>5. CASE FirewallSteps \/ Fail2banSteps
  BY <1>3, <1>5 DEF FirewallSteps, PlanFirewall, PlanUnseen, AllowPort, EnableUfw,
     VerifyAndMark, UndoFirewall, Fail2banSteps, DisableJail, PlanSettings, ApplySettings,
     VerifySettings
<1>6. CASE RefuseTask \/ SaveTask \/ CrashTask
  BY <1>3, <1>6 DEF RefuseTask, SaveTask, CrashTask
<1>7. CASE StartTask \/ DeclineTask \/ EndTask \/ UNCHANGED <<vars, taskVars>>
  BY <1>4, <1>7 DEF StartTask, DeclineTask, EndTask
<1> QED
  BY <1>1, <1>2, <1>5, <1>6, <1>7 DEF OpsNext

(* `vps-bootstrap firewall` and `fail2ban`, run at rest or in front of an  *)
(* interrupted migration, failing or killed, leave the migration what it   *)
(* promises to be: a transaction on the configuration of sshd.             *)
THEOREM OpsImplements == OpsSpec => IsTransaction
<1>1. OpsInit => UndoInv /\ Transaction!Init
  BY InitUndo, InitSimulates DEF OpsInit
<1>2. /\ OpsTypeOK /\ OpsTypeOK' /\ IInv /\ UndoInv /\ [OpsNext]_<<vars, taskVars>>
      => UndoInv' /\ [Transaction!Next]_(Transaction!vars)
  BY OpsNextSimulates DEF Simulates
<1> QED
  BY <1>1, <1>2, AllowInductive, PTL DEF OpsSpec, IsTransaction, Transaction!Spec

-----------------------------------------------------------------------------
(* Nothing but `vps-bootstrap firewall` turns UFW on or off.               *)

LEMMA SetRulesActive ==
    ASSUME NEW ports, NEW kind, SetRules(ports, kind),
           ufw \in [active : BOOLEAN, rules : [Port -> RuleKind]]
    PROVE  ufw'.active = ufw.active
BY DEF SetRules

LEMMA MigrationKeepsActive ==
    ASSUME TypeOK, Next PROVE ufw'.active = ufw.active
<1>0. ufw \in [active : BOOLEAN, rules : [Port -> RuleKind]]
  BY DEF TypeOK
<1>1. CASE Saves
  BY <1>1 DEF Saves, SavePlanned, SaveBackups, SaveApplying, SaveFirewall, SaveJail,
     SaveActive, SaveAwaiting, SaveFinalizing, SaveJailFinal, SaveFirewallFinalizing,
     SaveFirewallFinal, SaveDone, SaveRollbackStarted, SaveRolledBack,
     SaveRollbackFailed, SaveRecovered, Save, ufwVars
<1>2. CASE PrepareFirewall
  BY <1>0, <1>2, SetRulesActive DEF PrepareFirewall
<1>3. CASE FinalizeFirewall
  BY <1>0, <1>3, SetRulesActive DEF FinalizeFirewall, DeleteRules, ufwVars
<1>4. CASE RestoreFirewall
  BY <1>0, <1>4, SetRulesActive DEF RestoreFirewall
<1>5. CASE CleanupFirewall
  BY <1>0, <1>5, SetRulesActive DEF CleanupFirewall, DeleteRules, ufwVars
<1>6. CASE BackupFiles \/ WriteTransition \/ RefuseTransition \/ ApplyTransition
           \/ PrepareJail \/ ConfirmLogin \/ ConfirmSudo \/ Decline
  BY <1>6 DEF BackupFiles, WriteTransition, RefuseTransition, ApplyTransition, PrepareJail,
     ConfirmLogin, ConfirmSudo, Decline, WriteConfig, ApplyConfig, ufwVars
<1>7. CASE WriteFinal \/ ApplyFinal \/ FinalizeJail \/ VerifyComponents \/ RollbackSsh
           \/ RollbackJail \/ Exit
  BY <1>7 DEF WriteFinal, ApplyFinal, FinalizeJail, VerifyComponents, RollbackSsh,
     RollbackJail, Exit, WriteConfig, ApplyConfig, ufwVars
<1>8. CASE KeepCurrent \/ StartMigration \/ StartRecovery \/ Crash \/ Reboot
  BY <1>8 DEF KeepCurrent, StartMigration, StartRecovery, Crash, Reboot, ufwVars
<1> QED
  BY <1>1, <1>2, <1>3, <1>4, <1>5, <1>6, <1>7, <1>8 DEF Next, Process

(* A step that turns UFW on finds a rule for each port SSH listens on.     *)
LEMMA EnablingStep ==
    ASSUME OpsTypeOK, AllowInv, OpsNext, ~ufw.active, ufw'.active, ~saved.interrupted,
           NEW p \in live.ports
    PROVE  ufw'.rules[p] # "none"
<1>0. ufw \in [active : BOOLEAN, rules : [Port -> RuleKind]] /\ TypeOK
  BY DEF OpsTypeOK, TypeOK
<1>1. ~Next
  BY <1>0, MigrationKeepsActive
<1>2. ~MigrationSteps /\ ~RebootAll
  BY <1>1, MigrationIsNext DEF RebootAll, Next
<1>3. ufw' # ufw
  OBVIOUS
<1>4. ~AllowPort /\ ~UndoFirewall
  BY <1>0, SetRulesActive DEF AllowPort, UndoFirewall
<1>5. ~PlanFirewall /\ ~PlanUnseen /\ ~VerifyAndMark /\ ~Fail2banSteps /\ ~SaveTask
  BY <1>3 DEF PlanFirewall, PlanUnseen, VerifyAndMark, Fail2banSteps, DisableJail, PlanSettings,
     ApplySettings, VerifySettings, SaveTask, ufwVars
<1>6. ~StartTask /\ ~DeclineTask /\ ~RefuseTask /\ ~EndTask /\ ~CrashTask
  BY <1>3 DEF StartTask, DeclineTask, RefuseTask, EndTask, CrashTask, ufwVars, vars
<1>7. EnableUfw
  BY <1>2, <1>4, <1>5, <1>6 DEF OpsNext, FirewallSteps
<1>8. ufw'.rules = ufw.rules
  BY <1>0, <1>7 DEF EnableUfw
<1> QED
  BY <1>7, <1>8 DEF AllowInv, AllowedBeforeEnable, EnableUfw

(* UFW is never turned on in front of a port SSH listens on without a rule *)
(* for it, however commands, migrations, failures and crashes follow each  *)
(* other, as long as no migration is interrupted.                          *)
THEOREM AllowsBeforeEnabling == OpsSpec => EnabledWithRules
<1>1. OpsTypeOK /\ AllowInv /\ [OpsNext]_<<vars, taskVars>>
      => [~ufw.active /\ ufw'.active /\ ~saved.interrupted
            => \A p \in live.ports : ufw'.rules[p] # "none"]_<<vars, taskVars>>
  BY EnablingStep
<1> QED
  BY <1>1, AllowInductive, PTL DEF OpsSpec, EnabledWithRules

-----------------------------------------------------------------------------
(* Rules that are not vps-bootstrap's stay.                                *)

Foreign(p) == ufw.rules[p] = "unmanaged"

LEMMA SetRulesForeign ==
    ASSUME NEW ports, NEW kind, SetRules(ports, kind),
           ufw \in [active : BOOLEAN, rules : [Port -> RuleKind]],
           NEW p \in Port, p \notin ports
    PROVE  ufw'.rules[p] = ufw.rules[p]
BY DEF SetRules

LEMMA MigrationKeepsForeign ==
    ASSUME TypeOK, Next, NEW p \in Port, Foreign(p)
    PROVE  Foreign(p)'
<1>0. ufw \in [active : BOOLEAN, rules : [Port -> RuleKind]] /\ p \notin ManagedPorts
  BY DEF TypeOK, Foreign, ManagedPorts
<1> USE DEF Foreign
<1>1. CASE Saves
  BY <1>1 DEF Saves, SavePlanned, SaveBackups, SaveApplying, SaveFirewall, SaveJail,
     SaveActive, SaveAwaiting, SaveFinalizing, SaveJailFinal, SaveFirewallFinalizing,
     SaveFirewallFinal, SaveDone, SaveRollbackStarted, SaveRolledBack,
     SaveRollbackFailed, SaveRecovered, Save, ufwVars
<1>2. CASE PrepareFirewall
  <2> DEFINE missing == plan.target \ AllowedPorts
  <2>1. \/ UNCHANGED ufw
        \/ ManagedFirewallExists /\ \E some \in SUBSET missing : SetRules(some, "managed")
    BY <1>2 DEF PrepareFirewall
  <2>2. ManagedFirewallExists => p \notin missing
    BY DEF ManagedFirewallExists, VerifyFirewall, AllowedPorts
  <2> QED
    BY <1>0, <2>1, <2>2, SetRulesForeign
<1>9. ASSUME NEW ports, NEW kept, DeleteRules(ports, kept) PROVE Foreign(p)'
  <2>1. p \notin (ports \cap ManagedPorts) \ kept
    BY <1>0
  <2> QED
    BY <1>0, <1>9, <2>1, SetRulesForeign DEF DeleteRules
<1>3. CASE FinalizeFirewall
  BY <1>3, <1>9 DEF FinalizeFirewall, ufwVars
<1>4. CASE RestoreFirewall
  <2> DEFINE lost == {q \in plan.old : ufw.rules[q] # "managed"
                        /\ (q \in fwMeta.oldManaged \/ ufw.rules[q] = "none")}
             addable == {q \in lost : ufw.active /\ ufw.rules[q] = "none"}
  <2>1. \/ UNCHANGED ufw
        \/ addable = lost /\ SetRules(lost, "managed")
        \/ \E some \in SUBSET addable : SetRules(some, "managed")
    BY <1>4 DEF RestoreFirewall
  <2>2. p \notin addable
    OBVIOUS
  <2> QED
    BY <1>0, <2>1, <2>2, SetRulesForeign
<1>5. CASE CleanupFirewall
  BY <1>5, <1>9 DEF CleanupFirewall, ufwVars
<1>6. CASE BackupFiles \/ WriteTransition \/ RefuseTransition \/ ApplyTransition
           \/ PrepareJail \/ ConfirmLogin \/ ConfirmSudo \/ Decline
  BY <1>6 DEF BackupFiles, WriteTransition, RefuseTransition, ApplyTransition, PrepareJail,
     ConfirmLogin, ConfirmSudo, Decline, WriteConfig, ApplyConfig, ufwVars
<1>7. CASE WriteFinal \/ ApplyFinal \/ FinalizeJail \/ VerifyComponents \/ RollbackSsh
           \/ RollbackJail \/ Exit
  BY <1>7 DEF WriteFinal, ApplyFinal, FinalizeJail, VerifyComponents, RollbackSsh,
     RollbackJail, Exit, WriteConfig, ApplyConfig, ufwVars
<1>8. CASE KeepCurrent \/ StartMigration \/ StartRecovery \/ Crash \/ Reboot
  BY <1>8 DEF KeepCurrent, StartMigration, StartRecovery, Crash, Reboot, ufwVars
<1> QED
  BY <1>1, <1>2, <1>3, <1>4, <1>5, <1>6, <1>7, <1>8 DEF Next, Process

LEMMA CommandKeepsForeign ==
    ASSUME OpsTypeOK, AllowInv, OpsNext, NEW p \in Port, Foreign(p)
    PROVE  Foreign(p)' \/ TakesOver(p)
<1>0. ufw \in [active : BOOLEAN, rules : [Port -> RuleKind]] /\ TypeOK
  BY DEF OpsTypeOK, TypeOK
<1>1. CASE MigrationSteps
  BY <1>0, <1>1, MigrationIsNext, MigrationKeepsForeign
<1>2. CASE RebootAll
  BY <1>0, <1>2, MigrationKeepsForeign DEF RebootAll, Next
<1> USE DEF Foreign
<1>3. CASE AllowPort
  <2>1. PICK q \in work.todo : SetRules({q}, "managed") \/ UNCHANGED ufw
    BY <1>3 DEF AllowPort
  <2>2. q # p \/ TakesOver(p)
    BY <1>3 DEF AllowPort, AllowInv, TodoNotForeign, TakesOver
  <2> QED
    BY <1>0, <2>1, <2>2, SetRulesForeign
<1>4. CASE UndoFirewall
  BY <1>0, <1>4, SetRulesForeign DEF UndoFirewall
<1>5. CASE EnableUfw
  BY <1>0, <1>5 DEF EnableUfw
<1>6. CASE PlanFirewall \/ PlanUnseen \/ VerifyAndMark \/ Fail2banSteps \/ SaveTask
  BY <1>6 DEF PlanFirewall, PlanUnseen, VerifyAndMark, Fail2banSteps, DisableJail, PlanSettings,
     ApplySettings, VerifySettings, SaveTask, ufwVars
<1>7. CASE StartTask \/ DeclineTask \/ RefuseTask \/ EndTask \/ CrashTask
  BY <1>7 DEF StartTask, DeclineTask, RefuseTask, EndTask, CrashTask, ufwVars, vars
<1> QED
  BY <1>1, <1>2, <1>3, <1>4, <1>5, <1>6, <1>7 DEF OpsNext, FirewallSteps

(* "Unrelated firewall rules are never deleted", nor taken over, by the    *)
(* firewall command, migrations, rollbacks and recoveries together, also   *)
(* where UFW is inactive and has rules of the operator's.  The exception   *)
(* is the rule for a port of SSH that a failed `ufw show added` hid from   *)
(* the command (firewall.py:89-90).                                        *)
THEOREM ForeignRulesStay == OpsSpec => UnmanagedKept
<1>1. OpsTypeOK /\ AllowInv /\ [OpsNext]_<<vars, taskVars>>
      => [\A p \in Port : ufw.rules[p] = "unmanaged"
            => ufw'.rules[p] = "unmanaged" \/ TakesOver(p)]_<<vars, taskVars>>
  BY CommandKeepsForeign DEF Foreign
<1> QED
  BY <1>1, AllowInductive, PTL DEF OpsSpec, UnmanagedKept

-----------------------------------------------------------------------------
(* What the open record knows of the rules that the phase relies on.       *)

EarlySteps == {"idle", "planned", "backup", "backed", "applying", "fw_prepare"}
WithFinalJail == {"f2b_finalized", "fw_finalizing", "fw_finalize", "fw_finalized", "verify",
                  "verified"}
WithFinalRules == {"fw_finalized", "verify", "verified"}

(* Rules that are set or deleted leave the others.                         *)
LEMMA RulesSet ==
    ASSUME ufw \in [active : BOOLEAN, rules : [Port -> RuleKind]],
           NEW ports, SetRules(ports, "managed")
    PROVE  /\ ufw'.active = ufw.active /\ ManagedPorts \subseteq ManagedPorts'
           /\ ufw.active => ports \cap Port \subseteq ManagedPorts'
BY DEF SetRules, ManagedPorts

LEMMA RulesDeleted ==
    ASSUME ufw \in [active : BOOLEAN, rules : [Port -> RuleKind]],
           NEW ports, SetRules(ports, "none")
    PROVE  ufw'.active = ufw.active /\ ManagedPorts \ ports \subseteq ManagedPorts'
BY DEF SetRules, ManagedPorts

LEMMA SameRules ==
    ASSUME UNCHANGED ufw
    PROVE  /\ ManagedPorts' = ManagedPorts
           /\ \A ports : VerifyFirewall(ports)' <=> VerifyFirewall(ports)
           /\ \A m, old : Restorable(m, old)' <=> Restorable(m, old)
BY DEF ManagedPorts, VerifyFirewall, Restorable

(* A save of the migration's state.                                        *)
LEMMA StateRules ==
    ASSUME RuleInv, NEW stage, NEW from, NEW to, NEW onFailure,
           Save(from, MigrationState(stage), to, onFailure),
           from # "idle", to # "idle",
           to \in EarlySteps => from \in EarlySteps,
           to \in WithFinalJail => from \in WithFinalJail,
           to \in WithFinalRules => from \in WithFinalRules,
           to # "verified", to \notin Restoration,
           onFailure \in {"exit", "raised"}
    PROVE  RuleInv'
<1>1. /\ MigrationState(stage).interrupted
      /\ MigrationState(stage).fw = fwMeta /\ MigrationState(stage).old = plan.old
  BY DEF MigrationState
<1>2. /\ UNCHANGED <<live, ufw, plan, fwMeta, f2bMeta>>
      /\ memory' = MigrationState(stage) /\ saved' \in {saved, memory'}
      /\ pc = from /\ pc' \in {to, onFailure}
      /\ pc' \in {"exit", "raised"} \/ saved' = memory'
  BY DEF Save, hostVars, ufwVars, txnVars, metaVars
<1> DEFINE record == MigrationState(stage)
<1> HIDE DEF record
<1>3. record.interrupted /\ record.fw = fwMeta /\ record.old = plan.old /\ memory' = record
  BY <1>1, <1>2 DEF record
<1>4. Same(fwMeta, fwMeta)
  BY DEF Same
<1>5. MetaKnown'
  BY <1>2, <1>3, <1>4 DEF RuleInv, MetaKnown, EarlySteps, Deleting, Same
<1>6. RestoreKnown'
  BY <1>2, SameRules DEF RuleInv, RestoreKnown, Restoration
<1>7. FinalKnown'
  BY <1>2 DEF RuleInv, FinalKnown, WithFinalJail, WithFinalRules
<1>8. ClosedKnown'
  <2>1. FirewallState(record) = {}
    BY <1>3 DEF FirewallState
  <2>2. \A ports \in FirewallState(memory)' : VerifyFirewall(ports)'
    BY <1>3, <2>1 DEF FirewallState
  <2> QED
    BY <1>2, <1>3, <2>2 DEF RuleInv, ClosedKnown
<1> QED
  BY <1>5, <1>6, <1>7, <1>8 DEF RuleInv

(* A save that closes the record with what has been verified.              *)
LEMMA CloseRules ==
    ASSUME RuleInv, NEW from, NEW record, NEW to, NEW onFailure,
           Save(from, record, to, onFailure), from # "idle",
           ~record.interrupted, record.fw = fwMeta,
           record.mode = "managed" =>
             /\ record.fw.managed => record.fw.final = record.ports
             /\ record.f2b.managed => record.f2b.final = record.ports
             /\ live.ports = record.ports,
           \A ports \in FirewallState(record) : VerifyFirewall(ports),
           {to, onFailure} \subseteq {"exit", "raised", "finished"}
    PROVE  RuleInv'
<1>1. /\ UNCHANGED <<live, ufw, plan, fwMeta, f2bMeta>>
      /\ memory' = record /\ saved' \in {saved, record}
      /\ pc = from /\ pc' \in {"exit", "raised", "finished"}
  BY DEF Save, hostVars, ufwVars, txnVars, metaVars
<1>2. MetaKnown'
  BY <1>1 DEF RuleInv, MetaKnown, Deleting, Same
<1>3. RestoreKnown'
  BY <1>1, SameRules DEF RuleInv, RestoreKnown, Restoration
<1>4. FinalKnown'
  BY <1>1 DEF FinalKnown
<1>5. ClosedKnown'
  <2>1. FirewallState(memory)' = FirewallState(record)
    BY <1>1 DEF FirewallState
  <2> QED
    BY <1>1, <2>1, SameRules DEF RuleInv, ClosedKnown
<1> QED
  BY <1>2, <1>3, <1>4, <1>5 DEF RuleInv

LEMMA EndsRules ==
    ASSUME RuleInv, SaveDone \/ SaveRolledBack \/ SaveRecovered
    PROVE  RuleInv'
<1>1. CASE SaveDone
  <2> DEFINE record == [MigrationState("done") EXCEPT
                          !.mode = "managed", !.interrupted = FALSE,
                          !.backups = NoBackups, !.ports = plan.final]
  <2>1. /\ record.mode = "managed" /\ record.ports = plan.final /\ ~record.interrupted
        /\ record.fw = fwMeta /\ record.f2b = f2bMeta
    BY DEF MigrationState
  <2>2. pc = "verified" /\ Save("verified", record, "finished", "raised")
    BY <1>1 DEF SaveDone, Save
  <2> HIDE DEF record
  <2>3. /\ record.fw.managed => record.fw.final = record.ports
        /\ record.f2b.managed => record.f2b.final = record.ports
        /\ live.ports = record.ports
    BY <2>1, <2>2 DEF RuleInv, FinalKnown
  <2>4. \A ports \in FirewallState(record) : VerifyFirewall(ports)
    BY <2>1, <2>2, <2>3 DEF RuleInv, FinalKnown, FirewallState
  <2> QED
    BY <2>1, <2>2, <2>3, <2>4, CloseRules
<1>2. CASE SaveRolledBack
  <2> DEFINE record == [MigrationState("rolled_back") EXCEPT
                          !.interrupted = FALSE, !.ports = plan.old]
  <2>1. record.mode = "migration" /\ ~record.interrupted /\ record.fw = fwMeta
    BY DEF MigrationState
  <2>2. pc = "rolled_back" /\ Save("rolled_back", record, "exit", "exit")
    BY <1>2 DEF SaveRolledBack, Save
  <2> HIDE DEF record
  <2>3. \A ports \in FirewallState(record) : VerifyFirewall(ports)
    BY <2>1, <2>2 DEF RuleInv, RestoreKnown, Restoration, FirewallState
  <2> QED
    BY <2>1, <2>2, <2>3, CloseRules
<1>3. CASE SaveRecovered
  <2> DEFINE record == [NoRecord EXCEPT !.mode = "skipped", !.old = plan.old,
                                        !.fw = fwMeta, !.f2b = f2bMeta]
  <2>1. record.mode = "skipped" /\ ~record.interrupted /\ record.fw = fwMeta
    BY DEF NoRecord
  <2>2. pc = "recovered" /\ Save("recovered", record, "finished", "exit")
    BY <1>3 DEF SaveRecovered, Save
  <2> HIDE DEF record
  <2>3. \A ports \in FirewallState(record) : VerifyFirewall(ports)
    BY <2>1, <2>2 DEF RuleInv, RestoreKnown, Restoration, FirewallState
  <2> QED
    BY <2>1, <2>2, <2>3, CloseRules
<1> QED
  BY <1>1, <1>2, <1>3

LEMMA SavesRules == ASSUME RuleInv, Saves PROVE RuleInv'
<1> USE DEF EarlySteps, WithFinalJail, WithFinalRules, Restoration
<1>1. ASSUME \/ SavePlanned \/ SaveBackups \/ SaveApplying \/ SaveFirewall \/ SaveJail
             \/ SaveAwaiting \/ SaveFinalizing
      PROVE  RuleInv'
  BY <1>1, StateRules
  DEF SavePlanned, SaveBackups, SaveApplying, SaveFirewall, SaveJail, SaveAwaiting,
      SaveFinalizing
<1>2. CASE SaveActive
  BY <1>2, StateRules DEF SaveActive
<1>3. CASE SaveJailFinal
  BY <1>3, StateRules DEF SaveJailFinal
<1>4. CASE SaveFirewallFinalizing
  BY <1>4, StateRules DEF SaveFirewallFinalizing
<1>5. CASE SaveFirewallFinal
  BY <1>5, StateRules DEF SaveFirewallFinal
<1>6. CASE SaveRollbackStarted \/ SaveRollbackFailed
  BY <1>6, StateRules DEF SaveRollbackStarted, SaveRollbackFailed
<1> QED
  BY <1>1, <1>2, <1>3, <1>4, <1>5, <1>6, EndsRules DEF Saves

(* A step of the open transaction that saves nothing.                      *)
LEMMA StepRules ==
    ASSUME RuleInv, saved.interrupted, UNCHANGED <<saved, memory, plan>>,
           pc \notin {"idle", "exit", "finished"}, pc' \notin {"idle", "finished"},
           pc' = "exit" => memory.interrupted /\ (fwMeta'.managed => memory.fw.managed),
           pc' \in EarlySteps => pc' # "backup" /\ ~fwMeta'.managed,
           pc' \in Deleting /\ fwMeta'.managed => saved.fw.managed /\ memory.fw.managed,
           fwMeta.managed => Same(fwMeta', fwMeta),
           RestoreKnown', FinalKnown'
    PROVE  RuleInv'
<1>1. MetaKnown'
  BY DEF RuleInv, MetaKnown, EarlySteps, Same
<1>2. ClosedKnown'
  <2>1. pc' = "exit" => FirewallState(memory)' = {}
    BY DEF FirewallState
  <2> QED
    BY <2>1 DEF RuleInv, ClosedKnown
<1> QED
  BY <1>1, <1>2 DEF RuleInv

(* ... and that leaves the firewall alone.                                 *)
LEMMA QuietRules ==
    ASSUME RuleInv, saved.interrupted, UNCHANGED <<saved, memory, plan, fwMeta, ufw>>,
           pc \notin {"idle", "exit", "finished"}, pc' \notin {"idle", "finished"},
           pc' = "exit" => memory.interrupted /\ (fwMeta.managed => memory.fw.managed),
           pc' \in EarlySteps => pc' # "backup" /\ pc \in EarlySteps,
           pc' \in Deleting => pc \in Deleting,
           pc' \in Restoration => pc \in Restoration,
           FinalKnown'
    PROVE  RuleInv'
<1>1. RestoreKnown'
  BY SameRules DEF RuleInv, RestoreKnown
<1>2. /\ pc' \in EarlySteps => ~fwMeta'.managed
      /\ pc' \in Deleting /\ fwMeta'.managed => saved.fw.managed /\ memory.fw.managed
      /\ Same(fwMeta', fwMeta)
  BY DEF RuleInv, MetaKnown, EarlySteps, Same
<1> QED
  BY <1>1, <1>2, StepRules

(* The steps up to the last deletion.                                      *)
LEMMA PrepareRules == ASSUME TypeOK, IInv, RuleInv, PrepareFirewall PROVE RuleInv'
<1>0. ufw \in [active : BOOLEAN, rules : [Port -> RuleKind]]
  BY DEF TypeOK
<1>1. /\ saved.interrupted /\ pc = "fw_prepare" /\ pc' \in {"fw_prepared", "raised"}
      /\ UNCHANGED <<live, saved, memory, plan, f2bMeta>>
  BY DEF PrepareFirewall, IInv, RecordCovers, hostVars, recordVars, txnVars
<1>2. ~fwMeta.managed
  BY <1>1 DEF RuleInv, MetaKnown
<1>3. FinalKnown'
  BY <1>1 DEF FinalKnown
<1>4. CASE UNCHANGED fwMeta
  <2>1. RestoreKnown'
    BY <1>1, <1>2, <1>4 DEF RestoreKnown, Restorable, Restoration
  <2> QED
    BY <1>1, <1>2, <1>3, <1>4, <2>1, StepRules DEF EarlySteps, Deleting
<1>5. CASE ~UNCHANGED fwMeta
  <2>1. /\ ManagedFirewallExists /\ SetRules(plan.target \ AllowedPorts, "managed")
        /\ fwMeta' = [managed |-> TRUE, added |-> plan.target \ AllowedPorts,
                      oldManaged |-> ManagedPorts \cap plan.old,
                      original |-> marker, final |-> {}, pending |-> {},
                      restored |-> FALSE]
    BY <1>5 DEF PrepareFirewall
  <2>2. /\ fwMeta'.original = marker /\ fwMeta'.oldManaged = ManagedPorts \cap plan.old
        /\ fwMeta'.added = plan.target \ AllowedPorts
    BY <2>1
  <2>3. ufw.active /\ marker \subseteq ManagedPorts /\ ManagedPorts \subseteq AllowedPorts
    BY <2>1 DEF ManagedFirewallExists, VerifyFirewall, ManagedPorts, AllowedPorts
  <2>4. ufw'.active /\ ManagedPorts \subseteq ManagedPorts'
    BY <1>0, <2>1, <2>3, RulesSet
  <2>5. Restorable(fwMeta, plan.old)'
    BY <1>1, <2>2, <2>3, <2>4 DEF Restorable
  <2>6. RestoreKnown'
    BY <1>1, <2>5 DEF RestoreKnown, Restoration
  <2> QED
    BY <1>1, <1>2, <1>3, <2>6, StepRules DEF EarlySteps, Deleting
<1> QED
  BY <1>4, <1>5

LEMMA FinalizeRules == ASSUME TypeOK, IInv, RuleInv, FinalizeFirewall PROVE RuleInv'
<1>0. ufw \in [active : BOOLEAN, rules : [Port -> RuleKind]] /\ fwMeta \in FwMeta
  BY DEF TypeOK
<1>1. /\ saved.interrupted /\ pc = "fw_finalize" /\ pc' \in {"fw_finalized", "raised"}
      /\ UNCHANGED <<live, saved, memory, plan, f2bMeta>>
  BY DEF FinalizeFirewall, IInv, RecordCovers, hostVars, recordVars, txnVars, Goto
<1>2. /\ fwMeta'.managed = fwMeta.managed /\ fwMeta'.original = fwMeta.original
      /\ fwMeta'.added = fwMeta.added /\ fwMeta'.oldManaged = fwMeta.oldManaged
      /\ fwMeta'.managed /\ pc' = "fw_finalized" => fwMeta'.final = plan.final
  BY <1>0 DEF FinalizeFirewall, FinalMeta, FwMeta, Goto
<1>3. FinalKnown'
  BY <1>1, <1>2 DEF RuleInv, FinalKnown
<1>4. ufw'.active = ufw.active /\ (fwMeta.managed => ManagedPorts \ plan.old \subseteq ManagedPorts')
  <2>1. CASE fwMeta.managed
    <3>1. PICK kept : DeleteRules(Stale, kept)
      BY <2>1 DEF FinalizeFirewall
    <3> QED
      BY <1>0, <3>1, RulesDeleted DEF DeleteRules, Stale
  <2>2. CASE ~fwMeta.managed
    BY <2>2 DEF FinalizeFirewall, ufwVars
  <2> QED
    BY <2>1, <2>2
<1>5. RestoreKnown'
  BY <1>1, <1>2, <1>4 DEF RuleInv, RestoreKnown, Restorable, Restoration
<1>6. Same(fwMeta', fwMeta)
  BY <1>2 DEF Same
<1> QED
  BY <1>1, <1>3, <1>5, <1>6, StepRules DEF EarlySteps, Deleting

LEMMA ForwardRules ==
    ASSUME TypeOK, IInv, RuleInv,
           \/ BackupFiles \/ PrepareFirewall \/ WriteTransition \/ RefuseTransition
           \/ ApplyTransition \/ PrepareJail \/ ConfirmLogin \/ ConfirmSudo \/ Decline
           \/ WriteFinal \/ ApplyFinal \/ FinalizeJail \/ FinalizeFirewall \/ VerifyComponents
    PROVE  RuleInv'
<1>1. CASE BackupFiles
  <2>1. /\ UNCHANGED <<live, saved, memory, plan, fwMeta, f2bMeta, ufw>>
        /\ pc = "backup" /\ pc' \in {"backed", "exit"}
    BY <1>1 DEF BackupFiles, hostVars, ufwVars, recordVars, metaVars, Goto
  <2>2. saved.interrupted /\ memory.interrupted /\ ~fwMeta.managed
    BY <2>1 DEF IInv, RecordCovers, RuleInv, MetaKnown
  <2> QED
    BY <2>1, <2>2, QuietRules DEF EarlySteps, Deleting, Restoration, FinalKnown
<1>2. CASE WriteTransition \/ RefuseTransition \/ ApplyTransition \/ PrepareJail
           \/ ConfirmLogin \/ ConfirmSudo \/ Decline \/ WriteFinal \/ ApplyFinal
  <2>1. /\ UNCHANGED <<saved, memory, plan, fwMeta, ufw>>
        /\ pc \in {"write_transition", "apply_transition", "f2b_prepare", "confirm_login",
                   "confirm_sudo", "write_final", "apply_final"}
        /\ pc' \in {"raised", "apply_transition", "f2b_prepare", "f2b_prepared",
                    "confirm_sudo", "confirmed", "apply_final", "f2b_finalize"}
    <3>1. CASE WriteTransition \/ WriteFinal
      BY <3>1 DEF WriteTransition, WriteFinal, WriteConfig, Goto, recordVars, txnVars,
         metaVars, ufwVars
    <3>2. CASE ApplyTransition \/ ApplyFinal
      BY <3>2 DEF ApplyTransition, ApplyFinal, ApplyConfig, Goto, recordVars, txnVars,
         metaVars, ufwVars
    <3>3. CASE RefuseTransition \/ ConfirmLogin \/ ConfirmSudo \/ Decline
      BY <3>3 DEF RefuseTransition, ConfirmLogin, ConfirmSudo, Decline, Goto, recordVars,
         txnVars, metaVars, ufwVars
    <3>4. CASE PrepareJail
      BY <3>4 DEF PrepareJail, ApplyJail, Goto, recordVars, txnVars, ufwVars
    <3> QED
      BY <1>2, <3>1, <3>2, <3>3, <3>4
  <2>2. saved.interrupted
    BY <2>1 DEF IInv, RecordCovers
  <2> QED
    BY <2>1, <2>2, QuietRules DEF EarlySteps, Deleting, Restoration, FinalKnown
<1>3. CASE FinalizeJail
  <2>1. /\ UNCHANGED <<live, saved, memory, plan, fwMeta, ufw>>
        /\ pc = "f2b_finalize" /\ pc' \in {"f2b_finalized", "raised"}
        /\ f2bMeta'.managed /\ pc' = "f2b_finalized" => f2bMeta'.final = plan.final
    BY <1>3 DEF FinalizeJail, ApplyJail, Goto, hostVars, recordVars, txnVars, ufwVars,
       TypeOK, F2bMeta
  <2>2. saved.interrupted
    BY <2>1 DEF IInv, RecordCovers
  <2> QED
    BY <2>1, <2>2, QuietRules DEF EarlySteps, Deleting, Restoration, FinalKnown
<1>4. CASE VerifyComponents
  <2>1. /\ UNCHANGED <<live, saved, memory, plan, fwMeta, f2bMeta, ufw>>
        /\ pc = "verify" /\ pc' \in {"verified", "raised"}
        /\ pc' = "verified" => FinalStateHolds
    BY <1>4 DEF VerifyComponents, Goto, hostVars, recordVars, txnVars, metaVars, ufwVars
  <2>2. saved.interrupted
    BY <2>1 DEF IInv, RecordCovers
  <2>3. FinalKnown'
    BY <2>1, SameRules DEF RuleInv, FinalKnown, FinalStateHolds
  <2> QED
    BY <2>1, <2>2, <2>3, QuietRules DEF EarlySteps, Deleting, Restoration
<1> QED
  BY <1>1, <1>2, <1>3, <1>4, PrepareRules, FinalizeRules

(* The rollback: it restores the rules it will claim, then deletes others. *)
LEMMA RestoreRules == ASSUME TypeOK, IInv, RuleInv, RestoreFirewall PROVE RuleInv'
<1> DEFINE lost == {p \in plan.old : ufw.rules[p] # "managed"
                        /\ (p \in fwMeta.oldManaged \/ ufw.rules[p] = "none")}
           addable == {p \in lost : ufw.active /\ ufw.rules[p] = "none"}
<1>0. ufw \in [active : BOOLEAN, rules : [Port -> RuleKind]] /\ plan.old \subseteq Port
  BY DEF TypeOK, Plan
<1>1. /\ saved.interrupted /\ memory.interrupted /\ pc = "rb_firewall"
      /\ pc' \in {"rb_ssh", "exit", "rb_failed"}
      /\ UNCHANGED <<live, saved, memory, plan, fwMeta, f2bMeta>>
  BY DEF RestoreFirewall, RollbackFailed, IInv, RecordCovers, hostVars, recordVars, txnVars,
     metaVars, Goto
<1>2. fwMeta.managed => saved.fw.managed /\ memory.fw.managed
  BY <1>1 DEF RuleInv, MetaKnown, Deleting
<1>3. FinalKnown'
  BY <1>1 DEF FinalKnown
<1>4. Restorable(fwMeta, plan.old)
  BY <1>1 DEF RuleInv, RestoreKnown
<1>5. ufw'.active = ufw.active /\ ManagedPorts \subseteq ManagedPorts'
  <2>1. UNCHANGED ufw \/ \E ports : SetRules(ports, "managed")
    BY DEF RestoreFirewall
  <2> QED
    BY <1>0, <2>1, RulesSet DEF ManagedPorts
<1>6. Restorable(fwMeta, plan.old)'
  BY <1>1, <1>4, <1>5 DEF Restorable
<1>7. ASSUME pc' = "rb_ssh", fwMeta.managed PROVE VerifyFirewall(fwMeta.original)'
  <2>1. ufw.active /\ SetRules(lost, "managed")
    BY <1>1, <1>7 DEF RestoreFirewall, RollbackFailed, Goto
  <2>2. lost \subseteq ManagedPorts'
    BY <1>0, <2>1, RulesSet
  <2>3. fwMeta.original \cap plan.old \subseteq fwMeta.oldManaged
        /\ fwMeta.original \ plan.old \subseteq ManagedPorts
    BY <1>4, <1>7 DEF Restorable
  <2>4. ASSUME NEW p \in fwMeta.original PROVE p \in ManagedPorts'
    <3>1. CASE p \in ManagedPorts
      BY <1>5, <3>1
    <3>2. CASE p \notin ManagedPorts
      <4>1. p \in plan.old /\ p \in fwMeta.oldManaged
        BY <2>3, <2>4, <3>2
      <4>2. p \in lost
        BY <1>0, <2>1, <3>2, <4>1 DEF ManagedPorts
      <4> QED
        BY <2>2, <4>2
    <3> QED
      BY <3>1, <3>2
  <2> QED
    BY <1>1, <1>5, <2>1, <2>4 DEF VerifyFirewall
<1>8. RestoreKnown'
  BY <1>1, <1>6, <1>7 DEF RestoreKnown, Restoration
<1>9. Same(fwMeta', fwMeta)
  BY <1>1 DEF Same
<1> QED
  BY <1>1, <1>2, <1>3, <1>8, <1>9, StepRules DEF EarlySteps

LEMMA CleanupRules == ASSUME TypeOK, IInv, RuleInv, CleanupFirewall PROVE RuleInv'
<1>0. ufw \in [active : BOOLEAN, rules : [Port -> RuleKind]] /\ fwMeta \in FwMeta
  BY DEF TypeOK
<1>1. /\ saved.interrupted /\ memory.interrupted /\ pc = "rb_cleanup"
      /\ pc' \in {"rolled_back", "recovered", "exit", "rb_failed"}
      /\ UNCHANGED <<live, saved, memory, plan, f2bMeta>>
  BY DEF CleanupFirewall, RollbackFailed, IInv, RecordCovers, hostVars, recordVars, txnVars,
     Goto
<1>2. fwMeta.managed => saved.fw.managed /\ memory.fw.managed
  BY <1>1 DEF RuleInv, MetaKnown, Deleting
<1>3. /\ fwMeta'.managed = fwMeta.managed /\ fwMeta'.original = fwMeta.original
      /\ fwMeta'.added = fwMeta.added /\ fwMeta'.oldManaged = fwMeta.oldManaged
  BY <1>0 DEF CleanupFirewall, FwMeta
<1>4. FinalKnown'
  BY <1>1 DEF FinalKnown
<1>5. ASSUME fwMeta.managed
      PROVE  ufw'.active = ufw.active /\ fwMeta.original \subseteq ManagedPorts'
  <2>1. PICK kept : DeleteRules(fwMeta.added, kept)
    BY <1>5 DEF CleanupFirewall
  <2>2. ufw'.active = ufw.active /\ ManagedPorts \ fwMeta.added \subseteq ManagedPorts'
    BY <1>0, <2>1, RulesDeleted DEF DeleteRules
  <2>3. fwMeta.original \subseteq ManagedPorts /\ fwMeta.added \cap fwMeta.original = {}
    BY <1>1, <1>5 DEF RuleInv, RestoreKnown, Restoration, VerifyFirewall, Restorable
  <2> QED
    BY <2>2, <2>3
<1>6. RestoreKnown'
  BY <1>1, <1>3, <1>5 DEF RuleInv, RestoreKnown, Restorable, VerifyFirewall, Restoration
<1>7. Same(fwMeta', fwMeta)
  BY <1>3 DEF Same
<1> QED
  BY <1>1, <1>2, <1>3, <1>4, <1>6, <1>7, StepRules DEF EarlySteps, Deleting

(* The process ends, normally or not: what it knew is in the record.       *)
LEMMA GoneRules ==
    ASSUME TypeOK, RuleInv, NEW record, Forget(record), pc' = "idle", UNCHANGED ufw,
           live'.ports = live.ports \/ saved'.interrupted,
           \/ saved' = saved
           \/ pc \in {"exit", "finished"}
              /\ (saved' = memory \/ saved' = [memory EXCEPT !.stage = "none"])
    PROVE  RuleInv'
<1>1. ~fwMeta'.managed /\ memory' = NoRecord /\ ~NoRecord.interrupted /\ ~NoRecord.fw.managed
      /\ NoRecord.mode = "none"
  BY DEF Forget, NoFwMeta, NoRecord
<1>2. PICK r \in {saved, memory} :
        /\ saved'.mode = r.mode /\ saved'.interrupted = r.interrupted
        /\ saved'.old = r.old /\ saved'.ports = r.ports
        /\ saved'.fw = r.fw /\ saved'.f2b = r.f2b
        /\ r = saved \/ pc \in {"exit", "finished"}
  <2>1. CASE saved' = saved
    BY <2>1
  <2>2. CASE saved' # saved
    BY <2>2 DEF TypeOK, Record
  <2> QED
    BY <2>1, <2>2
<1>3. MetaKnown'
  BY <1>1 DEF MetaKnown, Deleting
<1>4. RestoreKnown'
  <2>1. ASSUME saved'.interrupted, saved'.fw.managed PROVE Restorable(saved.fw, saved.old)'
    <3>1. CASE pc = "idle"
      <4>1. r = saved
        BY <1>2, <3>1
      <4> QED
        BY <1>2, <2>1, <3>1, <4>1, SameRules DEF RuleInv, RestoreKnown, Restorable
    <3>2. CASE pc # "idle"
      <4>1. r.old = plan.old /\ Same(r.fw, fwMeta) /\ Restorable(fwMeta, plan.old)
        BY <1>2, <2>1, <3>2 DEF RuleInv, MetaKnown, RestoreKnown
      <4>2. Restorable(r.fw, r.old)
        BY <4>1 DEF Same, Restorable
      <4> QED
        BY <1>2, <4>2 DEF Restorable, ManagedPorts
    <3> QED
      BY <3>1, <3>2
  <2> QED
    BY <2>1 DEF RestoreKnown, Restoration, Restorable
<1>5. FinalKnown'
  BY DEF FinalKnown
<1>6. ClosedKnown'
  BY <1>1, <1>2 DEF RuleInv, ClosedKnown
<1> QED
  BY <1>3, <1>4, <1>5, <1>6 DEF RuleInv

LEMMA RollbackRules ==
    ASSUME TypeOK, IInv, RuleInv,
           \/ RestoreFirewall \/ RollbackSsh \/ RollbackJail \/ CleanupFirewall
    PROVE  RuleInv'
<1>1. CASE RollbackSsh \/ RollbackJail
  <2>1. /\ UNCHANGED <<saved, memory, plan, fwMeta, ufw>>
        /\ pc \in {"rb_ssh", "rb_jail"}
        /\ pc' \in {"rb_jail", "rb_cleanup", "exit", "rb_failed"}
    BY <1>1 DEF RollbackSsh, RollbackJail, RollbackFailed, Goto, recordVars, txnVars,
       metaVars, ufwVars
  <2>2. saved.interrupted /\ memory.interrupted
    BY <2>1 DEF IInv, RecordCovers
  <2>3. fwMeta.managed => memory.fw.managed
    BY <2>1 DEF RuleInv, MetaKnown, Deleting
  <2> QED
    BY <2>1, <2>2, <2>3, QuietRules DEF EarlySteps, Deleting, Restoration, FinalKnown
<1> QED
  BY <1>1, RestoreRules, CleanupRules

(* A run starts, or ends; the machine may restart.                         *)
LEMMA StartRules ==
    ASSUME TypeOK, IInv, RuleInv,
           \/ KeepCurrent \/ StartMigration \/ StartRecovery \/ Exit \/ Crash \/ Reboot
    PROVE  RuleInv'
<1>1. CASE KeepCurrent
  <2> DEFINE ports == EffectivePorts(files.dropin)
             record == [NoRecord EXCEPT !.mode = "managed", !.old = ports, !.ports = ports]
  <2>1. /\ record.mode = "managed" /\ ~record.interrupted /\ record.ports = ports
        /\ ~record.fw.managed /\ ~record.f2b.managed
    BY DEF NoRecord, NoFwMeta, NoF2bMeta
  <2>2. /\ UNCHANGED <<live, ufw, memory, pc, plan, fwMeta, f2bMeta>>
        /\ pc = "idle" /\ saved' \in {saved, record} /\ live.ports = ports
        /\ ~saved.interrupted
    BY <1>1 DEF KeepCurrent, hostVars, ufwVars, txnVars, metaVars
  <2> HIDE DEF record, ports
  <2>3. MetaKnown'
    BY <2>1, <2>2 DEF RuleInv, MetaKnown, Deleting
  <2>4. RestoreKnown' /\ FinalKnown'
    BY <2>1, <2>2 DEF RestoreKnown, FinalKnown, Restoration
  <2>5. ClosedKnown'
    BY <2>1, <2>2 DEF RuleInv, ClosedKnown
  <2> QED
    BY <2>3, <2>4, <2>5 DEF RuleInv
<1>2. CASE StartMigration
  <2>1. /\ UNCHANGED <<live, ufw, saved, memory, fwMeta, f2bMeta>>
        /\ pc = "idle" /\ pc' = "planned" /\ ~saved.interrupted
    BY <1>2 DEF StartMigration, hostVars, ufwVars, recordVars, metaVars
  <2>2. memory = NoRecord /\ ~NoRecord.interrupted /\ ~NoRecord.fw.managed /\ ~fwMeta.managed
    BY <2>1 DEF RuleInv, MetaKnown, NoRecord, NoFwMeta
  <2>3. MetaKnown'
    BY <2>1, <2>2 DEF RuleInv, MetaKnown, Deleting
  <2>4. RestoreKnown' /\ FinalKnown'
    BY <2>1, <2>2 DEF RestoreKnown, FinalKnown, Restoration, Restorable
  <2>5. ClosedKnown'
    BY <2>1 DEF RuleInv, ClosedKnown
  <2> QED
    BY <2>3, <2>4, <2>5 DEF RuleInv
<1>3. CASE StartRecovery
  <2>1. /\ UNCHANGED <<live, ufw, saved>> /\ pc = "idle" /\ pc' = "rb_firewall"
        /\ saved.interrupted /\ memory' = saved /\ fwMeta' = saved.fw
        /\ plan'.old = saved.old
    BY <1>3 DEF StartRecovery, hostVars, ufwVars, NoPlan, Goto
  <2>2. MetaKnown'
    BY <2>1 DEF MetaKnown, Same
  <2>3. RestoreKnown' /\ FinalKnown'
    BY <2>1, SameRules DEF RuleInv, RestoreKnown, FinalKnown, Restoration, Restorable
  <2>4. ClosedKnown'
    BY <2>1 DEF RuleInv, ClosedKnown
  <2> QED
    BY <2>2, <2>3, <2>4 DEF RuleInv
<1>4. CASE Exit
  <2>1. /\ Forget(saved') /\ pc' = "idle" /\ UNCHANGED ufw /\ live' = live
        /\ pc \in {"exit", "finished"}
        /\ saved' \in {saved, memory, [memory EXCEPT !.stage = "none"]}
    BY <1>4 DEF Exit, hostVars
  <2> QED
    BY <2>1, GoneRules
<1>5. CASE Crash
  <2>1. Forget(saved) /\ pc' = "idle" /\ UNCHANGED <<ufw, saved>> /\ live' = live
    BY <1>5 DEF Crash, hostVars
  <2> QED
    BY <2>1, GoneRules
<1>6. CASE Reboot
  <2>1. ~saved.interrupted => live' = live
    BY <1>6 DEF Reboot, IInv, RecordCovers, Settled
  <2>2. saved' = saved /\ Forget(saved) /\ pc' = "idle" /\ UNCHANGED ufw
    BY <1>6 DEF Reboot
  <2> QED
    BY <2>1, <2>2, GoneRules
<1> QED
  BY <1>1, <1>2, <1>3, <1>4, <1>5, <1>6

LEMMA NextRules == TypeOK /\ IInv /\ RuleInv /\ Next => RuleInv'
BY SavesRules, ForwardRules, RollbackRules, StartRules DEF Next, Process

LEMMA InitRules == Init => RuleInv
<1> SUFFICES ASSUME Init PROVE RuleInv
  OBVIOUS
<1>1. /\ pc = "idle" /\ memory = NoRecord /\ saved = NoRecord
      /\ ~fwMeta.managed /\ ~NoRecord.interrupted /\ NoRecord.mode = "none"
  BY DEF Init, NoFwMeta, NoRecord
<1> QED
  BY <1>1 DEF RuleInv, MetaKnown, RestoreKnown, FinalKnown, ClosedKnown, Deleting, Restoration

-----------------------------------------------------------------------------
(* What state.json says of the firewall, while migrations run.             *)

(* The parts of a step of the migration that the phases depend on.         *)
Recording ==
    saved' # saved =>
      /\ UNCHANGED ufw
      /\ pc = "idle" => ~saved.interrupted
      /\ pc' = "idle" \/ saved' = memory'
      /\ \A ports \in FirewallState(saved') : VerifyFirewall(ports)
      /\ ~saved'.fw.managed => pc = "idle" \/ ~fwMeta.managed
Keeping ==
    /\ ~OpenManaged => ManagedPorts \subseteq ManagedPorts'
    /\ ~fwMeta'.managed /\ pc' # "idle" => pc = "idle" \/ ~fwMeta.managed

LEMMA SaveRecords ==
    ASSUME NEW from, NEW record, NEW to, NEW onFailure, Save(from, record, to, onFailure),
           from # "idle", record.fw = fwMeta,
           \A ports \in FirewallState(record) : VerifyFirewall(ports)
    PROVE  Recording /\ Keeping
<1>1. /\ UNCHANGED <<ufw, fwMeta>> /\ memory' = record /\ saved' \in {saved, record}
      /\ pc # "idle"
  BY DEF Save, ufwVars, metaVars
<1>2. saved' # saved => FirewallState(saved') = FirewallState(record)
  BY <1>1
<1> QED
  BY <1>1, <1>2 DEF Recording, Keeping, ManagedPorts

LEMMA StateRecords ==
    ASSUME NEW stage, NEW from, NEW to, NEW onFailure,
           Save(from, MigrationState(stage), to, onFailure), from # "idle"
    PROVE  Recording /\ Keeping
<1>1. MigrationState(stage).interrupted /\ MigrationState(stage).fw = fwMeta
  BY DEF MigrationState
<1>2. FirewallState(MigrationState(stage)) = {}
  BY <1>1 DEF FirewallState
<1> QED
  BY <1>1, <1>2, SaveRecords

LEMMA SavesRecord == ASSUME RuleInv, Saves PROVE Recording /\ Keeping
<1>1. CASE \/ SavePlanned \/ SaveBackups \/ SaveApplying \/ SaveFirewall \/ SaveJail
           \/ SaveActive \/ SaveAwaiting \/ SaveFinalizing \/ SaveJailFinal
           \/ SaveFirewallFinalizing \/ SaveFirewallFinal \/ SaveRollbackStarted
           \/ SaveRollbackFailed
  BY <1>1, StateRecords
  DEF SavePlanned, SaveBackups, SaveApplying, SaveFirewall, SaveJail, SaveActive,
      SaveAwaiting, SaveFinalizing, SaveJailFinal, SaveFirewallFinalizing,
      SaveFirewallFinal, SaveRollbackStarted, SaveRollbackFailed
<1>2. CASE SaveDone
  <2> DEFINE record == [MigrationState("done") EXCEPT
                          !.mode = "managed", !.interrupted = FALSE,
                          !.backups = NoBackups, !.ports = plan.final]
  <2>1. record.mode = "managed" /\ ~record.interrupted /\ record.fw = fwMeta
    BY DEF MigrationState
  <2>2. pc = "verified" /\ Save("verified", record, "finished", "raised")
    BY <1>2 DEF SaveDone, Save
  <2> HIDE DEF record
  <2>3. \A ports \in FirewallState(record) : VerifyFirewall(ports)
    BY <2>1, <2>2 DEF RuleInv, FinalKnown, FirewallState
  <2> QED
    BY <2>1, <2>2, <2>3, SaveRecords
<1>3. CASE SaveRolledBack
  <2> DEFINE record == [MigrationState("rolled_back") EXCEPT
                          !.interrupted = FALSE, !.ports = plan.old]
  <2>1. record.mode = "migration" /\ record.fw = fwMeta
    BY DEF MigrationState
  <2>2. pc = "rolled_back" /\ Save("rolled_back", record, "exit", "exit")
    BY <1>3 DEF SaveRolledBack, Save
  <2> HIDE DEF record
  <2>3. \A ports \in FirewallState(record) : VerifyFirewall(ports)
    BY <2>1, <2>2 DEF RuleInv, RestoreKnown, Restoration, FirewallState
  <2> QED
    BY <2>1, <2>2, <2>3, SaveRecords
<1>4. CASE SaveRecovered
  <2> DEFINE record == [NoRecord EXCEPT !.mode = "skipped", !.old = plan.old,
                                        !.fw = fwMeta, !.f2b = f2bMeta]
  <2>1. record.mode = "skipped" /\ record.fw = fwMeta
    BY DEF NoRecord
  <2>2. pc = "recovered" /\ Save("recovered", record, "finished", "exit")
    BY <1>4 DEF SaveRecovered, Save
  <2> HIDE DEF record
  <2>3. \A ports \in FirewallState(record) : VerifyFirewall(ports)
    BY <2>1, <2>2 DEF RuleInv, RestoreKnown, Restoration, FirewallState
  <2> QED
    BY <2>1, <2>2, <2>3, SaveRecords
<1> QED
  BY <1>1, <1>2, <1>3, <1>4 DEF Saves

LEMMA NextRecords ==
    ASSUME TypeOK, IInv, RuleInv, KeepCurrent \/ Process \/ StartMigration \/ StartRecovery
                                  \/ Crash \/ Reboot
    PROVE  Recording /\ Keeping
<1>0. ufw \in [active : BOOLEAN, rules : [Port -> RuleKind]] /\ fwMeta \in FwMeta
  BY DEF TypeOK
<1>1. CASE Saves
  BY <1>1, SavesRecord
<1>2. CASE PrepareFirewall
  <2>1. saved' = saved /\ ~fwMeta.managed
    BY <1>2 DEF PrepareFirewall, recordVars, RuleInv, MetaKnown
  <2>2. UNCHANGED ufw \/ \E ports : SetRules(ports, "managed")
    BY <1>2 DEF PrepareFirewall
  <2>3. ManagedPorts \subseteq ManagedPorts'
    BY <1>0, <2>2, RulesSet DEF ManagedPorts
  <2> QED
    BY <2>1, <2>3 DEF Recording, Keeping
<1>3. CASE FinalizeFirewall \/ CleanupFirewall
  <2>1. saved' = saved /\ pc \in Deleting /\ saved.interrupted
    BY <1>3 DEF FinalizeFirewall, CleanupFirewall, recordVars, Deleting, Goto, IInv,
       RecordCovers
  <2>2. fwMeta'.managed = fwMeta.managed
    BY <1>0, <1>3 DEF FinalizeFirewall, CleanupFirewall, FinalMeta, FwMeta
  <2>3. ASSUME ~OpenManaged PROVE UNCHANGED ufw
    <3>1. ~fwMeta.managed
      BY <2>1, <2>3 DEF OpenManaged, RuleInv, MetaKnown
    <3> QED
      BY <1>3, <3>1 DEF FinalizeFirewall, CleanupFirewall, ufwVars
  <2> QED
    BY <2>1, <2>2, <2>3 DEF Recording, Keeping, ManagedPorts
<1>4. CASE RestoreFirewall
  <2>1. UNCHANGED <<saved, fwMeta>>
    BY <1>4 DEF RestoreFirewall, recordVars, metaVars
  <2>2. UNCHANGED ufw \/ \E ports : SetRules(ports, "managed")
    BY <1>4 DEF RestoreFirewall
  <2>3. ManagedPorts \subseteq ManagedPorts'
    BY <1>0, <2>2, RulesSet DEF ManagedPorts
  <2> QED
    BY <2>1, <2>3 DEF Recording, Keeping
<1>5. CASE BackupFiles \/ WriteTransition \/ RefuseTransition \/ ApplyTransition
           \/ PrepareJail \/ ConfirmLogin \/ ConfirmSudo \/ Decline \/ WriteFinal
           \/ ApplyFinal \/ FinalizeJail \/ VerifyComponents \/ RollbackSsh \/ RollbackJail
  <2>1. UNCHANGED <<saved, ufw, fwMeta>>
    BY <1>5 DEF BackupFiles, WriteTransition, RefuseTransition, ApplyTransition, PrepareJail,
       ConfirmLogin, ConfirmSudo, Decline, WriteFinal, ApplyFinal, FinalizeJail,
       VerifyComponents, RollbackSsh, RollbackJail, WriteConfig, ApplyConfig, ufwVars,
       recordVars, metaVars
  <2> QED
    BY <2>1 DEF Recording, Keeping, ManagedPorts
<1>6. CASE Exit
  <2>1. /\ UNCHANGED ufw /\ pc' = "idle" /\ pc \in {"exit", "finished"}
        /\ saved' # saved => saved'.fw = memory.fw /\ FirewallState(saved') = FirewallState(memory)
    BY <1>6 DEF Exit, ufwVars, TypeOK, Record, FirewallState
  <2>2. \A ports \in FirewallState(memory) : VerifyFirewall(ports)
    BY <2>1 DEF RuleInv, ClosedKnown
  <2>3. ~memory.fw.managed => ~fwMeta.managed
    BY <2>1 DEF RuleInv, MetaKnown
  <2> QED
    BY <2>1, <2>2, <2>3 DEF Recording, Keeping, ManagedPorts
<1>7. CASE KeepCurrent
  <2> DEFINE ports == EffectivePorts(files.dropin)
             record == [NoRecord EXCEPT !.mode = "managed", !.old = ports, !.ports = ports]
  <2>1. ~record.fw.managed
    BY DEF NoRecord, NoFwMeta
  <2>2. UNCHANGED <<ufw, fwMeta, pc>> /\ pc = "idle" /\ saved' \in {saved, record}
        /\ ~saved.interrupted
    BY <1>7 DEF KeepCurrent, ufwVars, metaVars
  <2> HIDE DEF record
  <2>3. FirewallState(record) = {}
    BY <2>1 DEF FirewallState
  <2> QED
    BY <2>1, <2>2, <2>3 DEF Recording, Keeping, ManagedPorts
<1>8. CASE StartMigration \/ StartRecovery \/ Crash \/ Reboot
  <2>1. UNCHANGED <<saved, ufw>> /\ (pc = "idle" \/ pc' = "idle")
    BY <1>8 DEF StartMigration, StartRecovery, Crash, Reboot, ufwVars, recordVars, Goto
  <2> QED
    BY <2>1 DEF Recording, Keeping, ManagedPorts
<1> QED
  BY <1>1, <1>2, <1>3, <1>4, <1>5, <1>6, <1>7, <1>8 DEF Process

(* A closing record agrees with the phases it establishes.                 *)
LEMMA SynchronizedAgrees ==
    ASSUME NEW ps, NEW r,
           r.mode = "managed" /\ ~r.interrupted =>
             (r.fw.managed => r.fw.final = r.ports) /\ (r.f2b.managed => r.f2b.final = r.ports)
    PROVE  Agrees(Synchronized(ps, r), r)
<1> SUFFICES ASSUME r.mode = "managed", ~r.interrupted
             PROVE  /\ r.fw.managed => Synchronized(ps, r).firewall.ports = r.ports
                    /\ r.f2b.managed => Synchronized(ps, r).fail2ban.ports = r.ports
  BY DEF Agrees
<1>1. /\ r.fw.managed => FirewallState(r) = {r.ports}
      /\ r.f2b.managed => JailState(r) = {r.ports}
  BY DEF FirewallState, JailState
<1>2. UNION {r.ports} = r.ports
  OBVIOUS
<1> QED
  BY <1>1, <1>2 DEF Synchronized, Managed

(* The phases after a step of the migration.                               *)
LEMMA MigrationPhases ==
    ASSUME OpsTypeOK, IInv, RuleInv, PhaseInv, MigrationSteps
    PROVE  PhaseInv'
<1>0. /\ TypeOK /\ task = "none" /\ task' = "none" /\ behind \in BOOLEAN
      /\ phases' = IF saved' = saved THEN phases ELSE Synchronized(loaded, saved')
      /\ behind' = IF saved' = saved THEN behind
                   ELSE FirewallState(saved') = {} /\ (behind \/ LeftBehind(saved'))
      /\ loaded' = IF pc' = "idle" THEN phases' ELSE Synchronized(loaded, memory')
  BY DEF MigrationSteps, OpsTypeOK
<1>1. RuleInv' /\ Recording /\ Keeping
  BY <1>0, MigrationIsNext, NextRules, NextRecords DEF MigrationSteps
<1>2. ufw'.active = ufw.active
  BY <1>0, MigrationIsNext, MigrationKeepsActive
<1>3. pc = "idle" \/ ~fwMeta.managed => loaded.firewall = phases.firewall
  BY <1>0 DEF PhaseInv, PhasesLoaded
<1>4. \A ps, r : FirewallState(r) = {} => Synchronized(ps, r).firewall = ps.firewall
  BY DEF Synchronized
<1>5. PhasesLoaded'
  <2>1. ASSUME pc' # "idle", ~fwMeta'.managed PROVE loaded'.firewall = phases'.firewall
    <3>1. CASE saved' # saved
      BY <1>0, <1>1, <2>1, <3>1 DEF Recording
    <3>2. CASE saved' = saved
      <4>1. ~memory'.fw.managed
        BY <1>1, <2>1 DEF RuleInv, MetaKnown
      <4>2. FirewallState(memory') = {}
        BY <4>1 DEF FirewallState
      <4>3. loaded.firewall = phases.firewall
        BY <1>1, <1>3, <2>1 DEF Keeping
      <4> QED
        BY <1>0, <1>4, <2>1, <3>2, <4>2, <4>3
    <3> QED
      BY <3>1, <3>2
  <2> QED
    BY <1>0, <2>1 DEF PhasesLoaded
<1>6. ClaimKnown'
  <2> SUFFICES ASSUME ~behind', ~OpenManaged' PROVE ClaimHolds(phases.firewall)'
    BY DEF ClaimKnown
  <2>1. CASE saved' = saved
    <3>1. ~behind /\ ~OpenManaged /\ phases' = phases
      BY <1>0, <2>1 DEF OpenManaged
    <3>2. ClaimHolds(phases.firewall) /\ ManagedPorts \subseteq ManagedPorts'
      BY <1>1, <3>1 DEF PhaseInv, ClaimKnown, Keeping
    <3> QED
      BY <1>2, <3>1, <3>2 DEF ClaimHolds, VerifyFirewall
  <2>2. CASE saved' # saved /\ FirewallState(saved') # {}
    <3>1. PICK ports : FirewallState(saved') = {ports}
      BY <2>2 DEF FirewallState
    <3>2. UNION {ports} = ports
      OBVIOUS
    <3>3. phases'.firewall = Managed(ports)
      BY <1>0, <2>2, <3>1, <3>2 DEF Synchronized
    <3>4. VerifyFirewall(ports) /\ UNCHANGED ufw
      BY <1>1, <2>2, <3>1 DEF Recording
    <3> QED
      BY <3>3, <3>4 DEF ClaimHolds, Managed, VerifyFirewall, ManagedPorts
  <2>3. CASE saved' # saved /\ FirewallState(saved') = {}
    <3>1. ~behind /\ ~LeftBehind(saved')
      BY <1>0, <2>3
    <3>2. ~saved'.fw.managed
      BY <2>3, <3>1 DEF OpenManaged, FirewallState, LeftBehind
    <3>3. UNCHANGED ufw /\ (pc = "idle" \/ ~fwMeta.managed)
      BY <1>1, <2>3, <3>2 DEF Recording
    <3>4. phases'.firewall = phases.firewall
      BY <1>0, <1>3, <1>4, <2>3, <3>3
    <3>5. ~OpenManaged
      BY <1>1, <2>3, <3>3 DEF Recording, OpenManaged, RuleInv, MetaKnown, Same
    <3>6. ClaimHolds(phases.firewall)
      BY <3>1, <3>5 DEF PhaseInv, ClaimKnown
    <3> QED
      BY <3>3, <3>4, <3>6 DEF ClaimHolds, VerifyFirewall, ManagedPorts
  <2> QED
    BY <2>1, <2>2, <2>3
<1>7. WorkKnown'
  BY <1>0 DEF WorkKnown
<1>8. Agrees(phases, saved)'
  <2>1. CASE saved' = saved
    BY <1>0, <2>1 DEF PhaseInv, Agrees
  <2>2. CASE saved' # saved
    <3>1. Agrees(Synchronized(loaded, saved'), saved')
      BY <1>1, SynchronizedAgrees DEF RuleInv, ClosedKnown
    <3> QED
      BY <1>0, <2>2, <3>1 DEF Agrees
  <2> QED
    BY <2>1, <2>2
<1> QED
  BY <1>5, <1>6, <1>7, <1>8 DEF PhaseInv

-----------------------------------------------------------------------------
(* ... and while commands run.  They keep the rules that are relied on.    *)

CommandSteps ==
    \/ StartTask \/ DeclineTask \/ RefuseTask \/ FirewallSteps \/ Fail2banSteps
    \/ SaveTask \/ EndTask \/ CrashTask

Relied == Claimed \cap ManagedPorts \subseteq ManagedPorts'

LEMMA CommandKeeps ==
    ASSUME OpsTypeOK, AllowInv, WorkKnown, CommandSteps
    PROVE  /\ UNCHANGED <<live, saved, memory, pc, plan, fwMeta, f2bMeta>> /\ pc = "idle"
           /\ ufw.active => ufw'.active
           /\ Relied
<1>0. /\ ufw \in [active : BOOLEAN, rules : [Port -> RuleKind]] /\ task \in Task
      /\ TypeOK
  BY DEF OpsTypeOK, TypeOK
<1> USE DEF Relied
<1>1. pc = "idle"
  BY DEF CommandSteps, AllowInv, OneProcess, StartTask, DeclineTask, RefuseTask,
     FirewallSteps, Fail2banSteps, PlanFirewall, PlanUnseen, AllowPort, EnableUfw,
     VerifyAndMark, UndoFirewall, DisableJail, PlanSettings, ApplySettings, VerifySettings,
     SaveTask,
     EndTask, CrashTask
<1>2. UNCHANGED <<live, saved, memory, pc, plan, fwMeta, f2bMeta>>
  <2>1. CASE StartTask \/ DeclineTask \/ EndTask
    BY <2>1 DEF StartTask, DeclineTask, EndTask, vars
  <2>2. CASE ~(StartTask \/ DeclineTask \/ EndTask)
    <3>1. Unchanged
      BY <2>2 DEF CommandSteps, RefuseTask, FirewallSteps, Fail2banSteps, PlanFirewall,
         PlanUnseen, AllowPort, EnableUfw, VerifyAndMark, UndoFirewall, DisableJail, PlanSettings,
         ApplySettings, VerifySettings, SaveTask, CrashTask
    <3> QED
      BY <3>1 DEF Unchanged, hostVars, recordVars, txnVars, metaVars
  <2> QED
    BY <2>1, <2>2
<1>3. (ufw.active => ufw'.active) /\ Relied
  <2>1. CASE AllowPort
    <3>1. PICK p : SetRules({p}, "managed") \/ UNCHANGED ufw
      BY <2>1 DEF AllowPort
    <3>2. ManagedPorts \subseteq ManagedPorts' /\ ufw'.active = ufw.active
      BY <1>0, <3>1, RulesSet DEF ManagedPorts
    <3> QED
      BY <3>2
  <2>2. CASE EnableUfw
    <3>1. ufw'.rules = ufw.rules /\ (ufw.active => ufw'.active)
      BY <1>0, <2>2 DEF EnableUfw
    <3> QED
      BY <3>1 DEF ManagedPorts
  <2>3. CASE UndoFirewall
    <3>1. PICK ports \in SUBSET work.attempted : SetRules(ports, "none")
      BY <2>3 DEF UndoFirewall
    <3>2. ufw'.active = ufw.active /\ ManagedPorts \ ports \subseteq ManagedPorts'
      BY <1>0, <3>1, RulesDeleted
    <3>3. Claimed \cap work.attempted = {}
      BY <2>3 DEF UndoFirewall, WorkKnown
    <3> QED
      BY <3>1, <3>2, <3>3
  <2>4. CASE ~(AllowPort \/ EnableUfw \/ UndoFirewall)
    <3>1. UNCHANGED ufw
      BY <2>4 DEF CommandSteps, StartTask, DeclineTask, EndTask, RefuseTask, FirewallSteps,
         Fail2banSteps, PlanFirewall, PlanUnseen, VerifyAndMark, DisableJail, PlanSettings,
         ApplySettings, VerifySettings, SaveTask, CrashTask, vars, ufwVars
    <3> QED
      BY <3>1 DEF ManagedPorts
  <2> QED
    BY <2>1, <2>2, <2>3, <2>4
<1> QED
  BY <1>1, <1>2, <1>3

(* While no process of the migration runs, the rules relied on are there.  *)
LEMMA ClaimedManaged ==
    ASSUME RuleInv, ClaimKnown, pc = "idle"
    PROVE  Claimed \subseteq ManagedPorts
<1>1. CASE OpenManaged
  BY <1>1 DEF OpenManaged, Claimed, RuleInv, RestoreKnown, Restorable
<1>2. CASE ~OpenManaged
  BY <1>2 DEF Claimed, ClaimKnown, ClaimHolds, VerifyFirewall
<1> QED
  BY <1>1, <1>2

LEMMA CommandRules ==
    ASSUME OpsTypeOK, AllowInv, RuleInv, ClaimKnown, WorkKnown, CommandSteps
    PROVE  RuleInv'
<1>1. /\ UNCHANGED <<live, saved, memory, pc, plan, fwMeta, f2bMeta>> /\ pc = "idle"
      /\ ufw.active => ufw'.active
      /\ Claimed \subseteq ManagedPorts'
  BY CommandKeeps, ClaimedManaged DEF Relied
<1>2. MetaKnown'
  BY <1>1 DEF RuleInv, MetaKnown
<1>3. RestoreKnown'
  <2>1. ASSUME saved.interrupted, saved.fw.managed PROVE Restorable(saved.fw, saved.old)'
    <3>1. Claimed = saved.fw.original \ saved.old
      BY <2>1 DEF Claimed, OpenManaged
    <3> QED
      BY <1>1, <2>1, <3>1 DEF RuleInv, RestoreKnown, Restorable
  <2>2. saved'.interrupted => Restorable(saved.fw, saved.old)'
    BY <1>1, <2>1 DEF Restorable
  <2> QED
    BY <1>1, <2>2 DEF RestoreKnown, Restoration
<1>4. FinalKnown' /\ ClosedKnown'
  BY <1>1 DEF RuleInv, FinalKnown, ClosedKnown
<1> QED
  BY <1>2, <1>3, <1>4 DEF RuleInv

(* A phase that a command leaves as it is stays true.                      *)
LEMMA ClaimStays ==
    ASSUME OpsTypeOK, AllowInv, WorkKnown, ClaimKnown, CommandSteps,
           UNCHANGED <<phases, behind>>
    PROVE  ClaimKnown'
<1>1. UNCHANGED saved /\ (ufw.active => ufw'.active) /\ Relied
  BY CommandKeeps
<1>2. ASSUME ~behind, ~OpenManaged, phases.firewall.status = "done",
             phases.firewall.mode = "managed"
      PROVE  VerifyFirewall(phases.firewall.ports)'
  <2>1. VerifyFirewall(phases.firewall.ports) /\ Claimed = phases.firewall.ports
    BY <1>2 DEF ClaimKnown, ClaimHolds, Claimed
  <2> QED
    BY <1>1, <2>1 DEF Relied, VerifyFirewall
<1> QED
  BY <1>1, <1>2 DEF ClaimKnown, ClaimHolds, OpenManaged

LEMMA CommandWork ==
    ASSUME OpsTypeOK, IInv, AllowInv, RuleInv, ClaimKnown, WorkKnown, CommandSteps
    PROVE  WorkKnown'
<1>0. /\ work \in Work /\ UNCHANGED <<saved, live>> /\ pc = "idle"
      /\ Claimed \subseteq ManagedPorts
  BY CommandKeeps, ClaimedManaged DEF OpsTypeOK
<1>1. UNCHANGED <<phases, behind>> => Claimed' = Claimed
  BY <1>0 DEF Claimed, OpenManaged
<1> DEFINE Apart(w) == Claimed \cap (w.todo \cup w.attempted) = {}
           Ports(w) == saved.interrupted \/ w.ports = live.ports
<1>2. ASSUME UNCHANGED <<phases, behind>>, Apart(work'), Ports(work') PROVE WorkKnown'
  BY <1>0, <1>1, <1>2 DEF WorkKnown
<1>3. CASE StartTask \/ EndTask \/ CrashTask \/ SaveTask
  BY <1>3 DEF StartTask, EndTask, CrashTask, NoTask, SaveTask, WorkKnown
<1>4. CASE DeclineTask \/ RefuseTask \/ DisableJail \/ UndoFirewall
  <2>1. \/ To("save_firewall", "skipped") \/ To("save_fail2ban", "skipped")
        \/ To("save_firewall", "failed") \/ To("save_fail2ban", "failed")
        \/ To("exit", "uncaught")
    BY <1>4 DEF DeclineTask, RefuseTask, DisableJail, UndoFirewall
  <2> QED
    BY <1>0, <2>1 DEF To, Work, WorkKnown
<1>5. CASE PlanFirewall
  <2>1. PICK ports \in SUBSET Port :
            /\ Found(ports)
            /\ work' = [NoWork EXCEPT !.ports = ports, !.todo = ports \ AllowedPorts,
                                      !.marked = marker # {}]
    BY <1>5 DEF PlanFirewall
  <2>2. work'.ports = ports /\ work'.todo = ports \ AllowedPorts /\ work'.attempted = {}
    BY <2>1 DEF NoWork
  <2>3. ManagedPorts \subseteq AllowedPorts
    BY DEF ManagedPorts, AllowedPorts
  <2>4. Apart(work')
    BY <1>0, <2>2, <2>3
  <2>5. Ports(work')
    BY <2>1, <2>2, FoundAreLive
  <2> QED
    BY <1>2, <1>5, <2>4, <2>5 DEF PlanFirewall
<1>6. CASE AllowPort
  <2>1. PICK p \in work.todo :
            work' = [work EXCEPT !.todo = @ \ {p}, !.attempted = @ \cup {p}]
    BY <1>6 DEF AllowPort
  <2>2. /\ work'.ports = work.ports
        /\ work'.todo \cup work'.attempted = work.todo \cup work.attempted
    BY <1>0, <2>1 DEF Work
  <2>3. Apart(work) /\ Ports(work)
    BY <1>6 DEF AllowPort, WorkKnown
  <2> QED
    BY <1>2, <1>6, <2>2, <2>3 DEF AllowPort
<1>7. CASE EnableUfw
  <2>1. work' = work /\ Apart(work) /\ Ports(work)
    BY <1>7 DEF EnableUfw, WorkKnown
  <2> QED
    BY <1>2, <1>7, <2>1 DEF EnableUfw
<1>8. CASE VerifyAndMark
  <2>1. Apart(work) /\ Ports(work)
    BY <1>8 DEF VerifyAndMark, WorkKnown
  <2>2. /\ work'.ports = work.ports /\ work'.todo = work.todo
        /\ work'.attempted = work.attempted
    BY <1>0, <1>8 DEF VerifyAndMark, To, Work
  <2> QED
    BY <1>2, <1>8, <2>1, <2>2 DEF VerifyAndMark
<1>9. CASE PlanSettings
  <2>1. PICK ports \in SUBSET Port :
            Found(ports) /\ work' = [NoWork EXCEPT !.ports = ports]
    BY <1>9 DEF PlanSettings
  <2>2. work'.ports = ports
    BY <2>1 DEF NoWork
  <2> QED
    BY <1>0, <1>9, <2>1, <2>2, FoundAreLive DEF PlanSettings, WorkKnown
<1>10. CASE ApplySettings \/ VerifySettings
  <2>1. Ports(work)
    BY <1>10 DEF ApplySettings, VerifySettings, WorkKnown
  <2>2. work'.ports = work.ports /\ task' \in {"f2b_verify", "save_fail2ban", "exit"}
    BY <1>0, <1>10 DEF ApplySettings, VerifySettings, To, Work
  <2> QED
    BY <1>0, <2>1, <2>2 DEF WorkKnown
<1>11. CASE PlanUnseen
  <2>1. PICK ports \in {Listeners, EffectivePorts(files.dropin)} :
          work' = [NoWork EXCEPT !.ports = ports, !.todo = ports, !.unseen = TRUE,
                                 !.marked = marker # {}]
    BY <1>11 DEF PlanUnseen
  <2>2. work'.ports = ports
    BY <2>1 DEF NoWork
  <2>3. Claimed = {}
    BY <1>0, <1>11 DEF PlanUnseen, InactiveRules, ManagedPorts
  <2>4. saved.interrupted \/ ports = live.ports
    BY DEF IInv, RecordCovers, Settled, Listeners
  <2> QED
    BY <1>2, <1>11, <2>2, <2>3, <2>4 DEF PlanUnseen
<1> QED
  BY <1>3, <1>4, <1>5, <1>6, <1>7, <1>8, <1>9, <1>10, <1>11
  DEF CommandSteps, FirewallSteps, Fail2banSteps

(* What a command records has been verified.                               *)
LEMMA SaveTaskPhases ==
    ASSUME OpsTypeOK, AllowInv, RuleInv, PhaseInv, SaveTask
    PROVE  ClaimKnown' /\ Agrees(phases, saved)'
<1>0. /\ UNCHANGED <<live, saved, ufw>> /\ work \in Work /\ loaded = phases
      /\ loaded \in Phases
      /\ task \in {"save_firewall", "save_fail2ban"}
      /\ work.result \in {"managed", "skipped", "failed"}
      /\ phases' \in {phases, loaded'}
      /\ behind' = (behind /\ (task # "save_firewall" \/ phases' # loaded'))
  BY DEF SaveTask, Unchanged, hostVars, recordVars, ufwVars, OpsTypeOK, AllowInv,
     ResultKnown, PhaseInv, PhasesLoaded
<1>1. /\ task = "save_firewall" =>
           /\ loaded'.firewall = Recorded(loaded.firewall, VerifyFirewall(work.ports))
           /\ loaded'.fail2ban = loaded.fail2ban
      /\ task = "save_fail2ban" =>
           /\ loaded'.fail2ban = Recorded(loaded.fail2ban, VerifyJail(work.ports))
           /\ loaded'.firewall = loaded.firewall
  BY <1>0 DEF SaveTask, Phases
<1>2. ASSUME NEW phase \in Phase, NEW verified \in BOOLEAN
      PROVE  /\ Recorded(phase, verified).mode = "managed" =>
                  \/ work.result = "managed" /\ Recorded(phase, verified).ports = work.ports
                  \/ phase.mode = "managed" /\ Recorded(phase, verified).ports = phase.ports
             /\ Recorded(phase, verified).mode = "managed"
                  /\ Recorded(phase, verified).status = "done" =>
                  verified /\ Recorded(phase, verified).ports = work.ports
  <2>1. CASE work.result = "skipped"
    BY <2>1 DEF Recorded, Skipped
  <2>2. CASE work.result = "failed"
    BY <2>2 DEF Recorded, Phase
  <2>3. CASE work.result = "managed"
    BY <2>3 DEF Recorded, Managed
  <2> QED
    BY <1>0, <2>1, <2>2, <2>3
<1>3. /\ VerifyFirewall(work.ports) \in BOOLEAN /\ VerifyJail(work.ports) \in BOOLEAN
      /\ loaded.firewall \in Phase /\ loaded.fail2ban \in Phase
  BY <1>0 DEF VerifyFirewall, VerifyJail, OpsTypeOK, TypeOK, Phases
<1>4. UNCHANGED ManagedPorts
  BY <1>0 DEF ManagedPorts
<1>5. ClaimKnown'
  <2> SUFFICES ASSUME ~behind', ~OpenManaged' PROVE ClaimHolds(phases.firewall)'
    BY DEF ClaimKnown
  <2>1. CASE phases' = loaded' /\ task = "save_firewall"
    <3> DEFINE recorded == Recorded(loaded.firewall, VerifyFirewall(work.ports))
    <3>1. phases'.firewall = recorded
      BY <1>1, <2>1
    <3>2. recorded.mode = "managed" /\ recorded.status = "done" =>
            VerifyFirewall(work.ports) /\ recorded.ports = work.ports
      BY <1>2, <1>3
    <3> HIDE DEF recorded
    <3>3. phases'.firewall.mode = "managed" /\ phases'.firewall.status = "done" =>
            VerifyFirewall(phases'.firewall.ports)
      BY <3>1, <3>2
    <3> QED
      BY <1>0, <1>4, <3>3 DEF ClaimHolds, VerifyFirewall
  <2>2. CASE ~(phases' = loaded' /\ task = "save_firewall")
    <3>1. ~behind /\ ~OpenManaged /\ phases'.firewall = phases.firewall
      BY <1>0, <1>1, <2>2 DEF OpenManaged
    <3>2. ClaimHolds(phases.firewall)
      BY <3>1 DEF PhaseInv, ClaimKnown
    <3> QED
      BY <1>0, <1>4, <3>1, <3>2 DEF ClaimHolds, VerifyFirewall
  <2> QED
    BY <2>1, <2>2
<1>6. Agrees(phases, saved)'
  <2>1. CASE phases' = phases
    BY <1>0, <2>1 DEF PhaseInv, Agrees
  <2>2. CASE phases' = loaded'
    <3>1. ASSUME saved.mode = "managed", ~saved.interrupted, work.result = "managed"
          PROVE  work.ports = saved.ports
      BY <1>0, <3>1 DEF PhaseInv, WorkKnown, RuleInv, ClosedKnown
    <3>2. Agrees(loaded, saved)
      BY <1>0 DEF PhaseInv
    <3> QED
      BY <1>0, <1>1, <1>2, <1>3, <2>2, <3>1, <3>2 DEF Agrees
  <2> QED
    BY <1>0, <2>1, <2>2
<1> QED
  BY <1>5, <1>6

LEMMA CommandPhases ==
    ASSUME OpsTypeOK, IInv, AllowInv, RuleInv, PhaseInv, CommandSteps
    PROVE  PhaseInv'
<1>0. UNCHANGED <<saved, pc>> /\ pc = "idle"
  BY CommandKeeps DEF PhaseInv
<1>1. WorkKnown'
  BY CommandWork DEF PhaseInv
<1>2. CASE SaveTask
  <2>1. PhasesLoaded'
    BY <1>0, <1>2 DEF SaveTask, PhasesLoaded
  <2> QED
    BY <1>1, <1>2, <2>1, SaveTaskPhases DEF PhaseInv
<1>3. CASE ~SaveTask
  <2>1. UNCHANGED <<phases, behind>>
    BY <1>3 DEF CommandSteps, StartTask, DeclineTask, EndTask, RefuseTask, FirewallSteps,
       Fail2banSteps, PlanFirewall, PlanUnseen, AllowPort, EnableUfw, VerifyAndMark,
       UndoFirewall, DisableJail, PlanSettings, ApplySettings, VerifySettings, CrashTask
  <2>2. PhasesLoaded'
    <3>1. CASE EndTask \/ CrashTask
      BY <1>0, <2>1, <3>1 DEF EndTask, CrashTask, NoTask, PhasesLoaded
    <3>2. CASE ~(EndTask \/ CrashTask)
      <4>1. UNCHANGED loaded /\ task # "exit" /\ task' # "none"
        BY <1>3, <3>2 DEF CommandSteps, StartTask, DeclineTask, RefuseTask, FirewallSteps,
           Fail2banSteps, PlanFirewall, PlanUnseen, AllowPort, EnableUfw, VerifyAndMark,
           UndoFirewall, DisableJail, PlanSettings, ApplySettings, VerifySettings, To
      <4>2. loaded = phases
        BY <1>0, <4>1 DEF PhaseInv, PhasesLoaded
      <4> QED
        BY <1>0, <2>1, <4>1, <4>2 DEF PhasesLoaded
    <3> QED
      BY <3>1, <3>2
  <2>3. ClaimKnown'
    BY <2>1, ClaimStays DEF PhaseInv
  <2>4. Agrees(phases, saved)'
    BY <1>0, <2>1 DEF PhaseInv, Agrees
  <2> QED
    BY <1>1, <2>2, <2>3, <2>4 DEF PhaseInv
<1> QED
  BY <1>2, <1>3

LEMMA RebootPhases ==
    ASSUME RuleInv, PhaseInv, RebootAll PROVE PhaseInv'
<1>1. /\ UNCHANGED <<ufw, saved, phases, behind>> /\ loaded' = phases
      /\ pc' = "idle" /\ task' = "none"
  BY DEF RebootAll, Reboot, NoTask, ufwVars
<1>2. ClaimKnown'
  BY <1>1 DEF PhaseInv, ClaimKnown, ClaimHolds, OpenManaged, VerifyFirewall, ManagedPorts
<1> QED
  BY <1>1, <1>2 DEF PhaseInv, PhasesLoaded, WorkKnown, Agrees

LEMMA InitPhases == OpsInit => PhaseInv
<1> SUFFICES ASSUME OpsInit PROVE PhaseInv
  OBVIOUS
<1>1. /\ task = "none" /\ pc = "idle" /\ loaded = phases /\ saved = NoRecord
      /\ NoRecord.mode = "none"
      /\ phases.firewall = IF marker = {} THEN Pending ELSE Managed(marker)
  BY DEF OpsInit, Init, NoRecord
<1>2. marker # {} => VerifyFirewall(marker)
  BY DEF OpsInit, Init, VerifyFirewall, ManagedPorts
<1>3. ClaimKnown
  BY <1>1, <1>2 DEF ClaimKnown, ClaimHolds, Pending, Managed
<1> QED
  BY <1>1, <1>3 DEF PhaseInv, PhasesLoaded, WorkKnown, Agrees

LEMMA OpsNextRules ==
    OpsTypeOK /\ IInv /\ OpsInv /\ [OpsNext]_<<vars, taskVars>> => RuleInv' /\ PhaseInv'
<1> SUFFICES ASSUME OpsTypeOK, IInv, AllowInv, RuleInv, PhaseInv,
                    [OpsNext]_<<vars, taskVars>>
             PROVE  RuleInv' /\ PhaseInv'
  BY DEF OpsInv
<1>1. CASE MigrationSteps
  BY <1>1, MigrationIsNext, NextRules, MigrationPhases DEF OpsTypeOK
<1>2. CASE RebootAll
  BY <1>2, NextRules, RebootPhases DEF OpsTypeOK, RebootAll, Next
<1>3. CASE CommandSteps
  BY <1>3, CommandRules, CommandPhases DEF PhaseInv
<1>4. CASE UNCHANGED <<vars, taskVars>>
  <2>1. UNCHANGED <<live, ufw, saved, memory, pc, plan, fwMeta, f2bMeta, task, work, phases,
                    behind, loaded>>
    BY <1>4 DEF vars, taskVars
  <2>2. RuleInv'
    BY <2>1, SameRules
    DEF RuleInv, MetaKnown, RestoreKnown, FinalKnown, ClosedKnown
  <2>3. PhaseInv'
    BY <2>1 DEF PhaseInv, PhasesLoaded, ClaimKnown, ClaimHolds, WorkKnown, Claimed,
       OpenManaged, VerifyFirewall, ManagedPorts, Agrees
  <2> QED
    BY <2>2, <2>3
<1> QED
  BY <1>1, <1>2, <1>3, <1>4 DEF OpsNext, CommandSteps

(* The inductive invariant of the commands and the migrations together:    *)
(* besides what is allowed before UFW is enabled, the open record covers   *)
(* the rules that are deleted, and what closes it has been verified.       *)
THEOREM OpsInductive == OpsSpec => [](OpsTypeOK /\ IInv /\ OpsInv)
<1>1. OpsInit => OpsTypeOK /\ IInv /\ OpsInv
  BY OpsInitType, InitInductive, OpsInitInv, InitRules, InitPhases DEF OpsInit, OpsInv
<1>2. /\ OpsTypeOK /\ IInv /\ OpsInv /\ [OpsNext]_<<vars, taskVars>>
      => (OpsTypeOK /\ IInv /\ OpsInv)'
  BY OpsNextType, OpsNextInductive, OpsNextInv, OpsNextRules DEF OpsInv, AllowInv
<1> QED
  BY <1>1, <1>2, PTL DEF OpsSpec

(* A firewall phase recorded as done verifies on the host, whatever        *)
(* commands, migrations, rollbacks, failures and crashes ran since, unless *)
(* a migration is interrupted or a rollback left the phase behind.         *)
THEOREM FirewallPhaseHolds == OpsSpec => []FirewallPhaseTrue
<1>1. OpsInv => FirewallPhaseTrue
  BY DEF OpsInv, PhaseInv, ClaimKnown, FirewallPhaseTrue, Resting, OpenManaged
<1> QED
  BY <1>1, OpsInductive, PTL

(* The firewall and fail2ban phases name the ports of the SSH record after *)
(* every migration that ended as managed, whatever commands ran since.     *)
THEOREM PhasesStayAgreed == OpsSpec => []PhasesAgree
<1>1. OpsInv => PhasesAgree
  BY DEF OpsInv, PhaseInv, PhasesAgree, Resting
<1> QED
  BY <1>1, OpsInductive, PTL
=============================================================================
