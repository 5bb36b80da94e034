---------------------------- MODULE Records_proofs ----------------------------
(***************************************************************************)
(* What a closed record says of the host is true, for any ports, hosts and *)
(* bounds: the invariant RecordInv behind DoneAgrees, RolledBackAgrees and *)
(* PendingIsComplete, and BothPortsOpen behind OldPortsKeptUntilConfirmed. *)
(***************************************************************************)
EXTENDS SSHMigration_proofs

(* Before the firewall is touched, after the final jail and the final      *)
(* rules, and within a rollback.                                           *)
Early == {"idle", "planned", "backup", "backed", "applying", "fw_prepare"}
JailFinal == {"f2b_finalized", "fw_finalizing", "fw_finalize", "fw_finalized", "verify",
              "verified"}
RulesFinal == {"fw_finalized", "verify", "verified"}
RestoringSteps == {"rb_ssh", "rb_jail", "rb_cleanup", "rolled_back", "recovered"}

(* What a record says stays true while the host stays as it is.            *)
LEMMA HoldsStays ==
    ASSUME UNCHANGED <<live, ufw, marker, jail, saved>>, RecordHolds(saved)
    PROVE  RecordHolds(saved)'
BY DEF RecordHolds, ManagedHolds, RestoredHolds, VerifyFirewall, ManagedPorts

(* A save of the migration's state.                                        *)
LEMMA StateRecord ==
    ASSUME RecordInv, NEW stage, NEW from, NEW to, NEW onFailure,
           Save(from, MigrationState(stage), to, onFailure),
           to \in Early => from \in Early,
           to \in JailFinal => from \in JailFinal,
           to \in RulesFinal => from \in RulesFinal,
           to # "verified", to \notin RestoringSteps,
           onFailure \in {"exit", "raised"}
    PROVE  RecordInv'
<1>1. /\ MigrationState(stage).interrupted
      /\ MigrationState(stage).fw = fwMeta /\ MigrationState(stage).old = plan.old
  BY DEF MigrationState
<1>2. /\ UNCHANGED <<live, ufw, marker, jail, plan, fwMeta, f2bMeta>>
      /\ memory' = MigrationState(stage) /\ saved' \in {saved, memory'}
      /\ pc = from /\ pc' \in {to, onFailure}
  BY DEF Save, hostVars, ufwVars, txnVars, metaVars
<1>3. RecordsHold'
  BY <1>1, <1>2, HoldsStays DEF RecordInv, RecordsHold
<1>4. RulesKnown'
  BY <1>1, <1>2 DEF RecordInv, RulesKnown, RulesApart, Early
<1>5. FinalSteps'
  BY <1>2 DEF RecordInv, FinalSteps, JailFinal, RulesFinal, Stale, ManagedPorts
<1>6. UndoSteps'
  BY <1>2 DEF RecordInv, UndoSteps, RestoringSteps
<1> QED
  BY <1>3, <1>4, <1>5, <1>6 DEF RecordInv

(* A save that closes the record with what holds.                          *)
LEMMA CloseRecord ==
    ASSUME RecordInv, NEW from, NEW record, NEW to, NEW onFailure,
           Save(from, record, to, onFailure), RecordHolds(record),
           RulesApart(record.fw, record.old),
           {to, onFailure} \subseteq {"exit", "raised", "finished"}
    PROVE  RecordInv'
<1>1. /\ UNCHANGED <<live, ufw, marker, jail, plan, fwMeta, f2bMeta>>
      /\ memory' = record /\ saved' \in {saved, record}
      /\ pc = from /\ pc' \in {to, onFailure}
  BY DEF Save, hostVars, ufwVars, txnVars, metaVars
<1>2. RecordHolds(memory)'
  BY <1>1 DEF RecordHolds, ManagedHolds, RestoredHolds, VerifyFirewall, ManagedPorts
<1>3. RecordsHold'
  BY <1>1, <1>2, HoldsStays DEF RecordInv, RecordsHold
<1>4. RulesKnown'
  BY <1>1 DEF RecordInv, RulesKnown, RulesApart
<1>5. FinalSteps' /\ UndoSteps'
  BY <1>1 DEF FinalSteps, UndoSteps
<1> QED
  BY <1>3, <1>4, <1>5 DEF RecordInv

(* The rollback is recorded when the old ports are open again.             *)
LEMMA OldPortsAreBack ==
    ASSUME IInv, UndoInv, pc \in {"rolled_back", "recovered"}, ~BlindDiscovery
    PROVE  live.ports = plan.old
<1>1. Settled /\ Undone /\ LeadsToOld(backups, plan.old)
  BY DEF IInv, StepsSettle, TargetsKnown, UndoInv, MemoryTrue
<1> QED
  BY <1>1 DEF Settled, Started, Undone, LeadsToOld

LEMMA EndsRecord ==
    ASSUME IInv, UndoInv, RecordInv, SaveDone \/ SaveRolledBack \/ SaveRecovered
    PROVE  RecordInv'
<1>1. CASE SaveDone
  <2> DEFINE record == [MigrationState("done") EXCEPT
                          !.mode = "managed", !.interrupted = FALSE,
                          !.backups = NoBackups, !.ports = plan.final]
  <2>1. /\ record.mode = "managed" /\ record.old = plan.old /\ record.ports = plan.final
        /\ record.fw = fwMeta /\ record.f2b = f2bMeta
    BY DEF MigrationState
  <2>2. pc = "verified" /\ Save("verified", record, "finished", "raised")
    BY <1>1 DEF SaveDone, Save
  <2> HIDE DEF record
  <2>3. ManagedHolds(record)
    BY <2>1, <2>2 DEF RecordInv, FinalSteps, ManagedHolds, Stale
  <2>4. RecordHolds(record) /\ RulesApart(record.fw, record.old)
    BY <2>1, <2>3 DEF RecordHolds, RecordInv, RulesKnown
  <2> QED
    BY <2>2, <2>4, CloseRecord
<1>2. CASE SaveRolledBack
  <2> DEFINE record == [MigrationState("rolled_back") EXCEPT
                          !.interrupted = FALSE, !.ports = plan.old]
  <2>1. /\ record.mode = "migration" /\ record.old = plan.old
        /\ record.fw = fwMeta /\ record.f2b = f2bMeta
    BY DEF MigrationState
  <2>2. pc = "rolled_back" /\ Save("rolled_back", record, "exit", "exit")
    BY <1>2 DEF SaveRolledBack, Save
  <2> HIDE DEF record
  <2>3. RestoredHolds(record)
    BY <2>1, <2>2, OldPortsAreBack DEF RecordInv, UndoSteps, RestoredHolds
  <2>4. RecordHolds(record) /\ RulesApart(record.fw, record.old)
    BY <2>1, <2>3 DEF RecordHolds, RecordInv, RulesKnown
  <2> QED
    BY <2>2, <2>4, CloseRecord
<1>3. CASE SaveRecovered
  <2> DEFINE record == [NoRecord EXCEPT !.mode = "skipped", !.old = plan.old,
                                        !.fw = fwMeta, !.f2b = f2bMeta]
  <2>1. /\ record.mode = "skipped" /\ record.old = plan.old
        /\ record.fw = fwMeta /\ record.f2b = f2bMeta
    BY DEF NoRecord
  <2>2. pc = "recovered" /\ Save("recovered", record, "finished", "exit")
    BY <1>3 DEF SaveRecovered, Save
  <2> HIDE DEF record
  <2>3. RestoredHolds(record)
    BY <2>1, <2>2, OldPortsAreBack DEF RecordInv, UndoSteps, RestoredHolds
  <2>4. RecordHolds(record) /\ RulesApart(record.fw, record.old)
    BY <2>1, <2>3 DEF RecordHolds, RecordInv, RulesKnown
  <2> QED
    BY <2>2, <2>4, CloseRecord
<1> QED
  BY <1>1, <1>2, <1>3

LEMMA SavesRecord == ASSUME TypeOK, IInv, UndoInv, RecordInv, Saves PROVE RecordInv'
<1> USE DEF Early, JailFinal, RulesFinal, RestoringSteps
<1>1. ASSUME \/ SavePlanned \/ SaveBackups \/ SaveApplying \/ SaveFirewall \/ SaveJail
             \/ SaveAwaiting \/ SaveFinalizing
      PROVE  RecordInv'
  BY <1>1, StateRecord
  DEF SavePlanned, SaveBackups, SaveApplying, SaveFirewall, SaveJail, SaveAwaiting,
      SaveFinalizing
<1>2. CASE SaveActive
  BY <1>2, StateRecord DEF SaveActive
<1>3. CASE SaveJailFinal
  BY <1>3, StateRecord DEF SaveJailFinal
<1>4. CASE SaveFirewallFinalizing
  BY <1>4, StateRecord DEF SaveFirewallFinalizing
<1>5. CASE SaveFirewallFinal
  BY <1>5, StateRecord DEF SaveFirewallFinal
<1>6. CASE SaveRollbackStarted \/ SaveRollbackFailed
  BY <1>6, StateRecord DEF SaveRollbackStarted, SaveRollbackFailed
<1> QED
  BY <1>1, <1>2, <1>3, <1>4, <1>5, <1>6, EndsRecord DEF Saves

-----------------------------------------------------------------------------
(* A step of the open transaction that saves nothing.                      *)
LEMMA StepRecord ==
    ASSUME RecordInv, saved.interrupted, UNCHANGED <<saved, memory, plan>>,
           pc' = "exit" => memory.interrupted,
           pc' \in Early => ~fwMeta'.managed,
           RulesApart(fwMeta, plan.old)', FinalSteps', UndoSteps'
    PROVE  RecordInv'
<1>1. RecordsHold'
  BY DEF RecordInv, RecordsHold
<1>2. RulesKnown'
  BY DEF RecordInv, RulesKnown, RulesApart, Early
<1> QED
  BY <1>1, <1>2 DEF RecordInv

(* ... and that changes no rule and no jail that was written before.       *)
LEMMA QuietRecord ==
    ASSUME RecordInv, saved.interrupted, UNCHANGED <<saved, memory, plan, fwMeta>>,
           pc' = "exit" => memory.interrupted,
           pc' \notin JailFinal \cup RestoringSteps,
           pc' \in Early => pc \in Early
    PROVE  RecordInv'
<1>1. RulesApart(fwMeta, plan.old)' /\ (pc' \in Early => ~fwMeta'.managed)
  BY DEF RecordInv, RulesKnown, RulesApart, Early
<1>2. FinalSteps' /\ UndoSteps'
  BY DEF FinalSteps, UndoSteps, JailFinal, RestoringSteps
<1> QED
  BY <1>1, <1>2, StepRecord

LEMMA ForwardRecord ==
    ASSUME TypeOK, IInv, UndoInv, RecordInv,
           \/ BackupFiles \/ PrepareFirewall \/ WriteTransition \/ RefuseTransition
           \/ ApplyTransition \/ PrepareJail \/ ConfirmLogin \/ ConfirmSudo \/ Decline
           \/ WriteFinal \/ ApplyFinal \/ FinalizeJail \/ FinalizeFirewall
           \/ VerifyComponents
    PROVE  RecordInv'
<1> USE DEF Early, JailFinal, RestoringSteps
<1>0. pc \notin {"idle", "planned", "raised", "exit", "finished"} => saved.interrupted
  BY DEF IInv, RecordCovers
<1>1. CASE BackupFiles
  <2>1. memory.interrupted
    BY <1>1 DEF BackupFiles, Goto, UndoInv, MemoryTrue
  <2> QED
    BY <1>0, <1>1, <2>1, QuietRecord DEF BackupFiles, Goto, recordVars, metaVars
<1>2. CASE PrepareFirewall
  <2>1. /\ UNCHANGED <<saved, memory, plan>> /\ pc = "fw_prepare"
        /\ pc' \in {"fw_prepared", "raised"}
    BY <1>2 DEF PrepareFirewall, recordVars, txnVars
  <2>2. RulesApart(fwMeta, plan.old)'
    BY <1>2, <2>1
    DEF PrepareFirewall, RecordInv, RulesKnown, RulesApart, ManagedPorts, AllowedPorts, txnVars
  <2>3. FinalSteps' /\ UndoSteps'
    BY <2>1 DEF FinalSteps, UndoSteps
  <2> QED
    BY <1>0, <2>1, <2>2, <2>3, StepRecord
<1>3. CASE RefuseTransition \/ ConfirmLogin \/ ConfirmSudo \/ Decline
  BY <1>0, <1>3, QuietRecord
  DEF RefuseTransition, ConfirmLogin, ConfirmSudo, Decline, Goto, recordVars, txnVars,
      metaVars
<1>4. CASE WriteTransition \/ WriteFinal
  BY <1>0, <1>4, QuietRecord
  DEF WriteTransition, WriteFinal, WriteConfig, Goto, recordVars, txnVars, metaVars
<1>5. CASE ApplyTransition \/ ApplyFinal
  BY <1>0, <1>5, QuietRecord
  DEF ApplyTransition, ApplyFinal, ApplyConfig, Goto, recordVars, txnVars, metaVars
<1>6. CASE PrepareJail
  BY <1>0, <1>6, QuietRecord DEF PrepareJail, ApplyJail, Goto, recordVars, txnVars
<1>7. CASE FinalizeJail
  <2>1. /\ UNCHANGED <<saved, memory, plan, fwMeta>> /\ pc = "f2b_finalize"
        /\ pc' \in {"f2b_finalized", "raised"}
        /\ pc' = "f2b_finalized" /\ f2bMeta'.managed => jail' = JailOf(plan.final)
    BY <1>7 DEF FinalizeJail, ApplyJail, Goto, recordVars, txnVars
  <2>2. RulesApart(fwMeta, plan.old)'
    BY <2>1 DEF RecordInv, RulesKnown, RulesApart
  <2>3. FinalSteps' /\ UndoSteps'
    BY <2>1 DEF FinalSteps, UndoSteps, JailOf
  <2> QED
    BY <1>0, <2>1, <2>2, <2>3, StepRecord
<1>8. CASE FinalizeFirewall
  <2>1. /\ UNCHANGED <<saved, memory, plan, f2bMeta, jail, live>> /\ pc = "fw_finalize"
        /\ pc' \in {"fw_finalized", "raised"}
    BY <1>8 DEF FinalizeFirewall, Goto, recordVars, txnVars, hostVars
  <2>2. RulesApart(fwMeta, plan.old)'
    BY <1>8, <2>1
    DEF FinalizeFirewall, FinalMeta, RecordInv, RulesKnown, RulesApart, TypeOK, FwMeta
  <2>3. ASSUME pc' = "fw_finalized", fwMeta'.managed
        PROVE  marker' = plan.final /\ Stale \cap ManagedPorts' \subseteq fwMeta'.pending
    <3>1. fwMeta.managed
      BY <1>8, <2>3 DEF FinalizeFirewall, Goto
    <3>2. PICK kept \in SUBSET (Stale \cap ManagedPorts) :
            /\ DeleteRules(Stale, kept)
            /\ marker' = plan.final
            /\ fwMeta' = [fwMeta EXCEPT !.final = plan.final, !.pending = kept]
      BY <1>8, <2>3, <3>1 DEF FinalizeFirewall, Goto, FinalMarker, FinalMeta
    <3>3. fwMeta'.pending = kept
      BY <3>2 DEF TypeOK, FwMeta
    <3>4. Stale \cap ManagedPorts' \subseteq kept
      BY <3>2 DEF DeleteRules, SetRules, ManagedPorts, TypeOK
    <3> QED
      BY <3>2, <3>3, <3>4
  <2>4. FinalSteps'
    BY <2>1, <2>3 DEF FinalSteps, RecordInv, Stale, JailOf
  <2>5. UndoSteps'
    BY <2>1 DEF UndoSteps
  <2> QED
    BY <1>0, <2>1, <2>2, <2>4, <2>5, StepRecord
<1>9. CASE VerifyComponents
  <2>1. /\ UNCHANGED <<saved, memory, plan, fwMeta, f2bMeta, jail, live, ufw, marker>>
        /\ pc = "verify" /\ pc' \in {"verified", "raised"}
        /\ pc' = "verified" => FinalStateHolds
    BY <1>9 DEF VerifyComponents, Goto, recordVars, txnVars, hostVars, ufwVars, metaVars
  <2>2. RulesApart(fwMeta, plan.old)'
    BY <2>1 DEF RecordInv, RulesKnown, RulesApart
  <2>3. FinalSteps'
    BY <2>1
    DEF FinalSteps, RecordInv, FinalStateHolds, VerifyFirewall, ManagedPorts, Stale, JailOf
  <2>4. UndoSteps'
    BY <2>1 DEF UndoSteps
  <2> QED
    BY <1>0, <2>1, <2>2, <2>3, <2>4, StepRecord
<1> QED
  BY <1>1, <1>2, <1>3, <1>4, <1>5, <1>6, <1>7, <1>8, <1>9

LEMMA RollbackRecord ==
    ASSUME TypeOK, IInv, UndoInv, RecordInv,
           RestoreFirewall \/ RollbackSsh \/ RollbackJail \/ CleanupFirewall
    PROVE  RecordInv'
<1>1. pc \in {"rb_firewall", "rb_ssh", "rb_jail", "rb_cleanup"}
        => saved.interrupted /\ memory.interrupted
  BY DEF IInv, RecordCovers
<1> USE DEF Early
<1>2. CASE RestoreFirewall
  <2>1. /\ UNCHANGED <<saved, memory, plan, fwMeta, f2bMeta>>
        /\ pc = "rb_firewall" /\ pc' \in {"rb_ssh", "exit", "rb_failed"}
    BY <1>2 DEF RestoreFirewall, RollbackFailed, Goto, recordVars, txnVars, metaVars
  <2>2. RulesApart(fwMeta, plan.old)'
    BY <2>1 DEF RecordInv, RulesKnown, RulesApart
  <2>3. ASSUME pc' = "rb_ssh", fwMeta.managed
        PROVE  fwMeta.oldManaged \subseteq ManagedPorts'
    <3> DEFINE lost == {p \in plan.old : ufw.rules[p] # "managed"
                          /\ (p \in fwMeta.oldManaged \/ ufw.rules[p] = "none")}
    <3>1. ufw.active /\ SetRules(lost, "managed")
      BY <1>2, <2>3 DEF RestoreFirewall, RollbackFailed, Goto
    <3>2. fwMeta.oldManaged \subseteq plan.old /\ plan.old \subseteq Port
      BY <2>3 DEF RecordInv, RulesKnown, RulesApart, TypeOK, Plan
    <3> QED
      BY <3>1, <3>2 DEF SetRules, ManagedPorts, TypeOK
  <2>4. FinalSteps' /\ UndoSteps'
    BY <2>1, <2>3 DEF FinalSteps, UndoSteps
  <2> QED
    BY <1>1, <2>1, <2>2, <2>4, StepRecord
<1>3. CASE RollbackSsh
  <2>1. /\ UNCHANGED <<saved, memory, plan, fwMeta, f2bMeta, ufw>>
        /\ pc = "rb_ssh" /\ pc' \in {"rb_jail", "exit", "rb_failed"}
    BY <1>3 DEF RollbackSsh, RollbackFailed, Goto, recordVars, txnVars, metaVars, ufwVars
  <2>2. RulesApart(fwMeta, plan.old)'
    BY <2>1 DEF RecordInv, RulesKnown, RulesApart
  <2>3. FinalSteps' /\ UndoSteps'
    BY <2>1 DEF FinalSteps, UndoSteps, RecordInv, ManagedPorts
  <2> QED
    BY <1>1, <2>1, <2>2, <2>3, StepRecord
<1>4. CASE RollbackJail
  <2>1. /\ UNCHANGED <<saved, memory, plan, fwMeta, f2bMeta, ufw>>
        /\ pc = "rb_jail" /\ pc' \in {"rb_cleanup", "exit", "rb_failed"}
        /\ pc' = "rb_cleanup" /\ f2bMeta.managed => jail' = JailOf(f2bMeta.original)
    BY <1>4 DEF RollbackJail, RollbackFailed, Goto, recordVars, txnVars, metaVars, ufwVars
  <2>2. RulesApart(fwMeta, plan.old)'
    BY <2>1 DEF RecordInv, RulesKnown, RulesApart
  <2>3. FinalSteps' /\ UndoSteps'
    BY <2>1 DEF FinalSteps, UndoSteps, RecordInv, ManagedPorts, JailOf
  <2> QED
    BY <1>1, <2>1, <2>2, <2>3, StepRecord
<1>5. CASE CleanupFirewall
  <2>1. /\ UNCHANGED <<saved, memory, plan, f2bMeta, jail>> /\ pc = "rb_cleanup"
        /\ pc' \in {"rolled_back", "recovered", "exit", "rb_failed"}
    BY <1>5 DEF CleanupFirewall, RollbackFailed, Goto, recordVars, txnVars, hostVars
  <2>2. RulesApart(fwMeta, plan.old)'
    BY <1>5, <2>1 DEF CleanupFirewall, RecordInv, RulesKnown, RulesApart, TypeOK, FwMeta
  <2>3. ASSUME pc' \in {"rolled_back", "recovered"}, fwMeta'.managed
        PROVE  /\ fwMeta'.oldManaged \subseteq ManagedPorts'
               /\ fwMeta'.added \cap ManagedPorts' \subseteq fwMeta'.pending
    <3>1. fwMeta.managed
      BY <1>5, <2>3 DEF CleanupFirewall, Goto, RollbackFailed
    <3>2. PICK kept \in SUBSET (fwMeta.added \cap ManagedPorts) :
            /\ DeleteRules(fwMeta.added, kept)
            /\ \/ fwMeta' = [fwMeta EXCEPT !.pending = kept, !.restored = TRUE]
               \/ fwMeta' = [fwMeta EXCEPT !.pending =
                               IF kept = {} THEN fwMeta.added ELSE kept]
      BY <1>5, <2>3, <3>1 DEF CleanupFirewall, Goto, RollbackFailed
    <3>3. /\ fwMeta'.oldManaged = fwMeta.oldManaged /\ fwMeta'.added = fwMeta.added
          /\ kept \subseteq fwMeta'.pending
      BY <3>2 DEF TypeOK, FwMeta
    <3>4. /\ fwMeta.oldManaged \subseteq ManagedPorts
          /\ fwMeta.added \cap fwMeta.oldManaged = {}
      BY <2>1, <3>1 DEF RecordInv, UndoSteps, RulesKnown, RulesApart
    <3>5. fwMeta.oldManaged \subseteq ManagedPorts'
      BY <3>2, <3>4 DEF DeleteRules, SetRules, ManagedPorts, TypeOK
    <3>6. fwMeta.added \cap ManagedPorts' \subseteq kept
      BY <3>2 DEF DeleteRules, SetRules, ManagedPorts, TypeOK
    <3> QED
      BY <3>3, <3>5, <3>6
  <2>4. UndoSteps'
    BY <2>1, <2>3 DEF UndoSteps, RecordInv, JailOf
  <2>5. FinalSteps'
    BY <2>1 DEF FinalSteps
  <2> QED
    BY <1>1, <2>1, <2>2, <2>4, <2>5, StepRecord
<1> QED
  BY <1>2, <1>3, <1>4, <1>5

-----------------------------------------------------------------------------
(* A process that ends leaves the record alone, or as it was in memory.    *)
LEMMA ForgetRecord ==
    ASSUME NEW record, Forget(record), pc' = "idle", RulesApart(saved.fw, saved.old)',
           ~saved'.interrupted => RecordHolds(saved)'
    PROVE  RecordInv'
<1>1. /\ ~fwMeta'.managed /\ ~f2bMeta'.managed /\ ~memory'.fw.managed
  BY DEF Forget, NoFwMeta, NoF2bMeta, NoRecord
<1> QED
  BY <1>1 DEF RecordInv, RecordsHold, RulesKnown, RulesApart, FinalSteps, UndoSteps

LEMMA ExitRecord == ASSUME TypeOK, IInv, UndoInv, RecordInv, Exit PROVE RecordInv'
<1>1. /\ UNCHANGED <<live, ufw, marker, jail>> /\ Forget(saved') /\ pc' = "idle"
      /\ saved' \in {saved, memory, [memory EXCEPT !.stage = "none"]}
      /\ pc = "exit" => saved' \in {saved, memory}
      /\ pc \in {"exit", "finished"}
  BY DEF Exit, hostVars, ufwVars
<1>2. \A r \in {memory, [memory EXCEPT !.stage = "none"]} :
        /\ r.interrupted = memory.interrupted /\ r.mode = memory.mode
        /\ r.old = memory.old /\ r.ports = memory.ports
        /\ r.fw = memory.fw /\ r.f2b = memory.f2b
  BY DEF TypeOK, Record
<1>3. RulesApart(saved.fw, saved.old)'
  BY <1>1, <1>2 DEF RecordInv, RulesKnown, RulesApart
<1>4. ASSUME ~saved'.interrupted PROVE RecordHolds(saved)'
  <2>1. CASE saved' = saved
    BY <1>1, <1>4, <2>1, HoldsStays DEF RecordInv, RecordsHold
  <2>2. CASE saved' # saved
    <3>1. RecordHolds(memory)
      BY <1>1, <1>2, <1>4, <2>2 DEF RecordInv, RecordsHold, UndoInv, MemoryTrue
    <3>2. /\ saved'.mode = memory.mode /\ saved'.old = memory.old
          /\ saved'.ports = memory.ports /\ saved'.fw = memory.fw
          /\ saved'.f2b = memory.f2b
      BY <1>1, <1>2, <2>2
    <3> QED
      BY <1>1, <3>1, <3>2
      DEF RecordHolds, ManagedHolds, RestoredHolds, VerifyFirewall, ManagedPorts
  <2> QED
    BY <2>1, <2>2
<1> QED
  BY <1>1, <1>3, <1>4, ForgetRecord

LEMMA StartRecord ==
    ASSUME TypeOK, IInv, UndoInv, RecordInv,
           \/ KeepCurrent \/ StartMigration \/ StartRecovery \/ Crash \/ Reboot
    PROVE  RecordInv'
<1>1. CASE KeepCurrent
  <2> DEFINE record == [NoRecord EXCEPT !.mode = "managed",
                          !.old = EffectivePorts(files.dropin),
                          !.ports = EffectivePorts(files.dropin)]
  <2>1. /\ UNCHANGED <<live, ufw, marker, jail, memory, pc, plan, fwMeta, f2bMeta>>
        /\ saved' \in {saved, record} /\ live.ports = EffectivePorts(files.dropin)
        /\ pc = "idle" /\ ~saved.interrupted
    BY <1>1 DEF KeepCurrent, hostVars, ufwVars, txnVars, metaVars
  <2>2. /\ record.mode = "managed" /\ record.ports = live.ports
        /\ ~record.fw.managed /\ ~record.f2b.managed
    BY <2>1 DEF NoRecord, NoFwMeta, NoF2bMeta
  <2> HIDE DEF record
  <2>3. RecordHolds(saved)'
    <3>1. CASE saved' = saved
      BY <2>1, <3>1, HoldsStays DEF RecordInv, RecordsHold
    <3>2. CASE saved' = record
      BY <2>1, <2>2, <3>2 DEF RecordHolds, ManagedHolds
    <3> QED
      BY <2>1, <3>1, <3>2
  <2>4. RulesKnown'
    BY <2>1, <2>2 DEF RecordInv, RulesKnown, RulesApart
  <2>5. RecordsHold' /\ FinalSteps' /\ UndoSteps'
    BY <2>1, <2>3 DEF RecordsHold, FinalSteps, UndoSteps
  <2> QED
    BY <2>4, <2>5 DEF RecordInv
<1>2. CASE StartMigration
  <2>1. /\ UNCHANGED <<live, ufw, marker, jail, saved, memory, fwMeta, f2bMeta>>
        /\ pc = "idle" /\ pc' = "planned" /\ ~saved.interrupted
    BY <1>2 DEF StartMigration, hostVars, ufwVars, recordVars, metaVars
  <2>2. RecordsHold'
    BY <2>1, HoldsStays DEF RecordInv, RecordsHold
  <2>3. RulesKnown'
    BY <2>1 DEF RecordInv, RulesKnown, RulesApart
  <2>4. FinalSteps' /\ UndoSteps'
    BY <2>1 DEF FinalSteps, UndoSteps
  <2> QED
    BY <2>2, <2>3, <2>4 DEF RecordInv
<1>3. CASE StartRecovery
  <2>1. /\ UNCHANGED saved /\ saved.interrupted /\ memory' = saved
        /\ plan'.old = saved.old /\ fwMeta' = saved.fw /\ pc' = "rb_firewall"
    BY <1>3 DEF StartRecovery, Goto, NoPlan
  <2>2. RulesKnown'
    BY <2>1 DEF RecordInv, RulesKnown, RulesApart
  <2>3. RecordsHold' /\ FinalSteps' /\ UndoSteps'
    BY <2>1 DEF RecordsHold, FinalSteps, UndoSteps
  <2> QED
    BY <2>2, <2>3 DEF RecordInv
<1>4. CASE Crash \/ Reboot
  <2>1. UNCHANGED <<ufw, marker, saved>> /\ Forget(saved) /\ pc' = "idle"
    BY <1>4 DEF Crash, Reboot
  <2>2. RulesApart(saved.fw, saved.old)'
    BY <2>1 DEF RecordInv, RulesKnown, RulesApart
  <2>3. ASSUME ~saved'.interrupted PROVE RecordHolds(saved)'
    <3>1. RecordHolds(saved) /\ Settled
      BY <2>1, <2>3 DEF RecordInv, RecordsHold, IInv, RecordCovers
    <3>2. UNCHANGED live
      BY <1>4, <3>1 DEF Crash, Reboot, hostVars, Settled
    <3>3. \A ports : jail = JailOf(ports) => jail' = JailOf(ports)
      BY <1>4 DEF Crash, Reboot, JailOf
    <3> QED
      BY <2>1, <3>1, <3>2, <3>3
      DEF RecordHolds, ManagedHolds, RestoredHolds, VerifyFirewall, ManagedPorts
  <2> QED
    BY <2>1, <2>2, <2>3, ForgetRecord
<1> QED
  BY <1>1, <1>2, <1>3, <1>4

LEMMA InitRecord == Init => RecordInv
BY DEF Init, RecordInv, RecordsHold, RulesKnown, RulesApart, FinalSteps, UndoSteps,
       RecordHolds, NoRecord, NoFwMeta, NoF2bMeta

LEMMA NextRecord ==
    TypeOK /\ IInv /\ UndoInv /\ RecordInv /\ [Next]_vars => RecordInv'
<1> SUFFICES ASSUME TypeOK, IInv, UndoInv, RecordInv, [Next]_vars PROVE RecordInv'
  OBVIOUS
<1>1. CASE UNCHANGED vars
  <2>1. RecordHolds(saved)' <=> RecordHolds(saved)
    BY <1>1
    DEF vars, RecordHolds, ManagedHolds, RestoredHolds, VerifyFirewall, ManagedPorts
  <2>2. RecordHolds(memory)' <=> RecordHolds(memory)
    BY <1>1
    DEF vars, RecordHolds, ManagedHolds, RestoredHolds, VerifyFirewall, ManagedPorts
  <2>3. RecordsHold'
    BY <1>1, <2>1, <2>2 DEF vars, RecordInv, RecordsHold
  <2>4. RulesKnown'
    BY <1>1 DEF vars, RecordInv, RulesKnown, RulesApart
  <2>5. FinalSteps' /\ UndoSteps'
    BY <1>1
    DEF vars, RecordInv, FinalSteps, UndoSteps, Stale, ManagedPorts, VerifyFirewall, JailOf
  <2> QED
    BY <2>3, <2>4, <2>5 DEF RecordInv
<1> QED
  BY <1>1, SavesRecord, ForwardRecord, RollbackRecord, ExitRecord, StartRecord
  DEF Next, Process

(* What the closed record says, and what the steps that close it have      *)
(* done by then, for all ports, hosts, failures, kills and restarts.       *)
THEOREM RecordInductive == Spec => []RecordInv
<1>1. TypeOK /\ IInv /\ UndoInv /\ RecordInv /\ [Next]_vars => RecordInv'
  BY NextRecord
<1> QED
  BY <1>1, TypeCorrect, Inductive, UndoInductive, InitRecord, PTL DEF Spec

(* A migration recorded as managed is finished in all three components.    *)
THEOREM DoneIsTrue == Spec => []DoneAgrees
<1>1. RecordInv => DoneAgrees
  BY DEF RecordInv, RecordsHold, RecordHolds, ManagedHolds, DoneAgrees, Ended
<1> QED
  BY <1>1, RecordInductive, PTL

(* A migration recorded as rolled back has left the host as it found it,   *)
(* when sshd -T told the truth about where it found SSH.                   *)
THEOREM RolledBackIsTrue == ASSUME ~BlindDiscovery PROVE Spec => []RolledBackAgrees
<1>1. RecordInv => RolledBackAgrees
  BY DEF RecordInv, RecordsHold, RecordHolds, RestoredHolds, RolledBackAgrees, Ended
<1> QED
  BY <1>1, RecordInductive, PTL

-----------------------------------------------------------------------------
(* Whom every managed rule belongs to.                                     *)

LastSteps == {"fw_finalized", "verify", "verified"}
LEMMA ForwardSteps ==
    /\ Forward = {"planned", "backup", "backed", "applying", "fw_prepare", "fw_prepared",
                  "write_transition", "apply_transition", "f2b_prepare", "f2b_prepared",
                  "activate", "await", "confirm_login", "confirm_sudo", "confirmed",
                  "write_final", "apply_final", "f2b_finalize", "f2b_finalized",
                  "fw_finalizing", "fw_finalize", "fw_finalized", "verify", "verified"}
BY DEF Forward, Transition, Finalization

(* A save of the migration's state, and one that closes the record.        *)
LEMMA SaveAccount ==
    ASSUME AccountInv, NEW from, NEW record, NEW to, NEW onFailure,
           Save(from, record, to, onFailure), from # "idle",
           record.old = plan.old /\ record.fw = fwMeta,
           record.interrupted \/ Listed(record),
           to \in LastSteps => from \in LastSteps,
           {to, onFailure} \cap Forward # {} => from \in Forward,
           to # "idle", onFailure \in {"exit", "raised"}
    PROVE  AccountInv'
<1>1. /\ UNCHANGED <<live, ufw, marker, strays, plan, fwMeta>>
      /\ memory' = record /\ saved' \in {saved, record}
      /\ pc = from /\ pc' \in {to, onFailure}
  BY DEF Save, hostVars, ufwVars, txnVars, metaVars
<1>2. RulesListed'
  BY <1>1 DEF AccountInv, RulesListed, Listed, ManagedPorts, LastSteps
<1>3. RulesAccounted'
  BY <1>1 DEF AccountInv, RulesAccounted, Accounted, OfThisRun, ManagedPorts
<1>4. AddedKnown'
  BY <1>1, ForwardSteps DEF AccountInv, AddedKnown
<1> QED
  BY <1>2, <1>3, <1>4 DEF AccountInv

LEMMA StateAccount ==
    ASSUME AccountInv, NEW stage, NEW from, NEW to, NEW onFailure,
           Save(from, MigrationState(stage), to, onFailure), from # "idle",
           to \in LastSteps => from \in LastSteps,
           {to, onFailure} \cap Forward # {} => from \in Forward,
           to # "idle", onFailure \in {"exit", "raised"}
    PROVE  AccountInv'
<1>1. /\ MigrationState(stage).interrupted /\ MigrationState(stage).fw = fwMeta
      /\ MigrationState(stage).old = plan.old
  BY DEF MigrationState
<1> QED
  BY <1>1, SaveAccount

LEMMA SavesAccount ==
    ASSUME TypeOK, IInv, UndoInv, RecordInv, AccountInv, ~BlindDiscovery, Saves
    PROVE  AccountInv'
<1> USE ForwardSteps DEF LastSteps
<1>1. CASE \/ SavePlanned \/ SaveBackups \/ SaveApplying \/ SaveFirewall \/ SaveJail
           \/ SaveAwaiting \/ SaveFinalizing
  BY <1>1, StateAccount
  DEF SavePlanned, SaveBackups, SaveApplying, SaveFirewall, SaveJail, SaveAwaiting,
      SaveFinalizing
<1>2. CASE SaveActive
  BY <1>2, StateAccount DEF SaveActive
<1>3. CASE SaveJailFinal
  BY <1>3, StateAccount DEF SaveJailFinal
<1>4. CASE SaveFirewallFinalizing \/ SaveFirewallFinal
  BY <1>4, StateAccount DEF SaveFirewallFinalizing, SaveFirewallFinal
<1>5. CASE SaveRollbackStarted \/ SaveRollbackFailed
  BY <1>5, StateAccount DEF SaveRollbackStarted, SaveRollbackFailed
<1>6. CASE SaveDone
  <2> DEFINE record == [MigrationState("done") EXCEPT
                          !.mode = "managed", !.interrupted = FALSE,
                          !.backups = NoBackups, !.ports = plan.final]
  <2>1. record.old = plan.old /\ record.fw = fwMeta
    BY DEF MigrationState
  <2>2. pc = "verified" /\ Save("verified", record, "finished", "raised")
    BY <1>6 DEF SaveDone, Save
  <2> HIDE DEF record
  <2>3. live.ports = plan.final
    BY <2>2 DEF RecordInv, FinalSteps
  <2>4. Listed(record)
    BY <2>1, <2>2, <2>3 DEF AccountInv, RulesListed, Listed
  <2> QED
    BY <2>1, <2>2, <2>4, SaveAccount
<1>7. ASSUME pc \in {"rolled_back", "recovered"}
      PROVE  ManagedPorts \subseteq strays \cup marker \cup live.ports \cup fwMeta.pending
  <2>1. /\ ManagedPorts \subseteq strays \cup plan.old \cup marker \cup fwMeta.added
        /\ ~fwMeta.managed => fwMeta.added = {}
    BY <1>7 DEF AccountInv, RulesAccounted, Accounted, AddedKnown
  <2>2. fwMeta.managed => fwMeta.added \cap ManagedPorts \subseteq fwMeta.pending
    BY <1>7 DEF RecordInv, UndoSteps
  <2> QED
    BY <1>7, <2>1, <2>2, OldPortsAreBack
<1>8. CASE SaveRolledBack
  <2> DEFINE record == [MigrationState("rolled_back") EXCEPT
                          !.interrupted = FALSE, !.ports = plan.old]
  <2>1. record.old = plan.old /\ record.fw = fwMeta
    BY DEF MigrationState
  <2>2. pc = "rolled_back" /\ Save("rolled_back", record, "exit", "exit")
    BY <1>8 DEF SaveRolledBack, Save
  <2> HIDE DEF record
  <2>3. Listed(record)
    BY <1>7, <2>1, <2>2 DEF Listed
  <2> QED
    BY <2>1, <2>2, <2>3, SaveAccount
<1>9. CASE SaveRecovered
  <2> DEFINE record == [NoRecord EXCEPT !.mode = "skipped", !.old = plan.old,
                                        !.fw = fwMeta, !.f2b = f2bMeta]
  <2>1. record.old = plan.old /\ record.fw = fwMeta
    BY DEF NoRecord
  <2>2. pc = "recovered" /\ Save("recovered", record, "finished", "exit")
    BY <1>9 DEF SaveRecovered, Save
  <2> HIDE DEF record
  <2>3. Listed(record)
    BY <1>7, <2>1, <2>2 DEF Listed
  <2> QED
    BY <2>1, <2>2, <2>3, SaveAccount
<1> QED
  BY <1>1, <1>2, <1>3, <1>4, <1>5, <1>6, <1>8, <1>9 DEF Saves

(* A step of the open transaction that saves nothing.                      *)
LEMMA StepAccount ==
    ASSUME AccountInv, saved.interrupted, UNCHANGED <<saved, memory, plan>>,
           pc # "idle", pc' # "idle", pc' = "exit" => memory.interrupted,
           Accounted(fwMeta, plan.old)', (OfThisRun(saved) /\ OfThisRun(memory))',
           ~fwMeta'.managed => fwMeta'.added = {},
           pc' \in Forward => pc \in Forward /\ fwMeta'.added \subseteq plan.target,
           pc' \in LastSteps =>
             (ManagedPorts \subseteq strays \cup marker \cup plan.final \cup fwMeta.pending)'
    PROVE  AccountInv'
<1>1. RulesListed'
  BY DEF RulesListed, LastSteps
<1>2. RulesAccounted'
  BY DEF RulesAccounted
<1>3. AddedKnown'
  BY ForwardSteps DEF AccountInv, AddedKnown
<1> QED
  BY <1>1, <1>2, <1>3 DEF AccountInv

(* ... and that changes no rule.                                           *)
LEMMA QuietAccount ==
    ASSUME AccountInv, saved.interrupted,
           UNCHANGED <<saved, memory, plan, fwMeta, ufw, marker, strays>>,
           pc # "idle", pc' # "idle", pc' = "exit" => memory.interrupted,
           pc' \in Forward => pc \in Forward, pc' \in LastSteps => pc \in LastSteps
    PROVE  AccountInv'
<1>1. Accounted(fwMeta, plan.old) /\ OfThisRun(saved) /\ OfThisRun(memory)
  BY DEF AccountInv, RulesAccounted
<1>2. Accounted(fwMeta, plan.old)' /\ (OfThisRun(saved) /\ OfThisRun(memory))'
  BY <1>1 DEF Accounted, OfThisRun, ManagedPorts
<1>3. ManagedPorts' = ManagedPorts
  BY DEF ManagedPorts
<1>4. /\ ~fwMeta'.managed => fwMeta'.added = {}
      /\ pc' \in Forward => fwMeta'.added \subseteq plan.target
      /\ pc' \in LastSteps =>
           (ManagedPorts \subseteq strays \cup marker \cup plan.final \cup fwMeta.pending)'
  BY <1>3 DEF AccountInv, AddedKnown, RulesListed, LastSteps
<1> QED
  BY <1>2, <1>4, StepAccount

LEMMA ForwardAccount ==
    ASSUME TypeOK, IInv, UndoInv, RecordInv, AccountInv,
           \/ BackupFiles \/ PrepareFirewall \/ WriteTransition \/ RefuseTransition
           \/ ApplyTransition \/ PrepareJail \/ ConfirmLogin \/ ConfirmSudo \/ Decline
           \/ WriteFinal \/ ApplyFinal \/ FinalizeJail \/ FinalizeFirewall
           \/ VerifyComponents
    PROVE  AccountInv'
<1> USE ForwardSteps DEF LastSteps
<1>0. pc \notin {"idle", "planned", "raised", "exit", "finished"} => saved.interrupted
  BY DEF IInv, RecordCovers
<1>1. CASE BackupFiles
  <2>1. memory.interrupted
    BY <1>1 DEF BackupFiles, Goto, UndoInv, MemoryTrue
  <2> QED
    BY <1>0, <1>1, <2>1, QuietAccount DEF BackupFiles, Goto, recordVars, metaVars, ufwVars
<1>2. CASE RefuseTransition \/ ConfirmLogin \/ ConfirmSudo \/ Decline
  BY <1>0, <1>2, QuietAccount
  DEF RefuseTransition, ConfirmLogin, ConfirmSudo, Decline, Goto, recordVars, txnVars,
      metaVars, ufwVars
<1>3. CASE WriteTransition \/ WriteFinal
  BY <1>0, <1>3, QuietAccount
  DEF WriteTransition, WriteFinal, WriteConfig, Goto, recordVars, txnVars, metaVars, ufwVars
<1>4. CASE ApplyTransition \/ ApplyFinal
  BY <1>0, <1>4, QuietAccount
  DEF ApplyTransition, ApplyFinal, ApplyConfig, Goto, recordVars, txnVars, metaVars, ufwVars
<1>5. CASE PrepareJail \/ FinalizeJail \/ VerifyComponents
  BY <1>0, <1>5, QuietAccount
  DEF PrepareJail, FinalizeJail, VerifyComponents, ApplyJail, Goto, recordVars, txnVars,
      metaVars, ufwVars
<1>6. CASE PrepareFirewall
  <2> DEFINE missing == plan.target \ AllowedPorts
  <2>1. /\ UNCHANGED <<saved, memory, plan, marker>> /\ pc = "fw_prepare"
        /\ pc' \in {"fw_prepared", "raised"}
    BY <1>6 DEF PrepareFirewall, recordVars, txnVars
  <2>2. /\ ~fwMeta.managed /\ fwMeta.added = {}
        /\ ManagedPorts \subseteq strays \cup plan.old \cup marker
        /\ OfThisRun(saved) /\ OfThisRun(memory)
    BY <2>1 DEF RecordInv, RulesKnown, AccountInv, AddedKnown, RulesAccounted, Accounted
  <2>3. /\ saved.interrupted => saved.old = plan.old /\ ~saved.fw.managed
        /\ memory.interrupted => memory.old = plan.old /\ ~memory.fw.managed
    BY <2>2 DEF OfThisRun
  <2>4. (OfThisRun(saved) /\ OfThisRun(memory))'
    BY <2>1, <2>3 DEF OfThisRun
  <2>5. CASE UNCHANGED <<ufw, fwMeta, strays>>
    BY <1>0, <2>1, <2>5, QuietAccount
  <2>6. CASE /\ SetRules(missing, "managed")
             /\ fwMeta' = [managed |-> TRUE, added |-> missing,
                           oldManaged |-> ManagedPorts \cap plan.old,
                           original |-> marker, final |-> {}, pending |-> {},
                           restored |-> FALSE]
             /\ UNCHANGED strays
    <3>1. fwMeta'.managed /\ fwMeta'.added = missing /\ fwMeta'.original = marker
      BY <2>6
    <3>2. ManagedPorts' \subseteq ManagedPorts \cup missing
      BY <2>6 DEF SetRules, ManagedPorts, TypeOK, Ufw
    <3> HIDE DEF missing
    <3>3. Accounted(fwMeta, plan.old)'
      BY <2>1, <2>2, <2>6, <3>1, <3>2 DEF Accounted
    <3>4. missing \subseteq plan.target
      BY DEF missing
    <3> QED
      BY <1>0, <2>1, <2>4, <3>1, <3>3, <3>4, StepAccount
  <2>7. CASE /\ pc' = "raised" /\ UNCHANGED fwMeta
             /\ \E some \in SUBSET missing :
                  SetRules(some, "managed") /\ strays' = strays \cup some
    <3>1. ManagedPorts' \subseteq ManagedPorts \cup strays' /\ strays \subseteq strays'
      BY <2>7 DEF SetRules, ManagedPorts, TypeOK, Ufw
    <3>2. Accounted(fwMeta, plan.old)'
      BY <2>1, <2>2, <2>7, <3>1 DEF Accounted
    <3> QED
      BY <1>0, <2>1, <2>2, <2>4, <2>7, <3>2, StepAccount
  <2> QED
    BY <1>6, <2>5, <2>6, <2>7 DEF PrepareFirewall
<1>7. CASE FinalizeFirewall
  <2>1. /\ UNCHANGED <<saved, memory, plan>> /\ pc = "fw_finalize"
        /\ pc' \in {"fw_finalized", "raised"}
    BY <1>7 DEF FinalizeFirewall, Goto, recordVars, txnVars
  <2>2. /\ ManagedPorts \subseteq strays \cup plan.old \cup marker \cup fwMeta.added
        /\ fwMeta.managed =>
             ManagedPorts \subseteq strays \cup plan.old \cup fwMeta.original \cup fwMeta.added
        /\ ~fwMeta.managed => fwMeta.added = {}
        /\ plan.target = plan.old \cup plan.final /\ fwMeta.added \subseteq plan.target
        /\ OfThisRun(saved) /\ OfThisRun(memory)
    BY <2>1 DEF AccountInv, AddedKnown, RulesAccounted, Accounted
  <2>3. CASE ~fwMeta.managed
    <3>1. /\ UNCHANGED <<ufw, marker, fwMeta>>
          /\ strays' = strays \cup (Stale \cap ManagedPorts)
      BY <1>7, <2>3 DEF FinalizeFirewall
    <3>2. ManagedPorts' = ManagedPorts
      BY <3>1 DEF ManagedPorts
    <3>3. Accounted(fwMeta, plan.old)' /\ (OfThisRun(saved) /\ OfThisRun(memory))'
      BY <2>1, <2>2, <2>3, <3>1, <3>2 DEF Accounted, OfThisRun
    <3>4. (ManagedPorts \subseteq strays \cup marker \cup plan.final \cup fwMeta.pending)'
      BY <2>1, <2>2, <2>3, <3>1, <3>2 DEF Stale
    <3> QED
      BY <1>0, <2>1, <2>2, <3>1, <3>3, <3>4, StepAccount
  <2>4. CASE fwMeta.managed
    <3>1. PICK kept \in SUBSET (Stale \cap ManagedPorts) :
            /\ DeleteRules(Stale, kept)
            /\ \/ /\ marker' = plan.final
                  /\ fwMeta' = [fwMeta EXCEPT !.final = plan.final, !.pending = kept]
               \/ /\ pc' = "raised" /\ UNCHANGED marker
                  /\ fwMeta' = [fwMeta EXCEPT !.pending = kept]
      BY <1>7, <2>4 DEF FinalizeFirewall, Goto, FinalMarker, FinalMeta
    <3>2. strays' = strays \cup (ManagedPorts \cap (marker \ plan.target))
      BY <1>7, <2>4 DEF FinalizeFirewall
    <3>3. /\ fwMeta'.managed /\ fwMeta'.added = fwMeta.added
          /\ fwMeta'.original = fwMeta.original /\ fwMeta'.pending = kept
      BY <2>4, <3>1 DEF TypeOK, FwMeta
    <3>4. ManagedPorts' \subseteq ManagedPorts /\ ManagedPorts' \cap Stale \subseteq kept
      BY <3>1 DEF DeleteRules, SetRules, ManagedPorts, TypeOK, Ufw
    <3>5. (OfThisRun(saved) /\ OfThisRun(memory))'
      BY <2>1, <2>2, <3>3 DEF OfThisRun
    <3>6. marker' = plan.final \/ (pc' = "raised" /\ UNCHANGED marker)
      BY <3>1
    <3>7. Accounted(fwMeta, plan.old)'
      BY <2>1, <2>2, <2>4, <3>2, <3>3, <3>4, <3>6 DEF Accounted
    <3>8. pc' \in LastSteps =>
            (ManagedPorts \subseteq strays \cup marker \cup plan.final \cup fwMeta.pending)'
      BY <2>1, <2>2, <2>4, <3>2, <3>3, <3>4, <3>6 DEF Stale
    <3> QED
      BY <1>0, <2>1, <2>2, <3>3, <3>5, <3>7, <3>8, StepAccount
  <2> QED
    BY <2>3, <2>4
<1> QED
  BY <1>1, <1>2, <1>3, <1>4, <1>5, <1>6, <1>7

LEMMA RollbackAccount ==
    ASSUME TypeOK, IInv, UndoInv, RecordInv, AccountInv,
           RestoreFirewall \/ RollbackSsh \/ RollbackJail \/ CleanupFirewall
    PROVE  AccountInv'
<1> USE ForwardSteps DEF LastSteps
<1>1. pc \in {"rb_firewall", "rb_ssh", "rb_jail", "rb_cleanup"}
        => saved.interrupted /\ memory.interrupted
  BY DEF IInv, RecordCovers
<1>2. CASE RollbackSsh \/ RollbackJail
  BY <1>1, <1>2, QuietAccount
  DEF RollbackSsh, RollbackJail, RollbackFailed, Goto, recordVars, txnVars, metaVars, ufwVars
<1>3. ASSUME pc \in {"rb_firewall", "rb_cleanup"}
      PROVE  /\ Accounted(fwMeta, plan.old) /\ OfThisRun(saved) /\ OfThisRun(memory)
             /\ ~fwMeta.managed => fwMeta.added = {}
  BY <1>3 DEF AccountInv, RulesAccounted, AddedKnown
<1>4. CASE RestoreFirewall
  <2>1. /\ UNCHANGED <<saved, memory, plan, fwMeta, marker, strays>>
        /\ pc = "rb_firewall" /\ pc' \in {"rb_ssh", "exit", "rb_failed"}
    BY <1>4 DEF RestoreFirewall, RollbackFailed, Goto, recordVars, txnVars, metaVars
  <2>2. UNCHANGED ufw \/ \E some \in SUBSET plan.old : SetRules(some, "managed")
    BY <1>4 DEF RestoreFirewall
  <2>3. ManagedPorts' \subseteq ManagedPorts \cup plan.old
    BY <2>2 DEF SetRules, ManagedPorts, TypeOK, Ufw
  <2>4. Accounted(fwMeta, plan.old)' /\ (OfThisRun(saved) /\ OfThisRun(memory))'
    BY <1>3, <2>1, <2>3 DEF Accounted, OfThisRun
  <2> QED
    BY <1>1, <1>3, <2>1, <2>4, StepAccount
<1>5. CASE CleanupFirewall
  <2>1. /\ UNCHANGED <<saved, memory, plan, strays>>
        /\ pc = "rb_cleanup" /\ pc' \in {"rolled_back", "recovered", "exit", "rb_failed"}
    BY <1>5 DEF CleanupFirewall, RollbackFailed, Goto, recordVars, txnVars
  <2>2. CASE ~fwMeta.managed
    BY <1>1, <1>5, <2>1, <2>2, QuietAccount DEF CleanupFirewall
  <2>3. CASE fwMeta.managed
    <3>1. PICK kept \in SUBSET (fwMeta.added \cap ManagedPorts) :
            /\ DeleteRules(fwMeta.added, kept)
            /\ marker' \in {marker, fwMeta.original}
            /\ \/ fwMeta' = [fwMeta EXCEPT !.pending = kept, !.restored = TRUE]
               \/ fwMeta' = [fwMeta EXCEPT !.pending =
                               IF kept = {} THEN fwMeta.added ELSE kept]
               \/ UNCHANGED fwMeta
      BY <1>5, <2>3 DEF CleanupFirewall
    <3>2. /\ fwMeta'.managed /\ fwMeta'.added = fwMeta.added
          /\ fwMeta'.original = fwMeta.original
      BY <2>3, <3>1 DEF TypeOK, FwMeta
    <3>3. ManagedPorts' \subseteq ManagedPorts
      BY <3>1 DEF DeleteRules, SetRules, ManagedPorts, TypeOK, Ufw
    <3>4. Accounted(fwMeta, plan.old)' /\ (OfThisRun(saved) /\ OfThisRun(memory))'
      BY <1>3, <2>1, <2>3, <3>1, <3>2, <3>3 DEF Accounted, OfThisRun
    <3> QED
      BY <1>1, <2>1, <3>2, <3>4, StepAccount
  <2> QED
    BY <2>2, <2>3
<1> QED
  BY <1>2, <1>4, <1>5

(* A process that ends: what it did not save is a stray from now on.       *)
LEMMA ForgetAccount ==
    ASSUME AccountInv, pc # "idle", pc' = "idle", UNCHANGED <<ufw, marker>>, Forget(saved'),
           ~saved'.interrupted => Listed(saved)',
           saved'.interrupted =>
             /\ saved'.old = plan.old
             /\ saved'.fw.managed => /\ fwMeta.managed /\ saved'.fw.added = fwMeta.added
                                     /\ saved'.fw.original = fwMeta.original,
           ~saved'.fw.managed => saved'.fw.added = {}
    PROVE  AccountInv'
<1>1. /\ strays' = strays \cup (IF saved'.fw.managed THEN {} ELSE fwMeta.added)
      /\ memory' = NoRecord /\ fwMeta' = NoFwMeta
  BY DEF Forget
<1>2. ManagedPorts' = ManagedPorts
  BY DEF ManagedPorts
<1>3. Accounted(fwMeta, plan.old)
  BY DEF AccountInv, RulesAccounted
<1>4. RulesListed'
  BY DEF RulesListed
<1>5. RulesAccounted'
  <2>1. ~memory'.interrupted
    BY <1>1 DEF NoRecord
  <2> QED
    BY <1>1, <1>2, <1>3, <2>1 DEF RulesAccounted, Accounted
<1>6. AddedKnown'
  BY <1>1, ForwardSteps DEF AddedKnown, NoRecord, NoFwMeta
<1> QED
  BY <1>4, <1>5, <1>6 DEF AccountInv

LEMMA ExitAccount ==
    ASSUME TypeOK, IInv, UndoInv, RecordInv, AccountInv, Exit PROVE AccountInv'
<1>1. /\ UNCHANGED <<live, ufw, marker>> /\ Forget(saved') /\ pc' = "idle"
      /\ saved' \in {saved, memory, [memory EXCEPT !.stage = "none"]}
      /\ pc = "exit" => saved' \in {saved, memory}
      /\ pc \in {"exit", "finished"}
  BY DEF Exit, hostVars
<1>2. LET r == [memory EXCEPT !.stage = "none"]
      IN  r.interrupted = memory.interrupted /\ r.old = memory.old /\ r.fw = memory.fw
  BY DEF TypeOK, Record
<1>3. \/ saved' = saved
      \/ /\ saved'.interrupted = memory.interrupted /\ saved'.old = memory.old
         /\ saved'.fw = memory.fw
  BY <1>1, <1>2
<1>4. /\ OfThisRun(saved) /\ OfThisRun(memory)
      /\ \A m \in {fwMeta, saved.fw, memory.fw} : ~m.managed => m.added = {}
  BY <1>1 DEF AccountInv, RulesAccounted, AddedKnown
<1>5. ASSUME ~saved'.interrupted PROVE Listed(saved)'
  <2>1. ManagedPorts' = ManagedPorts /\ strays \subseteq strays'
    BY <1>1 DEF ManagedPorts, Forget
  <2>2. CASE saved' = saved
    BY <1>1, <1>5, <2>1, <2>2 DEF AccountInv, RulesListed, Listed
  <2>3. CASE saved' # saved
    <3>1. ~memory.interrupted /\ saved'.fw = memory.fw
      BY <1>3, <1>5, <2>3
    <3>2. Listed(memory)
      BY <1>1, <3>1 DEF AccountInv, RulesListed, UndoInv, MemoryTrue
    <3> QED
      BY <1>1, <2>1, <3>1, <3>2 DEF Listed
  <2> QED
    BY <2>2, <2>3
<1>6. /\ saved'.interrupted =>
           /\ saved'.old = plan.old
           /\ saved'.fw.managed => /\ fwMeta.managed /\ saved'.fw.added = fwMeta.added
                                   /\ saved'.fw.original = fwMeta.original
      /\ ~saved'.fw.managed => saved'.fw.added = {}
  BY <1>3, <1>4 DEF OfThisRun
<1> QED
  BY <1>1, <1>5, <1>6, ForgetAccount

LEMMA StartAccount ==
    ASSUME TypeOK, IInv, UndoInv, RecordInv, AccountInv, ~BlindDiscovery,
           \/ KeepCurrent \/ StartMigration \/ StartRecovery \/ Crash \/ Reboot
    PROVE  AccountInv'
<1> USE ForwardSteps
<1>1. CASE KeepCurrent
  <2> DEFINE record == [NoRecord EXCEPT !.mode = "managed",
                          !.old = EffectivePorts(files.dropin),
                          !.ports = EffectivePorts(files.dropin)]
  <2>1. /\ UNCHANGED <<live, ufw, marker, memory, pc, plan, fwMeta>>
        /\ saved' \in {saved, record} /\ pc = "idle" /\ ~saved.interrupted
        /\ strays' = strays \cup saved.fw.pending
    BY <1>1 DEF KeepCurrent, hostVars, txnVars, metaVars, Replaced
  <2>2. /\ record.fw.pending = {} /\ record.fw.added = {} /\ ~record.interrupted
    BY DEF NoRecord, NoFwMeta
  <2> HIDE DEF record
  <2>3. ManagedPorts' = ManagedPorts /\ Listed(saved)
    BY <2>1 DEF ManagedPorts, AccountInv, RulesListed
  <2>4. RulesListed'
    BY <2>1, <2>2, <2>3 DEF RulesListed, Listed
  <2>5. RulesAccounted' /\ AddedKnown'
    BY <2>1, <2>2 DEF AccountInv, RulesAccounted, AddedKnown
  <2> QED
    BY <2>4, <2>5 DEF AccountInv
<1>2. CASE StartMigration
  <2>1. /\ UNCHANGED <<host, files, live, ufw, marker, saved, memory, fwMeta>>
        /\ pc = "idle" /\ pc' = "planned" /\ ~saved.interrupted
        /\ strays' = strays \cup saved.fw.pending
    BY <1>2 DEF StartMigration, hostVars, recordVars, metaVars, Replaced
  <2>2. PICK auth \in Auth, final \in {EffectivePorts(files.dropin)} \cup {{p} : p \in Port} :
          plan' \in {Discovered(final, auth), DiscoveredWithoutUfw(final, auth)}
    BY <1>2 DEF StartMigration
  <2>3. /\ plan'.old = EffectivePorts(files.dropin)
        /\ plan'.target = plan'.old \cup plan'.final
    <3>1. /\ Discovered(final, auth).old = EffectivePorts(files.dropin)
          /\ Discovered(final, auth).target = EffectivePorts(files.dropin) \cup final
          /\ Discovered(final, auth).final = final
      BY DEF Discovered, Planned
    <3>2. DiscoveredWithoutUfw(final, auth)
            = [Discovered(final, auth) EXCEPT !.ufwActive = FALSE, !.ufwAllowed = {}]
      BY DEF DiscoveredWithoutUfw
    <3>3. \A f \in {"old", "target", "final"} :
            DiscoveredWithoutUfw(final, auth)[f] = Discovered(final, auth)[f]
      BY <3>2 DEF Discovered, Planned
    <3> QED
      BY <2>2, <3>1, <3>3
  <2>4. plan'.old = live.ports
    BY <2>1, <2>3 DEF IInv, RecordCovers, Settled
  <2>5. ManagedPorts' = ManagedPorts /\ Listed(saved)
    BY <2>1 DEF ManagedPorts, AccountInv, RulesListed
  <2>6. /\ ~fwMeta.managed /\ fwMeta.added = {} /\ ~memory.interrupted
    BY <2>1 DEF RecordInv, RulesKnown, AccountInv, AddedKnown, RulesAccounted
  <2>7. RulesListed'
    BY <2>1, <2>5 DEF RulesListed, Listed
  <2>8. RulesAccounted'
    BY <2>1, <2>4, <2>5, <2>6 DEF RulesAccounted, Accounted, OfThisRun, Listed
  <2>9. AddedKnown'
    BY <2>1, <2>3, <2>6 DEF AccountInv, AddedKnown
  <2> QED
    BY <2>7, <2>8, <2>9 DEF AccountInv
<1>3. CASE StartRecovery
  <2>1. /\ UNCHANGED <<ufw, marker, strays, saved>> /\ saved.interrupted /\ memory' = saved
        /\ plan'.old = saved.old /\ fwMeta' = saved.fw /\ pc = "idle" /\ pc' = "rb_firewall"
    BY <1>3 DEF StartRecovery, Goto, NoPlan, ufwVars
  <2>2. Accounted(saved.fw, saved.old)
    BY <2>1 DEF AccountInv, RulesAccounted
  <2>3. RulesListed'
    BY <2>1 DEF RulesListed
  <2>4. RulesAccounted'
    BY <2>1, <2>2 DEF RulesAccounted, Accounted, OfThisRun, ManagedPorts
  <2>5. AddedKnown'
    BY <2>1 DEF AccountInv, AddedKnown
  <2> QED
    BY <2>3, <2>4, <2>5 DEF AccountInv
<1>4. CASE Crash \/ Reboot
  <2>1. UNCHANGED <<ufw, marker, saved>> /\ Forget(saved) /\ pc' = "idle"
    BY <1>4 DEF Crash, Reboot
  <2>2. ManagedPorts' = ManagedPorts /\ strays \subseteq strays'
    BY <2>1 DEF ManagedPorts, Forget
  <2>3. ASSUME ~saved'.interrupted PROVE Listed(saved)'
    <3>1. Listed(saved) /\ Settled
      BY <2>1, <2>3 DEF AccountInv, RulesListed, IInv, RecordCovers
    <3>2. UNCHANGED live
      BY <1>4, <3>1 DEF Crash, Reboot, hostVars, Settled
    <3> QED
      BY <2>1, <2>2, <3>1, <3>2 DEF Listed
  <2>4. CASE pc # "idle"
    <3>1. OfThisRun(saved) /\ (~saved.fw.managed => saved.fw.added = {})
      BY <2>4 DEF AccountInv, RulesAccounted, AddedKnown
    <3> QED
      BY <2>1, <2>3, <2>4, <3>1, ForgetAccount DEF OfThisRun
  <2>5. CASE pc = "idle"
    <3>1. saved.interrupted => Accounted(saved.fw, saved.old)
      BY <2>5 DEF AccountInv, RulesAccounted
    <3>2. RulesAccounted'
      <4>1. ~memory'.interrupted
        BY <2>1 DEF Forget, NoRecord
      <4> QED
        BY <2>1, <2>2, <3>1, <4>1 DEF RulesAccounted, Accounted
    <3>3. RulesListed'
      BY <2>1, <2>3 DEF RulesListed
    <3>4. AddedKnown'
      BY <2>1 DEF AccountInv, AddedKnown, Forget, NoRecord, NoFwMeta
    <3> QED
      BY <3>2, <3>3, <3>4 DEF AccountInv
  <2> QED
    BY <2>4, <2>5
<1> QED
  BY <1>1, <1>2, <1>3, <1>4

LEMMA InitAccount == Init => AccountInv
<1> SUFFICES ASSUME Init PROVE AccountInv
  OBVIOUS
<1>1. ManagedPorts \subseteq marker
  BY DEF Init
<1>2. /\ saved = NoRecord /\ memory = NoRecord /\ fwMeta = NoFwMeta /\ pc = "idle"
  BY DEF Init
<1>3. RulesListed
  BY <1>1, <1>2 DEF RulesListed, Listed
<1>4. RulesAccounted /\ AddedKnown
  BY <1>2, ForwardSteps DEF RulesAccounted, AddedKnown, NoRecord, NoFwMeta
<1> QED
  BY <1>3, <1>4 DEF AccountInv

LEMMA NextAccount ==
    ASSUME ~BlindDiscovery
    PROVE  TypeOK /\ IInv /\ UndoInv /\ RecordInv /\ AccountInv /\ [Next]_vars => AccountInv'
<1> SUFFICES ASSUME TypeOK, IInv, UndoInv, RecordInv, AccountInv, [Next]_vars
             PROVE  AccountInv'
  OBVIOUS
<1>1. CASE UNCHANGED vars
  BY <1>1
  DEF vars, AccountInv, RulesListed, RulesAccounted, AddedKnown, Listed, Accounted,
      OfThisRun, ManagedPorts
<1> QED
  BY <1>1, SavesAccount, ForwardAccount, RollbackAccount, ExitAccount, StartAccount
  DEF Next, Process

(* Every managed rule is accounted for, by the marker, SSH, the record or  *)
(* the transaction that is open, or is one of the strays: nothing else     *)
(* leaves a rule behind, when sshd -T told the truth.                      *)
THEOREM AccountInductive == ASSUME ~BlindDiscovery PROVE Spec => []AccountInv
<1>1. TypeOK /\ IInv /\ UndoInv /\ RecordInv /\ AccountInv /\ [Next]_vars => AccountInv'
  BY NextAccount
<1> QED
  BY <1>1, TypeCorrect, Inductive, UndoInductive, RecordInductive, InitAccount, PTL DEF Spec

(* A managed rule that a closed record leaves behind is listed in it as    *)
(* pending, or a stray of the five kinds that PendingIsComplete names.     *)
THEOREM NothingForgotten == ASSUME ~BlindDiscovery PROVE Spec => []PendingIsComplete
<1>1. AccountInv => PendingIsComplete
  BY DEF AccountInv, RulesListed, Listed, PendingIsComplete
<1> QED
  BY <1>1, AccountInductive, PTL

-----------------------------------------------------------------------------
(* The two-port transition.                                                *)
BothSteps == {"planned", "backup", "backed", "applying", "fw_prepare", "fw_prepared",
              "write_transition", "apply_transition", "f2b_prepare", "f2b_prepared",
              "activate", "await", "confirm_login", "confirm_sudo"}
OpenSteps == {"f2b_prepare", "f2b_prepared", "activate", "await", "confirm_login",
              "confirm_sudo"}

LEMMA StepOpen ==
    ASSUME BothPortsOpen, UNCHANGED <<plan, host>>,
           pc' \in BothSteps => pc \in BothSteps,
           pc' # "apply_transition",
           pc' \in OpenSteps => live'.ports = plan.target
    PROVE  BothPortsOpen'
BY DEF BothPortsOpen, BothSteps, OpenSteps

LEMMA SavesOpen == ASSUME BothPortsOpen, Saves PROVE BothPortsOpen'
<1>1. UNCHANGED <<plan, host, live>>
  BY DEF Saves, SavePlanned, SaveBackups, SaveApplying, SaveFirewall, SaveJail, SaveActive,
         SaveAwaiting, SaveFinalizing, SaveJailFinal, SaveFirewallFinalizing,
         SaveFirewallFinal, SaveDone, SaveRollbackStarted, SaveRolledBack,
         SaveRollbackFailed, SaveRecovered, Save, hostVars, txnVars
<1>2. /\ pc' \in BothSteps => pc \in BothSteps
      /\ pc' # "apply_transition"
      /\ pc' \in OpenSteps => pc \in OpenSteps
  BY DEF Saves, SavePlanned, SaveBackups, SaveApplying, SaveFirewall, SaveJail, SaveActive,
         SaveAwaiting, SaveFinalizing, SaveJailFinal, SaveFirewallFinalizing,
         SaveFirewallFinal, SaveDone, SaveRollbackStarted, SaveRolledBack,
         SaveRollbackFailed, SaveRecovered, Save, BothSteps, OpenSteps
<1>3. pc \in OpenSteps => live.ports = plan.target
  BY DEF BothPortsOpen, OpenSteps
<1> QED
  BY <1>1, <1>2, <1>3, StepOpen

LEMMA ForwardOpen ==
    ASSUME TypeOK, BothPortsOpen,
           \/ BackupFiles \/ PrepareFirewall \/ WriteTransition \/ RefuseTransition
           \/ ApplyTransition \/ PrepareJail \/ ConfirmLogin \/ ConfirmSudo \/ Decline
           \/ WriteFinal \/ ApplyFinal \/ FinalizeJail \/ FinalizeFirewall
           \/ VerifyComponents
    PROVE  BothPortsOpen'
<1> USE DEF BothSteps, OpenSteps
<1>1. CASE \/ BackupFiles \/ PrepareFirewall \/ RefuseTransition \/ Decline
           \/ FinalizeFirewall \/ VerifyComponents
  BY <1>1, StepOpen
  DEF BackupFiles, PrepareFirewall, RefuseTransition, Decline, FinalizeFirewall,
      VerifyComponents, Goto, hostVars, txnVars
<1>2. CASE ConfirmLogin \/ ConfirmSudo
  BY <1>2 DEF ConfirmLogin, ConfirmSudo, Goto, hostVars, txnVars, BothPortsOpen
<1>3. CASE WriteTransition
  <2>1. /\ UNCHANGED <<plan, host>> /\ pc = "write_transition"
        /\ \/ /\ pc' = "apply_transition"
              /\ host.activation = "socket" => files'.socket = plan.target
           \/ pc' = "raised"
    BY <1>3 DEF WriteTransition, WriteConfig, Goto, txnVars, TypeOK, Files
  <2> QED
    BY <2>1 DEF BothPortsOpen
<1>4. CASE ApplyTransition
  <2>1. /\ UNCHANGED <<plan, host>> /\ pc = "apply_transition"
        /\ \/ /\ pc' = "f2b_prepare" /\ live'.ports = Listening(files)
              /\ EffectivePorts(files.dropin) = plan.target
           \/ pc' = "raised"
    BY <1>4 DEF ApplyTransition, ApplyConfig, Goto, Started, txnVars
  <2>2. EffectivePorts(files.dropin) = plan.target => Listening(files) = plan.target
    BY <2>1 DEF BothPortsOpen, Listening
  <2> QED
    BY <2>1, <2>2, StepOpen
<1>5. CASE PrepareJail
  BY <1>5 DEF PrepareJail, ApplyJail, Goto, hostVars, txnVars, BothPortsOpen
<1>6. CASE WriteFinal \/ ApplyFinal \/ FinalizeJail
  BY <1>6, StepOpen
  DEF WriteFinal, WriteConfig, ApplyFinal, ApplyConfig, FinalizeJail, ApplyJail, Goto,
      hostVars, txnVars
<1> QED
  BY <1>1, <1>2, <1>3, <1>4, <1>5, <1>6

LEMMA OtherOpen ==
    ASSUME BothPortsOpen,
           \/ RestoreFirewall \/ RollbackSsh \/ RollbackJail \/ CleanupFirewall \/ Exit
           \/ KeepCurrent \/ StartMigration \/ StartRecovery \/ Crash \/ Reboot
    PROVE  BothPortsOpen'
<1>1. CASE StartMigration
  <2>1. PICK auth \in Auth, final \in {EffectivePorts(files.dropin)} \cup {{p} : p \in Port} :
          plan' \in {Discovered(final, auth), DiscoveredWithoutUfw(final, auth),
                    DiscoveredBlindly(final, auth)}
    BY <1>1 DEF StartMigration
  <2>2. LET d == Discovered(final, auth) IN d.old \subseteq d.target
    BY DEF Discovered, Planned
  <2>3. LET d == DiscoveredWithoutUfw(final, auth) IN d.old \subseteq d.target
    BY DEF DiscoveredWithoutUfw, Discovered, Planned
  <2>4. LET d == DiscoveredBlindly(final, auth) IN d.old \subseteq d.target
    BY DEF DiscoveredBlindly, Planned
  <2>5. pc' = "planned"
    BY <1>1 DEF StartMigration
  <2> QED
    BY <2>1, <2>2, <2>3, <2>4, <2>5 DEF BothPortsOpen
<1>2. CASE ~StartMigration
  <2>1. pc' \notin BothSteps
    BY <1>2
    DEF RestoreFirewall, RollbackSsh, RollbackJail, CleanupFirewall, RollbackFailed, Exit,
        KeepCurrent, StartRecovery, Crash, Reboot, Goto, BothSteps
  <2> QED
    BY <2>1 DEF BothPortsOpen, BothSteps
<1> QED
  BY <1>1, <1>2

(* Until the second session is confirmed SSH runs with both sets of ports. *)
THEOREM BothPortsInductive == Spec => []BothPortsOpen
<1>1. Init => BothPortsOpen
  BY DEF Init, BothPortsOpen
<1>2. TypeOK /\ BothPortsOpen /\ [Next]_vars => BothPortsOpen'
  <2> SUFFICES ASSUME TypeOK, BothPortsOpen, [Next]_vars PROVE BothPortsOpen'
    OBVIOUS
  <2>1. CASE UNCHANGED vars
    BY <2>1 DEF vars, BothPortsOpen
  <2> QED
    BY <2>1, SavesOpen, ForwardOpen, OtherOpen DEF Next, Process
<1> QED
  BY <1>1, <1>2, TypeCorrect, PTL DEF Spec

(* "Two-port transition preserves old port until second session is         *)
(* confirmed", when sshd -T told the truth about the old port.             *)
THEOREM OldPortsKept == ASSUME ~BlindDiscovery PROVE Spec => []OldPortsKeptUntilConfirmed
<1>1. IInv /\ UndoInv /\ BothPortsOpen => OldPortsKeptUntilConfirmed
  BY DEF IInv, TargetsKnown, UndoInv, BackupsKnown, LeadsToOld, BothPortsOpen,
         OldPortsKeptUntilConfirmed
<1> QED
  BY <1>1, Inductive, UndoInductive, BothPortsInductive, PTL
=============================================================================
