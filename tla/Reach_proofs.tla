----------------------------- MODULE Reach_proofs -----------------------------
(***************************************************************************)
(* The operator always gets in, for any ports, hosts and bounds: the       *)
(* invariant ReachInv behind NoLockout and RuleDeletedOnlyWhenUnused, for  *)
(* hosts on which sshd -T tells discovery what sshd does.                  *)
(***************************************************************************)
EXTENDS Records_proofs

-----------------------------------------------------------------------------
(* A torn file stays on disk no longer than the record stays open.         *)
LEMMA WholeSave ==
    ASSUME WholeInv, NEW from, NEW record, NEW to, NEW onFailure,
           Save(from, record, to, onFailure), record.backups.files.torn = {},
           ~record.interrupted => files.torn = {},
           \A at \in {to, onFailure} :
             at \in Forward \cup {"rb_jail", "rb_cleanup", "rolled_back", "recovered"}
               => files.torn = {}
    PROVE  WholeInv'
<1>1. /\ UNCHANGED <<files, backups>> /\ memory' = record /\ saved' \in {saved, record}
      /\ pc' \in {to, onFailure}
  BY DEF Save, hostVars, txnVars
<1> QED
  BY <1>1 DEF WholeInv

LEMMA WholeState ==
    ASSUME WholeInv, NEW stage, NEW from, NEW to, NEW onFailure,
           Save(from, MigrationState(stage), to, onFailure),
           onFailure \in {"exit", "raised"},
           from \in Forward \/ to \in {"rb_firewall", "exit"}
    PROVE  WholeInv'
<1>1. MigrationState(stage).interrupted /\ MigrationState(stage).backups = backups
  BY DEF MigrationState
<1>2. backups.files.torn = {} /\ (from \in Forward => files.torn = {})
  BY DEF WholeInv, Save
<1> QED
  BY <1>1, <1>2, WholeSave DEF Forward, Transition, Finalization

LEMMA SavesWhole == ASSUME WholeInv, Saves PROVE WholeInv'
<1> USE DEF Forward, Transition, Finalization
<1>1. CASE \/ SavePlanned \/ SaveBackups \/ SaveApplying \/ SaveFirewall \/ SaveJail
           \/ SaveAwaiting \/ SaveFinalizing \/ SaveRollbackStarted \/ SaveRollbackFailed
  BY <1>1, WholeState
  DEF SavePlanned, SaveBackups, SaveApplying, SaveFirewall, SaveJail, SaveAwaiting,
      SaveFinalizing, SaveRollbackStarted, SaveRollbackFailed
<1>2. CASE SaveActive \/ SaveJailFinal \/ SaveFirewallFinalizing \/ SaveFirewallFinal
  BY <1>2, WholeState DEF SaveActive, SaveJailFinal, SaveFirewallFinalizing, SaveFirewallFinal
<1>3. CASE SaveDone
  <2> DEFINE record == [MigrationState("done") EXCEPT
                          !.mode = "managed", !.interrupted = FALSE,
                          !.backups = NoBackups, !.ports = plan.final]
  <2>1. record.backups.files.torn = {}
    BY DEF MigrationState, NoBackups, NoFiles
  <2>2. Save("verified", record, "finished", "raised") /\ pc = "verified"
    BY <1>3 DEF SaveDone, Save
  <2>3. files.torn = {}
    BY <2>2 DEF WholeInv
  <2> HIDE DEF record
  <2> QED
    BY <2>1, <2>2, <2>3, WholeSave
<1>4. CASE SaveRolledBack
  <2> DEFINE record == [MigrationState("rolled_back") EXCEPT
                          !.interrupted = FALSE, !.ports = plan.old]
  <2>1. record.backups.files.torn = {}
    BY DEF MigrationState, WholeInv
  <2>2. Save("rolled_back", record, "exit", "exit") /\ pc = "rolled_back"
    BY <1>4 DEF SaveRolledBack, Save
  <2>3. files.torn = {}
    BY <2>2 DEF WholeInv
  <2> HIDE DEF record
  <2> QED
    BY <2>1, <2>2, <2>3, WholeSave
<1>5. CASE SaveRecovered
  <2> DEFINE record == [NoRecord EXCEPT !.mode = "skipped", !.old = plan.old,
                                        !.fw = fwMeta, !.f2b = f2bMeta]
  <2>1. record.backups.files.torn = {}
    BY DEF NoRecord, NoBackups, NoFiles
  <2>2. Save("recovered", record, "finished", "exit") /\ pc = "recovered"
    BY <1>5 DEF SaveRecovered, Save
  <2>3. files.torn = {}
    BY <2>2 DEF WholeInv
  <2> HIDE DEF record
  <2> QED
    BY <2>1, <2>2, <2>3, WholeSave
<1> QED
  BY <1>1, <1>2, <1>3, <1>4, <1>5 DEF Saves

(* The steps of a process that keep the files, and those that write them.  *)
LEMMA StepWhole ==
    ASSUME TypeOK, IInv, WholeInv, Process, ~Saves, ~Exit
    PROVE  WholeInv'
<1> USE DEF Forward, Transition, Finalization
<1>0. pc \in {"rb_firewall", "rb_ssh", "rb_jail", "rb_cleanup"}
        => memory.interrupted /\ saved.interrupted
  BY DEF IInv, RecordCovers
<1>1. CASE \/ PrepareFirewall \/ RefuseTransition \/ ApplyTransition \/ PrepareJail
           \/ ConfirmLogin \/ ConfirmSudo \/ Decline \/ ApplyFinal \/ FinalizeJail
           \/ FinalizeFirewall \/ VerifyComponents
  <2>1. /\ UNCHANGED <<files, backups, saved, memory>>
        /\ pc \in Forward /\ pc' \in Forward \cup {"raised"}
    BY <1>1
    DEF PrepareFirewall, RefuseTransition, ApplyTransition, PrepareJail, ConfirmLogin,
        ConfirmSudo, Decline, ApplyFinal, FinalizeJail, FinalizeFirewall, VerifyComponents,
        ApplyConfig, ApplyJail, Goto, hostVars, recordVars, txnVars
  <2> QED
    BY <2>1 DEF WholeInv
<1>2. CASE RestoreFirewall \/ RollbackJail \/ CleanupFirewall
  <2>1. /\ UNCHANGED <<files, backups, saved, memory>>
        /\ \/ pc = "rb_firewall" /\ pc' = "rb_ssh"
           \/ /\ pc \in {"rb_jail", "rb_cleanup"}
              /\ pc' \in {"rb_cleanup", "rolled_back", "recovered"}
           \/ pc' \in {"exit", "rb_failed"}
        /\ pc \in {"rb_firewall", "rb_jail", "rb_cleanup"}
    BY <1>2
    DEF RestoreFirewall, RollbackJail, CleanupFirewall, RollbackFailed, Goto, hostVars,
        recordVars, txnVars
  <2> QED
    BY <1>0, <2>1 DEF WholeInv
<1>3. CASE BackupFiles
  <2>1. /\ UNCHANGED <<files, saved, memory>> /\ pc = "backup" /\ pc' \in {"backed", "exit"}
        /\ backups' \in {backups, [taken |-> TRUE, files |-> files]}
    BY <1>3 DEF BackupFiles, Goto, hostVars, recordVars
  <2> QED
    BY <2>1 DEF WholeInv
<1>4. CASE WriteTransition \/ WriteFinal
  <2>1. /\ UNCHANGED <<backups, saved, memory>> /\ files'.torn = files.torn
        /\ pc \in Forward /\ pc' \in Forward \cup {"raised"}
    BY <1>4
    DEF WriteTransition, WriteFinal, WriteConfig, Goto, recordVars, txnVars, TypeOK, Files
  <2> QED
    BY <2>1 DEF WholeInv
<1>5. CASE RollbackSsh
  <2>1. /\ UNCHANGED <<backups, saved, memory>>
        /\ pc' = "rb_jail" => files' = backups.files
        /\ pc' \in {"rb_jail", "exit", "rb_failed"} /\ pc = "rb_ssh"
    BY <1>5 DEF RollbackSsh, RollbackFailed, Goto, recordVars, txnVars
  <2> QED
    BY <1>0, <2>1 DEF WholeInv
<1> QED
  BY <1>1, <1>2, <1>3, <1>4, <1>5 DEF Process

LEMMA NextWhole ==
    TypeOK /\ IInv /\ UndoInv /\ WholeInv /\ [Next]_vars => WholeInv'
<1> SUFFICES ASSUME TypeOK, IInv, UndoInv, WholeInv, [Next]_vars
             PROVE  WholeInv'
  OBVIOUS
<1> USE DEF Forward, Transition, Finalization
<1>1. CASE Saves
  BY <1>1, SavesWhole
<1>2. CASE Process /\ ~Saves /\ ~Exit
  BY <1>2, StepWhole
<1>3. CASE Exit
  <2>1. /\ UNCHANGED files /\ pc' = "idle" /\ backups' = NoBackups /\ memory' = NoRecord
        /\ saved' \in {saved, memory, [memory EXCEPT !.stage = "none"]}
        /\ pc \in {"exit", "finished"}
    BY <1>3 DEF Exit, Forget, hostVars
  <2>2. \/ saved' = saved
        \/ saved'.interrupted = memory.interrupted /\ saved'.backups = memory.backups
    BY <2>1 DEF TypeOK, Record
  <2>3. ~memory.interrupted => files.torn = {}
    BY <2>1 DEF WholeInv, UndoInv, MemoryTrue
  <2> QED
    BY <2>1, <2>2, <2>3 DEF WholeInv, NoBackups, NoFiles, NoRecord
<1>4. CASE Crash \/ Reboot
  <2>1. /\ UNCHANGED <<files, saved>> /\ pc' = "idle" /\ backups' = NoBackups
        /\ memory' = NoRecord
    BY <1>4 DEF Crash, Reboot, Forget, hostVars
  <2> QED
    BY <2>1 DEF WholeInv, NoBackups, NoFiles, NoRecord
<1>5. CASE KeepCurrent
  <2>1. /\ UNCHANGED <<files, backups, memory, pc>> /\ pc = "idle" /\ ~saved.interrupted
        /\ saved' = saved \/ saved'.backups = NoBackups
    BY <1>5 DEF KeepCurrent, NoRecord, hostVars, txnVars
  <2> QED
    BY <2>1 DEF WholeInv, NoBackups, NoFiles
<1>6. CASE StartMigration
  <2>1. /\ UNCHANGED <<files, backups, saved, memory>> /\ pc' = "planned"
        /\ ~saved.interrupted
    BY <1>6 DEF StartMigration, hostVars, recordVars
  <2> QED
    BY <2>1 DEF WholeInv
<1>7. CASE StartRecovery
  <2>1. /\ UNCHANGED <<files, saved>> /\ pc' = "rb_firewall" /\ memory' = saved
        /\ backups' = saved.backups
    BY <1>7 DEF StartRecovery, Goto, hostVars
  <2> QED
    BY <2>1 DEF WholeInv
<1>8. CASE UNCHANGED vars
  BY <1>8 DEF vars, WholeInv
<1> QED
  BY <1>1, <1>2, <1>3, <1>4, <1>5, <1>6, <1>7, <1>8 DEF Next

LEMMA InitWhole == Init => WholeInv
BY DEF Init, WholeInv, NoRecord, NoBackups, NoFiles, Forward, Transition, Finalization

THEOREM WholeInductive == Spec => []WholeInv
<1> QED
  BY NextWhole, InitWhole, TypeCorrect, Inductive, UndoInductive, PTL DEF Spec

-----------------------------------------------------------------------------
(* Steps that close no way: rules are only added.                          *)
Grows ==
    /\ UNCHANGED host /\ ufw'.active = ufw.active
    /\ Paths \subseteq Paths' /\ AllowedPorts \subseteq AllowedPorts'
    /\ Guarded' => Guarded

LEMMA SameGrows == ASSUME UNCHANGED <<host, ufw, marker>> PROVE Grows
BY DEF Grows, Paths, AllowedPorts, Guarded

LEMMA AddedGrows ==
    ASSUME TypeOK, UNCHANGED <<host, marker>>, NEW ports, SetRules(ports, "managed")
    PROVE  Grows
<1>1. /\ ufw'.active = ufw.active
      /\ \A p \in Port : ufw'.rules[p] = IF p \in ports THEN "managed" ELSE ufw.rules[p]
  BY DEF SetRules, TypeOK, Ufw
<1>2. host.provider \subseteq Port
  BY DEF TypeOK, HostType
<1> QED
  BY <1>1, <1>2 DEF Grows, Paths, AllowedPorts, Guarded

(* Deleted rules close the ways of their ports only.                       *)
LEMMA DeletedPaths ==
    ASSUME TypeOK, UNCHANGED host, NEW ports, NEW kept, DeleteRules(ports, kept)
    PROVE  /\ ufw'.active = ufw.active
           /\ Paths \ ports \subseteq Paths'
           /\ AllowedPorts \ ports \subseteq AllowedPorts'
<1>1. /\ ufw'.active = ufw.active
      /\ \A p \in Port : p \notin ports => ufw'.rules[p] = ufw.rules[p]
  BY DEF DeleteRules, SetRules, TypeOK, Ufw
<1>2. host.provider \subseteq Port
  BY DEF TypeOK, HostType
<1> QED
  BY <1>1, <1>2 DEF Paths, AllowedPorts

LEMMA WayInStays == ASSUME WayIn, Grows, UNCHANGED <<files, live>> PROVE WayIn'
<1>1. NoLockout'
  BY DEF WayIn, Grows, NoLockout, Reachable, Paths
<1>2. DiskOpen'
  BY DEF WayIn, DiskOpen, Grows, LetsIn, EffectiveAuth, Open, Listening, EffectivePorts
<1> QED
  BY <1>1, <1>2 DEF WayIn

(* A step of the open transaction that saves nothing.                      *)
LEMMA StepWaysBack ==
    ASSUME WaysBack, Grows, UNCHANGED <<saved, memory, plan, backups, fwMeta>>,
           pc \notin {"idle", "exit", "finished"},
           pc' \in Deleting => pc \in Deleting
    PROVE  WaysBack'
BY DEF WaysBack, WayBack, Grows, EffectiveAuth, Open, Covered

LEMMA StepOpenings ==
    ASSUME TransitionOpen, FinalOpen, RestoredOpen, Grows,
           UNCHANGED <<plan, fwMeta, files, live>>,
           pc' \in Transition => pc \in Transition,
           pc' \in Finalization => pc \in Finalization,
           pc' \in Restoration => pc \in Restoration,
           pc' \in FinalListening => pc \in FinalListening,
           pc' \notin {"confirm_sudo", "apply_final"}
    PROVE  TransitionOpen' /\ FinalOpen' /\ RestoredOpen'
<1>1. TransitionOpen'
  BY DEF TransitionOpen, Grows, Open, Covered
<1>2. FinalOpen'
  BY DEF FinalOpen, Grows, Open, Covered
<1>3. RestoredOpen'
  BY DEF RestoredOpen, Grows, Open, Covered
<1> QED
  BY <1>1, <1>2, <1>3

(* While the record is open and stays so.                                  *)
LEMMA OpenRecordCovered ==
    ASSUME saved'.interrupted, pc' = "exit" => memory'.interrupted
    PROVE  ClosedCovered'
BY DEF ClosedCovered

-----------------------------------------------------------------------------
(* A save of the migration's state: the way back it knows is the one of    *)
(* the process.                                                            *)
LEMMA StateReach ==
    ASSUME ReachInv, NEW stage, NEW from, NEW to, NEW onFailure,
           Save(from, MigrationState(stage), to, onFailure),
           from \notin {"idle", "exit", "finished"},
           onFailure \in {"exit", "raised"},
           to \in Transition => from \in Transition,
           to \in Finalization => from \in Finalization,
           to \in FinalListening => from \in FinalListening,
           to \notin Restoration, to \notin {"confirm_sudo", "apply_final"}
    PROVE  ReachInv'
<1>1. LET r == MigrationState(stage)
      IN  r.interrupted /\ r.backups = backups /\ r.old = plan.old /\ r.fw = fwMeta
  BY DEF MigrationState
<1>2. /\ UNCHANGED <<host, files, live, ufw, marker, plan, backups, fwMeta>>
      /\ memory' = MigrationState(stage) /\ saved' \in {saved, memory'}
      /\ pc = from /\ pc' \in {to, onFailure}
      /\ pc' = onFailure \/ saved' = memory'
  BY DEF Save, hostVars, ufwVars, txnVars, metaVars
<1>3. Grows
  BY <1>2, SameGrows
<1>4. WayIn'
  BY <1>2, <1>3, WayInStays DEF ReachInv
<1>5. ClosedCovered'
  BY <1>1, <1>2 DEF ReachInv, ClosedCovered, Covered, Guarded, AllowedPorts
<1>6. WaysBack'
  <2>1. WayBack(backups, plan.old, fwMeta)'
    BY <1>2, <1>3 DEF ReachInv, WaysBack, WayBack, Grows, EffectiveAuth, Open, Covered
  <2>2. WayBack(memory.backups, memory.old, memory.fw)'
    BY <1>1, <1>2, <2>1 DEF WayBack, EffectiveAuth, Open, Covered
  <2>3. saved'.interrupted => WayBack(saved.backups, saved.old, saved.fw)'
    <3>1. CASE saved' = saved
      BY <1>2, <1>3, <3>1
      DEF ReachInv, WaysBack, WayBack, Grows, EffectiveAuth, Open, Covered
    <3>2. CASE saved' = memory'
      BY <2>2, <3>2 DEF WayBack, EffectiveAuth, Open, Covered
    <3> QED
      BY <1>2, <3>1, <3>2
  <2> QED
    BY <1>1, <1>2, <2>1, <2>2, <2>3 DEF WaysBack, Deleting
<1>7. TransitionOpen' /\ FinalOpen' /\ RestoredOpen'
  BY <1>2, <1>3, StepOpenings
  DEF ReachInv, Transition, Finalization, FinalListening, Restoration
<1> QED
  BY <1>4, <1>5, <1>6, <1>7 DEF ReachInv

(* A save that closes the record, of a host whose ports are covered.       *)
LEMMA CloseReach ==
    ASSUME ReachInv, NEW from, NEW record, NEW to, NEW onFailure,
           Save(from, record, to, onFailure), from \notin {"idle", "exit", "finished"},
           ~record.interrupted, Covered(live.ports),
           {to, onFailure} \subseteq {"exit", "raised", "finished"}
    PROVE  ReachInv'
<1>1. /\ UNCHANGED <<host, files, live, ufw, marker, plan, backups, fwMeta>>
      /\ memory' = record /\ saved' \in {saved, record}
      /\ pc = from /\ pc' \in {to, onFailure}
  BY DEF Save, hostVars, ufwVars, txnVars, metaVars
<1>2. Grows
  BY <1>1, SameGrows
<1>3. WayIn'
  BY <1>1, <1>2, WayInStays DEF ReachInv
<1>4. ClosedCovered'
  BY <1>1 DEF ClosedCovered, Covered, Guarded, AllowedPorts
<1>5. WaysBack'
  BY <1>1, <1>2 DEF ReachInv, WaysBack, WayBack, Grows, EffectiveAuth, Open, Covered, Deleting
<1>6. TransitionOpen' /\ FinalOpen' /\ RestoredOpen'
  BY <1>1, <1>2, StepOpenings
  DEF ReachInv, Transition, Finalization, FinalListening, Restoration
<1> QED
  BY <1>3, <1>4, <1>5, <1>6 DEF ReachInv

LEMMA SavesReach ==
    ASSUME IInv, UndoInv, RecordInv, ReachInv, Saves, ~BlindDiscovery
    PROVE  ReachInv'
<1> USE DEF Transition, Finalization, FinalListening, Restoration
<1>1. ASSUME \/ SavePlanned \/ SaveBackups \/ SaveApplying \/ SaveFirewall \/ SaveJail
             \/ SaveAwaiting \/ SaveFinalizing
      PROVE  ReachInv'
  BY <1>1, StateReach
  DEF SavePlanned, SaveBackups, SaveApplying, SaveFirewall, SaveJail, SaveAwaiting,
      SaveFinalizing
<1>2. CASE SaveActive
  BY <1>2, StateReach DEF SaveActive
<1>3. CASE SaveJailFinal
  BY <1>3, StateReach DEF SaveJailFinal
<1>4. CASE SaveFirewallFinalizing \/ SaveFirewallFinal
  BY <1>4, StateReach DEF SaveFirewallFinalizing, SaveFirewallFinal
<1>5. CASE SaveRollbackStarted
  BY <1>5, StateReach DEF SaveRollbackStarted
<1>6. CASE SaveRollbackFailed
  BY <1>6, StateReach DEF SaveRollbackFailed
<1>7. CASE SaveDone
  <2> DEFINE record == [MigrationState("done") EXCEPT
                          !.mode = "managed", !.interrupted = FALSE,
                          !.backups = NoBackups, !.ports = plan.final]
  <2>1. ~record.interrupted
    BY DEF MigrationState
  <2>2. pc = "verified" /\ Save("verified", record, "finished", "raised")
    BY <1>7 DEF SaveDone, Save
  <2>3. Covered(live.ports)
    BY <2>2 DEF ReachInv, FinalOpen, Covered
  <2> HIDE DEF record
  <2> QED
    BY <2>1, <2>2, <2>3, CloseReach
<1>8. CASE SaveRolledBack
  <2> DEFINE record == [MigrationState("rolled_back") EXCEPT
                          !.interrupted = FALSE, !.ports = plan.old]
  <2>1. ~record.interrupted
    BY DEF MigrationState
  <2>2. pc = "rolled_back" /\ Save("rolled_back", record, "exit", "exit")
    BY <1>8 DEF SaveRolledBack, Save
  <2>3. Covered(live.ports)
    BY <2>2, OldPortsAreBack DEF ReachInv, RestoredOpen, Covered
  <2> HIDE DEF record
  <2> QED
    BY <2>1, <2>2, <2>3, CloseReach
<1>9. CASE SaveRecovered
  <2> DEFINE record == [NoRecord EXCEPT !.mode = "skipped", !.old = plan.old,
                                        !.fw = fwMeta, !.f2b = f2bMeta]
  <2>1. ~record.interrupted
    BY DEF NoRecord
  <2>2. pc = "recovered" /\ Save("recovered", record, "finished", "exit")
    BY <1>9 DEF SaveRecovered, Save
  <2>3. Covered(live.ports)
    BY <2>2, OldPortsAreBack DEF ReachInv, RestoredOpen, Covered
  <2> HIDE DEF record
  <2> QED
    BY <2>1, <2>2, <2>3, CloseReach
<1> QED
  BY <1>1, <1>2, <1>3, <1>4, <1>5, <1>6, <1>7, <1>8, <1>9 DEF Saves

-----------------------------------------------------------------------------
(* The transition.                                                         *)
LEMMA TransitionReach ==
    ASSUME TypeOK, IInv, UndoInv, RecordInv, WholeInv, ReachInv, ~BlindDiscovery,
           \/ BackupFiles \/ PrepareFirewall \/ RefuseTransition \/ PrepareJail
           \/ ConfirmLogin \/ ConfirmSudo \/ Decline \/ FinalizeJail \/ VerifyComponents
    PROVE  ReachInv'
<1> USE DEF Transition, Finalization, FinalListening, Restoration
<1>0. pc \notin {"idle", "planned", "raised", "exit", "finished"} => saved.interrupted
  BY DEF IInv, RecordCovers
<1>1. CASE RefuseTransition \/ PrepareJail \/ Decline \/ FinalizeJail \/ VerifyComponents
  <2>1. /\ UNCHANGED <<host, files, live, ufw, marker, saved, memory, plan, backups, fwMeta>>
        /\ pc \in {"write_transition", "f2b_prepare", "confirm_login", "confirm_sudo",
                   "f2b_finalize", "verify"}
        /\ \/ pc' = "raised"
           \/ pc = "f2b_prepare" /\ pc' = "f2b_prepared"
           \/ pc = "f2b_finalize" /\ pc' = "f2b_finalized"
           \/ pc = "verify" /\ pc' = "verified"
    BY <1>1
    DEF RefuseTransition, PrepareJail, ApplyJail, Decline, FinalizeJail, VerifyComponents,
        Goto, hostVars, ufwVars, recordVars, txnVars, metaVars
  <2>2. Grows
    BY <2>1, SameGrows
  <2>3. WayIn' /\ ClosedCovered'
    BY <1>0, <2>1, <2>2, WayInStays, OpenRecordCovered DEF ReachInv
  <2>4. WaysBack'
    BY <2>1, <2>2, StepWaysBack DEF ReachInv, Deleting
  <2>5. TransitionOpen' /\ FinalOpen' /\ RestoredOpen'
    BY <2>1, <2>2, StepOpenings DEF ReachInv
  <2> QED
    BY <2>3, <2>4, <2>5 DEF ReachInv
<1>2. CASE BackupFiles
  <2>1. /\ UNCHANGED <<host, files, live, ufw, marker, saved, memory, plan, fwMeta>>
        /\ pc = "backup" /\ pc' \in {"backed", "exit"}
        /\ backups' \in {backups, [taken |-> TRUE, files |-> files]}
    BY <1>2 DEF BackupFiles, Goto, hostVars, ufwVars, recordVars, metaVars
  <2>2. Grows
    BY <2>1, SameGrows
  <2>3. memory.interrupted
    BY <2>1 DEF UndoInv, MemoryTrue
  <2>4. WayIn' /\ ClosedCovered'
    BY <1>0, <2>1, <2>2, <2>3, WayInStays, OpenRecordCovered DEF ReachInv
  <2>5. EffectiveAuth(files.dropin) \in host.login
    BY <2>1 DEF WholeInv, Forward, ReachInv, WayIn, DiskOpen, LetsIn
  <2>6. WaysBack'
    BY <2>1, <2>2, <2>5
    DEF ReachInv, WaysBack, WayBack, Grows, EffectiveAuth, Open, Covered, Deleting
  <2>7. TransitionOpen' /\ FinalOpen' /\ RestoredOpen'
    BY <2>1, <2>2, StepOpenings DEF ReachInv
  <2> QED
    BY <2>4, <2>6, <2>7 DEF ReachInv
<1>3. CASE PrepareFirewall
  <2>1. /\ UNCHANGED <<host, files, live, marker, saved, memory, plan, backups>>
        /\ pc = "fw_prepare" /\ pc' \in {"fw_prepared", "raised"}
    BY <1>3 DEF PrepareFirewall, Goto, hostVars, recordVars, txnVars
  <2>2. Grows
    <3>1. \/ UNCHANGED ufw
          \/ \E ports \in SUBSET Port : SetRules(ports, "managed")
      BY <1>3 DEF PrepareFirewall, TypeOK, Plan
    <3> QED
      BY <2>1, <3>1, SameGrows, AddedGrows
  <2>3. WayIn' /\ ClosedCovered'
    BY <1>0, <2>1, <2>2, WayInStays, OpenRecordCovered DEF ReachInv
  <2>4. Open(plan.old) /\ Covered(plan.old) /\ plan.old \cup plan.final \subseteq plan.target
    BY <2>1 DEF ReachInv, TransitionOpen
  <2>5. CASE UNCHANGED fwMeta
    <3>1. WaysBack'
      BY <2>1, <2>2, <2>5, StepWaysBack DEF ReachInv, Deleting
    <3>2. TransitionOpen' /\ FinalOpen' /\ RestoredOpen'
      BY <2>1, <2>2, <2>5, StepOpenings DEF ReachInv
    <3> QED
      BY <2>3, <3>1, <3>2 DEF ReachInv
  <2>6. CASE ~UNCHANGED fwMeta
    <3>1. /\ ManagedFirewallExists /\ SetRules(plan.target \ AllowedPorts, "managed")
          /\ fwMeta'.managed /\ fwMeta'.added = plan.target \ AllowedPorts
          /\ pc' = "fw_prepared"
      BY <1>3, <2>6 DEF PrepareFirewall
    <3>2. Guarded /\ ufw.active
      BY <3>1 DEF ManagedFirewallExists, VerifyFirewall, Guarded
    <3>3. plan.target \subseteq AllowedPorts'
      BY <3>1, <3>2 DEF SetRules, AllowedPorts, TypeOK, Ufw, Plan
    <3>4. /\ \E p \in plan.old : p \in host.provider
          /\ fwMeta'.added \cap plan.old = {}
      BY <2>4, <3>1, <3>2 DEF Open, Paths, Covered
    <3>5. WayBack(backups, plan.old, fwMeta)'
      BY <2>1, <2>2, <3>1, <3>2, <3>4 DEF ReachInv, WaysBack, WayBack, EffectiveAuth, Grows
    <3>6. WaysBack'
      BY <2>1, <2>2, <3>1, <3>5
      DEF ReachInv, WaysBack, WayBack, Grows, EffectiveAuth, Open, Covered, Deleting
    <3>7. TransitionOpen'
      BY <2>1, <2>2, <2>4, <3>3 DEF ReachInv, TransitionOpen, Grows, Open, Covered
    <3>8. FinalOpen' /\ RestoredOpen'
      BY <3>1 DEF FinalOpen, RestoredOpen
    <3> QED
      BY <2>3, <3>6, <3>7, <3>8 DEF ReachInv
  <2> QED
    BY <2>5, <2>6
<1>4. CASE ConfirmLogin \/ ConfirmSudo
  <2>1. /\ UNCHANGED <<host, files, live, ufw, marker, saved, memory, plan, backups, fwMeta>>
        /\ pc \in {"confirm_login", "confirm_sudo"} /\ pc' \in {"confirm_sudo", "confirmed"}
    BY <1>4 DEF ConfirmLogin, ConfirmSudo, Goto, hostVars, ufwVars, recordVars, txnVars, metaVars
  <2>2. Grows
    BY <2>1, SameGrows
  <2>3. WayIn' /\ ClosedCovered'
    BY <1>0, <2>1, <2>2, WayInStays, OpenRecordCovered DEF ReachInv
  <2>4. WaysBack'
    BY <2>1, <2>2, StepWaysBack DEF ReachInv, Deleting
  <2>5. /\ Open(plan.final) /\ Covered(plan.final)
        /\ fwMeta.managed => plan.final \subseteq AllowedPorts
    <3>1. CASE ConfirmLogin
      <4>1. PICK p \in plan.final : Reachable(p)
        BY <3>1 DEF ConfirmLogin
      <4>2. pc = "confirm_login" /\ p \in Port
        BY <3>1 DEF ConfirmLogin, Goto, TypeOK, Plan
      <4>3. p \in Paths /\ (ufw.active => p \in AllowedPorts)
        BY <4>1, <4>2 DEF Reachable, Paths, AllowedPorts
      <4> QED
        BY <4>2, <4>3 DEF ReachInv, TransitionOpen, Open, Covered, Guarded
    <3>2. CASE ConfirmSudo
      BY <3>2 DEF ConfirmSudo, Goto, ReachInv, FinalOpen
    <3> QED
      BY <1>4, <3>1, <3>2
  <2>6. /\ pc' = "confirm_sudo" => plan.finalAuth = "noroot"
        /\ pc' = "confirmed" => plan.finalAuth \in host.login
    <3>1. CASE ConfirmLogin
      <4>1. /\ plan.finalAuth \in Auth /\ plan.auth \in host.login
            /\ plan.finalAuth = "open" => plan.auth = "open"
        BY <3>1 DEF ConfirmLogin, Goto, ReachInv, TransitionOpen, TypeOK, Plan
      <4> QED
        BY <3>1, <4>1 DEF ConfirmLogin, Goto, Auth
    <3>2. CASE ConfirmSudo
      BY <3>2 DEF ConfirmSudo, Goto, ReachInv, FinalOpen
    <3> QED
      BY <1>4, <3>1, <3>2
  <2>7. TransitionOpen' /\ RestoredOpen'
    BY <2>1 DEF TransitionOpen, RestoredOpen
  <2>8. FinalOpen'
    BY <2>1, <2>2, <2>5, <2>6 DEF FinalOpen, Grows, Open, Covered
  <2> QED
    BY <2>3, <2>4, <2>7, <2>8 DEF ReachInv
<1> QED
  BY <1>1, <1>2, <1>3, <1>4

-----------------------------------------------------------------------------
(* Writing a configuration that opens ports, also when only the drop-in is *)
(* written, leaves one on disk that lets the operator in.                  *)
LEMMA WrittenOpen ==
    ASSUME TypeOK, WayIn, files.torn = {}, NEW from, NEW to, NEW ports, NEW auth \in Auth,
           WriteConfig(from, ports, auth, to), UNCHANGED ufw,
           Open(ports), auth \in host.login
    PROVE  DiskOpen'
<1>1. UNCHANGED host /\ Paths' = Paths
  BY DEF WriteConfig, Paths
<1>2. ports # {} /\ auth # "absent"
  BY DEF Open, Auth
<1>3. CASE UNCHANGED files
  BY <1>1, <1>3
  DEF WayIn, DiskOpen, LetsIn, EffectiveAuth, Open, Listening, EffectivePorts
<1>4. ASSUME files'.dropin = [ports |-> ports, auth |-> auth],
             files'.socket \in {ports, files.socket},
             host.activation = "socket" /\ files'.socket # {} => Open(files'.socket)
      PROVE  DiskOpen'
  <2>1. \/ ports \subseteq Listening(files)'
        \/ /\ host.activation = "socket" /\ files'.socket # {}
           /\ Listening(files)' = files'.socket
    BY <1>1, <1>2, <1>4 DEF Listening, EffectivePorts
  <2>2. EffectiveAuth(files.dropin)' = auth
    BY <1>2, <1>4 DEF EffectiveAuth
  <2> QED
    BY <1>1, <1>4, <2>1, <2>2 DEF DiskOpen, LetsIn, Open
<1>5. CASE ~UNCHANGED files
  <2>1. /\ files'.dropin = [ports |-> ports, auth |-> auth]
        /\ files'.socket \in {ports, files.socket}
    BY <1>5 DEF WriteConfig, TypeOK, Files
  <2> QED
    BY <1>4, <2>1 DEF WayIn, DiskOpen
<1> QED
  BY <1>3, <1>5

LEMMA WriteReach ==
    ASSUME TypeOK, IInv, WholeInv, ReachInv, WriteTransition \/ WriteFinal
    PROVE  ReachInv'
<1> USE DEF Transition, Finalization, FinalListening, Restoration
<1>1. /\ UNCHANGED <<host, live, ufw, marker, saved, memory, plan, backups, fwMeta>>
      /\ pc \in {"write_transition", "write_final"}
      /\ \/ pc' = "raised"
         \/ pc = "write_transition" /\ pc' = "apply_transition"
         \/ /\ pc = "write_final" /\ pc' = "apply_final"
            /\ host.activation = "socket" => files'.socket = plan.final
  BY DEF WriteTransition, WriteFinal, WriteConfig, Goto, ufwVars, recordVars, txnVars, metaVars,
         TypeOK, Files
<1>2. Grows
  BY <1>1, SameGrows
<1>3. DiskOpen'
  <2>0. files.torn = {}
    BY <1>1 DEF WholeInv, Forward
  <2>1. CASE WriteTransition
    <3>1. /\ Open(plan.target) /\ plan.auth \in host.login /\ plan.auth \in Auth
      BY <2>1
      DEF WriteTransition, WriteConfig, Goto, ReachInv, TransitionOpen, Open, TypeOK, Plan
    <3> QED
      BY <1>1, <2>0, <2>1, <3>1, WrittenOpen DEF WriteTransition, ReachInv
  <2>2. CASE WriteFinal
    <3>1. /\ Open(plan.final) /\ plan.finalAuth \in host.login /\ plan.finalAuth \in Auth
      BY <2>2 DEF WriteFinal, WriteConfig, Goto, ReachInv, FinalOpen, TypeOK, Plan
    <3> QED
      BY <1>1, <2>0, <2>2, <3>1, WrittenOpen DEF WriteFinal, ReachInv
  <2> QED
    BY <2>1, <2>2
<1>4. NoLockout'
  BY <1>1 DEF ReachInv, WayIn, NoLockout, Reachable
<1>5. ClosedCovered'
  BY <1>1, OpenRecordCovered DEF IInv, RecordCovers
<1>6. WaysBack'
  BY <1>1, <1>2, StepWaysBack DEF ReachInv, Deleting
<1>7. TransitionOpen' /\ RestoredOpen'
  BY <1>1, <1>2 DEF ReachInv, TransitionOpen, RestoredOpen, Grows, Open, Covered
<1>8. FinalOpen'
  BY <1>1, <1>2 DEF ReachInv, FinalOpen, Grows, Open, Covered
<1> QED
  BY <1>3, <1>4, <1>5, <1>6, <1>7, <1>8 DEF ReachInv, WayIn

(* A unit that was restarted, or left as it was, or stopped.               *)
LEMMA StartedNoLockout ==
    ASSUME WayIn, UNCHANGED <<host, files, ufw>>, live' \in {live, Started(files), Down}
    PROVE  NoLockout'
<1>1. CASE live' = live
  BY <1>1 DEF WayIn, NoLockout, Reachable
<1>2. CASE live' = Started(files)
  BY <1>2 DEF WayIn, DiskOpen, LetsIn, Open, Paths, Started, NoLockout, Reachable
<1>3. CASE live' = Down
  <2>1. Down.ports = {} \/ Down = live
    BY DEF Down
  <2> QED
    BY <1>1, <1>3, <2>1 DEF NoLockout
<1> QED
  BY <1>1, <1>2, <1>3

LEMMA ApplyReach ==
    ASSUME TypeOK, IInv, ReachInv, ApplyTransition \/ ApplyFinal
    PROVE  ReachInv'
<1> USE DEF Transition, Finalization, FinalListening, Restoration
<1>1. /\ UNCHANGED <<host, files, ufw, marker, saved, memory, plan, backups, fwMeta>>
      /\ live' \in {live, Started(files), Down}
      /\ pc \in {"apply_transition", "apply_final"}
      /\ \/ pc' = "raised"
         \/ pc = "apply_transition" /\ pc' = "f2b_prepare"
         \/ /\ pc = "apply_final" /\ pc' = "f2b_finalize"
            /\ live' = Started(files) /\ EffectivePorts(files.dropin) = plan.final
  BY DEF ApplyTransition, ApplyFinal, ApplyConfig, Goto, ufwVars, recordVars, txnVars, metaVars
<1>2. Grows
  BY <1>1, SameGrows
<1>3. NoLockout'
  BY <1>1, StartedNoLockout DEF ReachInv
<1>4. DiskOpen'
  BY <1>1, <1>2
  DEF ReachInv, WayIn, DiskOpen, Grows, LetsIn, EffectiveAuth, Open, Listening,
      EffectivePorts
<1>5. ClosedCovered'
  BY <1>1, OpenRecordCovered DEF IInv, RecordCovers
<1>6. WaysBack'
  BY <1>1, <1>2, StepWaysBack DEF ReachInv, Deleting
<1>7. TransitionOpen' /\ RestoredOpen'
  BY <1>1, <1>2 DEF ReachInv, TransitionOpen, RestoredOpen, Grows, Open, Covered
<1>8. pc' = "f2b_finalize" => live'.ports = plan.final
  BY <1>1 DEF ReachInv, FinalOpen, Started, Listening
<1>9. FinalOpen'
  BY <1>1, <1>2, <1>8 DEF ReachInv, FinalOpen, Grows, Open, Covered
<1> QED
  BY <1>3, <1>4, <1>5, <1>6, <1>7, <1>9 DEF ReachInv, WayIn

-----------------------------------------------------------------------------
(* Finalization deletes the rules of the ports that SSH has left.          *)
LEMMA FinalizeReach ==
    ASSUME TypeOK, IInv, WholeInv, ReachInv, FinalizeFirewall
    PROVE  /\ ReachInv'
           /\ \A p \in live.ports : ufw'.rules[p] = ufw.rules[p]
<1> USE DEF Transition, Finalization, FinalListening, Restoration
<1>1. /\ UNCHANGED <<host, files, live, saved, memory, plan, backups>>
      /\ pc = "fw_finalize" /\ pc' \in {"fw_finalized", "raised"}
  BY DEF FinalizeFirewall, Goto, hostVars, recordVars, txnVars
<1>2. ClosedCovered'
  BY <1>1, OpenRecordCovered DEF IInv, RecordCovers
<1>3. CASE ~fwMeta.managed
  <2>1. UNCHANGED <<ufw, marker, fwMeta>>
    BY <1>3 DEF FinalizeFirewall, ufwVars
  <2>2. Grows
    BY <1>1, <2>1, SameGrows
  <2>3. WayIn'
    BY <1>1, <2>2, WayInStays DEF ReachInv
  <2>4. WaysBack'
    BY <1>1, <2>1, <2>2, StepWaysBack DEF ReachInv, Deleting
  <2>5. TransitionOpen' /\ FinalOpen' /\ RestoredOpen'
    BY <1>1, <2>1, <2>2, StepOpenings DEF ReachInv
  <2> QED
    BY <1>2, <2>1, <2>3, <2>4, <2>5 DEF ReachInv
<1>4. CASE fwMeta.managed
  <2>1. PICK kept : DeleteRules(Stale, kept)
    BY <1>4 DEF FinalizeFirewall
  <2>2. fwMeta'.managed /\ fwMeta'.added = fwMeta.added
    BY <1>4 DEF FinalizeFirewall, FinalMeta, TypeOK, FwMeta
  <2>3. /\ ufw'.active = ufw.active /\ Paths \ Stale \subseteq Paths'
        /\ AllowedPorts \ Stale \subseteq AllowedPorts'
    BY <1>1, <2>1, DeletedPaths
  <2>4. /\ live.ports = plan.final /\ plan.final \cap Stale = {}
        /\ Open(plan.final) /\ plan.final \subseteq AllowedPorts
    BY <1>1, <1>4 DEF ReachInv, FinalOpen, Stale
  <2>5. Open(plan.final)' /\ (plan.final \subseteq AllowedPorts)'
    BY <1>1, <2>3, <2>4 DEF Open
  <2>6. live = Started(files)
    BY <1>1 DEF IInv, StepsSettle
  <2>7. NoLockout'
    <3>1. live.auth \in host.login
      BY <1>1, <2>4, <2>6 DEF WholeInv, Forward, Started, ReachInv, WayIn, NoLockout, Open
    <3> QED
      BY <1>1, <2>4, <2>5, <3>1 DEF NoLockout, Open, Paths, Reachable
  <2>8. DiskOpen'
    <3>1. Listening(files)' = plan.final
      BY <1>1, <2>4, <2>6 DEF Started, Listening, EffectivePorts
    <3>2. files.torn = {}
      BY <1>1 DEF WholeInv, Forward
    <3>3. EffectiveAuth(files.dropin) \in host.login
      BY <3>2 DEF ReachInv, WayIn, DiskOpen, LetsIn
    <3> QED
      BY <1>1, <2>5, <3>1, <3>3 DEF DiskOpen, LetsIn, EffectiveAuth, Open, Listening
  <2>9. WaysBack'
    BY <1>1, <1>4, <2>2, <2>3 DEF ReachInv, WaysBack, WayBack, EffectiveAuth, Deleting
  <2>10. TransitionOpen' /\ RestoredOpen'
    BY <1>1 DEF TransitionOpen, RestoredOpen
  <2>11. FinalOpen'
    BY <1>1, <2>4, <2>5 DEF ReachInv, FinalOpen, Open, Covered
  <2>12. \A p \in live.ports : ufw'.rules[p] = ufw.rules[p]
    BY <2>1, <2>4 DEF DeleteRules, SetRules, TypeOK, Ufw, Live
  <2> QED
    BY <1>2, <2>7, <2>8, <2>9, <2>10, <2>11, <2>12 DEF ReachInv, WayIn
<1> QED
  BY <1>3, <1>4

-----------------------------------------------------------------------------
(* The rollback.                                                           *)
LEMMA RestoreReach ==
    ASSUME TypeOK, IInv, ReachInv, RestoreFirewall
    PROVE  ReachInv'
<1> USE DEF Transition, Finalization, FinalListening, Restoration
<1>1. /\ UNCHANGED <<host, files, live, marker, saved, memory, plan, backups, fwMeta>>
      /\ pc = "rb_firewall" /\ pc' \in {"rb_ssh", "exit", "rb_failed"}
  BY DEF RestoreFirewall, RollbackFailed, Goto, hostVars, recordVars, txnVars, metaVars
<1>2. Grows
  <2>1. \/ UNCHANGED ufw
        \/ \E ports \in SUBSET Port : SetRules(ports, "managed")
    BY DEF RestoreFirewall, TypeOK, Plan
  <2> QED
    BY <1>1, <2>1, SameGrows, AddedGrows
<1>3. WayIn'
  BY <1>1, <1>2, WayInStays DEF ReachInv
<1>4. ClosedCovered'
  BY <1>1, OpenRecordCovered DEF IInv, RecordCovers
<1>5. WaysBack'
  BY <1>1, <1>2, StepWaysBack DEF ReachInv, Deleting
<1>6. WayBack(backups, plan.old, fwMeta)
  BY <1>1 DEF ReachInv, WaysBack
<1>7. ASSUME pc' = "rb_ssh"
      PROVE  /\ Open(plan.old)' /\ Covered(plan.old)'
             /\ fwMeta'.managed => (plan.old \subseteq AllowedPorts)'
  <2>1. CASE ~fwMeta.managed
    BY <1>1, <1>2, <1>6, <2>1 DEF WayBack, Grows, Open, Covered
  <2>2. CASE fwMeta.managed
    <3> DEFINE lost == {p \in plan.old : ufw.rules[p] # "managed"
                          /\ (p \in fwMeta.oldManaged \/ ufw.rules[p] = "none")}
    <3>1. ufw.active /\ SetRules(lost, "managed")
      BY <1>7, <2>2 DEF RestoreFirewall, RollbackFailed, Goto
    <3>2. plan.old \subseteq AllowedPorts'
      BY <3>1 DEF SetRules, AllowedPorts, TypeOK, Ufw, Plan
    <3>3. \E p \in plan.old : p \in host.provider
      BY <1>6, <2>2 DEF WayBack
    <3> QED
      BY <1>1, <3>2, <3>3 DEF Open, Paths, AllowedPorts, Covered
  <2> QED
    BY <2>1, <2>2
<1>8. TransitionOpen' /\ FinalOpen' /\ RestoredOpen'
  BY <1>1, <1>7 DEF TransitionOpen, FinalOpen, RestoredOpen
<1> QED
  BY <1>3, <1>4, <1>5, <1>8 DEF ReachInv

LEMMA RollbackSshReach ==
    ASSUME TypeOK, IInv, UndoInv, WholeInv, ReachInv, ~BlindDiscovery, RollbackSsh
    PROVE  ReachInv'
<1> USE DEF Transition, Finalization, FinalListening, Restoration
<1>1. /\ UNCHANGED <<host, ufw, marker, saved, memory, plan, backups, fwMeta>>
      /\ pc = "rb_ssh" /\ pc' \in {"rb_jail", "exit", "rb_failed"}
      /\ files' \in {files, HalfRestored(backups.files), backups.files}
                      \cup CutOff(backups.files)
      /\ IF files' = backups.files
         THEN live' \in {live, Started(backups.files), Down}
         ELSE UNCHANGED live
  BY DEF RollbackSsh, RollbackFailed, Goto, ufwVars, recordVars, txnVars, metaVars
<1>2. Grows
  BY <1>1, SameGrows
<1>3. /\ backups.taken /\ Listening(backups.files) = plan.old
      /\ EffectivePorts(backups.files.dropin) = plan.old
  BY <1>1 DEF IInv, UndoInv, BackupsKnown, TargetsKnown, LeadsToOld, BackupsCoherent, Coherent
<1>4. EffectiveAuth(backups.files.dropin) \in host.login /\ Open(plan.old)
  BY <1>1, <1>3 DEF ReachInv, WaysBack, WayBack, RestoredOpen
<1>5. LetsIn(backups.files)
  BY <1>3, <1>4 DEF LetsIn
<1>6. DiskOpen'
  <2>0. /\ host.activation = "socket" /\ files.socket # {} /\ "socket" \notin files.torn
             => Open(files.socket)
        /\ Paths' = Paths
    BY <1>1 DEF ReachInv, WayIn, DiskOpen, Paths
  <2>1. CASE files' = files
    BY <1>1, <1>2, <2>1
    DEF ReachInv, WayIn, DiskOpen, Grows, LetsIn, EffectiveAuth, Open, Listening,
        EffectivePorts
  <2>2. CASE files' = backups.files
    <3>1. host.activation = "socket" /\ backups.files.socket # {}
            => Open(backups.files.socket)
      BY <1>3, <1>4 DEF Listening
    <3> QED
      BY <1>1, <1>5, <2>0, <2>2, <3>1
      DEF DiskOpen, LetsIn, EffectiveAuth, Open, Listening, EffectivePorts
  <2>3. CASE files' = HalfRestored(backups.files)
    <3>1. /\ files'.dropin = backups.files.dropin /\ files'.socket = files.socket
          /\ "socket" \in files'.torn <=> "socket" \in files.torn
      BY <2>3 DEF HalfRestored, TypeOK, Files
    <3>2. \/ Listening(files)' = plan.old
          \/ /\ host.activation = "socket" /\ files.socket # {}
             /\ Listening(files)' = files.socket
      BY <1>1, <1>3, <3>1 DEF Listening, EffectivePorts
    <3>3. EffectiveAuth(files.dropin)' \in host'.login
      BY <1>1, <1>4, <3>1 DEF EffectiveAuth
    <3> QED
      BY <1>1, <1>4, <2>0, <3>1, <3>2, <3>3 DEF DiskOpen, LetsIn, Open
  <2>4. CASE files' \in CutOff(backups.files)
    <3>1. CASE \E d : files' = [files EXCEPT !.dropin = d, !.torn = @ \cup {"dropin"}]
      <4>1. files'.socket = files.socket /\ files'.torn = files.torn \cup {"dropin"}
        BY <3>1 DEF TypeOK, Files
      <4> QED
        BY <1>1, <2>0, <4>1 DEF DiskOpen, Open
    <3>2. CASE \E ps : files' = [backups.files EXCEPT !.socket = ps, !.torn = {"socket"}]
      <4>1. files'.torn = {"socket"}
        BY <3>2 DEF TypeOK, Files, Backups
      <4> QED
        BY <4>1 DEF DiskOpen
    <3> QED
      BY <2>4, <3>1, <3>2 DEF CutOff
  <2> QED
    BY <1>1, <2>1, <2>2, <2>3, <2>4
<1>7. NoLockout'
  <2>1. CASE UNCHANGED live
    BY <1>1, <2>1 DEF ReachInv, WayIn, NoLockout, Reachable
  <2>2. CASE live' = Started(backups.files)
    BY <1>1, <1>5, <2>2 DEF LetsIn, Open, Paths, Started, NoLockout, Reachable
  <2>3. CASE live' = Down
    BY <2>3 DEF Down, NoLockout, TypeOK, Live
  <2> QED
    BY <1>1, <2>1, <2>2, <2>3
<1>8. ClosedCovered'
  BY <1>1, OpenRecordCovered DEF IInv, RecordCovers
<1>9. WaysBack'
  BY <1>1, <1>2, StepWaysBack DEF ReachInv, Deleting
<1>10. TransitionOpen' /\ FinalOpen'
  BY <1>1 DEF TransitionOpen, FinalOpen
<1>11. RestoredOpen'
  BY <1>1, <1>2 DEF ReachInv, RestoredOpen, Grows, Open, Covered
<1> QED
  BY <1>6, <1>7, <1>8, <1>9, <1>10, <1>11 DEF ReachInv, WayIn

(* The cleanup deletes rules of ports that SSH has left again.             *)
LEMMA CleanupReach ==
    ASSUME TypeOK, IInv, UndoInv, WholeInv, ReachInv, ~BlindDiscovery, CleanupFirewall
    PROVE  /\ ReachInv'
           /\ \A p \in live.ports : ufw'.rules[p] = ufw.rules[p]
<1> USE DEF Transition, Finalization, FinalListening, Restoration
<1>1. /\ UNCHANGED <<host, files, live, saved, memory, plan, backups>>
      /\ pc = "rb_cleanup" /\ pc' \in {"rolled_back", "recovered", "exit", "rb_failed"}
  BY DEF CleanupFirewall, RollbackFailed, Goto, hostVars, recordVars, txnVars
<1>2. ClosedCovered'
  BY <1>1, OpenRecordCovered DEF IInv, RecordCovers
<1>3. CASE ~fwMeta.managed
  <2>1. UNCHANGED <<ufw, marker, fwMeta>>
    BY <1>3 DEF CleanupFirewall, ufwVars
  <2>2. Grows
    BY <1>1, <2>1, SameGrows
  <2>3. WayIn'
    BY <1>1, <2>2, WayInStays DEF ReachInv
  <2>4. WaysBack'
    BY <1>1, <2>1, <2>2, StepWaysBack DEF ReachInv, Deleting
  <2>5. TransitionOpen' /\ FinalOpen' /\ RestoredOpen'
    BY <1>1, <2>1, <2>2, StepOpenings DEF ReachInv
  <2> QED
    BY <1>2, <2>1, <2>3, <2>4, <2>5 DEF ReachInv
<1>4. CASE fwMeta.managed
  <2>1. PICK kept : DeleteRules(fwMeta.added, kept)
    BY <1>4 DEF CleanupFirewall
  <2>2. fwMeta'.managed /\ fwMeta'.added = fwMeta.added
    BY <1>4 DEF CleanupFirewall, TypeOK, FwMeta
  <2>3. /\ ufw'.active = ufw.active /\ Paths \ fwMeta.added \subseteq Paths'
        /\ AllowedPorts \ fwMeta.added \subseteq AllowedPorts'
    BY <1>1, <2>1, DeletedPaths
  <2>4. live.ports = plan.old /\ Listening(files) = plan.old
    BY <1>1
    DEF IInv, StepsSettle, Settled, Started, TargetsKnown, LeadsToOld, UndoInv, MemoryTrue,
        Undone
  <2>5. /\ fwMeta.added \cap plan.old = {}
        /\ Open(plan.old) /\ plan.old \subseteq AllowedPorts
    BY <1>1, <1>4 DEF ReachInv, WaysBack, WayBack, RestoredOpen
  <2>6. Open(plan.old)' /\ (plan.old \subseteq AllowedPorts)'
    BY <1>1, <2>3, <2>5 DEF Open
  <2>7. NoLockout'
    <3>1. live.auth \in host.login
      BY <1>1, <2>4, <2>5
      DEF WholeInv, IInv, StepsSettle, Settled, Started, ReachInv, WayIn, NoLockout, Open
    <3> QED
      BY <1>1, <2>4, <2>6, <3>1 DEF NoLockout, Open, Paths, Reachable
  <2>8. DiskOpen'
    <3>1. Listening(files)' = plan.old
      BY <1>1, <2>4 DEF Listening, EffectivePorts
    <3>2. files.torn = {}
      BY <1>1 DEF WholeInv
    <3>3. EffectiveAuth(files.dropin) \in host.login
      BY <3>2 DEF ReachInv, WayIn, DiskOpen, LetsIn
    <3> QED
      BY <1>1, <2>6, <3>1, <3>3 DEF DiskOpen, LetsIn, EffectiveAuth, Open, Listening
  <2>9. WaysBack'
    BY <1>1, <1>4, <2>2, <2>3 DEF ReachInv, WaysBack, WayBack, EffectiveAuth, Deleting
  <2>10. TransitionOpen' /\ FinalOpen'
    BY <1>1 DEF TransitionOpen, FinalOpen
  <2>11. RestoredOpen'
    BY <1>1, <2>6 DEF RestoredOpen, Open, Covered
  <2>12. \A p \in live.ports : ufw'.rules[p] = ufw.rules[p]
    BY <2>1, <2>4, <2>5 DEF DeleteRules, SetRules, TypeOK, Ufw, Live
  <2> QED
    BY <1>2, <2>7, <2>8, <2>9, <2>10, <2>11, <2>12 DEF ReachInv, WayIn
<1> QED
  BY <1>3, <1>4

LEMMA RollbackJailReach ==
    ASSUME IInv, ReachInv, RollbackJail
    PROVE  ReachInv'
<1> USE DEF Transition, Finalization, FinalListening, Restoration
<1>1. /\ UNCHANGED <<host, files, live, ufw, marker, saved, memory, plan, backups, fwMeta>>
      /\ pc = "rb_jail" /\ pc' \in {"rb_cleanup", "exit", "rb_failed"}
  BY DEF RollbackJail, RollbackFailed, Goto, hostVars, ufwVars, recordVars, txnVars, metaVars
<1>2. Grows
  BY <1>1, SameGrows
<1>3. WayIn' /\ ClosedCovered'
  BY <1>1, <1>2, WayInStays, OpenRecordCovered DEF ReachInv, IInv, RecordCovers
<1>4. WaysBack'
  BY <1>1, <1>2, StepWaysBack DEF ReachInv, Deleting
<1>5. TransitionOpen' /\ FinalOpen' /\ RestoredOpen'
  BY <1>1, <1>2, StepOpenings DEF ReachInv
<1> QED
  BY <1>3, <1>4, <1>5 DEF ReachInv

-----------------------------------------------------------------------------
(* Where no process runs, the file alone knows the way back.               *)
LEMMA IdleReach ==
    ASSUME NEW record, Forget(record), pc' = "idle", WayIn',
           (~saved.interrupted => Covered(live.ports))',
           (saved.interrupted => WayBack(saved.backups, saved.old, saved.fw))'
    PROVE  ReachInv'
<1>1. ~memory'.interrupted
  BY DEF Forget, NoRecord
<1>2. ClosedCovered' /\ WaysBack'
  BY <1>1 DEF ClosedCovered, WaysBack, Deleting
<1>3. TransitionOpen' /\ FinalOpen' /\ RestoredOpen'
  BY DEF TransitionOpen, FinalOpen, RestoredOpen, Transition, Finalization, FinalListening,
         Restoration
<1> QED
  BY <1>2, <1>3 DEF ReachInv

LEMMA ExitReach == ASSUME TypeOK, UndoInv, ReachInv, Exit PROVE ReachInv'
<1>1. /\ UNCHANGED <<host, files, live, ufw, marker>> /\ Forget(saved') /\ pc' = "idle"
      /\ saved' \in {saved, memory, [memory EXCEPT !.stage = "none"]}
      /\ pc \in {"exit", "finished"}
  BY DEF Exit, hostVars, ufwVars
<1>2. Grows
  BY <1>1, SameGrows
<1>3. WayIn'
  BY <1>1, <1>2, WayInStays DEF ReachInv
<1>4. CASE saved' = saved
  <2>1. (~saved.interrupted => Covered(live.ports))'
    BY <1>1, <1>2, <1>4 DEF ReachInv, ClosedCovered, Grows, Covered
  <2>2. (saved.interrupted => WayBack(saved.backups, saved.old, saved.fw))'
    BY <1>1, <1>2, <1>4 DEF ReachInv, WaysBack, WayBack, Grows, EffectiveAuth, Open, Covered
  <2> QED
    BY <1>1, <1>3, <2>1, <2>2, IdleReach
<1>5. CASE saved' # saved
  <2>1. /\ saved'.interrupted = memory.interrupted /\ saved'.backups = memory.backups
        /\ saved'.old = memory.old /\ saved'.fw = memory.fw
    BY <1>1, <1>5 DEF TypeOK, Record
  <2>2. ~memory.interrupted => Covered(live.ports)
    BY <1>1 DEF ReachInv, ClosedCovered, UndoInv, MemoryTrue
  <2>3. (~saved.interrupted => Covered(live.ports))'
    BY <1>1, <1>2, <2>1, <2>2 DEF Grows, Covered
  <2>4. (saved.interrupted => WayBack(saved.backups, saved.old, saved.fw))'
    BY <1>1, <1>2, <2>1 DEF ReachInv, WaysBack, WayBack, Grows, EffectiveAuth, Open, Covered
  <2> QED
    BY <1>1, <1>3, <2>3, <2>4, IdleReach
<1> QED
  BY <1>4, <1>5

LEMMA KillReach == ASSUME TypeOK, IInv, ReachInv, Crash \/ Reboot PROVE ReachInv'
<1>1. /\ UNCHANGED <<host, files, ufw, marker, saved>> /\ Forget(saved) /\ pc' = "idle"
      /\ live' \in {live, Started(files)}
  BY DEF Crash, Reboot, hostVars, ufwVars
<1>2. Grows
  BY <1>1, SameGrows
<1>3. WayIn'
  <2>1. NoLockout'
    BY <1>1, StartedNoLockout DEF ReachInv
  <2>2. DiskOpen'
    BY <1>1, <1>2
    DEF ReachInv, WayIn, DiskOpen, Grows, LetsIn, EffectiveAuth, Open, Listening,
        EffectivePorts
  <2> QED
    BY <2>1, <2>2 DEF WayIn
<1>4. (~saved.interrupted => Covered(live.ports))'
  <2>1. ~saved.interrupted => live' = live
    BY <1>1 DEF IInv, RecordCovers, Settled
  <2> QED
    BY <1>1, <1>2, <2>1 DEF ReachInv, ClosedCovered, Grows, Covered
<1>5. (saved.interrupted => WayBack(saved.backups, saved.old, saved.fw))'
  BY <1>1, <1>2 DEF ReachInv, WaysBack, WayBack, Grows, EffectiveAuth, Open, Covered
<1> QED
  BY <1>1, <1>3, <1>4, <1>5, IdleReach

-----------------------------------------------------------------------------
(* From one run of the program to the next.                                *)
LEMMA StricterOpen ==
    ASSUME NEW a \in Auth, NEW b \in Auth, Stricter(a, b) = "open"
    PROVE  b = "open"
BY DEF Stricter, Rank, Auth

LEMMA KeepReach == ASSUME ReachInv, KeepCurrent PROVE ReachInv'
<1>1. /\ UNCHANGED <<host, files, live, ufw, marker, memory, plan, backups, fwMeta, pc>>
      /\ pc = "idle" /\ ~saved.interrupted
      /\ saved' = saved \/ ~saved'.interrupted
  BY DEF KeepCurrent, NoRecord, hostVars, ufwVars, txnVars, metaVars
<1>2. Grows
  BY <1>1, SameGrows
<1>3. WayIn'
  BY <1>1, <1>2, WayInStays DEF ReachInv
<1>4. ClosedCovered'
  BY <1>1, <1>2 DEF ReachInv, ClosedCovered, Grows, Covered
<1>5. WaysBack'
  BY <1>1, <1>2
  DEF ReachInv, WaysBack, WayBack, Grows, EffectiveAuth, Open, Covered, Deleting
<1>6. TransitionOpen' /\ FinalOpen' /\ RestoredOpen'
  BY <1>1
  DEF TransitionOpen, FinalOpen, RestoredOpen, Transition, Finalization, FinalListening,
      Restoration
<1> QED
  BY <1>3, <1>4, <1>5, <1>6 DEF ReachInv

LEMMA StartReach ==
    ASSUME TypeOK, IInv, RecordInv, WholeInv, ReachInv, ~BlindDiscovery, StartMigration
    PROVE  ReachInv'
<1>1. /\ UNCHANGED <<host, files, live, ufw, marker, saved, memory, backups, fwMeta>>
      /\ pc = "idle" /\ ~saved.interrupted /\ pc' = "planned"
  BY DEF StartMigration, hostVars, ufwVars, recordVars, metaVars
<1>2. Grows
  BY <1>1, SameGrows
<1>3. /\ plan'.old = EffectivePorts(files.dropin)
      /\ plan'.auth = EffectiveAuth(files.dropin)
      /\ plan'.target = plan'.old \cup plan'.final
      /\ plan'.final = plan'.old \/ \E p \in Port : plan'.final = {p}
      /\ plan'.finalAuth = "open" => plan'.auth = "open"
  <2>1. PICK auth \in Auth, final \in {EffectivePorts(files.dropin)} \cup {{p} : p \in Port} :
          plan' \in {Discovered(final, auth), DiscoveredWithoutUfw(final, auth)}
    BY DEF StartMigration
  <2>2. EffectiveAuth(files.dropin) \in Auth
    BY DEF TypeOK, HostType, Files, DropIn, EffectiveAuth
  <2>3. Stricter(auth, EffectiveAuth(files.dropin)) = "open"
          => EffectiveAuth(files.dropin) = "open"
    BY <2>2, StricterOpen
  <2>4. /\ plan'.old = EffectivePorts(files.dropin)
        /\ plan'.auth = EffectiveAuth(files.dropin)
        /\ plan'.target = plan'.old \cup plan'.final
        /\ plan'.final = final
        /\ plan'.finalAuth = Stricter(auth, EffectiveAuth(files.dropin))
    <3>1. CASE plan' = Discovered(final, auth)
      BY <3>1 DEF Discovered, Planned
    <3>2. CASE plan' = DiscoveredWithoutUfw(final, auth)
      BY <3>2 DEF Discovered, DiscoveredWithoutUfw, Planned
    <3> QED
      BY <2>1, <3>1, <3>2
  <2> QED
    BY <2>3, <2>4
<1>4. /\ Settled /\ ~backups.taken /\ ~fwMeta.managed
  BY <1>1 DEF IInv, RecordCovers, TargetsKnown, RecordInv, RulesKnown
<1>5. Open(plan'.old) /\ Covered(plan'.old)
  BY <1>1, <1>3, <1>4
  DEF WholeInv, ReachInv, WayIn, DiskOpen, LetsIn, ClosedCovered, Settled, Started
<1>6. plan'.auth \in host.login
  BY <1>1, <1>3 DEF WholeInv, ReachInv, WayIn, DiskOpen, LetsIn
<1>7. WayIn'
  BY <1>1, <1>2, WayInStays DEF ReachInv
<1>8. ClosedCovered'
  BY <1>1, <1>2 DEF ReachInv, ClosedCovered, Grows, Covered
<1>9. WaysBack'
  <2>1. WayBack(backups, plan.old, fwMeta)'
    BY <1>1, <1>2, <1>4, <1>5 DEF WayBack, Grows, Open, Covered
  <2>2. (memory.interrupted => WayBack(memory.backups, memory.old, memory.fw))'
    BY <1>1, <1>2 DEF ReachInv, WaysBack, WayBack, Grows, EffectiveAuth, Open, Covered
  <2> QED
    BY <1>1, <2>1, <2>2 DEF WaysBack, Deleting
<1>10. TransitionOpen'
  BY <1>1, <1>2, <1>3, <1>4, <1>5, <1>6 DEF TransitionOpen, Grows, Open, Covered
<1>11. FinalOpen' /\ RestoredOpen'
  BY <1>1 DEF FinalOpen, RestoredOpen, Finalization, FinalListening, Restoration
<1> QED
  BY <1>7, <1>8, <1>9, <1>10, <1>11 DEF ReachInv

LEMMA RecoveryReach == ASSUME TypeOK, ReachInv, StartRecovery PROVE ReachInv'
<1>1. /\ UNCHANGED <<host, files, live, ufw, marker, saved>>
      /\ pc = "idle" /\ saved.interrupted /\ pc' = "rb_firewall"
      /\ plan'.old = saved.old /\ backups' = saved.backups
      /\ fwMeta' = saved.fw /\ memory' = saved
  BY DEF StartRecovery, Goto, NoPlan, hostVars, ufwVars
<1>2. Grows
  BY <1>1, SameGrows
<1>3. WayIn' /\ ClosedCovered'
  BY <1>1, <1>2, WayInStays, OpenRecordCovered DEF ReachInv
<1>4. WayBack(saved.backups, saved.old, saved.fw)'
  BY <1>1, <1>2 DEF ReachInv, WaysBack, WayBack, Grows, EffectiveAuth, Open, Covered
<1>5. WaysBack'
  BY <1>1, <1>4 DEF WaysBack, WayBack, EffectiveAuth, Open, Covered
<1>6. TransitionOpen' /\ FinalOpen' /\ RestoredOpen'
  BY <1>1
  DEF TransitionOpen, FinalOpen, RestoredOpen, Transition, Finalization, FinalListening,
      Restoration
<1> QED
  BY <1>3, <1>5, <1>6 DEF ReachInv

-----------------------------------------------------------------------------
LEMMA InitReach == ASSUME Init PROVE ReachInv
<1>1. /\ files = NoFiles /\ live = Started(NoFiles) /\ live.auth \in host.login
      /\ marker \in {{}, live.ports} /\ (marker # {} => ManagedPorts = marker)
      /\ ~saved.interrupted /\ ~memory.interrupted /\ pc = "idle"
      /\ \E p \in live.ports : Reachable(p)
  BY DEF Init, NoRecord
<1>2. Open(live.ports)
  BY <1>1 DEF Open, Paths, Reachable
<1>3. WayIn
  BY <1>1, <1>2 DEF WayIn, DiskOpen, NoLockout, LetsIn, Started, NoFiles
<1>4. Covered(live.ports)
  BY <1>1 DEF Covered, Guarded, ManagedPorts, AllowedPorts
<1>5. ClosedCovered /\ WaysBack
  BY <1>1, <1>4 DEF ClosedCovered, WaysBack, Deleting
<1>6. TransitionOpen /\ FinalOpen /\ RestoredOpen
  BY <1>1
  DEF TransitionOpen, FinalOpen, RestoredOpen, Transition, Finalization, FinalListening,
      Restoration
<1> QED
  BY <1>3, <1>5, <1>6 DEF ReachInv

LEMMA SameReach == ASSUME ReachInv, UNCHANGED vars PROVE ReachInv'
<1>1. UNCHANGED <<host, files, live, ufw, marker, saved, memory, pc, plan, backups, fwMeta>>
  BY DEF vars
<1>2. Grows
  BY <1>1, SameGrows
<1>3. WayIn'
  BY <1>1, <1>2, WayInStays DEF ReachInv
<1>4. ClosedCovered' /\ WaysBack'
  BY <1>1, <1>2
  DEF ReachInv, ClosedCovered, WaysBack, WayBack, Grows, EffectiveAuth, Open, Covered,
      Deleting
<1>5. TransitionOpen' /\ FinalOpen' /\ RestoredOpen'
  <2> USE DEF Transition, Finalization, FinalListening, Restoration
  <2>1. TransitionOpen' /\ RestoredOpen'
    BY <1>1, <1>2 DEF ReachInv, TransitionOpen, RestoredOpen, Grows, Open, Covered
  <2>2. FinalOpen'
    BY <1>1, <1>2 DEF ReachInv, FinalOpen, Grows, Open, Covered
  <2> QED
    BY <2>1, <2>2
<1> QED
  BY <1>3, <1>4, <1>5 DEF ReachInv

LEMMA NextReach ==
    ASSUME ~BlindDiscovery
    PROVE  TypeOK /\ IInv /\ UndoInv /\ RecordInv /\ WholeInv /\ ReachInv /\ [Next]_vars
             => ReachInv'
<1> SUFFICES ASSUME TypeOK, IInv, UndoInv, RecordInv, WholeInv, ReachInv, [Next]_vars
             PROVE  ReachInv'
  OBVIOUS
<1> QED
  BY SameReach, SavesReach, TransitionReach, WriteReach, ApplyReach, FinalizeReach,
     RestoreReach, RollbackSshReach, RollbackJailReach, CleanupReach, ExitReach, KeepReach,
     StartReach, RecoveryReach, KillReach
  DEF Next, Process

-----------------------------------------------------------------------------
(* Where sshd -T tells discovery what sshd does, the ways in and the ways  *)
(* back stay open through every migration, rollback, failure and kill.     *)
THEOREM ReachInductive == ASSUME ~BlindDiscovery PROVE Spec => []ReachInv
<1>1. TypeOK /\ IInv /\ UndoInv /\ RecordInv /\ WholeInv /\ ReachInv /\ [Next]_vars
        => ReachInv'
  BY NextReach
<1> QED
  BY <1>1, TypeCorrect, Inductive, UndoInductive, RecordInductive, WholeInductive, InitReach,
     PTL DEF Spec

(* The operator can log in wherever SSH listens at all: no migration,      *)
(* rollback, failure or restart of ssh_hardening.py locks him out.         *)
THEOREM NeverLockedOut == ASSUME ~BlindDiscovery PROVE Spec => []NoLockout
<1>1. ReachInv => NoLockout
  BY DEF ReachInv, WayIn
<1> QED
  BY <1>1, ReachInductive, PTL

(* finalize_ssh_migration and cleanup_ssh_rollback are the steps that      *)
(* delete rules, and of ports that SSH has left.                           *)
LEMMA RulesKept ==
    ASSUME TypeOK, IInv, UndoInv, WholeInv, ReachInv, ~BlindDiscovery, [Next]_vars
    PROVE  \A p \in Port :
             ufw.rules[p] # "none" /\ ufw'.rules[p] = "none" => p \notin live.ports
<1>1. CASE UNCHANGED ufw
  BY <1>1
<1>2. CASE FinalizeFirewall \/ CleanupFirewall
  <2>1. \A p \in live.ports : ufw'.rules[p] = ufw.rules[p]
    BY <1>2, FinalizeReach, CleanupReach
  <2> QED
    BY <2>1
<1>3. CASE PrepareFirewall \/ RestoreFirewall
  <2>1. UNCHANGED ufw \/ \E ports : SetRules(ports, "managed")
    BY <1>3 DEF PrepareFirewall, RestoreFirewall
  <2>2. \A p \in Port : ufw'.rules[p] \in {"managed", ufw.rules[p]}
    BY <2>1 DEF SetRules, TypeOK, Ufw
  <2> QED
    BY <2>2
<1>4. UNCHANGED ufw \/ FinalizeFirewall \/ CleanupFirewall \/ PrepareFirewall
        \/ RestoreFirewall
  <2>1. CASE UNCHANGED vars
    BY <2>1 DEF vars
  <2>2. CASE Saves
    BY <2>2 DEF Saves, Save, ufwVars, SavePlanned, SaveBackups, SaveApplying, SaveFirewall,
                SaveJail, SaveActive, SaveAwaiting, SaveFinalizing, SaveJailFinal,
                SaveFirewallFinalizing, SaveFirewallFinal, SaveDone, SaveRollbackStarted,
                SaveRolledBack, SaveRollbackFailed, SaveRecovered
  <2>3. CASE BackupFiles \/ WriteTransition \/ RefuseTransition \/ ApplyTransition
             \/ PrepareJail \/ ConfirmLogin \/ ConfirmSudo \/ Decline \/ WriteFinal
             \/ ApplyFinal \/ FinalizeJail \/ VerifyComponents
    BY <2>3 DEF BackupFiles, WriteTransition, RefuseTransition, ApplyTransition, PrepareJail,
                ConfirmLogin, ConfirmSudo, Decline, WriteFinal, ApplyFinal, WriteConfig,
                ApplyConfig, FinalizeJail, VerifyComponents, ufwVars
  <2>4. CASE RollbackSsh \/ RollbackJail \/ Exit \/ KeepCurrent \/ StartMigration
             \/ StartRecovery \/ Crash \/ Reboot
    BY <2>4 DEF RollbackSsh, RollbackJail, Exit, KeepCurrent, StartMigration,
                StartRecovery, Crash, Reboot, ufwVars
  <2> QED
    BY <2>1, <2>2, <2>3, <2>4 DEF Next, Process
<1> QED
  BY <1>1, <1>2, <1>3, <1>4

(* A rule is deleted only once SSH has left its port.                      *)
THEOREM RulesOutliveUse == ASSUME ~BlindDiscovery PROVE Spec => RuleDeletedOnlyWhenUnused
<1>1. TypeOK /\ IInv /\ UndoInv /\ WholeInv /\ ReachInv /\ [Next]_vars =>
        [\A p \in Port : ufw.rules[p] # "none" /\ ufw'.rules[p] = "none"
           => p \notin live.ports]_vars
  BY RulesKept
<1> QED
  BY <1>1, TypeCorrect, Inductive, UndoInductive, WholeInductive, ReachInductive, PTL
  DEF Spec, RuleDeletedOnlyWhenUnused
=============================================================================
