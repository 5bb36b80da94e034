# Verification of vps-bootstrap

vps-bootstrap prepares a fresh Ubuntu VPS over the very SSH session it then
changes: it creates an administrator, takes root's credentials away, moves SSH
to another port, and puts UFW and Fail2ban around it. An ordering mistake, a
failure at the wrong moment or a kill in between can lock the owner out of the
machine, and none of this is easy to reach with a unit test. This directory
holds TLA+ models of that logic, the TLC runs that check them, and TLAPS proofs.

Line numbers below are those of `src/app/`. Everything was read from the code;
documents and tests are quoted where a property states what they promise.

## 1. Inventory

| component | code | state it keeps | operations |
|---|---|---|---|
| SSH migration | `ssh_hardening.py` | sshd drop-in, `ssh.socket` override, the phase data in `state.json` with stage, backups and component metadata | discovery, plan, two-port transition, confirmation, finalization, rollback, recovery |
| firewall | `firewall.py` | UFW rules and their comments, whether UFW is active, the marker file `ufw-state.json` | `vps-bootstrap firewall`; prepare, finalize, restore, roll back for the migration |
| Fail2ban | `fail2ban.py` | the managed jail file and the running daemon | `vps-bootstrap fail2ban`; prepare, finalize, roll back for the migration |
| orchestrator | `resume.py`, `state.py`, `filesystem.py` | `state.json`: phase order, status and data per phase | `base`, `full`, `resume`, the component commands |
| administrator | `admin_user.py` | the account, `authorized_keys`, the sudoers drop-in | wizard, steps on the account, confirmation, verifier |
| root hardening | `root_hardening.py` | root's `authorized_keys` and password, backups | key audit, backup, change, restoration, password policy, verifier |
| swap | `swap.py` | `/swapfile`, the active areas, `/etc/fstab` | discovery, questions, creation with rollback, repair, verifier |
| time sync | `time_sync.py` | the time services, chrony's configuration | probe, installation and configuration of chrony, wait, verifier |
| security updates | `security_updates.py` | one APT drop-in among those of others | installation, drop-in, check of the effective policy, verifier |
| preflight and base files | `preflight.py`, `base_setup.py` | none; directories, log and config files | checks; idempotent creation |
| installation | `bootstrap.sh` | the release directories, the `current` and `current.next` links, the command wrapper | staged copy, switch, wrapper |
| command runner, CLI, support | `command.py`, `cli.py`, `config.py`, `results.py`, `safe_logging.py`, `system_info.py`, `compatibility.py` | none | run a command with a time limit; dispatch; texts |
| release build, templates, docs | `tools/`, `ansible/`, `templates/`, `docs/` | none | - |

**How they interact.** `run_setup` loads `state.json`, and for each phase calls a
verifier, an executor and the verifier again, saving the status around them. The
SSH executor runs the migration, which calls the firewall's and Fail2ban's
migration functions directly, saves the shared phase data after every step
through a callback, and at the end overwrites the firewall and fail2ban *phases*
(`synchronize_ssh_component_states`). The component commands work on the same UFW,
jail and file without going through `run_setup`. `root_hardening` asks
`verify_admin_user_state` whether there is an administrator. `ssh_hardening` reads
the sudo mode of the admin phase. The only memory between two processes is
`state.json`, the backups and the host.

`bootstrap.sh` is what puts a release in place and starts the command line; it and
`remove` share no state with the rest but the directories.

**What is hard here.** Hardly anything is concurrent by design; the adversaries are
failure and order. Some thirty operations of one migration can each fail, with or without
effect, and the handler's own operations can fail again; the process can be killed
or the machine restarted between any two of them; a command may run between a
kill and the recovery; a second migration starts from what the first one left; what
was verified early is changed by a later phase; what was recorded as validated
becomes stale; another session or a provider's agent changes swap, fstab or the APT
policy while a question waits; two installers share one link. `PROJECT.json` lists these
hazards by line (40 of them) with the
properties that watch them; those without a property say why.

**What makes each part correct.**

* Migration: no lockout (but for an SSH started from a half-restored file); a state that is neither old nor new is recorded as
  interrupted; what is recorded as finished or rolled back is so in sshd, UFW and
  Fail2ban; every run ends and every interruption can be resolved.
* Firewall: SSH's ports are allowed before UFW is enabled; foreign rules stay; a
  rule goes only when SSH no longer uses its port; a managed rule is in use, counted by the
  marker or listed as pending, but for five named ways to leave one that nothing lists.
* Orchestrator: recovery before everything else; "finished" means verified, but for what the
  same run took from a phase; skipped stays skipped; the saved scope does not grow;
  `resume` gets through in the end unless a phase refuses for good.
* Administrator and root: root loses its last credential only while somebody else
  can log in and use sudo; no key is lost; records are true.
* Swap: a file of others is never formatted or removed, the disk keeps its reserve, fstab
  names the swap only while it is one, a swap file nobody knows of is not left behind.
* Time, updates: lines of others stay; runs repeated end with every phase verified.
* Installation: `current` names a complete release at every moment; installing again ends
  with a working command.

## 2. The modules

| module | models | extends |
|---|---|---|
| `Migration` | what a migration promises, without how: a transaction on a configuration | - |
| `SSHMigration` | the migration transaction with the migration halves of firewall and Fail2ban; implements `Migration` | - |
| `Operations` | the commands `firewall` and `fail2ban` around and between migrations, and the synchronized phases | `SSHMigration` |
| `Setup` | `run_setup`, scopes, `resume`, component commands, loading and saving | - |
| `Access` | the administrator and root hardening | - |
| `BaseRun` | the loop of `run_setup` over phases that change the host, with saves that fail | - |
| `TimeSync`, `Swap`, `SecurityUpdates` | one phase each, operation by operation | `BaseRun` |
| `Base` | preflight and the three phases in one run, kills, reboots and what others do | the three |
| `Install` | `bootstrap.sh` from the staged copy to the started command, several installers at once | - |
| `MC...` | values of the constants for TLC | the module named |
| `..._proofs` | the theorems, checked by TLAPS | the module named |

Definitions called `...Mutant` state a plausible bug in the definition that follows
them. No specification uses them; they show that each property can fail.
`PROJECT.json` maps every other definition to the lines it stands for.

### SSHMigration

State: `files` (drop-in and socket override on disk), `live` (ports and auth policy in
force), `ufw`, `marker`, `jail`, `saved` and `memory` (the phase data in the file and in
the process), `pc` with the plan, the backups and the metadata of the two components.
One action is one operation: a command on the host, a save, an answer. The sequence of
`apply_ssh_plan` (745-877) is followed save by save, because a kill between two saves
is what recovery has to cope with. `rollback_and_record` and
`rollback_ssh_transaction` (900-1060) restore UFW, then sshd, then the jail, then
delete the new rules; `recover_interrupted_migration` (661-690) runs the same steps
from the saved data only. `Crash` and `Reboot` are possible everywhere; after a reboot
sshd has what the files say.

Points a reader may trip over, all as in the code: the metadata object is shared, so
data set after one save is in the next; a save of "rollback started" that fails
skips the rollback, and the record stays interrupted (907-909 is outside the `try`);
`Port` lines of the operator's own in `sshd_config` make the candidate configuration
fail its check, so every migration on such a host is rolled back; a failing
`ufw status` makes the firewall look unmanaged.

`restore_file` (1280-1285) is a copy in place. It is the second migration that has something
to restore: on the first one it removes the file. An error, a kill or a power cut in the copy leaves
no or some `Port` lines of the drop-in (`CutOff`), or the drop-in restored and the socket override
cut off. The history fields `files.torn` and `live.torn` say which files on disk, and of the
configuration SSH runs with, are such halves; the next attempt of the recovery copies
again and clears them. The jail's restoration (fail2ban.py:288) copies in place, too, and may leave its
file empty. Everything else is written by `write_atomic`, old or new.

`strays` is a history variable, too: managed UFW rules that no record accounts for. It grows
at five places of the code only (see `PendingIsComplete` in section 3).

Abstractions: the auth policy is one of three levels (`open`, `keyonly`, `noroot`);
the operator is honest and confirms only what works through the new port and with the
keys the host accepts; a provider firewall is a set of ports in `host`; an active UFW
denies by default; `sshd -T` can fail only if `BlindDiscovery` is set.

### Migration, and the refinement

`Migration` has three variables: the configuration of the host, the one the transaction was
opened on, and the record. While the record is open the configuration may be anything;
it is closed either on a whole configuration or on exactly the one it was opened on.
`SSHMigration` implements it (`IsTransaction`): the configuration is the files if sshd, the
files and the socket agree (`Settled`), else `Torn`; the one before is that of the backups
the process or the record holds; the record is the `mode` and `interrupted` fields of the phase
data. A commit that was written but reported as failed can still be taken back by the
process that made it, and by no later one: the action `End` says so.

### Operations

Adds `task` and `work` (the running command), `phases` and `loaded` (the firewall and
fail2ban phases on disk and in the process). `ensure_firewall_from_state` is taken apart
into its rules, `ufw enable`, verification with marker write, and its `except` block;
`ensure_fail2ban_from_state` into the change of the jail and its verification. A UFW that is off may have rules of the
operator's. The command refuses to enable it then (158), unless `ufw show added` failed
(89-90): then it sees no rules (`PlanUnseen`), and `ufw allow ... comment` makes an equal rule its
own. The migration's steps are those of `SSHMigration`, with the synchronization of the phases
conjoined to the saves that end a transaction. One command or migration runs at a time.

`behind` is a history variable. A rollback whose `rollback_ssh_migration` could not write the
marker file ends with success and without a `rollback_state` for the firewall
(ssh_hardening.py:1051-1055, 1063-1070), so the firewall phase keeps what it said before
(`LeftBehind`). It stays behind until a later migration or command records it again: looking
at the last record only is not enough, since a second migration that does not manage the
firewall replaces that record and leaves the phase as it is.

### Setup

State: `file` and `memory` (`InstallState` on disk and in the process), `command`,
`queue`, `pc`, and `ok[p]`, the answer phase `p`'s verifier would give. What an executor
does to the host is reduced to the answers: one that succeeds makes its own verifier answer yes, a
failing one leaves either answer. Three things go beyond its own phase:

* An executor may break the phases in `Spoils` (`Collateral`): swap takes disk space that preflight
  demands (swap.py:200 leaves 1 GiB, preflight.py:141 asks for 2), another administrator is not
  the one root_hardening.py:442 expects.
* A migration, its rollback and its recovery may lose a jail that the metadata does not name: its
  rewrite was not saved before a kill (ssh_hardening.py:781-783), it is switched off, or
  `vps-bootstrap fail2ban` ran during the interruption. The record is closed with the fail2ban phase
  still done.
* A phase in `Refusing` may come to refuse for good (`stuck`): by a drift, or because it was cut off
  half-way. UFW with rules while it is off (firewall.py:158) is one, which a kill between `ufw allow`
  (166) and `ufw enable` (171) leaves as well; a swap repair or a foreign APT policy are others.

`suspect` is a history variable: phases that lost something since they were last verified, by one of these, a
drift, or a component command that was cut off. A phase that verifies leaves it.

The SSH migration is reduced to how it can end; `SSHMigration` covers the rest.
Loading includes the migration of older files (`root_hardening` inserted after
`admin_user`); the renaming of `time_sync_check` is left out.

### Access

State: the users' `accounts` (group, keys, password, ownership), `sudoers` (whom the managed
drop-in names, or that it is somebody else's file), `root`, `backups`, the two phases in
`record`, and a running process with `todo`, `pc` and `job`. It follows
`ensure_admin_user_from_state`, `apply_admin_user_plan`, `configure_sudo_policy` and
`ensure_root_hardening_from_state` operation by operation, with both ways to run them
(as phases and as forcing commands) and what each records when it fails. Between
the replacement of `authorized_keys` and its `chown` the file is root's and the login
fails, as in the code. Somebody else may change root's file or password, except in
the instant between the copy of the file and its replacement. The restoration of root's file
(root_hardening.py:212) copies in place and may leave some of the keys. Accounts are
normal login accounts; key parsing, names, symbolic links and modes of the backups are
left out.

### BaseRun, TimeSync, Swap, SecurityUpdates, Base

`BaseRun` is the loop of `run_setup` (361-444) for phases whose effect on the host is modelled:
`saved` is `state.json`, `data` the phase data in the process, `phase` and `step` where it is.
Its order is that of `FULL_PHASES` without the phases that `Setup`, `Access` and
`SSHMigration` cover. `Consider`, `Verify`, `ConcludeFailed` and `ConcludeSkipped` are the head and
the three ends of the loop's body; a save that fails ends the run.

`Swap` keeps `/swapfile` (size, mode, formatted, whose it is), the active areas and fstab as a
sequence of lines. `apply_managed_swap` (315-338) is `Create`, `Chmod`, `MkSwap`, `WriteFstab`,
`SwapOn`, each of which fails with or without effect; `rollback_swap` (414-426) is
`RestoreFstab`, which copies in place and can be cut off, and `UnlinkSwapFile`. `Repair` is
`repair_managed_swap` with its refusals. The plan is checked against what `Discover` saw
before the questions, as in the code. A Ctrl-C is no `Exception`: no rollback follows it.

`TimeSync` keeps the services, whether the clock is synchronized, and chrony's file as lines;
`SecurityUpdates` the drop-in and what others configured. `Base` composes them and adds
`Kill`, `Reboot` (fstab decides what swap is active, enabled services run) and `Others`, who
act between runs or while the swap question waits. Timezone, journald and the directories of
the base phases are left out: they are idempotent and no property depends on them. The
package manager's own failure is a fault.

### Install

Releases are numbered runs, since version, time and process id name them. One
action is one command of `bootstrap.sh` (118-174); `ln -s` onto a link to a directory makes the
link inside that directory and succeeds, `mv -T` switches to whatever `current.next` names.
`apt-get` before line 118 holds a lock, nothing after it does: any number of installers
interleave. `alone` is a history variable. `remove`, and releases that a run
did not finish (they stay on disk), are left out.

## 3. The runs

| run | question | bounds |
|---|---|---|
| `core` | Two migrations, the second from where the first went: do records, sshd, UFW and Fail2ban agree, is there a way in, is each managed rule accounted for? | 3 ports, 2 runs, 2 faults, service and socket hosts on port 22, provider open or 22 only, 6 states of UFW (1.6 M states) |
| `hosts` | On hosts that differ in what discovery meets: is the invariant of the proofs kept, does every run end, is every interruption resolved? | 2 ports, 1 run, 2 faults, `sshd -T` may fail, 15 hosts: `Port` lines for none, 22 or 2022, both activations, both ends of the auth policies, an operator without a key, a provider that forwards 22 only; 6 states of UFW (0.3 M) |
| `commands` | Commands before, between and after migrations: is UFW enabled only behind rules, do foreign rules stay, do phases stay true? It also checks the inductive invariant `OpsInv` of the proofs | 2 ports, 1 migration, 2 commands, 2 faults, UFW off without rules or with one of the operator's for SSH, or on with any (1.7 M) |
| `setup` | Any sequence of base, full, resume and commands: is "finished" true, and does `resume` converge? | 5 + 2 phases, 2 requests, unlimited `resume`, 2 faults (0.75 M) |
| `access` | Two commands for two names: can root lose everything before somebody else can administer? | 2 users, 2 keys, 2 commands, 1 fault (1.4 M) |
| `base` | Runs of preflight, time, swap and updates on 40 kinds of host: is what others have left alone, is no swap orphaned, do repeated runs converge? | any 2 faults or changes by others, requests of 0, 512 and 9216 MiB, unlimited runs (0.5 M) |
| `install` | Installers at any time: does the command always find a release, and does installing again mend everything? | 3 installers, 3 installs at any time and 3 more when the command is broken, 2 faults (0.2 M) |
| `nobackup`, `enable`, `recovery`, `scope`, `unvalidated` | promises the code does not keep, section 4 | as above |

A *fault* is a failing command (with or without effect), a failing write, a Ctrl-C, a kill or a
reboot. Two are enough for "a step fails and its handler fails too" and for "a
migration is killed and its recovery is killed"; the inductive invariants are proved
for every number. Two ports are old and new; the third lets a second migration go to a
port that is neither. Two commands let one undo what the other relies on.
`Setup` uses one phase of each kind that the loop treats differently: a check
(preflight), a component of the migration that may come to refuse (firewall) and one that may be declined
(fail2ban), SSH, a base phase that takes from the check (swap), and a file of an older version whose
administrator brings `root_hardening` in; the scope of `full` leaves swap out to stay small. `hosts` has one migration: the blind default 22 is wrong
there on the hosts with 2022, which a second migration would only repeat. In `access` one fault per
run of the model suffices for each crash window; hosts whose administrator and root were
set up by an earlier run are initial states, so that two commands start from there.
In `base` the hosts differ in one phase at a time: the phases share nothing but the disk
(swap takes it, preflight asks for it), which the swap hosts vary; 9216 MiB is above the
limit of the code, 512 below every default. In `install` the third installer lets one switch
between the removal and the renaming of two others.

`CHECK_DEADLOCK FALSE` is set because the system rests once the operator's requests
and the faults are used up.

**Fairness.** `SSHMigration`: `WF(Process)`, since every command is run with a time limit
(`command.py`) and nothing else blocks but a prompt; `WF(StartRecovery)`, an operator who
is asked about an interrupted migration in the end chooses the rollback. `Setup`:
`WF(Process \/ Resume)` and `WF(Mend)`, a process goes on, and when it has ended the operator does
what the program prints ("After fixing the problem run: sudo vps-bootstrap resume"). New migrations, requests,
faults, kills and drifts are never assumed to happen. `Base`: `WF(Process)` and `WF(Start)` for the
same two reasons; `WF(Clockwork)` and `SF` of the same at the wait, a clock that can be synchronized
is so in the end, and not always just after the deadline; `SF(Decline)`, the operator does
not for ever ask for a swap that is refused. `Install`: `WF(Work)`, a script goes on, and `WF(Begin)`,
who installs runs it again while the command does not work. The other runs check safety only.

**What passes.**

* `NoLockout`: wherever sshd listens, some listening port passes UFW and the provider, and
  its policy accepts the operator, in every state of the run, unless SSH was started from
  a file whose restoration was cut off (`live.torn`, section 4). sshd listening nowhere
  is excluded: then only the console helps.
* `PendingIsComplete`: between migrations every managed rule is for a port SSH uses, counted by the
  marker, in the recorded `cleanup_pending`, or a stray. Strays come from `prepare_ssh_migration`
  raising half-way (firewall.py:263-265); a process that ends before the metadata it returned is
  saved (ssh_hardening.py:767-769); the next record, which drops the list of the last one; a managed
  firewall that the migration did not see; and a rewritten marker that had counted a
  port SSH left in that way. Whatever the code does right about deleting and listing rules is
  outside these five.
* `SettledUnlessInterrupted`, `DoneAgrees`, `RolledBackAgrees`,
  `OldPortsKeptUntilConfirmed`, `RuleDeletedOnlyWhenUnused`; `IInv`; and, with
  fairness, `RunEnds` and `Recoverable`. `Recoverable` excepts what can never verify: a migration that
  found a jail for other ports than those SSH goes back to (`JailWasWrong`: recovery restores that jail,
  verifies it, fail2ban.py:333, 262, and fails every time; such a jail is what the first divergence
  below leaves), and one whose discovery took 22 for the old port where it was not
  (`OldPortsWereWrong`, ssh_hardening.py:240, 455). `IsTransaction`: the migration implements `Migration`.
* `EnabledWithRules`, `UnmanagedKept` (but for the rules of an inactive UFW that could not be listed,
  `TakesOver`), `FirewallPhaseTrue` (but for a phase that a rollback has left behind), `PhasesAgree`.
* `RecoveryComesFirst`, `SkippedStays`, `ScopeKept`; `FinishedMeansVerified`, but for a done phase the run
  lost after it verified it: preflight to swap, root_hardening to another administrator, fail2ban to
  a migration that does not name its jail; `DoneIsTrue`, but for a `suspect` phase; `Converges`, but
  for a managed SSH that drifted, which the `ssh` command alone repairs (`SSHDrift`), and a phase of
  the scope that refuses for good (`Blocked`).
* `RootLosesLast`, `RemovedKeysBackedUp`, `RecordsAgree`, `AccountsOnlyGain`, `LastWayIn`. The last one
  names the two places where the last way in *can* be lost: `authorized_keys` between write
  and `chown` (admin_user.py:497-500), and the sudoers drop-in that passes to a new
  administrator before that one is confirmed and is not put back when the operator
  declines (admin_user.py:361, 507).
* `ForeignUntouched` (but for a file that the repair takes for its own, since the recorded size
  fits), `ReserveKept`, `FstabNamesSwap`, `OrphanIsCutOff` (a swap file the record does not know
  is left only by a kill, or by a rollback that could not remove it), `OthersKept` (but for a
  copy onto fstab that was cut off), `Converges`, whose exceptions are each
  something no further run repairs: a disk too full for preflight, no time source, an existing swap
  that is gone, a refused repair, an APT policy of others that wins.
* `CommandFindsRelease`, `AloneActivatesOwn`, `InstallConverges`.

## 4. Findings

Each is a run that TLC must find violated; `PROJECT.json` quotes the promise.

| run | where | what happens |
|---|---|---|
| `nobackup` | ssh_hardening.py:756 | interrupted is recorded before the backups are; a kill in between leaves a record no recovery accepts |
| `enable` | firewall.py:177 | a failure after `ufw enable` deletes the SSH rules and leaves UFW active |
| `recovery` | firewall.py:302 | `vps-bootstrap firewall` before the recovery: SSH goes back to a port that UFW blocks |
| `scope` | resume.py:86 | a `base` with nothing to do does not save its scope; `resume` runs the full one |
| `unvalidated` | admin_user.py:580 | a skipped administrator counts as validated; root's keys can be removed with nobody else on the host |

Further places where the models need an exception, without a run of their own:

* a rollback copies the drop-in and the socket override of an earlier migration back in place
  (ssh_hardening.py:1280-1283). Cut off by a power cut, it leaves an empty or partial file; after the restart
  SSH listens on 22 or on some of its ports, while a managed UFW may allow only the ports of
  the earlier migration (`live.torn` in `NoLockout`). Only the console helps, until a recovery copies again;
* a jail whose transition failed half-way, or was not saved before a kill (ssh_hardening.py:781-783), is
  unknown to the rollback, which records success and leaves fail2ban recorded as done: `JailOf` in
  `RolledBackAgrees` counts the known jails only, `DoneIsTrue` and `FinishedMeansVerified` except it by name;
* a failing `sshd -T` makes 22 the old port, and the port in use is closed after the confirmation
  (ssh_hardening.py:240; the constant `BlindDiscovery`). Rolled back, it verifies 22 and fails each time, so
  that the recovery never ends (`OldPortsWereWrong`);
* a managed rule can be left that nothing lists, in five ways (`strays`, section 3);
* a failing `ufw show added` hides the operator's rules of an inactive UFW: `vps-bootstrap firewall` goes on, takes
  an equal rule over and, when it fails later, deletes it (firewall.py:89-90; `TakesOver`);
* a kill between `ufw allow` (firewall.py:166) and `ufw enable` (171) leaves inactive rules, at which every `resume`
  refuses (158); `ufw reset` by hand gets it on (`Blocked` in `Converges`);
* a rollback that cannot write the marker file is recorded as a success with a warning and leaves the
  firewall phase alone. If `vps-bootstrap firewall` had recorded the new port before the recovery, the
  phase goes on naming a port whose rule the rollback deleted, also through later migrations that
  do not manage the firewall (ssh_hardening.py:1063; `behind` in `FirewallPhaseTrue`);
* the rollback of fstab is a copy in place, not the atomic replacement that
  docs/03-components.md:100 describes (swap.py:418; `torn`);
* `Swap` accepts what leaves 1 GiB free (swap.py:200), `preflight` demands 2 (preflight.py:141): the
  swap recommended on a small disk makes every later run fail (`Passes` in `Converges` of `Base`), and the run
  that made it reports itself finished with preflight done and not verifying (`LostSince` in `Setup`);
* `admin` for another administrator leaves root_hardening done for the first (root_hardening.py:442);
* of two installers that cross, one may report the release of the other as activated
  (bootstrap.sh:155), which `AloneActivatesOwn` excludes by `alone`.

## 5. The proofs

TLC shows a property on a small instance; these theorems hold for every set of ports,
hosts and phases and every bound, from the named assumptions on the constants only.

* `SSHMigration_proofs`: `TypeCorrect`; `Inductive`, the invariant `IInv`; from it `Settles`
  (`SettledUnlessInterrupted`) and, assuming `~BlindDiscovery`, `RollbackTarget`
  (`RollbackTargetIsOld`). `SettledUnlessInterrupted` is not inductive: it speaks of resting
  processes, and a step from the middle could end anywhere. `IInv` adds where the host is
  settled *during* the transaction (`StepsSettle`), that whatever unsettles it is covered by
  an interrupted record first (`RecordCovers`), and that the backups, wherever they are
  held, come from a settled configuration (`BackupsCoherent`, `TargetsKnown`). The proof goes
  action by action, with lemmas for saves, for steps that leave the configuration alone
  and for those that change it. `hosts` checks `IInv` with TLC.
  In the same module `Implements`, that every behaviour of `SSHMigration` is one of `Migration` under
  the mapping above. Each step maps to a step or to a stutter; which one
  depends on what process, memory and file know of the backups (`UndoInv`: they know the same, and
  nothing is touched before the file knows them), proved by `UndoInductive`.
* `Records_proofs`: `RecordInductive` (`RecordInv`), hence `DoneIsTrue` (`DoneAgrees`), `RolledBackIsTrue`
  (`RolledBackAgrees`, assuming `~BlindDiscovery`). The
  records are written at the end, and what they say was made true piece by piece:
  `RecordInv` says which piece holds from which step on (`FinalSteps`, `UndoSteps`), which rules the
  metadata know (`RulesKnown`), and that closed records stay true (`RecordsHold`).
  `AccountInductive` (`AccountInv`) and from it `NothingForgotten` (`PendingIsComplete`), both assuming
  `~BlindDiscovery`: at every step each managed rule belongs to the ports the open transaction found, to the
  marker, to what it added itself, or to the strays (`RulesAccounted`); the record it is running on knows
  the same metadata as the process or none (`OfThisRun`); and from the finalization or the cleanup on, what
  was to be deleted and is still there is in the list (`RulesListed`).
  `BothPortsInductive` (`BothPortsOpen`) gives `OldPortsKept` (`OldPortsKeptUntilConfirmed`, assuming
  `~BlindDiscovery`).
* `Reach_proofs`: `ReachInductive` (`ReachInv`), hence `NeverLockedOut` (`NoLockout`) and `RulesOutliveUse`
  (`RuleDeletedOnlyWhenUnused`), all assuming `~BlindDiscovery`. That SSH lets the operator in
  now says nothing about the next step: `ReachInv` adds that the files on disk would let
  the operator in if the unit started from them (`WayIn`; of half-restored files only an override that is
  whole does, `DiskOpen`), that so would what the record would
  restore once UFW is (`WaysBack`), that a firewall in the managed state has a rule for each port of SSH
  when no record is open (`ClosedCovered`), and which of the old and the new ports is
  open at which step (`TransitionOpen`, `FinalOpen`, `RestoredOpen`). `WholeInductive` (`WholeInv`), without an
  assumption: half-restored files are on disk only under an open record, and no backup is one, so that no
  migration starts from them. `RulesOutliveUse` follows since
  SSH has left the ports whose rules the finalization and the rollback delete.
* `Install_proofs`: `InstallInductive` (`InstallInv`, for any number of installers, failures and installs),
  hence `CommandIsBacked` (`CommandFindsRelease`) and `AloneEndsInOwn` (`AloneActivatesOwn`). The links name
  complete releases because a link is made only by an installer whose own is complete.
* `Operations_proofs`: `AllowInductive`, that the commands preserve `IInv`, and `AllowInv`: each
  listening port is still to be allowed or has its rule, and no rule still to be set is one of the
  operator's that the command could see.
  From it `OpsTypeCorrect`, `OpsSettles`, `OpsRollbackTarget` (assuming `~BlindDiscovery`),
  `OpsImplements` (with commands in between the migration still implements `Migration`), and the
  action properties `AllowsBeforeEnabling` (`EnabledWithRules`) and `ForeignRulesStay`
  (`UnmanagedKept`).
  `OpsInductive` adds what the recorded phases need and proves `OpsInv`; from it `FirewallPhaseHolds`
  (`FirewallPhaseTrue`) and `PhasesStayAgreed` (`PhasesAgree`). That a phase verifies now is not
  enough: the next step may delete a rule it names. `OpsInv` says who relies on which rule
  (`Claimed`: an open record on the rules its rollback does not set again, otherwise a phase that is
  not behind), that a migration deletes rules only under an open record that says it manages the
  firewall (`MetaKnown`) and can restore what the phase named (`RestoreKnown`), that the record is
  closed with rules and ports that were verified (`FinalKnown`, `ClosedKnown`), and that a command
  undoes only rules nobody relied on when it started (`WorkKnown`). `PhasesLoaded` and `ClaimKnown` relate
  the phases in the process to the file. The first layer (`RuleInv`) is proved for the steps of
  `SSHMigration`, the second (`PhaseInv`) uses of such a step only what `Recording` and `Keeping` say.
* `Setup_proofs`: `SetupInductive` (`SetupInv`), hence `RecoversFirst`, `FinishedIsVerified`, `DoneRecordsHold`;
  with it the action properties `SkippedRemains` and `ScopeRemains`. `SetupInv` relates a
  process to its file: what the loop has behind it is settled (`BehindIsSettled`), what the
  file may lack (`SavedBetween`), who is to blame for a done phase that does not
  verify (`DoneIsKnown`). `Spoils` and `Refusing` are any sets of phases the assumptions allow; only that SSH neither
  spoils nor is spoiled is used, and that no executor spoils its own phase.

* `Access_proofs`: `AccessTypeCorrect`; `AccessInductive` (`AccessInv`); from it `NoKeyLost` (`RemovedKeysBackedUp`),
  `RecordsAreTrue` (`RecordsAgree`), `RootIsLast` (`RootLosesLast`), `NothingTaken` (`AccountsOnlyGain`) and
  `LastWayInStays` (`LastWayIn`). The administrator is checked steps before root is changed, so
  `AccessInv` says what keeps him working in between: a recorded administrator's account has
  a key of the operator since accounts only gain (`AdminKnown`), and `VerifyAdmin`, true at the
  check, stays true to the change. Around it: where the process is says which phase it
  works on (`Placed`) and what it was told (`Told`); each key root had is in its file or in a
  backup (`KeysKnown`); a done record is true unless suspect (`RecordsTrue`).

* `Base_proofs`: `BaseInductive` (`BaseInv`), hence `BaseTypeCorrect`, `ReserveStays` (`ReserveKept`), `FstabNames`
  (`FstabNamesSwap`) and `OrphansAreCutOff` (`OrphanIsCutOff`); the action property `ForeignFilesStay`
  (`ForeignUntouched`); and `OthersStay` (`OthersKept`), whose hypothesis `TidyHosts` says that no host
  starts with two of our headers in chrony's file or with a block that somebody edited: what
  stands between header and footer is replaced, as in the code. The hosts of the run are tidy. The three
  invariants are not inductive: a record names a swap many steps after the file was made and fstab
  was written. `BaseInv` adds what the steps in between know (`JobKnown`, `DataKnown`), that what the process
  records as managed is a formatted swap (`ManagedIsSwap`), that the copy a rollback puts back names no
  file the rollback removes (`BackupSound`), and who may have left a file without a record
  (`OrphanKnown`). `OthersStay` needs that copying, appending and merging lines keep the lines of others:
  lemmas on sequences, whose inductions go through the least counterexample
  (`NatLessThanWellFounded`, since an induction theorem with an operator parameter cannot be used).

With these every safety property of the passing runs is proved. **Only model-checked** is liveness
(`RunEnds`, `Recoverable`, the two `Converges`, `InstallConverges`): fairness and `ENABLED` are out of the
prover's reach. The violated properties of section 4 are refuted on their instances. The exceptions that
appear as hypotheses are `~BlindDiscovery` and `TidyHosts`; the exceptions inside properties (`behind`,
`past.tampered`, `past.cut`, `past.torn`, `alone`, `suspect`, `strays`, `files.torn`,
`live.torn`, `work.unseen`) are history that the
model records, not assumptions.

## 6. Not modelled

* Two processes at once. `state.json` has no lock; every model of the command line assumes one
  process. Only the installers interleave.
* `remove`, the part of `bootstrap.sh` before line 118 (packages, arguments) and the build of the
  release it copies: one pass without state of its own.
* Parsing of the output of sshd, ss, ufw, systemctl and fail2ban-client, of keys and of
  names; texts, logging, redaction; modes and owners except where `Access` needs them.
* `preflight`, base files, CLI texts, release build, templates: read-only or idempotent.

## 7. Plan

Done, in this order: `SSHMigration`, `Operations`, `Setup` with their proofs, `Access`, `Migration` and
its refinement with their proof, the proofs of the records, `Base` with its phases, `Install` with its
proofs, the proofs of `NoLockout` and of `Access`, the proofs of `Base` and of the phases in
`Operations` with the invariant they need.

Left: a common specification of the loop of `run_setup` that both `Setup` and `BaseRun` implement;
the way in through commands and migrations together, proved under the conditions that `enable` and
`recovery` show to be necessary; two processes on one `state.json`, should the code come to lock it.
