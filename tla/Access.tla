------------------------------- MODULE Access -------------------------------
(***************************************************************************)
(* Who can administer the host: the admin_user phase (app/admin_user.py),  *)
(* which gives a non-root user a key and sudo, and the root_hardening      *)
(* phase (app/root_hardening.py), which then takes root's keys and         *)
(* password away.  Both run inside run_setup, one after the other, or as   *)
(* the commands `vps-bootstrap admin-user` and `root-hardening`, which     *)
(* force them; the process can fail or die at any step.                    *)
(*                                                                         *)
(* Keys are identified by fingerprint.  Ownership and modes are one flag   *)
(* for the home directory and one for ~/.ssh; accounts are normal login    *)
(* accounts.  That sshd lets root in at all is SSHMigration's subject.     *)
(***************************************************************************)
EXTENDS Naturals, Sequences

CONSTANTS
    User,             \* names the operator may give the administrator
    Key,              \* public keys that parse
    Own,              \* those whose private key the operator holds
    InitialAccounts,  \* the accounts there may be at first
    InitialRoots,     \* what root may have at first
    MaxCommands,      \* bound: setup runs and component commands
    MaxFaults         \* bound: failing steps, kills and outside changes

Phase == {"admin_user", "root_hardening"}
Password == {"P", "L"}                  \* usable, locked: passwd -S
SudoMode == {"password_required", "nopasswd"}
Account == [exists : BOOLEAN, sudo : BOOLEAN, keys : SUBSET Key,
            home : BOOLEAN, ssh : BOOLEAN,  \* owner and mode of ~ and ~/.ssh
            password : Password]
Junk == "junk"   \* a line of root's authorized_keys that does not parse
Root == [keys : SUBSET (Key \cup {Junk}), password : Password]

ASSUME AccessAssumption ==
    /\ Own \subseteq Key /\ Junk \notin Key /\ "none" \notin User \cup Key
    /\ "foreign" \notin User
    /\ InitialAccounts \subseteq [User -> Account] /\ InitialRoots \subseteq Root
    /\ MaxCommands \in Nat /\ MaxFaults \in Nat

VARIABLES
    accounts,   \* the users' accounts
    sudoers,    \* whom the managed drop-in names, "none" or "foreign"
    root,       \* root's authorized_keys and password
    backups,    \* copies of root's authorized_keys
    record,     \* the two phases in state.json
    todo,       \* phases the process still has to go through
    pc, job,    \* where it is in the first, and what it was told
    had,        \* history: every key root ever had
    suspect,    \* history: phases that may have changed since their record
    commands, faults

host == <<accounts, sudoers, root, backups>>
vars == <<accounts, sudoers, root, backups, record, todo, pc, job, had,
          suspect, commands, faults>>

Status == {"pending", "running", "done", "failed", "skipped"}
AdminData == [mode : {"none", "managed", "skipped"}, user : User \cup {"none"},
              key : Key \cup {"none"}, sudo : SudoMode \cup {"none"},
              local : Password \cup {"none"}]
RootData == [mode : {"none", "running", "managed", "skipped"},
             user : User \cup {"none"}, keys : SUBSET Key,
             action : {"none", "lock", "keep"}, password : Password \cup {"none"}]
Record == [status : [Phase -> Status], admin_user : AdminData, root_hardening : RootData]
Job == [forced : BOOLEAN, user : User \cup {"none"}, key : Key \cup {"none"},
        create : BOOLEAN, sudo : SudoMode \cup {"none"}, policy : {"none", "set", "locked"},
        old : User \cup {"none"},    \* the drop-in before the command
        action : {"none", "no_keys", "remove_all", "keep_selected", "keep_unchanged"},
        keys : SUBSET Key,                \* the keys root is to have afterwards
        before : SUBSET (Key \cup {Junk}), \* those it had when they were backed up
        data : AdminData \cup RootData]

NoAdmin == [mode |-> "none", user |-> "none", key |-> "none", sudo |-> "none", local |-> "none"]
NoRoot == [mode |-> "none", user |-> "none", keys |-> {}, action |-> "none", password |-> "none"]
NoJob == [forced |-> FALSE, user |-> "none", key |-> "none", create |-> FALSE,
          sudo |-> "none", policy |-> "none", old |-> "none", action |-> "none",
          keys |-> {}, before |-> {}, data |-> NoAdmin]

-----------------------------------------------------------------------------
(* What the operator is told to try in a second terminal.                  *)
Login(u) ==
    LET a == accounts[u]
    IN  a.exists /\ a.home /\ a.ssh /\ a.keys \cap Own # {}
Sudo(u) == sudoers = u \/ (accounts[u].sudo /\ accounts[u].password = "P")
Administers(u) == Login(u) /\ Sudo(u)

(* A fresh host, or one whose administrator, and perhaps root, was set up  *)
(* before.                                                                 *)
Fresh == [status |-> [p \in Phase |-> "pending"],
          admin_user |-> NoAdmin, root_hardening |-> NoRoot]
SetUp(u, k, hardened) ==
    [status |-> [p \in Phase |-> IF p = "admin_user" \/ hardened THEN "done" ELSE "pending"],
     admin_user |-> [mode |-> "managed", user |-> u, key |-> k,
                     sudo |-> "password_required", local |-> "P"],
     root_hardening |->
         IF hardened THEN [mode |-> "managed", user |-> u, keys |-> root.keys,
                           action |-> "keep", password |-> root.password]
         ELSE NoRoot]
Init ==
    /\ accounts \in InitialAccounts /\ root \in InitialRoots
    /\ sudoers \in {"none", "foreign"} /\ backups = {}
    /\ \/ record = Fresh
       \/ \E u \in User, hardened \in BOOLEAN : \E k \in accounts[u].keys :
            /\ sudoers = "none" /\ Administers(u) /\ (hardened => Junk \notin root.keys)
            /\ record = SetUp(u, k, hardened)
    /\ todo = <<>> /\ pc = "idle" /\ job = NoJob
    /\ had = root.keys /\ suspect = {} /\ commands = 0 /\ faults = 0

-----------------------------------------------------------------------------
(* The verifiers *)

(* AdminUserDiscovery.usable *)
Usable(u) ==
    LET a == accounts[u]
    IN  a.exists /\ a.sudo /\ a.home /\ a.ssh /\ a.keys # {}

(* verify_sudo_policy *)
PolicyHolds(u, mode) == sudoers = IF mode = "nopasswd" THEN u ELSE "none"

VerifyAdminMutant(data) ==
    \/ data.mode = "skipped"
    \/ data.mode = "managed" /\ PolicyHolds(data.user, data.sudo)
VerifyAdmin(data) ==
    \/ data.mode = "skipped"
    \/ /\ data.mode = "managed" /\ Usable(data.user)
       /\ data.key \in accounts[data.user].keys
       /\ PolicyHolds(data.user, data.sudo)
       /\ accounts[data.user].password = data.local
VerifyKeys(data) == root.keys = data.keys
VerifyPassword(data) ==
    root.password = IF data.action = "lock" THEN "L" ELSE data.password
VerifyRoot(data) ==
    \/ data.mode = "skipped"
    \/ /\ data.mode = "managed" /\ data.user = record.admin_user.user
       /\ VerifyAdmin(record.admin_user)
       /\ VerifyKeys(data) /\ VerifyPassword(data)
Verify(phase, data) ==
    IF phase = "admin_user" THEN VerifyAdmin(data) ELSE VerifyRoot(data)

-----------------------------------------------------------------------------
(* The process: run_setup and the component commands *)

Fault == faults < MaxFaults /\ faults' = faults + 1
At(label) == pc = label /\ UNCHANGED <<commands>>
Goes(label) == pc' = label /\ UNCHANGED <<todo, record, suspect, had>>
(* A step goes on to the next, or raises an error that will be recorded.   *)
Proceeds(label) == Goes(label) /\ UNCHANGED faults
Raises == Goes("failed") /\ Fault
Refuses == Goes("failed") /\ UNCHANGED <<faults, host, job>>
Entry(phase) == IF phase = "admin_user" THEN "ask_admin" ELSE "check_admin"
Exit == pc' = "idle" /\ todo' = <<>> /\ job' = NoJob

Start(phases, forced) ==
    /\ pc = "idle" /\ commands < MaxCommands /\ commands' = commands + 1
    /\ todo' = phases /\ job' = [NoJob EXCEPT !.forced = forced]
    /\ pc' = IF forced THEN Entry(Head(phases)) ELSE "next"
    /\ UNCHANGED <<host, record, had, suspect, faults>>
StartAny ==
    \/ Start(<<"admin_user", "root_hardening">>, FALSE)
    \/ \E p \in Phase : Start(<<p>>, TRUE)

Settled(p) ==
    \/ record.status[p] = "skipped"
    \/ record.status[p] = "done" /\ Verify(p, record[p])

(* A save that fails leaves the old file or the new one, and nobody        *)
(* catches it.                                                             *)
Saves(new) == record' = new /\ UNCHANGED faults
SaveFails(new) ==
    /\ Fault /\ record' \in {record, new} /\ Exit
    /\ suspect' = suspect \cup {Head(todo)}

TakePhase ==
    /\ At("next") /\ UNCHANGED <<host, had>>
    /\ \/ /\ todo = <<>> /\ Exit /\ UNCHANGED <<record, suspect, faults>>
       \/ /\ todo # <<>> /\ Settled(Head(todo))
          /\ todo' = Tail(todo) /\ UNCHANGED <<pc, job, record, suspect, faults>>
       \/ LET running == [record EXCEPT !.status[Head(todo)] = "running"]
          IN  /\ todo # <<>> /\ ~Settled(Head(todo))
              /\ \/ Saves(running) /\ pc' = Entry(Head(todo)) /\ UNCHANGED <<todo, job, suspect>>
                 \/ SaveFails(running)

(* The phase ended with its data in job.data: update_phase_data, the       *)
(* verifier and the status.                                                *)
Concluded ==
    LET p == Head(todo)
        status == IF job.data.mode = "skipped" THEN "skipped"
                  ELSE IF Verify(p, job.data) THEN "done" ELSE "failed"
        concluded == [record EXCEPT !.status[p] = status]
    IN  IF p = "admin_user" THEN [concluded EXCEPT !.admin_user = job.data]
                            ELSE [concluded EXCEPT !.root_hardening = job.data]
Conclude ==
    /\ At("conclude") /\ UNCHANGED <<host, had>>
    /\ \/ /\ Saves(Concluded) /\ suspect' = suspect \ {Head(todo)}
          /\ IF job.forced \/ record'.status[Head(todo)] = "failed" THEN Exit
             ELSE pc' = "next" /\ todo' = Tail(todo) /\ job' = NoJob
       \/ SaveFails(Concluded)

(* AdminUserError, RootHardeningError: the phase keeps the data it had.    *)
FailedMutant == record
Failed == [record EXCEPT !.status[Head(todo)] = "failed"]
RecordFailure ==
    /\ At("failed") /\ UNCHANGED <<host, had>>
    /\ \/ Saves(Failed) /\ suspect' = suspect \ {Head(todo)} /\ Exit
       \/ SaveFails(Failed)

(* Ctrl-C outside the guarded steps, a kill, a restart of the machine, and *)
(* in a command any error that is not the component's own.                 *)
Dies ==
    /\ pc # "idle" /\ todo # <<>> /\ Fault /\ Exit
    /\ suspect' = suspect \cup {Head(todo)}
    /\ UNCHANGED <<host, record, had, commands>>

-----------------------------------------------------------------------------
(* The administrator: ensure_admin_user_from_state *)

EndsWith(data, label) == Proceeds(label) /\ job' = [job EXCEPT !.data = data]

KeepAdmin ==
    /\ At("ask_admin")
    /\ ~job.forced /\ record.admin_user.mode = "managed" /\ VerifyAdmin(record.admin_user)
    /\ EndsWith(record.admin_user, "conclude") /\ UNCHANGED host

AsksAdmin ==
    /\ At("ask_admin")
    /\ job.forced \/ record.admin_user.mode # "managed" \/ ~VerifyAdmin(record.admin_user)

SkipAdmin ==
    /\ AsksAdmin /\ UNCHANGED host
    /\ EndsWith([NoAdmin EXCEPT !.mode = "skipped"], "conclude")

(* A new user, or one that exists and gets the pasted key.                 *)
ChooseAdmin ==
    /\ AsksAdmin /\ UNCHANGED host
    /\ \E u \in User, k \in Key, mode \in SudoMode, policy \in {"set", "locked"} :
         /\ policy = "locked" => mode = "nopasswd" /\ ~accounts[u].exists
         /\ job' = [job EXCEPT !.user = u, !.key = k, !.sudo = mode, !.policy = policy,
                               !.create = ~accounts[u].exists]
         /\ Proceeds(IF accounts[u].exists THEN "password" ELSE "create")
(* A usable one and its own keys: confirm_existing_admin_user.             *)
KeepKeys ==
    /\ AsksAdmin /\ UNCHANGED host
    /\ \E u \in User, mode \in SudoMode :
         /\ Usable(u)
         /\ job' = [job EXCEPT !.user = u, !.sudo = mode]
         /\ Proceeds("home")
(* A new user that exists, an existing one that does not, an invalid key.  *)
WrongAdmin == AsksAdmin /\ Refuses

(* One step on the account: it takes place, fails after it took place, or  *)
(* fails before.                                                           *)
OnAccount(account, label) ==
    /\ \/ /\ accounts' = [accounts EXCEPT ![job.user] = account]
          /\ Proceeds(label) \/ Raises
       \/ UNCHANGED accounts /\ Raises
    /\ UNCHANGED <<sudoers, root, backups, job>>
Admin == accounts[job.user]

CreateUser ==
    /\ At("create")
    /\ OnAccount([exists |-> TRUE, sudo |-> FALSE, keys |-> {}, home |-> FALSE,
                  ssh |-> FALSE, password |-> "L"], "password")

(* setup_password_interactively, lock_local_password and                   *)
(* ensure_existing_password_for_sudo; when the keys are kept, this comes   *)
(* after the home directory.                                               *)
AfterPassword == IF job.key = "none" THEN "policy" ELSE "group"
AsksPassword ==
    IF job.create THEN job.policy = "set"
    ELSE job.sudo = "password_required" /\ Admin.password # "P"
SetPassword ==
    /\ At("password") /\ AsksPassword
    /\ OnAccount([Admin EXCEPT !.password = "P"], AfterPassword)
DeclinePassword == At("password") /\ AsksPassword /\ Refuses
LockPassword ==
    /\ At("password") /\ job.create /\ job.policy = "locked"
    /\ OnAccount([Admin EXCEPT !.password = "L"], AfterPassword)
LeavePassword ==
    /\ At("password") /\ ~job.create /\ ~AsksPassword
    /\ Proceeds(AfterPassword) /\ UNCHANGED <<host, job>>

AddToGroup == At("group") /\ OnAccount([Admin EXCEPT !.sudo = TRUE], "home")
SecureHome ==
    /\ At("home")
    /\ OnAccount([Admin EXCEPT !.home = TRUE], IF job.key = "none" THEN "password" ELSE "keys")
(* write_atomic replaces the file by one of root's, until the chown.       *)
MergeKeyMutant ==
    At("keys") /\ OnAccount([Admin EXCEPT !.keys = {job.key}, !.ssh = FALSE], "chown")
MergeKey ==
    /\ At("keys")
    /\ OnAccount([Admin EXCEPT !.keys = @ \cup {job.key}, !.ssh = FALSE], "chown")
ChownKeys == At("chown") /\ OnAccount([Admin EXCEPT !.ssh = TRUE], "policy")

(* configure_sudo_policy: another's drop-in is left alone; ours is         *)
(* replaced or removed, and put back when visudo rejects the result.       *)
RefusePolicy == At("policy") /\ sudoers = "foreign" /\ Refuses
Policy == IF job.sudo = "nopasswd" THEN job.user ELSE "none"
WritePolicy ==
    /\ At("policy") /\ sudoers # "foreign"
    /\ \/ /\ sudoers' = Policy /\ job' = [job EXCEPT !.old = sudoers]
          /\ Proceeds("visudo")
       \/ UNCHANGED <<sudoers, job>> /\ Raises
    /\ UNCHANGED <<accounts, root, backups>>
ValidatePolicy ==
    /\ At("visudo")
    /\ \/ Proceeds("confirm") /\ UNCHANGED sudoers
       \/ Raises /\ sudoers' \in {job.old, sudoers}  \* the rollback may fail too
    /\ UNCHANGED <<accounts, root, backups, job>>

(* An honest operator confirms what works, and may decline it.             *)
Confirm ==
    /\ At("confirm") /\ Administers(job.user)
    /\ \E k \in IF job.key = "none" THEN Admin.keys ELSE {job.key} :
         EndsWith([mode |-> "managed", user |-> job.user, key |-> k, sudo |-> job.sudo,
                   local |-> Admin.password], "conclude")
    /\ UNCHANGED host
Decline == At("confirm") /\ Refuses

-----------------------------------------------------------------------------
(* Root: ensure_root_hardening_from_state *)

KeepRoot ==
    /\ At("check_admin") /\ ~job.forced
    /\ record.root_hardening.mode = "managed" /\ VerifyRoot(record.root_hardening)
    /\ EndsWith(record.root_hardening, "conclude") /\ UNCHANGED host

HardensRoot ==
    /\ At("check_admin")
    /\ job.forced \/ record.root_hardening.mode # "managed" \/ ~VerifyRoot(record.root_hardening)

(* No validated administrator: root is left alone.                         *)
SkipRootMutant ==
    /\ HardensRoot /\ ~VerifyAdmin(record.admin_user) /\ UNCHANGED host
    /\ EndsWith([NoAdmin EXCEPT !.mode = "skipped"], "conclude")
SkipRoot ==
    /\ HardensRoot /\ ~VerifyAdmin(record.admin_user) /\ UNCHANGED host
    /\ EndsWith([NoRoot EXCEPT !.mode = "skipped"], "conclude")

(* The keys were dealt with before an interruption, and still are.         *)
KeysDone ==
    record.root_hardening.mode = "running" /\ VerifyKeys(record.root_hardening)
ResumeRoot ==
    /\ HardensRoot /\ VerifyAdmin(record.admin_user) /\ KeysDone
    /\ job' = [job EXCEPT !.keys = record.root_hardening.keys]
    /\ Proceeds("progress") /\ UNCHANGED host

AuditsKeysMutant == HardensRoot /\ ~KeysDone
AuditsKeys == HardensRoot /\ VerifyAdmin(record.admin_user) /\ ~KeysDone
RefuseKeys == AuditsKeys /\ root.keys # {} /\ Refuses   \* Junk always ends here
KeyActions(action, keep) ==
    CASE action = "no_keys"        -> root.keys = {} /\ keep = {}
      [] action = "remove_all"     -> root.keys # {} /\ keep = {}
      [] action = "keep_selected"  -> keep # {}
      [] action = "keep_unchanged" -> root.keys # {} /\ keep = root.keys
ChooseKeys ==
    /\ AuditsKeys /\ Junk \notin root.keys /\ UNCHANGED host
    /\ \E action \in {"no_keys", "remove_all", "keep_selected", "keep_unchanged"},
          keep \in SUBSET root.keys :
         KeyActions(action, keep) /\ job' = [job EXCEPT !.action = action, !.keys = keep]
    /\ Proceeds("backup")

(* create_root_keys_backup; there is nothing to copy without a file.       *)
BackUpKeysMutant ==
    /\ At("backup")
    /\ backups' = backups \cup {job.keys}
    /\ Proceeds("apply") /\ job' = [job EXCEPT !.before = root.keys]
    /\ UNCHANGED <<accounts, sudoers, root>>
BackUpKeys ==
    /\ At("backup")
    /\ \/ /\ backups' = IF root.keys = {} THEN backups ELSE backups \cup {root.keys}
          /\ Proceeds("apply") /\ job' = [job EXCEPT !.before = root.keys]
       \/ UNCHANGED <<backups, job>> /\ Raises
    /\ UNCHANGED <<accounts, sudoers, root>>

(* apply_root_key_action: what fails after the backup puts the original    *)
(* back, unless that fails too.                                            *)
ApplyKeys ==
    /\ At("apply")
    /\ \/ /\ root' = IF job.action \in {"remove_all", "keep_selected"}
                    THEN [root EXCEPT !.keys = job.keys] ELSE root
          /\ Proceeds("verify_keys")
       \/ UNCHANGED root /\ Raises
    /\ UNCHANGED <<accounts, sudoers, backups, job>>
(* restore_root_authorized_keys copies in place: cut off, it leaves none   *)
(* or some of the keys.                                                    *)
CheckKeys ==
    /\ At("verify_keys")
    /\ \/ root.keys = job.keys /\ Proceeds("progress") /\ UNCHANGED root
       \/ /\ root' = [root EXCEPT !.keys = job.before]
          /\ IF root.keys = job.keys THEN Raises ELSE Goes("failed") /\ UNCHANGED faults
       \/ Raises /\ \E left \in SUBSET job.before : root' = [root EXCEPT !.keys = left]
    /\ UNCHANGED <<accounts, sudoers, backups, job>>

(* save_progress.  When it fails in run_setup, that is recorded, and the   *)
(* progress with it.                                                       *)
Progress ==
    [record EXCEPT !.root_hardening =
        [NoRoot EXCEPT !.mode = "running", !.user = record.admin_user.user, !.keys = job.keys]]
SaveProgress ==
    /\ At("progress") /\ UNCHANGED <<host, had>>
    /\ \/ Saves(Progress) /\ pc' = "root_password" /\ UNCHANGED <<todo, job, suspect>>
       \/ job.forced /\ SaveFails(Progress)
       \/ /\ ~job.forced /\ Fault /\ Exit
          /\ record' = [Progress EXCEPT !.status["root_hardening"] = "failed"]
          /\ suspect' = suspect \ {"root_hardening"}

(* choose_root_password_policy, apply_root_password_policy                 *)
Managed(action, password) ==
    [record.root_hardening EXCEPT !.mode = "managed", !.action = action, !.password = password]
LockRoot ==
    /\ At("root_password")
    /\ \/ /\ root' = [root EXCEPT !.password = "L"]
          /\ \/ EndsWith(Managed("lock", "L"), "root_verify")
             \/ Raises /\ UNCHANGED job
       \/ UNCHANGED <<root, job>> /\ Raises
    /\ UNCHANGED <<accounts, sudoers, backups>>
KeepRootPassword ==
    /\ At("root_password") /\ UNCHANGED host
    /\ EndsWith(Managed("keep", root.password), "root_verify")
CheckRoot ==
    /\ At("root_verify") /\ UNCHANGED host
    /\ IF VerifyRoot(job.data) THEN Proceeds("conclude") /\ UNCHANGED job
       ELSE Refuses
RefuseRootPassword == At("root_password") /\ Refuses

(* Somebody else gives root a key, or a password: at any time but between  *)
(* the copy of the file and its replacement, an instant.                   *)
RootChanged ==
    /\ pc \notin {"apply", "verify_keys"} /\ Fault
    /\ \/ \E k \in Key \cup {Junk} : root' = [root EXCEPT !.keys = @ \cup {k}]
       \/ root' = [root EXCEPT !.password = "P"]
    /\ had' = had \cup root'.keys /\ suspect' = suspect \cup {"root_hardening"}
    /\ UNCHANGED <<accounts, sudoers, backups, record, todo, pc, job, commands>>

-----------------------------------------------------------------------------
Process == TakePhase \/ Conclude \/ RecordFailure
AdminUser ==
    \/ KeepAdmin \/ SkipAdmin \/ ChooseAdmin \/ KeepKeys \/ WrongAdmin
    \/ CreateUser \/ SetPassword \/ DeclinePassword \/ LockPassword \/ LeavePassword
    \/ AddToGroup \/ SecureHome \/ MergeKey \/ ChownKeys
    \/ RefusePolicy \/ WritePolicy \/ ValidatePolicy \/ Confirm \/ Decline
RootHardening ==
    \/ KeepRoot \/ SkipRoot \/ ResumeRoot \/ RefuseKeys \/ ChooseKeys
    \/ BackUpKeys \/ ApplyKeys \/ CheckKeys \/ SaveProgress
    \/ LockRoot \/ KeepRootPassword \/ RefuseRootPassword \/ CheckRoot
Next == StartAny \/ Process \/ AdminUser \/ RootHardening \/ Dies \/ RootChanged
Spec == Init /\ [][Next]_vars

-----------------------------------------------------------------------------
(* The accounts, root and the record have their types.                     *)
TypeOK ==
    /\ accounts \in [User -> Account] /\ sudoers \in User \cup {"none", "foreign"}
    /\ root \in Root
    /\ backups \subseteq SUBSET (Key \cup {Junk}) /\ had \subseteq Key \cup {Junk}
    /\ record \in Record /\ job \in Job /\ todo \in Seq(Phase) /\ suspect \subseteq Phase
    /\ commands \in 0..MaxCommands /\ faults \in 0..MaxFaults

RootLoses == (root.keys \ root'.keys) # {} \/ (root.password = "P" /\ root'.password = "L")
SomeoneAdministers == \E u \in User : Administers(u)

(* "Root credentials are not removed until a non-root publickey login and  *)
(* the selected sudo policy have been validated in a real second session"  *)
(* (docs/02-provisioning-flow.md:15): whenever root loses a key or its     *)
(* password, some user logs in with a key and gets sudo at that moment.    *)
CredentialsWaitForAdmin == [][RootLoses => SomeoneAdministers]_vars

(* The same unless the operator skipped the administrator: whatever        *)
(* commands ran, failed or died before, and whoever they were about, root  *)
(* loses nothing while the recorded administrator no longer works          *)
(* (verify_admin_user_state before every hardening).                       *)
RootLosesLast ==
    [][RootLoses => SomeoneAdministers \/ record.admin_user.mode = "skipped"]_vars

(* No key root ever had is lost: it is in authorized_keys or in a backup,  *)
(* at every point where the process may stop (create_root_keys_backup      *)
(* before the change, keys added while the operator was asked included).   *)
RemovedKeysBackedUp == had \subseteq root.keys \cup UNION backups

(* Between runs, a phase recorded as done describes the host: the recorded *)
(* administrator can log in and become root, and root has exactly the      *)
(* recorded keys and password.  Excepted are phases whose last run died or *)
(* could not save, and root when somebody else changed it.                 *)
RecordsAgree ==
    pc = "idle" =>
      /\ record.status["admin_user"] = "done" /\ "admin_user" \notin suspect =>
           Administers(record.admin_user.user)
      /\ record.status["root_hardening"] = "done" /\ "root_hardening" \notin suspect =>
           VerifyKeys(record.root_hardening) /\ VerifyPassword(record.root_hardening)

(* Setting somebody up as administrator takes nothing away from an         *)
(* account: keys are merged, the group is added, and a usable password is  *)
(* never locked ("Existing account passwords are never changed or locked", *)
(* docs/13-v0.2-base-os-hardening.md:41).                                  *)
AccountsOnlyGain ==
    [][\A u \in User :
         LET a == accounts[u]  b == accounts'[u]
         IN  a.exists => /\ b.exists /\ a.keys \subseteq b.keys
                         /\ a.sudo => b.sudo
                         /\ a.password = "P" => b.password = "P"]_vars

(* The last way to administer the host, root's or a user's, is lost in two *)
(* steps only: when authorized_keys was replaced and is not yet the user's *)
(* (write_atomic before the chown), and when the sudoers drop-in changes   *)
(* hands before the new administrator is confirmed (configure_sudo_policy) *)
(* or goes back.  In particular never by a step on root, unless the        *)
(* operator skipped the administrator.                                     *)
WayIn == SomeoneAdministers \/ root.keys \cap Own # {} \/ root.password = "P"
LastWayIn ==
    [][WayIn /\ ~WayIn' => pc \in {"keys", "policy", "visudo"}
                          \/ record.admin_user.mode = "skipped"]_vars

(* Why these hold: where the process is says which phase it works on and   *)
(* what it knows.  A recorded administrator's account keeps the key that   *)
(* was confirmed, since accounts only gain; whether the administrator      *)
(* still works is then what verify_admin_user_state checks.                *)
AdminSteps == {"ask_admin", "create", "password", "group", "home", "keys", "chown",
               "policy", "visudo", "confirm"}
RootSteps == {"check_admin", "backup", "apply", "verify_keys", "progress",
              "root_password", "root_verify"}
Hardening == RootSteps \ {"check_admin"}
Busy(phase) == pc \notin {"idle", "next"} /\ Head(todo) = phase

Placed ==
    /\ pc \in AdminSteps \cup RootSteps \cup {"idle", "next", "conclude", "failed"}
    /\ pc \notin {"idle", "next"} => todo # <<>>
    /\ pc \in AdminSteps => Head(todo) = "admin_user"
    /\ pc \in RootSteps => Head(todo) = "root_hardening"
    /\ pc = "conclude" =>
         job.data \in IF Head(todo) = "admin_user" THEN AdminData ELSE RootData
    /\ pc = "root_verify" => job.data \in RootData
    /\ pc \in AdminSteps \ {"ask_admin"} => job.user \in User /\ job.sudo \in SudoMode
    /\ pc \in {"group", "keys", "chown"} => job.key \in Key
Told ==
    /\ pc \in {"next", "ask_admin"} => job.key = "none" /\ ~job.create
    /\ pc = "home" /\ job.key = "none" => ~job.create
    /\ pc = "create" => ~accounts[job.user].exists
    /\ pc = "password" /\ job.create => accounts[job.user].password = "L"
    /\ pc \in {"visudo", "confirm"} => sudoers = Policy

Known(data) ==
    data.mode = "managed" =>
      /\ data.user \in User /\ data.sudo \in SudoMode
      /\ accounts[data.user].exists /\ accounts[data.user].keys \cap Own # {}
      /\ data.sudo = "password_required" => data.local = "P"
AdminKnown ==
    /\ Known(record.admin_user)
    /\ pc = "conclude" /\ Busy("admin_user") => Known(job.data)
    /\ pc \in Hardening => VerifyAdmin(record.admin_user)
KeysKnown ==
    /\ had \subseteq root.keys \cup UNION backups
    /\ pc \in {"backup", "apply"} => job.keys \subseteq root.keys
    /\ pc \in {"apply", "verify_keys"} => root.keys \subseteq job.before
                                       /\ job.before \subseteq UNION backups
RecordsTrue ==
    /\ record.status["admin_user"] = "done" /\ "admin_user" \notin suspect
         /\ ~Busy("admin_user") => Administers(record.admin_user.user)
    /\ record.status["root_hardening"] = "done" /\ "root_hardening" \notin suspect
         /\ ~Busy("root_hardening") =>
           VerifyKeys(record.root_hardening) /\ VerifyPassword(record.root_hardening)
AccessInv == Placed /\ Told /\ AdminKnown /\ KeysKnown /\ RecordsTrue
=============================================================================
