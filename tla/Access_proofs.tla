---------------------------- MODULE Access_proofs ----------------------------
(***************************************************************************)
(* Root loses nothing while nobody else administers the host, no key is    *)
(* lost, and what is recorded as done is so: for any users, keys, initial  *)
(* accounts and bounds.                                                    *)
(***************************************************************************)
EXTENDS Access, TLAPS

LEMMA FirstOfQueue ==
    ASSUME todo \in Seq(Phase), todo # <<>>
    PROVE  Head(todo) \in Phase /\ Tail(todo) \in Seq(Phase)
OBVIOUS

LEMMA RecordFields ==
    ASSUME TypeOK
    PROVE  /\ record.status \in [Phase -> Status]
           /\ record.admin_user \in AdminData /\ record.root_hardening \in RootData
           /\ \A status \in [Phase -> Status] : \A a \in AdminData : \A r \in RootData :
                [status |-> status, admin_user |-> a, root_hardening |-> r] \in Record
BY DEF TypeOK, Record

LEMMA NoData == NoAdmin \in AdminData /\ NoRoot \in RootData
BY DEF NoAdmin, NoRoot, AdminData, RootData

LEMMA NoJobTyped == NoJob \in Job
BY NoData DEF NoJob, Job

(* Every step of the administrator's phase leaves root, the record and the *)
(* queue alone, and takes nothing away from an account.                    *)
Gains ==
    \A u \in User :
      LET a == accounts[u]  b == accounts'[u]
      IN  a.exists => /\ b.exists /\ a.keys \subseteq b.keys
                      /\ a.sudo => b.sudo
                      /\ a.password = "P" => b.password = "P"
AdminFrame ==
    /\ UNCHANGED <<root, backups, record, todo, had, suspect, commands>>
    /\ pc \in AdminSteps
    /\ pc' \in (AdminSteps \ {"ask_admin"}) \cup {"conclude", "failed"}

-----------------------------------------------------------------------------
(* The questions: what the operator answers is in the job.                 *)
LEMMA Negation == ASSUME NEW x PROVE (~x) \in BOOLEAN
OBVIOUS

LEMMA ChooseAdminJob ==
    ASSUME TypeOK, ChooseAdmin
    PROVE  /\ UNCHANGED <<host, record, todo, had, suspect, commands, faults>>
           /\ pc = "ask_admin" /\ job' \in Job /\ job'.user \in User
           /\ job'.key \in Key /\ job'.sudo \in SudoMode
           /\ IF accounts[job'.user].exists THEN pc' = "password" /\ ~job'.create
              ELSE pc' = "create"
<1>1. PICK u \in User, k \in Key, mode \in SudoMode, policy \in {"set", "locked"} :
        /\ policy = "locked" => mode = "nopasswd" /\ ~accounts[u].exists
        /\ job' = [job EXCEPT !.user = u, !.key = k, !.sudo = mode, !.policy = policy,
                              !.create = ~accounts[u].exists]
        /\ Proceeds(IF accounts[u].exists THEN "password" ELSE "create")
  BY Zenon DEF ChooseAdmin
<1>2. PICK new \in BOOLEAN : new = ~accounts[u].exists
  BY Negation
<1>3. job' = [job EXCEPT !.user = u, !.key = k, !.sudo = mode, !.policy = policy,
                         !.create = new]
  BY <1>1, <1>2
<1>4. pc = "ask_admin" /\ UNCHANGED <<host, commands>>
  BY DEF ChooseAdmin, AsksAdmin, At
<1>5. /\ job' \in Job /\ job'.user = u /\ job'.key = k /\ job'.sudo = mode
      /\ job'.create = new
  BY <1>3 DEF TypeOK, Job
<1> QED
  BY <1>1, <1>2, <1>4, <1>5 DEF Proceeds, Goes

LEMMA KeepKeysJob ==
    ASSUME TypeOK, KeepKeys
    PROVE  /\ UNCHANGED <<host, record, todo, had, suspect, commands, faults>>
           /\ pc = "ask_admin" /\ pc' = "home" /\ job' \in Job /\ job'.user \in User
           /\ job'.sudo \in SudoMode /\ job'.create = job.create
<1>1. PICK u \in User, mode \in SudoMode :
        /\ Usable(u)
        /\ job' = [job EXCEPT !.user = u, !.sudo = mode]
        /\ Proceeds("home")
  BY Zenon DEF KeepKeys
<1>2. /\ job' \in Job /\ job'.user = u /\ job'.sudo = mode /\ job'.create = job.create
  BY <1>1 DEF TypeOK, Job
<1>3. pc = "ask_admin" /\ UNCHANGED <<host, commands>>
  BY DEF KeepKeys, AsksAdmin, At
<1> QED
  BY <1>1, <1>2, <1>3 DEF Proceeds, Goes

LEMMA DataJob ==
    ASSUME TypeOK, NEW data \in AdminData \cup RootData, NEW label, EndsWith(data, label)
    PROVE  /\ UNCHANGED <<record, todo, had, suspect, faults>> /\ pc' = label
           /\ job' \in Job /\ job'.data = data
BY DEF EndsWith, Proceeds, Goes, TypeOK, Job

LEMMA AsksAdminTyped ==
    ASSUME TypeOK, AccessInv,
           \/ KeepAdmin \/ SkipAdmin \/ ChooseAdmin \/ KeepKeys \/ WrongAdmin
    PROVE  TypeOK' /\ Placed' /\ Told' /\ AdminFrame /\ UNCHANGED <<host, faults>>
<1> USE DEF AdminFrame, AdminSteps, RootSteps, host
<1>1. pc = "ask_admin" /\ UNCHANGED <<host, commands>>
  <2>1. CASE KeepAdmin \/ SkipAdmin \/ WrongAdmin
    BY <2>1 DEF KeepAdmin, SkipAdmin, WrongAdmin, AsksAdmin, At, Refuses
  <2> QED
    BY <2>1, ChooseAdminJob, KeepKeysJob
<1>2. job.key = "none" /\ ~job.create /\ Head(todo) = "admin_user" /\ todo # <<>>
  BY <1>1 DEF AccessInv, Told, Placed
<1>3. CASE KeepAdmin \/ SkipAdmin
  <2>1. PICK data \in AdminData : EndsWith(data, "conclude")
    <3>1. [NoAdmin EXCEPT !.mode = "skipped"] \in AdminData
      BY DEF NoAdmin, AdminData
    <3> QED
      BY <1>3, <3>1, RecordFields DEF KeepAdmin, SkipAdmin
  <2>2. /\ UNCHANGED <<record, todo, had, suspect, faults>> /\ pc' = "conclude"
        /\ job' \in Job /\ job'.data \in AdminData
    BY <2>1, DataJob
  <2> QED
    BY <1>1, <1>2, <2>2 DEF TypeOK, Placed, Told
<1>4. CASE ChooseAdmin
  BY <1>2, <1>4, ChooseAdminJob, AccessAssumption DEF TypeOK, Placed, Told
<1>5. CASE KeepKeys
  BY <1>2, <1>5, KeepKeysJob DEF TypeOK, Placed, Told
<1>6. CASE WrongAdmin
  <2>1. pc' = "failed" /\ UNCHANGED <<job, record, todo, had, suspect, faults>>
    BY <1>6 DEF WrongAdmin, Refuses, Goes
  <2> QED
    BY <1>1, <1>2, <2>1 DEF TypeOK, Placed, Told
<1> QED
  BY <1>3, <1>4, <1>5, <1>6

(* Steps on the account of the administrator to be.                        *)
LEMMA OnAccountStep ==
    ASSUME TypeOK, NEW a \in Account, NEW label, OnAccount(a, label),
           job.user \in User, label # "failed",
           accounts[job.user].exists =>
             /\ a.exists /\ accounts[job.user].keys \subseteq a.keys
             /\ accounts[job.user].sudo => a.sudo
             /\ accounts[job.user].password = "P" => a.password = "P"
    PROVE  /\ UNCHANGED <<sudoers, root, backups, job, record, todo, had, suspect>>
           /\ faults' \in 0..MaxFaults /\ accounts' \in [User -> Account] /\ Gains
           /\ pc' = label \/ pc' = "failed"
           /\ pc' = label => accounts'[job.user] = a
           /\ accounts' = accounts \/ accounts' = [accounts EXCEPT ![job.user] = a]
<1>1. /\ UNCHANGED <<sudoers, root, backups, job, record, todo, had, suspect>>
      /\ faults' \in 0..MaxFaults
      /\ pc' = "failed" \/ (pc' = label /\ accounts' = [accounts EXCEPT ![job.user] = a])
      /\ accounts' = accounts \/ accounts' = [accounts EXCEPT ![job.user] = a]
  BY AccessAssumption DEF OnAccount, Proceeds, Raises, Goes, Fault, TypeOK
<1>2. CASE accounts' = accounts
  BY <1>1, <1>2 DEF TypeOK, Gains
<1>3. CASE accounts' = [accounts EXCEPT ![job.user] = a]
  <2>1. /\ accounts' \in [User -> Account] /\ accounts'[job.user] = a
        /\ \A u \in User : u # job.user => accounts'[u] = accounts[u]
    BY <1>3 DEF TypeOK
  <2>2. Gains
    BY <2>1 DEF Gains
  <2> QED
    BY <1>1, <2>1, <2>2
<1> QED
  BY <1>1, <1>2, <1>3

(* What keeps an account's home and ~/.ssh as well keeps its way in.       *)
Keeps == \A u \in User : Administers(u) => Administers(u)'

LEMMA OnAccountKeeps ==
    ASSUME TypeOK, NEW a \in Account, job.user \in User, UNCHANGED sudoers,
           accounts' = accounts \/ accounts' = [accounts EXCEPT ![job.user] = a],
           accounts[job.user].exists =>
             /\ a.exists /\ accounts[job.user].keys \subseteq a.keys
             /\ accounts[job.user].sudo => a.sudo
             /\ accounts[job.user].home => a.home
             /\ accounts[job.user].ssh => a.ssh
             /\ accounts[job.user].password = "P" => a.password = "P"
    PROVE  Keeps
<1>1. CASE accounts' = accounts
  BY <1>1 DEF Keeps, Administers, Login, Sudo
<1>2. CASE accounts' = [accounts EXCEPT ![job.user] = a]
  <2>1. /\ accounts'[job.user] = a
        /\ \A u \in User : u # job.user => accounts'[u] = accounts[u]
    BY <1>2 DEF TypeOK
  <2>2. ASSUME NEW u \in User, Administers(u) PROVE Administers(u)'
    BY <2>1, <2>2 DEF Administers, Login, Sudo
  <2> QED
    BY <2>2 DEF Keeps
<1> QED
  BY <1>1, <1>2

AccountSteps ==
    CreateUser \/ SetPassword \/ LockPassword \/ AddToGroup \/ SecureHome \/ MergeKey
      \/ ChownKeys

(* The account that a step makes of the administrator's, and the step that *)
(* follows.                                                                *)
LEMMA AccountMade ==
    ASSUME TypeOK, AccessInv, AccountSteps
    PROVE  \E a \in Account :
             \E label \in {"password", "policy", "group", "home", "keys", "chown"} :
               /\ OnAccount(a, label)
               /\ accounts[job.user].exists =>
                    /\ a.exists /\ accounts[job.user].keys \subseteq a.keys
                    /\ accounts[job.user].sudo => a.sudo
                    /\ accounts[job.user].home => a.home
                    /\ accounts[job.user].ssh /\ pc # "keys" => a.ssh
                    /\ accounts[job.user].password = "P" => a.password = "P"
               /\ label = "password" /\ job.create => a.password = "L"
               /\ label \in {"group", "keys", "chown"} => job.key \in Key
               /\ label = "home" => job.key # "none"
<1>1. job.user \in User /\ accounts[job.user] \in Account
  BY DEF AccountSteps, CreateUser, SetPassword, LockPassword, AddToGroup, SecureHome,
         MergeKey, ChownKeys, At, AccessInv, Placed, AdminSteps, TypeOK
<1>2. job.key \in Key \cup {"none"} /\ "none" \notin Key
  BY AccessAssumption DEF TypeOK, Job
<1>3. CASE CreateUser
  <2> DEFINE a == [exists |-> TRUE, sudo |-> FALSE, keys |-> {}, home |-> FALSE,
                   ssh |-> FALSE, password |-> "L"]
  <2>1. a \in Account /\ OnAccount(a, "password") /\ a.password = "L"
    BY <1>3 DEF Account, Password, CreateUser
  <2>2. ~accounts[job.user].exists
    BY <1>3 DEF CreateUser, At, AccessInv, Told
  <2> QED
    BY <2>1, <2>2
<1>4. CASE SetPassword \/ LockPassword
  <2>1. PICK password \in {"P", "L"} :
          /\ OnAccount([Admin EXCEPT !.password = password], AfterPassword)
          /\ password = "L" => job.create
    BY <1>4 DEF SetPassword, LockPassword
  <2> DEFINE a == [Admin EXCEPT !.password = password]
  <2>2. /\ a \in Account /\ a.exists = Admin.exists /\ a.keys = Admin.keys
        /\ a.sudo = Admin.sudo /\ a.home = Admin.home /\ a.ssh = Admin.ssh
        /\ a.password = password
    BY <1>1 DEF Admin, Account, Password
  <2>3. pc = "password" /\ (job.create => accounts[job.user].password = "L")
    BY <1>4 DEF SetPassword, LockPassword, At, AccessInv, Told
  <2>4. AfterPassword \in {"policy", "group"} /\ (AfterPassword = "group" => job.key \in Key)
    BY <1>2 DEF AfterPassword
  <2> QED
    BY <2>1, <2>2, <2>3, <2>4 DEF Admin
<1>5. CASE AddToGroup
  <2> DEFINE a == [Admin EXCEPT !.sudo = TRUE]
  <2>1. /\ a \in Account /\ a.exists = Admin.exists /\ a.keys = Admin.keys
        /\ a.sudo /\ a.home = Admin.home /\ a.ssh = Admin.ssh /\ a.password = Admin.password
    BY <1>1 DEF Admin, Account
  <2>2. OnAccount(a, "home") /\ job.key \in Key
    BY <1>5 DEF AddToGroup, At, AccessInv, Placed
  <2> QED
    BY <1>2, <2>1, <2>2 DEF Admin
<1>6. CASE SecureHome
  <2> DEFINE a == [Admin EXCEPT !.home = TRUE]
             label == IF job.key = "none" THEN "password" ELSE "keys"
  <2>1. /\ a \in Account /\ a.exists = Admin.exists /\ a.keys = Admin.keys
        /\ a.sudo = Admin.sudo /\ a.home /\ a.ssh = Admin.ssh
        /\ a.password = Admin.password
    BY <1>1 DEF Admin, Account
  <2>2. /\ OnAccount(a, label) /\ (label = "password" => ~job.create)
        /\ label \in {"password", "keys"} /\ (label = "keys" => job.key \in Key)
    BY <1>2, <1>6 DEF SecureHome, At, AccessInv, Told
  <2> QED
    BY <2>1, <2>2 DEF Admin
<1>7. CASE MergeKey
  <2> DEFINE a == [Admin EXCEPT !.keys = @ \cup {job.key}, !.ssh = FALSE]
  <2>1. pc = "keys" /\ job.key \in Key /\ OnAccount(a, "chown")
    BY <1>7 DEF MergeKey, At, AccessInv, Placed
  <2>2. /\ a \in Account /\ a.exists = Admin.exists /\ Admin.keys \subseteq a.keys
        /\ a.sudo = Admin.sudo /\ a.home = Admin.home /\ a.password = Admin.password
    BY <1>1, <2>1 DEF Admin, Account
  <2> QED
    BY <2>1, <2>2 DEF Admin
<1>8. CASE ChownKeys
  <2> DEFINE a == [Admin EXCEPT !.ssh = TRUE]
  <2>1. /\ a \in Account /\ a.exists = Admin.exists /\ a.keys = Admin.keys
        /\ a.sudo = Admin.sudo /\ a.home = Admin.home /\ a.ssh
        /\ a.password = Admin.password
    BY <1>1 DEF Admin, Account
  <2>2. OnAccount(a, "policy")
    BY <1>8 DEF ChownKeys
  <2> QED
    BY <2>1, <2>2 DEF Admin
<1> QED
  BY <1>3, <1>4, <1>5, <1>6, <1>7, <1>8 DEF AccountSteps

LEMMA AccountTyped ==
    ASSUME TypeOK, AccessInv, AccountSteps
    PROVE  /\ TypeOK' /\ Placed' /\ Told' /\ AdminFrame /\ Gains
           /\ UNCHANGED sudoers /\ (pc # "keys" => Keeps) /\ pc' # "conclude"
<1> USE DEF AdminFrame, AdminSteps, RootSteps
<1>1. /\ pc \in AdminSteps \ {"ask_admin"} /\ UNCHANGED commands
  BY DEF AccountSteps, CreateUser, SetPassword, LockPassword, AddToGroup, SecureHome,
         MergeKey, ChownKeys, At
<1>2. /\ job.user \in User /\ job.sudo \in SudoMode /\ todo # <<>>
      /\ Head(todo) = "admin_user"
  BY <1>1 DEF AccessInv, Placed
<1>3. PICK a \in Account, label \in {"password", "policy", "group", "home", "keys", "chown"} :
        /\ OnAccount(a, label)
        /\ accounts[job.user].exists =>
             /\ a.exists /\ accounts[job.user].keys \subseteq a.keys
             /\ accounts[job.user].sudo => a.sudo
             /\ accounts[job.user].home => a.home
             /\ accounts[job.user].ssh /\ pc # "keys" => a.ssh
             /\ accounts[job.user].password = "P" => a.password = "P"
        /\ label = "password" /\ job.create => a.password = "L"
        /\ label \in {"group", "keys", "chown"} => job.key \in Key
        /\ label = "home" => job.key # "none"
  BY AccountMade
<1>4. /\ UNCHANGED <<sudoers, root, backups, job, record, todo, had, suspect>>
      /\ faults' \in 0..MaxFaults /\ accounts' \in [User -> Account] /\ Gains
      /\ pc' = label \/ pc' = "failed"
      /\ pc' = label => accounts'[job.user] = a
      /\ accounts' = accounts \/ accounts' = [accounts EXCEPT ![job.user] = a]
  BY <1>2, <1>3, OnAccountStep
<1>5. pc # "keys" => Keeps
  BY <1>2, <1>3, <1>4, OnAccountKeeps
<1>6. Placed' /\ Told'
  BY <1>1, <1>2, <1>3, <1>4 DEF Placed, Told
<1> QED
  BY <1>1, <1>4, <1>5, <1>6 DEF TypeOK

-----------------------------------------------------------------------------
(* The sudo policy and the confirmation.                                   *)
PolicySteps ==
    DeclinePassword \/ LeavePassword \/ RefusePolicy \/ WritePolicy \/ ValidatePolicy
      \/ Confirm \/ Decline

LEMMA ConfirmJob ==
    ASSUME TypeOK, AccessInv, Confirm
    PROVE  /\ UNCHANGED <<host, commands, record, todo, had, suspect, faults>>
           /\ pc = "confirm" /\ pc' = "conclude" /\ job' \in Job /\ job'.data \in AdminData
           /\ job'.data.mode = "managed" /\ job'.data.user = job.user
           /\ job'.data.sudo = job.sudo /\ Administers(job.user)
           /\ job'.data.local = accounts[job.user].password
<1>1. PICK k \in IF job.key = "none" THEN Admin.keys ELSE {job.key} :
        EndsWith([mode |-> "managed", user |-> job.user, key |-> k, sudo |-> job.sudo,
                  local |-> Admin.password], "conclude")
  BY Zenon DEF Confirm
<1>2. pc = "confirm" /\ UNCHANGED <<host, commands>> /\ Administers(job.user)
  BY DEF Confirm, At
<1>3. job.user \in User /\ job.sudo \in SudoMode /\ accounts[job.user] \in Account
  BY <1>2 DEF AccessInv, Placed, AdminSteps, TypeOK
<1> DEFINE data == [mode |-> "managed", user |-> job.user, key |-> k, sudo |-> job.sudo,
                    local |-> Admin.password]
<1>4. k \in Key
  BY <1>1, <1>3 DEF Admin, Account, TypeOK, Job
<1>5. data \in AdminData
  BY <1>3, <1>4 DEF AdminData, Admin, Account
<1>6. data.mode = "managed" /\ data.user = job.user /\ data.sudo = job.sudo
      /\ data.local = accounts[job.user].password
  BY DEF Admin
<1>7. EndsWith(data, "conclude")
  BY <1>1
<1> HIDE DEF data
<1>8. /\ UNCHANGED <<record, todo, had, suspect, faults>> /\ pc' = "conclude"
      /\ job' \in Job /\ job'.data = data
  BY <1>5, <1>7, DataJob
<1> QED
  BY <1>2, <1>5, <1>6, <1>8

LEMMA PolicyTyped ==
    ASSUME TypeOK, AccessInv, PolicySteps
    PROVE  /\ TypeOK' /\ Placed' /\ Told' /\ AdminFrame /\ UNCHANGED accounts
           /\ pc' = "conclude" => Confirm
           /\ pc \notin {"policy", "visudo"} => UNCHANGED sudoers
<1> USE DEF AdminFrame, AdminSteps, RootSteps
<1>1. CASE Confirm
  <2>1. /\ job.user \in User /\ job.sudo \in SudoMode /\ todo # <<>>
        /\ Head(todo) = "admin_user"
    BY <1>1, ConfirmJob DEF AccessInv, Placed
  <2> QED
    BY <1>1, <2>1, ConfirmJob DEF host, TypeOK, Placed, Told
<1>2. CASE ~Confirm
  <2>1. /\ pc \in {"password", "policy", "visudo", "confirm"} /\ UNCHANGED commands
    BY <1>2 DEF PolicySteps, DeclinePassword, LeavePassword, RefusePolicy, WritePolicy,
                ValidatePolicy, Decline, At
  <2>2. /\ job.user \in User /\ job.sudo \in SudoMode /\ todo # <<>>
        /\ Head(todo) = "admin_user" /\ job.key \in Key \cup {"none"}
    BY <2>1 DEF AccessInv, Placed, TypeOK, Job
  <2>3. CASE DeclinePassword \/ RefusePolicy \/ Decline
    <3>1. pc' = "failed" /\ UNCHANGED <<host, job, faults, record, todo, had, suspect>>
      BY <2>3 DEF DeclinePassword, RefusePolicy, Decline, Refuses, Goes
    <3> QED
      BY <2>1, <3>1, <2>2 DEF host, TypeOK, Placed, Told
  <2>4. CASE LeavePassword
    <3>1. /\ UNCHANGED <<host, job, faults, record, todo, had, suspect>>
          /\ pc' = AfterPassword /\ pc = "password"
      BY <2>4 DEF LeavePassword, Proceeds, Goes, At
    <3>2. AfterPassword \in {"policy", "group"} /\ (AfterPassword = "group" => job.key \in Key)
      BY <2>2 DEF AfterPassword
    <3> QED
      BY <2>1, <2>2, <3>1, <3>2 DEF host, TypeOK, Placed, Told
  <2>5. CASE WritePolicy
    <3>1. /\ UNCHANGED <<accounts, root, backups, record, todo, had, suspect>>
          /\ pc = "policy" /\ faults' \in 0..MaxFaults
          /\ \/ /\ sudoers' = Policy /\ pc' = "visudo" /\ sudoers # "foreign"
                /\ job' = [job EXCEPT !.old = sudoers]
             \/ UNCHANGED <<sudoers, job>> /\ pc' = "failed"
      BY <2>5, AccessAssumption
      DEF WritePolicy, At, Proceeds, Raises, Goes, Fault, TypeOK
    <3>2. Policy \in User \cup {"none"}
      BY <2>2 DEF Policy
    <3>3. CASE pc' = "visudo"
      <4>1. job' = [job EXCEPT !.old = sudoers] /\ sudoers \in User \cup {"none"}
        BY <3>1, <3>3 DEF TypeOK
      <4>2. job' \in Job /\ job'.user = job.user /\ job'.sudo = job.sudo
        BY <4>1 DEF TypeOK, Job
      <4>3. Policy' = Policy
        BY <4>2 DEF Policy
      <4> QED
        BY <2>1, <2>2, <3>1, <3>2, <3>3, <4>2, <4>3 DEF TypeOK, Placed, Told
    <3>4. CASE pc' = "failed"
      BY <2>1, <2>2, <3>1, <3>4 DEF TypeOK, Placed, Told
    <3> QED
      BY <3>1, <3>3, <3>4
  <2>6. CASE ValidatePolicy
    <3>1. /\ UNCHANGED <<accounts, root, backups, job, record, todo, had, suspect>>
          /\ pc = "visudo" /\ faults' \in 0..MaxFaults
          /\ sudoers' \in {job.old, sudoers}
          /\ pc' = "failed" \/ (pc' = "confirm" /\ UNCHANGED sudoers)
      BY <2>6, AccessAssumption
      DEF ValidatePolicy, At, Proceeds, Raises, Goes, Fault, TypeOK
    <3>2. sudoers' \in User \cup {"none", "foreign"}
      BY <3>1 DEF TypeOK, Job
    <3>3. pc' = "confirm" => sudoers' = Policy'
      BY <3>1 DEF AccessInv, Told, Policy
    <3> QED
      BY <2>1, <2>2, <3>1, <3>2, <3>3 DEF TypeOK, Placed, Told
  <2> QED
    BY <1>2, <2>3, <2>4, <2>5, <2>6 DEF PolicySteps
<1> QED
  BY <1>1, <1>2

-----------------------------------------------------------------------------
(* The administrator's phase as a whole.                                   *)
LEMMA AdminTyped ==
    ASSUME TypeOK, AccessInv, AdminUser
    PROVE  /\ TypeOK' /\ Placed' /\ Told' /\ AdminFrame /\ Gains
           /\ pc \notin {"keys", "policy", "visudo"} => Keeps
<1>1. \/ KeepAdmin \/ SkipAdmin \/ ChooseAdmin \/ KeepKeys \/ WrongAdmin
      \/ AccountSteps \/ PolicySteps
  BY DEF AdminUser, AccountSteps, PolicySteps
<1>2. CASE KeepAdmin \/ SkipAdmin \/ ChooseAdmin \/ KeepKeys \/ WrongAdmin
  <2>1. /\ TypeOK' /\ Placed' /\ Told' /\ AdminFrame /\ UNCHANGED <<accounts, sudoers>>
    BY <1>2, AsksAdminTyped DEF host
  <2> QED
    BY <2>1 DEF Gains, Keeps, Administers, Login, Sudo
<1>3. CASE AccountSteps
  BY <1>3, AccountTyped
<1>4. CASE PolicySteps
  <2>1. /\ TypeOK' /\ Placed' /\ Told' /\ AdminFrame /\ UNCHANGED accounts
        /\ pc \notin {"policy", "visudo"} => UNCHANGED sudoers
    BY <1>4, PolicyTyped
  <2> QED
    BY <2>1 DEF Gains, Keeps, Administers, Login, Sudo
<1> QED
  BY <1>1, <1>2, <1>3, <1>4

(* What is confirmed is known to work from then on.                        *)
LEMMA AdminConcludes ==
    ASSUME TypeOK, AccessInv, AdminUser, pc' = "conclude"
    PROVE  Known(job.data)'
<1>1. KeepAdmin \/ SkipAdmin \/ Confirm
  <2>1. CASE ChooseAdmin \/ KeepKeys \/ WrongAdmin
    BY <2>1, ChooseAdminJob, KeepKeysJob DEF WrongAdmin, Refuses, Goes
  <2> QED
    BY <2>1, AccountTyped, PolicyTyped DEF AdminUser, AccountSteps, PolicySteps
<1>2. CASE KeepAdmin
  <2>1. job'.data = record.admin_user /\ UNCHANGED accounts
    BY <1>2, RecordFields, DataJob DEF KeepAdmin, host
  <2> QED
    BY <2>1 DEF AccessInv, AdminKnown, Known
<1>3. CASE SkipAdmin
  <2> DEFINE data == [NoAdmin EXCEPT !.mode = "skipped"]
  <2>1. data \in AdminData /\ data.mode = "skipped"
    BY DEF NoAdmin, AdminData
  <2>2. EndsWith(data, "conclude")
    BY <1>3 DEF SkipAdmin
  <2> HIDE DEF data
  <2>3. job'.data.mode = "skipped"
    BY <2>1, <2>2, DataJob
  <2> QED
    BY <2>3 DEF Known
<1>4. CASE Confirm
  <2>1. /\ job'.data.user = job.user /\ job'.data.sudo = job.sudo /\ Administers(job.user)
        /\ job'.data.local = accounts[job.user].password
        /\ UNCHANGED accounts /\ pc = "confirm"
    BY <1>4, ConfirmJob DEF host
  <2>2. job.user \in User /\ job.sudo \in SudoMode /\ sudoers = Policy
    BY <2>1 DEF AccessInv, Placed, Told, AdminSteps
  <2>3. accounts[job.user].exists /\ accounts[job.user].keys \cap Own # {}
    BY <2>1 DEF Administers, Login
  <2>4. job.sudo = "password_required" => accounts[job.user].password = "P"
    BY <2>1, <2>2, AccessAssumption DEF Administers, Sudo, Policy
  <2> QED
    BY <2>1, <2>2, <2>3, <2>4 DEF Known
<1> QED
  BY <1>1, <1>2, <1>3, <1>4

LEMMA AdminStep == ASSUME TypeOK, AccessInv, AdminUser PROVE TypeOK' /\ AccessInv'
<1>1. /\ TypeOK' /\ Placed' /\ Told' /\ AdminFrame /\ Gains
  BY AdminTyped
<1>2. /\ UNCHANGED <<root, backups, record, todo, had, suspect>>
      /\ Head(todo) = "admin_user" /\ pc' \notin RootSteps
      /\ pc \notin {"idle", "next"} /\ pc' \notin {"idle", "next"}
  BY <1>1 DEF AdminFrame, AccessInv, Placed, AdminSteps, RootSteps
<1>3. AdminKnown'
  <2>1. Known(record.admin_user)'
    BY <1>1, <1>2 DEF AccessInv, AdminKnown, Known, Gains
  <2> QED
    BY <1>2, <2>1, AdminConcludes DEF AdminKnown, Hardening
<1>4. KeysKnown'
  BY <1>2 DEF AccessInv, KeysKnown, RootSteps
<1>5. RecordsTrue'
  BY <1>2 DEF AccessInv, RecordsTrue, Busy, VerifyKeys, VerifyPassword
<1> QED
  BY <1>1, <1>3, <1>4, <1>5 DEF AccessInv

-----------------------------------------------------------------------------
(* Root's phase.  All its steps but the save of its progress leave the     *)
(* accounts, the record and the queue alone.                               *)
RootFrame ==
    /\ UNCHANGED <<accounts, sudoers, record, todo, had, suspect, commands>>
    /\ pc \in RootSteps /\ pc' \in Hardening \cup {"conclude", "failed"}

LEMMA RootFrameStep ==
    ASSUME TypeOK, AccessInv, RootFrame, KeysKnown',
           pc' \in Hardening => VerifyAdmin(record.admin_user),
           pc' \in {"conclude", "root_verify"} => job'.data \in RootData
    PROVE  AccessInv'
<1>1. /\ UNCHANGED <<accounts, sudoers, record, todo, had, suspect>>
      /\ Head(todo) = "root_hardening" /\ todo # <<>> /\ pc' \notin AdminSteps
      /\ pc \notin {"idle", "next"} /\ pc' \notin {"idle", "next"}
      /\ pc' \in RootSteps \cup {"conclude", "failed"}
  BY DEF RootFrame, AccessInv, Placed, AdminSteps, RootSteps, Hardening
<1>2. Placed' /\ Told'
  BY <1>1 DEF Placed, Told, AdminSteps, RootSteps
<1>3. AdminKnown'
  <2>1. Known(record.admin_user)'
    BY <1>1 DEF AccessInv, AdminKnown, Known
  <2>2. pc' \in Hardening => VerifyAdmin(record.admin_user)'
    BY <1>1 DEF VerifyAdmin, Usable, PolicyHolds
  <2> QED
    BY <1>1, <2>1, <2>2 DEF AdminKnown, Busy
<1>4. RecordsTrue'
  BY <1>1 DEF AccessInv, RecordsTrue, Busy, Administers, Login, Sudo
<1> QED
  BY <1>2, <1>3, <1>4 DEF AccessInv

LEMMA KeysJob ==
    ASSUME TypeOK, ChooseKeys
    PROVE  /\ UNCHANGED <<host, record, todo, had, suspect, commands, faults>>
           /\ pc = "check_admin" /\ pc' = "backup" /\ VerifyAdmin(record.admin_user)
           /\ job' \in Job /\ job'.keys \subseteq root.keys
<1>1. PICK action \in {"no_keys", "remove_all", "keep_selected", "keep_unchanged"},
           keep \in SUBSET root.keys :
        KeyActions(action, keep) /\ job' = [job EXCEPT !.action = action, !.keys = keep]
  BY Zenon DEF ChooseKeys
<1>2. /\ pc = "check_admin" /\ VerifyAdmin(record.admin_user) /\ Junk \notin root.keys
      /\ UNCHANGED <<host, commands>> /\ Proceeds("backup")
  BY DEF ChooseKeys, AuditsKeys, HardensRoot, At
<1>3. keep \subseteq Key
  BY <1>2 DEF TypeOK, Root
<1>4. job' \in Job /\ job'.keys = keep
  BY <1>1, <1>3 DEF TypeOK, Job
<1> QED
  BY <1>2, <1>4 DEF Proceeds, Goes

LEMMA RootQuietStep ==
    ASSUME TypeOK, AccessInv,
           \/ KeepRoot \/ SkipRoot \/ ResumeRoot \/ RefuseKeys \/ ChooseKeys
           \/ KeepRootPassword \/ RefuseRootPassword \/ CheckRoot
    PROVE  TypeOK' /\ AccessInv' /\ UNCHANGED host
<1> USE DEF RootFrame, RootSteps, Hardening
<1>1. CASE KeepRoot \/ SkipRoot \/ KeepRootPassword
  <2>1. PICK data \in RootData, label \in {"conclude", "root_verify"} :
          EndsWith(data, label) /\ (label = "root_verify" => pc = "root_password")
    <3>1. [NoRoot EXCEPT !.mode = "skipped"] \in RootData
      BY DEF NoRoot, RootData
    <3>2. Managed("keep", root.password) \in RootData
      BY RecordFields DEF Managed, RootData, TypeOK, Root
    <3> QED
      BY <1>1, <3>1, <3>2, RecordFields DEF KeepRoot, SkipRoot, KeepRootPassword, At
  <2>2. /\ UNCHANGED <<host, commands>> /\ pc \in {"check_admin", "root_password"}
    BY <1>1 DEF KeepRoot, SkipRoot, KeepRootPassword, HardensRoot, At
  <2>3. /\ UNCHANGED <<record, todo, had, suspect, faults>> /\ pc' = label
        /\ job' \in Job /\ job'.data = data
    BY <2>1, DataJob
  <2>4. pc' \in Hardening => VerifyAdmin(record.admin_user)
    BY <2>1, <2>3 DEF AccessInv, AdminKnown
  <2>5. KeysKnown'
    BY <2>2, <2>3 DEF host, AccessInv, KeysKnown
  <2> QED
    BY <2>2, <2>3, <2>4, <2>5, RootFrameStep DEF host, TypeOK
<1>2. CASE ResumeRoot
  <2>1. /\ UNCHANGED <<host, commands, record, todo, had, suspect, faults>>
        /\ pc = "check_admin" /\ pc' = "progress" /\ VerifyAdmin(record.admin_user)
        /\ job' = [job EXCEPT !.keys = record.root_hardening.keys]
    BY <1>2 DEF ResumeRoot, HardensRoot, At, Proceeds, Goes
  <2>2. job' \in Job
    <3>1. record.root_hardening.keys \subseteq Key
      BY RecordFields DEF RootData
    <3> QED
      BY <2>1, <3>1 DEF TypeOK, Job
  <2>3. KeysKnown'
    BY <2>1 DEF host, AccessInv, KeysKnown
  <2> QED
    BY <2>1, <2>2, <2>3, RootFrameStep DEF host, TypeOK
<1>3. CASE ChooseKeys
  <2>1. KeysKnown'
    BY <1>3, KeysJob DEF host, AccessInv, KeysKnown
  <2> QED
    BY <1>3, <2>1, KeysJob, RootFrameStep DEF host, TypeOK
<1>4. CASE RefuseKeys \/ RefuseRootPassword \/ CheckRoot
  <2>1. /\ UNCHANGED <<host, commands, record, todo, had, suspect, faults, job>>
        /\ pc \in RootSteps /\ pc' \in {"conclude", "failed"}
        /\ pc' = "conclude" => pc = "root_verify"
    BY <1>4 DEF RefuseKeys, RefuseRootPassword, CheckRoot, AuditsKeys, HardensRoot, At,
                Refuses, Proceeds, Goes
  <2>2. pc' = "conclude" => job'.data \in RootData
    BY <2>1 DEF AccessInv, Placed
  <2>3. KeysKnown'
    BY <2>1 DEF host, AccessInv, KeysKnown
  <2> QED
    BY <2>1, <2>2, <2>3, RootFrameStep DEF host, TypeOK
<1> QED
  BY <1>1, <1>2, <1>3, <1>4

(* The steps on root's keys and password, of which only three take         *)
(* anything away.                                                          *)
RootKeySteps == BackUpKeys \/ ApplyKeys \/ CheckKeys \/ LockRoot

LEMMA RootKeyEffect ==
    ASSUME TypeOK, AccessInv, RootKeySteps
    PROVE  /\ UNCHANGED <<accounts, sudoers, record, todo, had, suspect, commands>>
           /\ faults' \in 0..MaxFaults /\ root' \in Root
           /\ pc \in Hardening /\ pc' \in Hardening \cup {"failed"}
           /\ backups' \subseteq SUBSET (Key \cup {Junk}) /\ job' \in Job
           /\ pc' = "root_verify" => job'.data \in RootData
           /\ KeysKnown'
<1> USE DEF Hardening, RootSteps
<1>1. UNCHANGED <<accounts, sudoers, record, todo, had, suspect, commands>>
  BY DEF RootKeySteps, BackUpKeys, ApplyKeys, CheckKeys, LockRoot, At, EndsWith, Proceeds,
         Raises, Goes
<1>2. faults' \in 0..MaxFaults
  BY AccessAssumption
  DEF RootKeySteps, BackUpKeys, ApplyKeys, CheckKeys, LockRoot, EndsWith, Proceeds,
      Raises, Goes, Fault, TypeOK
<1>3. root.keys \subseteq Key \cup {Junk} /\ root.password \in Password
  BY DEF TypeOK, Root
<1>4. had \subseteq root.keys \cup UNION backups
  BY DEF AccessInv, KeysKnown
<1>5. CASE BackUpKeys
  <2>1. CASE pc' = "apply"
    <3>1. /\ pc = "backup" /\ UNCHANGED root /\ job' = [job EXCEPT !.before = root.keys]
          /\ backups' = IF root.keys = {} THEN backups ELSE backups \cup {root.keys}
      BY <1>5, <2>1 DEF BackUpKeys, At, Raises, Goes
    <3>2. job' \in Job /\ job'.before = root.keys /\ job'.keys = job.keys
      BY <1>3, <3>1 DEF TypeOK, Job
    <3>3. root.keys \subseteq UNION backups' /\ UNION backups \subseteq UNION backups'
      BY <3>1
    <3>4. KeysKnown'
      BY <1>1, <1>4, <2>1, <3>1, <3>2, <3>3 DEF AccessInv, KeysKnown
    <3> QED
      BY <1>1, <1>2, <1>3, <2>1, <3>1, <3>2, <3>4 DEF TypeOK
  <2>2. CASE pc' # "apply"
    <3>1. pc = "backup" /\ pc' = "failed" /\ UNCHANGED <<root, backups, job>>
      BY <1>5, <2>2 DEF BackUpKeys, At, Proceeds, Raises, Goes
    <3> QED
      BY <1>1, <1>2, <1>4, <3>1 DEF TypeOK, KeysKnown
  <2> QED
    BY <2>1, <2>2
<1>6. CASE ApplyKeys
  <2>1. /\ pc = "apply" /\ UNCHANGED <<backups, job>> /\ pc' \in {"verify_keys", "failed"}
        /\ root' \in {root, [root EXCEPT !.keys = job.keys]}
        /\ pc' = "failed" => root' = root
    BY <1>6 DEF ApplyKeys, At, Proceeds, Raises, Goes
  <2>2. /\ job.keys \subseteq root.keys /\ root.keys \subseteq job.before
        /\ job.before \subseteq UNION backups
    BY <2>1 DEF AccessInv, KeysKnown
  <2>3. root' \in Root /\ root'.keys \in {root.keys, job.keys}
    BY <1>3, <2>1, <2>2 DEF TypeOK, Root
  <2>4. KeysKnown'
    BY <1>1, <1>4, <2>1, <2>2, <2>3 DEF KeysKnown
  <2> QED
    BY <1>1, <1>2, <2>1, <2>3, <2>4 DEF TypeOK
<1>7. CASE CheckKeys
  <2>1. /\ pc = "verify_keys" /\ UNCHANGED <<backups, job>> /\ pc' \in {"progress", "failed"}
        /\ root' = root \/ \E left \in SUBSET job.before : root' = [root EXCEPT !.keys = left]
        /\ pc' = "progress" => root' = root
    BY <1>7 DEF CheckKeys, At, Proceeds, Raises, Goes
  <2>2. root.keys \subseteq job.before /\ job.before \subseteq UNION backups
    BY <2>1 DEF AccessInv, KeysKnown
  <2>3. root' \in Root /\ root'.keys \subseteq job.before
    <3>1. job.before \subseteq Key \cup {Junk}
      BY DEF TypeOK, Job
    <3>2. CASE root' = root
      BY <2>2, <3>2 DEF TypeOK
    <3>3. CASE root' # root
      <4>1. PICK left \in SUBSET job.before : root' = [root EXCEPT !.keys = left]
        BY <2>1, <3>3
      <4> QED
        BY <1>3, <3>1, <4>1 DEF TypeOK, Root
    <3> QED
      BY <3>2, <3>3
  <2>4. KeysKnown'
    BY <1>1, <1>4, <2>1, <2>2, <2>3 DEF KeysKnown
  <2> QED
    BY <1>1, <1>2, <2>1, <2>3, <2>4 DEF TypeOK
<1>8. CASE LockRoot
  <2>1. /\ pc = "root_password" /\ UNCHANGED backups
        /\ root' \in {root, [root EXCEPT !.password = "L"]}
        /\ \/ EndsWith(Managed("lock", "L"), "root_verify")
           \/ UNCHANGED job /\ pc' = "failed"
    BY <1>8 DEF LockRoot, At, Raises, Goes
  <2>2. root' \in Root /\ root'.keys = root.keys
    BY <1>3, <2>1 DEF TypeOK, Root, Password
  <2>3. Managed("lock", "L") \in RootData
    BY RecordFields DEF Managed, RootData, Password
  <2>4. /\ pc' \in {"root_verify", "failed"} /\ job' \in Job
        /\ pc' = "root_verify" => job'.data \in RootData
    BY <2>1, <2>3, DataJob DEF TypeOK
  <2>5. KeysKnown'
    BY <1>1, <1>4, <2>1, <2>2, <2>4 DEF KeysKnown
  <2> QED
    BY <1>1, <1>2, <2>1, <2>2, <2>4, <2>5 DEF TypeOK
<1> QED
  BY <1>5, <1>6, <1>7, <1>8 DEF RootKeySteps

LEMMA RootKeyStep == ASSUME TypeOK, AccessInv, RootKeySteps PROVE TypeOK' /\ AccessInv'
<1>1. RootFrame
  BY RootKeyEffect DEF RootFrame, Hardening, RootSteps
<1>2. VerifyAdmin(record.admin_user)
  BY RootKeyEffect DEF AccessInv, AdminKnown
<1>3. AccessInv'
  BY <1>1, <1>2, RootKeyEffect, RootFrameStep DEF Hardening, RootSteps
<1> QED
  BY <1>3, RootKeyEffect DEF TypeOK

-----------------------------------------------------------------------------
(* The record: a status, or the data of a phase.                           *)
LEMMA StatusSet ==
    ASSUME NEW r \in Record, NEW p \in Phase, NEW s \in Status
    PROVE  /\ [r EXCEPT !.status[p] = s] \in Record
           /\ [r EXCEPT !.status[p] = s].admin_user = r.admin_user
           /\ [r EXCEPT !.status[p] = s].root_hardening = r.root_hardening
           /\ [r EXCEPT !.status[p] = s].status[p] = s
           /\ \A q \in Phase \ {p} : [r EXCEPT !.status[p] = s].status[q] = r.status[q]
BY DEF Record

LEMMA ProgressFields ==
    ASSUME TypeOK
    PROVE  /\ Progress \in Record /\ Progress.status = record.status
           /\ Progress.admin_user = record.admin_user
<1> DEFINE data == [NoRoot EXCEPT !.mode = "running", !.user = record.admin_user.user,
                                  !.keys = job.keys]
<1>1. data \in RootData
  <2>1. record.admin_user.user \in User \cup {"none"} /\ job.keys \subseteq Key
    BY RecordFields DEF AdminData, TypeOK, Job
  <2> QED
    BY <2>1 DEF NoRoot, RootData
<1>2. Progress = [record EXCEPT !.root_hardening = data]
  BY DEF Progress
<1> HIDE DEF data
<1> QED
  BY <1>1, <1>2 DEF TypeOK, Record

(* The process ends; what has to be shown is that the record is true.      *)
LEMMA ExitAccess ==
    ASSUME AccessInv, Exit, UNCHANGED <<host, had>>, Known(record.admin_user)', RecordsTrue'
    PROVE  AccessInv'
<1>1. pc' = "idle"
  BY DEF Exit
<1>2. Placed' /\ Told' /\ AdminKnown' /\ KeysKnown'
  BY <1>1
  DEF AccessInv, Placed, Told, AdminKnown, KeysKnown, Hardening, AdminSteps, RootSteps, host
<1> QED
  BY <1>2 DEF AccessInv

(* What is said of a phase that is not worked on does not change.          *)
LEMMA RootRecordSame ==
    ASSUME RecordsTrue, UNCHANGED root, ~Busy("root_hardening"),
           record'.status["root_hardening"] = record.status["root_hardening"],
           record'.root_hardening = record.root_hardening,
           "root_hardening" \in suspect => "root_hardening" \in suspect'
    PROVE  record'.status["root_hardening"] = "done" /\ "root_hardening" \notin suspect' =>
             VerifyKeys(record.root_hardening)' /\ VerifyPassword(record.root_hardening)'
BY DEF RecordsTrue, VerifyKeys, VerifyPassword

LEMMA AdminRecordSame ==
    ASSUME RecordsTrue, UNCHANGED <<accounts, sudoers>>, ~Busy("admin_user"),
           record'.status["admin_user"] = record.status["admin_user"],
           record'.admin_user = record.admin_user,
           "admin_user" \in suspect => "admin_user" \in suspect'
    PROVE  record'.status["admin_user"] = "done" /\ "admin_user" \notin suspect' =>
             Administers(record.admin_user.user)'
BY DEF RecordsTrue, Administers, Login, Sudo

(* A step on one phase, and what has to be shown of the phase itself.      *)
LEMMA PhaseRecord ==
    ASSUME AccessInv, UNCHANGED host, NEW p \in Phase,
           pc \in {"idle", "next"} \/ Head(todo) = p,
           suspect \ {p} \subseteq suspect',
           \A q \in Phase \ {p} : record'.status[q] = record.status[q],
           p = "admin_user" =>
             /\ record'.root_hardening = record.root_hardening
             /\ record'.status[p] = "done" /\ p \notin suspect' /\ ~Busy(p)' =>
                  Administers(record.admin_user.user)',
           p = "root_hardening" =>
             /\ record'.admin_user = record.admin_user
             /\ record'.status[p] = "done" /\ p \notin suspect' /\ ~Busy(p)' =>
                  VerifyKeys(record.root_hardening)' /\ VerifyPassword(record.root_hardening)'
    PROVE  RecordsTrue'
<1>1. CASE p = "admin_user"
  <2>1. ~Busy("root_hardening")
    BY <1>1 DEF Busy
  <2>2. /\ record'.status["root_hardening"] = record.status["root_hardening"]
        /\ record'.root_hardening = record.root_hardening
        /\ "root_hardening" \in suspect => "root_hardening" \in suspect'
    BY <1>1 DEF Phase
  <2> QED
    BY <1>1, <2>1, <2>2, RootRecordSame DEF AccessInv, RecordsTrue, host
<1>2. CASE p = "root_hardening"
  <2>1. ~Busy("admin_user")
    BY <1>2 DEF Busy
  <2>2. /\ record'.status["admin_user"] = record.status["admin_user"]
        /\ record'.admin_user = record.admin_user
        /\ "admin_user" \in suspect => "admin_user" \in suspect'
    BY <1>2 DEF Phase
  <2> QED
    BY <1>2, <2>1, <2>2, AdminRecordSame DEF AccessInv, RecordsTrue, host
<1> QED
  BY <1>1, <1>2 DEF Phase

-----------------------------------------------------------------------------
(* The steps of run_setup and of the component commands.                   *)
LEMMA SaveFailsStep ==
    ASSUME TypeOK, AccessInv, UNCHANGED <<host, had, commands>>, todo # <<>>,
           NEW new \in Record, SaveFails(new), Known(new.admin_user),
           \A q \in Phase \ {Head(todo)} : new.status[q] = record.status[q],
           Head(todo) = "admin_user" => new.root_hardening = record.root_hardening,
           Head(todo) = "root_hardening" => new.admin_user = record.admin_user
    PROVE  TypeOK' /\ AccessInv'
<1>1. /\ record' \in {record, new} /\ Exit /\ faults' \in 0..MaxFaults
      /\ suspect' = suspect \cup {Head(todo)} /\ Head(todo) \in Phase
  BY FirstOfQueue, AccessAssumption DEF SaveFails, Fault, TypeOK
<1>2. TypeOK'
  BY <1>1, NoJobTyped DEF TypeOK, Exit, host
<1>3. Known(record.admin_user)'
  BY <1>1 DEF AccessInv, AdminKnown, Known, host
<1>4. RecordsTrue'
  BY <1>1, PhaseRecord
<1> QED
  BY <1>1, <1>2, <1>3, <1>4, ExitAccess

LEMMA DiesStep == ASSUME TypeOK, AccessInv, Dies PROVE TypeOK' /\ AccessInv'
<1>1. /\ UNCHANGED <<host, record, had, commands>> /\ Exit /\ faults' \in 0..MaxFaults
      /\ suspect' = suspect \cup {Head(todo)} /\ Head(todo) \in Phase
  BY FirstOfQueue, AccessAssumption DEF Dies, Fault, TypeOK
<1>2. TypeOK'
  BY <1>1, NoJobTyped DEF TypeOK, Exit, host
<1>3. Known(record.admin_user)'
  BY <1>1 DEF AccessInv, AdminKnown, Known, host
<1>4. RecordsTrue'
  BY <1>1, PhaseRecord
<1> QED
  BY <1>1, <1>2, <1>3, <1>4, ExitAccess

LEMMA SaveProgressStep ==
    ASSUME TypeOK, AccessInv, SaveProgress PROVE TypeOK' /\ AccessInv'
<1>1. /\ UNCHANGED <<host, had, commands>> /\ pc = "progress"
      /\ Head(todo) = "root_hardening" /\ todo # <<>>
  BY DEF SaveProgress, At, AccessInv, Placed, RootSteps
<1>2. /\ Progress \in Record /\ Progress.status = record.status
      /\ Progress.admin_user = record.admin_user
  BY ProgressFields
<1>3. CASE SaveFails(Progress)
  BY <1>1, <1>2, <1>3, SaveFailsStep DEF AccessInv, AdminKnown
<1>4. CASE record' = Progress /\ pc' = "root_password" /\ UNCHANGED <<todo, job, suspect, faults>>
  <2> HIDE DEF Progress
  <2>1. TypeOK'
    BY <1>1, <1>2, <1>4 DEF TypeOK, host
  <2>2. Placed' /\ Told' /\ KeysKnown'
    BY <1>1, <1>4
    DEF AccessInv, Placed, Told, KeysKnown, AdminSteps, RootSteps, host
  <2>3. AdminKnown'
    <3>1. Known(record.admin_user)'
      BY <1>1, <1>2, <1>4 DEF AccessInv, AdminKnown, Known, host
    <3>2. VerifyAdmin(record.admin_user)'
      BY <1>1, <1>2, <1>4
      DEF AccessInv, AdminKnown, Hardening, RootSteps, VerifyAdmin, Usable, PolicyHolds, host
    <3> QED
      BY <1>4, <3>1, <3>2 DEF AdminKnown
  <2>4. RecordsTrue'
    <3>1. Busy("root_hardening")'
      BY <1>1, <1>4 DEF Busy
    <3> QED
      BY <1>1, <1>2, <1>4, <3>1, PhaseRecord DEF Phase
  <2> QED
    BY <2>1, <2>2, <2>3, <2>4 DEF AccessInv
<1>5. CASE /\ ~job.forced /\ Fault /\ Exit
           /\ record' = [Progress EXCEPT !.status["root_hardening"] = "failed"]
           /\ suspect' = suspect \ {"root_hardening"}
  <2> HIDE DEF Progress
  <2>1. /\ record' \in Record /\ record'.admin_user = record.admin_user
        /\ record'.status["root_hardening"] = "failed"
        /\ \A q \in Phase \ {"root_hardening"} : record'.status[q] = record.status[q]
    BY <1>2, <1>5 DEF Record, Phase, Status
  <2>2. TypeOK'
    BY <1>1, <1>5, <2>1, NoJobTyped, AccessAssumption DEF TypeOK, Exit, Fault, host
  <2>3. Known(record.admin_user)'
    BY <1>1, <2>1 DEF AccessInv, AdminKnown, Known, host
  <2>4. RecordsTrue'
    BY <1>1, <1>5, <2>1, PhaseRecord DEF Phase
  <2> QED
    BY <1>1, <1>5, <2>2, <2>3, <2>4, ExitAccess
<1> QED
  BY <1>3, <1>4, <1>5 DEF SaveProgress, Saves

LEMMA RootChangedStep == ASSUME TypeOK, AccessInv, RootChanged PROVE TypeOK' /\ AccessInv'
<1>1. /\ UNCHANGED <<accounts, sudoers, backups, record, todo, pc, job, commands>>
      /\ faults' \in 0..MaxFaults /\ pc \notin {"apply", "verify_keys"}
      /\ had' = had \cup root'.keys /\ suspect' = suspect \cup {"root_hardening"}
  BY AccessAssumption DEF RootChanged, Fault, TypeOK
<1>2. root' \in Root /\ root.keys \subseteq root'.keys
  <2>1. root.keys \subseteq Key \cup {Junk} /\ root \in Root
    BY DEF TypeOK, Root
  <2>2. PICK k \in Key \cup {Junk} : \/ root' = [root EXCEPT !.keys = @ \cup {k}]
                                    \/ root' = [root EXCEPT !.password = "P"]
    BY DEF RootChanged
  <2> QED
    BY <2>1, <2>2 DEF Root, Password
<1>3. TypeOK'
  <2>1. had' \subseteq Key \cup {Junk} /\ suspect' \subseteq Phase
    BY <1>1, <1>2 DEF TypeOK, Root, Phase
  <2> QED
    BY <1>1, <1>2, <2>1 DEF TypeOK
<1>4. Placed' /\ Told'
  BY <1>1 DEF AccessInv, Placed, Told, Policy
<1>5. AdminKnown'
  BY <1>1 DEF AccessInv, AdminKnown, Known, Busy, VerifyAdmin, Usable, PolicyHolds
<1>6. KeysKnown'
  BY <1>1, <1>2 DEF AccessInv, KeysKnown
<1>7. RecordsTrue'
  BY <1>1 DEF AccessInv, RecordsTrue, Busy, Administers, Login, Sudo
<1> QED
  BY <1>3, <1>4, <1>5, <1>6, <1>7 DEF AccessInv

LEMMA StartStep == ASSUME TypeOK, AccessInv, StartAny PROVE TypeOK' /\ AccessInv'
<1>1. /\ pc = "idle" /\ UNCHANGED <<host, record, had, suspect, faults>>
      /\ commands' \in 0..MaxCommands
  BY AccessAssumption DEF StartAny, Start, TypeOK
<1>2. /\ todo' \in Seq(Phase) /\ todo' # <<>>
      /\ pc' = "next" \/ pc' = Entry(Head(todo'))
  <2>1. CASE Start(<<"admin_user", "root_hardening">>, FALSE)
    <3>1. todo' = <<"admin_user", "root_hardening">> /\ pc' = "next"
      BY <2>1 DEF Start
    <3> QED
      BY <3>1 DEF Phase
  <2>2. ASSUME NEW p \in Phase, Start(<<p>>, TRUE)
        PROVE  todo' \in Seq(Phase) /\ todo' # <<>> /\ pc' = Entry(Head(todo'))
    <3>1. todo' = <<p>> /\ pc' = Entry(Head(<<p>>))
      BY <2>2 DEF Start
    <3> QED
      BY <3>1
  <2> QED
    BY <2>1, <2>2 DEF StartAny
<1>3. job' \in Job /\ job'.key = "none" /\ ~job'.create
  <2>1. PICK forced \in BOOLEAN : job' = [NoJob EXCEPT !.forced = forced]
    BY DEF StartAny, Start
  <2> QED
    BY <2>1, NoJobTyped DEF Job, NoJob
<1>4. /\ pc' \in {"next", "ask_admin", "check_admin"}
      /\ pc' = "ask_admin" => Head(todo') = "admin_user"
      /\ pc' = "check_admin" => Head(todo') = "root_hardening"
  <2>1. Head(todo') \in Phase
    BY <1>2
  <2> QED
    BY <1>2, <2>1 DEF Entry, Phase
<1>5. TypeOK'
  BY <1>1, <1>2, <1>3 DEF TypeOK, host
<1>6. Placed' /\ Told' /\ KeysKnown'
  BY <1>1, <1>2, <1>3, <1>4
  DEF AccessInv, Placed, Told, KeysKnown, AdminSteps, RootSteps, host
<1>7. AdminKnown'
  BY <1>1, <1>4 DEF AccessInv, AdminKnown, Known, Hardening, RootSteps, host
<1>8. RecordsTrue'
  BY <1>1
  DEF AccessInv, RecordsTrue, Busy, Administers, Login, Sudo, VerifyKeys, VerifyPassword, host
<1> QED
  BY <1>5, <1>6, <1>7, <1>8 DEF AccessInv

LEMMA FailureStep == ASSUME TypeOK, AccessInv, RecordFailure PROVE TypeOK' /\ AccessInv'
<1>1. /\ UNCHANGED <<host, had, commands>> /\ pc = "failed" /\ todo # <<>>
      /\ Head(todo) \in Phase
  BY FirstOfQueue DEF RecordFailure, At, AccessInv, Placed, TypeOK
<1>2. /\ Failed \in Record /\ Failed.admin_user = record.admin_user
      /\ Failed.root_hardening = record.root_hardening
      /\ Failed.status[Head(todo)] = "failed"
      /\ \A q \in Phase \ {Head(todo)} : Failed.status[q] = record.status[q]
  BY <1>1 DEF Failed, TypeOK, Record, Status
<1> HIDE DEF Failed
<1>3. CASE SaveFails(Failed)
  BY <1>1, <1>2, <1>3, SaveFailsStep DEF AccessInv, AdminKnown
<1>4. CASE Saves(Failed) /\ suspect' = suspect \ {Head(todo)} /\ Exit
  <2>1. TypeOK'
    BY <1>1, <1>2, <1>4, NoJobTyped DEF TypeOK, Saves, Exit, host
  <2>2. Known(record.admin_user)'
    BY <1>1, <1>2, <1>4 DEF AccessInv, AdminKnown, Known, Saves, host
  <2>3. RecordsTrue'
    BY <1>1, <1>2, <1>4, PhaseRecord DEF Saves
  <2> QED
    BY <1>1, <1>4, <2>1, <2>2, <2>3, ExitAccess
<1> QED
  BY <1>3, <1>4 DEF RecordFailure

LEMMA TakeStep == ASSUME TypeOK, AccessInv, TakePhase PROVE TypeOK' /\ AccessInv'
<1>1. /\ UNCHANGED <<host, had, commands>> /\ pc = "next"
      /\ job.key = "none" /\ ~job.create
  BY DEF TakePhase, At, AccessInv, Told
<1>2. CASE todo = <<>> /\ Exit /\ UNCHANGED <<record, suspect, faults>>
  <2>1. TypeOK'
    BY <1>1, <1>2, NoJobTyped DEF TypeOK, Exit, host
  <2>2. Known(record.admin_user)'
    BY <1>1, <1>2 DEF AccessInv, AdminKnown, Known, host
  <2>3. RecordsTrue'
    BY <1>1, <1>2
    DEF AccessInv, RecordsTrue, Busy, Administers, Login, Sudo, VerifyKeys, VerifyPassword,
        host
  <2> QED
    BY <1>1, <1>2, <2>1, <2>2, <2>3, ExitAccess
<1>3. CASE todo # <<>> /\ todo' = Tail(todo) /\ UNCHANGED <<pc, job, record, suspect, faults>>
  <2>1. TypeOK'
    BY <1>1, <1>3, FirstOfQueue DEF TypeOK, host
  <2>2. Placed' /\ Told' /\ KeysKnown'
    BY <1>1, <1>3 DEF AccessInv, Placed, Told, KeysKnown, AdminSteps, RootSteps, host
  <2>3. AdminKnown'
    BY <1>1, <1>3 DEF AccessInv, AdminKnown, Known, Hardening, RootSteps, host
  <2>4. RecordsTrue'
    BY <1>1, <1>3
    DEF AccessInv, RecordsTrue, Busy, Administers, Login, Sudo, VerifyKeys, VerifyPassword,
        host
  <2> QED
    BY <2>1, <2>2, <2>3, <2>4 DEF AccessInv
<1>4. ASSUME todo # <<>>, NEW new, new = [record EXCEPT !.status[Head(todo)] = "running"],
             \/ Saves(new) /\ pc' = Entry(Head(todo)) /\ UNCHANGED <<todo, job, suspect>>
             \/ SaveFails(new)
      PROVE  TypeOK' /\ AccessInv'
  <2>1. Head(todo) \in Phase
    BY <1>4, FirstOfQueue DEF TypeOK
  <2>2. /\ new \in Record /\ new.admin_user = record.admin_user
        /\ new.root_hardening = record.root_hardening
        /\ \A q \in Phase \ {Head(todo)} : new.status[q] = record.status[q]
    BY <1>4, <2>1 DEF TypeOK, Record, Status
  <2>3. CASE SaveFails(new)
    BY <1>1, <1>4, <2>2, <2>3, SaveFailsStep DEF AccessInv, AdminKnown
  <2>4. CASE Saves(new) /\ pc' = Entry(Head(todo)) /\ UNCHANGED <<todo, job, suspect>>
    <3>1. TypeOK'
      BY <1>1, <2>2, <2>4 DEF TypeOK, Saves, host
    <3>2. /\ pc' \in {"ask_admin", "check_admin"}
          /\ pc' = "ask_admin" => Head(todo) = "admin_user"
          /\ pc' = "check_admin" => Head(todo) = "root_hardening"
      BY <2>1, <2>4 DEF Entry, Phase
    <3>3. Placed' /\ Told' /\ KeysKnown'
      BY <1>1, <1>4, <2>4, <3>2
      DEF AccessInv, Placed, Told, KeysKnown, AdminSteps, RootSteps, host
    <3>4. AdminKnown'
      BY <1>1, <2>2, <2>4, <3>2
      DEF AccessInv, AdminKnown, Known, Hardening, RootSteps, Saves, host
    <3>5. RecordsTrue'
      <4>1. Busy(Head(todo))'
        BY <2>4, <3>2 DEF Busy
      <4>2. Head(todo)' = Head(todo) /\ record' = new
        BY <2>4 DEF Saves
      <4>3. CASE Head(todo) = "admin_user"
        BY <1>1, <2>2, <2>4, <4>1, <4>2, <4>3, PhaseRecord DEF Busy, Phase
      <4>4. CASE Head(todo) = "root_hardening"
        BY <1>1, <2>2, <2>4, <4>1, <4>2, <4>4, PhaseRecord DEF Busy, Phase
      <4> QED
        BY <2>1, <4>3, <4>4 DEF Phase
    <3> QED
      BY <3>1, <3>3, <3>4, <3>5 DEF AccessInv
  <2> QED
    BY <1>4, <2>3, <2>4
<1> QED
  BY <1>2, <1>3, <1>4 DEF TakePhase

(* Verified and known: the administrator gets in.                          *)
LEMMA Works ==
    ASSUME NEW data, Known(data), data.mode = "managed", VerifyAdmin(data)
    PROVE  Administers(data.user)
BY DEF Known, VerifyAdmin, Usable, PolicyHolds, Administers, Login, Sudo, SudoMode

LEMMA ConcludedFields ==
    ASSUME TypeOK, AccessInv, pc = "conclude", NEW p \in Phase, Head(todo) = p
    PROVE  /\ Concluded \in Record
           /\ \A q \in Phase \ {p} : Concluded.status[q] = record.status[q]
           /\ Concluded.status[p] = "done" => job.data.mode # "skipped" /\ Verify(p, job.data)
           /\ p = "admin_user" => /\ Concluded.admin_user = job.data
                                  /\ Concluded.root_hardening = record.root_hardening
           /\ p = "root_hardening" => /\ Concluded.root_hardening = job.data
                                      /\ Concluded.admin_user = record.admin_user
<1> DEFINE status == IF job.data.mode = "skipped" THEN "skipped"
                     ELSE IF Verify(p, job.data) THEN "done" ELSE "failed"
<1>1. /\ status \in Status
      /\ status = "done" => job.data.mode # "skipped" /\ Verify(p, job.data)
  BY DEF Status
<1>2. [record EXCEPT !.status[p] = status] \in Record
  BY <1>1, StatusSet DEF TypeOK
<1> DEFINE concluded == [record EXCEPT !.status[p] = status]
<1>3. /\ concluded.admin_user = record.admin_user
      /\ concluded.root_hardening = record.root_hardening
      /\ concluded.status[p] = status
      /\ \A q \in Phase \ {p} : concluded.status[q] = record.status[q]
  BY <1>1 DEF TypeOK, Record
<1>4. Concluded = IF p = "admin_user" THEN [concluded EXCEPT !.admin_user = job.data]
                                      ELSE [concluded EXCEPT !.root_hardening = job.data]
  BY DEF Concluded
<1>5. job.data \in IF p = "admin_user" THEN AdminData ELSE RootData
  BY DEF AccessInv, Placed
<1> HIDE DEF status, concluded
<1>6. concluded \in Record
  BY <1>2 DEF concluded
<1>7. CASE p = "admin_user"
  BY <1>1, <1>3, <1>4, <1>5, <1>6, <1>7 DEF Record, Phase
<1>8. CASE p = "root_hardening"
  BY <1>1, <1>3, <1>4, <1>5, <1>6, <1>8 DEF Record, Phase
<1> QED
  BY <1>7, <1>8 DEF Phase

LEMMA ConcludeStep == ASSUME TypeOK, AccessInv, Conclude PROVE TypeOK' /\ AccessInv'
<1>1. /\ UNCHANGED <<host, had, commands>> /\ pc = "conclude" /\ todo # <<>>
      /\ Head(todo) \in Phase /\ Tail(todo) \in Seq(Phase)
  BY FirstOfQueue DEF Conclude, At, AccessInv, Placed, TypeOK
<1> DEFINE p == Head(todo)
<1>2. /\ Concluded \in Record
      /\ \A q \in Phase \ {p} : Concluded.status[q] = record.status[q]
      /\ Concluded.status[p] = "done" => job.data.mode # "skipped" /\ Verify(p, job.data)
      /\ p = "admin_user" => /\ Concluded.admin_user = job.data
                             /\ Concluded.root_hardening = record.root_hardening
      /\ p = "root_hardening" => /\ Concluded.root_hardening = job.data
                                 /\ Concluded.admin_user = record.admin_user
  BY <1>1, ConcludedFields
<1>3. Known(Concluded.admin_user)
  <2>1. CASE p = "admin_user"
    BY <1>1, <1>2, <2>1 DEF AccessInv, AdminKnown, Busy
  <2>2. CASE p = "root_hardening"
    BY <1>2, <2>2 DEF AccessInv, AdminKnown
  <2> QED
    BY <1>1, <2>1, <2>2 DEF Phase
<1>4. /\ p = "admin_user" /\ Concluded.status[p] = "done" =>
           Administers(Concluded.admin_user.user)
      /\ p = "root_hardening" /\ Concluded.status[p] = "done" =>
           VerifyKeys(Concluded.root_hardening) /\ VerifyPassword(Concluded.root_hardening)
  <2>1. ASSUME p = "admin_user", Concluded.status[p] = "done"
        PROVE  Administers(Concluded.admin_user.user)
    <3>1. VerifyAdmin(job.data) /\ job.data.mode = "managed" /\ Known(job.data)
      BY <1>2, <1>3, <2>1 DEF Verify, VerifyAdmin
    <3> QED
      BY <1>2, <2>1, <3>1, Works
  <2>2. ASSUME p = "root_hardening", Concluded.status[p] = "done"
        PROVE  VerifyKeys(Concluded.root_hardening) /\ VerifyPassword(Concluded.root_hardening)
    BY <1>2, <2>2 DEF Verify, VerifyRoot
  <2> QED
    BY <2>1, <2>2
<1> HIDE DEF Concluded
<1>5. CASE SaveFails(Concluded)
  BY <1>1, <1>2, <1>3, <1>5, SaveFailsStep
<1>6. CASE Saves(Concluded) /\ suspect' = suspect \ {p}
  <2>1. record' = Concluded /\ faults' = faults
    BY <1>6 DEF Saves
  <2>2. Known(record.admin_user)'
    BY <1>1, <1>3, <2>1 DEF Known, host
  <2>3. RecordsTrue'
    <3>1. CASE p = "admin_user"
      <4>1. record'.status[p] = "done" => Administers(record.admin_user.user)'
        BY <1>1, <1>4, <2>1, <3>1 DEF Administers, Login, Sudo, host
      <4> QED
        BY <1>1, <1>2, <1>6, <2>1, <3>1, <4>1, PhaseRecord
    <3>2. CASE p = "root_hardening"
      <4>1. record'.status[p] = "done" =>
              VerifyKeys(record.root_hardening)' /\ VerifyPassword(record.root_hardening)'
        BY <1>1, <1>4, <2>1, <3>2 DEF VerifyKeys, VerifyPassword, host
      <4> QED
        BY <1>1, <1>2, <1>6, <2>1, <3>2, <4>1, PhaseRecord
    <3> QED
      BY <1>1, <3>1, <3>2 DEF Phase
  <2>4. CASE Exit
    <3>1. TypeOK'
      BY <1>1, <1>2, <1>6, <2>1, <2>4, NoJobTyped DEF TypeOK, Exit, host
    <3> QED
      BY <1>1, <2>2, <2>3, <2>4, <3>1, ExitAccess
  <2>5. CASE pc' = "next" /\ todo' = Tail(todo) /\ job' = NoJob
    <3>1. TypeOK'
      BY <1>1, <1>2, <1>6, <2>1, <2>5, NoJobTyped DEF TypeOK, host
    <3>2. Placed' /\ Told' /\ KeysKnown'
      BY <1>1, <2>5
      DEF AccessInv, Placed, Told, KeysKnown, AdminSteps, RootSteps, NoJob, host
    <3>3. AdminKnown'
      BY <2>2, <2>5 DEF AdminKnown, Hardening, RootSteps
    <3> QED
      BY <2>3, <3>1, <3>2, <3>3 DEF AccessInv
  <2> QED
    BY <1>5, <1>6, <2>4, <2>5 DEF Conclude
<1> QED
  BY <1>5, <1>6 DEF Conclude

-----------------------------------------------------------------------------
LEMMA InitAccess == ASSUME Init PROVE TypeOK /\ AccessInv
<1>1. /\ accounts \in [User -> Account] /\ root \in Root /\ pc = "idle" /\ todo = <<>>
      /\ job = NoJob /\ had = root.keys /\ suspect = {} /\ backups = {}
      /\ sudoers \in {"none", "foreign"} /\ commands = 0 /\ faults = 0
  BY AccessAssumption DEF Init
<1>2. /\ root.keys \subseteq Key \cup {Junk} /\ root.password \in Password
  BY <1>1 DEF Root
<1>3. record \in Record /\ Known(record.admin_user) /\ RecordsTrue
  <2>1. CASE record = Fresh
    <3>1. /\ record.admin_user.mode = "none" /\ \A p \in Phase : record.status[p] = "pending"
      BY <2>1 DEF Fresh, NoAdmin
    <3>2. record \in Record
      BY <2>1, NoData DEF Fresh, Record, Status
    <3> QED
      BY <3>1, <3>2 DEF Known, RecordsTrue, Phase
  <2>2. ASSUME NEW u \in User, NEW hardened \in BOOLEAN, NEW k \in accounts[u].keys,
               Administers(u), hardened => Junk \notin root.keys, record = SetUp(u, k, hardened)
        PROVE  record \in Record /\ Known(record.admin_user) /\ RecordsTrue
    <3> DEFINE admin == [mode |-> "managed", user |-> u, key |-> k,
                         sudo |-> "password_required", local |-> "P"]
               hard == [mode |-> "managed", user |-> u, keys |-> root.keys,
                        action |-> "keep", password |-> root.password]
               status == [p \in Phase |-> IF p = "admin_user" \/ hardened THEN "done"
                                                                  ELSE "pending"]
               rootData == IF hardened THEN hard ELSE NoRoot
    <3>1. admin \in AdminData
      BY <1>1 DEF AdminData, Account, SudoMode, Password
    <3>2. rootData \in RootData
      BY <1>2, <2>2, NoData DEF RootData
    <3>3. status \in [Phase -> Status]
      BY DEF Status
    <3>4. /\ record.status = status /\ record.admin_user = admin
          /\ record.root_hardening = rootData
          /\ record = [status |-> status, admin_user |-> admin, root_hardening |-> rootData]
      BY <2>2 DEF SetUp
    <3>5. record \in Record
      BY <3>1, <3>2, <3>3, <3>4 DEF Record
    <3>6. Known(record.admin_user)
      BY <2>2, <3>4 DEF Known, Administers, Login, SudoMode
    <3>7. Administers(record.admin_user.user)
      BY <2>2, <3>4
    <3>8. record.status["root_hardening"] = "done" => hardened
      BY <3>4 DEF Phase
    <3>9. hardened => /\ VerifyKeys(record.root_hardening)
                      /\ VerifyPassword(record.root_hardening)
      BY <3>4 DEF VerifyKeys, VerifyPassword
    <3> QED
      BY <3>5, <3>6, <3>7, <3>8, <3>9 DEF RecordsTrue
  <2> QED
    BY <2>1, <2>2 DEF Init
<1>4. TypeOK
  BY <1>1, <1>2, <1>3, NoJobTyped, AccessAssumption DEF TypeOK
<1>5. Placed /\ Told /\ AdminKnown /\ KeysKnown
  BY <1>1, <1>3 DEF Placed, Told, AdminKnown, KeysKnown, Hardening, AdminSteps, RootSteps
<1> QED
  BY <1>3, <1>4, <1>5 DEF AccessInv

LEMMA NextAccess == TypeOK /\ AccessInv /\ [Next]_vars => TypeOK' /\ AccessInv'
<1> SUFFICES ASSUME TypeOK, AccessInv, [Next]_vars PROVE TypeOK' /\ AccessInv'
  OBVIOUS
<1>1. CASE UNCHANGED vars
  <2>1. TypeOK'
    BY <1>1 DEF vars, host, TypeOK
  <2>2. Placed' /\ Told' /\ KeysKnown'
    BY <1>1 DEF vars, host, AccessInv, Placed, Told, KeysKnown, Policy
  <2>3. AdminKnown'
    BY <1>1
    DEF vars, host, AccessInv, AdminKnown, Known, Busy, VerifyAdmin, Usable, PolicyHolds
  <2>4. RecordsTrue'
    BY <1>1
    DEF vars, host, AccessInv, RecordsTrue, Busy, Administers, Login, Sudo, VerifyKeys,
        VerifyPassword
  <2> QED
    BY <2>1, <2>2, <2>3, <2>4 DEF AccessInv
<1>2. CASE RootHardening
  BY <1>2, RootQuietStep, RootKeyStep, SaveProgressStep DEF RootHardening, RootKeySteps
<1>3. CASE Process
  BY <1>3, TakeStep, ConcludeStep, FailureStep DEF Process
<1> QED
  BY <1>1, <1>2, <1>3, StartStep, AdminStep, DiesStep, RootChangedStep DEF Next

(* The accounts, root and the record have their types, for any users,      *)
(* keys, initial accounts and bounds.                                      *)
THEOREM AccessTypeCorrect == Spec => []TypeOK
<1> QED
  BY InitAccess, NextAccess, PTL DEF Spec

(* What the process knows at each step is so, and what is recorded.        *)
THEOREM AccessInductive == Spec => []AccessInv
<1> QED
  BY InitAccess, NextAccess, PTL DEF Spec

(* No key root ever had is lost: it is in authorized_keys or in a backup.  *)
THEOREM NoKeyLost == Spec => []RemovedKeysBackedUp
<1>1. AccessInv => RemovedKeysBackedUp
  BY DEF AccessInv, KeysKnown, RemovedKeysBackedUp
<1> QED
  BY <1>1, AccessInductive, PTL

(* Between runs, a phase recorded as done describes the host.              *)
THEOREM RecordsAreTrue == Spec => []RecordsAgree
<1>1. AccessInv => RecordsAgree
  BY DEF AccessInv, RecordsTrue, RecordsAgree, Busy
<1> QED
  BY <1>1, AccessInductive, PTL

-----------------------------------------------------------------------------
(* Which steps change what.                                                *)
LEMMA StepKinds ==
    ASSUME TypeOK, AccessInv, [Next]_vars
    PROVE  UNCHANGED host \/ AdminUser \/ RootKeySteps \/ RootChanged
<1>1. CASE UNCHANGED vars \/ StartAny \/ Process \/ Dies \/ SaveProgress
  BY <1>1 DEF vars, StartAny, Start, Process, TakePhase, Conclude, RecordFailure, Dies,
              SaveProgress, host
<1> QED
  BY <1>1, RootQuietStep DEF Next, RootHardening, RootKeySteps

LEMMA HardenedByAdmin ==
    ASSUME TypeOK, AccessInv, RootKeySteps
    PROVE  SomeoneAdministers \/ record.admin_user.mode = "skipped"
<1>1. VerifyAdmin(record.admin_user) /\ Known(record.admin_user)
  BY RootKeyEffect DEF AccessInv, AdminKnown
<1>2. record.admin_user.mode \in {"skipped", "managed"}
  BY <1>1 DEF VerifyAdmin
<1> QED
  BY <1>1, <1>2, Works DEF Known, SomeoneAdministers

LEMMA RootGrows ==
    ASSUME TypeOK, RootChanged
    PROVE  /\ root.keys \subseteq root'.keys /\ UNCHANGED <<accounts, sudoers>>
           /\ root.password = "P" => root'.password = "P"
<1>1. PICK k \in Key \cup {Junk} : \/ root' = [root EXCEPT !.keys = @ \cup {k}]
                                  \/ root' = [root EXCEPT !.password = "P"]
  BY DEF RootChanged
<1> QED
  BY <1>1 DEF RootChanged, TypeOK, Root

(* Root loses a key or its password only while the recorded administrator  *)
(* works, unless the operator skipped the administrator.                   *)
THEOREM RootIsLast == Spec => RootLosesLast
<1>1. TypeOK /\ AccessInv /\ [Next]_vars =>
        [RootLoses => SomeoneAdministers \/ record.admin_user.mode = "skipped"]_vars
  <2> SUFFICES ASSUME TypeOK, AccessInv, [Next]_vars, RootLoses
               PROVE  SomeoneAdministers \/ record.admin_user.mode = "skipped"
    OBVIOUS
  <2>1. root' # root
    BY DEF RootLoses
  <2>2. ~RootChanged
    BY RootGrows DEF RootLoses
  <2>3. RootKeySteps
    BY <2>1, <2>2, StepKinds, AdminTyped DEF AdminFrame, host
  <2> QED
    BY <2>3, HardenedByAdmin
<1> QED
  BY <1>1, AccessTypeCorrect, AccessInductive, PTL DEF Spec, RootLosesLast

(* Setting somebody up as administrator takes nothing from an account.     *)
THEOREM NothingTaken == Spec => AccountsOnlyGain
<1>1. TypeOK /\ AccessInv /\ [Next]_vars => Gains
  <2> SUFFICES ASSUME TypeOK, AccessInv, [Next]_vars PROVE Gains
    OBVIOUS
  <2>1. AdminUser \/ UNCHANGED accounts
    BY StepKinds, RootKeyEffect, RootGrows DEF host
  <2>2. CASE UNCHANGED accounts
    BY <2>2 DEF Gains
  <2> QED
    BY <2>1, <2>2, AdminTyped
<1>2. TypeOK /\ AccessInv /\ [Next]_vars =>
        [\A u \in User :
           LET a == accounts[u]  b == accounts'[u]
           IN  a.exists => /\ b.exists /\ a.keys \subseteq b.keys
                           /\ a.sudo => b.sudo
                           /\ a.password = "P" => b.password = "P"]_vars
  BY <1>1 DEF Gains
<1> QED
  BY <1>2, AccessTypeCorrect, AccessInductive, PTL DEF Spec, AccountsOnlyGain

(* The last way to administer the host is lost in two places only.         *)
THEOREM LastWayInStays == Spec => LastWayIn
<1>1. TypeOK /\ AccessInv /\ [Next]_vars =>
        [WayIn /\ ~WayIn' => pc \in {"keys", "policy", "visudo"}
                            \/ record.admin_user.mode = "skipped"]_vars
  <2> SUFFICES ASSUME TypeOK, AccessInv, [Next]_vars, WayIn, ~WayIn',
                      pc \notin {"keys", "policy", "visudo"},
                      record.admin_user.mode # "skipped"
               PROVE  FALSE
    OBVIOUS
  <2>1. CASE UNCHANGED host
    BY <2>1 DEF host, WayIn, SomeoneAdministers, Administers, Login, Sudo
  <2>2. CASE AdminUser
    <3>1. Keeps /\ UNCHANGED root
      BY <2>2, AdminTyped DEF AdminFrame
    <3> QED
      BY <3>1 DEF Keeps, WayIn, SomeoneAdministers
  <2>3. CASE RootKeySteps
    <3>1. SomeoneAdministers /\ UNCHANGED <<accounts, sudoers>>
      BY <2>3, HardenedByAdmin, RootKeyEffect
    <3> QED
      BY <3>1 DEF WayIn, SomeoneAdministers, Administers, Login, Sudo
  <2>4. CASE RootChanged
    <3>1. /\ root.keys \subseteq root'.keys /\ UNCHANGED <<accounts, sudoers>>
          /\ root.password = "P" => root'.password = "P"
      BY <2>4, RootGrows
    <3> QED
      BY <3>1 DEF WayIn, SomeoneAdministers, Administers, Login, Sudo
  <2> QED
    BY <2>1, <2>2, <2>3, <2>4, StepKinds
<1> QED
  BY <1>1, AccessTypeCorrect, AccessInductive, PTL DEF Spec, LastWayIn
=============================================================================
