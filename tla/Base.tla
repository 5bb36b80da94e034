-------------------------------- MODULE Base --------------------------------
(***************************************************************************)
(* The phases of the base system in the order of a run: preflight, which   *)
(* looks at the host, and time_sync, swap and security_updates, which      *)
(* change it, with what can happen to them: a run is killed at any step,   *)
(* the machine restarts, others change the host between two runs or while  *)
(* a question waits for its answer.                                        *)
(***************************************************************************)
EXTENDS TimeSync, Swap, SecurityUpdates

CONSTANT Hosts  \* the hosts considered, a subset of HostType

HostType == [net : Net, clock : Clock, conf : Seq(ConfLine), machine : Machine,
             swapfile : SwapFile, active : SUBSET Area, fstab : Fstab,
             policy : Policy]
(* What is not there has no content, a file fits on its disk, and no run   *)
(* came before the first.                                                  *)
ASSUME HostsAssumption ==
    /\ Hosts \subseteq HostType
    /\ \A h \in Hosts : /\ h.fstab.present \/ h.fstab = NoFstab
                        /\ h.swapfile.kind # "none" \/ h.swapfile = NoSwapFile
                        /\ h.swapfile.size <= h.machine.disk /\ ~h.swapfile.ours

vars == <<runVars, faults, timeVars, swapVars, policy>>

Init ==
    /\ RunInit
    /\ \E h \in Hosts :
         /\ net = h.net /\ clock = h.clock /\ conf = h.conf
         /\ machine = h.machine /\ swapfile = h.swapfile
         /\ active = h.active /\ fstab = h.fstab /\ policy = h.policy
    /\ job = NoJob
    /\ past = [lines |-> OtherEntries(fstab.lines), conf |-> OtherLines(conf),
               cut |-> FALSE, torn |-> FALSE,
               tampered |-> CountManaged(fstab.lines) > 0 /\ ~swapfile.formatted]

-----------------------------------------------------------------------------
(* run_preflight: of its checks those that end the run, which are the free *)
(* space and, as Fault, the names, routes and servers that do not answer.  *)
PreflightDisk == 2 * GIB
Passes == Free >= PreflightDisk

ConsiderPreflight == Consider("preflight", Passes, "checks")
Checks ==
    /\ At("preflight", "checks")
    /\ \/ Goto(IF Passes THEN "verify" ELSE "failed") /\ UNCHANGED faults
       \/ Passes /\ Goto("failed") /\ Fault
Preflight ==
    /\ ConsiderPreflight \/ Checks \/ Verify("preflight", Passes)
    /\ UNCHANGED <<timeVars, swapVars, policy>>

-----------------------------------------------------------------------------
Start == StartRun /\ UNCHANGED <<timeVars, swapVars, policy>>
Conclude ==
    /\ ConcludeFailed \/ ConcludeSkipped
    /\ job' = NoJob
    /\ UNCHANGED <<timeVars, machine, swapfile, active, fstab, past, policy>>
Process ==
    \/ Preflight
    \/ TimeProcess /\ UNCHANGED <<swapVars, policy>>
    \/ SwapProcess /\ UNCHANGED <<timeVars, policy>>
    \/ PolicyProcess /\ UNCHANGED <<timeVars, swapVars>>
    \/ Conclude

(* Ctrl-C, which no rollback handles, or a kill.  A dd or a copy is cut    *)
(* off half-way.                                                           *)
Creating == phase = "swap" /\ step \in {"create", "chmod", "mkswap", "write", "swapon",
                                        "restore", "unlink"}
Kill ==
    /\ phase # "none" /\ Fault /\ Stop
    /\ swapfile' \in IF At("swap", "create") /\ swapfile.kind = "none"
                     THEN Partial ELSE {swapfile}
    /\ fstab' \in {fstab} \cup IF At("swap", "restore") THEN Halfway ELSE {}
    /\ past' = [past EXCEPT
         !.cut = @ \/ Creating \/ (At("swap", "verify") /\ SwapData # saved["swap"].data),
         !.torn = @ \/ fstab' # fstab]
    /\ job' = NoJob
    /\ UNCHANGED <<saved, timeVars, machine, active, policy>>

(* A restart under a running process is a Kill before it.                  *)
Reboot ==
    /\ phase = "none" /\ Fault
    /\ active' = {a \in {"swapfile", "disk"} :
                    \E i \in DOMAIN fstab.lines :
                      \/ a = "disk" /\ fstab.lines[i] = "swap"
                      \/ a = "swapfile" /\ fstab.lines[i] \in {"managed", "swapfile"}
                                        /\ swapfile.formatted}
    /\ clock' = RebootedClock
    /\ UNCHANGED <<runVars, net, conf, machine, swapfile, fstab, job, past, policy>>

-----------------------------------------------------------------------------
(* What others do, the operator in a second session or a provider's agent. *)
Elsewhere == (phase = "none" \/ At("swap", "ask")) /\ Fault

ChangeSwap ==
    /\ Elsewhere
    /\ \/ \E a \in active : active' = active \ {a}
       \/ active' = active \cup {"disk"} /\ active' # active
       \/ swapfile.formatted /\ active' = active \cup {"swapfile"} /\ active' # active
    /\ UNCHANGED <<runVars, timeVars, machine, swapfile, fstab, job, past, policy>>

ChangeSwapFile ==
    /\ Elsewhere
    /\ \/ swapfile.kind # "none" /\ "swapfile" \notin active /\ swapfile' = NoSwapFile
       \/ /\ swapfile.kind = "none"
          /\ swapfile' \in [kind : {"file"}, size : {s \in Sizes : s > 0 /\ s <= machine.disk},
                            private : BOOLEAN, formatted : BOOLEAN, ours : {FALSE}]
       \/ /\ swapfile.private
          /\ swapfile' = [swapfile EXCEPT !.private = FALSE]
    /\ past' = [past EXCEPT !.tampered = TRUE]
    /\ UNCHANGED <<runVars, timeVars, machine, active, fstab, job, policy>>

EditFstab ==
    /\ Elsewhere
    /\ \/ \E i \in DOMAIN fstab.lines :
            fstab' = Lines(SubSeq(fstab.lines, 1, i - 1)
                           \o SubSeq(fstab.lines, i + 1, Len(fstab.lines)))
       \/ fstab' = Lines(Append(fstab.lines, "swapfile"))
    /\ past' = [past EXCEPT
         !.lines = OtherEntries(fstab'.lines),
         !.tampered = @ \/ CountManaged(fstab'.lines) > CountManaged(fstab.lines)]
    /\ UNCHANGED <<runVars, timeVars, machine, swapfile, active, job, policy>>

Others ==
    \/ ChangeSwap \/ ChangeSwapFile \/ EditFstab
    \/ LoseTime /\ UNCHANGED <<swapVars, policy>>
    \/ EditPolicy /\ UNCHANGED <<timeVars, swapVars>>

Clockwork == Synchronize /\ UNCHANGED <<swapVars, policy>>

Next == Start \/ Process \/ Kill \/ Reboot \/ Others \/ Clockwork

Spec == Init /\ [][Next]_vars

(* A process goes on; the operator answers a failed run with another, and  *)
(* does not forever ask for a swap that cannot be had; a clock that can be *)
(* synchronized is in the end synchronized, and not always just after the  *)
(* deadline.                                                               *)
Fairness ==
    /\ WF_vars(Process) /\ WF_vars(Start) /\ WF_vars(Clockwork)
    /\ SF_vars(Decline /\ UNCHANGED <<timeVars, policy>>)
    /\ SF_vars(Clockwork /\ At("time_sync", "wait"))
FairSpec == Spec /\ Fairness

-----------------------------------------------------------------------------
Step == {"idle", "next", "status", "install", "configure", "restart", "wait", "verify",
         "failed", "skipped", "discover", "ask", "apply", "create", "chmod", "mkswap",
         "write", "swapon", "restore", "unlink", "entry", "rewrite", "remkswap",
         "reswapon", "checks", "package", "policy", "effective"}
TypeOK ==
    /\ saved \in [Phase -> [status : Status, data : Data]] /\ data \in [Phase -> Data]
    /\ phase \in Phase \cup {"none"} /\ step \in Step /\ faults \in 0..MaxFaults
    /\ net \in Net /\ clock \in Clock /\ conf \in Seq(ConfLine)
    /\ machine \in Machine /\ swapfile \in SwapFile /\ active \subseteq Area
    /\ fstab \in Fstab /\ job \in Job /\ past \in Past /\ policy \in Policy

(* "must not run mkswap, chmod, truncate or delete an unknown existing     *)
(* /swapfile": the program changes a file of others only in the repair of  *)
(* its own swap, where it takes the file for its own: the recorded size    *)
(* fits.  A file put there while a question waits is no exception.         *)
ForeignUntouched ==
    [][swapfile.kind # "none" /\ ~swapfile.ours /\ phase # "none"
         /\ step # "ask" /\ swapfile' # swapfile =>
         saved["swap"].data.mode = "managed" /\ SizeFits(saved["swap"].data.size)]_vars

(* "ownership cannot be proven": unless others put another file there, the *)
(* fstab entry of vps-bootstrap is there only while /swapfile is a swap,   *)
(* whatever failed or was killed.  The next boot would stumble over it.    *)
FstabNamesSwap ==
    CountManaged(fstab.lines) > 0 /\ ~past.tampered => swapfile.formatted

(* A boundary size, or a file that appears while the question waits, never *)
(* makes a swap that eats the reserve of free disk space.                  *)
ReserveKept == swapfile.ours => Free >= MinFreeAfterSwap

(* "rolls back /etc/fstab and new swapfile after activation failure": a    *)
(* swap file of its own that the record does not know is left only when    *)
(* the creation or the rollback itself was cut off, or could not unlink it.*)
OrphanIsCutOff ==
    phase = "none" /\ swapfile.ours /\ saved["swap"].data.mode # "managed" => past.cut

(* The lines that others have in /etc/fstab and in the file of chrony stay *)
(* as they are, in their order, unless the copy of a backup was cut off;   *)
(* neither file gets a second block of vps-bootstrap.                      *)
OthersKept ==
    /\ ~past.torn => OtherEntries(fstab.lines) = past.lines
    /\ OtherLines(conf) = past.conf
    /\ Cardinality({i \in DOMAIN conf : conf[i] = "header"}) <= 1

(* Why these hold: what the process and the record know of the swap at     *)
(* each step.  Nobody else acts between the question and the end of the    *)
(* creation, so that what was checked and copied before it still holds.    *)
In(steps) == phase = "swap" /\ step \in steps
Making == {"chmod", "mkswap", "write", "swapon"}
Undoing == {"restore", "unlink"}
Repairs == {"entry", "rewrite", "remkswap", "reswapon"}
IsManaged(d) == d.mode = "managed"

Absent ==
    /\ swapfile.kind = "none" => swapfile = NoSwapFile
    /\ swapfile.size <= machine.disk
    /\ fstab.present \/ fstab = NoFstab
    /\ job.backup.present \/ job.backup = NoFstab
JobKnown ==
    /\ phase = "none" => step = "idle"
    /\ phase # "swap" \/ step \in {"next", "discover"} => job = NoJob
    /\ In({"ask", "apply", "create", "entry", "rewrite"}) => ~job.created
    /\ In({"create"}) => ValidSize(job.size, Free)
    /\ In(Making) => job.created /\ swapfile.ours
    /\ In({"write", "swapon"}) => swapfile.formatted
    /\ In(Undoing) /\ job.created => swapfile.ours \/ swapfile.kind = "none"
DataKnown ==
    /\ phase # "none" => SwapData = saved["swap"].data \/ In({"verify", "skipped"})
    /\ phase # "none" /\ IsManaged(saved["swap"].data) => IsManaged(SwapData)
    /\ In({"ask"}) => ~IsManaged(SwapData)
    /\ In(Repairs) => /\ IsManaged(SwapData) /\ SizeFits(SwapData.size)
                      /\ swapfile.kind # "none"
ManagedIsSwap ==
    ~past.tampered =>
      /\ IsManaged(saved["swap"].data) => swapfile.formatted
      /\ phase # "none" /\ IsManaged(SwapData) => swapfile.formatted
      /\ In(Making \cup Undoing) /\ job.created => ~IsManaged(SwapData)
(* The copy of fstab names the swap of an earlier run or none.             *)
BackupSound ==
    ~past.tampered =>
      /\ In(Making \cup Undoing \cup {"create", "rewrite"})
           /\ CountManaged(job.backup.lines) > 0 => swapfile.formatted /\ ~job.created
      /\ In({"unlink"}) /\ job.created => CountManaged(fstab.lines) = 0
OrphanKnown ==
    swapfile.ours /\ ~IsManaged(saved["swap"].data) /\ ~past.cut =>
      \/ In(Making \cup Undoing) /\ job.created
      \/ In({"verify"}) /\ IsManaged(SwapData)
BaseInv == /\ Absent /\ JobKnown /\ DataKnown /\ ManagedIsSwap /\ BackupSound
           /\ OrphanKnown /\ FstabNamesSwap /\ ReserveKept

(* The block of vps-bootstrap in chrony's file is as it writes it, and its *)
(* own file has no other lines.                                            *)
OneHeader(lines) == Cardinality({i \in DOMAIN lines : lines[i] = "header"}) <= 1
Tidy(ownFile, lines) ==
    /\ OneHeader(lines)
    /\ IF ownFile THEN OtherLines(lines) = <<>>
       ELSE \/ \A i \in DOMAIN lines : lines[i] \notin {"header", "footer"}
            \/ Merged(lines) = lines
TidyHosts == \A h \in Hosts : Tidy(h.net.ownFile, h.conf)
LinesKnown ==
    /\ ~past.torn /\ In(Making \cup Undoing \cup {"create", "rewrite"}) =>
         OtherEntries(job.backup.lines) = past.lines
    /\ Tidy(net.ownFile, conf)

(* "Resume repairs drifted `done` phases": whatever failed, was killed or  *)
(* changed, runs that are started again end with every phase verified or   *)
(* skipped, but for what no run repairs: a disk too full for preflight,    *)
(* be it for the swap that an earlier run made; no time source that        *)
(* answers; a swap recorded as existing that is gone; a repair that is     *)
(* refused; an APT policy of others that wins.                             *)
Ended(p, verified) ==
    saved[p].status = "skipped" \/ (saved[p].status = "done" /\ verified)
NoTimeSource == ~Healthy /\ ~net.providers
ExistingGone == saved["swap"].data.mode = "existing" /\ ~VerifiesSwap(saved["swap"].data)
RepairRefused ==
    /\ saved["swap"].data.mode = "managed"
    /\ \/ Conflicting(fstab.lines)
       \/ swapfile.kind # "none" /\ ~SizeFits(saved["swap"].data.size)
       \/ swapfile.kind # "none" /\ ~swapfile.private /\ CountManaged(fstab.lines) # 1
PolicyRefused == policy.legacy \/ ~policy.origin \/ policy.later # "none"
Converges ==
    <>[](\/ /\ Ended("preflight", Passes) /\ Ended("time_sync", Healthy)
            /\ Ended("swap", VerifiesSwap(saved["swap"].data))
            /\ Ended("security_updates", VerifiesPolicy(saved["security_updates"].data))
         \/ ~Passes \/ NoTimeSource \/ ExistingGone \/ RepairRefused \/ PolicyRefused)
=============================================================================
