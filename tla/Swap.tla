-------------------------------- MODULE Swap --------------------------------
(***************************************************************************)
(* The swap phase: app/swap.py.  It leaves an existing swap alone, creates *)
(* /swapfile with its line in /etc/fstab, undoes what it did when a step   *)
(* fails, and repairs the swap it created.                                 *)
(*                                                                         *)
(* /etc/fstab is the sequence of its lines: "comment" and "managed" are    *)
(* the two that render_fstab_with_managed_swap writes, "swapfile" is       *)
(* another swap entry for /swapfile, "swap" one for another device, and    *)
(* "other" any other line.  Blank lines at the end are left out.  Sizes    *)
(* are in MiB; an active area has the size of its file.                    *)
(***************************************************************************)
EXTENDS BaseRun

CONSTANT Sizes  \* the sizes of swap files that people ask for or make
ASSUME SizesAssumption == Sizes \subseteq Nat

VARIABLES
    machine,   \* what no step changes: RAM, disk space, file system
    swapfile,  \* /swapfile
    active,    \* the active swap areas
    fstab,     \* /etc/fstab
    job,       \* what the process knows: what it saw, what it creates
    past       \* history: lines of others, what was cut off or tampered with

swapVars == <<machine, swapfile, active, fstab, job, past>>

GIB == 1024
MinFreeAfterSwap == GIB
MaxManagedSwap == 8 * GIB
SizeTolerance == 64

Machine == [ram : Nat, disk : Nat, supported : BOOLEAN]
SwapFile == [kind : {"none", "file", "other"}, size : Nat, private : BOOLEAN,
             formatted : BOOLEAN, ours : BOOLEAN]
NoSwapFile == [kind |-> "none", size |-> 0, private |-> FALSE,
               formatted |-> FALSE, ours |-> FALSE]
Line == {"comment", "managed", "swapfile", "swap", "other"}
Fstab == [present : BOOLEAN, lines : Seq(Line)]
NoFstab == [present |-> FALSE, lines |-> <<>>]
Job == [file : BOOLEAN, free : Nat,  \* discover_swap, before the questions
        size : Nat, created : BOOLEAN, backup : Fstab]
NoJob == [file |-> FALSE, free |-> 0, size |-> 0, created |-> FALSE, backup |-> NoFstab]
Past == [lines : Seq(Line),   \* fstab's lines as others want them
         conf : Seq({"other"}),  \* the same of chrony's file, see Base
         cut : BOOLEAN,       \* a creation or its rollback was cut off or refused
         torn : BOOLEAN,      \* a copy onto fstab was cut off
         tampered : BOOLEAN]  \* others changed /swapfile

Lines(l) == [present |-> TRUE, lines |-> l]
Free == machine.disk - swapfile.size
Apart(a, b) == IF a > b THEN a - b ELSE b - a
SizeFits(size) == size = 0 \/ Apart(swapfile.size, size) <= SizeTolerance

-----------------------------------------------------------------------------
(* The lines of /etc/fstab.                                                *)
OtherEntries(lines) ==
    Picked(lines, {i \in DOMAIN lines : lines[i] \notin {"comment", "managed"}})

Previous(lines, i) == IF i = 1 THEN "other" ELSE lines[i - 1]
IsOurs(lines, i) ==
    lines[i] = "comment" \/ (lines[i] = "managed" /\ Previous(lines, i) = "comment")
(* What render_fstab_with_managed_swap keeps, in its order.                *)
Unmanaged(lines) == Picked(lines, {i \in DOMAIN lines : ~IsOurs(lines, i)})
WithManagedSwap(lines) == Lines(Unmanaged(lines) \o <<"comment", "managed">>)

CountManaged(lines) ==
    Cardinality({i \in DOMAIN lines : lines[i] = "managed" /\ Previous(lines, i) = "comment"})
CountForPath(lines) == Cardinality({i \in DOMAIN lines : lines[i] \in {"managed", "swapfile"}})
Conflicting(lines) ==
    \E i \in DOMAIN lines : \/ lines[i] = "swapfile"
                            \/ lines[i] = "managed" /\ Previous(lines, i) # "comment"

-----------------------------------------------------------------------------
(* Sizes and verification.                                                 *)
Recommended == IF machine.ram <= 2 * GIB THEN 2 * GIB
               ELSE IF machine.ram <= 8 * GIB THEN GIB ELSE 2 * GIB
ValidSizeMutant(size, free) == size > 0 /\ size <= MaxManagedSwap /\ size < free
ValidSize(size, free) ==
    size > 0 /\ size <= MaxManagedSwap /\ size + MinFreeAfterSwap <= free

SwapData == data["swap"]
VerifiesSwap(d) ==
    CASE d.mode = "existing" -> d.areas # {} /\ d.areas \subseteq active
      [] d.mode = "managed" ->
           /\ "swapfile" \in active /\ SizeFits(d.size) /\ swapfile.private
           /\ CountManaged(fstab.lines) = 1 /\ CountForPath(fstab.lines) = 1
           /\ ~Conflicting(fstab.lines)
      [] d.mode = "skipped" -> TRUE
      [] OTHER -> FALSE

SetSwapData(d) == data' = [data EXCEPT !["swap"] = d]
Set(s, d) == step' = s /\ SetSwapData(d) /\ UNCHANGED <<saved, phase>>
ManagedDataMutant(size) == [mode |-> "create", areas |-> {"swapfile"}, size |-> size]
ManagedData(size) == [mode |-> "managed", areas |-> {}, size |-> size]

-----------------------------------------------------------------------------
(* ensure_swap_from_state                                                  *)
ConsiderSwap ==
    /\ Consider("swap", VerifiesSwap(saved["swap"].data), "discover")
    /\ UNCHANGED swapVars

(* An area recorded as existing is verified, never repaired.               *)
KeepExisting ==
    /\ At("swap", "discover")
    /\ \/ SwapData.mode = "existing" /\ Goto("verify")
       \/ /\ SwapData.mode \notin {"existing", "managed"} /\ active # {}
          /\ Set("verify", [mode |-> "existing", areas |-> active, size |-> 0])
    /\ UNCHANGED <<swapVars, faults>>

(* What is discovered here is what the plan is checked against, after the  *)
(* questions.                                                              *)
Discover ==
    /\ At("swap", "discover")
    /\ SwapData.mode \notin {"existing", "managed"} /\ active = {}
    /\ Goto("ask")
    /\ job' = [job EXCEPT !.file = swapfile.kind # "none", !.free = Free]
    /\ UNCHANGED <<machine, swapfile, active, fstab, past, faults>>

Decline ==
    /\ At("swap", "ask")
    /\ Set("skipped", [NoData EXCEPT !.mode = "skipped"])
    /\ UNCHANGED <<swapVars, faults>>

(* plan_swap_creation: a size of 0 stands for the recommended one.         *)
Ask ==
    /\ At("swap", "ask")
    /\ \E requested \in Sizes \cup {Recommended} :
         LET size == IF requested = 0 THEN Recommended ELSE requested
         IN  IF machine.supported /\ ValidSize(size, job.free) /\ ~job.file
             THEN Goto("apply") /\ job' = [job EXCEPT !.size = size]
             ELSE Goto("failed") /\ UNCHANGED job
    /\ UNCHANGED <<machine, swapfile, active, fstab, past, faults>>

-----------------------------------------------------------------------------
(* apply_managed_swap                                                      *)
Apply ==
    /\ At("swap", "apply")
    /\ \/ /\ ValidSize(job.size, Free) /\ Goto("create") /\ UNCHANGED faults
          /\ job' = [job EXCEPT !.backup = fstab]
       \/ /\ Goto("failed") /\ UNCHANGED job
          /\ IF ValidSize(job.size, Free) THEN Fault ELSE UNCHANGED faults
    /\ UNCHANGED <<machine, swapfile, active, fstab, past>>

NewFile(size) == [kind |-> "file", size |-> size, private |-> FALSE,
                  formatted |-> FALSE, ours |-> TRUE]
(* dd failed, timed out or was killed.                                     *)
Partial == {swapfile} \cup {NewFile(size) : size \in {0, job.size}}
CreateUncheckedMutant ==
    /\ At("swap", "create")
    /\ job' = [job EXCEPT !.created = TRUE]
    /\ \/ swapfile' = NewFile(job.size) /\ Goto("chmod") /\ UNCHANGED faults
       \/ swapfile' \in Partial /\ Goto("restore") /\ Fault
    /\ UNCHANGED <<machine, active, fstab, past>>
CreateLateMutant ==
    /\ At("swap", "create")
    /\ \/ /\ swapfile.kind # "none" /\ Goto("restore")
          /\ UNCHANGED <<swapfile, job, faults>>
       \/ /\ swapfile.kind = "none" /\ Goto("chmod")
          /\ job' = [job EXCEPT !.created = TRUE]
          /\ swapfile' = NewFile(job.size) /\ UNCHANGED faults
       \/ swapfile.kind = "none" /\ swapfile' \in Partial /\ Goto("restore") /\ Fault /\ UNCHANGED job
    /\ UNCHANGED <<machine, active, fstab, past>>
Create ==
    /\ At("swap", "create")
    /\ \/ /\ swapfile.kind # "none" /\ Goto("restore")
          /\ UNCHANGED <<swapfile, job, faults>>
       \/ /\ swapfile.kind = "none"
          /\ job' = [job EXCEPT !.created = TRUE]
          /\ \/ swapfile' = NewFile(job.size) /\ Goto("chmod") /\ UNCHANGED faults
             \/ swapfile' \in Partial /\ Goto("restore") /\ Fault
    /\ UNCHANGED <<machine, active, fstab, past>>

Chmod ==
    /\ At("swap", "chmod")
    /\ \/ /\ swapfile' = [swapfile EXCEPT !.private = TRUE]
          /\ Goto("mkswap") /\ UNCHANGED faults
       \/ Goto("restore") /\ Fault /\ UNCHANGED swapfile
    /\ UNCHANGED <<machine, active, fstab, job, past>>

MkSwap(from, to, onFailure) ==
    /\ At("swap", from)
    /\ \/ swapfile' = [swapfile EXCEPT !.formatted = TRUE] /\ Goto(to) /\ UNCHANGED faults
       \/ /\ swapfile' \in {swapfile, [swapfile EXCEPT !.formatted = TRUE]}
          /\ Goto(onFailure) /\ Fault
    /\ UNCHANGED <<machine, active, fstab, job, past>>

WriteFstab(from, to) ==
    /\ At("swap", from)
    /\ \/ fstab' = WithManagedSwap(fstab.lines) /\ Goto(to) /\ UNCHANGED faults
       \/ /\ fstab' \in {fstab, WithManagedSwap(fstab.lines)}
          /\ Goto("restore") /\ Fault
    /\ UNCHANGED <<machine, swapfile, active, job, past>>

(* swapon: one that times out may have had its effect.                     *)
SwapOn(from, newData, onFailure) ==
    /\ At("swap", from)
    /\ \/ /\ active' = active \cup {"swapfile"}
          /\ Set("verify", newData) /\ UNCHANGED faults
       \/ /\ active' \in {active, active \cup {"swapfile"}}
          /\ Goto(onFailure) /\ Fault
    /\ UNCHANGED <<machine, swapfile, fstab, job, past>>

(* rollback_swap: `activated` is only set by the last statement of the try *)
(* block, so that no failure finds it set and swapoff is never run.  The   *)
(* backup is copied onto fstab, which is not atomic.                       *)
Copied == IF job.backup.present THEN job.backup
          ELSE IF \E i \in DOMAIN fstab.lines : fstab.lines[i] = "comment" THEN NoFstab
          ELSE fstab
Halfway == IF job.backup.present THEN {Lines(<<>>)} ELSE {}
UnlinkFirstMutant ==
    /\ At("swap", "restore")
    /\ swapfile' = IF job.created THEN NoSwapFile ELSE swapfile
    /\ Goto("unlink") /\ UNCHANGED faults
    /\ UNCHANGED <<machine, active, job, fstab, past>>
RestoreFstab ==
    /\ At("swap", "restore")
    /\ \/ fstab' = Copied /\ Goto("unlink") /\ UNCHANGED <<past, faults>>
       \/ /\ fstab' \in {fstab, Copied} \cup Halfway
          /\ past' = [past EXCEPT !.cut = TRUE, !.torn = @ \/ fstab' \in Halfway]
          /\ Goto("failed") /\ Fault
    /\ UNCHANGED <<machine, swapfile, active, job>>

(* The kernel refuses to unlink an active swap file: one that swapon made  *)
(* active before it timed out stays, and active, without a line in fstab.  *)
UnlinkSwapFile ==
    /\ At("swap", "unlink") /\ Goto("failed")
    /\ \/ ~job.created /\ UNCHANGED <<swapfile, past, faults>>
       \/ /\ job.created /\ "swapfile" \notin active
          /\ swapfile' = NoSwapFile /\ UNCHANGED <<past, faults>>
       \/ /\ job.created /\ UNCHANGED swapfile
          /\ past' = [past EXCEPT !.cut = TRUE]
          /\ IF "swapfile" \in active THEN UNCHANGED faults ELSE Fault
    /\ UNCHANGED <<machine, active, fstab, job>>

-----------------------------------------------------------------------------
(* repair_managed_swap                                                     *)
OwnershipConfirmedMutant ==
    CountManaged(fstab.lines) = 1 /\ SizeFits(SwapData.size) /\ swapfile.private
OwnershipConfirmed ==
    CountManaged(fstab.lines) = 1 \/ (SizeFits(SwapData.size) /\ swapfile.private)

Repairing == At("swap", "discover") /\ SwapData.mode = "managed"
RepairBlocked ==
    \/ Conflicting(fstab.lines)
    \/ "swapfile" \in active /\ ~SizeFits(SwapData.size)
    \/ /\ "swapfile" \notin active /\ swapfile.kind # "none"
       /\ swapfile.kind = "other" \/ ~SizeFits(SwapData.size) \/ ~OwnershipConfirmed

RefuseRepair ==
    /\ Repairing /\ RepairBlocked /\ Goto("failed")
    /\ UNCHANGED <<swapVars, faults>>

(* The file is there, active or not: first its mode.                       *)
RepairMode ==
    /\ Repairing /\ ~RepairBlocked /\ swapfile.kind # "none"
    /\ \/ /\ swapfile' = [swapfile EXCEPT !.private = TRUE]
          /\ Goto("entry") /\ UNCHANGED faults
       \/ /\ "swapfile" \notin active \/ ~swapfile.private
          /\ Goto("failed") /\ Fault /\ UNCHANGED swapfile
    /\ UNCHANGED <<machine, active, fstab, job, past>>

Recreate ==
    /\ Repairing /\ ~RepairBlocked /\ swapfile.kind = "none"
    /\ Goto("apply") /\ job' = [job EXCEPT !.size = SwapData.size]
    /\ UNCHANGED <<machine, swapfile, active, fstab, past, faults>>

AfterEntry == IF "swapfile" \in active THEN "verify" ELSE "remkswap"
EnsureEntry ==
    /\ At("swap", "entry")
    /\ IF CountManaged(fstab.lines) = 1 /\ CountForPath(fstab.lines) = 1
       THEN Goto(AfterEntry) /\ UNCHANGED <<job, faults>>
       ELSE \/ Goto("rewrite") /\ job' = [job EXCEPT !.backup = fstab] /\ UNCHANGED faults
            \/ Goto("failed") /\ Fault /\ UNCHANGED job
    /\ UNCHANGED <<machine, swapfile, active, fstab, past>>

Repair ==
    \/ RefuseRepair \/ RepairMode \/ Recreate \/ EnsureEntry
    \/ WriteFstab("rewrite", AfterEntry)
    \/ MkSwap("remkswap", "reswapon", "failed") \/ SwapOn("reswapon", SwapData, "failed")

(* The verifier, and the save that makes a new swap known.                 *)
VerifySwap ==
    /\ Verify("swap", VerifiesSwap(SwapData))
    /\ job' = NoJob
    /\ past' = [past EXCEPT !.cut =
                  @ \/ (SwapData.mode = "managed" /\ saved'["swap"].data # SwapData)]
    /\ UNCHANGED <<machine, swapfile, active, fstab>>

Creation ==
    \/ Apply \/ Create \/ Chmod \/ MkSwap("mkswap", "write", "restore")
    \/ WriteFstab("write", "swapon") \/ SwapOn("swapon", ManagedData(job.size), "restore")
    \/ RestoreFstab \/ UnlinkSwapFile
SwapProcess ==
    \/ ConsiderSwap \/ KeepExisting \/ Discover \/ Decline \/ Ask
    \/ Creation \/ Repair \/ VerifySwap
=============================================================================
