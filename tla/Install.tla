------------------------------- MODULE Install -------------------------------
(***************************************************************************)
(* The install layout of bootstrap.sh: /opt/vps-bootstrap/releases, the    *)
(* symlink `current` that names the release in use, the symlink            *)
(* `current.next` that mv puts in its place, and the command wrapper.      *)
(* Nothing keeps two installers from running at the same time once apt is  *)
(* done, and each may fail or be killed at any step.                       *)
(*                                                                         *)
(* Every run stages a release of its own (version, time and pid name it):  *)
(* the runs are numbered, and release 0 is that of an earlier install.     *)
(***************************************************************************)
EXTENDS Naturals

CONSTANTS
    Installer,
    None, Foreign,  \* no file; a file or directory that is no symlink
    MaxUpdates,     \* bound: installs at any time
    MaxFaults       \* bound: failures and kills

(* Bound: when the command does not work and no installer is at work, the  *)
(* installer is run again, which each fault and the last updates may ask   *)
(* for.                                                                    *)
MaxRuns == MaxUpdates + MaxFaults + 1
Release == 0..MaxRuns

ASSUME BoundsAssumption == MaxUpdates \in Nat /\ MaxFaults \in Nat
ASSUME NamesAssumption == None \notin Release /\ Foreign \notin Release /\ None # Foreign

VARIABLES
    stored,      \* the directory of each release
    current,     \* $INSTALL_DIR/current
    next,        \* $INSTALL_DIR/current.next
    wrapper,     \* $BIN_PATH: its content
    executable,  \* its mode
    pc,          \* where each installer is
    mine,        \* its RELEASE_DIR
    alone,       \* history: no other installer has run since it began
    runs, faults

disk == <<stored, current, next, wrapper, executable>>
vars == <<disk, pc, mine, alone, runs, faults>>

Stored == {"absent", "partial", "staged", "complete"}
Step == {"idle", "copy", "venv", "clear", "link", "switch", "truncate", "write",
         "chmod", "cli"}

TypeOK ==
    /\ stored \in [Release -> Stored]
    /\ current \in Release \cup {None, Foreign} /\ next \in Release \cup {None, Foreign}
    /\ wrapper \in {"none", "cut", "whole"} /\ executable \in BOOLEAN
    /\ pc \in [Installer -> Step] /\ mine \in [Installer -> Release]
    /\ alone \in [Installer -> BOOLEAN]
    /\ runs \in 0..MaxRuns /\ faults \in 0..MaxFaults

(* A fresh host, one with an earlier release, one with a layout that is    *)
(* not ours.                                                               *)
Init ==
    /\ \/ /\ current \in {None, Foreign} /\ wrapper = "none" /\ executable = FALSE
          /\ stored = [r \in Release |-> "absent"]
       \/ /\ current = 0 /\ wrapper = "whole" /\ executable = TRUE
          /\ stored = [r \in Release |-> IF r = 0 THEN "complete" ELSE "absent"]
    /\ next \in {None, Foreign}
    /\ pc = [i \in Installer |-> "idle"] /\ mine = [i \in Installer |-> 0]
    /\ alone = [i \in Installer |-> FALSE]
    /\ runs = 0 /\ faults = 0

-----------------------------------------------------------------------------
Goto(i, s) == pc' = [pc EXCEPT ![i] = s]
At(i, s, onward) == pc[i] = s /\ Goto(i, onward) /\ UNCHANGED <<mine, alone, runs, faults>>

Runnable == current \in Release /\ wrapper = "whole" /\ executable
Asked == \/ runs < MaxUpdates
         \/ runs < MaxRuns /\ ~Runnable /\ \A i \in Installer : pc[i] = "idle"

(* The checks of install-layout, and the directory of the new release.     *)
Begin(i) ==
    /\ pc[i] = "idle" /\ Asked
    /\ current # Foreign /\ next # Foreign
    /\ Goto(i, "copy")
    /\ runs' = runs + 1 /\ mine' = [mine EXCEPT ![i] = runs']
    /\ stored' = [stored EXCEPT ![runs'] = "partial"]
    /\ alone' = [j \in Installer |-> j = i /\ \A k \in Installer : pc[k] = "idle"]
    /\ UNCHANGED <<current, next, wrapper, executable, faults>>

Copy(i) ==
    /\ At(i, "copy", "venv")
    /\ stored' = [stored EXCEPT ![mine[i]] = "staged"]
    /\ UNCHANGED <<current, next, wrapper, executable>>
Venv(i) ==
    /\ At(i, "venv", "clear")
    /\ stored' = [stored EXCEPT ![mine[i]] = "complete"]
    /\ UNCHANGED <<current, next, wrapper, executable>>

(* rm -f: what an earlier run left, or what another is about to switch to. *)
ClearMutant(i) == At(i, "clear", "link") /\ UNCHANGED disk
Clear(i) ==
    /\ At(i, "clear", "link")
    /\ next' = None
    /\ UNCHANGED <<stored, current, wrapper, executable>>

(* ln -s: when current.next is a symlink to a directory again, the new     *)
(* link is made in that directory, and ln succeeds.                        *)
Link(i) ==
    /\ At(i, "link", "switch")
    /\ next' = IF next = None THEN mine[i] ELSE next
    /\ UNCHANGED <<stored, current, wrapper, executable>>

(* mv -Tf: atomic, but whatever current.next names by then; it fails when  *)
(* another installer has taken the link away.                              *)
Switch(i) ==
    /\ At(i, "switch", "truncate") /\ next # None
    /\ current' = next /\ next' = None
    /\ UNCHANGED <<stored, wrapper, executable>>
SwitchGoesOnMutant(i) == At(i, "switch", "truncate") /\ next = None /\ UNCHANGED disk
SwitchFails(i) == At(i, "switch", "idle") /\ next = None /\ UNCHANGED disk

(* cat > wrapper: the shell empties the file before cat fills it.  A new   *)
(* file is not executable before chmod.                                    *)
Truncate(i) ==
    /\ At(i, "truncate", "write")
    /\ wrapper' = "cut"
    /\ UNCHANGED <<stored, current, next, executable>>
WriteWrapper(i) ==
    /\ At(i, "write", "chmod")
    /\ wrapper' = "whole"
    /\ UNCHANGED <<stored, current, next, executable>>
ChmodMutant(i) == At(i, "chmod", "cli") /\ UNCHANGED disk
Chmod(i) ==
    /\ At(i, "chmod", "cli")
    /\ executable' = TRUE
    /\ UNCHANGED <<stored, current, next, wrapper>>

(* exec "$CURRENT_LINK/venv/bin/python": the command line takes over.      *)
ExecCli(i) == At(i, "cli", "idle") /\ UNCHANGED disk

Work(i) ==
    \/ Copy(i) \/ Venv(i) \/ Clear(i) \/ Link(i) \/ Switch(i) \/ SwitchFails(i)
    \/ Truncate(i) \/ WriteWrapper(i) \/ Chmod(i) \/ ExecCli(i)

(* A command fails (set -e ends the script), or the installer is killed.   *)
Die(i) ==
    /\ pc[i] # "idle" /\ faults < MaxFaults
    /\ faults' = faults + 1 /\ Goto(i, "idle")
    /\ UNCHANGED <<disk, mine, alone, runs>>

Next == \E i \in Installer : Begin(i) \/ Work(i) \/ Die(i)
Spec == Init /\ [][Next]_vars

(* A script goes on, and who installs runs it again.                       *)
FairSpec == Spec /\ \A i \in Installer : WF_vars(Work(i)) /\ WF_vars(Begin(i))

-----------------------------------------------------------------------------
Working(i) == pc[i] # "idle"
Activated(i) == pc[i] \in {"truncate", "write", "chmod", "cli"}

(* "staged release and atomic `current` symlink switch": at no moment does *)
(* current name a release without its files or its virtual environment,    *)
(* nor is the command there before a release that it can run, whoever dies *)
(* when and however two installers cross.                                  *)
CommandFindsRelease ==
    /\ current \in Release => stored[current] = "complete"
    /\ wrapper # "none" => current \in Release

(* An installer that runs alone, after whatever others left, switches to   *)
(* its own release.                                                        *)
AloneActivatesOwn ==
    \A i \in Installer :
      Activated(i) /\ alone[i] => current = mine[i]

(* Why these hold: their inductive invariant.                              *)
Ready(i) == pc[i] \in {"clear", "link", "switch"} \/ Activated(i)
OwnRelease ==
    \A i \in Installer :
      /\ mine[i] <= runs
      /\ pc[i] = "copy" => stored[mine[i]] = "partial"
      /\ pc[i] = "venv" => stored[mine[i]] = "staged"
      /\ Ready(i) => stored[mine[i]] = "complete"
      /\ \A j \in Installer : i # j /\ Working(i) /\ Working(j) => mine[i] # mine[j]
FreshAbsent == \A r \in Release : r > runs => stored[r] = "absent"
LinksComplete ==
    /\ CommandFindsRelease
    /\ next \in Release => stored[next] = "complete"
    /\ \A i \in Installer : Activated(i) => current \in Release
    /\ \A i \in Installer : Working(i) => current # Foreign /\ next # Foreign
AloneOnly ==
    \A i \in Installer : Working(i) /\ alone[i] =>
      /\ \A j \in Installer : Working(j) => j = i
      /\ pc[i] = "link" => next = None
      /\ pc[i] = "switch" => next = mine[i]
InstallInv ==
    /\ TypeOK /\ OwnRelease /\ FreshAbsent /\ LinksComplete
    /\ AloneOnly /\ AloneActivatesOwn

(* "After fixing the problem, run: sudo bash bootstrap.sh": whatever died  *)
(* half-way, or took the link of another away, the command works in the    *)
(* end and stays so.                                                       *)
InstallConverges == <>[](Runnable \/ current = Foreign \/ next = Foreign)
=============================================================================
