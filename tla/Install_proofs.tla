---------------------------- MODULE Install_proofs ----------------------------
(***************************************************************************)
(* The safety properties of Install for any number of installers, installs *)
(* and faults: by the inductive invariant InstallInv.                      *)
(***************************************************************************)
EXTENDS Install, TLAPS

(* The releases are numbered by the runs: the bounds are numbers.          *)
LEMMA RunsAreNumbers == MaxRuns \in Nat
BY BoundsAssumption DEF MaxRuns

LEMMA InitHolds == Init => InstallInv
<1> SUFFICES ASSUME Init PROVE InstallInv
  OBVIOUS
<1> USE RunsAreNumbers, BoundsAssumption, NamesAssumption DEF Init
<1>0. 0 \in Release
  BY DEF Release
<1>1. TypeOK
  <2>1. stored \in [Release -> Stored]
    BY DEF Stored
  <2>2. current \in Release \cup {None, Foreign} /\ next \in Release \cup {None, Foreign}
    BY <1>0
  <2>3. pc \in [Installer -> Step] /\ mine \in [Installer -> Release]
    BY <1>0 DEF Step
  <2>4. wrapper \in {"none", "cut", "whole"} /\ executable \in BOOLEAN
    OBVIOUS
  <2>5. alone \in [Installer -> BOOLEAN] /\ runs \in 0..MaxRuns /\ faults \in 0..MaxFaults
    OBVIOUS
  <2>. QED  BY <2>1, <2>2, <2>3, <2>4, <2>5 DEF TypeOK
<1>2. OwnRelease /\ FreshAbsent
  BY DEF OwnRelease, FreshAbsent, Ready, Activated, Working, Release
<1>3. LinksComplete
  BY DEF LinksComplete, CommandFindsRelease, Activated, Working, Release
<1>4. AloneOnly /\ AloneActivatesOwn
  BY DEF AloneOnly, AloneActivatesOwn, Activated, Working
<1>. QED  BY <1>1, <1>2, <1>3, <1>4 DEF InstallInv

(* A run that begins gets a number that no release has, and is alone only  *)
(* when all others are idle.                                               *)
LEMMA BeginKeeps ==
    ASSUME InstallInv, NEW i \in Installer, Begin(i)
    PROVE  InstallInv'
<1>0. TypeOK /\ runs + 1 \in Release /\ runs + 1 \in 1..MaxRuns
  <2>1. TypeOK /\ runs \in 0..MaxRuns
    BY DEF InstallInv, TypeOK
  <2>2. runs < MaxRuns
    BY <2>1, BoundsAssumption DEF Begin, Asked, MaxRuns
  <2>. QED  BY <2>1, <2>2, RunsAreNumbers DEF Release
<1> USE RunsAreNumbers, NamesAssumption DEF Begin, Goto
<1>1. TypeOK'
  BY <1>0 DEF TypeOK, Stored, Step
<1>2. OwnRelease' /\ FreshAbsent'
  BY <1>0 DEF InstallInv, TypeOK, OwnRelease, FreshAbsent, Ready, Activated, Working, Release
<1>3. LinksComplete'
  BY <1>0 DEF InstallInv, TypeOK, LinksComplete, CommandFindsRelease,
              FreshAbsent, Activated, Working, Release
<1>4. AloneOnly' /\ AloneActivatesOwn'
  BY <1>0 DEF InstallInv, TypeOK, AloneOnly, AloneActivatesOwn, Activated, Working
<1>. QED  BY <1>1, <1>2, <1>3, <1>4 DEF InstallInv

(* Copy and Venv work on a release that is not yet complete, thus on none  *)
(* that a link names, nor on that of another installer.                    *)
LEMMA StagingKeeps ==
    ASSUME InstallInv, NEW i \in Installer, Copy(i) \/ Venv(i)
    PROVE  InstallInv'
<1> USE NamesAssumption DEF Copy, Venv, At, Goto
<1>1. TypeOK'
  BY DEF InstallInv, TypeOK, Stored, Step
<1>2. OwnRelease'
  BY DEF InstallInv, TypeOK, OwnRelease, Ready, Activated, Working
<1>3. FreshAbsent'
  BY DEF InstallInv, TypeOK, FreshAbsent, OwnRelease, Release
<1>4. LinksComplete'
  BY DEF InstallInv, TypeOK, LinksComplete, CommandFindsRelease,
         OwnRelease, Activated, Working
<1>5. AloneOnly' /\ AloneActivatesOwn'
  BY DEF InstallInv, TypeOK, AloneOnly, AloneActivatesOwn, Activated, Working
<1>. QED  BY <1>1, <1>2, <1>3, <1>4, <1>5 DEF InstallInv

(* The links: what current.next names is complete before it is made.       *)
LEMMA LinkingKeeps ==
    ASSUME InstallInv, NEW i \in Installer,
           Clear(i) \/ Link(i) \/ Switch(i) \/ SwitchFails(i)
    PROVE  InstallInv'
<1> USE NamesAssumption DEF Clear, Link, Switch, SwitchFails, At, Goto, disk
<1>1. TypeOK'
  BY DEF InstallInv, TypeOK, Step
<1>2. OwnRelease' /\ FreshAbsent'
  BY DEF InstallInv, TypeOK, OwnRelease, FreshAbsent, Ready, Activated, Working
<1>3. LinksComplete'
  BY DEF InstallInv, TypeOK, LinksComplete, CommandFindsRelease,
         OwnRelease, Ready, Activated, Working
<1>4. AloneOnly' /\ AloneActivatesOwn'
  BY DEF InstallInv, TypeOK, AloneOnly, AloneActivatesOwn, Activated, Working
<1>. QED  BY <1>1, <1>2, <1>3, <1>4 DEF InstallInv

LEMMA WrapperKeeps ==
    ASSUME InstallInv, NEW i \in Installer,
           Truncate(i) \/ WriteWrapper(i) \/ Chmod(i) \/ ExecCli(i) \/ Die(i)
    PROVE  InstallInv'
<1> USE NamesAssumption DEF Truncate, WriteWrapper, Chmod, ExecCli, Die, At, Goto, disk
<1>1. TypeOK'
  <2>1. TypeOK
    BY DEF InstallInv
  <2>2. pc' \in [Installer -> Step]
    BY <2>1 DEF TypeOK, Step
  <2>3. faults' \in 0..MaxFaults
    BY <2>1, BoundsAssumption DEF TypeOK
  <2>4. wrapper' \in {"none", "cut", "whole"} /\ executable' \in BOOLEAN
    BY <2>1 DEF TypeOK
  <2>. QED  BY <2>1, <2>2, <2>3, <2>4 DEF TypeOK
<1>2. OwnRelease' /\ FreshAbsent'
  BY DEF InstallInv, TypeOK, OwnRelease, FreshAbsent, Ready, Activated, Working
<1>3. LinksComplete'
  BY DEF InstallInv, TypeOK, LinksComplete, CommandFindsRelease,
         Activated, Working
<1>4. AloneOnly' /\ AloneActivatesOwn'
  BY DEF InstallInv, TypeOK, AloneOnly, AloneActivatesOwn, Activated, Working
<1>. QED  BY <1>1, <1>2, <1>3, <1>4 DEF InstallInv

LEMMA NextHolds == InstallInv /\ [Next]_vars => InstallInv'
<1> SUFFICES ASSUME InstallInv, [Next]_vars PROVE InstallInv'
  OBVIOUS
<1>1. CASE UNCHANGED vars
  BY <1>1 DEF vars, disk, InstallInv, TypeOK, OwnRelease, FreshAbsent, LinksComplete,
              CommandFindsRelease, AloneOnly, AloneActivatesOwn, Ready,
              Activated, Working
<1>2. CASE Next
  <2>1. PICK i \in Installer : Begin(i) \/ Work(i) \/ Die(i)
    BY <1>2 DEF Next
  <2>. QED  BY <2>1, BeginKeeps, StagingKeeps, LinkingKeeps, WrapperKeeps DEF Work
<1>. QED  BY <1>1, <1>2

-----------------------------------------------------------------------------
THEOREM InstallInductive == Spec => []InstallInv
BY InitHolds, NextHolds, PTL DEF Spec

(* "staged release and atomic `current` symlink switch": for any number of *)
(* installers, and wherever each of them dies, the command has its release.*)
THEOREM CommandIsBacked == Spec => []CommandFindsRelease
<1>1. InstallInv => CommandFindsRelease
  BY DEF InstallInv, LinksComplete
<1>. QED  BY InstallInductive, <1>1, PTL

(* A run that is alone ends in its own release, whatever was left before.  *)
THEOREM AloneEndsInOwn == Spec => []AloneActivatesOwn
<1>1. InstallInv => AloneActivatesOwn
  BY DEF InstallInv
<1>. QED  BY InstallInductive, <1>1, PTL
=============================================================================
