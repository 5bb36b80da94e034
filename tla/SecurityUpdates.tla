--------------------------- MODULE SecurityUpdates ---------------------------
(***************************************************************************)
(* The security_updates phase: app/security_updates.py.  It installs       *)
(* unattended-upgrades, writes one APT configuration file of its own, and  *)
(* accepts only the policy that APT then makes of all files.               *)
(***************************************************************************)
EXTENDS BaseRun

VARIABLE policy  \* the APT configuration

Policy == [written : BOOLEAN,  \* 90-vps-bootstrap-security-updates
           distro : BOOLEAN,   \* 20auto-upgrades turns the upgrades on as well
           legacy : BOOLEAN,   \* 50unattended-upgrades is an old vps-bootstrap's
           origin : BOOLEAN,   \* the security origin is allowed
           later : {"none", "off", "reboot"}]  \* what a later file overrides

(* discover_security_updates, and what is asked of it.                     *)
Effective ==
    (policy.written \/ policy.distro) /\ policy.origin /\ policy.later = "none"
VerifiesPolicy(d) == d.mode = "managed" /\ Effective

PolicyData == data["security_updates"]
ConsiderPolicy ==
    /\ Consider("security_updates", VerifiesPolicy(saved["security_updates"].data), "package")
    /\ UNCHANGED policy

(* A failed or interrupted run may have left the phase in order.  The      *)
(* installation of the package may fail, and a file of an old version      *)
(* is not touched.                                                         *)
InstallPackage ==
    /\ At("security_updates", "package")
    /\ \/ VerifiesPolicy(PolicyData) /\ Goto("verify") /\ UNCHANGED faults
       \/ /\ ~VerifiesPolicy(PolicyData)
          /\ Goto(IF policy.legacy THEN "failed" ELSE "policy") /\ UNCHANGED faults
       \/ ~VerifiesPolicy(PolicyData) /\ Goto("failed") /\ Fault
    /\ UNCHANGED policy

WritePolicy ==
    /\ At("security_updates", "policy")
    /\ \/ policy' = [policy EXCEPT !.written = TRUE] /\ Goto("effective") /\ UNCHANGED faults
       \/ /\ policy' \in {policy, [policy EXCEPT !.written = TRUE]}
          /\ Goto("failed") /\ Fault

(* The policy is left as written when the effective one is refused.        *)
CheckEffective ==
    /\ At("security_updates", "effective")
    /\ \/ /\ Effective /\ step' = "verify"
          /\ data' = [data EXCEPT !["security_updates"].mode = "managed"]
          /\ UNCHANGED <<saved, phase, faults>>
       \/ ~Effective /\ Goto("failed") /\ UNCHANGED faults
       \/ Effective /\ Goto("failed") /\ Fault
    /\ UNCHANGED policy

PolicyProcess ==
    \/ ConsiderPolicy \/ InstallPackage \/ WritePolicy \/ CheckEffective
    \/ Verify("security_updates", VerifiesPolicy(PolicyData)) /\ UNCHANGED policy

(* Packages and administrators change the other files, or remove ours.     *)
EditPolicy ==
    /\ phase = "none" /\ Fault
    /\ policy' \in {[policy EXCEPT !.written = FALSE], [policy EXCEPT !.origin = TRUE]}
                   \cup {[policy EXCEPT !.later = l] : l \in {"none", "off", "reboot"}}
    /\ policy' # policy
    /\ UNCHANGED runVars
=============================================================================
