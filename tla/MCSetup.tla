------------------------------ MODULE MCSetup ------------------------------
(* Phases that are treated differently, in their order: a check, the       *)
(* firewall, which may come to refuse for good, the jail and SSH; a base   *)
(* scope with a phase of its own, which takes from the check; and a file   *)
(* of an older version, whose admin_user brings root_hardening in.         *)
EXTENDS Setup
Base == <<"preflight", "swap">>
Default == <<"preflight", "firewall", "fail2ban", "ssh_hardening">>
Legacy == {<<"preflight", "admin_user">>}
Declinable == {"fail2ban", "ssh_hardening"}
Reconfigurable == {"firewall", "ssh_hardening"}
(* swap.py:200 leaves 1 GiB where preflight.py:141 asks for 2; a new       *)
(* administrator is not the one that root_hardening.py:442 expects.        *)
Takes == [p \in Phase |-> CASE p = "swap" -> {"preflight"}
                            [] p = "admin_user" -> {"root_hardening"}
                            [] OTHER -> {}]
Refusers == {"firewall"}
=============================================================================
