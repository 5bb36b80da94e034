-------------------------- MODULE MCSSHMigration --------------------------
EXTENDS SSHMigration

TwoPorts == {22, 2022}
ThreePorts == {22, 2022, 2200}

SomeHosts == [activation : {"service", "socket"}, base : {{}}, auth : {"open"},
              provider : {{22}, Port}, login : {Auth}]
(* UFW with or without rules for SSH and other ports.  2022 and 2200 play  *)
(* the same part: of two such states one is enough.                        *)
Rules(ports, kind, others) ==
    [p \in Port |-> IF p \in ports THEN kind ELSE IF p \in others THEN "unmanaged" ELSE "none"]
SomeFirewalls ==
    {[active |-> FALSE, rules |-> Rules({}, "none", others)] : others \in {{}, Port}} \cup
    {[active |-> TRUE, rules |-> Rules({22}, kind, others)] :
       kind \in {"managed", "unmanaged"}, others \in {{}, {2022}}}

(* Sshd configurations with and without Port lines, also of a port that is *)
(* not the default; both ends of the auth policies; a provider that        *)
(* forwards 22 only; an operator without a key.                            *)
MixedHosts ==
    [activation : {"service", "socket"}, base : {{}, {22}}, auth : {"open", "noroot"},
     provider : {Port}, login : {Auth, {"open"}}]
    \cup [activation : {"service", "socket"}, base : {{2022}}, auth : {"open"},
          provider : {Port}, login : {Auth}]
    \cup [activation : {"service"}, base : {{22}}, auth : {"open"},
          provider : {{22}}, login : {Auth}]
FewFirewalls ==
    {[active |-> FALSE, rules |-> Rules({}, "none", {})],
     [active |-> TRUE, rules |-> Rules({}, "none", Port)]}
    \cup {[active |-> TRUE, rules |-> Rules({p}, kind, {})] :
             p \in Port, kind \in {"managed", "unmanaged"}}
AnyFirewall == Ufw
=============================================================================
