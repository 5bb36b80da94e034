-------------------------- MODULE MCOperations --------------------------
EXTENDS Operations

TwoPorts == {22, 2022}

OneHost == [activation : {"service"}, base : {{}}, auth : {"open"},
            provider : {Port}, login : {Auth}]
(* UFW off with no rules or one of the operator's for SSH; on, with any    *)
(* rules.                                                                  *)
SomeFirewall == {u \in Ufw : ~u.active => \A p \in Port : u.rules[p] # "none" => p = 22}
=============================================================================
