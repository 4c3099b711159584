-------------------------- MODULE MCModuleInstall --------------------------
(* ModuleInstall on four modules whose dependencies form a diamond.        *)
EXTENDS ModuleInstall, TLC

CONSTANTS account, vpc, role, ec2

Three == {account, vpc, ec2}
Chain == (account :> {}) @@ (vpc :> {account}) @@ (ec2 :> {vpc})
Four == {account, vpc, role, ec2}
Diamond == (account :> {}) @@ (vpc :> {account}) @@ (role :> {account})
             @@ (ec2 :> {vpc, role})
\* A module may need just the functions of another one.
DiamondKeys == [Diamond EXCEPT ![role] = {}]
=============================================================================
