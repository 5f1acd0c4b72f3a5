----------------------- MODULE MCConnectionLifecycle -----------------------
EXTENDS ConnectionLifecycle

CONSTANTS u1, u2

(* Every way of owning the upgrades, up to the names of the users.         *)
OwnersByName == {owner \in [Sockets -> Users] : owner[1] = u1}
=============================================================================
