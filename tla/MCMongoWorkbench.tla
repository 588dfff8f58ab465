-------------------------- MODULE MCMongoWorkbench --------------------------
(* Small instances of MongoWorkbench: one or two collections and a system     *)
(* one, to which the user can turn as to any other but not write.             *)
EXTENDS MongoWorkbench, TLC

CONSTANTS users, orders, system

MCOne == {users, system}
MCTwo == {users, orders, system}
MCSystem == {system}
MCSymmetry == Permutations({users, orders})
=============================================================================
