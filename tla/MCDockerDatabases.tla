------------------------- MODULE MCDockerDatabases -------------------------
(* Small instances of DockerDatabases.                                       *)
EXTENDS DockerDatabases, TLC

DockerSymmetry == Permutations(Caller) \cup Permutations(Container) \cup Permutations(Port)
                  \cup Permutations(Connection)
=============================================================================
