-------------------------- MODULE MCConnectionPool --------------------------
(* Small instances of ConnectionPool: one configuration whose engine         *)
(* replays failed reads and one whose does not.                              *)
EXTENDS ConnectionPool, TLC
=============================================================================
