---------------------------- MODULE MCIocpServer ----------------------------
(* Instances of IocpServer for TLC: the clients are interchangeable.       *)
EXTENDS IocpServer, TLC

ClientSymmetry == Permutations(Clients)
=============================================================================
