-------------------------------- MODULE MCLock --------------------------------
(* Instances of Lock for TLC. *)
EXTENDS Lock, TLC

CONSTANTS p1, p2

\* Two processes on one host.
OneHost == [p \in Proc |-> "host"]

\* Two processes on two hosts.
TwoHosts == p1 :> "h1" @@ p2 :> "h2"

\* File names, and the processes of one host, are interchangeable.
Symmetric == Permutations(LockID) \cup Permutations(Proc)
=============================================================================
