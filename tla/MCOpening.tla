------------------------------- MODULE MCOpening -------------------------------
(* Clients that lock a repository (Lock) and clients that create, open and  *)
(* upgrade one (Keys), side by side, for TLC.                                *)
EXTENDS MCLock, Keys

VARIABLE part      \* which of the models takes the steps

mcVars == <<part, vars, keyVars>>

MCInit == part \in {"lock", "keys"} /\ Init /\ KeysInit

MCNext ==
  \/ part = "lock" /\ Next /\ UNCHANGED <<part, keyVars>>
  \/ part = "keys" /\ KeysNext /\ UNCHANGED <<part, vars>>
  \/ part = "keys" /\ overlapped /\ UNCHANGED mcVars

MCSpec == MCInit /\ [][MCNext]_mcVars /\ \A p \in Proc : SF_vars(part = "lock" /\ Step(p))

\* The locks alone; what is checked of them under it is safety.
LockInit == part = "lock" /\ Init /\ KeysInit

LockSpec == LockInit /\ [][MCNext]_mcVars
=============================================================================
