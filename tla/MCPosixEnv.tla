----------------------------- MODULE MCPosixEnv -----------------------------
(* File locks and background work of one PosixEnv, which share no state: a *)
(* part moves while the other is as at the start.  Two background threads  *)
(* could be started; the code starts one.                                  *)
EXTENDS MCFileLock, BackgroundWork

EnvInit == LockInit /\ Init
EnvNext ==
  \/ Init /\ LockNext /\ UNCHANGED vars
  \/ LockInit /\ Next /\ UNCHANGED lockVars

EnvSpec == EnvInit /\ [][EnvNext]_<<lockVars, vars>> /\ Fairness
=============================================================================
