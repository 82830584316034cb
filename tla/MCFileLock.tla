----------------------------- MODULE MCFileLock -----------------------------
(* FileLock on a few processes with a few threads each.                    *)
EXTENDS FileLock, TLC

CONSTANTS p1, p2, p3, t1, t2, t3

Decreasing == p1 :> {t1, t2, t3} @@ p2 :> {t1, t2} @@ p3 :> {t1}
Pairs == p1 :> {t1, t2} @@ p2 :> {t1, t2}
=============================================================================
