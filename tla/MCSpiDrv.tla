------------------------------ MODULE MCSpiDrv ------------------------------
(***************************************************************************)
(* Small instances of SpiDrv for TLC.                                      *)
(***************************************************************************)
EXTENDS SpiDrv, TLC

CONSTANTS t1, t2, c1, c2

OneTask   == {t1}
TwoTasks  == {t1, t2}
OneCmd    == {c1}
TwoCmds   == {c1, c2}

\* The coprocessor boots for longer than the delays of SpiDrv_begin, until a task
\* blocks on its line: the edge that ends the booting is awaited, never polled,
\* and a token that is left over is from an exchange.
BootsSlowly == espPhase = "boot" /\ espPhase' = "cmd" => \E t \in Tasks : At(t, "takeReady")

Symmetry  == Permutations(TwoTasks)
=============================================================================
