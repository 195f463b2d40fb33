------------------------------ MODULE MCLogging ------------------------------
(* Two threads; the global logger and one more, which may have its name.     *)
EXTENDS Logging, TLC

CONSTANTS t1, t2, l1

ThreadSet  == {t1, t2}
LoggerSet  == {"GLOBAL", l1}
NameSet    == {"GLOBAL", "other"}
LevelSet   == {4, 32, 255}
KeySet     == {"session_id", "user"}

Symmetry == Permutations(ThreadSet)
=============================================================================
