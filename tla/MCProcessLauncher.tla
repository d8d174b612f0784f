-------------------------- MODULE MCProcessLauncher --------------------------
(* ProcessLauncher with every configurator nscon's Create can run.         *)
EXTENDS ProcessLauncher, FiniteSets

Configurators == {"filesystem", "ipc", "uts", "pid", "mnt", "net", "user", "machine"}
AllOutside    == Cardinality(Configurators)
=============================================================================
