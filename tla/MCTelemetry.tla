---------------------------- MODULE MCTelemetry ----------------------------
(* Small instances of Telemetry: process 10 is monitored, 11 is its child, *)
(* 12 is unrelated and 9 is the sensor itself.                             *)
EXTENDS Telemetry, TLC

Does(kind, tgid, ppid, name) ==
    [kind |-> kind, tgid |-> tgid, pid |-> tgid, ppid |-> ppid, uid |-> 1000,
     name |-> name]

MCActivity == {
    Does("FILE_RENAME", 10, 1, "a"), Does("FILE_RENAME", 10, 1, "b"),
    Does("PROCESS_EXEC", 11, 10, "x"), Does("PROCESS_EXIT", 11, 10, "x"),
    Does("NETWORK_CONNECT", 12, 11, "n"), Does("FILE_WRITE", 9, 11, "f")}

Symmetry == Permutations(Cpus)
=============================================================================
