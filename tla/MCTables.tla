------------------------------- MODULE MCTables -------------------------------
(* Tables for TLC: the five processors on which the library works, a machine  *)
(* of the wrong byte order and one that fails the self-test.                  *)
EXTENDS Tables

Machine(cpu, endian, sound) == [cpu |-> cpu, endian |-> endian, sound |-> sound]

MCPlatforms == {Machine(cpu, TRUE, TRUE) : cpu \in Variants}
               \cup {Machine("plain", FALSE, TRUE), Machine("NEON", TRUE, FALSE)}

Of(kind, sizes) == {[kind |-> kind, size |-> n] : n \in sizes}

(* 260 bytes pass through every loop of every kernel twice; 640 hundreds are   *)
(* all the block counts the codec accepts.                                      *)
MCRequests ==
  Of("kernel", 0..260) \cup Of("field", Byte) \cup Of("counts", 0..640)
  \cup Of("row", 2..24) \cup Of("deck", (1..40) \cup (254..260)) \cup Of("memory", 64..95)
=============================================================================
