------------------------------- MODULE MCWriter -------------------------------
(***************************************************************************)
(* An instance of AtomicWriter.  Sizes are around those of a chunk and the *)
(* ceiling: a is as large as the ceiling, c one byte too large, z is       *)
(* empty, and r goes to another file system.                               *)
(***************************************************************************)
EXTENDS AtomicWriter

MCSizes == [a |-> 4, c |-> 5, z |-> 0, r |-> 3]
MCSizeOf == [s \in Streams |-> MCSizes[s]]
MCTargetOf == [s \in Streams |-> s]
==============================================================================
