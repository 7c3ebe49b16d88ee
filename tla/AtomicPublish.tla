---------------------------- MODULE AtomicPublish ----------------------------
(***************************************************************************)
(* What AtomicFileWriter promises: a destination path goes, in one step,   *)
(* from whatever it held to a whole stream that fits the ceiling.          *)
(***************************************************************************)
EXTENDS Integers, FileStore

CONSTANTS Streams, TargetOf, SizeOf, Ceiling

VARIABLE published

Whole(s) == [stream |-> s, bytes |-> SizeOf[s]]

Init == published = {}

Publish(s) ==
    /\ SizeOf[s] <= Ceiling
    /\ published' = Put(published, TargetOf[s], Whole(s))

Next == \E s \in Streams : Publish(s)

Spec == Init /\ [][Next]_published
==============================================================================
