----------------------------- MODULE AtomicWriter -----------------------------
(***************************************************************************)
(* AtomicFileWriter: streams are written chunk by chunk to a temporary     *)
(* file in the staging directory, then moved onto their destination, while *)
(* other processes purge temporary files that nobody has touched for an    *)
(* hour.  Where staging and destination are on different file systems the  *)
(* move is a copy.                                                         *)
(***************************************************************************)
EXTENDS Integers, FiniteSets, FileStore

CONSTANTS
    Writers,     \* engine processes with a stream in hand
    Streams, TargetOf, SizeOf, \* what they write, where to, how many bytes
    ChunkSize,
    Ceiling,     \* settings.security.max_attachment_size_bytes
    Remote,      \* destinations on another file system: os.replace fails with EXDEV
    MaxStalls,   \* bound: hours that a live stream hangs in read()
    MaxFaults, MaxCrashes

ASSUME SizesAssumption ==
    /\ Streams # {} /\ SizeOf \in [Streams -> Nat] /\ ChunkSize \in Nat \ {0} /\ Ceiling \in Nat

ASSUME WriterBounds ==
    {MaxStalls, MaxFaults, MaxCrashes} \subseteq Nat

VARIABLES
    disk,     \* destination files
    staging,  \* [temp, data, stale]; stale: st_mtime is over an hour ago
    pc, job,  \* of each writer: the step, the stream
    temp,     \* its temporary name: unique among those that exist
    total,    \* total_bytes, then the bytes of a cross-device copy
    leaks,    \* temporary files left behind, by a crash or a failed unlink
    stalls, faults, crashes

vars == <<disk, staging, pc, job, temp, total, leaks, stalls, faults, crashes>>
bounds == <<leaks, stalls, faults, crashes>>

TempType == Writers \X Nat
DataType == [stream : Streams, bytes : Nat]
StagedType == [temp : TempType, data : DataType, stale : BOOLEAN]

Init ==
    /\ disk = {} /\ staging = {}
    /\ pc = [w \in Writers |-> "idle"]
    /\ job = [w \in Writers |-> CHOOSE s \in Streams : TRUE]
    /\ temp = [w \in Writers |-> <<w, 0>>]
    /\ total = [w \in Writers |-> 0]
    /\ leaks = 0 /\ stalls = 0 /\ faults = 0 /\ crashes = 0

Read(s, n) == [stream |-> s, bytes |-> n]
Staged(t) == {f \in staging : f.temp = t}
Chunk(w) == LET left == SizeOf[job[w]] - total[w]
            IN IF left < ChunkSize THEN left ELSE ChunkSize
Goto(w, l) == pc' = [pc EXCEPT ![w] = l]

-----------------------------------------------------------------------------
(* open(temp_path, "wb") *)
Open(w, s) ==
    /\ pc[w] = "idle"
    /\ job' = [job EXCEPT ![w] = s]
    /\ temp' = [temp EXCEPT ![w] = <<w, leaks>>]
    /\ total' = [total EXCEPT ![w] = 0]
    /\ staging' = staging \cup {[temp |-> <<w, leaks>>, data |-> Read(s, 0), stale |-> FALSE]}
    /\ Goto(w, "write")
    /\ UNCHANGED <<disk, bounds>>

(* Mutant: a stream of exactly the ceiling is refused. *)
OverCeilingInclusive(n) == n >= Ceiling

(* Mutant: the chunk that reaches the ceiling is not counted. *)
OverCeilingLoose(n) == n > Ceiling + ChunkSize

OverCeiling(n) == n > Ceiling

(* A chunk goes to the open file, which the sweeper may have unlinked.     *)
WriteChunk(w) ==
    /\ pc[w] = "write"
    /\ Chunk(w) > 0
    /\ ~OverCeiling(total[w] + Chunk(w))
    /\ total' = [total EXCEPT ![w] = @ + Chunk(w)]
    /\ staging' = {f \in staging : f.temp # temp[w]} \cup
         {[temp |-> temp[w], data |-> Read(job[w], total[w] + Chunk(w)), stale |-> FALSE] :
            f \in Staged(temp[w])}
    /\ UNCHANGED <<disk, pc, job, temp, bounds>>

(* Mutant: the error goes past the handler. *)
RefuseUnhandled(w) ==
    /\ pc[w] = "write"
    /\ Chunk(w) > 0
    /\ OverCeiling(total[w] + Chunk(w))
    /\ Goto(w, "raised")
    /\ UNCHANGED <<disk, staging, job, temp, total, bounds>>

RefuseChunk(w) ==
    /\ pc[w] = "write"
    /\ Chunk(w) > 0
    /\ OverCeiling(total[w] + Chunk(w))
    /\ Goto(w, "fail")
    /\ UNCHANGED <<disk, staging, job, temp, total, bounds>>

EndOfStream(w) ==
    /\ pc[w] = "write"
    /\ Chunk(w) = 0
    /\ Goto(w, "commit")
    /\ UNCHANGED <<disk, staging, job, temp, total, bounds>>

(* os.replace(temp_path, destination_path) *)
Replace(w) ==
    /\ pc[w] = "commit" /\ TargetOf[job[w]] \notin Remote
    /\ \E f \in Staged(temp[w]) :
         /\ disk' = Put(disk, TargetOf[job[w]], f.data)
         /\ staging' = staging \ {f}
    /\ Goto(w, "idle")
    /\ UNCHANGED <<job, temp, total, bounds>>

(* Mutant: a temporary file that is gone counts as an empty attachment.    *)
ReplaceMissingEmpty(w) ==
    /\ pc[w] = "commit"
    /\ Staged(temp[w]) = {}
    /\ disk' = Put(disk, TargetOf[job[w]], Read(job[w], 0))
    /\ Goto(w, "idle")
    /\ UNCHANGED <<staging, job, temp, total, bounds>>

(* The sweeper was faster: FileNotFoundError. *)
ReplaceMissing(w) ==
    /\ pc[w] = "commit"
    /\ Staged(temp[w]) = {}
    /\ Goto(w, "fail")
    /\ UNCHANGED <<disk, staging, job, temp, total, bounds>>

(* EXDEV: shutil.move opens, and so truncates, the destination, ...        *)
OpenCopy(w) ==
    /\ pc[w] = "commit" /\ TargetOf[job[w]] \in Remote
    /\ Staged(temp[w]) # {}
    /\ disk' = Put(disk, TargetOf[job[w]], Read(job[w], 0))
    /\ total' = [total EXCEPT ![w] = 0]
    /\ Goto(w, "copy")
    /\ UNCHANGED <<staging, job, temp, bounds>>

(* ... copies piece by piece, ... *)
CopyChunk(w) ==
    /\ pc[w] = "copy"
    /\ Chunk(w) > 0
    /\ total' = [total EXCEPT ![w] = @ + Chunk(w)]
    /\ disk' = Put(disk, TargetOf[job[w]], Read(job[w], total[w] + Chunk(w)))
    /\ UNCHANGED <<staging, pc, job, temp, bounds>>

(* ... and unlinks the source, which must still be there.                  *)
EndCopy(w) ==
    /\ pc[w] = "copy"
    /\ Chunk(w) = 0
    /\ Goto(w, IF Staged(temp[w]) = {} THEN "fail" ELSE "idle")
    /\ staging' = staging \ Staged(temp[w])
    /\ UNCHANGED <<disk, job, temp, total, bounds>>

(* Mutant: the handler leaves the temporary file to the sweeper. *)
CleanUpForgotten(w) ==
    /\ pc[w] = "fail"
    /\ Goto(w, "idle")
    /\ UNCHANGED <<disk, staging, job, temp, total, bounds>>

(* The handler of Exception unlinks the temporary file and raises again.   *)
CleanUp(w) ==
    /\ pc[w] = "fail"
    /\ staging' = staging \ Staged(temp[w])
    /\ Goto(w, "idle")
    /\ UNCHANGED <<disk, job, temp, total, bounds>>

(* The unlink raises too; nobody hears of it, and the file stays.          *)
UnlinkFails(w) ==
    /\ pc[w] = "fail" /\ Staged(temp[w]) # {}
    /\ faults < MaxFaults
    /\ faults' = faults + 1 /\ leaks' = leaks + 1
    /\ Goto(w, "idle")
    /\ UNCHANGED <<disk, staging, job, temp, total, stalls, crashes>>

Raise(w) ==
    /\ pc[w] \in {"write", "commit", "copy"}
    /\ faults < MaxFaults
    /\ faults' = faults + 1
    /\ Goto(w, "fail")
    /\ UNCHANGED <<disk, staging, job, temp, total, leaks, stalls, crashes>>

Crash(w) ==
    /\ pc[w] # "idle"
    /\ crashes < MaxCrashes
    /\ crashes' = crashes + 1 /\ leaks' = leaks + 1
    /\ Goto(w, "idle")
    /\ UNCHANGED <<disk, staging, job, temp, total, stalls, faults>>

-----------------------------------------------------------------------------
Live(t) == \E w \in Writers : pc[w] # "idle" /\ temp[w] = t

(* An hour passes without a write to the file. *)
Age(f) ==
    /\ f \in staging /\ ~f.stale
    /\ IF Live(f.temp) THEN stalls < MaxStalls /\ stalls' = stalls + 1 ELSE UNCHANGED stalls
    /\ staging' = (staging \ {f}) \cup {[f EXCEPT !.stale = TRUE]}
    /\ UNCHANGED <<disk, pc, job, temp, total, leaks, faults, crashes>>

(* Mutant: the comparison of the ages is the wrong way round. *)
PurgeableYoung(f) == ~f.stale

Purgeable(f) == f.stale

(* cleanup_stale_staging, at the start of anybody's sync. *)
PurgeStaging(f) ==
    /\ f \in staging /\ Purgeable(f)
    /\ staging' = staging \ {f}
    /\ UNCHANGED <<disk, pc, job, temp, total, bounds>>

Step(w) ==
    \/ WriteChunk(w) \/ RefuseChunk(w) \/ EndOfStream(w)
    \/ Replace(w) \/ ReplaceMissing(w)
    \/ OpenCopy(w) \/ CopyChunk(w) \/ EndCopy(w) \/ CleanUp(w)

Next ==
    \/ \E w \in Writers : \/ Step(w) \/ Raise(w) \/ UnlinkFails(w) \/ Crash(w)
                         \/ \E s \in Streams : Open(w, s)
    \/ \E f \in staging : Age(f) \/ PurgeStaging(f)

Spec == Init /\ [][Next]_vars

(* Writers go on, every envelope is retried each cycle, time passes, and   *)
(* every cycle sweeps.                                                     *)
Fairness ==
    /\ \A w \in Writers : WF_vars(Step(w)) /\ \A s \in Streams : SF_vars(Open(w, s))
    /\ WF_vars(\E f \in staging : ~Live(f.temp) /\ Age(f))
    /\ WF_vars(\E f \in staging : PurgeStaging(f))

FairSpec == Spec /\ Fairness

-----------------------------------------------------------------------------
(* Every variable keeps its type.                                         *)
TypeOK ==
    /\ \A f \in disk : DOMAIN f = {"path", "data"} /\ f.data \in DataType
    /\ staging \subseteq StagedType
    /\ pc \in [Writers -> {"idle", "write", "commit", "copy", "fail"}]
    /\ job \in [Writers -> Streams] /\ temp \in [Writers -> TempType]
    /\ total \in [Writers -> Nat]
    /\ leaks \in Nat /\ stalls \in 0..MaxStalls /\ faults \in 0..MaxFaults /\ crashes \in 0..MaxCrashes

(* A destination on the file system of the staging directory holds all the *)
(* bytes of one stream that fits the ceiling, whoever raised, crashed,     *)
(* swept or raced for the path (lines 38-56, 97-141).                      *)
TargetsWhole ==
    \A f \in disk : f.path \notin Remote =>
        /\ f.data.bytes = SizeOf[f.data.stream]
        /\ f.data.bytes <= Ceiling

(* No exception leaks a temporary file: those in staging belong to a       *)
(* writer at work or were left by one crash or failed unlink each (lines   *)
(* 135-141).                                                               *)
TempsReleased ==
    Cardinality({f \in staging : ~Live(f.temp)}) <= leaks

(* What a crash or a failed unlink left in staging is purged in the end    *)
(* (lines 143-157).                                                        *)
OrphansPurged ==
    \A w \in Writers : \A n \in 0..(MaxCrashes + MaxFaults) :
        (Staged(<<w, n>>) # {} /\ ~Live(<<w, n>>)) ~> (Staged(<<w, n>>) = {} \/ Live(<<w, n>>))

(* A stream that fits, up to the last byte of the ceiling, is published    *)
(* at some time with all its bytes, on either file system, in spite of     *)
(* failures, half copies, crashes and sweeps of a stream that hung (lines  *)
(* 115-134).                                                               *)
FittingPublished ==
    \A s \in Streams : SizeOf[s] <= Ceiling =>
        <>Holds(disk, TargetOf[s], Read(s, SizeOf[s]))

(* On one file system the writer is the atomic publication of whole        *)
(* streams.                                                                *)
Publication == INSTANCE AtomicPublish WITH
    published <- {f \in disk : f.path \notin Remote}
ImplementsPublication == Publication!Spec

(* atomic_writer.py 3: "files on disk are never partially written", on     *)
(* whatever file system they are.                                          *)
NeverPartiallyWritten == \A f \in disk : f.data.bytes = SizeOf[f.data.stream]
==============================================================================
