------------------------- MODULE AtomicWriterProofs -------------------------
(***************************************************************************)
(* Theorems about AtomicWriter, for any number of writers, any streams,    *)
(* sizes, destinations, exceptions, crashes and stalls.                    *)
(***************************************************************************)
EXTENDS AtomicWriter, FiniteSetTheorems, TLAPS

(* Names of temporary files: a writer's name is its own, no two files have *)
(* one name, and what a writer's earlier lives left is older than its      *)
(* present one, so that a new name is free.                                *)
NamesOwned ==
    \A w \in Writers : pc[w] # "idle" => temp[w][1] = w /\ temp[w][2] <= leaks
NamesUnique == \A f, g \in staging : f.temp = g.temp => f = g
NamesOld ==
    \A f \in staging :
        LET w == f.temp[1]
        IN  IF pc[w] = "idle" THEN f.temp[2] < leaks
            ELSE f.temp = temp[w] \/ f.temp[2] < temp[w][2]

(* The temporary file, if it is still there, has what was read so far.     *)
SoFar(w) ==
    pc[w] \in {"write", "commit"} =>
        /\ \A f \in Staged(temp[w]) : f.data = Read(job[w], total[w])
        /\ total[w] <= SizeOf[job[w]] /\ total[w] <= Ceiling
        /\ pc[w] = "commit" => total[w] = SizeOf[job[w]]
StagedSoFar == \A w \in Writers : SoFar(w)

(* What is copied goes to another file system. *)
CopiesRemote == \A w \in Writers : pc[w] = "copy" => TargetOf[job[w]] \in Remote

(* No more files without a writer at work than were left behind. *)
Dead == {f \in staging : ~Live(f.temp)}
Counted == IsFiniteSet(Dead) /\ TempsReleased

Named == NamesOwned /\ NamesUnique /\ NamesOld
WholeInv == TypeOK /\ Named /\ StagedSoFar /\ CopiesRemote /\ TargetsWhole

(* The next chunk: never beyond the end, empty only at the end.            *)
LEMMA ChunkBounds ==
    ASSUME TypeOK, NEW w \in Writers, total[w] <= SizeOf[job[w]]
    PROVE  /\ Chunk(w) \in Nat
           /\ total[w] + Chunk(w) <= SizeOf[job[w]]
           /\ Chunk(w) = 0 => total[w] = SizeOf[job[w]]
<1>1. SizeOf[job[w]] \in Nat /\ total[w] \in Nat /\ ChunkSize \in Nat \ {0}
  BY SizesAssumption DEF TypeOK
<1>2. QED
  BY <1>1 DEF Chunk

(* A chunk is an integer, whatever has been read. *)
LEMMA ChunkInt ==
    ASSUME TypeOK, NEW w \in Writers
    PROVE  Chunk(w) \in Int
<1>1. SizeOf[job[w]] \in Nat /\ total[w] \in Nat /\ ChunkSize \in Nat
  BY SizesAssumption DEF TypeOK
<1>2. QED
  BY <1>1 DEF Chunk

(* A file that is put on the disk is a file. *)
LEMMA DiskTyped ==
    ASSUME NEW p, NEW d \in DataType,
           \A f \in disk : DOMAIN f = {"path", "data"} /\ f.data \in DataType
    PROVE  \A f \in Put(disk, p, d) : DOMAIN f = {"path", "data"} /\ f.data \in DataType
BY DEF Put

(* Temporary files, new, grown or aged, are typed. *)
LEMMA StagedTyped ==
    /\ \A t \in TempType, d \in DataType :
         [temp |-> t, data |-> d, stale |-> FALSE] \in StagedType
    /\ \A f \in StagedType :
         /\ f.temp \in TempType /\ f.data \in DataType
         /\ [f EXCEPT !.stale = TRUE] \in StagedType
         /\ [f EXCEPT !.stale = TRUE].temp = f.temp
         /\ [f EXCEPT !.stale = TRUE].data = f.data
BY DEF StagedType

LEMMA InitTyped == Init => TypeOK
<1> SUFFICES ASSUME Init PROVE TypeOK
  OBVIOUS
<1>1. (CHOOSE s \in Streams : TRUE) \in Streams
  BY SizesAssumption
<1>2. job \in [Writers -> Streams] /\ temp \in [Writers -> TempType]
      /\ total \in [Writers -> Nat]
  BY <1>1 DEF Init, TempType
<1>3. QED
  BY <1>2, WriterBounds DEF Init, TypeOK

(* Each action keeps the types.                                            *)
LEMMA NextTyped == TypeOK /\ [Next]_vars => TypeOK'
<1> SUFFICES ASSUME TypeOK, [Next]_vars PROVE TypeOK'
  OBVIOUS
<1> USE DEF bounds, Goto
<1>1. ASSUME NEW w \in Writers, NEW s \in Streams, Open(w, s) PROVE TypeOK'
  <2>1. <<w, leaks>> \in TempType /\ Read(s, 0) \in DataType
    BY DEF TypeOK, TempType, DataType, Read
  <2>2. staging' \subseteq StagedType
    BY <1>1, <2>1, StagedTyped DEF Open, TypeOK
  <2>3. QED
    BY <1>1, <2>1, <2>2 DEF Open, TypeOK
<1>2. ASSUME NEW w \in Writers, WriteChunk(w) PROVE TypeOK'
  <2>1. total[w] + Chunk(w) \in Nat
    BY <1>2, ChunkInt DEF WriteChunk, TypeOK
  <2>2. Read(job[w], total[w] + Chunk(w)) \in DataType /\ temp[w] \in TempType
    BY <2>1 DEF TypeOK, DataType, Read
  <2>3. staging' \subseteq StagedType
    BY <1>2, <2>2, StagedTyped DEF WriteChunk, TypeOK
  <2>4. QED
    BY <1>2, <2>1, <2>3 DEF WriteChunk, TypeOK
<1>3. ASSUME NEW w \in Writers, RefuseChunk(w) \/ EndOfStream(w) \/ ReplaceMissing(w)
      PROVE  TypeOK'
  BY <1>3 DEF RefuseChunk, EndOfStream, ReplaceMissing, TypeOK
<1>4. ASSUME NEW w \in Writers, Replace(w) PROVE TypeOK'
  <2>1. PICK f \in Staged(temp[w]) : /\ disk' = Put(disk, TargetOf[job[w]], f.data)
                                     /\ staging' = staging \ {f}
    BY <1>4 DEF Replace
  <2>2. f.data \in DataType
    BY StagedTyped DEF Staged, TypeOK
  <2>3. \A g \in disk' : DOMAIN g = {"path", "data"} /\ g.data \in DataType
    BY <2>1, <2>2, DiskTyped DEF TypeOK
  <2>4. QED
    BY <1>4, <2>1, <2>3 DEF Replace, TypeOK
<1>5. ASSUME NEW w \in Writers, OpenCopy(w) PROVE TypeOK'
  <2>1. Read(job[w], 0) \in DataType
    BY DEF TypeOK, DataType, Read
  <2>2. \A g \in disk' : DOMAIN g = {"path", "data"} /\ g.data \in DataType
    BY <1>5, <2>1, DiskTyped DEF OpenCopy, TypeOK
  <2>3. QED
    BY <1>5, <2>2 DEF OpenCopy, TypeOK
<1>6. ASSUME NEW w \in Writers, CopyChunk(w) PROVE TypeOK'
  <2>1. total[w] + Chunk(w) \in Nat
    BY <1>6, ChunkInt DEF CopyChunk, TypeOK
  <2>2. Read(job[w], total[w] + Chunk(w)) \in DataType
    BY <2>1 DEF TypeOK, DataType, Read
  <2>3. \A g \in disk' : DOMAIN g = {"path", "data"} /\ g.data \in DataType
    BY <1>6, <2>2, DiskTyped DEF CopyChunk, TypeOK
  <2>4. QED
    BY <1>6, <2>1, <2>3 DEF CopyChunk, TypeOK
<1>7. ASSUME NEW w \in Writers, EndCopy(w) \/ CleanUp(w) PROVE TypeOK'
  BY <1>7 DEF EndCopy, CleanUp, TypeOK
<1>8. ASSUME NEW w \in Writers, Raise(w) \/ UnlinkFails(w) \/ Crash(w) PROVE TypeOK'
  BY <1>8, WriterBounds DEF Raise, UnlinkFails, Crash, TypeOK
<1>9. ASSUME NEW f \in staging, Age(f) PROVE TypeOK'
  <2>1. [f EXCEPT !.stale = TRUE] \in StagedType
    BY StagedTyped DEF TypeOK
  <2>2. staging' \subseteq StagedType
    BY <1>9, <2>1 DEF Age, TypeOK
  <2>3. stalls' \in 0..MaxStalls
    BY <1>9, WriterBounds DEF Age, TypeOK
  <2>4. QED
    BY <1>9, <2>2, <2>3 DEF Age, TypeOK
<1>10. ASSUME NEW f \in staging, PurgeStaging(f) PROVE TypeOK'
  BY <1>10 DEF PurgeStaging, TypeOK
<1>11. CASE UNCHANGED vars
  BY <1>11 DEF vars, TypeOK
<1>12. QED
  BY <1>1, <1>2, <1>3, <1>4, <1>5, <1>6, <1>7, <1>8, <1>9, <1>10, <1>11
     DEF Next, Step

(* Every variable keeps its type.                                          *)
THEOREM WriterTypeCorrect == Spec => []TypeOK
<1>1. QED
  BY InitTyped, NextTyped, PTL DEF Spec

(* What is in staging has a typed name, of a writer. *)
LEMMA NamesTyped ==
    ASSUME TypeOK, NEW f \in staging
    PROVE  /\ f \in StagedType /\ f.temp \in TempType
           /\ f.temp[1] \in Writers /\ f.temp[2] \in Nat
<1>1. f \in StagedType /\ f.temp \in TempType
  BY StagedTyped DEF TypeOK
<1>2. \A t \in TempType : t[1] \in Writers /\ t[2] \in Nat
  BY DEF TempType
<1>3. QED
  BY <1>1, <1>2

(* Steps that open no file only rename nothing: staging shrinks, or a file *)
(* is replaced by one of its name.                                         *)
LEMMA NamesKept ==
    ASSUME TypeOK, TypeOK', Named, UNCHANGED <<temp, leaks>>,
           NEW w \in Writers, pc[w] # "idle", pc' = [pc EXCEPT ![w] = pc'[w]],
           \A f \in staging' : \E g \in staging : f.temp = g.temp,
           \A f, g \in staging' : f.temp = g.temp => f = g,
           pc'[w] = "idle" => \A f \in staging' : f.temp # temp[w]
    PROVE  Named'
<1>1. NamesOwned'
  BY DEF Named, NamesOwned, TypeOK
<1>2. NamesUnique'
  BY DEF NamesUnique
<1>3. ASSUME NEW f \in staging'
      PROVE  IF pc[f.temp[1]]' = "idle" THEN f.temp[2] < leaks'
             ELSE f.temp = temp[f.temp[1]]' \/ f.temp[2] < temp[f.temp[1]][2]'
  <2>1. PICK g \in staging : f.temp = g.temp
    OBVIOUS
  <2>2. f.temp[1] \in Writers /\ f.temp[2] \in Nat
    BY <2>1, NamesTyped
  <2>3. CASE f.temp[1] # w
    <3>1. pc'[f.temp[1]] = pc[f.temp[1]]
      BY <2>2, <2>3 DEF TypeOK
    <3>2. QED
      BY <2>1, <3>1 DEF Named, NamesOld
  <2>4. CASE f.temp[1] = w
    <3>1. f.temp = temp[w] \/ f.temp[2] < temp[w][2]
      BY <2>1, <2>4 DEF Named, NamesOld
    <3>2. temp[w][2] <= leaks /\ temp[w][2] \in Nat /\ leaks \in Nat
      BY DEF Named, NamesOwned, TypeOK, TempType
    <3>3. QED
      BY <2>2, <2>4, <3>1, <3>2
  <2>5. QED
    BY <2>3, <2>4
<1>4. NamesOld'
  BY <1>3 DEF NamesOld
<1>5. QED
  BY <1>1, <1>2, <1>4 DEF Named

(* The names stay apart in every step. *)
LEMMA NextNamed == TypeOK /\ TypeOK' /\ Named /\ [Next]_vars => Named'
<1> SUFFICES ASSUME TypeOK, TypeOK', Named, [Next]_vars PROVE Named'
  OBVIOUS
<1> USE DEF bounds, Goto
<1>1. ASSUME NEW w \in Writers, NEW s \in Streams, Open(w, s) PROVE Named'
  <2> DEFINE new == [temp |-> <<w, leaks>>, data |-> Read(s, 0), stale |-> FALSE]
  <2>1. /\ staging' = staging \cup {new} /\ new.temp = <<w, leaks>>
        /\ leaks' = leaks /\ leaks \in Nat
    BY <1>1 DEF Open, TypeOK
  <2>2. /\ temp'[w] = <<w, leaks>> /\ pc[w] = "idle" /\ pc'[w] = "write"
        /\ \A v \in Writers \ {w} : temp'[v] = temp[v] /\ pc'[v] = pc[v]
    BY <1>1 DEF Open, TypeOK
  <2>3. \A f \in staging : f.temp[1] = w => f.temp[2] < leaks
    BY <2>2 DEF Named, NamesOld
  <2>4. \A f \in staging : f.temp # new.temp
    BY <2>1, <2>3, NamesTyped
  <2>5. NamesOwned'
    BY <2>1, <2>2 DEF Named, NamesOwned
  <2>6. NamesUnique'
    BY <2>1, <2>4 DEF Named, NamesUnique
  <2>7. ASSUME NEW f \in staging'
        PROVE  IF pc[f.temp[1]]' = "idle" THEN f.temp[2] < leaks'
               ELSE f.temp = temp[f.temp[1]]' \/ f.temp[2] < temp[f.temp[1]][2]'
    <3>1. CASE f = new
      BY <2>1, <2>2, <3>1
    <3>2. CASE f \in staging /\ f.temp[1] = w
      BY <2>2, <2>3, <3>2
    <3>3. CASE f \in staging /\ f.temp[1] # w
      <4>1. f.temp[1] \in Writers \ {w}
        BY <3>3, NamesTyped
      <4>2. QED
        BY <2>1, <2>2, <3>3, <4>1 DEF Named, NamesOld
    <3>4. QED
      BY <2>1, <3>1, <3>2, <3>3
  <2>8. NamesOld'
    BY <2>7 DEF NamesOld
  <2>9. QED
    BY <2>5, <2>6, <2>8 DEF Named
<1>2. ASSUME NEW w \in Writers, WriteChunk(w) PROVE Named'
  <2> DEFINE new == [temp |-> temp[w], stale |-> FALSE,
                     data |-> Read(job[w], total[w] + Chunk(w))]
  <2>a. new.temp = temp[w]
    OBVIOUS
  <2>1. \A f \in staging' : \/ f \in staging /\ f.temp # temp[w]
                            \/ f = new /\ \E g \in staging : g.temp = temp[w]
    BY <1>2 DEF WriteChunk, Staged
  <2> HIDE DEF new
  <2>2. \A f \in staging' : \E g \in staging : f.temp = g.temp
    BY <2>1, <2>a
  <2>3. \A f, g \in staging' : f.temp = g.temp => f = g
    BY <2>1, <2>a DEF Named, NamesUnique
  <2>4. pc' = [pc EXCEPT ![w] = pc'[w]] /\ pc[w] = "write" /\ pc'[w] = "write"
    BY <1>2 DEF WriteChunk, TypeOK
  <2>5. QED
    BY <1>2, <2>2, <2>3, <2>4, NamesKept DEF WriteChunk
<1>3. ASSUME NEW w \in Writers,
             \/ RefuseChunk(w) \/ EndOfStream(w) \/ ReplaceMissing(w)
             \/ OpenCopy(w) \/ CopyChunk(w) \/ Raise(w)
      PROVE  Named'
  <2>1. /\ UNCHANGED <<staging, temp, leaks>>
        /\ pc' = [pc EXCEPT ![w] = pc'[w]] /\ pc[w] # "idle" /\ pc'[w] # "idle"
    BY <1>3 DEF RefuseChunk, EndOfStream, ReplaceMissing, OpenCopy, CopyChunk, Raise, TypeOK
  <2>2. QED
    BY <2>1, NamesKept DEF Named, NamesUnique
<1>4. ASSUME NEW w \in Writers, Replace(w) \/ EndCopy(w) \/ CleanUp(w) PROVE Named'
  <2>1. /\ UNCHANGED <<temp, leaks>> /\ pc' = [pc EXCEPT ![w] = pc'[w]] /\ pc[w] # "idle"
    BY <1>4 DEF Replace, EndCopy, CleanUp, TypeOK
  <2>2. staging' = staging \ Staged(temp[w])
    BY <1>4 DEF Replace, EndCopy, CleanUp, Staged, Named, NamesUnique
  <2>3. QED
    BY <2>1, <2>2, NamesKept DEF Staged, Named, NamesUnique
<1>5. ASSUME NEW w \in Writers, Crash(w) \/ UnlinkFails(w) PROVE Named'
  <2>1. /\ UNCHANGED <<staging, temp>> /\ leaks' = leaks + 1 /\ leaks \in Nat
        /\ pc'[w] = "idle" /\ \A v \in Writers \ {w} : pc'[v] = pc[v]
        /\ pc[w] # "idle"
    BY <1>5 DEF Crash, UnlinkFails, TypeOK
  <2>2. \A v \in Writers : temp[v][2] \in Nat
    BY DEF TypeOK, TempType
  <2>3. NamesOwned' /\ NamesUnique'
    BY <2>1, <2>2 DEF Named, NamesOwned, NamesUnique
  <2>4. ASSUME NEW f \in staging
        PROVE  IF pc'[f.temp[1]] = "idle" THEN f.temp[2] < leaks + 1
               ELSE f.temp = temp[f.temp[1]] \/ f.temp[2] < temp[f.temp[1]][2]
    <3>1. f.temp[1] \in Writers /\ f.temp[2] \in Nat
      BY NamesTyped
    <3>2. CASE f.temp[1] = w
      <4>1. f.temp = temp[w] \/ f.temp[2] < temp[w][2]
        BY <2>1, <3>2 DEF Named, NamesOld
      <4>2. temp[w][2] <= leaks
        BY <2>1 DEF Named, NamesOwned
      <4>3. QED
        BY <2>1, <2>2, <3>1, <3>2, <4>1, <4>2
    <3>3. CASE f.temp[1] # w
      <4>1. pc'[f.temp[1]] = pc[f.temp[1]]
        BY <2>1, <3>1, <3>3
      <4>2. IF pc[f.temp[1]] = "idle" THEN f.temp[2] < leaks
            ELSE f.temp = temp[f.temp[1]] \/ f.temp[2] < temp[f.temp[1]][2]
        BY DEF Named, NamesOld
      <4>3. QED
        BY <2>1, <3>1, <4>1, <4>2
    <3>4. QED
      BY <3>2, <3>3
  <2>5. NamesOld'
    BY <2>1, <2>4 DEF NamesOld
  <2>6. QED
    BY <2>3, <2>5 DEF Named
<1>6. ASSUME NEW f \in staging, Age(f) \/ PurgeStaging(f) PROVE Named'
  <2>1. UNCHANGED <<pc, temp, leaks>>
    BY <1>6 DEF Age, PurgeStaging
  <2>2. \A g \in staging' : g \in staging \ {f} \/ g = [f EXCEPT !.stale = TRUE]
    BY <1>6 DEF Age, PurgeStaging
  <2>3. [f EXCEPT !.stale = TRUE].temp = f.temp
    BY StagedTyped DEF TypeOK
  <2>4. \A g \in staging' : \E h \in staging : g.temp = h.temp
    BY <2>2, <2>3
  <2>5. NamesUnique'
    BY <2>2, <2>3 DEF Named, NamesUnique
  <2>6. NamesOwned' /\ NamesOld'
    BY <2>1, <2>4 DEF Named, NamesOwned, NamesOld
  <2>7. QED
    BY <2>5, <2>6 DEF Named
<1>7. CASE UNCHANGED vars
  BY <1>7 DEF vars, Named, NamesOwned, NamesUnique, NamesOld
<1>8. QED
  BY <1>1, <1>2, <1>3, <1>4, <1>5, <1>6, <1>7 DEF Next, Step

(* Two writers at work have two names. *)
LEMMA NamesDiffer ==
    ASSUME NamesOwned, NEW v \in Writers, NEW w \in Writers, v # w,
           pc[v] # "idle", pc[w] # "idle"
    PROVE  temp[v] # temp[w]
BY DEF NamesOwned

(* What a writer at work has staged is left alone by a step that keeps its *)
(* own variables and, of the files with its name, keeps the data.          *)
LEMMA SoFarKept ==
    ASSUME StagedSoFar, NEW v \in Writers,
           pc'[v] = pc[v], job'[v] = job[v], temp'[v] = temp[v], total'[v] = total[v],
           pc[v] \in {"write", "commit"} =>
             \A f \in staging' : f.temp = temp[v] =>
               \E g \in staging : g.temp = temp[v] /\ g.data = f.data
    PROVE  SoFar(v)'
<1>1. SoFar(v)
  BY DEF StagedSoFar
<1>2. QED
  BY <1>1 DEF SoFar, Staged, Read

(* A step that gives no file a writer's name and new data leaves what it   *)
(* staged so far.                                                          *)
LEMMA NextSoFar ==
    TypeOK /\ Named /\ StagedSoFar /\ [Next]_vars => StagedSoFar'
<1> SUFFICES ASSUME TypeOK, Named, StagedSoFar, [Next]_vars, NEW v \in Writers
             PROVE  SoFar(v)'
  BY DEF StagedSoFar
<1> USE DEF bounds, Goto
<1>0. SoFar(v) /\ total[v] \in Nat /\ SizeOf[job[v]] \in Nat /\ Ceiling \in Nat
  BY SizesAssumption DEF StagedSoFar, TypeOK
<1>1. ASSUME NEW w \in Writers, NEW s \in Streams, Open(w, s) PROVE SoFar(v)'
  <2> DEFINE new == [temp |-> <<w, leaks>>, data |-> Read(s, 0), stale |-> FALSE]
  <2>1. staging' = staging \cup {new} /\ new.temp = <<w, leaks>> /\ new.data = Read(s, 0)
    BY <1>1 DEF Open
  <2> HIDE DEF new
  <2>2. CASE v = w
    <3>1. /\ pc'[v] = "write" /\ job'[v] = s /\ total'[v] = 0 /\ temp'[v] = <<w, leaks>>
          /\ pc[w] = "idle" /\ SizeOf[s] \in Nat
      BY <1>1, <2>2, SizesAssumption DEF Open, TypeOK
    <3>2. \A f \in staging : f.temp # <<w, leaks>>
      <4>1. \A f \in staging : f.temp[1] = w => f.temp[2] < leaks
        BY <3>1 DEF Named, NamesOld
      <4>2. leaks \in Nat
        BY DEF TypeOK
      <4>3. QED
        BY <4>1, <4>2, NamesTyped
    <3>3. \A f \in Staged(temp[v])' : f.data = Read(s, 0)
      BY <2>1, <3>1, <3>2 DEF Staged
    <3>4. QED
      BY <1>0, <3>1, <3>3 DEF SoFar
  <2>3. CASE v # w
    <3>1. /\ pc'[v] = pc[v] /\ job'[v] = job[v] /\ total'[v] = total[v] /\ temp'[v] = temp[v]
      BY <1>1, <2>3 DEF Open, TypeOK
    <3>2. pc[v] # "idle" => new.temp # temp[v]
      BY <2>1, <2>3 DEF Named, NamesOwned
    <3>3. QED
      BY <2>1, <3>1, <3>2, SoFarKept
  <2>4. QED
    BY <2>2, <2>3
<1>2. ASSUME NEW w \in Writers, WriteChunk(w) PROVE SoFar(v)'
  <2> DEFINE n == total[w] + Chunk(w)
             new == [temp |-> temp[w], stale |-> FALSE, data |-> Read(job[w], n)]
  <2>1. new.temp = temp[w] /\ new.data = Read(job[w], n)
    OBVIOUS
  <2>2. \A f \in staging' : (f \in staging /\ f.temp # temp[w]) \/ f = new
    BY <1>2 DEF WriteChunk
  <2> HIDE DEF new
  <2>3. CASE v = w
    <3>1. total[w] <= SizeOf[job[w]]
      BY <1>0, <1>2, <2>3 DEF WriteChunk, SoFar
    <3>2. n <= SizeOf[job[w]] /\ n <= Ceiling
      BY <1>0, <1>2, <2>3, <3>1, ChunkBounds DEF WriteChunk, OverCeiling
    <3>3. pc'[v] = "write" /\ job'[v] = job[v] /\ temp'[v] = temp[v] /\ total'[v] = n
      BY <1>2, <2>3 DEF WriteChunk, TypeOK
    <3>4. \A f \in Staged(temp[v])' : f.data = Read(job[v], n)
      BY <2>1, <2>2, <2>3, <3>3 DEF Staged
    <3>5. QED
      BY <2>3, <3>2, <3>3, <3>4 DEF SoFar
  <2>4. CASE v # w
    <3>1. /\ pc'[v] = pc[v] /\ job'[v] = job[v] /\ total'[v] = total[v] /\ temp'[v] = temp[v]
      BY <1>2, <2>4 DEF WriteChunk, TypeOK
    <3>2. pc[v] # "idle" => temp[w] # temp[v]
      BY <1>2, <2>4, NamesDiffer DEF Named, WriteChunk
    <3>3. QED
      BY <2>1, <2>2, <3>1, <3>2, SoFarKept
  <2>5. QED
    BY <2>3, <2>4
<1>3. ASSUME NEW w \in Writers, EndOfStream(w) PROVE SoFar(v)'
  <2>1. CASE v = w
    <3>1. total[w] = SizeOf[job[w]]
      BY <1>0, <1>3, <2>1, ChunkBounds DEF EndOfStream, SoFar
    <3>2. QED
      BY <1>0, <1>3, <2>1, <3>1 DEF EndOfStream, SoFar, Staged
  <2>2. CASE v # w
    <3>1. pc'[v] = pc[v]
      BY <1>3, <2>2 DEF EndOfStream, TypeOK
    <3>2. QED
      BY <1>3, <3>1, SoFarKept DEF EndOfStream
  <2>3. QED
    BY <2>1, <2>2
<1>4. ASSUME NEW w \in Writers,
             \/ RefuseChunk(w) \/ Replace(w) \/ ReplaceMissing(w) \/ OpenCopy(w)
             \/ CopyChunk(w) \/ EndCopy(w) \/ CleanUp(w)
             \/ Raise(w) \/ UnlinkFails(w) \/ Crash(w)
      PROVE  SoFar(v)'
  <2>1. /\ pc'[w] \notin {"write", "commit"}
        /\ \A u \in Writers \ {w} : pc'[u] = pc[u] /\ total'[u] = total[u]
        /\ UNCHANGED <<job, temp>>
    BY <1>4 DEF RefuseChunk, Replace, ReplaceMissing, OpenCopy, CopyChunk, EndCopy,
                CleanUp, Raise, UnlinkFails, Crash, TypeOK
  <2>2. staging' \subseteq staging
    BY <1>4 DEF RefuseChunk, Replace, ReplaceMissing, OpenCopy, CopyChunk, EndCopy,
                CleanUp, Raise, UnlinkFails, Crash
  <2>3. CASE v = w
    BY <2>1, <2>3 DEF SoFar
  <2>4. CASE v # w
    BY <2>1, <2>2, <2>4, SoFarKept
  <2>5. QED
    BY <2>3, <2>4
<1>5. ASSUME NEW f \in staging, Age(f) \/ PurgeStaging(f) PROVE SoFar(v)'
  <2>1. UNCHANGED <<pc, job, temp, total>>
    BY <1>5 DEF Age, PurgeStaging
  <2>2. \A g \in staging' : g \in staging \/ g = [f EXCEPT !.stale = TRUE]
    BY <1>5 DEF Age, PurgeStaging
  <2>3. /\ [f EXCEPT !.stale = TRUE].temp = f.temp
        /\ [f EXCEPT !.stale = TRUE].data = f.data
    BY StagedTyped DEF TypeOK
  <2>4. QED
    BY <2>1, <2>2, <2>3, SoFarKept
<1>6. CASE UNCHANGED vars
  BY <1>6, SoFarKept DEF vars
<1>7. QED
  BY <1>1, <1>2, <1>3, <1>4, <1>5, <1>6 DEF Next, Step

(* Only destinations on another file system are copied to. *)
LEMMA NextRemote == TypeOK /\ CopiesRemote /\ [Next]_vars => CopiesRemote'
<1> SUFFICES ASSUME TypeOK, CopiesRemote, [Next]_vars, NEW v \in Writers, pc'[v] = "copy"
             PROVE  TargetOf[job'[v]] \in Remote
  BY DEF CopiesRemote
<1> USE DEF Goto
<1>1. ASSUME NEW w \in Writers, NEW s \in Streams, Open(w, s)
      PROVE  TargetOf[job'[v]] \in Remote
  BY <1>1 DEF Open, TypeOK, CopiesRemote
<1>2. ASSUME NEW w \in Writers, Step(w) \/ Raise(w) \/ UnlinkFails(w) \/ Crash(w)
      PROVE  TargetOf[job'[v]] \in Remote
  <2>1. job' = job
    BY <1>2 DEF Step, WriteChunk, RefuseChunk, EndOfStream, Replace, ReplaceMissing,
                OpenCopy, CopyChunk, EndCopy, CleanUp, Raise, UnlinkFails, Crash
  <2>2. pc[v] = "copy" \/ OpenCopy(v)
    BY <1>2 DEF Step, WriteChunk, RefuseChunk, EndOfStream, Replace, ReplaceMissing,
                OpenCopy, CopyChunk, EndCopy, CleanUp, Raise, UnlinkFails, Crash, TypeOK
  <2>3. QED
    BY <2>1, <2>2 DEF CopiesRemote, OpenCopy
<1>3. ASSUME NEW f \in staging, Age(f) \/ PurgeStaging(f)
      PROVE  TargetOf[job'[v]] \in Remote
  BY <1>3 DEF Age, PurgeStaging, CopiesRemote
<1>4. CASE UNCHANGED vars
  BY <1>4 DEF vars, CopiesRemote
<1>5. QED
  BY <1>1, <1>2, <1>3, <1>4 DEF Next

(* A step leaves the file system of the staging directory as it was, or    *)
(* publishes there a whole stream that fits.                               *)
Local(fs) == {f \in fs : f.path \notin Remote}
Publishes ==
    \E s \in Streams :
        /\ SizeOf[s] <= Ceiling /\ TargetOf[s] \notin Remote
        /\ disk' = Put(disk, TargetOf[s], Read(s, SizeOf[s]))

LEMMA PutLocal ==
    ASSUME NEW fs, NEW p, NEW d
    PROVE  /\ p \in Remote => Local(Put(fs, p, d)) = Local(fs)
           /\ p \notin Remote => Local(Put(fs, p, d)) = Put(Local(fs), p, d)
BY DEF Put, Local

LEMMA StepPublishes ==
    ASSUME TypeOK, StagedSoFar, CopiesRemote, [Next]_vars
    PROVE  Local(disk') = Local(disk) \/ Publishes
<1>1. ASSUME NEW w \in Writers, Replace(w) PROVE Publishes
  <2>1. pc[w] = "commit" /\ TargetOf[job[w]] \notin Remote /\ job[w] \in Streams
    BY <1>1 DEF Replace, TypeOK
  <2>2. PICK f \in Staged(temp[w]) : disk' = Put(disk, TargetOf[job[w]], f.data)
    BY <1>1 DEF Replace
  <2>3. f.data = Read(job[w], SizeOf[job[w]]) /\ SizeOf[job[w]] <= Ceiling
    BY <2>1 DEF StagedSoFar, SoFar
  <2>4. QED
    BY <2>1, <2>2, <2>3 DEF Publishes
<1>2. ASSUME NEW w \in Writers, OpenCopy(w) \/ CopyChunk(w)
      PROVE  Local(disk') = Local(disk)
  <2>1. TargetOf[job[w]] \in Remote
    BY <1>2 DEF OpenCopy, CopyChunk, CopiesRemote
  <2>2. \E d : disk' = Put(disk, TargetOf[job[w]], d)
    BY <1>2 DEF OpenCopy, CopyChunk
  <2>3. QED
    BY <2>1, <2>2, PutLocal
<1>3. ASSUME NEW w \in Writers, NEW s \in Streams, Open(w, s) PROVE disk' = disk
  BY <1>3 DEF Open
<1>4. ASSUME NEW w \in Writers,
             \/ WriteChunk(w) \/ RefuseChunk(w) \/ EndOfStream(w) \/ ReplaceMissing(w)
             \/ EndCopy(w) \/ CleanUp(w) \/ Raise(w) \/ UnlinkFails(w) \/ Crash(w)
      PROVE  disk' = disk
  BY <1>4 DEF WriteChunk, RefuseChunk, EndOfStream, ReplaceMissing, EndCopy, CleanUp,
              Raise, UnlinkFails, Crash
<1>5. ASSUME NEW f \in staging, Age(f) \/ PurgeStaging(f) PROVE disk' = disk
  BY <1>5 DEF Age, PurgeStaging
<1>6. QED
  BY <1>1, <1>2, <1>3, <1>4, <1>5 DEF Next, Step, vars

(* WholeInv holds at first, ... *)
LEMMA InitWhole == Init => WholeInv
<1>1. Init => TypeOK
  BY InitTyped
<1>2. Init => /\ Named /\ StagedSoFar /\ CopiesRemote /\ TargetsWhole
  BY DEF Init, Named, NamesOwned, NamesUnique, NamesOld, StagedSoFar, SoFar, CopiesRemote,
         TargetsWhole
<1>3. QED
  BY <1>1, <1>2 DEF WholeInv

(* ... and every step keeps it. *)
LEMMA NextWhole == WholeInv /\ [Next]_vars => WholeInv'
<1> SUFFICES ASSUME WholeInv, [Next]_vars PROVE WholeInv'
  OBVIOUS
<1> USE DEF WholeInv
<1>1. TypeOK' /\ Named'
  BY NextTyped, NextNamed
<1>2. StagedSoFar' /\ CopiesRemote'
  BY NextSoFar, NextRemote
<1>3. TargetsWhole'
  <2>1. CASE Local(disk') = Local(disk)
    BY <2>1 DEF Local, TargetsWhole
  <2>2. CASE Publishes
    <3>1. PICK s \in Streams : /\ SizeOf[s] <= Ceiling
                               /\ disk' = Put(disk, TargetOf[s], Read(s, SizeOf[s]))
      BY <2>2 DEF Publishes
    <3>2. \A f \in disk' : f \in disk \/ f.data = Read(s, SizeOf[s])
      BY <3>1 DEF Put
    <3>3. QED
      BY <3>1, <3>2 DEF TargetsWhole, Read
  <2>3. QED
    BY <2>1, <2>2, StepPublishes
<1>4. QED
  BY <1>1, <1>2, <1>3

(* A destination on the file system of the staging directory holds all the *)
(* bytes of one stream that fits the ceiling, however many processes       *)
(* write, raise, die and sweep.                                            *)
THEOREM DestinationsWhole == Spec => []TargetsWhole
<1>1. WholeInv => TargetsWhole
  BY DEF WholeInv
<1>2. QED
  BY <1>1, InitWhole, NextWhole, PTL DEF Spec

(* The writer, with its temporary files, chunks, failures and sweeps, is   *)
(* the atomic publication of whole streams.                                *)
THEOREM WriterPublishes == Spec => ImplementsPublication
<1>1. Init => Publication!Init
  BY DEF Init, Publication!Init
<1>2. WholeInv /\ [Next]_vars => [Publication!Next]_(Local(disk))
  <2> SUFFICES ASSUME WholeInv, [Next]_vars, Local(disk') # Local(disk)
               PROVE  Publication!Next
    BY DEF Local
  <2>1. PICK s \in Streams : /\ SizeOf[s] <= Ceiling /\ TargetOf[s] \notin Remote
                             /\ disk' = Put(disk, TargetOf[s], Read(s, SizeOf[s]))
    BY StepPublishes DEF WholeInv, Publishes
  <2>2. Local(disk') = Put(Local(disk), TargetOf[s], Publication!Whole(s))
    BY <2>1, PutLocal DEF Read, Publication!Whole
  <2>3. Publication!Publish(s)
    BY <2>1, <2>2 DEF Publication!Publish, Local, Publication!Put, Put
  <2>4. QED
    BY <2>3 DEF Publication!Next
<1>3. QED
  BY <1>1, <1>2, InitWhole, NextWhole, PTL
     DEF Spec, ImplementsPublication, Publication!Spec, Local

(* One more file for one more leak. *)
LEMMA CountedLeak ==
    ASSUME Counted, TypeOK, leaks' = leaks + 1, NEW x, Dead' \subseteq Dead \cup {x}
    PROVE  Counted'
<1>1. IsFiniteSet(Dead) /\ Cardinality(Dead) <= leaks /\ Cardinality(Dead) \in Nat
  BY FS_CardinalityType DEF Counted, TempsReleased, Dead
<1>2. IsFiniteSet(Dead \cup {x}) /\ Cardinality(Dead \cup {x}) <= Cardinality(Dead) + 1
  <2>1. Cardinality(Dead \cup {x}) \in {Cardinality(Dead), Cardinality(Dead) + 1}
    BY <1>1, FS_AddElement
  <2>2. QED
    BY <1>1, <2>1, FS_AddElement
<1>3. IsFiniteSet(Dead') /\ Cardinality(Dead') <= Cardinality(Dead \cup {x})
  BY <1>2, FS_Subset
<1>4. Cardinality(Dead') \in Nat /\ Cardinality(Dead \cup {x}) \in Nat /\ leaks \in Nat
  BY <1>2, <1>3, FS_CardinalityType DEF TypeOK
<1>5. Cardinality(Dead') <= leaks'
  BY <1>1, <1>2, <1>3, <1>4
<1>6. QED
  BY <1>3, <1>5 DEF Counted, TempsReleased, Dead

(* No file more. *)
LEMMA CountedKept ==
    ASSUME Counted, TypeOK, leaks' = leaks, Dead' \subseteq Dead
    PROVE  Counted'
<1>1. IsFiniteSet(Dead) /\ Cardinality(Dead) <= leaks /\ Cardinality(Dead) \in Nat
  BY FS_CardinalityType DEF Counted, TempsReleased, Dead
<1>2. IsFiniteSet(Dead') /\ Cardinality(Dead') <= Cardinality(Dead)
  BY <1>1, FS_Subset
<1>3. Cardinality(Dead') \in Nat /\ leaks \in Nat
  BY <1>2, FS_CardinalityType DEF TypeOK
<1>4. Cardinality(Dead') <= leaks'
  BY <1>1, <1>2, <1>3
<1>5. QED
  BY <1>2, <1>4 DEF Counted, TempsReleased, Dead

(* One file for another. *)
LEMMA CountedAged ==
    ASSUME Counted, TypeOK, leaks' = leaks, NEW x \in Dead, NEW y,
           Dead' \subseteq (Dead \ {x}) \cup {y}
    PROVE  Counted'
<1> DEFINE D == Dead \ {x}
<1>1. IsFiniteSet(Dead) /\ Cardinality(Dead) <= leaks /\ Cardinality(Dead) \in Nat
  BY FS_CardinalityType DEF Counted, TempsReleased, Dead
<1>2. IsFiniteSet(D) /\ Cardinality(D) = Cardinality(Dead) - 1
  BY <1>1, FS_RemoveElement
<1>2a. Cardinality(D) \in Nat
  BY <1>2, FS_CardinalityType
<1>3. IsFiniteSet(D \cup {y}) /\ Cardinality(D \cup {y}) <= Cardinality(D) + 1
  BY <1>2, <1>2a, FS_AddElement
<1>4. IsFiniteSet(Dead') /\ Cardinality(Dead') <= Cardinality(D \cup {y})
  BY <1>3, FS_Subset
<1>5. Cardinality(Dead') \in Nat /\ Cardinality(D \cup {y}) \in Nat /\ leaks \in Nat
  BY <1>3, <1>4, FS_CardinalityType DEF TypeOK
<1>6. Cardinality(Dead') <= leaks'
  BY <1>1, <1>2, <1>3, <1>4, <1>5
<1>7. QED
  BY <1>4, <1>6 DEF Counted, TempsReleased, Dead

(* Every writer that ends releases its file, or has leaked it.             *)
LEMMA NextCounted == TypeOK /\ Named /\ Counted /\ [Next]_vars => Counted'
<1> SUFFICES ASSUME TypeOK, Named, Counted, [Next]_vars PROVE Counted'
  OBVIOUS
<1> USE DEF bounds, Goto
<1>1. ASSUME NEW w \in Writers, NEW s \in Streams, Open(w, s) PROVE Counted'
  <2> DEFINE new == [temp |-> <<w, leaks>>, data |-> Read(s, 0), stale |-> FALSE]
  <2>1. staging' = staging \cup {new} /\ new.temp = <<w, leaks>> /\ leaks' = leaks
    BY <1>1 DEF Open
  <2> HIDE DEF new
  <2>2. /\ pc[w] = "idle" /\ pc'[w] = "write" /\ temp'[w] = <<w, leaks>>
        /\ \A v \in Writers \ {w} : pc'[v] = pc[v] /\ temp'[v] = temp[v]
    BY <1>1 DEF Open, TypeOK
  <2>3. \E v \in Writers : pc'[v] # "idle" /\ temp'[v] = new.temp
    BY <2>1, <2>2
  <2>4. \A t : Live(t) => Live(t)'
    BY <2>2 DEF Live
  <2>5. Dead' \subseteq Dead
    BY <2>1, <2>3, <2>4 DEF Dead, Live
  <2>6. QED
    BY <2>1, <2>5, CountedKept
<1>2. ASSUME NEW w \in Writers, WriteChunk(w) PROVE Counted'
  <2>1. \A f \in staging' : f \in staging \/ f.temp = temp[w]
    BY <1>2 DEF WriteChunk
  <2>2. UNCHANGED <<pc, temp, leaks>> /\ pc[w] # "idle"
    BY <1>2 DEF WriteChunk
  <2>3. Dead' \subseteq Dead
    BY <2>1, <2>2 DEF Dead, Live
  <2>4. QED
    BY <2>2, <2>3, CountedKept
<1>3. ASSUME NEW w \in Writers,
             \/ RefuseChunk(w) \/ EndOfStream(w) \/ ReplaceMissing(w)
             \/ OpenCopy(w) \/ CopyChunk(w) \/ Raise(w)
      PROVE  Counted'
  <2>1. /\ UNCHANGED <<staging, temp, leaks>> /\ pc'[w] # "idle"
        /\ \A v \in Writers \ {w} : pc'[v] = pc[v]
    BY <1>3 DEF RefuseChunk, EndOfStream, ReplaceMissing, OpenCopy, CopyChunk, Raise, TypeOK
  <2>2. Dead' \subseteq Dead
    BY <2>1 DEF Dead, Live
  <2>3. QED
    BY <2>1, <2>2, CountedKept
<1>4. ASSUME NEW w \in Writers, Replace(w) \/ EndCopy(w) \/ CleanUp(w) PROVE Counted'
  <2>1. /\ UNCHANGED <<temp, leaks>>
        /\ \A v \in Writers \ {w} : pc'[v] = pc[v]
    BY <1>4 DEF Replace, EndCopy, CleanUp, TypeOK
  <2>2. staging' = staging \ Staged(temp[w])
    BY <1>4 DEF Replace, EndCopy, CleanUp, Staged, Named, NamesUnique
  <2>3. Dead' \subseteq Dead
    BY <2>1, <2>2 DEF Dead, Live, Staged
  <2>4. QED
    BY <2>1, <2>3, CountedKept
<1>5. ASSUME NEW w \in Writers, Crash(w) \/ UnlinkFails(w) PROVE Counted'
  <2>1. /\ UNCHANGED <<staging, temp>> /\ leaks' = leaks + 1
        /\ \A v \in Writers \ {w} : pc'[v] = pc[v]
    BY <1>5 DEF Crash, UnlinkFails, TypeOK
  <2>2. \A f \in Dead' : f \in Dead \/ f \in Staged(temp[w])
    BY <2>1 DEF Dead, Live, Staged
  <2>3. \E x : Staged(temp[w]) \subseteq {x}
    BY DEF Staged, Named, NamesUnique
  <2>4. \E x : Dead' \subseteq Dead \cup {x}
    BY <2>2, <2>3
  <2>5. QED
    BY <2>1, <2>4, CountedLeak
<1>6. ASSUME NEW f \in staging, Age(f) PROVE Counted'
  <2> DEFINE aged == [f EXCEPT !.stale = TRUE]
  <2>1. staging' = (staging \ {f}) \cup {aged} /\ UNCHANGED <<pc, temp, leaks>>
    BY <1>6 DEF Age
  <2>2. aged.temp = f.temp
    BY StagedTyped DEF TypeOK
  <2> HIDE DEF aged
  <2>3. \A t : Live(t)' <=> Live(t)
    BY <2>1 DEF Live
  <2>4. CASE f \in Dead
    <3>1. Dead' \subseteq (Dead \ {f}) \cup {aged}
      BY <2>1, <2>3 DEF Dead
    <3>2. QED
      BY <2>1, <2>4, <3>1, CountedAged
  <2>5. CASE f \notin Dead
    <3>1. Dead' \subseteq Dead
      BY <2>1, <2>2, <2>3, <2>5 DEF Dead
    <3>2. QED
      BY <2>1, <3>1, CountedKept
  <2>6. QED
    BY <2>4, <2>5
<1>7. ASSUME NEW f \in staging, PurgeStaging(f) PROVE Counted'
  <2>1. staging' \subseteq staging /\ UNCHANGED <<pc, temp, leaks>>
    BY <1>7 DEF PurgeStaging
  <2>2. Dead' \subseteq Dead
    BY <2>1 DEF Dead, Live
  <2>3. QED
    BY <2>1, <2>2, CountedKept
<1>8. CASE UNCHANGED vars
  BY <1>8 DEF vars, Counted, TempsReleased, Dead, Live
<1>9. QED
  BY <1>1, <1>2, <1>3, <1>4, <1>5, <1>6, <1>7, <1>8 DEF Next, Step

(* No exception leaks a temporary file: however many processes write, raise *)
(* and sweep, staging has at most one file without a writer for each        *)
(* process that died and each unlink that failed.                           *)
THEOREM OnlyCrashesLeak == Spec => []TempsReleased
<1>1. Init => Counted
  <2> SUFFICES ASSUME Init PROVE Counted
    OBVIOUS
  <2>1. Dead = {} /\ leaks = 0
    BY DEF Init, Dead
  <2>2. QED
    BY <2>1, FS_EmptySet DEF Counted, TempsReleased, Dead
<1>2. WholeInv /\ Counted /\ [Next]_vars => Counted'
  BY NextCounted DEF WholeInv
<1>3. Counted => TempsReleased
  BY DEF Counted
<1>4. QED
  BY <1>1, <1>2, <1>3, InitWhole, NextWhole, PTL DEF Spec
=============================================================================
