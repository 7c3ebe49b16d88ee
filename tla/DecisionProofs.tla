---------------------------- MODULE DecisionProofs ----------------------------
(***************************************************************************)
(* Proofs about the pure decisions, for inputs of every length.            *)
(***************************************************************************)
EXTENDS MCDecisions, FiniteSetTheorems, TLAPS

(* A set of natural numbers that is not empty has a least member. *)
LEMMA Least ==
    ASSUME NEW T \in SUBSET Nat, T # {}
    PROVE  \E x \in T : \A y \in T : x <= y
<1> DEFINE UpTo == {0..t : t \in T}
<1>1. \A t \in T : IsFiniteSet(0..t)
  BY FS_Interval
<1>2. UpTo \subseteq FiniteSubsetsOf(Nat) /\ UpTo # {}
  <2>1. \A t \in T : 0..t \in FiniteSubsetsOf(Nat)
    BY <1>1 DEF FiniteSubsetsOf
  <2>2. QED
    BY <2>1
<1>3. \E X \in UpTo : \A Y \in UpTo : ~(<<Y, X>> \in StrictSubsetOrdering(Nat))
  BY <1>2, FS_StrictSubsetOrderingWellFounded, WFMin
<1>4. PICK x \in T : \A y \in T : ~(<<0..y, 0..x>> \in StrictSubsetOrdering(Nat))
  BY <1>3
<1>5. ASSUME NEW y \in T, y < x PROVE FALSE
  <2>1. 0..y \in SUBSET Nat /\ 0..x \in SUBSET Nat /\ 0..y \subseteq 0..x /\ 0..y # 0..x
    <3>1. x \in 0..x /\ x \notin 0..y
      BY <1>5
    <3>2. QED
      BY <1>5, <3>1
  <2>2. QED
    BY <1>4, <2>1 DEF StrictSubsetOrdering
<1>6. QED
  BY <1>5

(* Induction, about a set in place of a predicate.                         *)
LEMMA NatSetInduction ==
    ASSUME NEW S, 0 \in S, \A n \in Nat : n \in S => n + 1 \in S
    PROVE  Nat \subseteq S
<1> SUFFICES ASSUME Nat \ S # {} PROVE FALSE
  OBVIOUS
<1>1. PICK x \in Nat \ S : \A y \in Nat \ S : x <= y
  BY Least
<1>2. x # 0 /\ x - 1 \in Nat
  BY <1>1
<1>3. x - 1 \in S
  BY <1>1, <1>2
<1>4. QED
  BY <1>1, <1>2, <1>3

(* A loop of n turns over a variable with values in T: the value it starts *)
(* with, and what each turn makes of the value it finds.                   *)
IsLoop(g, n, T, base, turn) ==
    /\ g \in [0..n -> T]
    /\ g[0] = base
    /\ \A i \in 1..n : g[i] = turn[i][g[i-1]]

(* Every loop has a run: the recursive functions of the models are loops,  *)
(* and this lets a proof unfold them.                                      *)
LEMMA LoopExists ==
    ASSUME NEW n \in Nat, NEW T, NEW base \in T, NEW turn \in [1..n -> [T -> T]]
    PROVE  \E g : IsLoop(g, n, T, base, turn)
<1> DEFINE S == {m \in Nat : m <= n => \E g : IsLoop(g, m, T, base, turn)}
<1>1. 0 \in S
  <2>1. IsLoop([i \in 0..0 |-> base], 0, T, base, turn)
    BY DEF IsLoop
  <2>2. QED
    BY <2>1
<1>2. ASSUME NEW m \in Nat, m \in S PROVE m + 1 \in S
  <2> SUFFICES ASSUME m + 1 <= n PROVE \E g : IsLoop(g, m + 1, T, base, turn)
    OBVIOUS
  <2>1. PICK g : IsLoop(g, m, T, base, turn)
    BY <1>2
  <2> DEFINE h == [i \in 0..(m+1) |-> IF i = m + 1 THEN turn[m + 1][g[m]] ELSE g[i]]
  <2>2. g \in [0..m -> T] /\ turn[m + 1][g[m]] \in T
    BY <2>1 DEF IsLoop
  <2>3. h \in [0..(m+1) -> T]
    BY <2>2
  <2>4. h[0] = base
    BY <2>1 DEF IsLoop
  <2>5. ASSUME NEW i \in 1..(m + 1) PROVE h[i] = turn[i][h[i-1]]
    <3>1. CASE i \in 1..m
      <4>1. h[i] = g[i] /\ h[i-1] = g[i-1]
        BY <3>1
      <4>2. QED
        BY <2>1, <3>1, <4>1 DEF IsLoop
    <3>2. CASE i = m + 1
      BY <3>2
    <3>3. QED
      BY <3>1, <3>2
  <2>6. QED
    <3> HIDE DEF h
    <3>1. IsLoop(h, m + 1, T, base, turn)
      BY <2>3, <2>4, <2>5 DEF IsLoop
    <3>2. QED
      BY <3>1
<1>3. n \in S
  <2> HIDE DEF S
  <2>1. QED
    BY <1>1, <1>2, NatSetInduction
<1>4. QED
  BY <1>3

(* A run of the loop takes values of T only. *)
Runs(h, n, T, base, turn) ==
    /\ h = [i \in 0..n |-> h[i]]
    /\ h[0] = base
    /\ \A i \in 1..n : h[i-1] \in T => h[i] = turn[i][h[i-1]]

LEMMA LoopType ==
    ASSUME NEW n \in Nat, NEW T, NEW base \in T, NEW turn \in [1..n -> [T -> T]],
           NEW h, Runs(h, n, T, base, turn)
    PROVE  h \in [0..n -> T]
<1> DEFINE S == {i \in Nat : i <= n => h[i] \in T}
<1>1. 0 \in S
  BY DEF Runs
<1>2. ASSUME NEW i \in Nat, i \in S PROVE i + 1 \in S
  <2> SUFFICES ASSUME i + 1 \in 1..n PROVE h[i + 1] \in T
    OBVIOUS
  <2>1. h[i] \in T
    BY <1>2
  <2>2. (i + 1) - 1 = i
    OBVIOUS
  <2>3. h[i + 1] = turn[i + 1][h[i]]
    BY <2>1, <2>2 DEF Runs
  <2>4. QED
    BY <2>1, <2>3
<1>3. Nat \subseteq S
  <2> HIDE DEF S
  <2>1. QED
    BY <1>1, <1>2, NatSetInduction
<1>4. QED
  BY <1>3 DEF Runs

-----------------------------------------------------------------------------
(* The loop over the entries of an archive. *)
Seens == [entries : Nat, nested : Nat, total : Nat, refused : BOOLEAN]

LEMMA CountType ==
    ASSUME NEW form, NEW seen \in Seens, NEW e \in Entries
    PROVE  Count(form, seen, e) \in Seens
<1>1. /\ seen.entries + 1 \in Nat
      /\ seen.nested + (IF form = "zip" /\ e.nested THEN 1 ELSE 0) \in Nat
      /\ seen.total + e.size \in Nat
  BY DEF Seens, Entries
<1>2. QED
  BY <1>1 DEF Count, Seens

LEMMA CountedLoop ==
    ASSUME NEW f \in Files
    PROVE  /\ Counted(f) \in [0..Len(f.entries) -> Seens]
           /\ Counted(f)[0] = Unseen
           /\ \A i \in 1..Len(f.entries) :
                Counted(f)[i] = Count(f.form, Counted(f)[i-1], f.entries[i])
<1> DEFINE n == Len(f.entries)
           turn == [i \in 1..n |-> [seen \in Seens |-> Count(f.form, seen, f.entries[i])]]
           Loop(h) == h = [i \in 0..n |-> IF i = 0 THEN Unseen
                                          ELSE Count(f.form, h[i-1], f.entries[i])]
<1>1. n \in Nat /\ \A i \in 1..n : f.entries[i] \in Entries
  BY DEF Files
<1>2. turn \in [1..n -> [Seens -> Seens]]
  BY <1>1, CountType
<1>3. Unseen \in Seens
  BY DEF Unseen, Seens
<1>4. PICK g : IsLoop(g, n, Seens, Unseen, turn)
  <2> HIDE DEF turn, n
  <2>1. QED
    BY <1>1, <1>2, <1>3, LoopExists
<1>5. g \in [0..n -> Seens] /\ g[0] = Unseen
  BY <1>4 DEF IsLoop
<1>6. \A i \in 1..n : g[i] = Count(f.form, g[i-1], f.entries[i])
  <2> TAKE i \in 1..n
  <2>1. g[i-1] \in Seens /\ g[i] = turn[i][g[i-1]]
    <3> HIDE DEF n, turn
    <3>1. i \in 1..n /\ i - 1 \in 0..n
      BY <1>1
    <3>2. QED
      BY <1>4, <3>1 DEF IsLoop
  <2>2. QED
    BY <2>1
<1>7. Loop(g)
  BY <1>1, <1>5, <1>6
<1>8. Counted(f) = CHOOSE h : Loop(h)
  BY DEF Counted
<1>9. Loop(Counted(f))
  BY <1>7, <1>8
<1>10. /\ Counted(f) = [i \in 0..n |-> Counted(f)[i]]
       /\ Counted(f)[0] = Unseen
       /\ \A i \in 1..n : Counted(f)[i] = Count(f.form, Counted(f)[i-1], f.entries[i])
  BY <1>1, <1>9
<1>11. Runs(Counted(f), n, Seens, Unseen, turn)
  BY <1>10 DEF Runs
<1>12. Counted(f) \in [0..n -> Seens]
  <2> HIDE DEF turn, n
  <2>1. QED
    BY <1>1, <1>2, <1>3, <1>11, LoopType
<1>13. QED
  BY <1>10, <1>12

LEMMA SizesLoop ==
    ASSUME NEW f \in Files
    PROVE  /\ Sizes(f) \in [0..Len(f.entries) -> Nat]
           /\ Sizes(f)[0] = 0
           /\ \A i \in 1..Len(f.entries) : Sizes(f)[i] = Sizes(f)[i-1] + f.entries[i].size
<1> DEFINE n == Len(f.entries)
           turn == [i \in 1..n |-> [sum \in Nat |-> sum + f.entries[i].size]]
           Loop(h) == h = [i \in 0..n |-> IF i = 0 THEN 0 ELSE h[i-1] + f.entries[i].size]
<1>1. n \in Nat /\ \A i \in 1..n : f.entries[i].size \in Nat
  <2>1. n \in Nat /\ \A i \in 1..n : f.entries[i] \in Entries
    BY DEF Files
  <2>2. QED
    BY <2>1 DEF Entries
<1>2. turn \in [1..n -> [Nat -> Nat]]
  BY <1>1
<1>3. PICK g : IsLoop(g, n, Nat, 0, turn)
  <2> HIDE DEF turn, n
  <2>1. QED
    BY <1>1, <1>2, LoopExists
<1>4. g \in [0..n -> Nat] /\ g[0] = 0
  BY <1>3 DEF IsLoop
<1>5. \A i \in 1..n : g[i] = g[i-1] + f.entries[i].size
  <2> TAKE i \in 1..n
  <2>1. g[i-1] \in Nat /\ g[i] = turn[i][g[i-1]]
    <3> HIDE DEF n, turn
    <3>1. i \in 1..n /\ i - 1 \in 0..n
      BY <1>1
    <3>2. QED
      BY <1>3, <3>1 DEF IsLoop
  <2>2. QED
    BY <2>1
<1>6. Loop(g)
  BY <1>1, <1>4, <1>5
<1>7. Sizes(f) = CHOOSE h : Loop(h)
  BY DEF Sizes
<1>8. Loop(Sizes(f))
  BY <1>6, <1>7
<1>9. /\ Sizes(f) = [i \in 0..n |-> Sizes(f)[i]]
      /\ Sizes(f)[0] = 0
      /\ \A i \in 1..n : Sizes(f)[i] = Sizes(f)[i-1] + f.entries[i].size
  BY <1>1, <1>8
<1>10. Runs(Sizes(f), n, Nat, 0, turn)
  BY <1>9 DEF Runs
<1>11. Sizes(f) \in [0..n -> Nat]
  <2> HIDE DEF turn, n
  <2>1. QED
    BY <1>1, <1>2, <1>10, LoopType
<1>12. QED
  BY <1>9, <1>11

(* What the loop knows after i entries, in terms of the entries alone.     *)
NestedTo(f, i) == {k \in 1..i : f.entries[k].nested}

Known(f, i) ==
    LET seen == Counted(f)[i] IN
    /\ seen.entries = i
    /\ seen.total = Sizes(f)[i]
    /\ seen.nested = IF f.form = "zip" THEN Cardinality(NestedTo(f, i)) ELSE 0
    /\ seen.refused <=> \/ i > MaxEntries
                        \/ \E k \in 1..i : f.entries[k].slip \/ f.entries[k].link
                        \/ f.form = "zip" /\ Cardinality(NestedTo(f, i)) > MaxNested

LEMMA NestedGrows ==
    ASSUME NEW f \in Files, NEW i \in Nat
    PROVE  /\ Cardinality(NestedTo(f, 0)) = 0
           /\ Cardinality(NestedTo(f, i)) \in Nat
           /\ Cardinality(NestedTo(f, i + 1)) =
                Cardinality(NestedTo(f, i)) + (IF f.entries[i + 1].nested THEN 1 ELSE 0)
<1>1. IsFiniteSet(NestedTo(f, i)) /\ i + 1 \notin NestedTo(f, i)
  <2>1. IsFiniteSet(1..i) /\ NestedTo(f, i) \in SUBSET (1..i)
    BY FS_Interval DEF NestedTo
  <2>2. QED
    BY <2>1, FS_Subset
<1>2. NestedTo(f, 0) = {}
  BY DEF NestedTo
<1>3. NestedTo(f, i + 1) = IF f.entries[i + 1].nested THEN NestedTo(f, i) \cup {i + 1}
                           ELSE NestedTo(f, i)
  BY DEF NestedTo
<1>4. Cardinality(NestedTo(f, i)) \in Nat /\ Cardinality(NestedTo(f, 0)) = 0
  BY <1>1, <1>2, FS_CardinalityType, FS_EmptySet
<1>5. Cardinality(NestedTo(f, i) \cup {i + 1}) = Cardinality(NestedTo(f, i)) + 1
  BY <1>1, FS_AddElement
<1>6. QED
  BY <1>3, <1>4, <1>5

LEMMA LoopKnows ==
    ASSUME NEW f \in Files
    PROVE  \A i \in 0..Len(f.entries) : Known(f, i)
<1> DEFINE n == Len(f.entries)
           S == {i \in Nat : i <= n => Known(f, i)}
<1>1. n \in Nat /\ \A i \in 1..n : f.entries[i] \in Entries
  BY DEF Files
<1>2. 0 \in S
  <2>1. Counted(f)[0] = Unseen /\ Sizes(f)[0] = 0 /\ Cardinality(NestedTo(f, 0)) = 0
    BY CountedLoop, SizesLoop, NestedGrows
  <2>2. QED
    BY <2>1, InspectionAssumption DEF Known, Unseen
<1>3. ASSUME NEW i \in Nat, i \in S PROVE i + 1 \in S
  <2> SUFFICES ASSUME i + 1 \in 1..n PROVE Known(f, i + 1)
    BY <1>1
  <2> DEFINE e == f.entries[i + 1]
             seen == Counted(f)[i]
             after == Counted(f)[i + 1]
             c == Cardinality(NestedTo(f, i))
  <2>1. i + 1 \in 1..n /\ (i + 1) - 1 = i /\ i \in 0..n /\ e \in Entries
    BY <1>1
  <2>2. Known(f, i) /\ seen \in Seens
    BY <1>1, <1>3, <2>1, CountedLoop
  <2>3. after = Count(f.form, seen, e)
    <3> HIDE DEF e
    <3>1. QED
      BY <2>1, CountedLoop DEF e
  <2>4. Sizes(f)[i + 1] = Sizes(f)[i] + e.size
    BY <2>1, SizesLoop
  <2>5. c \in Nat /\ Cardinality(NestedTo(f, i + 1)) = c + (IF e.nested THEN 1 ELSE 0)
    BY NestedGrows
  <2>6. e.nested \in BOOLEAN /\ e.slip \in BOOLEAN /\ e.link \in BOOLEAN
    BY <2>1 DEF Entries
  <2> HIDE DEF e, seen, after, c
  <2>7. /\ after.entries = i + 1
        /\ after.total = Sizes(f)[i + 1]
        /\ after.nested = IF f.form = "zip" THEN Cardinality(NestedTo(f, i + 1)) ELSE 0
    BY <2>2, <2>3, <2>4, <2>5, <2>6 DEF Known, Count, Seens, seen, c
  <2>8. after.refused <=> \/ i + 1 > MaxEntries
                          \/ \E k \in 1..(i + 1) : f.entries[k].slip \/ f.entries[k].link
                          \/ f.form = "zip" /\ Cardinality(NestedTo(f, i + 1)) > MaxNested
    <3>1. after.refused <=> \/ seen.refused
                            \/ i + 1 > MaxEntries
                            \/ e.slip \/ e.link
                            \/ f.form = "zip" /\ e.nested /\ c + 1 > MaxNested
      BY <2>2, <2>3 DEF Known, Count, seen, c
    <3>2. (\E k \in 1..(i + 1) : f.entries[k].slip \/ f.entries[k].link)
            <=> (\E k \in 1..i : f.entries[k].slip \/ f.entries[k].link) \/ e.slip \/ e.link
      BY DEF e
    <3>3. QED
      BY <2>2, <2>5, <2>6, <3>1, <3>2, InspectionAssumption DEF Known, seen, c
  <2>9. QED
    BY <2>7, <2>8 DEF Known, after
<1>4. Nat \subseteq S
  <2> HIDE DEF S
  <2>1. QED
    BY <1>2, <1>3, NatSetInduction
<1>5. QED
  BY <1>1, <1>4

(* For every file, of any number of entries: what the verifier and the     *)
(* guard let through together is what is harmless and of its declared      *)
(* type, neither more nor less (magic_verifier.py 53-172,                  *)
(* archive_guard.py 29-135).                                               *)
THEOREM FilesDeliveredByPolicy ==
    \A f \in Files : f.physical > 0 => (Delivered(f) <=> Harmless(f) /\ TypeFits(f))
<1> SUFFICES ASSUME NEW f \in Files, f.physical > 0
             PROVE  Delivered(f) <=> Harmless(f) /\ TypeFits(f)
  OBVIOUS
<1> DEFINE n == Len(f.entries)
           seen == Survey(f)
<1>1. /\ f.physical \in Nat /\ n \in Nat /\ DOMAIN f.entries = 1..n
      /\ f.fault \in Faults /\ (f.form = "none" => f.fault # "container")
  BY DEF Files
<1>2. seen = Counted(f)[n] /\ seen \in Seens /\ Known(f, n)
  BY <1>1, CountedLoop, LoopKnows DEF Survey
<1>3. Nested(f) = NestedTo(f, n) /\ Total(f) = Sizes(f)[n]
  BY <1>1 DEF Nested, NestedTo, Total
<1>4. Cardinality(NestedTo(f, n)) \in Nat /\ Sizes(f)[n] \in Nat
  <2>1. n \in 0..n
    BY <1>1
  <2>2. Sizes(f)[n] \in Nat
    BY <2>1, SizesLoop
  <2>3. QED
    BY <1>1, <2>2, NestedGrows
<1>5. WithinLimits(f) <=> /\ ~seen.refused
                          /\ seen.total <= MaxTotal /\ seen.total <= MaxRatio * f.physical
  <2>1. seen.total = Total(f)
    BY <1>2, <1>3 DEF Known
  <2>2. seen.refused <=> \/ n > MaxEntries
                         \/ \E k \in 1..n : f.entries[k].slip \/ f.entries[k].link
                         \/ f.form = "zip" /\ Cardinality(Nested(f)) > MaxNested
    BY <1>2, <1>3 DEF Known
  <2>3. ~seen.refused <=> /\ n <= MaxEntries
                          /\ \A k \in 1..n : ~f.entries[k].slip /\ ~f.entries[k].link
                          /\ f.form = "zip" => Cardinality(Nested(f)) <= MaxNested
    <3> HIDE DEF n, seen
    <3>1. MaxEntries \in Nat /\ MaxNested \in Nat
      BY InspectionAssumption
    <3>2. QED
      BY <1>1, <1>3, <1>4, <2>2, <3>1
  <2>4. QED
    <3> HIDE DEF seen
    <3>1. QED
      BY <1>1, <2>1, <2>3 DEF WithinLimits
<1>6. ArchiveSafe(f) <=> (f.form # "none" => f.fault # "container" /\ WithinLimits(f))
  <2>1. f.physical # 0
    BY <1>1
  <2>2. QED
    BY <1>5, <2>1 DEF ArchiveSafe
<1>7. Verified(f) <=> /\ f.ext # "dangerous" /\ f.fault \notin {"read", "magic"}
                      /\ ~Active(f) /\ ~Macros(f) /\ TypeFits(f)
  BY <1>1 DEF Verified
<1>8. f.header = "program" => Active(f)
  BY DEF Active
<1>9. TypeFits(f) => "dangerous" \notin f.guesses
  BY DEF TypeFits
<1>10. f.fault = "none" <=> f.fault \notin {"read", "magic"} /\ f.fault # "container"
  BY <1>1 DEF Faults
<1>11. QED
  BY <1>1, <1>6, <1>7, <1>8, <1>9, <1>10 DEF Delivered, Harmless

-----------------------------------------------------------------------------
(* The questions of MCDecisions are inputs of the program. *)
Answerable ==
    /\ question.about = "file" => question.file \in Files
    /\ question.about = "plugins" => question.plugins \in Seq(Plugins)

LEMMA BoundedIsSeq ==
    ASSUME NEW S, NEW n \in Nat, NEW s \in BoundedSeq(S, n)
    PROVE  s \in Seq(S)
<1>1. PICK m \in 0..n : s \in [1..m -> S]
  BY DEF BoundedSeq, SeqOf
<1>2. QED
  BY <1>1

LEMMA FilesAreFiles == LooseFiles \cup EmptyFiles \cup Archives \subseteq Files
<1>1. << >> \in Seq(Entries)
  OBVIOUS
<1>2. ASSUME NEW e \in Extensions, NEW h \in Headers, NEW g \in Guesses,
             NEW t \in Faults, NEW m \in SUBSET {"marked", "macros"}, NEW z \in Nat,
             NEW d \in {"none", "zip", "tar"}, NEW s \in Seq(Entries),
             d = "none" => t # "container"
      PROVE  File(e, h, g, t, m, z, d, s) \in Files
  BY <1>2 DEF File, Files
<1>3. LooseFiles \subseteq Files
  <2>1. ASSUME NEW e \in Extensions, NEW h \in Headers, NEW g \in Guesses,
               NEW t \in Faults \ {"container"}, NEW m \in SUBSET {"marked", "macros"},
               NEW d \in {"none", "zip"}
        PROVE  File(e, h, g, t, m, 1, d, << >>) \in Files
    BY <1>1, <1>2
  <2>2. QED
    BY <2>1 DEF LooseFiles
<1>4. EmptyFiles \subseteq Files
  <2>1. /\ "other" \in Headers /\ {} \in Guesses /\ "none" \in Faults
        /\ {} \in SUBSET {"marked", "macros"}
    BY DEF Headers, Guesses, Faults
  <2>2. ASSUME NEW e \in Extensions
        PROVE  File(e, "other", {}, "none", {}, 0, "none", << >>) \in Files
    BY <1>1, <1>2, <2>1
  <2>3. QED
    BY <2>2 DEF EmptyFiles
<1>5. Archives \subseteq Files
  <2>1. SomeEntries \subseteq Entries
    BY DEF SomeEntries, Entries
  <2>2. ASSUME NEW s \in BoundedSeq(SomeEntries, 3) PROVE s \in Seq(Entries)
    BY <2>1, BoundedIsSeq
  <2>3. /\ "other" \in Headers /\ {"allowed"} \in Guesses
        /\ {"none", "container"} \subseteq Faults /\ {"safe", "office"} \subseteq Extensions
        /\ {} \in SUBSET {"marked", "macros"}
    BY DEF Headers, Guesses, Faults, Extensions
  <2>4. ASSUME NEW e \in {"safe", "office"}, NEW t \in {"none", "container"},
               NEW d \in {"zip", "tar"}, NEW s \in BoundedSeq(SomeEntries, 3)
        PROVE  File(e, "other", {"allowed"}, t, {}, 1, d, s) \in Files
    BY <1>2, <2>2, <2>3
  <2>5. QED
    BY <2>4 DEF Archives
<1>6. QED
  BY <1>3, <1>4, <1>5

LEMMA QuestionsAnswerable == Spec => []Answerable
<1>1. Init => Answerable
  BY DEF Init, NoQuestion, Answerable
<1>2. ASSUME Answerable, [Next]_question PROVE Answerable'
  <2>1. CASE AskRule
    BY <2>1 DEF AskRule, Answerable
  <2>2. CASE AskFile
    BY <2>2, FilesAreFiles DEF AskFile, Answerable
  <2>3. CASE AskPlugins
    BY <2>3, BoundedIsSeq DEF AskPlugins, Answerable
  <2>4. CASE AskName
    BY <2>4 DEF AskName, Answerable
  <2>5. CASE Answer
    BY <2>5 DEF Answer, NoQuestion, Answerable
  <2>6. CASE UNCHANGED question
    BY <1>2, <2>6 DEF Answerable
  <2>7. QED
    BY <1>2, <2>1, <2>2, <2>3, <2>4, <2>5, <2>6 DEF Next, Ask
<1>3. QED
  BY <1>1, <1>2, PTL DEF Spec

(* The property of the run, for every limit of the guard.                  *)
THEOREM InspectionFollowsPolicy == Spec => []InspectionKeepsPolicy
<1>1. Answerable => InspectionKeepsPolicy
  BY FilesDeliveredByPolicy DEF Answerable, InspectionKeepsPolicy
<1>2. QED
  BY <1>1, QuestionsAnswerable, PTL

-----------------------------------------------------------------------------
(* The plugins that are kept, and the notes that they leave.               *)
LEMMA KeptLoop ==
    ASSUME NEW plugins \in Seq(Plugins)
    PROVE  /\ Kept(plugins) \in [0..Len(plugins) -> Seq(Plugins)]
           /\ Kept(plugins)[0] = << >>
           /\ \A i \in 1..Len(plugins) : Kept(plugins)[i] = Keep(Kept(plugins)[i-1], plugins[i])
<1> DEFINE n == Len(plugins)
           T == Seq(Plugins)
           turn == [i \in 1..n |-> [kept \in T |-> Keep(kept, plugins[i])]]
           Loop(h) == h = [i \in 0..n |-> IF i = 0 THEN << >> ELSE Keep(h[i-1], plugins[i])]
<1>1. n \in Nat /\ << >> \in T /\ \A i \in 1..n : plugins[i] \in Plugins
  OBVIOUS
<1>2. turn \in [1..n -> [T -> T]]
  <2>1. ASSUME NEW i \in 1..n, NEW kept \in T PROVE Keep(kept, plugins[i]) \in T
    BY <1>1 DEF Keep
  <2>2. QED
    <3> HIDE DEF n, T
    <3>1. QED
      BY <2>1
<1>3. PICK g : IsLoop(g, n, T, << >>, turn)
  <2> HIDE DEF turn, n, T
  <2>1. QED
    BY <1>1, <1>2, LoopExists
<1>4. g \in [0..n -> T] /\ g[0] = << >>
  <2> HIDE DEF turn, n, T
  <2>1. QED
    BY <1>3 DEF IsLoop
<1>5. \A i \in 1..n : g[i] = Keep(g[i-1], plugins[i])
  <2> TAKE i \in 1..n
  <2> HIDE DEF T, n
  <2>1. g[i-1] \in T /\ g[i] = turn[i][g[i-1]]
    <3> HIDE DEF turn
    <3>1. i \in 1..n /\ i - 1 \in 0..n
      BY <1>1
    <3>2. QED
      BY <1>3, <3>1 DEF IsLoop
  <2>2. QED
    BY <2>1
<1>6. Loop(g)
  <2> HIDE DEF T, n
  <2>1. QED
    BY <1>1, <1>4, <1>5
<1>7. Kept(plugins) = CHOOSE h : Loop(h)
  BY DEF Kept
<1>8. Loop(Kept(plugins))
  BY <1>6, <1>7
<1>9. /\ Kept(plugins) = [i \in 0..n |-> Kept(plugins)[i]]
      /\ Kept(plugins)[0] = << >>
      /\ \A i \in 1..n : Kept(plugins)[i] = Keep(Kept(plugins)[i-1], plugins[i])
  <2> HIDE DEF T
  <2>1. QED
    BY <1>1, <1>8
<1>10. Runs(Kept(plugins), n, T, << >>, turn)
  <2> HIDE DEF n, T
  <2>1. QED
    BY <1>9 DEF Runs
<1>11. Kept(plugins) \in [0..n -> T]
  <2> HIDE DEF turn, n, T
  <2>1. QED
    BY <1>1, <1>2, <1>10, LoopType
<1>12. QED
  BY <1>9, <1>11

LEMMA EnrichedLoop ==
    ASSUME NEW plugins \in Seq(Plugins)
    PROVE  /\ Enriched(plugins) \in [0..Len(plugins) -> Seq(Nat)]
           /\ Enriched(plugins)[0] = << >>
           /\ \A i \in 1..Len(plugins) : Enriched(plugins)[i] = Enrich(Enriched(plugins)[i-1], plugins[i], i)
<1> DEFINE n == Len(plugins)
           T == Seq(Nat)
           turn == [i \in 1..n |-> [notes \in T |-> Enrich(notes, plugins[i], i)]]
           Loop(h) == h = [i \in 0..n |-> IF i = 0 THEN << >> ELSE Enrich(h[i-1], plugins[i], i)]
<1>1. n \in Nat /\ << >> \in T /\ \A i \in 1..n : plugins[i] \in Plugins
  OBVIOUS
<1>2. turn \in [1..n -> [T -> T]]
  <2>1. ASSUME NEW i \in 1..n, NEW notes \in T PROVE Enrich(notes, plugins[i], i) \in T
    BY <1>1 DEF Enrich
  <2>2. QED
    <3> HIDE DEF n, T
    <3>1. QED
      BY <2>1
<1>3. PICK g : IsLoop(g, n, T, << >>, turn)
  <2> HIDE DEF turn, n, T
  <2>1. QED
    BY <1>1, <1>2, LoopExists
<1>4. g \in [0..n -> T] /\ g[0] = << >>
  <2> HIDE DEF turn, n, T
  <2>1. QED
    BY <1>3 DEF IsLoop
<1>5. \A i \in 1..n : g[i] = Enrich(g[i-1], plugins[i], i)
  <2> TAKE i \in 1..n
  <2> HIDE DEF T, n
  <2>1. g[i-1] \in T /\ g[i] = turn[i][g[i-1]]
    <3> HIDE DEF turn
    <3>1. i \in 1..n /\ i - 1 \in 0..n
      BY <1>1
    <3>2. QED
      BY <1>3, <3>1 DEF IsLoop
  <2>2. QED
    BY <2>1
<1>6. Loop(g)
  <2> HIDE DEF T, n
  <2>1. QED
    BY <1>1, <1>4, <1>5
<1>7. Enriched(plugins) = CHOOSE h : Loop(h)
  BY DEF Enriched
<1>8. Loop(Enriched(plugins))
  BY <1>6, <1>7
<1>9. /\ Enriched(plugins) = [i \in 0..n |-> Enriched(plugins)[i]]
      /\ Enriched(plugins)[0] = << >>
      /\ \A i \in 1..n : Enriched(plugins)[i] = Enrich(Enriched(plugins)[i-1], plugins[i], i)
  <2> HIDE DEF T
  <2>1. QED
    BY <1>1, <1>8
<1>10. Runs(Enriched(plugins), n, T, << >>, turn)
  <2> HIDE DEF n, T
  <2>1. QED
    BY <1>9 DEF Runs
<1>11. Enriched(plugins) \in [0..n -> T]
  <2> HIDE DEF turn, n, T
  <2>1. QED
    BY <1>1, <1>2, <1>10, LoopType
<1>12. QED
  BY <1>9, <1>11

LEMMA AllowedAppend ==
    ASSUME NEW h \in Seq(Plugins), NEW p \in Plugins
    PROVE  ShouldProcess(Append(h, p)) <=> ShouldProcess(h) /\ Allows(p)
<1>1. /\ DOMAIN h = 1..Len(h) /\ Len(h) \in Nat
      /\ DOMAIN Append(h, p) = 1..(Len(h) + 1)
      /\ \A i \in 1..Len(h) : Append(h, p)[i] = h[i]
      /\ Append(h, p)[Len(h) + 1] = p
  OBVIOUS
<1>2. QED
  <2> DEFINE n == Len(h)
             q == Append(h, p)
  <2>1. 1..(n + 1) = (1..n) \cup {n + 1}
    BY <1>1
  <2> HIDE DEF n, q
  <2>2. (\A i \in 1..(n + 1) : Allows(q[i])) <=> (\A i \in 1..n : Allows(h[i])) /\ Allows(p)
    BY <1>1, <2>1, Zenon DEF n, q
  <2>3. QED
    BY <1>1, <2>2, Zenon DEF n, q, ShouldProcess

(* The first of a list with one more at its end. *)
LEMMA ActionAppend ==
    ASSUME NEW h \in Seq(Plugins), NEW p \in Plugins
    PROVE  DuplicateAction(Append(h, p)) =
             IF DuplicateAction(h) # NoAction THEN DuplicateAction(h)
             ELSE IF Fails(p) THEN NoAction ELSE p.action
<1> DEFINE n == Len(h)
           q == Append(h, p)
           IsFirst(i, S) == i \in S /\ \A j \in S : i <= j
<1>1. /\ DOMAIN h = 1..n /\ n \in Nat /\ DOMAIN q = 1..(n + 1)
      /\ \A i \in 1..n : q[i] = h[i]
      /\ q[n + 1] = p
  OBVIOUS
<1>2. Acting(h) \subseteq 1..n
  BY <1>1 DEF Acting
<1>3. Acting(q) = IF ~Fails(p) /\ p.action # NoAction THEN Acting(h) \cup {n + 1} ELSE Acting(h)
  <2> HIDE DEF n, q
  <2>1. QED
    BY <1>1 DEF Acting
<1> HIDE DEF q
<1>4. CASE Acting(h) # {}
  <2>1. PICK k : IsFirst(k, Acting(h))
    <3>1. Acting(h) \in SUBSET Nat
      BY <1>1, <1>2
    <3>2. QED
      BY <1>4, <3>1, Least
  <2>2. \A j : IsFirst(j, Acting(h)) => j = k
    BY <1>1, <1>2, <2>1
  <2>3. IsFirst(k, Acting(q)) /\ \A j : IsFirst(j, Acting(q)) => j = k
    BY <1>1, <1>2, <1>3, <2>1
  <2>4. /\ (CHOOSE i \in Acting(h) : \A j \in Acting(h) : i <= j) = k
        /\ (CHOOSE i \in Acting(q) : \A j \in Acting(q) : i <= j) = k
    BY <2>1, <2>2, <2>3
  <2>5. DuplicateAction(h) = h[k].action /\ DuplicateAction(q) = q[k].action
    BY <1>4, <2>3, <2>4 DEF DuplicateAction
  <2>6. h[k].action # NoAction
    BY <2>1 DEF Acting
  <2>7. q[k] = h[k]
    BY <1>1, <1>2, <2>1
  <2>8. QED
    BY <2>5, <2>6, <2>7 DEF q
<1>5. CASE Acting(h) = {}
  <2>1. DuplicateAction(h) = NoAction
    BY <1>5 DEF DuplicateAction
  <2>2. CASE ~Fails(p) /\ p.action # NoAction
    <3>1. Acting(q) = {n + 1}
      BY <1>3, <1>5, <2>2
    <3>2. (CHOOSE i \in Acting(q) : \A j \in Acting(q) : i <= j) = n + 1
      BY <1>1, <3>1
    <3>3. DuplicateAction(q) = p.action
      BY <1>1, <3>1, <3>2 DEF DuplicateAction
    <3>4. QED
      BY <2>1, <2>2, <3>3 DEF q
  <2>3. CASE ~(~Fails(p) /\ p.action # NoAction)
    <3>1. DuplicateAction(q) = NoAction
      BY <1>3, <1>5, <2>3 DEF DuplicateAction
    <3>2. QED
      BY <2>1, <2>3, <3>1 DEF q
  <2>4. QED
    BY <2>2, <2>3
<1>6. QED
  BY <1>4, <1>5

(* The plugins up to the i-th answer as those of them that are kept do.    *)
Agree(plugins, i) ==
    LET some == SubSeq(plugins, 1, i)
        kept == Kept(plugins)[i]
    IN /\ ShouldProcess(some) <=> ShouldProcess(kept)
       /\ DuplicateAction(some) = DuplicateAction(kept)

LEMMA HealthyAgree ==
    ASSUME NEW plugins \in Seq(Plugins)
    PROVE  \A i \in 0..Len(plugins) : Agree(plugins, i)
<1> DEFINE n == Len(plugins)
           S == {i \in Nat : i <= n => Agree(plugins, i)}
<1>1. n \in Nat
  OBVIOUS
<1>2. 0 \in S
  <2>1. SubSeq(plugins, 1, 0) = << >> /\ Kept(plugins)[0] = << >>
    BY KeptLoop
  <2>2. QED
    BY <2>1 DEF Agree
<1>3. ASSUME NEW i \in Nat, i \in S PROVE i + 1 \in S
  <2> SUFFICES ASSUME i + 1 \in 1..n PROVE Agree(plugins, i + 1)
    BY <1>1
  <2> DEFINE p == plugins[i + 1]
             some == SubSeq(plugins, 1, i)
             kept == Kept(plugins)[i]
  <2>1. /\ p \in Plugins /\ some \in Seq(Plugins)
        /\ i \in 0..n /\ i + 1 \in 1..n /\ (i + 1) - 1 = i
    BY <1>1
  <2>2. SubSeq(plugins, 1, i + 1) = Append(some, p)
    BY <1>1
  <2>3. kept \in Seq(Plugins)
    BY <2>1, KeptLoop
  <2>4. Kept(plugins)[i + 1] = Keep(kept, p)
    <3>1. Kept(plugins)[i + 1] = Keep(Kept(plugins)[(i + 1) - 1], plugins[i + 1])
      BY <2>1, KeptLoop
    <3>2. QED
      BY <2>1, <3>1
  <2>5. (ShouldProcess(some) <=> ShouldProcess(kept)) /\ DuplicateAction(some) = DuplicateAction(kept)
    BY <1>1, <1>3 DEF Agree
  <2> HIDE DEF p, some, kept
  <2>6. /\ ShouldProcess(Append(some, p)) <=> ShouldProcess(some) /\ Allows(p)
        /\ ShouldProcess(Append(kept, p)) <=> ShouldProcess(kept) /\ Allows(p)
    BY <2>1, <2>3, AllowedAppend
  <2>7. DuplicateAction(some) # NoAction => DuplicateAction(Append(some, p)) = DuplicateAction(some)
    BY <2>1, ActionAppend
  <2>8. CASE Fails(p)
    <3>1. Keep(kept, p) = kept /\ Allows(p)
      BY <2>8 DEF Keep, Allows
    <3>2. DuplicateAction(Append(some, p)) = DuplicateAction(some)
      BY <2>1, <2>8, ActionAppend
    <3>3. QED
      BY <2>2, <2>4, <2>5, <2>6, <3>1, <3>2, Zenon DEF Agree
  <2>9. CASE ~Fails(p)
    <3>1. Keep(kept, p) = Append(kept, p)
      BY <2>9 DEF Keep
    <3>2. DuplicateAction(Append(some, p)) = DuplicateAction(Append(kept, p))
      BY <2>1, <2>3, <2>5, ActionAppend
    <3>3. QED
      BY <2>2, <2>4, <2>5, <2>6, <3>1, <3>2, Zenon DEF Agree
  <2>10. QED
    BY <2>8, <2>9
<1>4. Nat \subseteq S
  <2> HIDE DEF S
  <2>1. QED
    BY <1>2, <1>3, NatSetInduction
<1>5. QED
  BY <1>1, <1>4

(* A note, once written, stays. *)
LEMMA NotesStay ==
    ASSUME NEW plugins \in Seq(Plugins), NEW k \in 1..Len(plugins), ~Fails(plugins[k])
    PROVE  \A i \in k..Len(plugins) : Contains(Enriched(plugins)[i], k)
<1> DEFINE n == Len(plugins)
           S == {i \in Nat : i \in k..n => Contains(Enriched(plugins)[i], k)}
<1>1. n \in Nat /\ k \in Nat /\ k > 0
  OBVIOUS
<1>2. 0 \in S
  BY <1>1
<1>3. ASSUME NEW i \in Nat, i \in S PROVE i + 1 \in S
  <2> SUFFICES ASSUME i + 1 \in k..n PROVE Contains(Enriched(plugins)[i + 1], k)
    BY <1>1
  <2> DEFINE notes == Enriched(plugins)[i]
  <2>1. i \in 0..n /\ i + 1 \in 1..n /\ (i + 1) - 1 = i
    BY <1>1
  <2>2. notes \in Seq(Nat)
    BY <2>1, EnrichedLoop
  <2>3. Enriched(plugins)[i + 1] = Enrich(notes, plugins[i + 1], i + 1)
    <3>1. Enriched(plugins)[i + 1] = Enrich(Enriched(plugins)[(i + 1) - 1], plugins[i + 1], i + 1)
      BY <2>1, EnrichedLoop
    <3>2. QED
      BY <2>1, <3>1
  <2>4. i + 1 = k \/ Contains(notes, k)
    BY <1>1, <1>3
  <2> HIDE DEF notes
  <2>5. /\ Len(notes) \in Nat
        /\ Len(Append(notes, i + 1)) = Len(notes) + 1
        /\ \A j \in 1..Len(notes) : Append(notes, i + 1)[j] = notes[j]
        /\ Append(notes, i + 1)[Len(notes) + 1] = i + 1
    BY <2>2
  <2>6. CASE plugins[i + 1].raises = "first"
    <3>1. i + 1 # k
      BY <2>6 DEF Fails
    <3>2. QED
      BY <2>3, <2>4, <2>6, <3>1 DEF Enrich
  <2>7. CASE plugins[i + 1].raises # "first"
    <3>1. Contains(Append(notes, i + 1), k)
      <4>1. CASE i + 1 = k
        BY <2>5, <4>1 DEF Contains
      <4>2. CASE Contains(notes, k)
        BY <2>5, <4>2 DEF Contains
      <4>3. QED
        BY <2>4, <4>1, <4>2
    <3>2. QED
      BY <2>3, <2>7, <3>1 DEF Enrich
  <2>8. QED
    BY <2>6, <2>7
<1>4. Nat \subseteq S
  <2> HIDE DEF S
  <2>1. QED
    BY <1>2, <1>3, NatSetInduction
<1>5. QED
  BY <1>1, <1>4

(* For every list of plugins: one that raises is as good as not there, and *)
(* costs no other its turn (plugins/manager.py 26-89).                     *)
THEOREM RaisingPluginsDoNotCount ==
    \A plugins \in Seq(Plugins) :
        /\ ShouldProcess(plugins) = ShouldProcess(Healthy(plugins))
        /\ DuplicateAction(plugins) = DuplicateAction(Healthy(plugins))
        /\ \A i \in DOMAIN plugins :
             ~Fails(plugins[i]) => Contains(EnrichContext(plugins), i)
<1> TAKE plugins \in Seq(Plugins)
<1> DEFINE n == Len(plugins)
<1>1. n \in Nat /\ DOMAIN plugins = 1..n /\ SubSeq(plugins, 1, n) = plugins
  OBVIOUS
<1>2. Agree(plugins, n)
  BY <1>1, HealthyAgree
<1>3. /\ ShouldProcess(plugins) <=> ShouldProcess(Healthy(plugins))
      /\ DuplicateAction(plugins) = DuplicateAction(Healthy(plugins))
  BY <1>1, <1>2 DEF Agree, Healthy
<1>4. ASSUME NEW i \in DOMAIN plugins, ~Fails(plugins[i])
      PROVE  Contains(EnrichContext(plugins), i)
  <2>1. i \in 1..n /\ n \in i..n
    BY <1>1
  <2>2. QED
    BY <1>4, <2>1, NotesStay DEF EnrichContext
<1>5. ShouldProcess(plugins) = ShouldProcess(Healthy(plugins))
  BY <1>3 DEF ShouldProcess
<1>6. QED
  BY <1>3, <1>4, <1>5

(* The property of the run. *)
THEOREM PluginFailuresStayContained == Spec => []PluginFailuresContained
<1>1. Answerable => PluginFailuresContained
  BY RaisingPluginsDoNotCount DEF Answerable, PluginFailuresContained
<1>2. QED
  BY <1>1, QuestionsAnswerable, PTL

-----------------------------------------------------------------------------
(* Texts.  The user names here are the ones that have no wildcard, and     *)
(* neither the mark of a comment nor a dot at their head.                  *)
Free(t, chars) == \A i \in 1..Len(t) : t[i] \notin chars

LabelTexts == Seq(Letters) \ {<< >>}

UserTexts ==
    {t \in Seq(Chars) : t # << >> /\ Free(t, {"@", "*", "?"}) /\ t[1] \notin {"#", "."}}

PlainAddresses == [user : UserTexts, labels : Seq(LabelTexts) \ {<< >>}]

(* t ends with s *)
Ends(t, s) ==
    /\ Len(s) <= Len(t)
    /\ \A k \in 0..(Len(s) - 1) : t[Len(t) - k] = s[Len(s) - k]

(* Two texts with a separator between them. *)
Sep(a, c, w) == (a \o <<c>>) \o w

IsSep(s, a, c, w) ==
    /\ s \in Seq(Chars) /\ Len(s) = Len(a) + 1 + Len(w)
    /\ \A i \in 1..Len(a) : s[i] = a[i]
    /\ s[Len(a) + 1] = c
    /\ \A i \in 1..Len(w) : s[Len(a) + 1 + i] = w[i]

LEMMA Parts ==
    ASSUME NEW a \in Seq(Chars), NEW c \in Chars, NEW w \in Seq(Chars)
    PROVE  IsSep(Sep(a, c, w), a, c, w)
<1> DEFINE ac == a \o <<c>>
<1>1. Len(a) \in Nat /\ Len(w) \in Nat
  OBVIOUS
<1>2. /\ ac \in Seq(Chars) /\ Len(ac) = Len(a) + 1
      /\ \A i \in 1..Len(a) : ac[i] = a[i]
      /\ ac[Len(a) + 1] = c
  OBVIOUS
<1> HIDE DEF ac
<1>3. /\ ac \o w \in Seq(Chars) /\ Len(ac \o w) = Len(ac) + Len(w)
      /\ \A i \in 1..Len(ac) : (ac \o w)[i] = ac[i]
      /\ \A i \in 1..Len(w) : (ac \o w)[Len(ac) + i] = w[i]
  BY <1>2
<1>4. Sep(a, c, w) = ac \o w
  BY DEF Sep, ac
<1>5. Len(a) + 1 \in 1..Len(ac) /\ \A i \in 1..Len(a) : i \in 1..Len(ac)
  BY <1>1, <1>2
<1>6. QED
  BY <1>2, <1>3, <1>4, <1>5 DEF IsSep

LEMMA SameTexts ==
    ASSUME NEW S, NEW s \in Seq(S), NEW t \in Seq(S)
    PROVE  /\ s = t <=> Len(s) = Len(t) /\ \A i \in 1..Len(s) : s[i] = t[i]
           /\ s = t <=> Ends(s, t) /\ Ends(t, s)
<1>1. Len(s) \in Nat /\ Len(t) \in Nat
  OBVIOUS
<1>2. /\ s = [i \in 1..Len(s) |-> s[i]] /\ t = [i \in 1..Len(t) |-> t[i]]
      /\ Len(s) \in Nat /\ Len(t) \in Nat
  OBVIOUS
<1>3. s = t <=> Len(s) = Len(t) /\ \A i \in 1..Len(s) : s[i] = t[i]
  BY <1>2
<1>4. ASSUME Ends(s, t), Ends(t, s), NEW i \in 1..Len(s) PROVE s[i] = t[i]
  <2>1. Len(s) = Len(t) /\ Len(s) - i \in 0..(Len(t) - 1) /\ Len(s) - (Len(s) - i) = i
    BY <1>1, <1>4 DEF Ends
  <2>2. s[Len(s) - (Len(s) - i)] = t[Len(t) - (Len(s) - i)]
    BY <1>4, <2>1 DEF Ends
  <2>3. QED
    BY <2>1, <2>2
<1>5. Ends(s, t) /\ Ends(t, s) => Len(s) = Len(t)
  BY <1>1 DEF Ends
<1>6. s = t => Ends(s, t) /\ Ends(t, s)
  BY <1>1 DEF Ends
<1>7. QED
  BY <1>3, <1>4, <1>5, <1>6

(* Of two texts, what is behind the last separator and what is before it.  *)
LEMMA LastPart ==
    ASSUME NEW c \in Chars, NEW a \in Seq(Chars), NEW b \in Seq(Chars),
           NEW v \in Seq(Chars), NEW w \in Seq(Chars), Free(v, {c}), Free(w, {c})
    PROVE  Ends(Sep(b, c, v), Sep(a, c, w)) <=> v = w /\ Ends(b, a)
<1> DEFINE s == Sep(a, c, w)
           t == Sep(b, c, v)
<1>1. /\ Len(s) = Len(a) + 1 + Len(w)
      /\ \A i \in 1..Len(a) : s[i] = a[i]
      /\ s[Len(a) + 1] = c
      /\ \A i \in 1..Len(w) : s[Len(a) + 1 + i] = w[i]
  <2>1. IsSep(s, a, c, w)
    BY Parts
  <2>2. QED
    BY <2>1 DEF IsSep
<1>2. /\ Len(t) = Len(b) + 1 + Len(v)
      /\ \A i \in 1..Len(b) : t[i] = b[i]
      /\ t[Len(b) + 1] = c
      /\ \A i \in 1..Len(v) : t[Len(b) + 1 + i] = v[i]
  <2>1. IsSep(t, b, c, v)
    BY Parts
  <2>2. QED
    BY <2>1 DEF IsSep
<1>3. Len(a) \in Nat /\ Len(b) \in Nat /\ Len(v) \in Nat /\ Len(w) \in Nat
  OBVIOUS
<1> HIDE DEF s, t
<1>4. ASSUME Ends(t, s) PROVE v = w /\ Ends(b, a)
  <2>1. /\ Len(s) <= Len(t)
        /\ \A k \in 0..(Len(s) - 1) : t[Len(t) - k] = s[Len(s) - k]
    BY <1>4 DEF Ends
  <2>2. ~(Len(w) < Len(v))
    <3> SUFFICES ASSUME Len(w) < Len(v) PROVE FALSE
      OBVIOUS
    <3>1. /\ Len(w) \in 0..(Len(s) - 1) /\ Len(s) - Len(w) = Len(a) + 1
          /\ Len(v) - Len(w) \in 1..Len(v)
          /\ Len(t) - Len(w) = Len(b) + 1 + (Len(v) - Len(w))
      BY <1>1, <1>2, <1>3
    <3>2. t[Len(t) - Len(w)] = c
      BY <1>1, <2>1, <3>1
    <3>3. t[Len(t) - Len(w)] = v[Len(v) - Len(w)]
      BY <1>2, <3>1
    <3>4. QED
      BY <3>1, <3>2, <3>3 DEF Free
  <2>3. ~(Len(v) < Len(w))
    <3> SUFFICES ASSUME Len(v) < Len(w) PROVE FALSE
      OBVIOUS
    <3>1. /\ Len(v) \in 0..(Len(s) - 1) /\ Len(t) - Len(v) = Len(b) + 1
          /\ Len(w) - Len(v) \in 1..Len(w)
          /\ Len(s) - Len(v) = Len(a) + 1 + (Len(w) - Len(v))
      BY <1>1, <1>2, <1>3
    <3>2. s[Len(s) - Len(v)] = c
      BY <1>2, <2>1, <3>1
    <3>3. s[Len(s) - Len(v)] = w[Len(w) - Len(v)]
      BY <1>1, <3>1
    <3>4. QED
      BY <3>1, <3>2, <3>3 DEF Free
  <2>4. Len(v) = Len(w)
    BY <1>3, <2>2, <2>3
  <2>5. ASSUME NEW i \in 1..Len(w) PROVE v[i] = w[i]
    <3>1. /\ Len(w) - i \in 0..(Len(s) - 1)
          /\ Len(s) - (Len(w) - i) = Len(a) + 1 + i
          /\ Len(t) - (Len(w) - i) = Len(b) + 1 + i
      BY <1>1, <1>2, <1>3, <2>4
    <3>2. t[Len(t) - (Len(w) - i)] = s[Len(s) - (Len(w) - i)]
      BY <2>1, <3>1
    <3>3. t[Len(b) + 1 + i] = s[Len(a) + 1 + i]
      BY <3>1, <3>2
    <3>4. QED
      BY <1>1, <1>2, <2>4, <3>3
  <2>6. v = w
    BY <2>4, <2>5, SameTexts
  <2>7. Len(a) <= Len(b)
    BY <1>1, <1>2, <1>3, <2>1, <2>4
  <2>8. ASSUME NEW k \in 0..(Len(a) - 1) PROVE b[Len(b) - k] = a[Len(a) - k]
    <3>1. /\ Len(w) + 1 + k \in 0..(Len(s) - 1)
          /\ Len(s) - (Len(w) + 1 + k) = Len(a) - k /\ Len(a) - k \in 1..Len(a)
          /\ Len(t) - (Len(w) + 1 + k) = Len(b) - k /\ Len(b) - k \in 1..Len(b)
      BY <1>1, <1>2, <1>3, <2>4, <2>7
    <3>2. t[Len(b) - k] = s[Len(a) - k]
      BY <2>1, <3>1
    <3>3. QED
      BY <1>1, <1>2, <3>1, <3>2
  <2>9. QED
    BY <2>6, <2>7, <2>8 DEF Ends
<1>5. ASSUME v = w, Ends(b, a) PROVE Ends(t, s)
  <2>1. Len(a) <= Len(b) /\ \A k \in 0..(Len(a) - 1) : b[Len(b) - k] = a[Len(a) - k]
    BY <1>5 DEF Ends
  <2>2. Len(s) <= Len(t)
    BY <1>1, <1>2, <1>3, <1>5, <2>1
  <2>3. ASSUME NEW k \in 0..(Len(s) - 1) PROVE t[Len(t) - k] = s[Len(s) - k]
    <3>1. CASE k < Len(w)
      <4>1. /\ Len(w) - k \in 1..Len(w)
            /\ Len(s) - k = Len(a) + 1 + (Len(w) - k)
            /\ Len(t) - k = Len(b) + 1 + (Len(w) - k)
        BY <1>1, <1>2, <1>3, <1>5, <3>1
      <4>2. QED
        BY <1>1, <1>2, <1>5, <4>1
    <3>2. CASE k = Len(w)
      <4>1. Len(s) - k = Len(a) + 1 /\ Len(t) - k = Len(b) + 1
        BY <1>1, <1>2, <1>3, <1>5, <3>2
      <4>2. QED
        BY <1>1, <1>2, <4>1
    <3>3. CASE k > Len(w)
      <4> DEFINE m == k - Len(w) - 1
      <4>1. /\ m \in 0..(Len(a) - 1)
            /\ Len(s) - k = Len(a) - m /\ Len(a) - m \in 1..Len(a)
            /\ Len(t) - k = Len(b) - m /\ Len(b) - m \in 1..Len(b)
        BY <1>1, <1>2, <1>3, <1>5, <2>1, <3>3
      <4> HIDE DEF m
      <4>2. QED
        BY <1>1, <1>2, <2>1, <4>1
    <3>4. QED
      BY <1>3, <3>1, <3>2, <3>3
  <2>4. QED
    BY <2>2, <2>3 DEF Ends
<1>6. QED
  BY <1>4, <1>5 DEF s, t

-----------------------------------------------------------------------------
(* The texts of domains. *)
LEMMA LabelsAreTexts ==
    ASSUME NEW l \in Seq(LabelTexts), NEW i \in 1..Len(l)
    PROVE  /\ l[i] \in Seq(Chars) /\ l[i] # << >>
           /\ Free(l[i], Marks)
           /\ Free(l[i], {"."}) /\ Free(l[i], {"@"})
<1>1. l[i] \in LabelTexts
  OBVIOUS
<1>2. l[i] \in Seq(Letters) /\ l[i] # << >>
  BY <1>1 DEF LabelTexts
<1>3. \A k \in 1..Len(l[i]) : l[i][k] \in Letters
  BY <1>2
<1>4. l[i] \in Seq(Chars)
  <2>1. Letters \subseteq Chars
    BY DEF Chars
  <2>2. QED
    BY <1>2, <2>1
<1>5. QED
  BY <1>2, <1>3, <1>4, LettersAssumption DEF Free, Marks

LEMMA MarksAreChars == Marks \subseteq Chars /\ "." \in Chars /\ "@" \in Chars
  BY DEF Marks, Chars

LEMMA JoinIsSep == \A text, label : Join(text, label) = Sep(text, ".", label)
  BY DEF Join, Sep

LEMMA DottedLoop ==
    ASSUME NEW l \in Seq(LabelTexts)
    PROVE  /\ Dotted(l) \in [0..Len(l) -> Seq(Chars)]
           /\ Dotted(l)[0] = << >>
           /\ \A i \in 1..Len(l) : Dotted(l)[i] = Sep(Dotted(l)[i-1], ".", l[i])
<1> DEFINE n == Len(l)
           T == Seq(Chars)
           turn == [i \in 1..n |-> [text \in T |-> Join(text, l[i])]]
           Loop(h) == h = [i \in 0..n |-> IF i = 0 THEN << >> ELSE Join(h[i-1], l[i])]
<1>1. n \in Nat /\ << >> \in T
  OBVIOUS
<1>2. turn \in [1..n -> [T -> T]]
  <2>1. ASSUME NEW i \in 1..n, NEW text \in T PROVE Join(text, l[i]) \in T
    BY LabelsAreTexts, MarksAreChars, JoinIsSep, Parts DEF IsSep
  <2>2. QED
    <3> HIDE DEF n, T
    <3>1. QED
      BY <2>1
<1>3. PICK g : IsLoop(g, n, T, << >>, turn)
  <2> HIDE DEF turn, n, T
  <2>1. QED
    BY <1>1, <1>2, LoopExists
<1>4. g \in [0..n -> T] /\ g[0] = << >>
  <2> HIDE DEF turn, n, T
  <2>1. QED
    BY <1>3 DEF IsLoop
<1>5. \A i \in 1..n : g[i] = Join(g[i-1], l[i])
  <2> TAKE i \in 1..n
  <2> HIDE DEF T, n
  <2>1. g[i-1] \in T /\ g[i] = turn[i][g[i-1]]
    <3> HIDE DEF turn
    <3>1. i \in 1..n /\ i - 1 \in 0..n
      BY <1>1
    <3>2. QED
      BY <1>3, <3>1 DEF IsLoop
  <2>2. QED
    BY <2>1
<1>6. Loop(g)
  <2> HIDE DEF T, n
  <2>1. QED
    BY <1>1, <1>4, <1>5
<1>7. Dotted(l) = CHOOSE h : Loop(h)
  BY DEF Dotted
<1>8. Loop(Dotted(l))
  BY <1>6, <1>7
<1>9. /\ Dotted(l) = [i \in 0..n |-> Dotted(l)[i]]
      /\ Dotted(l)[0] = << >>
      /\ \A i \in 1..n : Dotted(l)[i] = Join(Dotted(l)[i-1], l[i])
  <2> HIDE DEF T
  <2>1. QED
    BY <1>1, <1>8
<1>10. Runs(Dotted(l), n, T, << >>, turn)
  <2> HIDE DEF n, T
  <2>1. QED
    BY <1>9 DEF Runs
<1>11. Dotted(l) \in [0..n -> T]
  <2> HIDE DEF turn, n, T
  <2>1. QED
    BY <1>1, <1>2, <1>10, LoopType
<1>12. QED
  BY <1>9, <1>11, JoinIsSep

(* Of the beginnings of two lists of labels: the text of one ends with     *)
(* that of the other just if the list does.                                *)
LEMMA DottedEnds ==
    ASSUME NEW l \in Seq(LabelTexts), NEW d \in Seq(LabelTexts)
    PROVE  \A j \in 0..Len(d) : \A i \in 0..Len(l) :
             Ends(Dotted(l)[i], Dotted(d)[j]) <=>
               j <= i /\ \A k \in 0..(j - 1) : l[i - k] = d[j - k]
<1> DEFINE m == Len(l)
           n == Len(d)
           Tails(i, j) == j <= i /\ \A k \in 0..(j - 1) : l[i - k] = d[j - k]
           S == {j \in Nat : j <= n => \A i \in 0..m :
                               Ends(Dotted(l)[i], Dotted(d)[j]) <=> Tails(i, j)}
<1>1. m \in Nat /\ n \in Nat
  OBVIOUS
<1>2. 0 \in S
  <2>1. ASSUME NEW i \in 0..m PROVE Ends(Dotted(l)[i], Dotted(d)[0]) /\ Tails(i, 0)
    <3>1. Dotted(d)[0] = << >> /\ Dotted(l)[i] \in Seq(Chars)
      BY <1>1, DottedLoop
    <3>2. QED
      BY <1>1, <3>1 DEF Ends
  <2>2. QED
    BY <2>1
<1>3. ASSUME NEW j \in Nat, j \in S PROVE j + 1 \in S
  <2> SUFFICES ASSUME j + 1 \in 1..n, NEW i \in 0..m
               PROVE  Ends(Dotted(l)[i], Dotted(d)[j + 1]) <=> Tails(i, j + 1)
    BY <1>1
  <2>1. j \in 0..n /\ (j + 1) - 1 = j /\ Dotted(d)[j] \in Seq(Chars)
    <3>1. j \in 0..n /\ (j + 1) - 1 = j
      BY <1>1
    <3>2. QED
      BY <3>1, DottedLoop
  <2>2. Dotted(d)[j + 1] = Sep(Dotted(d)[j], ".", d[j + 1])
    <3>1. Dotted(d)[j + 1] = Sep(Dotted(d)[(j + 1) - 1], ".", d[j + 1])
      BY DottedLoop
    <3>2. QED
      BY <2>1, <3>1
  <2>3. d[j + 1] \in Seq(Chars) /\ Free(d[j + 1], {"."})
    BY LabelsAreTexts
  <2>4. CASE i = 0
    <3>1. Dotted(l)[i] = << >>
      BY <2>4, DottedLoop
    <3>2. Len(Dotted(d)[j + 1]) > 0
      <4>1. IsSep(Dotted(d)[j + 1], Dotted(d)[j], ".", d[j + 1])
        BY <2>1, <2>2, <2>3, Parts, MarksAreChars
      <4>2. Len(Dotted(d)[j + 1]) = Len(Dotted(d)[j]) + 1 + Len(d[j + 1])
        BY <4>1 DEF IsSep
      <4>3. Len(Dotted(d)[j]) \in Nat /\ Len(d[j + 1]) \in Nat
        BY <2>1, <2>3
      <4>4. \A x, y \in Nat : x + 1 + y > 0
        OBVIOUS
      <4>5. QED
        BY <4>2, <4>3, <4>4
    <3>3. ~Ends(Dotted(l)[i], Dotted(d)[j + 1])
      BY <3>1, <3>2 DEF Ends
    <3>4. ~Tails(i, j + 1)
      BY <2>4
    <3>5. QED
      BY <3>3, <3>4
  <2>5. CASE i \in 1..m
    <3>1. i - 1 \in 0..m /\ Dotted(l)[i - 1] \in Seq(Chars)
      <4>1. i - 1 \in 0..m
        BY <1>1, <2>5
      <4>2. QED
        BY <4>1, DottedLoop
    <3>2. Dotted(l)[i] = Sep(Dotted(l)[i - 1], ".", l[i])
      BY <2>5, DottedLoop
    <3>3. l[i] \in Seq(Chars) /\ Free(l[i], {"."})
      BY <2>5, LabelsAreTexts
    <3>4. Ends(Dotted(l)[i], Dotted(d)[j + 1])
            <=> l[i] = d[j + 1] /\ Ends(Dotted(l)[i - 1], Dotted(d)[j])
      BY <2>1, <2>2, <2>3, <3>1, <3>2, <3>3, LastPart, MarksAreChars
    <3>5. Ends(Dotted(l)[i - 1], Dotted(d)[j]) <=> Tails(i - 1, j)
      BY <1>3, <2>1, <3>1
    <3>6. l[i] = d[j + 1] /\ Tails(i - 1, j) <=> Tails(i, j + 1)
      <4>1. ASSUME Tails(i, j + 1) PROVE l[i] = d[j + 1] /\ Tails(i - 1, j)
        <5>1. l[i] = d[j + 1]
          <6>1. 0 \in 0..((j + 1) - 1) /\ i - 0 = i /\ (j + 1) - 0 = j + 1
            BY <2>5
          <6>2. l[i - 0] = d[(j + 1) - 0]
            BY <4>1, <6>1
          <6>3. QED
            BY <6>1, <6>2
        <5>2. ASSUME NEW k \in 0..(j - 1) PROVE l[(i - 1) - k] = d[j - k]
          <6>1. k + 1 \in 0..((j + 1) - 1) /\ i - (k + 1) = (i - 1) - k /\ (j + 1) - (k + 1) = j - k
            BY <2>5
          <6>2. l[i - (k + 1)] = d[(j + 1) - (k + 1)]
            BY <4>1, <6>1
          <6>3. QED
            BY <6>1, <6>2
        <5>3. j <= i - 1
          BY <2>5, <4>1
        <5>4. QED
          BY <2>5, <5>1, <5>2, <5>3
      <4>2. ASSUME l[i] = d[j + 1], Tails(i - 1, j) PROVE Tails(i, j + 1)
        <5>1. ASSUME NEW k \in 0..((j + 1) - 1) PROVE l[i - k] = d[(j + 1) - k]
          <6>1. CASE k = 0
            BY <2>5, <4>2, <6>1
          <6>2. CASE k # 0
            <7>1. k - 1 \in 0..(j - 1) /\ (i - 1) - (k - 1) = i - k /\ j - (k - 1) = (j + 1) - k
              BY <2>5, <6>2
            <7>2. l[(i - 1) - (k - 1)] = d[j - (k - 1)]
              BY <4>2, <7>1
            <7>3. QED
              BY <7>1, <7>2
          <6>3. QED
            BY <6>1, <6>2
        <5>2. QED
          BY <2>5, <4>2, <5>1
      <4>3. QED
        BY <4>1, <4>2
    <3>7. QED
      BY <3>4, <3>5, <3>6
  <2>6. QED
    BY <1>1, <2>4, <2>5
<1>4. Nat \subseteq S
  <2> HIDE DEF S
  <2>1. QED
    BY <1>2, <1>3, NatSetInduction
<1>5. ASSUME NEW j \in 0..n, NEW i \in 0..m
      PROVE  Ends(Dotted(l)[i], Dotted(d)[j]) <=> Tails(i, j)
  <2>1. j \in S /\ j <= n
    <3> HIDE DEF S
    <3>1. QED
      BY <1>1, <1>4
  <2>2. QED
    BY <1>1, <2>1
<1>6. QED
  BY <1>5

(* The two other ways to say that a sequence ends with another.            *)
LEMMA EndsIsSuffix ==
    ASSUME NEW S, NEW s \in Seq(S), NEW t \in Seq(S)
    PROVE  IsSuffix(s, t) <=> Ends(t, s)
<1> DEFINE m == Len(s)
           n == Len(t)
           rs == Reverse(s)
           rt == Reverse(t)
<1>1. m \in Nat /\ n \in Nat
  OBVIOUS
<1>2. /\ rs \in Seq(S) /\ Len(rs) = m /\ \A i \in 1..m : rs[i] = s[(m - i) + 1]
      /\ rt \in Seq(S) /\ Len(rt) = n /\ \A i \in 1..n : rt[i] = t[(n - i) + 1]
  BY <1>1 DEF Reverse
<1> HIDE DEF rs, rt
<1>3. ASSUME m <= n
      PROVE  (SubSeq(rs, 1, m) = SubSeq(rt, 1, m)) <=> \A i \in 1..m : rs[i] = rt[i]
  <2>1. /\ SubSeq(rs, 1, m) \in Seq(S) /\ Len(SubSeq(rs, 1, m)) = m
        /\ \A i \in 1..m : SubSeq(rs, 1, m)[i] = rs[i]
    BY <1>1, <1>2
  <2>2. /\ SubSeq(rt, 1, m) \in Seq(S) /\ Len(SubSeq(rt, 1, m)) = m
        /\ \A i \in 1..m : SubSeq(rt, 1, m)[i] = rt[i]
    BY <1>1, <1>2, <1>3
  <2>3. (SubSeq(rs, 1, m) = SubSeq(rt, 1, m))
          <=> \A i \in 1..m : SubSeq(rs, 1, m)[i] = SubSeq(rt, 1, m)[i]
    BY <2>1, <2>2, SameTexts
  <2>4. QED
    BY <2>1, <2>2, <2>3
<1>4. IsSuffix(s, t) <=> m <= n /\ \A i \in 1..m : rs[i] = rt[i]
  BY <1>2, <1>3 DEF IsSuffix, IsPrefix, rs, rt
<1>5. ASSUME m <= n
      PROVE  (\A i \in 1..m : rs[i] = rt[i]) <=> \A k \in 0..(m - 1) : t[n - k] = s[m - k]
  <2>1. ASSUME \A i \in 1..m : rs[i] = rt[i], NEW k \in 0..(m - 1) PROVE t[n - k] = s[m - k]
    <3>1. k + 1 \in 1..m /\ k + 1 \in 1..n /\ (m - (k + 1)) + 1 = m - k /\ (n - (k + 1)) + 1 = n - k
      BY <1>1, <1>5
    <3>2. rs[k + 1] = s[(m - (k + 1)) + 1] /\ rt[k + 1] = t[(n - (k + 1)) + 1]
      BY <1>2, <3>1
    <3>3. QED
      BY <2>1, <3>1, <3>2
  <2>2. ASSUME \A k \in 0..(m - 1) : t[n - k] = s[m - k], NEW i \in 1..m PROVE rs[i] = rt[i]
    <3>1. i - 1 \in 0..(m - 1) /\ i \in 1..n /\ m - (i - 1) = (m - i) + 1 /\ n - (i - 1) = (n - i) + 1
      BY <1>1, <1>5
    <3>2. t[n - (i - 1)] = s[m - (i - 1)]
      BY <2>2, <3>1
    <3>3. QED
      BY <1>2, <3>1, <3>2
  <2>3. QED
    BY <2>1, <2>2
<1>6. QED
  BY <1>4, <1>5 DEF Ends

LEMMA EndsIsEndsWith ==
    ASSUME NEW S, NEW s \in Seq(S), NEW t \in Seq(S)
    PROVE  EndsWith(t, s) <=> Ends(t, s)
<1> DEFINE m == Len(s)
           n == Len(t)
           u == SubSeq(t, n - m + 1, n)
<1>1. m \in Nat /\ n \in Nat
  OBVIOUS
<1>2. ASSUME m <= n
      PROVE  u = s <=> \A k \in 0..(m - 1) : t[n - k] = s[m - k]
  <2>1. u \in Seq(S) /\ Len(u) = m /\ \A i \in 1..m : u[i] = t[(n - m + 1) + i - 1]
    BY <1>1, <1>2
  <2> HIDE DEF u
  <2>2. u = s <=> \A i \in 1..m : u[i] = s[i]
    BY <2>1, SameTexts
  <2>3. ASSUME \A i \in 1..m : u[i] = s[i], NEW k \in 0..(m - 1) PROVE t[n - k] = s[m - k]
    <3>1. m - k \in 1..m /\ (n - m + 1) + (m - k) - 1 = n - k
      BY <1>1
    <3>2. u[m - k] = t[(n - m + 1) + (m - k) - 1]
      BY <2>1, <3>1
    <3>3. QED
      BY <2>3, <3>1, <3>2
  <2>4. ASSUME \A k \in 0..(m - 1) : t[n - k] = s[m - k], NEW i \in 1..m PROVE u[i] = s[i]
    <3>1. m - i \in 0..(m - 1) /\ n - (m - i) = (n - m + 1) + i - 1 /\ m - (m - i) = i
      BY <1>1
    <3>2. t[n - (m - i)] = s[m - (m - i)]
      BY <2>4, <3>1
    <3>3. QED
      BY <2>1, <3>1, <3>2
  <2>5. QED
    BY <2>2, <2>3, <2>4
<1>3. QED
  BY <1>2 DEF EndsWith, Ends

(* With the same character before both: they are the same, or one ends     *)
(* with the other and what is before it.                                   *)
LEMMA EndsBehind ==
    ASSUME NEW c \in Chars, NEW x \in Seq(Chars), NEW y \in Seq(Chars)
    PROVE  Ends(Sep(<< >>, c, x), Sep(<< >>, c, y)) <=> x = y \/ Ends(x, Sep(<< >>, c, y))
<1> DEFINE t == Sep(<< >>, c, x)
           s == Sep(<< >>, c, y)
<1>1. << >> \in Seq(Chars) /\ Len(<< >>) = 0 /\ Len(x) \in Nat /\ Len(y) \in Nat
  OBVIOUS
<1>2. IsSep(t, << >>, c, x) /\ IsSep(s, << >>, c, y)
  BY <1>1, Parts
<1> HIDE DEF s, t
<1>3. /\ t \in Seq(Chars) /\ Len(t) = Len(x) + 1 /\ \A i \in 1..Len(x) : t[i + 1] = x[i]
      /\ s \in Seq(Chars) /\ Len(s) = Len(y) + 1 /\ \A i \in 1..Len(y) : s[i + 1] = y[i]
      /\ s[1] = c /\ t[1] = c
  <2>1. 0 + 1 = 1 /\ \A i \in Nat : 0 + 1 + i = i + 1
    OBVIOUS
  <2>2. Len(t) = Len(x) + 1 /\ Len(s) = Len(y) + 1
    BY <1>1, <1>2 DEF IsSep
  <2>3. ASSUME NEW i \in 1..Len(x) PROVE t[i + 1] = x[i]
    BY <1>1, <1>2, <2>1 DEF IsSep
  <2>4. ASSUME NEW i \in 1..Len(y) PROVE s[i + 1] = y[i]
    BY <1>1, <1>2, <2>1 DEF IsSep
  <2>5. QED
    BY <1>1, <1>2, <2>1, <2>2, <2>3, <2>4 DEF IsSep
<1>4. ASSUME Ends(t, s), Len(s) = Len(t) PROVE x = y
  <2>1. Ends(s, t)
    BY <1>1, <1>3, <1>4 DEF Ends
  <2>2. s = t
    BY <1>3, <1>4, <2>1, SameTexts
  <2>3. Len(x) = Len(y) /\ \A i \in 1..Len(x) : x[i] = y[i]
    BY <1>1, <1>3, <2>2
  <2>4. QED
    BY <2>3, SameTexts
<1>5. ASSUME Ends(t, s), Len(s) # Len(t) PROVE Ends(x, s)
  <2>1. Len(s) <= Len(x)
    BY <1>1, <1>3, <1>5 DEF Ends
  <2>2. ASSUME NEW k \in 0..(Len(s) - 1) PROVE x[Len(x) - k] = s[Len(s) - k]
    <3>1. Len(x) - k \in 1..Len(x) /\ (Len(x) - k) + 1 = Len(t) - k
      BY <1>1, <1>3, <2>1
    <3>2. t[(Len(x) - k) + 1] = x[Len(x) - k]
      BY <1>3, <3>1
    <3>3. t[Len(t) - k] = s[Len(s) - k]
      BY <1>5 DEF Ends
    <3>4. QED
      BY <3>1, <3>2, <3>3
  <2>3. QED
    BY <2>1, <2>2 DEF Ends
<1>6. ASSUME Ends(x, s) PROVE Ends(t, s)
  <2>1. Len(s) <= Len(x) /\ Len(s) <= Len(t)
    BY <1>1, <1>3, <1>6 DEF Ends
  <2>2. ASSUME NEW k \in 0..(Len(s) - 1) PROVE t[Len(t) - k] = s[Len(s) - k]
    <3>1. Len(x) - k \in 1..Len(x) /\ (Len(x) - k) + 1 = Len(t) - k
      BY <1>1, <1>3, <2>1
    <3>2. t[(Len(x) - k) + 1] = x[Len(x) - k]
      BY <1>3, <3>1
    <3>3. x[Len(x) - k] = s[Len(s) - k]
      BY <1>6 DEF Ends
    <3>4. QED
      BY <3>1, <3>2, <3>3
  <2>3. QED
    BY <2>1, <2>2 DEF Ends
<1>7. ASSUME x = y PROVE Ends(t, s)
  <2>1. s = t
    BY <1>7 DEF s, t
  <2>2. QED
    BY <1>3, <2>1, SameTexts
<1>8. QED
  BY <1>4, <1>5, <1>6, <1>7 DEF s, t

NoMarks == {"@", "*", "?", "#"}

(* A domain's text has no other mark than dots. *)
LEMMA DottedFacts ==
    ASSUME NEW l \in Seq(LabelTexts)
    PROVE  \A i \in 0..Len(l) :
             /\ Free(Dotted(l)[i], NoMarks)
             /\ i > 0 => Len(Dotted(l)[i]) > 1 /\ Dotted(l)[i][1] = "."
<1> DEFINE n == Len(l)
           D(i) == Dotted(l)[i]
           Good(i) == /\ Free(D(i), NoMarks)
                      /\ i > 0 => Len(D(i)) > 1 /\ D(i)[1] = "."
           S == {i \in Nat : i <= n => Good(i)}
<1>1. n \in Nat
  OBVIOUS
<1>2. 0 \in S
  <2>1. D(0) = << >>
    BY DottedLoop
  <2>2. QED
    BY <2>1 DEF Free
<1>3. ASSUME NEW i \in Nat, i \in S PROVE i + 1 \in S
  <2> SUFFICES ASSUME i + 1 \in 1..n PROVE Good(i + 1)
    BY <1>1
  <2>1. i \in 0..n /\ (i + 1) - 1 = i /\ Good(i)
    BY <1>1, <1>3
  <2>2. D(i) \in Seq(Chars)
    BY <2>1, DottedLoop
  <2>3. D(i + 1) = Sep(D(i), ".", l[i + 1])
    <3>1. D(i + 1) = Sep(Dotted(l)[(i + 1) - 1], ".", l[i + 1])
      BY DottedLoop
    <3>2. QED
      BY <2>1, <3>1
  <2>4. l[i + 1] \in Seq(Chars) /\ l[i + 1] # << >> /\ Free(l[i + 1], Marks)
    BY LabelsAreTexts
  <2> DEFINE a == D(i)
             w == l[i + 1]
             b == D(i + 1)
  <2>5. IsSep(b, a, ".", w)
    BY <2>2, <2>3, <2>4, Parts, MarksAreChars
  <2>6. Len(a) \in Nat /\ Len(w) \in Nat /\ Len(w) > 0
    BY <2>2, <2>4
  <2>7. i = 0 => Len(a) = 0
    <3>1. i = 0 => a = << >>
      BY DottedLoop
    <3>2. QED
      BY <3>1
  <2>8. Free(a, NoMarks) /\ (i > 0 => Len(a) > 1 /\ a[1] = ".")
    BY <2>1
  <2>9. Free(w, Marks)
    BY <2>4
  <2> HIDE DEF a, w, b
  <2>10. ASSUME NEW k \in 1..Len(b) PROVE b[k] \notin NoMarks
    <3>1. Len(b) = Len(a) + 1 + Len(w)
      BY <2>5 DEF IsSep
    <3>2. CASE k \in 1..Len(a)
      BY <2>5, <2>8, <3>2 DEF IsSep, Free
    <3>3. CASE k = Len(a) + 1
      BY <2>5, <3>3 DEF IsSep, NoMarks
    <3>4. CASE k > Len(a) + 1
      <4>1. k - Len(a) - 1 \in 1..Len(w) /\ Len(a) + 1 + (k - Len(a) - 1) = k
        BY <2>6, <3>1, <3>4
      <4>2. b[Len(a) + 1 + (k - Len(a) - 1)] = w[k - Len(a) - 1]
        BY <2>5, <4>1 DEF IsSep
      <4>3. QED
        BY <2>9, <4>1, <4>2 DEF Free, Marks, NoMarks
    <3>5. QED
      BY <2>6, <3>2, <3>3, <3>4
  <2>11. Len(b) > 1
    <3>1. Len(b) = Len(a) + 1 + Len(w)
      BY <2>5 DEF IsSep
    <3>2. QED
      BY <2>6, <3>1
  <2>12. b[1] = "."
    <3>1. CASE i = 0
      <4>1. Len(a) + 1 = 1
        BY <2>7, <3>1
      <4>2. QED
        BY <2>5, <4>1 DEF IsSep
    <3>2. CASE i > 0
      <4>1. 1 \in 1..Len(a) /\ a[1] = "."
        BY <2>6, <2>8, <3>2
      <4>2. QED
        BY <2>5, <4>1 DEF IsSep
    <3>3. QED
      BY <3>1, <3>2
  <2>13. QED
    BY <2>10, <2>11, <2>12 DEF Free, b
<1>4. Nat \subseteq S
  <2> HIDE DEF S
  <2>1. QED
    BY <1>2, <1>3, NatSetInduction
<1>5. ASSUME NEW i \in 0..n PROVE Good(i)
  <2>1. i \in S /\ i <= n
    <3> HIDE DEF S
    <3>1. QED
      BY <1>1, <1>4
  <2>2. QED
    BY <2>1
<1>6. QED
  BY <1>5

LEMMA DomainFacts ==
    ASSUME NEW l \in Seq(LabelTexts) \ {<< >>}
    PROVE  /\ DomainText(l) \in Seq(Chars) /\ Len(DomainText(l)) > 0
           /\ Free(DomainText(l), NoMarks)
           /\ Dotted(l)[Len(l)] = Sep(<< >>, ".", DomainText(l))
<1> DEFINE D == Dotted(l)[Len(l)]
           t == DomainText(l)
<1>1. Len(l) \in Nat /\ Len(l) > 0 /\ Len(l) \in 0..Len(l) /\ l \in Seq(LabelTexts)
  OBVIOUS
<1>2. D \in Seq(Chars) /\ Free(D, NoMarks) /\ Len(D) > 1 /\ D[1] = "."
  BY <1>1, DottedLoop, DottedFacts
<1>3. t = Tail(D)
  BY DEF DomainText
<1> HIDE DEF D, t
<1>4. /\ t \in Seq(Chars) /\ Len(t) = Len(D) - 1 /\ Len(D) \in Nat
      /\ \A i \in 1..Len(t) : t[i] = D[i + 1]
  BY <1>2, <1>3
<1>5. Len(t) > 0 /\ Len(t) \in Nat
  BY <1>2, <1>4
<1>6. Free(t, NoMarks)
  <2>1. ASSUME NEW i \in 1..Len(t) PROVE t[i] \notin NoMarks
    <3>1. i + 1 \in 1..Len(D)
      BY <1>4
    <3>2. QED
      BY <1>2, <1>4, <3>1 DEF Free
  <2>2. QED
    BY <2>1 DEF Free
<1>7. D = Sep(<< >>, ".", t)
  <2> DEFINE u == Sep(<< >>, ".", t)
  <2>1. IsSep(u, << >>, ".", t)
    <3>1. << >> \in Seq(Chars)
      OBVIOUS
    <3>2. QED
      BY <1>4, <3>1, Parts, MarksAreChars
  <2>2. Len(<< >>) = 0
    OBVIOUS
  <2> HIDE DEF u
  <2>3. u \in Seq(Chars) /\ Len(u) = Len(D)
    BY <1>4, <1>5, <2>1, <2>2 DEF IsSep
  <2>4. ASSUME NEW i \in 1..Len(u) PROVE u[i] = D[i]
    <3>1. CASE i = 1
      <4>1. Len(<< >>) + 1 = 1
        BY <2>2
      <4>2. QED
        BY <1>2, <2>1, <3>1, <4>1 DEF IsSep
    <3>2. CASE i # 1
      <4>1. i - 1 \in 1..Len(t) /\ Len(<< >>) + 1 + (i - 1) = i /\ (i - 1) + 1 = i
        BY <1>4, <1>5, <2>2, <2>3, <3>2
      <4>2. u[Len(<< >>) + 1 + (i - 1)] = t[i - 1]
        BY <2>1, <4>1 DEF IsSep
      <4>3. t[i - 1] = D[(i - 1) + 1]
        BY <1>4, <4>1
      <4>4. QED
        BY <4>1, <4>2, <4>3
    <3>3. QED
      BY <3>1, <3>2
  <2>5. u = D
    BY <1>2, <2>3, <2>4, SameTexts
  <2>6. QED
    BY <2>5 DEF u
<1>8. QED
  BY <1>4, <1>5, <1>6, <1>7 DEF D, t

LEMMA MarkInFront == \A c, t : <<c>> \o t = Sep(<< >>, c, t)
<1> TAKE c, t
<1>1. << >> \o <<c>> = <<c>>
  OBVIOUS
<1>2. QED
  BY <1>1 DEF Sep

(* What the rules of the code ask about domains, in terms of their labels. *)
LEMMA DomainsCompare ==
    ASSUME NEW l \in Seq(LabelTexts) \ {<< >>}, NEW d \in Seq(LabelTexts) \ {<< >>}
    PROVE  /\ Below(DomainText(l), DomainText(d)) <=> EndsWith(l, d)
           /\ DomainText(l) = DomainText(d) <=> l = d
<1> DEFINE x == DomainText(l)
           y == DomainText(d)
           dl == Dotted(l)[Len(l)]
           dd == Dotted(d)[Len(d)]
<1>1. /\ x \in Seq(Chars) /\ dl = Sep(<< >>, ".", x)
      /\ y \in Seq(Chars) /\ dd = Sep(<< >>, ".", y)
  BY DomainFacts
<1>2. /\ l \in Seq(LabelTexts) /\ Len(l) \in 0..Len(l)
      /\ d \in Seq(LabelTexts) /\ Len(d) \in 0..Len(d)
  OBVIOUS
<1>3. Ends(dl, dd) <=> EndsWith(l, d)
  <2>1. Ends(dl, dd) <=> Ends(l, d)
    BY <1>2, DottedEnds DEF Ends
  <2>2. QED
    BY <1>2, <2>1, EndsIsEndsWith
<1>4. Ends(dd, dl) <=> EndsWith(d, l)
  <2>1. Ends(dd, dl) <=> Ends(d, l)
    BY <1>2, DottedEnds DEF Ends
  <2>2. QED
    BY <1>2, <2>1, EndsIsEndsWith
<1> HIDE DEF x, y, dl, dd
<1>5. Below(x, y) <=> Ends(dl, dd)
  <2>1. <<".">> \o y = dd
    BY <1>1, MarkInFront
  <2>2. dd \in Seq(Chars)
    <3>1. << >> \in Seq(Chars)
      OBVIOUS
    <3>2. QED
      BY <1>1, <3>1, Parts, MarksAreChars DEF IsSep
  <2>3. IsSuffix(dd, x) <=> Ends(x, dd)
    BY <1>1, <2>2, EndsIsSuffix
  <2>4. Ends(dl, dd) <=> x = y \/ Ends(x, dd)
    BY <1>1, EndsBehind, MarksAreChars
  <2>5. QED
    BY <2>1, <2>3, <2>4 DEF Below
<1>6. ASSUME x = y PROVE l = d
  <2>1. dl = dd /\ dl \in Seq(Chars)
    <3>1. << >> \in Seq(Chars)
      OBVIOUS
    <3>2. QED
      BY <1>1, <1>6, <3>1, Parts, MarksAreChars DEF IsSep
  <2>2. Ends(dl, dd) /\ Ends(dd, dl)
    BY <2>1, SameTexts
  <2>3. Ends(l, d) /\ Ends(d, l)
    BY <1>2, <1>3, <1>4, <2>2, EndsIsEndsWith
  <2>4. QED
    BY <1>2, <2>3, SameTexts
<1>7. l = d => x = y
  BY DEF x, y
<1>8. QED
  BY <1>3, <1>5, <1>6, <1>7 DEF x, y

(* The texts of addresses. *)
LEMMA AddressFacts ==
    ASSUME NEW a \in PlainAddresses
    PROVE  /\ a.user \in Seq(Chars) /\ Len(a.user) > 0 /\ Free(a.user, {"@", "*", "?"})
           /\ a.user[1] # "#"
           /\ a.labels \in Seq(LabelTexts) \ {<< >>}
           /\ AddressText(a) = Sep(a.user, "@", DomainText(a.labels))
<1>1. a.user \in UserTexts /\ a.labels \in Seq(LabelTexts) \ {<< >>}
  BY DEF PlainAddresses
<1>2. /\ a.user \in Seq(Chars) /\ a.user # << >> /\ Free(a.user, {"@", "*", "?"})
      /\ a.user[1] # "#"
  BY <1>1 DEF UserTexts
<1>3. Len(a.user) > 0
  BY <1>2
<1>4. QED
  BY <1>1, <1>2, <1>3 DEF AddressText, Sep

LEMMA AddressesCompare ==
    ASSUME NEW a \in PlainAddresses, NEW r \in PlainAddresses
    PROVE  /\ AddressText(a) = AddressText(r) <=> a = r
           /\ Ends(AddressText(a), <<"@">> \o DomainText(r.labels)) <=> a.labels = r.labels
           /\ "@" = AddressText(a)[Len(a.user) + 1] /\ Len(a.user) + 1 \in 1..Len(AddressText(a))
<1> DEFINE x == DomainText(a.labels)
           y == DomainText(r.labels)
           s == AddressText(a)
           t == AddressText(r)
<1>1. /\ a.user \in Seq(Chars) /\ a.labels \in Seq(LabelTexts) \ {<< >>} /\ s = Sep(a.user, "@", x)
      /\ r.user \in Seq(Chars) /\ r.labels \in Seq(LabelTexts) \ {<< >>} /\ t = Sep(r.user, "@", y)
  BY AddressFacts
<1>2. x \in Seq(Chars) /\ Free(x, {"@"}) /\ y \in Seq(Chars) /\ Free(y, {"@"})
  BY <1>1, DomainFacts DEF Free, NoMarks
<1>3. x = y <=> a.labels = r.labels
  BY <1>1, DomainsCompare
<1> HIDE DEF x, y, s, t
<1>4. /\ Ends(s, t) <=> x = y /\ Ends(a.user, r.user)
      /\ Ends(t, s) <=> x = y /\ Ends(r.user, a.user)
  BY <1>1, <1>2, LastPart, MarksAreChars
<1>5. s \in Seq(Chars) /\ t \in Seq(Chars)
  BY <1>1, <1>2, Parts, MarksAreChars DEF IsSep
<1>6. s = t <=> Ends(s, t) /\ Ends(t, s)
  BY <1>5, SameTexts
<1>7. a.user = r.user <=> Ends(a.user, r.user) /\ Ends(r.user, a.user)
  BY <1>1, SameTexts
<1>8. a = r <=> a.user = r.user /\ a.labels = r.labels
  BY DEF PlainAddresses
<1>9. Ends(s, <<"@">> \o y) <=> x = y
  <2>1. << >> \in Seq(Chars) /\ Len(<< >>) = 0
    OBVIOUS
  <2>2. Ends(s, Sep(<< >>, "@", y)) <=> x = y /\ Ends(a.user, << >>)
    BY <1>1, <1>2, <2>1, LastPart, MarksAreChars
  <2>3. Ends(a.user, << >>)
    BY <1>1, <2>1 DEF Ends
  <2>4. QED
    BY <2>2, <2>3, MarkInFront
<1>10. "@" = s[Len(a.user) + 1] /\ Len(a.user) + 1 \in 1..Len(s)
  <2>1. IsSep(s, a.user, "@", x)
    BY <1>1, <1>2, Parts, MarksAreChars
  <2>2. Len(a.user) \in Nat /\ Len(x) \in Nat
    BY <1>1, <1>2
  <2>3. QED
    BY <2>1, <2>2 DEF IsSep
<1>11. QED
  BY <1>3, <1>4, <1>6, <1>7, <1>8, <1>9, <1>10 DEF s, t, y

-----------------------------------------------------------------------------
(* Globs. *)
LEMMA MatchedLoop ==
    ASSUME NEW text \in Seq(Chars), NEW p \in Seq(Chars)
    PROVE  /\ Matched(text, p) \in [0..Len(p) -> SUBSET (0..Len(text))]
           /\ Matched(text, p)[0] = {0}
           /\ \A j \in 1..Len(p) : Matched(text, p)[j] = Read(text, p[j], Matched(text, p)[j-1])
<1> DEFINE n == Len(p)
           T == SUBSET (0..Len(text))
           none == {0}
           turn == [j \in 1..n |-> [matched \in T |-> Read(text, p[j], matched)]]
           Loop(h) == h = [j \in 0..n |-> IF j = 0 THEN none ELSE Read(text, p[j], h[j-1])]
<1>1. n \in Nat /\ none \in T
  OBVIOUS
<1>2. turn \in [1..n -> [T -> T]]
  <2>1. ASSUME NEW j \in 1..n, NEW matched \in T PROVE Read(text, p[j], matched) \in T
    BY DEF Read
  <2>2. QED
    <3> HIDE DEF n, T, none
    <3>1. QED
      BY <2>1
<1>3. PICK g : IsLoop(g, n, T, none, turn)
  <2> HIDE DEF turn, n, T, none
  <2>1. QED
    BY <1>1, <1>2, LoopExists
<1>4. g \in [0..n -> T] /\ g[0] = none
  <2> HIDE DEF turn, n, T, none
  <2>1. QED
    BY <1>3 DEF IsLoop
<1>5. \A j \in 1..n : g[j] = Read(text, p[j], g[j-1])
  <2> TAKE j \in 1..n
  <2> HIDE DEF T, n, none
  <2>1. g[j-1] \in T /\ g[j] = turn[j][g[j-1]]
    <3> HIDE DEF turn
    <3>1. j \in 1..n /\ j - 1 \in 0..n
      BY <1>1
    <3>2. QED
      BY <1>3, <3>1 DEF IsLoop
  <2>2. QED
    BY <2>1
<1>6. Loop(g)
  <2> HIDE DEF T, n, none
  <2>1. QED
    BY <1>1, <1>4, <1>5
<1>7. Matched(text, p) = CHOOSE h : Loop(h)
  BY DEF Matched
<1>8. Loop(Matched(text, p))
  BY <1>6, <1>7
<1>9. /\ Matched(text, p) = [j \in 0..n |-> Matched(text, p)[j]]
      /\ Matched(text, p)[0] = none
      /\ \A j \in 1..n : Matched(text, p)[j] = Read(text, p[j], Matched(text, p)[j-1])
  <2> HIDE DEF T, none
  <2>1. QED
    BY <1>1, <1>8
<1>10. Runs(Matched(text, p), n, T, none, turn)
  <2> HIDE DEF n, T, none
  <2>1. QED
    BY <1>9 DEF Runs
<1>11. Matched(text, p) \in [0..n -> T]
  <2> HIDE DEF turn, n, T, none
  <2>1. QED
    BY <1>1, <1>2, <1>10, LoopType
<1>12. QED
  BY <1>9, <1>11

(* Where the pattern has no wildcard between its m-th and its e-th         *)
(* character, j more of its characters match what they are.                *)
LiteralFrom(text, p, m, j, k) ==
    /\ k \in j..Len(text) /\ k - j \in Matched(text, p)[m]
    /\ \A i \in 1..j : text[(k - j) + i] = p[m + i]

LEMMA LiteralMatch ==
    ASSUME NEW text \in Seq(Chars), NEW p \in Seq(Chars), NEW m \in 0..Len(p),
           NEW e \in m..Len(p), \A j \in (m + 1)..e : p[j] \notin {"*", "?"}
    PROVE  \A j \in 0..(e - m) : \A k :
             k \in Matched(text, p)[m + j] <=> LiteralFrom(text, p, m, j, k)
<1> DEFINE n == e - m
           z == Len(text)
           M(j) == Matched(text, p)[j]
           Lit(j, k) == /\ k \in j..z /\ k - j \in M(m)
                        /\ \A i \in 1..j : text[(k - j) + i] = p[m + i]
           Q(j) == j <= n => \A k : k \in M(m + j) <=> Lit(j, k)
           S == {j \in Nat : Q(j)}
<1>1. n \in Nat /\ m \in Nat /\ z \in Nat
  OBVIOUS
<1>2. 0 \in S
  <2>1. m + 0 = m /\ M(m) \subseteq 0..z
    <3>1. m \in 0..Len(p) /\ m + 0 = m
      BY <1>1
    <3>2. QED
      BY <3>1, MatchedLoop
  <2>2. ASSUME NEW k PROVE k \in M(m) <=> Lit(0, k)
    <3>1. k \in 0..z => k - 0 = k
      BY <1>1
    <3>2. QED
      BY <2>1, <3>1
  <2>3. QED
    BY <2>1, <2>2
<1>3. ASSUME NEW j \in Nat, j \in S PROVE j + 1 \in S
  <2> SUFFICES Q(j + 1)
    <3> HIDE DEF Q
    <3>1. j + 1 \in Nat
      OBVIOUS
    <3>2. QED
      BY <3>1
  <2> SUFFICES ASSUME j + 1 <= n
               PROVE  \A k : k \in M(m + (j + 1)) <=> Lit(j + 1, k)
    OBVIOUS
  <2> TAKE k
  <2> DEFINE c == p[m + (j + 1)]
  <2>1. /\ m + (j + 1) \in 1..Len(p) /\ m + (j + 1) \in (m + 1)..e
        /\ (m + (j + 1)) - 1 = m + j
    BY <1>1
  <2>2. c \notin {"*", "?"}
    BY <2>1
  <2>3. M(m + (j + 1)) = Read(text, c, M(m + j))
    <3>1. M(m + (j + 1)) = Read(text, c, Matched(text, p)[(m + (j + 1)) - 1])
      BY <2>1, MatchedLoop
    <3>2. QED
      BY <2>1, <3>1
  <2>4. k \in M(m + (j + 1)) <=> k \in 1..z /\ k - 1 \in M(m + j) /\ text[k] = c
    <3> HIDE DEF c
    <3>1. QED
      BY <2>2, <2>3 DEF Read, Fits
  <2>5. k - 1 \in M(m + j) <=> Lit(j, k - 1)
    BY <1>1, <1>3
  <2>6. ASSUME k \in 1..z, Lit(j, k - 1), text[k] = c PROVE Lit(j + 1, k)
    <3>1. k \in (j + 1)..z /\ (k - 1) - j = k - (j + 1)
      BY <1>1, <2>6
    <3>2. ASSUME NEW i \in 1..(j + 1) PROVE text[(k - (j + 1)) + i] = p[m + i]
      <4>1. CASE i \in 1..j
        BY <2>6, <3>1, <4>1
      <4>2. CASE i = j + 1
        <5>1. (k - (j + 1)) + (j + 1) = k
          BY <2>6
        <5>2. QED
          BY <2>6, <4>2, <5>1
      <4>3. QED
        BY <4>1, <4>2
    <3>3. QED
      BY <2>6, <3>1, <3>2
  <2>7. ASSUME Lit(j + 1, k) PROVE k \in 1..z /\ Lit(j, k - 1) /\ text[k] = c
    <3>1. k \in 1..z /\ k - 1 \in j..z /\ (k - 1) - j = k - (j + 1)
      BY <1>1, <2>7
    <3>2. \A i \in 1..j : text[((k - 1) - j) + i] = p[m + i]
      BY <2>7, <3>1
    <3>3. text[k] = c
      <4>1. j + 1 \in 1..(j + 1) /\ (k - (j + 1)) + (j + 1) = k
        BY <3>1
      <4>2. text[(k - (j + 1)) + (j + 1)] = p[m + (j + 1)]
        BY <2>7, <4>1
      <4>3. QED
        BY <4>1, <4>2
    <3>4. QED
      BY <2>7, <3>1, <3>2, <3>3
  <2>8. QED
    BY <2>4, <2>5, <2>6, <2>7
<1>4. Nat \subseteq S
  <2> HIDE DEF S
  <2>1. QED
    BY <1>2, <1>3, NatSetInduction
<1>5. ASSUME NEW j \in 0..n, NEW k PROVE k \in M(m + j) <=> Lit(j, k)
  <2>1. j \in S /\ j <= n
    <3> HIDE DEF S
    <3>1. QED
      BY <1>1, <1>4
  <2>2. QED
    BY <2>1
<1>6. QED
  BY <1>5 DEF LiteralFrom

(* A pattern without wildcards matches itself; one with a star at its head *)
(* matches what ends with the rest.                                        *)
LEMMA GlobLiteral ==
    ASSUME NEW text \in Seq(Chars), NEW p \in Seq(Chars), Free(p, {"*", "?"})
    PROVE  Glob(text, p) <=> text = p
<1> DEFINE z == Len(text)
           n == Len(p)
<1>1. z \in Nat /\ n \in Nat /\ 0 \in 0..n /\ n \in 0..(n - 0) /\ 0 + n = n
  OBVIOUS
<1>2. \A j \in (0 + 1)..Len(p) : p[j] \notin {"*", "?"}
  BY DEF Free
<1>3. z \in Matched(text, p)[0 + n] <=>
        /\ z \in n..z /\ z - n \in Matched(text, p)[0]
        /\ \A i \in 1..n : text[(z - n) + i] = p[0 + i]
  <2>1. z \in Matched(text, p)[0 + n] <=> LiteralFrom(text, p, 0, n, z)
    <3>1. n \in 0..Len(p) /\ 0 \in 0..Len(p)
      BY <1>1
    <3> HIDE DEF z
    <3>2. QED
      BY <1>1, <1>2, <3>1, LiteralMatch
  <2>2. QED
    BY <2>1 DEF LiteralFrom
<1>4. Matched(text, p)[0] = {0}
  BY MatchedLoop
<1>5. Glob(text, p) <=> z = n /\ \A i \in 1..n : text[i] = p[i]
  <2>1. ASSUME Glob(text, p) PROVE z = n /\ \A i \in 1..n : text[i] = p[i]
    <3>1. z - n = 0 /\ \A i \in 1..n : text[(z - n) + i] = p[0 + i]
      BY <1>1, <1>3, <1>4, <2>1 DEF Glob
    <3>2. z = n
      BY <1>1, <3>1
    <3>3. \A i \in 1..n : (z - n) + i = i /\ 0 + i = i
      BY <1>1, <3>2
    <3>4. QED
      BY <3>1, <3>2, <3>3
  <2>2. ASSUME z = n, \A i \in 1..n : text[i] = p[i] PROVE Glob(text, p)
    <3>1. z - n = 0 /\ z \in n..z /\ \A i \in 1..n : (z - n) + i = i /\ 0 + i = i
      BY <1>1, <2>2
    <3>2. z \in Matched(text, p)[0 + n]
      BY <1>3, <1>4, <2>2, <3>1
    <3>3. QED
      BY <1>1, <3>2 DEF Glob
  <2>3. QED
    BY <2>1, <2>2
<1>6. text = p <=> Len(text) = Len(p) /\ \A i \in 1..Len(text) : text[i] = p[i]
  BY SameTexts
<1>7. QED
  BY <1>5, <1>6

LEMMA GlobStar ==
    ASSUME NEW text \in Seq(Chars), NEW q \in Seq(Chars), Free(q, {"*", "?"})
    PROVE  Glob(text, <<"*">> \o q) <=> Ends(text, q)
<1> DEFINE z == Len(text)
           n == Len(q)
           p == Sep(<< >>, "*", q)
<1>1. z \in Nat /\ n \in Nat
  OBVIOUS
<1>2. /\ p \in Seq(Chars) /\ Len(p) = 1 + n /\ p[1] = "*"
      /\ \A i \in 1..n : p[1 + i] = q[i]
  <2>1. << >> \in Seq(Chars) /\ Len(<< >>) = 0 /\ "*" \in Chars
    BY MarksAreChars DEF Marks
  <2>2. IsSep(p, << >>, "*", q)
    BY <2>1, Parts
  <2>3. Len(<< >>) + 1 = 1
    BY <2>1
  <2> HIDE DEF p
  <2>4. QED
    BY <1>1, <2>2, <2>3 DEF IsSep
<1>3. <<"*">> \o q = p
  BY MarkInFront
<1> HIDE DEF p
<1>4. Matched(text, p)[1] = 0..z
  <2>1. 1 \in 1..Len(p) /\ 1 - 1 = 0
    BY <1>1, <1>2
  <2>2. Matched(text, p)[0] = {0} /\ Matched(text, p)[1] = Read(text, p[1], Matched(text, p)[1 - 1])
    BY <1>2, <2>1, MatchedLoop
  <2>3. Matched(text, p)[1] = Read(text, "*", {0})
    BY <1>2, <2>1, <2>2
  <2>4. QED
    BY <1>1, <2>3 DEF Read
<1>5. \A j \in (1 + 1)..Len(p) : p[j] \notin {"*", "?"}
  <2> TAKE j \in (1 + 1)..Len(p)
  <2>1. j - 1 \in 1..n /\ 1 + (j - 1) = j
    BY <1>1, <1>2
  <2>2. p[1 + (j - 1)] = q[j - 1]
    BY <1>2, <2>1
  <2>3. QED
    BY <2>1, <2>2 DEF Free
<1>6. z \in Matched(text, p)[1 + n] <=>
        /\ z \in n..z /\ z - n \in Matched(text, p)[1]
        /\ \A i \in 1..n : text[(z - n) + i] = p[1 + i]
  <2>1. 1 \in 0..Len(p) /\ Len(p) \in 1..Len(p) /\ n \in 0..(Len(p) - 1)
    BY <1>1, <1>2
  <2>2. z \in Matched(text, p)[1 + n] <=> LiteralFrom(text, p, 1, n, z)
    <3> HIDE DEF z, n
    <3>1. QED
      BY <1>2, <1>5, <2>1, LiteralMatch
  <2>3. QED
    BY <2>2 DEF LiteralFrom
<1>7. Glob(text, p) <=> n <= z /\ \A i \in 1..n : text[(z - n) + i] = q[i]
  <2>1. n <= z <=> z \in n..z /\ z - n \in 0..z
    BY <1>1
  <2>2. Glob(text, p) <=> z \in Matched(text, p)[1 + n]
    BY <1>2 DEF Glob
  <2>3. QED
    BY <1>2, <1>4, <1>6, <2>1, <2>2
<1>8. ASSUME n <= z
      PROVE  (\A i \in 1..n : text[(z - n) + i] = q[i]) <=> \A k \in 0..(n - 1) : text[z - k] = q[n - k]
  <2>1. ASSUME \A i \in 1..n : text[(z - n) + i] = q[i], NEW k \in 0..(n - 1)
        PROVE  text[z - k] = q[n - k]
    <3>1. n - k \in 1..n /\ (z - n) + (n - k) = z - k
      BY <1>1
    <3>2. text[(z - n) + (n - k)] = q[n - k]
      BY <2>1, <3>1
    <3>3. QED
      BY <3>1, <3>2
  <2>2. ASSUME \A k \in 0..(n - 1) : text[z - k] = q[n - k], NEW i \in 1..n
        PROVE  text[(z - n) + i] = q[i]
    <3>1. n - i \in 0..(n - 1) /\ z - (n - i) = (z - n) + i /\ n - (n - i) = i
      BY <1>1
    <3>2. text[z - (n - i)] = q[n - (n - i)]
      BY <2>2, <3>1
    <3>3. QED
      BY <3>1, <3>2
  <2>3. QED
    BY <2>1, <2>2
<1>9. QED
  BY <1>3, <1>7, <1>8 DEF Ends

(* Of a text with one "@", n characters before it, what is matched up to   *)
(* the second star of "*@*" ends behind the "@".                           *)
SoleAt(text, n) ==
    /\ n + 1 \in 1..Len(text) /\ text[n + 1] = "@"
    /\ \A i \in 1..Len(text) : text[i] = "@" => i = n + 1

StarAtStar(p, j) == p[j + 1] = "*" /\ p[j + 2] = "@" /\ p[j + 3] = "*"

LEMMA MatchedStarAtStar ==
    ASSUME NEW text \in Seq(Chars), NEW p \in Seq(Chars), NEW n \in Nat, NEW j \in Nat,
           SoleAt(text, n), j + 3 <= Len(p), StarAtStar(p, j)
    PROVE  \A k : k \in Matched(text, p)[j + 3] <=>
                     /\ k \in (n + 1)..Len(text)
                     /\ \E i \in Matched(text, p)[j] : i <= n
<1> DEFINE z == Len(text)
           M(i) == Matched(text, p)[i]
<1>1. z \in Nat /\ Len(p) \in Nat /\ n + 1 \in 1..z
  BY DEF SoleAt
<1>2. /\ j + 1 \in 1..Len(p) /\ (j + 1) - 1 = j
      /\ j + 2 \in 1..Len(p) /\ (j + 2) - 1 = j + 1
      /\ j + 3 \in 1..Len(p) /\ (j + 3) - 1 = j + 2
      /\ j \in 0..Len(p)
  BY <1>1
<1>3. /\ M(j) \subseteq 0..z
      /\ M(j + 1) = Read(text, p[j + 1], M((j + 1) - 1))
      /\ M(j + 2) = Read(text, p[j + 2], M((j + 2) - 1))
      /\ M(j + 3) = Read(text, p[j + 3], M((j + 3) - 1))
  BY <1>2, MatchedLoop
<1>4. /\ M(j + 1) = Read(text, "*", M(j))
      /\ M(j + 2) = Read(text, "@", M(j + 1))
      /\ M(j + 3) = Read(text, "*", M(j + 2))
  BY <1>2, <1>3 DEF StarAtStar
<1> HIDE DEF M
<1>5. n \in M(j + 1) <=> \E i \in M(j) : i <= n
  <2>1. n \in 0..z
    BY <1>1
  <2>2. M(j + 1) = {k \in 0..z : \E i \in M(j) : i <= k}
    BY <1>4 DEF Read
  <2>3. QED
    BY <2>1, <2>2
<1>6. ASSUME NEW k PROVE k \in M(j + 2) <=> k = n + 1 /\ n \in M(j + 1)
  <2>1. k \in M(j + 2) <=> k \in 1..z /\ k - 1 \in M(j + 1) /\ text[k] = "@"
    BY <1>4 DEF Read, Fits
  <2>2. (n + 1) - 1 = n
    OBVIOUS
  <2>3. QED
    BY <1>1, <2>1, <2>2 DEF SoleAt
<1>7. ASSUME NEW k
      PROVE  k \in M(j + 3) <=> k \in (n + 1)..z /\ n \in M(j + 1)
  <2>1. k \in M(j + 3) <=> k \in 0..z /\ \E i \in M(j + 2) : i <= k
    BY <1>4 DEF Read
  <2>2. k \in M(j + 3) <=> k \in 0..z /\ n + 1 <= k /\ n \in M(j + 1)
    BY <1>6, <2>1
  <2>3. QED
    BY <1>1, <2>2
<1>8. QED
  BY <1>5, <1>7 DEF M

(* u and "*@*": what begins with u before the "@".                         *)
LEMMA GlobPrefix ==
    ASSUME NEW text \in Seq(Chars), NEW u \in Seq(Chars), NEW n \in Nat,
           SoleAt(text, n), Free(u, {"*", "?"})
    PROVE  Glob(text, u \o <<"*", "@", "*">>) <=>
             Len(u) <= n /\ \A i \in 1..Len(u) : text[i] = u[i]
<1> DEFINE z == Len(text)
           e == Len(u)
           p == u \o <<"*", "@", "*">>
<1>1. z \in Nat /\ e \in Nat /\ {"*", "@"} \subseteq Chars
  BY MarksAreChars DEF Marks
<1>2. /\ p \in Seq(Chars) /\ Len(p) = e + 3
      /\ \A i \in 1..e : p[i] = u[i]
      /\ p[e + 1] = "*" /\ p[e + 2] = "@" /\ p[e + 3] = "*"
  BY <1>1
<1> HIDE DEF p
<1>3. Glob(text, p) <=> \E i \in Matched(text, p)[e] : i <= n
  <2>1. StarAtStar(p, e) /\ e + 3 <= Len(p)
    BY <1>1, <1>2 DEF StarAtStar
  <2>2. z \in Matched(text, p)[e + 3] <=>
          z \in (n + 1)..z /\ \E i \in Matched(text, p)[e] : i <= n
    <3> HIDE DEF z, e
    <3>1. QED
      BY <1>1, <1>2, <2>1, MatchedStarAtStar DEF z
  <2>3. z \in (n + 1)..z
    BY <1>1 DEF SoleAt
  <2>4. QED
    BY <1>2, <2>2, <2>3 DEF Glob
<1>4. ASSUME NEW k
      PROVE  k \in Matched(text, p)[e] <=>
               /\ k \in e..z /\ k - e = 0
               /\ \A i \in 1..e : text[(k - e) + i] = p[0 + i]
  <2>1. 0 \in 0..Len(p) /\ e \in 0..Len(p) /\ e \in 0..(e - 0) /\ 0 + e = e
    BY <1>1, <1>2
  <2>2. \A j \in (0 + 1)..e : p[j] \notin {"*", "?"}
    BY <1>1, <1>2 DEF Free
  <2>3. k \in Matched(text, p)[0 + e] <=> LiteralFrom(text, p, 0, e, k)
    <3> HIDE DEF e, z
    <3>1. QED
      BY <1>2, <2>1, <2>2, LiteralMatch
  <2>4. Matched(text, p)[0] = {0}
    BY <1>2, MatchedLoop
  <2>5. QED
    BY <2>1, <2>3, <2>4 DEF LiteralFrom
<1>5. ASSUME NEW k
      PROVE  k \in Matched(text, p)[e] <=> k = e /\ e <= z /\ \A i \in 1..e : text[i] = u[i]
  <2>1. k \in e..z /\ k - e = 0 <=> k = e /\ e <= z
    BY <1>1
  <2>2. ASSUME k = e, NEW i \in 1..e PROVE (k - e) + i = i /\ p[0 + i] = u[i]
    <3>1. (k - e) + i = i /\ 0 + i = i
      BY <1>1, <2>2
    <3>2. QED
      BY <1>2, <3>1
  <2>3. QED
    BY <1>4, <2>1, <2>2
<1>6. n < z
  BY <1>1 DEF SoleAt
<1>7. QED
  <2> HIDE DEF e, z
  <2>1. Glob(text, p) <=> e <= n /\ \A i \in 1..e : text[i] = u[i]
    <3> DEFINE Same == \A i \in 1..e : text[i] = u[i]
    <3>1. \A k : k \in Matched(text, p)[e] <=> k = e /\ e <= z /\ Same
      BY <1>5
    <3> HIDE DEF Same
    <3>2. (\E i \in Matched(text, p)[e] : i <= n) <=> e <= n /\ e <= z /\ Same
      BY <3>1
    <3>3. e <= n => e <= z
      BY <1>1, <1>6
    <3>4. QED
      BY <1>3, <3>2, <3>3 DEF Same
  <2>2. QED
    BY <2>1 DEF e, p

(* "*@*" and q: what ends with q behind the "@".                           *)
LEMMA GlobBelow ==
    ASSUME NEW text \in Seq(Chars), NEW q \in Seq(Chars), NEW n \in Nat,
           SoleAt(text, n), Free(q, {"*", "?"})
    PROVE  Glob(text, <<"*", "@", "*">> \o q) <=>
             /\ Len(q) <= Len(text) - (n + 1)
             /\ \A i \in 1..Len(q) : text[(Len(text) - Len(q)) + i] = q[i]
<1> DEFINE z == Len(text)
           e == Len(q)
           p == <<"*", "@", "*">> \o q
<1>1. z \in Nat /\ e \in Nat /\ {"*", "@"} \subseteq Chars /\ n + 1 \in 1..z
  BY MarksAreChars DEF Marks, SoleAt
<1>2. /\ p \in Seq(Chars) /\ Len(p) = 3 + e
      /\ \A i \in 1..e : p[3 + i] = q[i]
      /\ p[1] = "*" /\ p[2] = "@" /\ p[3] = "*"
  BY <1>1
<1> HIDE DEF p
<1>3. \A k : k \in Matched(text, p)[3] <=> k \in (n + 1)..z
  <2>1. StarAtStar(p, 0) /\ 0 + 3 <= Len(p) /\ 0 + 3 = 3
    BY <1>1, <1>2 DEF StarAtStar
  <2>2. \A k : k \in Matched(text, p)[0 + 3] <=>
          k \in (n + 1)..Len(text) /\ \E i \in Matched(text, p)[0] : i <= n
    BY <1>2, <2>1, MatchedStarAtStar
  <2>3. 0 \in Matched(text, p)[0] /\ 0 <= n
    BY <1>2, MatchedLoop
  <2>4. QED
    BY <2>1, <2>2, <2>3
<1>4. \A j \in (3 + 1)..Len(p) : p[j] \notin {"*", "?"}
  <2> TAKE j \in (3 + 1)..Len(p)
  <2>1. j - 3 \in 1..e /\ 3 + (j - 3) = j
    BY <1>1, <1>2
  <2>2. p[3 + (j - 3)] = q[j - 3]
    BY <1>2, <2>1
  <2>3. QED
    BY <2>1, <2>2 DEF Free
<1>5. z \in Matched(text, p)[3 + e] <=>
        /\ z \in e..z /\ z - e \in Matched(text, p)[3]
        /\ \A i \in 1..e : text[(z - e) + i] = p[3 + i]
  <2>1. 3 \in 0..Len(p) /\ Len(p) \in 3..Len(p) /\ e \in 0..(Len(p) - 3)
    BY <1>1, <1>2
  <2>2. z \in Matched(text, p)[3 + e] <=> LiteralFrom(text, p, 3, e, z)
    <3> HIDE DEF z, e
    <3>1. QED
      BY <1>2, <1>4, <2>1, LiteralMatch
  <2>3. QED
    BY <2>2 DEF LiteralFrom
<1>6. z \in e..z /\ z - e \in (n + 1)..z <=> e <= z - (n + 1)
  BY <1>1
<1>7. Glob(text, p) <=> e <= z - (n + 1) /\ \A i \in 1..e : text[(z - e) + i] = q[i]
  <2>1. Glob(text, p) <=> z \in Matched(text, p)[3 + e]
    BY <1>2 DEF Glob
  <2>2. QED
    BY <1>2, <1>3, <1>5, <1>6, <2>1
<1>8. QED
  BY <1>7 DEF p

(* The same of the text of an address, in terms of its user name and its   *)
(* domain.                                                                 *)
LEMMA AddressIsSole ==
    ASSUME NEW u \in Seq(Chars), NEW t \in Seq(Chars), Free(u, {"@"}), Free(t, {"@"})
    PROVE  SoleAt(Sep(u, "@", t), Len(u))
<1> DEFINE s == Sep(u, "@", t)
           n == Len(u)
<1>1. IsSep(s, u, "@", t)
  BY Parts, MarksAreChars
<1>2. n \in Nat /\ Len(t) \in Nat
  OBVIOUS
<1> HIDE DEF s
<1>3. Len(s) = n + 1 + Len(t) /\ s[n + 1] = "@"
  BY <1>1 DEF IsSep
<1>4. ASSUME NEW i \in 1..Len(s), s[i] = "@" PROVE i = n + 1
  <2>1. CASE i \in 1..n
    BY <1>1, <1>4, <2>1 DEF IsSep, Free
  <2>2. CASE i > n + 1
    <3>1. i - (n + 1) \in 1..Len(t) /\ n + 1 + (i - (n + 1)) = i
      BY <1>2, <1>3, <2>2
    <3>2. s[n + 1 + (i - (n + 1))] = t[i - (n + 1)]
      BY <1>1, <3>1 DEF IsSep
    <3>3. QED
      BY <1>4, <3>1, <3>2 DEF Free
  <2>3. QED
    BY <1>2, <1>3, <2>1, <2>2
<1>5. n + 1 \in 1..Len(s)
  BY <1>2, <1>3
<1>6. QED
  BY <1>3, <1>4, <1>5 DEF SoleAt, s

LEMMA GlobUser ==
    ASSUME NEW v \in Seq(Chars), NEW t \in Seq(Chars), Free(v, {"@"}), Free(t, {"@"}),
           NEW u \in Seq(Chars), Free(u, {"*", "?"})
    PROVE  Glob(Sep(v, "@", t), u \o <<"*", "@", "*">>) <=> IsPrefix(u, v)
<1> DEFINE s == Sep(v, "@", t)
           n == Len(v)
<1>1. IsSep(s, v, "@", t) /\ SoleAt(s, n)
  BY AddressIsSole, Parts, MarksAreChars
<1>2. s \in Seq(Chars) /\ \A i \in 1..n : s[i] = v[i]
  BY <1>1 DEF IsSep
<1>3. n \in Nat /\ Len(u) \in Nat
  OBVIOUS
<1> HIDE DEF s
<1>4. Glob(s, u \o <<"*", "@", "*">>) <=> Len(u) <= n /\ \A i \in 1..Len(u) : s[i] = u[i]
  <2> HIDE DEF n
  <2>1. QED
    BY <1>1, <1>2, <1>3, GlobPrefix
<1>5. ASSUME Len(u) <= n
      PROVE  SubSeq(u, 1, Len(u)) = SubSeq(v, 1, Len(u)) <=> \A i \in 1..Len(u) : v[i] = u[i]
  <2> DEFINE x == SubSeq(u, 1, Len(u))
             y == SubSeq(v, 1, Len(u))
  <2>1. /\ x \in Seq(Chars) /\ Len(x) = Len(u) /\ \A i \in 1..Len(u) : x[i] = u[i]
        /\ y \in Seq(Chars) /\ Len(y) = Len(u) /\ \A i \in 1..Len(u) : y[i] = v[i]
    BY <1>3, <1>5
  <2> HIDE DEF x, y
  <2>2. x = y <=> Len(x) = Len(y) /\ \A i \in 1..Len(x) : x[i] = y[i]
    BY <2>1, SameTexts
  <2>3. x = y <=> \A i \in 1..Len(u) : v[i] = u[i]
    BY <2>1, <2>2
  <2>4. QED
    BY <2>3 DEF x, y
<1>6. ASSUME Len(u) <= n, NEW i \in 1..Len(u) PROVE s[i] = v[i]
  <2>1. i \in 1..n
    BY <1>3, <1>6
  <2>2. QED
    BY <1>2, <2>1
<1>7. QED
  BY <1>4, <1>5, <1>6 DEF IsPrefix, s

LEMMA GlobDomain ==
    ASSUME NEW v \in Seq(Chars), NEW t \in Seq(Chars), Free(v, {"@"}), Free(t, {"@"}),
           NEW q \in Seq(Chars), Free(q, {"*", "?"})
    PROVE  Glob(Sep(v, "@", t), <<"*", "@", "*">> \o q) <=> Ends(t, q)
<1> DEFINE s == Sep(v, "@", t)
           n == Len(v)
           z == Len(s)
           e == Len(q)
<1>1. IsSep(s, v, "@", t) /\ SoleAt(s, n)
  BY AddressIsSole, Parts, MarksAreChars
<1>2. /\ s \in Seq(Chars) /\ z = n + 1 + Len(t)
      /\ \A i \in 1..Len(t) : s[n + 1 + i] = t[i]
  BY <1>1 DEF IsSep
<1>3. n \in Nat /\ e \in Nat /\ Len(t) \in Nat
  OBVIOUS
<1> HIDE DEF s
<1>4. Glob(s, <<"*", "@", "*">> \o q) <=>
        e <= z - (n + 1) /\ \A i \in 1..e : s[(z - e) + i] = q[i]
  <2> HIDE DEF n
  <2>1. QED
    BY <1>1, <1>2, <1>3, GlobBelow
<1> HIDE DEF z
<1>5. e <= z - (n + 1) <=> e <= Len(t)
  BY <1>2, <1>3
<1>6. ASSUME e <= Len(t), NEW i \in 1..e
      PROVE  s[(z - e) + i] = t[Len(t) - (e - i)] /\ e - i \in 0..(e - 1) /\ e - (e - i) = i
  <2>1. /\ Len(t) - (e - i) \in 1..Len(t) /\ (z - e) + i = n + 1 + (Len(t) - (e - i))
        /\ e - i \in 0..(e - 1) /\ e - (e - i) = i
    BY <1>2, <1>3, <1>6
  <2>2. QED
    BY <1>2, <2>1
<1>7. ASSUME e <= Len(t), \A i \in 1..e : s[(z - e) + i] = q[i], NEW k \in 0..(e - 1)
      PROVE  t[Len(t) - k] = q[e - k]
  <2>1. e - k \in 1..e /\ e - (e - k) = k
    BY <1>3
  <2>2. s[(z - e) + (e - k)] = t[Len(t) - (e - (e - k))]
    BY <1>6, <1>7, <2>1
  <2>3. s[(z - e) + (e - k)] = q[e - k]
    BY <1>7, <2>1
  <2>4. QED
    BY <2>1, <2>2, <2>3
<1>8. ASSUME e <= Len(t), \A k \in 0..(e - 1) : t[Len(t) - k] = q[e - k], NEW i \in 1..e
      PROVE  s[(z - e) + i] = q[i]
  <2>1. t[Len(t) - (e - i)] = q[e - (e - i)]
    BY <1>6, <1>8
  <2>2. QED
    BY <1>6, <1>8, <2>1
<1>9. QED
  BY <1>4, <1>5, <1>7, <1>8 DEF Ends, s

-----------------------------------------------------------------------------
(* Rule lines. *)
LEMMA LineCases ==
    ASSUME NEW line \in Seq(Chars), Len(line) > 0, line[1] # "#", NEW a
    PROVE  /\ line[1] = "@" =>
                (LineMatches(line, a) <=> \/ Below(DomainText(a.labels), Tail(line))
                                          \/ Glob(AddressText(a), <<"*">> \o line)
                                          \/ <<"*">> \o line = DomainText(a.labels))
           /\ line[1] # "@" =>
                (LineMatches(line, a) <=> \/ Glob(AddressText(a), line)
                                          \/ line = DomainText(a.labels))
<1>1. line # << >> /\ Head(line) = line[1]
  OBVIOUS
<1>2. ~IsComment(line)
  BY <1>1 DEF IsComment
<1>3. ASSUME line[1] = "@"
      PROVE  LineMatches(line, a) <=> \/ Below(DomainText(a.labels), Tail(line))
                                      \/ Glob(AddressText(a), <<"*">> \o line)
                                      \/ <<"*">> \o line = DomainText(a.labels)
  BY <1>1, <1>2, <1>3 DEF LineMatches
<1>4. ASSUME line[1] # "@"
      PROVE  LineMatches(line, a) <=> \/ Glob(AddressText(a), line)
                                      \/ line = DomainText(a.labels)
  BY <1>1, <1>2, <1>4 DEF LineMatches
<1>5. QED
  BY <1>3, <1>4

LEMMA InFront ==
    ASSUME NEW c \in Chars, NEW t \in Seq(Chars)
    PROVE  /\ <<c>> \o t \in Seq(Chars) /\ Len(<<c>> \o t) > 0 /\ (<<c>> \o t)[1] = c
           /\ Tail(<<c>> \o t) = t
           /\ \A M : c \notin M /\ Free(t, M) => Free(<<c>> \o t, M)
<1> DEFINE s == <<c>> \o t
<1>1. /\ s \in Seq(Chars) /\ Len(s) = Len(t) + 1 /\ s[1] = c
      /\ \A i \in 1..Len(t) : s[i + 1] = t[i]
      /\ Len(t) \in Nat
  OBVIOUS
<1> HIDE DEF s
<1>2. Tail(s) = t
  <2>1. Tail(s) \in Seq(Chars) /\ Len(Tail(s)) = Len(t) /\ \A i \in 1..Len(t) : Tail(s)[i] = s[i + 1]
    BY <1>1
  <2>2. QED
    BY <1>1, <2>1, SameTexts
<1>3. ASSUME NEW M, c \notin M, Free(t, M), NEW i \in 1..Len(s) PROVE s[i] \notin M
  <2>1. CASE i = 1
    BY <1>1, <1>3, <2>1
  <2>2. CASE i # 1
    <3>1. i - 1 \in 1..Len(t) /\ (i - 1) + 1 = i
      BY <1>1, <2>2
    <3>2. s[(i - 1) + 1] = t[i - 1]
      BY <1>1, <3>1
    <3>3. QED
      BY <1>3, <3>1, <3>2 DEF Free
  <2>3. QED
    BY <2>1, <2>2
<1>4. Len(s) > 0
  BY <1>1
<1>5. QED
  BY <1>1, <1>2, <1>3, <1>4 DEF s, Free

(* For every rule in one of the six forms and every address: the line      *)
(* selects the senders that the documents name for it and no others, but   *)
(* for "@domain", which selects what is below the domain as well           *)
(* (sender_filter.py 70-101).                                              *)
THEOREM RuleLinesSelect ==
    \A r \in [form : Forms, address : PlainAddresses] : \A a \in PlainAddresses :
        LineMatches(RuleText(r), a) <=> Named(r, a) \/ AlsoSelected(r, a)
<1> TAKE r \in [form : Forms, address : PlainAddresses]
<1> TAKE a \in PlainAddresses
<1> DEFINE b == r.address
           at == AddressText(a)
           dom == DomainText(a.labels)
           d == DomainText(b.labels)
           line == RuleText(r)
<1>1. b \in PlainAddresses /\ r.form \in Forms
  OBVIOUS
<1>2. /\ a.labels \in Seq(LabelTexts) \ {<< >>} /\ b.labels \in Seq(LabelTexts) \ {<< >>}
      /\ a.user \in Seq(Chars) /\ b.user \in Seq(Chars) /\ Len(b.user) > 0
      /\ Free(b.user, {"@", "*", "?"}) /\ b.user[1] # "#"
      /\ at = Sep(a.user, "@", dom) /\ AddressText(b) = Sep(b.user, "@", d)
  BY <1>1, AddressFacts
<1>3. /\ dom \in Seq(Chars) /\ Len(dom) > 0 /\ Free(dom, NoMarks)
      /\ d \in Seq(Chars) /\ Len(d) > 0 /\ Free(d, NoMarks)
  BY <1>2, DomainFacts
<1>4. at \in Seq(Chars) /\ AddressText(b) \in Seq(Chars)
  <2> HIDE DEF at, dom, d
  <2>1. IsSep(at, a.user, "@", dom)
    BY <1>2, <1>3, Parts, MarksAreChars
  <2>2. IsSep(AddressText(b), b.user, "@", d)
    BY <1>2, <1>3, Parts, MarksAreChars
  <2>3. QED
    BY <2>1, <2>2 DEF IsSep
<1>5. /\ at = AddressText(b) <=> a = b
      /\ Ends(at, <<"@">> \o d) <=> a.labels = b.labels
      /\ dom = d <=> a.labels = b.labels
      /\ Below(dom, d) <=> EndsWith(a.labels, b.labels)
  BY <1>1, <1>2, AddressesCompare, DomainsCompare
<1>6. at # d /\ AddressText(b) # dom
  <2>1. /\ at[Len(a.user) + 1] = "@" /\ Len(a.user) + 1 \in 1..Len(at)
        /\ AddressText(b)[Len(b.user) + 1] = "@"
        /\ Len(b.user) + 1 \in 1..Len(AddressText(b))
    BY <1>1, AddressesCompare
  <2>2. QED
    BY <1>3, <2>1 DEF Free, NoMarks
<1>7. {"*", "@"} \subseteq Chars
  BY MarksAreChars DEF Marks
<1>8. Free(d, {"*", "?"}) /\ d[1] \notin NoMarks /\ dom[1] \notin NoMarks
  <2>1. 1 \in 1..Len(d) /\ 1 \in 1..Len(dom)
    BY <1>3
  <2>2. QED
    BY <1>3, <2>1 DEF Free, NoMarks
<1>9. Free(a.user, {"@"}) /\ Free(dom, {"@"})
  <2>1. Free(a.user, {"@", "*", "?"})
    BY AddressFacts
  <2>2. QED
    BY <1>3, <2>1 DEF Free, NoMarks
<1> HIDE DEF at, dom, d
<1>10. CASE r.form = "address"
  <2>1. line = AddressText(b)
    BY <1>10 DEF RuleText
  <2>2. IsSep(line, b.user, "@", d)
    BY <1>2, <1>3, <2>1, Parts, MarksAreChars
  <2>3. Len(b.user) \in Nat /\ Len(d) \in Nat
    BY <1>2, <1>3
  <2> HIDE DEF line
  <2>4. Len(line) > 0 /\ line[1] = b.user[1] /\ line[1] # "@"
    <3>1. 1 \in 1..Len(b.user)
      BY <1>2, <2>3
    <3>2. Len(line) = Len(b.user) + 1 + Len(d) /\ line[1] = b.user[1]
      BY <2>2, <3>1 DEF IsSep
    <3>3. QED
      BY <1>2, <2>3, <3>1, <3>2 DEF Free
  <2>5. Free(line, {"*", "?"})
    <3>1. ASSUME NEW i \in 1..Len(line) PROVE line[i] \notin {"*", "?"}
      <4>1. Len(line) = Len(b.user) + 1 + Len(d)
        BY <2>2 DEF IsSep
      <4>2. CASE i \in 1..Len(b.user)
        BY <1>2, <2>2, <4>2 DEF IsSep, Free
      <4>3. CASE i = Len(b.user) + 1
        BY <2>2, <4>3 DEF IsSep
      <4>4. CASE i > Len(b.user) + 1
        <5>1. i - Len(b.user) - 1 \in 1..Len(d) /\ Len(b.user) + 1 + (i - Len(b.user) - 1) = i
          <6>1. \A x, y, k \in Nat :
                  k \in 1..(x + 1 + y) /\ k > x + 1 =>
                    k - x - 1 \in 1..y /\ x + 1 + (k - x - 1) = k
            OBVIOUS
          <6>2. i \in Nat /\ i \in 1..(Len(b.user) + 1 + Len(d))
            BY <4>1
          <6>3. QED
            BY <2>3, <4>4, <6>1, <6>2
        <5>2. line[Len(b.user) + 1 + (i - Len(b.user) - 1)] = d[i - Len(b.user) - 1]
          BY <2>2, <5>1 DEF IsSep
        <5>3. QED
          BY <1>8, <5>1, <5>2 DEF Free
      <4>5. QED
        BY <2>3, <4>2, <4>3, <4>4
    <3>2. QED
      BY <3>1 DEF Free
  <2>6. Glob(at, line) <=> at = line
    BY <1>4, <2>1, <2>5, GlobLiteral
  <2>7. LineMatches(line, a) <=> Glob(at, line) \/ line = dom
    BY <1>2, <1>4, <2>1, <2>4, LineCases DEF at, dom
  <2>8. Named(r, a) \/ AlsoSelected(r, a) <=> a = b
    BY <1>10 DEF Named, AlsoSelected
  <2>9. QED
    BY <1>5, <1>6, <2>1, <2>6, <2>7, <2>8 DEF line
<1>11. CASE r.form = "@domain"
  <2>1. line = <<"@">> \o d
    BY <1>11 DEF RuleText, d
  <2> HIDE DEF line
  <2>2. /\ line \in Seq(Chars) /\ Len(line) > 0 /\ line[1] = "@" /\ Tail(line) = d
        /\ Free(line, {"*", "?"})
    BY <1>3, <1>7, <1>8, <2>1, InFront
  <2>3. (<<"*">> \o line)[1] = "*"
    BY <1>7, <2>2, InFront
  <2>4. <<"*">> \o line # dom
    BY <1>8, <2>3 DEF NoMarks
  <2>5. Glob(at, <<"*">> \o line) <=> Ends(at, line)
    BY <1>4, <2>2, GlobStar
  <2>6. LineMatches(line, a) <=> Below(dom, d) \/ Glob(at, <<"*">> \o line) \/ <<"*">> \o line = dom
    BY <2>2, LineCases DEF at, dom
  <2>7. Named(r, a) \/ AlsoSelected(r, a) <=> a.labels = b.labels \/ EndsWith(a.labels, b.labels)
    <3>1. Named(r, a) <=> a.labels = b.labels
      BY <1>11 DEF Named
    <3>2. AlsoSelected(r, a) <=> a.labels # b.labels /\ EndsWith(a.labels, b.labels)
      BY <1>11 DEF AlsoSelected, IsBelow
    <3>3. QED
      BY <3>1, <3>2
  <2>8. a.labels = b.labels => EndsWith(a.labels, b.labels)
    <3>1. a.labels \in Seq(LabelTexts) /\ b.labels \in Seq(LabelTexts)
      BY <1>2
    <3>2. QED
      BY <3>1, EndsIsEndsWith, SameTexts
  <2>9. QED
    BY <1>5, <2>1, <2>4, <2>5, <2>6, <2>7, <2>8 DEF line
<1>12. CASE r.form = "domain"
  <2>1. line = d
    BY <1>12 DEF RuleText, d
  <2>2. Glob(at, d) <=> at = d
    BY <1>3, <1>4, <1>8, GlobLiteral
  <2>3. LineMatches(d, a) <=> Glob(at, d) \/ d = dom
    BY <1>3, <1>8, LineCases DEF at, dom, NoMarks
  <2>4. Named(r, a) \/ AlsoSelected(r, a) <=> a.labels = b.labels
    BY <1>12 DEF Named, AlsoSelected
  <2>5. QED
    BY <1>5, <1>6, <2>1, <2>2, <2>3, <2>4
<1>13. CASE r.form = "*@domain"
  <2> DEFINE rest == <<"@">> \o d
  <2>1. rest \in Seq(Chars) /\ Free(rest, {"*", "?"})
    BY <1>3, <1>7, <1>8, InFront
  <2>2. line = <<"*">> \o rest
    <3>1. line = <<"*", "@">> \o d
      BY <1>13 DEF RuleText, d
    <3>2. <<"*", "@">> \o d = <<"*">> \o (<<"@">> \o d)
      BY <1>3, <1>7
    <3>3. QED
      BY <3>1, <3>2
  <2> HIDE DEF line, rest
  <2>3. line \in Seq(Chars) /\ Len(line) > 0 /\ line[1] = "*"
    BY <1>7, <2>1, <2>2, InFront
  <2>4. line # dom
    BY <1>8, <2>3 DEF NoMarks
  <2>5. Glob(at, line) <=> Ends(at, rest)
    BY <1>4, <2>1, <2>2, GlobStar
  <2>6. LineMatches(line, a) <=> Glob(at, line) \/ line = dom
    BY <2>3, LineCases DEF at, dom
  <2>7. Named(r, a) \/ AlsoSelected(r, a) <=> a.labels = b.labels
    BY <1>13 DEF Named, AlsoSelected
  <2>8. QED
    BY <1>5, <2>4, <2>5, <2>6, <2>7 DEF line, rest
<1>14. CASE r.form = "*@*.domain"
  <2> DEFINE q == <<".">> \o d
             star == <<"*", "@", "*">>
  <2>1. q \in Seq(Chars) /\ Free(q, {"*", "?"}) /\ Len(q) = Len(d) + 1
    <3>1. "." \in Chars /\ "." \notin {"*", "?"}
      BY MarksAreChars
    <3>2. q \in Seq(Chars) /\ Free(q, {"*", "?"})
      BY <1>3, <1>8, <3>1, InFront
    <3>3. Len(q) = Len(d) + 1
      BY <1>3, <3>1
    <3>4. QED
      BY <3>2, <3>3
  <2>2. line = star \o q
    <3>1. line = <<"*", "@", "*", ".">> \o d
      BY <1>14 DEF RuleText, d
    <3>2. <<"*", "@", "*", ".">> \o d = <<"*", "@", "*">> \o (<<".">> \o d)
      BY <1>3, <1>7, MarksAreChars
    <3>3. QED
      BY <3>1, <3>2
  <2>3. line \in Seq(Chars) /\ Len(line) > 0 /\ line[1] = "*"
    <3> HIDE DEF line, q
    <3>1. line \in Seq(Chars) /\ line[1] = "*" /\ Len(line) = 3 + Len(q)
      BY <1>7, <2>1, <2>2
    <3>2. QED
      BY <2>1, <3>1
  <2> HIDE DEF line
  <2>4. line # dom
    BY <1>8, <2>3 DEF NoMarks
  <2>5. Glob(at, line) <=> Ends(dom, q)
    <3> HIDE DEF q
    <3>1. QED
      BY <1>2, <1>3, <1>9, <2>1, <2>2, GlobDomain
  <2>6. LineMatches(line, a) <=> Glob(at, line) \/ line = dom
    BY <2>3, LineCases DEF at, dom
  <2>7. Ends(dom, q) <=> IsBelow(a.labels, b.labels)
    <3>1. IsSuffix(q, dom) <=> Ends(dom, q)
      <4> HIDE DEF q
      <4>1. QED
        BY <1>3, <2>1, EndsIsSuffix
    <3>2. Below(dom, d) <=> dom = d \/ Ends(dom, q)
      BY <3>1 DEF Below
    <3>3. dom = d => ~Ends(dom, q)
      <4>1. Len(d) \in Nat
        BY <1>3
      <4> HIDE DEF q
      <4>2. QED
        BY <2>1, <4>1 DEF Ends
    <3> HIDE DEF q
    <3>4. QED
      BY <1>5, <3>2, <3>3 DEF IsBelow
  <2>8. Named(r, a) \/ AlsoSelected(r, a) <=> IsBelow(a.labels, b.labels)
    BY <1>14 DEF Named, AlsoSelected
  <2>9. QED
    BY <2>4, <2>5, <2>6, <2>7, <2>8 DEF line
<1>15. CASE r.form = "user*@*"
  <2> DEFINE star == <<"*", "@", "*">>
  <2>1. line = b.user \o star
    BY <1>15 DEF RuleText
  <2>2. line \in Seq(Chars) /\ line[1] = b.user[1] /\ Len(line) = Len(b.user) + 3
        /\ line[Len(b.user) + 2] = "@" /\ Len(b.user) + 2 \in 1..Len(line)
    <3> DEFINE u == b.user
    <3>1. u \in Seq(Chars) /\ 1 \in 1..Len(u) /\ Len(u) \in Nat
      BY <1>2
    <3> HIDE DEF u, line
    <3>2. line = u \o star
      BY <2>1 DEF u
    <3>3. /\ line \in Seq(Chars) /\ line[1] = u[1] /\ Len(line) = Len(u) + 3
          /\ line[Len(u) + 2] = "@" /\ Len(u) + 2 \in 1..Len(line)
      BY <1>7, <3>1, <3>2
    <3>4. QED
      BY <3>3 DEF u
  <2> HIDE DEF line
  <2>3. line[1] # "#" /\ line[1] # "@" /\ Len(line) > 0
    <3>1. 1 \in 1..Len(b.user) /\ Len(b.user) \in Nat
      BY <1>2
    <3>2. QED
      BY <1>2, <2>2, <3>1 DEF Free
  <2>4. line # dom
    BY <1>3, <2>2 DEF Free, NoMarks
  <2>5. Glob(at, line) <=> IsPrefix(b.user, a.user)
    <3>1. Free(b.user, {"*", "?"})
      BY <1>2 DEF Free
    <3>2. QED
      BY <1>2, <1>3, <1>9, <2>1, <3>1, GlobUser
  <2>6. LineMatches(line, a) <=> Glob(at, line) \/ line = dom
    BY <2>2, <2>3, LineCases DEF at, dom
  <2>7. Named(r, a) \/ AlsoSelected(r, a) <=> IsPrefix(b.user, a.user)
    BY <1>15 DEF Named, AlsoSelected
  <2>8. QED
    BY <2>4, <2>5, <2>6, <2>7 DEF line
<1>16. QED
  BY <1>1, <1>10, <1>11, <1>12, <1>13, <1>14, <1>15 DEF Forms

-----------------------------------------------------------------------------
(* The user names of the questions: no star, no question mark, no "@", and *)
(* no "#" or dot in front. With MCOddUsers the property fails.             *)
PlainUsers == Users \subseteq UserTexts

LEMMA AddressesArePlain == PlainUsers => Addresses \subseteq PlainAddresses
<1> SUFFICES ASSUME PlainUsers PROVE Addresses \subseteq PlainAddresses
  OBVIOUS
<1>1. Labels \subseteq LabelTexts
  <2>1. /\ <<"a">> \in Seq(Letters) /\ <<"b">> \in Seq(Letters) /\ <<"b", "a">> \in Seq(Letters)
        /\ <<"a">> # << >> /\ <<"b">> # << >> /\ <<"b", "a">> # << >>
    BY LabelsAssumption
  <2>2. QED
    BY <2>1 DEF Labels, LabelTexts
<1>2. ASSUME NEW l \in BoundedSeq(Labels, 3) PROVE l \in Seq(LabelTexts)
  <2>1. l \in Seq(Labels)
    BY BoundedIsSeq
  <2>2. QED
    BY <1>1, <2>1
<1>3. QED
  BY <1>2 DEF PlainUsers, Addresses, PlainAddresses

LEMMA RulesAsked == Spec => [](question.about = "rule" => question.rule \in Rules)
<1> DEFINE Asked == question.about = "rule" => question.rule \in Rules
<1>1. Init => Asked
  BY DEF Init, NoQuestion
<1>2. ASSUME Asked, [Next]_question PROVE Asked'
  <2>1. CASE AskRule
    BY <2>1 DEF AskRule
  <2>2. CASE AskFile \/ AskPlugins \/ AskName
    BY <2>2 DEF AskFile, AskPlugins, AskName
  <2>3. CASE Answer
    BY <2>3 DEF Answer, NoQuestion
  <2>4. CASE UNCHANGED question
    BY <1>2, <2>4
  <2>5. QED
    BY <1>2, <2>1, <2>2, <2>3, <2>4 DEF Next, Ask
<1>3. QED
  BY <1>1, <1>2, PTL DEF Spec

(* The property of the run, with the exception it names, comments around   *)
(* the rule or not, for all plain user names (sender_filter.py 70-101).    *)
THEOREM RulesSelectSenders == PlainUsers => (Spec => []RulesSelect)
<1> SUFFICES ASSUME PlainUsers PROVE Spec => []RulesSelect
  OBVIOUS
<1>1. ASSUME NEW r \in Rules, NEW a \in Addresses
      PROVE  Matches(Lines(r), a) <=> Named(r, a) \/ AlsoSelected(r, a)
  <2> DEFINE lines == Lines(r)
  <2>1. ~LineMatches(<<"#", "a">>, a) /\ ~LineMatches(<< >>, a)
    <3>1. Head(<<"#", "a">>) = "#"
      OBVIOUS
    <3>2. IsComment(<<"#", "a">>) /\ IsComment(<< >>)
      BY <3>1 DEF IsComment
    <3>3. QED
      BY <3>2 DEF LineMatches
  <2>2. Matches(lines, a) <=> LineMatches(RuleText(r), a)
    <3>1. /\ DOMAIN lines = 1..3
          /\ lines[1] = <<"#", "a">> /\ lines[2] = RuleText(r) /\ lines[3] = << >>
      BY DEF Lines
    <3>2. 1..3 = {1, 2, 3}
      OBVIOUS
    <3> HIDE DEF lines
    <3>3. QED
      BY <2>1, <3>1, <3>2 DEF Matches
  <2>3. r \in [form : Forms, address : PlainAddresses] /\ a \in PlainAddresses
    BY AddressesArePlain DEF Rules
  <2>4. QED
    BY <2>2, <2>3, RuleLinesSelect
<1>2. (question.about = "rule" => question.rule \in Rules) => RulesSelect
  BY <1>1 DEF RulesSelect
<1>3. QED
  BY <1>2, RulesAsked, PTL
==============================================================================
