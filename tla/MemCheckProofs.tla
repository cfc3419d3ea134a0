--------------------------- MODULE MemCheckProofs ---------------------------
(* Proofs about the memory tester, for every buffer, split into chunks in any
   way, and any number of flips, sweeps and records per sweep. *)
EXTENDS MemCheck, FiniteSetTheorems, TLAPS

InSweep == at \in {"compare", "report", "scrub"}

\* What belongs to a chunk is there only while that chunk is handled, and what
\* belongs to a sweep only during the sweep.
PlaceInv ==
  /\ at \in {"report", "scrub"} => chunk <= Len(Chunks)
  /\ at \notin {"report", "scrub"} => idx = {}
  /\ ~InSweep => totalMism = 0
  /\ InSweep => hold < HoldSweeps

\* The log is behind the count by what this sweep has not reported.
LogInv ==
  /\ InSweep =>
       /\ upsets + emitted = recorded + overflowed
       /\ emitted <= totalMism
       /\ at = "report" => emitted + Cardinality(idx) <= totalMism
  /\ ~InSweep => upsets = recorded + overflowed
  /\ corruptionSeen <=> upsets + totalMism > 0

MemInv == MemTypeOK /\ PlaceInv /\ LogInv /\ Conservation

LEMMA ByteSets ==
  ASSUME NEW S \in SUBSET Bytes
  PROVE  IsFiniteSet(S) /\ Cardinality(S) \in Nat
BY MemAssumption, FS_Subset, FS_CardinalityType

LEMMA DirtyBytes == \A m : Dirty(m) \subseteq Bytes
BY DEF Dirty

\* A set of bytes, with and without one of them.
LEMMA OneByte ==
  ASSUME NEW S \in SUBSET Bytes, NEW b \in Bytes
  PROVE  Cardinality(S) = Cardinality(S \ {b}) + Cardinality({b} \cap S)
<1>1. IsFiniteSet(S) /\ Cardinality(S) \in Nat
  BY ByteSets
<1>2. CASE b \in S
  <2>1. Cardinality(S \ {b}) = Cardinality(S) - 1
    BY <1>1, <1>2, FS_RemoveElement
  <2>2. {b} \cap S = {b}
    BY <1>2
  <2>3. Cardinality({b}) = 1
    BY FS_Singleton
  <2>4. Cardinality({b} \cap S) = 1
    BY <2>2, <2>3
  <2> QED
    BY <1>1, <2>1, <2>4
<1>3. CASE b \notin S
  <2>1. S \ {b} = S /\ {b} \cap S = {}
    BY <1>3
  <2>2. Cardinality({b} \cap S) = 0
    BY <2>1, FS_EmptySet
  <2> QED
    BY <1>1, <2>1, <2>2
<1> QED
  BY <1>2, <1>3

LEMMA Parts ==
  ASSUME NEW S \in SUBSET Bytes, NEW T \in SUBSET S
  PROVE  Cardinality(S) = Cardinality(T) + Cardinality(S \ T)
<1>1. IsFiniteSet(T) /\ IsFiniteSet(S \ T) /\ IsFiniteSet(S)
  BY ByteSets
<1> DEFINE R == S \ T
<1>2. T \cup R = S /\ T \cap R = {}
  OBVIOUS
<1>3. Cardinality(T \cap R) = 0
  BY <1>2, FS_EmptySet
<1>4. Cardinality(T) \in Nat /\ Cardinality(R) \in Nat
  BY ByteSets
<1>5. Cardinality(T \cup R) = Cardinality(T) + Cardinality(R) - Cardinality(T \cap R)
  BY <1>1, FS_Union
<1>6. Cardinality(S) = Cardinality(T) + Cardinality(R)
  <2>1. Cardinality(T \cup R) = Cardinality(S)
    BY <1>2, Zenon
  <2> HIDE DEF R
  <2> QED
    BY <1>3, <1>4, <1>5, <2>1
<1> QED
  BY <1>6

\* What the beam or the fault injection does, wherever the tester is.
LEMMA FlipCounted ==
  ASSUME MemTypeOK, NEW b \in Bytes, NEW bit \in Bits, FlipAt(b, bit), idx' = idx
  PROVE  /\ mem' \in [Bytes -> SUBSET Bits] /\ hits' \in Int
         /\ hits' - Cardinality(Dirty(mem') \ idx)
              = hits - Cardinality(Dirty(mem) \ idx)
<1>1. mem' = [mem EXCEPT ![b] = IF bit \in @ THEN @ \ {bit} ELSE @ \cup {bit}]
  BY DEF FlipAt, Flipped
<1>2. mem' \in [Bytes -> SUBSET Bits] /\ \A c \in Bytes \ {b} : mem'[c] = mem[c]
  BY <1>1 DEF MemTypeOK
<1> DEFINE before == Dirty(mem) \ idx
           after == Dirty(mem') \ idx
<1>3. before \in SUBSET Bytes /\ after \in SUBSET Bytes
  BY DEF Dirty
<1>4. before \ {b} = after \ {b}
  BY <1>2 DEF Dirty
<1>5. hits \in Int
  BY DEF MemTypeOK
<1>6. /\ Cardinality(before \ {b}) \in Nat /\ Cardinality(before) \in Nat
      /\ Cardinality(after) \in Nat
      /\ Cardinality({b} \cap before) \in Nat /\ Cardinality({b} \cap after) \in Nat
  BY <1>3, ByteSets
<1>7. /\ Cardinality(before) = Cardinality(before \ {b}) + Cardinality({b} \cap before)
      /\ Cardinality(after) = Cardinality(before \ {b}) + Cardinality({b} \cap after)
  BY <1>3, <1>4, OneByte
<1>8. CASE b \in idx
  <2>1. {b} \cap before = {} /\ {b} \cap after = {} /\ hits' = hits
    BY <1>8 DEF FlipAt
  <2> QED
    BY <1>2, <1>5, <1>6, <1>7, <2>1
<1>9. CASE b \notin idx
  <2>1. {b} \cap before = {b} \cap Dirty(mem) /\ {b} \cap after = {b} \cap Dirty(mem')
    BY <1>9
  <2>2. hits' = hits + Cardinality({b} \cap Dirty(mem'))
                     - Cardinality({b} \cap Dirty(mem))
    BY <1>9 DEF FlipAt
  <2>3. hits' = hits + Cardinality({b} \cap after) - Cardinality({b} \cap before)
    BY <2>1, <2>2
  <2> HIDE DEF before, after
  <2>4. hits' \in Int /\ hits' - Cardinality(after) = hits - Cardinality(before)
    BY <1>5, <1>6, <1>7, <2>3
  <2> QED
    BY <1>2, <2>4 DEF before, after
<1> QED
  BY <1>8, <1>9

----------------------------------------------------------------------------
LEMMA InitMem == MemInit => MemInv
<1> SUFFICES ASSUME MemInit PROVE MemInv
  OBVIOUS
<1> USE DEF MemInit
<1>1. Dirty(mem) \ idx = {}
  BY DEF Dirty
<1>2. Cardinality(Dirty(mem) \ idx) = 0
  BY <1>1, FS_EmptySet
<1>3. Conservation
  BY <1>2 DEF Conservation
<1>4. MemTypeOK
  <2>1. mem \in [Bytes -> SUBSET Bits] /\ idx \subseteq Bytes
    BY Zenon
  <2>2. chunk \in 1..(Len(Chunks) + 1)
    BY MemAssumption
  <2>3. hold \in 0..HoldSweeps /\ emitted \in 0..MaxReport
    BY MemAssumption
  <2>4. corruptionSeen \in BOOLEAN /\ memStop \in BOOLEAN
    BY Zenon
  <2>5. /\ at \in Places
        /\ totalMism \in Nat /\ sweeps \in Nat /\ upsets \in Nat
        /\ recorded \in Nat /\ overflowed \in Nat /\ checkpoint \in Nat
        /\ flips \in Nat /\ hits \in Int /\ unseen \in Nat
    BY DEF Places
  <2> HIDE DEF MemInit
  <2> QED
    BY <2>1, <2>2, <2>3, <2>4, <2>5, Zenon DEF MemTypeOK
<1>5. PlaceInv
  BY DEF PlaceInv, InSweep
<1>6. LogInv
  BY DEF LogInv, InSweep
<1> QED
  BY <1>3, <1>4, <1>5, <1>6 DEF MemInv

\* The steps that leave the counters alone, and the log with them.
LEMMA LogKept ==
  ASSUME LogInv, UNCHANGED <<upsets, totalMism, emitted, corruptionSeen, recorded, overflowed>>,
         UNCHANGED <<at, idx>>
  PROVE  LogInv'
<1>1. UNCHANGED InSweep
  BY DEF InSweep
<1> QED
  BY <1>1 DEF LogInv

LEMMA UpsetStep == MemInv /\ Upset => MemInv'
<1> SUFFICES ASSUME MemInv, Upset PROVE MemInv'
  OBVIOUS
<1> USE DEF MemInv
<1>1. PICK b \in Bytes, bit \in Bits : FlipAt(b, bit)
  BY DEF Upset
<1>2. UNCHANGED <<at, chunk, idx, hold, totalMism, emitted, sweeps, upsets,
                  corruptionSeen, memStop, recorded, overflowed, checkpoint, unseen>>
      /\ flips' = flips + 1
  BY DEF Upset, countVars, logVars
<1>3. /\ mem' \in [Bytes -> SUBSET Bits] /\ hits' \in Int
      /\ hits' - Cardinality(Dirty(mem') \ idx)
           = hits - Cardinality(Dirty(mem) \ idx)
  BY <1>1, <1>2, FlipCounted
<1>4. MemTypeOK'
  BY <1>2, <1>3 DEF MemTypeOK
<1>5. PlaceInv'
  BY <1>2 DEF PlaceInv, InSweep
<1>6. LogInv'
  BY <1>2, LogKept
<1>7. Conservation'
  <2>1. Cardinality(Dirty(mem) \ idx) \in Nat /\ Cardinality(Dirty(mem') \ idx) \in Nat
    BY DirtyBytes, ByteSets
  <2>2. Conservation /\ upsets \in Nat /\ totalMism \in Nat /\ unseen \in Nat /\ hits \in Int
    BY DEF MemTypeOK
  <2> QED
    BY <1>2, <1>3, <2>1, <2>2 DEF Conservation
<1> QED
  BY <1>4, <1>5, <1>6, <1>7

LEMMA SignalStep == MemInv /\ MemSignal => MemInv'
<1> SUFFICES ASSUME MemInv, MemSignal PROVE MemInv'
  OBVIOUS
<1> USE DEF MemInv
<1>1. UNCHANGED <<mem, at, chunk, idx, hold, totalMism, emitted, sweeps, upsets,
                  corruptionSeen, recorded, overflowed, checkpoint, flips, hits, unseen>>
      /\ memStop' = TRUE
  BY DEF MemSignal, logVars
<1>2. MemTypeOK'
  BY <1>1 DEF MemTypeOK
<1>3. PlaceInv'
  BY <1>1 DEF PlaceInv, InSweep
<1>4. LogInv'
  BY <1>1, LogKept
<1>5. Conservation'
  <2>1. UNCHANGED Dirty(mem)
    BY <1>1 DEF Dirty
  <2> QED
    BY <1>1, <2>1 DEF Conservation
<1> QED
  BY <1>2, <1>3, <1>4, <1>5

LEMMA PaintStep == MemInv /\ Paint => MemInv'
<1> SUFFICES ASSUME MemInv, Paint PROVE MemInv'
  OBVIOUS
<1> USE DEF MemInv
<1>1. UNCHANGED <<chunk, idx, totalMism, emitted, sweeps, upsets, corruptionSeen,
                  memStop, recorded, overflowed, checkpoint, flips, hits>>
      /\ at = "paint" /\ at' = "sweep" /\ hold' = 0
      /\ mem' = [b \in Bytes |-> {}]
      /\ unseen' = unseen + Cardinality(Dirty(mem))
  BY DEF Paint, countVars, logVars
<1>2. Cardinality(Dirty(mem)) \in Nat
  BY DirtyBytes, ByteSets
<1>3. MemTypeOK'
  BY <1>1, <1>2, MemAssumption DEF MemTypeOK, Places
<1>4. PlaceInv'
  BY <1>1 DEF PlaceInv, InSweep
<1>5. LogInv'
  BY <1>1 DEF LogInv, InSweep
<1>6. Conservation'
  <2>1. idx = {} /\ idx' = {}
    BY <1>1 DEF PlaceInv
  <2>2. Dirty(mem) \ idx = Dirty(mem) /\ Dirty(mem') \ idx' = {}
    BY <1>1, <2>1 DEF Dirty
  <2>3. Cardinality(Dirty(mem) \ idx) = Cardinality(Dirty(mem))
    BY <2>2
  <2>4. Cardinality(Dirty(mem') \ idx') = 0
    BY <2>2, FS_EmptySet
  <2>5. Conservation /\ upsets \in Nat /\ totalMism \in Nat /\ unseen \in Nat /\ hits \in Int
    BY DEF MemTypeOK
  <2> QED
    BY <1>1, <1>2, <2>3, <2>4, <2>5 DEF Conservation
<1> QED
  BY <1>3, <1>4, <1>5, <1>6

LEMMA SweepStep == MemInv /\ Sweep => MemInv'
<1> SUFFICES ASSUME MemInv, Sweep PROVE MemInv'
  OBVIOUS
<1> USE DEF MemInv
<1>1. UNCHANGED <<idx, hold, sweeps, upsets, corruptionSeen,
                  memStop, recorded, overflowed, checkpoint, flips, unseen>>
      /\ at = "sweep" /\ at' = "compare" /\ chunk' = 1 /\ totalMism' = 0 /\ emitted' = 0
  BY DEF Sweep, countVars, logVars
<1>2. /\ mem' \in [Bytes -> SUBSET Bits] /\ hits' \in Int
      /\ hits' - Cardinality(Dirty(mem') \ idx)
           = hits - Cardinality(Dirty(mem) \ idx)
  <2>1. CASE FlipAt(InjectByte, InjectBit)
    BY <1>1, <2>1, MemAssumption, FlipCounted
  <2>2. CASE UNCHANGED <<mem, hits>>
    BY <2>2 DEF MemTypeOK, Dirty
  <2> QED
    BY <2>1, <2>2 DEF Sweep
<1>3. MemTypeOK'
  BY <1>1, <1>2, MemAssumption DEF MemTypeOK, Places
<1>4. PlaceInv'
  <2>1. hold' < HoldSweeps
    BY <1>1 DEF Sweep
  <2> QED
    BY <1>1, <2>1 DEF PlaceInv, InSweep
<1>5. LogInv'
  <2>1. totalMism = 0
    BY <1>1 DEF PlaceInv, InSweep
  <2> QED
    BY <1>1, <2>1 DEF LogInv, InSweep, MemTypeOK
<1>6. Conservation'
  <2>1. Cardinality(Dirty(mem) \ idx) \in Nat /\ Cardinality(Dirty(mem') \ idx) \in Nat
    BY DirtyBytes, ByteSets
  <2>2. Conservation /\ upsets \in Nat /\ totalMism = 0 /\ unseen \in Nat /\ hits \in Int
    BY <1>1 DEF MemTypeOK, PlaceInv, InSweep
  <2> QED
    BY <1>1, <1>2, <2>1, <2>2 DEF Conservation
<1> QED
  BY <1>3, <1>4, <1>5, <1>6

\* The steps that only move on, outside a sweep.
LEMMA MovesOn ==
  ASSUME MemInv,
         UNCHANGED <<mem, chunk, idx, totalMism, emitted, sweeps, upsets, corruptionSeen,
                     memStop, recorded, overflowed, flips, hits, unseen>>,
         hold' \in 0..HoldSweeps, checkpoint' \in Nat,
         at \in Places \ {"compare", "report", "scrub"},
         at' \in Places \ {"compare", "report", "scrub"}
  PROVE  MemInv'
<1> USE DEF MemInv
<1>1. MemTypeOK'
  BY DEF MemTypeOK
<1>2. PlaceInv'
  BY DEF PlaceInv, InSweep
<1>3. LogInv'
  BY DEF LogInv, InSweep
<1>4. Conservation'
  <2>1. UNCHANGED Dirty(mem)
    BY DEF Dirty
  <2> QED
    BY <2>1 DEF Conservation
<1> QED
  BY <1>1, <1>2, <1>3, <1>4

LEMMA RestStep == MemInv /\ (Repaint \/ Wake \/ Stop) => MemInv'
<1> SUFFICES ASSUME MemInv, Repaint \/ Wake \/ Stop PROVE MemInv'
  OBVIOUS
<1>1. hold \in 0..HoldSweeps /\ checkpoint \in Nat /\ upsets \in Nat
  BY DEF MemInv, MemTypeOK
<1>2. CASE Repaint
  BY <1>1, <1>2, MovesOn DEF Repaint, countVars, logVars, Places
<1>3. CASE Wake
  BY <1>1, <1>3, MovesOn DEF Wake, countVars, logVars, Places
<1>4. CASE Stop
  BY <1>1, <1>4, MovesOn DEF Stop, countVars, Places
<1> QED
  BY <1>2, <1>3, <1>4

\* Comparing moves the differing bytes of the chunk from the buffer's account to
\* the sweep's.
LEMMA CompareStep == MemInv /\ Compare => MemInv'
<1> SUFFICES ASSUME MemInv, Compare PROVE MemInv'
  OBVIOUS
<1> USE DEF MemInv
<1> DEFINE differ == Chunks[chunk] \cap Dirty(mem)
<1>1. UNCHANGED <<mem, hold, emitted, sweeps, upsets, memStop, recorded, overflowed,
                  checkpoint, flips, hits, unseen>>
      /\ at = "compare" /\ chunk <= Len(Chunks)
  BY DEF Compare, logVars
<1>2. differ \subseteq Dirty(mem) /\ differ \subseteq Bytes
  BY DEF Dirty
<1>3. Cardinality(differ) \in Nat
  BY <1>2, ByteSets
<1>4. idx = {} /\ chunk \in 1..Len(Chunks) /\ Len(Chunks) \in Nat
  BY <1>1, MemAssumption DEF PlaceInv, MemTypeOK
<1>5. UNCHANGED Dirty(mem)
  BY <1>1 DEF Dirty
<1>6. upsets + emitted = recorded + overflowed /\ emitted <= totalMism
  BY <1>1 DEF LogInv, InSweep
<1>7. upsets \in Nat /\ totalMism \in Nat /\ unseen \in Nat /\ hits \in Int /\ emitted \in Nat
  BY MemAssumption DEF MemTypeOK
<1>8. CASE differ = {}
  <2>1. chunk' = chunk + 1 /\ UNCHANGED <<at, idx, totalMism, corruptionSeen>>
    BY <1>8 DEF Compare
  <2>2. MemTypeOK'
    BY <1>1, <1>4, <2>1 DEF MemTypeOK
  <2>3. PlaceInv'
    BY <1>1, <2>1 DEF PlaceInv, InSweep
  <2>4. LogInv'
    BY <1>1, <2>1, LogKept
  <2>5. Conservation'
    BY <1>1, <1>5, <2>1 DEF Conservation
  <2> QED
    BY <2>2, <2>3, <2>4, <2>5
<1>9. CASE differ # {}
  <2>1. /\ idx' = differ /\ totalMism' = totalMism + Cardinality(differ)
        /\ corruptionSeen' = TRUE /\ at' = "report" /\ chunk' = chunk
    BY <1>9 DEF Compare
  <2>2. Cardinality(differ) # 0
    BY <1>2, <1>9, ByteSets, FS_EmptySet
  <2>3. Cardinality(Dirty(mem)) = Cardinality(differ) + Cardinality(Dirty(mem) \ differ)
    BY <1>2, DirtyBytes, Parts
  <2>4. Cardinality(Dirty(mem) \ idx) = Cardinality(Dirty(mem))
    <3>1. Dirty(mem) \ idx = Dirty(mem)
      BY <1>4
    <3> QED
      BY <3>1, Zenon
  <2>5. Cardinality(Dirty(mem') \ idx') = Cardinality(Dirty(mem) \ differ)
    BY <1>5, <2>1, Zenon
  <2>6. Cardinality(Dirty(mem) \ differ) \in Nat
    BY DirtyBytes, ByteSets
  <2>7. idx' \subseteq Bytes
    BY <1>2, <2>1
  <2>8. Cardinality(idx') = Cardinality(differ)
    BY <2>1
  <2> HIDE DEF differ
  <2>9. MemTypeOK'
    BY <1>1, <1>3, <2>1, <2>7 DEF MemTypeOK, Places
  <2>10. PlaceInv'
    BY <1>1, <2>1 DEF PlaceInv, InSweep
  <2>11. LogInv'
    BY <1>1, <1>3, <1>6, <1>7, <2>1, <2>2, <2>8 DEF LogInv, InSweep
  <2>12. Conservation'
    BY <1>1, <1>3, <1>7, <2>1, <2>3, <2>4, <2>5, <2>6 DEF Conservation
  <2> QED
    BY <2>9, <2>10, <2>11, <2>12
<1> QED
  BY <1>8, <1>9

LEMMA ReportStep == MemInv /\ Report => MemInv'
<1> SUFFICES ASSUME MemInv, Report PROVE MemInv'
  OBVIOUS
<1> USE DEF MemInv
<1> DEFINE c == Cardinality(idx)
           n == IF c < MaxReport - emitted THEN c ELSE MaxReport - emitted
<1>1. UNCHANGED <<mem, chunk, idx, hold, totalMism, sweeps, upsets, corruptionSeen,
                  memStop, overflowed, checkpoint, flips, hits, unseen>>
      /\ at = "report" /\ at' = "scrub"
      /\ emitted' = emitted + n /\ recorded' = recorded + n
  BY DEF Report, countVars
<1>2. c \in Nat
  BY ByteSets DEF MemTypeOK
<1>3. /\ upsets \in Nat /\ totalMism \in Nat /\ emitted \in 0..MaxReport /\ recorded \in Nat
      /\ overflowed \in Nat /\ MaxReport \in Nat
  BY MemAssumption DEF MemTypeOK
<1>4. /\ upsets + emitted = recorded + overflowed
      /\ emitted + c <= totalMism
      /\ corruptionSeen <=> upsets + totalMism > 0
  BY <1>1 DEF LogInv, InSweep
<1> HIDE DEF c
<1>5. n \in Nat /\ emitted + n <= totalMism /\ emitted + n \in 0..MaxReport
  BY <1>2, <1>3, <1>4
<1> HIDE DEF n
<1>6. MemTypeOK'
  BY <1>1, <1>3, <1>5 DEF MemTypeOK, Places
<1>7. PlaceInv'
  BY <1>1 DEF PlaceInv, InSweep
<1>8. LogInv'
  <2>1. upsets' + emitted' = recorded' + overflowed' /\ emitted' <= totalMism'
    BY <1>1, <1>3, <1>4, <1>5
  <2>2. corruptionSeen' <=> upsets' + totalMism' > 0
    BY <1>1, <1>4
  <2> QED
    BY <1>1, <2>1, <2>2 DEF LogInv, InSweep
<1>9. Conservation'
  <2>1. UNCHANGED Dirty(mem)
    BY <1>1 DEF Dirty
  <2> QED
    BY <1>1, <2>1 DEF Conservation
<1> QED
  BY <1>6, <1>7, <1>8, <1>9

LEMMA ScrubStep == MemInv /\ Scrub => MemInv'
<1> SUFFICES ASSUME MemInv, Scrub PROVE MemInv'
  OBVIOUS
<1> USE DEF MemInv
<1>1. UNCHANGED <<hold, totalMism, emitted, sweeps, upsets, corruptionSeen, memStop,
                  recorded, overflowed, checkpoint, flips, hits, unseen>>
      /\ at = "scrub" /\ at' = "compare" /\ idx' = {} /\ chunk' = chunk + 1
      /\ mem' = [b \in Bytes |-> IF b \in idx THEN {} ELSE mem[b]]
  BY DEF Scrub, countVars, logVars
<1>2. mem' \in [Bytes -> SUBSET Bits]
  BY <1>1 DEF MemTypeOK
<1>3. chunk \in 1..Len(Chunks) /\ Len(Chunks) \in Nat
  BY <1>1, MemAssumption DEF PlaceInv, MemTypeOK
<1>4. MemTypeOK'
  BY <1>1, <1>2, <1>3 DEF MemTypeOK, Places
<1>5. PlaceInv'
  BY <1>1 DEF PlaceInv, InSweep
<1>6. LogInv'
  BY <1>1 DEF LogInv, InSweep
<1>7. Conservation'
  <2>1. Dirty(mem') \ idx' = Dirty(mem) \ idx
    BY <1>1 DEF Dirty
  <2>2. Cardinality(Dirty(mem') \ idx') = Cardinality(Dirty(mem) \ idx)
    BY <2>1, Zenon
  <2> QED
    BY <1>1, <2>2 DEF Conservation
<1> QED
  BY <1>4, <1>5, <1>6, <1>7

LEMMA CountStep == MemInv /\ CountSweep => MemInv'
<1> SUFFICES ASSUME MemInv, CountSweep PROVE MemInv'
  OBVIOUS
<1> USE DEF MemInv
<1>1. UNCHANGED <<mem, chunk, idx, emitted, corruptionSeen, recorded, flips, hits, unseen>>
      /\ at = "compare" /\ totalMism' = 0
      /\ upsets' = upsets + totalMism
      /\ overflowed' = (IF totalMism > emitted THEN overflowed + totalMism - emitted
                        ELSE overflowed)
      /\ sweeps' = sweeps + 1 /\ hold' = hold + 1
  BY DEF CountSweep
<1>2. at' \in {"stop", "sleep"}
  BY Zenon DEF CountSweep
<1>3. at' # "compare" /\ at' # "report" /\ at' # "scrub" /\ at' \in Places
  BY <1>2 DEF Places
<1>4. /\ upsets \in Nat /\ totalMism \in Nat /\ emitted \in Nat /\ recorded \in Nat
      /\ overflowed \in Nat /\ checkpoint \in Nat /\ unseen \in Nat /\ hits \in Int
  BY MemAssumption DEF MemTypeOK
<1>5. /\ upsets + emitted = recorded + overflowed /\ emitted <= totalMism
      /\ corruptionSeen <=> upsets + totalMism > 0
  BY <1>1 DEF LogInv, InSweep
<1>6. memStop' \in BOOLEAN
  BY Zenon DEF CountSweep, MemTypeOK
<1>7. checkpoint' \in Nat
  BY <1>4 DEF CountSweep
<1>8. hold < HoldSweeps
  BY <1>1 DEF PlaceInv, InSweep
<1>9. MemTypeOK'
  <2>1. overflowed' \in Nat /\ upsets' \in Nat /\ totalMism' \in Nat
    BY <1>1, <1>4
  <2>2. sweeps' \in Nat /\ hold' \in 0..HoldSweeps
    BY <1>1, <1>8, MemAssumption DEF MemTypeOK
  <2>3. UNCHANGED <<mem, chunk, idx, emitted, recorded, flips, hits, unseen>>
    BY <1>1
  <2>4. corruptionSeen' \in BOOLEAN
    BY <1>1 DEF MemTypeOK
  <2> QED
    BY <1>6, <1>7, <1>3, <2>1, <2>2, <2>3, <2>4 DEF MemTypeOK
<1>10. PlaceInv'
  BY <1>1, <1>3 DEF PlaceInv, InSweep
<1>11. LogInv'
  <2>1. upsets' = recorded' + overflowed'
    BY <1>1, <1>4, <1>5
  <2>2. corruptionSeen' <=> upsets' + totalMism' > 0
    BY <1>1, <1>4, <1>5
  <2> QED
    BY <1>3, <2>1, <2>2 DEF LogInv, InSweep
<1>12. Conservation'
  <2>1. UNCHANGED Dirty(mem)
    BY <1>1 DEF Dirty
  <2>2. Cardinality(Dirty(mem) \ idx) \in Nat
    BY DirtyBytes, ByteSets
  <2>3. Cardinality(Dirty(mem') \ idx') = Cardinality(Dirty(mem) \ idx)
    BY <1>1, <2>1, Zenon
  <2> QED
    BY <1>1, <1>4, <2>2, <2>3 DEF Conservation
<1> QED
  BY <1>9, <1>10, <1>11, <1>12

----------------------------------------------------------------------------
LEMMA MemStep == MemInv /\ [MemNext]_memVars => MemInv'
<1> SUFFICES ASSUME MemInv, [MemNext]_memVars PROVE MemInv'
  OBVIOUS
<1>1. CASE UNCHANGED memVars
  <2>1. UNCHANGED Dirty(mem)
    BY <1>1 DEF memVars, Dirty
  <2> QED
    BY <1>1, <2>1 DEF memVars, countVars, logVars, MemInv, MemTypeOK, PlaceInv,
                      LogInv, InSweep, Conservation
<1>2. CASE MemNext
  BY <1>2, UpsetStep, SignalStep, PaintStep, SweepStep, CompareStep, ReportStep,
     ScrubStep, CountStep, RestStep DEF MemNext
<1> QED
  BY <1>1, <1>2

LEMMA MemInvariant == MemSpec => []MemInv
<1> QED
  BY InitMem, MemStep, PTL DEF MemSpec

\* The counters stay counters, and the chunk and the sweep within their ranges,
\* whenever the beam flips what.
THEOREM MemTypes == MemSpec => []MemTypeOK
<1>1. MemInv => MemTypeOK
  BY DEF MemInv
<1> QED
  BY <1>1, MemInvariant, PTL

\* Every corrupted byte is counted exactly once, is still there to be counted, or
\* was painted over, for any order of flips and steps of main (mem_check.py:286-386).
THEOREM ConservationHolds == MemSpec => []Conservation
<1>1. MemInv => Conservation
  BY DEF MemInv
<1> QED
  BY <1>1, MemInvariant, PTL

\* The log gives the number of upsets in spite of max_report, and the exit code
\* says whether there were any (mem_check.py:320-384).
THEOREM LogAddsUpHolds == MemSpec => []LogAddsUp
<1>1. MemInv => LogAddsUp
  <2> SUFFICES ASSUME MemInv, at \in {"paint", "sweep", "sleep", "stop", "end"}
               PROVE  upsets = recorded + overflowed /\ (corruptionSeen <=> upsets > 0)
    BY DEF LogAddsUp
  <2>1. upsets = recorded + overflowed /\ totalMism = 0
    BY DEF MemInv, PlaceInv, LogInv, InSweep
  <2>2. upsets \in Nat
    BY DEF MemInv, MemTypeOK
  <2>3. corruptionSeen <=> upsets + totalMism > 0
    BY DEF MemInv, LogInv
  <2>4. upsets + totalMism > 0 <=> upsets > 0
    BY <2>1, <2>2
  <2> QED
    BY <2>1, <2>3, <2>4, Zenon
<1> QED
  BY <1>1, MemInvariant, PTL
=============================================================================
