----------------------------- MODULE ArbiterProofs -----------------------------
(***************************************************************************)
(* Proofs about the parts of the arbiter that bring results in and keep    *)
(* them: the way of the SEE records from the DUT's log to the operator,    *)
(* for any number of records, crashes and bytes lost in one, and any       *)
(* sequence of pulls, polls and selections; the collection of baseline     *)
(* CSVs, for any number of baselines fetched at once, any length of a CSV, *)
(* and any behaviour of the mirror; and, with the theorems about the GUI,  *)
(* the types of all three side by side.                                    *)
(***************************************************************************)
EXTENDS MCArbiter, CoordinatorProofs, WellFoundedInduction, FiniteSetTheorems

-----------------------------------------------------------------------------
(* The mirror of the log and its tailer. *)

\* Record r is the unit at position i of the log or of its mirror.
Copy(r, i) ==
  \/ i \in 1..Len(file) /\ file[i] = r
  \/ i \in 1..Len(mirrorFile) /\ mirrorFile[i] = r

\* A record has one position in both files, and no record is there before it
\* is written: what a crash took away is not written again.  Nor is it shown.
PlaceInv ==
  /\ \A r \in Records : \A i \in Nat : Copy(r, i) => r <= written
  /\ \A r \in Records : \A i, j \in Nat : Copy(r, i) /\ Copy(r, j) => i = j
  /\ \A r \in Records : shown[r] > 0 => r <= written

\* With rsync the mirror only grows, and what was shown lies behind the offset.
ReadInv ==
  backend = "rsync" =>
    /\ offset <= Len(mirrorFile)
    /\ \A r \in Records : shown[r] > 0 =>
         \A i \in Nat : Copy(r, i) => i <= Len(mirrorFile) /\ (primed => i <= offset)
    /\ ShownOnce

\* Unless a crash took back what was mirrored, the mirror is the beginning of
\* the log, and the tailer stands where it was primed or at the end of a line.
PrefixInv ==
  ~cut =>
    /\ Len(mirrorFile) <= Len(file) /\ offset <= Len(file)
    /\ \A i \in 1..Len(mirrorFile) : mirrorFile[i] = file[i]
    /\ primed => offset \in {0, primedAt} \/ file[offset] = Eol
    /\ NothingSkipped

MirrorInv == MirrorTypeOK /\ PlaceInv /\ ReadInv /\ PrefixInv

LEMMA Counts ==
  MaxRecords \in Nat /\ MaxShown \in Nat \ {0}
BY MirrorAssumption, Zenon

LEMMA NoEol == Eol \notin Records
BY Counts DEF Records, Eol

\* The maximum of a set of integers that is bounded from above.
LEMMA MaxBounded ==
  ASSUME NEW S \in SUBSET Int, S # {}, NEW n \in Int, \A x \in S : x <= n
  PROVE  Max(S) \in S /\ \A x \in S : x <= Max(S)
<1> DEFINE T == {n - x : x \in S}
<1>1. T \subseteq Nat /\ T # {}
  <2>1. \A x \in S : n - x \in Nat
    OBVIOUS
  <2>2. PICK x \in S : TRUE
    OBVIOUS
  <2>3. n - x \in T
    BY <2>2
  <2> QED
    BY <2>1, <2>3
<1>2. PICK t \in T : \A u \in T : ~(<<u, t>> \in OpToRel(<, Nat))
  BY <1>1, NatLessThanWellFounded, WFMin
<1>3. \A u \in T : t <= u
  <2> SUFFICES ASSUME NEW u \in T PROVE t <= u
    OBVIOUS
  <2>1. t \in Nat /\ u \in Nat
    BY <1>1
  <2>2. ~(u < t)
    BY <1>2, <2>1 DEF OpToRel
  <2> QED
    BY <2>1, <2>2
<1>4. PICK m \in S : t = n - m
  OBVIOUS
<1>5. \A x \in S : m >= x
  BY SMTT(60), <1>3, <1>4
<1> QED
  BY <1>5 DEF Max

\* The end of the last whole line behind a position.
LEMMA LastLine ==
  ASSUME NEW s \in Seq(Units), NEW from \in Nat, from <= Len(s)
  PROVE  /\ LastEol(s, from) \in from..Len(s)
         /\ LastEol(s, from) = from \/ s[LastEol(s, from)] = Eol
         /\ \A i \in (from + 1)..Len(s) : s[i] = Eol => i <= LastEol(s, from)
<1> DEFINE S == {from} \cup {i \in (from + 1)..Len(s) : s[i] = Eol}
<1>1. S \in SUBSET Int /\ S # {} /\ Len(s) \in Int /\ \A x \in S : x <= Len(s)
  OBVIOUS
<1> HIDE DEF S
<1>2. Max(S) \in S /\ \A x \in S : x <= Max(S)
  BY <1>1, MaxBounded
<1>3. LastEol(s, from) = Max(S)
  BY DEF LastEol, S
<1> QED
  BY <1>2, <1>3 DEF S

LEMMA MirrorInitial == MirrorInit => MirrorInv
<1> SUFFICES ASSUME MirrorInit PROVE MirrorInv
  OBVIOUS
<1> USE Counts DEF MirrorInit
<1>1. file = <<>> /\ mirrorFile = <<>> /\ Len(file) = 0 /\ Len(mirrorFile) = 0
  OBVIOUS
<1>2. MirrorTypeOK
  <2>1. file \in Seq(Units) /\ mirrorFile \in Seq(Units)
    BY <1>1
  <2>2. /\ writing \in BOOLEAN /\ selected \in BOOLEAN /\ primed \in BOOLEAN
        /\ cut \in BOOLEAN
    BY Zenon
  <2>3. crashes \in 0..MaxCrashes
    BY MirrorAssumption
  <2> QED
    BY <2>1, <2>2, <2>3 DEF MirrorTypeOK
<1>3. \A r, i : ~Copy(r, i)
  BY <1>1 DEF Copy
<1>4. ReadInv
  BY <1>1 DEF ReadInv, ShownOnce
<1>5. PrefixInv
  BY <1>1 DEF PrefixInv, NothingSkipped
<1> QED
  BY <1>2, <1>3, <1>4, <1>5 DEF MirrorInv, PlaceInv
----------------------------------------------------------------------------
(* The log and its mirror. *)

\* A step after which no record is anywhere new, and the mirror of rsync is not
\* shorter.
LEMMA NothingNew ==
  ASSUME MirrorInv,
         \A r \in Records : \A i \in Nat : Copy(r, i)' => Copy(r, i),
         Len(mirrorFile') \in Nat, backend = "rsync" => Len(mirrorFile) <= Len(mirrorFile'),
         UNCHANGED <<written, backend, offset, primed, shown>>
  PROVE  PlaceInv' /\ ReadInv'
<1>1. PlaceInv'
  BY DEF MirrorInv, PlaceInv
<1>2. ReadInv'
  <2>1. Len(mirrorFile) \in Nat /\ offset \in Nat
    BY DEF MirrorInv, MirrorTypeOK
  <2> QED
    BY <2>1 DEF MirrorInv, ReadInv, ShownOnce
<1> QED
  BY <1>1, <1>2

\* The log grows behind all that was read.
LEMMA LogGrows ==
  ASSUME MirrorInv, NEW u \in Units, file' = Append(file, u),
         UNCHANGED <<backend, mirrorFile, tailVars, cut>>
  PROVE  /\ file' \in Seq(Units)
         /\ \A r, i : Copy(r, i)' <=> Copy(r, i) \/ (r = u /\ i = Len(file) + 1)
         /\ PrefixInv'
<1>1. file \in Seq(Units) /\ Len(file) \in Nat /\ offset \in Nat /\ primedAt \in Nat
      /\ Len(mirrorFile) \in Nat
  BY DEF MirrorInv, MirrorTypeOK
<1>2. /\ file' \in Seq(Units) /\ Len(file') = Len(file) + 1
      /\ file'[Len(file) + 1] = u /\ \A i \in 1..Len(file) : file'[i] = file[i]
  BY <1>1, AppendProperties
<1>3. \A r, i : Copy(r, i)' <=> Copy(r, i) \/ (r = u /\ i = Len(file) + 1)
  BY <1>1, <1>2 DEF Copy
<1>4. ASSUME ~cut PROVE PrefixInv'
  <2>1. /\ Len(mirrorFile) <= Len(file) /\ offset <= Len(file)
        /\ \A i \in 1..Len(mirrorFile) : mirrorFile[i] = file[i]
        /\ primed => offset \in {0, primedAt} \/ file[offset] = Eol
        /\ NothingSkipped
    BY <1>4 DEF MirrorInv, PrefixInv
  <2>2. primed' => offset' \in {0, primedAt'} \/ file'[offset'] = Eol
    BY <1>1, <1>2, <2>1 DEF tailVars
  <2>3. NothingSkipped'
    <3> SUFFICES ASSUME primed, NEW r \in Records, NEW i \in (primedAt + 1)..(offset - 1),
                        LineAt(file', i, r), StartsLine(file', i, 0)
                 PROVE  shown[r] > 0
      BY DEF NothingSkipped, tailVars, LineAt, StartsLine
    <3>1. i \in 1..Len(file) /\ i + 1 \in 1..Len(file)
      BY <1>1, <2>1
    <3>2. LineAt(file, i, r) /\ StartsLine(file, i, 0)
      BY <1>1, <1>2, <3>1 DEF LineAt, StartsLine
    <3> QED
      BY <1>4, <2>1, <3>2 DEF NothingSkipped
  <2> QED
    BY <1>1, <1>2, <2>1, <2>2, <2>3 DEF PrefixInv, tailVars
<1> QED
  BY <1>2, <1>3, <1>4 DEF PrefixInv

LEMMA WriteTextStep == ASSUME MirrorInv, WriteText PROVE MirrorInv'
<1> DEFINE w == written + 1
<1>1. /\ written \in 0..MaxRecords /\ written < MaxRecords /\ w \in Records /\ w \in Units
      /\ file \in Seq(Units) /\ Len(file) \in Nat /\ offset \in Nat
      /\ Len(mirrorFile) \in Nat
  BY Counts DEF MirrorInv, MirrorTypeOK, WriteText, Records, Units
<1>2. /\ file' = Append(file, w) /\ written' = w /\ writing' = TRUE
      /\ UNCHANGED <<crashes, backend, mirrorFile, tailVars, cut>>
  BY DEF WriteText
<1>3. /\ file' \in Seq(Units) /\ PrefixInv'
      /\ \A r, i : Copy(r, i)' <=> Copy(r, i) \/ (r = w /\ i = Len(file) + 1)
  BY <1>1, <1>2, LogGrows
<1>4. MirrorTypeOK'
  <2>1. writing' \in BOOLEAN /\ written' \in 0..MaxRecords
    BY <1>1, <1>2, Counts
  <2> QED
    BY <1>2, <1>3, <2>1 DEF MirrorInv, MirrorTypeOK, tailVars
<1>5. (\A i \in Nat : ~Copy(w, i)) /\ ~(shown[w] > 0)
  BY <1>1 DEF MirrorInv, PlaceInv
<1>6. PlaceInv'
  <2>1. \A r \in Records : r <= written => r <= w
    BY <1>1, Counts DEF Records
  <2> QED
    BY <1>2, <1>3, <1>5, <2>1 DEF MirrorInv, PlaceInv, tailVars
<1>7. ReadInv'
  BY <1>1, <1>2, <1>3, <1>5 DEF MirrorInv, ReadInv, ShownOnce, tailVars
<1> QED
  BY <1>3, <1>4, <1>6, <1>7 DEF MirrorInv

LEMMA WriteEolStep == ASSUME MirrorInv, WriteEol PROVE MirrorInv'
<1>1. /\ file' = Append(file, Eol) /\ writing' = FALSE /\ Eol \in Units
      /\ UNCHANGED <<written, crashes, backend, mirrorFile, tailVars, cut>>
  BY DEF WriteEol, Units
<1>2. /\ file' \in Seq(Units) /\ PrefixInv'
      /\ \A r, i : Copy(r, i)' <=> Copy(r, i) \/ (r = Eol /\ i = Len(file) + 1)
  BY <1>1, LogGrows
<1>3. MirrorTypeOK'
  BY <1>1, <1>2 DEF MirrorInv, MirrorTypeOK, tailVars
<1>4. \A r \in Records : \A i \in Nat : Copy(r, i)' => Copy(r, i)
  BY <1>2, NoEol
<1>5. Len(mirrorFile) \in Nat
  BY DEF MirrorInv, MirrorTypeOK
<1>6. PlaceInv' /\ ReadInv'
  BY <1>1, <1>4, <1>5, NothingNew DEF tailVars
<1> QED
  BY <1>2, <1>3, <1>6 DEF MirrorInv

LEMMA CrashStep == ASSUME MirrorInv, CrashDut PROVE MirrorInv'
<1>1. /\ file \in Seq(Units) /\ Len(file) \in Nat /\ MaxLost \in Nat /\ MaxCrashes \in Nat
      /\ mirrorFile \in Seq(Units) /\ Len(mirrorFile) \in Nat
      /\ offset \in Nat /\ primedAt \in Nat /\ crashes \in 0..MaxCrashes
  BY MirrorAssumption DEF MirrorInv, MirrorTypeOK
<1>2. PICK k \in Max({0, Len(file) - MaxLost})..Len(file) :
        /\ file' = SubSeq(file, 1, k)
        /\ cut' = (cut \/ k < Len(mirrorFile) \/ k < offset)
  BY DEF CrashDut
<1>3. /\ crashes < MaxCrashes /\ crashes' = crashes + 1 /\ writing' = FALSE
      /\ UNCHANGED <<written, backend, mirrorFile, tailVars>>
  BY DEF CrashDut
<1>4. k \in 0..Len(file)
  <2> DEFINE S == {0, Len(file) - MaxLost}
  <2>1. S \in SUBSET Int /\ S # {} /\ Len(file) \in Int /\ \A x \in S : x <= Len(file)
    BY <1>1
  <2> HIDE DEF S
  <2>2. Max(S) \in S /\ \A x \in S : x <= Max(S)
    BY <2>1, MaxBounded
  <2>3. 0 <= Max(S) /\ Max(S) \in Int
    BY <1>1, <2>2 DEF S
  <2>4. k \in Max(S)..Len(file)
    BY <1>2 DEF S
  <2> QED
    BY <1>1, <2>3, <2>4
<1>5. /\ file' \in Seq(Units) /\ Len(file') = k
      /\ \A i \in 1..k : file'[i] = file[i]
  BY <1>1, <1>2, <1>4, SubSeqProperties
<1>6. MirrorTypeOK'
  <2>1. cut' \in BOOLEAN /\ writing' \in BOOLEAN
    BY <1>2, <1>3, Zenon
  <2>2. crashes' \in 0..MaxCrashes
    BY <1>1, <1>3
  <2> QED
    BY <1>3, <1>5, <2>1, <2>2 DEF MirrorInv, MirrorTypeOK, tailVars
<1>7. PlaceInv' /\ ReadInv'
  <2>1. \A r \in Records : \A i \in Nat : Copy(r, i)' => Copy(r, i)
    BY <1>1, <1>3, <1>4, <1>5 DEF Copy
  <2> QED
    BY <1>1, <1>3, <2>1, NothingNew DEF tailVars
<1>8. PrefixInv'
  <2> SUFFICES ASSUME ~cut' PROVE PrefixInv'
    BY DEF PrefixInv
  <2> ~cut /\ ~(k < Len(mirrorFile)) /\ ~(k < offset)
    BY <1>2, Zenon
  <2>1. ~cut /\ k >= Len(mirrorFile) /\ k >= offset
    BY <1>1, <1>4
  <2>2. /\ \A i \in 1..Len(mirrorFile) : mirrorFile[i] = file[i]
        /\ primed => offset \in {0, primedAt} \/ file[offset] = Eol
        /\ NothingSkipped
    BY <2>1 DEF MirrorInv, PrefixInv
  <2>3. \A i \in 1..Len(mirrorFile) : mirrorFile[i] = file'[i]
    BY <1>1, <1>4, <1>5, <2>1, <2>2
  <2>4. primed => offset \in {0, primedAt} \/ file'[offset] = Eol
    BY <1>1, <1>4, <1>5, <2>1, <2>2
  <2>5. NothingSkipped'
    <3> SUFFICES ASSUME primed, NEW r \in Records, NEW i \in (primedAt + 1)..(offset - 1),
                        LineAt(file', i, r), StartsLine(file', i, 0)
                 PROVE  shown[r] > 0
      BY <1>3 DEF NothingSkipped, tailVars, LineAt, StartsLine
    <3>1. i \in 1..k /\ i + 1 \in 1..k
      BY <1>1, <1>4, <2>1
    <3>2. LineAt(file, i, r) /\ StartsLine(file, i, 0)
      BY <1>1, <1>4, <1>5, <3>1 DEF LineAt, StartsLine
    <3> QED
      BY <2>1, <2>2, <3>2 DEF NothingSkipped
  <2> QED
    BY <1>1, <1>3, <1>4, <1>5, <2>1, <2>3, <2>4, <2>5 DEF PrefixInv, tailVars
<1> QED
  BY <1>6, <1>7, <1>8 DEF MirrorInv

\* What the three ways of a pull have in common: the new mirror begins as the
\* old one or as the log, and goes on with units of the log.
LEMMA MirrorPullStep ==
  ASSUME MirrorInv, mirrorFile' \in Seq(Units),
         UNCHANGED <<dutVars, backend, tailVars, cut>>,
         backend = "rsync" => Len(mirrorFile) <= Len(mirrorFile'),
         Len(mirrorFile') <= Len(file),
         \A i \in 1..Len(mirrorFile') :
           \/ mirrorFile'[i] = file[i]
           \/ i \in 1..Len(mirrorFile) /\ mirrorFile'[i] = mirrorFile[i]
  PROVE  MirrorInv'
<1>1. /\ file \in Seq(Units) /\ Len(file) \in Nat
      /\ mirrorFile \in Seq(Units) /\ Len(mirrorFile) \in Nat
      /\ Len(mirrorFile') \in Nat
  BY DEF MirrorInv, MirrorTypeOK
<1>2. MirrorTypeOK'
  BY DEF MirrorInv, MirrorTypeOK, dutVars, tailVars
<1>3. PlaceInv' /\ ReadInv'
  <2>1. \A r \in Records : \A i \in Nat : Copy(r, i)' => Copy(r, i)
    BY <1>1 DEF Copy, dutVars
  <2> QED
    BY <1>1, <2>1, NothingNew DEF dutVars, tailVars
<1>4. PrefixInv'
  <2>1. \A i \in 1..Len(mirrorFile') : ~cut => mirrorFile'[i] = file[i]
    BY <1>1 DEF MirrorInv, PrefixInv
  <2>2. NothingSkipped' <=> NothingSkipped
    BY DEF NothingSkipped, LineAt, StartsLine, dutVars, tailVars
  <2> QED
    BY <2>1, <2>2 DEF MirrorInv, PrefixInv, dutVars, tailVars
<1> QED
  BY <1>2, <1>3, <1>4 DEF MirrorInv

LEMMA PullSteps ==
  ASSUME MirrorInv, PullWhole \/ PullPart \/ CopyFile
  PROVE  MirrorInv'
<1>1. /\ file \in Seq(Units) /\ Len(file) \in Nat
      /\ mirrorFile \in Seq(Units) /\ Len(mirrorFile) \in Nat
      /\ \A i \in 1..Len(file) : file[i] \in Units
  BY DEF MirrorInv, MirrorTypeOK
<1>2. UNCHANGED <<dutVars, backend, tailVars, cut>>
  BY DEF PullWhole, PullPart, CopyFile
<1>3. CASE PullWhole
  <2>1. mirrorFile' = file /\ Len(mirrorFile) < Len(file)
    BY <1>3 DEF PullWhole
  <2> QED
    BY <1>1, <1>2, <2>1, MirrorPullStep
<1>4. CASE PullPart
  <2> DEFINE n == Len(mirrorFile)
  <2>1. PICK k \in (n + 1)..Len(file) : mirrorFile' = mirrorFile \o SubSeq(file, n + 1, k)
    BY <1>4 DEF PullPart
  <2> DEFINE more == SubSeq(file, n + 1, k)
  <2>2. /\ more \in Seq(Units) /\ Len(more) = k - n
        /\ \A i \in 1..(k - n) : more[i] = file[n + i]
    <3>1. n + 1 \in Int /\ k \in Int /\ \A i \in (n + 1)..k : file[i] \in Units
      BY <1>1, <2>1
    <3>2. /\ more \in Seq(Units) /\ Len(more) = IF n + 1 <= k THEN k - (n + 1) + 1 ELSE 0
          /\ \A i \in 1..(k - (n + 1) + 1) : more[i] = file[n + 1 + i - 1]
      BY <3>1, SubSeqProperties
    <3> QED
      BY <1>1, <2>1, <3>2
  <2>3. mirrorFile' = mirrorFile \o more
    BY <2>1
  <2> HIDE DEF more
  <2>4. /\ mirrorFile' \in Seq(Units) /\ Len(mirrorFile') = k
        /\ \A i \in 1..k : mirrorFile'[i] =
              IF i <= n THEN mirrorFile[i] ELSE more[i - n]
    <3>1. /\ mirrorFile \o more \in Seq(Units)
          /\ Len(mirrorFile \o more) = Len(mirrorFile) + Len(more)
          /\ \A i \in 1..Len(mirrorFile) + Len(more) : (mirrorFile \o more)[i] =
                IF i <= Len(mirrorFile) THEN mirrorFile[i] ELSE more[i - Len(mirrorFile)]
      BY <1>1, <2>2, ConcatProperties
    <3>2. Len(mirrorFile) + Len(more) = k
      BY <1>1, <2>1, <2>2
    <3> QED
      BY <2>3, <3>1, <3>2
  <2>5. \A i \in 1..k : \/ mirrorFile'[i] = file[i]
                        \/ i \in 1..n /\ mirrorFile'[i] = mirrorFile[i]
    <3> SUFFICES ASSUME NEW i \in 1..k, i > n
                 PROVE  mirrorFile'[i] = file[i]
      BY <1>1, <2>1, <2>4
    <3>1. i - n \in 1..(k - n) /\ n + (i - n) = i
      BY <1>1, <2>1
    <3>2. more[i - n] = file[n + (i - n)]
      BY <2>2, <3>1
    <3> QED
      BY <1>1, <2>1, <2>4, <3>1, <3>2
  <2>6. n <= k /\ k <= Len(file)
    BY <1>1, <2>1
  <2> QED
    BY <1>2, <2>4, <2>5, <2>6, MirrorPullStep
<1>5. CASE CopyFile
  <2>1. PICK k \in 0..Len(file) : mirrorFile' = SubSeq(file, 1, k)
    BY <1>5 DEF CopyFile
  <2>2. /\ mirrorFile' \in Seq(Units) /\ Len(mirrorFile') = k
        /\ \A i \in 1..k : mirrorFile'[i] = file[i]
    BY <1>1, <2>1, SubSeqProperties
  <2>3. backend # "rsync" /\ k <= Len(file)
    BY <1>1, <1>5, <2>1 DEF CopyFile
  <2> QED
    BY <1>2, <2>2, <2>3, MirrorPullStep
<1> QED
  BY <1>3, <1>4, <1>5

----------------------------------------------------------------------------
(* The tailer. *)

LEMMA SelectionStep == ASSUME MirrorInv, SetActiveDut \/ Prime PROVE MirrorInv'
<1>1. /\ Len(mirrorFile) \in Nat /\ offset \in Nat /\ selected \in BOOLEAN
  BY DEF MirrorInv, MirrorTypeOK
<1>2. /\ UNCHANGED <<dutVars, backend, mirrorFile, shown, cut>>
      /\ \A r, i : Copy(r, i)' <=> Copy(r, i)
  BY DEF SetActiveDut, Prime, dutVars, Copy
<1>3. /\ offset' = primedAt' /\ selected' \in BOOLEAN /\ primed' \in BOOLEAN
      /\ (primed' /\ offset' = Len(mirrorFile)) \/ (~primed' /\ offset' = 0)
  <2>1. CASE SetActiveDut
    BY <2>1, Zenon DEF SetActiveDut
  <2>2. CASE Prime
    BY <1>1, <2>2, Zenon DEF Prime
  <2> QED
    BY <2>1, <2>2
<1>4. MirrorTypeOK'
  BY <1>1, <1>2, <1>3 DEF MirrorInv, MirrorTypeOK, dutVars
<1>5. PlaceInv'
  BY <1>2 DEF MirrorInv, PlaceInv, dutVars
<1>6. ReadInv'
  BY <1>1, <1>2, <1>3 DEF MirrorInv, ReadInv, ShownOnce
<1>7. PrefixInv'
  <2>1. NothingSkipped'
    BY <1>1, <1>3 DEF NothingSkipped
  <2>2. offset' \in {0, Len(mirrorFile)}
    BY <1>3
  <2> QED
    BY <1>1, <1>2, <1>3, <2>1, <2>2 DEF MirrorInv, MirrorTypeOK, PrefixInv, dutVars
<1> QED
  BY <1>4, <1>5, <1>6, <1>7 DEF MirrorInv

LEMMA ReadStep == ASSUME MirrorInv, ReadNew PROVE MirrorInv'
<1> DEFINE m == mirrorFile
           from == ReadFrom
<1>1. /\ file \in Seq(Units) /\ Len(file) \in Nat /\ m \in Seq(Units) /\ Len(m) \in Nat
      /\ offset \in Nat /\ primedAt \in Nat /\ shown \in [Records -> 0..MaxShown]
  BY DEF MirrorInv, MirrorTypeOK
<1>2. /\ primed /\ offset' = LastEol(m, from)
      /\ UNCHANGED <<dutVars, backend, mirrorFile, selected, primed, primedAt, cut>>
  BY DEF ReadNew, Consumed
<1>3. /\ from \in Nat /\ from <= Len(m)
      /\ from = (IF Len(m) < offset THEN 0 ELSE offset)
  BY <1>1 DEF ReadFrom
<1>4. /\ offset' \in from..Len(m)
      /\ offset' = from \/ m[offset'] = Eol
      /\ \A i \in (from + 1)..Len(m) : m[i] = Eol => i <= offset'
  BY <1>1, <1>2, <1>3, LastLine
<1>5. /\ shown' \in [Records -> 0..MaxShown]
      /\ \A r \in Records :
           /\ r \notin Parsed(m, from) => shown'[r] = shown[r]
           /\ r \in Parsed(m, from) => shown'[r] > 0 /\ shown'[r] <= shown[r] + 1
  BY <1>1, Counts DEF ReadNew
<1> HIDE DEF from
<1>6. \A r, i : Copy(r, i)' <=> Copy(r, i)
  BY <1>2 DEF Copy, dutVars
<1>7. ASSUME NEW r \in Parsed(m, from)
      PROVE  \E i \in (from + 1)..Len(m) : Copy(r, i) /\ i < offset' /\ i \in Nat
  <2>1. PICK i \in (from + 1)..Len(m) : LineAt(m, i, r)
    BY <1>7 DEF Parsed
  <2>2. i + 1 \in (from + 1)..Len(m) /\ m[i + 1] = Eol /\ m[i] = r
    BY <1>1, <1>3, <2>1 DEF LineAt
  <2> QED
    BY <1>1, <1>3, <1>4, <2>2 DEF Copy
<1>8. MirrorTypeOK'
  BY <1>1, <1>2, <1>3, <1>4, <1>5 DEF MirrorInv, MirrorTypeOK, dutVars
<1>9. PlaceInv'
  <2>1. \A r \in Records : shown'[r] > 0 => r <= written
    BY <1>1, <1>5, <1>7 DEF MirrorInv, PlaceInv
  <2> QED
    BY <1>2, <1>6, <2>1 DEF MirrorInv, PlaceInv, dutVars
<1>10. ASSUME backend = "rsync" PROVE ReadInv'
  <2>1. /\ offset <= Len(m) /\ from = offset
        /\ \A r \in Records : shown[r] <= 1
        /\ \A r \in Records : shown[r] > 0 =>
             \A i \in Nat : Copy(r, i) => i <= Len(m) /\ i <= offset
    BY <1>1, <1>2, <1>3, <1>10 DEF MirrorInv, ReadInv, ShownOnce
  <2>2. ASSUME NEW r \in Records, shown'[r] > 0
        PROVE  /\ shown'[r] <= 1
               /\ \A i \in Nat : Copy(r, i) => i <= Len(m) /\ i <= offset'
    <3>1. CASE r \notin Parsed(m, from)
      BY <1>1, <1>3, <1>4, <1>5, <2>1, <2>2, <3>1
    <3>2. CASE r \in Parsed(m, from)
      <4>1. PICK i \in (from + 1)..Len(m) : Copy(r, i) /\ i < offset' /\ i \in Nat
        BY <1>7, <3>2
      <4>2. \A j \in Nat : Copy(r, j) => j = i
        BY <4>1 DEF MirrorInv, PlaceInv
      <4>3. ~(shown[r] > 0)
        BY <1>1, <2>1, <4>1
      <4>4. shown[r] = 0 /\ shown'[r] \in Nat
        BY <1>1, <1>5, <4>3, Counts
      <4> QED
        BY <1>1, <1>3, <1>4, <1>5, <3>2, <4>1, <4>2, <4>4
    <3> QED
      BY <3>1, <3>2
  <2>3. \A r \in Records : shown'[r] <= 1
    BY <1>5, <2>2, Counts
  <2> QED
    BY <1>1, <1>2, <1>3, <1>4, <1>6, <2>2, <2>3 DEF ReadInv, ShownOnce
<1>11. ASSUME ~cut PROVE PrefixInv'
  <2>1. /\ Len(m) <= Len(file) /\ offset <= Len(file)
        /\ \A i \in 1..Len(m) : m[i] = file[i]
        /\ offset \in {0, primedAt} \/ file[offset] = Eol
        /\ NothingSkipped
    BY <1>2, <1>11 DEF MirrorInv, PrefixInv
  <2>2. offset' \in {0, primedAt} \/ file[offset'] = Eol
    <3>1. CASE offset' = from
      BY <1>3, <2>1, <3>1
    <3>2. CASE offset' # from
      BY <1>1, <1>3, <1>4, <2>1, <3>2
    <3> QED
      BY <3>1, <3>2
  <2>3. ASSUME NEW r \in Records, NEW i \in (primedAt + 1)..(offset' - 1),
               LineAt(file, i, r), StartsLine(file, i, 0)
        PROVE  shown'[r] > 0
    <3> DEFINE new == offset'
    <3>0. new \in from..Len(m) /\ i \in (primedAt + 1)..(new - 1)
      BY <1>4
    <3> HIDE DEF new
    <3>1. /\ i \in Nat /\ new \in Nat /\ i > 0 /\ i > primedAt /\ i + 1 <= new
          /\ new <= Len(m) /\ from <= new
      BY <1>1, <1>3, <3>0
    <3>2. i \in 1..Len(m) /\ i + 1 \in 1..Len(m) /\ file[i] = r /\ file[i + 1] = Eol
      BY <1>1, <3>1, <2>3 DEF LineAt
    <3>3. m[i] = r /\ m[i + 1] = Eol
      BY <2>1, <3>2
    <3>4. CASE i < offset
      <4>1. shown[r] > 0
        BY <1>1, <1>2, <1>11, <2>1, <2>3, <3>1, <3>4 DEF NothingSkipped
      <4> QED
        BY <1>5, <4>1
    <3>5. CASE i >= offset
      <4>1. from = offset
        BY <1>1, <1>3, <3>1, <3>5
      <4>2. i # offset
        BY <1>1, <2>1, <3>1, <3>2, NoEol
      <4>3. i = from + 1 \/ m[i - 1] = Eol
        <5>1. CASE i = 1
          BY <1>1, <3>5, <4>1, <4>2, <5>1
        <5>2. CASE i # 1
          <6>1. i - 1 \in 1..Len(m)
            BY <1>1, <3>2, <5>2
          <6>2. file[i - 1] = Eol
            BY <2>3, <5>2 DEF StartsLine
          <6> QED
            BY <2>1, <6>1, <6>2
        <5> QED
          BY <5>1, <5>2
      <4>4. i \in (from + 1)..Len(m)
        BY <1>1, <3>2, <3>5, <4>1, <4>2
      <4>5. LineAt(m, i, r) /\ StartsLine(m, i, from)
        BY <1>1, <3>2, <3>3, <4>3 DEF LineAt, StartsLine
      <4>6. r \in Parsed(m, from)
        BY <4>4, <4>5 DEF Parsed
      <4> QED
        BY <1>5, <4>6
    <3> QED
      BY <1>1, <3>1, <3>4, <3>5
  <2>4. NothingSkipped'
    BY <1>2, <2>3 DEF NothingSkipped, LineAt, StartsLine, dutVars
  <2>5. offset' <= Len(file)
    BY <1>1, <1>3, <1>4, <2>1
  <2> QED
    BY <1>2, <2>1, <2>2, <2>4, <2>5 DEF PrefixInv, dutVars
<1>12. ReadInv' /\ PrefixInv'
  BY <1>2, <1>10, <1>11 DEF ReadInv, PrefixInv
<1> QED
  BY <1>8, <1>9, <1>12 DEF MirrorInv

----------------------------------------------------------------------------
LEMMA MirrorStep == MirrorInv /\ [MirrorNext]_mirrorVars => MirrorInv'
<1> SUFFICES ASSUME MirrorInv, [MirrorNext]_mirrorVars PROVE MirrorInv'
  OBVIOUS
<1>1. CASE WriteText
  BY <1>1, WriteTextStep
<1>2. CASE WriteEol
  BY <1>2, WriteEolStep
<1>3. CASE CrashDut
  BY <1>3, CrashStep
<1>4. CASE PullWhole \/ PullPart \/ CopyFile
  BY <1>4, PullSteps
<1>5. CASE SetActiveDut \/ Prime
  BY <1>5, SelectionStep
<1>6. CASE ReadNew
  BY <1>6, ReadStep
<1>7. CASE UNCHANGED mirrorVars
  BY <1>7 DEF MirrorInv, MirrorTypeOK, PlaceInv, Copy, ReadInv, ShownOnce, PrefixInv,
       NothingSkipped, LineAt, StartsLine, mirrorVars, dutVars, tailVars
<1> QED
  BY <1>1, <1>2, <1>3, <1>4, <1>5, <1>6, <1>7 DEF MirrorNext, Poll

LEMMA MirrorInvariant == MirrorSpec => []MirrorInv
<1> QED
  BY MirrorInitial, MirrorStep, PTL DEF MirrorSpec

\* Every variable of the log, its mirror and the tailer keeps its type.
THEOREM MirrorTypes == MirrorSpec => []MirrorTypeOK
<1>1. MirrorInv => MirrorTypeOK
  BY DEF MirrorInv
<1> QED
  BY <1>1, MirrorInvariant, PTL

\* With rsync no record is shown twice, whatever the DUT loses in a crash and
\* wherever a pull or a poll cuts a line (see_monitor.py:133-159).
THEOREM ShownOnceHolds == MirrorSpec => []ShownOnce
<1>1. MirrorInv => ShownOnce
  BY DEF MirrorInv, ReadInv, ShownOnce
<1> QED
  BY <1>1, MirrorInvariant, PTL

\* Whatever the tailer has read past it has shown, with rsync and with scp
\* (see_monitor.py:133-159).
THEOREM NothingSkippedHolds == MirrorSpec => []NothingSkipped
<1>1. MirrorInv => NothingSkipped
  BY DEF MirrorInv, PrefixInv, NothingSkipped
<1> QED
  BY <1>1, MirrorInvariant, PTL

-----------------------------------------------------------------------------
(* The collection of baseline CSVs. *)

\* A file that holds something of b.
Holds(n, b) == results[n].of = b /\ results[n].halves > 0

\* Only the Tk thread copies, one file at a time, and to a number that nobody
\* has used; there is something to copy.
CopyInv ==
  /\ \A b, c \in Baselines : Copying(b) /\ Copying(c) => b = c
  /\ \A b \in Baselines : Copying(b) =>
       /\ number[b] \in Numbers /\ results[number[b]] = NoFile
       /\ mirrored[b] # Absent

\* A fetch that has not ended has left no bytes in results/ and not been spoken
\* of; one that has ended has left at most one file.
OnceInv ==
  \A b \in Baselines :
    /\ fetch[b] # "ended" =>
         told[b] = "nothing" /\ \A n \in Numbers : ~Holds(n, b)
    /\ \A n, k \in Numbers : Holds(n, b) /\ Holds(k, b) => n = k

\* What is copied as a success had been seen to be whole, and still is, since
\* the mirror only grows; what was copied stays.
WholeInv ==
  InPlace =>
    \A b \in Baselines :
      /\ fetch[b] \in {"trying", "copying"} => Caught(b)
      /\ told[b] = "saved" =>
           \A n \in Numbers : Holds(n, b) => (results[n].halves + 1) \div 2 >= goodOf[b]

FilesInv == FilesTypeOK /\ CopyInv /\ OnceInv /\ WholeInv

LEMMA Bounds ==
  Rows \in Nat /\ MaxFailed \in 0..Rows /\ MaxResult \in Nat
BY BaselineAssumption, Zenon

LEMMA NumberRange == \A n \in Numbers : n \in 0..MaxResult /\ n > 0
BY Bounds DEF Numbers

LEMMA Nobody == "nobody" \notin Baselines
BY BaselineAssumption, Zenon

Told == {"nothing", "saved", "incomplete", "missing", "failed"}
File == [of : Baselines \cup {"nobody"}, halves : 0..(2 * Rows)]

LEMMA Ranges ==
  ASSUME FilesTypeOK
  PROVE  /\ \A b \in Baselines : goodOf[b] \in Nat
         /\ \A b \in Baselines : mirrored[b] \in Absent..(2 * Rows)
         /\ \A b \in Baselines : fetch[b] \in Phases /\ told[b] \in Told
         /\ fetch \in [Baselines -> Phases] /\ told \in [Baselines -> Told]
         /\ number \in [Baselines -> 0..MaxResult]
         /\ results \in [Numbers -> File]
<1>1. goodOf \in [Baselines -> 0..Rows]
  BY Zenon DEF FilesTypeOK
<1>2. \A b \in Baselines : goodOf[b] \in Nat
  BY <1>1, Bounds
<1>3. mirrored \in [Baselines -> Absent..(2 * Rows)]
  BY Zenon DEF FilesTypeOK
<1>4. fetch \in [Baselines -> Phases] /\ told \in [Baselines -> Told]
  BY Zenon DEF FilesTypeOK, Told
<1>5. number \in [Baselines -> 0..MaxResult] /\ results \in [Numbers -> File]
  BY Zenon DEF FilesTypeOK, File
<1> QED
  BY <1>2, <1>3, <1>4, <1>5

\* _next_result_path finds a number, and a free one.
LEMMA FreeNumber ==
  ASSUME FilesTypeOK, \E n \in Numbers : results[n] = NoFile
  PROVE  NextNumber \in Numbers /\ results[NextNumber] = NoFile
<1> DEFINE T == {n \in Numbers : results[n] = NoFile}
<1>1. T \subseteq Nat /\ T # {}
  BY Bounds DEF Numbers
<1> HIDE DEF T
<1>2. PICK x \in T : \A y \in T : ~(<<y, x>> \in OpToRel(<, Nat))
  BY <1>1, NatLessThanWellFounded, WFMin
<1>3. \A y \in T : ~(y < x)
  BY <1>1, <1>2 DEF OpToRel
<1>4. \A y \in T : x <= y
  BY <1>1, <1>3
<1>5. Min(T) \in T
  BY <1>4 DEF Min
<1> QED
  BY <1>5 DEF NextNumber, T

LEMMA FilesInitial == FilesInit => FilesInv
<1> SUFFICES ASSUME FilesInit PROVE FilesInv
  OBVIOUS
<1> USE DEF FilesInit
<1>1. FilesTypeOK
  <2>1. goodOf \in [Baselines -> 0..Rows]
    BY Bounds
  <2>2. mirrored \in [Baselines -> Absent..(2 * Rows)]
    BY Bounds DEF Absent
  <2>3. number \in [Baselines -> 0..MaxResult]
    BY Bounds
  <2>4. results \in [Numbers -> [of : Baselines \cup {"nobody"}, halves : 0..(2 * Rows)]]
    <3>1. NoFile \in [of : Baselines \cup {"nobody"}, halves : 0..(2 * Rows)]
      BY Bounds, Nobody DEF NoFile
    <3> QED
      BY <3>1
  <2>6. boardRoot \in BOOLEAN /\ rootChanged \in BOOLEAN
    BY Zenon
  <2>5. /\ fetch \in [Baselines -> Phases]
        /\ told \in [Baselines -> {"nothing", "saved", "incomplete", "missing",
                                   "failed"}]
        /\ \A b \in Baselines :
             number[b] > 0 <=> fetch[b] \in {"trying", "copying", "gaveUp"}
    BY DEF Phases
  <2> QED
    BY <2>1, <2>2, <2>3, <2>4, <2>5, <2>6 DEF FilesTypeOK
<1>2. \A b \in Baselines, n \in Numbers : ~Holds(n, b)
  BY DEF Holds, NoFile
<1>3. CopyInv
  BY DEF CopyInv, Copying
<1>4. OnceInv
  BY <1>2 DEF OnceInv
<1>5. WholeInv
  BY DEF WholeInv
<1> QED
  BY <1>1, <1>3, <1>4, <1>5 DEF FilesInv

\* A step that writes no file, tells nobody and leaves the copies alone.
LEMMA Kept ==
  ASSUME FilesInv, UNCHANGED <<goodOf, number, results, told>>,
         mirrored' = mirrored, fetch' = fetch
  PROVE  CopyInv' /\ OnceInv' /\ WholeInv'
<1>1. \A b \in Baselines : Copying(b)' <=> Copying(b)
  BY DEF Copying
<1>2. \A b \in Baselines : Caught(b)' <=> Caught(b)
  BY DEF Caught, DataRows
<1>3. \A n, b : Holds(n, b)' <=> Holds(n, b)
  BY DEF Holds
<1> QED
  BY <1>1, <1>2, <1>3 DEF FilesInv, CopyInv, OnceInv, WholeInv

LEMMA SelectStep == FilesInv /\ SelectDut => FilesInv'
<1> SUFFICES ASSUME FilesInv, SelectDut PROVE FilesInv'
  OBVIOUS
<1>1. /\ UNCHANGED <<goodOf, mirrored, fetch, number, results, told>>
      /\ rootChanged' = TRUE /\ boardRoot' = ~boardRoot
  BY DEF SelectDut
<1>2. FilesTypeOK'
  <2>1. FilesTypeOK /\ boardRoot' \in BOOLEAN /\ rootChanged' \in BOOLEAN
    BY <1>1, Zenon DEF FilesInv, FilesTypeOK
  <2> QED
    BY <1>1, <2>1 DEF FilesTypeOK
<1> QED
  BY <1>1, <1>2, Kept DEF FilesInv

LEMMA FilesPullStep == FilesInv /\ (\E b \in Baselines : Pull(b)) => FilesInv'
<1> SUFFICES ASSUME FilesInv, NEW b \in Baselines, Pull(b) PROVE FilesInv'
  OBVIOUS
<1> USE DEF FilesInv
<1>1. UNCHANGED <<goodOf, boardRoot, fetch, number, results, told, rootChanged>>
  BY DEF Pull
<1>2. PICK h \in (IF InPlace THEN mirrored[b] + 1 ELSE 0)..(2 * Rows) :
        mirrored' = [mirrored EXCEPT ![b] = h]
  BY DEF Pull
<1>3. mirrored \in [Baselines -> Absent..(2 * Rows)] /\ Rows \in Nat
  BY Bounds DEF FilesTypeOK
<1>4. /\ h \in 0..(2 * Rows) /\ h # Absent /\ h \in Absent..(2 * Rows)
      /\ InPlace => h >= mirrored[b] /\ mirrored[b] \in Int
  BY <1>3 DEF Absent
<1>5. mirrored' \in [Baselines -> Absent..(2 * Rows)]
  BY <1>2, <1>3, <1>4
<1>6. FilesTypeOK'
  BY <1>1, <1>5 DEF FilesTypeOK
<1>7. \A c \in Baselines : Copying(c)' <=> Copying(c)
  BY <1>1 DEF Copying
<1>8. \A n, c : Holds(n, c)' <=> Holds(n, c)
  BY <1>1 DEF Holds
<1>9. \A c \in Baselines : mirrored[c] # Absent => mirrored'[c] # Absent
  BY <1>2, <1>3, <1>4
<1>10. CopyInv'
  BY <1>1, <1>7, <1>9 DEF CopyInv
<1>11. OnceInv'
  BY <1>1, <1>8 DEF OnceInv
<1>12. InPlace => \A c \in Baselines : Caught(c) => Caught(c)'
  <2> SUFFICES ASSUME InPlace, NEW c \in Baselines, Caught(c), goodOf[c] > 0
               PROVE  (mirrored'[c] + 1) \div 2 >= goodOf[c]
    BY <1>1 DEF Caught, DataRows
  <2>1. mirrored[c] \in Int /\ mirrored'[c] \in Int /\ mirrored'[c] >= mirrored[c]
    BY <1>2, <1>3, <1>4
  <2>2. goodOf[c] \in Int
    BY Ranges
  <2>3. (mirrored[c] + 1) \div 2 >= goodOf[c]
    BY Zenon DEF Caught, DataRows
  <2> QED
    BY <2>1, <2>2, <2>3
<1>13. WholeInv'
  BY <1>1, <1>8, <1>12 DEF WholeInv
<1> QED
  BY <1>6, <1>10, <1>11, <1>13

\* A fetch goes on without a copy: it waits, or ends without a word.
LEMMA MoveStep ==
  ASSUME FilesInv, NEW b \in Baselines, ~Copying(b), fetch[b] # "ended",
         NEW stage \in {"waiting", "posted", "expired", "ended"}, Move(b, stage)
  PROVE  FilesInv'
<1> USE DEF FilesInv
<1>1. /\ UNCHANGED <<goodOf, mirrored, boardRoot, number, results, told, rootChanged>>
      /\ fetch' = [fetch EXCEPT ![b] = stage]
  BY DEF Move
<1>2. fetch \in [Baselines -> Phases] /\ fetch' \in [Baselines -> Phases]
  BY <1>1 DEF FilesTypeOK, Phases
<1>3. \A c \in Baselines : fetch'[c] = IF c = b THEN stage ELSE fetch[c]
  BY <1>1, <1>2
<1>4. \A c \in Baselines : Copying(c)' <=> Copying(c)
  BY <1>3 DEF Copying
<1>5. FilesTypeOK'
  BY <1>1, <1>2, <1>4 DEF FilesTypeOK, Copying
<1>6. CopyInv'
  BY <1>1, <1>4 DEF CopyInv
<1>7. \A n, c : Holds(n, c)' <=> Holds(n, c)
  BY <1>1 DEF Holds
<1>8. OnceInv'
  BY <1>1, <1>3, <1>7 DEF OnceInv
<1>9. \A c \in Baselines : Caught(c)' <=> Caught(c)
  BY <1>1 DEF Caught, DataRows
<1>10. WholeInv'
  BY <1>1, <1>3, <1>7, <1>9 DEF WholeInv, Copying
<1> QED
  BY <1>5, <1>6, <1>8, <1>10

\* A copy begins: on the Tk thread, which does nothing else.
LEMMA BeginStep ==
  ASSUME FilesInv, NEW b \in Baselines, TkIdle, fetch[b] # "ended", Arrived(b),
         NEW stage \in {"trying", "copying", "gaveUp"}, Begin(b, stage),
         stage # "gaveUp" => Caught(b)
  PROVE  FilesInv'
<1> USE DEF FilesInv
<1>1. /\ UNCHANGED <<goodOf, mirrored, boardRoot, results, told, rootChanged>>
      /\ fetch' = [fetch EXCEPT ![b] = stage]
      /\ number' = [number EXCEPT ![b] = NextNumber]
  BY DEF Begin
<1>2. NextNumber \in Numbers /\ results[NextNumber] = NoFile
  BY FreeNumber DEF Begin
<1>3. NextNumber \in 0..MaxResult /\ NextNumber > 0
  BY <1>2, NumberRange, Zenon
<1>4. /\ fetch' \in [Baselines -> Phases]
      /\ number' \in [Baselines -> 0..MaxResult]
      /\ \A c \in Baselines : fetch'[c] = IF c = b THEN stage ELSE fetch[c]
      /\ \A c \in Baselines : number'[c] = IF c = b THEN NextNumber ELSE number[c]
  BY <1>1, <1>3 DEF FilesTypeOK, Phases
<1>5. \A c \in Baselines : ~Copying(c)
  BY DEF TkIdle
<1>6. \A c \in Baselines : Copying(c)' <=> c = b
  BY <1>4, <1>5 DEF Copying
<1>7. FilesTypeOK'
  <2>1. \A c \in Baselines : number'[c] > 0 <=> Copying(c)'
    BY <1>3, <1>4, <1>5, <1>6 DEF FilesTypeOK, Copying
  <2> QED
    BY <1>1, <1>4, <2>1 DEF FilesTypeOK, Copying
<1>8. CopyInv'
  BY <1>1, <1>2, <1>4, <1>6 DEF CopyInv, Arrived
<1>9. \A n, c : Holds(n, c)' <=> Holds(n, c)
  BY <1>1 DEF Holds
<1>10. OnceInv'
  BY <1>1, <1>4, <1>9 DEF OnceInv
<1>11. \A c \in Baselines : Caught(c)' <=> Caught(c)
  BY <1>1 DEF Caught, DataRows
<1>12. WholeInv'
  BY <1>1, <1>4, <1>9, <1>11 DEF WholeInv
<1> QED
  BY <1>7, <1>8, <1>10, <1>12

\* A copy ends: with all its bytes or none of them in the file, which may not be
\* there at all, it is spoken of or tried again.
Outcome(b, owner, h, stage, said) ==
  /\ owner = b \/ (owner = "nobody" /\ h = 0)
  /\ h = 0 \/ h = mirrored[b]
  /\ stage \in {"ended", "waiting"} /\ said \in Told
  /\ stage = "waiting" => said = "nothing" /\ h = 0
  /\ said = "saved" => fetch[b] # "gaveUp"
Ends(b, owner, h, stage, said) ==
  /\ results' = [results EXCEPT ![number[b]] = [of |-> owner, halves |-> h]]
  /\ fetch' = [fetch EXCEPT ![b] = stage] /\ told' = [told EXCEPT ![b] = said]
  /\ number' = [number EXCEPT ![b] = 0]
  /\ UNCHANGED <<goodOf, mirrored, boardRoot, rootChanged>>

LEMMA CopyEnds ==
  ASSUME FilesInv, NEW b \in Baselines, Copying(b),
         NEW owner, NEW h, NEW stage, NEW said,
         Outcome(b, owner, h, stage, said), Ends(b, owner, h, stage, said)
  PROVE  FilesInv'
<1>1. FilesTypeOK /\ CopyInv /\ OnceInv /\ WholeInv
  BY DEF FilesInv
<1>2. PICK num \in Numbers :
        num = number[b] /\ results[num] = NoFile /\ mirrored[b] # Absent
  BY <1>1 DEF CopyInv
<1>3. mirrored[b] \in 0..(2 * Rows) /\ h \in 0..(2 * Rows) /\ goodOf[b] \in Nat
  BY <1>1, <1>2, Bounds, Ranges DEF Absent, Outcome
<1>3a. [of |-> owner, halves |-> h] \in File
  BY <1>3 DEF File, Outcome
<1>4. /\ results' \in [Numbers -> File]
      /\ results'[num].of = owner /\ results'[num].halves = h
      /\ \A n \in Numbers \ {num} : results'[n] = results[n]
  BY <1>1, <1>2, <1>3a, Ranges DEF Ends
<1>5. /\ \A c \in Baselines : fetch'[c] = (IF c = b THEN stage ELSE fetch[c])
      /\ \A c \in Baselines : told'[c] = (IF c = b THEN said ELSE told[c])
      /\ \A c \in Baselines : number'[c] = (IF c = b THEN 0 ELSE number[c])
  BY <1>1, Ranges DEF Ends
<1>6. /\ fetch' \in [Baselines -> Phases] /\ told' \in [Baselines -> Told]
      /\ number' \in [Baselines -> 0..MaxResult]
  BY <1>1, Ranges, Bounds DEF Phases, Outcome, Ends
<1>7. \A c \in Baselines : ~Copying(c)'
  BY <1>1, <1>5 DEF Copying, CopyInv, Outcome
<1>8. FilesTypeOK'
  <2>1. \A c \in Baselines : ~(number'[c] > 0)
    <3>1. \A c \in Baselines \ {b} : ~Copying(c)
      BY <1>1 DEF CopyInv
    <3>2. \A c \in Baselines : number[c] > 0 <=> Copying(c)
      BY <1>1, Zenon DEF FilesTypeOK, Copying
    <3> QED
      BY <1>5, <3>1, <3>2
  <2>2. \A c \in Baselines :
          number'[c] > 0 <=> fetch'[c] \in {"trying", "copying", "gaveUp"}
    BY <1>7, <2>1 DEF Copying
  <2>3. /\ goodOf' \in [Baselines -> 0..Rows]
        /\ mirrored' \in [Baselines -> Absent..(2 * Rows)]
        /\ boardRoot' \in BOOLEAN /\ rootChanged' \in BOOLEAN
    BY <1>1, Zenon DEF FilesTypeOK, Ends
  <2> QED
    BY <1>4, <1>6, <2>2, <2>3, Zenon DEF FilesTypeOK, Told, File
<1>9. CopyInv'
  BY <1>7 DEF CopyInv
<1>10. /\ \A n \in Numbers \ {num} : \A c \in Baselines : Holds(n, c)' <=> Holds(n, c)
       /\ \A c \in Baselines \ {b} : ~Holds(num, c)'
       /\ Holds(num, b)' => h > 0
  <2>1. \A n \in Numbers \ {num} : \A c \in Baselines : Holds(n, c)' <=> Holds(n, c)
    BY <1>4 DEF Holds
  <2>2. ASSUME NEW c \in Baselines, Holds(num, c)'
        PROVE  c = b /\ h > 0
    <3>1. owner = c /\ h > 0
      BY <1>4, <2>2 DEF Holds
    <3> QED
      BY <3>1, Nobody DEF Outcome
  <2> QED
    BY <2>1, <2>2
<1>11. fetch[b] # "ended" /\ told[b] = "nothing" /\ \A n \in Numbers : ~Holds(n, b)
  BY <1>1 DEF Copying, OnceInv
<1>12. OnceInv'
  <2> SUFFICES ASSUME NEW c \in Baselines
               PROVE  /\ fetch'[c] # "ended" =>
                           told'[c] = "nothing" /\ \A n \in Numbers : ~Holds(n, c)'
                      /\ \A n, k \in Numbers : Holds(n, c)' /\ Holds(k, c)' => n = k
    BY DEF OnceInv
  <2>1. CASE c = b
    <3>1. \A n \in Numbers \ {num} : ~Holds(n, b)'
      BY <1>10, <1>11
    <3>2. stage = "waiting" => ~Holds(num, b)'
      BY <1>10, <1>3 DEF Outcome
    <3> QED
      BY <1>5, <1>11, <2>1, <3>1, <3>2 DEF Outcome
  <2>2. CASE c # b
    <3>1. \A n \in Numbers : Holds(n, c)' => Holds(n, c)
      BY <1>10, <2>2
    <3>2. fetch'[c] = fetch[c] /\ told'[c] = told[c]
      BY <1>5, <2>2
    <3> QED
      BY <1>1, <3>1, <3>2 DEF OnceInv
  <2> QED
    BY <2>1, <2>2
<1>13. WholeInv'
  <2> SUFFICES ASSUME InPlace, NEW c \in Baselines
               PROVE  /\ fetch'[c] \in {"trying", "copying"} => Caught(c)'
                      /\ told'[c] = "saved" =>
                           \A n \in Numbers : Holds(n, c)' =>
                             (results'[n].halves + 1) \div 2 >= goodOf[c]
    BY DEF WholeInv, Ends
  <2>1. fetch'[c] \notin {"trying", "copying"}
    BY <1>7 DEF Copying
  <2>2. CASE c = b /\ said = "saved"
    <3>1. Caught(b)
      BY <1>1, <2>2 DEF WholeInv, Copying, Outcome
    <3>2. \A n \in Numbers : Holds(n, b)' => n = num
      BY <1>10, <1>11
    <3>3. h > 0 => h = mirrored[b]
      BY DEF Outcome
    <3>4. (mirrored[b] + 1) \div 2 \in Nat
      BY <1>3, Bounds
    <3>5. (mirrored[b] + 1) \div 2 >= goodOf[b]
      <4>1. CASE goodOf[b] > 0
        BY <3>1, <4>1, Zenon DEF Caught, DataRows
      <4>2. CASE goodOf[b] = 0
        BY <3>4, <4>2
      <4> QED
        BY <1>3, <4>1, <4>2
    <3>6. \A n \in Numbers : Holds(n, b)' => results'[n].halves = mirrored[b]
      BY <1>4, <1>10, <3>2, <3>3
    <3> QED
      BY <2>1, <2>2, <3>5, <3>6, Zenon
  <2>3. CASE c = b /\ said # "saved"
    BY <1>5, <2>1, <2>3
  <2>4. CASE c # b
    <3>1. told'[c] = told[c]
      BY <1>5, <2>4
    <3>2. \A n \in Numbers : Holds(n, c)' => Holds(n, c) /\ results'[n] = results[n]
      BY <1>4, <1>10, <2>4
    <3>3. told[c] = "saved" =>
            \A n \in Numbers : Holds(n, c) => (results[n].halves + 1) \div 2 >= goodOf[c]
      BY <1>1, Zenon DEF WholeInv
    <3> QED
      BY <2>1, <3>1, <3>2, <3>3, Zenon
  <2> QED
    BY <2>2, <2>3, <2>4
<1> QED
  BY <1>8, <1>9, <1>12, <1>13 DEF FilesInv

LEMMA FinishStep ==
  ASSUME FilesInv, NEW b \in Baselines, FinishCopy(b)
  PROVE  FilesInv'
<1>1. /\ Copying(b) /\ number' = [number EXCEPT ![b] = 0]
      /\ UNCHANGED <<goodOf, mirrored, boardRoot, rootChanged>>
  BY DEF FinishCopy
<1>2. /\ number[b] \in Numbers /\ results[number[b]] = NoFile
      /\ mirrored[b] \in Int /\ told[b] = "nothing"
      /\ told \in [Baselines -> Told] /\ results \in [Numbers -> File]
  BY <1>1, Ranges, Bounds DEF FilesInv, CopyInv, OnceInv, Copying, Absent
<1>3. CASE Save(b, Saved(b))
  <2>1. Saved(b) \in Told /\ (Saved(b) = "saved" => fetch[b] # "gaveUp")
    BY DEF Saved, Told
  <2>2. /\ results' = [results EXCEPT ![number[b]] = [of |-> b, halves |-> mirrored[b]]]
        /\ fetch' = [fetch EXCEPT ![b] = "ended"]
        /\ told' = [told EXCEPT ![b] = Saved(b)]
    BY <1>3 DEF Save, EndFetch
  <2> QED
    BY <1>1, <1>2, <2>1, <2>2, CopyEnds DEF Outcome, Ends
<1>4. ASSUME SaveFails(b), NEW stage \in {"ended", "waiting"}, NEW said \in Told,
             fetch' = [fetch EXCEPT ![b] = stage], told' = [told EXCEPT ![b] = said],
             stage = "waiting" => said = "nothing", said # "saved"
      PROVE  FilesInv'
  <2>1. CASE UNCHANGED results
    <3>1. results' = [results EXCEPT ![number[b]] = [of |-> "nobody", halves |-> 0]]
      BY <1>2, <2>1 DEF NoFile
    <3> QED
      BY <1>1, <1>4, <3>1, CopyEnds DEF Outcome, Ends
  <2>2. CASE results' = [results EXCEPT ![number[b]] = [of |-> b, halves |-> 0]]
    BY <1>1, <1>4, <2>2, CopyEnds DEF Outcome, Ends
  <2> QED
    BY <1>4, <2>1, <2>2 DEF SaveFails
<1>5. CASE SaveFails(b) /\ EndFetch(b, "failed")
  BY <1>4, <1>5 DEF EndFetch, Told
<1>6. CASE SaveFails(b) /\ EndFetch(b, "missing")
  BY <1>4, <1>6 DEF EndFetch, Told
<1>7. CASE SaveFails(b) /\ fetch' = [fetch EXCEPT ![b] = "waiting"] /\ UNCHANGED told
  <2>1. told' = [told EXCEPT ![b] = "nothing"]
    BY <1>2, <1>7
  <2> QED
    BY <1>4, <1>7, <2>1 DEF Told
<1> QED
  BY <1>3, <1>5, <1>6, <1>7 DEF FinishCopy

LEMMA EndStep ==
  ASSUME FilesInv, NEW b \in Baselines, fetch[b] = "expired",
         EndFetch(b, "missing"),
         UNCHANGED <<goodOf, mirrored, boardRoot, number, results, rootChanged>>
  PROVE  FilesInv'
<1> USE DEF FilesInv
<1>1. /\ fetch' \in [Baselines -> Phases]
      /\ told' \in [Baselines -> {"nothing", "saved", "incomplete", "missing",
                                  "failed"}]
      /\ \A c \in Baselines : /\ fetch'[c] = IF c = b THEN "ended" ELSE fetch[c]
                              /\ told'[c] = IF c = b THEN "missing" ELSE told[c]
  BY DEF EndFetch, FilesTypeOK, Phases
<1>2. \A c \in Baselines : Copying(c)' <=> Copying(c)
  BY <1>1 DEF Copying
<1>3. FilesTypeOK'
  BY <1>1, <1>2 DEF FilesTypeOK, Copying
<1>4. CopyInv'
  BY <1>2 DEF CopyInv
<1>5. \A n, c : Holds(n, c)' <=> Holds(n, c)
  BY DEF Holds
<1>6. OnceInv'
  BY <1>1, <1>5 DEF OnceInv
<1>7. \A c \in Baselines : Caught(c)' <=> Caught(c)
  BY DEF Caught, DataRows
<1>8. WholeInv'
  BY <1>1, <1>5, <1>7 DEF WholeInv
<1> QED
  BY <1>3, <1>4, <1>6, <1>8

LEMMA FilesStep == FilesInv /\ [FilesNext]_filesVars => FilesInv'
<1> SUFFICES ASSUME FilesInv, [FilesNext]_filesVars PROVE FilesInv'
  OBVIOUS
<1>1. CASE UNCHANGED filesVars
  <2>1. FilesTypeOK'
    BY <1>1 DEF filesVars, FilesInv, FilesTypeOK
  <2> QED
    BY <1>1, <2>1, Kept DEF filesVars, FilesInv
<1>2. CASE SelectDut
  BY <1>2, SelectStep
<1>3. ASSUME NEW b \in Baselines, Pull(b) PROVE FilesInv'
  BY <1>3, FilesPullStep
<1>4. ASSUME NEW b \in Baselines, StopHandled(b) PROVE FilesInv'
  <2>1. TkIdle /\ ~Copying(b) /\ fetch[b] # "ended"
    BY <1>4 DEF StopHandled, Copying
  <2>2. CASE Arrived(b) /\ Caught(b)
    BY <1>4, <2>1, <2>2, BeginStep DEF StopHandled
  <2>3. CASE ~(Arrived(b) /\ Caught(b))
    BY <1>4, <2>1, <2>3, MoveStep DEF StopHandled
  <2> QED
    BY <2>2, <2>3
<1>5. ASSUME NEW b \in Baselines, WorkerSees(b) \/ WorkerOutOfTime(b) PROVE FilesInv'
  <2>1. ~Copying(b) /\ fetch[b] # "ended"
    BY <1>5 DEF WorkerSees, WorkerOutOfTime, Copying
  <2> QED
    BY <1>5, <2>1, MoveStep DEF WorkerSees, WorkerOutOfTime
<1>6. ASSUME NEW b \in Baselines, RunPosted(b) PROVE FilesInv'
  <2>1. TkIdle /\ ~Copying(b) /\ fetch[b] # "ended"
    BY <1>6 DEF RunPosted, Copying
  <2>2. CASE Arrived(b) /\ Caught(b)
    BY <1>6, <2>1, <2>2, BeginStep DEF RunPosted
  <2>3. CASE ~(Arrived(b) /\ Caught(b))
    BY <1>6, <2>1, <2>3, MoveStep DEF RunPosted
  <2> QED
    BY <2>2, <2>3
<1>7. ASSUME NEW b \in Baselines, RunGiveUp(b) PROVE FilesInv'
  <2>1. TkIdle /\ fetch[b] = "expired"
    BY <1>7 DEF RunGiveUp
  <2>2. CASE Arrived(b) /\ Begin(b, "gaveUp")
    BY <2>1, <2>2, BeginStep
  <2>3. CASE /\ EndFetch(b, "missing")
             /\ UNCHANGED <<goodOf, mirrored, boardRoot, number, results, rootChanged>>
    BY <2>1, <2>3, EndStep
  <2> QED
    BY <1>7, <2>2, <2>3 DEF RunGiveUp
<1>8. ASSUME NEW b \in Baselines, FinishCopy(b) PROVE FilesInv'
  BY <1>8, FinishStep
<1> QED
  BY <1>1, <1>2, <1>3, <1>4, <1>5, <1>6, <1>7, <1>8 DEF FilesNext

LEMMA FilesInvariant == FilesSpec => []FilesInv
<1> QED
  BY FilesInitial, FilesStep, PTL DEF FilesSpec

\* Every variable of the fetch keeps its type, and a number is chosen exactly
\* while a file is copied.
THEOREM FilesTypes == FilesSpec => []FilesTypeOK
<1>1. FilesInv => FilesTypeOK
  BY DEF FilesInv
<1> QED
  BY <1>1, FilesInvariant, PTL

\* No baseline is saved twice, for any number of baselines fetched at once
\* (ui.py:1066-1148).
THEOREM SavedOnceHolds == FilesSpec => []SavedOnce
<1>1. FilesInv => SavedOnce
  <2> SUFFICES ASSUME FilesInv, NEW b \in Baselines
               PROVE  Cardinality({n \in Numbers : Holds(n, b)}) <= 1
    BY DEF SavedOnce, Holds
  <2>1. \A n, k \in Numbers : Holds(n, b) /\ Holds(k, b) => n = k
    BY DEF FilesInv, OnceInv
  <2>2. CASE \E n \in Numbers : Holds(n, b)
    <3>1. PICK n \in Numbers : Holds(n, b)
      BY <2>2
    <3>2. {k \in Numbers : Holds(k, b)} = {n}
      BY <2>1, <3>1
    <3>3. Cardinality({k \in Numbers : Holds(k, b)}) = 1
      BY <3>2, FS_Singleton
    <3> QED
      BY <3>3
  <2>3. CASE ~\E n \in Numbers : Holds(n, b)
    <3>1. {k \in Numbers : Holds(k, b)} = {}
      BY <2>3
    <3>2. Cardinality({k \in Numbers : Holds(k, b)}) = 0
      BY <3>1, FS_EmptySet
    <3> QED
      BY <3>2
  <2> QED
    BY <2>2, <2>3
<1> QED
  BY <1>1, FilesInvariant, PTL

\* What is called saved has as many rows as the DUT counted good samples, on a
\* mirror that only grows (ui.py:1041-1046, 1096-1116).
THEOREM SavedHasSamplesHolds == FilesSpec => []SavedHasSamples
<1>1. FilesInv => SavedHasSamples
  BY DEF FilesInv, WholeInv, SavedHasSamples, Holds
<1> QED
  BY <1>1, FilesInvariant, PTL

\* A result file that exists is never written again, although its number is
\* chosen before its bytes are written (ui.py:930-947, 1048-1058).
THEOREM NoOverwriteHolds == FilesSpec => NoOverwrite
<1>1. FilesInv /\ [FilesNext]_filesVars
        => [\A n \in Numbers : results[n] # NoFile => results'[n] = results[n]]_filesVars
  <2> SUFFICES ASSUME FilesInv, FilesNext, NEW n \in Numbers, results[n] # NoFile
               PROVE  results'[n] = results[n]
    OBVIOUS
  <2>1. ASSUME NEW b \in Baselines, FinishCopy(b) PROVE results'[n] = results[n]
    <3>1. number[b] # n
      BY <2>1 DEF FinishCopy, FilesInv, CopyInv
    <3>2. results \in [Numbers -> [of : Baselines \cup {"nobody"}, halves : 0..(2 * Rows)]]
      BY DEF FilesInv, FilesTypeOK
    <3> QED
      BY <2>1, <3>1, <3>2 DEF FinishCopy, Save, SaveFails
  <2> QED
    BY <2>1 DEF FilesNext, SelectDut, Pull, StopHandled, WorkerSees, WorkerOutOfTime,
                RunPosted, RunGiveUp, Begin, Move
<1> QED
  BY <1>1, FilesInvariant, PTL DEF FilesSpec, NoOverwrite

-----------------------------------------------------------------------------
(* The parts side by side. *)

\* A step of the composition is a step of one part and a stutter of the others.
LEMMA ArbiterMoves ==
  [ArbiterNext]_arbiterVars =>
    [MirrorNext]_mirrorVars /\ [FilesNext]_filesVars /\ [Next]_gui
BY Zenon DEF ArbiterNext, arbiterVars

\* So what is proved of a part holds in the composition.
LEMMA ArbiterParts == ArbiterSpec => MirrorSpec /\ FilesSpec /\ Spec
<1>1. ArbiterInit => MirrorInit /\ FilesInit /\ Init
  BY Zenon DEF ArbiterInit
<1>2. QED
  BY <1>1, ArbiterMoves, PTL DEF ArbiterSpec, MirrorSpec, FilesSpec, Spec

\* The variables of the mirror, of the collected files and of the GUI keep their
\* types whichever part runs.
THEOREM ArbiterTypes == ArbiterSpec => []ArbiterTypeOK
<1>1. MirrorTypeOK /\ FilesTypeOK /\ TypeOK => ArbiterTypeOK
  BY DEF ArbiterTypeOK
<1>2. QED
  BY <1>1, ArbiterParts, MirrorTypes, FilesTypes, TypeCorrect, PTL
=============================================================================
