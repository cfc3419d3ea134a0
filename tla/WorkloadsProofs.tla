--------------------------- MODULE WorkloadsProofs ---------------------------
(* Proofs about the baseline sampler's rows, averages and summary, about the
   requests that the two sides validate, and about the two counts of a run's
   effects: for every interval, window and duration, for every value a form may
   hold, and for any number of runs and records.  And what is proved of a part
   holds when the parts run side by side. *)
EXTENDS MCWorkloads, HeartbeatLinkProofs, MemCheckProofs, ParticlesProofs,
        FiniteSetTheorems, WellFoundedInduction, TLAPS

-----------------------------------------------------------------------------
(* Sums over finite functions, and the numbers of records in a bag. *)

\* Among the subsets of a finite set that are bad there is one that is not when
\* any element is taken away.
LEMMA LeastSubset ==
  ASSUME NEW D, IsFiniteSet(D), NEW Bad \in SUBSET SUBSET D, Bad # {}
  PROVE  \E S \in Bad : \A x \in S : S \ {x} \notin Bad
<1> DEFINE Sizes == {n \in Nat : \E S \in Bad : Cardinality(S) = n}
<1>1. \A S \in SUBSET D : IsFiniteSet(S) /\ Cardinality(S) \in Nat
  BY FS_Subset, FS_CardinalityType
<1>2. Sizes # {} /\ Sizes \subseteq Nat
  BY <1>1
<1>3. PICK n \in Sizes : \A m \in Sizes : ~(m < n)
  <2> HIDE DEF Sizes
  <2>1. PICK n \in Sizes : \A m \in Sizes : ~(<<m, n>> \in OpToRel(<, Nat))
    BY <1>2, NatLessThanWellFounded, WFMin
  <2> QED
    BY <1>2, <2>1 DEF OpToRel
<1>4. PICK S \in Bad : Cardinality(S) = n
  BY <1>3
<1>5. ASSUME NEW x \in S PROVE S \ {x} \notin Bad
  <2>1. Cardinality(S \ {x}) = n - 1 /\ n \in Nat /\ n > n - 1
    BY <1>1, <1>4, <1>5, FS_RemoveElement
  <2>2. S \ {x} \in Bad => n - 1 \in Sizes
    BY <1>1, <2>1
  <2> QED
    BY <1>3, <2>1, <2>2
<1> QED
  BY <1>4, <1>5

\* One pair for each unit of a function's values on S.
Units(f, S) == {p \in S \X (Nat \ {0}) : p[2] <= f[p[1]]}

\* The units of one element and those of the others.
LEMMA UnitsOfOne ==
  ASSUME NEW D, NEW f \in [D -> Nat], NEW S \in SUBSET D, NEW x \in S,
         IsFiniteSet(Units(f, S \ {x}))
  PROVE  /\ IsFiniteSet(Units(f, S))
         /\ Cardinality(Units(f, S)) = f[x] + Cardinality(Units(f, S \ {x}))
<1> DEFINE own == {x} \X (1..f[x])
           rest == Units(f, S \ {x})
<1>1. f[x] \in Nat
  OBVIOUS
<1>2. IsFiniteSet(own) /\ Cardinality(own) = f[x]
  <2>1. IsFiniteSet(1..f[x]) /\ Cardinality(1..f[x]) = f[x]
    BY <1>1, FS_Interval
  <2>2. IsFiniteSet({x}) /\ Cardinality({x}) = 1
    BY FS_Singleton
  <2> QED
    BY <1>1, <2>1, <2>2, FS_Product
<1>3. Units(f, S) = rest \cup own /\ rest \cap own = {}
  BY <1>1 DEF Units
<1>4. Cardinality({}) = 0
  BY FS_EmptySet
<1>5. Cardinality(rest) \in Nat
  BY FS_CardinalityType
<1>6. Cardinality(rest \cup own) = Cardinality(rest) + Cardinality(own) - Cardinality({})
  <2> HIDE DEF own
  <2> QED
    BY ZenonT(60), <1>2, <1>3, FS_Union
<1>7. IsFiniteSet(rest \cup own)
  <2> HIDE DEF own
  <2> QED
    BY <1>2, FS_Union
<1>8. Cardinality(rest \cup own) = f[x] + Cardinality(rest)
  <2> HIDE DEF own, rest
  <2> QED
    BY <1>1, <1>2, <1>4, <1>5, <1>6
<1> QED
  BY <1>3, <1>7, <1>8

\* A function on a finite set has finitely many units.
LEMMA UnitsFinite ==
  ASSUME NEW D, IsFiniteSet(D), NEW f \in [D -> Nat], NEW S \in SUBSET D
  PROVE  IsFiniteSet(Units(f, S)) /\ Cardinality(Units(f, S)) \in Nat
<1> DEFINE Bad == {T \in SUBSET D : ~IsFiniteSet(Units(f, T))}
<1>1. CASE Bad = {}
  BY <1>1, FS_CardinalityType
<1>2. CASE Bad # {}
  <2>1. PICK T \in Bad : \A x \in T : T \ {x} \notin Bad
    BY <1>2, LeastSubset
  <2>2. CASE T = {}
    <3>1. Units(f, T) = {}
      BY <2>2 DEF Units
    <3> QED
      BY <3>1, FS_EmptySet
  <2>3. CASE T # {}
    <3>1. PICK x \in T : TRUE
      BY <2>3
    <3>2. IsFiniteSet(Units(f, T \ {x}))
      BY <2>1
    <3> QED
      BY <3>2, UnitsOfOne
  <2> QED
    BY <2>2, <2>3
<1> QED
  BY <1>1, <1>2

\* The sum of a function is the number of its units.
LEMMA SumIsUnits ==
  ASSUME NEW D, IsFiniteSet(D), NEW f \in [D -> Nat]
  PROVE  SumFunction(f) = Cardinality(Units(f, D))
<1> DEFINE Picked(s) == CHOOSE x \in s : TRUE
           Body(g, s) == IF s = {} THEN 0 ELSE f[Picked(s)] + g[s \ {Picked(s)}]
           sum == CHOOSE g : g = [s \in SUBSET D |-> Body(g, s)]
           size == [s \in SUBSET D |-> Cardinality(Units(f, s))]
<1>1. SumFunction(f) = sum[D]
  BY DEF SumFunction, SumFunctionOnSet, FoldFunctionOnSet, MapThenFoldSet
<1>2. ASSUME NEW s \in SUBSET D PROVE size[s] = Body(size, s)
  <2>1. CASE s = {}
    <3>1. Units(f, s) = {}
      BY <2>1 DEF Units
    <3> QED
      BY <2>1, <3>1, FS_EmptySet
  <2>2. CASE s # {}
    <3>1. Picked(s) \in s
      BY <2>2
    <3> DEFINE x == Picked(s)
    <3> HIDE DEF Picked
    <3>2. s \ {x} \in SUBSET D /\ IsFiniteSet(Units(f, s \ {x}))
      BY UnitsFinite
    <3>3. Cardinality(Units(f, s)) = f[x] + Cardinality(Units(f, s \ {x}))
      BY <3>1, <3>2, UnitsOfOne
    <3> QED
      BY <2>2, <3>2, <3>3
  <2> QED
    BY <2>1, <2>2
<1>3. size = [s \in SUBSET D |-> Body(size, s)]
  <2> HIDE DEF Body
  <2> QED
    BY <1>2
<1>4. sum = [s \in SUBSET D |-> Body(sum, s)]
  <2> HIDE DEF Body, size
  <2> QED
    BY <1>3
<1> DEFINE Bad == {s \in SUBSET D : sum[s] # size[s]}
<1>5. CASE Bad = {}
  <2>1. D \in SUBSET D /\ size[D] = Cardinality(Units(f, D))
    OBVIOUS
  <2> HIDE DEF sum, size
  <2> QED
    BY <1>1, <1>5, <2>1
<1>6. CASE Bad # {}
  <2> HIDE DEF sum, size
  <2>1. PICK s \in Bad : \A x \in s : s \ {x} \notin Bad
    BY <1>6, LeastSubset
  <2>2. s \in SUBSET D /\ sum[s] = Body(sum, s) /\ size[s] = Body(size, s)
    <3> HIDE DEF Body
    <3> QED
      BY <1>2, <1>4
  <2>3. CASE s = {}
    BY <2>2, <2>3
  <2>4. CASE s # {}
    <3>1. Picked(s) \in s
      BY <2>4
    <3> HIDE DEF Picked
    <3>2. sum[s \ {Picked(s)}] = size[s \ {Picked(s)}]
      BY <2>1, <2>2, <3>1
    <3> QED
      BY <2>2, <2>4, <3>2
  <2> QED
    BY <2>3, <2>4
<1> QED
  BY <1>5, <1>6

-----------------------------------------------------------------------------
(* Bags of records. *)

FiniteBag(B) == IsABag(B) /\ IsFiniteSet(DOMAIN B)

\* How many of the records of S a bag holds.
NumberOf(B, S) == SumFunction([r \in DOMAIN B \cap S |-> B[r]])

BagUnits(B, S) == Units(B, DOMAIN B \cap S)

\* The number of records in a bag that pass a test is a number of units.
LEMMA NumberIsUnits ==
  ASSUME NEW B, FiniteBag(B), NEW S
  PROVE  /\ IsFiniteSet(BagUnits(B, S))
         /\ NumberOf(B, S) = Cardinality(BagUnits(B, S))
         /\ NumberOf(B, S) \in Nat
<1> DEFINE D == DOMAIN B \cap S
           f == [r \in D |-> B[r]]
<1>1. IsFiniteSet(D)
  BY FS_Subset DEF FiniteBag
<1>2. f \in [D -> Nat]
  BY DEF FiniteBag, IsABag
<1>3. Units(f, D) = BagUnits(B, S)
  BY DEF Units, BagUnits
<1>4. SumFunction(f) = Cardinality(Units(f, D))
  <2> HIDE DEF f, D
  <2> QED
    BY <1>1, <1>2, SumIsUnits
<1>5. IsFiniteSet(Units(f, D)) /\ Cardinality(Units(f, D)) \in Nat
  <2> HIDE DEF f, D
  <2> QED
    BY <1>1, <1>2, UnitsFinite
<1>6. NumberOf(B, S) = SumFunction(f)
  BY DEF NumberOf
<1> HIDE DEF f, D
<1> QED
  BY <1>3, <1>4, <1>5, <1>6

\* How many copies of e a bag holds.
Held(B, e) == IF e \in DOMAIN B THEN B[e] ELSE 0

\* A bag whose copies are those of two others has their numbers together.
LEMMA NumbersAdd ==
  ASSUME NEW A, FiniteBag(A), NEW B, FiniteBag(B), NEW C, FiniteBag(C), NEW S,
         DOMAIN A = DOMAIN B \cup DOMAIN C,
         \A e \in DOMAIN A : A[e] = Held(B, e) + Held(C, e)
  PROVE  NumberOf(A, S) = NumberOf(B, S) + NumberOf(C, S)
<1> DEFINE a == BagUnits(A, S)
           b == BagUnits(B, S)
           c == BagUnits(C, S)
           shift == [p \in c |-> <<p[1], Held(B, p[1]) + p[2]>>]
           moved == {shift[p] : p \in c}
<1>1. /\ \A e \in DOMAIN B : B[e] \in Nat \ {0}
      /\ \A e \in DOMAIN C : C[e] \in Nat \ {0}
      /\ \A e \in DOMAIN A : A[e] \in Nat \ {0}
      /\ \A e : Held(B, e) \in Nat /\ Held(C, e) \in Nat
  BY DEF FiniteBag, IsABag, Held
<1>2. \A p \in c : /\ p = <<p[1], p[2]>> /\ p[1] \in DOMAIN C \cap S
                   /\ p[2] \in Nat \ {0} /\ p[2] <= C[p[1]]
  BY DEF BagUnits, Units
<1>3. \A p \in c : shift[p] = <<p[1], Held(B, p[1]) + p[2]>>
  OBVIOUS
<1>4. a = b \cup moved
  <2>1. ASSUME NEW q \in a PROVE q \in b \cup moved
    <3>1. /\ q = <<q[1], q[2]>> /\ q[1] \in DOMAIN A \cap S /\ q[2] \in Nat \ {0}
          /\ q[2] <= Held(B, q[1]) + Held(C, q[1])
      BY <2>1 DEF BagUnits, Units
    <3>2. CASE q[2] <= Held(B, q[1])
      <4>1. q[1] \in DOMAIN B
        BY <3>1, <3>2 DEF Held
      <4>2. q \in b
        BY <3>1, <3>2, <4>1 DEF BagUnits, Units, Held
      <4> QED
        BY <4>2
    <3>3. CASE ~(q[2] <= Held(B, q[1]))
      <4> DEFINE n == Held(B, q[1])
                 p == <<q[1], q[2] - n>>
      <4>1. n \in Nat /\ q[2] - n \in Nat \ {0} /\ q[2] - n <= Held(C, q[1])
            /\ n + (q[2] - n) = q[2]
        BY <1>1, <3>1, <3>3
      <4>2. q[1] \in DOMAIN C /\ q[2] - n <= C[q[1]]
        BY <4>1 DEF Held
      <4>3. p \in c
        BY <3>1, <4>1, <4>2 DEF BagUnits, Units
      <4>4. shift[p] = q
        BY <1>3, <3>1, <4>1, <4>3
      <4> QED
        BY <4>3, <4>4
    <3> QED
      BY <3>2, <3>3
  <2>2. ASSUME NEW q \in b PROVE q \in a
    <3>1. /\ q \in (DOMAIN B \cap S) \X (Nat \ {0}) /\ q[2] <= B[q[1]]
      BY <2>2 DEF BagUnits, Units
    <3>2. q[1] \in DOMAIN A \cap S /\ A[q[1]] = B[q[1]] + Held(C, q[1])
      BY <3>1 DEF Held
    <3>3. q[2] <= A[q[1]]
      BY <1>1, <3>1, <3>2
    <3> QED
      BY <3>1, <3>2, <3>3 DEF BagUnits, Units
  <2>3. ASSUME NEW p \in c PROVE shift[p] \in a
    <3>1. A[p[1]] = Held(B, p[1]) + C[p[1]] /\ p[1] \in DOMAIN A
      BY <1>2, <2>3 DEF Held
    <3>2. Held(B, p[1]) + p[2] \in Nat \ {0}
          /\ Held(B, p[1]) + p[2] <= A[p[1]]
      BY <1>1, <1>2, <2>3, <3>1
    <3> QED
      BY <1>2, <1>3, <2>3, <3>1, <3>2 DEF BagUnits, Units
  <2> QED
    BY <2>1, <2>2, <2>3
<1>5. b \cap moved = {}
  <2> SUFFICES ASSUME NEW p \in c, shift[p] \in b PROVE FALSE
    OBVIOUS
  <2>1. Held(B, p[1]) + p[2] <= B[p[1]] /\ p[1] \in DOMAIN B
    BY <1>3 DEF BagUnits, Units
  <2> QED
    BY <1>1, <1>2, <2>1 DEF Held
<1>6. shift \in Bijection(c, moved)
  <2>1. \A p, q \in c : shift[p] = shift[q] => p = q
    BY <1>1, <1>2, <1>3
  <2>2. shift \in [c -> moved] /\ \A y \in moved : \E x \in c : shift[x] = y
    OBVIOUS
  <2> HIDE DEF shift, moved, c
  <2> QED
    BY <2>1, <2>2 DEF Bijection, Injection, Surjection, IsInjective
<1>7. IsFiniteSet(b) /\ IsFiniteSet(c)
  BY NumberIsUnits
<1>8. NumberOf(A, S) = Cardinality(a) /\ NumberOf(B, S) = Cardinality(b)
      /\ NumberOf(C, S) = Cardinality(c) /\ Cardinality(b) \in Nat /\ Cardinality(c) \in Nat
  BY NumberIsUnits
<1> HIDE DEF a, b, c, shift, moved
<1>9. ExistsBijection(c, moved)
  BY <1>6 DEF ExistsBijection
<1>10. IsFiniteSet(moved) /\ Cardinality(moved) = Cardinality(c)
  BY <1>7, <1>9, FS_Bijection
<1>11. Cardinality(a) = Cardinality(b) + Cardinality(moved) - Cardinality({})
  BY <1>4, <1>5, <1>7, <1>10, FS_Union
<1> QED
  BY <1>8, <1>10, <1>11, FS_EmptySet

\* A set of records written adds those of S that are in it.
LEMMA NumberWritten ==
  ASSUME NEW B, FiniteBag(B), NEW T, IsFiniteSet(T), NEW S
  PROVE  /\ FiniteBag(B (+) SetToBag(T))
         /\ DOMAIN (B (+) SetToBag(T)) = DOMAIN B \cup T
         /\ \A e \in DOMAIN B : (B (+) SetToBag(T))[e] >= B[e]
         /\ NumberOf(B (+) SetToBag(T), S) = NumberOf(B, S) + Cardinality(T \cap S)
<1> DEFINE A == B (+) SetToBag(T)
           C == SetToBag(T)
<1>1. \A e \in DOMAIN B : B[e] \in Nat \ {0}
  BY DEF FiniteBag, IsABag
<1>2. DOMAIN C = T /\ \A e \in T : C[e] = 1
  BY DEF SetToBag
<1>3. FiniteBag(C)
  BY DEF FiniteBag, IsABag, SetToBag
<1>4. /\ DOMAIN A = DOMAIN B \cup DOMAIN C
      /\ A = [e \in DOMAIN B \cup DOMAIN C |-> Held(B, e) + Held(C, e)]
  BY DEF (+), Held
<1>5. FiniteBag(A)
  <2>1. IsFiniteSet(DOMAIN B \cup T)
    BY FS_Union DEF FiniteBag
  <2>2. \A e \in DOMAIN B \cup T : Held(B, e) + Held(C, e) \in {n \in Nat : n > 0}
    BY <1>1, <1>2 DEF Held
  <2> HIDE DEF A, C
  <2> QED
    BY <1>2, <1>4, <2>1, <2>2 DEF FiniteBag, IsABag
<1>6. NumberOf(C, S) = Cardinality(T \cap S)
  <2>1. BagUnits(C, S) = (T \cap S) \X {1}
    BY <1>2 DEF BagUnits, Units
  <2>2. IsFiniteSet(T \cap S) /\ Cardinality(T \cap S) \in Nat
    BY FS_Subset, FS_CardinalityType
  <2>3. IsFiniteSet({1}) /\ Cardinality({1}) = 1
    BY FS_Singleton
  <2>4. Cardinality((T \cap S) \X {1}) = Cardinality(T \cap S) * Cardinality({1})
    BY <2>2, <2>3, FS_Product
  <2> HIDE DEF C
  <2> QED
    BY <1>3, <2>1, <2>2, <2>3, <2>4, NumberIsUnits
<1>7. \A e \in DOMAIN B : A[e] >= B[e]
  <2> HIDE DEF A, C
  <2> QED
    BY <1>1, <1>2, <1>4 DEF Held
<1>8. \A e \in DOMAIN A : A[e] = Held(B, e) + Held(C, e)
  <2> HIDE DEF A, C
  <2> QED
    BY <1>4
<1> HIDE DEF A, C
<1>9. NumberOf(A, S) = NumberOf(B, S) + NumberOf(C, S)
  BY <1>3, <1>4, <1>5, <1>8, NumbersAdd
<1> USE DEF A
<1> QED
  BY <1>2, <1>4, <1>5, <1>6, <1>7, <1>9

\* What was read and what was new are all there is.
LEMMA NumberTaken ==
  ASSUME NEW B, FiniteBag(B), NEW C, IsABag(C), C \sqsubseteq B, NEW S
  PROVE  /\ FiniteBag(B (-) C) /\ FiniteBag(C) /\ DOMAIN (B (-) C) \subseteq DOMAIN B
         /\ NumberOf(B, S) = NumberOf(C, S) + NumberOf(B (-) C, S)
<1> DEFINE A == B (-) C
<1>1. /\ \A e \in DOMAIN B : B[e] \in Nat \ {0}
      /\ \A e \in DOMAIN C : e \in DOMAIN B /\ C[e] \in Nat \ {0} /\ C[e] <= B[e]
  BY DEF FiniteBag, IsABag, \sqsubseteq
<1>2. A = [e \in {d \in DOMAIN B : B[d] - Held(C, d) > 0} |-> B[e] - Held(C, e)]
  <2> DEFINE F == [e \in DOMAIN B |-> IF e \in DOMAIN C THEN B[e] - C[e] ELSE B[e]]
  <2>1. A = [e \in {d \in DOMAIN F : F[d] > 0} |-> F[e]]
    BY DEF (-)
  <2>2. DOMAIN F = DOMAIN B /\ \A e \in DOMAIN B : F[e] = B[e] - Held(C, e)
    BY <1>1 DEF Held
  <2>3. {d \in DOMAIN F : F[d] > 0} = {d \in DOMAIN B : B[d] - Held(C, d) > 0}
    BY <2>2
  <2> HIDE DEF F, A
  <2> QED
    BY <2>1, <2>2, <2>3
<1> HIDE DEF A
<1>3. DOMAIN A = {d \in DOMAIN B : B[d] - Held(C, d) > 0}
      /\ \A e \in DOMAIN A : A[e] = B[e] - Held(C, e)
  BY <1>2
<1>4. \A e \in DOMAIN B : B[e] - Held(C, e) \in Nat
  BY <1>1 DEF Held
<1>5. DOMAIN A \subseteq DOMAIN B /\ DOMAIN C \subseteq DOMAIN B
  BY <1>1, <1>3
<1>6. FiniteBag(A) /\ FiniteBag(C)
  <2>1. IsFiniteSet(DOMAIN A) /\ IsFiniteSet(DOMAIN C)
    BY <1>5, FS_Subset DEF FiniteBag
  <2>2. A \in [DOMAIN A -> {n \in Nat : n > 0}]
    BY <1>2, <1>3, <1>4
  <2> QED
    BY <2>1, <2>2 DEF FiniteBag, IsABag
<1>7. DOMAIN B = DOMAIN C \cup DOMAIN A
  BY <1>1, <1>3, <1>4 DEF Held
<1>8. \A e \in DOMAIN B : B[e] = Held(C, e) + Held(A, e)
  <2> SUFFICES ASSUME NEW e \in DOMAIN B PROVE B[e] = Held(C, e) + Held(A, e)
    OBVIOUS
  <2>1. Held(C, e) \in Nat /\ B[e] \in Nat
    BY <1>1 DEF Held
  <2>2. Held(A, e) = B[e] - Held(C, e)
    <3>1. CASE e \in DOMAIN A
      BY <1>3, <3>1 DEF Held
    <3>2. CASE e \notin DOMAIN A
      BY <1>3, <1>4, <2>1, <3>2 DEF Held
    <3> QED
      BY <3>1, <3>2
  <2> QED
    BY <2>1, <2>2
<1>9. NumberOf(B, S) = NumberOf(C, S) + NumberOf(A, S)
  BY <1>6, <1>7, <1>8, NumbersAdd
<1> USE DEF A
<1> QED
  BY <1>5, <1>6, <1>9

-----------------------------------------------------------------------------
(* The sampler: its schedule. *)

\* Rows are a sequence, of whatever their averages are.
RowsInv == \E Values : csvRows \in Seq(Values)

\* At the head of the loop the next row is due, or none is any more.
DueInv ==
  phase = "loop" => stopSignal \/ Elapsed \/ clock >= Len(csvRows) * Interval

ScheduleInv == clock \in Nat /\ RowsInv /\ DueInv /\ NeverAhead

\* A row that is written when it is due leaves the rows before it as they are.
LEMMA RowAdded ==
  ASSUME ScheduleInv, SampleDue, NEW row, row.at = clock,
         csvRows' = Append(csvRows, row), clock' = clock, phase' = "wait"
  PROVE  ScheduleInv'
<1> DEFINE n == Len(csvRows)
<1>1. PICK Values : csvRows \in Seq(Values)
  BY DEF ScheduleInv, RowsInv
<1>2. /\ n \in Nat /\ DOMAIN csvRows = 1..n
      /\ csvRows' \in Seq(Values \cup {row})
      /\ DOMAIN csvRows' = 1..(n + 1) /\ csvRows'[n + 1] = row
      /\ \A k \in 1..n : csvRows'[k] = csvRows[k]
  BY <1>1
<1>3. clock \in Nat /\ clock >= n * Interval /\ (Duration > 0 => clock < Duration)
  BY LoggerAssumption DEF ScheduleInv, DueInv, SampleDue, Elapsed
<1>4. NeverAhead'
  <2> SUFFICES ASSUME NEW k \in 1..(n + 1)
               PROVE  /\ csvRows'[k].at >= (k - 1) * Interval
                      /\ Duration > 0 => csvRows'[k].at < Duration
    BY <1>2 DEF NeverAhead
  <2>1. CASE k \in 1..n
    BY <1>2, <2>1 DEF ScheduleInv, NeverAhead
  <2>2. CASE k = n + 1
    <3>1. k - 1 = n /\ csvRows'[k].at = clock
      BY <1>2, <2>2
    <3> HIDE DEF n
    <3> QED
      BY <1>3, <3>1
  <2> QED
    BY <1>2, <2>1, <2>2
<1>5. RowsInv' /\ DueInv' /\ clock' \in Nat
  BY <1>2, <1>3 DEF RowsInv, DueInv
<1> QED
  BY <1>4, <1>5 DEF ScheduleInv

LEMMA ScheduleInit == LoggerInit => ScheduleInv
<1> SUFFICES ASSUME LoggerInit PROVE ScheduleInv
  OBVIOUS
<1> USE DEF LoggerInit
<1>1. csvRows \in Seq({}) /\ Len(csvRows) = 0 /\ DOMAIN csvRows = {}
  OBVIOUS
<1>2. RowsInv /\ NeverAhead
  BY <1>1 DEF RowsInv, NeverAhead
<1>3. 0 * Interval = 0
  BY LoggerAssumption
<1>4. DueInv
  BY <1>1, <1>3 DEF DueInv
<1> QED
  BY <1>2, <1>4 DEF ScheduleInv

LEMMA ScheduleStep == ScheduleInv /\ [LoggerNext]_loggerVars => ScheduleInv'
<1> SUFFICES ASSUME ScheduleInv, [LoggerNext]_loggerVars PROVE ScheduleInv'
  OBVIOUS
<1>1. clock \in Nat /\ RowsInv /\ DueInv /\ NeverAhead
  BY DEF ScheduleInv
<1>2. ASSUME UNCHANGED csvRows PROVE RowsInv' /\ NeverAhead'
  BY <1>1, <1>2 DEF RowsInv, NeverAhead
<1>3. CASE UNCHANGED loggerVars
  BY <1>1, <1>2, <1>3 DEF loggerVars, DueInv, Elapsed, ScheduleInv
<1>4. CASE LoggerTick
  <2>1. clock' = clock + 1 /\ UNCHANGED <<phase, stopSignal, csvRows>>
    BY <1>4 DEF LoggerTick
  <2>2. PICK Values : csvRows \in Seq(Values)
    BY <1>1 DEF RowsInv
  <2>3. Len(csvRows) * Interval \in Int
    BY <2>2, LoggerAssumption
  <2>4. clock' >= Len(csvRows) * Interval \/ ~(clock >= Len(csvRows) * Interval)
    BY <1>1, <2>1, <2>3
  <2>5. Elapsed => Elapsed'
    BY <1>1, <2>1, LoggerAssumption DEF Elapsed
  <2>6. DueInv'
    BY <1>1, <2>1, <2>4, <2>5 DEF DueInv
  <2> QED
    BY <1>1, <1>2, <2>1, <2>6 DEF ScheduleInv
<1>5. CASE LoggerSignal
  BY <1>1, <1>2, <1>5 DEF LoggerSignal, DueInv, ScheduleInv
<1>6. ASSUME NEW ma \in Readings, SampleGood(ma) PROVE ScheduleInv'
  <2> DEFINE row == [at |-> clock, ma |-> ma, rolling |-> Rolling(Pushed(window, ma))]
  <2>1. row.at = clock
    OBVIOUS
  <2>2. /\ SampleDue /\ csvRows' = Append(csvRows, row) /\ clock' = clock
        /\ phase' = "wait"
    BY <1>6 DEF SampleGood
  <2> HIDE DEF row
  <2> QED
    BY <2>1, <2>2, RowAdded
<1>7. CASE SampleFailed
  <2> DEFINE row == [at |-> clock, ma |-> Failed, rolling |-> Blank]
  <2>1. row.at = clock
    OBVIOUS
  <2>2. /\ SampleDue /\ csvRows' = Append(csvRows, row) /\ clock' = clock
        /\ phase' = "wait"
    BY <1>7 DEF SampleFailed
  <2> HIDE DEF row
  <2> QED
    BY <2>1, <2>2, RowAdded
<1>8. CASE WaitOver
  <2>1. UNCHANGED <<clock, stopSignal, csvRows, Elapsed>>
    BY <1>8 DEF WaitOver, Elapsed
  <2>2. DueInv'
    BY <1>8, <2>1 DEF WaitOver, DueInv
  <2> QED
    BY <1>1, <1>2, <2>1, <2>2 DEF ScheduleInv
<1>9. CASE Finish \/ WriteRaises \/ LoggerKilled
  BY <1>1, <1>2, <1>9
     DEF Finish, WriteRaises, LoggerKilled, DueInv, ScheduleInv
<1> QED
  BY <1>3, <1>4, <1>5, <1>6, <1>7, <1>8, <1>9 DEF LoggerNext

\* The sampler does not run ahead of its schedule and takes no sample when the
\* duration is over, for every interval and duration and whatever the readings
\* cost (current_logger.py:341-393).
THEOREM NeverAheadHolds == LoggerSpec => []NeverAhead
<1>1. ScheduleInv => NeverAhead
  BY DEF ScheduleInv
<1> QED
  BY <1>1, ScheduleInit, ScheduleStep, PTL DEF LoggerSpec

-----------------------------------------------------------------------------
(* The sampler: its averages and its summary. *)

\* A sum does not depend on what its terms are numbered by.
LEMMA SumMoved ==
  ASSUME NEW D, IsFiniteSet(D), NEW f \in [D -> Nat], NEW E, NEW g \in [E -> Nat],
         NEW b \in Bijection(D, E), \A d \in D : g[b[d]] = f[d]
  PROVE  SumFunction(f) = SumFunction(g)
<1> DEFINE here == Units(f, D)
           there == Units(g, E)
           u == [p \in here |-> <<b[p[1]], p[2]>>]
<1>1. /\ b \in [D -> E] /\ \A d, e \in D : b[d] = b[e] => d = e
      /\ \A e \in E : \E d \in D : b[d] = e
  BY DEF Bijection, Injection, Surjection, IsInjective
<1>2. IsFiniteSet(E)
  <2>1. ExistsBijection(D, E)
    BY DEF ExistsBijection
  <2> QED
    BY <2>1, FS_Bijection
<1>3. \A p \in here : p = <<p[1], p[2]>> /\ p[1] \in D /\ p[2] \in Nat \ {0} /\ p[2] <= f[p[1]]
  BY DEF Units
<1>4. \A p \in here : u[p] = <<b[p[1]], p[2]>> /\ u[p] \in there
  BY <1>1, <1>3 DEF Units
<1>5. \A p, q \in here : u[p] = u[q] => p = q
  BY <1>1, <1>3, <1>4
<1>6. ASSUME NEW q \in there PROVE \E p \in here : u[p] = q
  <2>1. q = <<q[1], q[2]>> /\ q[1] \in E /\ q[2] \in Nat \ {0} /\ q[2] <= g[q[1]]
    BY DEF Units
  <2>2. PICK d \in D : b[d] = q[1]
    BY <1>1, <2>1
  <2>3. <<d, q[2]>> \in here
    BY <2>1, <2>2 DEF Units
  <2> QED
    BY <1>4, <2>1, <2>2, <2>3
<1>7. u \in Bijection(here, there)
  <2>1. u \in [here -> there]
    BY <1>4
  <2> HIDE DEF u, here, there
  <2> QED
    BY <1>5, <1>6, <2>1 DEF Bijection, Injection, Surjection, IsInjective
<1>8. IsFiniteSet(here) /\ IsFiniteSet(there)
  BY <1>2, UnitsFinite
<1>9. Cardinality(there) = Cardinality(here)
  <2> HIDE DEF u, here, there
  <2>1. ExistsBijection(here, there)
    BY <1>7 DEF ExistsBijection
  <2> QED
    BY <1>8, <2>1, FS_Bijection
<1> QED
  BY <1>2, <1>9, SumIsUnits

\* A sum of naturals is a natural.
LEMMA SumType ==
  ASSUME NEW D, IsFiniteSet(D), NEW f \in [D -> Nat]
  PROVE  SumFunction(f) \in Nat
BY SumIsUnits, UnitsFinite

\* What the arithmetic below needs of the constants.
LEMMA Currents == RollingWindow \in Nat \ {0} /\ Readings \subseteq Nat /\ Duration \in Nat
BY LoggerAssumption

\* The window holds the readings of the last good rows, in their order, at the
\* positions pos.
InWindow(pos) ==
  /\ pos \in [1..Len(window) -> 1..Len(csvRows)]
  /\ \A i, j \in 1..Len(window) : i < j => pos[i] < pos[j]
  /\ \A i \in 1..Len(window) : csvRows[pos[i]].ma = window[i]
  /\ \A j \in GoodRows(Len(csvRows)) :
       \/ \E i \in 1..Len(window) : pos[i] = j
       \/ Len(window) = RollingWindow /\ j < pos[1]
WindowInv == \E pos : InWindow(pos)

CountInv ==
  /\ samples = Cardinality(GoodRows(Len(csvRows)))
  /\ failures = Len(csvRows) - samples
  /\ summary # NoSummary => phase = "done"

\* The average in row k is right.
RowIsRight(k) ==
  csvRows[k].ma # Failed =>
    IF Cardinality(GoodRows(k)) < RollingWindow
    THEN csvRows[k].rolling = Blank
    ELSE \E last \in SUBSET GoodRows(k) :
           /\ AreLast(last, k)
           /\ csvRows[k].rolling = SumFunction([j \in last |-> csvRows[j].ma])

\* The average in the newest row is that of the window as it is.
AverageInv ==
  LET n == Len(csvRows)
  IN  /\ \A k \in 1..(n - 1) : RowIsRight(k)
      /\ n > 0 /\ csvRows[n].ma # Failed => csvRows[n].rolling = Rolling(window)

LoggedInv == LoggerTypeOK /\ WindowInv /\ CountInv /\ SummaryIsTrue /\ AverageInv

\* Good rows can be counted.
LEMMA GoodRowsFinite ==
  \A k \in Nat : IsFiniteSet(GoodRows(k)) /\ Cardinality(GoodRows(k)) \in Nat
<1> SUFFICES ASSUME NEW k \in Nat
             PROVE  IsFiniteSet(GoodRows(k)) /\ Cardinality(GoodRows(k)) \in Nat
  OBVIOUS
<1>1. IsFiniteSet(1..k) /\ GoodRows(k) \subseteq 1..k
  BY FS_Interval DEF GoodRows
<1> QED
  BY <1>1, FS_Subset, FS_CardinalityType

\* What a full window adds up to is an average over the last good rows, and a
\* window that is not full has all of them.
LEMMA WindowIsLast ==
  ASSUME LoggerTypeOK, NEW pos, InWindow(pos)
  PROVE  LET n == Len(csvRows)
         IN  /\ Len(window) < RollingWindow <=> Cardinality(GoodRows(n)) < RollingWindow
             /\ Len(window) = RollingWindow =>
                  \E last \in SUBSET GoodRows(n) :
                    /\ AreLast(last, n)
                    /\ SumFunction(window) = SumFunction([j \in last |-> csvRows[j].ma])
<1> DEFINE n == Len(csvRows)
           L == Len(window)
           last == {pos[i] : i \in 1..L}
           g == [j \in last |-> csvRows[j].ma]
<1>1. /\ n \in Nat /\ L \in Nat /\ L <= RollingWindow /\ window \in [1..L -> Nat]
      /\ \A j \in 1..n : csvRows[j].ma \in Nat \cup {Failed}
  <2>1. window \in Seq(Nat) /\ Len(window) <= RollingWindow /\ csvRows \in Seq(Row)
    BY DEF LoggerTypeOK
  <2>2. csvRows \in [1..n -> Row]
    BY <2>1
  <2>3. \A j \in 1..n : csvRows[j].ma \in Nat \cup {Failed}
    BY <2>2 DEF Row
  <2> QED
    BY <2>1, <2>3
<1>2. /\ pos \in [1..L -> 1..n] /\ \A i, j \in 1..L : i < j => pos[i] < pos[j]
      /\ \A i \in 1..L : csvRows[pos[i]].ma = window[i]
      /\ \A j \in GoodRows(n) : j \in last \/ (L = RollingWindow /\ j < pos[1])
  BY DEF InWindow
<1>3. last \subseteq GoodRows(n) /\ last \subseteq 1..n
  <2> SUFFICES ASSUME NEW i \in 1..L PROVE pos[i] \in GoodRows(n) /\ pos[i] \in 1..n
    OBVIOUS
  <2>1. window[i] \in Nat /\ pos[i] \in 1..n /\ csvRows[pos[i]].ma = window[i]
    BY <1>1, <1>2
  <2> QED
    BY <2>1 DEF GoodRows, Failed
<1>4. pos \in Bijection(1..L, last)
  <2>1. \A i, j \in 1..L : pos[i] = pos[j] => i = j
    <3> SUFFICES ASSUME NEW i \in 1..L, NEW j \in 1..L, pos[i] = pos[j], i # j PROVE FALSE
      OBVIOUS
    <3>1. i < j \/ j < i
      BY <1>1
    <3>2. pos[i] \in 1..n /\ pos[j] \in 1..n
      BY <1>2
    <3> QED
      BY <1>1, <1>2, <3>1, <3>2
  <2>2. pos \in [1..L -> last]
    BY <1>2
  <2> QED
    BY <2>1, <2>2 DEF Bijection, Injection, Surjection, IsInjective
<1>5. IsFiniteSet(1..L) /\ Cardinality(1..L) = L
  <2> HIDE DEF L
  <2>1. IsFiniteSet(1..L) /\ Cardinality(1..L) = IF 1 > L THEN 0 ELSE L - 1 + 1
    BY <1>1, FS_Interval
  <2> QED
    BY <1>1, <2>1
<1>6. IsFiniteSet(last) /\ Cardinality(last) = L
  <2>1. ExistsBijection(1..L, last)
    BY <1>4 DEF ExistsBijection
  <2> HIDE DEF last, L
  <2> QED
    BY <1>5, <2>1, FS_Bijection
<1>7. IsFiniteSet(GoodRows(n)) /\ Cardinality(GoodRows(n)) \in Nat
  BY <1>1, GoodRowsFinite
<1>8. L <= Cardinality(GoodRows(n))
  <2> HIDE DEF last, L, n
  <2> QED
    BY <1>3, <1>6, <1>7, FS_Subset
<1>9. L < RollingWindow => GoodRows(n) = last
  BY <1>2, <1>3
<1>10. L < RollingWindow <=> Cardinality(GoodRows(n)) < RollingWindow
  <2> HIDE DEF last, L, n
  <2> QED
    BY <1>1, <1>6, <1>7, <1>8, <1>9, Currents
<1>11. ASSUME L = RollingWindow
       PROVE  AreLast(last, n) /\ SumFunction(window) = SumFunction(g)
  <2>1. ASSUME NEW i \in GoodRows(n) \ last, NEW j \in last PROVE i < j
    <3>1. i < pos[1] /\ i \in 1..n
      BY <1>2 DEF GoodRows
    <3>2. PICK k \in 1..L : j = pos[k]
      OBVIOUS
    <3>3. 1 \in 1..L /\ (k = 1 \/ 1 < k)
      BY <1>1
    <3>4. pos[1] <= pos[k] /\ pos[1] \in 1..n /\ pos[k] \in 1..n
      BY SMTT(60), <1>2, <3>3
    <3> QED
      BY <1>1, <3>1, <3>2, <3>4
  <2>2. AreLast(last, n)
    <3> HIDE DEF last
    <3> QED
      BY <1>6, <1>11, <2>1 DEF AreLast
  <2>3. g \in [last -> Nat] /\ \A i \in 1..L : g[pos[i]] = window[i]
    <3>1. ASSUME NEW i \in 1..L
          PROVE  pos[i] \in last /\ g[pos[i]] = window[i] /\ window[i] \in Nat
      BY <1>1, <1>2
    <3>2. ASSUME NEW j \in last PROVE g[j] \in Nat
      <4>1. PICK i \in 1..L : j = pos[i]
        OBVIOUS
      <4> HIDE DEF last, g, L
      <4> QED
        BY <3>1, <4>1
    <3>3. g \in [last -> Nat]
      <4> HIDE DEF last
      <4> QED
        BY <3>2
    <3> QED
      BY <3>1, <3>3
  <2>4. SumFunction(window) = SumFunction(g)
    <3> HIDE DEF last, g, L
    <3> QED
      BY <1>1, <1>4, <1>5, <2>3, SumMoved
  <2> QED
    BY <2>2, <2>4
<1> HIDE DEF last
<1> QED
  BY <1>3, <1>10, <1>11

\* By the invariant every row's average is right, the newest row's with the
\* window's place in the rows.
LEMMA AveragesRight == ASSUME LoggedInv PROVE \A k \in 1..Len(csvRows) : RowIsRight(k)
<1> DEFINE n == Len(csvRows)
<1>1. LoggerTypeOK /\ AverageInv /\ WindowInv
  BY DEF LoggedInv
<1>2. n \in Nat /\ Len(window) \in Nat /\ Len(window) <= RollingWindow
  BY <1>1 DEF LoggerTypeOK
<1>3. PICK pos : InWindow(pos)
  BY <1>1 DEF WindowInv
<1>4. ASSUME n > 0 PROVE RowIsRight(n)
  <2> SUFFICES ASSUME csvRows[n].ma # Failed
               PROVE  IF Cardinality(GoodRows(n)) < RollingWindow
                      THEN csvRows[n].rolling = Blank
                      ELSE \E last \in SUBSET GoodRows(n) :
                             /\ AreLast(last, n)
                             /\ csvRows[n].rolling = SumFunction([j \in last |-> csvRows[j].ma])
    BY DEF RowIsRight
  <2>1. csvRows[n].rolling = Rolling(window)
    BY <1>1, <1>4 DEF AverageInv
  <2>2. /\ Len(window) < RollingWindow <=> Cardinality(GoodRows(n)) < RollingWindow
        /\ Len(window) = RollingWindow =>
             \E last \in SUBSET GoodRows(n) :
               /\ AreLast(last, n)
               /\ SumFunction(window) = SumFunction([j \in last |-> csvRows[j].ma])
    BY <1>1, <1>3, WindowIsLast
  <2> HIDE DEF n
  <2>3. CASE Len(window) = RollingWindow
    <3>1. csvRows[n].rolling = SumFunction(window)
      BY <2>1, <2>3 DEF Rolling
    <3>2. ~(Cardinality(GoodRows(n)) < RollingWindow)
      BY <2>2, <2>3, Currents
    <3>3. PICK last \in SUBSET GoodRows(n) :
            /\ AreLast(last, n)
            /\ SumFunction(window) = SumFunction([j \in last |-> csvRows[j].ma])
      BY <2>2, <2>3
    <3> QED
      BY <3>1, <3>2, <3>3
  <2>4. CASE Len(window) # RollingWindow
    BY <1>2, <2>1, <2>2, <2>4, Currents DEF Rolling
  <2> QED
    BY <2>3, <2>4
<1>5. \A k \in 1..(n - 1) : RowIsRight(k)
  BY <1>1 DEF AverageInv
<1> HIDE DEF n
<1>6. \A k \in 1..n : RowIsRight(k)
  <2> SUFFICES ASSUME NEW k \in 1..n PROVE RowIsRight(k)
    OBVIOUS
  <2>1. (k = n /\ n > 0) \/ k \in 1..(n - 1)
    BY <1>2
  <2> QED
    BY <1>4, <1>5, <2>1
<1> QED
  BY <1>6 DEF n

\* What a row that is written does to the rows.
LEMMA RowWritten ==
  ASSUME LoggedInv, NEW row \in Row, csvRows' = Append(csvRows, row), NEW n, n = Len(csvRows)
  PROVE  /\ n \in Nat /\ Len(csvRows') = n + 1 /\ csvRows' \in Seq(Row)
         /\ csvRows'[n + 1] = row /\ \A k \in 1..n : csvRows'[k] = csvRows[k]
         /\ \A k \in 1..n : GoodRows(k)' = GoodRows(k) /\ RowIsRight(k)'
         /\ GoodRows(n + 1)' = IF row.ma = Failed THEN GoodRows(n) ELSE GoodRows(n) \cup {n + 1}
         /\ Cardinality(GoodRows(n)) \in Nat
         /\ Cardinality(GoodRows(n) \cup {n + 1}) = Cardinality(GoodRows(n)) + 1
<1>1. csvRows \in Seq(Row)
  BY DEF LoggedInv, LoggerTypeOK
<1>2. /\ n \in Nat /\ Len(csvRows') = n + 1 /\ csvRows' \in Seq(Row)
      /\ csvRows'[n + 1] = row /\ \A k \in 1..n : csvRows'[k] = csvRows[k]
  BY <1>1
<1>3. \A k \in 1..n : RowIsRight(k)
  BY AveragesRight
<1>4. ASSUME NEW k \in 1..n PROVE GoodRows(k)' = GoodRows(k) /\ RowIsRight(k)'
  <2>1. \A j \in 1..k : csvRows'[j] = csvRows[j]
    BY <1>2
  <2>2. GoodRows(k)' = GoodRows(k)
    BY <2>1 DEF GoodRows
  <2>3. \A last \in SUBSET GoodRows(k) : AreLast(last, k)' <=> AreLast(last, k)
    BY <2>2 DEF AreLast
  <2>4. ASSUME NEW last \in SUBSET GoodRows(k)
        PROVE  [j \in last |-> csvRows'[j].ma] = [j \in last |-> csvRows[j].ma]
    BY <2>1 DEF GoodRows
  <2>5. csvRows'[k] = csvRows[k] /\ RowIsRight(k)
    BY <1>2, <1>3
  <2>6. CASE Cardinality(GoodRows(k)) < RollingWindow
    BY <2>2, <2>5, <2>6 DEF RowIsRight
  <2>7. CASE ~(Cardinality(GoodRows(k)) < RollingWindow) /\ csvRows[k].ma # Failed
    <3>1. PICK last \in SUBSET GoodRows(k) :
            /\ AreLast(last, k)
            /\ csvRows[k].rolling = SumFunction([j \in last |-> csvRows[j].ma])
      BY <2>5, <2>7 DEF RowIsRight
    <3>2. /\ last \in SUBSET GoodRows(k)' /\ AreLast(last, k)'
          /\ csvRows'[k].rolling = SumFunction([j \in last |-> csvRows'[j].ma])
      BY <2>2, <2>3, <2>4, <2>5, <3>1
    <3> QED
      BY <2>2, <2>7, <3>2 DEF RowIsRight
  <2>8. CASE csvRows[k].ma = Failed
    <3>1. csvRows'[k].ma = Failed
      BY <2>5, <2>8
    <3>2. RowIsRight(k)'
      BY <3>1 DEF RowIsRight
    <3> QED
      BY <2>2, <3>2
  <2> QED
    BY <2>2, <2>6, <2>7, <2>8
<1>5. GoodRows(n + 1)' = IF row.ma = Failed THEN GoodRows(n) ELSE GoodRows(n) \cup {n + 1}
  <2>1. 1..(n + 1) = (1..n) \cup {n + 1}
    BY <1>2
  <2> QED
    BY <1>2, <2>1 DEF GoodRows
<1>6. /\ Cardinality(GoodRows(n)) \in Nat
      /\ Cardinality(GoodRows(n) \cup {n + 1}) = Cardinality(GoodRows(n)) + 1
  <2>1. n + 1 \notin GoodRows(n)
    BY <1>2 DEF GoodRows
  <2> QED
    BY <1>2, <2>1, GoodRowsFinite, FS_AddElement
<1> QED
  BY <1>2, <1>4, <1>5, <1>6

\* The window after one more reading: the new one last, the oldest gone when it
\* was full.
LEMMA PushedIs ==
  ASSUME NEW w \in Seq(Nat), Len(w) <= RollingWindow, NEW ma \in Nat
  PROVE  LET p == Pushed(w, ma)
             L == Len(w)
         IN  /\ p \in Seq(Nat) /\ Len(p) \in Nat \ {0} /\ Len(p) <= RollingWindow
             /\ p[Len(p)] = ma
             /\ L = RollingWindow => /\ Len(p) = L
                                     /\ \A i \in 1..(L - 1) : p[i] = w[i + 1]
             /\ L # RollingWindow => Len(p) = L + 1 /\ \A i \in 1..L : p[i] = w[i]
             /\ Rolling(p) \in Nat \cup {Blank}
<1> DEFINE p == Pushed(w, ma)
           L == Len(w)
<1>1. L \in Nat /\ RollingWindow \in Nat \ {0} /\ L <= RollingWindow
  BY Currents
<1>2. ASSUME L = RollingWindow
      PROVE  p \in Seq(Nat) /\ Len(p) = L /\ p[L] = ma /\ \A i \in 1..(L - 1) : p[i] = w[i + 1]
  <2> DEFINE t == Tail(w)
  <2>1. w # <<>>
    BY <1>1, <1>2
  <2>2. t \in Seq(Nat) /\ Len(t) = L - 1 /\ \A i \in 1..(L - 1) : t[i] = w[i + 1]
    BY <1>1, <2>1
  <2>3. p = Append(t, ma)
    BY <1>2 DEF Pushed
  <2> HIDE DEF t, p, L
  <2>4. p \in Seq(Nat) /\ Len(p) = L - 1 + 1 /\ p[L - 1 + 1] = ma /\ \A i \in 1..(L - 1) : p[i] = t[i]
    BY <2>2, <2>3
  <2>5. L - 1 + 1 = L
    BY <1>1
  <2> QED
    BY <2>2, <2>4, <2>5
<1>3. ASSUME L # RollingWindow
      PROVE  p \in Seq(Nat) /\ Len(p) = L + 1 /\ p[L + 1] = ma /\ \A i \in 1..L : p[i] = w[i]
  <2>1. p = Append(w, ma)
    BY <1>3 DEF Pushed
  <2> HIDE DEF p
  <2> QED
    BY <2>1
<1> HIDE DEF p
<1>4. p \in Seq(Nat) /\ Len(p) \in Nat
  BY <1>2, <1>3
<1>5. Rolling(p) \in Nat \cup {Blank}
  <2>1. p \in [1..Len(p) -> Nat]
    BY <1>4
  <2>2. IsFiniteSet(1..Len(p))
    BY <1>4, FS_Interval
  <2> QED
    BY <2>1, <2>2, SumType DEF Rolling
<1>6. Len(p) \in Nat \ {0} /\ Len(p) <= RollingWindow /\ p[Len(p)] = ma
  <2> HIDE DEF L
  <2> QED
    BY <1>1, <1>2, <1>3
<1> QED
  BY <1>2, <1>3, <1>4, <1>5, <1>6 DEF p

\* Where the newest window stands in the rows.
LEMMA WindowPushed ==
  ASSUME LoggedInv, NEW ma \in Readings, window' = Pushed(window, ma),
         NEW row \in Row, row.ma = ma, csvRows' = Append(csvRows, row)
  PROVE  WindowInv'
<1>0. PICK n : n = Len(csvRows)
  OBVIOUS
<1> DEFINE L == Len(window)
           M == Len(window')
           N == Len(csvRows')
<1>1. LoggerTypeOK /\ WindowInv
  BY DEF LoggedInv
<1>2. /\ window \in Seq(Nat) /\ L \in Nat /\ L <= RollingWindow /\ ma \in Nat
      /\ RollingWindow \in Nat \ {0}
  BY <1>1, Currents DEF LoggerTypeOK
<1>3. /\ M \in Nat \ {0} /\ window'[M] = ma
      /\ L = RollingWindow => M = L /\ \A i \in 1..(L - 1) : window'[i] = window[i + 1]
      /\ L # RollingWindow => M = L + 1 /\ \A i \in 1..L : window'[i] = window[i]
  BY SMTT(60), <1>2, PushedIs
<1>4. /\ N = Len(csvRows') /\ n \in Nat /\ N = n + 1 /\ csvRows'[n + 1] = row
      /\ \A k \in 1..n : csvRows'[k] = csvRows[k]
      /\ GoodRows(Len(csvRows))' = GoodRows(n) \cup {n + 1}
  <2>1. row.ma # Failed
    BY <1>2 DEF Failed
  <2>2. /\ n \in Nat /\ N = n + 1 /\ csvRows'[n + 1] = row
        /\ \A k \in 1..n : csvRows'[k] = csvRows[k]
    BY <1>0, RowWritten
  <2>3. GoodRows(n + 1)' = IF row.ma = Failed THEN GoodRows(n) ELSE GoodRows(n) \cup {n + 1}
    BY <1>0, RowWritten
  <2> QED
    BY <2>1, <2>2, <2>3 DEF GoodRows
<1>5. PICK pos : InWindow(pos)
  BY <1>1 DEF WindowInv
<1>6. /\ pos \in [1..L -> 1..n]
      /\ \A i, j \in 1..L : i < j => pos[i] < pos[j]
      /\ \A i \in 1..L : csvRows[pos[i]].ma = window[i]
      /\ \A j \in GoodRows(n) : (\E i \in 1..L : pos[i] = j) \/ (L = RollingWindow /\ j < pos[1])
  BY <1>0, <1>5 DEF InWindow
<1> DEFINE from(i) == IF L = RollingWindow THEN i + 1 ELSE i
           next == [i \in 1..M |-> IF i = M THEN n + 1 ELSE pos[from(i)]]
<1> HIDE DEF L, M, N
<1>7. \A i \in 1..M : i # M =>
        /\ from(i) \in 1..L /\ next[i] = pos[from(i)] /\ next[i] \in 1..n
        /\ window'[i] = window[from(i)]
  <2> SUFFICES ASSUME NEW i \in 1..M, i # M
               PROVE  /\ from(i) \in 1..L /\ next[i] = pos[from(i)] /\ next[i] \in 1..n
                      /\ window'[i] = window[from(i)]
    OBVIOUS
  <2>1. next[i] = pos[from(i)]
    OBVIOUS
  <2> HIDE DEF next
  <2>2. from(i) \in 1..L /\ window'[i] = window[from(i)]
    <3>1. CASE L = RollingWindow
      BY <1>2, <1>3, <3>1
    <3>2. CASE L # RollingWindow
      BY <1>2, <1>3, <3>2
    <3> QED
      BY <3>1, <3>2
  <2> HIDE DEF from
  <2>3. pos[from(i)] \in 1..n
    BY <1>6, <2>2
  <2> QED
    BY <2>1, <2>2, <2>3
<1>8. M \in 1..M /\ next[M] = n + 1
  BY <1>3
<1>9. next \in [1..M -> 1..N]
  <2> SUFFICES ASSUME NEW i \in 1..M PROVE next[i] \in 1..N
    BY DEF next
  <2> QED
    BY <1>4, <1>7, <1>8
<1> HIDE DEF next
<1>10. ASSUME NEW i \in 1..M, NEW j \in 1..M, i < j PROVE next[i] < next[j]
  <2>0. i # M
    BY <1>3, <1>10
  <2>1. next[i] = pos[from(i)] /\ next[i] \in 1..n /\ from(i) \in 1..L
    <3> HIDE DEF from
    <3> QED
      BY <1>7, <2>0
  <2>2. CASE j = M
    BY <1>4, <1>8, <2>1, <2>2
  <2>3. CASE j # M
    <3>1. next[j] = pos[from(j)] /\ from(j) \in 1..L
      BY <1>7, <2>3
    <3>2. from(i) < from(j)
      BY <1>10
    <3> QED
      BY <1>6, <2>1, <3>1, <3>2
  <2> QED
    BY <2>2, <2>3
<1>11. ASSUME NEW i \in 1..M PROVE csvRows'[next[i]].ma = window'[i]
  <2>1. CASE i = M
    BY <1>3, <1>4, <1>8, <2>1
  <2>2. CASE i # M
    <3>1. from(i) \in 1..L /\ next[i] = pos[from(i)] /\ next[i] \in 1..n /\ window'[i] = window[from(i)]
      BY <1>7, <2>2
    <3> QED
      BY <1>4, <1>6, <3>1
  <2> QED
    BY <2>1, <2>2
<1>12. ASSUME NEW j \in GoodRows(Len(csvRows))'
       PROVE  (\E i \in 1..M : next[i] = j) \/ (M = RollingWindow /\ j < next[1])
  <2>1. CASE j = n + 1
    BY <1>8, <2>1
  <2>2. CASE j \in GoodRows(n) /\ \E i \in 1..L : pos[i] = j
    <3>1. PICK i \in 1..L : pos[i] = j
      BY <2>2
    <3>2. CASE L # RollingWindow
      <4>1. i \in 1..M /\ i # M
        BY <1>2, <1>3, <3>2
      <4> QED
        BY <1>7, <3>1, <3>2, <4>1
    <3>3. CASE L = RollingWindow /\ i # 1
      <4>1. i - 1 \in 1..M /\ i - 1 # M /\ from(i - 1) = i
        BY <1>2, <1>3, <3>3
      <4> QED
        BY <1>7, <3>1, <4>1
    <3>4. CASE L = RollingWindow /\ i = 1
      <4>1. M = L /\ 1 \in 1..M
        BY <1>3, <3>4
      <4>2. CASE M = 1
        <5>1. next[1] = n + 1 /\ j \in 1..n
          BY <1>6, <1>8, <3>1, <4>2
        <5> QED
          BY <1>4, <3>4, <4>1, <5>1
      <4>3. CASE M # 1
        <5>1. next[1] = pos[2] /\ 2 \in 1..L
          BY <1>2, <1>7, <3>4, <4>1, <4>3
        <5>2. pos[1] < pos[2]
          BY <1>6, <3>4, <5>1
        <5> QED
          BY <3>1, <3>4, <4>1, <5>1, <5>2
      <4> QED
        BY <4>2, <4>3
    <3> QED
      BY <3>2, <3>3, <3>4
  <2>3. CASE j \in GoodRows(n) /\ L = RollingWindow /\ j < pos[1]
    <3>1. M = L /\ 1 \in 1..M /\ 1 \in 1..L /\ pos[1] \in 1..n /\ j \in 1..n
      BY <1>2, <1>3, <1>6, <2>3 DEF GoodRows
    <3>2. pos[1] < next[1]
      <4>1. CASE M = 1
        BY <1>4, <1>8, <3>1, <4>1
      <4>2. CASE M # 1
        <5>1. next[1] = pos[2] /\ 2 \in 1..L
          BY <1>2, <1>7, <2>3, <3>1, <4>2
        <5> QED
          BY <1>6, <3>1, <5>1
      <4> QED
        BY <4>1, <4>2
    <3>3. next[1] \in 1..N
      BY <1>9, <3>1
    <3> QED
      BY <1>4, <2>3, <3>1, <3>2, <3>3
  <2> QED
    BY <1>4, <1>6, <2>1, <2>2, <2>3
<1>13. PICK then : then = next
  OBVIOUS
<1>14. InWindow(then)'
  BY <1>9, <1>10, <1>11, <1>12, <1>13 DEF InWindow, N, M
<1> QED
  BY <1>14 DEF WindowInv

\* Before the first sample there is nothing to be wrong.
LEMMA LoggerBegins == LoggerInit => LoggedInv
<1> SUFFICES ASSUME LoggerInit PROVE LoggedInv
  OBVIOUS
<1> USE DEF LoggerInit
<1>1. LoggerTypeOK
  <2>1. <<>> \in Seq(Nat) /\ <<>> \in Seq(Row) /\ Len(<<>>) = 0
    OBVIOUS
  <2>2. NoSummary \in [samples : Int, failures : Int, ended : Int, early : BOOLEAN]
    BY DEF NoSummary
  <2>3. 0 <= RollingWindow
    BY Currents
  <2> QED
    BY <2>1, <2>2, <2>3 DEF LoggerTypeOK
<1>2. Len(window) = 0 /\ Len(csvRows) = 0 /\ GoodRows(0) = {}
  BY DEF GoodRows
<1>3. WindowInv
  <2> DEFINE pos == [i \in 1..0 |-> 1]
  <2>1. pos \in [1..0 -> 1..0]
    OBVIOUS
  <2>2. InWindow(pos)
    BY <1>2, <2>1 DEF InWindow
  <2> QED
    BY <2>2 DEF WindowInv
<1>4. CountInv
  BY <1>2, FS_EmptySet DEF CountInv
<1>5. AverageInv
  BY <1>2 DEF AverageInv
<1> QED
  BY <1>1, <1>3, <1>4, <1>5 DEF LoggedInv, SummaryIsTrue

\* Nothing is said while the logger still runs.
LEMMA NoSummaryYet == LoggedInv /\ LoggerRuns => summary = NoSummary
BY DEF LoggedInv, CountInv, LoggerRuns

\* A good sample keeps the invariant.
LEMMA GoodRowKeeps ==
  ASSUME LoggedInv, NEW ma \in Readings, SampleGood(ma) PROVE LoggedInv'
<1> DEFINE row == [at |-> clock, ma |-> ma, rolling |-> Rolling(Pushed(window, ma))]
<1>0. PICK n : n = Len(csvRows)
  OBVIOUS
<1>1. /\ window' = Pushed(window, ma) /\ csvRows' = Append(csvRows, row)
      /\ samples' = samples + 1 /\ phase' = "wait" /\ phase = "loop"
      /\ UNCHANGED <<clock, stopSignal, failures, summary>>
  BY DEF SampleGood, SampleDue
<1>2. LoggerTypeOK /\ CountInv /\ ma \in Nat /\ ma # Failed
  BY Currents DEF LoggedInv, Failed
<1>3. /\ window' \in Seq(Nat) /\ Len(window') <= RollingWindow
      /\ Rolling(Pushed(window, ma)) \in Nat \cup {Blank}
  BY <1>1, <1>2, PushedIs DEF LoggerTypeOK
<1>4. row \in Row /\ row.ma = ma /\ row.rolling = Rolling(Pushed(window, ma))
  BY <1>2, <1>3 DEF LoggerTypeOK, Row
<1> HIDE DEF row
<1>5. /\ n \in Nat /\ Len(csvRows') = n + 1 /\ csvRows' \in Seq(Row)
      /\ csvRows'[n + 1] = row /\ \A k \in 1..n : RowIsRight(k)'
      /\ GoodRows(n + 1)' = GoodRows(n) \cup {n + 1}
      /\ Cardinality(GoodRows(n)) \in Nat
      /\ Cardinality(GoodRows(n) \cup {n + 1}) = Cardinality(GoodRows(n)) + 1
  BY <1>0, <1>1, <1>2, <1>4, RowWritten
<1>6. LoggerTypeOK'
  BY <1>1, <1>2, <1>3, <1>5 DEF LoggerTypeOK
<1>7. WindowInv'
  BY <1>1, <1>4, WindowPushed
<1>8. summary = NoSummary
  BY <1>1, NoSummaryYet DEF LoggerRuns
<1>9. CountInv'
  <2>1. samples = Cardinality(GoodRows(n)) /\ failures = n - samples /\ samples \in Nat
    BY <1>0, <1>2 DEF CountInv, LoggerTypeOK
  <2>2. GoodRows(Len(csvRows))' = GoodRows(n) \cup {n + 1}
    BY <1>5 DEF GoodRows
  <2>3. samples' = Cardinality(GoodRows(Len(csvRows))')
    BY <1>1, <1>5, <2>1, <2>2
  <2>4. failures' = Len(csvRows') - samples'
    BY <1>1, <1>5, <2>1
  <2> QED
    BY <1>1, <1>8, <2>3, <2>4 DEF CountInv
<1>10. SummaryIsTrue'
  BY <1>1, <1>8 DEF SummaryIsTrue, NoSummary
<1>11. AverageInv'
  <2>1. Len(csvRows') - 1 = n /\ csvRows'[Len(csvRows')].rolling = Rolling(window')
    BY <1>1, <1>4, <1>5
  <2> QED
    BY <1>5, <2>1 DEF AverageInv
<1> QED
  BY <1>6, <1>7, <1>9, <1>10, <1>11 DEF LoggedInv

\* So does a failed one, which the window does not see.
LEMMA FailedRowKeeps == ASSUME LoggedInv, SampleFailed PROVE LoggedInv'
<1> DEFINE row == [at |-> clock, ma |-> Failed, rolling |-> Blank]
<1>0. PICK n : n = Len(csvRows)
  OBVIOUS
<1>1. /\ csvRows' = Append(csvRows, row)
      /\ failures' = failures + 1 /\ phase' = "wait" /\ phase = "loop"
      /\ UNCHANGED <<clock, stopSignal, window, samples, summary>>
  BY DEF SampleFailed, SampleDue
<1>2. LoggerTypeOK /\ CountInv /\ WindowInv
  BY DEF LoggedInv
<1>4. row \in Row /\ row.ma = Failed
  BY <1>2 DEF LoggerTypeOK, Row
<1> HIDE DEF row
<1>5. /\ n \in Nat /\ Len(csvRows') = n + 1 /\ csvRows' \in Seq(Row)
      /\ csvRows'[n + 1] = row /\ \A k \in 1..n : RowIsRight(k)' /\ csvRows'[k] = csvRows[k]
      /\ GoodRows(n + 1)' = GoodRows(n)
  BY <1>0, <1>1, <1>4, RowWritten
<1>6. LoggerTypeOK'
  BY <1>1, <1>2, <1>5 DEF LoggerTypeOK
<1>7. WindowInv'
  <2>1. PICK pos : InWindow(pos)
    BY <1>2 DEF WindowInv
  <2>2. GoodRows(Len(csvRows))' = GoodRows(n)
    BY <1>5 DEF GoodRows
  <2>3. Len(window) \in Nat
    BY <1>2 DEF LoggerTypeOK
  <2> DEFINE L == Len(window)
  <2>4. /\ pos \in [1..L -> 1..n] /\ \A i, j \in 1..L : i < j => pos[i] < pos[j]
        /\ \A i \in 1..L : csvRows[pos[i]].ma = window[i]
        /\ \A j \in GoodRows(n) : (\E i \in 1..L : pos[i] = j) \/ (L = RollingWindow /\ j < pos[1])
    BY <1>0, <2>1 DEF InWindow
  <2> HIDE DEF L
  <2>5. pos \in [1..L -> 1..(n + 1)]
    BY <1>5, <2>4
  <2>6. \A i \in 1..L : csvRows'[pos[i]].ma = window[i]
    BY <1>5, <2>4
  <2>7. InWindow(pos)'
    BY <1>1, <1>5, <2>2, <2>4, <2>5, <2>6 DEF InWindow, L
  <2> QED
    BY <2>7 DEF WindowInv
<1>8. summary = NoSummary
  BY <1>1, NoSummaryYet DEF LoggerRuns
<1>9. CountInv'
  <2>1. samples = Cardinality(GoodRows(n)) /\ failures = n - samples /\ samples \in Nat
    BY <1>0, <1>2 DEF CountInv, LoggerTypeOK
  <2>2. GoodRows(Len(csvRows))' = GoodRows(n)
    BY <1>5 DEF GoodRows
  <2>4. failures' = Len(csvRows') - samples'
    BY <1>1, <1>5, <2>1
  <2> QED
    BY <1>1, <1>8, <2>1, <2>2, <2>4 DEF CountInv
<1>10. SummaryIsTrue'
  BY <1>1, <1>8 DEF SummaryIsTrue, NoSummary
<1>11. AverageInv'
  <2>1. Len(csvRows') - 1 = n /\ csvRows'[Len(csvRows')].ma = Failed
    BY <1>1, <1>4, <1>5
  <2> QED
    BY <1>5, <2>1 DEF AverageInv
<1> QED
  BY <1>6, <1>7, <1>9, <1>10, <1>11 DEF LoggedInv

\* A step that leaves rows and counts alone.
LEMMA RowsKept ==
  ASSUME LoggedInv, UNCHANGED <<window, csvRows, samples, failures>>
  PROVE  /\ WindowInv' /\ AverageInv' /\ GoodRows(Len(csvRows))' = GoodRows(Len(csvRows))
<1>1. WindowInv /\ AverageInv
  BY DEF LoggedInv
<1>2. WindowInv'
  BY <1>1 DEF WindowInv, InWindow, GoodRows
<1>3. AverageInv'
  BY ZenonT(60), <1>1 DEF AverageInv, RowIsRight, AreLast, GoodRows
<1>4. GoodRows(Len(csvRows))' = GoodRows(Len(csvRows))
  BY DEF GoodRows
<1> QED
  BY <1>2, <1>3, <1>4

\* The summary that is written at the end is of the rows as they are.
LEMMA FinishKeeps == ASSUME LoggedInv, Finish PROVE LoggedInv'
<1>1. LoggerTypeOK /\ CountInv
  BY DEF LoggedInv
<1>2. /\ phase' = "done" /\ UNCHANGED <<clock, stopSignal, window, csvRows, samples, failures>>
      /\ phase = "loop" /\ (stopSignal \/ Elapsed)
  BY DEF Finish
<1>3. /\ WindowInv' /\ AverageInv' /\ GoodRows(Len(csvRows))' = GoodRows(Len(csvRows))
  BY <1>2, RowsKept
<1>4. CountInv'
  BY <1>1, <1>2, <1>3 DEF CountInv
<1>5. summary = NoSummary
  BY <1>2, NoSummaryYet DEF LoggerRuns
<1>6. CASE summary' = summary
  BY <1>1, <1>2, <1>3, <1>4, <1>5, <1>6 DEF LoggedInv, LoggerTypeOK, SummaryIsTrue
<1>7. CASE summary' = [samples |-> samples, failures |-> failures, ended |-> clock,
                       early |-> stopSignal /\ Duration > 0 /\ clock < Duration]
  <2>1. /\ summary'.samples = samples /\ summary'.failures = failures /\ summary'.ended = clock
        /\ summary'.early <=> stopSignal /\ Duration > 0 /\ clock < Duration
    BY <1>7
  <2>2. LoggerTypeOK'
    <3> DEFINE cut == stopSignal /\ Duration > 0 /\ clock < Duration
    <3>1. cut \in BOOLEAN
      BY Zenon
    <3> HIDE DEF cut
    <3>2. samples \in Int /\ failures \in Int /\ clock \in Int
      BY <1>1 DEF LoggerTypeOK
    <3>3. summary' \in [samples : Int, failures : Int, ended : Int, early : BOOLEAN]
      BY <1>7, <3>1, <3>2 DEF cut
    <3> QED
      BY <1>1, <1>2, <3>3 DEF LoggerTypeOK
  <2>3. clock \in Nat /\ Duration \in Nat
    BY <1>1, Currents DEF LoggerTypeOK
  <2>4. Duration > 0 => (summary'.early <=> summary'.ended < Duration)
    BY <1>2, <2>1, <2>3 DEF Elapsed
  <2>5. SummaryIsTrue'
    BY <1>1, <1>2, <1>3, <2>1, <2>4 DEF CountInv, SummaryIsTrue
  <2> QED
    BY <1>3, <1>4, <2>2, <2>5 DEF LoggedInv
<1> QED
  BY <1>2, <1>6, <1>7 DEF Finish

\* Every step keeps the invariant.
LEMMA LoggerStep == LoggedInv /\ [LoggerNext]_loggerVars => LoggedInv'
<1> SUFFICES ASSUME LoggedInv, [LoggerNext]_loggerVars PROVE LoggedInv'
  OBVIOUS
<1>1. ASSUME NEW ma \in Readings, SampleGood(ma) PROVE LoggedInv'
  BY <1>1, GoodRowKeeps
<1>2. CASE SampleFailed
  BY <1>2, FailedRowKeeps
<1>3. CASE Finish
  BY <1>3, FinishKeeps
<1>4. ASSUME LoggerRuns, UNCHANGED <<window, csvRows, samples, failures, summary>>,
             LoggerTypeOK'
      PROVE  LoggedInv'
  <2>1. /\ WindowInv' /\ AverageInv' /\ GoodRows(Len(csvRows))' = GoodRows(Len(csvRows))
    BY <1>4, RowsKept
  <2>2. summary = NoSummary /\ CountInv
    BY <1>4, NoSummaryYet DEF LoggedInv
  <2> QED
    BY <1>4, <2>1, <2>2 DEF LoggedInv, CountInv, SummaryIsTrue
<1> HIDE DEF LoggedInv
<1>5. LoggerTypeOK
  BY DEF LoggedInv
<1>6. CASE LoggerTick
  BY <1>4, <1>5, <1>6 DEF LoggerTick, LoggerTypeOK
<1>7. CASE LoggerSignal
  BY <1>4, <1>5, <1>7 DEF LoggerSignal, LoggerTypeOK
<1>8. CASE WaitOver
  BY <1>4, <1>5, <1>8 DEF WaitOver, LoggerTypeOK, LoggerRuns
<1>9. CASE WriteRaises
  BY <1>4, <1>5, <1>9 DEF WriteRaises, SampleDue, LoggerTypeOK, LoggerRuns
<1>10. CASE LoggerKilled
  BY <1>4, <1>5, <1>10 DEF LoggerKilled, LoggerTypeOK
<1>11. CASE UNCHANGED loggerVars
  <2>1. UNCHANGED <<phase, clock, stopSignal, window, csvRows, samples, failures, summary>>
    BY <1>11 DEF loggerVars
  <2>2. /\ WindowInv' /\ AverageInv' /\ GoodRows(Len(csvRows))' = GoodRows(Len(csvRows))
    BY <2>1, RowsKept
  <2>3. LoggerTypeOK'
    BY <1>5, <2>1 DEF LoggerTypeOK
  <2>4. CountInv /\ SummaryIsTrue
    BY DEF LoggedInv
  <2>5. CountInv' /\ SummaryIsTrue'
    BY <2>1, <2>2, <2>4 DEF CountInv, SummaryIsTrue
  <2> QED
    BY <2>2, <2>3, <2>5 DEF LoggedInv
<1> QED
  BY <1>1, <1>2, <1>3, <1>6, <1>7, <1>8, <1>9, <1>10, <1>11 DEF LoggerNext

\* What the sampler keeps true.
LEMMA LoggerInv == LoggerSpec => []LoggedInv
<1> QED
  BY LoggerBegins, LoggerStep, PTL DEF LoggerSpec

\* The summary that the sampler leaves, which the STOP reply passes on, counts the
\* good and the failed rows of its CSV and calls a run early if and only if it was;
\* and the average in a row is over the last RollingWindow good readings, whatever
\* failed between them (current_logger.py:197-234, 355-379).
THEOREM LoggedIsTrueHolds == LoggerSpec => []LoggedIsTrue
<1>1. LoggedInv => LoggedIsTrue
  <2> SUFFICES ASSUME LoggedInv PROVE LoggedIsTrue
    OBVIOUS
  <2>1. SummaryIsTrue /\ csvRows \in Seq(Row)
    BY DEF LoggedInv, LoggerTypeOK
  <2>2. \A k \in 1..Len(csvRows) : RowIsRight(k)
    BY AveragesRight
  <2>3. DOMAIN csvRows = 1..Len(csvRows)
    BY <2>1
  <2>4. RollingIsLast
    BY <2>2, <2>3 DEF RollingIsLast, RowIsRight
  <2> QED
    BY <2>1, <2>4 DEF LoggedIsTrue
<1> QED
  BY <1>1, LoggerInv, PTL

\* The sampler's variables keep their types (current_logger.py:279-424).
THEOREM LoggerTypes == LoggerSpec => []LoggerTypeOK
<1>1. LoggedInv => LoggerTypeOK
  BY DEF LoggedInv
<1> QED
  BY <1>1, LoggerInv, PTL

-----------------------------------------------------------------------------
(* The requests. *)

\* What the validators on the two sides look up: the receiver's config has the
\* coordinator's energies, but for the retired one, and its thicknesses.
SameLists ==
  /\ BeamEnergies \ {5300} \subseteq ReceiverEnergies
  /\ Thicknesses \subseteq ReceiverThicknesses

Values == [type : Types, n : Int]

FormSet ==
  [command : {"START_TEST", "BASELINE_TEST"}, gui : BOOLEAN, energy : Values,
   energyMode : Modes \cup {"other"},
   material : Materials \cup {"own", "blank", "no_text"}, thickness : Values,
   mode : Modes \cup {"other"}, reference : Values, actual : Values,
   configurationId : {"id", "empty", "no_text"},
   campaignMetadata : {"dict", "none", "other"}, duration : Values]

\* The values of the forms' fields are values.
LEMMA ValueTypes ==
  /\ NumberValues(EnergyValues) \subseteq Values
  /\ NumberValues(LengthValues) \subseteq Values
  /\ NumberValues(DurationValues) \subseteq Values
  /\ Oddities \subseteq Values
  /\ \A type \in Types : \A n \in Int : Value(type, n) \in Values
BY RequestsAssumption
   DEF NumberValues, Oddities, Values, Value, Nothing, Types

\* The form that the others are made from.
LEMMA PlainForm ==
  /\ Plain \in FormSet /\ ~Plain.gui
  /\ Plain.command = "START_TEST" /\ Plain.energyMode = "preset" /\ Plain.mode = "preset"
  /\ Plain.duration = Value("int", 10000)
BY ValueTypes DEF Plain, FormSet, Modes, Materials, Types, Nothing

\* Offering a form does not change what it is.
LEMMA GuiForm == \A f \in FormSet : [f EXCEPT !.gui = TRUE] \in FormSet
BY DEF FormSet

\* A preset shield has a physical thickness.
LEMMA PhysicalIs ==
  ASSUME NEW material \in Materials \ {"Bare"}, NEW t \in Thicknesses \ {0}
  PROVE  Physical(material, t) \in Int /\ Physical(material, t) > 0
BY DEF Physical, Materials, Thicknesses

\* What create makes of a START's form.
Filled(f) ==
  [f EXCEPT !.reference = IF f.mode = "preset" THEN Or(@, f.thickness) ELSE @,
            !.actual = Or(@, f.thickness),
            !.campaignMetadata = "dict"]

\* The fields of a request that create has filled.
LEMMA FilledFields ==
  ASSUME NEW f \in FormSet
  PROVE  /\ Filled(f).command = f.command /\ Filled(f).energy = f.energy
         /\ Filled(f).energyMode = f.energyMode /\ Filled(f).material = f.material
         /\ Filled(f).thickness = f.thickness /\ Filled(f).mode = f.mode
         /\ f.mode = "preset" => Filled(f).reference = Or(f.reference, f.thickness)
         /\ Filled(f).actual = Or(f.actual, f.thickness)
         /\ Filled(f).configurationId = f.configurationId
         /\ Filled(f).campaignMetadata = "dict" /\ Filled(f).duration = f.duration
BY DEF Filled, FormSet

\* The validators agree about a START.
LEMMA StartAgrees ==
  ASSUME SameLists, NEW f \in FormSet, f.command = "START_TEST", CreateStart(f) # Refused
  PROVE  /\ CreateStart(f) = Filled(f)
         /\ Accepted(Filled(f)) \/ Retired(Filled(f))
<1> DEFINE r == Filled(f)
<1>1. /\ EnergyOk(f) /\ f.mode \in Modes /\ f.material # "no_text"
      /\ f.mode = "preset" => PresetOk(f)
      /\ f.mode = "custom" => CustomOk(f)
      /\ ExtrasOk(f) /\ DurationOk(f)
      /\ CreateStart(f) = r
  BY DEF CreateStart, Filled
<1>2. /\ r.command = "START_TEST" /\ r.energy = f.energy
      /\ r.energyMode = f.energyMode /\ r.material = f.material
      /\ r.thickness = f.thickness /\ r.mode = f.mode
      /\ f.mode = "preset" => r.reference = Or(f.reference, f.thickness)
      /\ r.actual = Or(f.actual, f.thickness)
      /\ r.configurationId = f.configurationId
      /\ r.campaignMetadata = "dict" /\ r.duration = f.duration
  BY FilledFields
<1> HIDE DEF r
<1>3. IsNumber(r.duration) /\ 0 < r.duration.n /\ r.duration.n <= MaxDuration
  BY <1>1, <1>2 DEF DurationOk
<1>4. r.energyMode \in Modes /\ r.mode \in Modes
  BY <1>1, <1>2 DEF EnergyOk
<1>5. r.energyMode = "preset" => Among(r.energy, ReceiverEnergies) \/ Retired(r)
  BY <1>1, <1>2 DEF EnergyOk, Among, Retired, SameLists
<1>6. r.energyMode = "custom" => Validated(r.energy, FALSE)
  BY <1>1, <1>2 DEF EnergyOk
<1>7. ShieldAccepted(r)
  <2>1. CASE r.mode = "preset"
    <3>1. PresetOk(f)
      BY <1>1, <1>2, <2>1
    <3>2. r.material \in Materials /\ Among(r.thickness, ReceiverThicknesses)
      BY <1>2, <3>1 DEF PresetOk, Among, SameLists
    <3>3. BareHasNone(r.material, r.thickness) /\ Equal(r.reference, r.thickness)
          /\ Validated(r.actual, r.material = "Bare")
      BY <1>2, <2>1, <3>1 DEF PresetOk
    <3> QED
      BY <2>1, <3>2, <3>3 DEF ShieldAccepted
  <2>2. CASE r.mode = "custom"
    <3>1. CustomOk(f)
      BY <1>1, <1>2, <2>2
    <3> QED
      BY <1>1, <1>2, <2>2, <3>1 DEF CustomOk, ShieldAccepted
  <2> QED
    BY <1>4, <2>1, <2>2 DEF Modes
<1>8. r.configurationId # "no_text" /\ r.campaignMetadata = "dict"
  BY <1>1, <1>2 DEF ExtrasOk
<1>9. Accepted(r) \/ Retired(r)
  <2>1. SUFFICES ASSUME ~Retired(r) PROVE Accepted(r)
    OBVIOUS
  <2>2. r.energyMode = "preset" => Among(r.energy, ReceiverEnergies)
    BY <1>5, <2>1
  <2> QED
    BY <1>3, <1>4, <1>6, <1>7, <1>8, <2>2 DEF Accepted
<1> USE DEF r
<1> QED
  BY <1>1, <1>9

\* And about a baseline.
LEMMA BaselineAgrees ==
  ASSUME NEW f \in FormSet, f.command = "BASELINE_TEST", CreateBaseline(f) # Refused
  PROVE  /\ CreateBaseline(f).command = "BASELINE_TEST"
         /\ Accepted(CreateBaseline(f)) \/ TooShort(CreateBaseline(f))
<1> DEFINE n == f.duration.n
           q == Round(n)
           r == [f EXCEPT !.duration = Value("int", 100 * q)]
<1>1. n \in Int /\ 0 < n /\ n <= MaxDuration /\ CreateBaseline(f) = r
  BY DEF CreateBaseline, DurationOk, FormSet, Values
<1> HIDE DEF n
<1>2. q \in Int /\ 0 <= q /\ q <= 86400
  BY <1>1 DEF Round, MaxDuration
<1> HIDE DEF q
<1>3. /\ r.command = "BASELINE_TEST" /\ r.duration.type = "int" /\ r.duration.n = 100 * q
  BY DEF FormSet, Value
<1> HIDE DEF r
<1>4. q = 0 => TooShort(r)
  BY <1>3 DEF TooShort
<1>5. q # 0 => Accepted(r)
  BY <1>2, <1>3 DEF Accepted, IsNumber, MaxDuration
<1> QED
  BY <1>1, <1>3, <1>4, <1>5

\* What the GUI offers is let through and accepted.
LEMMA GuiPresetAgrees ==
  ASSUME NEW e \in CampaignEnergies, NEW name \in Materials \ {"Bare"},
         NEW t \in Thicknesses \ {0}
  PROVE  LET f == GuiPreset(e, name, t)
         IN f \in FormSet /\ Create(f) # Refused /\ (SameLists => Accepted(Create(f)))
<1> DEFINE f == GuiPreset(e, name, t)
           actual == Value("float", Physical(name, t))
<1>1. /\ actual.type = "float" /\ actual.n > 0 /\ actual \in Values /\ actual # Nothing
      /\ Value("int", t) \in Values /\ Value("int", t) # Nothing
      /\ Value("int", e) \in Values
  BY PhysicalIs DEF Values, Value, Nothing, Types, Thicknesses, CampaignEnergies
<1> HIDE DEF actual
<1>2. /\ f \in FormSet /\ f.command = "START_TEST" /\ f.energy = Value("int", e)
      /\ f.energyMode = "preset" /\ f.material = name /\ f.thickness = Value("int", t)
      /\ f.mode = "preset" /\ f.reference = Value("int", t) /\ f.actual = actual
      /\ f.configurationId = "id" /\ f.campaignMetadata = "dict"
      /\ f.duration = Value("int", 10000)
  BY <1>1, ValueTypes DEF GuiPreset, FormSet, Modes, Types, actual
<1> HIDE DEF f
<1>3. EnergyOk(f) /\ f.energy.n # 5300
  BY <1>2 DEF EnergyOk, Modes, Value, CampaignEnergies, BeamEnergies
<1>4. PresetOk(f)
  <2>1. Or(f.reference, f.thickness) = f.thickness /\ Or(f.actual, f.thickness) = actual
    BY <1>1, <1>2 DEF Or
  <2>2. f.thickness.type = "int" /\ f.thickness.n = t
    BY <1>2 DEF Value
  <2>3. f.material \in Materials \ {"Bare"} /\ t \in Thicknesses \ {0}
    BY <1>2
  <2>4. BareHasNone(f.material, f.thickness)
    BY <2>2, <2>3 DEF BareHasNone, Among
  <2>5. Equal(f.thickness, f.thickness)
    BY <2>2 DEF Equal
  <2>6. IsNumber(actual) /\ actual.n >= 0 /\ actual.n > 0
    BY <1>1 DEF IsNumber, Values
  <2> QED
    BY <2>1, <2>2, <2>3, <2>4, <2>5, <2>6 DEF PresetOk, Validated
<1>5. ExtrasOk(f) /\ DurationOk(f)
  BY <1>2 DEF ExtrasOk, DurationOk, Value, IsNumber, MaxDuration
<1>6. f.material # "no_text" /\ f.mode \in Modes
  BY <1>2 DEF Materials, Modes
<1>7. Create(f) = Filled(f)
  BY <1>2, <1>3, <1>4, <1>5, <1>6 DEF Create, CreateStart, Filled
<1>8. Filled(f) # Refused /\ Filled(f).command = "START_TEST" /\ Filled(f).energy.n # 5300
  BY <1>2, <1>3, FilledFields DEF Refused
<1>9. SameLists => Accepted(Filled(f))
  BY <1>2, <1>7, <1>8, StartAgrees DEF Create, Retired
<1> USE DEF f
<1> QED
  BY <1>2, <1>7, <1>8, <1>9

\* The GUI's own energies and shields pass both validators.
LEMMA GuiCustomAgrees ==
  ASSUME NEW m \in Modes
  PROVE  LET f == GuiCustom(m)
         IN f \in FormSet /\ Create(f) # Refused /\ (SameLists => Accepted(Create(f)))
<1> DEFINE f == GuiCustom(m)
           thickness == IF m = "preset" THEN Value("int", 0) ELSE Value("float", 725)
           reference == IF m = "preset" THEN Value("int", 0) ELSE Nothing
           actual == IF m = "preset" THEN Value("float", 0) ELSE Value("float", 725)
           material == IF m = "preset" THEN "Bare" ELSE "own"
<1>1. /\ thickness \in Values /\ reference \in Values /\ actual \in Values
      /\ thickness # Nothing /\ actual # Nothing
      /\ Value("float", 5550) \in Values
      /\ material \in {"Bare", "own"} /\ (m = "preset" <=> material = "Bare")
      /\ m \in {"preset", "custom"}
  BY DEF Values, Value, Nothing, Types, Modes
<1> HIDE DEF thickness, reference, actual, material
<1>2. /\ f \in FormSet /\ f.command = "START_TEST" /\ f.energy = Value("float", 5550)
      /\ f.energyMode = "custom" /\ f.material = material /\ f.thickness = thickness
      /\ f.mode = m /\ f.reference = reference /\ f.actual = actual
      /\ f.configurationId = "id" /\ f.campaignMetadata = "dict"
      /\ f.duration = Value("int", 10000)
  <2>1. f = [command |-> "START_TEST", gui |-> TRUE,
             energy |-> Value("float", 5550), energyMode |-> "custom",
             material |-> material, thickness |-> thickness, mode |-> m,
             reference |-> reference, actual |-> actual,
             configurationId |-> "id", campaignMetadata |-> "dict",
             duration |-> Value("int", 10000)]
    BY DEF GuiCustom, thickness, reference, actual, material
  <2> HIDE DEF f
  <2> QED
    BY <1>1, <2>1, ValueTypes DEF FormSet, Modes, Materials, Types
<1> HIDE DEF f
<1>3. EnergyOk(f) /\ f.energyMode # "preset"
  BY <1>2 DEF EnergyOk, Modes, Value, Validated, IsNumber
<1>4. f.mode = "preset" => PresetOk(f)
  <2> SUFFICES ASSUME m = "preset" PROVE PresetOk(f)
    BY <1>2
  <2>1. /\ f.thickness = Value("int", 0) /\ f.reference = Value("int", 0)
        /\ f.actual = Value("float", 0) /\ f.material = "Bare"
    BY <1>1, <1>2 DEF thickness, reference, actual
  <2> QED
    BY <2>1 DEF PresetOk, Or, Nothing, Value, Materials, Thicknesses, BareHasNone, Among,
                Equal, Validated, IsNumber
<1>5. f.mode = "custom" => CustomOk(f)
  <2> SUFFICES ASSUME m = "custom" PROVE CustomOk(f)
    BY <1>2
  <2>1. /\ f.thickness = Value("float", 725) /\ f.reference = Nothing
        /\ f.actual = Value("float", 725) /\ f.material = "own"
    BY <1>1, <1>2 DEF thickness, reference, actual
  <2> QED
    BY <2>1 DEF CustomOk, Or, Nothing, Value, Validated, IsNumber
<1>6. ExtrasOk(f) /\ DurationOk(f)
  BY <1>2 DEF ExtrasOk, DurationOk, Value, IsNumber, MaxDuration
<1>7. f.material # "no_text" /\ f.mode \in Modes
  BY <1>1, <1>2
<1>8. Create(f) = Filled(f)
  BY <1>2, <1>3, <1>4, <1>5, <1>6, <1>7 DEF Create, CreateStart, Filled
<1>9. /\ Filled(f) # Refused /\ Filled(f).command = "START_TEST"
      /\ Filled(f).energyMode # "preset"
  BY <1>2, <1>3, FilledFields DEF Refused
<1>10. SameLists => Accepted(Filled(f))
  BY <1>2, <1>8, <1>9, StartAgrees DEF Create, Retired
<1> USE DEF f
<1> QED
  BY <1>2, <1>8, <1>9, <1>10

\* So do its baselines of whole minutes.
LEMMA GuiBaselineAgrees ==
  ASSUME NEW minutes \in {1, 60, 1440}
  PROVE  LET f == GuiBaseline(minutes)
         IN f \in FormSet /\ Create(f) # Refused /\ (SameLists => Accepted(Create(f)))
<1> DEFINE f == GuiBaseline(minutes)
           n == 6000 * minutes
<1>1. n \in Int /\ 0 < n /\ n <= MaxDuration /\ Round(n) \in Int /\ Round(n) > 0
  BY DEF Round, MaxDuration
<1> HIDE DEF n
<1>2. Value("int", n) \in Values /\ Value("int", n).n = n /\ Value("int", n).type = "int"
  BY <1>1 DEF Values, Value, Types
<1>3. f \in FormSet /\ f.command = "BASELINE_TEST" /\ f.duration = Value("int", n)
  <2>1. f = [Plain EXCEPT !.gui = TRUE, !.command = "BASELINE_TEST",
                          !.duration = Value("int", n)]
    BY DEF GuiBaseline, n
  <2> HIDE DEF f
  <2> DEFINE h == [Plain EXCEPT !.gui = TRUE]
             g == [h EXCEPT !.command = "BASELINE_TEST"]
  <2>4. h \in FormSet
    BY GuiForm, PlainForm
  <2> HIDE DEF h
  <2>2. g \in FormSet /\ g.command = "BASELINE_TEST"
    BY <2>4 DEF FormSet
  <2>3. f = [g EXCEPT !.duration = Value("int", n)]
    BY <2>1 DEF h
  <2> HIDE DEF g
  <2> QED
    BY <1>2, <2>2, <2>3 DEF FormSet
<1> HIDE DEF f
<1>4. DurationOk(f)
  BY <1>1, <1>2, <1>3 DEF DurationOk, IsNumber
<1> DEFINE r == [f EXCEPT !.duration = Value("int", 100 * Round(f.duration.n))]
<1>5. Create(f) = r /\ CreateBaseline(f) = r
  BY <1>3, <1>4 DEF Create, CreateBaseline
<1>6. r.command = "BASELINE_TEST" /\ r.duration = Value("int", 100 * Round(n))
  BY <1>2, <1>3 DEF FormSet
<1>7. r.duration.n # 0
  BY <1>1, <1>6 DEF Value
<1>8. r # Refused
  BY <1>6 DEF Refused
<1> HIDE DEF r
<1>9. Accepted(r)
  BY <1>3, <1>5, <1>7, <1>8, BaselineAgrees DEF TooShort
<1> USE DEF f
<1> QED
  BY <1>3, <1>5, <1>8, <1>9

\* What the GUI offers is one of three kinds.
LEMMA GuiFormsAre ==
  ASSUME NEW f \in GuiForms
  PROVE  \/ \E e \in CampaignEnergies, name \in Materials \ {"Bare"}, t \in Thicknesses \ {0} :
              f = GuiPreset(e, name, t)
         \/ \E m \in Modes : f = GuiCustom(m)
         \/ \E minutes \in {1, 60, 1440} : f = GuiBaseline(minutes)
BY DEF GuiForms

\* What the GUI offers passes both validators.
LEMMA GuiFormsAgree ==
  ASSUME NEW f \in GuiForms
  PROVE  f \in FormSet /\ Create(f) # Refused /\ (SameLists => Accepted(Create(f)))
BY GuiFormsAre, GuiPresetAgrees, GuiCustomAgrees, GuiBaselineAgrees

\* A form that a caller fills in.
LEMMA CallerForms ==
  /\ EnergyForms \cup ShieldForms \cup DurationForms \cup ExtraForms \subseteq FormSet
  /\ \A f \in EnergyForms \cup ShieldForms \cup DurationForms \cup ExtraForms : ~f.gui
<1> DEFINE Caller(f) == f \in FormSet /\ ~f.gui
<1>0. Caller(Plain)
  BY PlainForm
<1>1. ASSUME NEW f \in EnergyForms PROVE Caller(f)
  <2>1. PICK e \in NumberValues(EnergyValues) \cup Oddities, m \in Modes \cup {"other"} :
          f = EnergyForm(e, m)
    BY <1>1 DEF EnergyForms
  <2>2. e \in Values
    BY ValueTypes
  <2> QED
    BY <1>0, <2>1, <2>2 DEF EnergyForm, FormSet
<1>2. ASSUME NEW f \in ShieldForms PROVE Caller(f)
  <2>1. PICK m \in Modes \cup {"other"}, name \in {"Bare", "MLC1", "own", "blank", "no_text"},
             t \in NumberValues(LengthValues) \cup {Value("bool", 0), Value("nan", 0)},
             ref \in NumberValues(LengthValues) \cup Oddities,
             act \in NumberValues(LengthValues) \cup Oddities :
          f = ShieldForm(m, name, t, ref, act)
    BY <1>2 DEF ShieldForms
  <2>2. t \in Values /\ ref \in Values /\ act \in Values
        /\ name \in Materials \cup {"own", "blank", "no_text"}
    BY ValueTypes DEF Types, Materials
  <2> DEFINE g == [Plain EXCEPT !.mode = m, !.material = name]
             h == [g EXCEPT !.thickness = t, !.reference = ref]
  <2>3. Caller(g)
    BY <1>0, <2>2 DEF FormSet
  <2>4. f = [h EXCEPT !.actual = act]
    BY <2>1 DEF ShieldForm
  <2> HIDE DEF g
  <2>5. Caller(h)
    BY <2>2, <2>3 DEF FormSet
  <2> HIDE DEF h
  <2> QED
    BY <2>2, <2>4, <2>5 DEF FormSet
<1>3. ASSUME NEW f \in DurationForms PROVE Caller(f)
  <2>1. PICK d \in NumberValues(DurationValues) \cup Oddities,
             c \in {"START_TEST", "BASELINE_TEST"} : f = DurationForm(d, c)
    BY <1>3 DEF DurationForms
  <2>2. d \in Values
    BY ValueTypes
  <2> QED
    BY <1>0, <2>1, <2>2 DEF DurationForm, FormSet
<1>4. ASSUME NEW f \in ExtraForms PROVE Caller(f)
  <2>1. PICK i \in {"id", "empty", "no_text"}, d \in {"dict", "none", "other"}, m \in Modes :
          f = ExtraForm(i, d, m)
    BY <1>4 DEF ExtraForms
  <2> DEFINE g == [Plain EXCEPT !.configurationId = i, !.campaignMetadata = d]
  <2>2. Caller(g)
    BY <1>0 DEF FormSet
  <2>3. f = [g EXCEPT !.mode = m]
    BY <2>1 DEF ExtraForm
  <2> HIDE DEF g
  <2> QED
    BY <2>2, <2>3 DEF FormSet
<1> QED
  BY <1>1, <1>2, <1>3, <1>4

\* Every form is offered by the GUI or has fields of the forms' types.
LEMMA FormsAre == \A f \in Forms : f \in GuiForms \/ (f \in FormSet /\ ~f.gui)
BY CallerForms DEF Forms

\* The keys that a beam run and a baseline set are the same.
LEMMA MetadataIs ==
  ASSUME NEW r, NEW cfg, DOMAIN cfg \subseteq BeamKeys
  PROVE  LET new == Updated(cfg, RunMetadata(r))
         IN  /\ DOMAIN new = BeamKeys
             /\ \A key \in BeamKeys :
                  new[key] = IF r.command = "START_TEST" THEN "beam" ELSE "no_beam"
<1> DEFINE meta == RunMetadata(r)
<1>1. DOMAIN meta = BeamKeys
      /\ \A key \in BeamKeys :
           meta[key] = IF r.command = "START_TEST" THEN "beam" ELSE "no_beam"
  <2>1. BaselineKeys = BeamKeys
    BY DEF BaselineKeys, BeamKeys
  <2> QED
    BY <2>1 DEF RunMetadata
<1> HIDE DEF meta
<1>2. DOMAIN cfg \cup DOMAIN meta = BeamKeys
  BY <1>1
<1>3. Updated(cfg, meta) =
        [key \in BeamKeys |-> IF key \in DOMAIN meta THEN meta[key] ELSE cfg[key]]
  BY <1>2, Zenon DEF Updated
<1>4. /\ DOMAIN Updated(cfg, meta) = BeamKeys
      /\ \A key \in BeamKeys : Updated(cfg, meta)[key] = meta[key]
  BY <1>1, <1>3
<1> QED
  BY <1>1, <1>4 DEF meta

\* The request is what create made of the form, and the verdict is about it.
FormInv ==
  \/ form = NoForm /\ request = Refused /\ verdict = "none"
  \/ form \in Forms /\ request = Create(form)
AnswerInv ==
  /\ verdict \in {"none", "accepted", "rejected"}
  /\ verdict # "none" => request # Refused /\ (verdict = "accepted" <=> Accepted(request))
ConfigInv ==
  /\ DOMAIN config \subseteq BeamKeys
  /\ NothingStale

RequestsInv == FormInv /\ AnswerInv /\ ConfigInv

\* A request asks for what its form asks for.
LEMMA CreateCommand ==
  ASSUME NEW f \in FormSet
  PROVE  Create(f) # Refused => Create(f).command = f.command
<1>1. CASE f.command = "START_TEST"
  BY <1>1, FilledFields DEF Create, CreateStart, Filled
<1>2. CASE f.command = "BASELINE_TEST"
  BY <1>2 DEF Create, CreateBaseline, FormSet
<1> QED
  BY <1>1, <1>2 DEF FormSet

\* Before the first request nothing was asked and nothing answered.
LEMMA RequestsInvInit == RequestsInit => RequestsInv
BY DEF RequestsInit, RequestsInv, FormInv, AnswerInv, ConfigInv, NothingStale

\* Every step keeps the invariant.
LEMMA RequestsInvStep == RequestsInv /\ [RequestsNext]_requestVars => RequestsInv'
<1> SUFFICES ASSUME RequestsInv, [RequestsNext]_requestVars PROVE RequestsInv'
  OBVIOUS
<1>1. ASSUME NEW f \in IF form = NoForm THEN Forms ELSE GuiForms, MakeRequest(f)
      PROVE  RequestsInv'
  <2>1. f \in Forms /\ form' = f /\ request' = Create(f) /\ verdict' = "none"
        /\ config' = config
    BY <1>1 DEF MakeRequest, Forms
  <2>2. FormInv' /\ AnswerInv'
    BY <2>1 DEF FormInv, AnswerInv
  <2>3. ConfigInv'
    BY <2>1 DEF RequestsInv, ConfigInv, NothingStale
  <2> QED
    BY <2>2, <2>3 DEF RequestsInv
<1>2. CASE HandleRequest
  <2>1. /\ verdict = "none" /\ request # Refused /\ UNCHANGED <<form, request>>
        /\ verdict' = IF Accepted(request) THEN "accepted" ELSE "rejected"
        /\ config' = IF Accepted(request) THEN Updated(config, RunMetadata(request))
                     ELSE config
    BY <1>2 DEF HandleRequest
  <2>2. FormInv'
    <3>1. form \in Forms /\ request = Create(form)
      BY <2>1 DEF RequestsInv, FormInv
    <3> QED
      BY <2>1, <3>1 DEF FormInv
  <2>3. AnswerInv'
    <3>1. Accepted(request)' = Accepted(request)
      BY <2>1
    <3> QED
      BY <2>1, <3>1 DEF AnswerInv
  <2>4. ConfigInv'
    <3>1. DOMAIN config \subseteq BeamKeys
      BY DEF RequestsInv, ConfigInv
    <3>2. CASE Accepted(request)
      BY <2>1, <3>1, <3>2, MetadataIs DEF ConfigInv, NothingStale
    <3>3. CASE ~Accepted(request)
      BY <2>1, <3>1, <3>3 DEF ConfigInv, NothingStale
    <3> QED
      BY <3>2, <3>3
  <2> QED
    BY <2>2, <2>3, <2>4 DEF RequestsInv
<1>3. CASE UNCHANGED requestVars
  BY <1>3 DEF requestVars, RequestsInv, FormInv, AnswerInv, ConfigInv, NothingStale
<1> QED
  BY <1>1, <1>2, <1>3 DEF RequestsNext

\* What the two sides keep true.
LEMMA RequestsInvariant == RequestsSpec => []RequestsInv
  BY RequestsInvInit, RequestsInvStep, PTL DEF RequestsSpec

\* After an accepted request every key of a channel's config that describes the
\* beam is this run's: no key of a baseline keeps an earlier beam run's value
\* (control_receiver.py:379-400, 434-492).
THEOREM NothingStaleHolds == RequestsSpec => []NothingStale
<1>1. RequestsInv => NothingStale
  BY DEF RequestsInv, ConfigInv
<1>2. QED
  BY <1>1, RequestsInvariant, PTL

\* The form, the request, the verdict and the config keep their types
\* (request.py:82-317, control_receiver.py:198-374).
THEOREM RequestsTypes == RequestsSpec => []RequestsTypeOK
<1>1. RequestsInv => RequestsTypeOK
  <2> SUFFICES ASSUME RequestsInv PROVE RequestsTypeOK
    OBVIOUS
  <2>1. request # Refused => request.command \in {"START_TEST", "BASELINE_TEST"}
    <3> SUFFICES ASSUME request # Refused
                 PROVE  request.command \in {"START_TEST", "BASELINE_TEST"}
      OBVIOUS
    <3>1. form \in Forms /\ request = Create(form)
      BY DEF RequestsInv, FormInv
    <3>2. form \in FormSet
      BY <3>1, FormsAre, GuiFormsAgree
    <3>3. request.command = form.command
      BY <3>1, <3>2, CreateCommand
    <3> QED
      BY <3>2, <3>3 DEF FormSet
  <2> QED
    BY <2>1 DEF RequestsInv, AnswerInv, ConfigInv, RequestsTypeOK
<1>2. QED
  BY <1>1, RequestsInvariant, PTL

\* When the receiver's lists have what the coordinator's have, what the GUI offers
\* passes both validators, and no request that create lets through is rejected but
\* one of 53 MeV and a baseline that rounds to no time (request.py:82-317,
\* control_receiver.py:82, 198-374).
THEOREM CreatedIsAcceptedHolds ==
  ASSUME SameLists
  PROVE  RequestsSpec => []CreatedIsAccepted
<1>1. RequestsInv => CreatedIsAccepted
  <2> SUFFICES ASSUME RequestsInv PROVE CreatedIsAccepted
    OBVIOUS
  <2>1. CASE form = NoForm /\ request = Refused /\ verdict = "none"
    BY <2>1 DEF NoForm, CreatedIsAccepted
  <2>2. CASE form \in GuiForms /\ request = Create(form)
    <3>1. request # Refused /\ Accepted(request)
      BY <2>2, GuiFormsAgree
    <3>2. verdict # "rejected"
      BY <3>1 DEF RequestsInv, AnswerInv
    <3> QED
      BY <3>1, <3>2 DEF CreatedIsAccepted
  <2>3. CASE form \in FormSet /\ ~form.gui /\ request = Create(form)
    <3>1. verdict = "rejected" => request # Refused /\ ~Accepted(request)
      BY DEF RequestsInv, AnswerInv
    <3>2. request # Refused => Accepted(request) \/ Retired(request) \/ TooShort(request)
      <4>1. CASE form.command = "START_TEST"
        BY <2>3, <4>1, StartAgrees DEF Create
      <4>2. CASE form.command = "BASELINE_TEST"
        BY <2>3, <4>2, BaselineAgrees DEF Create
      <4> QED
        BY <2>3, <4>1, <4>2 DEF FormSet
    <3> QED
      BY <2>3, <3>1, <3>2 DEF CreatedIsAccepted
  <2> QED
    BY <2>1, <2>2, <2>3, FormsAre DEF RequestsInv, FormInv
<1>2. QED
  BY <1>1, RequestsInvariant, PTL

-----------------------------------------------------------------------------
(* The two counts of a run's effects. *)

\* The records that the programs write: which channel writes which event, and
\* what a checksum that differs is called.
AllRecords ==
  {r \in [channel : Workloads,
          event : {"start", "stop", "sim_fault", "checksum", "see_event", "mem_upset",
                   "mem_upset_overflow"},
          mismatch : BOOLEAN, finite : BOOLEAN, anomaly : BOOLEAN, dump : BOOLEAN] :
     /\ r.event \in {"checksum", "sim_fault", "see_event"} => r.channel = "compute"
     /\ r.event = "mem_upset" => r.channel = "memory"
     /\ r.event = "checksum" /\ (r.mismatch \/ ~r.finite) => r.anomaly}

StartsOf(c) == {r \in AllRecords : r.channel = c /\ r.event = "start"}
FaultsOf == {r \in AllRecords : r.event = "sim_fault"}
EffectsOf(type) == {r \in AllRecords : ClassifySee(r) = type}
CreditedTo(type) == {r \in AllRecords : Attributed(r) = type}

Started(c) == NumberOf(records, StartsOf(c))
Faulted == NumberOf(records, FaultsOf)

UnitTypes ==
  /\ unit \in [Workloads -> {"off", "starting", "up", "faulted", "stopped"}]
  /\ marker \in BOOLEAN
  /\ ends \in [Workloads -> Nat] /\ cleanEnds \in [Workloads -> Nat]
  /\ \A c \in Workloads : cleanEnds[c] <= ends[c]

BagsInv ==
  /\ FiniteBag(records) /\ DOMAIN records \subseteq AllRecords
  /\ IsABag(tailed) /\ tailed \sqsubseteq records

\* The live file has the effects that the tailer has read.
LiveInv ==
  /\ live \in [LiveTypes -> Nat]
  /\ \A type \in LiveTypes : live[type] = NumberOf(tailed, EffectsOf(type))

\* Every start of a workload but the last has ended; the last one has not while
\* the workload is up.
StartsInv ==
  \A c \in Workloads :
    CASE unit[c] = "up" -> Started(c) = ends[c] + 1
      [] unit[c] = "stopped" -> Started(c) \in {ends[c], ends[c] + 1}
      [] OTHER -> Started(c) = ends[c]

Crashes == ends["compute"] - cleanEnds["compute"]

\* A crash of the compute workload has a fault record, or its marker waits for
\* the next process to tell of it.
CrashesInv ==
  CASE unit["compute"] = "off" -> Faulted >= Crashes \/ (marker /\ Faulted >= Crashes - 1)
    [] unit["compute"] = "stopped" ->
         \/ Faulted >= Crashes
         \/ Started("compute") = ends["compute"] /\ Faulted >= Crashes - 1
    [] OTHER -> marker /\ Faulted >= Crashes

\* The summary is of the records as they are, which nothing adds to any more.
CsvInv ==
  csvCounts # NoCsv =>
    /\ \A c \in Workloads : unit[c] = "stopped"
    /\ csvCounts \in [SeeTypes -> Nat]
    /\ \A c \in Workloads :
         csvCounts[Shutdowns[c]] = IF Started(c) = 0 THEN 0 ELSE Started(c) - 1
    /\ \A type \in SeeTypes \ {Shutdowns[c] : c \in Workloads} :
         csvCounts[type] = NumberOf(records, CreditedTo(type))

TallyInv == UnitTypes /\ BagsInv /\ LiveInv /\ StartsInv /\ CrashesInv /\ CsvInv

\* Writing the records of T leaves what was read a part of what is written.
LEMMA BagsWritten ==
  ASSUME TallyInv, NEW T, IsFiniteSet(T), T \subseteq AllRecords, Write(T),
         UNCHANGED tailed
  PROVE  /\ BagsInv'
         /\ \A S : NumberOf(records, S)' = NumberOf(records, S) + Cardinality(T \cap S)
<1>1. FiniteBag(records) /\ DOMAIN records \subseteq AllRecords
      /\ IsABag(tailed) /\ tailed \sqsubseteq records
  BY DEF TallyInv, BagsInv
<1>2. records' = records (+) SetToBag(T)
  BY DEF Write
<1>3. /\ FiniteBag(records') /\ DOMAIN records' = DOMAIN records \cup T
      /\ \A e \in DOMAIN records : records'[e] >= records[e]
      /\ \A S : NumberOf(records', S) = NumberOf(records, S) + Cardinality(T \cap S)
  BY ZenonT(60), <1>1, <1>2, NumberWritten
<1>4. \A e \in DOMAIN records : records[e] \in Nat /\ records'[e] \in Nat
  BY <1>1, <1>3 DEF FiniteBag, IsABag
<1>5. \A e \in DOMAIN tailed : tailed[e] \in Nat
  BY <1>1 DEF IsABag
<1>6. tailed' \sqsubseteq records'
  BY <1>1, <1>3, <1>4, <1>5 DEF \sqsubseteq
<1>7. (\A S : NumberOf(records, S)' = NumberOf(records, S) + Cardinality(T \cap S))
  BY <1>3 DEF NumberOf
<1> QED
  BY <1>1, <1>3, <1>6, <1>7 DEF BagsInv, FiniteBag, IsABag

\* The counts that the invariant is about, after one record is written.
LEMMA OneWritten ==
  ASSUME TallyInv, NEW r \in AllRecords, Write({r}), UNCHANGED tailed
  PROVE  /\ BagsInv'
         /\ \A c \in Workloads :
              Started(c)' = Started(c) + IF r \in StartsOf(c) THEN 1 ELSE 0
         /\ Faulted' = Faulted + IF r \in FaultsOf THEN 1 ELSE 0
<1>1. IsFiniteSet({r}) /\ Cardinality({r}) = 1 /\ Cardinality({}) = 0
  BY FS_Singleton, FS_EmptySet
<1>2. \A S : Cardinality({r} \cap S) = IF r \in S THEN 1 ELSE 0
  <2> SUFFICES ASSUME NEW S PROVE Cardinality({r} \cap S) = IF r \in S THEN 1 ELSE 0
    OBVIOUS
  <2>1. {r} \cap S = IF r \in S THEN {r} ELSE {}
    OBVIOUS
  <2> QED
    BY <1>1, <2>1
<1>3. /\ BagsInv'
      /\ \A S : NumberOf(records, S)' = NumberOf(records, S) + Cardinality({r} \cap S)
  BY <1>1, BagsWritten
<1> QED
  BY <1>2, <1>3 DEF Started, Faulted, StartsOf, FaultsOf

\* What is written but no start and no fault does not change them.
LEMMA OtherWritten ==
  ASSUME TallyInv, NEW T, IsFiniteSet(T), T \subseteq AllRecords, Write(T),
         UNCHANGED tailed,
         \A r \in T : r.event \notin {"start", "sim_fault"}
  PROVE  BagsInv' /\ (\A c \in Workloads : Started(c)' = Started(c)) /\ Faulted' = Faulted
<1>1. /\ BagsInv'
      /\ \A S : NumberOf(records, S)' = NumberOf(records, S) + Cardinality(T \cap S)
  BY BagsWritten
<1>2. (\A c \in Workloads : T \cap StartsOf(c) = {}) /\ T \cap FaultsOf = {}
  BY DEF StartsOf, FaultsOf
<1>3. \A S : NumberOf(records, S) \in Nat
  BY NumberIsUnits DEF TallyInv, BagsInv
<1>4. /\ \A c \in Workloads : NumberOf(records, StartsOf(c))' = NumberOf(records, StartsOf(c))
      /\ NumberOf(records, FaultsOf)' = NumberOf(records, FaultsOf)
  BY <1>1, <1>2, <1>3, FS_EmptySet DEF StartsOf, FaultsOf
<1> QED
  BY <1>1, <1>4 DEF Started, Faulted

\* While nobody reads, the live file is what it was.
LEMMA Unread ==
  ASSUME TallyInv, UNCHANGED <<live, tailed>>
  PROVE  LiveInv'
BY DEF TallyInv, LiveInv, NumberOf, EffectsOf

\* A step that writes no record leaves the numbers of records as they are.
LEMMA NothingWritten ==
  ASSUME TallyInv, UNCHANGED <<records, tailed>>
  PROVE  BagsInv' /\ (\A c \in Workloads : Started(c)' = Started(c)) /\ Faulted' = Faulted
BY DEF TallyInv, BagsInv, FiniteBag, IsABag, \sqsubseteq, Started, Faulted, NumberOf,
       StartsOf, FaultsOf

\* There is no summary while a unit runs or waits for its restart.
LEMMA NotYet ==
  ASSUME TallyInv, NEW c \in Workloads, unit[c] # "stopped", UNCHANGED csvCounts
  PROVE  CsvInv'
BY DEF TallyInv, CsvInv

\* The counts that the invariant compares are naturals.
LEMMA CountTypes ==
  ASSUME TallyInv
  PROVE  /\ \A c \in Workloads : Started(c) \in Nat /\ ends[c] \in Nat
         /\ Faulted \in Nat /\ Crashes \in Int /\ Crashes <= ends["compute"]
<1>1. \A S : NumberOf(records, S) \in Nat
  BY NumberIsUnits DEF TallyInv, BagsInv
<1>2. ends \in [Workloads -> Nat] /\ cleanEnds \in [Workloads -> Nat]
  BY DEF TallyInv, UnitTypes
<1> QED
  BY <1>1, <1>2 DEF Started, Faulted, Crashes, Workloads

\* What the actions write is among the records considered.
LEMMA Records ==
  /\ \A c \in Workloads : RecordOf(c, "start") \in AllRecords
                          /\ RecordOf(c, "stop") \in AllRecords
  /\ RecordOf("compute", "sim_fault") \in AllRecords
  /\ \A dumped \in BOOLEAN :
       [RecordOf("compute", "sim_fault") EXCEPT !.dump = dumped] \in AllRecords
  /\ RecordOf("memory", "mem_upset") \in AllRecords
  /\ RecordOf("memory", "mem_upset_overflow") \in AllRecords
BY DEF RecordOf, AllRecords, Workloads

\* So are the two records of an epoch.
LEMMA ChecksumRecords ==
  ASSUME NEW mismatch \in BOOLEAN, NEW finite \in BOOLEAN, NEW bounded \in BOOLEAN,
         NEW dumped \in BOOLEAN
  PROVE  /\ Checksum(mismatch, finite, bounded) \in AllRecords
         /\ Checksum(mismatch, finite, bounded).event = "checksum"
         /\ SeeMarker(dumped) \in AllRecords /\ SeeMarker(dumped).event = "see_event"
<1> DEFINE differs == mismatch \/ ~finite \/ ~bounded
           base == RecordOf("compute", "checksum")
           r == [base EXCEPT !.mismatch = mismatch, !.finite = finite, !.anomaly = differs]
<1>1. differs \in BOOLEAN /\ (mismatch \/ ~finite => differs)
  OBVIOUS
<1>2. Checksum(mismatch, finite, bounded) = r
  BY DEF Checksum
<1> DEFINE fields ==
             [channel : Workloads,
              event : {"start", "stop", "sim_fault", "checksum", "see_event",
                       "mem_upset", "mem_upset_overflow"},
              mismatch : BOOLEAN, finite : BOOLEAN, anomaly : BOOLEAN, dump : BOOLEAN]
<1>3. base \in fields /\ base.channel = "compute" /\ base.event = "checksum"
  BY DEF RecordOf, Workloads
<1> HIDE DEF differs, base
<1>4. /\ r \in fields /\ r.channel = "compute" /\ r.event = "checksum"
      /\ r.mismatch = mismatch /\ r.finite = finite /\ r.anomaly = differs
  BY <1>1, <1>3
<1> HIDE DEF r
<1>5. r \in AllRecords /\ r.event = "checksum"
  BY <1>1, <1>4 DEF AllRecords
<1> DEFINE other == RecordOf("compute", "see_event")
<1>6. other \in fields /\ other.channel = "compute" /\ other.event = "see_event"
  BY DEF RecordOf, Workloads
<1>7. SeeMarker(dumped) = [other EXCEPT !.dump = dumped]
  BY DEF SeeMarker
<1> HIDE DEF other
<1>8. SeeMarker(dumped) \in fields /\ SeeMarker(dumped).channel = "compute"
      /\ SeeMarker(dumped).event = "see_event"
  BY <1>6, <1>7
<1>9. SeeMarker(dumped) \in AllRecords
  BY <1>8 DEF AllRecords
<1> QED
  BY <1>2, <1>5, <1>8, <1>9

\* A new compute process finds its predecessor's marker, or leaves its own.
LEMMA FlagRunStep == TallyInv /\ FlagRun => TallyInv'
<1> SUFFICES ASSUME TallyInv, FlagRun PROVE TallyInv'
  OBVIOUS
<1>1. /\ unit["compute"] = "off" /\ unit' = [unit EXCEPT !["compute"] = "starting"]
      /\ marker' = TRUE /\ UNCHANGED <<ends, cleanEnds, live, tailed, csvCounts>>
  BY DEF FlagRun
<1>2. /\ BagsInv' /\ \A c \in Workloads : Started(c)' = Started(c)
      /\ Faulted' = Faulted + IF marker THEN 1 ELSE 0
  <2>1. CASE marker
    <3> DEFINE r == RecordOf("compute", "sim_fault")
    <3>1. r \in AllRecords /\ r.event = "sim_fault"
      BY Records DEF RecordOf
    <3>2. Write({r})
      BY <2>1 DEF FlagRun
    <3>3. r \in FaultsOf /\ \A c \in Workloads : r \notin StartsOf(c)
      BY <3>1 DEF FaultsOf, StartsOf
    <3> HIDE DEF r
    <3> QED
      BY <1>1, <2>1, <3>1, <3>2, <3>3, OneWritten, CountTypes
  <2>2. CASE ~marker
    BY <1>1, <2>2, NothingWritten, CountTypes DEF FlagRun
  <2> QED
    BY <2>1, <2>2
<1>3. UnitTypes'
  BY <1>1 DEF TallyInv, UnitTypes
<1>4. StartsInv'
  BY <1>1, <1>2 DEF TallyInv, UnitTypes, StartsInv
<1>5. CrashesInv'
  BY <1>1, <1>2, CountTypes DEF TallyInv, UnitTypes, CrashesInv, Crashes, Workloads
<1>6. CsvInv' /\ LiveInv'
  BY <1>1, NotYet, Unread DEF Workloads
<1> QED
  BY <1>2, <1>3, <1>4, <1>5, <1>6 DEF TallyInv

\* A workload comes up with a start record.
LEMMA WriteStartStep ==
  ASSUME TallyInv, NEW c \in Workloads, WriteStart(c)
  PROVE  TallyInv'
<1>1. /\ unit[c] \in {"starting", "off"} /\ unit' = [unit EXCEPT ![c] = "up"]
      /\ c = "compute" => unit[c] = "starting"
      /\ UNCHANGED <<marker, ends, cleanEnds, live, tailed, csvCounts>>
  BY DEF WriteStart
<1> DEFINE r == RecordOf(c, "start")
<1>2. r \in AllRecords /\ r.event = "start" /\ r.channel = c /\ Write({r})
  BY Records DEF WriteStart, RecordOf
<1>3. r \notin FaultsOf /\ \A d \in Workloads : r \in StartsOf(d) <=> d = c
  BY <1>2 DEF FaultsOf, StartsOf
<1> HIDE DEF r
<1>4. /\ BagsInv' /\ Faulted' = Faulted
      /\ \A d \in Workloads : Started(d)' = Started(d) + IF d = c THEN 1 ELSE 0
  BY <1>1, <1>2, <1>3, OneWritten, CountTypes
<1>5. UnitTypes'
  BY <1>1 DEF TallyInv, UnitTypes
<1>6. StartsInv'
  BY <1>1, <1>4, CountTypes DEF TallyInv, UnitTypes, StartsInv
<1>7. CrashesInv'
  <2>1. Crashes' = Crashes
    BY <1>1 DEF Crashes
  <2>2. CASE c = "compute"
    BY <1>1, <1>4, <2>1, <2>2 DEF TallyInv, UnitTypes, CrashesInv, Workloads
  <2>3. CASE c # "compute"
    BY <1>1, <1>4, <2>1, <2>3, CountTypes DEF TallyInv, UnitTypes, CrashesInv, Workloads
  <2> QED
    BY <2>2, <2>3
<1>8. CsvInv' /\ LiveInv'
  BY <1>1, NotYet, Unread
<1> QED
  BY <1>4, <1>5, <1>6, <1>7, <1>8 DEF TallyInv

\* A step in which a workload stays as it is and writes neither a start nor a fault.
LEMMA QuietStep ==
  ASSUME TallyInv, NEW c \in Workloads, unit[c] # "stopped",
         UNCHANGED <<unit, marker, ends, cleanEnds, live, tailed, csvCounts>>,
         BagsInv', \A d \in Workloads : Started(d)' = Started(d), Faulted' = Faulted
  PROVE  TallyInv'
<1>1. UnitTypes'
  BY DEF TallyInv, UnitTypes
<1>2. StartsInv'
  BY DEF TallyInv, StartsInv
<1>3. CrashesInv'
  BY DEF TallyInv, CrashesInv, Crashes, Workloads
<1>4. CsvInv' /\ LiveInv'
  BY NotYet, Unread
<1> QED
  BY <1>1, <1>2, <1>3, <1>4 DEF TallyInv

\* An epoch ends with a checksum and the effect that it found.
LEMMA EndEpochStep == TallyInv /\ EndEpoch => TallyInv'
<1> SUFFICES ASSUME TallyInv, EndEpoch PROVE TallyInv'
  OBVIOUS
<1>1. PICK mismatch, finite, bounded, dumped \in BOOLEAN :
        LET checksum == Checksum(mismatch, finite, bounded)
        IN Write({checksum} \cup IF checksum.anomaly THEN {SeeMarker(dumped)} ELSE {})
  BY DEF EndEpoch
<1> DEFINE a == Checksum(mismatch, finite, bounded)
           b == SeeMarker(dumped)
           T == {a} \cup IF a.anomaly THEN {b} ELSE {}
<1>2. a \in AllRecords /\ b \in AllRecords /\ a.event = "checksum" /\ b.event = "see_event"
  BY ChecksumRecords
<1>3. Write(T)
  BY <1>1
<1> HIDE DEF a, b
<1>4. T \subseteq AllRecords /\ \A r \in T : r.event \notin {"start", "sim_fault"}
  BY <1>2
<1>5. IsFiniteSet(T)
  <2>1. IsFiniteSet({a}) /\ IsFiniteSet({b}) /\ IsFiniteSet({})
    BY FS_Singleton, FS_EmptySet
  <2> QED
    BY <2>1, FS_Union
<1> HIDE DEF T
<1>6. unit["compute"] = "up"
      /\ UNCHANGED <<unit, marker, ends, cleanEnds, live, tailed, csvCounts>>
  BY DEF EndEpoch
<1>7. BagsInv' /\ (\A d \in Workloads : Started(d)' = Started(d)) /\ Faulted' = Faulted
  BY <1>3, <1>4, <1>5, <1>6, OtherWritten
<1> QED
  BY <1>6, <1>7, QuietStep DEF Workloads

\* A sweep of the memory tester reports what it found.
LEMMA SweepReportsStep == TallyInv /\ SweepReports => TallyInv'
<1> SUFFICES ASSUME TallyInv, SweepReports PROVE TallyInv'
  OBVIOUS
<1> DEFINE a == RecordOf("memory", "mem_upset")
           b == RecordOf("memory", "mem_upset_overflow")
<1>1. PICK more \in SUBSET {b} : Write({a} \cup more)
  BY DEF SweepReports
<1>2. a \in AllRecords /\ b \in AllRecords /\ a.event = "mem_upset"
      /\ b.event = "mem_upset_overflow"
  BY Records DEF RecordOf
<1> HIDE DEF a, b
<1> DEFINE T == {a} \cup more
<1>3. T \subseteq AllRecords /\ \A r \in T : r.event \notin {"start", "sim_fault"}
  BY <1>2
<1>4. IsFiniteSet(T)
  <2>1. IsFiniteSet({a}) /\ IsFiniteSet({b})
    BY FS_Singleton
  <2>2. IsFiniteSet(more)
    BY <2>1, FS_Subset
  <2> QED
    BY <2>1, <2>2, FS_Union
<1>5. Write(T)
  BY <1>1
<1> HIDE DEF T
<1>6. unit["memory"] = "up"
      /\ UNCHANGED <<unit, marker, ends, cleanEnds, live, tailed, csvCounts>>
  BY DEF SweepReports
<1>7. BagsInv' /\ (\A d \in Workloads : Started(d)' = Started(d)) /\ Faulted' = Faulted
  BY <1>3, <1>4, <1>5, <1>6, OtherWritten
<1> QED
  BY <1>6, <1>7, QuietStep DEF Workloads

\* A CUDA error is recorded before the process ends.
LEMMA CatchFaultStep == TallyInv /\ CatchFault => TallyInv'
<1> SUFFICES ASSUME TallyInv, CatchFault PROVE TallyInv'
  OBVIOUS
<1>1. /\ unit["compute"] = "up" /\ unit' = [unit EXCEPT !["compute"] = "faulted"]
      /\ ends' = [ends EXCEPT !["compute"] = @ + 1]
      /\ UNCHANGED <<marker, cleanEnds, live, tailed, csvCounts>>
  BY DEF CatchFault
<1>2. PICK dumped \in BOOLEAN :
        Write({[RecordOf("compute", "sim_fault") EXCEPT !.dump = dumped]})
  BY DEF CatchFault
<1> DEFINE r == [RecordOf("compute", "sim_fault") EXCEPT !.dump = dumped]
<1>3. r \in AllRecords /\ r.event = "sim_fault" /\ Write({r})
  BY <1>2, Records DEF RecordOf
<1>4. r \in FaultsOf /\ \A c \in Workloads : r \notin StartsOf(c)
  BY <1>3 DEF FaultsOf, StartsOf
<1> HIDE DEF r
<1>5. /\ BagsInv' /\ (\A c \in Workloads : Started(c)' = Started(c))
      /\ Faulted' = Faulted + 1
  BY <1>1, <1>3, <1>4, OneWritten, CountTypes
<1>6. UnitTypes' /\ Crashes' = Crashes + 1
  BY <1>1 DEF TallyInv, UnitTypes, Crashes, Workloads
<1>7. StartsInv'
  BY <1>1, <1>5, CountTypes DEF TallyInv, UnitTypes, StartsInv
<1>8. CrashesInv'
  BY <1>1, <1>5, <1>6, CountTypes DEF TallyInv, UnitTypes, CrashesInv, Workloads
<1>9. CsvInv' /\ LiveInv'
  BY <1>1, NotYet, Unread DEF Workloads
<1> QED
  BY <1>5, <1>6, <1>7, <1>8, <1>9 DEF TallyInv

\* The process that has recorded it ends.
LEMMA ExitFaultedStep == TallyInv /\ ExitFaulted => TallyInv'
<1> SUFFICES ASSUME TallyInv, ExitFaulted PROVE TallyInv'
  OBVIOUS
<1>1. /\ unit["compute"] = "faulted" /\ unit' = [unit EXCEPT !["compute"] = "off"]
      /\ marker' = FALSE
      /\ UNCHANGED <<records, ends, cleanEnds, live, tailed, csvCounts>>
  BY DEF ExitFaulted
<1>2. BagsInv' /\ (\A c \in Workloads : Started(c)' = Started(c)) /\ Faulted' = Faulted
  BY <1>1, NothingWritten
<1>3. UnitTypes' /\ Crashes' = Crashes
  BY <1>1 DEF TallyInv, UnitTypes, Crashes, Workloads
<1>4. StartsInv'
  BY <1>1, <1>2 DEF TallyInv, UnitTypes, StartsInv
<1>5. CrashesInv'
  BY <1>1, <1>2, <1>3 DEF TallyInv, UnitTypes, CrashesInv, Workloads
<1>6. CsvInv' /\ LiveInv'
  BY <1>1, NotYet, Unread DEF Workloads
<1> QED
  BY <1>2, <1>3, <1>4, <1>5, <1>6 DEF TallyInv

\* A process dies without a word.
LEMMA DieAsStep ==
  ASSUME TallyInv, NEW c \in Workloads, DieAs(c)
  PROVE  TallyInv'
<1>1. /\ unit[c] \in {"starting", "up", "faulted"} /\ unit' = [unit EXCEPT ![c] = "off"]
      /\ ends' = IF unit[c] = "up" THEN [ends EXCEPT ![c] = @ + 1] ELSE ends
      /\ UNCHANGED <<marker, records, cleanEnds, live, tailed, csvCounts>>
  BY DEF DieAs
<1>2. BagsInv' /\ (\A d \in Workloads : Started(d)' = Started(d)) /\ Faulted' = Faulted
  BY <1>1, NothingWritten
<1>3. UnitTypes'
  BY <1>1 DEF TallyInv, UnitTypes
<1>4. StartsInv'
  BY <1>1, <1>2, CountTypes DEF TallyInv, UnitTypes, StartsInv
<1>5. CrashesInv'
  <2>1. CASE c = "compute"
    <3>1. Crashes' \in {Crashes, Crashes + 1} /\ marker
      BY <1>1, <2>1 DEF TallyInv, UnitTypes, CrashesInv, Crashes, Workloads
    <3> QED
      BY <1>1, <1>2, <2>1, <3>1, CountTypes DEF TallyInv, UnitTypes, CrashesInv, Workloads
  <2>2. CASE c # "compute"
    <3>1. /\ Crashes' = Crashes /\ unit'["compute"] = unit["compute"]
          /\ ends'["compute"] = ends["compute"]
      BY <1>1, <2>2 DEF TallyInv, UnitTypes, Crashes, Workloads
    <3> QED
      BY <1>1, <1>2, <3>1 DEF TallyInv, CrashesInv, Workloads
  <2> QED
    BY <2>1, <2>2
<1>6. CsvInv' /\ LiveInv'
  BY <1>1, NotYet, Unread
<1> QED
  BY <1>2, <1>3, <1>4, <1>5, <1>6 DEF TallyInv

\* A process ends at its iterations limit, its marker removed.
LEMMA EndAtLimitStep ==
  ASSUME TallyInv, NEW c \in Workloads, EndAtLimit(c)
  PROVE  TallyInv'
<1>1. /\ unit[c] = "up" /\ unit' = [unit EXCEPT ![c] = "off"]
      /\ marker' = (marker /\ c # "compute")
      /\ ends' = [ends EXCEPT ![c] = @ + 1]
      /\ cleanEnds' = [cleanEnds EXCEPT ![c] = @ + 1]
      /\ UNCHANGED <<live, tailed, csvCounts>>
  BY DEF EndAtLimit
<1> DEFINE r == RecordOf(c, "stop")
           T == {r}
<1>2. r \in AllRecords /\ r.event = "stop" /\ Write({r})
  BY Records DEF EndAtLimit, RecordOf
<1> HIDE DEF r
<1>9. /\ Write(T) /\ T \subseteq AllRecords /\ IsFiniteSet(T)
      /\ \A q \in T : q.event \notin {"start", "sim_fault"}
  BY <1>2, FS_Singleton
<1> HIDE DEF T
<1>3. BagsInv' /\ (\A d \in Workloads : Started(d)' = Started(d)) /\ Faulted' = Faulted
  BY <1>1, <1>9, OtherWritten
<1>4. UnitTypes'
  BY <1>1 DEF TallyInv, UnitTypes
<1>5. StartsInv'
  BY <1>1, <1>3, CountTypes DEF TallyInv, UnitTypes, StartsInv
<1>6. Crashes' = Crashes
  BY <1>1 DEF TallyInv, UnitTypes, Crashes, Workloads
<1>7. CrashesInv'
  <2>1. CASE c = "compute"
    BY <1>1, <1>3, <1>6, <2>1 DEF TallyInv, UnitTypes, CrashesInv, Workloads
  <2>2. CASE c # "compute"
    <3>1. unit'["compute"] = unit["compute"] /\ ends'["compute"] = ends["compute"]
          /\ marker' = marker
      BY <1>1, <2>2 DEF TallyInv, UnitTypes, Workloads
    <3> QED
      BY <1>3, <1>6, <3>1 DEF TallyInv, CrashesInv, Workloads
  <2> QED
    BY <2>1, <2>2
<1>8. CsvInv' /\ LiveInv'
  BY <1>1, NotYet, Unread
<1> QED
  BY <1>3, <1>4, <1>5, <1>7, <1>8 DEF TallyInv

\* STOP ends what runs.
LEMMA StopUnitsStep ==
  ASSUME TallyInv, NEW c \in Workloads, StopUnits(c)
  PROVE  TallyInv'
<1>1. /\ unit[c] \notin {"stopped", "faulted"} /\ unit' = [unit EXCEPT ![c] = "stopped"]
      /\ marker' = (marker /\ (c # "compute" \/ unit[c] = "off"))
      /\ UNCHANGED <<ends, cleanEnds, live, tailed, csvCounts>>
  BY DEF StopUnits
<1>2. BagsInv' /\ (\A d \in Workloads : Started(d)' = Started(d)) /\ Faulted' = Faulted
  <2>1. CASE unit[c] = "up"
    <3> DEFINE r == RecordOf(c, "stop")
               T == {r}
    <3>1. r \in AllRecords /\ r.event = "stop" /\ Write({r})
      BY <2>1, Records DEF StopUnits, RecordOf
    <3> HIDE DEF r
    <3>2. /\ Write(T) /\ T \subseteq AllRecords /\ IsFiniteSet(T)
          /\ \A q \in T : q.event \notin {"start", "sim_fault"}
      BY <3>1, FS_Singleton
    <3> HIDE DEF T
    <3> QED
      BY <1>1, <3>2, OtherWritten
  <2>2. CASE unit[c] # "up"
    BY <1>1, <2>2, NothingWritten DEF StopUnits
  <2> QED
    BY <2>1, <2>2
<1>3. UnitTypes' /\ Crashes' = Crashes
  BY <1>1 DEF TallyInv, UnitTypes, Crashes, Workloads
<1>4. StartsInv'
  BY <1>1, <1>2, CountTypes DEF TallyInv, UnitTypes, StartsInv
<1>5. CrashesInv'
  <2>1. CASE c = "compute"
    <3>1. /\ unit'["compute"] = "stopped" /\ ends' = ends
          /\ \/ Faulted >= Crashes
             \/ unit["compute"] = "off" /\ Faulted >= Crashes - 1
      BY <1>1, <2>1 DEF TallyInv, UnitTypes, CrashesInv, Workloads
    <3>2. unit["compute"] = "off" => Started("compute") = ends["compute"]
      BY DEF TallyInv, StartsInv, Workloads
    <3> QED
      BY <1>2, <1>3, <3>1, <3>2 DEF CrashesInv, Workloads
  <2>2. CASE c # "compute"
    <3>1. unit'["compute"] = unit["compute"] /\ ends'["compute"] = ends["compute"]
          /\ marker' = marker
      BY <1>1, <2>2 DEF TallyInv, UnitTypes, Workloads
    <3> QED
      BY <1>2, <1>3, <3>1 DEF TallyInv, CrashesInv, Workloads
  <2> QED
    BY <2>1, <2>2
<1>6. CsvInv' /\ LiveInv'
  BY <1>1, NotYet, Unread
<1> QED
  BY <1>2, <1>3, <1>4, <1>5, <1>6 DEF TallyInv

\* The tailer counts what was written since it last read.
LEMMA PersistSeesStep == TallyInv /\ PersistSees => TallyInv'
<1> SUFFICES ASSUME TallyInv, PersistSees PROVE TallyInv'
  OBVIOUS
<1> DEFINE new == records (-) tailed
<1>1. /\ tailed' = records /\ UNCHANGED <<unit, marker, records, ends, cleanEnds, csvCounts>>
      /\ live' = [type \in LiveTypes |->
                    live[type] + CountIn(new, LAMBDA r : ClassifySee(r) = type)]
  BY DEF PersistSees, unitVars
<1>2. /\ FiniteBag(records) /\ DOMAIN records \subseteq AllRecords
      /\ IsABag(tailed) /\ tailed \sqsubseteq records
  BY DEF TallyInv, BagsInv
<1>3. /\ FiniteBag(new) /\ FiniteBag(tailed) /\ DOMAIN new \subseteq DOMAIN records
      /\ \A S : NumberOf(records, S) = NumberOf(tailed, S) + NumberOf(new, S)
  BY <1>2, NumberTaken
<1> HIDE DEF new
<1>4. ASSUME NEW type \in LiveTypes
      PROVE  CountIn(new, LAMBDA r : ClassifySee(r) = type) = NumberOf(new, EffectsOf(type))
  <2>1. {x \in DOMAIN new : ClassifySee(x) = type} = DOMAIN new \cap EffectsOf(type)
    BY <1>2, <1>3 DEF EffectsOf
  <2> QED
    BY <2>1 DEF CountIn, NumberOf
<1>5. \A type \in LiveTypes : live[type] = NumberOf(tailed, EffectsOf(type))
  BY DEF TallyInv, LiveInv
<1>6. \A type \in LiveTypes : live'[type] = NumberOf(records, EffectsOf(type))
  BY <1>1, <1>3, <1>4, <1>5
<1>7. \A S : NumberOf(records, S) \in Nat
  BY <1>2, NumberIsUnits
<1>8. live' \in [LiveTypes -> Nat]
  <2>1. \A type \in LiveTypes : live'[type] \in Nat
    BY <1>6, <1>7
  <2> QED
    BY <1>1, <2>1
<1>9. LiveInv'
  BY <1>1, <1>6, <1>8 DEF LiveInv, NumberOf, EffectsOf
<1>10. records \sqsubseteq records /\ IsABag(records)
  BY <1>2 DEF FiniteBag, IsABag, \sqsubseteq
<1>11. BagsInv'
  BY <1>1, <1>2, <1>10 DEF BagsInv, FiniteBag, IsABag, \sqsubseteq
<1>12. UnitTypes' /\ StartsInv' /\ CrashesInv' /\ CsvInv'
  BY <1>1 DEF TallyInv, UnitTypes, StartsInv, CrashesInv, CsvInv, Started, Faulted, Crashes,
              NumberOf, StartsOf, FaultsOf, CreditedTo
<1> QED
  BY <1>9, <1>11, <1>12 DEF TallyInv

\* The restarts that the summary counts are the starts but the first.
LEMMA RestartsIs ==
  ASSUME TallyInv, NEW c \in Workloads
  PROVE  /\ Restarts(c) = IF Started(c) = 0 THEN 0 ELSE Started(c) - 1
         /\ Restarts(c) \in Nat
<1> DEFINE n == CountIn(records, LAMBDA r : r.channel = c /\ r.event = "start")
<1>1. n = Started(c)
  <2>1. {x \in DOMAIN records : x.channel = c /\ x.event = "start"}
        = DOMAIN records \cap StartsOf(c)
    BY DEF TallyInv, BagsInv, StartsOf
  <2> QED
    BY <2>1 DEF CountIn, Started, NumberOf
<1>2. n \in Nat
  BY <1>1, CountTypes
<1>3. Restarts(c) = Max({0, n - 1})
  BY DEF Restarts
<1> HIDE DEF n
<1>4. Max({0, n - 1}) = IF n = 0 THEN 0 ELSE n - 1
  <2> DEFINE m == IF n = 0 THEN 0 ELSE n - 1
  <2>1. m \in {0, n - 1} /\ \A y \in {0, n - 1} : m >= y
    BY <1>2
  <2>2. \A x \in {0, n - 1} : (\A y \in {0, n - 1} : x >= y) => x = m
    BY <1>2
  <2> HIDE DEF m
  <2>3. Max({0, n - 1}) = m
    BY <2>1, <2>2 DEF Max
  <2> QED
    BY <2>3 DEF m
<1> QED
  BY <1>1, <1>2, <1>3, <1>4

\* The summary is made of the records as they are.
LEMMA SummarizeRunStep == TallyInv /\ SummarizeRun => TallyInv'
<1> SUFFICES ASSUME TallyInv, SummarizeRun PROVE TallyInv'
  OBVIOUS
<1>1. /\ \A c \in Workloads : unit[c] = "stopped"
      /\ UNCHANGED <<unit, marker, records, ends, cleanEnds, live, tailed>>
      /\ csvCounts' = [type \in SeeTypes |->
                   IF \E c \in Workloads : type = Shutdowns[c]
                   THEN Restarts(CHOOSE c \in Workloads : type = Shutdowns[c])
                   ELSE CountIn(records, LAMBDA r : Attributed(r) = type)]
  BY DEF SummarizeRun, unitVars
<1>2. FiniteBag(records) /\ DOMAIN records \subseteq AllRecords
  BY DEF TallyInv, BagsInv
<1>3. \A c \in Workloads : Shutdowns[c] \in SeeTypes
                           /\ \A d \in Workloads : Shutdowns[c] = Shutdowns[d] => c = d
  BY DEF Shutdowns, SeeTypes, Workloads
<1>4. ASSUME NEW c \in Workloads PROVE csvCounts'[Shutdowns[c]] = Restarts(c)
  <2>1. (CHOOSE d \in Workloads : Shutdowns[c] = Shutdowns[d]) = c
    BY <1>3
  <2> QED
    BY <1>1, <1>3, <2>1
<1>5. ASSUME NEW type \in SeeTypes \ {Shutdowns[c] : c \in Workloads}
      PROVE  csvCounts'[type] = NumberOf(records, CreditedTo(type))
  <2>1. csvCounts'[type] = CountIn(records, LAMBDA r : Attributed(r) = type)
    BY <1>1
  <2>2. {x \in DOMAIN records : Attributed(x) = type} = DOMAIN records \cap CreditedTo(type)
    BY <1>2 DEF CreditedTo
  <2> QED
    BY <2>1, <2>2 DEF CountIn, NumberOf
<1>6. \A S : NumberOf(records, S) \in Nat
  BY <1>2, NumberIsUnits
<1>7. csvCounts' \in [SeeTypes -> Nat]
  <2>1. ASSUME NEW type \in SeeTypes PROVE csvCounts'[type] \in Nat
    <3>1. CASE \E c \in Workloads : type = Shutdowns[c]
      BY <1>4, <3>1, RestartsIs
    <3>2. CASE ~\E c \in Workloads : type = Shutdowns[c]
      BY <1>5, <1>6, <3>2
    <3> QED
      BY <3>1, <3>2
  <2>2. csvCounts' = [type \in SeeTypes |-> csvCounts'[type]]
    BY <1>1, Zenon
  <2> QED
    BY <2>1, <2>2
<1>8. \A c \in Workloads :
        csvCounts'[Shutdowns[c]] = IF Started(c) = 0 THEN 0 ELSE Started(c) - 1
  BY <1>4, RestartsIs
<1>9. CsvInv'
  <2>1. \A c \in Workloads : Started(c)' = Started(c)
    BY <1>1, NothingWritten
  <2>2. \A type : NumberOf(records, CreditedTo(type))' = NumberOf(records, CreditedTo(type))
    BY <1>1 DEF NumberOf, CreditedTo
  <2>3. \A c \in Workloads : unit'[c] = "stopped"
    BY <1>1
  <2> QED
    BY <1>5, <1>7, <1>8, <2>1, <2>2, <2>3 DEF CsvInv
<1>10. BagsInv' /\ LiveInv' /\ UnitTypes'
  BY <1>1, NothingWritten, Unread DEF TallyInv, UnitTypes
<1>11. StartsInv' /\ CrashesInv'
  BY <1>1 DEF TallyInv, StartsInv, CrashesInv, Started, Faulted, Crashes, NumberOf,
              StartsOf, FaultsOf
<1> QED
  BY <1>9, <1>10, <1>11 DEF TallyInv

\* Before the run there are no records.
LEMMA TallyInvInit == TallyInit => TallyInv
<1> SUFFICES ASSUME TallyInit PROVE TallyInv
  OBVIOUS
<1>1. /\ unit = [c \in Workloads |-> "off"] /\ marker = FALSE
      /\ records = EmptyBag /\ live = [type \in LiveTypes |-> 0] /\ tailed = EmptyBag
      /\ csvCounts = NoCsv
      /\ ends = [c \in Workloads |-> 0] /\ cleanEnds = [c \in Workloads |-> 0]
  BY DEF TallyInit
<1>2. /\ FiniteBag(EmptyBag) /\ DOMAIN EmptyBag = {} /\ EmptyBag \sqsubseteq EmptyBag
  BY FS_EmptySet DEF EmptyBag, SetToBag, FiniteBag, IsABag, \sqsubseteq
<1>3. \A S : NumberOf(EmptyBag, S) = 0
  <2> SUFFICES ASSUME NEW S PROVE NumberOf(EmptyBag, S) = 0
    OBVIOUS
  <2>1. BagUnits(EmptyBag, S) = {}
    BY <1>2 DEF BagUnits, Units
  <2> QED
    BY <1>2, <2>1, NumberIsUnits, FS_EmptySet
<1>4. UnitTypes
  <2>1. marker \in BOOLEAN
    BY <1>1
  <2>2. \A c \in Workloads : cleanEnds[c] <= ends[c]
    BY <1>1
  <2>3. unit \in [Workloads -> {"off", "starting", "up", "faulted", "stopped"}]
        /\ ends \in [Workloads -> Nat] /\ cleanEnds \in [Workloads -> Nat]
    BY <1>1
  <2> QED
    BY <2>1, <2>2, <2>3 DEF UnitTypes
<1>5. BagsInv
  BY <1>1, <1>2 DEF BagsInv, FiniteBag
<1>6. LiveInv
  BY <1>1, <1>3 DEF LiveInv
<1>7. Crashes = 0 /\ Faulted = 0 /\ \A c \in Workloads : Started(c) = 0
  BY <1>1, <1>3 DEF Crashes, Faulted, Started, Workloads
<1>8. StartsInv /\ CrashesInv
  BY <1>1, <1>7 DEF StartsInv, CrashesInv, Workloads
<1>9. CsvInv
  BY <1>1 DEF CsvInv
<1> QED
  BY <1>4, <1>5, <1>6, <1>8, <1>9 DEF TallyInv

\* Every step keeps the invariant.
LEMMA TallyInvStep == TallyInv /\ [TallyNext]_tallyVars => TallyInv'
<1> SUFFICES ASSUME TallyInv, [TallyNext]_tallyVars PROVE TallyInv'
  OBVIOUS
<1>1. CASE FlagRun \/ EndEpoch \/ SweepReports \/ CatchFault \/ ExitFaulted
  BY <1>1, FlagRunStep, EndEpochStep, SweepReportsStep, CatchFaultStep, ExitFaultedStep
<1>2. CASE \E c \in Workloads : WriteStart(c) \/ DieAs(c) \/ EndAtLimit(c) \/ StopUnits(c)
  BY <1>2, WriteStartStep, DieAsStep, EndAtLimitStep, StopUnitsStep
<1>3. CASE PersistSees \/ SummarizeRun
  BY <1>3, PersistSeesStep, SummarizeRunStep
<1>4. CASE UNCHANGED tallyVars
  <2>1. UNCHANGED <<unit, marker, records, ends, cleanEnds, live, tailed, csvCounts>>
    BY <1>4 DEF tallyVars, unitVars
  <2>2. BagsInv' /\ LiveInv' /\ UnitTypes'
    BY <2>1, NothingWritten, Unread DEF TallyInv, UnitTypes
  <2>3. StartsInv' /\ CrashesInv' /\ CsvInv'
    BY <2>1 DEF TallyInv, StartsInv, CrashesInv, CsvInv, Started, Faulted, Crashes,
                NumberOf, StartsOf, FaultsOf, CreditedTo
  <2> QED
    BY <2>2, <2>3 DEF TallyInv
<1> QED
  BY <1>1, <1>2, <1>3, <1>4 DEF TallyNext

\* What the workloads and their readers keep true of the two counts.
LEMMA TallyInvariant == TallySpec => []TallyInv
  BY TallyInvInit, TallyInvStep, PTL DEF TallySpec

\* The units, the records and both counts keep their types
\* (control_receiver.py:774-864, see_monitor.py:31-93).
THEOREM TallyTypes == TallySpec => []TallyTypeOK
<1>1. TallyInv => TallyTypeOK
  <2> SUFFICES ASSUME TallyInv PROVE TallyTypeOK
    OBVIOUS
  <2>1. csvCounts = NoCsv \/ csvCounts \in [SeeTypes -> Nat]
    BY DEF TallyInv, CsvInv
  <2> QED
    BY <2>1 DEF TallyInv, UnitTypes, BagsInv, FiniteBag, LiveInv, TallyTypeOK
<1>2. QED
  BY <1>1, TallyInvariant, PTL

\* The summary counts every end of a workload as a restart, but for the last one when
\* STOP comes before the service is up again (control_receiver.py:841-847).
THEOREM RestartsCountedHolds == TallySpec => []RestartsCounted
<1>1. TallyInv => RestartsCounted
  <2> SUFFICES ASSUME TallyInv, csvCounts # NoCsv, NEW c \in Workloads
               PROVE  csvCounts[Shutdowns[c]] \in {ends[c] - 1, ends[c]}
    BY DEF RestartsCounted
  <2>1. unit[c] = "stopped"
        /\ csvCounts[Shutdowns[c]] = IF Started(c) = 0 THEN 0 ELSE Started(c) - 1
    BY DEF TallyInv, CsvInv
  <2>2. Started(c) \in {ends[c], ends[c] + 1}
    BY <2>1 DEF TallyInv, StartsInv
  <2> QED
    BY <2>1, <2>2, CountTypes
<1>2. QED
  BY <1>1, TallyInvariant, PTL

\* When the tailer has read to the end, the live file and the summary have the same
\* number of effects of every type but the shutdowns, although their classifiers look
\* at different fields in a different order (see_monitor.py:31-93,
\* control_receiver.py:828-839).
THEOREM EffectsAgreeHolds == TallySpec => []EffectsAgree
<1>1. ASSUME NEW type \in SeeTypes \ {Shutdowns[c] : c \in Workloads}
      PROVE  type \in LiveTypes /\ EffectsOf(type) = CreditedTo(type)
  <2>1. /\ type \in {"cuda_golden_mismatch", "cuda_nonfinite", "cuda_anomaly",
                     "gpu_mem_upset"}
        /\ type \in LiveTypes
    BY DEF SeeTypes, LiveTypes, Shutdowns, Workloads
  <2>2. ASSUME NEW r \in AllRecords
        PROVE  ClassifySee(r) = type <=> Attributed(r) = type
    <3>1. CASE r.event = "checksum"
      <4>1. r.channel = "compute" /\ (r.mismatch \/ ~r.finite => r.anomaly)
        BY <2>2, <3>1 DEF AllRecords
      <4>2. CASE ~r.anomaly
        BY <2>1, <3>1, <4>1, <4>2 DEF ClassifySee, Attributed
      <4>3. CASE r.anomaly /\ r.mismatch
        BY <2>1, <3>1, <4>1, <4>3 DEF ClassifySee, Attributed
      <4>4. CASE r.anomaly /\ ~r.mismatch /\ ~r.finite
        BY <2>1, <3>1, <4>1, <4>4 DEF ClassifySee, Attributed
      <4>5. CASE r.anomaly /\ ~r.mismatch /\ r.finite
        BY <2>1, <3>1, <4>1, <4>5 DEF ClassifySee, Attributed
      <4> QED
        BY <4>2, <4>3, <4>4, <4>5
    <3>2. CASE r.event = "mem_upset"
      BY <2>1, <2>2, <3>2 DEF ClassifySee, Attributed, AllRecords
    <3>3. CASE r.event \notin {"checksum", "mem_upset"}
      BY <2>1, <3>3 DEF ClassifySee, Attributed
    <3> QED
      BY <3>1, <3>2, <3>3
  <2> QED
    BY <2>1, <2>2 DEF EffectsOf, CreditedTo
<1>2. TallyInv => EffectsAgree
  BY <1>1 DEF TallyInv, LiveInv, CsvInv, EffectsAgree, Counted
<1>3. QED
  BY <1>2, TallyInvariant, PTL

\* No crash of the compute workload is in the summary only: the live file has at least
\* as many shutdowns, less the restarts at the iterations limit
\* (see_monitor.py:54-62, control_receiver.py:841-847).
THEOREM CrashesShownHolds == TallySpec => []CrashesShown
<1>1. TallyInv => CrashesShown
  <2> SUFFICES ASSUME TallyInv, Counted
               PROVE  live["cuda_shutdown"] >= csvCounts["cuda_shutdown"] - cleanEnds["compute"]
    BY DEF CrashesShown
  <2>1. EffectsOf("cuda_shutdown") = FaultsOf
    <3>1. ASSUME NEW r \in AllRecords
          PROVE  ClassifySee(r) = "cuda_shutdown" <=> r.event = "sim_fault"
      BY DEF ClassifySee
    <3> QED
      BY <3>1 DEF EffectsOf, FaultsOf
  <2>2. live["cuda_shutdown"] = Faulted
    BY <2>1 DEF TallyInv, LiveInv, Counted, Faulted, LiveTypes, SeeTypes
  <2>3. /\ unit["compute"] = "stopped"
        /\ csvCounts["cuda_shutdown"] =
             IF Started("compute") = 0 THEN 0 ELSE Started("compute") - 1
    BY DEF TallyInv, CsvInv, Counted, Workloads, Shutdowns
  <2>4. Started("compute") \in {ends["compute"], ends["compute"] + 1}
    BY <2>3 DEF TallyInv, StartsInv, Workloads
  <2>5. \/ Faulted >= Crashes
        \/ Started("compute") = ends["compute"] /\ Faulted >= Crashes - 1
    BY <2>3 DEF TallyInv, CrashesInv
  <2>6. /\ cleanEnds["compute"] \in Nat /\ ends["compute"] \in Nat
        /\ cleanEnds["compute"] <= ends["compute"]
        /\ Started("compute") \in Nat /\ Faulted \in Nat
    BY CountTypes DEF TallyInv, UnitTypes, Workloads
  <2> QED
    BY <2>2, <2>3, <2>4, <2>5, <2>6 DEF Crashes
<1>2. QED
  BY <1>1, TallyInvariant, PTL

-----------------------------------------------------------------------------
(* The parts side by side. *)

\* A step of the composition is a step of one part and a stutter of the others.
LEMMA WorkloadsMoves ==
  [WorkloadsNext]_workloadVars =>
    /\ [LinkNext]_linkVars /\ [LoggerNext]_loggerVars /\ [MemNext]_memVars
    /\ [ParticlesNext]_particlesVars /\ [RequestsNext]_requestVars
    /\ [TallyNext]_tallyVars
BY Zenon DEF WorkloadsNext, workloadVars

\* So what is proved of a part holds in the composition.
LEMMA WorkloadsParts ==
  WorkloadsSpec =>
    LinkSpec /\ LoggerSpec /\ MemSpec /\ ParticlesSpec /\ RequestsSpec /\ TallySpec
<1>1. WorkloadsInit =>
        /\ LinkInit /\ LoggerInit /\ MemInit /\ ParticlesInit /\ RequestsInit
        /\ TallyInit
  BY Zenon DEF WorkloadsInit
<1>2. QED
  BY <1>1, WorkloadsMoves, PTL
  DEF WorkloadsSpec, LinkSpec, LoggerSpec, MemSpec, ParticlesSpec, RequestsSpec, TallySpec

\* The variables of the heartbeat link, of the sampler, of the two workloads, of
\* the requests and of the tally keep their types whichever part runs.
THEOREM WorkloadsTypes == WorkloadsSpec => []WorkloadsTypeOK
<1>1. /\ LinkTypeOK /\ LoggerTypeOK /\ MemTypeOK /\ ParticlesTypeOK
      /\ RequestsTypeOK /\ TallyTypeOK
      => WorkloadsTypeOK
  BY DEF WorkloadsTypeOK
<1>2. QED
  BY <1>1, WorkloadsParts, LinkTypes, LoggerTypes, MemTypes, ParticlesTypes,
     RequestsTypes, TallyTypes, PTL
=============================================================================
