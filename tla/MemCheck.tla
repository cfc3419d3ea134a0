------------------------------ MODULE MemCheck ------------------------------
(* The memory tester, mem_check.py: paint a pattern, read it back HoldSweeps
   times chunk by chunk, log and scrub what differs, paint the next one.  Bits
   flip at any moment, also between two statements of the tester.

   A byte is the set of its bits that differ from the pattern: painting and
   scrubbing empty it, whatever the pattern is.  Both targets, cpu and gpu, run
   this loop, each on its own buffer. *)
EXTENDS Integers, FiniteSets, Sequences

CONSTANTS
  Chunks,        \* the buffer: a sequence of disjoint sets of bytes
  Bits,
  HoldSweeps,    \* hold_sweeps
  MaxReport,     \* max_report
  CheckpointSweeps,  \* checkpoint_sweeps
  Iterations,    \* iterations; 0 is for ever
  InjectSweep,   \* fault_inject_sweep; 0 is never
  InjectByte, InjectBit,
  MaxSweeps,     \* bound: sweeps of a tester that runs for ever
  MaxFlips       \* bound: bits that flip

Bytes == UNION {Chunks[c] : c \in DOMAIN Chunks}

ASSUME MemAssumption ==
  /\ IsFiniteSet(Bytes) /\ Chunks \in Seq(SUBSET Bytes)
  /\ \A c, d \in DOMAIN Chunks : c # d => Chunks[c] \cap Chunks[d] = {}
  /\ HoldSweeps \in Nat \ {0} /\ MaxReport \in Nat \ {0}
  /\ CheckpointSweeps \in Nat \ {0} /\ Iterations \in Nat
  /\ InjectByte \in Bytes /\ InjectBit \in Bits

VARIABLES
  mem,           \* buf
  at,            \* where main is: see Places
  chunk,         \* the chunk that is compared next, or was last
  idx,           \* idx: bytes of it that differed
  hold,          \* sweeps done under this pattern
  totalMism, emitted,          \* of this sweep
  sweeps, upsets, corruptionSeen, memStop,   \* of main; g_stop
  recorded,      \* mem_upset records in the log
  overflowed,    \* total_mismatches - reported, over mem_upset_overflow records
  checkpoint,    \* upsets, as the last checkpoint or stop record has it
  \* history
  flips,         \* bits that flipped
  hits,          \* bytes that came to differ, less those that came right again
  unseen         \* bytes that differed when the next pattern was painted

logVars == <<recorded, overflowed, checkpoint>>
countVars == <<sweeps, upsets, corruptionSeen, memStop>>
memVars == <<mem, at, chunk, idx, hold, totalMism, emitted, countVars, logVars,
             flips, hits, unseen>>

Places == {"paint", "sweep", "compare", "report", "scrub", "sleep",
           "stop", "end"}

MemTypeOK ==
  /\ mem \in [Bytes -> SUBSET Bits] /\ at \in Places
  /\ chunk \in 1..(Len(Chunks) + 1) /\ idx \subseteq Bytes
  /\ hold \in 0..HoldSweeps
  /\ totalMism \in Nat /\ emitted \in 0..MaxReport
  /\ sweeps \in Nat /\ upsets \in Nat
  /\ corruptionSeen \in BOOLEAN /\ memStop \in BOOLEAN
  /\ recorded \in Nat /\ overflowed \in Nat /\ checkpoint \in Nat
  /\ flips \in Nat /\ hits \in Int /\ unseen \in Nat

MemInit ==
  /\ mem = [b \in Bytes |-> {}] /\ at = "paint" /\ chunk = 1 /\ idx = {}
  /\ hold = 0 /\ totalMism = 0 /\ emitted = 0
  /\ sweeps = 0 /\ upsets = 0 /\ corruptionSeen = FALSE /\ memStop = FALSE
  /\ recorded = 0 /\ overflowed = 0 /\ checkpoint = 0
  /\ flips = 0 /\ hits = 0 /\ unseen = 0

Dirty(m) == {b \in Bytes : m[b] # {}}
Flipped(m, b, bit) ==
  [m EXCEPT ![b] = IF bit \in @ THEN @ \ {bit} ELSE @ \cup {bit}]

----------------------------------------------------------------------------
(* The beam, and SIGTERM. *)

\* What a flip does to the number of differing bytes that nobody has counted.
FlipAt(b, bit) ==
  /\ mem' = Flipped(mem, b, bit)
  /\ hits' = IF b \in idx THEN hits
             ELSE hits + Cardinality({b} \cap Dirty(mem'))
                       - Cardinality({b} \cap Dirty(mem))

Upset ==
  /\ at # "end" /\ flips < MaxFlips /\ flips' = flips + 1
  /\ \E b \in Bytes : \E bit \in Bits : FlipAt(b, bit)
  /\ UNCHANGED <<at, chunk, idx, hold, totalMism, emitted, countVars, logVars,
                 unseen>>

MemSignal ==
  /\ at # "end" /\ memStop' = TRUE
  /\ UNCHANGED <<mem, at, chunk, idx, hold, totalMism, emitted, sweeps, upsets,
                 corruptionSeen, logVars, flips, hits, unseen>>

----------------------------------------------------------------------------
(* main: the loops over patterns, sweeps and chunks. *)

\* buf[:] = val; also if g_stop was set since it was last looked at.
Paint ==
  /\ at = "paint"
  /\ mem' = [b \in Bytes |-> {}]
  /\ unseen' = unseen + Cardinality(Dirty(mem))
  /\ hold' = 0 /\ at' = "sweep"
  /\ UNCHANGED <<chunk, idx, totalMism, emitted, countVars, logVars, flips, hits>>

\* The head of the loop over the held sweeps, and the injected fault.
Sweep ==
  /\ at = "sweep" /\ ~memStop /\ hold < HoldSweeps
  /\ Iterations = 0 => sweeps < MaxSweeps
  /\ IF InjectSweep > 0 /\ sweeps + 1 = InjectSweep
     THEN FlipAt(InjectByte, InjectBit)
     ELSE UNCHANGED <<mem, hits>>
  /\ chunk' = 1 /\ totalMism' = 0 /\ emitted' = 0 /\ at' = "compare"
  /\ UNCHANGED <<idx, hold, countVars, logVars, flips, unseen>>

Repaint ==
  /\ at = "sweep" /\ ~memStop /\ hold = HoldSweeps
  /\ at' = "paint"
  /\ UNCHANGED <<mem, chunk, idx, hold, totalMism, emitted, countVars, logVars,
                 flips, hits, unseen>>

\* idx = where(seg != val).
Compare ==
  LET differ == Chunks[chunk] \cap Dirty(mem) IN
  /\ at = "compare" /\ chunk <= Len(Chunks)
  /\ IF differ = {}
     THEN /\ chunk' = chunk + 1
          /\ UNCHANGED <<at, idx, totalMism, corruptionSeen>>
     ELSE /\ idx' = differ
          /\ totalMism' = totalMism + Cardinality(differ)
          /\ corruptionSeen' = TRUE /\ at' = "report"
          /\ UNCHANGED chunk
  /\ UNCHANGED <<mem, hold, emitted, sweeps, upsets, memStop, logVars, flips,
                 hits, unseen>>

\* The mem_upset records of the chunk, up to max_report in the sweep.
Report ==
  LET room == MaxReport - emitted
      n == IF Cardinality(idx) < room THEN Cardinality(idx) ELSE room
  IN /\ at = "report"
     /\ emitted' = emitted + n /\ recorded' = recorded + n
     /\ at' = "scrub"
     /\ UNCHANGED <<mem, chunk, idx, hold, totalMism, countVars, overflowed,
                    checkpoint, flips, hits, unseen>>

\* MUTANT of Scrub: only as many bytes are rewritten as the sweep may report.
ScrubReported ==
  /\ at = "scrub"
  /\ mem' = [b \in Bytes |-> IF b \in idx /\ totalMism <= MaxReport THEN {} ELSE mem[b]]
  /\ idx' = {} /\ chunk' = chunk + 1 /\ at' = "compare"
  /\ UNCHANGED <<hold, totalMism, emitted, countVars, logVars, flips, hits,
                 unseen>>

\* seg[idx] = val: also of the bytes no record was written for.
Scrub ==
  /\ at = "scrub"
  /\ mem' = [b \in Bytes |-> IF b \in idx THEN {} ELSE mem[b]]
  /\ idx' = {} /\ chunk' = chunk + 1 /\ at' = "compare"
  /\ UNCHANGED <<hold, totalMism, emitted, countVars, logVars, flips, hits,
                 unseen>>

\* MUTANT of CountSweep: the overflow is all mismatches of the sweep.
OverflowOfAll ==
  /\ at = "compare" /\ chunk > Len(Chunks)
  /\ upsets' = upsets + totalMism
  /\ overflowed' = IF totalMism > emitted THEN overflowed + totalMism ELSE overflowed
  /\ sweeps' = sweeps + 1 /\ hold' = hold + 1
  /\ checkpoint' = IF (sweeps + 1) % CheckpointSweeps = 0
                   THEN upsets + totalMism ELSE checkpoint
  /\ IF Iterations > 0 /\ sweeps + 1 >= Iterations
     THEN memStop' = TRUE /\ at' = "stop"
     ELSE UNCHANGED memStop /\ at' = "sleep"
  /\ totalMism' = 0
  /\ UNCHANGED <<mem, chunk, idx, emitted, corruptionSeen, recorded, flips, hits,
                 unseen>>

\* The end of the sweep: the counters, an overflow record, a checkpoint, and
\* the limit of sweeps.
CountSweep ==
  /\ at = "compare" /\ chunk > Len(Chunks)
  /\ upsets' = upsets + totalMism
  /\ overflowed' = IF totalMism > emitted
                   THEN overflowed + totalMism - emitted ELSE overflowed
  /\ sweeps' = sweeps + 1 /\ hold' = hold + 1
  /\ checkpoint' = IF (sweeps + 1) % CheckpointSweeps = 0
                   THEN upsets + totalMism ELSE checkpoint
  /\ IF Iterations > 0 /\ sweeps + 1 >= Iterations
     THEN memStop' = TRUE /\ at' = "stop"
     ELSE UNCHANGED memStop /\ at' = "sleep"
  /\ totalMism' = 0
  /\ UNCHANGED <<mem, chunk, idx, emitted, corruptionSeen, recorded, flips, hits,
                 unseen>>

\* The dwell between sweeps is over.
Wake ==
  /\ at = "sleep" /\ at' = "sweep"
  /\ UNCHANGED <<mem, chunk, idx, hold, totalMism, emitted, countVars, logVars,
                 flips, hits, unseen>>

\* g_stop is seen, by a sweep or between two patterns or rounds of them, and the
\* stop record written.
Stop ==
  /\ at \in {"paint", "sweep", "stop"} /\ memStop
  /\ at' = "end" /\ checkpoint' = upsets
  /\ UNCHANGED <<mem, chunk, idx, hold, totalMism, emitted, countVars, recorded,
                 overflowed, flips, hits, unseen>>

MemNext ==
  \/ Upset \/ MemSignal
  \/ Paint \/ Sweep \/ Repaint \/ Compare \/ Report \/ Scrub \/ CountSweep
  \/ Wake \/ Stop

MemSpec == MemInit /\ [][MemNext]_memVars

----------------------------------------------------------------------------
(* Properties. *)

\* Every byte that came to differ is counted once, still differs, or was
\* painted over unseen: the cap on records loses no count, scrubbing lets
\* nothing be counted twice, and a flip during the scan is not lost.
Conservation ==
  hits = upsets + totalMism + Cardinality(Dirty(mem) \ idx) + unseen

\* The log alone gives the number of upsets, in spite of the cap: the records
\* and what the overflow records add to them; and the stop record's verdict,
\* which is the exit code too, agrees (corruption_seen).
LogAddsUp ==
  at \in {"paint", "sweep", "sleep", "stop", "end"} =>
    /\ upsets = recorded + overflowed
    /\ corruptionSeen <=> upsets > 0
=============================================================================
