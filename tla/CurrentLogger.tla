---------------------------- MODULE CurrentLogger ----------------------------
(* The baseline sampler, current_logger.py: one row of current per interval
   until the duration is over or a signal comes, then a summary.  Time is
   counted in ticks since the first sample was due; a reading of the sensor
   may fail, and may take long. *)
EXTENDS Integers, Sequences, FiniteSets, Functions

CONSTANTS
  Interval,         \* --interval-s, in ticks
  Duration,         \* --duration-s, in ticks; 0 is until signalled
  RollingWindow,    \* --rolling-window
  Readings,         \* the currents the sensor may read
  MaxClock          \* bound: ticks of a run

Failed == -1        \* read_sample: None
Blank == -1         \* the column is empty

ASSUME LoggerAssumption ==
  /\ Interval \in Nat \ {0} /\ Duration \in Nat /\ RollingWindow \in Nat \ {0}
  /\ Readings \subseteq Nat /\ MaxClock \in Nat

VARIABLES
  phase,       \* "loop", "wait", and then "done", "raised" or "killed"
  clock,       \* time.monotonic() - start
  stopSignal,  \* g_stop
  window,      \* window: the last good readings
  csvRows,     \* the CSV, with the time a reading began; `sequence` is its length
  samples, failures,   \* of `state`
  summary      \* the sidecar; NoSummary until it is written

loggerVars == <<phase, clock, stopSignal, window, csvRows, samples, failures,
                summary>>

Row == [at : Nat, ma : Nat \cup {Failed}, rolling : Nat \cup {Blank}]
NoSummary == [samples |-> -1, failures |-> -1, ended |-> -1, early |-> FALSE]

LoggerTypeOK ==
  /\ phase \in {"loop", "wait", "done", "raised", "killed"}
  /\ clock \in Nat /\ stopSignal \in BOOLEAN
  /\ window \in Seq(Nat) /\ Len(window) <= RollingWindow
  /\ csvRows \in Seq(Row)
  /\ samples \in Nat /\ failures \in Nat
  /\ summary \in [samples : Int, failures : Int, ended : Int, early : BOOLEAN]

LoggerInit ==
  /\ phase = "loop" /\ clock = 0 /\ stopSignal = FALSE
  /\ window = <<>> /\ csvRows = <<>> /\ samples = 0 /\ failures = 0
  /\ summary = NoSummary

----------------------------------------------------------------------------
LoggerRuns == phase \in {"loop", "wait"}

Elapsed == Duration > 0 /\ clock >= Duration

LoggerTick ==
  /\ LoggerRuns /\ clock < MaxClock /\ clock' = clock + 1
  /\ UNCHANGED <<phase, stopSignal, window, csvRows, samples, failures, summary>>

\* _handle_signal.
LoggerSignal ==
  /\ LoggerRuns /\ stopSignal' = TRUE
  /\ UNCHANGED <<phase, clock, window, csvRows, samples, failures, summary>>

\* The window after one more good reading, and the average it gives (as a sum).
Pushed(w, ma) ==
  IF Len(w) = RollingWindow THEN Append(Tail(w), ma) ELSE Append(w, ma)

Rolling(w) == IF Len(w) = RollingWindow THEN SumFunction(w) ELSE Blank

SampleDue == phase = "loop" /\ ~stopSignal /\ ~Elapsed

\* read_sample succeeds; the row is written and flushed.
SampleGood(ma) ==
  /\ SampleDue
  /\ window' = Pushed(window, ma)
  /\ csvRows' = Append(csvRows, [at |-> clock, ma |-> ma,
                                 rolling |-> Rolling(Pushed(window, ma))])
  /\ samples' = samples + 1 /\ phase' = "wait"
  /\ UNCHANGED <<clock, stopSignal, failures, summary>>

\* MUTANT of SampleFailed: the failure is counted as a sample.
FailureIsSample ==
  /\ SampleDue
  /\ csvRows' = Append(csvRows, [at |-> clock, ma |-> Failed, rolling |-> Blank])
  /\ samples' = samples + 1 /\ phase' = "wait"
  /\ UNCHANGED <<clock, stopSignal, window, failures, summary>>

\* It fails: a row with a flag, and the window as it was.
SampleFailed ==
  /\ SampleDue
  /\ csvRows' = Append(csvRows, [at |-> clock, ma |-> Failed, rolling |-> Blank])
  /\ failures' = failures + 1 /\ phase' = "wait"
  /\ UNCHANGED <<clock, stopSignal, window, samples, summary>>

\* MUTANT of WaitOver: the deadline is that of the sample just taken.
WaitTooShort ==
  /\ phase = "wait"
  /\ stopSignal \/ Elapsed \/ clock >= (Len(csvRows) - 1) * Interval
  /\ phase' = "loop"
  /\ UNCHANGED <<clock, stopSignal, window, csvRows, samples, failures, summary>>

\* The deadline is absolute: start + sequence * interval.
WaitOver ==
  /\ phase = "wait"
  /\ stopSignal \/ Elapsed \/ clock >= Len(csvRows) * Interval
  /\ phase' = "loop"
  /\ UNCHANGED <<clock, stopSignal, window, csvRows, samples, failures, summary>>

\* The end of the loop: build_summary, write_summary.  An OSError of
\* write_summary leaves no summary.
Finish ==
  /\ phase = "loop" /\ (stopSignal \/ Elapsed)
  /\ phase' = "done"
  /\ \/ summary' = [samples |-> samples, failures |-> failures, ended |-> clock,
                    early |-> stopSignal /\ Duration > 0 /\ clock < Duration]
     \/ UNCHANGED summary
  /\ UNCHANGED <<clock, stopSignal, window, csvRows, samples, failures>>

\* The CSV cannot be written: nothing catches it.
WriteRaises ==
  /\ SampleDue /\ phase' = "raised"
  /\ UNCHANGED <<clock, stopSignal, window, csvRows, samples, failures, summary>>

\* SIGKILL, or the board is gone: the flushed rows stay.
LoggerKilled ==
  /\ LoggerRuns /\ phase' = "killed"
  /\ UNCHANGED <<clock, stopSignal, window, csvRows, samples, failures, summary>>

LoggerNext ==
  \/ LoggerTick \/ LoggerSignal
  \/ (\E ma \in Readings : SampleGood(ma)) \/ SampleFailed
  \/ WaitOver \/ Finish \/ WriteRaises \/ LoggerKilled

LoggerSpec == LoggerInit /\ [][LoggerNext]_loggerVars

----------------------------------------------------------------------------
(* Properties. *)

GoodRows(k) == {j \in 1..k : csvRows[j].ma # Failed}

\* The summary, which the STOP reply passes on, says what the CSV holds: its
\* good and its failed rows; and a run it does not call stopped early has
\* lasted its whole duration (build_summary, stopped_early).
SummaryIsTrue ==
  summary # NoSummary =>
    /\ summary.samples = Cardinality(GoodRows(Len(csvRows)))
    /\ summary.failures = Len(csvRows) - Cardinality(GoodRows(Len(csvRows)))
    /\ Duration > 0 => (summary.early <=> summary.ended < Duration)

\* The last RollingWindow good rows up to k.
AreLast(last, k) ==
  /\ Cardinality(last) = RollingWindow
  /\ \A i \in GoodRows(k) \ last, j \in last : i < j

\* An average is over the last RollingWindow good readings, with no regard to
\* failed ones between them, and is there as soon as there are that many.
RollingIsLast ==
  \A k \in DOMAIN csvRows :
    csvRows[k].ma # Failed =>
      IF Cardinality(GoodRows(k)) < RollingWindow
      THEN csvRows[k].rolling = Blank
      ELSE \E last \in SUBSET GoodRows(k) :
             /\ AreLast(last, k)
             /\ csvRows[k].rolling = SumFunction([j \in last |-> csvRows[j].ma])

\* What the logger leaves behind is true.
LoggedIsTrue == SummaryIsTrue /\ RollingIsLast

\* Sampling does not run ahead of its schedule, however late earlier samples
\* were: row k is due at k - 1 intervals, and none is due when the duration is
\* over (deadline = start + sequence * interval_s).
NeverAhead ==
  \A k \in DOMAIN csvRows :
    /\ csvRows[k].at >= (k - 1) * Interval
    /\ Duration > 0 => csvRows[k].at < Duration
=============================================================================
