---------------------------- MODULE BaselineFiles ----------------------------
(* How the current CSV of a baseline run gets into results/: the arbiter's
   pull mirrors the CSV of the DUT, and the GUI copies the mirrored file to
   the next free results/baseline_<N>.csv, at once or from a thread that waits
   for the mirror to catch up.

   A CSV is measured in half rows, so that a mirror may end in the middle of
   one.  Its header row is left out on both sides. *)
EXTENDS Integers, FiniteSets, FiniteSetsExt

CONSTANTS
  Baselines,     \* the baseline runs that were stopped
  Rows,          \* rows of a finished CSV on the DUT
  MaxFailed,     \* bound: rows of it that are SENSOR_READ_FAILED
  MaxResult,     \* bound: numbers of result files
  InPlace        \* the pull appends (rsync); else it starts over (scp)

ASSUME BaselineAssumption ==
  /\ Rows \in Nat /\ MaxFailed \in 0..Rows /\ MaxResult \in Nat
  /\ InPlace \in BOOLEAN /\ "nobody" \notin Baselines

VARIABLES
  goodOf,        \* `samples` of the STOP reply, by run: the good rows
  mirrored,      \* half rows the arbiter has; Absent if it has no file
  boardRoot,     \* _see_log_root is the one the DUT's CSVs are mirrored to
  fetch,         \* how far _fetch_baseline_csv is, by run
  number,        \* the number _copy_baseline_csv chose, while it copies
  results,       \* results/baseline_<N>.csv
  told,          \* what the activity log said of the copy, by run
  \* history
  rootChanged    \* the operator selected another DUT while a fetch ran

filesVars == <<goodOf, mirrored, boardRoot, fetch, number, results,
               told, rootChanged>>

Absent == -1
NoFile == [of |-> "nobody", halves |-> 0]
Numbers == 1..MaxResult
Phases == {"none", "trying", "waiting", "posted", "copying", "expired",
           "gaveUp", "ended"}

FilesTypeOK ==
  /\ goodOf \in [Baselines -> 0..Rows]
  /\ mirrored \in [Baselines -> Absent..(2 * Rows)]
  /\ boardRoot \in BOOLEAN /\ rootChanged \in BOOLEAN
  /\ fetch \in [Baselines -> Phases]
  /\ number \in [Baselines -> 0..MaxResult]
  /\ results \in [Numbers -> [of : Baselines \cup {"nobody"}, halves : 0..(2 * Rows)]]
  /\ told \in [Baselines -> {"nothing", "saved", "incomplete", "missing",
                             "failed"}]
  /\ \A b \in Baselines : number[b] > 0 <=> fetch[b] \in {"trying", "copying", "gaveUp"}

FilesInit ==
  /\ goodOf \in [Baselines -> (Rows - MaxFailed)..Rows]
  /\ mirrored = [b \in Baselines |-> Absent]
  /\ boardRoot = TRUE /\ rootChanged = FALSE
  /\ fetch = [b \in Baselines |-> "none"]
  /\ number = [b \in Baselines |-> 0]
  /\ results = [n \in Numbers |-> NoFile]
  /\ told = [b \in Baselines |-> "nothing"]

----------------------------------------------------------------------------
(* The pull, and the operator's selection of a DUT. *)

Pull(b) ==
  /\ \E h \in (IF InPlace THEN mirrored[b] + 1 ELSE 0)..(2 * Rows) :
       mirrored' = [mirrored EXCEPT ![b] = h]
  /\ UNCHANGED <<goodOf, boardRoot, fetch, number, results, told,
                 rootChanged>>

Copying(b) == fetch[b] \in {"trying", "copying", "gaveUp"}

\* MUTANT of TkIdle: a copy runs beside the Tk thread's other callbacks.
TkAnytime == TRUE

\* One handler or callback at a time runs on the Tk thread.
TkIdle == \A b \in Baselines : ~Copying(b)

SelectDut ==
  /\ TkIdle
  /\ boardRoot' = ~boardRoot /\ rootChanged' = TRUE
  /\ UNCHANGED <<goodOf, mirrored, fetch, number, results, told>>

----------------------------------------------------------------------------
(* _copy_baseline_csv, which runs on the Tk thread. *)

\* _csv_data_rows: a row that has only begun is a line too.
DataRows(b) == (mirrored[b] + 1) \div 2

\* source.is_file(), under the root that is selected now.
Arrived(b) == boardRoot /\ mirrored[b] # Absent

\* MUTANT of Caught: one row short is enough.
CaughtAllButOne(b) == goodOf[b] > 0 => DataRows(b) + 1 >= goodOf[b]

\* expected_rows: none if the DUT counted no good sample.
Caught(b) == goodOf[b] > 0 => DataRows(b) >= goodOf[b]

\* _next_result_path.
NextNumber == Min({n \in Numbers : results[n] = NoFile})

\* Bound: there is a number left.
Begin(b, stage) ==
  /\ \E n \in Numbers : results[n] = NoFile
  /\ fetch' = [fetch EXCEPT ![b] = stage]
  /\ number' = [number EXCEPT ![b] = NextNumber]
  /\ UNCHANGED <<goodOf, mirrored, boardRoot, results, told,
                 rootChanged>>

EndFetch(b, word) ==
  /\ fetch' = [fetch EXCEPT ![b] = "ended"]
  /\ told' = [told EXCEPT ![b] = word]

\* destination.write_bytes(source.read_bytes()).
Save(b, word) ==
  /\ results' = [results EXCEPT ![number[b]] = [of |-> b, halves |-> mirrored[b]]]
  /\ EndFetch(b, word)

\* An OSError on the way: a file that may have been created, and a log line.
SaveFails(b) ==
  \/ UNCHANGED results
  \/ results' = [results EXCEPT ![number[b]] = [of |-> b, halves |-> 0]]

Saved(b) == IF fetch[b] = "gaveUp" THEN "incomplete" ELSE "saved"

\* MUTANT of FinishCopy: a copy that was written is tried again.
FinishAndRetry(b) ==
  /\ Copying(b)
  /\ number' = [number EXCEPT ![b] = 0]
  /\ results' = [results EXCEPT ![number[b]] = [of |-> b, halves |-> mirrored[b]]]
  /\ fetch' = [fetch EXCEPT ![b] = IF @ = "trying" THEN "waiting" ELSE "ended"]
  /\ told' = [told EXCEPT ![b] = IF fetch[b] = "trying" THEN @ ELSE Saved(b)]
  /\ UNCHANGED <<goodOf, mirrored, boardRoot, rootChanged>>

FinishCopy(b) ==
  /\ Copying(b)
  /\ number' = [number EXCEPT ![b] = 0]
  /\ \/ Save(b, Saved(b))
     \/ SaveFails(b) /\ fetch[b] = "copying" /\ EndFetch(b, "failed")
     \/ SaveFails(b) /\ fetch[b] = "gaveUp" /\ EndFetch(b, "missing")
     \/ /\ SaveFails(b) /\ fetch[b] = "trying"
        /\ fetch' = [fetch EXCEPT ![b] = "waiting"] /\ UNCHANGED told
  /\ UNCHANGED <<goodOf, mirrored, boardRoot, rootChanged>>

----------------------------------------------------------------------------
(* _fetch_baseline_csv. *)

\* The Tk thread moves the fetch of b from one stage to the next.
Move(b, stage) ==
  /\ fetch' = [fetch EXCEPT ![b] = stage]
  /\ UNCHANGED <<goodOf, mirrored, boardRoot, number, results, told,
                 rootChanged>>

\* The STOP reply is handled: try at once, else start the worker.
StopHandled(b) ==
  /\ TkIdle /\ fetch[b] = "none"
  /\ IF Arrived(b) /\ Caught(b) THEN Begin(b, "trying") ELSE Move(b, "waiting")

\* worker: what it sees is posted to the Tk thread, and it returns.
WorkerSees(b) ==
  /\ fetch[b] = "waiting" /\ Arrived(b) /\ Caught(b)
  /\ Move(b, "posted")

WorkerOutOfTime(b) ==
  /\ fetch[b] = "waiting"
  /\ Move(b, "expired")

\* The posted copy looks again, and returns None without a word if the file is
\* no longer what the worker saw.
RunPosted(b) ==
  /\ TkIdle /\ fetch[b] = "posted"
  /\ IF Arrived(b) /\ Caught(b) THEN Begin(b, "copying") ELSE Move(b, "ended")

\* MUTANT of RunGiveUp: a file that never arrived is not spoken of.
GiveUpSilently(b) ==
  /\ TkIdle /\ fetch[b] = "expired"
  /\ IF Arrived(b) THEN Begin(b, "gaveUp") ELSE Move(b, "ended")

\* give_up: whatever did arrive.
RunGiveUp(b) ==
  /\ TkIdle /\ fetch[b] = "expired"
  /\ \/ Arrived(b) /\ Begin(b, "gaveUp")
     \/ /\ ~Arrived(b) /\ EndFetch(b, "missing")
        /\ UNCHANGED <<goodOf, mirrored, boardRoot, number, results,
                       rootChanged>>

FilesNext ==
  \/ SelectDut
  \/ \E b \in Baselines :
       \/ Pull(b) \/ StopHandled(b) \/ WorkerSees(b) \/ WorkerOutOfTime(b)
       \/ RunPosted(b) \/ RunGiveUp(b) \/ FinishCopy(b)

FilesSpec == FilesInit /\ [][FilesNext]_filesVars

\* The waiting thread and the Tk loop go on, and a copy ends.
FetchStep(b) ==
  WorkerOutOfTime(b) \/ RunPosted(b) \/ RunGiveUp(b) \/ FinishCopy(b)
FilesFairness == \A b \in Baselines : WF_filesVars(FetchStep(b))

FairFilesSpec == FilesSpec /\ FilesFairness

----------------------------------------------------------------------------
(* Properties. *)

\* A result file is never written twice, although two baselines may be on
\* their way at once and the number is chosen before the bytes are written
\* (_next_result_path; everything that writes runs on the Tk thread).
NoOverwrite ==
  [][\A n \in Numbers : results[n] # NoFile => results'[n] = results[n]]_filesVars

\* A baseline whose copy did not fail is in one result file.
SavedOnce ==
  \A b \in Baselines : told[b] \in {"saved", "incomplete"} =>
    Cardinality({n \in Numbers : results[n].of = b /\ results[n].halves > 0}) <= 1

\* What is called saved, with a mirror that only grows, has at least as many
\* rows, the last one perhaps in part, as the DUT counted good samples
\* (expected_rows).
SavedHasSamples ==
  InPlace =>
    \A n \in Numbers : \A b \in Baselines :
      results[n].of = b /\ told[b] = "saved" /\ results[n].halves > 0
        => (results[n].halves + 1) \div 2 >= goodOf[b]

\* Whoever waits for a baseline's CSV is told in the end how it went, as long
\* as the mirror only grows and the DUT selection stays (worker, give_up): there
\* comes a time when nobody waits.
FetchAnswered ==
  <>[](\A b \in Baselines :
         fetch[b] = "none" \/ told[b] # "nothing" \/ rootChanged \/ ~InPlace)
=============================================================================
