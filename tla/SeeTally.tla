------------------------------ MODULE SeeTally ------------------------------
(* The two counts of a run's single-event effects.  The arbiter's is made live,
   record by record (see_monitor.classify_see); the receiver's is made at the
   STOP, from the same logs (summarize_run), and goes to test_N.csv.  They
   count a workload that ended and was started again by systemd in different
   ways: the one by its sim_fault records, the other by its start records.

   The records are those of one run, from its START to its STOP, as a bag: both
   counts are sums, whatever the order.  No program
   writes status "error" in these logs.  The mirror's own losses are LogMirror's,
   so here every record gets to the tailer. *)
EXTENDS Integers, FiniteSetsExt, Bags

CONSTANTS
  TallyLimited,   \* the units whose config has an iterations limit
  TallyRecords,   \* bound: records that show an upset
  TallyEnds       \* bound: unexpected ends of a unit

VARIABLES
  unit,       \* of the channels: "off" between two processes
  marker,     \* running.flag of the compute channel
  records,    \* the run's records, those of both channels
  tailed,     \* the records the tailer has read
  live,       \* see_events/<run_id>.jsonl: its lines, by type
  csvCounts,    \* of the STOP; NoCsv before
  \* history
  ends,       \* ends of the unit after its start record, without a STOP
  cleanEnds,  \* those at its limit
  early       \* other ends: before the start record, after a caught fault

unitVars == <<unit, marker, records, ends, cleanEnds, early>>
tallyVars == <<unitVars, live, tailed, csvCounts>>

Workloads == {"compute", "memory"}
Shutdowns == [compute |-> "cuda_shutdown", memory |-> "mem_tester_restart"]
SeeTypes == {"cuda_golden_mismatch", "cuda_nonfinite", "cuda_anomaly",
             "cuda_shutdown", "gpu_mem_upset", "mem_tester_restart"}
LiveTypes == SeeTypes \cup {"see_dump_saved"}
NoCsv == [type \in {} |-> 0]

\* A record: what the two classifiers look at.
RecordOf(channel, event) ==
  [channel |-> channel, event |-> event,
   mismatch |-> FALSE, finite |-> TRUE, anomaly |-> FALSE, dump |-> FALSE]
Checksum(mismatch, finite, bounded) ==
  [RecordOf("compute", "checksum") EXCEPT
     !.mismatch = mismatch, !.finite = finite,
     !.anomaly = mismatch \/ ~finite \/ ~bounded]
SeeMarker(dumped) == [RecordOf("compute", "see_event") EXCEPT !.dump = dumped]

TallyTypeOK ==
  /\ unit \in [Workloads -> {"off", "starting", "up", "faulted", "stopped"}]
  /\ marker \in BOOLEAN /\ IsABag(records) /\ tailed \sqsubseteq records
  /\ live \in [LiveTypes -> Nat]
  /\ csvCounts = NoCsv \/ csvCounts \in [SeeTypes -> Nat]
  /\ \A c \in Workloads : cleanEnds[c] <= ends[c]

TallyInit ==
  /\ unit = [c \in Workloads |-> "off"] /\ marker = FALSE
  /\ records = EmptyBag /\ live = [type \in LiveTypes |-> 0] /\ tailed = EmptyBag
  /\ csvCounts = NoCsv
  /\ ends = [c \in Workloads |-> 0] /\ cleanEnds = [c \in Workloads |-> 0]
  /\ early = 0

----------------------------------------------------------------------------
(* The units. *)

Write(set) == records' = records (+) SetToBag(set)
CountIn(bag, Test(_)) ==
  SumFunction([r \in {x \in DOMAIN bag : Test(x)} |-> bag[r]])
Shown == CountIn(records, LAMBDA r : r.event \in {"checksum", "mem_upset"})
Ended == ends["compute"] + ends["memory"] + early

\* The compute channel tells of a marker it finds, and sets its own.
FlagRun ==
  /\ unit["compute"] = "off"
  /\ unit' = [unit EXCEPT !["compute"] = "starting"] /\ marker' = TRUE
  /\ IF marker THEN Write({RecordOf("compute", "sim_fault")}) ELSE UNCHANGED records
  /\ UNCHANGED <<ends, cleanEnds, early, live, tailed, csvCounts>>

WriteStart(c) ==
  /\ unit[c] = IF c = "compute" THEN "starting" ELSE "off"
  /\ unit' = [unit EXCEPT ![c] = "up"] /\ Write({RecordOf(c, "start")})
  /\ UNCHANGED <<marker, ends, cleanEnds, early, live, tailed, csvCounts>>

\* The last checkpoint of an epoch, then the marker of an epoch that differs.
EndEpoch ==
  /\ unit["compute"] = "up" /\ Shown < TallyRecords
  /\ \E mismatch, finite, bounded, dumped \in BOOLEAN :
       LET checksum == Checksum(mismatch, finite, bounded)
       IN Write({checksum} \cup IF checksum.anomaly THEN {SeeMarker(dumped)} ELSE {})
  /\ UNCHANGED <<unit, marker, ends, cleanEnds, early, live, tailed, csvCounts>>

\* A sweep reports one flipped byte, or more of them than it lists.
SweepReports ==
  /\ unit["memory"] = "up" /\ Shown < TallyRecords
  /\ \E more \in SUBSET {RecordOf("memory", "mem_upset_overflow")} :
       Write({RecordOf("memory", "mem_upset")} \cup more)
  /\ UNCHANGED <<unit, marker, ends, cleanEnds, early, live, tailed, csvCounts>>

\* A CUDA error at a checkpoint: a record of its own, and no marker at exit.
CatchFault ==
  /\ unit["compute"] = "up" /\ Ended < TallyEnds
  /\ unit' = [unit EXCEPT !["compute"] = "faulted"]
  /\ ends' = [ends EXCEPT !["compute"] = @ + 1]
  /\ \E dumped \in BOOLEAN :
       Write({[RecordOf("compute", "sim_fault") EXCEPT !.dump = dumped]})
  /\ UNCHANGED <<marker, cleanEnds, early, live, tailed, csvCounts>>

ExitFaulted ==
  /\ unit["compute"] = "faulted"
  /\ unit' = [unit EXCEPT !["compute"] = "off"] /\ marker' = FALSE
  /\ UNCHANGED <<records, ends, cleanEnds, early, live, tailed, csvCounts>>

\* The other ends leave the marker.
DieAs(c) ==
  /\ unit[c] \in {"starting", "up", "faulted"} /\ Ended < TallyEnds
  /\ unit' = [unit EXCEPT ![c] = "off"]
  /\ IF unit[c] = "up" THEN ends' = [ends EXCEPT ![c] = @ + 1] /\ UNCHANGED early
     ELSE early' = early + 1 /\ UNCHANGED ends
  /\ UNCHANGED <<marker, records, cleanEnds, live, tailed, csvCounts>>

\* iterations is reached: the program ends as if it was stopped.
EndAtLimit(c) ==
  /\ unit[c] = "up" /\ c \in TallyLimited /\ Ended < TallyEnds
  /\ unit' = [unit EXCEPT ![c] = "off"]
  /\ marker' = (marker /\ c # "compute")
  /\ ends' = [ends EXCEPT ![c] = @ + 1]
  /\ cleanEnds' = [cleanEnds EXCEPT ![c] = @ + 1]
  /\ Write({RecordOf(c, "stop")})
  /\ UNCHANGED <<early, live, tailed, csvCounts>>

\* systemctl stop: a running program ends at its next look at g_stop.
StopUnits(c) ==
  /\ unit[c] # "stopped" /\ csvCounts = NoCsv
  /\ unit[c] # "faulted"
  /\ unit' = [unit EXCEPT ![c] = "stopped"]
  /\ marker' = (marker /\ (c # "compute" \/ unit[c] = "off"))
  /\ IF unit[c] = "up" THEN Write({RecordOf(c, "stop")}) ELSE UNCHANGED records
  /\ UNCHANGED <<ends, cleanEnds, early, live, tailed, csvCounts>>

----------------------------------------------------------------------------
(* The counts. *)

\* MUTANT of ClassifySee: a state that is not finite comes first.
ClassifyFiniteFirst(record) ==
  CASE record.event = "mem_upset" -> "gpu_mem_upset"
    [] record.event = "sim_fault" -> "cuda_shutdown"
    [] record.event = "see_event" /\ record.dump -> "see_dump_saved"
    [] record.event = "checksum" /\ record.anomaly ->
         CASE ~record.finite -> "cuda_nonfinite"
           [] record.finite /\ record.mismatch -> "cuda_golden_mismatch"
           [] OTHER -> "cuda_anomaly"
    [] OTHER -> "none"

\* MUTANT of ClassifySee: only a fault with a dump is a shutdown.
ClassifyDumped(record) ==
  CASE record.event = "mem_upset" -> "gpu_mem_upset"
    [] record.event = "sim_fault" /\ record.dump -> "cuda_shutdown"
    [] record.event = "see_event" /\ record.dump -> "see_dump_saved"
    [] record.event = "checksum" /\ record.anomaly ->
         CASE record.mismatch -> "cuda_golden_mismatch"
           [] ~record.mismatch /\ ~record.finite -> "cuda_nonfinite"
           [] OTHER -> "cuda_anomaly"
    [] OTHER -> "none"

\* classify_see; "none" is no effect.
ClassifySee(record) ==
  CASE record.event = "mem_upset" -> "gpu_mem_upset"
    [] record.event = "sim_fault" -> "cuda_shutdown"
    [] record.event = "see_event" /\ record.dump -> "see_dump_saved"
    [] record.event = "checksum" /\ record.anomaly ->
         CASE record.mismatch -> "cuda_golden_mismatch"
           [] ~record.mismatch /\ ~record.finite -> "cuda_nonfinite"
           [] OTHER -> "cuda_anomaly"
    [] OTHER -> "none"

\* The poll reads the new records, and the GUI adds each to the file of its run.
PersistSees ==
  /\ tailed # records
  /\ tailed' = records
  /\ live' = [type \in LiveTypes |->
                live[type] + CountIn(records (-) tailed, LAMBDA r : ClassifySee(r) = type)]
  /\ UNCHANGED <<unitVars, csvCounts>>

\* The one type that summarize_run gives a record that is not a start.
Attributed(record) ==
  CASE record.channel = "compute" /\ record.event = "checksum" ->
         CASE record.mismatch -> "cuda_golden_mismatch"
           [] ~record.mismatch /\ ~record.finite -> "cuda_nonfinite"
           [] ~record.mismatch /\ record.finite /\ record.anomaly -> "cuda_anomaly"
           [] OTHER -> "none"
    [] record.channel = "memory" /\ record.event = "mem_upset" -> "gpu_mem_upset"
    [] OTHER -> "none"

\* MUTANT of Restarts: the START's own start records count.
AllStarts(c) ==
  CountIn(records, LAMBDA r : r.channel = c /\ r.event = "start")

Restarts(c) ==
  Max({0, CountIn(records, LAMBDA r : r.channel = c /\ r.event = "start") - 1})

\* STOP: both services are stopped, then the logs are read.
SummarizeRun ==
  /\ csvCounts = NoCsv /\ \A c \in Workloads : unit[c] = "stopped"
  /\ csvCounts' = [type \in SeeTypes |->
                   IF \E c \in Workloads : type = Shutdowns[c]
                   THEN Restarts(CHOOSE c \in Workloads : type = Shutdowns[c])
                   ELSE CountIn(records, LAMBDA r : Attributed(r) = type)]
  /\ UNCHANGED <<unitVars, live, tailed>>

TallyNext ==
  \/ FlagRun \/ EndEpoch \/ SweepReports \/ CatchFault \/ ExitFaulted
  \/ \E c \in Workloads : WriteStart(c) \/ DieAs(c) \/ EndAtLimit(c) \/ StopUnits(c)
  \/ PersistSees \/ SummarizeRun

TallySpec == TallyInit /\ [][TallyNext]_tallyVars

----------------------------------------------------------------------------
(* Properties. *)

Counted == csvCounts # NoCsv /\ tailed = records

\* Apart from the shutdowns, the live file of a run and the summary in its CSV
\* agree, type by type, although the two classifiers look at different fields
\* in a different order ("the live tally agrees with test_N.csv").
EffectsAgree ==
  Counted => \A type \in SeeTypes \ {Shutdowns[c] : c \in Workloads} :
               live[type] = csvCounts[type]

\* The CSV counts the ends of each workload, except for the last one if the STOP
\* comes before the service is up again.
RestartsCounted ==
  csvCounts # NoCsv =>
    \A c \in Workloads : csvCounts[Shutdowns[c]] \in {ends[c] - 1, ends[c]}

\* Each crash of the compute workload that the CSV counts is also in the live
\* file; only a restart at its iterations limit is not.
CrashesShown ==
  Counted => live["cuda_shutdown"] >= csvCounts["cuda_shutdown"] - cleanEnds["compute"]
=============================================================================
