------------------------------ MODULE Particles ------------------------------
(* The compute workload, particles_main.cpp, and what see_dump_triage.py makes
   of its dumps.  Every epoch starts from the same state and takes EpochSteps
   steps; the state is copied out every Stride steps, and its last copy is
   compared with the last hash of the golden table.  An epoch that differs is
   one see_event, with the copies as a dump.

   The state of the simulation is abstracted to whether it is the golden one:
   an upset makes it differ, to the end of the epoch.  totalIter grows with
   step, and epoch only after whole epochs, so it is epoch * EpochSteps + step
   and no variable.  systemd starts the program anew whenever it ends, until
   the receiver stops the unit. *)
EXTENDS Integers, Sequences

CONSTANTS
  EpochSteps,   \* epoch_iterations
  Stride,       \* checksum_interval
  StepLimit,    \* iterations; 0 is for ever
  MaxEpochs,    \* bound: epochs of a process that runs for ever
  MaxUpsets,    \* bound: upsets of the simulated state
  MaxFaults,    \* bound: CUDA faults
  MaxDeaths     \* bound: other deaths of the process, and starts

Checkpoints == EpochSteps \div Stride    \* nCk

ASSUME ParticlesAssumption ==
  EpochSteps \in Nat \ {0} /\ Stride \in Nat \ {0} /\ StepLimit \in Nat

VARIABLES
  golden,        \* hashes in the golden table; 0 is also no table
  place,         \* where main is, "off" between two processes
  halted,        \* systemctl stop: no process is started again
  runFlag,       \* running.flag exists
  simStop,       \* g_stop
  epoch, step, snap, anomaly,   \* epoch, step, snap up to capturedCk, epochAnomaly
  seeEvents, dumpRel,           \* seeEvents; dumpRel of the record to come
  dumps,         \* see_dumps/: the copies by name, TRUE where one is golden
  seeLog,        \* the see_event and sim_fault records with an epoch
  unclean,       \* sim_fault records with reason unclean_restart
  \* history
  hit,           \* the checkpoint that shows the first upset of this epoch; 0
  cudaFault,     \* the next copy from the device fails
  hitEpochs,     \* epochs of this process hit before their last checkpoint
  upsetsDone, faultsDone, deaths, earlyDeaths, lives

recordVars == <<dumps, seeLog, unclean>>
epochVars == <<epoch, step, snap, anomaly, hit>>
beamVars == <<cudaFault, upsetsDone, faultsDone>>
lifeVars == <<halted, runFlag, deaths, earlyDeaths, lives>>
particlesVars == <<golden, place, simStop, seeEvents, dumpRel, hitEpochs,
                   recordVars, epochVars, beamVars, lifeVars>>

NoDump == <<>>
NoHit == 0
ParticlesPlaces == {"off", "starting", "epoch", "step", "check", "dump", "see",
                    "stop", "stopped", "faulted"}
Copies == Seq(BOOLEAN)

ParticlesTypeOK ==
  /\ golden \in 0..Checkpoints /\ place \in ParticlesPlaces
  /\ halted \in BOOLEAN /\ runFlag \in BOOLEAN /\ simStop \in BOOLEAN
  /\ epoch \in Nat /\ step \in 0..EpochSteps
  /\ snap \in Copies /\ Len(snap) <= Checkpoints
  /\ anomaly \in BOOLEAN /\ seeEvents \in Nat
  /\ \A name \in DOMAIN dumps : dumps[name] \in Copies
  /\ \A i \in DOMAIN seeLog : seeLog[i].shaped <=> seeLog[i].event = "see_event"
  /\ hit \in 0..(Checkpoints + 1) /\ cudaFault \in BOOLEAN

\* The golden table is made before the campaign: a whole epoch, or the part of
\* it up to a SIGTERM, which the table does not show.
ParticlesInit ==
  /\ golden \in 0..Checkpoints
  /\ place = "off" /\ halted = FALSE /\ runFlag = FALSE /\ simStop = FALSE
  /\ epoch = 0 /\ step = 0 /\ snap = <<>> /\ anomaly = FALSE
  /\ seeEvents = 0 /\ dumpRel = NoDump
  /\ dumps = <<>> /\ seeLog = <<>> /\ unclean = 0
  /\ hit = NoHit /\ cudaFault = FALSE /\ hitEpochs = 0
  /\ upsetsDone = 0 /\ faultsDone = 0 /\ deaths = 0 /\ earlyDeaths = 0
  /\ lives = 0

----------------------------------------------------------------------------
(* The beam and systemd. *)

Alive == place # "off"
Simulating == place \in {"step", "check"}

StateUpset ==
  /\ Simulating /\ upsetsDone < MaxUpsets
  /\ upsetsDone' = upsetsDone + 1
  /\ hit' = IF hit = NoHit THEN Len(snap) + 1 ELSE hit
  /\ UNCHANGED <<golden, place, simStop, seeEvents, dumpRel, hitEpochs,
                 recordVars, epoch, step, snap, anomaly, cudaFault, faultsDone,
                 lifeVars>>

CudaFault ==
  /\ Simulating /\ faultsDone < MaxFaults
  /\ faultsDone' = faultsDone + 1 /\ cudaFault' = TRUE
  /\ UNCHANGED <<golden, place, simStop, seeEvents, dumpRel, hitEpochs,
                 recordVars, epochVars, upsetsDone, lifeVars>>

\* SIGKILL, a segfault, a CUDA error outside the checkpoint, a board reset.
Die ==
  /\ Alive /\ (deaths + earlyDeaths < MaxDeaths \/ cudaFault)
  /\ place' = "off" /\ cudaFault' = FALSE
  /\ IF place = "starting"
     THEN earlyDeaths' = earlyDeaths + 1 /\ UNCHANGED deaths
     ELSE deaths' = deaths + 1 /\ UNCHANGED earlyDeaths
  /\ UNCHANGED <<golden, simStop, seeEvents, dumpRel, hitEpochs, recordVars,
                 epochVars, upsetsDone, faultsDone, halted, runFlag, lives>>

\* systemctl stop: SIGTERM, if a process is there.
HaltUnit ==
  /\ ~halted /\ halted' = TRUE
  /\ simStop' = (Alive \/ simStop)
  /\ UNCHANGED <<golden, place, seeEvents, dumpRel, hitEpochs, recordVars,
                 epochVars, beamVars, runFlag, deaths, earlyDeaths, lives>>

\* A new process counts epochs, steps and events from zero.  A marker that is
\* still there is recorded.
Launch ==
  /\ place = "off" /\ ~halted /\ lives <= MaxDeaths
  /\ place' = "starting" /\ lives' = lives + 1
  /\ unclean' = IF runFlag THEN unclean + 1 ELSE unclean
  /\ simStop' = FALSE /\ epoch' = 0 /\ seeEvents' = 0 /\ hitEpochs' = 0
  /\ step' = 0 /\ snap' = <<>> /\ anomaly' = FALSE /\ hit' = NoHit
  /\ dumpRel' = NoDump
  /\ UNCHANGED <<golden, dumps, seeLog, beamVars, halted, runFlag, deaths,
                 earlyDeaths>>

RaiseFlag ==
  /\ place = "starting" /\ place' = "epoch" /\ runFlag' = TRUE
  /\ UNCHANGED <<golden, simStop, seeEvents, dumpRel, hitEpochs, recordVars,
                 epochVars, beamVars, halted, deaths, earlyDeaths, lives>>

----------------------------------------------------------------------------
(* main: the loops over epochs and steps. *)

\* psystem.reset, unless g_stop ends the loop.  A pending CUDA error ends the
\* process here: Die.
BeginEpoch ==
  /\ place = "epoch" /\ ~cudaFault
  /\ IF simStop
     THEN place' = "stop" /\ UNCHANGED <<step, snap, anomaly, hit>>
     ELSE /\ StepLimit = 0 => epoch < MaxEpochs
          /\ place' = "step"
          /\ step' = 0 /\ snap' = <<>> /\ anomaly' = FALSE /\ hit' = NoHit
  /\ UNCHANGED <<golden, simStop, seeEvents, dumpRel, hitEpochs, recordVars,
                 epoch, beamVars, lifeVars>>

StepsOver == step = EpochSteps \/ simStop

\* psystem.update, and the limit of steps.
Update ==
  /\ place = "step" /\ ~StepsOver
  /\ step' = step + 1
  /\ simStop' = (StepLimit > 0 /\ epoch * EpochSteps + step + 1 >= StepLimit)
  /\ place' = IF (step + 1) % Stride = 0 THEN "check" ELSE "step"
  /\ UNCHANGED <<golden, seeEvents, dumpRel, hitEpochs, recordVars, epoch, snap,
                 anomaly, hit, beamVars, lifeVars>>

\* MUTANT of Compared: every checkpoint but the last.
ComparedBefore == step + Stride <= EpochSteps /\ golden > 0

\* The comparison at the last checkpoint: a shorter table ends in another hash.
Compared == step + Stride > EpochSteps /\ golden > 0
Differs == hit # NoHit \/ golden # Checkpoints

\* MUTANT of Checkpoint: the copy is of the state before the last step.
CheckpointBehind ==
  /\ place = "check" /\ ~cudaFault
  /\ snap' = Append(snap, hit \in {NoHit, Len(snap) + 1})
  /\ anomaly' = (Compared /\ Differs)
  /\ place' = "step"
  /\ UNCHANGED <<golden, simStop, seeEvents, dumpRel, hitEpochs, recordVars,
                 epoch, step, hit, beamVars, lifeVars>>

\* A step at a multiple of the stride: the state is copied and compared.
Checkpoint ==
  /\ place = "check" /\ ~cudaFault
  /\ snap' = Append(snap, hit = NoHit)
  /\ anomaly' = (Compared /\ Differs)
  /\ place' = "step"
  /\ UNCHANGED <<golden, simStop, seeEvents, dumpRel, hitEpochs, recordVars,
                 epoch, step, hit, beamVars, lifeVars>>

DumpName(suffix) == <<epoch, epoch * EpochSteps + step>> \o suffix

\* writeSeeDump: a file of that name is written over; it may fail.
WriteDump(name) ==
  \/ UNCHANGED dumps /\ dumpRel' = NoDump
  \/ /\ snap # <<>> /\ dumpRel' = name
     /\ dumps' = [n \in DOMAIN dumps \cup {name} |->
                    IF n = name THEN snap ELSE dumps[n]]

SeeRecorded(event) ==
  seeLog' = Append(seeLog, [event |-> event, dump |-> dumpRel',
                            checkpoints |-> Len(snap),
                            shaped |-> event = "see_event",
                            hit |-> hit, life |-> lives])

\* The copy fails: the fault path up to its record.
FaultRecord ==
  /\ place = "check" /\ cudaFault
  /\ seeEvents' = seeEvents + 1
  /\ WriteDump(DumpName(<<"fault">>)) /\ SeeRecorded("sim_fault")
  /\ place' = "faulted"
  /\ UNCHANGED <<golden, simStop, hitEpochs, unclean, epochVars, beamVars,
                 lifeVars>>

\* The steps of the epoch are over, or cut short by g_stop.
EndSteps ==
  /\ place = "step" /\ StepsOver
  /\ hitEpochs' = IF hit \in 1..Checkpoints /\ Len(snap) = Checkpoints
                  THEN hitEpochs + 1 ELSE hitEpochs
  /\ IF anomaly
     THEN place' = "dump" /\ seeEvents' = seeEvents + 1 /\ UNCHANGED epoch
     ELSE place' = "epoch" /\ epoch' = epoch + 1 /\ UNCHANGED seeEvents
  /\ UNCHANGED <<golden, simStop, dumpRel, recordVars, step, snap, anomaly, hit,
                 beamVars, lifeVars>>

SaveDump ==
  /\ place = "dump" /\ place' = "see"
  /\ WriteDump(DumpName(<<>>))
  /\ UNCHANGED <<golden, simStop, seeEvents, hitEpochs, seeLog, unclean,
                 epochVars, beamVars, lifeVars>>

SeeEvent ==
  /\ place = "see" /\ place' = "epoch"
  /\ dumpRel' = dumpRel /\ SeeRecorded("see_event")
  /\ epoch' = epoch + 1
  /\ UNCHANGED <<golden, simStop, seeEvents, hitEpochs, dumps, unclean, step,
                 snap, anomaly, hit, beamVars, lifeVars>>

\* The stop record; then the marker goes, and the process.
StopRecord ==
  /\ place = "stop" /\ place' = "stopped"
  /\ UNCHANGED <<golden, simStop, seeEvents, dumpRel, hitEpochs, recordVars,
                 epochVars, beamVars, lifeVars>>

\* MUTANT of RemoveFlag: the marker stays after a fault that was recorded.
KeepFlag ==
  /\ place \in {"stopped", "faulted"} /\ place' = "off"
  /\ runFlag' = (place = "faulted") /\ cudaFault' = FALSE
  /\ UNCHANGED <<golden, simStop, seeEvents, dumpRel, hitEpochs, recordVars,
                 epochVars, upsetsDone, faultsDone, halted, deaths, earlyDeaths,
                 lives>>

RemoveFlag ==
  /\ place \in {"stopped", "faulted"} /\ place' = "off"
  /\ runFlag' = FALSE /\ cudaFault' = FALSE
  /\ UNCHANGED <<golden, simStop, seeEvents, dumpRel, hitEpochs, recordVars,
                 epochVars, upsetsDone, faultsDone, halted, deaths, earlyDeaths,
                 lives>>

ParticlesNext ==
  \/ StateUpset \/ CudaFault \/ Die \/ HaltUnit
  \/ Launch \/ RaiseFlag \/ BeginEpoch \/ Update \/ Checkpoint \/ FaultRecord
  \/ EndSteps \/ SaveDump \/ SeeEvent \/ StopRecord \/ RemoveFlag

ParticlesSpec == ParticlesInit /\ [][ParticlesNext]_particlesVars

----------------------------------------------------------------------------
(* see_dump_triage.py. *)

\* The checkpoints of a dump that do not have the hash of the golden table.
Divergent(copies) ==
  {i \in DOMAIN copies : ~copies[i] \/ i > golden}

\* triage_dump: its status; or the window, by the checkpoint that ends it.
Triage(rec) ==
  CASE rec.dump = NoDump -> "no_dump"
    [] rec.dump # NoDump /\ rec.dump \notin DOMAIN dumps -> "dump_missing"
    [] rec.dump \in DOMAIN dumps /\ ~rec.shaped -> "bad_metadata"
    [] rec.dump \in DOMAIN dumps /\ rec.shaped /\ Len(dumps[rec.dump]) # rec.checkpoints
         -> "size_mismatch"
    [] OTHER ->
         IF Divergent(dumps[rec.dump]) = {} THEN "all_match"
         ELSE CHOOSE i \in Divergent(dumps[rec.dump]) :
                \A j \in Divergent(dumps[rec.dump]) : i <= j

----------------------------------------------------------------------------
(* Properties. *)

\* Every death of a workload that had its marker up is one unclean_restart
\* record once it runs again, and nothing else is, up to the deaths of
\* processes that had only begun (l. 294-301).
CrashesFlagged ==
  Alive => deaths <= unclean /\ unclean <= deaths + earlyDeaths

\* With a whole golden table, the events a process has counted are the epochs
\* that were hit before their last checkpoint, none twice and none for an
\* epoch that was not, and the fault that ended it (one SEE per affected epoch).
OneSeePerEpoch ==
  golden = Checkpoints =>
    seeEvents = hitEpochs + (IF place = "faulted" THEN 1 ELSE 0)
      \/ ~Alive

Located(rec) ==
  rec.event = "see_event" /\ rec.dump # NoDump => Triage(rec) = rec.hit

\* The dump of each event of the running process shows the stretch between two
\* checkpoints in which the first upset of its epoch fell, with a whole table.
DumpLocates ==
  golden = Checkpoints =>
    \A i \in DOMAIN seeLog : seeLog[i].life = lives => Located(seeLog[i])

\* What see_dump_triage.py says of the dumps of a run, "the FIRST divergent
\* checkpoint localises the upset", for all of its events.
TriageTrue ==
  golden = Checkpoints => \A i \in DOMAIN seeLog : Located(seeLog[i])
=============================================================================
