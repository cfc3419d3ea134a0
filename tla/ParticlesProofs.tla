---------------------------- MODULE ParticlesProofs ----------------------------
(* Proofs about the compute workload, for every epoch length, checksum interval
   and bound, and any upsets, faults and deaths. *)
EXTENDS Particles, SequenceTheorems, TLAPS

Names == Seq(Nat \cup {"fault"})
Entry == [event : {"see_event", "sim_fault"}, dump : Names, checkpoints : Nat,
          shaped : BOOLEAN, hit : Nat, life : Nat]

\* The types of the model, and of the variables that ParticlesTypeOK leaves out.
SimTypes ==
  /\ ParticlesTypeOK
  /\ hitEpochs \in Nat /\ deaths \in Nat /\ earlyDeaths \in Nat
  /\ unclean \in Nat /\ lives \in Nat
  /\ upsetsDone \in Nat /\ faultsDone \in Nat
  /\ seeLog \in Seq(Entry) /\ dumpRel \in Names

\* A workload past its start has its marker up; a marker that outlives its
\* process is one death that is not recorded yet.
MarkerInv ==
  /\ place \notin {"off", "starting"} => runFlag
  /\ (Alive \/ ~runFlag) => deaths <= unclean /\ unclean <= deaths + earlyDeaths
  /\ (~Alive /\ runFlag) => deaths <= unclean + 1 /\ unclean + 1 <= deaths + earlyDeaths

\* The copies of an epoch are those of its checkpoints so far, and show an upset
\* from the checkpoint after it on.
TraceInv ==
  /\ place = "step" =>
       Stride * Len(snap) <= step /\ step < Stride * (Len(snap) + 1)
  /\ place = "check" => step = Stride * (Len(snap) + 1)
  /\ place \in {"step", "check", "dump", "see"} =>
       /\ hit <= Len(snap) + 1
       /\ \A i \in DOMAIN snap : snap[i] <=> (hit = NoHit \/ i < hit)

\* The last checkpoint is behind, and the epoch was hit before it.
Hit == Len(snap) = Checkpoints /\ hit \in 1..Checkpoints

\* The verdict on an epoch is right, and each such epoch is counted once.
SeeVerdictInv ==
  golden = Checkpoints =>
    /\ place \in {"step", "check"} => (anomaly <=> Hit)
    /\ place \in {"dump", "see"} => Hit
    /\ Alive => seeEvents = hitEpochs + (IF place = "faulted" THEN 1 ELSE 0)

\* An event of the running process has a dump of its own, by its epoch, with
\* the copies of that epoch.
Kept(rec, now, files) ==
  rec.event = "see_event" /\ rec.dump # NoDump =>
    /\ Len(rec.dump) = 2 /\ rec.dump[1] < now /\ rec.dump[1] \in Nat
    /\ rec.dump \in DOMAIN files
    /\ rec.checkpoints = Checkpoints /\ rec.hit \in 1..Checkpoints
    /\ Len(files[rec.dump]) = Checkpoints
    /\ \A j \in 1..Checkpoints : files[rec.dump][j] <=> j < rec.hit

RecordInv ==
  /\ \A i \in DOMAIN seeLog : seeLog[i].life <= lives
  /\ golden = Checkpoints =>
       /\ \A i \in DOMAIN seeLog : seeLog[i].life = lives => Kept(seeLog[i], epoch, dumps)
       /\ place = "see" /\ dumpRel # NoDump =>
            /\ Len(dumpRel) = 2 /\ dumpRel[1] = epoch
            /\ dumpRel \in DOMAIN dumps /\ dumps[dumpRel] = snap

LEMMA CheckpointsDivide ==
  /\ Checkpoints \in Nat
  /\ Stride * Checkpoints <= EpochSteps
  /\ EpochSteps < Stride * (Checkpoints + 1)
BY ParticlesAssumption, SMTT(30) DEF Checkpoints

LEMMA Monotone ==
  ASSUME NEW k \in Nat, NEW p \in Int, NEW q \in Int, p <= q
  PROVE  k * p <= k * q
BY SMTT(30)

LEMMA NextMultiple ==
  ASSUME NEW n \in Nat, NEW k \in Nat \ {0}, NEW q \in Nat,
         k * q < n, n <= k * (q + 1)
  PROVE  n % k = 0 <=> n = k * (q + 1)
<1> DEFINE d == n \div k
           e == n % k
<1>1. d \in Nat /\ e \in 0..(k - 1) /\ n = k * d + e
  BY SMTT(30)
<1>2. k * (q + 1) = k * q + k /\ k * q \in Nat /\ k * d \in Nat
  BY <1>1, SMTT(30)
<1> HIDE DEF d, e
<1>3. ASSUME e = 0 PROVE n = k * (q + 1)
  <2>1. ~(d <= q)
    BY <1>1, <1>2, <1>3, Monotone
  <2>2. k * (q + 1) <= k * d
    BY <1>1, <2>1, Monotone
  <2> QED
    BY <1>1, <1>2, <1>3, <2>2
<1>4. ASSUME n = k * (q + 1) PROVE e = 0
  <2>1. CASE d <= q
    <3>1. k * d <= k * q
      BY <1>1, <2>1, Monotone
    <3> QED
      BY <1>1, <1>2, <1>4, <3>1
  <2>2. CASE ~(d <= q)
    <3>1. k * (q + 1) <= k * d
      BY <1>1, <2>2, Monotone
    <3> QED
      BY <1>1, <1>2, <1>4, <3>1
  <2> QED
    BY <2>1, <2>2
<1> QED
  BY <1>3, <1>4 DEF e

\* The name of an event's dump begins with its epoch; a fault's is longer.
LEMMA NamesDiffer ==
  ASSUME SimTypes
  PROVE  /\ DumpName(<<>>) \in Names /\ Len(DumpName(<<>>)) = 2
         /\ DumpName(<<>>)[1] = epoch
         /\ DumpName(<<"fault">>) \in Names /\ Len(DumpName(<<"fault">>)) = 3
<1> DEFINE pair == <<epoch, epoch * EpochSteps + step>>
           S == Nat \cup {"fault"}
<1>1. epoch \in Nat /\ epoch * EpochSteps + step \in Nat
  BY ParticlesAssumption DEF SimTypes, ParticlesTypeOK
<1>2. epoch \in S /\ epoch * EpochSteps + step \in S /\ "fault" \in S
  BY <1>1
<1> HIDE DEF S
<1>3. /\ pair \in Seq(S) /\ Len(pair) = 2 /\ pair[1] = epoch
      /\ <<>> \in Seq(S) /\ Len(<<>>) = 0
      /\ <<"fault">> \in Seq(S) /\ Len(<<"fault">>) = 1
  BY <1>2
<1> HIDE DEF pair
<1>4. /\ pair \o <<>> \in Seq(S) /\ Len(pair \o <<>>) = 2
      /\ (pair \o <<>>)[1] = epoch
  <2>1. Len(pair \o <<>>) = Len(pair) + Len(<<>>) /\ pair \o <<>> \in Seq(S)
    BY <1>3, ConcatProperties
  <2>2. 1 \in 1..(Len(pair) + Len(<<>>)) /\ 1 <= Len(pair)
    BY <1>3
  <2>3. (pair \o <<>>)[1] = pair[1]
    BY <1>3, <2>2, ConcatProperties
  <2> QED
    BY <1>3, <2>1, <2>3
<1>5. pair \o <<"fault">> \in Seq(S) /\ Len(pair \o <<"fault">>) = 3
  <2>1. /\ Len(pair \o <<"fault">>) = Len(pair) + Len(<<"fault">>)
        /\ pair \o <<"fault">> \in Seq(S)
    BY <1>3, ConcatProperties
  <2> QED
    BY <1>3, <2>1
<1> QED
  BY <1>4, <1>5 DEF DumpName, pair, S, Names

LEMMA TypesInit == ParticlesInit => SimTypes
<1> SUFFICES ASSUME ParticlesInit PROVE SimTypes
  OBVIOUS
<1>1. Checkpoints \in Nat
  BY CheckpointsDivide
<1>2. /\ snap = <<>> /\ seeLog = <<>> /\ dumps = <<>> /\ dumpRel = <<>>
  BY DEF ParticlesInit, NoDump
<1>3. /\ snap \in Copies /\ Len(snap) = 0 /\ seeLog \in Seq(Entry)
      /\ dumpRel \in Names
  BY <1>2, EmptySeq DEF Copies, Names
<1>4. /\ \A name \in DOMAIN dumps : dumps[name] \in Copies
      /\ \A i \in DOMAIN seeLog : seeLog[i].shaped <=> seeLog[i].event = "see_event"
  BY <1>2
<1>5. /\ halted \in BOOLEAN /\ runFlag \in BOOLEAN /\ simStop \in BOOLEAN
      /\ anomaly \in BOOLEAN /\ cudaFault \in BOOLEAN
  BY Zenon DEF ParticlesInit
<1>6. /\ golden \in 0..Checkpoints /\ place \in ParticlesPlaces
      /\ epoch \in Nat /\ step \in 0..EpochSteps /\ Len(snap) <= Checkpoints
      /\ seeEvents \in Nat /\ hit \in 0..(Checkpoints + 1)
  BY <1>1, <1>3, ParticlesAssumption DEF ParticlesInit, ParticlesPlaces, NoHit
<1>7. /\ hitEpochs \in Nat /\ deaths \in Nat /\ earlyDeaths \in Nat
      /\ unclean \in Nat /\ lives \in Nat /\ upsetsDone \in Nat /\ faultsDone \in Nat
  BY DEF ParticlesInit
<1> QED
  BY <1>3, <1>4, <1>5, <1>6, <1>7 DEF SimTypes, ParticlesTypeOK

\* What writeSeeDump and the record after it do to the types.
LEMMA WriteTypes ==
  ASSUME SimTypes, NEW suffix \in {<<>>, <<"fault">>}, WriteDump(DumpName(suffix))
  PROVE  /\ dumpRel' \in Names
         /\ \A name \in DOMAIN dumps' : dumps'[name] \in Copies
<1>1. DumpName(suffix) \in Names /\ NoDump \in Names
  BY NamesDiffer, EmptySeq DEF NoDump, Names
<1> QED
  BY <1>1 DEF WriteDump, SimTypes, ParticlesTypeOK

LEMMA RecordTypes ==
  ASSUME SimTypes, NEW event \in {"see_event", "sim_fault"}, SeeRecorded(event),
         dumpRel' \in Names
  PROVE  /\ seeLog' \in Seq(Entry)
         /\ \A i \in DOMAIN seeLog' :
              seeLog'[i].shaped <=> seeLog'[i].event = "see_event"
<1> DEFINE new == [event |-> event, dump |-> dumpRel', checkpoints |-> Len(snap),
                   shaped |-> event = "see_event", hit |-> hit, life |-> lives]
<1>1. new \in Entry /\ (new.shaped <=> new.event = "see_event")
  <2>1. Len(snap) \in Nat /\ hit \in Nat /\ lives \in Nat
    BY CheckpointsDivide DEF SimTypes, ParticlesTypeOK, Copies
  <2> QED
    BY <2>1 DEF Entry
<1>2. seeLog' = Append(seeLog, new)
  BY DEF SeeRecorded
<1> HIDE DEF new
<1>3. /\ seeLog' \in Seq(Entry) /\ Len(seeLog') = Len(seeLog) + 1
      /\ \A i \in 1..Len(seeLog) : seeLog'[i] = seeLog[i]
      /\ seeLog'[Len(seeLog) + 1] = new
  BY <1>1, <1>2, AppendProperties DEF SimTypes
<1>4. seeLog \in Seq(Entry) /\ \A i \in DOMAIN seeLog :
        seeLog[i].shaped <=> seeLog[i].event = "see_event"
  BY DEF SimTypes, ParticlesTypeOK
<1> QED
  BY <1>1, <1>3, <1>4

\* A checkpoint is one of the Checkpoints.
LEMMA CheckpointLeft ==
  ASSUME SimTypes, TraceInv, place = "check"
  PROVE  /\ Len(snap) \in Nat /\ Len(snap) + 1 <= Checkpoints
         /\ (step + Stride > EpochSteps <=> Len(snap) + 1 = Checkpoints)
<1> DEFINE n == Len(snap)
<1>1. /\ n \in Nat /\ step = Stride * (n + 1) /\ step <= EpochSteps
      /\ Stride \in Nat /\ EpochSteps \in Nat /\ step \in Nat
  BY ParticlesAssumption DEF TraceInv, SimTypes, ParticlesTypeOK, Copies
<1> HIDE DEF n
<1>2. n + 1 <= Checkpoints
  <2>1. CASE Checkpoints + 1 <= n + 1
    <3>1. Stride * (Checkpoints + 1) <= Stride * (n + 1)
      BY <1>1, <2>1, CheckpointsDivide, Monotone
    <3> QED
      BY <1>1, <3>1, CheckpointsDivide
  <2> QED
    BY <1>1, <2>1, CheckpointsDivide
<1>3. CASE n + 1 = Checkpoints
  <2>1. Stride * (Checkpoints + 1) = step + Stride
    BY <1>1, <1>3, CheckpointsDivide
  <2> QED
    BY <1>2, <1>1, <2>1, <1>3, CheckpointsDivide DEF n
<1>4. CASE n + 2 <= Checkpoints
  <2>1. Stride * (n + 2) <= Stride * Checkpoints
    BY <1>1, <1>4, CheckpointsDivide, Monotone
  <2>2. Stride * (n + 2) = step + Stride
    BY <1>1
  <2> QED
    BY <1>1, <1>2, <1>4, <2>1, <2>2, CheckpointsDivide DEF n
<1> QED
  BY <1>1, <1>2, <1>3, <1>4, CheckpointsDivide

LEMMA TypesStep ==
  SimTypes /\ TraceInv /\ [ParticlesNext]_particlesVars => SimTypes'
<1> SUFFICES ASSUME SimTypes, TraceInv, [ParticlesNext]_particlesVars PROVE SimTypes'
  OBVIOUS
<1> USE ParticlesAssumption, CheckpointsDivide
    DEF recordVars, epochVars, beamVars, lifeVars
<1>1. CASE UNCHANGED particlesVars
  BY <1>1 DEF SimTypes, ParticlesTypeOK, particlesVars
<1>2. CASE StateUpset
  <2>1. snap \in Copies /\ Len(snap) \in Nat /\ Len(snap) + 1 \in 0..(Checkpoints + 1)
    BY DEF SimTypes, ParticlesTypeOK, Copies
  <2> QED
    BY <1>2, <2>1 DEF StateUpset, SimTypes, ParticlesTypeOK
<1>3. CASE CudaFault
  BY <1>3 DEF CudaFault, SimTypes, ParticlesTypeOK
<1>4. CASE Die
  <2>1. cudaFault' \in BOOLEAN
    BY <1>4, Zenon DEF Die
  <2>2. deaths' \in Nat /\ earlyDeaths' \in Nat /\ place' = "off"
    BY <1>4 DEF Die, SimTypes
  <2>3. UNCHANGED <<golden, simStop, seeEvents, dumpRel, hitEpochs, recordVars,
                    epochVars, upsetsDone, faultsDone, halted, runFlag, lives>>
    BY <1>4 DEF Die
  <2> QED
    BY <2>1, <2>2, <2>3 DEF SimTypes, ParticlesTypeOK, ParticlesPlaces
<1>5. CASE HaltUnit
  BY <1>5 DEF HaltUnit, SimTypes, ParticlesTypeOK
<1>6. CASE Launch
  <2>1. snap' \in Copies /\ Len(snap') = 0 /\ dumpRel' \in Names
    BY <1>6, EmptySeq DEF Launch, Copies, Names, NoDump
  <2> QED
    <3>1. simStop' \in BOOLEAN /\ anomaly' \in BOOLEAN
      BY <1>6, Zenon DEF Launch
    <3>2. /\ unclean' \in Nat /\ lives' \in Nat /\ place' = "starting"
          /\ epoch' = 0 /\ seeEvents' = 0 /\ hitEpochs' = 0 /\ step' = 0 /\ hit' = 0
      BY <1>6 DEF Launch, SimTypes, NoHit
    <3>3. UNCHANGED <<golden, dumps, seeLog, beamVars, halted, runFlag, deaths,
                      earlyDeaths>>
      BY <1>6 DEF Launch
    <3> QED
      BY <2>1, <3>1, <3>2, <3>3 DEF SimTypes, ParticlesTypeOK, ParticlesPlaces
<1>7. CASE RaiseFlag
  BY <1>7 DEF RaiseFlag, SimTypes, ParticlesTypeOK, ParticlesPlaces
<1>8. CASE BeginEpoch
  <2>1. <<>> \in Copies /\ Len(<<>>) = 0
    BY EmptySeq DEF Copies
  <2> QED
    <3>1. CASE simStop
      BY <1>8, <3>1 DEF BeginEpoch, SimTypes, ParticlesTypeOK, ParticlesPlaces
    <3>2. CASE ~simStop
      <4>1. anomaly' \in BOOLEAN
        BY <1>8, <3>2, Zenon DEF BeginEpoch
      <4>2. /\ place' = "step" /\ step' = 0 /\ snap' = <<>> /\ hit' = 0
            /\ UNCHANGED <<golden, simStop, seeEvents, dumpRel, hitEpochs,
                           recordVars, epoch, beamVars, lifeVars>>
        BY <1>8, <3>2 DEF BeginEpoch, NoHit
      <4> QED
        BY <2>1, <4>1, <4>2 DEF SimTypes, ParticlesTypeOK, ParticlesPlaces
    <3> QED
      BY <3>1, <3>2
<1>9. CASE Update
  BY <1>9 DEF Update, StepsOver, SimTypes, ParticlesTypeOK, ParticlesPlaces
<1>10. CASE Checkpoint
  <2> DEFINE copy == hit = NoHit
  <2>1. snap' = Append(snap, copy) /\ copy \in BOOLEAN /\ snap \in Seq(BOOLEAN)
    BY <1>10 DEF Checkpoint, SimTypes, ParticlesTypeOK, Copies
  <2>2. Len(snap) + 1 <= Checkpoints
    BY <1>10, CheckpointLeft DEF Checkpoint
  <2> HIDE DEF copy
  <2>3. snap' \in Copies /\ Len(snap') <= Checkpoints
    BY <2>1, <2>2, AppendProperties DEF Copies
  <2>4. anomaly' \in BOOLEAN
    BY <1>10, Zenon DEF Checkpoint
  <2> QED
    BY <1>10, <2>3, <2>4 DEF Checkpoint, SimTypes, ParticlesTypeOK, ParticlesPlaces
<1>11. CASE FaultRecord
  <2>1. /\ WriteDump(DumpName(<<"fault">>)) /\ SeeRecorded("sim_fault")
        /\ seeEvents' = seeEvents + 1 /\ place' = "faulted"
        /\ UNCHANGED <<golden, simStop, hitEpochs, unclean, epochVars, beamVars,
                       lifeVars>>
    BY <1>11 DEF FaultRecord
  <2>2. dumpRel' \in Names /\ \A name \in DOMAIN dumps' : dumps'[name] \in Copies
    BY <2>1, WriteTypes
  <2>3. /\ seeLog' \in Seq(Entry)
        /\ \A i \in DOMAIN seeLog' :
              seeLog'[i].shaped <=> seeLog'[i].event = "see_event"
    BY <2>1, <2>2, RecordTypes
  <2> QED
    BY <2>1, <2>2, <2>3 DEF SimTypes, ParticlesTypeOK, ParticlesPlaces
<1>12. CASE EndSteps
  BY <1>12 DEF EndSteps, SimTypes, ParticlesTypeOK, ParticlesPlaces
<1>13. CASE SaveDump
  <2>1. dumpRel' \in Names /\ \A name \in DOMAIN dumps' : dumps'[name] \in Copies
    BY <1>13, WriteTypes DEF SaveDump
  <2> QED
    BY <1>13, <2>1 DEF SaveDump, SimTypes, ParticlesTypeOK, ParticlesPlaces
<1>14. CASE SeeEvent
  <2>1. /\ dumpRel' = dumpRel /\ SeeRecorded("see_event")
        /\ epoch' = epoch + 1 /\ place' = "epoch"
        /\ UNCHANGED <<golden, simStop, seeEvents, hitEpochs, dumps, unclean, step,
                       snap, anomaly, hit, beamVars, lifeVars>>
    BY <1>14 DEF SeeEvent
  <2>2. dumpRel' \in Names
    BY <2>1 DEF SimTypes
  <2>3. /\ seeLog' \in Seq(Entry)
        /\ \A i \in DOMAIN seeLog' :
              seeLog'[i].shaped <=> seeLog'[i].event = "see_event"
    BY <2>1, <2>2, RecordTypes
  <2> QED
    BY <2>1, <2>2, <2>3 DEF SimTypes, ParticlesTypeOK, ParticlesPlaces
<1>15. CASE StopRecord
  BY <1>15 DEF StopRecord, SimTypes, ParticlesTypeOK, ParticlesPlaces
<1>16. CASE RemoveFlag
  BY <1>16 DEF RemoveFlag, SimTypes, ParticlesTypeOK, ParticlesPlaces
<1> QED
  BY <1>1, <1>2, <1>3, <1>4, <1>5, <1>6, <1>7, <1>8, <1>9, <1>10, <1>11, <1>12,
     <1>13, <1>14, <1>15, <1>16 DEF ParticlesNext

----------------------------------------------------------------------------
(* The marker. *)

LEMMA MarkerStep ==
  SimTypes /\ MarkerInv /\ [ParticlesNext]_particlesVars => MarkerInv'
<1> SUFFICES ASSUME SimTypes, MarkerInv, [ParticlesNext]_particlesVars
             PROVE  MarkerInv'
  OBVIOUS
<1> USE DEF MarkerInv, Alive, recordVars, epochVars, beamVars, lifeVars
<1>0. /\ deaths \in Nat /\ earlyDeaths \in Nat /\ unclean \in Nat
      /\ runFlag \in BOOLEAN
  BY DEF SimTypes, ParticlesTypeOK
<1>1. CASE UNCHANGED particlesVars
  BY <1>1 DEF particlesVars
<1>2. CASE StateUpset
  BY <1>2 DEF StateUpset
<1>3. CASE CudaFault
  BY <1>3 DEF CudaFault
<1>4. CASE Die
  BY <1>0, <1>4 DEF Die
<1>5. CASE HaltUnit
  BY <1>5 DEF HaltUnit
<1>6. CASE Launch
  BY <1>0, <1>6 DEF Launch
<1>7. CASE RaiseFlag
  BY <1>7 DEF RaiseFlag
<1>8. CASE BeginEpoch
  BY <1>8 DEF BeginEpoch
<1>9. CASE Update
  BY <1>9 DEF Update
<1>10. CASE Checkpoint
  BY <1>10 DEF Checkpoint
<1>11. CASE FaultRecord
  BY <1>11 DEF FaultRecord
<1>12. CASE EndSteps
  BY <1>12 DEF EndSteps
<1>13. CASE SaveDump
  BY <1>13 DEF SaveDump
<1>14. CASE SeeEvent
  BY <1>14 DEF SeeEvent
<1>15. CASE StopRecord
  BY <1>15 DEF StopRecord
<1>16. CASE RemoveFlag
  BY <1>0, <1>16 DEF RemoveFlag
<1> QED
  BY <1>1, <1>2, <1>3, <1>4, <1>5, <1>6, <1>7, <1>8, <1>9, <1>10, <1>11, <1>12,
     <1>13, <1>14, <1>15, <1>16 DEF ParticlesNext

----------------------------------------------------------------------------
(* The copies and the verdict. *)

LEMMA TraceStep ==
  SimTypes /\ TraceInv /\ [ParticlesNext]_particlesVars => TraceInv'
<1> SUFFICES ASSUME SimTypes, TraceInv, [ParticlesNext]_particlesVars
             PROVE  TraceInv'
  OBVIOUS
<1> USE DEF recordVars, epochVars, beamVars, lifeVars
<1>0. /\ snap \in Seq(BOOLEAN) /\ Len(snap) \in Nat /\ hit \in Nat
      /\ step \in Nat /\ step <= EpochSteps /\ place \in ParticlesPlaces
      /\ Stride \in Nat \ {0} /\ DOMAIN snap = 1..Len(snap)
  BY ParticlesAssumption DEF SimTypes, ParticlesTypeOK, Copies
<1>1. ASSUME UNCHANGED <<step, snap, hit>>,
             place' = place \/ place' \notin {"step", "check", "dump", "see"}
      PROVE  TraceInv'
  BY <1>1 DEF TraceInv
<1>2. CASE StateUpset
  <2>1. UNCHANGED <<step, snap, place>> /\ place \in {"step", "check"}
    BY <1>2 DEF StateUpset, Simulating
  <2>2. hit' = IF hit = NoHit THEN Len(snap) + 1 ELSE hit
    BY <1>2 DEF StateUpset
  <2>3. hit' <= Len(snap) + 1 /\ \A i \in 1..Len(snap) : snap[i] <=> (hit' = NoHit \/ i < hit')
    BY <1>0, <2>1, <2>2 DEF TraceInv, NoHit
  <2> QED
    BY <1>0, <2>1, <2>3 DEF TraceInv
<1>3. CASE Launch
  BY <1>3 DEF Launch, TraceInv
<1>4. CASE BeginEpoch
  <2>1. CASE simStop
    BY <1>1, <1>4, <2>1 DEF BeginEpoch
  <2>2. CASE ~simStop
    <3>1. place' = "step" /\ step' = 0 /\ snap' = <<>> /\ hit' = NoHit
      BY <1>4, <2>2 DEF BeginEpoch
    <3>2. Len(snap') = 0 /\ DOMAIN snap' = {}
      BY <3>1
    <3> QED
      BY <1>0, <3>1, <3>2 DEF TraceInv, NoHit
  <2> QED
    BY <2>1, <2>2
<1>5. CASE Update
  <2>1. /\ place = "step" /\ step' = step + 1 /\ UNCHANGED <<snap, hit>>
        /\ place' = IF (step + 1) % Stride = 0 THEN "check" ELSE "step"
    BY <1>5 DEF Update
  <2>2. Stride * Len(snap) < step + 1 /\ step + 1 <= Stride * (Len(snap) + 1)
    <3>1. /\ Stride * Len(snap) \in Nat /\ Stride * (Len(snap) + 1) \in Nat
          /\ Stride * Len(snap) <= step /\ step < Stride * (Len(snap) + 1)
      BY <1>0, <2>1 DEF TraceInv
    <3> QED
      BY <1>0, <3>1
  <2>3. (step + 1) % Stride = 0 <=> step + 1 = Stride * (Len(snap) + 1)
    <3> DEFINE n == step + 1
               q == Len(snap)
    <3>1. /\ n \in Nat /\ q \in Nat /\ Stride \in Nat \ {0}
          /\ Stride * q < n /\ n <= Stride * (q + 1)
      BY <1>0, <2>2
    <3> HIDE DEF n, q
    <3>2. n % Stride = 0 <=> n = Stride * (q + 1)
      BY <3>1, NextMultiple
    <3> QED
      BY <3>2 DEF n, q
  <2>4. Stride * Len(snap) \in Nat /\ Stride * (Len(snap) + 1) \in Nat
    BY <1>0
  <2>5. /\ place' = "check" => step' = Stride * (Len(snap') + 1)
        /\ place' = "step" =>
             Stride * Len(snap') <= step' /\ step' < Stride * (Len(snap') + 1)
    BY <1>0, <2>1, <2>2, <2>3, <2>4
  <2> QED
    BY <2>1, <2>5 DEF TraceInv
<1>6. CASE Checkpoint
  <2> DEFINE copy == hit = NoHit
  <2>1. /\ snap' = Append(snap, copy) /\ copy \in BOOLEAN /\ place = "check"
        /\ place' = "step" /\ UNCHANGED <<step, hit>>
    BY <1>6 DEF Checkpoint
  <2>2. step = Stride * (Len(snap) + 1) /\ hit <= Len(snap) + 1
        /\ \A i \in 1..Len(snap) : snap[i] <=> (hit = NoHit \/ i < hit)
    BY <1>0, <2>1 DEF TraceInv
  <2> HIDE DEF copy
  <2>3. /\ Len(snap') = Len(snap) + 1 /\ snap'[Len(snap) + 1] = copy
        /\ \A i \in 1..Len(snap) : snap'[i] = snap[i]
        /\ snap' \in Seq(BOOLEAN)
    BY <1>0, <2>1, AppendProperties
  <2>4. DOMAIN snap' = 1..(Len(snap) + 1)
    BY <2>3
  <2>5. ASSUME NEW i \in DOMAIN snap' PROVE snap'[i] <=> (hit = NoHit \/ i < hit)
    <3>1. CASE i \in 1..Len(snap)
      BY <2>2, <2>3, <3>1
    <3>2. CASE i = Len(snap) + 1
      BY <1>0, <2>2, <2>3, <3>2 DEF copy
    <3> QED
      BY <1>0, <2>4, <3>1, <3>2
  <2>6. Stride * Len(snap') <= step' /\ step' < Stride * (Len(snap') + 1)
    <3>1. Stride * (Len(snap) + 1 + 1) = Stride * (Len(snap) + 1) + Stride
      BY <1>0
    <3> QED
      BY <1>0, <2>1, <2>2, <2>3, <3>1
  <2>7. hit' <= Len(snap') + 1
    BY <1>0, <2>1, <2>2, <2>3
  <2> QED
    BY <2>1, <2>5, <2>6, <2>7 DEF TraceInv
<1>7. CASE EndSteps
  BY <1>7 DEF EndSteps, TraceInv
<1>8. CASE SaveDump
  BY <1>8 DEF SaveDump, TraceInv
<1>9. CASE UNCHANGED particlesVars
  BY <1>9 DEF particlesVars, TraceInv
<1>10. CASE CudaFault
  BY <1>10, <1>1 DEF CudaFault
<1>11. CASE Die
  BY <1>11, <1>1 DEF Die
<1>12. CASE HaltUnit
  BY <1>12, <1>1 DEF HaltUnit
<1>13. CASE RaiseFlag
  BY <1>13, <1>1 DEF RaiseFlag
<1>14. CASE FaultRecord
  BY <1>14, <1>1 DEF FaultRecord
<1>15. CASE SeeEvent
  BY <1>15, <1>1 DEF SeeEvent
<1>16. CASE StopRecord
  BY <1>16, <1>1 DEF StopRecord
<1>17. CASE RemoveFlag
  BY <1>17, <1>1 DEF RemoveFlag
<1> QED
  BY <1>2, <1>3, <1>4, <1>5, <1>6, <1>7, <1>8, <1>9, <1>10, <1>11, <1>12,
     <1>13, <1>14, <1>15, <1>16, <1>17 DEF ParticlesNext

LEMMA VerdictStep ==
  SimTypes /\ TraceInv /\ SeeVerdictInv /\ [ParticlesNext]_particlesVars => SeeVerdictInv'
<1> SUFFICES ASSUME SimTypes, TraceInv, SeeVerdictInv, [ParticlesNext]_particlesVars,
                    golden' = Checkpoints
             PROVE  /\ (place \in {"step", "check"} => (anomaly <=> Hit))'
                    /\ (place \in {"dump", "see"} => Hit)'
                    /\ (Alive => seeEvents = hitEpochs
                                   + (IF place = "faulted" THEN 1 ELSE 0))'
  BY DEF SeeVerdictInv
<1> USE DEF recordVars, epochVars, beamVars, lifeVars
<1>g. golden = Checkpoints /\ golden' = golden
  BY DEF ParticlesNext, particlesVars, StateUpset, CudaFault, Die, HaltUnit, Launch,
         RaiseFlag, BeginEpoch, Update, Checkpoint, FaultRecord, EndSteps, SaveDump,
         SeeEvent, StopRecord, RemoveFlag
<1>0. /\ Len(snap) \in Nat /\ Len(snap) <= Checkpoints /\ hit \in Nat
      /\ Checkpoints \in Nat /\ seeEvents \in Nat /\ hitEpochs \in Nat
      /\ anomaly \in BOOLEAN
  BY CheckpointsDivide DEF SimTypes, ParticlesTypeOK, Copies
<1>v. /\ place \in {"step", "check"} => (anomaly <=> Hit)
      /\ place \in {"dump", "see"} => Hit
      /\ Alive => seeEvents = hitEpochs + (IF place = "faulted" THEN 1 ELSE 0)
  BY <1>g DEF SeeVerdictInv
<1> DEFINE Goal == /\ (place \in {"step", "check"} => (anomaly <=> Hit))'
                   /\ (place \in {"dump", "see"} => Hit)'
                   /\ (Alive => seeEvents = hitEpochs
                                  + (IF place = "faulted" THEN 1 ELSE 0))'
<1>1. ASSUME UNCHANGED <<snap, anomaly, hit, seeEvents, hitEpochs>>,
             \/ place' = place \/ place' = "off"
             \/ /\ place \notin {"off", "faulted"}
                /\ place' \notin {"off", "faulted", "step", "check", "dump", "see"}
             \/ place = "step" /\ place' = "check"
             \/ place = "dump" /\ place' = "see"
      PROVE  Goal
  BY <1>1, <1>v DEF Alive, Hit
<1>2. CASE StateUpset
  <2>1. /\ UNCHANGED <<place, seeEvents, hitEpochs, snap, anomaly>>
        /\ place \in {"step", "check"}
        /\ hit' = IF hit = NoHit THEN Len(snap) + 1 ELSE hit
    BY <1>2 DEF StateUpset, Simulating
  <2>2. Hit' <=> Hit
    BY <1>0, <2>1 DEF Hit, NoHit
  <2> QED
    BY <1>v, <2>1, <2>2 DEF Alive
<1>3. CASE Launch
  BY <1>3 DEF Launch, Alive
<1>4. CASE BeginEpoch
  <2>1. CASE simStop
    BY <1>1, <1>4, <2>1 DEF BeginEpoch
  <2>2. CASE ~simStop
    <3>1. /\ place = "epoch" /\ place' = "step" /\ anomaly' = FALSE /\ hit' = NoHit
          /\ UNCHANGED <<seeEvents, hitEpochs>>
      BY <1>4, <2>2 DEF BeginEpoch
    <3> QED
      BY <1>0, <1>v, <3>1 DEF Alive, Hit, NoHit
  <2> QED
    BY <2>1, <2>2
<1>5. CASE Update
  <2>1. /\ UNCHANGED <<snap, anomaly, hit, seeEvents, hitEpochs>>
        /\ place = "step" /\ place' \in {"step", "check"}
    BY <1>5 DEF Update
  <2> QED
    BY <1>1, <2>1
<1>6. CASE Checkpoint
  <2>1. /\ place = "check" /\ place' = "step" /\ UNCHANGED <<hit, seeEvents, hitEpochs>>
        /\ anomaly' = (Compared /\ Differs)
        /\ snap' = Append(snap, hit = NoHit)
    BY <1>6 DEF Checkpoint
  <2>2. Len(snap') = Len(snap) + 1
    BY <2>1, AppendProperties DEF SimTypes, ParticlesTypeOK, Copies
  <2>3. Len(snap) + 1 <= Checkpoints
        /\ (step + Stride > EpochSteps <=> Len(snap) + 1 = Checkpoints)
    BY <2>1, CheckpointLeft
  <2>4. hit <= Len(snap) + 1
    BY <2>1 DEF TraceInv
  <2>5. (Compared /\ Differs) <=> Hit'
    BY <1>0, <1>g, <2>1, <2>2, <2>3, <2>4 DEF Compared, Differs, Hit, NoHit
  <2> QED
    BY <1>v, <2>1, <2>5 DEF Alive
<1>7. CASE FaultRecord
  BY <1>0, <1>7, <1>v DEF FaultRecord, Alive
<1>8. CASE EndSteps
  <2>1. /\ place = "step" /\ UNCHANGED <<snap, anomaly, hit>>
        /\ hitEpochs' = IF hit \in 1..Checkpoints /\ Len(snap) = Checkpoints
                        THEN hitEpochs + 1 ELSE hitEpochs
    BY <1>8 DEF EndSteps
  <2>2. CASE anomaly
    <3>1. place' = "dump" /\ seeEvents' = seeEvents + 1
      BY <1>8, <2>2 DEF EndSteps
    <3> QED
      BY <1>0, <1>v, <2>1, <2>2, <3>1 DEF Alive, Hit
  <2>3. CASE ~anomaly
    <3>1. place' = "epoch" /\ seeEvents' = seeEvents
      BY <1>8, <2>3 DEF EndSteps
    <3> QED
      BY <1>0, <1>v, <2>1, <2>3, <3>1 DEF Alive, Hit
  <2> QED
    BY <2>2, <2>3
<1>9. CASE SaveDump
  BY <1>1, <1>9 DEF SaveDump
<1>10. CASE SeeEvent
  BY <1>1, <1>10 DEF SeeEvent
<1>11. CASE UNCHANGED particlesVars
  BY <1>1, <1>11 DEF particlesVars
<1>12. CASE CudaFault
  BY <1>1, <1>12 DEF CudaFault
<1>13. CASE Die
  BY <1>1, <1>13 DEF Die
<1>14. CASE HaltUnit
  BY <1>1, <1>14 DEF HaltUnit
<1>15. CASE RaiseFlag
  BY <1>1, <1>15 DEF RaiseFlag
<1>16. CASE StopRecord
  BY <1>1, <1>16 DEF StopRecord
<1>17. CASE RemoveFlag
  BY <1>1, <1>17 DEF RemoveFlag
<1> QED
  BY <1>2, <1>3, <1>4, <1>5, <1>6, <1>7, <1>8, <1>9, <1>10, <1>11, <1>12,
     <1>13, <1>14, <1>15, <1>16, <1>17 DEF ParticlesNext

----------------------------------------------------------------------------
(* The records and their dumps. *)

\* A write takes no dump from an event of an earlier epoch of this process.
LEMMA WriteKeeps ==
  ASSUME SimTypes, NEW rec, Kept(rec, epoch, dumps), NEW suffix \in {<<>>, <<"fault">>},
         WriteDump(DumpName(suffix)), epoch' = epoch
  PROVE  Kept(rec, epoch', dumps')
<1> DEFINE name == DumpName(suffix)
<1>1. Len(name) = 3 \/ name[1] = epoch
  BY NamesDiffer
<1>2. epoch \in Nat
  BY DEF SimTypes, ParticlesTypeOK
<1>3. WriteDump(name)
  OBVIOUS
<1> HIDE DEF name
<1> SUFFICES ASSUME rec.event = "see_event", rec.dump # NoDump
             PROVE  Kept(rec, epoch', dumps')
  BY DEF Kept
<1>4. /\ Len(rec.dump) = 2 /\ rec.dump[1] < epoch /\ rec.dump[1] \in Nat
      /\ rec.dump \in DOMAIN dumps
  BY DEF Kept
<1>6. rec.dump # name
  <2>1. CASE Len(name) = 3
    <3>1. 2 # 3
      OBVIOUS
    <3> QED
      BY <1>4, <2>1, <3>1, Zenon
  <2>2. CASE name[1] = epoch
    BY <1>2, <1>4, <2>2
  <2> QED
    BY <1>1, <2>1, <2>2
<1>5. rec.dump \in DOMAIN dumps' /\ dumps'[rec.dump] = dumps[rec.dump]
  BY <1>3, <1>4, <1>6 DEF WriteDump
<1> QED
  BY <1>5 DEF Kept

LEMMA RecordStep ==
  /\ SimTypes /\ TraceInv /\ SeeVerdictInv /\ RecordInv
  /\ [ParticlesNext]_particlesVars
  => RecordInv'
<1> SUFFICES ASSUME SimTypes, TraceInv, SeeVerdictInv, RecordInv,
                    [ParticlesNext]_particlesVars
             PROVE  RecordInv'
  OBVIOUS
<1> USE DEF recordVars, epochVars, beamVars, lifeVars
<1>t. /\ seeLog \in Seq(Entry) /\ DOMAIN seeLog = 1..Len(seeLog) /\ Len(seeLog) \in Nat
      /\ lives \in Nat /\ epoch \in Nat /\ Len(snap) \in Nat
  BY DEF SimTypes, ParticlesTypeOK, Copies
<1>g. golden' = golden /\ Checkpoints' = Checkpoints
  BY DEF ParticlesNext, particlesVars, StateUpset, CudaFault, Die, HaltUnit, Launch,
         RaiseFlag, BeginEpoch, Update, Checkpoint, FaultRecord, EndSteps, SaveDump,
         SeeEvent, StopRecord, RemoveFlag, Checkpoints
<1>k. ASSUME NEW rec, Kept(rec, epoch, dumps), dumps' = dumps, epoch' = epoch \/ epoch' = epoch + 1
      PROVE  Kept(rec, epoch', dumps')
  BY <1>t, <1>k DEF Kept
<1>1. ASSUME UNCHANGED <<seeLog, dumps, lives>>,
             epoch' = epoch \/ epoch' = epoch + 1,
             place' # "see" \/ UNCHANGED <<place, dumpRel, snap, epoch>>
      PROVE  RecordInv'
  BY <1>1, <1>g, <1>k DEF RecordInv
<1>2. CASE Launch
  <2>1. /\ UNCHANGED <<seeLog, dumps>> /\ lives' = lives + 1 /\ place' = "starting"
    BY <1>2 DEF Launch
  <2>2. \A i \in DOMAIN seeLog' : seeLog'[i].life < lives'
    <3>1. \A i \in DOMAIN seeLog : seeLog[i].life <= lives /\ seeLog[i].life \in Nat
      <4>1. \A i \in DOMAIN seeLog : seeLog[i] \in Entry
        BY <1>t, ElementOfSeq
      <4> QED
        BY <4>1 DEF RecordInv, Entry
    <3> QED
      BY <1>t, <2>1, <3>1
  <2>3. \A i \in DOMAIN seeLog' : seeLog'[i].life <= lives' /\ seeLog'[i].life # lives'
    <3>1. \A i \in DOMAIN seeLog : seeLog[i].life \in Nat
      <4>1. \A i \in DOMAIN seeLog : seeLog[i] \in Entry
        BY <1>t, ElementOfSeq
      <4> QED
        BY <4>1 DEF Entry
    <3> QED
      BY <1>t, <2>1, <2>2, <3>1
  <2> QED
    BY <2>1, <2>3 DEF RecordInv
<1>3. CASE FaultRecord
  <2>1. /\ WriteDump(DumpName(<<"fault">>)) /\ SeeRecorded("sim_fault")
        /\ place' = "faulted" /\ UNCHANGED <<lives, epoch>>
    BY <1>3 DEF FaultRecord
  <2> DEFINE new == [event |-> "sim_fault", dump |-> dumpRel',
                     checkpoints |-> Len(snap),
                     shaped |-> "sim_fault" = "see_event", hit |-> hit, life |-> lives]
  <2>2. seeLog' = Append(seeLog, new) /\ new.event = "sim_fault" /\ new.life = lives
    BY <2>1 DEF SeeRecorded
  <2> HIDE DEF new
  <2>3. DOMAIN seeLog' = 1..(Len(seeLog) + 1) /\ seeLog'[Len(seeLog) + 1] = new
        /\ \A i \in 1..Len(seeLog) : seeLog'[i] = seeLog[i]
    BY <1>t, <2>2
  <2>4. Kept(new, epoch', dumps')
    BY <2>2 DEF Kept
  <2>5. \A rec : Kept(rec, epoch, dumps) => Kept(rec, epoch', dumps')
    BY <2>1, WriteKeeps
  <2>6. ASSUME NEW i \in DOMAIN seeLog'
        PROVE  /\ seeLog'[i].life <= lives'
               /\ golden = Checkpoints /\ seeLog'[i].life = lives' => Kept(seeLog'[i], epoch', dumps')
    <3>1. CASE i \in DOMAIN seeLog
      BY <1>t, <2>1, <2>3, <2>5, <3>1 DEF RecordInv
    <3>2. CASE i = Len(seeLog) + 1
      BY <1>t, <2>1, <2>2, <2>3, <2>4, <3>2
    <3> QED
      BY <1>t, <2>3, <3>1, <3>2
  <2> QED
    BY <1>g, <2>1, <2>6 DEF RecordInv
<1>4. CASE SaveDump
  <2>1. /\ WriteDump(DumpName(<<>>)) /\ place' = "see"
        /\ UNCHANGED <<seeLog, lives, epoch, snap>>
    BY <1>4 DEF SaveDump
  <2>2. \A rec : Kept(rec, epoch, dumps) => Kept(rec, epoch', dumps')
    BY <2>1, WriteKeeps
  <2>3. dumpRel' # NoDump =>
          /\ Len(dumpRel') = 2 /\ dumpRel'[1] = epoch
          /\ dumpRel' \in DOMAIN dumps' /\ dumps'[dumpRel'] = snap
    <3> DEFINE name == DumpName(<<>>)
    <3>1. Len(name) = 2 /\ name[1] = epoch
      BY NamesDiffer
    <3>2. WriteDump(name)
      BY <2>1
    <3> HIDE DEF name
    <3> QED
      BY <3>1, <3>2 DEF WriteDump
  <2>4. /\ \A i \in DOMAIN seeLog' : seeLog'[i].life <= lives'
        /\ golden = Checkpoints =>
             \A i \in DOMAIN seeLog' : seeLog'[i].life = lives' => Kept(seeLog'[i], epoch', dumps')
    BY <2>1, <2>2 DEF RecordInv
  <2> QED
    BY <1>g, <2>1, <2>3, <2>4 DEF RecordInv
<1>5. CASE SeeEvent
  <2>1. /\ SeeRecorded("see_event") /\ dumpRel' = dumpRel /\ place = "see"
        /\ place' = "epoch" /\ epoch' = epoch + 1 /\ UNCHANGED <<lives, dumps>>
    BY <1>5 DEF SeeEvent
  <2> DEFINE new == [event |-> "see_event", dump |-> dumpRel',
                     checkpoints |-> Len(snap),
                     shaped |-> "see_event" = "see_event", hit |-> hit, life |-> lives]
  <2>2. /\ seeLog' = Append(seeLog, new) /\ new.dump = dumpRel /\ new.life = lives
        /\ new.checkpoints = Len(snap) /\ new.hit = hit
    BY <2>1 DEF SeeRecorded
  <2> HIDE DEF new
  <2>3. DOMAIN seeLog' = 1..(Len(seeLog) + 1) /\ seeLog'[Len(seeLog) + 1] = new
        /\ \A i \in 1..Len(seeLog) : seeLog'[i] = seeLog[i]
    BY <1>t, <2>2
  <2>4. golden = Checkpoints => Kept(new, epoch', dumps')
    <3> SUFFICES ASSUME golden = Checkpoints, new.dump # NoDump PROVE Kept(new, epoch', dumps')
      BY DEF Kept
    <3>1. Len(snap) = Checkpoints /\ hit \in 1..Checkpoints
      BY <2>1 DEF SeeVerdictInv, Hit
    <3>2. /\ Len(dumpRel) = 2 /\ dumpRel[1] = epoch
          /\ dumpRel \in DOMAIN dumps /\ dumps[dumpRel] = snap
      BY <2>1, <2>2 DEF RecordInv
    <3>3. \A j \in 1..Checkpoints : snap[j] <=> j < hit
      <4>1. DOMAIN snap = 1..Len(snap) /\ hit # NoHit
        BY <3>1, CheckpointsDivide DEF SimTypes, ParticlesTypeOK, Copies, NoHit
      <4>2. \A j \in DOMAIN snap : snap[j] <=> (hit = NoHit \/ j < hit)
        BY <2>1 DEF TraceInv
      <4> QED
        BY <3>1, <4>1, <4>2
    <3>4. Len(new.dump) = 2 /\ new.dump[1] < epoch' /\ new.dump[1] \in Nat
      BY <1>t, <2>1, <2>2, <3>2
    <3> QED
      BY <1>g, <2>1, <2>2, <3>1, <3>2, <3>3, <3>4 DEF Kept
  <2>6. ASSUME NEW i \in DOMAIN seeLog'
        PROVE  /\ seeLog'[i].life <= lives'
               /\ golden = Checkpoints /\ seeLog'[i].life = lives' => Kept(seeLog'[i], epoch', dumps')
    <3>1. CASE i \in DOMAIN seeLog
      BY <1>t, <1>k, <2>1, <2>3, <3>1 DEF RecordInv
    <3>2. CASE i = Len(seeLog) + 1
      BY <1>t, <2>1, <2>2, <2>3, <2>4, <3>2
    <3> QED
      BY <1>t, <2>3, <3>1, <3>2
  <2> QED
    BY <1>g, <2>1, <2>6 DEF RecordInv
<1>6. CASE StateUpset
  BY <1>1, <1>6 DEF StateUpset
<1>7. CASE CudaFault
  BY <1>1, <1>7 DEF CudaFault
<1>8. CASE Die
  BY <1>1, <1>8 DEF Die
<1>9. CASE HaltUnit
  BY <1>1, <1>9 DEF HaltUnit
<1>10. CASE RaiseFlag
  BY <1>1, <1>10 DEF RaiseFlag
<1>11. CASE BeginEpoch
  BY <1>1, <1>11 DEF BeginEpoch
<1>12. CASE Update
  BY <1>1, <1>12 DEF Update
<1>13. CASE Checkpoint
  BY <1>1, <1>13 DEF Checkpoint
<1>14. CASE EndSteps
  BY <1>1, <1>14 DEF EndSteps
<1>15. CASE StopRecord
  BY <1>1, <1>15 DEF StopRecord
<1>16. CASE RemoveFlag
  BY <1>1, <1>16 DEF RemoveFlag
<1>17. CASE UNCHANGED particlesVars
  BY <1>1, <1>17 DEF particlesVars
<1> QED
  BY <1>2, <1>3, <1>4, <1>5, <1>6, <1>7, <1>8, <1>9, <1>10, <1>11, <1>12,
     <1>13, <1>14, <1>15, <1>16, <1>17 DEF ParticlesNext

----------------------------------------------------------------------------
(* The theorems. *)

ParticlesInv == SimTypes /\ MarkerInv /\ TraceInv /\ SeeVerdictInv /\ RecordInv

LEMMA InvHolds == ParticlesSpec => []ParticlesInv
<1>1. ParticlesInit => ParticlesInv
  <2> SUFFICES ASSUME ParticlesInit PROVE ParticlesInv
    OBVIOUS
  <2>1. SimTypes
    BY TypesInit
  <2>2. /\ place = "off" /\ runFlag = FALSE /\ deaths = 0 /\ earlyDeaths = 0
        /\ unclean = 0 /\ lives = 0 /\ seeLog = <<>>
    BY DEF ParticlesInit
  <2>3. DOMAIN seeLog = {}
    BY <2>2
  <2> QED
    BY <2>1, <2>2, <2>3
    DEF ParticlesInv, MarkerInv, TraceInv, SeeVerdictInv, RecordInv, Alive
<1>2. ParticlesInv /\ [ParticlesNext]_particlesVars => ParticlesInv'
  BY TypesStep, MarkerStep, TraceStep, VerdictStep, RecordStep DEF ParticlesInv
<1> QED
  BY <1>1, <1>2, PTL DEF ParticlesSpec

\* Every variable of Particles keeps its type, for any epoch length, interval,
\* limit and faults; that the copies fit the buffer (l. 336-350) is part of it.
THEOREM ParticlesTypes == ParticlesSpec => []ParticlesTypeOK
<1>1. ParticlesInv => ParticlesTypeOK
  BY DEF ParticlesInv, SimTypes
<1> QED
  BY <1>1, InvHolds, PTL

\* Every death of a workload with its marker up is one unclean_restart record
\* when it runs again, and no other run of the program is (l. 302-315).
THEOREM CrashesFlaggedHolds == ParticlesSpec => []CrashesFlagged
<1>1. ParticlesInv => CrashesFlagged
  BY DEF ParticlesInv, MarkerInv, CrashesFlagged
<1> QED
  BY <1>1, InvHolds, PTL

\* A process counts each affected epoch once and no other one, wherever in the
\* epoch the upset came and however the interval divides it (l. 498-546).
THEOREM OneSeePerEpochHolds == ParticlesSpec => []OneSeePerEpoch
<1>1. ParticlesInv => OneSeePerEpoch
  BY DEF ParticlesInv, SeeVerdictInv, OneSeePerEpoch
<1> QED
  BY <1>1, InvHolds, PTL

\* The dump of every event of the running process gives triage the checkpoint
\* after the first upset of its epoch (triage_dump, "localises the upset").
THEOREM DumpLocatesHolds == ParticlesSpec => []DumpLocates
<1>1. ParticlesInv => DumpLocates
  <2> SUFFICES ASSUME ParticlesInv, golden = Checkpoints,
                      NEW i \in DOMAIN seeLog, seeLog[i].life = lives,
                      seeLog[i].event = "see_event", seeLog[i].dump # NoDump
               PROVE  Triage(seeLog[i]) = seeLog[i].hit
    BY DEF DumpLocates, Located
  <2> DEFINE rec == seeLog[i]
             copies == dumps[rec.dump]
  <2>1. /\ rec.dump \in DOMAIN dumps /\ rec.dump # NoDump
        /\ rec.checkpoints = Checkpoints /\ rec.hit \in 1..Checkpoints
        /\ Len(copies) = Checkpoints
        /\ \A j \in 1..Checkpoints : copies[j] <=> j < rec.hit
    BY DEF ParticlesInv, RecordInv, Kept
  <2>2. rec.shaped
    BY DEF ParticlesInv, SimTypes, ParticlesTypeOK
  <2>3. copies \in Seq(BOOLEAN) /\ Checkpoints \in Nat
    BY <2>1, CheckpointsDivide DEF ParticlesInv, SimTypes, ParticlesTypeOK, Copies
  <2> HIDE DEF copies
  <2>4. Divergent(copies) = {j \in 1..Checkpoints : ~(j < rec.hit)}
    <3>1. DOMAIN copies = 1..Checkpoints
      BY <2>1, <2>3
    <3> QED
      BY <2>1, <2>3, <3>1 DEF Divergent
  <2> HIDE DEF rec
  <2>5. /\ rec.hit \in Divergent(copies)
        /\ \A j \in Divergent(copies) : rec.hit <= j
    BY <2>1, <2>3, <2>4
  <2>6. ASSUME NEW k \in Divergent(copies), \A j \in Divergent(copies) : k <= j
        PROVE  k = rec.hit
    <3>1. k <= rec.hit /\ rec.hit <= k /\ k \in Nat /\ rec.hit \in Nat
      BY <2>1, <2>4, <2>5, <2>6
    <3> QED
      BY <3>1
  <2>7. (CHOOSE k \in Divergent(copies) : \A j \in Divergent(copies) : k <= j)
          = rec.hit
    BY <2>5, <2>6
  <2>8. Divergent(copies) # {} /\ Len(copies) = rec.checkpoints
    BY <2>1, <2>5
  <2> QED
    BY <2>1, <2>2, <2>7, <2>8 DEF Triage, copies, rec
<1> QED
  BY <1>1, InvHolds, PTL
=============================================================================
