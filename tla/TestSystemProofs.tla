--------------------------- MODULE TestSystemProofs ---------------------------
(***************************************************************************)
(* Theorems about TestSystem, for any number of connection threads,        *)
(* timers, samplers, channels, runs and STOPs: an idle coordinator means a *)
(* stopped DUT, and the two programs together implement TestRun.  They     *)
(* hold as long as no START is lost, no step of a START fails, a disarm    *)
(* does what it reports and the coordinator does not raise after an        *)
(* accepted request; STOPs may be lost, time out, fail and be repeated.    *)
(*                                                                         *)
(* The invariant joins those of CoordinatorProofs and ControlReceiverProofs *)
(* by what each side may rely on: the board belongs to the run that the    *)
(* coordinator is starting or shows (OneRun), a START is under way on the  *)
(* board only during its call (Clean), and nothing is live while there is  *)
(* no run or its START has not arrived (Quiet).                            *)
(***************************************************************************)
EXTENDS TestSystem, CoordinatorProofs

DP == INSTANCE ControlReceiverProofs WITH
  RequestIds <- Runs \cup StopIds,
  Commands <- StartCommands \cup {"STOP_TEST"},
  AllowRetry <- FALSE

-----------------------------------------------------------------------------
(* The board's actions are those the theorems about it speak of. *)

LEMMA BoardConstants ==
  /\ NumChannels \in Nat \ {0}
  /\ StartCommands \cup {"STOP_TEST"} \subseteq DP!StartCommands \cup {"STOP_TEST"}
  /\ OnStartTest \in BOOLEAN /\ FALSE \in BOOLEAN /\ Faults \subseteq DP!FaultKinds
  /\ Handlers \cap Timers = {}
  /\ None \notin (Runs \cup StopIds) \cup Timers \cup Samplers \cup DP!StartCommands
                 \cup {"STOP_TEST"}
  BY BoardAssumption, IdsAssumption
    DEF DP!StartCommands, DP!FaultKinds, DUT!FaultKinds, StartCommands

LEMMA SameBoard ==
  /\ DUT!Channels = DP!Channels
  /\ \A c : DUT!Live(c) <=> DP!Live(c)
  /\ \A h : DUT!Starting(h) <=> DP!Starting(h)
  /\ DUT!Init <=> DP!Init
  BY DEF DUT!Channels, DP!Channels, DUT!Live, DP!Live, DUT!Starting, DP!Starting,
         DUT!StartCommands, DP!StartCommands, DUT!Init, DP!Init, DUT!Threads, DP!Threads,
         DUT!Rest, DP!Rest, DUT!NoSampler, DP!NoSampler

LEMMA SameReceive == \A h : DUT!Receive(h) <=> DP!Receive(h)
  BY DEF DUT!Receive, DP!Receive, DUT!GoTo, DP!GoTo, DUT!Rest, DP!Rest, DUT!StartCommands,
         DP!StartCommands, DUT!timer, DP!timer, DUT!logger, DP!logger, DUT!dut, DP!dut

LEMMA SameFinish == \A h : DUT!Finish(h) <=> DP!Finish(h)
  BY DEF DUT!Finish, DP!Finish, DUT!GoTo, DP!GoTo, DUT!Rest, DP!Rest, DUT!Starting,
         DP!Starting, DUT!StartCommands, DP!StartCommands, DUT!timer, DP!timer, DUT!logger,
         DP!logger, DUT!dut, DP!dut

LEMMA SameStopCurrentLogger == \A th : DUT!StopCurrentLogger(th) <=> DP!StopCurrentLogger(th)
  BY DEF DUT!StopCurrentLogger, DP!StopCurrentLogger, DUT!PopSampler, DP!PopSampler,
         DUT!ReplayBaseline, DP!ReplayBaseline, DUT!ReapSampler, DP!ReapSampler,
         DUT!RecordBaseline, DP!RecordBaseline, DUT!AfterSampler, DP!AfterSampler,
         DUT!Starting, DP!Starting, DUT!StartCommands, DP!StartCommands, DUT!GoTo, DP!GoTo,
         DUT!NoSampler, DP!NoSampler, DUT!registry, DP!registry, DUT!timer, DP!timer,
         DUT!logger, DP!logger, DUT!dut, DP!dut

LEMMA SameDoStop == \A th : DUT!DoStop(th) <=> DP!DoStop(th)
  BY DEF DUT!DoStop, DP!DoStop, DUT!Disarm, DP!Disarm, DUT!StopUnit, DP!StopUnit,
         DUT!StopFails, DP!StopFails, DUT!NextChannel, DP!NextChannel, DUT!Advance,
         DP!Advance, DUT!Chan, DP!Chan, DUT!GoTo, DP!GoTo, DUT!registry, DP!registry,
         DUT!timer, DP!timer, DUT!logger, DP!logger

LEMMA SameDoStart == \A h : DUT!DoStart(h) <=> DP!DoStart(h)
  BY DEF DUT!DoStart, DP!DoStart, DUT!StartFails, DP!StartFails, DUT!Configure, DP!Configure,
         DUT!Arm, DP!Arm, DUT!RestartUnit, DP!RestartUnit, DUT!Started, DP!Started,
         DUT!AfterChannels, DP!AfterChannels, DUT!HasSampler, DP!HasSampler, DUT!Starting,
         DP!Starting, DUT!StartCommands, DP!StartCommands, DUT!NextChannel, DP!NextChannel,
         DUT!Advance, DP!Advance, DUT!Chan, DP!Chan, DUT!GoTo, DP!GoTo, DUT!registry,
         DP!registry, DUT!timer, DP!timer, DUT!logger, DP!logger, DUT!dut, DP!dut

LEMMA SameSampler ==
  \A h : (DUT!SpawnSampler(h) \/ DUT!RegisterSampler(h)) <=>
         (DP!SpawnSampler(h) \/ DP!RegisterSampler(h))
  BY DEF DUT!SpawnSampler, DP!SpawnSampler, DUT!RegisterSampler, DP!RegisterSampler,
         DUT!NoSampler, DP!NoSampler, DUT!GoTo, DP!GoTo, DUT!registry, DP!registry,
         DUT!timer, DP!timer, DUT!dut, DP!dut

LEMMA SameTimers ==
  \A h : (DUT!PopTimer(h) \/ DUT!RevokeTimer(h) \/ DUT!Schedule(h) \/ DUT!LaunchTimer(h)) <=>
         (DP!PopTimer(h) \/ DP!RevokeTimer(h) \/ DP!Schedule(h) \/ DP!LaunchTimer(h))
  BY DEF DUT!PopTimer, DP!PopTimer, DUT!RevokeTimer, DP!RevokeTimer, DUT!Schedule,
         DP!Schedule, DUT!LaunchTimer, DP!LaunchTimer, DUT!AfterCancel, DP!AfterCancel,
         DUT!Starting, DP!Starting, DUT!StartCommands, DP!StartCommands, DUT!Held, DP!Held,
         DUT!Threads, DP!Threads, DUT!Rest, DP!Rest, DUT!GoTo, DP!GoTo, DUT!registry,
         DP!registry, DUT!timer, DP!timer, DUT!logger, DP!logger, DUT!dut, DP!dut

LEMMA SameHandlerStep == \A h : DUT!HandlerStep(h) <=> DP!HandlerStep(h)
  BY SameStopCurrentLogger, SameDoStart, SameSampler, SameTimers, SameDoStop, SameFinish
    DEF DUT!HandlerStep, DP!HandlerStep

LEMMA SameTimerStep == \A t : DUT!TimerStep(t) <=> DP!TimerStep(t)
<1>1. \A t : (DUT!Fire(t) \/ DUT!Guard(t) \/ DUT!FinishAutoStop(t)) <=>
             (DP!Fire(t) \/ DP!Guard(t) \/ DP!FinishAutoStop(t))
  BY DEF DUT!Fire, DP!Fire, DUT!Guard, DP!Guard, DUT!FinishAutoStop, DP!FinishAutoStop,
         DUT!GoTo, DP!GoTo, DUT!Rest, DP!Rest, DUT!registry, DP!registry, DUT!timer, DP!timer,
         DUT!logger, DP!logger, DUT!dut, DP!dut
<1>2. QED
  BY <1>1, SameDoStop, SameStopCurrentLogger DEF DUT!TimerStep, DP!TimerStep

LEMMA SameAround ==
  /\ \A s : DUT!SamplerExits(s) <=> DP!SamplerExits(s)
  /\ \A c : DUT!UnitRespawns(c) <=> DP!UnitRespawns(c)
  BY DEF DUT!SamplerExits, DP!SamplerExits, DUT!Owned, DP!Owned, DUT!Threads, DP!Threads,
         DUT!NoSampler, DP!NoSampler, DUT!UnitRespawns, DP!UnitRespawns, DUT!Started,
         DP!Started, DUT!registry, DP!registry, DUT!timer, DP!timer, DUT!logger, DP!logger,
         DUT!dut, DP!dut

\* A step of the system as one of each side's.
LEMMA SystemMoves ==
  ASSUME [SysNext]_<<gui, board>>
  PROVE  /\ [DP!Next]_DP!vars /\ [Moves]_gui
         /\ \/ /\ Operator \/ Submit \/ FireMirror
               /\ call' # NoCall => issued[call'.id] = None
               /\ UNCHANGED board
            \/ \E h \in Handlers : Deliver(h) /\ DP!Receive(h)
            \/ \E h \in Handlers : Reply(h) /\ DP!Finish(h) /\ Served(h)
            \/ CallFails
            \/ UNCHANGED <<gui, issued>>
<1>1. UNCHANGED board => UNCHANGED DP!vars
  BY DEF board, DP!vars, DP!registry, DP!timer, DP!logger, DP!dut
<1>2. CASE GuiStep
  BY <1>1, <1>2 DEF GuiStep, Moves
<1>3. ASSUME NEW h \in Handlers, Deliver(h)
      PROVE  DP!Next /\ DP!Receive(h) /\ UNCHANGED gui
  BY <1>3, SameReceive DEF Deliver, DP!Next
<1>4. ASSUME NEW h \in Handlers, HandlerRuns(h)
      PROVE  DP!Next /\ UNCHANGED <<gui, issued>>
  BY <1>4, SameHandlerStep, BoardConstants, DP!ThreadsIssueNothing DEF HandlerRuns, DP!Next
<1>5. ASSUME NEW h \in Handlers, Reply(h)
      PROVE  /\ DP!Next /\ DP!Finish(h) /\ [Moves]_gui
             /\ Served(h) \/ UNCHANGED <<gui, issued>>
  <2>1. DP!HandlerStep(h) /\ DP!Finish(h)
    BY <1>5, SameFinish DEF Reply, DP!HandlerStep
  <2>2. UNCHANGED issued
    BY <2>1 DEF DP!Finish
  <2>3. QED
    BY <1>5, <2>1, <2>2 DEF Reply, DP!Next, Moves
<1>6. CASE CallFails
  BY <1>1, <1>6 DEF CallFails, Moves
<1>7. CASE DutStep
  <2>1. DP!Next
    BY <1>7, SameTimerStep, SameAround, SameBoard DEF DutStep, DP!Next
  <2>2. UNCHANGED issued
    BY <1>7, SameTimerStep, SameAround, SameBoard, BoardConstants, DP!ThreadsIssueNothing
      DEF DutStep
  <2>3. QED
    BY <1>7, <2>1, <2>2 DEF DutStep
<1>8. CASE UNCHANGED <<gui, board>>
  BY <1>1, <1>8 DEF board
<1>9. QED
  BY <1>2, <1>3, <1>4, <1>5, <1>6, <1>7, <1>8 DEF SysNext

-----------------------------------------------------------------------------
(* The invariant *)

\* The run that is being started, or else the one that is shown as active.
Cur == IF Starting THEN call.run ELSE active

\* A request that was received was received as what it is.
Received == ~TkFree => issued[call.id] \in {None, call.cmd}

\* A STOP that will be answered tells the truth.
Answers == \A h \in Handlers : Served(h) => DP!StopTruth(h)

\* A START goes on only while the coordinator waits for it, and without failing.
Clean == \A h \in Handlers : DP!Starting(h) => Starting /\ local[h].failed = {}

\* The board is left to the run Cur.
OneRun == \E r : r = Cur /\ DP!ForRun(r)

\* Without a run, or before its START has arrived, nothing is live.
AtRest == state = "IDLE" \/ (Starting /\ issued[call.id] = None)
Quiet == AtRest => \A c \in DP!Channels : ~DP!Live(c)

\* What is active was received.
Known == active # None => issued[active] # None

BoardInv == DP!Inv /\ DP!Idles /\ DP!ServedOnce
SysInv == ActiveInv /\ BoardInv /\ Received /\ Answers /\ Clean /\ OneRun /\ Quiet /\ Known

-----------------------------------------------------------------------------
(* The invariant is inductive *)

\* Where the coordinator's steps apart from the end of a call lead.
LEMMA GuiEffect ==
  ASSUME ActiveInv, Operator \/ Submit \/ FireMirror
  PROVE  /\ TkFree /\ ~Starting /\ active' = active /\ reported' = reported
         /\ state' = "IDLE" \/ Starting' => state = "IDLE"
<1>1. TkFree /\ reported' = reported /\ ~Starting
  BY Kinds
    DEF Operator, Submit, AskStart, AskStop, Decline, Dismiss, SendStart, StartUnrecorded,
        SendStop, FireMirror, ButtonsFree, Asking, TkFree, Starting, StartCommands
<1>2. state = "IDLE" => active = None
  BY DEF ActiveInv, ActiveHasRequest
<1>3. CASE Operator
  BY <1>1, <1>3
    DEF Operator, AskStart, AskStop, Decline, Dismiss, Starting
<1>4. CASE SendStart \/ StartUnrecorded
  <2>1. state = "IDLE"
    BY <1>4, Open DEF SendStart, StartUnrecorded, Asking, StartCommands, ActiveInv
  <2>2. QED
    BY <1>1, <1>2, <1>4, <2>1 DEF SendStart, StartUnrecorded
<1>5. CASE SendStop \/ FireMirror
  <2>1. ~Starting' /\ active' = active /\ (state' \in {"ACTIVE", "STOPPING"} \/ state' = state)
    BY <1>1, <1>5 DEF SendStop, FireMirror, SubmitStop, Request, Starting, StartCommands
  <2>2. QED
    BY <1>1, <2>1
<1>6. QED
  BY <1>1, <1>3, <1>4, <1>5 DEF Submit

\* Where the end of a call leads, when nothing raises.
LEMMA CallEffect ==
  ASSUME ActiveInv, Accept \/ Fail, "raise" \notin Mishaps
  PROVE  /\ TkFree' /\ ~Starting' /\ ~TkFree
         /\ \/ Accept /\ Starting /\ active' = call.run /\ reported' = reported /\ state' = "ACTIVE"
            \/ Fail /\ Starting
            \/ /\ Accept /\ Stopping /\ active' = None /\ state' = "IDLE"
               /\ reported' = reported \cup {call.run}
            \/ /\ Fail /\ Stopping /\ active' = active /\ state' = "ACTIVE"
               /\ reported' = reported
<1>1. TkFree' /\ ~Starting'
  BY Kinds
    DEF Accept, Fail, StartAccepted, StartRaises, StopAccepted, StopRaises, StartFailed,
        StartError, StopFailed, EndCall, TkFree, Starting, StartCommands
<1>2. ~TkFree
  BY Kinds
    DEF Accept, Fail, StartAccepted, StartRaises, StopAccepted, StopRaises, StartFailed,
        StartError, StopFailed, TkFree, Starting, Stopping, StartCommands
<1>3. QED
  BY <1>1, <1>2
    DEF Accept, Fail, StartAccepted, StartRaises, StopAccepted, StopRaises, StartFailed,
        StartError, StopFailed

\* The ids of a call, and what its kind says of the state.
LEMMA CallIds ==
  ASSUME ActiveInv, ~TkFree
  PROVE  /\ call.id \in Runs \cup StopIds /\ call.id # None /\ call.run \in Runs
         /\ (Starting \/ Stopping) /\ ~(Starting /\ Stopping)
         /\ Starting => call.id = call.run /\ call.run \notin reported
         /\ Stopping => call.id \in StopIds /\ call.run = active /\ active \notin reported
         /\ state # "IDLE" /\ call.cmd # None
<1>1. call \in StartRequests \cup StopRequests(StopIds)
  BY TypeByParts DEF ActiveInv, Inv, TkFree
<1>2. /\ call.run \in Runs
      /\ \/ call.cmd \in StartCommands /\ call.id \in Runs
         \/ call.cmd = "STOP_TEST" /\ call.id \in StopIds
  BY <1>1 DEF StartRequests, StopRequests
<1>3. None \notin Runs \cup StopIds \cup StartCommands \cup {"STOP_TEST"}
  BY IdsAssumption
<1>4. state # "IDLE"
  BY <1>2 DEF ActiveInv, Inv, Calls, Starting, Stopping
<1>5. QED
  BY <1>2, <1>3, <1>4 DEF ActiveInv, Named, Starting, Stopping, StartCommands

\* What a handler serves.
LEMMA Serving ==
  ASSUME BoardInv, NEW h \in Handlers
  PROVE  /\ h \in DP!Threads
         /\ DP!Starting(h) => pc[h] # "idle"
         /\ pc[h] = "idle" => local[h].run = None
         /\ pc[h] # "idle" => /\ local[h].run # None /\ issued[local[h].run] = local[h].cmd
                             /\ local[h].cmd # None
<1>1. h \in DP!Threads
  BY DEF DP!Threads
<1>2. pc[h] = "idle" => local[h] = DP!Rest
  BY <1>1 DEF BoardInv, DP!Idles
<1>3. DP!Rest.run = None /\ DP!Rest.cmd = "auto_stop"
  BY BoardConstants, DP!RestFields
<1>4. pc[h] # "idle" =>
        /\ local[h].run \in Runs \cup StopIds /\ issued[local[h].run] = local[h].cmd
        /\ local[h].cmd \in DP!StartCommands \cup {"STOP_TEST"}
  BY DEF BoardInv, DP!ServedOnce
<1>5. QED
  BY <1>1, <1>2, <1>3, <1>4, BoardConstants DEF DP!Starting, DP!StartCommands

\* At rest no START is under way on the board.
LEMMA RestIsQuiet ==
  ASSUME SysInv, AtRest
  PROVE  \A h \in Handlers : ~DP!Starting(h)
<1> SUFFICES ASSUME NEW h \in Handlers, DP!Starting(h) PROVE FALSE
  OBVIOUS
<1>1. Starting /\ ~TkFree
  BY Kinds DEF SysInv, Clean, TkFree, Starting, StartCommands
<1>2. issued[call.id] = None /\ call.id = call.run
  BY <1>1, CallIds DEF SysInv, AtRest
<1>3. local[h].run = call.run
  BY <1>1 DEF SysInv, OneRun, Cur, DP!ForRun
<1>4. QED
  BY <1>2, <1>3, Serving DEF SysInv

LEMMA BoardStep ==
  ASSUME BoardInv, [DP!Next]_DP!vars
  PROVE  BoardInv'
<1>1. DP!Inv' /\ DP!Idles'
  BY BoardConstants, DP!InvStep, DP!IdlesStep DEF BoardInv
<1>2. DP!ServedOnce'
  BY BoardConstants, DP!ServedStep DEF BoardInv
<1>3. QED
  BY <1>1, <1>2 DEF BoardInv

\* A board at rest is anybody's.
LEMMA RestForRun ==
  ASSUME \A h \in Handlers : ~DP!Starting(h), \A c \in DP!Channels : ~DP!Live(c), NEW r
  PROVE  DP!ForRun(r)
  BY DEF DP!ForRun, DP!Live

\* A handler of a STOP that is answered works on a board no START changes.
LEMMA AnswerStep ==
  ASSUME SysInv, [DP!Next]_DP!vars, "disarm" \notin Faults, NEW h \in Handlers, Served(h),
         UNCHANGED <<gui, issued>>, local'[h].run = local[h].run, pc'[h] # "idle"
  PROVE  DP!StopTruth(h)'
<1>1. BoardInv /\ BoardInv'
  BY BoardStep DEF SysInv
<1>2. ~TkFree /\ pc[h] # "idle" /\ issued[call.id] = local[h].cmd /\ call.cmd = local[h].cmd
  <2>1. ~TkFree /\ local[h].run = call.id /\ call.id # None
    BY CallIds DEF Served, SysInv
  <2>2. pc[h] # "idle" /\ issued[call.id] = local[h].cmd /\ local[h].cmd # None
    BY <1>1, <2>1, Serving
  <2>3. QED
    BY <2>1, <2>2 DEF SysInv, Received
<1>3. ASSUME local'[h].cmd = "STOP_TEST" PROVE DP!Calms
  <2>1. issued'[local'[h].run] = local'[h].cmd
    BY <1>1 DEF BoardInv, DP!ServedOnce
  <2>2. Stopping
    BY <1>2, <1>3, <2>1 DEF Served, Stopping
  <2>3. \A g \in Handlers : ~DP!Starting(g)
    BY <1>2, <2>2, CallIds DEF SysInv, Clean
  <2>4. ASSUME NEW g \in Handlers, DP!Configure(g) \/ DP!Arm(g) PROVE FALSE
    BY <1>1, <2>3, <2>4, Serving
      DEF DP!Configure, DP!Arm, BoardInv, DP!Inv, DP!Routines, DP!Places
  <2>5. QED
    BY <1>1, <2>4, BoardConstants, DP!CalmStep DEF BoardInv
<1>4. DP!StopTruth(h)
  BY DEF SysInv, Answers
<1>5. QED
  BY <1>1, <1>3, <1>4, BoardConstants, DP!StopTruthStep DEF BoardInv

\* A step of the board while nothing is received or answered.
LEMMA BoardRuns ==
  ASSUME SysInv, [DP!Next]_DP!vars, UNCHANGED <<gui, issued>>,
         "start" \notin Faults, "disarm" \notin Faults
  PROVE  Answers' /\ Clean' /\ OneRun' /\ Quiet'
<1>1. BoardInv /\ DP!Inv /\ BoardInv'
  BY BoardStep DEF SysInv, BoardInv
<1>2. \A h \in Handlers : ~DP!Receive(h)
  BY <1>1, BoardConstants, DP!ReceiveIssues
<1>3. UNCHANGED <<state, active, call>> /\ (TkFree' <=> TkFree) /\ (Starting' <=> Starting)
      /\ Cur' = Cur
  BY DEF gui, TkFree, Starting, Cur
<1>4. ASSUME NEW h \in Handlers
      PROVE  \/ pc'[h] = pc[h] /\ local'[h] = local[h]
             \/ DP!Keeps(h) /\ pc'[h] # "idle"
             \/ local'[h] = DP!Rest
  BY <1>1, <1>2, BoardConstants, DP!HandlerMoves
<1>5. Answers'
  <2> SUFFICES ASSUME NEW h \in Handlers, Served(h)' PROVE DP!StopTruth(h)'
    BY DEF Answers
  <2>1. ~TkFree /\ local'[h].run = call.id /\ call.id # None
    BY <1>3, CallIds DEF Served, SysInv, gui
  <2>2. local'[h].run = local[h].run /\ pc'[h] # "idle"
    <3>1. pc'[h] # "idle"
      <4>1. pc'[h] = "idle" => local'[h] = DP!Rest
        BY <1>1 DEF BoardInv, DP!Idles, DP!Threads
      <4>2. QED
        BY <2>1, <4>1, BoardConstants, DP!RestFields
    <3>2. QED
      BY <1>4, <2>1, <3>1, BoardConstants, DP!RestFields DEF DP!Keeps
  <2>3. QED
    BY <2>1, <2>2, AnswerStep DEF Served
<1>6. Clean'
  <2> SUFFICES ASSUME NEW h \in Handlers, DP!Starting(h)'
               PROVE  Starting' /\ local'[h].failed = {}
    BY DEF Clean
  <2>1. DP!Starting(h)
    BY <1>4, BoardConstants, DP!RestFields DEF DP!Starting, DP!Keeps, DP!StartCommands
  <2>2. Starting /\ local[h].failed = {}
    BY <2>1 DEF SysInv, Clean
  <2>3. QED
    BY <1>1, <1>3, <2>2, BoardConstants, DP!CleanStep
<1>7. OneRun'
  <2>1. PICK r : r = Cur /\ DP!ForRun(r)
    BY DEF SysInv, OneRun
  <2>2. DP!ForRun(r)'
    BY <1>1, <1>2, <2>1, BoardConstants, DP!ForRunStep
  <2>3. QED
    BY <1>3, <2>1, <2>2 DEF OneRun
<1>8. Quiet'
  <2> SUFFICES ASSUME AtRest', NEW c \in DP!Channels PROVE ~DP!Live(c)'
    BY DEF Quiet, DP!Channels
  <2>1. AtRest
    BY <1>3 DEF AtRest, gui
  <2>2. \A h \in Handlers : ~DP!Starting(h)
    BY <2>1, RestIsQuiet
  <2>3. ASSUME NEW g \in Handlers, DP!Configure(g) \/ DP!Arm(g) PROVE FALSE
    BY <1>1, <2>2, <2>3 DEF DP!Configure, DP!Arm, DP!Inv, DP!Routines, DP!Places, DP!Threads
  <2>4. DP!Calms
    BY <1>1, <2>3, BoardConstants, DP!CalmStep
  <2>5. ~DP!Live(c)
    BY <2>1 DEF SysInv, Quiet
  <2>6. QED
    BY <2>4, <2>5, BoardConstants, DP!CalmKeepsDown
<1>9. QED
  BY <1>5, <1>6, <1>7, <1>8

\* A request arrives.
LEMMA DeliverStep ==
  ASSUME SysInv, [DP!Next]_DP!vars, NEW h \in Handlers, Deliver(h), DP!Receive(h),
         "start" \notin Faults, "disarm" \notin Faults
  PROVE  Received' /\ Answers' /\ Clean' /\ OneRun' /\ Quiet' /\ Known'
<1>1. BoardInv /\ DP!Inv /\ BoardInv' /\ ActiveInv
  BY BoardStep DEF SysInv, BoardInv
<1>2. /\ ~TkFree /\ UNCHANGED gui /\ local'[h].run = call.id /\ local'[h].cmd = call.cmd
      /\ UNCHANGED <<state, active, call>> /\ (TkFree' <=> TkFree) /\ (Starting' <=> Starting)
      /\ Cur' = Cur
  BY DEF Deliver, gui, TkFree, Starting, Cur
<1>3. /\ pc[h] = "idle" /\ pc'[h] \in {"pop", "cancel"} /\ local'[h].failed = {}
      /\ issued[call.id] = None /\ issued' = [issued EXCEPT ![call.id] = call.cmd]
      /\ \A g \in Handlers \ {h} : pc'[g] = pc[g] /\ local'[g] = local[g]
      /\ call.cmd = "STOP_TEST" => pc'[h] = "cancel"
  BY <1>1, <1>2, BoardConstants, DP!ReceiveEffect DEF DP!Threads
<1>4. call.id \in Runs \cup StopIds /\ call.id # None /\ state # "IDLE" /\ call.cmd # None
  BY <1>1, <1>2, CallIds
<1>5. issued \in [Runs \cup StopIds -> DP!StartCommands \cup {"STOP_TEST", None}]
  BY <1>1 DEF DP!Inv, DP!TypeOK
<1>6. issued'[call.id] = call.cmd /\ \A id : id # call.id => issued'[id] = issued[id]
  BY <1>3, <1>4, <1>5
<1>7. \A g \in Handlers \ {h} : ~Served(g)'
  <2> SUFFICES ASSUME NEW g \in Handlers \ {h}, local[g].run = call.id PROVE FALSE
    BY <1>2, <1>3 DEF Served
  <2>1. QED
    BY <1>1, <1>3, <1>4, Serving
<1>8. Received'
  BY <1>2, <1>6 DEF Received
<1>9. Answers'
  <2>1. DP!StopTruth(h)'
    BY <1>2, <1>3 DEF DP!StopTruth, DP!Passed
  <2>2. QED
    BY <1>7, <2>1 DEF Answers
<1>10. Clean'
  <2>1. \A g \in Handlers \ {h} : DP!Starting(g)' => Starting /\ local'[g].failed = {}
    BY <1>3 DEF DP!Starting, SysInv, Clean
  <2>2. DP!Starting(h)' => Starting /\ local'[h].failed = {}
    BY <1>2, <1>3 DEF DP!Starting, Starting, DP!StartCommands, StartCommands
  <2>3. QED
    BY <1>2, <2>1, <2>2 DEF Clean
<1>11. OneRun'
  <2>1. PICK r : r = Cur /\ DP!ForRun(r)
    BY DEF SysInv, OneRun
  <2>2. DP!Starting(h)' => local'[h].run = r
    BY <1>1, <1>2, <2>1, CallIds
      DEF DP!Starting, Starting, DP!StartCommands, StartCommands, Cur
  <2>3. \A g \in Handlers \ {h} : ~DP!Receive(g)
    <3>1. ASSUME NEW g \in Handlers \ {h}, DP!Receive(g) PROVE FALSE
      <4>1. pc[g] = "idle" /\ pc'[g] \in {"pop", "cancel"}
        BY <1>1, <3>1, BoardConstants, DP!ReceiveEffect
      <4>2. QED
        BY <1>3, <4>1
    <3>2. QED
      BY <3>1
  <2>4. DP!ForRun(r)'
    BY <1>1, <2>1, <2>2, <2>3, BoardConstants, DP!ForRunStep
  <2>5. QED
    BY <1>2, <2>1, <2>4 DEF OneRun
<1>12. Quiet'
  BY <1>2, <1>4, <1>6 DEF Quiet, AtRest
<1>13. Known'
  BY <1>2, <1>4, <1>6 DEF Known, SysInv
<1>14. QED
  BY <1>8, <1>9, <1>10, <1>11, <1>12, <1>13

\* A reply that the coordinator waits for: what it says is true.
LEMMA ReplyMeans ==
  ASSUME SysInv, NEW h \in Handlers, Reply(h), DP!Finish(h), Served(h), "raise" \notin Mishaps
  PROVE  /\ local[h].cmd = call.cmd /\ issued[call.id] = call.cmd
         /\ Starting => /\ active' = call.run /\ state' = "ACTIVE" /\ reported' = reported
                        /\ \A g \in Handlers \ {h} : ~DP!Starting(g)
         /\ Stopping =>
              /\ \A g \in Handlers : ~DP!Starting(g)
              /\ \/ active' = active /\ state' = "ACTIVE" /\ reported' = reported
                 \/ /\ active' = None /\ state' = "IDLE" /\ reported' = reported \cup {call.run}
                    /\ \A c \in DP!Channels : ~DP!Live(c)
         /\ TkFree' /\ ~Starting'
<1>1. BoardInv /\ DP!Inv /\ ActiveInv /\ ~TkFree
  BY DEF SysInv, BoardInv, Served
<1>2. pc[h] = "finish" /\ local[h].run = call.id
  BY DEF DP!Finish, Served
<1>3. local[h].cmd = call.cmd /\ issued[call.id] = call.cmd
  BY <1>1, <1>2, Serving DEF SysInv, Received
<1>4. Accept \/ Fail
  BY DEF Reply
<1>5. ASSUME Starting
      PROVE  /\ active' = call.run /\ state' = "ACTIVE" /\ reported' = reported
             /\ \A g \in Handlers \ {h} : ~DP!Starting(g)
  <2>1. DP!Starting(h)
    BY <1>3, <1>5 DEF DP!Starting, Starting, DP!StartCommands, StartCommands
  <2>2. local[h].failed = {}
    BY <2>1 DEF SysInv, Clean
  <2>3. Accept /\ ~Stopping
    BY <1>5, <2>2 DEF Reply, Starting, Stopping, StartCommands
  <2>4. ~Fail \/ Accept
    BY <2>3
  <2>5. active' = call.run /\ state' = "ACTIVE" /\ reported' = reported
    BY <1>5, <2>3
      DEF Accept, StartAccepted, StartRaises, StopAccepted, StopRaises
  <2>6. ASSUME NEW g \in Handlers, DP!Starting(g) PROVE g = h
    <3>1. local[g].run = local[h].run
      BY <2>1, <2>6 DEF SysInv, OneRun, DP!ForRun
    <3>2. pc[g] # "idle" /\ pc[h] # "idle"
      BY <1>1, <2>1, <2>6, Serving
    <3>3. QED
      BY <1>1, <3>1, <3>2 DEF BoardInv, DP!ServedOnce
  <2>7. QED
    BY <2>5, <2>6
<1>6. ASSUME Stopping
      PROVE  /\ \A g \in Handlers : ~DP!Starting(g)
             /\ \/ active' = active /\ state' = "ACTIVE" /\ reported' = reported
                \/ /\ active' = None /\ state' = "IDLE" /\ reported' = reported \cup {call.run}
                   /\ \A c \in DP!Channels : ~DP!Live(c)
  <2>1. ~Starting
    BY <1>6 DEF Starting, Stopping, StartCommands
  <2>2. \A g \in Handlers : ~DP!Starting(g)
    BY <2>1 DEF SysInv, Clean
  <2>3. CASE local[h].failed = {}
    <3>1. Accept
      BY <2>3 DEF Reply
    <3>2. active' = None /\ state' = "IDLE" /\ reported' = reported \cup {call.run}
      BY <2>1, <3>1 DEF Accept, StartAccepted, StartRaises, StopAccepted, StopRaises
    <3>3. DP!StopTruth(h) /\ local[h].cmd = "STOP_TEST"
      BY <1>3, <1>6 DEF SysInv, Answers, Stopping
    <3>4. \A c \in DP!Channels : ~DP!Live(c)
      BY <1>2, <2>3, <3>3 DEF DP!StopTruth, DP!Passed
    <3>5. QED
      BY <2>2, <3>2, <3>4
  <2>4. CASE local[h].failed # {}
    <3>1. Fail
      BY <2>4 DEF Reply
    <3>2. QED
      BY <2>1, <2>2, <3>1 DEF Fail, StartFailed, StartError, StopFailed
  <2>5. QED
    BY <2>3, <2>4
<1>7. TkFree' /\ ~Starting'
  BY <1>1, <1>4, CallEffect
<1>8. QED
  BY <1>3, <1>5, <1>6, <1>7

LEMMA ReplyStep ==
  ASSUME SysInv, [DP!Next]_DP!vars, NEW h \in Handlers, Reply(h), DP!Finish(h), Served(h),
         "raise" \notin Mishaps
  PROVE  Received' /\ Answers' /\ Clean' /\ OneRun' /\ Quiet' /\ Known'
<1>1. BoardInv /\ DP!Inv /\ BoardInv' /\ ActiveInv /\ ~TkFree
  BY BoardStep DEF SysInv, BoardInv, Served
<1>2. /\ ~DP!Starting(h)' /\ UNCHANGED <<DP!dut, issued>> /\ pc[h] = "finish"
      /\ \A g \in Handlers \ {h} : pc'[g] = pc[g] /\ local'[g] = local[g]
  BY <1>1, BoardConstants, DP!FinishEffect DEF DP!Threads
<1>3. TkFree' /\ ~Starting'
  BY ReplyMeans
<1>4. \A g \in Handlers : ~DP!Starting(g)'
  <2>1. \A g \in Handlers \ {h} : ~DP!Starting(g)
    BY <1>1, ReplyMeans, CallIds
  <2>2. QED
    BY <1>2, <2>1 DEF DP!Starting
<1>5. Received' /\ Answers' /\ Clean'
  BY <1>3, <1>4 DEF Received, Answers, Served, Clean
<1>6. Cur' = active' /\ (AtRest' => state' = "IDLE")
  BY <1>3 DEF Cur, AtRest
<1>7. CASE state' = "ACTIVE" /\ active' = Cur /\ (Starting => active' = call.run)
  <2>1. PICK r : r = Cur /\ DP!ForRun(r)
    BY DEF SysInv, OneRun
  <2>2. DP!ForRun(r)'
    BY <1>2, <1>4, <2>1 DEF DP!ForRun, DP!dut, DP!Channels
  <2>3. OneRun' /\ Quiet'
    BY <1>6, <1>7, <2>1, <2>2 DEF OneRun, Quiet
  <2>4. Known'
    BY <1>1, <1>2, <1>7, ReplyMeans, CallIds DEF Known, SysInv, Cur
  <2>5. QED
    BY <1>5, <2>3, <2>4
<1>8. CASE Stopping /\ active' = None /\ \A c \in DP!Channels : ~DP!Live(c)
  <2>1. \A c \in DP!Channels : ~DP!Live(c)'
    BY <1>2, <1>8 DEF DP!Live, DP!dut
  <2>2. DP!ForRun(None)'
    BY <1>4, <2>1 DEF DP!ForRun, DP!Live, DP!Channels
  <2>3. QED
    BY <1>5, <1>6, <1>8, <2>1, <2>2 DEF OneRun, Quiet, Known, DP!Channels
<1>9. QED
  BY <1>1, <1>7, <1>8, ReplyMeans, CallIds DEF Cur

LEMMA SysStep ==
  ASSUME SysInv, [SysNext]_<<gui, board>>, "raise" \notin Mishaps, "start" \notin Faults,
         "disarm" \notin Faults, LostCommands \subseteq {"STOP_TEST"}
  PROVE  SysInv'
<1>1. BoardInv' /\ ActiveInv' /\ ActiveInv /\ BoardInv
  BY SystemMoves, BoardStep, ActiveStep DEF SysInv
<1>2. [DP!Next]_DP!vars
  BY SystemMoves
<1>3. CASE /\ Operator \/ Submit \/ FireMirror
           /\ call' # NoCall => issued[call'.id] = None
           /\ UNCHANGED board
  <2>1. /\ TkFree /\ ~Starting /\ active' = active
        /\ state' = "IDLE" \/ Starting' => state = "IDLE"
    BY <1>1, <1>3, GuiEffect
  <2>2. UNCHANGED <<pc, local, config, armed, unit, issued>>
    BY <1>3 DEF board
  <2>3. \A h \in Handlers : ~DP!Starting(h)
    BY <2>1 DEF SysInv, Clean
  <2>4. Received' /\ Clean' /\ Known'
    BY <1>3, <2>1, <2>2, <2>3 DEF Received, Clean, Known, SysInv, TkFree, DP!Starting
  <2>5. \A h \in Handlers : ~Served(h)'
    <3> SUFFICES ASSUME NEW h \in Handlers, Served(h)' PROVE FALSE
      OBVIOUS
    <3>1. ~TkFree' /\ local[h].run = call'.id
      BY <2>2 DEF Served
    <3>2. issued[call'.id] = None /\ call'.id # None
      <4>1. call' \in StartRequests \cup StopRequests(StopIds) \cup {NoCall}
        BY <1>1 DEF ActiveInv, Inv, TypeOK, StartRequests, StopRequests
      <4>2. call' # NoCall
        BY <3>1 DEF TkFree
      <4>3. call'.id \in Runs \cup StopIds
        BY <4>1, <4>2 DEF StartRequests, StopRequests
      <4>4. QED
        BY <1>3, <4>2, <4>3, IdsAssumption
    <3>3. QED
      BY <1>1, <3>1, <3>2, Serving
  <2>6. Answers'
    BY <2>5 DEF Answers
  <2>7. Quiet'
    BY <2>1, <2>2 DEF Quiet, AtRest, SysInv, DP!Channels, DP!Live
  <2>8. OneRun'
    <3>1. CASE Starting'
      <4>1. \A c \in DP!Channels : ~DP!Live(c)
        BY <2>1, <3>1 DEF SysInv, Quiet, AtRest
      <4>2. PICK r : r = Cur'
        OBVIOUS
      <4>3. DP!ForRun(r)
        BY <2>3, <4>1, RestForRun
      <4>4. DP!ForRun(r)'
        BY <2>2, <4>3 DEF DP!ForRun, DP!Starting, DP!Chan, DP!Channels
      <4>5. QED
        BY <4>2, <4>4 DEF OneRun
    <3>2. CASE ~Starting'
      <4>1. PICK r : r = Cur /\ DP!ForRun(r)
        BY DEF SysInv, OneRun
      <4>2. DP!ForRun(r)'
        BY <2>2, <4>1 DEF DP!ForRun, DP!Starting, DP!Chan, DP!Channels
      <4>3. Cur' = r
        BY <2>1, <3>2, <4>1 DEF Cur
      <4>4. QED
        BY <4>2, <4>3 DEF OneRun
    <3>3. QED
      BY <3>1, <3>2
  <2>9. QED
    BY <1>1, <2>4, <2>6, <2>7, <2>8 DEF SysInv
<1>4. ASSUME NEW h \in Handlers, Deliver(h), DP!Receive(h) PROVE SysInv'
  BY <1>1, <1>2, <1>4, DeliverStep DEF SysInv
<1>5. ASSUME NEW h \in Handlers, Reply(h), DP!Finish(h), Served(h) PROVE SysInv'
  BY <1>1, <1>2, <1>5, ReplyStep DEF SysInv
<1>6. CASE CallFails
  <2>1. call.cmd = "STOP_TEST" /\ Fail /\ UNCHANGED board
    BY <1>6 DEF CallFails
  <2>2. /\ Stopping /\ ~Starting /\ TkFree' /\ ~Starting' /\ active' = active
        /\ state' = "ACTIVE"
    <3>1. Stopping /\ ~Starting
      BY <2>1 DEF Starting, Stopping, StartCommands
    <3>2. active' = active /\ state' = "ACTIVE"
      BY <2>1, <3>1 DEF Fail, StartFailed, StartError, StopFailed
    <3>3. QED
      BY <1>1, <2>1, <3>1, <3>2, CallEffect
  <2>3. UNCHANGED <<pc, local, config, armed, unit, issued>>
    BY <2>1 DEF board
  <2>4. \A h \in Handlers : ~DP!Starting(h)
    BY <2>2 DEF SysInv, Clean
  <2>5. Received' /\ Clean' /\ Known' /\ Answers' /\ Quiet'
    BY <2>2, <2>3, <2>4
      DEF Received, Clean, Known, Answers, Quiet, AtRest, Served, SysInv, DP!Starting
  <2>6. OneRun'
    <3>1. PICK r : r = Cur /\ DP!ForRun(r)
      BY DEF SysInv, OneRun
    <3>2. DP!ForRun(r)'
      BY <2>3, <3>1 DEF DP!ForRun, DP!Starting, DP!Chan, DP!Channels
    <3>3. QED
      BY <2>2, <3>1, <3>2 DEF OneRun, Cur
  <2>7. QED
    BY <1>1, <2>5, <2>6 DEF SysInv
<1>7. CASE UNCHANGED <<gui, issued>>
  <2>1. Answers' /\ Clean' /\ OneRun' /\ Quiet'
    BY <1>2, <1>7, BoardRuns
  <2>2. Received' /\ Known'
    BY <1>7 DEF gui, Received, Known, TkFree, SysInv
  <2>3. QED
    BY <1>1, <2>1, <2>2 DEF SysInv
<1>8. QED
  BY <1>3, <1>4, <1>5, <1>6, <1>7, SystemMoves

LEMMA SysInitial == SysInit => SysInv
<1> SUFFICES ASSUME SysInit PROVE SysInv
  OBVIOUS
<1>1. Init /\ DP!Init
  BY SameBoard DEF SysInit
<1>2. ActiveInv /\ state = "IDLE" /\ active = None /\ TkFree /\ ~Starting
  BY <1>1, ActiveInit, Kinds DEF Init, TkFree, Starting, StartCommands
<1>3. BoardInv
  BY <1>1, BoardConstants, DP!CoverageInit, DP!OneClientInit, DP!BoardInit DEF BoardInv
<1>4. DP!ForRun(None) /\ \A h \in Handlers : ~DP!Starting(h)
  BY <1>1, BoardConstants, DP!BoardInit
<1>5. Quiet
  BY <1>1 DEF DP!Init, Quiet, DP!Live, DP!Channels
<1>6. QED
  BY <1>2, <1>3, <1>4, <1>5 DEF SysInv, Received, Answers, Served, Clean, OneRun, Cur, Known

-----------------------------------------------------------------------------
(* The theorems *)

\* No START is lost or fails on the way, a disarm does what it reports, and the
\* coordinator does not raise: what the properties of the system need.
Sound ==
  /\ "raise" \notin Mishaps /\ "start" \notin Faults /\ "disarm" \notin Faults
  /\ LostCommands \subseteq {"STOP_TEST"}

LEMMA SysInvHolds ==
  ASSUME Sound
  PROVE  SysSpec => []SysInv
<1>1. SysInv /\ [SysNext]_<<gui, board>> => SysInv'
  BY SysStep DEF Sound
<1>2. QED
  BY <1>1, SysInitial, PTL DEF SysSpec

\* With an idle coordinator no channel is armed or running.
THEOREM IdleMeansStoppedHolds ==
  ASSUME Sound
  PROVE  SysSpec => []IdleMeansStopped
<1>1. SysInv => IdleMeansStopped
  BY SameBoard DEF SysInv, Quiet, AtRest, IdleMeansStopped
<1>2. QED
  BY <1>1, SysInvHolds, PTL

\* In the system too, a test that is shown as active has a request to stop it by,
\* and a mirror is that request's.
THEOREM SystemActiveHasRequest ==
  ASSUME "raise" \notin Mishaps
  PROVE  SysSpec => []ActiveHasRequest
<1>1. SysInit => ActiveInv
  BY ActiveInit DEF SysInit
<1>2. ActiveInv /\ [SysNext]_<<gui, board>> => ActiveInv'
  BY SystemMoves, ActiveStep
<1>3. ActiveInv => ActiveHasRequest
  BY DEF ActiveInv
<1>4. QED
  BY <1>1, <1>2, <1>3, PTL DEF SysSpec

-----------------------------------------------------------------------------
(* The system implements TestRun *)

Sent == {r \in Runs : issued[r] # None}

\* At most the current run is on the board, and it was received.
LEMMA OnlyCur ==
  ASSUME SysInv, NEW r \in OnDUT
  PROVE  r = Cur /\ r \in Sent
<1>1. /\ BoardInv /\ ActiveInv /\ r \in Runs /\ r # None /\ DP!ForRun(Cur)
      /\ \/ \E h \in Handlers : DP!Starting(h) /\ local[h].run = r
         \/ \E c \in DP!Channels : unit[c] = r \/ (c \in armed /\ config[c] = r)
  BY SameBoard, IdsAssumption DEF SysInv, OneRun, OnDUT
<1>2. r = Cur
  BY <1>1 DEF DP!ForRun
<1>3. ASSUME ~Starting PROVE issued[r] # None
  BY <1>1, <1>2, <1>3 DEF Cur, SysInv, Known
<1>4. ASSUME Starting PROVE issued[r] # None
  <2>1. ~TkFree
    BY <1>4, Kinds DEF TkFree, Starting, StartCommands
  <2>2. r = call.id
    BY <1>1, <1>2, <1>4, <2>1, CallIds DEF Cur
  <2>3. CASE \E h \in Handlers : DP!Starting(h) /\ local[h].run = r
    BY <1>1, <2>3, Serving
  <2>4. CASE \E c \in DP!Channels : unit[c] = r \/ (c \in armed /\ config[c] = r)
    BY <1>1, <1>4, <2>2, <2>4 DEF SysInv, Quiet, AtRest, DP!Live
  <2>5. QED
    BY <1>1, <2>3, <2>4
<1>5. QED
  BY <1>1, <1>2, <1>3, <1>4 DEF Sent

\* Whatever takes nothing new on the board ends the current run or is not seen.
LEMMA Shrinks ==
  ASSUME SysInv, OnDUT' \subseteq OnDUT, Sent' = Sent, reported' = reported
  PROVE  [Promise!Next]_Promise!run
<1>1. OnDUT \subseteq {Cur} /\ OnDUT \subseteq Sent
  BY OnlyCur
<1>2. CASE OnDUT' = OnDUT
  BY <1>2 DEF Promise!run, Sent
<1>3. CASE OnDUT' # OnDUT
  <2>1. PICK r \in Runs : OnDUT = {r} /\ OnDUT' = {} /\ r \in Sent
    BY <1>1, <1>3 DEF Sent
  <2>2. Sent' \ OnDUT' = (Sent \ OnDUT) \cup {r}
    BY <2>1
  <2>3. Promise!End(r)
    BY <2>1, <2>2 DEF Promise!End, Sent
  <2>4. QED
    BY <2>3 DEF Promise!Next
<1>4. QED
  BY <1>2, <1>3

\* Nothing gets on the board but by a START that is received.
LEMMA NothingNew ==
  ASSUME SysInv, [DP!Next]_DP!vars, UNCHANGED issued
  PROVE  OnDUT' \subseteq OnDUT /\ Sent' = Sent
<1>1. BoardInv /\ DP!Inv
  BY DEF SysInv, BoardInv
<1>2. \A h \in Handlers : ~DP!Receive(h)
  BY <1>1, BoardConstants, DP!ReceiveIssues
<1>3. PICK q : DP!ForRun(q)
  BY DEF SysInv, OneRun
<1>4. ASSUME NEW r \in Runs, DP!OnBoard(r)' PROVE DP!OnBoard(r)
  BY <1>1, <1>2, <1>3, <1>4, BoardConstants, IdsAssumption, DP!OnBoardStep
<1>5. \A r \in Runs : (r \in OnDUT <=> DP!OnBoard(r)) /\ (r \in OnDUT' <=> DP!OnBoard(r)')
  BY SameBoard
    DEF OnDUT, DP!OnBoard, DP!Starting, DUT!Starting, DUT!StartCommands, DP!StartCommands,
        DUT!Channels, DP!Channels
<1>6. OnDUT' \subseteq OnDUT
  BY <1>4, <1>5 DEF OnDUT
<1>7. QED
  BY <1>6 DEF Sent

\* The board's run begins when its START arrives.
LEMMA DeliverBegins ==
  ASSUME SysInv, [DP!Next]_DP!vars, NEW h \in Handlers, Deliver(h), DP!Receive(h)
  PROVE  [Promise!Next]_Promise!run
<1>1. BoardInv /\ DP!Inv /\ ActiveInv /\ ~TkFree
  BY DEF SysInv, BoardInv, Deliver
<1>2. /\ local'[h].run = call.id /\ local'[h].cmd = call.cmd /\ UNCHANGED reported
  BY DEF Deliver, gui
<1>3. /\ pc[h] = "idle" /\ issued[call.id] = None
      /\ issued' = [issued EXCEPT ![call.id] = call.cmd]
      /\ \A g \in Handlers \ {h} : pc'[g] = pc[g] /\ local'[g] = local[g]
      /\ UNCHANGED <<config, armed, unit>>
  BY <1>1, <1>2, BoardConstants, DP!ReceiveEffect DEF DP!Threads, DP!dut
<1>4. issued \in [Runs \cup StopIds -> DP!StartCommands \cup {"STOP_TEST", None}]
  BY <1>1 DEF DP!Inv, DP!TypeOK
<1>5. call.id \in Runs \cup StopIds /\ call.cmd # None /\ (Starting \/ Stopping)
      /\ (Stopping => call.id \in StopIds) /\ (Starting => call.id = call.run /\ call.run \in Runs)
  BY <1>1, CallIds
<1>6. issued'[call.id] = call.cmd /\ \A id : id # call.id => issued'[id] = issued[id]
  BY <1>3, <1>4, <1>5
<1>7. ~DP!Starting(h)
  BY <1>1, <1>3, Serving
<1>8. DP!Starting(h)' <=> Starting
  BY <1>2 DEF DP!Starting, Starting, DP!StartCommands, StartCommands
<1>9. ASSUME NEW r \in Runs
      PROVE  r \in OnDUT' <=> r \in OnDUT \/ (Starting /\ r = call.id)
  <2>1. r \in OnDUT <=>
          \/ \E g \in Handlers \ {h} : DP!Starting(g) /\ local[g].run = r
          \/ \E c \in DP!Channels : unit[c] = r \/ (c \in armed /\ config[c] = r)
    BY <1>7, SameBoard DEF OnDUT
  <2>2. r \in OnDUT' <=>
          \/ \E g \in Handlers : DP!Starting(g)' /\ local'[g].run = r
          \/ \E c \in DP!Channels : unit[c] = r \/ (c \in armed /\ config[c] = r)
    BY <1>3
      DEF OnDUT, DUT!Starting, DP!Starting, DUT!StartCommands, DP!StartCommands, DUT!Channels,
          DP!Channels
  <2>3. \A g \in Handlers \ {h} : DP!Starting(g)' <=> DP!Starting(g)
    BY <1>3 DEF DP!Starting
  <2>4. QED
    BY <1>2, <1>3, <1>8, <2>1, <2>2, <2>3
<1>10. CASE Starting
  <2>1. PICK r \in Runs : r = call.id
    BY <1>5, <1>10
  <2>2. OnDUT = {}
    <3>1. AtRest
      BY <1>3, <1>10 DEF AtRest
    <3>2. QED
      BY <3>1, RestIsQuiet, SameBoard, IdsAssumption DEF SysInv, Quiet, OnDUT, DP!Live
  <2>3. OnDUT' = {r}
    BY <1>9, <1>10, <2>1, <2>2 DEF OnDUT
  <2>4. r \notin Sent /\ Sent' = Sent \cup {r}
    BY <1>3, <1>5, <1>6, <2>1 DEF Sent
  <2>5. Sent' \ OnDUT' = Sent \ OnDUT
    BY <2>2, <2>3, <2>4
  <2>6. Promise!Begin(r)
    BY <1>2, <2>2, <2>3, <2>4, <2>5 DEF Promise!Begin, Sent
  <2>7. QED
    BY <2>6 DEF Promise!Next
<1>11. CASE ~Starting
  <2>1. OnDUT' = OnDUT
    BY <1>9, <1>11 DEF OnDUT
  <2>2. Sent' = Sent
    BY <1>5, <1>6, <1>11, FreshIdsAssumption DEF Sent
  <2>3. QED
    BY <1>2, <2>1, <2>2, Shrinks
<1>12. QED
  BY <1>10, <1>11

\* A reply ends the call of a START, or reports a run that is over, once.
LEMMA ReplyReports ==
  ASSUME SysInv, [DP!Next]_DP!vars, NEW h \in Handlers, Reply(h), DP!Finish(h), Served(h),
         "raise" \notin Mishaps
  PROVE  [Promise!Next]_Promise!run
<1>1. BoardInv /\ DP!Inv /\ ActiveInv /\ ~TkFree /\ UNCHANGED issued
  BY DEF SysInv, BoardInv, Served, DP!Finish
<1>2. OnDUT' \subseteq OnDUT /\ Sent' = Sent
  BY <1>1, NothingNew
<1>3. CASE reported' = reported
  BY <1>2, <1>3, Shrinks
<1>4. CASE Stopping /\ reported' = reported \cup {call.run} /\ \A c \in DP!Channels : ~DP!Live(c)
  <2>1. \A g \in Handlers : ~DP!Starting(g)
    BY <1>4, ReplyMeans
  <2>2. OnDUT = {} /\ OnDUT' = {}
    BY <1>2, <1>4, <2>1, SameBoard, IdsAssumption DEF OnDUT, DP!Live
  <2>3. PICK r \in Runs : r = call.run
    BY <1>1, CallIds
  <2>4. r \notin reported /\ r = active
    BY <1>1, <1>4, <2>3, CallIds
  <2>5. r \in Sent
    BY <2>3, <2>4, IdsAssumption DEF SysInv, Known, Sent
  <2>6. Promise!Report(r)
    BY <1>2, <1>4, <2>2, <2>3, <2>4, <2>5 DEF Promise!Report, Sent
  <2>7. QED
    BY <2>6 DEF Promise!Next
<1>5. QED
  BY <1>1, <1>3, <1>4, ReplyMeans, CallIds

LEMMA PromiseStep ==
  ASSUME SysInv, [SysNext]_<<gui, board>>, "raise" \notin Mishaps
  PROVE  [Promise!Next]_Promise!run
<1>1. [DP!Next]_DP!vars /\ ActiveInv
  BY SystemMoves DEF SysInv
<1>2. CASE (Operator \/ Submit \/ FireMirror) /\ UNCHANGED board
  <2>1. UNCHANGED issued /\ reported' = reported
    BY <1>1, <1>2, GuiEffect DEF board
  <2>2. QED
    BY <1>1, <2>1, NothingNew, Shrinks
<1>3. CASE CallFails
  <2>1. UNCHANGED issued /\ reported' = reported
    BY <1>3 DEF CallFails, Fail, StartFailed, StartError, StopFailed, board
  <2>2. QED
    BY <1>1, <2>1, NothingNew, Shrinks
<1>4. CASE UNCHANGED <<gui, issued>>
  BY <1>1, <1>4, NothingNew, Shrinks DEF gui
<1>5. QED
  BY <1>1, <1>2, <1>3, <1>4, SystemMoves, DeliverBegins, ReplyReports

\* The coordinator and the receiver together keep what TestRun promises: one run
\* at a time, no run that comes back, results only of a run that is over, once.
THEOREM KeepsPromiseHolds ==
  ASSUME Sound
  PROVE  SysSpec => KeepsPromise
<1>1. SysInit => Promise!Init
  BY SameBoard, IdsAssumption
    DEF SysInit, Init, Promise!Init, OnDUT, DP!Init, DP!Starting, DP!Rest, DP!StartCommands,
        DP!Threads, DP!Channels
<1>2. SysInv /\ [SysNext]_<<gui, board>> => [Promise!Next]_Promise!run
  BY PromiseStep DEF Sound
<1>3. QED
  BY <1>1, <1>2, SysInvHolds, PTL DEF SysSpec, KeepsPromise, Promise!Spec
=============================================================================
