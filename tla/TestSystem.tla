------------------------------ MODULE TestSystem ------------------------------
(***************************************************************************)
(* The coordinator and the receiver together, over TCP: transport.send     *)
(* (arbiter/coordinator/coordinator/transport.py) opens a connection per   *)
(* request, a handler thread of the receiver serves it, and the reply, if  *)
(* it arrives before timeout_seconds, ends the call.  A call that fails    *)
(* does not tell whether the receiver got the request, and the handler of  *)
(* a request goes on when the coordinator has given it up.                 *)
(***************************************************************************)
EXTENDS Coordinator, Naturals, FiniteSets

CONSTANTS
  Handlers, Timers, Samplers, NumChannels, OnStartTest, Faults,
  LostCommands  \* the commands whose calls may fail

ASSUME LostCommandsAssumption == LostCommands \subseteq StartCommands \cup {"STOP_TEST"}

VARIABLES
  pc, local, lastRequest, lastChannels, lastStart, lastBaseline, autoTimer, autoRun,
  currentLogger, armed, config, unit, sampler, issued, excused

board == <<pc, local, lastRequest, lastChannels, lastStart, lastBaseline, autoTimer,
           autoRun, currentLogger, armed, config, unit, sampler, issued, excused>>

DUT == INSTANCE ControlReceiver WITH
  RequestIds <- Runs \cup StopIds,
  Commands <- StartCommands \cup {"STOP_TEST"},
  AllowRetry <- FALSE

\* A uuid names one request.
ASSUME FreshIdsAssumption == Runs \cap StopIds = {}
ASSUME BoardAssumption ==
  /\ NumChannels \in Nat \ {0} /\ OnStartTest \in BOOLEAN /\ Faults \subseteq DUT!FaultKinds
  /\ Handlers \cap Timers = {} /\ None \notin Timers \cup Samplers

SysInit == Init /\ DUT!Init

\* A STOP has a uuid of its own.
GuiStep ==
  /\ Operator \/ Submit \/ FireMirror
  /\ call' # NoCall => issued[call'.id] = None
  /\ UNCHANGED board

Deliver(h) ==
  /\ ~TkFree
  /\ DUT!Receive(h)
  /\ local'[h].run = call.id /\ local'[h].cmd = call.cmd
  /\ UNCHANGED gui

Served(h) == ~TkFree /\ local[h].run = call.id

Reply(h) ==
  /\ DUT!Finish(h)
  /\ IF Served(h) THEN (IF local[h].failed = {} THEN Accept ELSE Fail)
                  ELSE UNCHANGED gui

\* Refused, timed out, or the reply lost.
CallFails ==
  /\ call.cmd \in LostCommands
  /\ Fail
  /\ UNCHANGED board

HandlerRuns(h) ==
  /\ pc[h] # "finish"
  /\ DUT!HandlerStep(h)
  /\ UNCHANGED gui

DutStep ==
  /\ \/ \E t \in Timers : DUT!TimerStep(t)
     \/ \E s \in Samplers : DUT!SamplerExits(s)
     \/ \E c \in DUT!Channels : DUT!UnitRespawns(c)
  /\ UNCHANGED gui

SysNext ==
  \/ GuiStep
  \/ \E h \in Handlers : Deliver(h) \/ HandlerRuns(h) \/ Reply(h)
  \/ CallFails
  \/ DutStep

SysSpec == SysInit /\ [][SysNext]_<<gui, board>>

-----------------------------------------------------------------------------
\* An idle coordinator means a stopped DUT: with nothing under way, no channel is
\* armed or running behind the operator's back.  It holds although a STOP may be
\* lost, given up or repeated, as long as no START is lost or rejected.
IdleMeansStopped ==
  state = "IDLE" /\ TkFree => \A c \in DUT!Channels : ~DUT!Live(c)

\* The runs the DUT is at: being started, running, or armed.
OnDUT ==
  {r \in Runs :
     \/ \E h \in Handlers : DUT!Starting(h) /\ local[h].run = r
     \/ \E c \in DUT!Channels : unit[c] = r \/ (c \in armed /\ config[c] = r)}

Promise == INSTANCE TestRun WITH
  running <- OnDUT,
  over <- {r \in Runs : issued[r] # None} \ OnDUT

\* The coordinator and the receiver keep the promise of TestRun.
KeepsPromise == Promise!Spec
=============================================================================
