--------------------------- MODULE ControlReceiver ---------------------------
(***************************************************************************)
(* The DUT-side test-control receiver, jetson/control/control_receiver.py. *)
(*                                                                         *)
(* Every TCP connection is served by a thread of its own and every run has *)
(* a threading.Timer of its own, so several of the routines below run at   *)
(* once: handle_message for START_TEST, BASELINE_TEST or STOP_TEST in the  *)
(* handler threads, auto_stop in the timer threads.  One lock guards only  *)
(* the short accesses to the shared dictionary `state`; the DUT itself     *)
(* (the ARMED flags, the channel configs, the systemd units, the current   *)
(* sampler) is changed outside it.  A step here is one such lock section   *)
(* or one call that changes the DUT.                                       *)
(*                                                                         *)
(* A run is named by the request_id of the command that started it.  What  *)
(* a request carries besides its command and its id, the text of replies   *)
(* and the control log are left out.                                       *)
(***************************************************************************)
EXTENDS Naturals, FiniteSets

CONSTANTS
  Handlers,     \* connection threads; their number bounds concurrent requests
  Timers,       \* Timer threads; their number bounds the timers alive at once
  Samplers,     \* current_logger.py processes alive at once
  RequestIds,   \* the request_ids clients ever use
  Commands,     \* the commands clients send
  NumChannels,  \* len(cfg["channels"])
  OnStartTest,  \* cfg["current_logger"]["on_start_test"]
  AllowRetry,   \* may a client send a request_id again?
  Faults,       \* what may go wrong: a subset of FaultKinds
  None

StartCommands == {"START_TEST", "BASELINE_TEST"}
FaultKinds == {"start", "stop", "disarm", "unit", "receiver", "board"}

ASSUME NumChannelsAssumption == NumChannels \in Nat \ {0}
ASSUME CommandsAssumption == Commands \subseteq StartCommands \cup {"STOP_TEST"}
ASSUME ConfigAssumption ==
  /\ OnStartTest \in BOOLEAN
  /\ AllowRetry \in BOOLEAN
  /\ Faults \subseteq FaultKinds
ASSUME ThreadsAssumption == Handlers \cap Timers = {}
ASSUME NoneAssumption ==
  None \notin RequestIds \cup Timers \cup Samplers \cup StartCommands \cup {"STOP_TEST"}

Channels == 1..NumChannels
Threads == Handlers \cup Timers

VARIABLES
  \* ---- the receiver process: its threads and its dictionary `state`
  pc,             \* where each thread is in its routine
  local,          \* each thread's local variables
  lastRequest,    \* state["last_request_id"]
  lastChannels,   \* whose results state["last_channels"] holds
  lastStart,      \* state["last_start_run_id"]
  lastBaseline,   \* the run that state["last_baseline"] summarises
  autoTimer,      \* state["auto_stop_timer"]
  autoRun,        \* state["auto_stop_run_id"]
  currentLogger,  \* the sampler that state["current_logger"] names
  \* ---- the DUT
  armed,          \* the channels whose ARMED flag exists
  config,         \* the run_id in each channel's config file
  unit,           \* the run each channel's service logs for, None when stopped
  sampler,        \* the sampler processes
  \* ---- history
  issued,         \* the command each request_id was first sent with
  excused         \* channels nobody has to stop: a stop of them failed, or the
                  \* receiver died while they were live

registry == <<lastRequest, lastChannels, lastStart, lastBaseline>>
timer == <<autoTimer, autoRun>>
dut == <<armed, config, unit, excused>>
logger == <<currentLogger, sampler>>
vars == <<pc, local, registry, timer, logger, dut, issued>>

-----------------------------------------------------------------------------
PCs == {"idle", "pop", "replay", "reap", "record", "config", "arm", "restart",
        "spawn", "register", "cancel", "revoke", "schedule", "launch",
        "disarm", "stop", "finish",
        "new", "revoked", "pending", "guard"}

Locals == [cmd : StartCommands \cup {"STOP_TEST", "auto_stop"},
           run : RequestIds \cup {None},      \* msg["request_id"], or auto_stop's run_id
           ch : Channels,                     \* the channel the loop is at
           tries : 0..2,                      \* failed `systemctl stop` attempts
           timer : Timers \cup {None},        \* the Timer popped or created
           sampler : Samplers \cup {None},    \* the sampler popped or spawned
           baseline : RequestIds \cup {None}, \* what stop_current_logger returned
           failed : SUBSET (0..NumChannels)]  \* the results that are not ok; 0: the sampler's

Rest == [cmd |-> "auto_stop", run |-> None, ch |-> 1, tries |-> 0, timer |-> None,
         sampler |-> None, baseline |-> None, failed |-> {}]

NoSampler == [run |-> None, alive |-> FALSE]

Init ==
  /\ pc = [th \in Threads |-> "idle"]
  /\ local = [th \in Threads |-> Rest]
  /\ lastRequest = None /\ lastChannels = None /\ lastStart = None
  /\ lastBaseline = None
  /\ autoTimer = None /\ autoRun = None
  /\ currentLogger = None
  /\ armed = {} /\ excused = {}
  /\ config = [c \in Channels |-> None]
  /\ unit = [c \in Channels |-> None]
  /\ sampler = [s \in Samplers |-> NoSampler]
  /\ issued = [id \in RequestIds |-> None]

Starting(th) == local[th].cmd \in StartCommands
HasSampler(th) == local[th].cmd = "BASELINE_TEST" \/ (Starting(th) /\ OnStartTest)
Chan(th) == local[th].ch

GoTo(th, place) == pc' = [pc EXCEPT ![th] = place]

\* MUTANT of Advance: the loop's bound is off by one.
AdvancePastEnd(l, bad) ==
  [l EXCEPT !.ch = IF l.ch <= NumChannels THEN l.ch + 1 ELSE l.ch, !.tries = 0,
            !.failed = @ \cup bad]

Advance(l, bad) ==
  [l EXCEPT !.ch = IF l.ch < NumChannels THEN l.ch + 1 ELSE l.ch, !.tries = 0,
            !.failed = @ \cup bad]

\* The `for channel in cfg["channels"]` loops: on to the next channel, at
\* `body`, or past the last one, to `after`; `bad` is {the channel} if it failed.
NextChannel(th, body, after, bad) ==
  /\ GoTo(th, IF Chan(th) < NumChannels THEN body ELSE after)
  /\ local' = [local EXCEPT ![th] = Advance(@, bad)]

-----------------------------------------------------------------------------
(* handle_message: a valid request whose request_id is not the last one's. *)
(* A duplicate of the last request, and an invalid one, is answered without *)
(* a change of state.                                                       *)

\* MUTANT of Receive: a START does not stop the previous sampler.
ReceiveKeepsSampler(h) ==
  \E id \in RequestIds, cmd \in Commands :
    /\ pc[h] = "idle"
    /\ issued[id] = None \/ (AllowRetry /\ issued[id] = cmd)
    /\ id # lastRequest
    /\ GoTo(h, IF cmd \in StartCommands THEN "config" ELSE "cancel")
    /\ local' = [local EXCEPT ![h] = [Rest EXCEPT !.cmd = cmd, !.run = id]]
    /\ lastRequest' = id
    /\ issued' = [issued EXCEPT ![id] = cmd]
    /\ UNCHANGED <<lastChannels, lastStart, lastBaseline, timer, logger, dut>>

Receive(h) ==
  \E id \in RequestIds, cmd \in Commands :
    /\ pc[h] = "idle"
    /\ issued[id] = None \/ (AllowRetry /\ issued[id] = cmd)
    /\ id # lastRequest
    /\ GoTo(h, IF cmd \in StartCommands THEN "pop" ELSE "cancel")
    /\ local' = [local EXCEPT ![h] = [Rest EXCEPT !.cmd = cmd, !.run = id]]
    /\ lastRequest' = id
    /\ issued' = [issued EXCEPT ![id] = cmd]
    /\ UNCHANGED <<lastChannels, lastStart, lastBaseline, timer, logger, dut>>

(* stop_current_logger *)

AfterSampler(th) == IF Starting(th) THEN "config" ELSE "finish"

PopSampler(th) ==
  /\ pc[th] = "pop"
  /\ GoTo(th, IF currentLogger = None THEN "replay" ELSE "reap")
  /\ local' = [local EXCEPT ![th].sampler = currentLogger]
  /\ currentLogger' = None
  /\ UNCHANGED <<registry, timer, sampler, dut, issued>>

ReplayBaseline(th) ==
  /\ pc[th] = "replay"
  /\ GoTo(th, AfterSampler(th))
  /\ local' = [local EXCEPT ![th].baseline = lastBaseline]
  /\ UNCHANGED <<registry, timer, logger, dut, issued>>

\* wait, then SIGTERM, then SIGKILL: the process is gone and its summary read.
ReapSampler(th) ==
  LET s == local[th].sampler IN
  /\ pc[th] = "reap"
  /\ GoTo(th, "record")
  /\ local' = [local EXCEPT ![th] =
                 [@ EXCEPT !.baseline = sampler[s].run, !.sampler = None]]
  /\ sampler' = [sampler EXCEPT ![s] = NoSampler]
  /\ UNCHANGED <<registry, timer, currentLogger, dut, issued>>

RecordBaseline(th) ==
  /\ pc[th] = "record"
  /\ GoTo(th, AfterSampler(th))
  /\ lastBaseline' = local[th].baseline
  /\ UNCHANGED <<local, lastRequest, lastChannels, lastStart, timer, logger, dut, issued>>

(* do_start: for each channel the config, the ARMED flag, the restart.  A   *)
(* failure in any of the three goes on with the next channel.               *)

AfterChannels(th) == IF HasSampler(th) THEN "spawn" ELSE "cancel"

StartFails(th) ==
  /\ pc[th] \in {"config", "arm"}
  /\ "start" \in Faults
  /\ NextChannel(th, "config", AfterChannels(th), {Chan(th)})
  /\ UNCHANGED <<registry, timer, logger, dut, issued>>

Configure(th) ==
  /\ pc[th] = "config"
  /\ GoTo(th, "arm")
  /\ config' = [config EXCEPT ![Chan(th)] = local[th].run]
  /\ UNCHANGED <<local, registry, timer, logger, armed, unit, excused, issued>>

Arm(th) ==
  /\ pc[th] = "arm"
  /\ GoTo(th, "restart")
  /\ armed' = armed \cup {Chan(th)}
  /\ excused' = excused \ {Chan(th)}
  /\ UNCHANGED <<local, registry, timer, logger, config, unit, issued>>

\* MUTANT of Started: no ConditionPathExists in the unit file.
StartedUnarmed(c) == config[c]

\* What a unit does when systemd (re)starts it: ConditionPathExists=ARMED makes
\* it stay down, and its process takes run_id from its config file.
Started(c) == IF c \in armed THEN config[c] ELSE None

\* MUTANT of RestartUnit: `systemctl start`, which leaves a running unit alone.
StartStoppedUnit(th) ==
  /\ pc[th] = "restart"
  /\ unit' = [unit EXCEPT ![Chan(th)] = IF @ = None THEN Started(Chan(th)) ELSE @]
  /\ NextChannel(th, "config", AfterChannels(th), {})
  /\ UNCHANGED <<registry, timer, logger, armed, config, excused, issued>>

RestartUnit(th) ==
  /\ pc[th] = "restart"
  /\ \/ /\ unit' = [unit EXCEPT ![Chan(th)] = Started(Chan(th))]
        /\ NextChannel(th, "config", AfterChannels(th), {})
     \/ /\ "start" \in Faults
        /\ \E r \in {unit[Chan(th)], None, Started(Chan(th))} :
             unit' = [unit EXCEPT ![Chan(th)] = r]
        /\ NextChannel(th, "config", AfterChannels(th), {Chan(th)})
  /\ UNCHANGED <<registry, timer, logger, armed, config, excused, issued>>

(* start_current_logger *)

SpawnSampler(th) ==
  /\ pc[th] = "spawn"
  /\ \/ \E s \in Samplers :
          /\ sampler[s] = NoSampler
          /\ sampler' = [sampler EXCEPT ![s] = [run |-> local[th].run, alive |-> TRUE]]
          /\ local' = [local EXCEPT ![th].sampler = s]
          /\ GoTo(th, "register")
     \/ /\ "start" \in Faults
        /\ local' = [local EXCEPT ![th].failed = @ \cup {0}]
        /\ GoTo(th, "cancel")
        /\ UNCHANGED sampler
  /\ UNCHANGED <<registry, timer, currentLogger, dut, issued>>

RegisterSampler(th) ==
  /\ pc[th] = "register"
  /\ GoTo(th, "cancel")
  /\ currentLogger' = local[th].sampler
  /\ local' = [local EXCEPT ![th].sampler = None]
  /\ UNCHANGED <<registry, timer, sampler, dut, issued>>

(* cancel_auto_stop: pop the timer under the lock, cancel it outside.       *)

AfterCancel(th) == IF Starting(th) THEN "schedule" ELSE "disarm"

\* MUTANT of PopTimer: the timer is read and left in `state`.
PeekTimer(th) ==
  /\ pc[th] = "cancel"
  /\ GoTo(th, IF autoTimer = None THEN AfterCancel(th) ELSE "revoke")
  /\ local' = [local EXCEPT ![th].timer = autoTimer]
  /\ UNCHANGED <<registry, timer, logger, dut, issued>>

PopTimer(th) ==
  /\ pc[th] = "cancel"
  /\ GoTo(th, IF autoTimer = None THEN AfterCancel(th) ELSE "revoke")
  /\ local' = [local EXCEPT ![th].timer = autoTimer]
  /\ autoTimer' = None
  /\ autoRun' = None
  /\ UNCHANGED <<registry, logger, dut, issued>>

\* Timer.cancel: a timer that has not fired never will, a created one not even
\* when it is started; one whose thread is already in auto_stop is unaffected.
RevokeTimer(th) ==
  LET t == local[th].timer IN
  /\ pc[th] = "revoke"
  /\ pc' = [pc EXCEPT ![th] = AfterCancel(th),
                      ![t] = CASE @ = "new" -> "revoked"
                               [] @ = "pending" -> "idle"
                               [] OTHER -> @]
  /\ local' = [local EXCEPT ![th].timer = None,
                            ![t] = IF pc[t] = "pending" THEN Rest ELSE @]
  /\ UNCHANGED <<registry, timer, logger, dut, issued>>

(* schedule_auto_stop, after its cancel_auto_stop *)

Held(t) == \E th \in Threads : local[th].timer = t

Schedule(th) ==
  \E t \in Timers :
    /\ pc[th] = "schedule"
    /\ pc[t] = "idle" /\ ~Held(t)
    /\ pc' = [pc EXCEPT ![th] = "launch", ![t] = "new"]
    /\ local' = [local EXCEPT ![th].timer = t,
                              ![t] = [Rest EXCEPT !.run = local[th].run]]
    /\ autoTimer' = t
    /\ autoRun' = local[th].run
    /\ UNCHANGED <<registry, logger, dut, issued>>

\* MUTANT of LaunchTimer: timer.start() is forgotten.
ForgetTimer(th) ==
  /\ pc[th] = "launch"
  /\ GoTo(th, "finish")
  /\ local' = [local EXCEPT ![th].timer = None]
  /\ UNCHANGED <<registry, timer, logger, dut, issued>>

LaunchTimer(th) ==
  LET t == local[th].timer IN
  /\ pc[th] = "launch"
  /\ pc' = [pc EXCEPT ![th] = "finish",
                      ![t] = IF @ = "new" THEN "pending" ELSE "idle"]
  /\ local' = [local EXCEPT ![th].timer = None,
                            ![t] = IF pc[t] = "new" THEN @ ELSE Rest]
  /\ UNCHANGED <<registry, timer, logger, dut, issued>>

(* auto_stop: duration_s is over; the guard under the lock decides whether  *)
(* this callback is stale.                                                  *)

Fire(t) ==
  /\ pc[t] = "pending"
  /\ GoTo(t, "guard")
  /\ UNCHANGED <<local, registry, timer, logger, dut, issued>>

\* MUTANT of Guard: a stale callback clears the registered timer too.
GuardClearsAlways(t) ==
  /\ pc[t] = "guard"
  /\ autoTimer' = None
  /\ autoRun' = None
  /\ IF autoRun = local[t].run
       THEN GoTo(t, "disarm") /\ UNCHANGED local
       ELSE GoTo(t, "idle") /\ local' = [local EXCEPT ![t] = Rest]
  /\ UNCHANGED <<registry, logger, dut, issued>>

Guard(t) ==
  /\ pc[t] = "guard"
  /\ IF autoRun = local[t].run
       THEN /\ autoTimer' = None
            /\ autoRun' = None
            /\ GoTo(t, "disarm")
            /\ UNCHANGED local
       ELSE /\ GoTo(t, "idle")
            /\ local' = [local EXCEPT ![t] = Rest]
            /\ UNCHANGED timer
  /\ UNCHANGED <<registry, logger, dut, issued>>

(* do_stop: disarm and stop each channel, at most three attempts each.      *)

\* MUTANT of Disarm: a channel found disarmed is taken for stopped.
DisarmSkipsDisarmed(th) ==
  /\ pc[th] = "disarm"
  /\ armed' = armed \ {Chan(th)}
  /\ IF Chan(th) \in armed
       THEN GoTo(th, "stop") /\ UNCHANGED local
       ELSE NextChannel(th, "disarm", "pop", {})
  /\ UNCHANGED <<registry, timer, logger, config, unit, excused, issued>>

Disarm(th) ==
  /\ pc[th] = "disarm"
  /\ GoTo(th, "stop")
  /\ \/ /\ armed' = armed \ {Chan(th)}
        /\ UNCHANGED excused
     \/ /\ "disarm" \in Faults
        /\ Chan(th) \in armed
        /\ excused' = excused \cup {Chan(th)}
        /\ UNCHANGED armed
  /\ UNCHANGED <<local, registry, timer, logger, config, unit, issued>>

\* MUTANT of StopUnit: the last channel's stop is not followed by
\* stop_current_logger.
StopUnitOnly(th) ==
  LET c == Chan(th) IN
  /\ pc[th] = "stop"
  /\ unit' = [unit EXCEPT ![c] = None]
  /\ excused' = IF c \in armed THEN excused ELSE excused \ {c}
  /\ NextChannel(th, "disarm", "finish", {})
  /\ UNCHANGED <<registry, timer, logger, armed, config, issued>>

StopUnit(th) ==
  LET c == Chan(th) IN
  /\ pc[th] = "stop"
  /\ unit' = [unit EXCEPT ![c] = None]
  /\ excused' = IF c \in armed THEN excused ELSE excused \ {c}
  /\ NextChannel(th, "disarm", "pop", {})
  /\ UNCHANGED <<registry, timer, logger, armed, config, issued>>

\* A failed attempt may still have stopped the unit (a call cut off after
\* systemctl_timeout_s leaves systemd's own job running).
StopFails(th) ==
  /\ pc[th] = "stop"
  /\ "stop" \in Faults
  /\ \E r \in {unit[Chan(th)], None} : unit' = [unit EXCEPT ![Chan(th)] = r]
  /\ IF local[th].tries < 2
       THEN /\ local' = [local EXCEPT ![th].tries = @ + 1]
            /\ UNCHANGED <<pc, excused>>
       ELSE /\ NextChannel(th, "disarm", "pop", {Chan(th)})
            /\ excused' = excused \cup {Chan(th)}
  /\ UNCHANGED <<registry, timer, logger, armed, config, issued>>

(* The last lock section of handle_message, and the end of auto_stop. *)

\* MUTANT of Finish: only a START records its results.
FinishKeepsResults(h) ==
  /\ pc[h] = "finish"
  /\ GoTo(h, "idle")
  /\ local' = [local EXCEPT ![h] = Rest]
  /\ lastChannels' = IF Starting(h) THEN local[h].run ELSE lastChannels
  /\ lastStart' = IF Starting(h) THEN local[h].run ELSE lastStart
  /\ UNCHANGED <<lastRequest, lastBaseline, timer, logger, dut, issued>>

Finish(h) ==
  /\ pc[h] = "finish"
  /\ GoTo(h, "idle")
  /\ local' = [local EXCEPT ![h] = Rest]
  /\ lastChannels' = local[h].run
  /\ lastStart' = IF Starting(h) THEN local[h].run ELSE lastStart
  /\ UNCHANGED <<lastRequest, lastBaseline, timer, logger, dut, issued>>

FinishAutoStop(t) ==
  /\ pc[t] = "finish"
  /\ GoTo(t, "idle")
  /\ local' = [local EXCEPT ![t] = Rest]
  /\ UNCHANGED <<registry, timer, logger, dut, issued>>

-----------------------------------------------------------------------------
(* What happens around the receiver. *)

Owned(s) == currentLogger = s \/ \E th \in Threads : local[th].sampler = s

\* A sampler ends by itself, at its --duration-s or on an error.
SamplerExits(s) ==
  /\ sampler[s].alive
  /\ sampler' = [sampler EXCEPT ![s] = IF Owned(s) THEN [@ EXCEPT !.alive = FALSE]
                                       ELSE NoSampler]
  /\ UNCHANGED <<pc, local, registry, timer, currentLogger, dut, issued>>

\* A workload dies and systemd, Restart=always, starts it again.
UnitRespawns(c) ==
  /\ "unit" \in Faults
  /\ unit[c] # None
  /\ unit' = [unit EXCEPT ![c] = Started(c)]
  /\ UNCHANGED <<pc, local, registry, timer, logger, armed, config, excused, issued>>

Live(c) == c \in armed \/ unit[c] # None

\* test_control.service dies and comes back: its threads and `state` are gone,
\* and so is the sampler, a process of the same control group.
LoseReceiver ==
  /\ pc' = [th \in Threads |-> "idle"]
  /\ local' = [th \in Threads |-> Rest]
  /\ lastRequest' = None /\ lastChannels' = None /\ lastStart' = None
  /\ lastBaseline' = None
  /\ autoTimer' = None /\ autoRun' = None
  /\ currentLogger' = None
  /\ sampler' = [s \in Samplers |-> NoSampler]
  /\ excused' = excused \cup {c \in Channels : Live(c)}
  /\ UNCHANGED <<armed, config, issued>>

ReceiverRestarts ==
  /\ "receiver" \in Faults
  /\ LoseReceiver
  /\ UNCHANGED unit

\* The board reboots: the units are enabled, so the armed ones come back.
BoardReboots ==
  /\ "board" \in Faults
  /\ LoseReceiver
  /\ unit' = [c \in Channels |-> Started(c)]

-----------------------------------------------------------------------------
StopCurrentLogger(th) ==
  PopSampler(th) \/ ReplayBaseline(th) \/ ReapSampler(th) \/ RecordBaseline(th)

DoStop(th) == Disarm(th) \/ StopUnit(th) \/ StopFails(th)

DoStart(h) == StartFails(h) \/ Configure(h) \/ Arm(h) \/ RestartUnit(h)

HandlerStep(h) ==
  \/ StopCurrentLogger(h)
  \/ DoStart(h)
  \/ SpawnSampler(h) \/ RegisterSampler(h)
  \/ PopTimer(h) \/ RevokeTimer(h) \/ Schedule(h) \/ LaunchTimer(h)
  \/ DoStop(h)
  \/ Finish(h)

TimerStep(t) ==
  Fire(t) \/ Guard(t) \/ DoStop(t) \/ StopCurrentLogger(t) \/ FinishAutoStop(t)

Next ==
  \/ \E h \in Handlers : Receive(h) \/ HandlerStep(h)
  \/ \E t \in Timers : TimerStep(t)
  \/ \E s \in Samplers : SamplerExits(s)
  \/ \E c \in Channels : UnitRespawns(c)
  \/ ReceiverRestarts
  \/ BoardReboots

Spec == Init /\ [][Next]_vars

\* Threads are scheduled, every duration_s elapses, systemctl and the sampler
\* answer within their timeouts.  Clients, faults and crashes owe nothing.
Fairness ==
  /\ \A h \in Handlers : WF_vars(HandlerStep(h))
  /\ \A t \in Timers : WF_vars(TimerStep(t))
  /\ \A s \in Samplers : WF_vars(SamplerExits(s))

FairSpec == Spec /\ Fairness

-----------------------------------------------------------------------------
TypeOK ==
  /\ pc \in [Threads -> PCs]
  /\ local \in [Threads -> Locals]
  /\ {lastRequest, lastChannels, lastStart, lastBaseline} \subseteq RequestIds \cup {None}
  /\ autoTimer \in Timers \cup {None}
  /\ autoRun \in RequestIds \cup {None}
  /\ currentLogger \in Samplers \cup {None}
  /\ armed \subseteq Channels
  /\ excused \subseteq Channels
  /\ config \in [Channels -> RequestIds \cup {None}]
  /\ unit \in [Channels -> RequestIds \cup {None}]
  /\ sampler \in [Samplers -> [run : RequestIds \cup {None}, alive : BOOLEAN]]
  /\ issued \in [RequestIds -> StartCommands \cup {"STOP_TEST", None}]

\* A START between its first channel and its schedule_auto_stop.
WillSchedule(th) ==
  Starting(th) /\ pc[th] \in {"config", "arm", "restart", "spawn", "register",
                              "cancel", "revoke", "schedule"}

\* A STOP, or an auto_stop past its guard, with channel c's disarm before it.
WillDisarm(th, c) ==
  /\ ~Starting(th)
  /\ \/ pc[th] \in {"revoke", "disarm"} /\ Chan(th) <= c
     \/ pc[th] = "stop" /\ Chan(th) < c

\* Every armed channel has somebody to disarm it: the registered run timer, a
\* START that is still to register one, or a stop that has not reached the
\* channel yet.  The exceptions are the channels whose stop is known to have
\* failed and those a dead receiver left behind.
ArmedCovered ==
  \A c \in armed :
    \/ c \in excused
    \/ autoTimer # None
    \/ \E th \in Threads : WillSchedule(th) \/ WillDisarm(th, c)

\* A service runs only while its channel is armed, save in the moment between
\* a stop's disarm of the channel and its `systemctl stop`.
RunningArmed ==
  \A c \in Channels :
    unit[c] # None =>
      \/ c \in armed \cup excused
      \/ \E th \in Threads : pc[th] = "stop" /\ Chan(th) = c

\* The registered timer can still fire, for the run it is registered for: it is
\* running, or the START that created it is about to start it.
TimerArmed ==
  autoTimer # None =>
    /\ local[autoTimer].run = autoRun
    /\ pc[autoTimer] \in {"new", "pending", "guard"}
    /\ pc[autoTimer] = "new" =>
         \E h \in Handlers : pc[h] = "launch" /\ local[h].timer = autoTimer

\* A registered sampler has somebody to collect it: the registered timer, a START
\* that is still to register one, or a stop that has not taken the sampler yet.
SamplerCovered ==
  currentLogger # None =>
    \/ autoTimer # None
    \/ \E th \in Threads :
         WillSchedule(th) \/ (~Starting(th) /\ pc[th] \in {"revoke", "disarm", "stop", "pop"})

\* The receiver's promise that a run does not outlive its duration: its parts
\* are inductive together.
Coverage == ArmedCovered /\ RunningArmed /\ SamplerCovered /\ TimerArmed

-----------------------------------------------------------------------------
(* What holds for one client that waits for each reply (a singleton         *)
(* Handlers), as the coordinator does while no command times out: auto_stop *)
(* is then the only routine that overlaps a command.                        *)

\* An accepted STOP means stopped: when it replies, no channel is armed or
\* running, whatever an auto_stop did to the channels meanwhile.
StopReplyTrue ==
  \A h \in Handlers :
    pc[h] = "finish" /\ local[h].cmd = "STOP_TEST" /\ local[h].failed = {} =>
      \A c \in Channels : ~Live(c)

\* Between commands every running service logs for the last START's run, also
\* after it crashed and came back: no record goes to an earlier run's folder.
RunAttribution ==
  (\A h \in Handlers : pc[h] = "idle") =>
    \A c \in Channels : unit[c] \in {None, lastStart} \/ c \in excused

\* No sampler process is out of reach: it is in state["current_logger"] or in
\* the hands of the thread that spawned it or is stopping it.
NoOrphanSampler == \A s \in Samplers : sampler[s].alive => Owned(s)

\* A request repeated by a client that waits for its replies is answered with
\* the results of that very request.
RetryAnswer == (\A h \in Handlers : pc[h] = "idle") => lastChannels = lastRequest

\* "A run ends on time even if the network drops": whatever the clients do,
\* a live channel ends up stopped, or its stop was tried and failed.
EveryRunEnds == \A c \in Channels : Live(c) ~> (~Live(c) \/ c \in excused)

-----------------------------------------------------------------------------
(* What the comments, docs and tests say and the code does not do.          *)

\* "If a manual STOP (or a new START) already fired for this run, the timer entry
\* is gone/replaced -> this callback is stale; do nothing": an auto_stop goes past
\* its guard only while the services that run are those of its own run.
AutoStopOnlyItsRun ==
  [][\A t \in Timers : pc[t] = "guard" /\ pc'[t] = "disarm" =>
       \A c \in Channels : unit[c] \in {None, local[t].run}]_vars

AtStopReply(h) == pc[h] = "finish" /\ local[h].cmd = "STOP_TEST"

\* "The mirror STOP can arrive after the DUT-owned auto-stop already reaped the
\* sampler; it must still get the baseline block."
MirrorStopGetsBaseline ==
  \A h \in Handlers :
    AtStopReply(h) /\ lastStart # None /\ issued[lastStart] = "BASELINE_TEST" =>
      local[h].baseline = lastStart

\* "Stop the sampler (if running) and return its summary dict, or None": the
\* baseline block of a STOP reply is of the run that is stopped.
NoStaleBaseline ==
  \A h \in Handlers : AtStopReply(h) => local[h].baseline \in {None, lastStart}

\* "A repeated request_id is acknowledged ok without re-acting, so an arbiter
\* retry can't double-start."
NoDoubleStart ==
  [][\A h \in Handlers :
       pc[h] = "idle" /\ pc'[h] # "idle" => issued[local'[h].run] = None]_vars
=============================================================================
