------------------------ MODULE ControlReceiverProofs ------------------------
(***************************************************************************)
(* Theorems about ControlReceiver, for any number of connection threads,   *)
(* timers, samplers, requests and channels and any set of faults: its      *)
(* variables keep their types, and whatever is armed, running or sampling  *)
(* has somebody who will stop it (Coverage).                               *)
(*                                                                         *)
(* Coverage is inductive once it is known where the threads are (Places)   *)
(* and that the timer objects they hold are not the registered one         *)
(* (TimerObjects).  What one client that waits for its replies may rely on  *)
(* follows from the part of a START or a STOP its handler is through with   *)
(* (StopTruth, Attribution, Latest, SamplerTaken).                         *)
(***************************************************************************)
EXTENDS ControlReceiver, TLAPS

\* A thread about to wait for a sampler holds one.
SamplerHeld == \A th \in Threads : pc[th] = "reap" => local[th].sampler \in Samplers

Typed == TypeOK /\ SamplerHeld

-----------------------------------------------------------------------------
(* The local variables of a thread, a field or a few at a time. *)

LEMMA LocalsFields ==
  ASSUME NEW x \in Locals
  PROVE  /\ x.run \in RequestIds \cup {None}
         /\ x.ch \in Channels
         /\ x.tries \in 0..2
         /\ x.timer \in Timers \cup {None}
         /\ x.sampler \in Samplers \cup {None}
         /\ x.baseline \in RequestIds \cup {None}
         /\ x.failed \in SUBSET (0..NumChannels)
  BY DEF Locals

LEMMA LocalsUpdates ==
  ASSUME NEW x \in Locals
  PROVE  /\ \A t \in Timers \cup {None} : [x EXCEPT !.timer = t] \in Locals
         /\ \A s \in Samplers \cup {None} : [x EXCEPT !.sampler = s] \in Locals
         /\ \A r \in RequestIds \cup {None} :
              /\ [x EXCEPT !.baseline = r] \in Locals
              /\ [x EXCEPT !.baseline = r, !.sampler = None] \in Locals
         /\ \A n \in 0..2 : [x EXCEPT !.tries = n] \in Locals
         /\ \A f \in SUBSET (0..NumChannels) : [x EXCEPT !.failed = f] \in Locals
         /\ \A c \in Channels, n \in 0..2, f \in SUBSET (0..NumChannels) :
              [x EXCEPT !.ch = c, !.tries = n, !.failed = f] \in Locals
  BY ZenonT(60) DEF Locals

LEMMA RestType == Rest \in Locals
  BY NumChannelsAssumption DEF Rest, Locals, StartCommands, Channels

LEMMA FreshType ==
  ASSUME NEW id \in RequestIds, NEW cmd \in Commands
  PROVE  [Rest EXCEPT !.cmd = cmd, !.run = id] \in Locals
<1>1. cmd \in StartCommands \cup {"STOP_TEST"}
  BY CommandsAssumption
<1>2. QED
  BY RestType, <1>1 DEF Locals

LEMMA TimerRestType ==
  ASSUME NEW r \in RequestIds \cup {None}
  PROVE  [Rest EXCEPT !.run = r] \in Locals
  BY RestType DEF Locals

\* One thread's local variables change, or those of a handler and of a timer.
LEMMA LocalStep ==
  ASSUME TypeOK, NEW th \in Threads, NEW x \in Locals, local' = [local EXCEPT ![th] = x]
  PROVE  local' \in [Threads -> Locals]
  BY DEF TypeOK

LEMMA LocalStep2 ==
  ASSUME TypeOK, NEW h \in Threads, NEW t, NEW x \in Locals, NEW y \in Locals,
         local' = [local EXCEPT ![h] = x, ![t] = y]
  PROVE  local' \in [Threads -> Locals]
  BY DEF TypeOK

\* The loops over the channels.
LEMMA NextChannelType ==
  ASSUME TypeOK, NEW th \in Threads, NEW body \in PCs, NEW after \in PCs,
         NEW bad \in SUBSET (0..NumChannels), NextChannel(th, body, after, bad)
  PROVE  pc' \in [Threads -> PCs] /\ local' \in [Threads -> Locals]
<1>1. local[th] \in Locals /\ local[th].ch \in Channels
  BY LocalsFields DEF TypeOK
<1> DEFINE ch == IF local[th].ch < NumChannels THEN local[th].ch + 1 ELSE local[th].ch
<1>2. ch \in Channels
  BY <1>1, NumChannelsAssumption DEF Channels
<1>3. local[th].failed \cup bad \in SUBSET (0..NumChannels)
  BY <1>1, LocalsFields
<1>4. 0 \in 0..2
  OBVIOUS
<1>5. Advance(local[th], bad) \in Locals
  BY <1>1, <1>2, <1>3, <1>4, LocalsUpdates, Zenon DEF Advance
<1>6. local' \in [Threads -> Locals]
  BY <1>5, LocalStep DEF NextChannel
<1>7. QED
  BY <1>6 DEF NextChannel, GoTo, TypeOK
-----------------------------------------------------------------------------
(* Type correctness *)

LEMMA TypeInit == Init => Typed
<1> SUFFICES ASSUME Init PROVE Typed
  OBVIOUS
<1>1. pc \in [Threads -> PCs] /\ local \in [Threads -> Locals]
  BY RestType DEF Init, PCs
<1>2. QED
  BY <1>1 DEF Init, Typed, TypeOK, SamplerHeld, NoSampler

LEMMA TypeStep == Typed /\ [Next]_vars => TypeOK'
<1> SUFFICES ASSUME Typed, [Next]_vars PROVE TypeOK'
  OBVIOUS
<1> USE DEF Typed, TypeOK
<1>1. ASSUME NEW h \in Handlers, Receive(h) PROVE TypeOK'
  <2>1. pc' \in [Threads -> PCs]
    BY <1>1 DEF Receive, GoTo, PCs
  <2>2. PICK id \in RequestIds, cmd \in Commands :
          /\ local' = [local EXCEPT ![h] = [Rest EXCEPT !.cmd = cmd, !.run = id]]
          /\ lastRequest' = id
          /\ issued' = [issued EXCEPT ![id] = cmd]
    BY <1>1 DEF Receive
  <2>3. local' \in [Threads -> Locals]
    BY <2>2, FreshType, LocalStep DEF Threads
  <2>4. issued' \in [RequestIds -> StartCommands \cup {"STOP_TEST", None}]
    <3>1. cmd \in StartCommands \cup {"STOP_TEST", None}
      BY CommandsAssumption
    <3>2. QED
      BY <2>2, <3>1
  <2>5. QED
    BY <1>1, <2>1, <2>2, <2>3, <2>4 DEF Receive, registry, timer, logger, dut
<1>2. ASSUME NEW h \in Handlers, StartFails(h) PROVE TypeOK'
  <2>1. pc' \in [Threads -> PCs] /\ local' \in [Threads -> Locals]
    <3>1. {"config", AfterChannels(h)} \subseteq PCs /\ {Chan(h)} \in SUBSET (0..NumChannels)
      BY LocalsFields, NumChannelsAssumption
        DEF PCs, AfterChannels, Chan, Channels, Threads
    <3>2. QED
      BY <1>2, <3>1, NextChannelType DEF StartFails, Threads
  <2>2. QED
    BY <1>2, <2>1 DEF StartFails, registry, timer, logger, dut
<1>3. ASSUME NEW h \in Handlers, Configure(h) PROVE TypeOK'
  <2>1. pc' \in [Threads -> PCs]
    BY <1>3 DEF Configure, GoTo, PCs
  <2>2. QED
    BY <1>3, <2>1, LocalsFields DEF Configure, registry, timer, logger, dut, Chan, Threads
<1>4. ASSUME NEW h \in Handlers, Arm(h) PROVE TypeOK'
  <2>1. pc' \in [Threads -> PCs]
    BY <1>4 DEF Arm, GoTo, PCs
  <2>2. QED
    BY <1>4, <2>1, LocalsFields DEF Arm, registry, timer, logger, dut, Chan, Threads
<1>5. ASSUME NEW h \in Handlers, RestartUnit(h) PROVE TypeOK'
  <2>1. pc' \in [Threads -> PCs] /\ local' \in [Threads -> Locals]
    <3>1. /\ {"config", AfterChannels(h)} \subseteq PCs
          /\ {Chan(h)} \in SUBSET (0..NumChannels) /\ {} \in SUBSET (0..NumChannels)
      BY LocalsFields, NumChannelsAssumption
        DEF PCs, AfterChannels, Chan, Channels, Threads
    <3>2. QED
      BY <1>5, <3>1, NextChannelType DEF RestartUnit, Threads
  <2>2. unit' \in [Channels -> RequestIds \cup {None}]
    BY <1>5, LocalsFields DEF RestartUnit, Started, Chan, Threads
  <2>3. QED
    BY <1>5, <2>1, <2>2 DEF RestartUnit, registry, timer, logger, dut
<1>6. ASSUME NEW h \in Handlers, SpawnSampler(h) PROVE TypeOK'
  <2>1. pc' \in [Threads -> PCs]
    BY <1>6 DEF SpawnSampler, GoTo, PCs
  <2>2. local[h] \in Locals /\ Rest \in Locals
    BY RestType DEF Threads
  <2>3. 0 \in 0..NumChannels
    BY NumChannelsAssumption
  <2>4. local' \in [Threads -> Locals]
    <3>1. ASSUME NEW s \in Samplers, local' = [local EXCEPT ![h].sampler = s]
          PROVE local' \in [Threads -> Locals]
      BY <3>1, <2>2, LocalsUpdates, LocalStep DEF Threads
    <3>2. ASSUME local' = [local EXCEPT ![h].failed = @ \cup {0}]
          PROVE local' \in [Threads -> Locals]
      <4>1. local[h].failed \cup {0} \in SUBSET (0..NumChannels)
        BY <2>2, <2>3, LocalsFields
      <4>2. QED
        BY <3>2, <4>1, <2>2, LocalsUpdates, LocalStep DEF Threads
    <3>3. QED
      BY <1>6, <3>1, <3>2 DEF SpawnSampler
  <2>5. sampler' \in [Samplers -> [run : RequestIds \cup {None}, alive : BOOLEAN]]
    <3>1. [run |-> local[h].run, alive |-> TRUE] \in
            [run : RequestIds \cup {None}, alive : BOOLEAN]
      <4>1. local[h].run \in RequestIds \cup {None}
        BY <2>2, LocalsFields
      <4>2. TRUE \in BOOLEAN
        OBVIOUS
      <4>3. QED
        BY <4>1, <4>2
    <3>2. QED
      BY <1>6, <3>1 DEF SpawnSampler
  <2>6. QED
    BY <1>6, <2>1, <2>4, <2>5 DEF SpawnSampler, registry, timer, logger, dut
<1>7. ASSUME NEW h \in Handlers, RegisterSampler(h) PROVE TypeOK'
  <2>1. pc' \in [Threads -> PCs]
    BY <1>7 DEF RegisterSampler, GoTo, PCs
  <2>2. local[h] \in Locals /\ Rest \in Locals
    BY RestType DEF Threads
  <2>3. local' \in [Threads -> Locals]
    BY <1>7, <2>2, LocalsUpdates, LocalStep DEF RegisterSampler, Threads
  <2>4. QED
    BY <1>7, <2>1, <2>2, <2>3, LocalsFields
      DEF RegisterSampler, registry, timer, logger, dut
<1>8. ASSUME NEW h \in Handlers, PopTimer(h) PROVE TypeOK'
  <2>1. pc' \in [Threads -> PCs]
    BY <1>8 DEF PopTimer, GoTo, PCs, AfterCancel
  <2>2. local[h] \in Locals /\ Rest \in Locals
    BY RestType DEF Threads
  <2>3. local' \in [Threads -> Locals]
    BY <1>8, <2>2, LocalsUpdates, LocalStep DEF PopTimer, Threads
  <2>4. QED
    BY <1>8, <2>1, <2>3 DEF PopTimer, registry, timer, logger, dut
<1>9. ASSUME NEW h \in Handlers, RevokeTimer(h) PROVE TypeOK'
  <2>1. pc' \in [Threads -> PCs]
    BY <1>9 DEF RevokeTimer, GoTo, PCs, AfterCancel
  <2>2. local[h] \in Locals /\ Rest \in Locals
    BY RestType DEF Threads
  <2>3. local' \in [Threads -> Locals]
    BY <1>9, <2>2, LocalsUpdates DEF RevokeTimer, Threads
  <2>4. QED
    BY <1>9, <2>1, <2>3 DEF RevokeTimer, registry, timer, logger, dut
<1>10. ASSUME NEW h \in Handlers, Schedule(h) PROVE TypeOK'
  <2>1. pc' \in [Threads -> PCs]
    BY <1>10 DEF Schedule, GoTo, PCs
  <2>2. local[h] \in Locals /\ Rest \in Locals
    BY RestType DEF Threads
  <2>3. [Rest EXCEPT !.run = local[h].run] \in Locals
    BY <2>2, LocalsFields, TimerRestType
  <2>4. PICK t \in Timers :
          /\ local' = [local EXCEPT ![h].timer = t, ![t] = [Rest EXCEPT !.run = local[h].run]]
          /\ autoTimer' = t
          /\ autoRun' = local[h].run
    BY <1>10 DEF Schedule
  <2>5. local' \in [Threads -> Locals]
    <3>1. [local[h] EXCEPT !.timer = t] \in Locals
      BY <2>2, LocalsUpdates
    <3>2. QED
      BY <2>3, <2>4, <3>1, LocalStep2 DEF Threads
  <2>6. autoRun' \in RequestIds \cup {None}
    BY <2>2, <2>4, LocalsFields
  <2>7. autoTimer' \in Timers \cup {None}
    BY <2>4
  <2>8. UNCHANGED <<registry, logger, dut, issued>>
    BY <1>10 DEF Schedule
  <2>9. QED
    BY <2>1, <2>5, <2>6, <2>7, <2>8 DEF registry, logger, dut
<1>11. ASSUME NEW h \in Handlers, LaunchTimer(h) PROVE TypeOK'
  <2>1. pc' \in [Threads -> PCs]
    BY <1>11 DEF LaunchTimer, GoTo, PCs
  <2>2. local[h] \in Locals /\ Rest \in Locals
    BY RestType DEF Threads
  <2>3. local' \in [Threads -> Locals]
    BY <1>11, <2>2, LocalsUpdates DEF LaunchTimer, Threads
  <2>4. QED
    BY <1>11, <2>1, <2>3 DEF LaunchTimer, registry, timer, logger, dut
<1>12. ASSUME NEW h \in Handlers, Finish(h) PROVE TypeOK'
  <2>1. pc' \in [Threads -> PCs]
    BY <1>12 DEF Finish, GoTo, PCs
  <2>2. local[h] \in Locals /\ Rest \in Locals
    BY RestType DEF Threads
  <2>3. local' \in [Threads -> Locals]
    BY <1>12, <2>2, LocalStep DEF Finish, Threads
  <2>4. QED
    BY <1>12, <2>1, <2>2, <2>3, LocalsFields DEF Finish, registry, timer, logger, dut
<1>13. ASSUME NEW th \in Threads, PopSampler(th) PROVE TypeOK'
  <2>1. pc' \in [Threads -> PCs]
    BY <1>13 DEF PopSampler, GoTo, PCs
  <2>2. local[th] \in Locals /\ Rest \in Locals
    BY RestType DEF Threads
  <2>3. local' \in [Threads -> Locals]
    BY <1>13, <2>2, LocalsUpdates, LocalStep DEF PopSampler
  <2>4. QED
    BY <1>13, <2>1, <2>3 DEF PopSampler, registry, timer, logger, dut
<1>14. ASSUME NEW th \in Threads, ReplayBaseline(th) PROVE TypeOK'
  <2>1. pc' \in [Threads -> PCs]
    BY <1>14 DEF ReplayBaseline, GoTo, PCs, AfterSampler
  <2>2. local[th] \in Locals /\ Rest \in Locals
    BY RestType DEF Threads
  <2>3. local' \in [Threads -> Locals]
    BY <1>14, <2>2, LocalsUpdates, LocalStep DEF ReplayBaseline
  <2>4. QED
    BY <1>14, <2>1, <2>3 DEF ReplayBaseline, registry, timer, logger, dut
<1>15. ASSUME NEW th \in Threads, ReapSampler(th) PROVE TypeOK'
  <2>1. pc' \in [Threads -> PCs]
    BY <1>15 DEF ReapSampler, GoTo, PCs
  <2>2. local[th] \in Locals /\ Rest \in Locals
    BY RestType DEF Threads
  <2>3. sampler[local[th].sampler].run \in RequestIds \cup {None}
    BY <1>15 DEF ReapSampler, SamplerHeld
  <2>4. local' \in [Threads -> Locals]
    <3>1. [local[th] EXCEPT !.baseline = sampler[local[th].sampler].run, !.sampler = None]
            \in Locals
      BY <2>2, <2>3, LocalsUpdates
    <3>2. local' = [local EXCEPT ![th] =
                      [local[th] EXCEPT !.baseline = sampler[local[th].sampler].run,
                                        !.sampler = None]]
      BY <1>15 DEF ReapSampler
    <3>3. QED
      BY <3>1, <3>2, LocalStep
  <2>5. sampler' \in [Samplers -> [run : RequestIds \cup {None}, alive : BOOLEAN]]
    <3>1. NoSampler \in [run : RequestIds \cup {None}, alive : BOOLEAN]
      BY Zenon DEF NoSampler
    <3>2. QED
      BY <1>15, <3>1 DEF ReapSampler
  <2>6. QED
    BY <1>15, <2>1, <2>4, <2>5 DEF ReapSampler, registry, timer, logger, dut
<1>16. ASSUME NEW th \in Threads, RecordBaseline(th) PROVE TypeOK'
  <2>1. pc' \in [Threads -> PCs]
    BY <1>16 DEF RecordBaseline, GoTo, PCs, AfterSampler
  <2>2. QED
    BY <1>16, <2>1, LocalsFields DEF RecordBaseline, registry, timer, logger, dut
<1>17. ASSUME NEW th \in Threads, Disarm(th) PROVE TypeOK'
  <2>1. pc' \in [Threads -> PCs]
    BY <1>17 DEF Disarm, GoTo, PCs
  <2>2. QED
    BY <1>17, <2>1, LocalsFields DEF Disarm, registry, timer, logger, dut, Chan
<1>18. ASSUME NEW th \in Threads, StopUnit(th) PROVE TypeOK'
  <2>1. pc' \in [Threads -> PCs] /\ local' \in [Threads -> Locals]
    <3>1. {"disarm", "pop"} \subseteq PCs /\ {} \in SUBSET (0..NumChannels)
      BY DEF PCs
    <3>2. QED
      BY <1>18, <3>1, NextChannelType DEF StopUnit
  <2>2. QED
    BY <1>18, <2>1 DEF StopUnit, registry, timer, logger, dut
<1>19. ASSUME NEW th \in Threads, StopFails(th) PROVE TypeOK'
  <2>1. local[th] \in Locals /\ Chan(th) \in Channels /\ local[th].tries \in 0..2
    BY LocalsFields DEF Chan
  <2>2. pc' \in [Threads -> PCs] /\ local' \in [Threads -> Locals]
    <3>1. CASE local[th].tries < 2
      <4>1. local[th].tries + 1 \in 0..2
        BY <2>1, <3>1
      <4>2. QED
        BY <1>19, <2>1, <3>1, <4>1, LocalsUpdates, LocalStep DEF StopFails
    <3>2. CASE ~(local[th].tries < 2)
      <4>1. {"disarm", "pop"} \subseteq PCs /\ {Chan(th)} \in SUBSET (0..NumChannels)
        BY <2>1, NumChannelsAssumption DEF PCs, Channels
      <4>2. QED
        BY <1>19, <3>2, <4>1, NextChannelType DEF StopFails
    <3>3. QED
      BY <3>1, <3>2
  <2>3. unit' \in [Channels -> RequestIds \cup {None}] /\ excused' \subseteq Channels
    BY <1>19, <2>1 DEF StopFails
  <2>4. QED
    BY <1>19, <2>2, <2>3 DEF StopFails, registry, timer, logger, dut
<1>20. ASSUME NEW t \in Timers, Fire(t) PROVE TypeOK'
  <2>1. pc' \in [Threads -> PCs]
    BY <1>20 DEF Fire, GoTo, PCs
  <2>2. QED
    BY <1>20, <2>1 DEF Fire, registry, timer, logger, dut
<1>21. ASSUME NEW t \in Timers, Guard(t) PROVE TypeOK'
  <2>1. pc' \in [Threads -> PCs]
    BY <1>21 DEF Guard, GoTo, PCs
  <2>2. local[t] \in Locals /\ Rest \in Locals
    BY RestType DEF Threads
  <2>3. local' \in [Threads -> Locals]
    BY <1>21, <2>2, LocalStep DEF Guard, Threads
  <2>4. QED
    BY <1>21, <2>1, <2>3 DEF Guard, registry, timer, logger, dut
<1>22. ASSUME NEW t \in Timers, FinishAutoStop(t) PROVE TypeOK'
  <2>1. pc' \in [Threads -> PCs]
    BY <1>22 DEF FinishAutoStop, GoTo, PCs
  <2>2. local[t] \in Locals /\ Rest \in Locals
    BY RestType DEF Threads
  <2>3. local' \in [Threads -> Locals]
    BY <1>22, <2>2, LocalStep DEF FinishAutoStop, Threads
  <2>4. QED
    BY <1>22, <2>1, <2>3 DEF FinishAutoStop, registry, timer, logger, dut
<1>23. ASSUME NEW s \in Samplers, SamplerExits(s) PROVE TypeOK'
  BY <1>23 DEF SamplerExits, NoSampler, registry, timer, logger, dut
<1>24. ASSUME NEW c \in Channels, UnitRespawns(c) PROVE TypeOK'
  BY <1>24 DEF UnitRespawns, Started, registry, timer, logger, dut
<1>25. ASSUME ReceiverRestarts PROVE TypeOK'
  <2>1. pc' \in [Threads -> PCs] /\ local' \in [Threads -> Locals]
    BY <1>25, RestType DEF ReceiverRestarts, LoseReceiver, PCs
  <2>2. QED
    BY <1>25, <2>1 DEF ReceiverRestarts, LoseReceiver, NoSampler, Started
<1>26. ASSUME BoardReboots PROVE TypeOK'
  <2>1. pc' \in [Threads -> PCs] /\ local' \in [Threads -> Locals]
    BY <1>26, RestType DEF BoardReboots, LoseReceiver, PCs
  <2>2. QED
    BY <1>26, <2>1 DEF BoardReboots, LoseReceiver, NoSampler, Started
<1>27. CASE UNCHANGED vars
  BY <1>27 DEF vars, registry, timer, logger, dut
<1>28. QED
  BY <1>1, <1>2, <1>3, <1>4, <1>5, <1>6, <1>7, <1>8, <1>9, <1>10, <1>11, <1>12, <1>13,
     <1>14, <1>15, <1>16, <1>17, <1>18, <1>19, <1>20, <1>21, <1>22, <1>23, <1>24, <1>25,
     <1>26, <1>27
    DEF Next, HandlerStep, TimerStep, StopCurrentLogger, DoStop, DoStart, Threads
-----------------------------------------------------------------------------
(* Coverage is inductive *)

\* Where a thread is fits its command, and a stop has the loop over the channels
\* still before it while it cancels the timer.
Places ==
  /\ \A t \in Timers : local[t].cmd = "auto_stop"
  /\ \A th \in Threads :
       /\ pc[th] \in {"config", "arm", "restart", "spawn", "register", "schedule", "launch"} =>
            Starting(th)
       /\ pc[th] \in {"disarm", "stop"} => ~Starting(th)
       /\ ~Starting(th) /\ pc[th] \in {"cancel", "revoke", "new", "pending", "guard"} =>
            Chan(th) = 1

\* The timer a thread has popped is no longer the registered one, and the one it
\* is about to start is its own and not running yet.
TimerObjects ==
  /\ \A h \in Handlers :
       /\ pc[h] = "revoke" => local[h].timer \in Timers /\ local[h].timer # autoTimer
       /\ pc[h] = "launch" =>
            local[h].timer \in Timers /\ pc[local[h].timer] \in {"new", "revoked"}
  /\ \A h1, h2 \in Handlers :
       pc[h1] = "launch" /\ pc[h2] = "launch" /\ local[h1].timer = local[h2].timer => h1 = h2

Routines == Places /\ TimerObjects

Inv == TypeOK /\ SamplerHeld /\ Routines /\ Coverage

\* A step of th alone, from one place to another, with its command kept.
Alone(th) == \A x \in Threads \ {th} : pc'[x] = pc[x] /\ local'[x] = local[x]
Keeps(th) == local'[th].cmd = local[th].cmd /\ local'[th].run = local[th].run

LEMMA AdvanceFields ==
  ASSUME NEW x \in Locals, NEW bad
  PROVE  /\ Advance(x, bad).cmd = x.cmd /\ Advance(x, bad).run = x.run
         /\ Advance(x, bad).timer = x.timer /\ Advance(x, bad).sampler = x.sampler
         /\ Advance(x, bad).failed = x.failed \cup bad
         /\ Advance(x, bad).ch = IF x.ch < NumChannels THEN x.ch + 1 ELSE x.ch
  BY DEF Advance, Locals

LEMMA NextChannelEffect ==
  ASSUME TypeOK, NEW th \in Threads, NEW body, NEW after, NEW bad,
         NextChannel(th, body, after, bad)
  PROVE  /\ Alone(th) /\ Keeps(th) /\ local'[th].timer = local[th].timer
         /\ local'[th].sampler = local[th].sampler
         /\ local'[th].failed = local[th].failed \cup bad
         /\ \/ Chan(th) < NumChannels /\ pc'[th] = body /\ local'[th].ch = Chan(th) + 1
            \/ Chan(th) = NumChannels /\ pc'[th] = after /\ local'[th].ch = Chan(th)
<1>1. local[th] \in Locals /\ Chan(th) \in 1..NumChannels
  BY LocalsFields DEF TypeOK, Chan, Channels
<1>2. local' = [local EXCEPT ![th] = Advance(local[th], bad)]
  BY DEF NextChannel
<1>3. local'[th] = Advance(local[th], bad)
  BY <1>2 DEF TypeOK
<1>4. /\ Keeps(th)
      /\ local'[th].timer = local[th].timer /\ local'[th].sampler = local[th].sampler
      /\ local'[th].failed = local[th].failed \cup bad
  BY <1>1, <1>3, AdvanceFields DEF Keeps
<1>5. local'[th].ch = IF Chan(th) < NumChannels THEN Chan(th) + 1 ELSE Chan(th)
  BY <1>1, <1>3, AdvanceFields DEF Chan
<1>6. Alone(th) /\ pc'[th] = IF Chan(th) < NumChannels THEN body ELSE after
  BY <1>2 DEF TypeOK, NextChannel, GoTo, Alone
<1>7. QED
  BY <1>1, <1>4, <1>5, <1>6, NumChannelsAssumption

\* The threads that a step of th leaves alone cover what they covered.
LEMMA OthersCover ==
  ASSUME NEW th \in Threads, Alone(th), NEW x \in Threads \ {th}, NEW c
  PROVE  /\ WillSchedule(x)' <=> WillSchedule(x)
         /\ WillDisarm(x, c)' <=> WillDisarm(x, c)
  BY DEF Alone, WillSchedule, WillDisarm, Starting, Chan

\* A START on its way covers every channel and every sampler.
LEMMA StartCovers ==
  ASSUME NEW th \in Threads, WillSchedule(th)'
  PROVE  ArmedCovered' /\ SamplerCovered'
  BY DEF ArmedCovered, SamplerCovered

\* What a step of th keeps by starting or ending where a conjunct does not look.
LEMMA CoverKept ==
  ASSUME Coverage, NEW th \in Threads, Alone(th),
         pc[th] \in {"idle", "replay", "reap", "record", "pop", "finish", "pending"},
         UNCHANGED <<armed, excused, autoTimer>>
  PROVE  /\ ArmedCovered'
         /\ pc[th] # "pop" /\ UNCHANGED currentLogger => SamplerCovered'
<1>1. /\ \A c : ~WillSchedule(th) /\ ~WillDisarm(th, c)
      /\ \A x \in Threads \ {th} : \A c :
           (WillSchedule(x)' <=> WillSchedule(x)) /\ (WillDisarm(x, c)' <=> WillDisarm(x, c))
  BY OthersCover DEF WillSchedule, WillDisarm
<1>2. ArmedCovered'
  BY <1>1 DEF Coverage, ArmedCovered
<1>3. ASSUME pc[th] # "pop", UNCHANGED currentLogger PROVE SamplerCovered'
  BY <1>1, <1>3 DEF Coverage, SamplerCovered, Alone, Starting
<1>4. QED
  BY <1>2, <1>3

LEMMA RunningKept ==
  ASSUME Coverage, NEW th \in Threads, Alone(th), pc[th] # "stop",
         UNCHANGED <<armed, unit, excused>>
  PROVE  RunningArmed'
  BY DEF Coverage, RunningArmed, Alone, Chan

LEMMA TimerArmedKept ==
  ASSUME Coverage, TypeOK, NEW th \in Threads, Alone(th), UNCHANGED <<autoTimer, autoRun>>,
         pc[th] \notin {"new", "pending", "guard", "launch"}
  PROVE  TimerArmed'
  BY NoneAssumption DEF Coverage, TimerArmed, Alone, TypeOK, Threads

LEMMA TimerObjectsKept ==
  ASSUME Routines, NEW th \in Threads, Alone(th), UNCHANGED autoTimer,
         pc[th] \notin {"new", "revoked"}, pc'[th] \notin {"revoke", "launch"}
  PROVE  TimerObjects'
  BY DEF Routines, TimerObjects, Alone, Threads

LEMMA SamplerHeldKept ==
  ASSUME SamplerHeld, NEW th \in Threads, Alone(th), pc'[th] # "reap"
  PROVE  SamplerHeld'
  BY DEF SamplerHeld, Alone

LEMMA CoverageInit == Init => Inv
BY TypeInit, NoneAssumption
  DEF Init, Inv, Typed, Routines, Places, TimerObjects, Coverage, ArmedCovered,
      RunningArmed, TimerArmed, SamplerCovered, Rest, Threads, Starting, StartCommands

LEMMA InvStep == Inv /\ [Next]_vars => Inv'
<1> SUFFICES ASSUME Inv, [Next]_vars PROVE Inv'
  OBVIOUS
<1>0. TypeOK' /\ Typed
  BY TypeStep DEF Inv, Typed
<1>a. Handlers \cap Timers = {} /\ None \notin Timers /\ Threads = Handlers \cup Timers
  BY ThreadsAssumption, NoneAssumption DEF Threads
<1>1. ASSUME NEW h \in Handlers, Receive(h) PROVE Inv'
  <2>1. /\ pc[h] = "idle"
        /\ Alone(h)
        /\ \/ Starting(h)' /\ pc'[h] = "pop"
           \/ ~Starting(h)' /\ pc'[h] = "cancel" /\ local'[h].ch = 1
        /\ UNCHANGED <<timer, logger, dut>>
    BY <1>1, <1>0, <1>a, CommandsAssumption
      DEF Receive, TypeOK, Alone, GoTo, Rest, Starting, StartCommands, timer, logger, dut
  <2>2. Places'
    BY <1>0, <1>a, <2>1
      DEF Inv, Routines, Places, Starting, Chan, Alone, timer, logger, dut
  <2>3. TimerObjects'
    BY <1>a, <2>1, TimerObjectsKept DEF Inv, timer
  <2>4. RunningArmed'
    BY <1>a, <2>1, RunningKept DEF Inv, dut
  <2>5. TimerArmed'
    BY <1>a, <2>1, TimerArmedKept DEF Inv, timer
  <2>6. ArmedCovered' /\ SamplerCovered'
    BY <1>a, <2>1, CoverKept DEF Inv, timer, logger, dut
  <2>7. SamplerHeld'
    BY <1>a, <2>1, SamplerHeldKept DEF Inv
  <2>8. QED
    BY <1>0, <2>2, <2>3, <2>4, <2>5, <2>6, <2>7 DEF Inv, Routines, Coverage
<1>2. ASSUME NEW h \in Handlers, StartFails(h) PROVE Inv'
  <2>1. /\ pc[h] \in {"config", "arm"}
        /\ pc'[h] \in {"config", "spawn", "cancel"}
        /\ Alone(h) /\ Keeps(h)
        /\ UNCHANGED <<timer, logger, dut>>
    <3>1. AfterChannels(h) \in {"spawn", "cancel"}
      BY DEF AfterChannels
    <3>2. NextChannel(h, "config", AfterChannels(h), {Chan(h)})
      BY <1>2 DEF StartFails
    <3>3. QED
      BY <1>2, <1>0, <1>a, <3>1, <3>2, NextChannelEffect
        DEF StartFails, TypeOK, timer, logger, dut, Typed
  <2>2. Places'
    BY <1>0, <1>a, <2>1
      DEF Inv, Routines, Places, Starting, Chan, Alone, Keeps, timer, logger, dut
  <2>3. TimerObjects'
    BY <1>a, <2>1, TimerObjectsKept DEF Inv, timer
  <2>4. RunningArmed'
    BY <1>a, <2>1, RunningKept DEF Inv, dut
  <2>5. TimerArmed'
    BY <1>a, <2>1, TimerArmedKept DEF Inv, timer
  <2>6. ArmedCovered' /\ SamplerCovered'
    <3>1. WillSchedule(h)'
      BY <1>a, <2>1 DEF Inv, Routines, Places, Keeps, WillSchedule, Starting
    <3>2. QED
      BY <1>a, <3>1, StartCovers
  <2>7. SamplerHeld'
    BY <1>a, <2>1, SamplerHeldKept DEF Inv
  <2>8. QED
    BY <1>0, <2>2, <2>3, <2>4, <2>5, <2>6, <2>7 DEF Inv, Routines, Coverage
<1>3. ASSUME NEW h \in Handlers, Configure(h) PROVE Inv'
  <2>1. /\ pc[h] = "config" /\ pc'[h] = "arm"
        /\ Alone(h) /\ local' = local
        /\ UNCHANGED <<timer, logger, armed, unit, excused>>
    BY <1>3, <1>0, <1>a DEF Configure, TypeOK, Alone, GoTo, timer, logger, dut
  <2>2. Places'
    BY <1>0, <1>a, <2>1 DEF Inv, Routines, Places, Starting, Chan, Alone, timer, logger
  <2>3. TimerObjects'
    BY <1>a, <2>1, TimerObjectsKept DEF Inv, timer
  <2>4. RunningArmed'
    BY <1>a, <2>1, RunningKept DEF Inv, dut
  <2>5. TimerArmed'
    BY <1>a, <2>1, TimerArmedKept DEF Inv, timer
  <2>6. ArmedCovered' /\ SamplerCovered'
    <3>1. WillSchedule(h)'
      BY <1>a, <2>1 DEF Inv, Routines, Places, Keeps, WillSchedule, Starting
    <3>2. QED
      BY <1>a, <3>1, StartCovers
  <2>7. SamplerHeld'
    BY <1>a, <2>1, SamplerHeldKept DEF Inv
  <2>8. QED
    BY <1>0, <2>2, <2>3, <2>4, <2>5, <2>6, <2>7 DEF Inv, Routines, Coverage
<1>4. ASSUME NEW h \in Handlers, Arm(h) PROVE Inv'
  <2>1. /\ pc[h] = "arm" /\ pc'[h] = "restart"
        /\ Alone(h) /\ local' = local
        /\ armed' = armed \cup {Chan(h)} /\ excused' = excused \ {Chan(h)}
        /\ UNCHANGED <<timer, logger, unit>>
    BY <1>4, <1>0, <1>a DEF Arm, TypeOK, Alone, GoTo, timer, logger, dut
  <2>2. Places'
    BY <1>0, <1>a, <2>1 DEF Inv, Routines, Places, Starting, Chan, Alone, timer, logger
  <2>3. TimerObjects'
    BY <1>a, <2>1, TimerObjectsKept DEF Inv, timer
  <2>4. RunningArmed'
    BY <1>0, <1>a, <2>1
      DEF Inv, Coverage, RunningArmed, Chan, Alone, timer, logger, TypeOK, Channels
  <2>5. TimerArmed'
    BY <1>a, <2>1, TimerArmedKept DEF Inv, timer
  <2>6. ArmedCovered' /\ SamplerCovered'
    <3>1. WillSchedule(h)'
      BY <1>a, <2>1 DEF Inv, Routines, Places, Keeps, WillSchedule, Starting
    <3>2. QED
      BY <1>a, <3>1, StartCovers
  <2>7. SamplerHeld'
    BY <1>a, <2>1, SamplerHeldKept DEF Inv
  <2>8. QED
    BY <1>0, <2>2, <2>3, <2>4, <2>5, <2>6, <2>7 DEF Inv, Routines, Coverage
<1>5. ASSUME NEW h \in Handlers, RestartUnit(h) PROVE Inv'
  <2>1. /\ pc[h] = "restart"
        /\ pc'[h] \in {"config", "spawn", "cancel"}
        /\ Alone(h) /\ Keeps(h)
        /\ \A c \in Channels : unit'[c] \in {unit[c], None} \/ c \in armed
        /\ UNCHANGED <<timer, logger, armed, excused>>
    <3>1. AfterChannels(h) \in {"spawn", "cancel"}
      BY DEF AfterChannels
    <3>2. PICK bad : NextChannel(h, "config", AfterChannels(h), bad)
      BY <1>5 DEF RestartUnit
    <3>3. Alone(h) /\ Keeps(h) /\ pc'[h] \in {"config", "spawn", "cancel"}
      BY <1>0, <1>a, <3>1, <3>2, NextChannelEffect DEF Typed
    <3>4. \A c \in Channels : unit'[c] \in {unit[c], None} \/ c \in armed
      BY <1>5, <1>0 DEF RestartUnit, Started, Typed, TypeOK
    <3>5. QED
      BY <1>5, <3>3, <3>4 DEF RestartUnit
  <2>2. Places'
    BY <1>0, <1>a, <2>1
      DEF Inv, Routines, Places, Starting, Chan, Alone, Keeps, timer, logger
  <2>3. TimerObjects'
    BY <1>a, <2>1, TimerObjectsKept DEF Inv, timer
  <2>4. RunningArmed'
    BY <1>0, <1>a, <2>1
      DEF Inv, Coverage, RunningArmed, Chan, Alone, Keeps, timer, logger, TypeOK, Channels
  <2>5. TimerArmed'
    BY <1>a, <2>1, TimerArmedKept DEF Inv, timer
  <2>6. ArmedCovered' /\ SamplerCovered'
    <3>1. WillSchedule(h)'
      BY <1>a, <2>1 DEF Inv, Routines, Places, Keeps, WillSchedule, Starting
    <3>2. QED
      BY <1>a, <3>1, StartCovers
  <2>7. SamplerHeld'
    BY <1>a, <2>1, SamplerHeldKept DEF Inv
  <2>8. QED
    BY <1>0, <2>2, <2>3, <2>4, <2>5, <2>6, <2>7 DEF Inv, Routines, Coverage
<1>6. ASSUME NEW h \in Handlers, SpawnSampler(h) PROVE Inv'
  <2>1. /\ pc[h] = "spawn" /\ pc'[h] \in {"register", "cancel"}
        /\ Alone(h) /\ Keeps(h)
        /\ UNCHANGED <<timer, currentLogger, dut>>
    BY <1>6, <1>0, <1>a
      DEF SpawnSampler, TypeOK, Alone, Keeps, GoTo, Locals, timer, logger, dut
  <2>2. Places'
    BY <1>0, <1>a, <2>1
      DEF Inv, Routines, Places, Starting, Chan, Alone, Keeps, timer, dut
  <2>3. TimerObjects'
    BY <1>a, <2>1, TimerObjectsKept DEF Inv, timer
  <2>4. RunningArmed'
    BY <1>a, <2>1, RunningKept DEF Inv, dut
  <2>5. TimerArmed'
    BY <1>a, <2>1, TimerArmedKept DEF Inv, timer
  <2>6. ArmedCovered' /\ SamplerCovered'
    <3>1. WillSchedule(h)'
      BY <1>a, <2>1 DEF Inv, Routines, Places, Keeps, WillSchedule, Starting
    <3>2. QED
      BY <1>a, <3>1, StartCovers
  <2>7. SamplerHeld'
    BY <1>a, <2>1, SamplerHeldKept DEF Inv
  <2>8. QED
    BY <1>0, <2>2, <2>3, <2>4, <2>5, <2>6, <2>7 DEF Inv, Routines, Coverage
<1>7. ASSUME NEW h \in Handlers, RegisterSampler(h) PROVE Inv'
  <2>1. /\ pc[h] = "register" /\ pc'[h] = "cancel"
        /\ Alone(h) /\ Keeps(h)
        /\ UNCHANGED <<timer, dut>>
    BY <1>7, <1>0, <1>a
      DEF RegisterSampler, TypeOK, Alone, Keeps, GoTo, Locals, timer, logger, dut
  <2>2. Places'
    BY <1>0, <1>a, <2>1
      DEF Inv, Routines, Places, Starting, Chan, Alone, Keeps, timer, dut
  <2>3. TimerObjects'
    BY <1>a, <2>1, TimerObjectsKept DEF Inv, timer
  <2>4. RunningArmed'
    BY <1>a, <2>1, RunningKept DEF Inv, dut
  <2>5. TimerArmed'
    BY <1>a, <2>1, TimerArmedKept DEF Inv, timer
  <2>6. ArmedCovered' /\ SamplerCovered'
    <3>1. WillSchedule(h)'
      BY <1>a, <2>1 DEF Inv, Routines, Places, Keeps, WillSchedule, Starting
    <3>2. QED
      BY <1>a, <3>1, StartCovers
  <2>7. SamplerHeld'
    BY <1>a, <2>1, SamplerHeldKept DEF Inv
  <2>8. QED
    BY <1>0, <2>2, <2>3, <2>4, <2>5, <2>6, <2>7 DEF Inv, Routines, Coverage
<1>8. ASSUME NEW h \in Handlers, PopTimer(h) PROVE Inv'
  <2>1. /\ pc[h] = "cancel"
        /\ Alone(h) /\ Keeps(h) /\ local'[h].ch = Chan(h)
        /\ local'[h].timer = autoTimer /\ autoTimer' = None /\ autoRun' = None
        /\ pc'[h] = IF autoTimer # None THEN "revoke" ELSE AfterCancel(h)
        /\ UNCHANGED <<logger, dut>>
    BY <1>8, <1>0, <1>a
      DEF PopTimer, TypeOK, Alone, Keeps, GoTo, Locals, Chan, timer, logger, dut
  <2>2. Places'
    BY <1>0, <1>a, <2>1
      DEF Inv, Routines, Places, Starting, Chan, Alone, Keeps, timer, logger, dut,
          AfterCancel
  <2>3. TimerObjects'
    BY <1>0, <1>a, <2>1
      DEF Inv, Routines, TimerObjects, Alone, Keeps, timer, logger, dut, AfterCancel,
          TypeOK
  <2>4. RunningArmed'
    BY <1>a, <2>1, RunningKept DEF Inv, dut
  <2>5. TimerArmed'
    BY <1>0, <1>a, <2>1
      DEF Inv, Coverage, TimerArmed, Alone, Keeps, timer, logger, dut, AfterCancel, TypeOK
  <2>6. ArmedCovered'
    <3> SUFFICES ASSUME NEW c \in armed', c \notin excused', autoTimer' = None
                 PROVE  \E x \in Threads : WillSchedule(x)' \/ WillDisarm(x, c)'
      BY DEF ArmedCovered
    <3>1. \A x \in Threads \ {h} :
            (WillSchedule(x)' <=> WillSchedule(x)) /\ (WillDisarm(x, c)' <=> WillDisarm(x, c))
      BY <1>a, <2>1, OthersCover
    <3>2. (WillSchedule(h) \/ autoTimer # None => WillSchedule(h)' \/ WillDisarm(h, c)')
      BY <1>0, <1>a, <2>1
        DEF Inv, Routines, Places, Keeps, WillSchedule, WillDisarm, Starting, Chan,
            AfterCancel, dut, Channels, TypeOK
    <3>3. ~WillDisarm(h, c)
      BY <2>1 DEF WillDisarm
    <3>4. QED
      BY <1>a, <2>1, <3>1, <3>2, <3>3 DEF Inv, Coverage, ArmedCovered, dut
  <2>7. SamplerCovered'
    <3> SUFFICES ASSUME currentLogger # None
                 PROVE  \E x \in Threads :
                          \/ WillSchedule(x)'
                          \/ ~Starting(x)' /\ pc'[x] \in {"revoke", "disarm", "stop", "pop"}
      BY <2>1 DEF SamplerCovered, logger
    <3>1. WillSchedule(h)' \/ (~Starting(h)' /\ pc'[h] \in {"revoke", "disarm"})
      BY <2>1 DEF Keeps, WillSchedule, Starting, AfterCancel
    <3>2. QED
      BY <1>a, <3>1
  <2>8. SamplerHeld'
    BY <1>a, <2>1, SamplerHeldKept DEF Inv, AfterCancel
  <2>9. QED
    BY <1>0, <2>2, <2>3, <2>4, <2>5, <2>6, <2>7, <2>8 DEF Inv, Routines, Coverage
<1>9. ASSUME NEW h \in Handlers, RevokeTimer(h) PROVE Inv'
  <2>0. PICK t \in Timers : t = local[h].timer
    BY <1>9 DEF RevokeTimer, Inv, Routines, TimerObjects
  <2>1. /\ pc[h] = "revoke" /\ h \in Threads
        /\ t = local[h].timer /\ t # h /\ t # autoTimer
    BY <1>a, <2>0, <1>9 DEF RevokeTimer, Inv, Routines, TimerObjects
  <2>2. /\ \A x \in Threads \ {h, t} : pc'[x] = pc[x] /\ local'[x] = local[x]
        /\ pc'[h] = AfterCancel(h) /\ Keeps(h) /\ local'[h].ch = Chan(h)
        /\ local'[h].timer = None /\ local'[h].sampler = local[h].sampler
        /\ \/ pc[t] = "new" /\ pc'[t] = "revoked" /\ local'[t] = local[t]
           \/ pc[t] = "pending" /\ pc'[t] = "idle" /\ local'[t] = Rest
           \/ pc[t] \notin {"new", "pending"} /\ pc'[t] = pc[t] /\ local'[t] = local[t]
        /\ UNCHANGED <<timer, logger, dut>>
    <3>1. local' = [local EXCEPT ![h] = [local[h] EXCEPT !.timer = None],
                                 ![t] = IF pc[t] = "pending" THEN Rest ELSE local[t]]
      BY <1>9, <2>1 DEF RevokeTimer
    <3>2. local[h] \in Locals /\ local'[h] = [local[h] EXCEPT !.timer = None]
      BY <1>0, <1>a, <2>1, <3>1 DEF Typed, TypeOK
    <3>3. /\ Keeps(h) /\ local'[h].ch = Chan(h)
          /\ local'[h].timer = None /\ local'[h].sampler = local[h].sampler
      BY <3>2 DEF Keeps, Chan, Locals
    <3>4. QED
      BY <1>9, <1>0, <1>a, <2>1, <3>1, <3>3 DEF RevokeTimer, Typed, TypeOK
  <2>3. Places'
    BY <1>0, <1>a, <2>1, <2>2
      DEF Inv, Routines, Coverage, Keeps, TypeOK, Places, Starting, Chan, Threads, Held,
          Rest, StartCommands, timer, logger, dut, AfterCancel, Channels
  <2>4. TimerObjects'
    BY <1>0, <1>a, <2>1, <2>2
      DEF Inv, Routines, Coverage, Keeps, TypeOK, TimerObjects, Threads, Held, Rest,
          StartCommands, timer, logger, dut, AfterCancel, Channels
  <2>5. RunningArmed'
    BY <1>0, <1>a, <2>1, <2>2
      DEF Inv, Routines, Coverage, Keeps, TypeOK, RunningArmed, Chan, Threads, Held, Rest,
          StartCommands, timer, logger, dut, AfterCancel, Channels
  <2>6. TimerArmed'
    BY <1>0, <1>a, <2>1, <2>2
      DEF Inv, Routines, Coverage, Keeps, TypeOK, TimerArmed, Threads, Held, Rest,
          StartCommands, timer, logger, dut, AfterCancel, Channels
  <2>7. ArmedCovered'
    <3> SUFFICES ASSUME NEW c \in armed', c \notin excused', autoTimer' = None
                 PROVE  \E x \in Threads : WillSchedule(x)' \/ WillDisarm(x, c)'
      BY DEF ArmedCovered
    <3>1. \A x \in Threads \ {h, t} :
            (WillSchedule(x)' <=> WillSchedule(x)) /\ (WillDisarm(x, c)' <=> WillDisarm(x, c))
      BY <2>2 DEF WillSchedule, WillDisarm, Starting, Chan
    <3>2. \/ pc[t] \in {"new", "pending"}
          \/ pc'[t] = pc[t] /\ local'[t] = local[t]
      BY <2>2
    <3>3. /\ WillSchedule(h) => WillSchedule(h)'
          /\ WillDisarm(h, c) => WillDisarm(h, c)'
      BY <2>1, <2>2 DEF WillSchedule, WillDisarm, Keeps, AfterCancel, Starting, Chan
    <3>4. (WillSchedule(t) => WillSchedule(t)') /\ (WillDisarm(t, c) => WillDisarm(t, c)')
      BY <3>2 DEF WillSchedule, WillDisarm, Starting, Chan
    <3>5. QED
      BY <1>a, <2>1, <2>2, <3>1, <3>3, <3>4 DEF Inv, Coverage, ArmedCovered, timer, dut
  <2>8. SamplerCovered'
    BY <1>0, <1>a, <2>1, <2>2
      DEF Inv, Routines, Coverage, Keeps, TypeOK, SamplerCovered, WillSchedule, Starting,
          Threads, Held, Rest, StartCommands, timer, logger, dut, AfterCancel, Channels
  <2>9. SamplerHeld'
    BY <1>0, <1>a, <2>1, <2>2
      DEF Inv, Routines, Coverage, Keeps, TypeOK, SamplerHeld, Threads, Held, Rest,
          StartCommands, timer, logger, dut, AfterCancel, Channels
  <2>10. QED
    BY <1>0, <2>3, <2>4, <2>5, <2>6, <2>7, <2>8, <2>9 DEF Inv, Routines, Coverage
<1>10. ASSUME NEW h \in Handlers, Schedule(h) PROVE Inv'
  <2>1. PICK t \in Timers :
          /\ pc[h] = "schedule" /\ pc[t] = "idle" /\ ~Held(t)
          /\ pc' = [pc EXCEPT ![h] = "launch", ![t] = "new"]
          /\ local' = [local EXCEPT ![h] = [local[h] EXCEPT !.timer = t],
                                    ![t] = [Rest EXCEPT !.run = local[h].run]]
          /\ autoTimer' = t /\ autoRun' = local[h].run
          /\ UNCHANGED <<logger, dut>>
    BY <1>10 DEF Schedule
  <2>2. /\ \A x \in Threads \ {h, t} : pc'[x] = pc[x] /\ local'[x] = local[x]
        /\ pc'[h] = "launch" /\ Keeps(h) /\ local'[h].ch = Chan(h)
        /\ local'[h].timer = t /\ local'[h].sampler = local[h].sampler
        /\ pc'[t] = "new" /\ local'[t].cmd = "auto_stop" /\ local'[t].ch = 1
        /\ local'[t].run = autoRun'
        /\ h \in Threads /\ t # h /\ t # None
    <3>1. h \in Threads /\ t # h /\ t # None
      BY <1>a, <2>1
    <3>2. local[h] \in Locals /\ local'[h] = [local[h] EXCEPT !.timer = t]
      BY <1>0, <1>a, <2>1, <3>1 DEF Typed, TypeOK
    <3>3. /\ Keeps(h) /\ local'[h].ch = Chan(h)
          /\ local'[h].timer = t /\ local'[h].sampler = local[h].sampler
      BY <3>2 DEF Keeps, Chan, Locals
    <3>4. local'[t] = [Rest EXCEPT !.run = local[h].run]
      BY <1>0, <1>a, <2>1, <3>1 DEF Typed, TypeOK
    <3>5. local'[t].cmd = "auto_stop" /\ local'[t].ch = 1 /\ local'[t].run = autoRun'
      BY <2>1, <3>4 DEF Rest
    <3>6. QED
      BY <1>0, <1>a, <2>1, <3>1, <3>3, <3>5 DEF Typed, TypeOK
  <2>3. Places'
    <3>1. Starting(h)'
      BY <1>a, <2>1, <2>2 DEF Inv, Routines, Places, Keeps, Starting
    <3>2. QED
      BY <1>a, <2>2, <3>1 DEF Inv, Routines, Places, Starting, Chan, StartCommands
  <2>4. TimerObjects'
    <3>1. \A g \in Handlers \ {h} :
            /\ pc'[g] = pc[g] /\ local'[g].timer = local[g].timer /\ local[g].timer # t
            /\ g \in Threads
      BY <1>a, <2>1, <2>2 DEF Held
    <3>2. \A x \in Timers \ {t} : pc'[x] = pc[x]
      BY <1>a, <2>2
    <3>3. autoTimer' = t /\ pc'[t] = "new" /\ local'[h].timer = t /\ pc'[h] = "launch"
      BY <2>1, <2>2
    <3>4. QED
      BY <3>1, <3>2, <3>3 DEF Inv, Routines, TimerObjects
  <2>5. RunningArmed'
    BY <1>0, <1>a, <2>1, <2>2
      DEF Inv, Routines, Coverage, Keeps, TypeOK, RunningArmed, Chan, Threads, Held, Rest,
          StartCommands, timer, logger, dut, AfterCancel, Channels
  <2>6. TimerArmed'
    BY <1>0, <1>a, <2>1, <2>2
      DEF Inv, Routines, Coverage, Keeps, TypeOK, TimerArmed, Threads, Held, Rest,
          StartCommands, timer, logger, dut, AfterCancel, Channels
  <2>7. ArmedCovered'
    BY <1>0, <1>a, <2>1, <2>2
      DEF Inv, Routines, Coverage, Keeps, TypeOK, ArmedCovered, WillSchedule, WillDisarm,
          Starting, Chan, Threads, Held, Rest, StartCommands, timer, logger, dut,
          AfterCancel, Channels
  <2>8. SamplerCovered'
    BY <1>0, <1>a, <2>1, <2>2
      DEF Inv, Routines, Coverage, Keeps, TypeOK, SamplerCovered, WillSchedule, Starting,
          Threads, Held, Rest, StartCommands, timer, logger, dut, AfterCancel, Channels
  <2>9. SamplerHeld'
    BY <1>0, <1>a, <2>1, <2>2
      DEF Inv, Routines, Coverage, Keeps, TypeOK, SamplerHeld, Threads, Held, Rest,
          StartCommands, timer, logger, dut, AfterCancel, Channels
  <2>10. QED
    BY <1>0, <2>3, <2>4, <2>5, <2>6, <2>7, <2>8, <2>9 DEF Inv, Routines, Coverage
<1>11. ASSUME NEW h \in Handlers, LaunchTimer(h) PROVE Inv'
  <2>0. PICK t \in Timers : t = local[h].timer
    BY <1>11 DEF LaunchTimer, Inv, Routines, TimerObjects
  <2>1. /\ pc[h] = "launch" /\ h \in Threads
        /\ t = local[h].timer /\ t # h /\ pc[t] \in {"new", "revoked"}
    BY <1>a, <2>0, <1>11 DEF LaunchTimer, Inv, Routines, TimerObjects
  <2>2. /\ \A x \in Threads \ {h, t} : pc'[x] = pc[x] /\ local'[x] = local[x]
        /\ pc'[h] = "finish" /\ Keeps(h) /\ local'[h].ch = Chan(h)
        /\ local'[h].timer = None /\ local'[h].sampler = local[h].sampler
        /\ \/ pc[t] = "new" /\ pc'[t] = "pending" /\ local'[t] = local[t]
           \/ pc[t] = "revoked" /\ pc'[t] = "idle" /\ local'[t] = Rest
        /\ UNCHANGED <<timer, logger, dut>>
    <3>1. local' = [local EXCEPT ![h] = [local[h] EXCEPT !.timer = None],
                                 ![t] = IF pc[t] = "new" THEN local[t] ELSE Rest]
      BY <1>11, <2>1 DEF LaunchTimer
    <3>2. local[h] \in Locals /\ local'[h] = [local[h] EXCEPT !.timer = None]
      BY <1>0, <1>a, <2>1, <3>1 DEF Typed, TypeOK
    <3>3. /\ Keeps(h) /\ local'[h].ch = Chan(h)
          /\ local'[h].timer = None /\ local'[h].sampler = local[h].sampler
      BY <3>2 DEF Keeps, Chan, Locals
    <3>4. QED
      BY <1>11, <1>0, <1>a, <2>1, <3>1, <3>3 DEF LaunchTimer, Typed, TypeOK
  <2>3. Places'
    BY SMTT(60), <1>0, <1>a, <2>1, <2>2
      DEF Inv, Routines, Coverage, Keeps, TypeOK, Places, Starting, Chan, Threads, Held,
          Rest, StartCommands, timer, logger, dut, AfterCancel, Channels
  <2>4. TimerObjects'
    BY <1>0, <1>a, <2>1, <2>2
      DEF Inv, Routines, Coverage, Keeps, TypeOK, TimerObjects, Threads, Held, Rest,
          StartCommands, timer, logger, dut, AfterCancel, Channels
  <2>5. RunningArmed'
    BY <1>0, <1>a, <2>1, <2>2
      DEF Inv, Routines, Coverage, Keeps, TypeOK, RunningArmed, Chan, Threads, Held, Rest,
          StartCommands, timer, logger, dut, AfterCancel, Channels
  <2>6. TimerArmed'
    BY <1>0, <1>a, <2>1, <2>2
      DEF Inv, Routines, Coverage, Keeps, TypeOK, TimerArmed, Threads, Held, Rest,
          StartCommands, timer, logger, dut, AfterCancel, Channels
  <2>7. ArmedCovered'
    BY <1>0, <1>a, <2>1, <2>2
      DEF Inv, Routines, Coverage, Keeps, TypeOK, ArmedCovered, WillSchedule, WillDisarm,
          Starting, Chan, Threads, Held, Rest, StartCommands, timer, logger, dut,
          AfterCancel, Channels
  <2>8. SamplerCovered'
    BY <1>0, <1>a, <2>1, <2>2
      DEF Inv, Routines, Coverage, Keeps, TypeOK, SamplerCovered, WillSchedule, Starting,
          Threads, Held, Rest, StartCommands, timer, logger, dut, AfterCancel, Channels
  <2>9. SamplerHeld'
    BY <1>0, <1>a, <2>1, <2>2
      DEF Inv, Routines, Coverage, Keeps, TypeOK, SamplerHeld, Threads, Held, Rest,
          StartCommands, timer, logger, dut, AfterCancel, Channels
  <2>10. QED
    BY <1>0, <2>3, <2>4, <2>5, <2>6, <2>7, <2>8, <2>9 DEF Inv, Routines, Coverage
<1>12. ASSUME NEW h \in Handlers, Finish(h) PROVE Inv'
  <2>1. /\ pc[h] = "finish" /\ pc'[h] = "idle"
        /\ Alone(h) /\ local'[h] = Rest
        /\ UNCHANGED <<timer, logger, dut>>
    BY <1>12, <1>0, <1>a DEF Finish, TypeOK, Alone, GoTo, timer, logger, dut
  <2>2. Places'
    BY <1>0, <1>a, <2>1
      DEF Inv, Routines, Places, Starting, Chan, Alone, Rest, StartCommands, timer,
          logger, dut
  <2>3. TimerObjects'
    BY <1>a, <2>1, TimerObjectsKept DEF Inv, timer
  <2>4. RunningArmed'
    BY <1>a, <2>1, RunningKept DEF Inv, dut
  <2>5. TimerArmed'
    BY <1>a, <2>1, TimerArmedKept DEF Inv, timer
  <2>6. ArmedCovered' /\ SamplerCovered'
    BY <1>a, <2>1, CoverKept DEF Inv, timer, logger, dut
  <2>7. SamplerHeld'
    BY <1>a, <2>1, SamplerHeldKept DEF Inv
  <2>8. QED
    BY <1>0, <2>2, <2>3, <2>4, <2>5, <2>6, <2>7 DEF Inv, Routines, Coverage
<1>13. ASSUME NEW th \in Threads, PopSampler(th) PROVE Inv'
  <2>1. /\ pc[th] = "pop" /\ pc'[th] \in {"replay", "reap"}
        /\ Alone(th) /\ Keeps(th) /\ local'[th].ch = Chan(th)
        /\ currentLogger' = None /\ local'[th].sampler = currentLogger
        /\ pc'[th] = "reap" => currentLogger # None
        /\ UNCHANGED <<timer, dut>>
    BY <1>13, <1>0, <1>a
      DEF PopSampler, TypeOK, Alone, Keeps, GoTo, Chan, Locals, timer, logger, dut
  <2>2. Places'
    BY <1>0, <1>a, <2>1
      DEF Inv, Routines, Places, Starting, Chan, Alone, Keeps, timer, dut
  <2>3. TimerObjects'
    BY <1>a, <2>1, TimerObjectsKept DEF Inv, timer
  <2>4. RunningArmed'
    BY <1>a, <2>1, RunningKept DEF Inv, dut
  <2>5. TimerArmed'
    BY <1>a, <2>1, TimerArmedKept DEF Inv, timer
  <2>6. ArmedCovered'
    BY <1>a, <2>1, CoverKept DEF Inv, timer, logger, dut
  <2>7. SamplerCovered'
    BY <1>0, <1>a, <2>1
      DEF Inv, Coverage, SamplerCovered, WillSchedule, Starting, Alone, Keeps, timer, dut
  <2>8. SamplerHeld'
    BY <1>0, <1>a, <2>1 DEF Inv, SamplerHeld, Alone, Keeps, timer, dut, TypeOK
  <2>9. QED
    BY <1>0, <2>2, <2>3, <2>4, <2>5, <2>6, <2>7, <2>8 DEF Inv, Routines, Coverage
<1>14. ASSUME NEW th \in Threads, ReplayBaseline(th) PROVE Inv'
  <2>1. /\ pc[th] = "replay" /\ pc'[th] \in {AfterSampler(th)}
        /\ Alone(th) /\ Keeps(th) /\ local'[th].ch = Chan(th)
        /\ UNCHANGED currentLogger
        /\ UNCHANGED <<timer, dut>>
    BY <1>14, <1>0, <1>a
      DEF ReplayBaseline, TypeOK, Alone, Keeps, GoTo, Chan, Locals, timer, logger, dut
  <2>2. Places'
    BY <1>0, <1>a, <2>1
      DEF Inv, Routines, Places, Starting, Chan, Alone, Keeps, timer, dut, AfterSampler
  <2>3. TimerObjects'
    BY <1>a, <2>1, TimerObjectsKept DEF Inv, timer, AfterSampler
  <2>4. RunningArmed'
    BY <1>a, <2>1, RunningKept DEF Inv, dut
  <2>5. TimerArmed'
    BY <1>a, <2>1, TimerArmedKept DEF Inv, timer
  <2>6. ArmedCovered' /\ SamplerCovered'
    BY <1>a, <2>1, CoverKept DEF Inv, timer, logger, dut
  <2>7. SamplerHeld'
    BY <1>a, <2>1, SamplerHeldKept DEF Inv, AfterSampler
  <2>8. QED
    BY <1>0, <2>2, <2>3, <2>4, <2>5, <2>6, <2>7 DEF Inv, Routines, Coverage
<1>15. ASSUME NEW th \in Threads, ReapSampler(th) PROVE Inv'
  <2>1. /\ pc[th] = "reap" /\ pc'[th] \in {"record"}
        /\ Alone(th) /\ Keeps(th) /\ local'[th].ch = Chan(th)
        /\ UNCHANGED currentLogger
        /\ UNCHANGED <<timer, dut>>
    BY <1>15, <1>0, <1>a
      DEF ReapSampler, TypeOK, Alone, Keeps, GoTo, Chan, Locals, timer, logger, dut
  <2>2. Places'
    BY <1>0, <1>a, <2>1
      DEF Inv, Routines, Places, Starting, Chan, Alone, Keeps, timer, dut
  <2>3. TimerObjects'
    BY <1>a, <2>1, TimerObjectsKept DEF Inv, timer
  <2>4. RunningArmed'
    BY <1>a, <2>1, RunningKept DEF Inv, dut
  <2>5. TimerArmed'
    BY <1>a, <2>1, TimerArmedKept DEF Inv, timer
  <2>6. ArmedCovered' /\ SamplerCovered'
    BY <1>a, <2>1, CoverKept DEF Inv, timer, logger, dut
  <2>7. SamplerHeld'
    BY <1>a, <2>1, SamplerHeldKept DEF Inv
  <2>8. QED
    BY <1>0, <2>2, <2>3, <2>4, <2>5, <2>6, <2>7 DEF Inv, Routines, Coverage
<1>16. ASSUME NEW th \in Threads, RecordBaseline(th) PROVE Inv'
  <2>1. /\ pc[th] = "record" /\ pc'[th] \in {AfterSampler(th)}
        /\ Alone(th) /\ Keeps(th) /\ local'[th].ch = Chan(th)
        /\ UNCHANGED currentLogger
        /\ UNCHANGED <<timer, dut>>
    BY <1>16, <1>0, <1>a
      DEF RecordBaseline, TypeOK, Alone, Keeps, GoTo, Chan, Locals, timer, logger, dut
  <2>2. Places'
    BY <1>0, <1>a, <2>1
      DEF Inv, Routines, Places, Starting, Chan, Alone, Keeps, timer, dut, AfterSampler
  <2>3. TimerObjects'
    BY <1>a, <2>1, TimerObjectsKept DEF Inv, timer, AfterSampler
  <2>4. RunningArmed'
    BY <1>a, <2>1, RunningKept DEF Inv, dut
  <2>5. TimerArmed'
    BY <1>a, <2>1, TimerArmedKept DEF Inv, timer
  <2>6. ArmedCovered' /\ SamplerCovered'
    BY <1>a, <2>1, CoverKept DEF Inv, timer, logger, dut
  <2>7. SamplerHeld'
    BY <1>a, <2>1, SamplerHeldKept DEF Inv, AfterSampler
  <2>8. QED
    BY <1>0, <2>2, <2>3, <2>4, <2>5, <2>6, <2>7 DEF Inv, Routines, Coverage
<1>17. ASSUME NEW th \in Threads, Disarm(th) PROVE Inv'
  <2>1. /\ pc[th] = "disarm" /\ pc'[th] = "stop"
        /\ Alone(th) /\ local' = local
        /\ \/ armed' = armed \ {Chan(th)} /\ excused' = excused
           \/ armed' = armed /\ excused' = excused \cup {Chan(th)}
        /\ UNCHANGED <<timer, logger, unit>>
    BY <1>17, <1>0, <1>a DEF Disarm, TypeOK, Alone, GoTo, timer, logger, dut
  <2>2. Places'
    BY <1>0, <1>a, <2>1 DEF Inv, Routines, Places, Starting, Chan, Alone, timer, logger
  <2>3. TimerObjects'
    BY <1>a, <2>1, TimerObjectsKept DEF Inv, timer
  <2>4. RunningArmed'
    BY <1>0, <1>a, <2>1
      DEF Inv, Coverage, RunningArmed, Chan, Alone, timer, logger, TypeOK, Channels
  <2>5. TimerArmed'
    BY <1>a, <2>1, TimerArmedKept DEF Inv, timer
  <2>6. ArmedCovered'
    <3> SUFFICES ASSUME NEW c \in armed', c \notin excused', autoTimer' = None
                 PROVE  \E x \in Threads : WillSchedule(x)' \/ WillDisarm(x, c)'
      BY DEF ArmedCovered
    <3>1. \A x \in Threads \ {th} :
            (WillSchedule(x)' <=> WillSchedule(x)) /\ (WillDisarm(x, c)' <=> WillDisarm(x, c))
      BY <1>a, <2>1, OthersCover
    <3>0. Chan(th) \in 1..NumChannels /\ c \in 1..NumChannels /\ NumChannels \in Nat
      BY <1>0, <1>a, LocalsFields, NumChannelsAssumption DEF Typed, TypeOK, Channels, Chan
    <3>2. /\ ~WillSchedule(th)
          /\ WillDisarm(th, c) => WillDisarm(th, c)' \/ c = Chan(th)
      BY <1>0, <1>a, <2>1, <3>0
        DEF Inv, Routines, Places, Keeps, WillSchedule, WillDisarm, Starting, Chan, dut
    <3>3. c \in armed /\ (c \in excused => FALSE) /\ autoTimer = None
      BY <1>0, <1>a, <2>1 DEF timer
    <3>4. ~(c = Chan(th) /\ WillDisarm(th, c) /\ ~WillDisarm(th, c)')
      BY <1>0, <1>a, <2>1, <3>0 DEF WillDisarm, Chan
    <3>5. QED
      BY <1>a, <3>1, <3>2, <3>3, <3>4 DEF Inv, Coverage, ArmedCovered
  <2>7. SamplerCovered'
    BY <1>0, <1>a, <2>1
      DEF Inv, Coverage, SamplerCovered, WillSchedule, Starting, Alone, timer, logger
  <2>8. SamplerHeld'
    BY <1>a, <2>1, SamplerHeldKept DEF Inv
  <2>9. QED
    BY <1>0, <2>2, <2>3, <2>4, <2>5, <2>6, <2>7, <2>8 DEF Inv, Routines, Coverage
<1>18. ASSUME NEW th \in Threads, StopUnit(th) PROVE Inv'
  <2>1. /\ pc[th] = "stop"
        /\ Alone(th) /\ Keeps(th)
        /\ \/ Chan(th) < NumChannels /\ pc'[th] = "disarm" /\ local'[th].ch = Chan(th) + 1
           \/ Chan(th) = NumChannels /\ pc'[th] = "pop" /\ local'[th].ch = Chan(th)
        /\ unit' = [unit EXCEPT ![Chan(th)] = None]
        /\ excused' = IF Chan(th) \in armed THEN excused ELSE excused \ {Chan(th)}
        /\ UNCHANGED <<timer, logger, armed>>
    <3>1. NextChannel(th, "disarm", "pop", {})
      BY <1>18 DEF StopUnit
    <3>2. QED
      BY <1>18, <1>0, <3>1, NextChannelEffect DEF StopUnit, Typed
  <2>2. Places'
    BY <1>0, <1>a, <2>1
      DEF Inv, Routines, Places, Starting, Chan, Alone, Keeps, timer, logger
  <2>3. TimerObjects'
    BY <1>a, <2>1, TimerObjectsKept DEF Inv, timer
  <2>4. RunningArmed'
    BY <1>0, <1>a, <2>1
      DEF Inv, Coverage, RunningArmed, Chan, Alone, Keeps, timer, logger, TypeOK, Channels
  <2>5. TimerArmed'
    BY <1>a, <2>1, TimerArmedKept DEF Inv, timer
  <2>6. ArmedCovered'
    <3> SUFFICES ASSUME NEW c \in armed', c \notin excused', autoTimer' = None
                 PROVE  \E x \in Threads : WillSchedule(x)' \/ WillDisarm(x, c)'
      BY DEF ArmedCovered
    <3>1. \A x \in Threads \ {th} :
            (WillSchedule(x)' <=> WillSchedule(x)) /\ (WillDisarm(x, c)' <=> WillDisarm(x, c))
      BY <1>a, <2>1, OthersCover
    <3>0. Chan(th) \in 1..NumChannels /\ c \in 1..NumChannels /\ NumChannels \in Nat
      BY <1>0, <1>a, LocalsFields, NumChannelsAssumption DEF Typed, TypeOK, Channels, Chan
    <3>2. /\ ~WillSchedule(th)
          /\ WillDisarm(th, c) => WillDisarm(th, c)' \/ c = Chan(th)
      BY <1>0, <1>a, <2>1, <3>0
        DEF Inv, Routines, Places, Keeps, WillSchedule, WillDisarm, Starting, Chan, dut
    <3>3. c \in armed /\ (c \in excused => FALSE) /\ autoTimer = None
      BY <1>0, <1>a, <2>1 DEF timer
    <3>4. ~(c = Chan(th) /\ WillDisarm(th, c) /\ ~WillDisarm(th, c)')
      BY <1>0, <1>a, <2>1, <3>0 DEF WillDisarm, Chan
    <3>5. QED
      BY <1>a, <3>1, <3>2, <3>3, <3>4 DEF Inv, Coverage, ArmedCovered
  <2>7. SamplerCovered'
    BY <1>0, <1>a, <2>1
      DEF Inv, Coverage, SamplerCovered, WillSchedule, Starting, Alone, Keeps, timer,
          logger
  <2>8. SamplerHeld'
    BY <1>a, <2>1, SamplerHeldKept DEF Inv
  <2>9. QED
    BY <1>0, <2>2, <2>3, <2>4, <2>5, <2>6, <2>7, <2>8 DEF Inv, Routines, Coverage
<1>19. ASSUME NEW th \in Threads, StopFails(th) PROVE Inv'
  <2>1. /\ pc[th] = "stop"
        /\ Alone(th) /\ Keeps(th)
        /\ \/ /\ pc'[th] = "stop" /\ local'[th].ch = Chan(th) /\ excused' = excused
           \/ /\ excused' = excused \cup {Chan(th)}
              /\ \/ Chan(th) < NumChannels /\ pc'[th] = "disarm" /\ local'[th].ch = Chan(th) + 1
                 \/ Chan(th) = NumChannels /\ pc'[th] = "pop" /\ local'[th].ch = Chan(th)
        /\ \A c \in Channels : unit'[c] \in {unit[c], None}
        /\ UNCHANGED <<timer, logger, armed>>
    <3>1. CASE local[th].tries < 2
      <4>1. local' = [local EXCEPT ![th] = [local[th] EXCEPT !.tries = local[th].tries + 1]]
        BY <1>19, <3>1 DEF StopFails
      <4>2. local[th] \in Locals
        BY <1>0 DEF Typed, TypeOK
      <4>3. local'[th] = [local[th] EXCEPT !.tries = local[th].tries + 1]
        BY <1>0, <4>1 DEF Typed, TypeOK
      <4>4. Keeps(th) /\ local'[th].ch = Chan(th)
        BY <4>2, <4>3 DEF Keeps, Chan, Locals
      <4>5. Alone(th)
        BY <1>19, <1>0, <3>1, <4>1 DEF StopFails, Alone, Typed, TypeOK
      <4>6. QED
        BY <1>19, <1>0, <3>1, <4>4, <4>5 DEF StopFails, Typed, TypeOK
    <3>2. CASE ~(local[th].tries < 2)
      <4>1. NextChannel(th, "disarm", "pop", {Chan(th)})
        BY <1>19, <3>2 DEF StopFails
      <4>2. QED
        BY <1>19, <1>0, <3>2, <4>1, NextChannelEffect DEF StopFails, Typed, TypeOK
    <3>3. QED
      BY <3>1, <3>2
  <2>2. Places'
    BY <1>0, <1>a, <2>1
      DEF Inv, Routines, Places, Starting, Chan, Alone, Keeps, timer, logger
  <2>3. TimerObjects'
    BY <1>a, <2>1, TimerObjectsKept DEF Inv, timer
  <2>4. RunningArmed'
    BY <1>0, <1>a, <2>1
      DEF Inv, Coverage, RunningArmed, Chan, Alone, Keeps, timer, logger, TypeOK, Channels
  <2>5. TimerArmed'
    BY <1>a, <2>1, TimerArmedKept DEF Inv, timer
  <2>6. ArmedCovered'
    <3> SUFFICES ASSUME NEW c \in armed', c \notin excused', autoTimer' = None
                 PROVE  \E x \in Threads : WillSchedule(x)' \/ WillDisarm(x, c)'
      BY DEF ArmedCovered
    <3>1. \A x \in Threads \ {th} :
            (WillSchedule(x)' <=> WillSchedule(x)) /\ (WillDisarm(x, c)' <=> WillDisarm(x, c))
      BY <1>a, <2>1, OthersCover
    <3>0. Chan(th) \in 1..NumChannels /\ c \in 1..NumChannels /\ NumChannels \in Nat
      BY <1>0, <1>a, LocalsFields, NumChannelsAssumption DEF Typed, TypeOK, Channels, Chan
    <3>2. /\ ~WillSchedule(th)
          /\ WillDisarm(th, c) => WillDisarm(th, c)' \/ c = Chan(th)
      BY <1>0, <1>a, <2>1, <3>0
        DEF Inv, Routines, Places, Keeps, WillSchedule, WillDisarm, Starting, Chan, dut
    <3>3. c \in armed /\ (c \in excused => FALSE) /\ autoTimer = None
      BY <1>0, <1>a, <2>1 DEF timer
    <3>4. ~(c = Chan(th) /\ WillDisarm(th, c) /\ ~WillDisarm(th, c)')
      BY <1>0, <1>a, <2>1, <3>0 DEF WillDisarm, Chan
    <3>5. QED
      BY <1>a, <3>1, <3>2, <3>3, <3>4 DEF Inv, Coverage, ArmedCovered
  <2>7. SamplerCovered'
    BY <1>0, <1>a, <2>1
      DEF Inv, Coverage, SamplerCovered, WillSchedule, Starting, Alone, Keeps, timer,
          logger
  <2>8. SamplerHeld'
    BY <1>a, <2>1, SamplerHeldKept DEF Inv
  <2>9. QED
    BY <1>0, <2>2, <2>3, <2>4, <2>5, <2>6, <2>7, <2>8 DEF Inv, Routines, Coverage
<1>20. ASSUME NEW t \in Timers, Fire(t) PROVE Inv'
  <2>1. /\ pc[t] = "pending" /\ pc'[t] = "guard"
        /\ Alone(t) /\ local' = local
        /\ UNCHANGED <<timer, logger, dut>>
    BY <1>20, <1>0, <1>a DEF Fire, TypeOK, Alone, GoTo, timer, logger, dut
  <2>2. Places'
    BY <1>0, <1>a, <2>1
      DEF Inv, Routines, Places, Starting, Chan, Alone, timer, logger, dut
  <2>3. TimerObjects'
    BY <1>a, <2>1, TimerObjectsKept DEF Inv, timer
  <2>4. RunningArmed'
    BY <1>a, <2>1, RunningKept DEF Inv, dut
  <2>5. TimerArmed'
    BY <1>0, <1>a, <2>1 DEF Inv, Coverage, TimerArmed, Alone, timer, logger, dut, TypeOK
  <2>6. ArmedCovered' /\ SamplerCovered'
    BY <1>a, <2>1, CoverKept DEF Inv, timer, logger, dut
  <2>7. SamplerHeld'
    BY <1>a, <2>1, SamplerHeldKept DEF Inv
  <2>8. QED
    BY <1>0, <2>2, <2>3, <2>4, <2>5, <2>6, <2>7 DEF Inv, Routines, Coverage
<1>21. ASSUME NEW t \in Timers, Guard(t) PROVE Inv'
  <2>1. /\ pc[t] = "guard"
        /\ Alone(t)
        /\ \/ /\ autoTimer' = None /\ autoRun' = None
              /\ pc'[t] = "disarm" /\ local' = local
           \/ /\ autoRun # local[t].run /\ UNCHANGED timer
              /\ pc'[t] = "idle" /\ local'[t] = Rest
        /\ UNCHANGED <<logger, dut>>
    BY <1>21, <1>0, <1>a DEF Guard, TypeOK, Alone, GoTo, timer, logger, dut
  <2>2. Places'
    BY <1>0, <1>a, <2>1
      DEF Inv, Routines, Places, Starting, Chan, Alone, Rest, StartCommands, timer,
          logger, dut
  <2>3. TimerObjects'
    BY <1>0, <1>a, <2>1
      DEF Inv, Routines, TimerObjects, Alone, Rest, StartCommands, timer, logger, dut,
          TypeOK
  <2>4. RunningArmed'
    BY <1>a, <2>1, RunningKept DEF Inv, dut
  <2>5. TimerArmed'
    BY <1>0, <1>a, <2>1
      DEF Inv, Coverage, TimerArmed, Alone, Rest, StartCommands, timer, logger, dut,
          TypeOK
  <2>6. ArmedCovered'
    <3> SUFFICES ASSUME NEW c \in armed', c \notin excused', autoTimer' = None
                 PROVE  \E x \in Threads : WillSchedule(x)' \/ WillDisarm(x, c)'
      BY DEF ArmedCovered
    <3>1. \A x \in Threads \ {t} :
            (WillSchedule(x)' <=> WillSchedule(x)) /\ (WillDisarm(x, c)' <=> WillDisarm(x, c))
      BY <1>a, <2>1, OthersCover
    <3>2. autoTimer # None => WillDisarm(t, c)'
      BY <1>0, <1>a, <2>1
        DEF Inv, Routines, Coverage, TimerArmed, Places, WillDisarm, Starting, Chan, dut,
            timer, Channels, TypeOK, StartCommands
    <3>3. ~WillSchedule(t) /\ ~WillDisarm(t, c)
      BY <2>1 DEF WillSchedule, WillDisarm
    <3>4. QED
      BY <1>a, <2>1, <3>1, <3>2, <3>3 DEF Inv, Coverage, ArmedCovered, dut
  <2>7. SamplerCovered'
    <3> SUFFICES ASSUME currentLogger # None, autoTimer' = None
                 PROVE  \E x \in Threads :
                          \/ WillSchedule(x)'
                          \/ ~Starting(x)' /\ pc'[x] \in {"revoke", "disarm", "stop", "pop"}
      BY <2>1 DEF SamplerCovered, logger
    <3>1. \A x \in Threads \ {t} : 
            /\ WillSchedule(x)' <=> WillSchedule(x)
            /\ Starting(x)' <=> Starting(x)
            /\ pc'[x] = pc[x]
      BY <1>a, <2>1, OthersCover DEF Alone, Starting
    <3>2. autoTimer # None => pc'[t] = "disarm" /\ ~Starting(t)'
      BY <1>0, <1>a, <2>1
        DEF Inv, Routines, Coverage, TimerArmed, Places, Starting, timer, StartCommands
    <3>3. ~WillSchedule(t) /\ pc[t] = "guard"
      BY <2>1 DEF WillSchedule
    <3>4. QED
      BY <1>a, <2>1, <3>1, <3>2, <3>3 DEF Inv, Coverage, SamplerCovered
  <2>8. SamplerHeld'
    BY <1>a, <2>1, SamplerHeldKept DEF Inv
  <2>9. QED
    BY <1>0, <2>2, <2>3, <2>4, <2>5, <2>6, <2>7, <2>8 DEF Inv, Routines, Coverage
<1>22. ASSUME NEW t \in Timers, FinishAutoStop(t) PROVE Inv'
  <2>1. /\ pc[t] = "finish" /\ pc'[t] = "idle"
        /\ Alone(t) /\ local'[t] = Rest
        /\ UNCHANGED <<timer, logger, dut>>
    BY <1>22, <1>0, <1>a DEF FinishAutoStop, TypeOK, Alone, GoTo, timer, logger, dut
  <2>2. Places'
    BY <1>0, <1>a, <2>1
      DEF Inv, Routines, Places, Starting, Chan, Alone, Rest, StartCommands, timer,
          logger, dut
  <2>3. TimerObjects'
    BY <1>a, <2>1, TimerObjectsKept DEF Inv, timer
  <2>4. RunningArmed'
    BY <1>a, <2>1, RunningKept DEF Inv, dut
  <2>5. TimerArmed'
    BY <1>a, <2>1, TimerArmedKept DEF Inv, timer
  <2>6. ArmedCovered' /\ SamplerCovered'
    BY <1>a, <2>1, CoverKept DEF Inv, timer, logger, dut
  <2>7. SamplerHeld'
    BY <1>a, <2>1, SamplerHeldKept DEF Inv
  <2>8. QED
    BY <1>0, <2>2, <2>3, <2>4, <2>5, <2>6, <2>7 DEF Inv, Routines, Coverage
<1>23. ASSUME NEW s \in Samplers, SamplerExits(s) PROVE Inv'
  BY <1>23, <1>0
    DEF SamplerExits, Inv, Routines, Coverage, Places, TimerObjects, ArmedCovered,
        RunningArmed, TimerArmed, SamplerCovered, SamplerHeld, WillSchedule, WillDisarm,
        Starting, Chan, registry, timer, logger, dut
<1>24. ASSUME NEW c \in Channels, UnitRespawns(c) PROVE Inv'
  <2>1. RunningArmed'
    BY <1>24, <1>0 DEF UnitRespawns, Started, Inv, Coverage, RunningArmed, TypeOK, Chan
  <2>2. QED
    BY <1>24, <2>1, <1>0
      DEF UnitRespawns, Inv, Routines, Coverage, Places, TimerObjects, ArmedCovered,
          TimerArmed, SamplerCovered, SamplerHeld, WillSchedule, WillDisarm, Starting,
          Chan, registry, timer, logger, dut
<1>25. ASSUME ReceiverRestarts PROVE Inv'
  <2>1. /\ \A th \in Threads : pc'[th] = "idle" /\ local'[th] = Rest
        /\ autoTimer' = None /\ currentLogger' = None /\ armed' = armed
        /\ excused' = excused \cup {c \in Channels : Live(c)}
        /\ \A c \in Channels : unit'[c] = unit[c] \/ unit'[c] = Started(c)
    BY <1>25 DEF ReceiverRestarts, LoseReceiver
  <2>2. QED
    BY <1>0, <1>a, <2>1
      DEF Inv, Routines, Coverage, Places, TimerObjects, ArmedCovered, RunningArmed,
          TimerArmed, SamplerCovered, SamplerHeld, TypeOK, Live, Started, Rest, Starting,
          StartCommands
<1>26. ASSUME BoardReboots PROVE Inv'
  <2>1. /\ \A th \in Threads : pc'[th] = "idle" /\ local'[th] = Rest
        /\ autoTimer' = None /\ currentLogger' = None /\ armed' = armed
        /\ excused' = excused \cup {c \in Channels : Live(c)}
        /\ \A c \in Channels : unit'[c] = unit[c] \/ unit'[c] = Started(c)
    BY <1>26 DEF BoardReboots, LoseReceiver
  <2>2. QED
    BY <1>0, <1>a, <2>1
      DEF Inv, Routines, Coverage, Places, TimerObjects, ArmedCovered, RunningArmed,
          TimerArmed, SamplerCovered, SamplerHeld, TypeOK, Live, Started, Rest, Starting,
          StartCommands
<1>27. CASE UNCHANGED vars
  BY <1>27, <1>0
    DEF vars, Inv, Routines, Coverage, Places, TimerObjects, ArmedCovered, RunningArmed,
        TimerArmed, SamplerCovered, SamplerHeld, WillSchedule, WillDisarm, Starting, Chan,
        registry, timer, logger, dut
<1>28. QED
  BY <1>1, <1>2, <1>3, <1>4, <1>5, <1>6, <1>7, <1>8, <1>9, <1>10, <1>11, <1>12, <1>13,
     <1>14, <1>15, <1>16, <1>17, <1>18, <1>19, <1>20, <1>21, <1>22, <1>23, <1>24, <1>25,
     <1>26, <1>27
    DEF Next, HandlerStep, TimerStep, StopCurrentLogger, DoStop, DoStart, Threads

THEOREM InvHolds == Spec => []Inv
  BY CoverageInit, InvStep, PTL DEF Spec

\* The variables of the receiver and of the DUT keep their types.
THEOREM TypeCorrect == Spec => []TypeOK
<1>1. Inv => TypeOK
  BY DEF Inv
<1>2. QED
  BY <1>1, InvHolds, PTL

\* Whatever clients, timers and faults do, an armed channel has the registered
\* timer, a START or a stop to disarm it, unless its stop failed or the receiver
\* died while it was live.
THEOREM ArmedCoveredHolds == Spec => []ArmedCovered
<1>1. Inv => ArmedCovered
  BY DEF Inv, Coverage
<1>2. QED
  BY <1>1, InvHolds, PTL

\* No service runs on a disarmed channel, save between a stop's two steps.
THEOREM RunningArmedHolds == Spec => []RunningArmed
<1>1. Inv => RunningArmed
  BY DEF Inv, Coverage
<1>2. QED
  BY <1>1, InvHolds, PTL

\* The timer that `state` names is able to fire for the run it names.
THEOREM TimerArmedHolds == Spec => []TimerArmed
<1>1. Inv => TimerArmed
  BY DEF Inv, Coverage
<1>2. QED
  BY <1>1, InvHolds, PTL

\* The sampler that `state` names has somebody to collect it.
THEOREM SamplerCoveredHolds == Spec => []SamplerCovered
<1>1. Inv => SamplerCovered
  BY DEF Inv, Coverage
<1>2. QED
  BY <1>1, InvHolds, PTL
-----------------------------------------------------------------------------
(* What the steps do *)

\* Nothing is configured or armed: a service stops, or starts for the run its
\* channel is armed for; a channel loses its excuse only when it is stopped.
Calms ==
  /\ config' = config /\ armed' \subseteq armed
  /\ \A c \in Channels :
       /\ unit'[c] \in {unit[c], None, Started(c)}
       /\ c \in excused => c \in excused' \/ (unit'[c] = None /\ c \notin armed')

\* Only a START configures and arms; whatever else happens calms the DUT.
LEMMA CalmStep ==
  ASSUME Inv, [Next]_vars
  PROVE  Calms \/ \E h \in Handlers : Configure(h) \/ Arm(h)
<1> USE DEF Calms
<1>0. /\ armed \subseteq Channels /\ unit \in [Channels -> RequestIds \cup {None}]
      /\ \A th \in Threads : Chan(th) \in Channels
  BY LocalsFields DEF Inv, TypeOK, Chan
<1>1. ASSUME NEW h \in Handlers, Receive(h) \/ StartFails(h) \/ SpawnSampler(h)
             \/ RegisterSampler(h) \/ PopTimer(h) \/ RevokeTimer(h) \/ Schedule(h)
             \/ LaunchTimer(h) \/ Finish(h)
      PROVE  Calms
  BY <1>0, <1>1
    DEF Receive, StartFails, SpawnSampler, RegisterSampler, PopTimer, RevokeTimer, Schedule,
        LaunchTimer, Finish, dut
<1>2. ASSUME NEW h \in Handlers, RestartUnit(h) PROVE Calms
  BY <1>0, <1>2 DEF RestartUnit, Threads
<1>3. ASSUME NEW th \in Threads, StopCurrentLogger(th) PROVE Calms
  BY <1>0, <1>3
    DEF StopCurrentLogger, PopSampler, ReplayBaseline, ReapSampler, RecordBaseline, dut
<1>4. ASSUME NEW th \in Threads, DoStop(th) PROVE Calms
  BY <1>0, <1>4 DEF DoStop, Disarm, StopUnit, StopFails
<1>5. ASSUME NEW t \in Timers, Fire(t) \/ Guard(t) \/ FinishAutoStop(t) PROVE Calms
  BY <1>0, <1>5 DEF Fire, Guard, FinishAutoStop, dut
<1>6. ASSUME NEW s \in Samplers, SamplerExits(s) PROVE Calms
  BY <1>0, <1>6 DEF SamplerExits, dut
<1>7. ASSUME NEW c \in Channels, UnitRespawns(c) PROVE Calms
  BY <1>0, <1>7 DEF UnitRespawns
<1>8. CASE ReceiverRestarts \/ BoardReboots
  BY <1>0, <1>8 DEF ReceiverRestarts, BoardReboots, LoseReceiver
<1>9. CASE UNCHANGED vars
  BY <1>0, <1>9 DEF vars, dut
<1>10. QED
  BY <1>1, <1>2, <1>3, <1>4, <1>5, <1>6, <1>7, <1>8, <1>9
    DEF Next, HandlerStep, TimerStep, DoStart, Threads

\* Whatever calms the DUT brings no channel to life.
LEMMA CalmKeepsDown ==
  ASSUME Calms, NEW c \in Channels, ~Live(c)
  PROVE  ~Live(c)'
  BY DEF Calms, Live, Started

\* Who moves: a step leaves a thread alone, or is its own, or that of a START that
\* has to do with a timer, or a crash.
LEMMA WhoMoves ==
  ASSUME Inv, [Next]_vars, NEW x \in Threads
  PROVE  \/ pc'[x] = pc[x] /\ local'[x] = local[x]
         \/ x \in Handlers /\ (Receive(x) \/ HandlerStep(x))
         \/ /\ x \in Timers
            /\ \/ TimerStep(x)
               \/ \E h \in Handlers : RevokeTimer(h) \/ Schedule(h) \/ LaunchTimer(h)
         \/ pc'[x] = "idle" /\ local'[x] = Rest /\ (ReceiverRestarts \/ BoardReboots)
<1> DEFINE Same == pc'[x] = pc[x] /\ local'[x] = local[x]
<1>0. /\ Handlers \cap Timers = {} /\ Threads = Handlers \cup Timers
      /\ pc \in [Threads -> PCs] /\ local \in [Threads -> Locals]
  BY ThreadsAssumption DEF Inv, TypeOK, Threads
<1>2. ASSUME NEW th \in Threads \ {x}, NEW b, NEW a, NEW bad, NextChannel(th, b, a, bad)
      PROVE  Same
  BY <1>0, <1>2 DEF GoTo, NextChannel
<1>3. ASSUME NEW g \in Handlers \ {x},
             Receive(g) \/ StartFails(g) \/ Configure(g) \/ Arm(g) \/ RestartUnit(g)
             \/ SpawnSampler(g) \/ RegisterSampler(g) \/ PopTimer(g) \/ Finish(g)
      PROVE  Same
  BY <1>0, <1>2, <1>3
    DEF Receive, StartFails, Configure, Arm, RestartUnit, SpawnSampler, RegisterSampler,
        PopTimer, Finish, GoTo
<1>4. ASSUME NEW g \in Handlers \ {x}, RevokeTimer(g) \/ Schedule(g) \/ LaunchTimer(g),
             x \in Handlers
      PROVE  Same
  <2>1. RevokeTimer(g) \/ LaunchTimer(g) => local[g].timer \in Timers
    BY DEF RevokeTimer, LaunchTimer, Inv, Routines, TimerObjects
  <2>2. QED
    BY <1>0, <1>4, <2>1 DEF RevokeTimer, Schedule, LaunchTimer
<1>5. ASSUME NEW th \in Threads \ {x}, StopCurrentLogger(th) \/ DoStop(th)
      PROVE  Same
  BY <1>0, <1>2, <1>5
    DEF StopCurrentLogger, PopSampler, ReplayBaseline, ReapSampler, RecordBaseline, DoStop,
        Disarm, StopUnit, StopFails, GoTo
<1>6. ASSUME NEW t \in Timers \ {x}, Fire(t) \/ Guard(t) \/ FinishAutoStop(t)
      PROVE  Same
  BY <1>0, <1>6 DEF Fire, Guard, FinishAutoStop, GoTo
<1>7. ASSUME \/ \E s \in Samplers : SamplerExits(s)
             \/ \E c \in Channels : UnitRespawns(c)
             \/ UNCHANGED vars
      PROVE  Same
  BY <1>7 DEF SamplerExits, UnitRespawns, vars
<1>8. CASE ReceiverRestarts \/ BoardReboots
  BY <1>0, <1>8 DEF ReceiverRestarts, BoardReboots, LoseReceiver
<1>9. \A g \in Handlers \ {x} : Receive(g) \/ HandlerStep(g) =>
         Same \/ (x \in Timers /\ (RevokeTimer(g) \/ Schedule(g) \/ LaunchTimer(g)))
  BY <1>0, <1>3, <1>4, <1>5 DEF HandlerStep, DoStart
<1>10. \A t \in Timers \ {x} : TimerStep(t) => Same
  BY <1>0, <1>5, <1>6 DEF TimerStep
<1>11. QED
  BY <1>0, <1>7, <1>8, <1>9, <1>10 DEF Next

\* A handler's steps outside the loops over the channels.
LEMMA StopLoggerEffect ==
  ASSUME Inv, NEW th \in Threads, StopCurrentLogger(th)
  PROVE  /\ Keeps(th) /\ local'[th].failed = local[th].failed /\ local'[th].ch = Chan(th)
         /\ \/ /\ pc[th] = "pop" /\ pc'[th] \in {"replay", "reap"}
               /\ local'[th].sampler = currentLogger /\ currentLogger' = None
               /\ currentLogger = None <=> pc'[th] = "replay"
               /\ sampler' = sampler
            \/ /\ pc[th] = "replay" /\ pc'[th] = AfterSampler(th)
               /\ local'[th].sampler = local[th].sampler
               /\ UNCHANGED <<currentLogger, sampler>>
            \/ /\ pc[th] = "reap" /\ pc'[th] = "record"
               /\ local'[th].sampler = None
               /\ sampler' = [sampler EXCEPT ![local[th].sampler] = NoSampler]
               /\ UNCHANGED currentLogger
            \/ /\ pc[th] = "record" /\ pc'[th] = AfterSampler(th)
               /\ local'[th].sampler = local[th].sampler
               /\ UNCHANGED <<currentLogger, sampler>>
<1>1. pc \in [Threads -> PCs] /\ local \in [Threads -> Locals] /\ local[th] \in Locals
  BY DEF Inv, TypeOK
<1>2. CASE PopSampler(th)
  <2>1. local'[th] = [local[th] EXCEPT !.sampler = currentLogger]
    BY <1>1, <1>2 DEF PopSampler
  <2>2. QED
    BY <1>1, <1>2, <2>1 DEF PopSampler, GoTo, Keeps, Chan, Locals, logger
<1>3. CASE ReplayBaseline(th)
  <2>1. local'[th] = [local[th] EXCEPT !.baseline = lastBaseline]
    BY <1>1, <1>3 DEF ReplayBaseline
  <2>2. QED
    BY <1>1, <1>3, <2>1 DEF ReplayBaseline, GoTo, Keeps, Chan, Locals, logger
<1>4. CASE ReapSampler(th)
  <2>1. PICK b : local'[th] = [local[th] EXCEPT !.baseline = b, !.sampler = None]
    BY <1>1, <1>4 DEF ReapSampler
  <2>2. QED
    BY <1>1, <1>4, <2>1 DEF ReapSampler, GoTo, Keeps, Chan, Locals
<1>5. CASE RecordBaseline(th)
  BY <1>1, <1>5 DEF RecordBaseline, GoTo, Keeps, Chan, logger
<1>6. QED
  BY <1>2, <1>3, <1>4, <1>5 DEF StopCurrentLogger

LEMMA PopTimerEffect ==
  ASSUME Inv, NEW h \in Handlers, PopTimer(h)
  PROVE  /\ Keeps(h) /\ local'[h].failed = local[h].failed /\ local'[h].ch = Chan(h)
         /\ local'[h].sampler = local[h].sampler /\ UNCHANGED logger
         /\ pc[h] = "cancel" /\ pc'[h] \in {"revoke", AfterCancel(h)}
<1>1. h \in Threads /\ pc \in [Threads -> PCs] /\ local \in [Threads -> Locals]
  BY DEF Inv, TypeOK, Threads
<1>2. local[h] \in Locals /\ local'[h] = [local[h] EXCEPT !.timer = autoTimer]
  BY <1>1 DEF PopTimer
<1>3. QED
  BY <1>1, <1>2 DEF PopTimer, GoTo, Keeps, Chan, Locals

LEMMA RevokeTimerEffect ==
  ASSUME Inv, NEW h \in Handlers, RevokeTimer(h)
  PROVE  /\ Keeps(h) /\ local'[h].failed = local[h].failed /\ local'[h].ch = Chan(h)
         /\ local'[h].sampler = local[h].sampler /\ UNCHANGED logger
         /\ pc[h] = "revoke" /\ pc'[h] = AfterCancel(h)
         /\ \A x \in Threads \ {h} :
              \/ pc'[x] = pc[x] /\ local'[x] = local[x]
              \/ x \in Timers /\ pc[x] = "new" /\ pc'[x] = "revoked" /\ local'[x] = local[x]
              \/ x \in Timers /\ pc[x] = "pending" /\ pc'[x] = "idle" /\ local'[x] = Rest
<1>1. h \in Threads /\ pc \in [Threads -> PCs] /\ local \in [Threads -> Locals]
  BY DEF Inv, TypeOK, Threads
<1>2. PICK t \in Timers : t = local[h].timer /\ t # h
  BY ThreadsAssumption DEF RevokeTimer, Inv, Routines, TimerObjects
<1>3. /\ local' = [local EXCEPT ![h] = [local[h] EXCEPT !.timer = None],
                               ![t] = IF pc[t] = "pending" THEN Rest ELSE local[t]]
      /\ pc[h] = "revoke" /\ UNCHANGED logger
  BY <1>2 DEF RevokeTimer
<1>4. local[h] \in Locals /\ local'[h] = [local[h] EXCEPT !.timer = None]
  BY <1>1, <1>2, <1>3
<1>5. /\ pc'[h] = AfterCancel(h)
      /\ \A x \in Threads \ {h, t} : pc'[x] = pc[x]
      /\ pc'[t] = IF pc[t] = "new" THEN "revoked"
                  ELSE IF pc[t] = "pending" THEN "idle" ELSE pc[t]
  BY <1>1, <1>2 DEF RevokeTimer, Threads
<1>6. /\ Keeps(h) /\ local'[h].failed = local[h].failed /\ local'[h].ch = Chan(h)
      /\ local'[h].sampler = local[h].sampler
  BY <1>4 DEF Keeps, Chan, Locals
<1>7. QED
  BY <1>1, <1>2, <1>3, <1>5, <1>6 DEF Threads

LEMMA ScheduleEffect ==
  ASSUME Inv, NEW h \in Handlers, Schedule(h)
  PROVE  /\ Keeps(h) /\ local'[h].failed = local[h].failed /\ local'[h].ch = Chan(h)
         /\ local'[h].sampler = local[h].sampler /\ UNCHANGED logger
         /\ pc[h] = "schedule" /\ pc'[h] = "launch"
         /\ \A x \in Threads \ {h} :
              \/ pc'[x] = pc[x] /\ local'[x] = local[x]
              \/ /\ x \in Timers /\ pc[x] = "idle" /\ pc'[x] = "new"
                 /\ local'[x].sampler = None /\ local'[x].run = local[h].run
<1>1. h \in Threads /\ pc \in [Threads -> PCs] /\ local \in [Threads -> Locals]
  BY DEF Inv, TypeOK, Threads
<1>2. PICK t \in Timers :
        /\ pc[h] = "schedule" /\ pc[t] = "idle"
        /\ pc' = [pc EXCEPT ![h] = "launch", ![t] = "new"]
        /\ local' = [local EXCEPT ![h] = [local[h] EXCEPT !.timer = t],
                                  ![t] = [Rest EXCEPT !.run = local[h].run]]
        /\ UNCHANGED logger
  BY DEF Schedule
<1>3. t # h /\ t \in Threads
  BY ThreadsAssumption DEF Threads
<1>4. local[h] \in Locals /\ local'[h] = [local[h] EXCEPT !.timer = t]
  BY <1>1, <1>2, <1>3
<1>5. local'[t].sampler = None /\ local'[t].run = local[h].run
  BY <1>1, <1>2, <1>3 DEF Rest
<1>6. /\ Keeps(h) /\ local'[h].failed = local[h].failed /\ local'[h].ch = Chan(h)
      /\ local'[h].sampler = local[h].sampler
  BY <1>4 DEF Keeps, Chan, Locals
<1>7. QED
  BY <1>1, <1>2, <1>3, <1>5, <1>6

LEMMA LaunchTimerEffect ==
  ASSUME Inv, NEW h \in Handlers, LaunchTimer(h)
  PROVE  /\ Keeps(h) /\ local'[h].failed = local[h].failed /\ local'[h].ch = Chan(h)
         /\ local'[h].sampler = local[h].sampler /\ UNCHANGED logger
         /\ pc[h] = "launch" /\ pc'[h] = "finish"
         /\ \A x \in Threads \ {h} :
              \/ pc'[x] = pc[x] /\ local'[x] = local[x]
              \/ x \in Timers /\ pc[x] = "new" /\ pc'[x] = "pending" /\ local'[x] = local[x]
              \/ x \in Timers /\ pc[x] = "revoked" /\ pc'[x] = "idle" /\ local'[x] = Rest
<1>1. h \in Threads /\ pc \in [Threads -> PCs] /\ local \in [Threads -> Locals]
  BY DEF Inv, TypeOK, Threads
<1>2. PICK t \in Timers : t = local[h].timer /\ t # h /\ pc[t] \in {"new", "revoked"}
  BY ThreadsAssumption DEF LaunchTimer, Inv, Routines, TimerObjects
<1>3. /\ local' = [local EXCEPT ![h] = [local[h] EXCEPT !.timer = None],
                               ![t] = IF pc[t] = "new" THEN local[t] ELSE Rest]
      /\ pc' = [pc EXCEPT ![h] = "finish", ![t] = IF pc[t] = "new" THEN "pending" ELSE "idle"]
      /\ pc[h] = "launch" /\ UNCHANGED logger
  BY <1>2 DEF LaunchTimer
<1>4. local[h] \in Locals /\ local'[h] = [local[h] EXCEPT !.timer = None]
  BY <1>1, <1>2, <1>3
<1>5. /\ Keeps(h) /\ local'[h].failed = local[h].failed /\ local'[h].ch = Chan(h)
      /\ local'[h].sampler = local[h].sampler
  BY <1>4 DEF Keeps, Chan, Locals
<1>6. QED
  BY <1>1, <1>2, <1>3, <1>5 DEF Threads

-----------------------------------------------------------------------------
(* An accepted STOP means stopped *)

\* The channels that thread th's do_stop is through with.
Passed(th, c) ==
  \/ pc[th] \in {"disarm", "stop"} /\ c < Chan(th)
  \/ pc[th] \in {"pop", "replay", "reap", "record", "finish"}

\* What a STOP has passed is down, or among its failed results.
StopTruth(h) ==
  local[h].cmd = "STOP_TEST" =>
    /\ \A c \in Channels : Passed(h, c) => c \in local[h].failed \/ ~Live(c)
    /\ pc[h] = "stop" => Chan(h) \notin armed

\* It stays so while no START arms a channel, if a disarm does what it reports.
LEMMA StopTruthStep ==
  ASSUME Inv, [Next]_vars, NEW h \in Handlers, StopTruth(h), "disarm" \notin Faults,
         local'[h].cmd = "STOP_TEST" => Calms
  PROVE  StopTruth(h)'
<1> SUFFICES ASSUME local'[h].cmd = "STOP_TEST" PROVE StopTruth(h)'
  BY DEF StopTruth
<1>0. /\ h \in Threads /\ pc \in [Threads -> PCs] /\ local \in [Threads -> Locals]
      /\ local[h] \in Locals /\ Chan(h) \in 1..NumChannels /\ NumChannels \in Nat
      /\ armed \subseteq Channels /\ unit \in [Channels -> RequestIds \cup {None}]
      /\ Channels = 1..NumChannels /\ Calms
  BY LocalsFields, NumChannelsAssumption DEF Inv, TypeOK, Threads, Channels, Chan
<1>1. CASE pc'[h] = pc[h] /\ local'[h] = local[h]
  BY <1>0, <1>1, CalmKeepsDown DEF StopTruth, Passed, Chan, Calms
<1>2. CASE Receive(h)
  BY <1>0, <1>2 DEF Receive, GoTo, StopTruth, Passed, StartCommands
<1>3. CASE pc'[h] = "idle" /\ local'[h] = Rest
  BY <1>3 DEF StopTruth, Rest
<1>4. ASSUME Keeps(h), local'[h].failed = local[h].failed, local'[h].ch = Chan(h),
             \/ pc'[h] \in {"register", "cancel", "revoke", "schedule", "launch"}
             \/ pc'[h] = "disarm" /\ Chan(h) = 1
             \/ /\ pc[h] \in {"pop", "replay", "reap", "record"}
                /\ pc'[h] \notin {"disarm", "stop"}
      PROVE  StopTruth(h)'
  BY <1>0, <1>4, CalmKeepsDown DEF StopTruth, Passed, Chan, Keeps
<1>5. CASE ~Starting(h)' /\ DoStart(h)
  <2>1. Starting(h)
    BY <1>5, <1>0
      DEF DoStart, StartFails, Configure, Arm, RestartUnit, Inv, Routines, Places
  <2>2. Keeps(h)
    BY <1>5, <1>0, NextChannelEffect
      DEF DoStart, StartFails, Configure, Arm, RestartUnit, Keeps, Inv
  <2>3. QED
    BY <1>5, <2>1, <2>2 DEF Keeps, Starting
<1>6. CASE SpawnSampler(h) \/ RegisterSampler(h)
  <2>1. Starting(h) /\ Keeps(h)
    BY <1>6, <1>0 
      DEF SpawnSampler, RegisterSampler, Inv, Routines, Places, Keeps, Locals
  <2>2. QED
    BY <2>1 DEF Keeps, Starting, StartCommands
<1>7. CASE PopTimer(h) \/ RevokeTimer(h)
  <2>1. /\ Keeps(h) /\ local'[h].failed = local[h].failed /\ local'[h].ch = Chan(h)
        /\ pc[h] \in {"cancel", "revoke"} /\ pc'[h] \in {"revoke", AfterCancel(h)}
    BY <1>7, PopTimerEffect, RevokeTimerEffect
  <2>2. ~Starting(h)
    BY <2>1 DEF Keeps, Starting, StartCommands
  <2>3. Chan(h) = 1 /\ pc'[h] \in {"revoke", "disarm"}
    BY <1>0, <2>1, <2>2 DEF AfterCancel, Inv, Routines, Places
  <2>4. QED
    BY <1>4, <2>1, <2>3
<1>8. CASE Schedule(h) \/ LaunchTimer(h)
  <2>1. Starting(h) /\ Keeps(h)
    BY <1>0, <1>8, ScheduleEffect, LaunchTimerEffect DEF Inv, Routines, Places
  <2>2. QED
    BY <2>1 DEF Keeps, Starting, StartCommands
<1>9. CASE StopCurrentLogger(h)
  <2>1. /\ Keeps(h) /\ local'[h].failed = local[h].failed /\ local'[h].ch = Chan(h)
        /\ pc[h] \in {"pop", "replay", "reap", "record"}
        /\ pc'[h] \in {"replay", "reap", "record", "config", "finish"}
    BY <1>9, <1>0, StopLoggerEffect DEF AfterSampler
  <2>2. QED
    BY <1>4, <2>1
<1>10. CASE Disarm(h)
  BY <1>0, <1>10, CalmKeepsDown DEF Disarm, GoTo, StopTruth, Passed, Chan
<1>11. ASSUME NEW bad, NextChannel(h, "disarm", "pop", bad), pc[h] = "stop",
              NEW c \in Channels, c = Chan(h), c \in bad \/ ~Live(c)'
       PROVE  StopTruth(h)'
  <2>1. /\ Keeps(h) /\ local'[h].failed = local[h].failed \cup bad
        /\ \/ Chan(h) < NumChannels /\ pc'[h] = "disarm" /\ local'[h].ch = Chan(h) + 1
           \/ Chan(h) = NumChannels /\ pc'[h] = "pop" /\ local'[h].ch = Chan(h)
    BY <1>0, <1>11, NextChannelEffect DEF Inv
  <2>2. \A d \in Channels : Passed(h, d)' => d = c \/ Passed(h, d)
    BY <1>0, <1>11, <2>1 DEF Passed, Chan
  <2>3. \A d \in Channels : Passed(h, d)' => d \in local'[h].failed \/ ~Live(d)'
    BY <1>0, <1>11, <2>1, <2>2, CalmKeepsDown DEF StopTruth, Keeps
  <2>4. QED
    BY <2>1, <2>3 DEF StopTruth
<1>12. CASE StopUnit(h)
  <2>1. PICK c \in Channels : c = Chan(h)
    BY <1>0
  <2>2. Keeps(h)
    BY <1>0, <1>12, NextChannelEffect DEF StopUnit, Inv
  <2>3. ~Live(c)'
    BY <1>0, <1>12, <2>1, <2>2 DEF StopUnit, Live, StopTruth, Keeps
  <2>4. QED
    BY <1>11, <1>12, <2>1, <2>3 DEF StopUnit
<1>13. CASE StopFails(h)
  <2>1. CASE local[h].tries < 2
    <3>1. local'[h] = [local[h] EXCEPT !.tries = local[h].tries + 1] /\ pc' = pc
      BY <1>0, <1>13, <2>1 DEF StopFails
    <3>2. Keeps(h) /\ local'[h].failed = local[h].failed /\ local'[h].ch = Chan(h)
      BY <1>0, <3>1 DEF Keeps, Chan, Locals
    <3>3. QED
      BY <1>0, <1>13, <3>1, <3>2, CalmKeepsDown DEF StopTruth, Passed, Chan, Keeps, StopFails
  <2>2. CASE ~(local[h].tries < 2)
    <3>1. PICK c \in Channels : c = Chan(h)
      BY <1>0
    <3>2. QED
      BY <1>11, <1>13, <2>2, <3>1 DEF StopFails
  <2>3. QED
    BY <2>1, <2>2
<1>14. CASE Finish(h)
  BY <1>0, <1>3, <1>14 DEF Finish, GoTo
<1>15. ~Starting(h)'
  BY DEF Starting, StartCommands
<1>16. QED
  BY WhoMoves, <1>1, <1>2, <1>3, <1>5, <1>6, <1>7, <1>8, <1>9, <1>10, <1>12, <1>13, <1>14,
     <1>15, ThreadsAssumption, <1>0
    DEF HandlerStep, DoStop

-----------------------------------------------------------------------------
(* Threads at rest *)

\* An idle thread has fresh local variables, and a thread that holds a sampler
\* has just spawned it or is about to stop it.
Idles ==
  \A th \in Threads :
    /\ pc[th] = "idle" => local[th] = Rest
    /\ local[th].sampler # None => pc[th] \in {"reap", "register"}

LEMMA RestFields ==
  Rest.run = None /\ Rest.sampler = None /\ Rest.cmd = "auto_stop" /\ Rest.ch = 1
  BY DEF Rest

\* The other steps of a handler.
LEMMA DoStartEffect ==
  ASSUME Inv, NEW h \in Handlers, DoStart(h)
  PROVE  /\ Keeps(h) /\ local'[h].sampler = local[h].sampler /\ UNCHANGED logger
         /\ pc[h] \in {"config", "arm", "restart"}
         /\ pc'[h] \in {"config", "arm", "restart", AfterChannels(h)}
<1>1. h \in Threads /\ pc \in [Threads -> PCs] /\ local \in [Threads -> Locals]
  BY DEF Inv, TypeOK, Threads
<1>2. CASE Configure(h) \/ Arm(h)
  BY <1>1, <1>2 DEF Configure, Arm, GoTo, Keeps
<1>3. ASSUME NEW bad, NextChannel(h, "config", AfterChannels(h), bad)
      PROVE  /\ Keeps(h) /\ local'[h].sampler = local[h].sampler
             /\ pc'[h] \in {"config", AfterChannels(h)}
  BY <1>1, <1>3, NextChannelEffect DEF Inv
<1>4. CASE StartFails(h) \/ RestartUnit(h)
  BY <1>3, <1>4 DEF StartFails, RestartUnit
<1>5. QED
  BY <1>2, <1>4 DEF DoStart

LEMMA SpawnEffect ==
  ASSUME Inv, NEW h \in Handlers, SpawnSampler(h)
  PROVE  /\ Keeps(h) /\ pc[h] = "spawn" /\ UNCHANGED currentLogger
         /\ \/ \E s \in Samplers :
                 /\ pc'[h] = "register" /\ local'[h].sampler = s /\ sampler[s] = NoSampler
                 /\ \A z \in Samplers \ {s} : sampler'[z] = sampler[z]
            \/ /\ pc'[h] = "cancel" /\ local'[h].sampler = local[h].sampler
               /\ UNCHANGED sampler
<1>1. /\ h \in Threads /\ pc \in [Threads -> PCs] /\ local \in [Threads -> Locals]
      /\ local[h] \in Locals
      /\ sampler \in [Samplers -> [run : RequestIds \cup {None}, alive : BOOLEAN]]
  BY DEF Inv, TypeOK, Threads
<1>2. ASSUME NEW s \in Samplers, sampler[s] = NoSampler,
             sampler' = [sampler EXCEPT ![s] = [run |-> local[h].run, alive |-> TRUE]],
             local' = [local EXCEPT ![h].sampler = s], GoTo(h, "register")
      PROVE  /\ Keeps(h) /\ pc'[h] = "register" /\ local'[h].sampler = s
             /\ \A z \in Samplers \ {s} : sampler'[z] = sampler[z]
  BY <1>1, <1>2 DEF Keeps, GoTo, Locals
<1>3. ASSUME local' = [local EXCEPT ![h].failed = @ \cup {0}], GoTo(h, "cancel")
      PROVE  Keeps(h) /\ pc'[h] = "cancel" /\ local'[h].sampler = local[h].sampler
  BY <1>1, <1>3 DEF Keeps, GoTo, Locals
<1>4. QED
  BY <1>2, <1>3 DEF SpawnSampler

LEMMA RegisterEffect ==
  ASSUME Inv, NEW h \in Handlers, RegisterSampler(h)
  PROVE  /\ Keeps(h) /\ pc[h] = "register" /\ pc'[h] = "cancel"
         /\ currentLogger' = local[h].sampler /\ local'[h].sampler = None
         /\ UNCHANGED sampler
<1>1. /\ h \in Threads /\ pc \in [Threads -> PCs] /\ local \in [Threads -> Locals]
      /\ local[h] \in Locals
  BY DEF Inv, TypeOK, Threads
<1>2. QED
  BY <1>1 DEF RegisterSampler, Keeps, GoTo, Locals

LEMMA DoStopEffect ==
  ASSUME Inv, NEW th \in Threads, DoStop(th)
  PROVE  /\ Keeps(th) /\ local'[th].sampler = local[th].sampler /\ UNCHANGED logger
         /\ pc[th] \in {"disarm", "stop"} /\ pc'[th] \in {"disarm", "stop", "pop"}
<1>1. /\ pc \in [Threads -> PCs] /\ local \in [Threads -> Locals] /\ local[th] \in Locals
  BY DEF Inv, TypeOK
<1>2. CASE Disarm(th)
  BY <1>1, <1>2 DEF Disarm, GoTo, Keeps
<1>3. ASSUME NEW bad, NextChannel(th, "disarm", "pop", bad)
      PROVE  /\ Keeps(th) /\ local'[th].sampler = local[th].sampler
             /\ pc'[th] \in {"disarm", "pop"}
  BY <1>1, <1>3, NextChannelEffect DEF Inv
<1>4. CASE StopUnit(th)
  BY <1>3, <1>4 DEF StopUnit
<1>5. CASE StopFails(th)
  <2>1. CASE local[th].tries < 2
    <3>1. local'[th] = [local[th] EXCEPT !.tries = local[th].tries + 1] /\ pc' = pc
      BY <1>1, <1>5, <2>1 DEF StopFails
    <3>2. QED
      BY <1>1, <1>5, <3>1 DEF StopFails, Keeps, Locals
  <2>2. CASE ~(local[th].tries < 2)
    BY <1>3, <1>5, <2>2 DEF StopFails
  <2>3. QED
    BY <2>1, <2>2
<1>6. QED
  BY <1>2, <1>4, <1>5 DEF DoStop

\* A command is kept from its receipt to its reply.
LEMMA HandlerKeeps ==
  ASSUME Inv, NEW h \in Handlers, HandlerStep(h)
  PROVE  \/ /\ Keeps(h) /\ pc[h] # "idle" /\ pc'[h] # "idle"
         \/ Finish(h) /\ pc[h] = "finish" /\ pc'[h] = "idle" /\ local'[h] = Rest
<1>0. h \in Threads /\ pc \in [Threads -> PCs] /\ local \in [Threads -> Locals]
  BY DEF Inv, TypeOK, Threads
<1>1. CASE Finish(h)
  BY <1>0, <1>1 DEF Finish, GoTo
<1>2. CASE StopCurrentLogger(h)
  BY <1>0, <1>2, StopLoggerEffect DEF AfterSampler
<1>3. CASE DoStart(h)
  BY <1>3, DoStartEffect DEF AfterChannels
<1>4. CASE SpawnSampler(h) \/ RegisterSampler(h)
  BY <1>4, SpawnEffect, RegisterEffect
<1>5. CASE PopTimer(h) \/ RevokeTimer(h) \/ Schedule(h) \/ LaunchTimer(h)
  BY <1>5, PopTimerEffect, RevokeTimerEffect, ScheduleEffect, LaunchTimerEffect
    DEF AfterCancel
<1>6. CASE DoStop(h)
  BY <1>0, <1>6, DoStopEffect
<1>7. QED
  BY <1>1, <1>2, <1>3, <1>4, <1>5, <1>6 DEF HandlerStep

LEMMA IdlesStep == Inv /\ Idles /\ [Next]_vars => Idles'
<1> SUFFICES ASSUME Inv, Idles, [Next]_vars, NEW x \in Threads
             PROVE  /\ pc'[x] = "idle" => local'[x] = Rest
                    /\ local'[x].sampler # None => pc'[x] \in {"reap", "register"}
  BY DEF Idles
<1> DEFINE Goal == /\ pc'[x] = "idle" => local'[x] = Rest
                   /\ local'[x].sampler # None => pc'[x] \in {"reap", "register"}
<1>0. /\ pc \in [Threads -> PCs] /\ local \in [Threads -> Locals]
      /\ Handlers \cap Timers = {} /\ Threads = Handlers \cup Timers
  BY ThreadsAssumption DEF Inv, TypeOK, Threads
<1>1. CASE pc'[x] = pc[x] /\ local'[x] = local[x]
  BY <1>1 DEF Idles
<1>2. CASE pc'[x] = "idle" /\ local'[x] = Rest
  BY <1>2, RestFields
<1>3. ASSUME x \in Handlers, Receive(x) PROVE Goal
  BY <1>0, <1>3 DEF Receive, GoTo, Rest
<1>4. ASSUME x \in Handlers, HandlerStep(x) PROVE Goal
  <2>1. CASE Finish(x)
    BY <1>0, <2>1, RestFields DEF Finish, GoTo
  <2>2. CASE StopCurrentLogger(x)
    BY <2>2, StopLoggerEffect DEF Idles, AfterSampler
  <2>3. CASE DoStart(x)
    BY <1>4, <2>3, DoStartEffect DEF Idles, AfterChannels
  <2>4. CASE SpawnSampler(x) \/ RegisterSampler(x)
    BY <1>4, <2>4, SpawnEffect, RegisterEffect DEF Idles
  <2>5. CASE PopTimer(x) \/ RevokeTimer(x) \/ Schedule(x) \/ LaunchTimer(x)
    BY <1>4, <2>5, PopTimerEffect, RevokeTimerEffect, ScheduleEffect, LaunchTimerEffect
      DEF Idles, AfterCancel
  <2>6. CASE DoStop(x)
    BY <2>6, DoStopEffect DEF Idles
  <2>7. QED
    BY <1>4, <2>1, <2>2, <2>3, <2>4, <2>5, <2>6 DEF HandlerStep
<1>5. ASSUME x \in Timers, TimerStep(x) PROVE Goal
  <2>1. CASE Fire(x) \/ Guard(x) \/ FinishAutoStop(x)
    BY <1>0, <2>1, RestFields DEF Fire, Guard, FinishAutoStop, GoTo, Idles
  <2>2. CASE StopCurrentLogger(x)
    BY <2>2, StopLoggerEffect DEF Idles, AfterSampler
  <2>3. CASE DoStop(x)
    BY <2>3, DoStopEffect DEF Idles
  <2>4. QED
    BY <1>5, <2>1, <2>2, <2>3 DEF TimerStep
<1>6. ASSUME x \in Timers, NEW h \in Handlers,
             RevokeTimer(h) \/ Schedule(h) \/ LaunchTimer(h)
      PROVE  Goal
  BY <1>0, <1>6, RevokeTimerEffect, ScheduleEffect, LaunchTimerEffect, RestFields DEF Idles
<1>7. QED
  BY WhoMoves, <1>1, <1>2, <1>3, <1>4, <1>5, <1>6

-----------------------------------------------------------------------------
(* One client that waits for each reply *)

\* The command under way is the last request; between commands `last_channels`
\* holds the results of the last request.
Latest(h) ==
  IF pc[h] = "idle" THEN lastChannels = lastRequest ELSE local[h].run = lastRequest

\* A START has taken the registered sampler before it spawns its own.
SamplerTaken(h) ==
  /\ Starting(h)
  /\ pc[h] \in {"replay", "reap", "record", "config", "arm", "restart", "spawn", "register"}
  => currentLogger = None

\* What runs on channel c, and what would run there after a crash, is run r.
Attributed(c, r) ==
  c \in excused \/ (unit[c] \in {None, r} /\ (c \in armed => config[c] = r))

\* The channels that thread th's do_start is through with.
Through(th, c) ==
  \/ pc[th] \in {"config", "arm", "restart"} /\ c < Chan(th)
  \/ pc[th] \in {"spawn", "register", "cancel", "revoke", "schedule", "launch", "finish"}

\* A START leaves its run behind on every channel; everything else leaves there
\* what it finds.
Attribution(h) ==
  IF Starting(h)
  THEN /\ pc[h] \in {"pop", "replay", "reap", "record"} => Chan(h) = 1
       /\ pc[h] \in {"arm", "restart"} => config[Chan(h)] = local[h].run
       /\ \A c \in Channels : Through(h, c) => Attributed(c, local[h].run)
  ELSE \A c \in Channels : Attributed(c, lastStart)

LEMMA LatestStep ==
  ASSUME Inv, [Next]_vars, NEW h \in Handlers, Handlers = {h}, Latest(h)
  PROVE  Latest(h)'
<1>0. h \in Threads /\ pc \in [Threads -> PCs] /\ local \in [Threads -> Locals]
      /\ Handlers \cap Timers = {}
  BY ThreadsAssumption DEF Inv, TypeOK, Threads
<1>1. CASE ReceiverRestarts \/ BoardReboots
  BY <1>0, <1>1 DEF ReceiverRestarts, BoardReboots, LoseReceiver, Latest
<1>2. CASE Receive(h)
  BY <1>0, <1>2 DEF Receive, GoTo, Latest, Rest
<1>3. CASE Finish(h)
  BY <1>0, <1>3 DEF Finish, GoTo, Latest
<1>4. ASSUME ~Receive(h), ~Finish(h), ~ReceiverRestarts, ~BoardReboots
      PROVE  UNCHANGED <<lastRequest, lastChannels>>
  BY ZenonT(60), <1>4
    DEF Next, HandlerStep, TimerStep, StopCurrentLogger, PopSampler, ReplayBaseline,
        ReapSampler, RecordBaseline, DoStop, Disarm, StopUnit, StopFails, DoStart, StartFails,
        Configure, Arm, RestartUnit, SpawnSampler, RegisterSampler, PopTimer, RevokeTimer,
        Schedule, LaunchTimer, Fire, Guard, FinishAutoStop, SamplerExits, UnitRespawns,
        registry, vars
<1>5. ASSUME ~Receive(h), ~Finish(h), ~ReceiverRestarts, ~BoardReboots
      PROVE  \/ pc'[h] = pc[h] /\ local'[h] = local[h]
             \/ pc[h] # "idle" /\ pc'[h] # "idle" /\ local'[h].run = local[h].run
  BY <1>0, <1>5, WhoMoves, HandlerKeeps DEF Keeps
<1>6. QED
  BY <1>1, <1>2, <1>3, <1>4, <1>5 DEF Latest

LEMMA SamplerFieldKept ==
  ASSUME Inv, Idles, [Next]_vars, NEW x \in Threads
  PROVE  \/ local'[x].sampler = local[x].sampler
         \/ StopCurrentLogger(x)
         \/ x \in Handlers /\ (SpawnSampler(x) \/ RegisterSampler(x))
         \/ ReceiverRestarts \/ BoardReboots
<1> DEFINE Kept == local'[x].sampler = local[x].sampler
<1>0. /\ pc \in [Threads -> PCs] /\ local \in [Threads -> Locals]
      /\ Handlers \cap Timers = {} /\ Threads = Handlers \cup Timers
  BY ThreadsAssumption DEF Inv, TypeOK, Threads
<1>1. pc[x] \notin {"reap", "register"} => local[x].sampler = None
  BY DEF Idles
<1>2. ASSUME x \in Handlers, Receive(x) PROVE Kept
  BY <1>0, <1>1, <1>2 DEF Receive, Rest
<1>3. ASSUME x \in Handlers, Finish(x) PROVE Kept
  BY <1>0, <1>1, <1>3, RestFields DEF Finish
<1>4. ASSUME x \in Handlers,
             PopTimer(x) \/ RevokeTimer(x) \/ Schedule(x) \/ LaunchTimer(x) \/ DoStart(x)
      PROVE  Kept
  BY <1>4, PopTimerEffect, RevokeTimerEffect, ScheduleEffect, LaunchTimerEffect, DoStartEffect
<1>5. ASSUME DoStop(x) PROVE Kept
  BY <1>5, DoStopEffect
<1>6. ASSUME x \in Timers, Fire(x) \/ Guard(x) \/ FinishAutoStop(x) PROVE Kept
  BY <1>0, <1>1, <1>6, RestFields DEF Fire, Guard, FinishAutoStop
<1>7. ASSUME x \in Timers, NEW h \in Handlers,
             RevokeTimer(h) \/ Schedule(h) \/ LaunchTimer(h)
      PROVE  Kept
  BY <1>0, <1>1, <1>7, RevokeTimerEffect, ScheduleEffect, LaunchTimerEffect, RestFields
    DEF Idles
<1>8. QED
  BY WhoMoves, <1>2, <1>3, <1>4, <1>5, <1>6, <1>7 DEF HandlerStep, TimerStep

LEMMA LoggerKept ==
  ASSUME [Next]_vars
  PROVE  \/ UNCHANGED logger
         \/ \E th \in Threads : StopCurrentLogger(th)
         \/ \E h \in Handlers : SpawnSampler(h) \/ RegisterSampler(h)
         \/ \E s \in Samplers : SamplerExits(s)
         \/ ReceiverRestarts \/ BoardReboots
<1>1. ASSUME NEW h \in Handlers, Receive(h) \/ DoStart(h) \/ PopTimer(h) \/ RevokeTimer(h)
             \/ Schedule(h) \/ LaunchTimer(h) \/ Finish(h)
      PROVE  UNCHANGED logger
  BY <1>1
    DEF Receive, DoStart, StartFails, Configure, Arm, RestartUnit, PopTimer, RevokeTimer,
        Schedule, LaunchTimer, Finish
<1>2. ASSUME NEW th \in Threads, DoStop(th) PROVE UNCHANGED logger
  BY <1>2 DEF DoStop, Disarm, StopUnit, StopFails
<1>3. ASSUME NEW t \in Timers, Fire(t) \/ Guard(t) \/ FinishAutoStop(t)
      PROVE  UNCHANGED logger
  BY <1>3 DEF Fire, Guard, FinishAutoStop
<1>4. QED
  BY <1>1, <1>2, <1>3 DEF Next, HandlerStep, TimerStep, UnitRespawns, Threads, vars

\* A START takes the registered sampler before it registers its own, so that none
\* is forgotten: a sampler alive stays with the thread or the entry that has it.
LEMMA NoOrphanStep ==
  ASSUME Inv, Idles, [Next]_vars, NEW h \in Handlers, Handlers = {h}, SamplerTaken(h),
         NoOrphanSampler
  PROVE  SamplerTaken(h)' /\ NoOrphanSampler'
<1>0. /\ h \in Threads /\ pc \in [Threads -> PCs] /\ local \in [Threads -> Locals]
      /\ sampler \in [Samplers -> [run : RequestIds \cup {None}, alive : BOOLEAN]]
      /\ Handlers \cap Timers = {} /\ Threads = Handlers \cup Timers /\ None \notin Samplers
  BY ThreadsAssumption, NoneAssumption DEF Inv, TypeOK, Threads
<1>1. CASE ReceiverRestarts \/ BoardReboots
  BY <1>0, <1>1
    DEF ReceiverRestarts, BoardReboots, LoseReceiver, SamplerTaken, NoOrphanSampler, NoSampler
<1>2. ASSUME NEW s \in Samplers, SamplerExits(s) PROVE SamplerTaken(h)' /\ NoOrphanSampler'
  BY <1>0, <1>2
    DEF SamplerExits, SamplerTaken, Starting, NoOrphanSampler, Owned, NoSampler
<1>3. ASSUME NEW th \in Threads, StopCurrentLogger(th), ~ReceiverRestarts, ~BoardReboots
      PROVE  SamplerTaken(h)' /\ NoOrphanSampler'
  <2>1. \A x \in Threads \ {th} : local'[x].sampler = local[x].sampler
    BY <1>0, <1>3
      DEF StopCurrentLogger, PopSampler, ReplayBaseline, ReapSampler, RecordBaseline
  <2>2. NoOrphanSampler'
    <3>1. CASE pc[th] = "pop"
      <4>1. local[th].sampler = None
        BY <3>1 DEF Idles
      <4>2. QED
        BY <1>0, <1>3, <2>1, <3>1, <4>1, StopLoggerEffect DEF NoOrphanSampler, Owned
    <3>2. CASE pc[th] = "reap"
      <4>1. local[th].sampler \in Samplers
        BY <3>2 DEF Inv, SamplerHeld
      <4>2. ~sampler'[local[th].sampler].alive
        BY <1>0, <1>3, <3>2, <4>1, StopLoggerEffect DEF NoSampler
      <4>3. \A s \in Samplers \ {local[th].sampler} : sampler'[s] = sampler[s]
        BY <1>0, <1>3, <3>2, <4>1, StopLoggerEffect
      <4>4. UNCHANGED currentLogger
        BY <1>3, <3>2, StopLoggerEffect
      <4>5. QED
        BY <1>0, <2>1, <4>2, <4>3, <4>4 DEF NoOrphanSampler, Owned
    <3>3. CASE pc[th] \in {"replay", "record"}
      BY <1>0, <1>3, <2>1, <3>3, StopLoggerEffect DEF NoOrphanSampler, Owned
    <3>4. QED
      BY <1>3, <3>1, <3>2, <3>3, StopLoggerEffect
  <2>3. currentLogger' = None \/ UNCHANGED currentLogger
    BY <1>3, StopLoggerEffect
  <2>4. SamplerTaken(h)'
    <3>1. CASE th = h
      BY <1>0, <1>3, <3>1, StopLoggerEffect DEF SamplerTaken, Starting, Keeps
    <3>2. CASE th # h
      <4>1. pc'[h] = pc[h] /\ local'[h] = local[h]
        BY <1>0, <1>3, <3>2
          DEF StopCurrentLogger, PopSampler, ReplayBaseline, ReapSampler, RecordBaseline,
              GoTo
      <4>2. QED
        BY <2>3, <4>1 DEF SamplerTaken, Starting
    <3>3. QED
      BY <3>1, <3>2
  <2>5. QED
    BY <2>2, <2>4
<1>4. CASE SpawnSampler(h)
  <2>1. \A x \in Threads \ {h} : local'[x].sampler = local[x].sampler
    BY <1>0, <1>4 DEF SpawnSampler
  <2>2. local[h].sampler = None
    BY <1>0, <1>4 DEF Idles, SpawnSampler
  <2>3. QED
    BY <1>0, <1>4, <2>1, <2>2, SpawnEffect
      DEF NoOrphanSampler, Owned, SamplerTaken, Starting, Keeps
<1>5. CASE RegisterSampler(h)
  <2>1. \A x \in Threads \ {h} : local'[x].sampler = local[x].sampler
    BY <1>0, <1>5 DEF RegisterSampler
  <2>2. currentLogger = None
    BY <1>0, <1>5 DEF SamplerTaken, RegisterSampler, Inv, Routines, Places
  <2>3. QED
    BY <1>0, <1>5, <2>1, <2>2, RegisterEffect
      DEF NoOrphanSampler, Owned, SamplerTaken, Starting, Keeps
<1>6. ASSUME UNCHANGED logger,
             \A th \in Threads : ~StopCurrentLogger(th),
             ~SpawnSampler(h), ~RegisterSampler(h), ~ReceiverRestarts, ~BoardReboots
      PROVE  SamplerTaken(h)' /\ NoOrphanSampler'
  <2>1. \A x \in Threads : local'[x].sampler = local[x].sampler
    BY <1>6, SamplerFieldKept
  <2>2. NoOrphanSampler'
    BY <1>0, <1>6, <2>1 DEF NoOrphanSampler, Owned, logger
  <2>3. SamplerTaken(h)'
    <3>1. CASE pc'[h] = pc[h] /\ local'[h] = local[h]
      BY <1>6, <3>1 DEF SamplerTaken, Starting, logger
    <3>2. CASE Receive(h)
      BY <1>0, <3>2 DEF Receive, GoTo, SamplerTaken
    <3>3. CASE Finish(h)
      BY <1>0, <3>3 DEF Finish, GoTo, SamplerTaken
    <3>4. CASE DoStart(h)
      BY <1>6, <3>4, DoStartEffect DEF SamplerTaken, Starting, Keeps, logger
    <3>5. CASE PopTimer(h) \/ RevokeTimer(h) \/ Schedule(h) \/ LaunchTimer(h)
      BY <3>5, PopTimerEffect, RevokeTimerEffect, ScheduleEffect, LaunchTimerEffect
        DEF SamplerTaken, AfterCancel
    <3>6. CASE DoStop(h)
      BY <1>0, <3>6, DoStopEffect DEF SamplerTaken
    <3>7. QED
      BY <1>0, <1>6, WhoMoves, <3>1, <3>2, <3>3, <3>4, <3>5, <3>6 DEF HandlerStep
  <2>4. QED
    BY <2>2, <2>3
<1>7. QED
  BY LoggerKept, <1>0, <1>1, <1>2, <1>3, <1>4, <1>5, <1>6

LEMMA AttributedKept ==
  ASSUME Calms, NEW c \in Channels, NEW r, Attributed(c, r)
  PROVE  (c \in excused' \/ (unit'[c] \in {None, r} /\ (c \in armed' => config'[c] = r)))
  BY DEF Calms, Attributed, Started

LEMMA LastStartKept ==
  ASSUME [Next]_vars
  PROVE  \/ UNCHANGED lastStart
         \/ \E h \in Handlers : Finish(h)
         \/ ReceiverRestarts \/ BoardReboots
<1>1. ASSUME NEW h \in Handlers, Receive(h) \/ DoStart(h) \/ PopTimer(h) \/ RevokeTimer(h)
             \/ Schedule(h) \/ LaunchTimer(h) \/ SpawnSampler(h) \/ RegisterSampler(h)
      PROVE  UNCHANGED lastStart
  BY <1>1
    DEF Receive, DoStart, StartFails, Configure, Arm, RestartUnit, PopTimer, RevokeTimer,
        Schedule, LaunchTimer, SpawnSampler, RegisterSampler, registry
<1>2. ASSUME NEW th \in Threads, DoStop(th) \/ StopCurrentLogger(th)
      PROVE  UNCHANGED lastStart
  BY <1>2
    DEF DoStop, Disarm, StopUnit, StopFails, StopCurrentLogger, PopSampler, ReplayBaseline,
        ReapSampler, RecordBaseline, registry
<1>3. ASSUME NEW t \in Timers, Fire(t) \/ Guard(t) \/ FinishAutoStop(t)
      PROVE  UNCHANGED lastStart
  BY <1>3 DEF Fire, Guard, FinishAutoStop, registry
<1>4. QED
  BY <1>1, <1>2, <1>3
    DEF Next, HandlerStep, TimerStep, SamplerExits, UnitRespawns, Threads, vars, registry

\* Between commands every channel is left to the last START's run, as long as no
\* step of a START fails.
LEMMA AttributionStep ==
  ASSUME Inv, Idles, [Next]_vars, NEW h \in Handlers, Handlers = {h}, "start" \notin Faults,
         Attribution(h)
  PROVE  Attribution(h)'
<1>0. /\ h \in Threads /\ pc \in [Threads -> PCs] /\ local \in [Threads -> Locals]
      /\ local[h] \in Locals /\ Chan(h) \in 1..NumChannels /\ NumChannels \in Nat
      /\ armed \subseteq Channels /\ unit \in [Channels -> RequestIds \cup {None}]
      /\ config \in [Channels -> RequestIds \cup {None}]
      /\ Channels = 1..NumChannels
  BY LocalsFields, NumChannelsAssumption DEF Inv, TypeOK, Threads, Channels, Chan
<1>1. CASE ReceiverRestarts \/ BoardReboots
  BY <1>0, <1>1
    DEF ReceiverRestarts, BoardReboots, LoseReceiver, Attribution, Attributed, Starting, Rest,
        StartCommands, Live, Started
<1>2. CASE Configure(h)
  <2>1. pc'[h] = "arm" /\ local' = local /\ Starting(h)
    BY <1>0, <1>2 DEF Configure, GoTo, Inv, Routines, Places
  <2>2. config'[Chan(h)] = local[h].run
    BY <1>0, <1>2 DEF Configure
  <2>3. ASSUME NEW c \in Channels, c < Chan(h)
        PROVE  Attributed(c, local[h].run)'
    BY <1>0, <1>2, <2>1, <2>3 DEF Configure, Attribution, Through, Attributed
  <2>4. QED
    BY <2>1, <2>2, <2>3 DEF Attribution, Through, Starting, Chan
<1>3. CASE Arm(h)
  <2>1. pc'[h] = "restart" /\ local' = local /\ Starting(h) /\ UNCHANGED config
    BY <1>0, <1>3 DEF Arm, GoTo, Inv, Routines, Places
  <2>2. config[Chan(h)] = local[h].run
    BY <1>3, <2>1 DEF Arm, Attribution
  <2>3. ASSUME NEW c \in Channels, c < Chan(h)
        PROVE  Attributed(c, local[h].run)'
    BY <1>0, <1>3, <2>1, <2>3 DEF Arm, Attribution, Through, Attributed
  <2>4. QED
    BY <2>1, <2>2, <2>3 DEF Attribution, Through, Starting, Chan
<1>4. ASSUME ~Configure(h), ~Arm(h), ~ReceiverRestarts, ~BoardReboots PROVE Attribution(h)'
  <2>1. Calms
    BY <1>4, CalmStep
  <2>2. UNCHANGED lastStart \/ Finish(h)
    BY <1>4, LastStartKept
  <2>3. ASSUME Keeps(h), ~Starting(h), UNCHANGED lastStart PROVE Attribution(h)'
    <3>1. ~Starting(h)'
      BY <2>3 DEF Keeps, Starting
    <3>2. \A c \in Channels : Attributed(c, lastStart)'
      BY <2>1, <2>3, AttributedKept DEF Attribution, Attributed
    <3>3. QED
      BY <3>1, <3>2 DEF Attribution
  <2>4. CASE pc'[h] = pc[h] /\ local'[h] = local[h]
    <3>1. pc[h] # "finish" \/ ~Finish(h)
      BY <1>0, <2>4 DEF Finish, GoTo
    <3>2. UNCHANGED lastStart
      BY <2>2, <3>1 DEF Finish
    <3>3. CASE Starting(h)
      <4>1. \A c \in Channels : Through(h, c)' => Attributed(c, local[h].run)'
        BY <2>1, <2>4, <3>3, AttributedKept DEF Attribution, Attributed, Through, Chan
      <4>2. QED
        BY <2>1, <2>4, <3>3, <4>1 DEF Attribution, Starting, Chan, Calms
    <3>4. CASE ~Starting(h)
      BY <2>3, <2>4, <3>2, <3>4 DEF Keeps
    <3>5. QED
      BY <3>3, <3>4
  <2>5. CASE Receive(h)
    <3>1. UNCHANGED lastStart /\ ~Starting(h)
      BY <1>0, <2>5 DEF Receive, Idles, Starting, Rest, StartCommands
    <3>2. \A c \in Channels : Attributed(c, lastStart)'
      BY <2>1, <3>1, AttributedKept DEF Attribution, Attributed
    <3>3. Starting(h)' => pc'[h] = "pop" /\ local'[h].ch = 1
      BY <1>0, <2>5 DEF Receive, GoTo, Starting, Rest
    <3>4. QED
      BY <3>2, <3>3 DEF Attribution, Through, Chan
  <2>6. CASE Finish(h)
    <3>1. ~Starting(h)'
      BY <1>0, <2>6 DEF Finish, Starting, Rest, StartCommands
    <3>2. lastStart' = IF Starting(h) THEN local[h].run ELSE lastStart
      BY <2>6 DEF Finish
    <3>3. \A c \in Channels : Attributed(c, lastStart)'
      BY <2>1, <2>6, <3>2, AttributedKept DEF Attribution, Attributed, Through, Finish
    <3>4. QED
      BY <3>1, <3>3 DEF Attribution
  <2>7. ASSUME HandlerStep(h), ~Finish(h), Starting(h) PROVE Attribution(h)'
    <3>1. Keeps(h)
      BY <2>7, HandlerKeeps
    <3>2. ASSUME NEW c \in Channels, Through(h, c)
          PROVE  Attributed(c, local[h].run)'
      BY <2>1, <2>7, <3>1, <3>2, AttributedKept DEF Attribution, Attributed, Keeps
    <3>3. ASSUME \A c \in Channels : Through(h, c)' => Through(h, c),
                 pc'[h] \notin {"arm", "restart"},
                 pc'[h] \in {"pop", "replay", "reap", "record"} => local'[h].ch = 1
          PROVE  Attribution(h)'
      BY <2>7, <3>1, <3>2, <3>3 DEF Attribution, Attributed, Through, Keeps, Starting, Chan
    <3>4. CASE StopCurrentLogger(h)
      <4>1. Chan(h) = 1 /\ local'[h].ch = Chan(h)
        BY <1>0, <2>7, <3>4, StopLoggerEffect DEF Attribution
      <4>2. QED
        BY <1>0, <2>7, <3>3, <3>4, <4>1, StopLoggerEffect DEF AfterSampler, Through, Chan
    <3>5. CASE SpawnSampler(h) \/ RegisterSampler(h)
      BY <3>3, <3>5, SpawnEffect, RegisterEffect DEF Through
    <3>6. CASE PopTimer(h) \/ RevokeTimer(h) \/ Schedule(h) \/ LaunchTimer(h)
      BY <2>7, <3>3, <3>6, PopTimerEffect, RevokeTimerEffect, ScheduleEffect, LaunchTimerEffect
        DEF Through, AfterCancel
    <3>7. CASE RestartUnit(h)
      <4>1. /\ NextChannel(h, "config", AfterChannels(h), {})
            /\ unit' = [unit EXCEPT ![Chan(h)] = Started(Chan(h))]
            /\ pc[h] = "restart" /\ UNCHANGED <<armed, config>>
        BY <3>7 DEF RestartUnit
      <4>2. \/ Chan(h) < NumChannels /\ pc'[h] = "config" /\ local'[h].ch = Chan(h) + 1
            \/ Chan(h) = NumChannels /\ pc'[h] = AfterChannels(h) /\ local'[h].ch = Chan(h)
        BY <1>0, <4>1, NextChannelEffect DEF Inv
      <4>3. PICK d \in Channels : d = Chan(h)
        BY <1>0
      <4>4. Attributed(d, local[h].run)'
        BY <1>0, <2>7, <3>1, <4>1, <4>3 DEF Attribution, Attributed, Started, Keeps
      <4>5. \A c \in Channels : Through(h, c)' => Through(h, c) \/ c = d
        BY <1>0, <4>1, <4>2, <4>3 DEF Through, Chan, AfterChannels
      <4>6. \A c \in Channels : Through(h, c)' => Attributed(c, local[h].run)'
        BY <3>2, <4>4, <4>5
      <4>7. QED
        BY <2>7, <3>1, <4>2, <4>6 DEF Attribution, Attributed, Through, Keeps, Starting, AfterChannels
    <3>8. ~DoStop(h) /\ ~StartFails(h)
      BY <1>0, <2>7 DEF DoStop, Disarm, StopUnit, StopFails, StartFails, Inv, Routines, Places
    <3>9. QED
      BY <1>4, <2>7, <3>4, <3>5, <3>6, <3>7, <3>8 DEF HandlerStep, DoStart
  <2>8. ASSUME HandlerStep(h), ~Finish(h), ~Starting(h) PROVE Attribution(h)'
    BY <2>2, <2>3, <2>8, HandlerKeeps
  <2>9. QED
    BY <1>0, <1>4, <2>4, <2>5, <2>6, <2>7, <2>8, WhoMoves, ThreadsAssumption
<1>5. QED
  BY <1>1, <1>2, <1>3, <1>4
-----------------------------------------------------------------------------
(* The properties of one client *)

LEMMA OneClientInit ==
  Init => Idles /\ NoOrphanSampler /\ \A h \in Handlers :
            StopTruth(h) /\ Latest(h) /\ SamplerTaken(h) /\ Attribution(h)
<1> SUFFICES ASSUME Init
             PROVE  Idles /\ NoOrphanSampler /\ \A h \in Handlers :
                      StopTruth(h) /\ Latest(h) /\ SamplerTaken(h) /\ Attribution(h)
  OBVIOUS
<1>1. \A th \in Threads : pc[th] = "idle" /\ local[th] = Rest
  BY DEF Init
<1>2. Idles /\ NoOrphanSampler
  BY <1>1, RestFields DEF Init, Idles, NoOrphanSampler, NoSampler
<1>3. ASSUME NEW h \in Handlers
      PROVE  StopTruth(h) /\ Latest(h) /\ SamplerTaken(h) /\ Attribution(h)
  <2>1. pc[h] = "idle" /\ local[h] = Rest
    BY <1>1 DEF Threads
  <2>2. QED
    BY <2>1, RestFields
      DEF Init, StopTruth, Latest, SamplerTaken, Attribution, Attributed, Starting,
          StartCommands
<1>4. QED
  BY <1>2, <1>3

\* With one client that waits for each reply, a STOP that is accepted leaves no
\* channel armed or running, whatever crashes, retries and auto_stops there were,
\* if a disarm that fails is never reported as done.
THEOREM StopReplyTrueHolds ==
  ASSUME NEW h, Handlers = {h}, "disarm" \notin Faults
  PROVE  Spec => []StopReplyTrue
<1> DEFINE I == Inv /\ Idles /\ StopTruth(h)
<1>1. Init => I
  BY CoverageInit, OneClientInit
<1>2. I /\ [Next]_vars => I'
  <2> SUFFICES ASSUME I, [Next]_vars PROVE I'
    OBVIOUS
  <2>1. Inv' /\ Idles'
    BY InvStep, IdlesStep
  <2>2. local'[h].cmd = "STOP_TEST" => Calms
    <3>1. ASSUME Configure(h) \/ Arm(h) PROVE local'[h].cmd # "STOP_TEST"
      BY <3>1 DEF Configure, Arm, Inv, Routines, Places, Starting, StartCommands, Threads
    <3>2. QED
      BY <3>1, CalmStep
  <2>3. StopTruth(h)'
    BY <2>2, StopTruthStep
  <2>4. QED
    BY <2>1, <2>3
<1>3. I => StopReplyTrue
  BY DEF StopTruth, StopReplyTrue, Passed
<1> HIDE DEF I
<1>4. QED
  BY <1>1, <1>2, <1>3, PTL DEF Spec

\* With one client, the services that run between commands log for the last START,
\* and would after a crash, if no step of a START fails.
THEOREM RunAttributionHolds ==
  ASSUME NEW h, Handlers = {h}, "start" \notin Faults
  PROVE  Spec => []RunAttribution
<1> DEFINE I == Inv /\ Idles /\ Attribution(h)
<1>1. Init => I
  BY CoverageInit, OneClientInit
<1>2. I /\ [Next]_vars => I'
  BY InvStep, IdlesStep, AttributionStep
<1>3. I => RunAttribution
  <2> SUFFICES ASSUME I, pc[h] = "idle", NEW c \in Channels
               PROVE  unit[c] \in {None, lastStart} \/ c \in excused
    BY DEF RunAttribution
  <2>1. ~Starting(h)
    BY RestFields DEF Idles, Starting, StartCommands, Threads
  <2>2. QED
    BY <2>1 DEF Attribution, Attributed
<1> HIDE DEF I
<1>4. QED
  BY <1>1, <1>2, <1>3, PTL DEF Spec

\* With one client, no sampler is ever out of the receiver's reach, whatever fails.
THEOREM NoOrphanSamplerHolds ==
  ASSUME NEW h, Handlers = {h}
  PROVE  Spec => []NoOrphanSampler
<1> DEFINE I == Inv /\ Idles /\ SamplerTaken(h) /\ NoOrphanSampler
<1>1. Init => I
  BY CoverageInit, OneClientInit
<1>2. I /\ [Next]_vars => I'
  BY InvStep, IdlesStep, NoOrphanStep
<1>3. I => NoOrphanSampler
  OBVIOUS
<1> HIDE DEF I
<1>4. QED
  BY <1>1, <1>2, <1>3, PTL DEF Spec

\* With one client, a repeated request is answered with its own results, whatever
\* fails.
THEOREM RetryAnswerHolds ==
  ASSUME NEW h, Handlers = {h}
  PROVE  Spec => []RetryAnswer
<1> DEFINE I == Inv /\ Latest(h)
<1>1. Init => I
  BY CoverageInit, OneClientInit
<1>2. I /\ [Next]_vars => I'
  BY InvStep, LatestStep
<1>3. I => RetryAnswer
  BY DEF Latest, RetryAnswer
<1> HIDE DEF I
<1>4. QED
  BY <1>1, <1>2, <1>3, PTL DEF Spec
-----------------------------------------------------------------------------
(* One request after another: the board under a coordinator *)

\* A thread that serves a request serves one that was sent with its command, and
\* no two serve the same.
ServedOnce ==
  /\ \A h \in Handlers : pc[h] # "idle" =>
       /\ local[h].run \in RequestIds /\ issued[local[h].run] = local[h].cmd
       /\ local[h].cmd \in StartCommands \cup {"STOP_TEST"}
  /\ \A g, h \in Handlers :
       pc[g] # "idle" /\ pc[h] # "idle" /\ local[g].run = local[h].run => g = h

\* Run r is the only one on the board: being started, running or armed.
ForRun(r) ==
  /\ \A h \in Handlers : Starting(h) =>
       local[h].run = r /\ (pc[h] \in {"arm", "restart"} => config[Chan(h)] = r)
  /\ \A c \in Channels : unit[c] \in {None, r} /\ (c \in armed => config[c] = r)

OnBoard(r) ==
  \/ \E h \in Handlers : Starting(h) /\ local[h].run = r
  \/ \E c \in Channels : unit[c] = r \/ (c \in armed /\ config[c] = r)

LEMMA BoardInit == Init => ServedOnce /\ ForRun(None) /\ \A h \in Handlers : ~Starting(h)
  BY DEF Init, ServedOnce, ForRun, Starting, Rest, StartCommands, Threads

LEMMA ReceiveEffect ==
  ASSUME Inv, NEW h \in Handlers, Receive(h)
  PROVE  /\ pc[h] = "idle" /\ pc'[h] \in {"pop", "cancel"}
         /\ local'[h].cmd = "STOP_TEST" => pc'[h] = "cancel"
         /\ local'[h].run \in RequestIds /\ local'[h].cmd \in StartCommands \cup {"STOP_TEST"}
         /\ local'[h].failed = {}
         /\ AllowRetry = FALSE => issued[local'[h].run] = None
         /\ issued' = [issued EXCEPT ![local'[h].run] = local'[h].cmd]
         /\ \A x \in Threads \ {h} : pc'[x] = pc[x] /\ local'[x] = local[x]
         /\ UNCHANGED dut
<1>1. h \in Threads /\ pc \in [Threads -> PCs] /\ local \in [Threads -> Locals]
  BY DEF Inv, TypeOK, Threads
<1>2. PICK id \in RequestIds, cmd \in Commands :
        /\ issued[id] = None \/ (AllowRetry /\ issued[id] = cmd)
        /\ GoTo(h, IF cmd \in StartCommands THEN "pop" ELSE "cancel")
        /\ local' = [local EXCEPT ![h] = [Rest EXCEPT !.cmd = cmd, !.run = id]]
        /\ issued' = [issued EXCEPT ![id] = cmd]
  BY DEF Receive
<1>3. local'[h] = [Rest EXCEPT !.cmd = cmd, !.run = id]
  BY <1>1, <1>2
<1>4. local'[h].run = id /\ local'[h].cmd = cmd /\ local'[h].failed = {}
  BY <1>3 DEF Rest
<1>5. QED
  BY <1>1, <1>2, <1>4, CommandsAssumption DEF Receive, GoTo, StartCommands

LEMMA FinishEffect ==
  ASSUME Inv, NEW h \in Handlers, Finish(h)
  PROVE  /\ pc[h] = "finish" /\ pc'[h] = "idle" /\ local'[h] = Rest /\ ~Starting(h)'
         /\ UNCHANGED <<dut, issued>>
         /\ \A x \in Threads \ {h} : pc'[x] = pc[x] /\ local'[x] = local[x]
  BY RestFields DEF Finish, GoTo, Inv, TypeOK, Threads, Starting, StartCommands

\* What a handler does is receive, serve, reply, or be lost with the receiver.
LEMMA HandlerMoves ==
  ASSUME Inv, [Next]_vars, NEW h \in Handlers
  PROVE  \/ pc'[h] = pc[h] /\ local'[h] = local[h]
         \/ Receive(h)
         \/ HandlerStep(h) /\ ~Finish(h) /\ Keeps(h) /\ pc[h] # "idle" /\ pc'[h] # "idle"
         \/ pc'[h] = "idle" /\ local'[h] = Rest
<1>1. h \in Threads /\ h \notin Timers
  BY ThreadsAssumption DEF Threads
<1>2. Finish(h) => pc'[h] = "idle" /\ local'[h] = Rest
  BY FinishEffect
<1>3. HandlerStep(h) /\ ~Finish(h) => Keeps(h) /\ pc[h] # "idle" /\ pc'[h] # "idle"
  BY HandlerKeeps
<1>4. QED
  BY <1>1, <1>2, <1>3, WhoMoves

\* Only the receipt of a request changes what was sent.
LEMMA ThreadsIssueNothing ==
  /\ \A h \in Handlers : HandlerStep(h) => UNCHANGED issued
  /\ \A t \in Timers : TimerStep(t) => UNCHANGED issued
  /\ \A s \in Samplers : SamplerExits(s) => UNCHANGED issued
  /\ \A c \in Channels : UnitRespawns(c) => UNCHANGED issued
<1>1. ASSUME NEW h \in Handlers, HandlerStep(h) PROVE UNCHANGED issued
  BY <1>1
    DEF HandlerStep, DoStart, StartFails, Configure, Arm, RestartUnit, PopTimer, RevokeTimer,
        Schedule, LaunchTimer, SpawnSampler, RegisterSampler, DoStop, Disarm, StopUnit,
        StopFails, StopCurrentLogger, PopSampler, ReplayBaseline, ReapSampler,
        RecordBaseline, Finish
<1>2. ASSUME NEW t \in Timers, TimerStep(t) PROVE UNCHANGED issued
  BY <1>2
    DEF TimerStep, DoStop, Disarm, StopUnit, StopFails, StopCurrentLogger, PopSampler,
        ReplayBaseline, ReapSampler, RecordBaseline, Fire, Guard, FinishAutoStop
<1>3. QED
  BY <1>1, <1>2 DEF SamplerExits, UnitRespawns

LEMMA IssuedKept ==
  ASSUME [Next]_vars
  PROVE  UNCHANGED issued \/ \E h \in Handlers : Receive(h)
  BY ThreadsIssueNothing DEF Next, ReceiverRestarts, BoardReboots, LoseReceiver, vars

LEMMA ReceiveIssues ==
  ASSUME Inv, NEW h \in Handlers, Receive(h), AllowRetry = FALSE
  PROVE  issued' # issued
<1>1. /\ local'[h].cmd \in StartCommands \cup {"STOP_TEST"}
      /\ local'[h].run \in RequestIds /\ issued[local'[h].run] = None
      /\ issued' = [issued EXCEPT ![local'[h].run] = local'[h].cmd]
  BY ReceiveEffect
<1>2. issued \in [RequestIds -> StartCommands \cup {"STOP_TEST", None}]
  BY DEF Inv, TypeOK
<1>3. issued'[local'[h].run] = local'[h].cmd
  BY <1>1, <1>2
<1>4. QED
  BY <1>1, <1>3, NoneAssumption

\* Without retries no request is ever served twice.
LEMMA ServedStep ==
  ASSUME Inv, [Next]_vars, AllowRetry = FALSE, ServedOnce
  PROVE  ServedOnce'
<1>0. issued \in [RequestIds -> StartCommands \cup {"STOP_TEST", None}]
  BY DEF Inv, TypeOK
<1>1. CASE \E h \in Handlers : Receive(h)
  <2>1. PICK h \in Handlers : Receive(h)
    BY <1>1
  <2>2. /\ local'[h].run \in RequestIds /\ issued[local'[h].run] = None
        /\ issued' = [issued EXCEPT ![local'[h].run] = local'[h].cmd]
        /\ local'[h].cmd \in StartCommands \cup {"STOP_TEST"}
        /\ \A g \in Handlers \ {h} : pc'[g] = pc[g] /\ local'[g] = local[g]
    BY <2>1, ReceiveEffect DEF Threads
  <2>3. ASSUME NEW g \in Handlers \ {h}, pc'[g] # "idle"
        PROVE  local'[g].run \in RequestIds /\ local'[g].run # local'[h].run
               /\ issued'[local'[g].run] = local'[g].cmd
    <3>1. /\ issued[local[g].run] = local[g].cmd /\ local[g].run \in RequestIds
          /\ local[g].cmd \in StartCommands \cup {"STOP_TEST"} /\ local'[g] = local[g]
      BY <2>2, <2>3 DEF ServedOnce
    <3>2. local[g].cmd # None
      BY <3>1, NoneAssumption
    <3>3. QED
      BY <1>0, <2>2, <2>3, <3>1, <3>2
  <2>4. QED
    <3>1. \A g \in Handlers : pc'[g] # "idle" =>
            /\ local'[g].run \in RequestIds /\ issued'[local'[g].run] = local'[g].cmd
            /\ local'[g].cmd \in StartCommands \cup {"STOP_TEST"}
      BY <1>0, <2>2, <2>3 DEF ServedOnce
    <3>2. ASSUME NEW g \in Handlers, NEW x \in Handlers, pc'[g] # "idle", pc'[x] # "idle",
                 local'[g].run = local'[x].run
          PROVE  g = x
      BY <2>2, <2>3, <3>2 DEF ServedOnce
    <3>3. QED
      BY <3>1, <3>2 DEF ServedOnce
<1>2. CASE ~ \E h \in Handlers : Receive(h)
  <2>1. UNCHANGED issued
    BY <1>2, IssuedKept
  <2>2. \A h \in Handlers : pc'[h] # "idle" =>
          pc[h] # "idle" /\ local'[h].run = local[h].run /\ local'[h].cmd = local[h].cmd
    BY <1>2, HandlerMoves DEF Keeps
  <2>3. QED
    BY <2>1, <2>2 DEF ServedOnce
<1>3. QED
  BY <1>1, <1>2

\* A START has nothing to report while none of its steps fails.
LEMMA CleanStep ==
  ASSUME Inv, [Next]_vars, "start" \notin Faults, NEW h \in Handlers,
         Starting(h) => local[h].failed = {}
  PROVE  Starting(h)' => local'[h].failed = {}
<1>0. h \in Threads /\ pc \in [Threads -> PCs] /\ local \in [Threads -> Locals]
      /\ local[h] \in Locals
  BY DEF Inv, TypeOK, Threads
<1>1. ASSUME HandlerStep(h), ~Finish(h), Starting(h)
      PROVE  local'[h].failed = local[h].failed
  <2>1. CASE StopCurrentLogger(h)
    BY <1>0, <2>1, StopLoggerEffect
  <2>2. CASE PopTimer(h) \/ RevokeTimer(h) \/ Schedule(h) \/ LaunchTimer(h)
    BY <2>2, PopTimerEffect, RevokeTimerEffect, ScheduleEffect, LaunchTimerEffect
  <2>3. CASE Configure(h) \/ Arm(h)
    BY <2>3 DEF Configure, Arm
  <2>4. CASE StartFails(h) \/ RestartUnit(h)
    <3>1. PICK bad : NextChannel(h, "config", AfterChannels(h), bad) /\ bad = {}
      BY <2>4 DEF StartFails, RestartUnit
    <3>2. local'[h] = Advance(local[h], bad)
      BY <1>0, <3>1 DEF NextChannel
    <3>3. local'[h].failed = local[h].failed \cup bad
      BY <1>0, <3>2, AdvanceFields
    <3>4. QED
      BY <3>1, <3>3
  <2>5. CASE SpawnSampler(h)
    <3>1. PICK s : local' = [local EXCEPT ![h].sampler = s]
      BY <2>5 DEF SpawnSampler
    <3>2. QED
      BY <1>0, <3>1 DEF Locals
  <2>6. CASE RegisterSampler(h)
    BY <1>0, <2>6 DEF RegisterSampler, Locals
  <2>7. ~DoStop(h)
    BY <1>0, <1>1 DEF DoStop, Disarm, StopUnit, StopFails, Inv, Routines, Places
  <2>8. QED
    BY <1>1, <2>1, <2>2, <2>3, <2>4, <2>5, <2>6, <2>7 DEF HandlerStep, DoStart
<1>2. QED
  BY <1>1, HandlerMoves, ReceiveEffect, RestFields DEF Starting, StartCommands, Keeps

\* The board stays with its run while no other run is started.
LEMMA ForRunStep ==
  ASSUME Inv, [Next]_vars, NEW r, ForRun(r),
         \A h \in Handlers : Receive(h) /\ Starting(h)' => local'[h].run = r
  PROVE  ForRun(r)'
<1>0. /\ pc \in [Threads -> PCs] /\ local \in [Threads -> Locals] /\ Handlers \subseteq Threads
      /\ config \in [Channels -> RequestIds \cup {None}]
      /\ \A h \in Handlers : local[h] \in Locals /\ Chan(h) \in Channels
      /\ Calms => config' = config
  BY LocalsFields DEF Inv, TypeOK, Threads, Chan, Calms
<1>1. ASSUME NEW g \in Handlers, Configure(g) \/ Arm(g)
      PROVE  /\ Starting(g) /\ local[g].run = r /\ UNCHANGED unit
             /\ Configure(g) => config' = [config EXCEPT ![Chan(g)] = r] /\ UNCHANGED armed
             /\ Arm(g) => /\ UNCHANGED config /\ armed' = armed \cup {Chan(g)}
                          /\ config[Chan(g)] = r
  BY <1>0, <1>1 DEF Configure, Arm, Inv, Routines, Places, ForRun
<1>2. \A d \in Channels : config'[d] \in {config[d], r}
  BY <1>0, <1>1, CalmStep
<1>3. ASSUME NEW c \in Channels
      PROVE  unit'[c] \in {None, r} /\ (c \in armed' => config'[c] = r)
  <2>1. CASE Calms
    BY <2>1 DEF ForRun, Calms, Started
  <2>2. ASSUME NEW g \in Handlers, Configure(g) \/ Arm(g)
        PROVE  unit'[c] \in {None, r} /\ (c \in armed' => config'[c] = r)
    BY <1>0, <1>1, <1>2, <2>2 DEF ForRun
  <2>3. QED
    BY <2>1, <2>2, CalmStep
<1>4. ASSUME NEW h \in Handlers, Starting(h)'
      PROVE  local'[h].run = r /\ (pc'[h] \in {"arm", "restart"} => config'[local'[h].ch] = r)
  <2>1. CASE pc'[h] = pc[h] /\ local'[h] = local[h]
    BY <1>0, <1>2, <1>4, <2>1 DEF ForRun, Starting, Chan
  <2>2. CASE Receive(h)
    BY <1>4, <2>2, ReceiveEffect
  <2>3. CASE pc'[h] = "idle" /\ local'[h] = Rest
    BY <1>4, <2>3, RestFields DEF Starting, StartCommands
  <2>4. ASSUME HandlerStep(h), ~Finish(h), Keeps(h)
        PROVE  local'[h].run = r /\ (pc'[h] \in {"arm", "restart"} => config'[local'[h].ch] = r)
    <3>1. Starting(h) /\ local[h].run = r /\ local'[h].run = r
      BY <1>4, <2>4 DEF Keeps, Starting, ForRun
    <3>2. CASE Configure(h) \/ Arm(h)
      BY <1>0, <1>1, <3>1, <3>2 DEF Configure, Arm, Chan
    <3>3. CASE StopCurrentLogger(h)
      BY <1>0, <3>1, <3>3, StopLoggerEffect DEF AfterSampler
    <3>4. CASE SpawnSampler(h) \/ RegisterSampler(h)
      BY <3>1, <3>4, SpawnEffect, RegisterEffect
    <3>5. CASE PopTimer(h) \/ RevokeTimer(h) \/ Schedule(h) \/ LaunchTimer(h)
      BY <3>1, <3>5, PopTimerEffect, RevokeTimerEffect, ScheduleEffect, LaunchTimerEffect
        DEF AfterCancel
    <3>6. CASE StartFails(h) \/ RestartUnit(h)
      <4>1. PICK bad : NextChannel(h, "config", AfterChannels(h), bad)
        BY <3>6 DEF StartFails, RestartUnit
      <4>2. pc'[h] \in {"config", AfterChannels(h)}
        BY <1>0, <4>1, NextChannelEffect DEF Inv
      <4>3. QED
        BY <3>1, <4>2 DEF AfterChannels
    <3>7. CASE DoStop(h)
      BY <1>0, <3>1, <3>7, DoStopEffect
    <3>8. QED
      BY <2>4, <3>2, <3>3, <3>4, <3>5, <3>6, <3>7 DEF HandlerStep, DoStart
  <2>5. QED
    BY <2>1, <2>2, <2>3, <2>4, HandlerMoves
<1>5. QED
  BY <1>3, <1>4 DEF ForRun, Starting, Chan

\* No run gets onto the board but by a START that is received.
LEMMA OnBoardStep ==
  ASSUME Inv, [Next]_vars, NEW q, ForRun(q), NEW r, r # None, OnBoard(r)'
  PROVE  OnBoard(r) \/ \E h \in Handlers : Receive(h) /\ Starting(h)' /\ local'[h].run = r
<1> SUFFICES ASSUME ~ \E h \in Handlers : Receive(h) /\ Starting(h)' /\ local'[h].run = r
             PROVE  OnBoard(r)
  OBVIOUS
<1>0. /\ local \in [Threads -> Locals] /\ Handlers \subseteq Threads
      /\ config \in [Channels -> RequestIds \cup {None}]
      /\ \A h \in Handlers : Chan(h) \in Channels
  BY LocalsFields DEF Inv, TypeOK, Threads, Chan
<1>1. ASSUME NEW h \in Handlers, Starting(h)', local'[h].run = r PROVE OnBoard(r)
  <2>1. Starting(h) /\ local[h].run = r
    BY <1>1, HandlerMoves, RestFields DEF Keeps, Starting, StartCommands
  <2>2. QED
    BY <2>1 DEF OnBoard
<1>2. ASSUME NEW c \in Channels, unit'[c] = r \/ (c \in armed' /\ config'[c] = r)
      PROVE  OnBoard(r)
  <2>1. CASE Calms
    BY <1>2, <2>1 DEF Calms, OnBoard, Started
  <2>2. ASSUME NEW g \in Handlers, Configure(g) \/ Arm(g) PROVE OnBoard(r)
    <3>1. Starting(g) /\ UNCHANGED unit
      BY <1>0, <2>2 DEF Configure, Arm, Inv, Routines, Places
    <3>2. CASE Configure(g)
      <4>1. config' = [config EXCEPT ![Chan(g)] = local[g].run] /\ UNCHANGED armed
        BY <3>2 DEF Configure
      <4>2. QED
        BY <1>0, <1>2, <3>1, <4>1 DEF OnBoard
    <3>3. CASE Arm(g)
      <4>1. UNCHANGED config /\ armed' = armed \cup {Chan(g)}
        BY <3>3 DEF Arm
      <4>2. config[Chan(g)] = local[g].run
        BY <3>1, <3>3 DEF Arm, ForRun
      <4>3. QED
        BY <1>0, <1>2, <3>1, <4>1, <4>2 DEF OnBoard
    <3>4. QED
      BY <2>2, <3>2, <3>3
  <2>3. QED
    BY <2>1, <2>2, CalmStep
<1>3. QED
  BY <1>1, <1>2 DEF OnBoard, Starting
=============================================================================
