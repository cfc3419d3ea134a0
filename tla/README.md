# Verification of the Orin SEE test suite

TLA+ models, TLC runs and TLAPS proofs for the control and telemetry software of
this repository: a radiation test of a Jetson board (the DUT), operated from a
computer outside the beam (the arbiter). File names are those of the repository;
line numbers refer to the commit the models were written from. `PROJECT.json`
maps every definition to the lines it translates.

## 1. The system

| Component | State | Operations | Interacts by |
|---|---|---|---|
| Test-control receiver `jetson/control/control_receiver.py` | `state` (last request, its results, run timer, sampler entry, last baseline); one handler thread per TCP connection, one `threading.Timer` per run | START_TEST, BASELINE_TEST, STOP_TEST, auto_stop | ARMED flags, channel configs, `systemctl`, a sampler subprocess, one JSON reply per command |
| Channel services `*.service`, under systemd | unit running or not, the `run_id` its process took from its config | restart, stop, respawn after a crash, start at boot, `ConditionPathExists=ARMED` | flag file and config written by the receiver; JSONL logs |
| Current sampler `jetson/power/current_logger.py` | process, CSV, statistics | sample until `--duration-s` or a signal, write the summary | spawned and reaped by the receiver |
| Coordinator GUI `arbiter/coordinator/coordinator/ui.py`, `transport.py` | CoordinatorState, active request, mirror auto-stop timer, DUT health | Start, Baseline, Stop, change of DUT, poll of SEE counts, log pull | TCP to the receiver, files pulled by rsync |
| SEE tailer `see_monitor.py` | byte offset per log file, counts | poll, classify | reads the mirror that the log pull rewrites |
| Heartbeat sender / listener `heartbeat_sender.py`, `heartbeat_listener.py` | sequence number / last boot, last sequence, link state | send; receive, time out | UDP: lossy, duplicating, reordering |
| Memory tester `jetson/memory/mem_check.py` | buffer, sweep and upset counters | paint, compare, report, scrub, checkpoint | a channel service; JSONL log |
| CUDA particles workload `jetson/compute/cuda_particles/particles_main.cpp` | golden table, epoch, step, copies of the state, `running.flag` | step, checkpoint, compare, dump, report a fault | a channel service; JSONL log, dumps |
| SEE dump triage `see_dump_triage.py` | none | verdict on each dump of a log | reads the log, the dumps and the golden table |
| Log pull `arbiter_main.py`, `pull_logs.sh` | the mirror of the DUT's files | pull, by rsync or scp | the only writer of what tailer and GUI read |
| Requests `request.py`, `constants.py`, the campaign GUI; `validate`, `run_metadata`, `apply_metadata` of the receiver | channel configs | make, send, validate, apply | the same rules written on both sides of the link |
| Boot-state logger, power reader, event envelope, mock DUT, scripts | see `PROJECT.json` | | |

Commands go one way, GUI to receiver, one connection each, one JSON line and one
reply. Logs go the other way through the rsync pull. Heartbeats are independent
of both: a DUT under test must be observable when its control path is not.

### What is hard about it

* The receiver runs a handler thread per connection and a timer thread per run.
  One lock guards the accesses to `state`; the flags, configs, services and the
  sampler are changed outside it. STARTs, STOPs and auto_stops interleave there.
* Each run has *two* timers of the same length, the DUT's auto_stop and the
  GUI's mirror of it, so a STOP and an auto_stop for one run at the same moment
  are the ordinary case and not an accident.
* Boards in a beam crash and reboot. Services come back by the ARMED flag; the
  receiver's timers, kept in memory, do not.
* A client that loses a reply repeats its request, or gives up and believes
  nothing runs.
* The GUI re-enters its event loop inside dialogs and long pulls.
* Heartbeats are lost, reordered and duplicated; a reboot resets the sequence.
* The GUI reads files that a pull is rewriting and the DUT is appending to: lines
  and rows are torn, and a crash of the DUT takes back what was not yet written.
* A bit flips between any two statements of the program that looks for it.
* systemd starts a workload again within a run, with its counters at zero and the
  files of its predecessor in place.
* Two programs count the same effects from the same records by different rules.

### What makes each component correct

* Receiver: a run ends on time whatever the network does; no armed channel,
  running service or sampler without somebody to stop it; an accepted STOP means
  stopped; records of a run go to that run; a retry is acted on once.
* Channel services: run only when armed; never log for an earlier run.
* Coordinator: its state agrees with the DUT's, or says that it does not know; it
  always returns to IDLE; every baseline's CSV is collected once, for its DUT.
* Heartbeat: reported gaps are losses; silence is noticed in time, and only
  silence is.
* Tailer: every whole record is shown once.
* Current sampler: summary and averages say what the CSV holds; no row is early.
* Memory tester: every flip is counted once or was painted over; the log adds up.
* CUDA workload: one event per epoch that was hit; a crash is a record; a dump
  shows where its epoch was hit.
* Requests: what one side offers the other accepts; nothing of an earlier run's
  metadata survives.
* The live count and the CSV's count of a run's effects agree, where they can.

`PROJECT.json` lists the hazards at their lines with the properties that cover
them; a hazard that none covers says why.

## 2. Modules

| Module | Models | Contents |
|---|---|---|
| `ControlReceiver` | the receiver with the services and the sampler it drives | 26 actions, the properties |
| `MCReceiver` | its instances for TLC | symmetry |
| `ControlReceiverProofs` | theorems about `ControlReceiver` | inductive invariant, proofs |
| `Coordinator` | the GUI's run control: states, dialogs, request, mirror timer | 14 actions, the properties |
| `CoordinatorProofs` | theorems about `Coordinator` | inductive invariant, proofs |
| `MCCoordinator` | its instance for `declined_stop` | |
| `TestRun` | the abstract promise: a run begins, ends, is reported | 3 actions |
| `TestSystem` | `Coordinator` and an instance of `ControlReceiver`, joined by TCP calls | composition, refinement of `TestRun` |
| `TestSystemProofs` | theorems about `TestSystem` | inductive invariant, the refinement of `TestRun` |
| `MCTestSystem` | its instance for TLC | symmetry |
| `HeartbeatLink`, `HeartbeatLinkProofs` | sender, network and listener of the heartbeats | 11 actions; 4 theorems |
| `CurrentLogger` | the sampler's loop | 8 actions |
| `MemCheck`, `MemCheckProofs` | the memory tester under flips | 11 actions; 3 theorems |
| `Particles`, `ParticlesProofs` | the CUDA workload over restarts, and the triage of its dumps | 15 actions; 4 theorems |
| `LogMirror` | one log, its mirror and the tailer | 9 actions |
| `BaselineFiles` | how a baseline's CSV gets into `results/` | 8 actions |
| `Requests` | `create` and `validate`, metadata | 2 actions over all forms |
| `SeeTally` | the live count and the CSV's count of effects | 11 actions |
| `MCArbiter` | `LogMirror`, `BaselineFiles`, `Coordinator` side by side | one part per behaviour |
| `ArbiterProofs` | theorems about `LogMirror`, `BaselineFiles` and `MCArbiter` | 8 theorems |
| `MCWorkloads` | `HeartbeatLink`, `CurrentLogger`, `MemCheck`, `Particles`, `Requests`, `SeeTally` side by side | one part per behaviour |
| `WorkloadsProofs` | theorems about `CurrentLogger`, `Requests`, `SeeTally` and `MCWorkloads` | 11 theorems |

### ControlReceiver and the code

A thread (`Handlers`, `Timers`) has a place `pc` and local variables `local`. A
step is a section under `state["lock"]` or one call that changes the DUT, so that
everything another thread can see in between is in the model:

| Code | Actions |
|---|---|
| `handle_message` to its branches (916-951) | `Receive`; duplicates and invalid requests change nothing |
| `stop_current_logger` (681-728) | `PopSampler`, then `ReplayBaseline` or `ReapSampler`, `RecordBaseline` |
| `do_start` (496-536), per channel | `Configure`, `Arm`, `RestartUnit`; `StartFails` for the exceptions |
| `start_current_logger` (616-678) | `SpawnSampler`, `RegisterSampler` |
| `cancel_auto_stop` (869-875) | `PopTimer`, `RevokeTimer` |
| `schedule_auto_stop` (902-911) | `Schedule`, `LaunchTimer` |
| `auto_stop` (878-899) | `Fire`, `Guard`, then do_stop, stop_current_logger, `FinishAutoStop` |
| `do_stop` (539-575), per channel | `Disarm`, `StopUnit`, `StopFails` up to three times |
| the end of `handle_message` (1014-1018) | `Finish` |
| around the receiver | `SamplerExits`, `UnitRespawns`, `ReceiverRestarts`, `BoardReboots` |

A timer thread goes "new" (created), "pending" (started), "guard" (the callback
runs); `cancel()` on a created timer makes it "revoked", since `start()` on a
cancelled Timer ends at once, and a callback that runs already is not affected.

`issued` and `excused` are history variables: the command a request_id was sent
with, and the channels nobody is to be blamed for, whose stop failed (the reply
says so) or whose receiver died. They restrict no action.

Abstracted: a request is its command and its request_id, a run is its request_id,
a duration is "some time". Left out here: the text of replies and the control
log. `cfg["current_logger"]` is taken as enabled; disabled is the case in
which nothing is ever spawned. Handler threads are assumed not to raise outside
the code's own `try` blocks. The validation and the metadata are in `Requests`, the
summary of a run's logs is in `SeeTally`, and the sampler from the inside is in
`CurrentLogger`.

### Coordinator and the code

All of `ui.py`'s run control runs on the one Tk thread, in handlers that block it
for the time of `transport.send` and not for that of a dialog: a dialog runs a
nested event loop that keeps the main window's buttons out and `after` callbacks,
such as the mirror auto-stop, in. So a state of the model is one of

* no request out (`TkFree`): any due callback may run, and the newest dialog may be
  answered (`dialogs` is the stack of open dialogs; the handler below another one
  resumes last), or, without a dialog, a button pressed;
* a request out (`call`): only its end can happen.

| Code | Actions |
|---|---|
| `_on_start_test`, `_on_baseline_test` to the confirmation (1380-1478, 1570-1645) | `AskStart` |
| the rest of them, to the request (1493-1521, 1663-1701) | `SendStart`, `StartUnrecorded`, `Decline` |
| `_on_stop_test` (1786-1934) | `AskStop`, `SendStop`, `Decline` |
| `_auto_stop_fire` (1370-1378), which calls `_on_stop_test(automatic=True)` | `FireMirror` |
| the end of a START (1521-1568, 1699-1784) | `StartAccepted`, `StartFailed`, `StartRaises` |
| the end of a STOP (1932-2041) | `StopAccepted`, `StopFailed`, `StopRaises` |
| messagebox | `Dismiss` |

`transport.send` takes a request_id's reply or raises (132-216), so its outcomes are
an accepted reply, a rejected one, and a lost one (refused, timed out, malformed),
which the handlers do not tell apart from a rejection. `Mishaps` names what else may
happen: the operator declines, the audit record cannot be saved (no request is
sent), or the work after an accepted reply raises. `asked` and `reported` are
history variables; `asked` also makes a run's id fresh, as the code does by a time
stamp (2107-2108).

Left out, since they do not act on the run control: the check of the DUT's
identity, the elapsed clock, closing the window. The forms are in `Requests`, result
files in `BaselineFiles`, the SEE poll in `LogMirror` and `SeeTally`.

### TestSystem and TestRun

`TestSystem` runs the GUI's steps and the receiver's: `Deliver` gives the request
that is out to an idle handler of the receiver, `Reply` joins the handler's last
step to the end of the call, if the GUI still waits for it, and `CallFails` ends the
call at any time before: the handler goes on, and the next request finds another
one. A request that the receiver accepts only after the GUI gave it up is not
modelled: the server takes a connection as soon as it is there, and a request older
than `timeout_seconds` needs a network that held it back that long. It is listed as
a hazard.

`TestRun` is what the two promise together: at most one run is on, a run that is
over does not come back, results are shown only of a run that is over, once. The
refinement maps `running` to the runs that are starting, running or armed on the
DUT and `over` to the others that were ever received.

### HeartbeatLink and the code

`run` of the sender is `SendBeat`; a process that systemd starts again counts from zero
under the same boot_id (`RestartSender`), a reboot changes it (`Reboot`). The network
drops, repeats and swaps datagrams; a `sendto` that raises (62-68) is one that is
dropped. One pass of the listener's loop ends in `ReceiveBeat` (158-251), `ReceiveNoise`
(161-177) or `TimeOut` (131-153). The events it writes are `gaps'`, and the changes of
`alive`. `recvfrom` waits anew after *anything* it receives, so a foreign datagram
delays the alarm by up to a timeout: `DetectedInTime` says by how much. Time is in
ticks of the listener's clock, and the listener is not late for its own timeout.

### CurrentLogger and the code

The loop of `run` (341-393) is `SampleGood`, `SampleFailed`, `WriteRaises`, then
`WaitOver`; the clock and the signal handler act in between, so a reading may take any
number of ticks. The deadline is absolute (386): a late row makes the next one come
early, but never before its own time. `Finish` writes the summary, or fails to (an
`OSError` is caught). A reading is a number or failed; averages are kept as sums.
`LoggedIsTrue` says what a sum is of without the window the code keeps: of the good rows
with the highest numbers, as many as the window has places.

### MemCheck and the code

A byte is the set of its bits that differ from the pattern, which makes the model
independent of the patterns: `Paint` and `Scrub` empty it. `main` (287-386) is cut
wherever a flip makes a difference: between painting and comparing, between comparing a
chunk (`idx`) and scrubbing it, and between chunks. `hits`, `unseen` and `flips` are
history: `hits` counts the bytes that came to differ, less those that a second flip of the
same bit made right again; a flip of a byte that is in `idx` is part of the upset that
will be scrubbed, and not another one. Dropping `unseen` from `Conservation` is what
the tester does not promise: flips after the last sweep of a pattern are painted over.

### Particles and the code

The state of the simulation is whether it is the golden one; an upset makes it differ
until `psystem.reset` at the next epoch. `snap` has the copies of the epoch so far.
Every `checksum_interval` steps the state is copied, and only the last copy is compared
(498-509); an epoch that differs is counted (`EndSteps`), dumped (`SaveDump`) and
recorded (`SeeEvent`). A CUDA error is noticed at the next copy (`FaultRecord`) or kills
the process at the next epoch (`Die`). `running.flag` survives a process that dies,
and its successor records `unclean_restart` (`Launch`). Epochs and steps are counted from
zero by every process, and dumps are named after them. The golden table may be shorter
than an epoch, as `--golden` leaves it after a SIGTERM; the properties are stated for
a whole one. `Triage` is `triage_dump`: its status, or the first checkpoint of the dump
that differs from the table.

### LogMirror and the code

One file, as the sequence of its units: the text of a record, or its newline. The DUT
appends (`WriteText`, `WriteEol`), and loses in a crash what the kernel had not written;
what it writes afterwards goes behind the torn line. The pulls are `rsync
--append-verify` whole or cut short, and the copies that begin anew (scp, and the tar
stream of `start_arbiter.py`). `_poll_sees` is `Prime` on its first turn and `ReadNew`
on the others. `set_active_dut` makes a new tailer.

*Truncation.* `_read_new` reads a file that became shorter again from the top
(150-157). With rsync a mirror never does. scp and tar rewrite the copy from its
beginning, so a poll in the middle of a copy finds it shorter, and the records before
may be shown again, in the panel and in `see_events/`, with every copy.
`ShownOnce` and `EventuallyShown` are therefore about rsync; `NothingSkipped` holds
for both. Under tar or scp the live count of a run is an upper bound only.

### BaselineFiles and the code

A CSV is counted in half rows, so that the pull can stop within one, and
`_csv_data_rows` takes the half for a row. The STOP reply's handler tries at once
(`StopHandled`); a thread waits for the mirror (`WorkerSees`, `WorkerOutOfTime`) and posts
the copy to the Tk thread (`RunPosted`, `RunGiveUp`). `_copy_baseline_csv` chooses a
number, reads and writes: `Begin` and `FinishCopy`, between which the pull and other
threads run, but no other Tk callback (`TkIdle`). It may fail with the file created or not.

### Requests and the code

The two sides' rules, as they are written: `create` (`EnergyOk`, `PresetOk`, `CustomOk`,
`DurationOk`, `ExtrasOk`) and `validate` (`Accepted`), over Python values of all types,
a number being counted in hundredths. A request is made from one of `Forms`: what the
campaign GUI offers, and forms that differ from a plain one in the energy, the duration,
the extras, or the fields of the shield together. `config` records of every key of a
channel's config whether its value is of a beam run or of a baseline.

### SeeTally and the code

The two channels under systemd write the records that both counts look at; their order
is not kept (a bag), since both counts are sums. `ClassifySee` and `PersistSees` are the
live count, `Attributed`, `Restarts` and `SummarizeRun` that of the CSV. The live one
takes a shutdown from a `sim_fault` record, the CSV from start records beyond the first.
So they agree but for shutdowns (`EffectsAgree`), and what can be said of those is in
`RestartsCounted` and `CrashesShown`: restarts of the memory tester and those at an
iterations limit are in the CSV only.

### Runs

| Run | Instance | Shows |
|---|---|---|
| `receiver_concurrent` | 2 connections, 2 timers, 3 request_ids, 2 channels, START and STOP; disarm failures, receiver crashes, reboots | `TypeOK`, `ArmedCovered`, `RunningArmed`, `TimerArmed` |
| `receiver_one_client` | 1 connection, 2 timers, 2 samplers, 3 request_ids, 2 channels, all commands; workload crashes | `SamplerCovered`, `StopReplyTrue`, `RunAttribution`, `NoOrphanSampler`, `RetryAnswer` |
| `receiver_liveness` | 1 connection, 2 timers, 2 samplers, 2 request_ids, 1 channel; failing starts and stops | `EveryRunEnds` |
| `stale_timer`, `mirror_stop`, `stale_baseline`, `retry` | as `receiver_one_client`, no faults | a counterexample each, see Findings |
| `declined_stop` | 2 runs; every request accepted, the operator may decline | a counterexample, see Findings |
| `test_system` | 2 connections, 2 timers, 2 samplers, 2 channels, 2 runs, 2 STOP ids; lost STOPs, declined dialogs, unsaved records | `IdleMeansStopped`, `ActiveHasRequest`, `KeepsPromise` |
| `arbiter_parts` | log and tailer: 2 records, a crash, rsync and scp; CSVs: 2 baselines of 2 rows, one failed, 4 numbers; GUI: 3 runs, 1 STOP id, every kind of reply and mishap | `ArbiterTypeOK`, `ShownOnce`, `NothingSkipped`, `EventuallyShown`; `SavedOnce`, `SavedHasSamples`, `NoOverwrite`, `FetchAnswered`; `MirrorStopsItsRun`, `BaselineFlag`, `MirrorActs` |
| `workloads` | heartbeats: 2 boots of 3 beats, a restart, a disorder, timeout 2; sampler: interval 2, duration 5, window 2; memory: 3 bytes of 2 bits in 2 chunks, 4 sweeps, 3 flips, 1 record a sweep; particles: epochs of 5 steps, a copy every 2, 2 epochs, one upset, fault, death each; all forms of a request; tally: 1 effect, 2 ends | `WorkloadsTypeOK`, `GapsAreLosses`, `DetectedInTime`, `NoFalseAlarm`; `LoggedIsTrue`, `NeverAhead`; `Conservation`, `LogAddsUp`; `CrashesFlagged`, `OneSeePerEpoch`, `DumpLocates`; `CreatedIsAccepted`, `NothingStale`; `EffectsAgree`, `RestartsCounted`, `CrashesShown` |
| `stale_dump` | particles: 2 upsets, a death, no fault | a counterexample, see Findings |

*Side by side.* `MCArbiter` and `MCWorkloads` put modules into one run that share no
variable. The constant-in-time variable `part` says which of them moves, so a behaviour of the
run is a behaviour of one module with the others at their initial states, and a
property of a module is checked on just the behaviours of its own specification; the
fairness conditions are those of the part that moves.

*Bounds.* Two connections are the fewest at which commands overlap; two timers are
the fewest at which a callback of an old run overlaps the timer of a new one, and
a third request_id lets a third command come in on top of both. Two channels have
a first and a last, and a thread between the two. The properties speak of single
channels, timers and samplers or of pairs, and the theorems of section 3 do not
depend on the bounds. A thread that is served is idle again, so the number of
connections bounds only the simultaneous ones; the request_ids bound the length of
a behaviour, which is why `CHECK_DEADLOCK` is off: when they are used up and all
timers have fired the receiver waits for ever, as a server does.

For the GUI in `arbiter_parts` two runs leave one behind whose mirror or flag could be
taken for the other's, and the third adds one after both; STOP ids only differ from one
another in the receiver. `test_system` has the two connections that a repeated STOP needs
beside the one given up, and two runs, the second after the first.

Two records give the tailer a torn line, a whole one and one after a crash, two
units are a whole line that a crash takes back, and two copies of a record are one too
many. Two baselines can both be on the way to the same number; of two rows one may be
failed and one torn; two baselines use at most two numbers each, one after a try that
failed. Two boots of three beats have a loss within a boot, one across boots and one
across a sender's restart. An interval of 2 ticks in a duration of 5 has three rows and
a deadline on neither boundary; a clock to 6 lets a reading last past the duration.
Three bytes in two chunks let a byte flip in front of, in and behind the chunk that is
compared; a limit of one record makes overflow, and a held pattern of two sweeps, painted
at least twice in four, makes flips that are painted over. An epoch of 5 steps with a copy
every 2 has two checkpoints and a step behind the last one. `Requests` takes values at,
below and above what its rules tell apart. The bounds `Max...` are in guards, named where the
constants are declared; a part that has used them up stops, which is why these runs
do not check for deadlock.

*Lost requests.* `test_system` loses STOPs and no STARTs, and no channel fails to
start: after a lost or half-failed START the GUI is IDLE and the DUT runs, by the
code's design (1553-1568); the DUT's own timer ends that run, which is what
`receiver_concurrent` and `receiver_liveness` show. It has no "raise" either:
`ActiveHasRequest` fails after an error between 1949 and 2010, and
`arbiter_parts` shows what is left then.

*One client.* `receiver_one_client` states what holds for a client that waits for
its replies. The GUI is one, as long as no command times out. With two STARTs at
once the code promises none of these properties.

*Fairness.* `HandlerStep` and `TimerStep` are weakly fair: the operating system
schedules every thread; `Fire` is in it because a started Timer elapses; the
calls in between have timeouts (`systemctl_timeout_s`, the waits of
`stop_current_logger`). `SamplerExits` is fair because of `--duration-s`. Clients,
failures and crashes owe nothing: `EveryRunEnds` needs no further command. The
receiver and the board do not crash in that run: the code promises nothing after
it (see the hazards).

For the GUI, `FireMirror` is weakly fair since the Tk loop runs due callbacks, nested
in a dialog or not; `Answer` since `transport.send` has a timeout; and
`Submit \/ Decline` since `MirrorActs` and `ReturnsToIdle` are about an operator who
answers a confirmation. Nobody has to press a button or close a notice.

For the log, `PullWhole` is weakly fair since `pull_thread` goes on pulling whatever a
pull returned (127-162), and `Poll` since `_poll_sees` schedules itself in its `finally`.
The DUT owes nothing: `EventuallyShown` is about records that are in the log. For the
baselines `FetchStep` is: the waiting thread has a deadline, the Tk loop runs what it was
posted, and a copy ends. The pull owes nothing there, for `give_up` speaks of a CSV
that never arrived. The other parts of `workloads` have safety properties only.

### Findings

* `stale_timer`: a START replaces the old run's timer only at its end, so an
  auto_stop of the old run that fires while the services are being restarted
  passes its guard and stops the new run's services (886). The guard's comment
  (883-884) says that such a callback is stale and does nothing.
* `mirror_stop`: `stop_current_logger` pops the sampler's entry and stores its
  summary only after waiting for the process, so a STOP in between gets no
  baseline block (701-703, 726-727), against
  `tests/test_baseline_control.py:223-224`.
* `stale_baseline`: `last_baseline` is never cleared, and the STOP of a later run
  returns an earlier run's block, against the docstring at 682.
* `retry`: only the last request_id is remembered; repeating an earlier one starts
  its run again, against `docs/CONTROL_INTERFACE.md:122-123`.
* `declined_stop`: `_on_stop_test` cancels the mirror before it asks (1802), and a
  declined confirmation does not schedule it again: the GUI stays ACTIVE when the DUT
  has ended the run, against the comment at 180-182.
* `stale_dump`: a restarted workload counts epochs from zero and writes over the dump
  of an earlier event of the same run, whose record still names it
  (`particles_main.cpp:551`); triage then localises the earlier upset wrongly, against
  `see_dump_triage.py:14-17`.

Divergences that were met and need no run, or are outside the models:

* `see_monitor.py:35-36` says that the live tally agrees with `test_N.csv`; for shutdowns
  it cannot, as `RestartsCounted` and `CrashesShown` say.
* `request.py` accepts 53 MeV (`constants.py:27-33`, on purpose) and a baseline of less than
  half a second, which is rounded to none; the receiver rejects both, although its
  configuration "must match the arbiter/teammate's sender" (`control_receiver.py:82`).
  `CreatedIsAccepted` names the two.
* The final pull "can't race a periodic pull" (`arbiter_main.py:245-246`), but the thread
  is joined for 5 s and a pull may take 120.
* A baseline's failed readings are rows too (`ui.py:1043-1044`), so a file may be called
  saved while rows are still to come; `SavedHasSamples` says what is left.

## 3. Proofs

`ControlReceiverProofs` holds for any number of connections, timers, samplers,
request_ids and channels and any set of faults. It assumes what the constants are
(`NumChannelsAssumption`, `CommandsAssumption`, `ConfigAssumption`), that
connection and timer threads are different threads (`ThreadsAssumption`), and that
`None` is none of the ids (`NoneAssumption`).

* `TypeCorrect`: `Spec => []TypeOK`. Inductive together with `SamplerHeld`: a
  thread about to wait for a sampler holds one.
* `ArmedCoveredHolds`, `RunningArmedHolds`, `TimerArmedHolds`,
  `SamplerCoveredHolds`: the four parts of `Coverage`, which is inductive as

      Inv == TypeOK /\ SamplerHeld /\ Places /\ TimerObjects /\ Coverage

  The four parts need each other: an auto_stop that passes its guard takes over
  the channels that the registered timer covered, which is right only because
  `TimerArmed` says that the timer is that of the run. `Places` is needed since a
  STOP covers a channel only while its loop has not passed it, and it must enter
  the loop at the first one. `TimerObjects` is needed since `RevokeTimer` and
  `LaunchTimer` act on a timer object outside the lock: it says that this object
  is no longer, or not yet, the registered and running one.

Four theorems are about a receiver with one connection thread (`Handlers = {h}`): one client
that waits for its replies, as `receiver_one_client` checks them, but with any number of
timers whose auto_stops run beside it.

* `StopReplyTrueHolds`, if a disarm does what it reports (`"disarm"` is no fault). `StopTruth`:
  what the STOP's loop has passed is down or among its failed results, and the channel it is
  about to stop is not armed. No auto_stop undoes that, for all it does is to disarm and
  stop, and a unit that respawns is armed (`Calms`).
* `RunAttributionHolds`, if no step of a START fails (`"start"` is no fault). `Attribution`:
  what a START is through with is its run's, what it is not yet through with is nobody's
  promise, and everything that is not a START leaves each channel as it finds it.
* `NoOrphanSamplerHolds`, whatever fails. `SamplerTaken`: a START has popped the registered
  sampler before it spawns one, and no auto_stop puts one back; so the entry it writes at the
  end replaces nothing.
* `RetryAnswerHolds`, whatever fails. `Latest`: between commands `last_channels` are the
  results of the request that `last_request_id` names.

The hypotheses of the first two are needed: a STOP is ok although a flag could not be removed
(only the result's detail says so, 555), and systemd may start that channel again; and a START that fails on a channel, which its
reply says, leaves an earlier run's service there.

`CoordinatorProofs` holds for any runs, STOP ids, replies and mishaps, provided that
`None` is neither an id nor a command (`IdsAssumption`). `TypeCorrect`,
`MirrorStopsItsRunHolds` and `BaselineFlagHolds` rest on

    Inv == TypeOK /\ Confirmations /\ Calls /\ Actives

`Confirmations` says that a confirmation is the only open dialog, in the state its
button is enabled in, so that what it was asked for is still true when it is
answered, whatever callbacks ran meanwhile. `Calls` ties the state to the request
that is out, and switches the mirror off during a STOP; `Actives` says that the flag
is down between runs. `ActiveHasRequestHolds` needs `"raise" \notin Mishaps` and `ActiveInv`,
which adds `Named`: what a dialog was opened for and what a request out is about is the run
of its own id, a STOP's the active run, and no run under way has had its results shown.

`TestSystemProofs` holds for any number of connections, timers, samplers, channels, runs and
STOP ids, provided that a uuid names one request (`FreshIdsAssumption`, `BoardAssumption`) and

    Sound == "raise" \notin Mishaps /\ "start", "disarm" \notin Faults
             /\ LostCommands \subseteq {"STOP_TEST"}

which is what the code needs, too: after a START that was lost or that failed on one channel,
or an exception behind an accepted reply, the GUI is IDLE and the DUT runs on (see *Lost
requests*). STOPs may be lost, given up, repeated and failed, workloads and samplers may die.
The proof takes the two components' invariants as they were proved and adds what joins them:

    SysInv == ActiveInv /\ BoardInv /\ Received /\ Answers /\ Clean /\ OneRun /\ Quiet /\ Known

`OneRun`: whatever is being started, running or armed on the board is of the run that the GUI
is starting or shows. `Clean`: no START goes on that the GUI does not wait for. `Quiet`: while
the GUI is IDLE, or its START has not arrived, nothing is live. `Answers` carries `StopTruth`
to the handler whose reply will be believed, the other handlers, whose STOPs were given up,
being harmless since they only calm the board. `IdleMeansStoppedHolds` is a part of it, and
`KeepsPromiseHolds` is the refinement: each step of the system is a `Begin`, `End` or
`Report` of `TestRun`, or a stutter. The board's model is an instance, so its theorems
are used through an instance of the proofs (`DP`), and the first lemmas say that the two
instances' actions are the same.

`HeartbeatLinkProofs` holds for every timeout, number of beats and boots, and any traffic.
`GapsCounted` rests on `GapInv`: as long as nothing was repeated or swapped, the beats in
flight and the one to be sent next form a queue in which each follows the one before
(`Ordered`), and what the head of the queue tells of the last received beat is the number
of those dropped since, or less after a sender's restart; with that, each received beat
adds at most what was lost (`MissedCounted`). The queue must include the next beat, for else an
empty network would forget how far the sender is. `LossDetected` rests on `TimeInv` (a
tick more of silence is a tick more since the beat; each foreign datagram hides at most
one timeout) and `LossIsReal` on `SilenceInv` (silence began at the beat or later).

`MemCheckProofs` holds for every buffer, split into chunks in any way, any number of bits,
flips and sweeps and any limit of records. `ConservationHolds` and `LogAddsUpHolds` rest on

    MemInv == MemTypeOK /\ PlaceInv /\ LogInv /\ Conservation

`PlaceInv` confines `idx` to the chunk that is handled and `totalMism` to its sweep, so that
`Conservation` can move bytes from dirty to counted to clean; `LogInv` says how far the
log is behind the count within a sweep.

`ParticlesProofs` holds for every epoch length, interval and number of upsets, faults and
deaths. `TraceInv` relates the copies of the running epoch to the step and to the first upset:
a copy is golden exactly if it is before the upset. So the last copy tells whether the epoch
was hit (`SeeVerdictInv`, for `OneSeePerEpochHolds`), and the dump where (`RecordInv`, for
`DumpLocatesHolds`): the epoch in a dump's name is below the current one, so that a process
never writes over a dump of its own. `MarkerInv` counts a marker without a process as a death
that is not recorded yet (`CrashesFlaggedHolds`).

`ArbiterProofs` holds for any number of records and crashes and any loss in one. `PlaceInv`:
a record has one position in log and mirror, since what a crash takes away is not written
again. `ReadInv`: with rsync the mirror only grows, and what was shown lies behind the
offset; together they give `ShownOnceHolds`. `PrefixInv`: unless a crash took back what was
mirrored, the mirror is the beginning of the log and the offset is at the end of a line or
where the tailer was primed; this gives `NothingSkippedHolds`, for scp too.

Its second part holds for any number of baselines on the way at once, any length of a
CSV and any behaviour of the pull. `CopyInv`: one copy at a time, to a number that nobody
uses. `OnceInv`: a fetch that has not ended has left no bytes. `WholeInv`: what is copied as
a success was seen to be whole, and a mirror that only grows still is. They give
`SavedOnceHolds`, `SavedHasSamplesHolds` and `NoOverwriteHolds`, an action property.

`WorkloadsProofs` begins with sums. `SumFunction` is a fold, and a fold over all data wants an
induction that the prover cannot instantiate; so a sum is shown to be the number of its
*units*, the pairs of an index and a number up to its value (`SumIsUnits`), by a least
counterexample among the subsets of the index set, and the rest is counting: sums do not
depend on how their terms are numbered (`SumMoved`), and numbers of records in bags add up
and are monotone (`NumbersAdd`, `NumberWritten`, `NumberTaken`). Then,

* for the sampler, for every interval, duration, window, and duration and failure of readings:
  `NeverAheadHolds` with `DueInv` (at the head of the loop the next row is due, or none is), and
  `LoggedIsTrueHolds` with

      LoggedInv == LoggerTypeOK /\ WindowInv /\ CountInv /\ SummaryIsTrue /\ AverageInv

  where `WindowInv` places each reading of the window in a row, later ones in later rows, and
  no good row outside the window behind one inside;
* for the requests, for every set of numbers in the forms and any lists of the receiver:
  `NothingStaleHolds`, which is inductive with what the verdict says of the request
  (`AnswerInv`), and `CreatedIsAcceptedHolds` under `SameLists`, that the receiver's lists have the
  coordinator's energies, without 53 MeV, and thicknesses, as the defaults do
  (`control_receiver.py:88-92`). The argument is a comparison of the two validators field by field;
* for the tally, for any number of runs' records, ends and polls: `EffectsAgreeHolds`,
  `RestartsCountedHolds` and `CrashesShownHolds`, with

      TallyInv == UnitTypes /\ BagsInv /\ LiveInv /\ StartsInv /\ CrashesInv /\ CsvInv

  `LiveInv`: the live file has the effects among the records that were read. `StartsInv`: a start
  record for every end, and one more while the workload is up. `CrashesInv`: a crash has its
  `sim_fault` record, or `running.flag` waits for the next process to write it, or STOP came
  between the two, and then the summary has no start to count it by.

`ArbiterTypes` and `WorkloadsTypes` put the types of all parts together: a step of the
composition is a step of one part and a stutter of the others (`ArbiterMoves`,
`WorkloadsMoves`), so every theorem about a part holds in the runs that check them side by side.

The assumptions of these modules are those on their constants (`TimeoutAssumption`,
`LoggerAssumption`, `MemAssumption`, `ParticlesAssumption`, `MirrorAssumption`,
`BaselineAssumption`, `RequestsAssumption`): counts are natural numbers, lengths and limits are
not zero, chunks are disjoint. The bounds in the guards are arbitrary there.

The step lemma of each module has one step per action and under it one per conjunct
that the action can disturb; an action with a long argument has a lemma of its own.

Only model-checked is everything temporal beyond invariance and steps: `EveryRunEnds`,
`MirrorActs`, `EventuallyShown` and `FetchAnswered` rest on fairness, which the prover does not
handle. Every invariant that a passing run checks is also a theorem, with the hypotheses above;
the abstract `TestRun` has no liveness.

## 4. Not modelled

`PROJECT.json` gives the reason per component. In short:

* the final pull and its race with the periodic one (`arbiter_main.py:235-252`): what two
  rsyncs leave that append to one file at a time is rsync's business, not this code's;
* the arbiter's power reader, a serial reader with one status, the boot-state logger, a
  collector without state between runs, and the envelope of event records;
* the mock DUT, a test stand-in, and the bring-up scripts, which are I/O;
* the forms, drafts, stored preferences and fluence windows of the campaign GUIs, which have
  no part in the protocol, and the layout and log of the main window;
* the physics of the CUDA workload and its hash, which are numerical, and the report of the
  triage;
* the memory test on the CPU (`mem_check.service`), which is no channel of the receiver, though
  `MemCheck` is its loop too; and systemd's start limit, beyond a unit that stays down;
* requests that the network holds back beyond the GUI's timeout, and two clients that
  start runs at once, beyond the coverage properties.

## 5. What is left

All modules of the plan exist: the receiver and the GUI with their composition, the heartbeat
link, baseline files and tailer, memory tester and sampler, CUDA workload and triage, and
the rules and counts. What would come next, in this order:

1. A network that delays requests: `TestSystem` with a STOP that arrives after the GUI gave
   it up, and what a stale one may stop; `Quiet` and `Answers` would have to speak of requests
   in flight.
2. The receiver under two clients, beyond the coverage: what of `RunAttribution` two STARTs
   that overlap leave.
3. `LogMirror` with several files per channel and the final pull.
