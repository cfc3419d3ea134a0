---------------------------- MODULE HeartbeatLink ----------------------------
(* The heartbeat channel: heartbeat_sender.py on the DUT sends one numbered
   datagram per interval, heartbeat_listener.py on the arbiter turns what
   arrives, and the silence in between, into events.  Time is counted in ticks
   of the listener's clock; the socket timeout is Timeout of them.

   A send that fails (OSError) and a datagram the network drops are the same
   to the listener: DropHead.  The direct cable keeps the order; a network may
   also repeat and swap datagrams, as UDP allows (disorder). *)
EXTENDS Integers, Sequences

CONSTANTS
  Timeout,      \* settimeout, in ticks
  MaxSeq,       \* bound: beats sent by one sender process
  MaxBoot,      \* bound: boots of the DUT
  MaxRestart,   \* bound: sender processes replaced
  MaxNet,       \* bound: datagrams in flight
  MaxDisorder,  \* bound: datagrams repeated or swapped
  MaxNoise      \* bound: datagrams that are no heartbeat, between two beats

ASSUME TimeoutAssumption == Timeout \in Nat \ {0}

VARIABLES
  boot,         \* /proc/sys/kernel/random/boot_id, numbered by age
  seq,          \* heartbeat_sender.run: seq
  net,          \* datagrams in flight, oldest first
  listening,    \* run_heartbeat_listener has not returned or raised
  alive, lastBoot, lastSeq,   \* of run_heartbeat_listener; NoBoot is None
  silence,      \* ticks since recvfrom was called
  \* history
  sinceBeat,    \* ticks since a heartbeat was received
  noise,        \* datagrams that were no heartbeat, since then
  dropped,      \* beats lost since then
  restarts,     \* sender processes replaced within their boot
  disorder,     \* datagrams the network repeated or swapped
  gaps,         \* sum of the sequence_gap of the HEARTBEAT events
  missed        \* beats lost between two received ones of the same boot

senderVars == <<boot, seq>>
listenerVars == <<listening, alive, lastBoot, lastSeq, silence>>
historyVars == <<sinceBeat, noise, dropped, restarts, disorder, gaps, missed>>
linkVars == <<senderVars, net, listenerVars, historyVars>>

NoBoot == 0
Beat == [boot : Nat \ {0}, seq : Nat]

LinkTypeOK ==
  /\ boot \in Nat \ {0} /\ seq \in Nat
  /\ net \in Seq(Beat)
  /\ listening \in BOOLEAN /\ alive \in BOOLEAN
  /\ lastBoot \in Nat /\ lastSeq \in Nat /\ silence \in 0..Timeout
  /\ sinceBeat \in Nat /\ noise \in Nat /\ dropped \in Nat
  /\ restarts \in Nat /\ disorder \in Nat
  /\ gaps \in Nat /\ missed \in Nat
  /\ alive => lastBoot # NoBoot

LinkInit ==
  /\ boot = 1 /\ seq = 0 /\ net = <<>>
  /\ listening = TRUE /\ alive = FALSE /\ lastBoot = NoBoot /\ lastSeq = 0
  /\ silence = 0 /\ sinceBeat = 0 /\ noise = 0 /\ dropped = 0
  /\ restarts = 0 /\ disorder = 0 /\ gaps = 0 /\ missed = 0

----------------------------------------------------------------------------
(* The DUT.  A datagram that cannot be sent is not sent again. *)

SendBeat ==
  /\ seq < MaxSeq /\ Len(net) < MaxNet
  /\ net' = Append(net, [boot |-> boot, seq |-> seq])
  /\ seq' = seq + 1
  /\ UNCHANGED <<boot, listenerVars, historyVars>>

\* Restart=always: a new process counts from zero, under the same boot_id.
RestartSender ==
  /\ restarts < MaxRestart
  /\ seq' = 0 /\ restarts' = restarts + 1
  /\ UNCHANGED <<boot, net, listenerVars, sinceBeat, noise, dropped, disorder,
                 gaps, missed>>

Reboot ==
  /\ boot < MaxBoot
  /\ boot' = boot + 1 /\ seq' = 0
  /\ UNCHANGED <<net, listenerVars, historyVars>>

----------------------------------------------------------------------------
(* The network. *)

DropHead ==
  /\ net # <<>>
  /\ net' = Tail(net) /\ dropped' = dropped + 1
  /\ UNCHANGED <<senderVars, listenerVars, sinceBeat, noise, restarts, disorder,
                 gaps, missed>>

RepeatHead ==
  /\ disorder < MaxDisorder /\ net # <<>> /\ Len(net) < MaxNet
  /\ net' = Append(net, Head(net)) /\ disorder' = disorder + 1
  /\ UNCHANGED <<senderVars, listenerVars, sinceBeat, noise, dropped, restarts,
                 gaps, missed>>

SwapHead ==
  /\ disorder < MaxDisorder /\ Len(net) > 1
  /\ net' = [net EXCEPT ![1] = net[2], ![2] = net[1]]
  /\ disorder' = disorder + 1
  /\ UNCHANGED <<senderVars, listenerVars, sinceBeat, noise, dropped, restarts,
                 gaps, missed>>

----------------------------------------------------------------------------
(* The listener: one pass of the loop around recvfrom. *)

BootIdChanged(beat) == lastBoot # NoBoot /\ beat.boot # lastBoot

\* MUTANT of SequenceGap: the boot of the last beat is not looked at.
GapAcrossBoots(beat) ==
  IF lastBoot # NoBoot /\ beat.seq > lastSeq THEN beat.seq - lastSeq - 1 ELSE 0

SequenceGap(beat) ==
  IF lastBoot # NoBoot /\ ~BootIdChanged(beat) /\ beat.seq > lastSeq
  THEN beat.seq - lastSeq - 1
  ELSE 0

\* A heartbeat: HEARTBEAT_RESUMED if it was lost, then HEARTBEAT.
ReceiveBeat ==
  LET beat == Head(net) IN
  /\ listening /\ net # <<>>
  /\ net' = Tail(net)
  /\ alive' = TRUE /\ lastBoot' = beat.boot /\ lastSeq' = beat.seq
  /\ gaps' = gaps + SequenceGap(beat)
  /\ missed' = IF beat.boot = lastBoot THEN missed + dropped ELSE missed
  /\ silence' = 0 /\ sinceBeat' = 0 /\ noise' = 0 /\ dropped' = 0
  /\ UNCHANGED <<senderVars, listening, restarts, disorder>>

\* MUTANT of ReceiveNoise: a foreign datagram counts as a sign of life.
NoiseRevives ==
  /\ listening /\ noise < MaxNoise
  /\ noise' = noise + 1 /\ silence' = 0 /\ alive' = TRUE
  /\ UNCHANGED <<senderVars, net, listening, lastBoot,
                 lastSeq, sinceBeat, dropped, restarts, disorder, gaps, missed>>

\* MUTANT of ReceiveNoise: a foreign datagram counts as a loss.
NoiseAlarms ==
  /\ listening /\ noise < MaxNoise
  /\ noise' = noise + 1 /\ silence' = 0 /\ alive' = FALSE
  /\ UNCHANGED <<senderVars, net, listening, lastBoot,
                 lastSeq, sinceBeat, dropped, restarts, disorder, gaps, missed>>

\* Anything else on the port: HEARTBEAT_INVALID, and recvfrom anew.
ReceiveNoise ==
  /\ listening /\ noise < MaxNoise
  /\ noise' = noise + 1 /\ silence' = 0
  /\ UNCHANGED <<senderVars, net, listening, alive, lastBoot,
                 lastSeq, sinceBeat, dropped, restarts, disorder, gaps, missed>>

\* MUTANT of TimeOut: a timeout after foreign datagrams is not taken for a loss.
TimeOutUnlessNoise ==
  /\ listening /\ silence = Timeout
  /\ alive' = (alive /\ noise > 0) /\ silence' = 0
  /\ UNCHANGED <<senderVars, net, listening, lastBoot, lastSeq,
                 historyVars>>

\* socket.timeout: HEARTBEAT_LOST once per outage.
TimeOut ==
  /\ listening /\ silence = Timeout
  /\ alive' = FALSE /\ silence' = 0
  /\ UNCHANGED <<senderVars, net, listening, lastBoot, lastSeq,
                 historyVars>>

\* recvfrom or the write of an event fails: the listener ends.
ListenerEnds ==
  /\ listening /\ listening' = FALSE
  /\ UNCHANGED <<senderVars, net, alive, lastBoot, lastSeq, silence,
                 historyVars>>

\* A tick passes; the listener is not late for its timeout.  Nobody measures
\* a silence before the first beat.
TickLink ==
  /\ listening /\ silence < Timeout
  /\ silence' = silence + 1
  /\ sinceBeat' = IF alive THEN sinceBeat + 1 ELSE sinceBeat
  /\ UNCHANGED <<senderVars, net, listening, alive, lastBoot,
                 lastSeq, noise, dropped, restarts, disorder, gaps, missed>>

LinkNext ==
  \/ SendBeat \/ RestartSender \/ Reboot
  \/ DropHead \/ RepeatHead \/ SwapHead
  \/ ReceiveBeat \/ ReceiveNoise \/ TimeOut \/ ListenerEnds \/ TickLink

LinkSpec == LinkInit /\ [][LinkNext]_linkVars

----------------------------------------------------------------------------
(* Properties. *)

\* Over a cable that keeps the order, the sequence_gap fields of the log never
\* add up to more beats than were really lost between received beats of the
\* same boot, and to exactly that many as long as no sender process was
\* replaced within a boot (run_heartbeat_listener: sequence_gap).
GapsAreLosses ==
  disorder = 0 => /\ gaps <= missed
                  /\ restarts = 0 => gaps = missed

\* While the listener believes the DUT alive, the last beat is at most one
\* timeout old, plus one for each foreign datagram since: recvfrom starts its
\* timeout anew after anything it receives (except socket.timeout).
DetectedInTime ==
  listening /\ alive => sinceBeat <= Timeout * (1 + noise)

\* HEARTBEAT_LOST is recorded only after a whole timeout without a beat,
\* whatever else arrives in between (except socket.timeout).
NoFalseAlarm == [][alive /\ ~alive' => sinceBeat >= Timeout]_linkVars
=============================================================================
