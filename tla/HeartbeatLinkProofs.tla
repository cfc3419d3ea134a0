------------------------- MODULE HeartbeatLinkProofs -------------------------
(* Proofs about the heartbeat channel, for every timeout and every bound. *)
EXTENDS HeartbeatLink, SequenceTheorems, TLAPS

\* The beats in flight and the one to be sent next, as one queue.
Pending == Append(net, [boot |-> boot, seq |-> seq])

\* b was sent next after a: the sender counts on, or begins again at zero.
Follows(a, b) ==
  \/ b.boot = a.boot /\ b.seq = a.seq + 1
  \/ b.boot = a.boot /\ b.seq = 0 /\ restarts > 0
  \/ b.boot > a.boot

\* What the oldest pending beat tells of the beats dropped since the last one
\* received: they are the ones between the two, or more after a restart.
HeadMatches(b) ==
  /\ b.boot >= lastBoot
  /\ b.boot = lastBoot =>
       \/ b.seq = lastSeq + dropped + 1
       \/ restarts > 0 /\ b.seq <= dropped

Ordered ==
  /\ \A i \in 1..Len(net) : Follows(Pending[i], Pending[i + 1])
  /\ HeadMatches(Pending[1])

MissedCounted == gaps <= missed /\ (restarts = 0 => gaps = missed)

GapInv == disorder = 0 => Ordered /\ MissedCounted

\* A tick more of silence is a tick more since the beat.
TimeInv == alive => sinceBeat <= Timeout * noise + silence

\* The silence began at the beat or later.
SilenceInv == alive => silence <= sinceBeat

\* The types of HeartbeatLink: what every handler of both programs keeps.
THEOREM LinkTypes == LinkSpec => []LinkTypeOK
<1> USE TimeoutAssumption DEF LinkTypeOK, Beat, NoBoot
<1>1. LinkInit => LinkTypeOK
  <2> SUFFICES ASSUME LinkInit PROVE LinkTypeOK
    OBVIOUS
  <2>1. net \in Seq(Beat)
    BY EmptySeq DEF LinkInit
  <2>2. listening \in BOOLEAN /\ alive \in BOOLEAN /\ ~alive
    BY Zenon DEF LinkInit
  <2> QED
    BY <2>1, <2>2 DEF LinkInit
<1>2. LinkTypeOK /\ [LinkNext]_linkVars => LinkTypeOK'
  <2> SUFFICES ASSUME LinkTypeOK, [LinkNext]_linkVars PROVE LinkTypeOK'
    OBVIOUS
  <2> USE DEF linkVars, senderVars, listenerVars, historyVars
  <2>1. CASE SendBeat
    BY <2>1 DEF SendBeat
  <2>2. CASE RestartSender
    BY <2>2 DEF RestartSender
  <2>3. CASE Reboot
    BY <2>3 DEF Reboot
  <2>4. CASE DropHead
    BY <2>4 DEF DropHead
  <2>5. CASE RepeatHead
    <3>1. net' \in Seq(Beat)
      <4>1. net \in Seq(Beat) /\ net # <<>> /\ net' = Append(net, Head(net))
        BY <2>5 DEF RepeatHead
      <4>2. Head(net) \in Beat
        BY <4>1, HeadTailProperties
      <4> QED
        BY <4>1, <4>2, AppendProperties
    <3> QED
      BY <2>5, <3>1 DEF RepeatHead
  <2>6. CASE SwapHead
    <3>1. /\ net \in Seq(Beat) /\ Len(net) > 1
          /\ net' = [[net EXCEPT ![1] = net[2]] EXCEPT ![2] = net[1]]
      BY <2>6 DEF SwapHead
    <3>2. 1 \in 1..Len(net) /\ 2 \in 1..Len(net)
      <4>1. Len(net) \in Nat /\ Len(net) > 1
        BY <3>1, LenProperties
      <4> QED
        BY ONLY <4>1
    <3>3. net[1] \in Beat /\ net[2] \in Beat
      BY <3>1, <3>2, ElementOfSeq
    <3>4. /\ [net EXCEPT ![1] = net[2]] \in Seq(Beat)
          /\ Len([net EXCEPT ![1] = net[2]]) = Len(net)
      BY <3>1, <3>2, <3>3, ExceptSeq
    <3>5. net' \in Seq(Beat)
      BY <3>1, <3>2, <3>3, <3>4, ExceptSeq
    <3>6. UNCHANGED <<senderVars, listenerVars>> /\ disorder' = disorder + 1
      BY <2>6 DEF SwapHead
    <3>7. UNCHANGED <<sinceBeat, noise, dropped, restarts, gaps, missed>>
      BY <2>6 DEF SwapHead
    <3> QED
      BY <3>5, <3>6, <3>7
  <2>7. CASE ReceiveBeat
    <3>1. net' \in Seq(Beat) /\ Head(net) \in Beat
      BY <2>7, HeadTailProperties DEF ReceiveBeat
    <3>2. SequenceGap(Head(net)) \in Nat
      BY <3>1 DEF SequenceGap, BootIdChanged
    <3> QED
      BY <2>7, <3>1, <3>2 DEF ReceiveBeat
  <2>8. CASE ReceiveNoise
    BY <2>8 DEF ReceiveNoise
  <2>9. CASE TimeOut
    <3>1. alive' \in BOOLEAN /\ listening' \in BOOLEAN /\ ~alive'
      BY <2>9, Zenon DEF TimeOut
    <3> QED
      BY <2>9, <3>1 DEF TimeOut
  <2>10. CASE ListenerEnds
    BY <2>10 DEF ListenerEnds
  <2>11. CASE TickLink
    BY <2>11 DEF TickLink
  <2>12. CASE UNCHANGED linkVars
    BY <2>12
  <2> QED
    BY <2>1, <2>2, <2>3, <2>4, <2>5, <2>6, <2>7, <2>8, <2>9, <2>10, <2>11,
       <2>12 DEF LinkNext
<1> QED
  BY <1>1, <1>2, PTL DEF LinkSpec

\* The queue without its head is in order, and its new head matches, when the
\* head was dropped or received (DropHead, ReceiveBeat).
LEMMA PendingTail ==
  ASSUME LinkTypeOK, net # <<>>, net' = Tail(net), UNCHANGED senderVars
  PROVE  /\ Len(net') = Len(net) - 1
         /\ \A i \in 1..Len(net) : Pending'[i] = Pending[i + 1]
         /\ Pending[1] = Head(net)
<1> DEFINE next == [boot |-> boot, seq |-> seq]
<1>1. net \in Seq(Beat) /\ next \in Beat /\ Pending = Append(net, next)
  BY DEF LinkTypeOK, Pending, Beat
<1>2. Pending' = Append(net', next)
  BY DEF Pending, senderVars
<1> HIDE DEF next
<1>3. /\ Len(net) \in Nat \ {0} /\ Len(net') = Len(net) - 1
      /\ net' \in Seq(Beat) /\ Head(net) = net[1]
      /\ \A i \in 1..Len(net') : net'[i] = net[i + 1]
  BY <1>1, HeadTailProperties, LenProperties
<1>4. /\ \A i \in 1..Len(net) : Append(net, next)[i] = net[i]
      /\ Append(net, next)[Len(net) + 1] = next
      /\ \A i \in 1..Len(net') : Append(net', next)[i] = net'[i]
      /\ Append(net', next)[Len(net') + 1] = next
  BY <1>1, <1>3, AppendProperties
<1>5. ASSUME NEW i \in 1..Len(net) PROVE Pending'[i] = Pending[i + 1]
  <2>1. CASE i \in 1..Len(net')
    BY <1>1, <1>2, <1>3, <1>4, <2>1
  <2>2. CASE i = Len(net') + 1
    BY <1>1, <1>2, <1>3, <1>4, <2>2
  <2>3. Len(net) \in Nat /\ Len(net') \in Nat /\ Len(net) = Len(net') + 1
    BY <1>3
  <2>4. i = Len(net') + 1 \/ i \in 1..Len(net')
    BY ONLY <2>3, i \in 1..Len(net)
  <2> QED
    BY <2>1, <2>2, <2>4
<1> QED
  BY <1>1, <1>3, <1>4, <1>5

\* Every pending beat is one.
LEMMA PendingTypes ==
  ASSUME LinkTypeOK
  PROVE  /\ Len(net) \in Nat
         /\ \A i \in 1..(Len(net) + 1) : Pending[i] \in Beat
         /\ Pending[Len(net) + 1] = [boot |-> boot, seq |-> seq]
         /\ \A i \in 1..Len(net) : Pending[i] = net[i]
<1> DEFINE next == [boot |-> boot, seq |-> seq]
<1>1. net \in Seq(Beat) /\ next \in Beat /\ Pending = Append(net, next)
  BY DEF LinkTypeOK, Pending, Beat
<1>2. /\ Len(net) \in Nat /\ \A i \in 1..Len(net) : net[i] \in Beat
      /\ \A i \in 1..Len(net) : Append(net, next)[i] = net[i]
      /\ Append(net, next)[Len(net) + 1] = next
  BY <1>1, AppendProperties, ElementOfSeq, LenProperties
<1> QED
  BY <1>1, <1>2

\* What the log says of lost beats is what was lost (HeartbeatLink's
\* GapsAreLosses), for every bound.
THEOREM GapsCounted == LinkSpec => []GapsAreLosses
<1>1. LinkInit => GapInv
  BY DEF LinkInit, GapInv, Ordered, MissedCounted, HeadMatches, Pending, NoBoot
<1>2. LinkTypeOK /\ GapInv /\ [LinkNext]_linkVars => GapInv'
  <2> SUFFICES ASSUME LinkTypeOK, GapInv, [LinkNext]_linkVars, disorder' = 0
               PROVE  Ordered' /\ MissedCounted'
    BY DEF GapInv
  <2>0. disorder = 0 /\ Ordered /\ MissedCounted
    <3>1. disorder' >= disorder
      BY DEF LinkTypeOK, LinkNext, linkVars, historyVars, SendBeat,
         RestartSender, Reboot, DropHead, RepeatHead, SwapHead, ReceiveBeat,
         ReceiveNoise, TimeOut, ListenerEnds, TickLink
    <3> QED
      BY <3>1 DEF LinkTypeOK, GapInv
  <2> USE <2>0
  <2>1. CASE SendBeat
    <3>1. MissedCounted'
      BY <2>1 DEF SendBeat, historyVars, MissedCounted
    <3>2. /\ Len(net') = Len(net) + 1
          /\ Pending'[Len(net) + 2] = [boot |-> boot, seq |-> seq + 1]
          /\ \A i \in 1..(Len(net) + 1) : Pending'[i] = Pending[i]
      BY <2>1 DEF SendBeat, LinkTypeOK, Pending, Beat
    <3>3. \A i \in 1..Len(net') : Follows(Pending[i], Pending[i + 1])'
      <4> TAKE i \in 1..Len(net')
      <4>0. restarts' = restarts
        BY <2>1 DEF SendBeat, historyVars
      <4>1. CASE i \in 1..Len(net)
        BY <4>0, <4>1, <3>2, PendingTypes DEF Ordered, Follows
      <4>2. CASE i = Len(net) + 1
        BY <4>0, <4>2, <3>2, PendingTypes DEF Follows
      <4> QED
        BY <4>1, <4>2, <3>2, PendingTypes
    <3>4. HeadMatches(Pending[1])'
      BY <2>1, <3>2, PendingTypes
      DEF SendBeat, historyVars, listenerVars, Ordered, HeadMatches
    <3> QED
      BY <3>1, <3>3, <3>4 DEF Ordered
  <2>2. CASE RestartSender
    <3>1. MissedCounted'
      BY <2>2 DEF RestartSender, MissedCounted, LinkTypeOK
    <3>2. /\ Pending'[Len(net) + 1] = [boot |-> boot, seq |-> 0]
          /\ \A i \in 1..Len(net) : Pending'[i] = Pending[i]
          /\ restarts' > 0
      BY <2>2 DEF RestartSender, LinkTypeOK, Pending, Beat
    <3>3. \A i \in 1..Len(net) : Follows(Pending[i], Pending[i + 1])'
      <4> TAKE i \in 1..Len(net)
      <4>1. Pending[i + 1].boot >= Pending[i].boot
        BY PendingTypes DEF Ordered, Follows, Beat
      <4>2. CASE i + 1 \in 1..Len(net)
        BY <4>2, <3>2 DEF Ordered, Follows
      <4>3. CASE i = Len(net)
        BY <4>1, <4>3, <3>2, PendingTypes DEF Follows, Beat
      <4> QED
        BY <4>2, <4>3, PendingTypes
    <3>4. HeadMatches(Pending[1])'
      <4>1. CASE Len(net) = 0
        BY <2>2, <3>2, <4>1, PendingTypes
        DEF RestartSender, listenerVars, Ordered, HeadMatches, LinkTypeOK
      <4>2. CASE Len(net) > 0
        BY <2>2, <3>2, <4>2, PendingTypes
        DEF RestartSender, listenerVars, Ordered, HeadMatches
      <4> QED
        BY <4>1, <4>2, PendingTypes
    <3> QED
      BY <2>2, <3>1, <3>3, <3>4 DEF RestartSender, Ordered
  <2>3. CASE Reboot
    <3>1. MissedCounted'
      BY <2>3 DEF Reboot, historyVars, MissedCounted
    <3>2. /\ Pending'[Len(net) + 1] = [boot |-> boot + 1, seq |-> 0]
          /\ \A i \in 1..Len(net) : Pending'[i] = Pending[i]
      BY <2>3 DEF Reboot, LinkTypeOK, Pending, Beat
    <3>3. \A i \in 1..Len(net) : Follows(Pending[i], Pending[i + 1])'
      <4> TAKE i \in 1..Len(net)
      <4>1. Pending[i + 1].boot >= Pending[i].boot
        BY PendingTypes DEF Ordered, Follows, Beat
      <4>2. CASE i + 1 \in 1..Len(net)
        BY <2>3, <4>2, <3>2 DEF Ordered, Follows, Reboot, historyVars
      <4>3. CASE i = Len(net)
        BY SMTT(60), <4>1, <4>3, <3>2, PendingTypes DEF Follows, Beat, LinkTypeOK
      <4> QED
        BY <4>2, <4>3, PendingTypes
    <3>4. HeadMatches(Pending[1])'
      <4>1. CASE Len(net) = 0
        BY <2>3, <3>2, <4>1, PendingTypes
        DEF Reboot, listenerVars, historyVars, Ordered, HeadMatches, LinkTypeOK
      <4>2. CASE Len(net) > 0
        BY <2>3, <3>2, <4>2, PendingTypes
        DEF Reboot, listenerVars, historyVars, Ordered, HeadMatches
      <4> QED
        BY <4>1, <4>2, PendingTypes
    <3> QED
      BY <2>3, <3>1, <3>3, <3>4 DEF Reboot, Ordered
  <2>4. CASE DropHead
    <3>1. MissedCounted'
      BY <2>4 DEF DropHead, MissedCounted
    <3>2. /\ Len(net) > 0 /\ Len(net') = Len(net) - 1
          /\ \A i \in 1..Len(net) : Pending'[i] = Pending[i + 1]
      BY <2>4, PendingTail, PendingTypes DEF DropHead, LinkTypeOK
    <3>3. \A i \in 1..Len(net') : Follows(Pending[i], Pending[i + 1])'
      BY <2>4, <3>2, PendingTypes DEF DropHead, Ordered, Follows
    <3>4. HeadMatches(Pending[1])'
      <4>1. Follows(Pending[1], Pending[2]) /\ HeadMatches(Pending[1])
        BY <3>2, PendingTypes DEF Ordered
      <4>2. Pending'[1] = Pending[2]
        BY <3>2, PendingTypes
      <4>3. Pending[1] \in Beat /\ Pending[2] \in Beat
        BY <3>2, PendingTypes
      <4>4. /\ dropped' = dropped + 1 /\ restarts' = restarts
            /\ lastBoot' = lastBoot /\ lastSeq' = lastSeq
        BY <2>4 DEF DropHead, listenerVars
      <4>5. dropped \in Nat /\ lastSeq \in Nat /\ lastBoot \in Nat /\ restarts \in Nat
        BY DEF LinkTypeOK
      <4>6. Pending[2].boot >= Pending[1].boot
        BY <4>1, <4>3 DEF Follows, Beat
      <4> DEFINE a == Pending[1]
                 b == Pending[2]
      <4>7. a \in Beat /\ b \in Beat /\ Follows(a, b) /\ HeadMatches(a) /\ b.boot >= a.boot
        BY <4>1, <4>3, <4>6
      <4> HIDE DEF a, b
      <4>8. b.boot >= lastBoot
        BY <4>5, <4>7 DEF HeadMatches, Beat
      <4>9. ASSUME b.boot = lastBoot
            PROVE  \/ b.seq = lastSeq + (dropped + 1) + 1
                   \/ restarts > 0 /\ b.seq <= dropped + 1
        BY <4>5, <4>7, <4>9 DEF HeadMatches, Follows, Beat
      <4>10. Pending'[1] = b
        BY <4>2 DEF b
      <4> QED
        BY <4>4, <4>8, <4>9, <4>10 DEF HeadMatches
    <3> QED
      BY <3>1, <3>3, <3>4 DEF Ordered
  <2>5. CASE RepeatHead
    BY <2>5 DEF RepeatHead, LinkTypeOK
  <2>6. CASE SwapHead
    BY <2>6 DEF SwapHead, LinkTypeOK
  <2>7. CASE ReceiveBeat
    <3>2. /\ Len(net) > 0 /\ Len(net') = Len(net) - 1
          /\ \A i \in 1..Len(net) : Pending'[i] = Pending[i + 1]
          /\ Pending[1] = Head(net)
      BY <2>7, PendingTail, PendingTypes DEF ReceiveBeat, LinkTypeOK
    <3>3. \A i \in 1..Len(net') : Follows(Pending[i], Pending[i + 1])'
      BY <2>7, <3>2, PendingTypes DEF ReceiveBeat, Ordered, Follows
    <3>4. HeadMatches(Pending[1])'
      <4>1. Follows(Pending[1], Pending[2])
        BY <3>2, PendingTypes DEF Ordered
      <4>2. Pending'[1] = Pending[2] /\ Pending[1] \in Beat /\ Pending[2] \in Beat
        BY <3>2, PendingTypes
      <4>3. /\ dropped' = 0 /\ restarts' = restarts
            /\ lastBoot' = Pending[1].boot /\ lastSeq' = Pending[1].seq
        BY <2>7, <3>2 DEF ReceiveBeat
      <4> QED
        BY <4>1, <4>2, <4>3 DEF HeadMatches, Follows, Beat
    <3>5. MissedCounted'
      <4>1. HeadMatches(Head(net)) /\ Head(net) \in Beat
        BY <3>2, PendingTypes DEF Ordered
      <4>2. CASE Head(net).boot = lastBoot
        <5>1. missed' = missed + dropped /\ restarts' = restarts
          BY <2>7, <4>2 DEF ReceiveBeat
        <5>2. \/ gaps' = gaps + dropped
              \/ restarts > 0 /\ gaps' <= gaps + dropped
          <6> DEFINE b == Head(net)
          <6>1. /\ b \in Beat /\ HeadMatches(b) /\ b.boot = lastBoot
                /\ gaps' = gaps + SequenceGap(b)
            BY <2>7, <4>1, <4>2 DEF ReceiveBeat
          <6>2. gaps \in Nat /\ dropped \in Nat /\ lastSeq \in Nat /\ restarts \in Nat
            BY DEF LinkTypeOK
          <6> HIDE DEF b
          <6>3. SequenceGap(b) = IF b.seq > lastSeq THEN b.seq - lastSeq - 1 ELSE 0
            BY <6>1 DEF SequenceGap, BootIdChanged, Beat, NoBoot
          <6> QED
            BY <6>1, <6>2, <6>3 DEF HeadMatches, Beat
        <5>3. gaps \in Nat /\ missed \in Nat /\ dropped \in Nat /\ gaps' \in Nat
          BY SMTT(60), <2>7, <4>1 DEF LinkTypeOK, ReceiveBeat, SequenceGap, Beat
        <5> QED
          BY <5>1, <5>2, <5>3 DEF MissedCounted, LinkTypeOK
      <4>3. CASE Head(net).boot # lastBoot
        BY <2>7, <4>3 DEF ReceiveBeat, SequenceGap, BootIdChanged, MissedCounted,
           LinkTypeOK
      <4> QED
        BY <4>2, <4>3
    <3> QED
      BY <3>3, <3>4, <3>5 DEF Ordered
  <2>8. CASE ReceiveNoise \/ TimeOut \/ ListenerEnds \/ TickLink \/ UNCHANGED linkVars
    BY <2>8 DEF ReceiveNoise, TimeOut, ListenerEnds, TickLink, linkVars,
       senderVars, listenerVars, historyVars, Ordered, MissedCounted, Pending,
       Follows, HeadMatches
  <2> QED
    BY <2>1, <2>2, <2>3, <2>4, <2>5, <2>6, <2>7, <2>8 DEF LinkNext
<1>3. GapInv => GapsAreLosses
  BY DEF GapInv, MissedCounted, GapsAreLosses
<1> QED
  BY <1>1, <1>2, <1>3, LinkTypes, PTL DEF LinkSpec

\* A dead board is noticed within the timeouts that DetectedInTime names.
THEOREM LossDetected == LinkSpec => []DetectedInTime
<1> USE TimeoutAssumption
<1>1. LinkInit => TimeInv
  BY DEF LinkInit, TimeInv
<1>2. LinkTypeOK /\ TimeInv /\ [LinkNext]_linkVars => TimeInv'
  <2> SUFFICES ASSUME LinkTypeOK, TimeInv, [LinkNext]_linkVars PROVE TimeInv'
    OBVIOUS
  <2>1. CASE ReceiveNoise
    <3>1. Timeout * (noise + 1) = Timeout * noise + Timeout
      BY DEF LinkTypeOK
    <3>2. Timeout * noise \in Nat
      BY DEF LinkTypeOK
    <3> QED
      BY <2>1, <3>1, <3>2 DEF ReceiveNoise, TimeInv, LinkTypeOK
  <2>2. CASE TickLink
    <3>1. Timeout * noise \in Nat
      BY DEF LinkTypeOK
    <3> QED
      BY <2>2, <3>1 DEF TickLink, TimeInv, LinkTypeOK
  <2>3. CASE ReceiveBeat
    BY <2>3 DEF ReceiveBeat, TimeInv
  <2>4. CASE TimeOut
    BY <2>4 DEF TimeOut, TimeInv
  <2>5. CASE \/ SendBeat \/ RestartSender \/ Reboot \/ DropHead \/ RepeatHead
             \/ SwapHead \/ ListenerEnds \/ UNCHANGED linkVars
    BY <2>5 DEF SendBeat, RestartSender, Reboot, DropHead, RepeatHead, SwapHead,
       ListenerEnds, linkVars, listenerVars, historyVars, TimeInv
  <2> QED
    BY <2>1, <2>2, <2>3, <2>4, <2>5 DEF LinkNext
<1>3. LinkTypeOK /\ TimeInv => DetectedInTime
  <2>1. LinkTypeOK => Timeout * (1 + noise) = Timeout * noise + Timeout
    BY DEF LinkTypeOK
  <2>2. LinkTypeOK => Timeout * noise \in Nat
    BY DEF LinkTypeOK
  <2> QED
    BY <2>1, <2>2 DEF TimeInv, DetectedInTime, LinkTypeOK
<1> QED
  BY <1>1, <1>2, <1>3, LinkTypes, PTL DEF LinkSpec

\* HEARTBEAT_LOST never follows a shorter silence than NoFalseAlarm says,
\* whatever the timeout.
THEOREM LossIsReal == LinkSpec => NoFalseAlarm
<1> USE TimeoutAssumption
<1>1. LinkInit => SilenceInv
  BY DEF LinkInit, SilenceInv
<1>2. LinkTypeOK /\ SilenceInv /\ [LinkNext]_linkVars => SilenceInv'
  <2> SUFFICES ASSUME LinkTypeOK, SilenceInv, [LinkNext]_linkVars
               PROVE  SilenceInv'
    OBVIOUS
  <2>1. CASE ReceiveBeat
    BY <2>1 DEF ReceiveBeat, SilenceInv
  <2>2. CASE ReceiveNoise
    BY <2>2 DEF ReceiveNoise, SilenceInv, LinkTypeOK
  <2>3. CASE TimeOut
    BY <2>3 DEF TimeOut, SilenceInv
  <2>4. CASE TickLink
    BY <2>4 DEF TickLink, SilenceInv, LinkTypeOK
  <2>5. CASE \/ SendBeat \/ RestartSender \/ Reboot \/ DropHead \/ RepeatHead
             \/ SwapHead \/ ListenerEnds \/ UNCHANGED linkVars
    BY <2>5 DEF SendBeat, RestartSender, Reboot, DropHead, RepeatHead, SwapHead,
       ListenerEnds, linkVars, listenerVars, historyVars, SilenceInv
  <2> QED
    BY <2>1, <2>2, <2>3, <2>4, <2>5 DEF LinkNext
<1>3. LinkTypeOK /\ SilenceInv /\ [LinkNext]_linkVars
        => [alive /\ ~alive' => sinceBeat >= Timeout]_linkVars
  <2> SUFFICES ASSUME LinkTypeOK, SilenceInv, [LinkNext]_linkVars,
                      alive, ~alive'
               PROVE  sinceBeat >= Timeout
    OBVIOUS
  <2>1. TimeOut
    BY Zenon DEF LinkNext, linkVars, listenerVars, SendBeat, RestartSender,
       Reboot, DropHead, RepeatHead, SwapHead, ReceiveBeat, ReceiveNoise,
       ListenerEnds, TickLink
  <2> QED
    BY <2>1 DEF TimeOut, SilenceInv, LinkTypeOK
<1> QED
  BY <1>1, <1>2, <1>3, LinkTypes, PTL DEF LinkSpec, NoFalseAlarm
=============================================================================
