-------------------------------- MODULE Rdp --------------------------------
(***************************************************************************)
(* One direction of a connection of the datagram transport (rdp/src): the  *)
(* Sender of one end point and the Receiver of the other, with the threads *)
(* that read the network (_R), write it (_W) and post packets (_I), over a *)
(* network that loses, repeats and reorders.                               *)
(*                                                                         *)
(* Time is left to choice: a deadline passes at any moment after it is     *)
(* set.  A datagram has room for one packet, or for none when the band     *)
(* width is short; there is one ordering channel.  Packets of the kind     *)
(* kOrderable and split packets are left out.                              *)
(***************************************************************************)
EXTENDS Integers, Sequences, FiniteSets, SequencesExt

CONSTANTS
  Posts,            \* the kinds of the packets that are posted, in order
  Window,           \* 0x7fff: a number further ahead is taken for an old one
  MaxData,          \* bounds: the datagrams under way at a time,
  MaxUnread,        \*   those of ranges and what the receiver has not handled,
  MaxFaults         \*   what the network loses or repeats, and writes without room

Kind == {"unreliable", "sequence", "reliable", "realtime"}

ASSUME RdpAssumption ==
  /\ Posts \in Seq(Kind)
  /\ {Window, MaxData, MaxUnread, MaxFaults} \subseteq Nat

Reliable == {"reliable", "realtime"}
Sequenced == {"sequence", "realtime"}

VARIABLES
  \* the sender
  sendQueue,        \* sendPacketSet_: the packets that have no number yet
  orderingIndex,    \* waitingForSequencedPacketWriteIndex_
  messageNumber,    \* messageNumber_
  resendQueue,      \* resendQueue_, its mark, and whether its time has passed
  acks, nacks,      \* the numbers in ackRangeQueue_ and nackRangeQueue_
  \* the network
  data, feedback,   \* the packets and the ranges under way
  faults,           \* how often a datagram was lost, repeated or short of room
  \* the receiver
  base,             \* receivedPacketsBaseIndex_
  slots,            \* expiredPacketTimes_: whether each number from base is here
  ackQueue, nackQueue, receivedQueue,
  ackRanges, nackRanges,
  sequencedIndex,   \* waitingForSequencedPacketReadIndex_
  output,           \* what outputer_ has been given
  arrived           \* the numbers that have reached the receiver

sender == <<sendQueue, orderingIndex, messageNumber, resendQueue, acks, nacks>>
network == <<data, feedback, faults>>
reading == <<base, slots, ackQueue, nackQueue, receivedQueue, arrived>>
writing == <<ackRanges, nackRanges, sequencedIndex, output>>
rdp_vars == <<sender, network, reading, writing>>

Number == 0 .. Len(Posts)
Packet == [num : Number, kind : Kind, index : Number]
Ranges == Seq(Number \X Number)

RdpTypeOK ==
  /\ sendQueue \in Seq([kind : Kind, index : Number])
  /\ {orderingIndex, messageNumber, base, sequencedIndex} \subseteq Number
  /\ resendQueue \in Seq([packet : Packet, mark : BOOLEAN, due : BOOLEAN])
  /\ acks \subseteq Number /\ nacks \subseteq Number
  /\ data \subseteq Packet /\ feedback \subseteq [acks : Ranges, nacks : Ranges]
  /\ faults \in 0 .. MaxFaults /\ arrived \subseteq Number
  /\ slots \in Seq(BOOLEAN) /\ base + Len(slots) <= messageNumber
  /\ ackQueue \in Seq(Number) /\ nackQueue \in Seq(Number)
  /\ receivedQueue \in Seq(Packet) /\ output \in Seq(Packet)
  /\ ackRanges \in Ranges /\ nackRanges \in Ranges

RdpInit ==
  /\ sendQueue = << >> /\ orderingIndex = 0 /\ messageNumber = 0
  /\ resendQueue = << >> /\ acks = {} /\ nacks = {}
  /\ data = {} /\ feedback = {} /\ faults = 0
  /\ base = 0 /\ slots = << >> /\ arrived = {}
  /\ ackQueue = << >> /\ nackQueue = << >> /\ receivedQueue = << >>
  /\ ackRanges = << >> /\ nackRanges = << >>
  /\ sequencedIndex = 0 /\ output = << >>

-----------------------------------------------------------------------------
(* RangeList *)

Numbers(ranges) == UNION {r[1] .. r[2] : r \in Range(ranges)}

\* The order of pairs, by which std::upper_bound looks.
Before(r, s) == r[1] < s[1] \/ (r[1] = s[1] /\ r[2] < s[2])

\* MUTANT: only ranges that overlap are joined.
ReachesInto(last, first) == first <= last

\* A range that ends with last joins one that starts with first.
Reaches(last, first) == first <= last + 1

\* What std::upper_bound answers: the first of the places, or the end.
FirstOf(places, n) == Min(places \cup {n + 1})

\* RangeList::insert: the range may join the one before and those after it.
Insert(ranges, range) ==
  LET n == Len(ranges)
      pos == FirstOf({i \in 1 .. n : Before(range, ranges[i])}, n)
      touches == pos <= n /\ Reaches(range[2], ranges[pos][1])
      iter == IF touches THEN FirstOf({i \in pos .. n : range[2] <= ranges[i][2]}, n)
              ELSE pos
      joins == pos > 1 /\ Reaches(ranges[pos - 1][2], range[1])
      first == IF joins THEN ranges[pos - 1][1] ELSE range[1]
      second == CASE touches /\ iter <= n -> ranges[iter][2]
                  [] ~touches /\ joins /\ ranges[pos - 1][2] > range[2] ->
                       ranges[pos - 1][2]
                  [] OTHER -> range[2]
  IN SubSeq(ranges, 1, IF joins THEN pos - 2 ELSE pos - 1)
       \o <<<<first, second>>>>
       \o SubSeq(ranges, IF touches THEN iter + 1 ELSE pos, n)

InsertAll(ranges, numbers) ==
  LET after[i \in 0 .. Len(numbers)] ==
        IF i = 0 THEN ranges ELSE Insert(after[i - 1], <<numbers[i], numbers[i]>>)
  IN after[Len(numbers)]

-----------------------------------------------------------------------------
(* The sender *)

\* sendPacket_I: a sequenced packet gets its place.
SendPacket ==
  /\ messageNumber + Len(sendQueue) < Len(Posts) /\ Len(sendQueue) < MaxUnread
  /\ LET k == Posts[messageNumber + Len(sendQueue) + 1]
     IN /\ sendQueue' = Append(sendQueue, [kind |-> k,
                           index |-> IF k \in Sequenced THEN orderingIndex ELSE 0])
        /\ orderingIndex' = orderingIndex + (IF k \in Sequenced THEN 1 ELSE 0)
  /\ UNCHANGED <<messageNumber, resendQueue, acks, nacks, network, reading, writing>>

\* onAcks_R, called by readAks_R.
OnAcks(d) ==
  /\ acks' = acks \cup Numbers(d.acks)
  /\ nacks' = nacks \cup Numbers(d.nacks)
  /\ UNCHANGED <<sendQueue, orderingIndex, messageNumber, resendQueue, reading,
                 writing>>

\* markResend_W sets the one mark there is, for the numbers that have been
\* received and then for those that are missed.
Marks == acks \cup nacks

\* The packets to look at whose time has not been seen to pass.
Waiting == {e.packet.num : e \in {x \in Range(resendQueue) : ~x.due}}

\* Mutant of ToErase: a packet whose time has passed is given up, of whatever kind.
ToEraseLate(e) == IF e.packet.kind \in Reliable THEN e.mark \/ e.due ELSE e.due

\* The two decisions of writePackets_W about a packet it may have to resend.
ToErase(e) == IF e.packet.kind \in Reliable THEN e.mark ELSE e.due
Resend(e) == IF e.packet.kind \in Reliable THEN e.due ELSE e.mark

\* One packet of the resend queue, while the datagram has room; late tells of
\* which packets the time has passed.  Nobody looks at those after the first
\* that does not fit.
Scan(s, waiting, late) ==
  LET e == [waiting EXCEPT !.mark = @ \/ waiting.packet.num \in Marks]
      now == [e EXCEPT !.due = @ \/ e.packet.num \in late]
      reset == [now EXCEPT !.mark = FALSE, !.due = FALSE]
  IN IF s.full THEN [s EXCEPT !.queue = Append(@, e)]
     ELSE IF ToErase(now) THEN s
     ELSE IF ~Resend(now) THEN [s EXCEPT !.queue = Append(@, now)]
     ELSE IF s.room = 0 THEN [s EXCEPT !.full = TRUE, !.queue = Append(@, now)]
     ELSE [s EXCEPT !.room = @ - 1, !.queue = Append(@, reset), !.sent = @ \cup {now.packet}]

\* writePackets_W: it erases and resends until the datagram is full, and only
\* then, if it still has room, gives the next packet its number.
WritePackets(room, late) ==
  LET scan[i \in 0 .. Len(resendQueue)] ==
        IF i = 0 THEN [queue |-> << >>, sent |-> {}, room |-> room, full |-> FALSE]
        ELSE Scan(scan[i - 1], resendQueue[i], late)
      packet == [num |-> messageNumber, kind |-> Head(sendQueue).kind,
                 index |-> Head(sendQueue).index]
      first == [packet |-> packet, mark |-> FALSE, due |-> FALSE]
  IN \E s \in {scan[Len(resendQueue)]} :
     /\ acks' = {} /\ nacks' = {}
     /\ IF s.full \/ s.room = 0 \/ sendQueue = << >>
        THEN /\ resendQueue' = s.queue /\ data' = data \cup s.sent
             /\ UNCHANGED <<sendQueue, messageNumber>>
        ELSE /\ resendQueue' = Append(s.queue, first) /\ data' = data \cup {packet}
             /\ sendQueue' = Tail(sendQueue) /\ messageNumber' = messageNumber + 1
     /\ Cardinality(data') <= MaxData
     /\ faults' = faults + 1 - room /\ faults' <= MaxFaults
     /\ UNCHANGED <<orderingIndex, feedback, reading, writing>>

WriteSome == \E room \in 0 .. 1 : \E late \in SUBSET Waiting : WritePackets(room, late)

\* A write that has room, when the time of some packet has passed.
WriteLate ==
  \E late \in SUBSET Waiting :
    (late # {} \/ \E e \in Range(resendQueue) : e.due) /\ WritePackets(1, late)

-----------------------------------------------------------------------------
(* The receiver *)

\* MUTANT: a packet for a hole is taken without a look at whether it is here.
RepeatedUnseen(hole) == hole < 0 \/ hole > Window

\* onReceived_R takes a packet for a repeated one: by its number, or because
\* its place is filled.
Repeated(hole) ==
  \/ hole < 0 \/ hole > Window
  \/ 0 < hole /\ hole < Len(slots) /\ slots[hole + 1]

\* The places once number base + hole is here: those it skips become holes.
Filled(hole) ==
  IF hole < Len(slots) THEN [slots EXCEPT ![hole + 1] = TRUE]
  ELSE IF hole = 0 THEN << >>
  ELSE slots \o [i \in 1 .. hole - Len(slots) + 1 |-> i = hole - Len(slots) + 1]

\* MUTANT: only what has not arrived before is acknowledged.
AcknowledgedOnce(p, hole) ==
  IF p.kind \in Reliable /\ ~Repeated(hole) THEN Append(ackQueue, p.num) ELSE ackQueue

\* A reliable packet is acknowledged, also when it has arrived before.
Acknowledged(p, hole) ==
  IF p.kind \in Reliable THEN Append(ackQueue, p.num) ELSE ackQueue

\* A set of numbers, in ascending order.
Listings(asked) ==
  {s \in [1 .. Cardinality(asked) -> asked] : \A i, j \in DOMAIN s : i < j => s[i] < s[j]}

\* onReceived_R for one packet.  A hole expires by the time it was made, so the
\* first of the older ones do; the base moves past what is here or expired.  The
\* others may be asked for, if it is not too late and was not done just now.
Receive(p) ==
  LET hole == p.num - base
      filled == Filled(hole)
      from == IF hole = 0 /\ slots = << >> THEN base + 1 ELSE base
  IN /\ Len(receivedQueue) < MaxUnread /\ Len(ackQueue) < MaxUnread
     /\ arrived' = arrived \cup {p.num}
     /\ ackQueue' = Acknowledged(p, hole)
     /\ IF Repeated(hole) THEN UNCHANGED <<base, slots, nackQueue, receivedQueue>>
        ELSE \E expired \in 0 .. Len(slots) :
               LET holes == {i \in DOMAIN filled : ~filled[i] /\ i > expired}
                   n == FirstOf(holes, Len(filled)) - 1
               IN /\ expired > 0 => ~slots[expired]
                  /\ receivedQueue' = Append(receivedQueue, p)
                  /\ base' = from + n
                  /\ slots' = SubSeq(filled, n + 1, Len(filled))
                  /\ \E asked \in SUBSET {from + i - 1 : i \in holes} :
                       /\ Len(nackQueue) + Cardinality(asked) <= MaxUnread
                       /\ \E listed \in Listings(asked) : nackQueue' = nackQueue \o listed

\* handleAcks and handlePackets of update_W: a sequenced packet that comes after
\* a later one is dropped.
Update_W ==
  LET Output(s, p) ==
        IF p.kind \notin Sequenced THEN [s EXCEPT !.out = Append(@, p)]
        ELSE IF p.index >= s.next
        THEN [next |-> p.index + 1, out |-> Append(s.out, p)]
        ELSE s
      after[i \in 0 .. Len(receivedQueue)] ==
        IF i = 0 THEN [next |-> sequencedIndex, out |-> output]
        ELSE Output(after[i - 1], receivedQueue[i])
      s == after[Len(receivedQueue)]
  IN /\ ackQueue \o nackQueue \o receivedQueue # << >>
     /\ ackRanges' = InsertAll(ackRanges, ackQueue)
     /\ nackRanges' = InsertAll(nackRanges, nackQueue)
     /\ sequencedIndex' = s.next /\ output' = s.out
     /\ ackQueue' = << >> /\ nackQueue' = << >> /\ receivedQueue' = << >>
     /\ UNCHANGED <<sender, network, base, slots, arrived>>

\* writeAcks_W: both lists are written and cleared, or the second does not fit
\* and what was written of the first is taken back.
WriteAcks ==
  /\ ackRanges \o nackRanges # << >>
  /\ ackRanges' = << >>
  /\ \/ /\ Cardinality(feedback) < MaxUnread
        /\ feedback' = feedback \cup {[acks |-> ackRanges, nacks |-> nackRanges]}
        /\ nackRanges' = << >>
        /\ faults' = faults
     \/ /\ nackRanges # << >>
        /\ faults < MaxFaults /\ faults' = faults + 1
        /\ UNCHANGED <<feedback, nackRanges>>
  /\ UNCHANGED <<sender, data, reading, sequencedIndex, output>>

-----------------------------------------------------------------------------
(* The network *)

\* A datagram arrives, and is gone or, as a fault, arrives again.
Arrive(d, datagrams) ==
  \/ datagrams' = datagrams \ {d} /\ faults' = faults
  \/ datagrams' = datagrams /\ faults < MaxFaults /\ faults' = faults + 1

DeliverData(p) ==
  p \in data /\ Arrive(p, data) /\ Receive(p) /\ UNCHANGED <<sender, feedback, writing>>

DeliverFeedback(d) ==
  d \in feedback /\ Arrive(d, feedback) /\ OnAcks(d) /\ UNCHANGED data

Lose ==
  /\ faults < MaxFaults /\ faults' = faults + 1
  /\ \/ (\E p \in data : data' = data \ {p}) /\ UNCHANGED feedback
     \/ (\E d \in feedback : feedback' = feedback \ {d}) /\ UNCHANGED data
  /\ UNCHANGED <<sender, reading, writing>>

DeliverAnyData == \E p \in data : DeliverData(p)
DeliverAnyFeedback == \E d \in feedback : DeliverFeedback(d)

RdpNext ==
  \/ SendPacket
  \/ WriteSome
  \/ DeliverAnyData
  \/ DeliverAnyFeedback
  \/ Lose
  \/ Update_W
  \/ WriteAcks

RdpSafeSpec == RdpInit /\ [][RdpNext]_rdp_vars

\* Deadlines pass, the threads go on writing, the band width lets a packet
\* through again and again, and what is not lost arrives.
RdpFairness ==
  /\ WF_rdp_vars(WriteLate) /\ WF_rdp_vars(Update_W) /\ WF_rdp_vars(WriteAcks)
  /\ WF_rdp_vars(DeliverAnyData) /\ WF_rdp_vars(DeliverAnyFeedback)

RdpSpec == RdpSafeSpec /\ RdpFairness

-----------------------------------------------------------------------------
(* Properties *)

\* A packet is handed out at most once however often it arrives, and those of a
\* sequenced kind only in the order in which they were posted, over repeats,
\* losses and holes that have expired (rdp_receiver.cpp:158-231, 253-289).
OnceInOrder ==
  LET all == output \o receivedQueue
  IN /\ RdpTypeOK
     /\ \A i, j \in DOMAIN all : all[i].num = all[j].num => i = j
     /\ \A i, j \in DOMAIN output :
          i < j /\ {output[i].kind, output[j].kind} \subseteq Sequenced =>
            output[i].index < output[j].index

\* The ranges of acknowledged and of missed numbers stay sorted and apart, which
\* is what markResend_W and the length of a datagram rely on, and one more
\* number in any order adds itself only (rdp_rangelist.hpp:15-99).
RangesExact ==
  \A ranges \in {ackRanges, nackRanges} : \A n \in Number :
    LET more == Insert(ranges, <<n, n>>)
    IN /\ Numbers(more) = Numbers(ranges) \cup {n}
       /\ \A i \in DOMAIN more : more[i][1] <= more[i][2]
       /\ \A i \in 2 .. Len(more) : more[i - 1][2] + 1 < more[i][1]

\* No packet is resent for ever: once nothing is posted and the network fails no
\* more, the resend queue empties, also when the acknowledgement of the first
\* copy of a packet was lost and the receiver knows the second for a repeated
\* one (rdp_sender.cpp:60-99, rdp_receiver.cpp:178).
ResendEnds == []<>(resendQueue = << >>)

\* A reliable packet leaves the resend queue only when it has arrived, or a later
\* one has, so that the receiver may have asked for it: as long as the receiver
\* has seen nothing beyond it, its time may pass as often as it will, and
\* acknowledgements and requests for others may come late, twice or not at all.
KeptUntilPassed ==
  [][\A e \in Range(resendQueue) :
       e.packet.kind \in Reliable /\ (\A n \in arrived : n < e.packet.num) =>
         \E f \in Range(resendQueue') : f.packet = e.packet]_rdp_vars

\* What rdp_sender.hpp:16 says of the two lists, that acks clear a packet from
\* the resend queue and nacks force it to be resent: a reliable packet leaves
\* the queue only when it has arrived.
ReliableKept ==
  [][\A e \in Range(resendQueue) :
       e.packet.kind \in Reliable /\ e.packet.num \notin arrived =>
         \E f \in Range(resendQueue') : f.packet = e.packet]_rdp_vars

=============================================================================
